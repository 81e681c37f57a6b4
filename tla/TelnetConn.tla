----------------------------- MODULE TelnetConn -----------------------------
(***************************************************************************)
(* hw11_telnet_client/client/telnet.go: what Send and Receive of one       *)
(* Telnet share, and the peer at the other end of the connection.          *)
(***************************************************************************)
EXTENDS Integers, Sequences

VARIABLES
  conn,      \* "none" before Connect; "open"; "eof" and "reset" are the peer's
             \* doing; "closed" after our Close
  stop,      \* t.stopChan is closed
  crashed    \* a goroutine panicked, the process is gone

connVars == <<conn, stop, crashed>>

ConnInit == conn = "none" /\ stop = FALSE /\ crashed = FALSE

Connect ==
  /\ conn = "none"
  /\ conn' = "open"
  /\ UNCHANGED <<stop, crashed>>

\* The peer shuts the connection down, in order or not.
PeerLeaves ==
  /\ conn = "open"
  /\ conn' \in {"eof", "reset"}
  /\ UNCHANGED <<stop, crashed>>

\* Close: the stop channel first, the connection after it.
CloseStop ==
  /\ conn # "none" /\ ~stop
  /\ stop' = TRUE
  /\ UNCHANGED <<conn, crashed>>

CloseConn ==
  /\ stop /\ conn # "closed"
  /\ conn' = "closed"
  /\ UNCHANGED <<stop, crashed>>

Panic == crashed' = TRUE /\ UNCHANGED <<conn, stop>>

\* A caller that may close at any time, and the peer.
Peers == Connect \/ PeerLeaves \/ CloseStop \/ CloseConn

Running == ~crashed /\ conn # "none"
ConnTypeOK ==
  /\ conn \in {"none", "open", "eof", "reset", "closed"}
  /\ stop \in BOOLEAN /\ crashed \in BOOLEAN
=============================================================================
