---------------------------- MODULE TelnetClient ----------------------------
(***************************************************************************)
(* One Telnet of hw11's package client under any caller: Send and Receive  *)
(* run at the same time over one connection, as in telnet_test.go, while   *)
(* the peer may leave and the caller may call Close at any moment.         *)
(***************************************************************************)
EXTENDS TelnetDuplex

vars == <<connVars, txVars, rxVars>>

Init == ConnInit /\ SendInit /\ ReceiveInit

Sender   == SendNext /\ UNCHANGED rxVars
Receiver == ReceiveNext /\ UNCHANGED txVars
Outside  == ~crashed /\ \/ Peers /\ UNCHANGED <<txVars, rxVars>>
                        \/ PeerSends /\ UNCHANGED txVars

Next == Sender \/ Receiver \/ Outside

Spec == Init /\ [][Next]_vars

\* Goroutines run, and a read from the connection that finds something returns.
\* The input may stay silent for ever, so reading a line is not fair.
FairSpec ==
  /\ Spec
  /\ WF_vars(Running /\ TxSelect /\ UNCHANGED rxVars)
  /\ WF_vars(Running /\ (TxPoll \/ TxReaderCloses) /\ UNCHANGED rxVars)
  /\ \A m \in 1..Lines : WF_vars(Running /\ Writer(m) /\ UNCHANGED rxVars)
  /\ WF_vars(Running /\ ReceiveSelect /\ UNCHANGED txVars)
  /\ WF_vars(Running /\ ReceiveReader /\ UNCHANGED txVars)
-----------------------------------------------------------------------------
\* Close makes Send and Receive return, whatever their workers wait for, even
\* when the input and the connection stay silent.
CloseReturns == stop ~> (tx = "returned" /\ rx = "returned") \/ crashed

\* A peer that leaves, in order or not, makes Receive return by itself.
PeerEndsReceive == conn \in {"eof", "reset"} ~> rx = "returned" \/ crashed
=============================================================================
