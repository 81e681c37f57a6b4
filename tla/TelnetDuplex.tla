---------------------------- MODULE TelnetDuplex ----------------------------
(***************************************************************************)
(* Send and Receive of one Telnet side by side (client/telnet.go:72-176):  *)
(* what holds of both whoever called them.                                 *)
(***************************************************************************)
EXTENDS TelnetSend, TelnetReceive

\* No line is lost or doubled between the input and the wire, nor a message
\* between the connection and the output, and neither worker stops before its
\* source has ended, whatever ends Send and Receive (telnet.go:72-176).
Inv ==
  /\ SendTypeOK /\ ReceiveTypeOK
  /\ WireAccounted /\ ReaderEnds /\ OutIsPrefix /\ ReaderStops
=============================================================================
