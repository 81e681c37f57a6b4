---------------------------- MODULE TelnetReceive ----------------------------
(***************************************************************************)
(* Telnet.Receive: a read worker takes the messages 1..Msgs of the peer off*)
(* the connection and hands each over an unbuffered messageChan to the     *)
(* select loop, which writes it out. A read error waits in                 *)
(* readWorkerErrorsChan, which has room for one.                           *)
(***************************************************************************)
EXTENDS TelnetConn

CONSTANT Msgs   \* number of messages the peer may send

ASSUME MsgsAssumption == Msgs \in Nat

VARIABLES
  sent,        \* messages the peer sent so far
  got,         \* messages the read worker took so far
  rxReader,    \* read worker: "poll", "read", "pass", "close", "half", "exited"
  rxEnd,       \* what ended it: "no", "eof", "reset", "closed" (by our Close)
  errBuf,      \* an error lies in readWorkerErrorsChan
  rx,          \* Receive: "select" or "returned"
  rxResult,    \* "none", "nil", "read" or "out" (the errors)
  out          \* messages written out, in order

rxReaderVars == <<got, rxReader, rxEnd>>
rxVars == <<sent, rxReaderVars, errBuf, rx, rxResult, out>>

ReceiveInit ==
  /\ sent = 0 /\ got = 0
  /\ rxReader = "poll" /\ rxEnd = "no" /\ errBuf = FALSE
  /\ rx = "select" /\ rxResult = "none"
  /\ out = <<>>

PeerSends ==
  /\ conn = "open" /\ sent < Msgs
  /\ sent' = sent + 1
  /\ UNCHANGED <<connVars, rxReaderVars, errBuf, rx, rxResult, out>>
-----------------------------------------------------------------------------
RxPoll ==
  /\ rxReader = "poll"
  /\ rxReader' = IF rx = "returned" THEN "close" ELSE "read"
  /\ UNCHANGED <<connVars, sent, got, rxEnd, errBuf, rx, rxResult, out>>

\* Mutant: a read of nothing counts as a message.
RxReadNothing ==
  /\ rxReader = "read" /\ conn \in {"open", "eof"} /\ got <= sent
  /\ got' = got + 1
  /\ rxReader' = "pass"
  /\ UNCHANGED <<connVars, sent, rxEnd, errBuf, rx, rxResult, out>>

\* What the peer sent before it left in order can still be read.
RxRead ==
  /\ rxReader = "read" /\ conn \in {"open", "eof"} /\ got < sent
  /\ got' = got + 1
  /\ rxReader' = "pass"
  /\ UNCHANGED <<connVars, sent, rxEnd, errBuf, rx, rxResult, out>>

\* Mutant: io.EOF is reported like any other error.
RxReadEndsLoud ==
  /\ rxReader = "read"
  /\ conn \in {"reset", "closed"} \/ (conn = "eof" /\ got = sent)
  /\ rxEnd' = conn
  /\ errBuf' = TRUE
  /\ rxReader' = "close"
  /\ UNCHANGED <<connVars, sent, got, rx, rxResult, out>>

\* Mutant: io.EOF means no data yet, the worker goes round again.
RxReadEndsRetried ==
  /\ rxReader = "read"
  /\ conn \in {"reset", "closed"} \/ (conn = "eof" /\ got = sent)
  /\ rxEnd' = IF conn = "eof" THEN rxEnd ELSE conn
  /\ errBuf' = (conn # "eof")
  /\ rxReader' = IF conn = "eof" THEN "poll" ELSE "close"
  /\ UNCHANGED <<connVars, sent, got, rx, rxResult, out>>

\* Every error but io.EOF goes to the buffer, which is empty: no wait.
RxReadEnds ==
  /\ rxReader = "read"
  /\ conn \in {"reset", "closed"} \/ (conn = "eof" /\ got = sent)
  /\ rxEnd' = conn
  /\ errBuf' = (conn # "eof")
  /\ rxReader' = "close"
  /\ UNCHANGED <<connVars, sent, got, rx, rxResult, out>>

\* The deferred calls: close(readWorkerErrorsChan), then close(messageChan).
RxReaderCloses ==
  /\ rxReader \in {"close", "half"}
  /\ rxReader' = IF rxReader = "close" THEN "half" ELSE "exited"
  /\ UNCHANGED <<connVars, sent, got, rxEnd, errBuf, rx, rxResult, out>>
-----------------------------------------------------------------------------
\* Receive's select, case by case. Receive returns with its stopChan closed.
RxReturn(result) ==
  /\ rx = "select"
  /\ rx' = "returned"
  /\ rxResult' = result
  /\ UNCHANGED <<connVars, sent>>

\* Mutant: the select has no case for t.stopChan.
RxNilUnstoppable ==
  /\ rxReader = "exited" \/ (rxReader = "half" /\ ~errBuf)
  /\ RxReturn("nil")
  /\ UNCHANGED <<rxReaderVars, errBuf, out>>

\* <-t.stopChan; the error channel closed and empty; messageChan closed, which
\* wins over an error still in its buffer when the select picks it.
RxNil ==
  /\ \/ stop
     \/ rxReader \in {"half", "exited"} /\ ~errBuf
     \/ rxReader = "exited"
  /\ RxReturn("nil")
  /\ UNCHANGED <<rxReaderVars, errBuf, out>>

RxReadError ==
  /\ errBuf
  /\ RxReturn("read")
  /\ errBuf' = FALSE
  /\ UNCHANGED <<rxReaderVars, out>>

\* Mutant: an error of the write is ignored.
RxMessageUnwritten ==
  /\ rx = "select" /\ rxReader = "pass"
  /\ rxReader' = "poll"
  /\ out' \in {out, Append(out, got)}
  /\ UNCHANGED <<connVars, sent, got, rxEnd, errBuf, rx, rxResult>>

RxMessage ==
  /\ rx = "select" /\ rxReader = "pass"
  /\ rxReader' = "poll"
  /\ out' = Append(out, got)
  /\ UNCHANGED <<connVars, sent, got, rxEnd, errBuf, rx, rxResult>>

\* The write to the output fails.
RxOutError ==
  /\ rxReader = "pass"
  /\ RxReturn("out")
  /\ rxReader' = "poll"
  /\ UNCHANGED <<got, rxEnd, errBuf, out>>

ReceiveSelect == RxNil \/ RxReadError \/ RxMessage \/ RxOutError
ReceiveReader == RxPoll \/ RxRead \/ RxReadEnds \/ RxReaderCloses
ReceiveNext == Running /\ (ReceiveReader \/ ReceiveSelect)
-----------------------------------------------------------------------------
ReceiveTypeOK ==
  /\ ConnTypeOK
  /\ sent \in 0..Msgs /\ got \in 0..sent
  /\ rxReader \in {"poll", "read", "pass", "close", "half", "exited"}
  /\ rxEnd \in {"no", "eof", "reset", "closed"}
  /\ errBuf \in BOOLEAN
  /\ rx \in {"select", "returned"}
  /\ rxResult \in {"none", "nil", "read", "out"}
  /\ out \in Seq(1..Msgs)

\* What is written out is what the peer sent, in its order, without a gap, and
\* while Receive runs nothing but the message in hand is missing from it.
OutIsPrefix ==
  /\ \A i \in 1..Len(out) : out[i] = i
  /\ rx = "select" => got = Len(out) + (IF rxReader = "pass" THEN 1 ELSE 0)

\* Once its read failed the worker takes no more, nor can the peer send more
\* after the end of its stream; an error is in the buffer only if there was one.
ReaderStops ==
  /\ rx = "select" <=> rxResult = "none"
  /\ rxEnd # "no" => rxReader \in {"close", "half", "exited"}
  /\ rxEnd = "eof" => conn \in {"eof", "closed"} /\ got = sent
  /\ errBuf => rxEnd \in {"reset", "closed"}
  /\ rxResult = "nil" /\ ~stop => rxReader \in {"half", "exited"}

\* Receive returns nil at the end of the peer's stream only after all the peer
\* sent is out, and an error only when the stream ended badly.
NilMeansAllOut ==
  /\ rxResult = "nil" /\ ~stop /\ rxEnd = "eof" => Len(out) = sent
  /\ rxResult = "read" => rxEnd \in {"reset", "closed"}

\* telnet_test.go:104-107 (TestAdditionalTelnetClient, close): after Close,
\* Receive returns no error.
CloseIsClean == rxEnd = "closed" => rxResult # "read"
=============================================================================
