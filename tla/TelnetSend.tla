----------------------------- MODULE TelnetSend -----------------------------
(***************************************************************************)
(* Telnet.Send: a read worker takes the lines 1..Lines of the input and    *)
(* hands each over an unbuffered messageChan to the select loop, which     *)
(* starts one goroutine per line to write it to the connection. Errors come*)
(* back over readWorkerErrorChan and writeWorkerErrorChan, both unbuffered.*)
(***************************************************************************)
EXTENDS TelnetConn

CONSTANT Lines   \* number of lines on the input before its end

ASSUME LinesAssumption == Lines \in Nat

VARIABLES
  typed,       \* lines read from the input so far
  txReader,    \* read worker: "poll", "read", "pass", "fail", "close" (return;
               \* deferred closes ahead), "half" (errors closed, messages not
               \* yet), "exited"
  inputEnd,    \* how the input ended for the read worker: "no", "eof", "error"
  tx,          \* Send: "select", "return" (deferred closes ahead), "closed"
               \* (writeWorkerErrorChan closed), "returned"
  txResult,    \* "none", "nil", "read" or "write" (the errors)
  writer,      \* per line: "none", "write", "fail" (reporting), "done"
  wire         \* lines written to the connection, in order

txVars == <<typed, txReader, inputEnd, tx, txResult, writer, wire>>
readerVars == <<typed, txReader, inputEnd>>

SendInit ==
  /\ typed = 0 /\ txReader = "poll" /\ inputEnd = "no"
  /\ tx = "select" /\ txResult = "none"
  /\ writer = [m \in 1..Lines |-> "none"]
  /\ wire = <<>>
-----------------------------------------------------------------------------
\* Read worker: it looks at stopChan only between reads.
TxPoll ==
  /\ txReader = "poll"
  /\ txReader' = IF tx = "returned" THEN "close" ELSE "read"
  /\ UNCHANGED <<connVars, typed, inputEnd, tx, txResult, writer, wire>>

TxReadLine ==
  /\ txReader = "read" /\ typed < Lines
  /\ typed' = typed + 1
  /\ txReader' = "pass"
  /\ UNCHANGED <<connVars, inputEnd, tx, txResult, writer, wire>>

\* Mutant: any error ends the worker silently.
TxReadEndsSilently ==
  /\ txReader = "read"
  /\ inputEnd' \in {"eof", "error"} /\ (inputEnd' = "eof" => typed = Lines)
  /\ txReader' = "close"
  /\ UNCHANGED <<connVars, typed, tx, txResult, writer, wire>>

\* EOF ends the worker silently, any other error is reported first.
TxReadEnds ==
  /\ txReader = "read"
  /\ \/ typed = Lines /\ inputEnd' = "eof" /\ txReader' = "close"
     \/ inputEnd' = "error" /\ txReader' = "fail"
  /\ UNCHANGED <<connVars, typed, tx, txResult, writer, wire>>

\* The deferred calls: close(readWorkerErrorChan), then close(messageChan).
TxReaderCloses ==
  /\ txReader \in {"close", "half"}
  /\ txReader' = IF txReader = "close" THEN "half" ELSE "exited"
  /\ UNCHANGED <<connVars, typed, inputEnd, tx, txResult, writer, wire>>
-----------------------------------------------------------------------------
\* Send's select, case by case. A line starts a writer.
TxMessage ==
  /\ tx = "select" /\ txReader = "pass"
  /\ txReader' = "poll"
  /\ writer' = [writer EXCEPT ![typed] = "write"]
  /\ UNCHANGED <<connVars, typed, inputEnd, tx, txResult, wire>>

TxEnd(result) ==
  /\ tx = "select"
  /\ tx' = "return"
  /\ txResult' = result

\* Mutant: the select has no case for t.stopChan.
TxNilUnstoppable ==
  /\ txReader \in {"half", "exited"}
  /\ TxEnd("nil")
  /\ UNCHANGED <<connVars, readerVars, writer, wire>>

\* <-t.stopChan, or a channel the read worker closed.
TxNil ==
  /\ stop \/ txReader \in {"half", "exited"}
  /\ TxEnd("nil")
  /\ UNCHANGED <<connVars, readerVars, writer, wire>>

TxReadError ==
  /\ txReader = "fail"
  /\ TxEnd("read")
  /\ txReader' = "close"
  /\ UNCHANGED <<connVars, typed, inputEnd, writer, wire>>

TxWriteError(m) ==
  /\ writer[m] = "fail"
  /\ TxEnd("write")
  /\ writer' = [writer EXCEPT ![m] = "done"]
  /\ UNCHANGED <<connVars, readerVars, wire>>

\* Deferred: close(writeWorkerErrorChan), then close(stopChan) and the input.
TxCloses ==
  /\ tx \in {"return", "closed"}
  /\ tx' = IF tx = "return" THEN "closed" ELSE "returned"
  /\ UNCHANGED <<connVars, readerVars, txResult, writer, wire>>
-----------------------------------------------------------------------------
\* Mutant: a short write is tried again from the start.
WriteAgain(m) ==
  /\ writer[m] = "write" /\ conn = "open"
  /\ wire' = Append(wire, m)
  /\ writer' \in {writer, [writer EXCEPT ![m] = "done"]}
  /\ Len(wire) < 2 * Lines
  /\ UNCHANGED <<connVars, readerVars, tx, txResult>>

\* Writer of line m. To a peer that left, a write may still be swallowed.
Write(m) ==
  /\ writer[m] = "write"
  /\ \/ conn = "open" /\ wire' = Append(wire, m) /\ writer' = [writer EXCEPT ![m] = "done"]
     \/ conn = "eof" /\ writer' = [writer EXCEPT ![m] = "done"] /\ UNCHANGED wire
     \/ conn # "open" /\ writer' = [writer EXCEPT ![m] = "fail"] /\ UNCHANGED wire
  /\ UNCHANGED <<connVars, readerVars, tx, txResult>>

\* Its error finds writeWorkerErrorChan closed: send on closed channel.
WritePanics(m) ==
  /\ writer[m] = "fail" /\ tx \in {"closed", "returned"}
  /\ Panic
  /\ UNCHANGED txVars

TxReader == TxPoll \/ TxReadEnds \/ TxReadLine \/ TxReaderCloses
TxSelect == TxMessage \/ TxNil \/ TxReadError \/ (\E m \in 1..Lines : TxWriteError(m))
            \/ TxCloses
Writer(m) == Write(m) \/ WritePanics(m)
sendVars == <<connVars, txVars>>
SendNext == Running /\ (TxReader \/ TxSelect \/ \E m \in 1..Lines : Writer(m))
-----------------------------------------------------------------------------
SendTypeOK ==
  /\ ConnTypeOK
  /\ typed \in 0..Lines
  /\ txReader \in {"poll", "read", "pass", "fail", "close", "half", "exited"}
  /\ inputEnd \in {"no", "eof", "error"}
  /\ tx \in {"select", "return", "closed", "returned"}
  /\ txResult \in {"none", "nil", "read", "write"}
  /\ writer \in [1..Lines -> {"none", "write", "fail", "done"}]
  /\ wire \in Seq(1..Lines)

\* The wire and the writers agree: a line is on the wire at most once, and only
\* after Send started its writer; none skips a line that was read before it.
WireAccounted ==
  /\ \A i, j \in 1..Len(wire) : wire[i] = wire[j] => i = j
  /\ \A i \in 1..Len(wire) : writer[wire[i]] = "done"
  /\ \A m \in 1..Lines : writer[m] # "none" <=>
       m <= typed /\ ~(m = typed /\ txReader = "pass")

\* Unless Send is over, only the end of the input ends the read worker, and the
\* worker has then passed on every line.
ReaderEnds ==
  /\ tx = "select" <=> txResult = "none"
  /\ tx = "select" /\ txReader \in {"close", "half", "exited"} => inputEnd = "eof"
  /\ inputEnd = "eof" => typed = Lines /\ txReader \in {"close", "half", "exited"}

\* Send returns nil only when it was stopped or when every line up to the end
\* of the input has a writer; a read error is never taken for the end.
NilMeansAllLines ==
  txResult = "nil" /\ ~stop =>
    inputEnd = "eof" /\ \A m \in 1..Lines : writer[m] # "none"
=============================================================================
