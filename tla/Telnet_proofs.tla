---------------------------- MODULE Telnet_proofs ----------------------------
(***************************************************************************)
(* Proofs about Send and Receive of hw11, for any number of lines and      *)
(* messages: first step by step, whatever else goes on, then of the client *)
(* under any caller (TelnetClient) and of the program (TelnetMain).        *)
(***************************************************************************)
EXTENDS TelnetMain, SequenceTheorems, TLAPS

C == INSTANCE TelnetClient

USE LinesAssumption, MsgsAssumption
-----------------------------------------------------------------------------
(* Send and Receive by themselves.                                         *)

SendInv    == SendTypeOK /\ WireAccounted /\ ReaderEnds /\ NilMeansAllLines
ReceiveInv == ReceiveTypeOK /\ OutIsPrefix /\ ReaderStops /\ NilMeansAllOut

\* The connection has ended, by the peer or by our Close.
Gone == {"eof", "reset", "closed"}

\* What any step may do to the connection: it never comes back.
ConnMoves ==
  /\ ConnTypeOK'
  /\ stop => stop'
  /\ conn \in {"eof", "closed"} => conn' \in {"eof", "closed"}
  /\ conn \in Gone => conn' \in Gone

\* A sequence without repetition stays so when a new element is appended.
LEMMA AppendKeepsDistinct ==
  ASSUME NEW S, NEW s \in Seq(S), NEW e \in S,
         \A i \in 1..Len(s) : s[i] # e,
         \A i, j \in 1..Len(s) : s[i] = s[j] => i = j
  PROVE  \A i, j \in 1..Len(Append(s, e)) : Append(s, e)[i] = Append(s, e)[j] => i = j
<1> DEFINE n == Len(s)
           a == Append(s, e)
<1>1. n \in Nat /\ Len(a) = n + 1 /\ a[n + 1] = e /\ \A i \in 1..n : a[i] = s[i]
  BY AppendProperties, LenProperties
<1> SUFFICES ASSUME NEW i \in 1..Len(a), NEW j \in 1..Len(a), a[i] = a[j]
             PROVE  i = j
  OBVIOUS
<1> HIDE DEF n, a
<1>2. (i \in 1..n \/ i = n + 1) /\ (j \in 1..n \/ j = n + 1)
  BY <1>1
<1>3. CASE i \in 1..n /\ j \in 1..n
  BY <1>1, <1>3, Zenon DEF n
<1>4. CASE i \in 1..n /\ j = n + 1
  BY <1>1, <1>4, Zenon DEF n
<1>5. CASE i = n + 1 /\ j \in 1..n
  BY <1>1, <1>5, Zenon DEF n
<1>6. QED  BY <1>2, <1>3, <1>4, <1>5

LEMMA InitSend == ConnInit /\ SendInit => SendInv
<1> SUFFICES ASSUME ConnInit, SendInit PROVE SendInv
  OBVIOUS
<1>1. SendTypeOK
  <2>1. ConnTypeOK
    BY Zenon DEF ConnInit, ConnTypeOK
  <2>2. 0 \in 0..Lines /\ <<>> \in Seq(1..Lines)
    OBVIOUS
  <2>3. QED  BY <2>1, <2>2 DEF SendInit, SendTypeOK
<1>2. WireAccounted /\ ReaderEnds /\ NilMeansAllLines
  BY DEF SendInit, WireAccounted, ReaderEnds, NilMeansAllLines
<1>3. QED  BY <1>1, <1>2 DEF SendInv

LEMMA InitReceive == ConnInit /\ ReceiveInit => ReceiveInv
<1> SUFFICES ASSUME ConnInit, ReceiveInit PROVE ReceiveInv
  OBVIOUS
<1>1. ReceiveTypeOK
  <2>1. ConnTypeOK
    BY Zenon DEF ConnInit, ConnTypeOK
  <2>2. 0 \in 0..Msgs /\ 0 \in 0..0 /\ <<>> \in Seq(1..Msgs) /\ FALSE \in BOOLEAN
    BY Zenon, SMT
  <2>3. QED  BY <2>1, <2>2 DEF ReceiveInit, ReceiveTypeOK
<1>2. OutIsPrefix /\ ReaderStops /\ NilMeansAllOut
  BY DEF ReceiveInit, OutIsPrefix, ReaderStops, NilMeansAllOut
<1>3. QED  BY <1>1, <1>2 DEF ReceiveInv

\* What others do to the connection is no matter to Send, as long as it is
\* never un-stopped.
LEMMA SendUndisturbed ==
  ASSUME SendInv, ConnMoves, UNCHANGED txVars
  PROVE  SendInv'
BY DEF SendInv, SendTypeOK, WireAccounted, ReaderEnds, NilMeansAllLines, ConnMoves, txVars

LEMMA ReceiveUndisturbed ==
  ASSUME ReceiveInv, ConnMoves, UNCHANGED rxVars
  PROVE  ReceiveInv'
BY DEF ReceiveInv, ReceiveTypeOK, OutIsPrefix, ReaderStops, NilMeansAllOut, ConnMoves,
       rxVars, rxReaderVars

LEMMA PeerSendsKeeps ==
  ASSUME ReceiveInv, PeerSends
  PROVE  ReceiveInv' /\ ConnMoves
<1> USE DEF ReceiveInv, ReceiveTypeOK
<1>1. /\ conn = "open" /\ sent < Msgs /\ sent' = sent + 1
      /\ UNCHANGED <<conn, stop, crashed, got, rxReader, rxEnd, errBuf, rx, rxResult, out>>
  BY DEF PeerSends, connVars, rxReaderVars
<1>2. ReceiveTypeOK' /\ ConnMoves
  BY <1>1 DEF ConnTypeOK, ConnMoves
<1>3. OutIsPrefix' /\ ReaderStops' /\ NilMeansAllOut'
  BY <1>1 DEF OutIsPrefix, ReaderStops, NilMeansAllOut
<1>4. QED  BY <1>2, <1>3
-----------------------------------------------------------------------------
(* Send, step by step.                                                     *)

LEMMA TxReaderKeeps ==
  ASSUME SendInv, TxReader
  PROVE  SendInv' /\ UNCHANGED connVars
<1> USE DEF SendInv, SendTypeOK
<1>1. UNCHANGED <<conn, stop, crashed, tx, txResult, writer, wire>>
  BY DEF TxReader, TxPoll, TxReadLine, TxReadEnds, TxReaderCloses, connVars
<1>2. SendTypeOK'
  <2>1. /\ typed' \in 0..Lines /\ inputEnd' \in {"no", "eof", "error"}
        /\ txReader' \in {"poll", "read", "pass", "fail", "close", "half", "exited"}
    BY DEF TxReader, TxPoll, TxReadLine, TxReadEnds, TxReaderCloses
  <2>2. QED  BY <1>1, <2>1 DEF ConnTypeOK
<1>3. WireAccounted'
  <2>1. ASSUME NEW m \in 1..Lines
        PROVE  (m <= typed' /\ ~(m = typed' /\ txReader' = "pass"))
                 <=> (m <= typed /\ ~(m = typed /\ txReader = "pass"))
    BY DEF TxReader, TxPoll, TxReadLine, TxReadEnds, TxReaderCloses
  <2>2. QED  BY <1>1, <2>1 DEF WireAccounted
<1>4. ReaderEnds'
  BY <1>1 DEF ReaderEnds, TxReader, TxPoll, TxReadLine, TxReadEnds, TxReaderCloses
<1>5. NilMeansAllLines'
  <2>1. inputEnd = "eof" => inputEnd' = "eof"
    BY DEF ReaderEnds, TxReader, TxPoll, TxReadLine, TxReadEnds, TxReaderCloses
  <2>2. QED  BY <1>1, <2>1 DEF NilMeansAllLines
<1>6. QED  BY <1>1, <1>2, <1>3, <1>4, <1>5 DEF connVars

LEMMA TxSelectKeeps ==
  ASSUME SendInv, TxSelect
  PROVE  SendInv' /\ UNCHANGED connVars
<1> USE DEF SendInv, SendTypeOK
<1>0. UNCHANGED <<conn, stop, crashed>> /\ ConnTypeOK'
  BY DEF TxSelect, TxMessage, TxNil, TxReadError, TxWriteError, TxCloses, connVars, ConnTypeOK
<1>1. CASE TxMessage
  <2>1. /\ tx = "select" /\ txReader = "pass" /\ txReader' = "poll"
        /\ writer' = [writer EXCEPT ![typed] = "write"]
        /\ UNCHANGED <<typed, inputEnd, tx, txResult, wire>>
    BY <1>1 DEF TxMessage
  <2>2. SendTypeOK'
    BY <1>0, <2>1
  <2>3. \A m \in 1..Lines : writer[m] # "none" <=> m <= typed /\ m # typed
    BY <2>1 DEF WireAccounted
  <2>4. WireAccounted'
    BY <2>1, <2>3 DEF WireAccounted
  <2>5. ReaderEnds' /\ NilMeansAllLines'
    BY <2>1 DEF ReaderEnds, NilMeansAllLines
  <2>6. QED  BY <1>0, <2>2, <2>4, <2>5 DEF connVars
<1>2. CASE TxNil
  <2>1. /\ stop \/ txReader \in {"half", "exited"}
        /\ tx = "select" /\ tx' = "return" /\ txResult' = "nil"
        /\ UNCHANGED <<typed, txReader, inputEnd, writer, wire>>
    BY <1>2 DEF TxNil, TxEnd, readerVars
  <2>2. SendTypeOK' /\ WireAccounted' /\ ReaderEnds'
    BY <1>0, <2>1 DEF WireAccounted, ReaderEnds
  \* The worker ended by itself, so it came to the end of the input.
  <2>3. NilMeansAllLines'
    BY <1>0, <2>1 DEF WireAccounted, ReaderEnds, NilMeansAllLines
  <2>4. QED  BY <1>0, <2>2, <2>3 DEF connVars
<1>3. CASE TxReadError
  <2>1. /\ txReader = "fail" /\ txReader' = "close"
        /\ tx = "select" /\ tx' = "return" /\ txResult' = "read"
        /\ UNCHANGED <<typed, inputEnd, writer, wire>>
    BY <1>3 DEF TxReadError, TxEnd
  <2>2. SendTypeOK' /\ WireAccounted'
    BY <1>0, <2>1 DEF WireAccounted
  <2>3. ReaderEnds' /\ NilMeansAllLines'
    BY <1>0, <2>1 DEF ReaderEnds, NilMeansAllLines
  <2>4. QED  BY <1>0, <2>2, <2>3 DEF connVars
<1>4. ASSUME NEW n \in 1..Lines, TxWriteError(n)
      PROVE  SendInv' /\ UNCHANGED connVars
  <2>1. /\ writer[n] = "fail" /\ writer' = [writer EXCEPT ![n] = "done"]
        /\ tx = "select" /\ tx' = "return" /\ txResult' = "write"
        /\ UNCHANGED <<typed, txReader, inputEnd, wire>>
    BY <1>4 DEF TxWriteError, TxEnd, readerVars
  <2>2. SendTypeOK' /\ ReaderEnds' /\ NilMeansAllLines'
    BY <1>0, <2>1 DEF ReaderEnds, NilMeansAllLines
  <2>3. WireAccounted'
    BY <2>1 DEF WireAccounted
  <2>4. QED  BY <1>0, <2>2, <2>3 DEF connVars
<1>5. CASE TxCloses
  <2>1. /\ tx \in {"return", "closed"} /\ tx' \in {"closed", "returned"}
        /\ UNCHANGED <<typed, txReader, inputEnd, txResult, writer, wire>>
    BY <1>5 DEF TxCloses, readerVars
  <2>2. SendTypeOK' /\ WireAccounted' /\ ReaderEnds' /\ NilMeansAllLines'
    BY <1>0, <2>1 DEF WireAccounted, ReaderEnds, NilMeansAllLines
  <2>3. QED  BY <1>0, <2>2 DEF connVars
<1>6. QED  BY <1>1, <1>2, <1>3, <1>4, <1>5 DEF TxSelect

LEMMA WriterKeeps ==
  ASSUME SendInv, NEW m \in 1..Lines, Writer(m)
  PROVE  SendInv' /\ ConnMoves
<1> USE DEF SendInv, SendTypeOK
<1>1. CASE Write(m)
  <2>1. /\ writer[m] = "write"
        /\ UNCHANGED <<conn, stop, crashed, typed, txReader, inputEnd, tx, txResult>>
        /\ \/ wire' = Append(wire, m) /\ writer' = [writer EXCEPT ![m] = "done"]
           \/ writer' = [writer EXCEPT ![m] = "done"] /\ UNCHANGED wire
           \/ writer' = [writer EXCEPT ![m] = "fail"] /\ UNCHANGED wire
    BY <1>1 DEF Write, connVars, readerVars
  <2>2. \A i \in 1..Len(wire) : wire[i] \in 1..Lines /\ wire[i] # m
    BY <2>1 DEF WireAccounted
  <2>3. /\ writer' \in [1..Lines -> {"none", "write", "fail", "done"}]
        /\ \A n \in 1..Lines : writer'[n] # "none" <=> writer[n] # "none"
        /\ \A n \in 1..Lines : n # m => writer'[n] = writer[n]
    BY <2>1
  <2>4. CASE UNCHANGED wire
    <3>1. WireAccounted'
      BY <2>1, <2>2, <2>3, <2>4 DEF WireAccounted
    <3>2. SendTypeOK'
      BY <2>1, <2>3, <2>4 DEF ConnTypeOK
    <3>3. QED
      BY <2>1, <2>3, <3>1, <3>2 DEF ReaderEnds, NilMeansAllLines, ConnMoves, ConnTypeOK
  <2>5. CASE wire' = Append(wire, m) /\ writer' = [writer EXCEPT ![m] = "done"]
    <3>1. /\ wire' \in Seq(1..Lines) /\ Len(wire') = Len(wire) + 1 /\ wire'[Len(wire) + 1] = m
          /\ \A i \in 1..Len(wire) : wire'[i] = wire[i]
      BY <2>5, AppendProperties
    <3>2. Len(wire) \in Nat
      BY LenProperties
    <3>3. \A i, j \in 1..Len(wire') : wire'[i] = wire'[j] => i = j
      <4>1. \A i, j \in 1..Len(wire) : wire[i] = wire[j] => i = j
        BY DEF WireAccounted
      <4>2. \A i \in 1..Len(wire) : wire[i] # m
        BY <2>2
      <4>3. wire \in Seq(1..Lines)
        OBVIOUS
      <4>4. \A i, j \in 1..Len(Append(wire, m)) :
              Append(wire, m)[i] = Append(wire, m)[j] => i = j
        BY <4>1, <4>2, <4>3, AppendKeepsDistinct, Zenon
      <4>5. QED  BY <2>5, <4>4, Zenon
    <3>4. \A i \in 1..Len(wire') : writer'[wire'[i]] = "done"
      BY <2>2, <2>3, <2>5, <3>1, <3>2 DEF WireAccounted
    <3>5. WireAccounted'
      BY <2>1, <2>3, <3>3, <3>4 DEF WireAccounted
    <3>6. SendTypeOK'
      BY <2>1, <2>3, <3>1 DEF ConnTypeOK
    <3>7. QED
      BY <2>1, <2>3, <3>5, <3>6 DEF ReaderEnds, NilMeansAllLines, ConnMoves, ConnTypeOK
  <2>6. QED  BY <2>1, <2>4, <2>5
<1>2. CASE WritePanics(m)
  <2>1. ConnMoves /\ UNCHANGED txVars
    BY <1>2 DEF WritePanics, Panic, ConnMoves, ConnTypeOK
  <2>2. QED  BY <2>1, SendUndisturbed
<1>3. QED  BY <1>1, <1>2 DEF Writer

LEMMA SendNextKeeps ==
  ASSUME SendInv, SendNext
  PROVE  SendInv' /\ ConnMoves
<1>1. UNCHANGED connVars => ConnMoves
  BY DEF SendInv, SendTypeOK, ConnTypeOK, ConnMoves, connVars
<1>2. QED  BY <1>1, TxReaderKeeps, TxSelectKeeps, WriterKeeps DEF SendNext
-----------------------------------------------------------------------------
(* Receive, step by step.                                                  *)

LEMMA ReceiveReaderKeeps ==
  ASSUME ReceiveInv, ReceiveReader
  PROVE  ReceiveInv' /\ UNCHANGED connVars
<1> USE DEF ReceiveInv, ReceiveTypeOK
<1>1. UNCHANGED <<conn, stop, crashed, sent, rx, rxResult, out>> /\ ConnTypeOK'
  BY DEF ReceiveReader, RxPoll, RxRead, RxReadEnds, RxReaderCloses, connVars, ConnTypeOK
<1>2. CASE RxPoll
  <2>1. /\ rxReader = "poll" /\ rxReader' \in {"close", "read"}
        /\ (rx = "select" => rxReader' = "read")
        /\ UNCHANGED <<got, rxEnd, errBuf>>
    BY <1>2 DEF RxPoll
  <2>2. QED
    BY <1>1, <2>1 DEF OutIsPrefix, ReaderStops, NilMeansAllOut, connVars
<1>3. CASE RxRead
  <2>1. /\ rxReader = "read" /\ got < sent /\ got' = got + 1 /\ rxReader' = "pass"
        /\ UNCHANGED <<rxEnd, errBuf>>
    BY <1>3 DEF RxRead
  <2>2. QED
    BY <1>1, <2>1 DEF OutIsPrefix, ReaderStops, NilMeansAllOut, connVars
<1>4. CASE RxReadEnds
  <2>1. /\ rxReader = "read" /\ rxReader' = "close"
        /\ conn \in {"reset", "closed"} \/ (conn = "eof" /\ got = sent)
        /\ rxEnd' = conn /\ errBuf' = (conn # "eof")
        /\ UNCHANGED got
    BY <1>4 DEF RxReadEnds
  <2>2. ReceiveTypeOK' /\ OutIsPrefix' /\ ReaderStops'
    BY <1>1, <2>1 DEF OutIsPrefix, ReaderStops
  <2>3. NilMeansAllOut'
    BY <1>1, <2>1 DEF ReaderStops, NilMeansAllOut
  <2>4. QED  BY <1>1, <2>2, <2>3 DEF connVars
<1>5. CASE RxReaderCloses
  <2>1. /\ rxReader \in {"close", "half"} /\ rxReader' \in {"half", "exited"}
        /\ UNCHANGED <<got, rxEnd, errBuf>>
    BY <1>5 DEF RxReaderCloses
  <2>2. QED
    BY <1>1, <2>1 DEF OutIsPrefix, ReaderStops, NilMeansAllOut, connVars
<1>6. QED  BY <1>2, <1>3, <1>4, <1>5 DEF ReceiveReader

LEMMA ReceiveSelectKeeps ==
  ASSUME ReceiveInv, ReceiveSelect
  PROVE  ReceiveInv' /\ UNCHANGED connVars
<1> USE DEF ReceiveInv, ReceiveTypeOK
<1>1. UNCHANGED <<conn, stop, crashed, sent, got, rxEnd>> /\ ConnTypeOK' /\ rx = "select"
  BY DEF ReceiveSelect, RxNil, RxReadError, RxMessage, RxOutError, RxReturn, connVars,
         rxReaderVars, ConnTypeOK
\* At the end of the stream the worker had no message in hand, so all are out.
<1>2. CASE RxNil
  <2>1. /\ stop \/ rxReader \in {"half", "exited"}
        /\ rx' = "returned" /\ rxResult' = "nil"
        /\ UNCHANGED <<rxReader, errBuf, out>>
    BY <1>2 DEF RxNil, RxReturn, rxReaderVars
  <2>2. ReceiveTypeOK' /\ OutIsPrefix' /\ ReaderStops'
    BY <1>1, <2>1 DEF OutIsPrefix, ReaderStops
  <2>3. NilMeansAllOut'
    BY <1>1, <2>1 DEF OutIsPrefix, ReaderStops, NilMeansAllOut
  <2>4. QED  BY <1>1, <2>2, <2>3 DEF connVars
<1>3. CASE RxReadError
  <2>1. /\ errBuf /\ errBuf' = FALSE
        /\ rx' = "returned" /\ rxResult' = "read"
        /\ UNCHANGED <<rxReader, out>>
    BY <1>3 DEF RxReadError, RxReturn, rxReaderVars
  <2>2. QED
    BY <1>1, <2>1 DEF OutIsPrefix, ReaderStops, NilMeansAllOut, connVars
<1>4. CASE RxMessage
  <2>1. /\ rxReader = "pass" /\ rxReader' = "poll" /\ out' = Append(out, got)
        /\ UNCHANGED <<errBuf, rx, rxResult>>
    BY <1>4 DEF RxMessage
  <2>2. got = Len(out) + 1 /\ got \in 1..Msgs /\ Len(out) \in Nat
    BY <1>1, <2>1 DEF OutIsPrefix
  <2>3. /\ out' \in Seq(1..Msgs) /\ Len(out') = Len(out) + 1 /\ out'[Len(out) + 1] = got
        /\ \A i \in 1..Len(out) : out'[i] = out[i]
    BY <2>1, <2>2, AppendProperties
  <2>4. OutIsPrefix'
    BY <1>1, <2>1, <2>2, <2>3 DEF OutIsPrefix
  <2>5. ReceiveTypeOK' /\ ReaderStops' /\ NilMeansAllOut'
    BY <1>1, <2>1, <2>3 DEF ReaderStops, NilMeansAllOut
  <2>6. QED  BY <1>1, <2>4, <2>5 DEF connVars
<1>5. CASE RxOutError
  <2>1. /\ rxReader = "pass" /\ rxReader' = "poll"
        /\ rx' = "returned" /\ rxResult' = "out"
        /\ UNCHANGED <<errBuf, out>>
    BY <1>5 DEF RxOutError, RxReturn
  <2>2. QED
    BY <1>1, <2>1 DEF OutIsPrefix, ReaderStops, NilMeansAllOut, connVars
<1>6. QED  BY <1>2, <1>3, <1>4, <1>5 DEF ReceiveSelect

LEMMA ReceiveNextKeeps ==
  ASSUME ReceiveInv, ReceiveNext
  PROVE  ReceiveInv' /\ ConnMoves
<1>1. UNCHANGED connVars => ConnMoves
  BY DEF ReceiveInv, ReceiveTypeOK, ConnTypeOK, ConnMoves, connVars
<1>2. QED  BY <1>1, ReceiveReaderKeeps, ReceiveSelectKeeps DEF ReceiveNext

\* The caller and the peer.
LEMMA PeersMove ==
  ASSUME ConnTypeOK, Connect \/ PeerLeaves \/ CloseStop \/ CloseConn \/ Panic
  PROVE  ConnMoves
BY DEF ConnTypeOK, ConnMoves, Gone, Connect, PeerLeaves, CloseStop, CloseConn, Panic
-----------------------------------------------------------------------------
(* The program.                                                            *)

Returned(g) == (IF g = "send" THEN tx ELSE rx) = "returned"

\* A write fails only without the peer, and the connection is closed last.
ConnIsLost ==
  /\ \A m \in 1..Lines : writer[m] = "fail" => conn \in Gone
  /\ conn = "closed" => main = "exited"

\* What main heard is over and stays so; the rest is Send's and Receive's.
ProgramInv ==
  /\ SendInv /\ ReceiveInv /\ TypeOK
  /\ \A g \in told : Returned(g)
  /\ ExitIsAfterClose /\ ConnIsLost /\ PanicIsFailure

\* Once a direction has returned, neither that nor its result changes. Writers
\* fail while the peer is gone, and only a line that failed makes Send panic.
LEMMA SendResultStays ==
  ASSUME SendInv, SendNext
  PROVE  /\ tx = "returned" => UNCHANGED <<tx, txResult>>
         /\ UNCHANGED <<conn, stop>>
         /\ crashed' => UNCHANGED txVars /\ \E m \in 1..Lines : writer[m] = "fail"
         /\ \A m \in 1..Lines : writer'[m] = "fail" => writer[m] = "fail" \/ conn \in Gone
<1>1. conn \in Gone \union {"open"} /\ ~crashed
  BY DEF SendInv, SendTypeOK, ConnTypeOK, SendNext, Running, Gone
<1>2. ASSUME TxReader \/ TxSelect
      PROVE  /\ tx = "returned" => UNCHANGED <<tx, txResult>>
             /\ UNCHANGED connVars
             /\ \A m \in 1..Lines : writer'[m] = "fail" => writer[m] = "fail"
  <2>1. CASE TxReader
    BY <2>1 DEF TxReader, TxPoll, TxReadEnds, TxReadLine, TxReaderCloses
  <2>2. CASE TxMessage
    BY <2>2 DEF TxMessage, SendInv, SendTypeOK
  <2>3. ASSUME NEW k \in 1..Lines, TxWriteError(k)
        PROVE  /\ tx = "select" /\ UNCHANGED connVars
               /\ \A m \in 1..Lines : writer'[m] = "fail" => writer[m] = "fail"
    BY <2>3 DEF TxWriteError, TxEnd, SendInv, SendTypeOK
  <2>4. CASE TxNil \/ TxReadError \/ TxCloses
    BY <2>4 DEF TxNil, TxReadError, TxEnd, TxCloses
  <2>5. QED  BY <1>2, <2>1, <2>2, <2>3, <2>4 DEF TxSelect
<1>3. ASSUME NEW k \in 1..Lines, Write(k)
      PROVE  /\ UNCHANGED <<tx, txResult, connVars>>
             /\ \A m \in 1..Lines : writer'[m] = "fail" => writer[m] = "fail" \/ conn \in Gone
  BY <1>1, <1>3 DEF Write, SendInv, SendTypeOK
<1>4. ASSUME NEW k \in 1..Lines, WritePanics(k)
      PROVE  UNCHANGED <<conn, stop>> /\ UNCHANGED txVars /\ writer[k] = "fail"
  BY <1>4 DEF WritePanics, Panic
<1>5. QED  BY <1>1, <1>2, <1>3, <1>4 DEF SendNext, Writer, connVars, txVars

LEMMA ReceiveResultStays ==
  ASSUME ReceiveInv, ReceiveNext
  PROVE  /\ rx = "returned" => UNCHANGED <<rx, rxResult>>
         /\ UNCHANGED connVars /\ ~crashed
BY DEF connVars, rxReaderVars, ReceiveNext, Running,
       ReceiveReader, RxPoll, RxRead, RxReadEnds, RxReaderCloses,
       ReceiveSelect, RxNil, RxReadError, RxMessage, RxOutError, RxReturn

LEMMA ProgramInit == Init => ProgramInv
<1> SUFFICES ASSUME Init PROVE ProgramInv
  OBVIOUS
<1>1. SendInv /\ ReceiveInv
  BY InitSend, InitReceive DEF Init
<1>2. TypeOK
  BY <1>1, Zenon DEF Init, TypeOK, SendInv, ReceiveInv
<1>3. (\A g \in told : Returned(g)) /\ ExitIsAfterClose /\ ConnIsLost /\ PanicIsFailure
  BY DEF Init, ConnInit, SendInit, ExitIsAfterClose, ConnIsLost, PanicIsFailure
<1>4. QED  BY <1>1, <1>2, <1>3 DEF ProgramInv

\* main's own steps, while Send and Receive stand still.
LEMMA MainKeeps ==
  ASSUME ProgramInv, Alive, Main
  PROVE  ProgramInv'
<1> USE DEF ProgramInv
<1>1. UNCHANGED <<txVars, rxVars>>
  BY DEF Main, MainConnects, MainInterrupted, MainLeaves, MainTakes, sendVars
<1>2. ConnMoves /\ UNCHANGED crashed /\ ~crashed
  BY PeersMove DEF TypeOK, SendTypeOK, ConnTypeOK, ConnMoves, Alive, Main, MainConnects,
     MainInterrupted, MainLeaves, MainTakes, sendVars, connVars, Connect, CloseStop, CloseConn
<1>3. SendInv' /\ ReceiveInv'
  BY <1>1, <1>2, SendUndisturbed, ReceiveUndisturbed
<1>4. UNCHANGED <<tx, rx, txResult, rxResult, writer>>
  BY <1>1 DEF txVars, rxVars
\* Only the last step of main closes the connection, and nothing panics.
<1>0. ConnIsLost' /\ PanicIsFailure'
  <2>1. conn' = "closed" => main' = "exited"
    BY DEF ConnIsLost, Alive, Main, MainConnects, MainInterrupted, MainLeaves, MainTakes,
           sendVars, connVars, Connect, CloseStop, CloseConn
  <2>2. QED  BY <1>2, <1>4, <2>1 DEF ConnIsLost, PanicIsFailure, ConnMoves
<1>5. CASE MainConnects \/ MainInterrupted
  <2>1. /\ main' \in {"select", "wait", "fatal"} /\ UNCHANGED told
        /\ first' \in {"none", "signal", "nil", "error"} /\ sig' \in BOOLEAN
    BY <1>5 DEF TypeOK, MainConnects, MainInterrupted
  <2>2. QED
    BY <1>0, <1>2, <1>3, <1>4, <2>1
    DEF TypeOK, SendInv, ReceiveInv, Returned, ExitIsAfterClose
<1>6. ASSUME NEW g \in {"send", "receive"}, MainTakes(g)
      PROVE  ProgramInv'
  <2>1. /\ told' = told \union {g} /\ Returned(g) /\ UNCHANGED sig
        /\ first' = IF ResultOf(g) = "nil" THEN "nil" ELSE "error"
        /\ main' = IF first' = "nil" THEN "wait" ELSE "leave"
    BY <1>6 DEF MainTakes, Reporting, Returned
  <2>2. TypeOK' /\ \A h \in told' : Returned(h)'
    BY <1>3, <1>4, <2>1 DEF TypeOK, SendInv, ReceiveInv, Returned
  \* A direction that returned has a result.
  <2>3. ResultOf(g) # "none" /\ UNCHANGED ResultOf(g)
    BY <1>4, <2>1 DEF ResultOf, Returned, SendInv, SendTypeOK, ReaderEnds,
                      ReceiveInv, ReceiveTypeOK, ReaderStops
  <2>4. ExitIsAfterClose'
    BY <2>1, <2>3 DEF ExitIsAfterClose
  <2>5. QED  BY <1>0, <1>3, <2>2, <2>4
<1>7. CASE MainLeaves
  <2>1. /\ main \in {"leave", "errors", "signals", "stopped"}
        /\ main' \in {"errors", "signals", "stopped", "exited"}
        /\ (main' \in {"stopped", "exited"} => stop') /\ (main' = "exited" => conn' = "closed")
        /\ UNCHANGED <<first, told, sig>>
    BY <1>7 DEF MainLeaves, CloseStop, CloseConn
  <2>2. TypeOK' /\ \A h \in told' : Returned(h)'
    BY <1>3, <1>4, <2>1 DEF TypeOK, SendInv, ReceiveInv, Returned
  <2>3. ExitIsAfterClose'
    BY <1>4, <2>1 DEF ExitIsAfterClose, ResultOf
  <2>4. QED  BY <1>0, <1>3, <2>2, <2>3
<1>8. QED  BY <1>5, <1>6, <1>7 DEF Main

\* The others' steps: main stands still, the directions go on or stand still.
LEMMA OthersKeep ==
  ASSUME ProgramInv, SendInv', ReceiveInv', ConnMoves, UNCHANGED <<main, first, told>>,
         sig' \in BOOLEAN,
         tx = "returned" => UNCHANGED <<tx, txResult>>,
         rx = "returned" => UNCHANGED <<rx, rxResult>>,
         main # "exited", conn' # "closed", PanicIsFailure',
         \A m \in 1..Lines : writer'[m] = "fail" => writer[m] = "fail" \/ conn \in Gone
  PROVE  ProgramInv'
<1>1. TypeOK'
  BY DEF ProgramInv, TypeOK, SendInv, ReceiveInv
<1>2. \A g \in told : Returned(g)' /\ UNCHANGED ResultOf(g)
  BY DEF ProgramInv, Returned, ResultOf
<1>3. ExitIsAfterClose'
  BY <1>2 DEF ProgramInv, ExitIsAfterClose, ConnMoves
<1>4. ConnIsLost'
  BY DEF ProgramInv, ConnIsLost, ConnMoves
<1>5. QED  BY <1>1, <1>2, <1>3, <1>4 DEF ProgramInv

LEMMA ProgramStep == ProgramInv /\ [Next]_vars => ProgramInv'
<1> SUFFICES ASSUME ProgramInv, [Next]_vars PROVE ProgramInv'
  OBVIOUS
<1> USE DEF ProgramInv
<1>1. CASE Alive /\ Main
  BY <1>1, MainKeeps
<1>0. Alive => conn # "closed"
  BY DEF Alive, ConnIsLost
<1>2. CASE Alive /\ ReportPanics
  <2>1. /\ main \in {"errors", "signals", "stopped"} /\ UNCHANGED <<txVars, rxVars, mainVars>>
        /\ ConnMoves /\ conn' # "closed"
    BY <1>0, <1>2, PeersMove DEF ReportPanics, TypeOK, SendTypeOK, Panic
  <2>2. SendInv' /\ ReceiveInv'
    BY <2>1, SendUndisturbed, ReceiveUndisturbed
  <2>3. PanicIsFailure' /\ sig' \in BOOLEAN
    BY <2>1 DEF PanicIsFailure, ExitIsAfterClose, mainVars, TypeOK
  <2>4. QED
    BY <2>1, <2>2, <2>3, OthersKeep DEF mainVars, txVars, rxVars
<1>3. CASE Alive /\ Sender
  <2>1. SendInv' /\ ConnMoves
    BY <1>3, SendNextKeeps DEF Sender
  <2>2. ReceiveInv' /\ UNCHANGED <<rx, rxResult, mainVars>>
    BY <1>3, <2>1, ReceiveUndisturbed DEF Sender, rxVars
  <2>3. /\ tx = "returned" => UNCHANGED <<tx, txResult>>
        /\ UNCHANGED conn /\ conn # "closed"
        /\ crashed' => UNCHANGED txVars /\ \E m \in 1..Lines : writer[m] = "fail"
        /\ \A m \in 1..Lines : writer'[m] = "fail" => writer[m] = "fail" \/ conn \in Gone
    BY <1>0, <1>3, SendResultStays DEF Sender
  \* A line on the wire has a writer that is done.
  <2>4. PanicIsFailure'
    <3> SUFFICES ASSUME crashed' PROVE PanicIsFailure'
      BY DEF PanicIsFailure
    <3>1. PICK m \in 1..Lines : writer[m] = "fail"
      BY <2>3
    <3>2. conn \in {"eof", "reset"}
      BY <2>3, <3>1 DEF ConnIsLost, Gone
    <3>3. \A i \in 1..Len(wire) : wire[i] # m
      BY <3>1 DEF SendInv, WireAccounted
    <3>4. QED  BY <2>3, <3>1, <3>2, <3>3 DEF PanicIsFailure, txVars
  <2>5. QED
    BY <1>3, <2>1, <2>2, <2>3, <2>4, OthersKeep DEF mainVars, Alive, TypeOK
<1>4. CASE Alive /\ Receiver
  <2>1. ReceiveInv' /\ ConnMoves
    BY <1>4, ReceiveNextKeeps DEF Receiver
  <2>2. SendInv' /\ UNCHANGED <<tx, txResult, mainVars>>
    BY <1>4, <2>1, SendUndisturbed DEF Receiver, txVars
  <2>3. /\ PanicIsFailure' /\ conn' # "closed"
        /\ rx = "returned" => UNCHANGED <<rx, rxResult>>
    BY <1>0, <1>4, ReceiveResultStays DEF Receiver, PanicIsFailure, connVars
  <2>4. UNCHANGED writer
    BY <1>4 DEF Receiver, txVars
  <2>5. QED
    BY <1>4, <2>1, <2>2, <2>3, <2>4, OthersKeep DEF mainVars, Alive, TypeOK
<1>5. CASE Alive /\ Interrupt
  <2>1. /\ UNCHANGED <<txVars, rxVars, main, first, told>> /\ sig' \in BOOLEAN
        /\ ConnMoves /\ (main \in {"signals", "stopped"} \/ UNCHANGED crashed)
        /\ conn' # "closed"
    BY <1>0, <1>5, PeersMove DEF Panic, Interrupt, TypeOK, SendTypeOK, ConnTypeOK, ConnMoves, connVars
  <2>2. SendInv' /\ ReceiveInv'
    BY <2>1, SendUndisturbed, ReceiveUndisturbed
  <2>3. PanicIsFailure'
    BY <1>5, <2>1 DEF PanicIsFailure, ExitIsAfterClose, Alive
  <2>4. QED
    BY <1>5, <2>1, <2>2, <2>3, OthersKeep DEF Alive, txVars, rxVars
<1>6. CASE Alive /\ PeerLeaves /\ UNCHANGED <<txVars, rxVars, mainVars>>
  <2>1. ConnMoves /\ ~crashed' /\ conn' # "closed"
    BY <1>6, PeersMove DEF PeerLeaves, TypeOK, SendTypeOK, Alive
  <2>2. SendInv' /\ ReceiveInv'
    BY <1>6, <2>1, SendUndisturbed, ReceiveUndisturbed
  <2>3. QED
    BY <1>6, <2>1, <2>2, OthersKeep
    DEF mainVars, txVars, rxVars, Alive, TypeOK, PanicIsFailure
<1>7. CASE Alive /\ PeerSends /\ UNCHANGED <<txVars, mainVars>>
  <2>1. ReceiveInv' /\ ConnMoves
    BY <1>7, PeerSendsKeeps
  <2>2. SendInv' /\ ~crashed' /\ conn' # "closed" /\ UNCHANGED <<tx, txResult, rx, rxResult, writer>>
    BY <1>0, <1>7, <2>1, SendUndisturbed DEF PeerSends, connVars, txVars, Alive
  <2>3. QED
    BY <1>7, <2>1, <2>2, OthersKeep DEF mainVars, Alive, TypeOK, PanicIsFailure
<1>8. CASE UNCHANGED vars
  <2>1. UNCHANGED <<connVars, txVars, rxVars, mainVars>>
    BY <1>8 DEF vars, sendVars
  <2>2. ConnMoves
    BY <2>1 DEF ConnMoves, ConnTypeOK, connVars, TypeOK, SendTypeOK
  <2>3. SendInv' /\ ReceiveInv'
    BY <2>1, <2>2, SendUndisturbed, ReceiveUndisturbed
  <2>4. QED
    BY <2>1, <2>3
    DEF connVars, txVars, rxVars, mainVars, TypeOK, SendInv, ReceiveInv, Returned,
        ExitIsAfterClose, ResultOf, ConnIsLost, PanicIsFailure
<1>9. QED
  BY <1>1, <1>2, <1>3, <1>4, <1>5, <1>6, <1>7, <1>8 DEF Next, Outside

LEMMA ProgramAlways == Spec => []ProgramInv
BY ProgramInit, ProgramStep, PTL DEF Spec

\* The program writes out what the peer sent, in order and without a gap, and
\* holds at most one message it has not written out (telnet.go:126-176, Receive).
THEOREM OutIsPrefixHolds == Spec => []OutIsPrefix
<1>1. ProgramInv => OutIsPrefix
  BY DEF ProgramInv, ReceiveInv
<1>2. QED  BY <1>1, ProgramAlways, PTL

\* The program panics only after a failure: main leaves on an error, or the peer
\* is gone and the line that ends the process never reached it. Ctrl+D and
\* interrupts alone never do it (telnet.go:97-121, main.go:38-65).
THEOREM PanicIsFailureHolds == Spec => []PanicIsFailure
<1>1. ProgramInv => PanicIsFailure
  BY DEF ProgramInv
<1>2. QED  BY <1>1, ProgramAlways, PTL

\* The program leaves by itself only after it heard that Send or Receive failed,
\* and has stopped both and closed the connection when it has exited
\* (main.go:30-66).
THEOREM ExitIsAfterCloseHolds == Spec => []ExitIsAfterClose
<1>1. ProgramInv => ExitIsAfterClose
  BY DEF ProgramInv
<1>2. QED  BY <1>1, ProgramAlways, PTL
-----------------------------------------------------------------------------
(* The client by itself, under any caller. Its variables, Send, Receive    *)
(* and peer are those of the program, so that Inv is C!Inv.                *)

LEMMA SameInit == C!Init <=> ConnInit /\ SendInit /\ ReceiveInit
BY DEF C!Init, C!ConnInit, ConnInit, C!SendInit, SendInit, C!ReceiveInit, ReceiveInit

LEMMA SameVars ==
  /\ UNCHANGED C!connVars <=> UNCHANGED connVars
  /\ UNCHANGED C!txVars <=> UNCHANGED txVars
  /\ UNCHANGED C!rxVars <=> UNCHANGED rxVars
BY DEF C!connVars, connVars, C!txVars, txVars, C!rxVars, rxVars, C!rxReaderVars, rxReaderVars

LEMMA SameSend == C!SendNext => SendNext
<1> USE DEF C!connVars, connVars, C!readerVars, readerVars, C!txVars, txVars
<1>1. C!TxReader => TxReader
  BY DEF C!TxReader, TxReader, C!TxPoll, TxPoll, C!TxReadEnds, TxReadEnds,
         C!TxReadLine, TxReadLine, C!TxReaderCloses, TxReaderCloses
<1>2. C!TxSelect => TxSelect
  BY DEF C!TxSelect, TxSelect, C!TxMessage, TxMessage, C!TxNil, TxNil, C!TxEnd, TxEnd,
         C!TxReadError, TxReadError, C!TxWriteError, TxWriteError, C!TxCloses, TxCloses
<1>3. ASSUME NEW m \in 1..Lines, C!Writer(m) PROVE Writer(m)
  BY <1>3 DEF C!Writer, Writer, C!Write, Write, C!WritePanics, WritePanics, C!Panic, Panic
<1>4. QED  BY <1>1, <1>2, <1>3 DEF C!SendNext, SendNext, C!Running, Running

LEMMA SameReceive == C!ReceiveNext => ReceiveNext
<1> USE DEF C!connVars, connVars, C!rxReaderVars, rxReaderVars
<1>1. C!ReceiveReader => ReceiveReader
  BY DEF C!ReceiveReader, ReceiveReader, C!RxPoll, RxPoll, C!RxRead, RxRead,
         C!RxReadEnds, RxReadEnds, C!RxReaderCloses, RxReaderCloses
<1>2. C!ReceiveSelect => ReceiveSelect
  BY DEF C!ReceiveSelect, ReceiveSelect, C!RxReturn, RxReturn, C!RxNil, RxNil,
         C!RxReadError, RxReadError, C!RxMessage, RxMessage, C!RxOutError, RxOutError
<1>3. QED  BY <1>1, <1>2 DEF C!ReceiveNext, ReceiveNext, C!Running, Running

LEMMA SamePeers ==
  /\ C!Peers => Connect \/ PeerLeaves \/ CloseStop \/ CloseConn
  /\ C!PeerSends => PeerSends
<1>1. C!Peers => Connect \/ PeerLeaves \/ CloseStop \/ CloseConn
  BY DEF C!Peers, C!Connect, Connect, C!PeerLeaves, PeerLeaves, C!CloseStop, CloseStop,
         C!CloseConn, CloseConn
<1>2. C!PeerSends => PeerSends
  BY DEF C!PeerSends, PeerSends, C!connVars, connVars, C!rxReaderVars, rxReaderVars
<1>3. QED  BY <1>1, <1>2

ClientInv == SendInv /\ ReceiveInv

LEMMA ClientStep == ClientInv /\ [C!Next]_C!vars => ClientInv'
<1> SUFFICES ASSUME ClientInv, [C!Next]_C!vars PROVE ClientInv'
  OBVIOUS
<1> USE SameVars DEF ClientInv
<1>1. CASE C!Sender
  <2>1. SendInv' /\ ConnMoves /\ UNCHANGED rxVars
    BY <1>1, SameSend, SendNextKeeps DEF C!Sender
  <2>2. QED  BY <2>1, ReceiveUndisturbed
<1>2. CASE C!Receiver
  <2>1. ReceiveInv' /\ ConnMoves /\ UNCHANGED txVars
    BY <1>2, SameReceive, ReceiveNextKeeps DEF C!Receiver
  <2>2. QED  BY <2>1, SendUndisturbed
<1>3. CASE C!Peers /\ UNCHANGED <<C!txVars, C!rxVars>>
  <2>1. ConnMoves
    BY <1>3, SamePeers, PeersMove DEF SendInv, SendTypeOK
  <2>2. QED  BY <1>3, <2>1, SendUndisturbed, ReceiveUndisturbed
<1>4. CASE C!PeerSends /\ UNCHANGED C!txVars
  <2>1. ReceiveInv' /\ ConnMoves /\ UNCHANGED txVars
    BY <1>4, SamePeers, PeerSendsKeeps
  <2>2. QED  BY <2>1, SendUndisturbed
<1>5. CASE UNCHANGED C!vars
  <2>1. UNCHANGED <<connVars, txVars, rxVars>>
    BY <1>5 DEF C!vars
  <2>2. ConnMoves
    BY <2>1 DEF ConnMoves, ConnTypeOK, connVars, SendInv, SendTypeOK
  <2>3. QED  BY <2>1, <2>2, SendUndisturbed, ReceiveUndisturbed
<1>6. QED  BY <1>1, <1>2, <1>3, <1>4, <1>5 DEF C!Next, C!Outside

LEMMA ClientAlways == C!Spec => []ClientInv
<1>1. C!Init => ClientInv
  BY SameInit, InitSend, InitReceive DEF ClientInv
<1>2. QED  BY <1>1, ClientStep, PTL DEF C!Spec

\* Between the input and the wire no line is lost or doubled, between the
\* connection and the output no message, and no worker stops before its source
\* has ended, whatever the caller and the peer do (telnet.go:72-176).
THEOREM ClientInvHolds == C!Spec => []Inv
<1>1. ClientInv => Inv
  BY DEF ClientInv, SendInv, ReceiveInv, Inv
<1>2. QED  BY <1>1, ClientAlways, PTL

\* Send returns nil only when it was stopped or when each line of the whole
\* input was handed to a writer (telnet.go:72-124).
THEOREM NilMeansAllLinesHolds == C!Spec => []NilMeansAllLines
<1>1. ClientInv => NilMeansAllLines
  BY DEF ClientInv, SendInv
<1>2. QED  BY <1>1, ClientAlways, PTL

\* Receive returns nil at the end of the peer's stream only after all the peer
\* sent was written out, and an error only when the stream ended badly
\* (telnet.go:126-176).
THEOREM NilMeansAllOutHolds == C!Spec => []NilMeansAllOut
<1>1. ClientInv => NilMeansAllOut
  BY DEF ClientInv, ReceiveInv
<1>2. QED  BY <1>1, ClientAlways, PTL
=============================================================================
