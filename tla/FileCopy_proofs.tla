--------------------------- MODULE FileCopy_proofs ---------------------------
(***************************************************************************)
(* What holds of hw07's Copy for every source, chunk, offset and limit. The*)
(* invariant Progress ties the target to the position in the source; that  *)
(* the target is a beginning of the piece asked for, and the whole of it   *)
(* when Copy returned nil, are facts about pieces of a sequence.           *)
(***************************************************************************)
EXTENDS FileCopy, SequenceTheorems, TLAPS

Record == [kind : {"absent", "dir", "file"}, data : Seq(Nat)]

-----------------------------------------------------------------------------
\* Two pieces of one sequence, next to each other.
LEMMA Adjacent ==
  ASSUME NEW s \in Seq(Nat), NEW a \in Nat, NEW b \in a..Len(s), NEW k \in 0..(Len(s) - b)
  PROVE  /\ SubSeq(s, a + 1, b) \in Seq(Nat)
         /\ Len(SubSeq(s, a + 1, b)) = b - a
         /\ SubSeq(s, a + 1, b) \o SubSeq(s, b + 1, b + k) = SubSeq(s, a + 1, b + k)
<1>1. /\ Len(s) \in Nat /\ a + 1 \in Int /\ b \in Int
      /\ \A i \in 1..Len(s) : s[i] \in Nat
  BY LenProperties, ElementOfSeq
<1>2. \A i \in (a + 1)..b : s[i] \in Nat
  BY <1>1
<1>3. SubSeq(s, a + 1, b) \in Seq(Nat) /\ Len(SubSeq(s, a + 1, b)) = b - a
  BY <1>1, <1>2, SubSeqProperties
<1>4. a + 1 \in 1..(Len(s) + 1) /\ b \in (a + 1) - 1 .. Len(s) /\ b + k \in b..Len(s)
  BY <1>1
<1>5. QED  BY <1>3, <1>4, ConcatAdjacentSubSeq

\* A beginning of a piece of a sequence is a piece of the sequence.
LEMMA Beginning ==
  ASSUME NEW s \in Seq(Nat), NEW a \in Nat, NEW b \in a..Len(s), NEW n \in 0..(b - a)
  PROVE  SubSeq(SubSeq(s, a + 1, b), 1, n) = SubSeq(s, a + 1, a + n)
<1>1. Len(s) \in Nat
  BY LenProperties
<1>2. CASE n = 0
  BY <1>1, <1>2, SubSeqEmpty
<1>3. CASE n # 0
  <2>1. /\ a + 1 \in 1..Len(s) /\ b \in 1..Len(s)
        /\ 1 \in 1..(b - (a + 1) + 1) /\ n \in 1..(b - (a + 1) + 1)
    BY <1>1, <1>3
  <2>2. SubSeq(SubSeq(s, a + 1, b), 1, n) = SubSeq(s, (a + 1) + 1 - 1, (a + 1) + n - 1)
    BY <2>1, SubSeqOfSubSeq
  <2>3. (a + 1) + 1 - 1 = a + 1 /\ (a + 1) + n - 1 = a + n
    OBVIOUS
  <2>4. QED  BY <2>2, <2>3
<1>4. QED  BY <1>2, <1>3

\* Pieces that begin at the same place: the shorter is a beginning of the longer.
LEMMA PieceIsPrefix ==
  ASSUME NEW s \in Seq(Nat), NEW a \in Nat, NEW c \in a..Len(s), NEW b \in a..c
  PROVE  Sq!IsPrefix(SubSeq(s, a + 1, b), SubSeq(s, a + 1, c))
<1>1. Len(s) \in Nat
  BY LenProperties
<1>2. /\ Len(SubSeq(s, a + 1, b)) = b - a
      /\ Len(SubSeq(s, a + 1, c)) = c - a
  BY <1>1, Adjacent
<1>3. SubSeq(SubSeq(s, a + 1, b), 1, b - a) = SubSeq(s, a + 1, a + (b - a))
  BY <1>1, Beginning
<1>4. SubSeq(SubSeq(s, a + 1, c), 1, b - a) = SubSeq(s, a + 1, a + (b - a))
  <2>1. b - a \in 0..(c - a)
    BY <1>1
  <2>2. QED  BY <2>1, Beginning
<1>5. b - a <= c - a
  BY <1>1
<1>6. QED  BY <1>2, <1>3, <1>4, <1>5 DEF Sq!IsPrefix

\* The end of the piece that the arguments ask for.
PieceEnd ==
  LET n == Len(files[from].data)
  IN IF limit = 0 THEN n ELSE offset + Least(limit, n - offset)

LEMMA PieceIs ==
  ASSUME files[from].data \in Seq(Nat), limit \in Nat, offset \in 0..Len(files[from].data)
  PROVE  /\ PieceEnd \in offset..Len(files[from].data)
         /\ Wanted = SubSeq(files[from].data, offset + 1, PieceEnd)
<1> DEFINE s == files[from].data
           rest == SubSeq(s, offset + 1, Len(s))
<1>1. Len(s) \in Nat /\ offset \in Nat
  BY LenProperties
<1>2. Len(rest) = Len(s) - offset
  BY <1>1, Adjacent
<1>3. CASE limit = 0
  BY <1>1, <1>3 DEF Wanted, PieceEnd
<1>4. CASE limit # 0
  <2> DEFINE n == Least(limit, Len(rest))
  <2>1. n \in 0..(Len(s) - offset)
    BY <1>1, <1>2 DEF Least
  <2>2. PieceEnd = offset + n
    BY <1>2, <1>4 DEF PieceEnd
  <2>3. Wanted = SubSeq(rest, 1, n)
    BY <1>4 DEF Wanted
  <2>4. SubSeq(rest, 1, n) = SubSeq(s, offset + 1, offset + n)
    <3> HIDE DEF n
    <3>1. QED  BY <1>1, <2>1, Beginning
  <2>5. PieceEnd \in offset..Len(s)
    <3> HIDE DEF n
    <3>1. QED  BY <1>1, <2>1, <2>2
  <2>6. QED  BY <2>2, <2>3, <2>4, <2>5
<1>5. QED  BY <1>3, <1>4
-----------------------------------------------------------------------------
\* A file that is replaced or whose content changes; the others keep theirs.
LEMMA FileChanges ==
  ASSUME CopyTypeOK, NEW x \in File, NEW r \in Record, files' = [files EXCEPT ![x] = r]
  PROVE  /\ files' \in [File -> Record]
         /\ files'[x] = r
         /\ \A y \in File : y # x => files'[y] = files[y]
BY DEF CopyTypeOK, Record

LEMMA ContentChanges ==
  ASSUME CopyTypeOK, NEW x \in File, NEW d \in Seq(Nat), files' = [files EXCEPT ![x].data = d]
  PROVE  /\ files' \in [File -> Record]
         /\ files'[x].data = d
         /\ \A y \in File : y # x => files'[y] = files[y]
<1>1. files \in [File -> Record]
  BY DEF CopyTypeOK, Record
<1>2. [files[x] EXCEPT !.data = d] \in Record /\ [files[x] EXCEPT !.data = d].data = d
  BY <1>1 DEF Record
<1>3. files' = [files EXCEPT ![x] = [files[x] EXCEPT !.data = d]]
  OBVIOUS
<1>4. QED  BY <1>1, <1>2, <1>3, FileChanges

\* What can be moved at once fits the source and the limit.
LEMMA ChunkFits ==
  ASSUME CopyTypeOK, Progress, pc = "copy", More
  PROVE  /\ ToCopy \in Nat \ {0} /\ Unread \in Nat
         /\ Unread = IF pos < Len(files[from].data) THEN Len(files[from].data) - pos ELSE 0
         /\ limit # 0 => copied + ToCopy <= limit
         /\ Least(ToCopy, Unread) \in Nat
         /\ Least(ToCopy, Unread) <= ToCopy /\ Least(ToCopy, Unread) <= Unread
         /\ Least(ToCopy, Unread) = ToCopy \/ Least(ToCopy, Unread) = Unread
<1>1. /\ Len(files[from].data) \in Nat
      /\ pos \in Nat /\ copied \in Nat /\ limit \in Nat /\ Chunk \in Nat \ {0}
      /\ limit # 0 => copied <= limit
  <2>1. files[from].data \in Seq(Nat)
    BY DEF CopyTypeOK
  <2>2. QED  BY <2>1, LenProperties, CopyAssumption DEF CopyTypeOK, Progress
<1>2. ToCopy \in Nat \ {0} /\ (limit # 0 => copied + ToCopy <= limit)
  BY <1>1 DEF ToCopy, More, Least
<1>3. Unread \in Nat
  BY <1>1 DEF Unread
<1>4. QED  BY <1>2, <1>3 DEF Least, Unread

\* Moving k units keeps the target the piece between the offset and the position.
LEMMA MovedKeeps ==
  ASSUME CopyTypeOK, Progress, pc = "copy", More,
         NEW k \in 0..Least(ToCopy, Unread), Moved(k)
  PROVE  /\ files' \in [File -> Record]
         /\ pos' = pos + k /\ pos' \in Nat
         /\ IF from = to THEN files'[to].data = <<>>
            ELSE /\ files'[from] = files[from]
                 /\ pos' \in offset..Len(files[from].data)
                 /\ limit # 0 => pos' - offset <= limit
                 /\ files'[to].data = SubSeq(files[from].data, offset + 1, pos')
<1> DEFINE s == files[from].data
<1>1. /\ from \in File /\ to \in File /\ s \in Seq(Nat) /\ files[to].data \in Seq(Nat)
      /\ pos \in Nat /\ copied \in Nat /\ offset \in Nat /\ limit \in Nat /\ Len(s) \in Nat
      /\ pos = offset + copied
  <2>1. from \in File /\ to \in File /\ s \in Seq(Nat) /\ files[to].data \in Seq(Nat)
    BY DEF CopyTypeOK
  <2>2. QED  BY <2>1, LenProperties DEF CopyTypeOK, Progress
<1>2. /\ k \in Nat /\ k <= ToCopy /\ ToCopy \in Nat
      /\ k <= (IF pos < Len(s) THEN Len(s) - pos ELSE 0)
      /\ limit # 0 => copied + ToCopy <= limit
  BY ChunkFits
<1> DEFINE d == files[to].data \o SubSeq(s, pos + 1, pos + k)
<1>3. files' = [files EXCEPT ![to].data = d] /\ pos' = pos + k
  BY DEF Moved
<1>4. pos' \in Nat
  BY <1>1, <1>2, <1>3
<1>5. CASE from = to
  <2>1. s = <<>> /\ Len(s) = 0
    BY <1>5 DEF Progress
  <2>2. k = 0
    BY <1>1, <1>2, <2>1
  <2>3. SubSeq(s, pos + 1, pos + k) = <<>>
    BY <1>1, <2>2, SubSeqEmpty
  <2>4. d = <<>> /\ d \in Seq(Nat)
    <3>1. files[to].data \o <<>> = files[to].data
      BY <1>1, ConcatEmptySeq
    <3>2. QED  BY <1>1, <1>5, <2>1, <2>3, <3>1
  <2>5. files' \in [File -> Record] /\ files'[to].data = <<>>
    BY <1>1, <1>3, <2>4, ContentChanges
  <2>6. QED  BY <1>3, <1>4, <1>5, <2>5
<1>6. CASE from # to
  <2>1. /\ pos \in offset..Len(s)
        /\ files[to].data = SubSeq(s, offset + 1, pos)
    BY <1>6 DEF Progress
  <2>2. k \in 0..(Len(s) - pos)
    BY <1>1, <1>2, <2>1
  <2>3. d = SubSeq(s, offset + 1, pos + k)
    <3>1. SubSeq(s, offset + 1, pos) \o SubSeq(s, pos + 1, pos + k) = SubSeq(s, offset + 1, pos + k)
      <4> HIDE DEF s
      <4>1. QED  BY <1>1, <2>1, <2>2, Adjacent
    <3>2. QED  BY <2>1, <3>1
  <2>4. pos + k \in offset..Len(s)
    BY <1>1, <2>1, <2>2
  <2>5. d \in Seq(Nat)
    BY <1>1, <2>3, <2>4, Adjacent, 0 \in 0..(Len(s) - (pos + k))
  <2>6. /\ files' \in [File -> Record] /\ files'[to].data = d
        /\ files'[from] = files[from]
    <3> HIDE DEF d
    <3>1. QED  BY <1>1, <1>3, <1>6, <2>5, ContentChanges
  <2>7. limit # 0 => pos' - offset <= limit
    BY <1>1, <1>2, <1>3
  <2>8. QED  BY <1>3, <1>4, <1>6, <2>3, <2>4, <2>6, <2>7
<1>7. QED  BY <1>5, <1>6
-----------------------------------------------------------------------------
LEMMA InitInductive == CopyInit => CopyTypeOK /\ Progress
<1> SUFFICES ASSUME CopyInit PROVE CopyTypeOK /\ Progress
  OBVIOUS
<1> DEFINE Made == {Source(n) : n \in 0..MaxSize} \union {Absent, Dir, Old}
<1>1. Made \subseteq Record
  <2>1. ASSUME NEW n \in 0..MaxSize PROVE Source(n) \in Record
    <3>1. [i \in 1..n |-> i] \in Seq(Nat)
      BY IsASeq
    <3>2. QED  BY <3>1 DEF Source, Record
  <2>2. <<>> \in Seq(Nat) /\ <<0, 0>> \in Seq(Nat)
    OBVIOUS
  <2>3. Absent \in Record /\ Dir \in Record /\ Old \in Record
    BY <2>2 DEF Absent, Dir, Old, Record
  <2>4. QED  BY <2>1, <2>3
<1>2. files \in [File -> Record]
  <2>1. PICK f \in {Source(n) : n \in 0..MaxSize} \union {Absent, Dir}, t \in {Absent, Dir, Old} :
          files = [x \in File |-> IF x = from THEN f ELSE t]
    BY DEF CopyInit
  <2>2. f \in Record /\ t \in Record
    BY <1>1
  <2>3. QED  BY <2>1, <2>2
<1>3. CopyTypeOK
  BY <1>2, CopyAssumption DEF CopyInit, CopyTypeOK, Record
<1>4. QED  BY <1>3 DEF CopyInit, Progress

LEMMA ValidateKeeps ==
  ASSUME CopyTypeOK, Progress, Validate
  PROVE  CopyTypeOK' /\ Progress'
<1>1. files[from].data \in Seq(Nat) /\ Len(files[from].data) \in Nat
  <2>1. files[from].data \in Seq(Nat)
    BY DEF CopyTypeOK
  <2>2. QED  BY <2>1, LenProperties
<1>2. CASE Invalid
  BY <1>2 DEF Validate, Refuse, CopyTypeOK, Progress, args
<1>3. CASE ~Invalid
  <2>1. offset \in Int /\ limit \in Int
    BY DEF CopyTypeOK
  <2>2. limit >= 0 /\ offset \in 0..Len(files[from].data)
    BY <1>1, <1>3, <2>1 DEF Invalid
  <2>3. QED  BY <1>1, <1>3, <2>2 DEF Validate, CopyTypeOK, Progress, args
<1>4. QED  BY <1>2, <1>3

LEMMA CreateKeeps ==
  ASSUME CopyTypeOK, Progress, Create
  PROVE  CopyTypeOK' /\ Progress'
<1> DEFINE r == [kind |-> "file", data |-> <<>>]
           s == files[from].data
<1>1. r \in Record /\ r.data = <<>>
  BY DEF Record
<1>2. from \in File /\ to \in File /\ s \in Seq(Nat) /\ Len(s) \in Nat
  <2>1. from \in File /\ to \in File /\ s \in Seq(Nat)
    BY DEF CopyTypeOK
  <2>2. QED  BY <2>1, LenProperties
<1>3. /\ files' \in [File -> Record] /\ files'[to] = r
      /\ from # to => files'[from] = files[from]
  <2>1. files' = [files EXCEPT ![to] = r]
    BY DEF Create
  <2>2. QED
    <3> HIDE DEF r
    <3>1. QED  BY <1>1, <1>2, <2>1, FileChanges
<1>4. CopyTypeOK'
  BY <1>3 DEF Create, CopyTypeOK, Record, args
<1>5. SubSeq(s, offset + 1, offset) = <<>>
  BY SubSeqEmpty DEF CopyTypeOK
<1>6. ASSUME from # to
      PROVE  /\ size <= Len(s) /\ pos \in offset..Len(s) /\ pos = offset
             /\ files'[to].data = SubSeq(s, offset + 1, pos)
  BY <1>1, <1>2, <1>3, <1>5 DEF Create, CopyTypeOK, Progress
<1>7. QED
  BY <1>1, <1>2, <1>3, <1>4, <1>6 DEF Create, CopyTypeOK, Progress, args

\* A step of the chunk loop that moves units, whatever its outcome.
LEMMA ChunkKeeps ==
  ASSUME CopyTypeOK, Progress, CopyChunk \/ CopyFails
  PROVE  CopyTypeOK' /\ Progress'
<1>1. pc = "copy" /\ More /\ UNCHANGED <<args, size>>
  BY DEF CopyChunk, CopyFails
<1>2. PICK k \in 0..Least(ToCopy, Unread) :
        /\ Moved(k)
        /\ \/ /\ copied' = copied + k
              /\ k = Least(ToCopy, Unread)
              /\ IF k < ToCopy THEN Return("nil") ELSE UNCHANGED <<pc, ret>>
           \/ Return("error") /\ UNCHANGED copied
  <2>1. Least(ToCopy, Unread) \in 0..Least(ToCopy, Unread)
    BY <1>1, ChunkFits
  <2>2. QED  BY <2>1 DEF CopyChunk, CopyFails
<1>3. /\ pos \in Nat /\ copied \in Nat /\ offset \in Nat /\ limit \in Nat
      /\ k \in Nat /\ ToCopy \in Nat \ {0} /\ k <= ToCopy
      /\ Len(files[from].data) \in Nat
  <2>1. files[from].data \in Seq(Nat)
    BY DEF CopyTypeOK
  <2>2. Len(files[from].data) \in Nat
    BY <2>1, LenProperties
  <2>3. pos \in Nat /\ copied \in Nat /\ offset \in Nat /\ limit \in Nat
    BY <1>1 DEF CopyTypeOK, Progress
  <2>4. /\ ToCopy \in Nat \ {0} /\ Least(ToCopy, Unread) \in Nat
        /\ Least(ToCopy, Unread) <= ToCopy
    BY <1>1, ChunkFits
  <2>5. QED  BY <2>2, <2>3, <2>4
<1>4. /\ files' \in [File -> Record]
      /\ pos' = pos + k /\ pos' \in Nat
      /\ IF from = to THEN files'[to].data = <<>>
         ELSE /\ files'[from] = files[from]
              /\ pos' \in offset..Len(files[from].data)
              /\ limit # 0 => pos' - offset <= limit
              /\ files'[to].data = SubSeq(files[from].data, offset + 1, pos')
  BY <1>1, <1>2, MovedKeeps
<1>5. CopyTypeOK'
  BY <1>1, <1>2, <1>3, <1>4 DEF CopyTypeOK, Record, args, Return
<1>6. /\ ret' = "none" <=> pc' \notin {"refused", "done"}
      /\ pc' \in {"copy", "done"}
      /\ pc' = "copy" => copied' = copied + k /\ pos' = offset + copied'
      /\ pc' = "copy" => (limit # 0 => copied' <= limit)
  <2>1. limit # 0 => copied + ToCopy <= limit
    BY <1>1, ChunkFits
  <2>2. ret = "none" /\ pos = offset + copied
    BY <1>1 DEF Progress
  <2>3. QED  BY <1>1, <1>2, <1>3, <1>4, <2>1, <2>2 DEF Return
<1>7. ASSUME from # to, ret' = "nil"
      PROVE  pos' = Len(files[from].data)
  <2>1. ret = "none" /\ pos \in offset..Len(files[from].data)
    BY <1>1, <1>7 DEF Progress
  <2>2. k < ToCopy /\ k = Least(ToCopy, Unread)
    BY <1>2, <1>7, <2>1 DEF Return
  <2>3. k = Unread
    BY <1>1, <1>3, <2>2, ChunkFits
  <2>4. Unread = IF pos < Len(files[from].data) THEN Len(files[from].data) - pos ELSE 0
    BY DEF Unread
  <2>5. QED  BY <1>3, <1>4, <2>1, <2>3, <2>4
<1>8. QED
  BY <1>1, <1>4, <1>5, <1>6, <1>7 DEF Progress, args

LEMMA GrowKeeps ==
  ASSUME CopyTypeOK, Progress, ret = "none", Grow
  PROVE  CopyTypeOK' /\ Progress'
<1> DEFINE s == files[from].data
           d == Append(s, Len(s) + 1)
<1>1. from \in File /\ to \in File /\ from # to /\ s \in Seq(Nat) /\ Len(s) \in Nat
  <2>1. from \in File /\ to \in File /\ from # to /\ s \in Seq(Nat)
    BY DEF CopyTypeOK, Grow
  <2>2. QED  BY <2>1, LenProperties
<1>2. /\ d \in Seq(Nat) /\ Len(d) = Len(s) + 1
  BY <1>1, AppendProperties, Len(s) + 1 \in Nat
<1>3. files' \in [File -> Record] /\ files'[from].data = d /\ files'[to] = files[to]
  <2>1. files' = [files EXCEPT ![from].data = d]
    BY DEF Grow
  <2>2. QED
    <3> HIDE DEF d
    <3>1. QED  BY <1>1, <1>2, <2>1, ContentChanges
<1>4. CopyTypeOK'
  BY <1>3 DEF Grow, CopyTypeOK, Record, args
<1>5. ASSUME pc = "copy", pos \in offset..Len(s), offset \in Nat
      PROVE  SubSeq(d, offset + 1, pos) = SubSeq(s, offset + 1, pos)
  <2>1. CASE pos = offset
    BY <1>5, <2>1, SubSeqEmpty
  <2>2. CASE pos # offset
    <3>1. offset + 1 \in 1..Len(s) /\ pos \in 1..Len(s)
      BY <1>1, <1>5, <2>2
    <3>2. d = s \o <<Len(s) + 1>> /\ <<Len(s) + 1>> \in Seq(Nat)
      <4>1. Len(s) + 1 \in Nat
        BY <1>1
      <4>2. QED
        <5> HIDE DEF s
        <5>1. QED  BY <1>1, <4>1, AppendIsConcat
    <3>3. QED
      <4> HIDE DEF d, s
      <4>1. QED  BY <1>1, <3>1, <3>2, SubSeqOfConcat1
  <2>3. QED  BY <2>1, <2>2
<1>6. ASSUME pc = "copy"
      PROVE  /\ size <= Len(d) /\ pos \in offset..Len(d)
             /\ files[to].data = SubSeq(d, offset + 1, pos)
  <2>1. /\ size <= Len(s) /\ pos \in offset..Len(s) /\ offset \in Nat
        /\ files[to].data = SubSeq(s, offset + 1, pos)
    BY <1>1, <1>6 DEF CopyTypeOK, Progress
  <2>2. size \in Nat
    BY DEF CopyTypeOK
  <2>3. QED
    <3>1. size <= Len(d) /\ pos \in offset..Len(d)
      <4> HIDE DEF d, s
      <4>1. QED  BY <1>1, <1>2, <2>1, <2>2
    <3>2. files[to].data = SubSeq(d, offset + 1, pos)
      <4> HIDE DEF d, s
      <4>1. QED  BY <1>5, <1>6, <2>1, Zenon
    <3>3. QED  BY <3>1, <3>2
<1>7. pc \in {"open", "create"} => size <= Len(d)
  <2>1. pc \in {"open", "create"} => size <= Len(s) /\ size \in Nat
    BY DEF Progress, CopyTypeOK
  <2>2. QED
    <3> HIDE DEF d, s
    <3>1. QED  BY <1>1, <1>2, <2>1
<1>8. QED
  <2> HIDE DEF d
  <2>1. QED  BY <1>1, <1>3, <1>4, <1>6, <1>7 DEF Grow, Progress, args
-----------------------------------------------------------------------------
LEMMA NextInductive ==
  ASSUME CopyTypeOK, Progress, [CopyNext]_copyVars
  PROVE  CopyTypeOK' /\ Progress'
<1>1. CASE Open
  BY <1>1 DEF Open, CopyTypeOK, Progress, args
<1>2. CASE CopyEnds
  <2>1. limit # 0 /\ copied = limit
    BY <1>2 DEF CopyEnds, More
  <2>2. QED  BY <1>2, <2>1 DEF CopyEnds, Return, CopyTypeOK, Progress, args
<1>3. CASE SystemCallFails
  BY <1>3 DEF SystemCallFails, Refuse, CopyTypeOK, Progress, args
<1>4. CASE UNCHANGED copyVars
  BY <1>4 DEF copyVars, CopyTypeOK, Progress, args
<1>5. QED
  BY <1>1, <1>2, <1>3, <1>4, ValidateKeeps, CreateKeeps, ChunkKeeps, GrowKeeps
     DEF CopyNext, Copy

\* The inductive invariant of Copy: while the loop runs, position and counter run
\* together, and the target is what lies behind the position (copy.go:57-105).
THEOREM Inductive == CopySpec => [](CopyTypeOK /\ Progress)
<1>1. (CopyTypeOK /\ Progress) /\ [CopyNext]_copyVars => (CopyTypeOK /\ Progress)'
  BY NextInductive
<1>2. QED  BY InitInductive, <1>1, PTL DEF CopySpec

\* Where the copying has begun, to another file, the piece asked for is there and
\* the target is what lies between the offset and the position.
LEMMA TargetIs ==
  ASSUME CopyTypeOK, Progress, pc \in {"copy", "done"}, from # to
  PROVE  /\ files[from].data \in Seq(Nat) /\ Len(files[from].data) \in Nat
         /\ offset \in Nat /\ limit \in Nat /\ pos \in offset..PieceEnd
         /\ PieceEnd \in offset..Len(files[from].data)
         /\ Wanted = SubSeq(files[from].data, offset + 1, PieceEnd)
         /\ files[to].data = SubSeq(files[from].data, offset + 1, pos)
<1>1. files[from].data \in Seq(Nat) /\ limit \in Nat /\ offset \in Nat
  <2>1. files[from].data \in Seq(Nat) /\ {offset, limit} \subseteq Int
    BY DEF CopyTypeOK
  <2>2. limit >= 0 /\ offset \in 0..size
    BY DEF Progress
  <2>3. QED  BY <2>1, <2>2
<1>2. Len(files[from].data) \in Nat
  BY <1>1, LenProperties
<1>3. /\ pos \in offset..Len(files[from].data)
      /\ limit # 0 => pos - offset <= limit
      /\ files[to].data = SubSeq(files[from].data, offset + 1, pos)
  BY DEF Progress
<1>4. offset \in 0..Len(files[from].data)
  BY <1>1, <1>2, <1>3
<1>5. /\ PieceEnd \in offset..Len(files[from].data)
      /\ Wanted = SubSeq(files[from].data, offset + 1, PieceEnd)
  BY <1>1, <1>4, PieceIs
<1>6. pos \in offset..PieceEnd
  BY <1>1, <1>2, <1>3, <1>5 DEF PieceEnd, Least
<1>7. QED  BY <1>1, <1>2, <1>3, <1>5, <1>6

\* Whenever Copy is killed or fails, and however the source grows meanwhile, the
\* target is a beginning of the piece that offset and limit ask for: nothing
\* twice, nothing skipped, nothing past the limit (copy.go:57-105).
THEOREM CopyInvHolds == CopySpec => []CopyInv
<1>1. CopyTypeOK /\ Progress => TargetIsPiece
  <2> SUFFICES ASSUME CopyTypeOK, Progress, pc \in {"copy", "done"}, from # to
               PROVE  Sq!IsPrefix(files[to].data, Wanted)
    BY DEF TargetIsPiece
  <2>1. QED  BY TargetIs, PieceIsPrefix
<1>2. CopyTypeOK /\ Progress => CopyInv
  BY <1>1 DEF CopyInv
<1>3. QED  BY Inductive, <1>2, PTL

\* Copy returns nil only when the target is the whole piece, also with a limit
\* past the end; a file copied onto itself is empty then (copy.go:72-105).
THEOREM NilMeansCopiedHolds == CopySpec => []NilMeansCopied
<1>1. CopyTypeOK /\ Progress => NilMeansCopied
  <2> SUFFICES ASSUME CopyTypeOK, Progress, ret = "nil"
               PROVE  files[to].data = IF from # to THEN Wanted ELSE <<>>
    BY DEF NilMeansCopied
  <2>1. pc = "done"
    BY DEF Progress
  <2>2. CASE from = to
    BY <2>1, <2>2 DEF Progress
  <2>3. CASE from # to
    <3>1. pos = Len(files[from].data) \/ (limit # 0 /\ pos = offset + limit)
      BY <2>1, <2>3 DEF Progress
    <3>2. pos = PieceEnd
      BY <2>1, <2>3, <3>1, TargetIs DEF PieceEnd, Least
    <3>3. QED  BY <2>1, <2>3, <3>2, TargetIs
  <2>4. QED  BY <2>2, <2>3
<1>2. QED  BY Inductive, <1>1, PTL

\* A call that fails before the target is created has left it as it was; that
\* the source grows does not touch it either (copy.go:57-75).
THEOREM RefusedIsUntouchedHolds == CopySpec => RefusedIsUntouched
<1>1. CopyTypeOK /\ [CopyNext]_copyVars => [pc \notin {"create", "copy"} => files'[to] = files[to]]_copyVars
  <2> SUFFICES ASSUME CopyTypeOK, [CopyNext]_copyVars, pc \notin {"create", "copy"}
               PROVE  files'[to] = files[to]
    OBVIOUS
  <2>1. CASE Grow
    BY <2>1 DEF Grow, CopyTypeOK
  <2>2. CASE UNCHANGED copyVars
    BY <2>2 DEF copyVars
  <2>3. QED
    BY <2>1, <2>2
       DEF CopyNext, Copy, Validate, Open, Create, CopyChunk, CopyEnds, SystemCallFails, CopyFails
<1>2. QED  BY Inductive, <1>1, PTL DEF CopySpec, RefusedIsUntouched

\* A share of the bar: less than the whole as long as not all is done.
LEMMA ShareOfBar ==
  ASSUME NEW b \in Nat \ {0}, NEW v \in 0..b, NEW w \in Nat \ {0}
  PROVE  /\ (w * v) \div b \in 0..w
         /\ (w * v) \div b = w <=> v = b
<1> DEFINE q == (w * v) \div b
<1>1. w * v \in Nat /\ w * b \in Nat
  OBVIOUS
<1>2. q \in Int /\ b * q <= w * v /\ w * v < b * (q + 1)
  <2>1. \A x \in Nat : x \div b \in Int /\ b * (x \div b) <= x /\ x < b * (x \div b + 1)
    OBVIOUS
  <2>2. QED  BY <1>1, <2>1
<1>3. QED  BY <1>1, <1>2

\* The bar fits its width at every value, and is full exactly when all that was
\* promised has been copied, for every size, offset and limit
\* (progress_bar.go:35-51).
THEOREM BarFitsHolds == CopySpec => []BarFits
<1>1. CopyTypeOK /\ Progress => BarFits
  <2> SUFFICES ASSUME CopyTypeOK, Progress, pc \in {"copy", "done"}
               PROVE  Shown(copied) \in 1..Width /\ (Shown(copied) = Width <=> copied >= BarMax)
    BY DEF BarFits
  <2>1. BarMax \in Nat /\ copied \in Nat /\ Width \in Nat /\ Width > 1
    BY CopyAssumption DEF BarMax, CopyTypeOK, Progress
  <2>2. CASE BarMax = 0
    BY <2>1, <2>2 DEF Shown
  <2>3. CASE BarMax # 0
    <3> DEFINE v == Least(copied, BarMax)
    <3>1. v \in 0..BarMax /\ (v = BarMax <=> copied >= BarMax)
      BY <2>1 DEF Least
    <3>2. /\ (Width * v) \div BarMax \in 0..Width
          /\ (Width * v) \div BarMax = Width <=> v = BarMax
      <4> HIDE DEF v
      <4>1. QED  BY <2>1, <2>3, <3>1, ShareOfBar
    <3>3. Shown(copied) = IF (Width * v) \div BarMax = 0 THEN 1 ELSE (Width * v) \div BarMax
      BY <2>3 DEF Shown
    <3>4. QED  BY <2>1, <3>1, <3>2, <3>3
  <2>4. QED  BY <2>2, <2>3
<1>2. QED  BY Inductive, <1>1, PTL
=============================================================================
