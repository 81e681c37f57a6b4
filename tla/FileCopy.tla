------------------------------ MODULE FileCopy ------------------------------
(***************************************************************************)
(* hw07_file_copying: Copy of copyutils/copy.go with the progress bar,     *)
(* over a file system that others use too. A unit of a file is as many     *)
(* bytes as make Chunk units the chunk of the code; a file's content is    *)
(* the sequence of its units.                                              *)
(***************************************************************************)
EXTENDS Integers, Sequences

Sq == INSTANCE SequencesExt

CONSTANTS
  File,      \* names of files
  Chunk,     \* units copied at a time (chunkBytesSize)
  MaxSize,   \* bound on the size of files, offset and limit
  Width      \* characters of the progress bar (lengthOfProgressbar)

\* Width is 20 in the code; at 1 the arrow alone would fill the bar.
ASSUME CopyAssumption == Chunk \in Nat \ {0} /\ MaxSize \in Nat /\ Width \in Nat \ {0, 1}

VARIABLES
  from, to, offset, limit,  \* the arguments; from and to may be one file
  files,    \* per name: what kind of file there is, and its content
  pc,       \* "validate", "open", "create", "copy"; "refused" when it returned
            \* before the target was created, else "done"
  size,     \* of the source when it was validated
  pos,      \* the position in the source
  copied,   \* bytesReaden
  ret       \* "none", "nil" or "error"

args == <<from, to, offset, limit>>
copyVars == <<args, files, pc, size, pos, copied, ret>>

Least(a, b) == IF a < b THEN a ELSE b

\* A source of any size, with distinct units, and any target.
Source(n) == [kind |-> "file", data |-> [i \in 1..n |-> i]]
Absent == [kind |-> "absent", data |-> <<>>]
Dir == [kind |-> "dir", data |-> <<>>]
Old == [kind |-> "file", data |-> <<0, 0>>]

CopyInit ==
  /\ from \in File /\ to \in File
  /\ offset \in -1..MaxSize /\ limit \in -1..MaxSize
  /\ \E f \in {Source(n) : n \in 0..MaxSize} \union {Absent, Dir}, t \in {Absent, Dir, Old} :
       files = [x \in File |-> IF x = from THEN f ELSE t]
  /\ pc = "validate" /\ ret = "none"
  /\ size = 0 /\ pos = 0 /\ copied = 0

Refuse == pc' = "refused" /\ ret' = "error"
Return(r) == pc' = "done" /\ ret' = r
-----------------------------------------------------------------------------
Invalid ==
  \/ files[from].kind # "file" \/ files[to].kind = "dir"
  \/ offset < 0 \/ Len(files[from].data) < offset
  \/ limit < 0

Validate ==
  /\ pc = "validate"
  /\ IF Invalid THEN Refuse /\ UNCHANGED size
     ELSE pc' = "open" /\ size' = Len(files[from].data) /\ UNCHANGED ret
  /\ UNCHANGED <<args, files, pos, copied>>

Open ==
  /\ pc = "open"
  /\ pc' = "create" /\ pos' = offset
  /\ UNCHANGED <<args, files, size, copied, ret>>

\* Mutant: the target is created before the source is opened.
CreateFirst ==
  /\ pc \in {"open", "create"}
  /\ files' = [files EXCEPT ![to] = [kind |-> "file", data |-> <<>>]]
  /\ pc' = IF pc = "open" THEN "open" ELSE "copy"
  /\ UNCHANGED <<args, size, pos, copied, ret>>

\* An existing target is emptied, the source too if it is the same file.
Create ==
  /\ pc = "create"
  /\ files' = [files EXCEPT ![to] = [kind |-> "file", data |-> <<>>]]
  /\ pc' = "copy"
  /\ UNCHANGED <<args, size, pos, copied, ret>>

\* Stat, open, seek or create may fail, for instance on a missing permission.
SystemCallFails ==
  /\ pc \in {"validate", "open", "create"}
  /\ Refuse
  /\ UNCHANGED <<args, files, size, pos, copied>>
-----------------------------------------------------------------------------
More == limit = 0 \/ copied # limit

\* Mutant: the last chunk is not cut to the limit.
ToCopyWhole == Chunk

ToCopy == IF limit # 0 THEN Least(Chunk, limit - copied) ELSE Chunk

Unread == IF pos < Len(files[from].data) THEN Len(files[from].data) - pos ELSE 0

\* io.CopyN moved k units.
Moved(k) ==
  /\ files' = [files EXCEPT ![to].data = @ \o SubSeq(files[from].data, pos + 1, pos + k)]
  /\ pos' = pos + k

\* Mutant: a chunk that is not full is the last one, and is left out.
CopyChunkFullOnly ==
  /\ pc = "copy" /\ More
  /\ IF Unread >= ToCopy
       THEN Moved(ToCopy) /\ copied' = copied + ToCopy /\ UNCHANGED <<pc, ret>>
       ELSE Return("nil") /\ UNCHANGED <<files, pos, copied>>
  /\ UNCHANGED <<args, size>>

\* Mutant: at the end of the source the loop goes on.
CopyChunkRetries ==
  /\ pc = "copy" /\ More
  /\ LET k == Least(ToCopy, Unread) IN Moved(k) /\ copied' = copied + k
  /\ UNCHANGED <<args, size, pc, ret>>

\* Fewer units than asked for are the end of the source.
CopyChunk ==
  /\ pc = "copy" /\ More
  /\ LET k == Least(ToCopy, Unread)
     IN /\ Moved(k) /\ copied' = copied + k
        /\ IF k < ToCopy THEN Return("nil") ELSE UNCHANGED <<pc, ret>>
  /\ UNCHANGED <<args, size>>

\* A read or a write fails in the middle of a chunk; the target stays.
CopyFails ==
  /\ pc = "copy" /\ More
  /\ \E k \in 0..Least(ToCopy, Unread) : Moved(k)
  /\ Return("error")
  /\ UNCHANGED <<args, size, copied>>

CopyEnds ==
  /\ pc = "copy" /\ ~More
  /\ Return("nil")
  /\ UNCHANGED <<args, files, size, pos, copied>>

\* Somebody appends to the source meanwhile.
Grow ==
  /\ from # to /\ files[from].kind = "file" /\ Len(files[from].data) < MaxSize
  /\ files' = [files EXCEPT ![from].data = Append(@, Len(@) + 1)]
  /\ UNCHANGED <<args, pc, size, pos, copied, ret>>

Copy == Validate \/ Open \/ Create \/ CopyChunk \/ CopyEnds

CopyNext == Copy \/ SystemCallFails \/ CopyFails \/ (ret = "none" /\ Grow)

\* Copy goes on when nothing fails. The source stops growing some day.
CopySpec == CopyInit /\ [][CopyNext]_copyVars /\ WF_copyVars(Copy)
-----------------------------------------------------------------------------
\* The progress bar: BarMax is what was to be copied when the copying began, and
\* Shown the number of characters printed for a value, the arrow among them.
BarMax == IF limit # 0 /\ limit < size - offset THEN limit ELSE size - offset

\* Mutant: the value is not cut to BarMax.
ShownUncut(value) ==
  LET count == IF BarMax = 0 THEN Width ELSE (Width * value) \div BarMax
  IN IF count = 0 THEN 1 ELSE count

Shown(value) ==
  LET count == IF BarMax = 0 THEN Width ELSE (Width * Least(value, BarMax)) \div BarMax
  IN IF count = 0 THEN 1 ELSE count
-----------------------------------------------------------------------------
CopyTypeOK ==
  /\ {from, to} \subseteq File /\ {offset, limit} \subseteq Int
  /\ files \in [File -> [kind : {"absent", "dir", "file"}, data : Seq(Nat)]]
  /\ pc \in {"validate", "open", "create", "copy", "refused", "done"}
  /\ {size, pos, copied} \subseteq Nat
  /\ ret \in {"none", "nil", "error"}

\* The piece of the source that the arguments ask for, as the source is now.
Wanted ==
  LET rest == SubSeq(files[from].data, offset + 1, Len(files[from].data))
  IN IF limit = 0 THEN rest ELSE SubSeq(rest, 1, Least(limit, Len(rest)))

\* Killed or failed at any moment, Copy leaves a target that is a beginning of
\* the piece asked for: never past the limit, nothing twice, nothing skipped,
\* however the chunks are cut and the source grows (copy.go:82-103).
TargetIsPiece ==
  pc \in {"copy", "done"} /\ from # to => Sq!IsPrefix(files[to].data, Wanted)

\* The position and the counter run together until a call fails, and the target
\* holds exactly what lies between the offset and the position; Copy returned nil
\* only at the end of the source or at the limit (copy.go:64-105).
Progress ==
  /\ ret = "none" <=> pc \notin {"refused", "done"}
  /\ ret = "nil" => pc = "done"
  /\ pc \in {"open", "create", "copy", "done"} => limit >= 0 /\ offset \in 0..size
  /\ pc \in {"open", "create"} => size <= Len(files[from].data)
  /\ pc = "create" => pos = offset
  /\ pc \in {"validate", "open", "create"} => copied = 0
  /\ pc = "copy" => pos = offset + copied /\ (limit # 0 => copied <= limit)
  /\ pc \in {"copy", "done"} =>
       IF from = to THEN files[to].data = <<>>
       ELSE /\ size <= Len(files[from].data) /\ pos \in offset..Len(files[from].data)
            /\ limit # 0 => pos - offset <= limit
            /\ files[to].data = SubSeq(files[from].data, offset + 1, pos)
            /\ ret = "nil" =>
                 pos = Len(files[from].data) \/ (limit # 0 /\ pos = offset + limit)

\* Types, progress and target together, in every state; types and progress are
\* inductive (copy.go:57-105).
CopyInv == CopyTypeOK /\ Progress /\ TargetIsPiece

\* Copy returns nil only when the target is the whole piece; README.md:12, a
\* limit past the end included. A file copied onto itself is lost: Create empties
\* it before it is read (copy.go:72).
NilMeansCopied ==
  ret = "nil" => files[to].data = IF from # to THEN Wanted ELSE <<>>

\* Nothing that fails before Create has touched the target (copy.go:57-75).
RefusedIsUntouched ==
  [][pc \notin {"create", "copy"} => files'[to] = files[to]]_copyVars

\* The bar always fits its width, or Repeat would panic, and is full only when
\* all that was promised has been copied (progress_bar.go:35-51).
BarFits ==
  pc \in {"copy", "done"} =>
    Shown(copied) \in 1..Width /\ (Shown(copied) = Width <=> copied >= BarMax)

\* Copy returns, unless the source grows for ever or has no end.
CopyTerminates == <>(ret # "none")
=============================================================================
