--------------------------- MODULE OrderedStream ----------------------------
(***************************************************************************)
(* What hw06's ExecutePipeline promises the reader of its output: the      *)
(* inputs, each worked on by all stages, in their order, until the output  *)
(* is closed; and without a stop signal it is closed only after them all.  *)
(***************************************************************************)
EXTENDS Integers, Sequences

CONSTANTS N,   \* number of inputs, the values 1..N in order
          K    \* number of stages

VARIABLES taken,     \* inputs taken so far
          out,       \* results read so far: <<input, stages passed>>
          stopped,   \* done is closed
          closed     \* the output channel is closed

vars == <<taken, out, stopped, closed>>

Init == taken = 0 /\ out = <<>> /\ stopped = FALSE /\ closed = FALSE

Take ==
  /\ taken < N
  /\ taken' = taken + 1
  /\ UNCHANGED <<out, stopped, closed>>

Deliver ==
  /\ ~closed
  /\ Len(out) < taken
  /\ out' = Append(out, <<Len(out) + 1, K>>)
  /\ UNCHANGED <<taken, stopped, closed>>

Stop ==
  /\ stopped' = TRUE
  /\ UNCHANGED <<taken, out, closed>>

Close ==
  /\ stopped \/ Len(out) = N
  /\ closed' = TRUE
  /\ UNCHANGED <<taken, out, stopped>>

Next == Take \/ Deliver \/ Stop \/ Close

Spec == Init /\ [][Next]_vars
=============================================================================
