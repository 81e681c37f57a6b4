----------------------------- MODULE BoundedRun -----------------------------
(***************************************************************************)
(* What hw05's Run(tasks, n, m) promises its caller, whatever goroutines   *)
(* it uses inside: tasks begin in order, at most N at a time and never     *)
(* after Run returned; the result says truthfully whether m tasks failed;  *)
(* and a limit M > 0 bounds how many tasks are ever begun.                 *)
(***************************************************************************)
EXTENDS Integers, FiniteSets

CONSTANTS N,   \* n, the number of tasks that may run at once
          T,   \* len(tasks)
          M    \* m, the error limit; M <= 0 means that errors are ignored

VARIABLES outcome,   \* per task: "new", "running", "nil" or "err"
          ret        \* "none" until Run returns, then "nil" or "limit"

vars == <<outcome, ret>>

With(o) == {t \in 1..T : outcome[t] = o}
Begun   == 1..T \ With("new")

Init ==
  /\ outcome = [t \in 1..T |-> "new"]
  /\ ret = "none"

\* Task t is called. Each task that succeeds earns one more; otherwise at
\* most N + M are ever called.
Begin(t) ==
  /\ ret = "none"
  /\ outcome[t] = "new"
  /\ Begun = 1..(t - 1)
  /\ Cardinality(With("running")) < N
  /\ M > 0 => Cardinality(Begun) < N + M + Cardinality(With("nil"))
  /\ outcome' = [outcome EXCEPT ![t] = "running"]
  /\ UNCHANGED ret

End(t, o) ==
  /\ ret = "none"
  /\ outcome[t] = "running"
  /\ outcome' = [outcome EXCEPT ![t] = o]
  /\ UNCHANGED ret

ReturnLimit ==
  /\ ret = "none"
  /\ With("running") = {}
  /\ M > 0
  /\ Cardinality(With("err")) >= M
  /\ ret' = "limit"
  /\ UNCHANGED outcome

ReturnNil ==
  /\ ret = "none"
  /\ With("running") = {}
  /\ Begun = 1..T
  /\ M > 0 => Cardinality(With("err")) < M
  /\ ret' = "nil"
  /\ UNCHANGED outcome

Next ==
  \/ \E t \in 1..T : Begin(t) \/ \E o \in {"nil", "err"} : End(t, o)
  \/ ReturnLimit
  \/ ReturnNil

Spec == Init /\ [][Next]_vars
=============================================================================
