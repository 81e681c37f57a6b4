---------------------------- MODULE ParallelRun -----------------------------
(***************************************************************************)
(* hw05_parallel_execution/run.go: Run starts one sender goroutine, n      *)
(* workers and one receiver, joined by two unbuffered channels (tasksChan, *)
(* errsChan), a stopChan that is only ever closed, and three WaitGroups.   *)
(*                                                                         *)
(* An unbuffered channel is a rendezvous: one action moves both goroutines *)
(* and nothing is stored. A select with two ready cases is two enabled     *)
(* actions.                                                                *)
(***************************************************************************)
EXTENDS Integers, FiniteSets

CONSTANTS Workers,   \* the n worker goroutines
          T,         \* len(tasks)
          M          \* m, the error limit

ASSUME RunAssumption ==
  /\ IsFiniteSet(Workers)
  /\ T \in Nat
  /\ M \in Int

VARIABLES
  next,         \* index of the task the sender's range loop offers
  sender,       \* "select", "close" (after wg.Done, before close), "exited"
  tasksClosed,  \* tasksChan is closed
  worker,       \* per worker: where it is in its loop
  task,         \* per worker: the task it received last
  outcome,      \* per task: "new" until it finished, then what it returned
  receiver,     \* "range"; the verdict being sent; "close", "done", "exited"
  errCounter, doneTasks,
  stopClosed,   \* stopChan is closed
  resChan,      \* the buffered result: "empty", "nil" or "limit"
  ret           \* what Run returned, "none" before

vars == <<next, sender, tasksClosed, worker, task, outcome, receiver,
          errCounter, doneTasks, stopClosed, resChan, ret>>
sendVars == <<next, sender, tasksClosed>>
workVars == <<worker, task, outcome>>
recvVars == <<receiver, errCounter, doneTasks, stopClosed, resChan>>

Init ==
  /\ next = 1 /\ sender = "select" /\ tasksClosed = FALSE
  /\ worker = [w \in Workers |-> "range"]
  /\ task = [w \in Workers |-> 0]
  /\ outcome = [t \in 1..T |-> "new"]
  /\ receiver = "range" /\ errCounter = 0 /\ doneTasks = 0
  /\ stopClosed = FALSE /\ resChan = "empty" /\ ret = "none"
-----------------------------------------------------------------------------
\* Faulty forms of actions are named after the fault. They are no part of Next
\* and show which property notices the fault.

\* sender: tasksChan <- task meets a worker in its range over tasksChan.
SendTask(w) ==
  /\ sender = "select" /\ next <= T
  /\ worker[w] = "range"
  /\ worker' = [worker EXCEPT ![w] = "run"]
  /\ task' = [task EXCEPT ![w] = next]
  /\ next' = next + 1
  /\ UNCHANGED <<sender, tasksClosed, outcome, recvVars, ret>>

SenderReturnUnstoppable ==
  /\ sender = "select" /\ next > T
  /\ sender' = "close"
  /\ UNCHANGED <<next, tasksClosed, workVars, recvVars, ret>>

\* sender returns: <-stopChan or no task left. The deferred function calls
\* wg.Done() first ...
SenderReturn ==
  /\ sender = "select"
  /\ next > T \/ stopClosed
  /\ sender' = "close"
  /\ UNCHANGED <<next, tasksClosed, workVars, recvVars, ret>>

\* ... and closes tasksChan after it.
CloseTasks ==
  /\ sender = "close"
  /\ sender' = "exited"
  /\ tasksClosed' = TRUE
  /\ UNCHANGED <<next, workVars, recvVars, ret>>
-----------------------------------------------------------------------------
\* worker: task() is evaluated when the select is entered, before the select
\* looks at stopChan.
RunTask(w) ==
  /\ worker[w] = "run"
  /\ \E o \in {"nil", "err"} : outcome' = [outcome EXCEPT ![task[w]] = o]
  /\ worker' = [worker EXCEPT ![w] = "select"]
  /\ UNCHANGED <<task, sendVars, recvVars, ret>>

\* One round of the receiver's loop: the error limit first, which returns
\* before the result is counted as done.
HandOver(w, errs, done, limit, all) ==
  /\ worker[w] = "select" /\ receiver = "range"
  /\ worker' = [worker EXCEPT ![w] = "range"]
  /\ errCounter' = errs
  /\ doneTasks' = done
  /\ receiver' = IF limit THEN "limit" ELSE IF all THEN "nil" ELSE "range"
  /\ UNCHANGED <<task, outcome, sendVars, stopClosed, resChan, ret>>

Errs(w) == errCounter + (IF outcome[task[w]] = "err" THEN 1 ELSE 0)

SendResultDoneFirst(w) ==
  HandOver(w, Errs(w), doneTasks + 1, M > 0 /\ Errs(w) = M, doneTasks + 1 = T)

\* worker's errsChan <- meets the receiver's range over errsChan.
SendResult(w) ==
  LET limit == M > 0 /\ Errs(w) = M
  IN  HandOver(w, Errs(w), IF limit THEN doneTasks ELSE doneTasks + 1,
               limit, doneTasks + 1 = T)

WorkerStopIgnored(w) ==
  /\ worker[w] = "select" /\ stopClosed
  /\ worker' = [worker EXCEPT ![w] = "range"]
  /\ UNCHANGED <<task, outcome, sendVars, recvVars, ret>>

\* The select takes <-stopChan: the result in hand is dropped.
WorkerStop(w) ==
  /\ worker[w] = "select" /\ stopClosed
  /\ worker' = [worker EXCEPT ![w] = "stopped"]
  /\ UNCHANGED <<task, outcome, sendVars, recvVars, ret>>

\* range over a closed tasksChan ends.
WorkerDrained(w) ==
  /\ worker[w] = "range" /\ tasksClosed
  /\ worker' = [worker EXCEPT ![w] = "drained"]
  /\ UNCHANGED <<task, outcome, sendVars, recvVars, ret>>
-----------------------------------------------------------------------------
\* receiver: resChan has room for the one result.
Report ==
  /\ receiver \in {"limit", "nil"} /\ resChan = "empty"
  /\ resChan' = receiver
  /\ receiver' = "close"
  /\ UNCHANGED <<errCounter, doneTasks, stopClosed, sendVars, workVars, ret>>

\* Its deferred function: close(stopChan), then wg.Done().
CloseStop ==
  /\ receiver = "close"
  /\ stopClosed' = TRUE
  /\ receiver' = "done"
  /\ UNCHANGED <<errCounter, doneTasks, resChan, sendVars, workVars, ret>>

ReceiverDone ==
  /\ receiver = "done"
  /\ receiver' = "exited"
  /\ UNCHANGED <<errCounter, doneTasks, stopClosed, resChan, sendVars, workVars, ret>>

WorkersDone == \A w \in Workers : worker[w] \in {"stopped", "drained"}
SenderDone  == sender \in {"close", "exited"}

ReturnUnwaited ==
  /\ ret = "none" /\ receiver = "exited" /\ resChan # "empty"
  /\ ret' = resChan /\ resChan' = "empty"
  /\ UNCHANGED <<receiver, errCounter, doneTasks, stopClosed, sendVars, workVars>>

\* Run: the three Waits, each of a condition that stays true, then <-resChan.
Return ==
  /\ ret = "none"
  /\ receiver = "exited" /\ WorkersDone /\ SenderDone
  /\ resChan # "empty"
  /\ ret' = resChan
  /\ resChan' = "empty"
  /\ UNCHANGED <<receiver, errCounter, doneTasks, stopClosed, sendVars, workVars>>

\* Nothing is left to do: a stutter, so that TLC reports only real deadlocks.
Finished ==
  /\ ret # "none" /\ sender = "exited"
  /\ UNCHANGED vars

Sender   == (\E w \in Workers : SendTask(w)) \/ SenderReturn \/ CloseTasks
Worker(w) == RunTask(w) \/ SendResult(w) \/ WorkerStop(w) \/ WorkerDrained(w)
Receiver == Report \/ CloseStop \/ ReceiverDone

Next == Sender \/ (\E w \in Workers : Worker(w)) \/ Receiver \/ Return \/ Finished

Spec == Init /\ [][Next]_vars

\* The Go scheduler runs every goroutine that can run; tasks themselves return.
FairSpec ==
  /\ Spec
  /\ WF_vars(Sender) /\ WF_vars(Receiver) /\ WF_vars(Return)
  /\ \A w \in Workers : WF_vars(Worker(w))
-----------------------------------------------------------------------------
\* Every variable keeps its type, counters included.
TypeOK ==
  /\ next \in 1..(T + 1)
  /\ sender \in {"select", "close", "exited"}
  /\ tasksClosed \in BOOLEAN
  /\ worker \in [Workers -> {"range", "run", "select", "stopped", "drained"}]
  /\ task \in [Workers -> 0..T]
  /\ outcome \in [1..T -> {"new", "nil", "err"}]
  /\ receiver \in {"range", "limit", "nil", "close", "done", "exited"}
  /\ errCounter \in Nat
  /\ doneTasks \in Nat
  /\ stopClosed \in BOOLEAN
  /\ resChan \in {"empty", "nil", "limit"}
  /\ ret \in {"none", "nil", "limit"}

\* A worker holds a task from receiving it to handing its result over; a worker
\* that stopped dropped its result for good.
Holds(w)  == worker[w] \in {"run", "select", "stopped"}
Running   == {t \in 1..T : \E w \in Workers : worker[w] = "run" /\ task[w] = t}
Delivered == {t \in 1..T : t < next /\ \A w \in Workers : Holds(w) => task[w] # t}
With(o)   == {t \in 1..T : outcome[t] = o}
Verdict   == IF receiver \in {"limit", "nil"} THEN receiver
             ELSE IF resChan # "empty" THEN resChan ELSE ret

\* No task is handed to two workers, and a task has an outcome exactly when
\* its call is over (the sender and n workers share one channel).
HeldOnce ==
  /\ \A w \in Workers : Holds(w) => task[w] \in 1..(next - 1)
  /\ \A v, w \in Workers : Holds(v) /\ Holds(w) /\ task[v] = task[w] => v = w
  /\ \A t \in 1..T : outcome[t] = "new" <=> t >= next \/ t \in Running

\* The receiver's two counters, updated by an early return in between, count
\* the tasks whose results were handed over and those of them that failed.
Accounting ==
  /\ errCounter = Cardinality(Delivered \cap With("err"))
  /\ Cardinality(Delivered) = doneTasks + (IF Verdict = "limit" THEN 1 ELSE 0)
  /\ Verdict # "limit" => M <= 0 \/ errCounter < M
  /\ Verdict = "limit" => M > 0 /\ errCounter = M
  /\ Verdict = "nil"   => doneTasks = T

\* The order of the end: the one verdict is in flight exactly between the
\* receiver's loop and Run's return, workers give up only after it was sent,
\* and Run returns after everybody's wg.Done (run.go:40, the three defers).
Shutdown ==
  /\ Verdict = "none" <=> receiver = "range"
  /\ receiver \in {"range", "limit", "nil"} => resChan = "empty"
  /\ ret # "none" <=> receiver = "exited" /\ resChan = "empty"
  /\ ret # "none" => WorkersDone /\ SenderDone
  /\ stopClosed <=> receiver \in {"done", "exited"}
  /\ \A w \in Workers : worker[w] = "stopped" => stopClosed

\* The goroutines, the counters and the end fit together in every state; the
\* parts are inductive together (run.go:48-100).
IInv == TypeOK /\ HeldOnce /\ Shutdown /\ Accounting

\* What Run returns is true of the calls it made: "limit" after at least M
\* failures, nil only when every task was called and fewer than M failed, and
\* no call is still in progress (README.md:4-5, the tests of run_test.go).
ResultHonest ==
  /\ ret = "limit" => M > 0 /\ Cardinality(With("err")) >= M
  /\ ret = "nil"   => With("new") = {} /\ (M > 0 => Cardinality(With("err")) < M)
  /\ ret # "none"  => Running = {}

\* At most n + m tasks start when nothing succeeds, and each success allows one
\* more, although workers run ahead of the receiver (README.md:18).
TaskLimit ==
  M > 0 => next - 1 <= Cardinality(Workers) + M + Cardinality(With("nil"))

\* What the caller can see of the tasks: calls in progress, and what came of them.
Calls == [t \in 1..T |-> IF t \in Running THEN "running" ELSE outcome[t]]

\* The result abstraction: everything is hidden but the calls and the result.
Promise == INSTANCE BoundedRun WITH N <- Cardinality(Workers), outcome <- Calls

\* The goroutines implement the promise: no task starts or ends after Run
\* returned, at most n run at a time, in order, within the limit.
RefinesPromise == Promise!Spec

\* Run returns and the sender ends too, whichever select cases are taken and
\* however early the limit is hit (needs a task and a worker).
Terminates == <>(ret # "none" /\ sender = "exited")
=============================================================================
