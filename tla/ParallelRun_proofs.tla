------------------------- MODULE ParallelRun_proofs -------------------------
(***************************************************************************)
(* What holds of hw05's Run for every number of workers and tasks and every*)
(* error limit. The inductive invariant IInv is the conjunction of the     *)
(* parts ParallelRun names; the promises about the result and the number of  *)
(* started tasks follow from its counting part.                            *)
(***************************************************************************)
EXTENDS ParallelRun, FiniteSetTheorems, TLAPS

\* Every variable keeps its type: in particular the sender's index never
\* passes T + 1 and workers only hold real tasks (run.go:48-73).
THEOREM TypeCorrect == Spec => []TypeOK
<1>1. Init => TypeOK
  <2> SUFFICES ASSUME Init PROVE TypeOK
    OBVIOUS
  <2>1. tasksClosed \in BOOLEAN /\ stopClosed \in BOOLEAN
    BY Zenon DEF Init
  <2>2. QED  BY <2>1, RunAssumption DEF Init, TypeOK
<1>2. TypeOK /\ [Next]_vars => TypeOK'
  <2> SUFFICES ASSUME TypeOK, [Next]_vars PROVE TypeOK'
    OBVIOUS
  <2> USE RunAssumption DEF TypeOK, sendVars, workVars, recvVars
  <2>1. ASSUME NEW w \in Workers, SendTask(w) PROVE TypeOK'
    BY <2>1 DEF SendTask
  <2>2. CASE SenderReturn
    BY <2>2 DEF SenderReturn
  <2>3. CASE CloseTasks
    BY <2>3 DEF CloseTasks
  <2>4. ASSUME NEW w \in Workers, RunTask(w) PROVE TypeOK'
    <3>1. /\ outcome' \in [1..T -> {"new", "nil", "err"}]
          /\ worker' \in [Workers -> {"range", "run", "select", "stopped", "drained"}]
      BY <2>4 DEF RunTask
    <3>2. QED  BY <2>4, <3>1 DEF RunTask
  <2>5. ASSUME NEW w \in Workers, SendResult(w) PROVE TypeOK'
    <3>1. Errs(w) \in Nat
      BY DEF Errs
    <3>2. worker' \in [Workers -> {"range", "run", "select", "stopped", "drained"}]
      BY <2>5 DEF SendResult, HandOver
    <3>3. QED  BY <2>5, <3>1, <3>2 DEF SendResult, HandOver
  <2>6. ASSUME NEW w \in Workers, WorkerStop(w) \/ WorkerDrained(w) PROVE TypeOK'
    BY <2>6 DEF WorkerStop, WorkerDrained
  <2>7. CASE Receiver
    BY <2>7 DEF Receiver, Report, CloseStop, ReceiverDone
  <2>8. CASE Return
    BY <2>8 DEF Return
  <2>9. CASE UNCHANGED vars
    BY <2>9 DEF vars
  <2>10. QED
    BY <2>1, <2>2, <2>3, <2>4, <2>5, <2>6, <2>7, <2>8, <2>9
       DEF Next, Sender, Worker, Finished
<1>3. QED  BY <1>1, <1>2, PTL DEF Spec
-----------------------------------------------------------------------------
\* The end of a call takes one task out of Running and gives it its outcome; the
\* worker keeps the task until its result is handed over (run.go:66-71).
LEMMA RunTaskHeldOnce ==
  ASSUME TypeOK, HeldOnce, NEW w \in Workers, RunTask(w)
  PROVE  HeldOnce'
<1> USE RunAssumption DEF TypeOK, HeldOnce, Holds, Running, sendVars, recvVars
<1>1. task[w] \in 1..(next - 1) /\ task[w] \in 1..T /\ worker[w] = "run"
  BY DEF RunTask
<1>2. PICK o \in {"nil", "err"} : outcome' = [outcome EXCEPT ![task[w]] = o]
  BY DEF RunTask
<1>3. worker' = [worker EXCEPT ![w] = "select"] /\ task' = task /\ next' = next
  BY DEF RunTask
<1>4. \A v \in Workers : Holds(v)' <=> Holds(v)
  BY <1>1, <1>3
<1>5. Running' = Running \ {task[w]}
  BY <1>1, <1>3
<1>6. \A t \in 1..T : outcome'[t] = "new" <=> t >= next \/ t \in Running'
  <2> TAKE t \in 1..T
  <2>1. CASE t = task[w]
    BY <1>1, <1>2, <1>5, <2>1
  <2>2. CASE t # task[w]
    <3>1. outcome'[t] = outcome[t]
      BY <1>1, <1>2, <2>2
    <3>2. QED  BY <1>5, <2>2, <3>1
  <2>3. QED  BY <2>1, <2>2
<1>7. QED  BY <1>3, <1>4, <1>6

\* Whichever goroutine moves, the sender, a worker, the receiver or Run itself,
\* no task gets into a second pair of hands (run.go:48-100).
LEMMA HeldOnceKept ==
  ASSUME TypeOK, HeldOnce, [Next]_vars
  PROVE  HeldOnce'
<1>1. CASE Finished \/ UNCHANGED vars
  BY <1>1 DEF Finished, vars, HeldOnce, Holds, Running
<1>2. CASE Receiver \/ Return
  BY <1>2 DEF Receiver, Report, CloseStop, ReceiverDone, Return, workVars, sendVars,
              HeldOnce, Holds, Running
<1>3. CASE Sender
  <2> USE RunAssumption DEF TypeOK, HeldOnce, Holds, Running, workVars
  <2>1. CASE \E w \in Workers : SendTask(w)
    BY <2>1 DEF SendTask
  <2>2. CASE SenderReturn \/ CloseTasks
    BY <2>2 DEF SenderReturn, CloseTasks
  <2>3. QED  BY <1>3, <2>1, <2>2 DEF Sender
<1>4. ASSUME NEW w \in Workers, Worker(w) PROVE HeldOnce'
  <2>1. CASE RunTask(w)
    BY <2>1, RunTaskHeldOnce
  <2>2. CASE SendResult(w) \/ WorkerStop(w) \/ WorkerDrained(w)
    BY <2>2, RunAssumption
       DEF SendResult, HandOver, WorkerStop, WorkerDrained, sendVars,
           TypeOK, HeldOnce, Holds, Running
  <2>3. QED  BY <1>4, <2>1, <2>2 DEF Worker
<1>5. QED  BY <1>1, <1>2, <1>3, <1>4 DEF Next

\* No task is ever held by two workers, and a task has an outcome exactly when
\* its call is over, whatever the order of hand-overs (run.go:54-73).
THEOREM HeldOnceCorrect == Spec => []HeldOnce
<1>1. Init => HeldOnce
  BY RunAssumption DEF Init, HeldOnce, Holds, Running
<1>2. QED  BY <1>1, HeldOnceKept, TypeCorrect, PTL DEF Spec

\* The receiver gives its verdict before it closes stopChan and leaves after it;
\* Run takes the verdict when all three Waits are over (run.go:40-45, 75-100).
LEMMA ReceiverShutdown ==
  ASSUME TypeOK, Shutdown, Receiver \/ Return
  PROVE  Shutdown'
<1> USE DEF TypeOK, Shutdown, Verdict, WorkersDone, SenderDone, sendVars, workVars
<1>1. CASE Report
  BY <1>1 DEF Report
<1>2. CASE CloseStop \/ ReceiverDone
  BY <1>2 DEF CloseStop, ReceiverDone
<1>3. CASE Return
  BY <1>3 DEF Return
<1>4. QED  BY <1>1, <1>2, <1>3 DEF Receiver

\* A worker gives up only after stopChan was closed, and hands over a result only
\* while the receiver has no verdict (run.go:63-73).
LEMMA WorkerShutdown ==
  ASSUME TypeOK, Shutdown, NEW w \in Workers, Worker(w)
  PROVE  Shutdown'
<1> USE DEF TypeOK, Shutdown, Verdict, WorkersDone, SenderDone, sendVars, recvVars
<1>1. CASE SendResult(w)
  BY <1>1 DEF SendResult, HandOver
<1>2. CASE WorkerStop(w)
  BY <1>2 DEF WorkerStop
<1>3. CASE RunTask(w) \/ WorkerDrained(w)
  BY <1>3 DEF RunTask, WorkerDrained
<1>4. QED  BY <1>1, <1>2, <1>3 DEF Worker

\* The end happens in order: verdict, close(stopChan), every wg.Done, return.
THEOREM ShutdownCorrect == Spec => []Shutdown
<1>1. Init => Shutdown
  BY DEF Init, Shutdown, Verdict, WorkersDone, SenderDone
<1>2. ASSUME TypeOK, Shutdown, [Next]_vars PROVE Shutdown'
  <2> USE DEF Shutdown, Verdict, WorkersDone, SenderDone
  <2>1. CASE Sender
    BY <1>2, <2>1 DEF TypeOK, Sender, SendTask, SenderReturn, CloseTasks, workVars, recvVars
  <2>2. CASE Finished \/ UNCHANGED vars
    BY <1>2, <2>2 DEF Finished, vars
  <2> HIDE DEF Shutdown, Verdict, WorkersDone, SenderDone
  <2>3. QED
    BY <1>2, <2>1, <2>2, ReceiverShutdown, WorkerShutdown DEF Next
<1>3. QED  BY <1>1, <1>2, TypeCorrect, PTL DEF Spec
-----------------------------------------------------------------------------
LEMMA DeliveredFinite ==
  ASSUME RunAssumption
  PROVE  /\ IsFiniteSet(Delivered) /\ IsFiniteSet(Delivered \cap With("err"))
         /\ \A o : IsFiniteSet(With(o)) /\ Cardinality(With(o)) \in Nat
         /\ Cardinality(Delivered) \in Nat
<1>1. IsFiniteSet(1..T)
  BY FS_Interval DEF RunAssumption
<1>2. QED
  BY <1>1, FS_Subset, FS_CardinalityType DEF Delivered, With

\* A step that moves no task out of a worker's hands and leaves the outcomes of
\* delivered tasks, the counters and the verdict alone keeps the accounts.
LEMMA AccountsKept ==
  ASSUME Accounting, Delivered' = Delivered, Verdict' = Verdict,
         \A t \in Delivered : outcome'[t] = outcome[t],
         errCounter' = errCounter, doneTasks' = doneTasks
  PROVE  Accounting'
<1>1. (Delivered \cap With("err"))' = Delivered \cap With("err")
  BY DEF With, Delivered
<1>2. QED  BY <1>1 DEF Accounting

\* The counters count: errCounter and doneTasks are exact although the receiver
\* returns between updating one and the other (run.go:84-97).
THEOREM AccountingCorrect == Spec => []Accounting
<1>1. Init => Accounting
  <2> SUFFICES ASSUME Init PROVE Accounting
    OBVIOUS
  <2>1. Delivered = {} /\ Delivered \cap With("err") = {}
    BY DEF Init, Delivered
  <2>2. QED  BY <2>1, FS_EmptySet, RunAssumption DEF Init, Accounting, Verdict
<1>2. TypeOK /\ HeldOnce /\ Shutdown /\ Accounting /\ [Next]_vars => Accounting'
  <2> SUFFICES ASSUME TypeOK, HeldOnce, Shutdown, Accounting, [Next]_vars
               PROVE  Accounting'
    OBVIOUS
  <2> USE RunAssumption DEF TypeOK, sendVars, workVars, recvVars
  <2>1. ASSUME NEW w \in Workers, SendTask(w) PROVE Accounting'
    <3>1. Delivered' = Delivered
      BY <2>1 DEF SendTask, Delivered, Holds, HeldOnce
    <3>2. Verdict' = Verdict
      BY <2>1 DEF SendTask, Verdict
    <3>3. QED
      BY <2>1, <3>1, <3>2, AccountsKept DEF SendTask
  <2>2. ASSUME NEW w \in Workers, RunTask(w) PROVE Accounting'
    <3>1. Delivered' = Delivered /\ task[w] \notin Delivered
      BY <2>2 DEF RunTask, Delivered, Holds
    <3>2. Verdict' = Verdict
      BY <2>2 DEF RunTask, Verdict
    <3>3. \A t \in Delivered : outcome'[t] = outcome[t]
      BY <2>2, <3>1 DEF RunTask, Delivered
    <3>4. QED
      BY <2>2, <3>1, <3>2, <3>3, AccountsKept DEF RunTask
  <2>3. ASSUME NEW w \in Workers, WorkerStop(w) \/ WorkerDrained(w) PROVE Accounting'
    <3>1. Delivered' = Delivered
      BY <2>3 DEF WorkerStop, WorkerDrained, Delivered, Holds
    <3>2. Verdict' = Verdict
      BY <2>3 DEF WorkerStop, WorkerDrained, Verdict
    <3>3. QED
      BY <2>3, <3>1, <3>2, AccountsKept DEF WorkerStop, WorkerDrained
  <2>4. ASSUME NEW w \in Workers, SendResult(w) PROVE Accounting'
    <3> DEFINE t == task[w]  D == Delivered  F == Delivered \cap With("err")
    <3>1. /\ worker[w] = "select" /\ receiver = "range"
          /\ worker' = [worker EXCEPT ![w] = "range"]
          /\ task' = task /\ outcome' = outcome /\ next' = next
          /\ resChan' = resChan /\ ret' = ret
          /\ errCounter' = Errs(w)
      BY <2>4 DEF SendResult, HandOver
    <3>2. t \in 1..(next - 1) /\ t \in 1..T /\ t \notin D /\ Verdict = "none"
      BY <3>1 DEF HeldOnce, Holds, Delivered, Shutdown
    <3>3. Delivered' = D \cup {t}
      <4>1. \A v \in Workers : v # w => Holds(v)' = Holds(v) /\ (Holds(v) => task[v] # t)
        BY <3>1 DEF Holds, HeldOnce
      <4>2. ~Holds(w)' /\ Holds(w)
        BY <3>1 DEF Holds
      <4>3. QED  BY <3>1, <3>2, <4>1, <4>2 DEF Delivered
    <3>4. Cardinality(Delivered') = Cardinality(D) + 1
      BY <3>2, <3>3, DeliveredFinite, FS_AddElement
    <3>5. (Delivered \cap With("err"))' = IF outcome[t] = "err" THEN F \cup {t} ELSE F
      BY <3>1, <3>2, <3>3 DEF With
    <3>6. Cardinality((Delivered \cap With("err"))') = Errs(w)
      <4>1. IsFiniteSet(F) /\ t \notin F /\ Cardinality(F) = errCounter
        BY <3>2, DeliveredFinite DEF Accounting
      <4>2. Cardinality(F \cup {t}) = Cardinality(F) + 1
        BY <4>1, FS_AddElement
      <4>3. CASE outcome[t] = "err"
        BY <3>5, <4>2, <4>1, <4>3 DEF Errs
      <4>4. CASE outcome[t] # "err"
        <5>1. (Delivered \cap With("err"))' = F
          BY <3>5, <4>4
        <5> HIDE DEF F
        <5>2. Errs(w) = errCounter
          BY <4>4 DEF Errs
        <5>3. QED  BY <4>1, <5>1, <5>2
      <4>5. QED  BY <4>3, <4>4
    <3>7. Errs(w) \in Nat /\ (M <= 0 \/ Errs(w) <= M)
      BY <3>2 DEF Errs, Accounting
    <3>8. Cardinality(D) = doneTasks
      BY <3>2 DEF Accounting
    <3>9. CASE M > 0 /\ Errs(w) = M
      <4>1. receiver' = "limit" /\ doneTasks' = doneTasks
        BY <2>4, <3>9 DEF SendResult, HandOver
      <4>2. QED  BY <3>1, <3>4, <3>6, <3>8, <3>9, <4>1 DEF Accounting, Verdict
    <3>10. CASE ~(M > 0 /\ Errs(w) = M)
      <4>1. /\ receiver' = IF doneTasks + 1 = T THEN "nil" ELSE "range"
            /\ doneTasks' = doneTasks + 1
        BY <2>4, <3>10 DEF SendResult, HandOver
      <4>2. Verdict' = IF doneTasks' = T THEN "nil" ELSE "none"
        BY <3>1, <3>2, <4>1 DEF Verdict
      <4>3. QED  BY <3>1, <3>4, <3>6, <3>7, <3>8, <3>10, <4>1, <4>2 DEF Accounting
    <3>11. QED  BY <3>9, <3>10
  <2>5. CASE SenderReturn \/ CloseTasks
    BY <2>5, AccountsKept DEF SenderReturn, CloseTasks, Delivered, Verdict, Holds
  <2>6. CASE Receiver \/ Return
    <3>1. Delivered' = Delivered /\ outcome' = outcome
      BY <2>6 DEF Receiver, Report, CloseStop, ReceiverDone, Return, Delivered, Holds
    <3>2. Verdict' = Verdict
      BY <2>6 DEF Receiver, Report, CloseStop, ReceiverDone, Return, Verdict, Shutdown
    <3>3. QED
      BY <2>6, <3>1, <3>2, AccountsKept DEF Receiver, Report, CloseStop, ReceiverDone, Return
  <2>7. CASE UNCHANGED vars
    BY <2>7, AccountsKept DEF vars, Delivered, Verdict, Holds
  <2>8. QED
    BY <2>1, <2>2, <2>3, <2>4, <2>5, <2>6, <2>7 DEF Next, Sender, Worker, Finished
<1>3. QED
  BY <1>1, <1>2, TypeCorrect, HeldOnceCorrect, ShutdownCorrect, PTL DEF Spec
-----------------------------------------------------------------------------
\* The inductive invariant of Run: who holds which task, the order in which all
\* end, and the receiver's counters together (run.go:13-100).
THEOREM Inductive == Spec => []IInv
BY TypeCorrect, HeldOnceCorrect, ShutdownCorrect, AccountingCorrect, PTL DEF IInv

\* Whatever the tasks do and however the goroutines interleave, Run's result is
\* true of the calls made and none of them is in progress (README.md:4-5).
THEOREM ResultIsHonest == Spec => []ResultHonest
<1>1. IInv => ResultHonest
  <2> SUFFICES ASSUME IInv PROVE ResultHonest
    OBVIOUS
  <2> USE RunAssumption DEF IInv, TypeOK
  <2>1. Cardinality(Delivered \cap With("err")) <= Cardinality(With("err"))
    BY DeliveredFinite, FS_Subset
  <2>2. ret # "none" => Verdict = ret /\ Running = {}
    BY DEF Shutdown, Verdict, WorkersDone, Running
  <2>3. ASSUME ret = "limit" PROVE M > 0 /\ Cardinality(With("err")) >= M
    BY <2>1, <2>2, <2>3, DeliveredFinite DEF Accounting
  <2>4. ASSUME ret = "nil"
        PROVE  With("new") = {} /\ (M > 0 => Cardinality(With("err")) < M)
    <3>1. Cardinality(Delivered) = T /\ Cardinality(1..T) = T /\ IsFiniteSet(1..T)
      BY <2>2, <2>4, FS_Interval DEF Accounting
    <3>2. Delivered = 1..T
      BY <3>1, FS_Subset DEF Delivered
    <3>3. \A t \in 1..T : outcome[t] # "new"
      <4> TAKE t \in 1..T
      <4>1. t < next /\ t \notin Running
        BY <2>2, <2>4, <3>2 DEF Delivered
      <4>2. outcome[t] = "new" <=> t >= next \/ t \in Running
        BY DEF HeldOnce
      <4>3. QED  BY <4>1, <4>2
    <3>4. Delivered \cap With("err") = With("err")
      BY <3>2 DEF With
    <3>5. M <= 0 \/ errCounter < M
      BY <2>2, <2>4 DEF Accounting
    <3>6. With("new") = {}
      BY <3>3 DEF With
    <3>7. errCounter = Cardinality(With("err"))
      BY <3>4 DEF Accounting
    <3>8. QED  BY <3>5, <3>6, <3>7
  <2>5. QED  BY <2>2, <2>3, <2>4 DEF ResultHonest
<1>2. QED  BY <1>1, Inductive, PTL

\* The tasks in workers' hands are at most as many as the workers.
LEMMA HeldBound ==
  ASSUME RunAssumption, IInv,
         NEW W \in SUBSET Workers, \A w \in Workers : Holds(w) => w \in W
  PROVE  next - 1 <= Cardinality(Delivered) + Cardinality(W)
<1> DEFINE Held == {w \in W : Holds(w)}
           Tasks == {task[w] : w \in Held}
<1> USE DEF IInv, TypeOK
<1>1. IsFiniteSet(W) /\ IsFiniteSet(Held) /\ Cardinality(Held) <= Cardinality(W)
  <2>1. IsFiniteSet(W)
    BY FS_Subset DEF RunAssumption
  <2>2. QED  BY <2>1, FS_Subset
<1>2. IsFiniteSet(Tasks) /\ Cardinality(Tasks) <= Cardinality(Held)
  <2>1. [w \in Held |-> task[w]] \in Surjection(Held, Tasks)
    BY DEF Surjection
  <2>2. QED  BY <1>1, <2>1, FS_Surjection
<1>3. 1..(next - 1) = Delivered \cup Tasks /\ Delivered \cap Tasks = {}
  BY RunAssumption DEF Delivered, HeldOnce
<1>4. Cardinality(1..(next - 1)) = next - 1
  BY FS_Interval, RunAssumption
<1>5. Cardinality(Delivered \cup Tasks) = Cardinality(Delivered) + Cardinality(Tasks)
  <2> HIDE DEF Tasks
  <2>1. IsFiniteSet(Delivered) /\ Cardinality(Delivered \cap Tasks) = 0
    BY <1>3, DeliveredFinite, FS_EmptySet
  <2>2. Cardinality(Delivered) \in Nat /\ Cardinality(Tasks) \in Nat
    BY <1>2, <2>1, FS_CardinalityType
  <2>3. Cardinality(Delivered \cup Tasks) =
          Cardinality(Delivered) + Cardinality(Tasks) - Cardinality(Delivered \cap Tasks)
    BY <1>2, <2>1, FS_Union
  <2> HIDE DEF IInv, TypeOK
  <2>4. QED  BY <2>1, <2>2, <2>3
<1>6. /\ Cardinality(Delivered) \in Nat /\ Cardinality(Tasks) \in Nat
      /\ Cardinality(Held) \in Nat /\ Cardinality(W) \in Nat
  BY <1>1, <1>2, DeliveredFinite, FS_CardinalityType
<1> HIDE DEF Held, Tasks
<1>7. Cardinality(Delivered \cup Tasks) = next - 1
  BY <1>3, <1>4
<1>8. next \in Int
  BY RunAssumption
<1> HIDE DEF IInv, TypeOK
<1>9. QED
  BY <1>1, <1>2, <1>5, <1>6, <1>7, <1>8

\* Among the delivered results, those that did not fail succeeded.
LEMMA DeliveredSplit ==
  ASSUME RunAssumption, IInv
  PROVE  Cardinality(Delivered) <=
           Cardinality(Delivered \cap With("err")) + Cardinality(With("nil"))
<1> USE DEF IInv, TypeOK
<1> DEFINE E == Delivered \cap With("err")  O == Delivered \ With("err")
<1>1. O \subseteq With("nil")
  <2> SUFFICES ASSUME NEW t \in O PROVE t \in With("nil")
    OBVIOUS
  <2>1. t \in 1..T /\ t < next /\ outcome[t] # "err" /\ t \notin Running
    BY DEF Delivered, With, Running, Holds
  <2>2. outcome[t] # "new"
    BY <2>1, RunAssumption DEF HeldOnce
  <2>3. QED  BY <2>1, <2>2 DEF With
<1>2. IsFiniteSet(O) /\ Cardinality(O) <= Cardinality(With("nil"))
  BY <1>1, DeliveredFinite, FS_Subset
<1>3. Cardinality(O) = Cardinality(Delivered) - Cardinality(E)
  BY DeliveredFinite, FS_Difference
<1>4. Cardinality(E) \in Nat /\ Cardinality(O) \in Nat
  BY <1>2, DeliveredFinite, FS_CardinalityType
<1> HIDE DEF E, O
<1>5. QED
  BY <1>2, <1>3, <1>4, DeliveredFinite DEF E

\* Never more than n + m tasks start, one more for each success, for every n,
\* m > 0 and task list (README.md:18).
THEOREM TaskLimitHolds == Spec => []TaskLimit
<1>1. IInv => TaskLimit
  <2> SUFFICES ASSUME IInv, M > 0
               PROVE  next - 1 <= Cardinality(Workers) + M + Cardinality(With("nil"))
    BY DEF TaskLimit
  <2>1. next - 1 <= Cardinality(Delivered) + Cardinality(Workers)
    BY HeldBound, RunAssumption
  <2>2. Cardinality(Delivered) <= errCounter + Cardinality(With("nil"))
    BY DeliveredSplit, RunAssumption DEF IInv, Accounting
  <2>3. errCounter <= M
    BY RunAssumption DEF IInv, Accounting, TypeOK
  <2>4. /\ Cardinality(Workers) \in Nat /\ Cardinality(With("nil")) \in Nat
        /\ Cardinality(Delivered) \in Nat /\ errCounter \in Nat /\ next \in Nat
    BY RunAssumption, DeliveredFinite, FS_CardinalityType DEF IInv, TypeOK
  <2>5. QED  BY <2>1, <2>2, <2>3, <2>4, RunAssumption
<1>2. QED  BY <1>1, Inductive, PTL
-----------------------------------------------------------------------------
\* The abstract module counts as this one does.
LEMMA SameCardinality ==
  \A S : Promise!Cardinality(S) = Cardinality(S)
BY DEF Promise!Cardinality, Cardinality

\* What the mapped state looks like: the calls begun are those before next, and
\* an outcome the caller sees is one that a task returned.
LEMMA CallsAre ==
  ASSUME RunAssumption, TypeOK, HeldOnce
  PROVE  /\ Promise!With("running") = Running
         /\ Promise!Begun = 1..(next - 1)
         /\ Promise!With("nil") = With("nil") /\ Promise!With("err") = With("err")
         /\ \A t \in 1..T : Calls[t] = "new" <=> t >= next
<1> USE DEF TypeOK, RunAssumption
<1>1. \A t \in 1..T : t \in Running => outcome[t] = "new" /\ t < next
  BY DEF HeldOnce, Running, Holds
<1>2. \A t \in 1..T : outcome[t] = "new" <=> t >= next \/ t \in Running
  BY DEF HeldOnce
<1>3. \A t \in 1..T : Calls[t] = IF t \in Running THEN "running" ELSE outcome[t]
  BY DEF Calls
<1>4. \A t \in 1..T : outcome[t] \in {"new", "nil", "err"}
  OBVIOUS
<1>5. Running \subseteq 1..T
  BY DEF Running
<1>6. \A t \in 1..T : Calls[t] = "new" <=> t >= next
  <2> TAKE t \in 1..T
  <2>1. CASE t \in Running
    BY <1>1, <1>3, <2>1
  <2>2. CASE t \notin Running
    BY <1>2, <1>3, <2>2
  <2>3. QED  BY <2>1, <2>2
<1>7. Promise!With("running") = Running
  BY <1>3, <1>4, <1>5 DEF Promise!With
<1>8. Promise!With("nil") = With("nil") /\ Promise!With("err") = With("err")
  BY <1>1, <1>3 DEF Promise!With, With
<1>9. Promise!Begun = 1..(next - 1)
  <2>1. next \in 1..(T + 1)
    OBVIOUS
  <2> HIDE DEF TypeOK
  <2>2. QED  BY <1>6, <2>1 DEF Promise!Begun, Promise!With
<1>10. QED  BY <1>6, <1>7, <1>8, <1>9

\* While one worker waits for a task, fewer than n calls are in progress.
LEMMA RoomToRun ==
  ASSUME RunAssumption, TypeOK, NEW w \in Workers, worker[w] # "run"
  PROVE  Cardinality(Running) < Cardinality(Workers)
<1> DEFINE Busy == {v \in Workers : worker[v] = "run"}
           Begun == {task[v] : v \in Busy}
<1>1. IsFiniteSet(Busy) /\ Cardinality(Busy) < Cardinality(Workers)
  <2>1. Busy \subseteq Workers /\ Busy # Workers
    OBVIOUS
  <2>2. QED  BY <2>1, FS_Subset, FS_CardinalityType DEF RunAssumption
<1>2. IsFiniteSet(Begun) /\ Cardinality(Begun) <= Cardinality(Busy)
  <2>1. [v \in Busy |-> task[v]] \in Surjection(Busy, Begun)
    BY DEF Surjection
  <2>2. QED  BY <1>1, <2>1, FS_Surjection
<1>3. Running \subseteq Begun
  BY DEF Running
<1>4. Cardinality(Running) <= Cardinality(Begun) /\ IsFiniteSet(Running)
  BY <1>2, <1>3, FS_Subset
<1>5. QED
  BY <1>1, <1>2, <1>4, FS_CardinalityType DEF RunAssumption

LEMMA InitMapped ==
  ASSUME Init
  PROVE  Promise!Init
<1>1. Running = {}
  BY DEF Init, Running
<1>2. Calls = [t \in 1..T |-> "new"]
  BY <1>1 DEF Init, Calls
<1>3. QED  BY <1>2 DEF Init, Promise!Init

\* The sender's hand-over is the call of the next task, within both limits.
LEMMA SendTaskMapped ==
  ASSUME IInv, TaskLimit', NEW w \in Workers, SendTask(w)
  PROVE  Promise!Begin(next)
<1> USE RunAssumption
<1>1. TypeOK /\ HeldOnce /\ Shutdown
  BY DEF IInv
<1>2. /\ next \in 1..T /\ worker[w] = "range"
      /\ worker' = [worker EXCEPT ![w] = "run"] /\ task' = [task EXCEPT ![w] = next]
      /\ next' = next + 1 /\ outcome' = outcome /\ ret' = ret
  BY <1>1 DEF SendTask, TypeOK, recvVars
<1>3. ret = "none"
  BY <1>1, <1>2 DEF Shutdown, WorkersDone
<1>4. Calls[next] = "new" /\ Promise!Begun = 1..(next - 1)
  BY <1>1, <1>2, CallsAre DEF TypeOK
<1>5. Cardinality(Promise!With("running")) < Cardinality(Workers)
  <2>1. Promise!With("running") = Running
    BY <1>1, CallsAre
  <2>2. QED  BY <1>1, <1>2, <2>1, RoomToRun
<1>6. M > 0 => Cardinality(Promise!Begun) < Cardinality(Workers) + M + Cardinality(Promise!With("nil"))
  <2>1. Cardinality(Promise!Begun) = next - 1
    BY <1>2, <1>4, FS_Interval
  <2>2. With("nil")' = With("nil") /\ Promise!With("nil") = With("nil")
    BY <1>1, <1>2, CallsAre DEF With
  <2>3. M > 0 => next <= Cardinality(Workers) + M + Cardinality(With("nil"))
    BY <1>2, <2>2 DEF TaskLimit
  <2>4. Cardinality(Workers) \in Nat /\ Cardinality(With("nil")) \in Nat
    BY DeliveredFinite, FS_CardinalityType
  <2>5. QED  BY <1>2, <2>1, <2>2, <2>3, <2>4
<1>7. Calls' = [Calls EXCEPT ![next] = "running"]
  <2>1. Running' = Running \cup {next}
    BY <1>1, <1>2 DEF Running, TypeOK
  <2>2. QED  BY <1>2, <2>1 DEF Calls
<1>8. QED
  BY <1>2, <1>3, <1>4, <1>5, <1>6, <1>7, SameCardinality DEF Promise!Begin

\* The end of a task is the end of its call.
LEMMA RunTaskMapped ==
  ASSUME IInv, NEW w \in Workers, RunTask(w)
  PROVE  \E o \in {"nil", "err"} : Promise!End(task[w], o)
<1> USE RunAssumption
<1>1. TypeOK /\ HeldOnce /\ Shutdown
  BY DEF IInv
<1>2. PICK o \in {"nil", "err"} : outcome' = [outcome EXCEPT ![task[w]] = o]
  BY DEF RunTask
<1>3. /\ worker[w] = "run" /\ task[w] \in 1..T
      /\ worker' = [worker EXCEPT ![w] = "select"]
      /\ task' = task /\ ret' = ret
  BY <1>1 DEF RunTask, HeldOnce, Holds, TypeOK
<1>4. ret = "none"
  BY <1>1, <1>3 DEF Shutdown, WorkersDone
<1>5. task[w] \in Running /\ Calls[task[w]] = "running"
  BY <1>3 DEF Running, Calls
<1>6. Running' = Running \ {task[w]}
  BY <1>1, <1>3 DEF Running, TypeOK, HeldOnce, Holds
<1>7. Calls' = [Calls EXCEPT ![task[w]] = o]
  <2>1. \A t \in 1..T : Calls'[t] = IF t = task[w] THEN o ELSE Calls[t]
    <3> TAKE t \in 1..T
    <3>1. outcome'[t] = IF t = task[w] THEN o ELSE outcome[t]
      BY <1>1, <1>2 DEF TypeOK
    <3>2. QED  BY <1>6, <3>1 DEF Calls
  <2>2. QED  BY <1>3, <2>1 DEF Calls
<1>8. QED  BY <1>2, <1>3, <1>4, <1>5, <1>7 DEF Promise!End

\* Run's return is the promised one.
LEMMA ReturnMapped ==
  ASSUME IInv, ResultHonest', Return
  PROVE  Promise!ReturnLimit \/ Promise!ReturnNil
<1> USE RunAssumption
<1>1. TypeOK /\ HeldOnce
  BY DEF IInv
<1>2. /\ ret = "none" /\ ret' \in {"nil", "limit"} /\ WorkersDone
      /\ worker' = worker /\ task' = task /\ outcome' = outcome
  BY <1>1 DEF Return, TypeOK, workVars
<1>3. Running = {} /\ Running' = {} /\ Calls' = Calls /\ \A o : With(o)' = With(o)
  BY <1>2 DEF Running, WorkersDone, Calls, With
<1>4. Promise!With("running") = {} /\ Promise!With("err") = With("err")
  BY <1>1, <1>3, CallsAre
<1>5. CASE ret' = "limit"
  BY <1>2, <1>3, <1>4, <1>5, SameCardinality DEF ResultHonest, Promise!ReturnLimit
<1>6. CASE ret' = "nil"
  <2>1. With("new") = {} /\ (M > 0 => Cardinality(With("err")) < M)
    BY <1>3, <1>6 DEF ResultHonest
  <2>2. Promise!Begun = 1..T
    BY <1>1, <1>3, <2>1 DEF Promise!Begun, Promise!With, Calls, With
  <2>3. QED  BY <1>2, <1>3, <1>4, <1>6, <2>1, <2>2, SameCardinality DEF Promise!ReturnNil
<1>7. QED  BY <1>2, <1>5, <1>6

\* The rest cannot be seen from outside: results handed over, goroutines that
\* end, the receiver's verdict before Run returns it (run.go:48-100).
LEMMA HiddenMapped ==
  ASSUME IInv,
         \/ \E w \in Workers : SendResult(w) \/ WorkerStop(w) \/ WorkerDrained(w)
         \/ SenderReturn \/ CloseTasks \/ Receiver \/ UNCHANGED vars
  PROVE  UNCHANGED Promise!vars
<1>1. outcome' = outcome /\ ret' = ret /\ Running' = Running
  <2>1. CASE \E w \in Workers : SendResult(w) \/ WorkerStop(w) \/ WorkerDrained(w)
    BY <2>1 DEF SendResult, HandOver, WorkerStop, WorkerDrained, IInv, TypeOK, Running
  <2>2. CASE SenderReturn \/ CloseTasks \/ Receiver \/ UNCHANGED vars
    BY <2>2 DEF SenderReturn, CloseTasks, Receiver, Report, CloseStop, ReceiverDone,
                vars, workVars, Running
  <2>3. QED  BY <2>1, <2>2
<1>2. QED  BY <1>1 DEF Promise!vars, Calls

\* The goroutines keep the promise of Run: seen from outside, every step of a
\* goroutine is the call of the next task within both limits, the end of a call,
\* a truthful return, or nothing (run.go:21-101, README.md:4-18).
THEOREM Implements == Spec => RefinesPromise
<1>1. IInv /\ IInv' /\ ResultHonest' /\ TaskLimit' /\ [Next]_vars => [Promise!Next]_Promise!vars
  <2> SUFFICES ASSUME IInv, ResultHonest', TaskLimit', [Next]_vars
               PROVE  [Promise!Next]_Promise!vars
    OBVIOUS
  <2>1. ASSUME NEW w \in Workers, SendTask(w) PROVE Promise!Next
    <3>1. next \in 1..T
      BY <2>1, RunAssumption DEF SendTask, IInv, TypeOK
    <3>2. QED  BY <2>1, <3>1, SendTaskMapped DEF Promise!Next
  <2>2. ASSUME NEW w \in Workers, RunTask(w) PROVE Promise!Next
    <3>1. task[w] \in 1..T
      BY <2>2, RunAssumption DEF RunTask, IInv, TypeOK, HeldOnce, Holds
    <3>2. QED  BY <2>2, <3>1, RunTaskMapped DEF Promise!Next
  <2>3. CASE Return
    BY <2>3, ReturnMapped DEF Promise!Next
  <2>4. QED
    BY <2>1, <2>2, <2>3, HiddenMapped DEF Next, Sender, Worker, Finished
<1>2. Init => Promise!Init
  BY InitMapped
<1>3. QED
  BY <1>1, <1>2, Inductive, ResultIsHonest, TaskLimitHolds, PTL
     DEF Spec, RefinesPromise, Promise!Spec
=============================================================================
