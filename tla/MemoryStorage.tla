---------------------------- MODULE MemoryStorage ----------------------------
(***************************************************************************)
(* hw12_13_14_15_calendar/internal/storage/memory/storage.go: the map of   *)
(* events under calls of several goroutines. The writers hold mu around    *)
(* their access to the map, the readers do not take it.                    *)
(***************************************************************************)
EXTENDS EventStorage

VARIABLES
  data,     \* the map, as a function: title of the event with that id, or None
  mu,       \* the goroutine that holds mu, or None
  pc,       \* per goroutine: "idle", "lock", "write", "unlock" or "list"
  call,     \* per goroutine: the operation, id and title (of a write)
  left,     \* per goroutine in ListEvents: ids its iteration has not come to
  listed,   \* per goroutine: what its ListEvents found, as data is
  during,   \* per goroutine in ListEvents: the values each id has had since it
            \* began
  fatal     \* the runtime ended the process on concurrent map access

vars == <<data, mu, pc, call, left, listed, during, fatal>>
listVars == <<left, listed, during>>

NoCall == [op |-> "none", id |-> GetID, value |-> None]

Init ==
  /\ data = [i \in Id |-> None]
  /\ mu = None
  /\ pc = [p \in Proc |-> "idle"]
  /\ call = [p \in Proc |-> NoCall]
  /\ left = [p \in Proc |-> {}]
  /\ listed = [p \in Proc |-> [i \in Id |-> None]]
  /\ during = [p \in Proc |-> [i \in Id |-> {}]]
  /\ fatal = FALSE

Goto(p, label) == pc' = [pc EXCEPT ![p] = label]
-----------------------------------------------------------------------------
\* A write is called. AddEvent puts the storage's id into the event, before it
\* takes the lock; DeleteEvent stores no event.
Begin(p, op, i, v) ==
  /\ pc[p] = "idle"
  /\ call' = [call EXCEPT ![p] = [op |-> op, id |-> i, value |-> v]]
  /\ Goto(p, "lock")
  /\ UNCHANGED <<data, mu, listVars, fatal>>

AddEvent(p) == \E v \in Title : Begin(p, "add", GetID, v)
ModifyEvent(p) == \E i \in Id, v \in Title : Begin(p, "modify", i, v)
DeleteEvent(p) == \E i \in Id : Begin(p, "delete", i, None)

\* Mutant: the write takes the read lock, which others may hold too.
LockShared(p) ==
  /\ pc[p] = "lock"
  /\ mu' = p
  /\ Goto(p, "write")
  /\ UNCHANGED <<data, call, listVars, fatal>>

Lock(p) ==
  /\ pc[p] = "lock" /\ mu = None
  /\ mu' = p
  /\ Goto(p, "write")
  /\ UNCHANGED <<data, call, listVars, fatal>>

\* The access to the map lasts until the lock is released; its effect is seen
\* at one moment of it.
Write(p) ==
  /\ pc[p] = "write"
  /\ data' = [data EXCEPT ![call[p].id] = call[p].value]
  /\ during' = [q \in Proc |-> [during[q] EXCEPT ![call[p].id] = @ \union {call[p].value}]]
  /\ Goto(p, "unlock")
  /\ UNCHANGED <<mu, call, left, listed, fatal>>

\* Mutant: an early return that forgets the lock.
UnlockForgotten(p) ==
  /\ pc[p] = "unlock"
  /\ mu' = IF call[p].op = "delete" THEN mu ELSE None
  /\ call' = [call EXCEPT ![p] = NoCall]
  /\ Goto(p, "idle")
  /\ UNCHANGED <<data, listVars, fatal>>

Unlock(p) ==
  /\ pc[p] = "unlock"
  /\ mu' = None
  /\ call' = [call EXCEPT ![p] = NoCall]
  /\ Goto(p, "idle")
  /\ UNCHANGED <<data, listVars, fatal>>
-----------------------------------------------------------------------------
\* ListEvents: an iteration of the map, in any order.
ListEvents(p) ==
  /\ pc[p] = "idle"
  /\ left' = [left EXCEPT ![p] = Id]
  /\ listed' = [listed EXCEPT ![p] = [i \in Id |-> None]]
  /\ during' = [during EXCEPT ![p] = [i \in Id |-> {data[i]}]]
  /\ Goto(p, "list")
  /\ UNCHANGED <<data, mu, call, fatal>>

\* An event stored or stored anew during the iteration may be skipped by it.
Seen(p, i) == {data[i]} \union (during[p][i] \intersect {None})

\* Mutant: the result has room only for the events counted before.
ListNextRoom(p) ==
  /\ pc[p] = "list"
  /\ \E i \in left[p] :
       /\ left' = [left EXCEPT ![p] = IF data[i] # None THEN {} ELSE @ \ {i}]
       /\ \E v \in Seen(p, i) : listed' = [listed EXCEPT ![p][i] = v]
  /\ UNCHANGED <<data, mu, pc, call, during, fatal>>

ListNext(p) ==
  /\ pc[p] = "list"
  /\ \E i \in left[p] :
       /\ left' = [left EXCEPT ![p] = @ \ {i}]
       /\ \E v \in Seen(p, i) : listed' = [listed EXCEPT ![p][i] = v]
  /\ UNCHANGED <<data, mu, pc, call, during, fatal>>

\* Its history is dropped after the call.
ListDone(p) ==
  /\ pc[p] = "list" /\ left[p] = {}
  /\ listed' = [listed EXCEPT ![p] = [i \in Id |-> None]]
  /\ during' = [during EXCEPT ![p] = [i \in Id |-> {}]]
  /\ Goto(p, "idle")
  /\ UNCHANGED <<data, mu, call, left, fatal>>

\* A reader meets a writer in the map: the runtime may end the process. The
\* lookup of GetEvent, by a goroutine that is idle here, changes nothing else.
Reading(p) == pc[p] = "idle" \/ left[p] # {}

Throw ==
  /\ \E p, q \in Proc : p # q /\ Reading(p) /\ pc[q] = "write"
  /\ fatal' = TRUE
  /\ UNCHANGED <<data, mu, pc, call, listVars>>

Next ==
  /\ ~fatal
  /\ \/ Throw
     \/ \E p \in Proc : \/ AddEvent(p) \/ ModifyEvent(p) \/ DeleteEvent(p)
                        \/ Lock(p) \/ Write(p) \/ Unlock(p)
                        \/ ListEvents(p) \/ ListNext(p) \/ ListDone(p)

Spec == Init /\ [][Next]_vars

\* Goroutines run, and a mutex lets nobody wait for ever (sync.Mutex hands over
\* to the longest waiter): the fairness of Lock is strong.
Fairness ==
  \A p \in Proc : /\ WF_vars(~fatal /\ (Write(p) \/ Unlock(p)))
                  /\ WF_vars(~fatal /\ (ListNext(p) \/ ListDone(p)))
                  /\ SF_vars(~fatal /\ Lock(p))
-----------------------------------------------------------------------------
TypeOK ==
  /\ data \in [Id -> Value] /\ listed \in [Proc -> [Id -> Value]]
  /\ mu \in Proc \union {None}
  /\ pc \in [Proc -> {"idle", "lock", "write", "unlock", "list"}]
  /\ call \in [Proc -> [op : {"none", "add", "modify", "delete"}, id : Id, value : Value]]
  /\ left \in [Proc -> SUBSET Id]
  /\ during \in [Proc -> [Id -> SUBSET Value]]
  /\ fatal \in BOOLEAN

\* Writers are never in the map together: whoever is in it holds mu, which
\* nobody holds otherwise.
WritersExclude ==
  \A p \in Proc : pc[p] \in {"write", "unlock"} <=> mu = p

\* What a listing holds when it ends says nothing of its middle. In between, the
\* ids it has come to are listed as a regular listing may list them, and every
\* id's present value is among those it has had.
ListedSoFar ==
  \A p \in Proc : pc[p] = "list" =>
    \A i \in Id :
      /\ data[i] \in during[p][i]
      /\ i \notin left[p] =>
           /\ listed[p][i] \in during[p][i] \union {None}
           /\ listed[p][i] = None => None \in during[p][i]

\* The writers' lock and the readers' view of the map hold in every state,
\* whatever the goroutines are in the middle of (storage.go:32-80).
Inv == TypeOK /\ WritersExclude /\ ListedSoFar

\* What ListEvents returns is regular: every event it lists was stored at some
\* time during the call, and an event stored throughout the call is listed.
ListIsRegular ==
  \A p \in Proc : pc[p] = "list" /\ left[p] = {} =>
    \A i \in Id : listed[p][i] \in during[p][i] \union {None}
                    /\ (listed[p][i] = None => None \in during[p][i])

\* Every call returns, however the goroutines meet at mu.
CallsReturn == \A p \in Proc : pc[p] # "idle" ~> (pc[p] = "idle" \/ fatal)
=============================================================================
