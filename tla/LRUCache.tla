------------------------------ MODULE LRUCache ------------------------------
(***************************************************************************)
(* hw04_lru_cache/cache.go: Set, Get and Clear called by goroutines that   *)
(* share one lruCache. Every call locks mu, works on the map items and the *)
(* list queue in several steps, and unlocks in a deferred call.            *)
(*                                                                         *)
(* used and val are history: what LRUSpec remembers of the calls so far.   *)
(***************************************************************************)
EXTENDS ListOps, FiniteSets

CONSTANTS Procs, Keys, Values, Capacities, NoValue

ASSUME CacheAssumption == Capacities \subseteq Nat /\ Nil \notin Procs /\ NoValue \notin Values

\* The heap never runs out: there is an item for every key a cache may hold.
ASSUME HeapAssumption ==
  \A c \in Capacities : IsFiniteSet(Item) => Cardinality(Item) >= c

VARIABLES
  capacity,   \* NewCache's argument
  queue,      \* the List; its heap holds all ListItems
  items,      \* map from key to *ListItem, Nil when absent
  cell,       \* per list item: the cacheItem its Value points to
  mu,         \* the mutex: the goroutine that holds it, Nil when free
  pc,         \* per goroutine: the step it is at, "idle" between calls
  item,       \* per goroutine: the local variable item
  req, res,   \* per goroutine: the call's arguments and result
  used, val

vars == <<capacity, queue, items, cell, mu, pc, item, req, res, used, val>>
data == <<queue, items, cell>>
history == <<used, val>>

S == INSTANCE LRUSpec WITH
  phase <- [p \in Procs |-> IF pc[p] = "idle" THEN "idle"
                            ELSE IF pc[p] = "unlock" THEN "done" ELSE "called"]

Init ==
  /\ capacity \in Capacities
  /\ queue = [length |-> 0, front |-> Nil, back |-> Nil,
              next |-> [i \in Item |-> Nil], prev |-> [i \in Item |-> Nil]]
  /\ items = [k \in Keys |-> Nil]
  /\ cell = [i \in Item |-> [key |-> Nil, value |-> NoValue]]
  /\ mu = Nil
  /\ pc = [p \in Procs |-> "idle"]
  /\ item = [p \in Procs |-> Nil]
  /\ req = [p \in Procs |-> S!NoRequest]
  /\ res = [p \in Procs |-> NoValue]
  /\ used = <<>> /\ val = [k \in Keys |-> NoValue]

Goto(p, label) == pc' = [pc EXCEPT ![p] = label]
Result(p, r)   == res' = [res EXCEPT ![p] = r]

Call(p) ==
  /\ pc[p] = "idle"
  /\ \E r \in S!Request : req' = [req EXCEPT ![p] = r]
  /\ Goto(p, "lock")
  /\ UNCHANGED <<data, mu, item, res, history>>

Body(p) == IF req[p].op = "Clear" THEN "clear" ELSE "lookup"

\* Without the wait for mu (faulty; so are the other operators with a fault for
\* a name, which no action of Next uses).
LockUnguarded(p) ==
  /\ pc[p] = "lock"
  /\ mu' = p
  /\ Goto(p, Body(p))
  /\ UNCHANGED <<data, item, req, res, history>>

\* l.mu.Lock(), the first thing each method does.
Lock(p) ==
  /\ mu = Nil
  /\ LockUnguarded(p)

LookupWith(p, missed) ==
  LET found == items[req[p].key] IN
  /\ pc[p] = "lookup"
  /\ item' = [item EXCEPT ![p] = found]
  /\ Goto(p, IF found # Nil THEN "touch" ELSE missed)
  /\ UNCHANGED <<data, mu, req, res, history>>

Missed(p, full) == IF req[p].op = "Get" THEN "unlock" ELSE IF full THEN "evict" ELSE "insert"
LookupOffByOne(p) == LookupWith(p, Missed(p, queue.length > capacity))

\* item, ok := l.items[key]; a Set that misses goes on to compare Len() with
\* the capacity, a Get that misses returns nil and false.
Lookup(p) == LookupWith(p, Missed(p, queue.length = capacity))

Value(p) == cell[item[p]].value

\* The key is there: a Set stores the value in the cacheItem, both calls move
\* the item to the front, a Get returns the value found.
Touch(p) ==
  LET r == req[p]
      v == IF r.op = "Set" THEN r.value ELSE Value(p)
  IN  /\ pc[p] = "touch"
      /\ cell' = [cell EXCEPT ![item[p]].value = v]
      /\ queue' = MoveToFront(queue, item[p])
      /\ Result(p, IF r.op = "Set" THEN TRUE ELSE Value(p))
      /\ used' = S!Touched(used, r.key)
      /\ val' = [val EXCEPT ![r.key] = v]
      /\ Goto(p, "unlock")
      /\ UNCHANGED <<items, mu, item, req>>

EvictWith(p, map, list) ==
  /\ pc[p] = "evict" /\ queue.back # Nil
  /\ items' = map
  /\ queue' = list
  /\ Goto(p, "insert")
  /\ UNCHANGED <<cell, mu, item, req, res, history>>

WithoutLast == [items EXCEPT ![cell[queue.back].key] = Nil]
EvictFromQueueOnly(p) == EvictWith(p, items, Remove(queue, queue.back))

\* The least recently used item leaves the map and the list.
Evict(p) == EvictWith(p, WithoutLast, Remove(queue, queue.back))

EvictPanicsLocked(p) ==
  /\ pc[p] = "evict" /\ queue.back = Nil
  /\ Goto(p, "panic")
  /\ UNCHANGED <<data, mu, item, req, res, history>>

\* Back() is nil: l.queue.Back().Value dereferences it. The deferred Unlock
\* still runs; where the caller recovers, the other goroutines go on.
EvictPanics(p) ==
  /\ pc[p] = "evict" /\ queue.back = Nil
  /\ mu' = Nil
  /\ Goto(p, "panic")
  /\ UNCHANGED <<data, item, req, res, history>>

\* A ListItem that nothing refers to; which one does not matter.
NewItem == CHOOSE i \in Item : /\ \A k \in Keys : items[k] # i
                               /\ \A q \in Procs : item[q] # i

\* PushFront of a new cacheItem, and its ListItem into the map.
Insert(p) ==
  LET r == req[p] IN
  /\ pc[p] = "insert"
  /\ cell' = [cell EXCEPT ![NewItem] = [key |-> r.key, value |-> r.value]]
  /\ queue' = PushFront(queue, NewItem)
  /\ items' = [items EXCEPT ![r.key] = NewItem]
  /\ Result(p, FALSE)
  /\ used' = S!Touched(used, r.key)
  /\ val' = [val EXCEPT ![r.key] = r.value]
  /\ Goto(p, "unlock")
  /\ UNCHANGED <<mu, item, req>>

Clear(p) ==
  /\ pc[p] = "clear"
  /\ queue' = NewList(queue)
  /\ items' = [k \in Keys |-> Nil]
  /\ used' = <<>>
  /\ val' = [k \in Keys |-> NoValue]
  /\ Goto(p, "unlock")
  /\ UNCHANGED <<cell, mu, item, req, res>>

\* The deferred l.mu.Unlock(), and the call returns.
Unlock(p) ==
  /\ pc[p] = "unlock"
  /\ mu' = Nil
  /\ Goto(p, "idle")
  /\ item' = [item EXCEPT ![p] = Nil]
  /\ req' = [req EXCEPT ![p] = S!NoRequest]
  /\ Result(p, NoValue)
  /\ UNCHANGED <<data, history>>

Step(p) ==
  \/ Lookup(p) \/ Touch(p) \/ Evict(p) \/ EvictPanics(p) \/ Insert(p)
  \/ Clear(p) \/ Unlock(p)

Next ==
  /\ \E p \in Procs : Call(p) \/ Lock(p) \/ Step(p)
  /\ UNCHANGED capacity

Spec == Init /\ [][Next]_vars

\* The scheduler runs every goroutine, and sync.Mutex hands the lock to a
\* waiter that has been starved for a millisecond.
FairSpec ==
  Spec /\ \A p \in Procs : /\ WF_vars(Step(p) /\ UNCHANGED capacity)
                          /\ SF_vars(Lock(p) /\ UNCHANGED capacity)
-----------------------------------------------------------------------------
TypeOK ==
  /\ capacity \in Capacities
  /\ queue \in List
  /\ items \in [Keys -> Pointer]
  /\ cell \in [Item -> [key : Keys \cup {Nil}, value : Values \cup {NoValue}]]
  /\ mu \in Procs \cup {Nil}
  /\ pc \in [Procs -> {"idle", "lock", "lookup", "touch", "evict", "insert",
                       "clear", "unlock", "panic"}]
  /\ item \in [Procs -> Pointer]
  /\ req \in [Procs -> S!Request]
  /\ res \in [Procs -> Values \cup {NoValue} \cup BOOLEAN]
  /\ used \in Seq(Keys)
  /\ val \in [Keys -> Values \cup {NoValue}]

Recent == SubSeq(used, 1, IF Len(used) < capacity THEN Len(used) ELSE capacity)

\* Between calls the list is the capacity keys touched last, in that order, and
\* the map leads to exactly their items, with the values set last
\* (README.md:49-53, 65). Neither may run ahead of the other.
CacheIsRecencyPrefix ==
  mu = Nil =>
    /\ Represents(queue, [j \in 1..Len(Recent) |-> items[Recent[j]]])
    /\ \A k \in Keys :
         IF k \in S!Cached(used)
         THEN items[k] \in Item /\ cell[items[k]] = [key |-> k, value |-> val[k]]
         ELSE items[k] = Nil

\* Not even in the middle of a call do the list or the map outgrow the capacity.
NeverOverCapacity ==
  /\ queue.length <= capacity
  /\ Cardinality({k \in Keys : items[k] # Nil}) <= capacity

Locked == {"lookup", "touch", "evict", "insert", "clear", "unlock"}

\* Only the goroutine between Lock and Unlock holds mu, and only it has an item.
MutexHeld ==
  \A p \in Procs : /\ mu = p <=> pc[p] \in Locked
                   /\ item[p] # Nil => pc[p] \in {"touch", "unlock"}

\* What the branches taken so far tell about the call.
InStep ==
  \A p \in Procs : LET r == req[p] IN
    /\ pc[p] = "lookup" => r.op # "Clear"
    /\ pc[p] = "clear" => r.op = "Clear"
    /\ pc[p] = "touch" => r.op # "Clear" /\ item[p] = items[r.key] /\ item[p] # Nil
    /\ pc[p] = "evict" => r.op = "Set" /\ r.key \notin S!Cached(used) /\ queue.length = capacity
    /\ pc[p] = "insert" => r.op = "Set" /\ r.key \notin S!Cached(used) /\ capacity > 0

\* List and map hold the first n of the keys used, and no other.
Holds(n) ==
  /\ Represents(queue, [j \in 1..n |-> items[used[j]]])
  /\ \A k \in Keys :
       IF \E j \in 1..n : used[j] = k
       THEN items[k] \in Item /\ cell[items[k]] = [key |-> k, value |-> val[k]]
       ELSE items[k] = Nil

\* Before an Insert there is room for one key more.
Room == IF \E p \in Procs : pc[p] = "insert" THEN capacity - 1 ELSE capacity
Kept == IF Len(used) < Room THEN Len(used) ELSE Room

\* In every state, the middle of a panicking Set included, the fields are well
\* formed, the lock has one holder, and the list and the map hold the keys used
\* last, all that fit, in step with each other (cache.go:28-90).
Inv == TypeOK /\ MutexHeld /\ InStep /\ Distinct(used) /\ Holds(Kept) /\ NeverOverCapacity

\* The cache is linearizable: each call's result is that of LRUSpec at one
\* instant of the call (README.md:67, cache_test.go TestCacheMultithreading).
RefinesLRU == S!Spec

\* Every call ends, whatever the other goroutines do, even in their panic: the
\* deferred Unlock leaves nobody waiting (cache.go:32-33, 65-66, 80-81).
CallsReturn == \A p \in Procs : pc[p] = "lock" ~> pc[p] \in {"idle", "panic"}
=============================================================================
