------------------------------ MODULE LRUSpec -------------------------------
(***************************************************************************)
(* What hw04's Cache promises to goroutines that call it: each call takes  *)
(* effect at one instant between its start and its return, and a key is in *)
(* the cache exactly when it is among the capacity keys touched last.      *)
(***************************************************************************)
EXTENDS Integers, Sequences

CONSTANTS Procs, Keys, Values,
          Capacities,   \* the arguments NewCache may be called with
          NoValue   \* the nil a Get that misses returns

SX == INSTANCE SequencesExt

VARIABLES capacity,   \* set by NewCache
          used,    \* the keys touched since the last Clear, the latest first
          val,     \* per key, the value of its last Set since then
          phase,   \* per goroutine: "idle", "called", "done"
          req,     \* per goroutine: the call it makes
          res      \* per goroutine: the result, once "done"

vars == <<capacity, used, val, phase, req, res>>

Request == [op : {"Set"}, key : Keys, value : Values]
           \cup [op : {"Get"}, key : Keys] \cup [op : {"Clear"}]
NoRequest == [op |-> "Clear"]

\* Key k becomes the latest of the keys touched.
Touched(s, k) ==
  IF SX!Contains(s, k)
  THEN <<k>> \o SX!RemoveAt(s, CHOOSE j \in 1..Len(s) : s[j] = k)
  ELSE <<k>> \o s

Cached(s) == {s[j] : j \in {i \in 1..Len(s) : i <= capacity}}

Init ==
  /\ capacity \in Capacities
  /\ used = <<>>
  /\ val = [k \in Keys |-> NoValue]
  /\ phase = [p \in Procs |-> "idle"]
  /\ req = [p \in Procs |-> NoRequest]
  /\ res = [p \in Procs |-> NoValue]

Call(p) ==
  /\ phase[p] = "idle"
  /\ \E r \in Request : req' = [req EXCEPT ![p] = r]
  /\ phase' = [phase EXCEPT ![p] = "called"]
  /\ UNCHANGED <<used, val, res>>

Set(p) ==
  /\ req[p].op = "Set"
  /\ used' = Touched(used, req[p].key)
  /\ val' = [val EXCEPT ![req[p].key] = req[p].value]
  /\ res' = [res EXCEPT ![p] = req[p].key \in Cached(used)]

Get(p) ==
  /\ req[p].op = "Get"
  /\ IF req[p].key \in Cached(used)
     THEN /\ used' = Touched(used, req[p].key)
          /\ res' = [res EXCEPT ![p] = val[req[p].key]]
     ELSE UNCHANGED <<used, res>>
  /\ UNCHANGED val

Clear(p) ==
  /\ req[p].op = "Clear"
  /\ used' = <<>>
  /\ val' = [k \in Keys |-> NoValue]
  /\ UNCHANGED res

TakeEffect(p) ==
  /\ phase[p] = "called"
  /\ Set(p) \/ Get(p) \/ Clear(p)
  /\ phase' = [phase EXCEPT ![p] = "done"]
  /\ UNCHANGED req

Return(p) ==
  /\ phase[p] = "done"
  /\ phase' = [phase EXCEPT ![p] = "idle"]
  /\ req' = [req EXCEPT ![p] = NoRequest]
  /\ res' = [res EXCEPT ![p] = NoValue]
  /\ UNCHANGED <<used, val>>

Next ==
  /\ \E p \in Procs : Call(p) \/ TakeEffect(p) \/ Return(p)
  /\ UNCHANGED capacity

Spec == Init /\ [][Next]_vars
=============================================================================
