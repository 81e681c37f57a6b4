------------------------------ MODULE ListOps -------------------------------
(***************************************************************************)
(* hw04_lru_cache/list.go: the operations of the doubly linked list as     *)
(* functions from list to list. A list holds its three fields and the heap *)
(* its items live in: next and prev map every item ever made to the items  *)
(* its Next and Prev fields point to. Items are identities; removed items  *)
(* keep their stale pointers, as in Go.                                    *)
(***************************************************************************)
EXTENDS Integers, Sequences

CONSTANTS Item,   \* the *ListItem pointers
          Nil     \* the nil pointer

ASSUME NilAssumption == Nil \notin Item

Pointer == Item \cup {Nil}
Heap    == [Item -> Pointer]
List    == [length : Nat, front : Pointer, back : Pointer, next : Heap, prev : Heap]

\* NewList, on a heap that may hold items of other lists.
NewList(l) == [l EXCEPT !.length = 0, !.front = Nil, !.back = Nil]

\* Operators named after a fault are faulty forms of the one below them, to
\* show which property notices.
PushFrontKeepsBack(l, i) ==
  [length |-> l.length + 1, front |-> i, back |-> l.back,
   next |-> [l.next EXCEPT ![i] = l.front],
   prev |-> [j \in Item |-> IF j = i THEN Nil ELSE IF j = l.front THEN i ELSE l.prev[j]]]

PushFront(l, i) ==
  LET first == l.length = 0
  IN  [length |-> l.length + 1,
       front  |-> i,
       back   |-> IF first THEN i ELSE l.back,
       next   |-> [l.next EXCEPT ![i] = l.front],
       prev   |-> IF first THEN [l.prev EXCEPT ![i] = Nil]
                  ELSE [l.prev EXCEPT ![i] = Nil, ![l.front] = i]]

PushBackUncounted(l, i) ==
  [PushFront(l, i) EXCEPT !.length = l.length, !.front = IF l.front = Nil THEN i ELSE l.front]

PushBack(l, i) ==
  LET first == l.length = 0
  IN  [length |-> l.length + 1,
       front  |-> IF first THEN i ELSE l.front,
       back   |-> i,
       next   |-> IF first THEN [l.next EXCEPT ![i] = Nil]
                  ELSE [l.next EXCEPT ![i] = Nil, ![l.back] = i],
       prev   |-> [l.prev EXCEPT ![i] = l.back]]

\* i.Prev.Next = i.Next unless i is the front, i.Next.Prev = i.Prev unless it
\* is the back; a lone item only empties front and back.
Remove(l, i) ==
  IF i = Nil THEN l
  ELSE [length |-> l.length - 1,
        front  |-> IF l.front = i THEN (IF l.back = i THEN Nil ELSE l.next[i]) ELSE l.front,
        back   |-> IF l.back = i THEN (IF l.front = i THEN Nil ELSE l.prev[i]) ELSE l.back,
        next   |-> IF l.front = i THEN l.next
                   ELSE [l.next EXCEPT ![l.prev[i]] = IF l.back = i THEN Nil ELSE l.next[i]],
        prev   |-> IF l.back = i THEN l.prev
                   ELSE [l.prev EXCEPT ![l.next[i]] = IF l.front = i THEN Nil ELSE l.prev[i]]]

MoveToFront(l, i) ==
  IF i = Nil \/ l.front = i THEN l
  ELSE LET last == l.back = i
           nx == [l.next EXCEPT ![l.prev[i]] = IF last THEN Nil ELSE l.next[i]]
           pv == IF last THEN l.prev ELSE [l.prev EXCEPT ![l.next[i]] = l.prev[i]]
       IN  [length |-> l.length,
            front  |-> i,
            back   |-> IF last THEN l.prev[i] ELSE l.back,
            next   |-> [nx EXCEPT ![i] = l.front],
            prev   |-> [pv EXCEPT ![i] = Nil, ![l.front] = i]]
-----------------------------------------------------------------------------
Distinct(s) == \A j, k \in 1..Len(s) : s[j] = s[k] => j = k

\* l is the list of the items of s, in this order: its length, both ends and
\* every link in both directions.
Represents(l, s) ==
  /\ l.length = Len(s)
  /\ Distinct(s)
  /\ l.front = IF s = <<>> THEN Nil ELSE s[1]
  /\ l.back  = IF s = <<>> THEN Nil ELSE s[Len(s)]
  /\ \A k \in 1..Len(s) :
       /\ l.next[s[k]] = IF k = Len(s) THEN Nil ELSE s[k + 1]
       /\ l.prev[s[k]] = IF k = 1 THEN Nil ELSE s[k - 1]
=============================================================================
