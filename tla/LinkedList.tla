----------------------------- MODULE LinkedList -----------------------------
(***************************************************************************)
(* One List of hw04 under any sequence of calls its contract allows:       *)
(* Remove and MoveToFront get items of the list, or nil (README.md:21).    *)
(* sequence is what the calls promise: the items the list should stand for.*)
(***************************************************************************)
EXTENDS ListOps

SX == INSTANCE SequencesExt

VARIABLES list, sequence

listVars == <<list, sequence>>

ListInit ==
  /\ list = [length |-> 0, front |-> Nil, back |-> Nil,
             next |-> [i \in Item |-> Nil], prev |-> [i \in Item |-> Nil]]
  /\ sequence = <<>>

\* A new ListItem is an item that is not in the list.
Fresh(i) == \A k \in 1..Len(sequence) : sequence[k] # i

CallPushFront(i) ==
  /\ Fresh(i)
  /\ list' = PushFront(list, i)
  /\ sequence' = <<i>> \o sequence

CallPushBack(i) ==
  /\ Fresh(i)
  /\ list' = PushBack(list, i)
  /\ sequence' = Append(sequence, i)

CallRemove(k) ==
  /\ list' = Remove(list, sequence[k])
  /\ sequence' = SX!RemoveAt(sequence, k)

CallMoveToFront(k) ==
  /\ list' = MoveToFront(list, sequence[k])
  /\ sequence' = <<sequence[k]>> \o SX!RemoveAt(sequence, k)

CallWithNil ==
  /\ list' \in {Remove(list, Nil), MoveToFront(list, Nil)}
  /\ UNCHANGED sequence

ListNext ==
  \/ \E i \in Item : CallPushFront(i) \/ CallPushBack(i)
  \/ \E k \in 1..Len(sequence) : CallRemove(k) \/ CallMoveToFront(k)
  \/ CallWithNil

ListSpec == ListInit /\ [][ListNext]_listVars
-----------------------------------------------------------------------------
\* The fields hold what their Go types allow.
ListTypeOK == list \in List /\ sequence \in Seq(Item)

\* After every call the links, both ends and the length are those of the
\* sequence the calls made: nothing is lost, doubled or half unlinked, and no
\* pointer the next call follows is nil (list.go:37-117).
Linked == Represents(list, sequence)
=============================================================================
