---------------------------- MODULE EventStorage ----------------------------
(***************************************************************************)
(* What both storages of hw12_13_14_15_calendar deal with: calls of        *)
(* goroutines about events, of which only the id and the title matter.     *)
(***************************************************************************)
EXTENDS Integers, FiniteSets

CONSTANTS
  Proc,    \* the goroutines that call the storage
  Id,      \* event ids the callers know
  GetID,   \* the one xid made by New, which every event added gets
  Title,   \* titles of events
  None     \* no event, no goroutine

ASSUME IdAssumption == GetID \in Id /\ None \notin Title \union Proc

\* What a storage holds under an id.
Value == Title \union {None}
=============================================================================
