-------------------------- MODULE CalendarStorage --------------------------
(***************************************************************************)
(* The storage of the calendar, chosen once by the configuration           *)
(* (cmd/calendar/main.go:47-64): the map of MemoryStorage or the table of  *)
(* SQLStorage, under the calls of the same goroutines.                     *)
(***************************************************************************)
EXTENDS MemoryStorage

VARIABLES
  inMemory,   \* UseInMemoryStorage
  rows, sqlPc, sqlCall, answer, reply, found, taken, panicked   \* of SQLStorage

Q == INSTANCE SQLStorage WITH pc <- sqlPc, call <- sqlCall

sqlVars == <<rows, sqlPc, sqlCall, answer, reply, found, taken, panicked>>
allVars == <<inMemory, vars, sqlVars>>

\* Without a database there is no table.
StorageInit ==
  /\ inMemory \in BOOLEAN
  /\ Init /\ Q!Init
  /\ inMemory => Q!Stored = {}

StorageNext ==
  /\ \/ inMemory /\ Next /\ UNCHANGED sqlVars
     \/ ~inMemory /\ Q!Next /\ UNCHANGED vars
  /\ UNCHANGED inMemory

StorageSpec == StorageInit /\ [][StorageNext]_allVars /\ Fairness /\ Q!Fairness
-----------------------------------------------------------------------------
\* Of the SQL storage: however calls race, time out and are repeated, AddEvent is
\* refused only if the table took the event of an AddEvent (sql/storage.go:81-111).
ConflictHasCause == Q!TypeOK /\ Q!RowHasCause /\ Q!ConflictHasCause

\* With either storage every call returns, however the goroutines meet at mu
\* and although the database may never answer.
EveryCallReturns == CallsReturn /\ Q!CallsReturn

\* docs/CALENDAR.MD:44 and 60: events have unique ids and are created, so adding
\* one replaces none and is not refused because of another. Violated with either
\* storage: the id is made once (memory/storage.go:33, sql/storage.go:49, 85).
AddKeepsEvents ==
  [][\A p \in Proc :
       /\ pc[p] = "write" /\ pc'[p] = "unlock" /\ call[p].op = "add" => data[call[p].id] = None
       /\ sqlCall'[p].op = "add" => reply'[p] # "conflict"]_allVars
=============================================================================
