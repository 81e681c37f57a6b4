----------------------------- MODULE SQLStorage -----------------------------
(***************************************************************************)
(* hw12_13_14_15_calendar/internal/storage/sql/storage.go: one statement   *)
(* per call, under a context with a timeout, on a table that other         *)
(* instances of the service write too. The database is external: it        *)
(* executes a statement at one moment, or never.                           *)
(***************************************************************************)
EXTENDS EventStorage

VARIABLES
  rows,      \* the table: title of the row with that id, or None
  pc,        \* per goroutine: "idle", "sent", "answered"
  call,      \* per goroutine: operation, id and title of its last call
  answer,    \* per goroutine: the database's answer: "none", "ok", "conflict",
             \* "syntax" or "norows"
  reply,     \* per goroutine: what its last call returned: "none" (not yet),
             \* "nil", or the error's cause: one of those answers, or "timeout"
  found,     \* per goroutine in ListEvents: the rows selected, then returned
  taken,     \* what AddEvent returned, so far, where the table took the event
  panicked

vars == <<rows, pc, call, answer, reply, found, taken, panicked>>

Stored == {i \in Id : rows[i] # None}

Init ==
  /\ rows \in [Id -> Value] /\ rows[GetID] = None
  /\ pc = [p \in Proc |-> "idle"]
  /\ call = [p \in Proc |-> [op |-> "get", id |-> GetID, value |-> None]]
  /\ answer = [p \in Proc |-> "none"] /\ reply = [p \in Proc |-> "none"]
  /\ found = [p \in Proc |-> {}]
  /\ taken = {} /\ panicked = FALSE
-----------------------------------------------------------------------------
\* The call sends its statement.
Send(p, op, i, v) ==
  /\ pc[p] = "idle"
  /\ pc' = [pc EXCEPT ![p] = "sent"]
  /\ call' = [call EXCEPT ![p] = [op |-> op, id |-> i, value |-> v]]
  /\ answer' = [answer EXCEPT ![p] = "none"]
  /\ reply' = [reply EXCEPT ![p] = "none"]
  /\ found' = [found EXCEPT ![p] = {}]
  /\ UNCHANGED <<rows, taken, panicked>>

AddEvent(p) == \E v \in Title : Send(p, "add", GetID, v)
ModifyEvent(p) == \E i \in Id, v \in Title : Send(p, "modify", i, v)
DeleteEvent(p) == \E i \in Id : Send(p, "delete", i, None)
GetEvent(p) == \E i \in Id : Send(p, "get", i, None)
ListEvents(p) == Send(p, "list", GetID, None)

Answered(p, result) ==
  /\ pc' = [pc EXCEPT ![p] = "answered"]
  /\ answer' = [answer EXCEPT ![p] = result]
  /\ UNCHANGED <<call, reply, taken, panicked>>

\* INSERT: the id is the primary key.
Insert(p) ==
  /\ pc[p] = "sent" /\ call[p].op = "add"
  /\ \/ rows[GetID] = None /\ rows' = [rows EXCEPT ![GetID] = call[p].value]
                           /\ Answered(p, "ok")
     \/ rows[GetID] # None /\ Answered(p, "conflict") /\ UNCHANGED rows
  /\ UNCHANGED found

\* Mutant: a row that is not there is inserted.
UpdateOrInsert(p) ==
  /\ pc[p] = "sent" /\ call[p].op = "modify"
  /\ rows' = [rows EXCEPT ![call[p].id] = call[p].value]
  /\ Answered(p, "ok")
  /\ UNCHANGED found

\* UPDATE: no row with the id is no error.
Update(p) ==
  /\ pc[p] = "sent" /\ call[p].op = "modify"
  /\ rows' = [rows EXCEPT ![call[p].id] = IF @ = None THEN None ELSE call[p].value]
  /\ Answered(p, "ok")
  /\ UNCHANGED found

\* DELETE: ":id" is not bound by ExecContext and is no SQL.
Delete(p) ==
  /\ pc[p] = "sent" /\ call[p].op = "delete"
  /\ Answered(p, "syntax")
  /\ UNCHANGED <<rows, found>>

Select(p) ==
  /\ pc[p] = "sent" /\ call[p].op \in {"get", "list"}
  /\ Answered(p, IF call[p].op = "get" /\ rows[call[p].id] = None THEN "norows" ELSE "ok")
  /\ found' = [found EXCEPT ![p] = IF call[p].op = "get" THEN Stored \intersect {call[p].id}
                                                         ELSE Stored]
  /\ UNCHANGED rows
-----------------------------------------------------------------------------
\* The table took the event of call p, which has yet to tell its caller.
Granted(p) == pc[p] = "answered" /\ call[p].op = "add" /\ answer[p] = "ok"

Returned(p, result) ==
  /\ pc' = [pc EXCEPT ![p] = "idle"]
  /\ reply' = [reply EXCEPT ![p] = result]
  /\ taken' = IF Granted(p) THEN taken \union {result} ELSE taken
  /\ UNCHANGED <<rows, call, answer>>

Return(p) ==
  /\ pc[p] = "answered"
  /\ Returned(p, IF answer[p] = "ok" THEN "nil" ELSE answer[p])
  /\ UNCHANGED <<found, panicked>>

\* The context ends first; the statement may have been executed. In ListEvents
\* the deferred rows.Close dereferences nil; once there are rows, the end of the
\* context only ends rows.Next, whose error is not looked at.
Timeout(p) ==
  /\ pc[p] # "idle"
  /\ IF call[p].op = "list" /\ pc[p] = "answered"
       THEN /\ Returned(p, "nil")
            /\ \E seen \in SUBSET found[p] : found' = [found EXCEPT ![p] = seen]
            /\ UNCHANGED panicked
       ELSE /\ Returned(p, "timeout")
            /\ panicked' = (call[p].op = "list")
            /\ UNCHANGED found

\* Another instance adds or changes rows of its own.
OtherInstance ==
  /\ \E i \in Id \ {GetID}, v \in Title : rows' = [rows EXCEPT ![i] = v]
  /\ UNCHANGED <<pc, call, answer, reply, found, taken, panicked>>

Next ==
  /\ ~panicked
  /\ \/ OtherInstance
     \/ \E p \in Proc :
          \/ AddEvent(p) \/ ModifyEvent(p) \/ DeleteEvent(p) \/ GetEvent(p) \/ ListEvents(p)
          \/ Insert(p) \/ Update(p) \/ Delete(p) \/ Select(p)
          \/ Return(p) \/ Timeout(p)

Spec == Init /\ [][Next]_vars

\* The database may never answer; the timer of the context does.
Fairness == \A p \in Proc : WF_vars(~panicked /\ Timeout(p))
-----------------------------------------------------------------------------
TypeOK ==
  /\ rows \in [Id -> Value]
  /\ pc \in [Proc -> {"idle", "sent", "answered"}]
  /\ call \in [Proc -> [op : {"add", "modify", "delete", "get", "list"},
                        id : Id, value : Value]]
  /\ answer \in [Proc -> {"none", "ok", "conflict", "syntax", "norows"}]
  /\ reply \in [Proc -> {"none", "nil", "timeout", "conflict", "syntax", "norows"}]
  /\ found \in [Proc -> SUBSET Id]
  /\ taken \in SUBSET {"nil", "timeout"} /\ panicked \in BOOLEAN

\* Why ConflictHasCause holds: only AddEvent makes the row of GetID.
RowHasCause ==
  \/ rows[GetID] # None
  \/ \E p \in Proc : answer[p] = "conflict" \/ reply[p] = "conflict"
  => taken # {} \/ \E q \in Proc : Granted(q)

\* AddEvent tells a caller of a conflict only if the table took the event of a
\* call that returned nil, or gave up and returned a timeout, or will return yet:
\* a repeated call is never refused for nothing (storage.go:81-95, 97-111).
ConflictHasCause ==
  \A p \in Proc : reply[p] = "conflict" => taken # {} \/ \E q \in Proc : Granted(q)

\* A call returns although the database never answers.
CallsReturn == \A p \in Proc : pc[p] # "idle" ~> (pc[p] = "idle" \/ panicked)
=============================================================================
