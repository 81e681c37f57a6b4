----------------------- MODULE CalendarStorage_proofs -----------------------
(***************************************************************************)
(* Proofs about the storage of the calendar for any goroutines, ids and    *)
(* titles. In memory, writers exclude each other and every listing is      *)
(* regular: the invariant follows a listing id by id (ListedSoFar). In the *)
(* database an AddEvent is refused only because of an AddEvent: the        *)
(* invariant follows the row of the storage's id (Q!RowHasCause).          *)
(***************************************************************************)
EXTENDS CalendarStorage, TLAPS

\* What one goroutine does; Throw aside, this is all of Next.
Step(p) == \/ AddEvent(p) \/ ModifyEvent(p) \/ DeleteEvent(p)
           \/ Lock(p) \/ Write(p) \/ Unlock(p)
           \/ ListEvents(p) \/ ListNext(p) \/ ListDone(p)

\* A write that begins has an id and a value of their types.
LEMMA BeginTypes ==
  ASSUME NEW p \in Proc, AddEvent(p) \/ ModifyEvent(p) \/ DeleteEvent(p)
  PROVE  \E op \in {"add", "modify", "delete"}, i \in Id, v \in Value : Begin(p, op, i, v)
BY IdAssumption DEF AddEvent, ModifyEvent, DeleteEvent, Value
-----------------------------------------------------------------------------
\* Types are kept by every step of a goroutine.
LEMMA StepTypeOK ==
  ASSUME TypeOK, NEW p \in Proc, Step(p)
  PROVE  TypeOK'
<1> USE DEF TypeOK
<1>1. CASE AddEvent(p) \/ ModifyEvent(p) \/ DeleteEvent(p)
  <2>1. PICK op \in {"add", "modify", "delete"}, i \in Id, v \in Value : Begin(p, op, i, v)
    BY <1>1, BeginTypes
  <2>2. [op |-> op, id |-> i, value |-> v]
          \in [op : {"none", "add", "modify", "delete"}, id : Id, value : Value]
    OBVIOUS
  <2> QED BY <2>1, <2>2 DEF Begin, Goto, listVars
<1>2. CASE Lock(p)
  BY <1>2 DEF Lock, Goto, listVars
<1>3. CASE Write(p)
  <2>1. /\ data' = [data EXCEPT ![call[p].id] = call[p].value]
        /\ during' = [q \in Proc |-> [during[q] EXCEPT ![call[p].id] = @ \union {call[p].value}]]
        /\ pc' = [pc EXCEPT ![p] = "unlock"]
        /\ UNCHANGED <<mu, call, left, listed, fatal>>
    BY <1>3 DEF Write, Goto
  <2>2. call[p].id \in Id /\ call[p].value \in Value
    OBVIOUS
  <2>3. during' \in [Proc -> [Id -> SUBSET Value]]
    BY <2>1, <2>2
  <2> QED BY <2>1, <2>2, <2>3
<1>4. CASE Unlock(p)
  BY <1>4, IdAssumption DEF Unlock, Goto, listVars, NoCall, Value
<1>5. CASE ListEvents(p)
  BY <1>5 DEF ListEvents, Goto, Value
<1>6. CASE ListNext(p)
  <2>1. PICK i \in left[p] : \E v \in Seen(p, i) :
          /\ left' = [left EXCEPT ![p] = @ \ {i}]
          /\ listed' = [listed EXCEPT ![p][i] = v]
    BY <1>6 DEF ListNext
  <2>2. PICK v \in Seen(p, i) : /\ left' = [left EXCEPT ![p] = @ \ {i}]
                                /\ listed' = [listed EXCEPT ![p][i] = v]
    BY <2>1
  <2>3. v \in Value /\ i \in Id
    BY DEF Seen
  <2> QED BY <1>6, <2>2, <2>3 DEF ListNext
<1>7. CASE ListDone(p)
  BY <1>7 DEF ListDone, Goto, Value
<1> QED BY <1>1, <1>2, <1>3, <1>4, <1>5, <1>6, <1>7 DEF Step

\* Who holds mu is in the map, after every step of a goroutine.
LEMMA StepWritersExclude ==
  ASSUME TypeOK, WritersExclude, NEW p \in Proc, Step(p)
  PROVE  WritersExclude'
<1> USE DEF TypeOK, WritersExclude
<1>1. CASE AddEvent(p) \/ ModifyEvent(p) \/ DeleteEvent(p)
  BY <1>1, BeginTypes DEF Begin, Goto
<1>2. CASE Lock(p)
  BY <1>2, IdAssumption DEF Lock, Goto
<1>3. CASE Write(p)
  BY <1>3 DEF Write, Goto
<1>4. CASE Unlock(p)
  BY <1>4, IdAssumption DEF Unlock, Goto
<1>5. CASE ListEvents(p) \/ ListNext(p) \/ ListDone(p)
  BY <1>5 DEF ListEvents, ListNext, ListDone, Goto
<1> QED BY <1>1, <1>2, <1>3, <1>4, <1>5 DEF Step

\* Listings stay regular so far, whoever takes the step.
LEMMA StepListedSoFar ==
  ASSUME TypeOK, ListedSoFar, NEW p \in Proc, Step(p)
  PROVE  ListedSoFar'
<1> SUFFICES ASSUME NEW q \in Proc, pc'[q] = "list", NEW i \in Id
             PROVE  /\ data'[i] \in during'[q][i]
                    /\ i \notin left'[q] =>
                         /\ listed'[q][i] \in during'[q][i] \union {None}
                         /\ listed'[q][i] = None => None \in during'[q][i]
  BY DEF ListedSoFar
<1> USE DEF TypeOK, ListedSoFar
<1>1. CASE AddEvent(p) \/ ModifyEvent(p) \/ DeleteEvent(p)
  BY <1>1, BeginTypes DEF Begin, Goto, listVars
<1>2. CASE Lock(p)
  BY <1>2 DEF Lock, Goto, listVars
<1>3. CASE Write(p)
  \* The value written is added to what every listing has seen the id have.
  <2>1. pc[q] = "list"
    BY <1>3 DEF Write, Goto
  <2>2. CASE i = call[p].id
    BY <1>3, <2>1, <2>2 DEF Write
  <2>3. CASE i # call[p].id
    BY <1>3, <2>1, <2>3 DEF Write
  <2> QED BY <2>2, <2>3
<1>4. CASE Unlock(p)
  BY <1>4 DEF Unlock, Goto, listVars
<1>5. CASE ListEvents(p)
  \* A new listing has come to no id yet.
  <2>1. CASE q = p
    BY <1>5, <2>1 DEF ListEvents
  <2>2. CASE q # p
    BY <1>5, <2>2 DEF ListEvents, Goto
  <2> QED BY <2>1, <2>2
<1>6. CASE ListNext(p)
  <2>1. PICK j \in left[p] : \E v \in Seen(p, j) :
          /\ left' = [left EXCEPT ![p] = @ \ {j}]
          /\ listed' = [listed EXCEPT ![p][j] = v]
    BY <1>6 DEF ListNext
  <2>2. PICK v \in Seen(p, j) : /\ left' = [left EXCEPT ![p] = @ \ {j}]
                                /\ listed' = [listed EXCEPT ![p][j] = v]
    BY <2>1
  <2>3. UNCHANGED <<data, pc, during>>
    BY <1>6 DEF ListNext
  <2>4. CASE q = p /\ i = j
    <3>1. data[j] \in during[p][j]
      BY <2>3, <2>4
    <3>2. v \in during[p][j]
      BY <3>1 DEF Seen
    <3>3. listed'[q][i] = v
      BY <2>2, <2>4
    <3> QED BY <2>3, <2>4, <3>1, <3>2, <3>3
  <2>5. CASE ~(q = p /\ i = j)
    BY <2>2, <2>3, <2>5
  <2> QED BY <2>4, <2>5
<1>7. CASE ListDone(p)
  BY <1>7 DEF ListDone, Goto
<1> QED BY <1>1, <1>2, <1>3, <1>4, <1>5, <1>6, <1>7 DEF Step
-----------------------------------------------------------------------------
LEMMA InitInv == Init => Inv
<1> SUFFICES ASSUME Init PROVE Inv
  OBVIOUS
<1>1. TypeOK
  BY IdAssumption DEF Init, TypeOK, Value, NoCall
<1>2. WritersExclude
  BY IdAssumption DEF Init, WritersExclude
<1>3. ListedSoFar
  BY DEF Init, ListedSoFar
<1> QED BY <1>1, <1>2, <1>3 DEF Inv

LEMMA NextInv == Inv /\ [Next]_vars => Inv'
<1> SUFFICES ASSUME Inv, [Next]_vars PROVE Inv'
  OBVIOUS
<1>1. CASE Throw
  BY <1>1 DEF Inv, Throw, TypeOK, WritersExclude, ListedSoFar, listVars
<1>2. ASSUME NEW p \in Proc, Step(p) PROVE Inv'
  BY <1>2, StepTypeOK, StepWritersExclude, StepListedSoFar DEF Inv
<1>3. CASE UNCHANGED vars
  BY <1>3 DEF Inv, vars, listVars, TypeOK, WritersExclude, ListedSoFar
<1> QED BY <1>1, <1>2, <1>3 DEF Next, Step

LEMMA InvIsRegular == Inv => ListIsRegular
BY DEF Inv, ListedSoFar, ListIsRegular

\* The in-memory storage by itself: types, the writers' lock and the readers'
\* view of the map hold in every state it can be in (storage.go:32-80).
THEOREM Inductive == Spec => []Inv
BY InitInv, NextInv, PTL DEF Spec
-----------------------------------------------------------------------------
(* The SQL storage.                                                        *)

QInv == Q!TypeOK /\ Q!RowHasCause

LEMMA SameValue == Q!Value = Value
BY DEF Q!Value, Value

\* A call that was not granted the row yet takes nothing away when it is sent.
LEMMA SendKeeps ==
  ASSUME QInv, NEW p \in Proc,
         Q!AddEvent(p) \/ Q!ModifyEvent(p) \/ Q!DeleteEvent(p) \/ Q!GetEvent(p) \/ Q!ListEvents(p)
  PROVE  QInv'
<1>1. PICK op \in {"add", "modify", "delete", "get", "list"}, i \in Id, v \in Value :
        Q!Send(p, op, i, v) /\ (op \in {"add", "modify"} => v \in Title)
  BY IdAssumption, SMTT(30)
     DEF Q!AddEvent, Q!ModifyEvent, Q!DeleteEvent, Q!GetEvent, Q!ListEvents, Value
<1>2. /\ sqlPc' = [sqlPc EXCEPT ![p] = "sent"]
      /\ sqlCall' = [sqlCall EXCEPT ![p] = [op |-> op, id |-> i, value |-> v]]
      /\ answer' = [answer EXCEPT ![p] = "none"] /\ reply' = [reply EXCEPT ![p] = "none"]
      /\ found' = [found EXCEPT ![p] = {}]
      /\ UNCHANGED <<rows, taken, panicked>>
  BY <1>1 DEF Q!Send
<1>3. Q!TypeOK'
  BY <1>2, SameValue DEF QInv, Q!TypeOK
<1>4. \A q \in Proc : Q!Granted(q) => Q!Granted(q)'
  BY <1>1, <1>2 DEF QInv, Q!TypeOK, Q!Granted, Q!Send
<1>5. \A q \in Proc : /\ answer'[q] = "conflict" => answer[q] = "conflict"
                     /\ reply'[q] = "conflict" => reply[q] = "conflict"
  BY <1>2 DEF QInv, Q!TypeOK
<1>6. Q!RowHasCause'
  BY <1>2, <1>4, <1>5 DEF QInv, Q!RowHasCause
<1> QED BY <1>3, <1>6 DEF QInv

\* The row of GetID appears only with the table's yes to an AddEvent, and only
\* with that row there is a conflict.
LEMMA AnswerKeeps ==
  ASSUME QInv, NEW p \in Proc, Q!Insert(p) \/ Q!Update(p) \/ Q!Delete(p) \/ Q!Select(p)
  PROVE  QInv'
<1>1. PICK result \in {"ok", "conflict", "syntax", "norows"} : Q!Answered(p, result)
  BY DEF Q!Insert, Q!Update, Q!Delete, Q!Select
<1>2. /\ sqlPc' = [sqlPc EXCEPT ![p] = "answered"] /\ sqlPc[p] = "sent"
      /\ answer' = [answer EXCEPT ![p] = result]
      /\ UNCHANGED <<sqlCall, reply, taken, panicked>>
  BY <1>1 DEF Q!Answered, Q!Insert, Q!Update, Q!Delete, Q!Select
<1>3. sqlCall[p].id \in Id /\ sqlCall[p].value \in Value /\ GetID \in Id
  BY IdAssumption, SameValue DEF QInv, Q!TypeOK
<1>4. /\ rows' \in [Id -> Value] /\ found' \in [Proc -> SUBSET Id]
      /\ result = "conflict" => rows[GetID] # None
      /\ rows'[GetID] # None => rows[GetID] # None \/ (sqlCall[p].op = "add" /\ result = "ok")
  <2>1. CASE Q!Insert(p)
    <3>1. \/ result = "ok" /\ rows' = [rows EXCEPT ![GetID] = sqlCall[p].value]
          \/ result = "conflict" /\ rows[GetID] # None /\ UNCHANGED rows
      <4>1. answer'[p] = result
        BY <1>2 DEF QInv, Q!TypeOK
      <4>2. \A r : Q!Answered(p, r) => answer'[p] = r
        BY DEF Q!Answered, QInv, Q!TypeOK
      <4> QED BY <2>1, <4>1, <4>2 DEF Q!Insert
    <3>2. sqlCall[p].op = "add" /\ found' = found
      BY <2>1 DEF Q!Insert
    <3> QED BY <1>3, <3>1, <3>2, SameValue DEF QInv, Q!TypeOK
  <2>2. CASE Q!Update(p)
    <3>1. answer'[p] = "ok" /\ answer'[p] = result
      BY <1>2, <2>2 DEF Q!Update, Q!Answered, QInv, Q!TypeOK
    <3> QED BY <1>3, <2>2, <3>1, IdAssumption, SameValue DEF QInv, Q!TypeOK, Q!Update, Value
  <2>3. CASE Q!Delete(p)
    <3>1. answer'[p] = "syntax" /\ answer'[p] = result
      BY <1>2, <2>3 DEF Q!Delete, Q!Answered, QInv, Q!TypeOK
    <3> QED BY <2>3, <3>1, SameValue DEF QInv, Q!TypeOK, Q!Delete
  <2>4. CASE Q!Select(p)
    <3>1. answer'[p] \in {"norows", "ok"} /\ answer'[p] = result
      BY <1>2, <2>4 DEF Q!Select, Q!Answered, QInv, Q!TypeOK
    <3> QED BY <2>4, <3>1, SameValue DEF QInv, Q!TypeOK, Q!Select, Q!Stored
  <2> QED BY <2>1, <2>2, <2>3, <2>4
<1>5. Q!TypeOK'
  BY <1>2, <1>4, SameValue DEF QInv, Q!TypeOK
<1>6. /\ \A q \in Proc : Q!Granted(q) => Q!Granted(q)'
      /\ \A q \in Proc : /\ answer'[q] = "conflict" => answer[q] = "conflict" \/ result = "conflict"
                        /\ reply'[q] = reply[q]
  BY <1>2 DEF QInv, Q!TypeOK, Q!Granted
<1>7. sqlCall[p].op = "add" /\ result = "ok" => Q!Granted(p)'
  BY <1>2 DEF QInv, Q!TypeOK, Q!Granted
<1>8. Q!RowHasCause'
  BY <1>2, <1>4, <1>6, <1>7 DEF QInv, Q!RowHasCause
<1> QED BY <1>5, <1>8 DEF QInv

\* When the call that the row was granted to returns, what it returns is kept.
LEMMA ReturnKeeps ==
  ASSUME QInv, NEW p \in Proc, Q!Return(p) \/ Q!Timeout(p)
  PROVE  QInv'
<1> DEFINE Reply == {"none", "nil", "timeout", "conflict", "syntax", "norows"}
<1>1. PICK result \in Reply :
        /\ Q!Returned(p, result)
        /\ Q!Granted(p) => result \in {"nil", "timeout"}
        /\ result = "conflict" => answer[p] = "conflict"
  <2>1. CASE Q!Return(p)
    <3> DEFINE result == IF answer[p] = "ok" THEN "nil" ELSE answer[p]
    <3>1. result \in Reply /\ Q!Returned(p, result)
      BY <2>1 DEF Q!Return, QInv, Q!TypeOK
    <3> QED BY <3>1 DEF Q!Granted
  <2>2. CASE Q!Timeout(p)
    BY <2>2 DEF Q!Timeout
  <2> QED BY <2>1, <2>2
<1>2. /\ sqlPc' = [sqlPc EXCEPT ![p] = "idle"] /\ reply' = [reply EXCEPT ![p] = result]
      /\ taken' = IF Q!Granted(p) THEN taken \union {result} ELSE taken
      /\ UNCHANGED <<rows, sqlCall, answer>>
  BY <1>1 DEF Q!Returned
<1>3. found' \in [Proc -> SUBSET Id] /\ panicked' \in BOOLEAN
  <2>1. CASE Q!Return(p)
    BY <2>1 DEF Q!Return, QInv, Q!TypeOK
  <2>2. CASE Q!Timeout(p)
    <3>1. CASE sqlCall[p].op = "list" /\ sqlPc[p] = "answered"
      <4>1. PICK seen \in SUBSET found[p] : found' = [found EXCEPT ![p] = seen]
        BY <2>2, <3>1 DEF Q!Timeout
      <4>2. panicked' = panicked
        BY <2>2, <3>1 DEF Q!Timeout
      <4> QED BY <4>1, <4>2 DEF QInv, Q!TypeOK
    <3>2. CASE ~(sqlCall[p].op = "list" /\ sqlPc[p] = "answered")
      <4>1. UNCHANGED found /\ panicked' = (sqlCall[p].op = "list")
        BY <2>2, <3>2 DEF Q!Timeout
      <4> QED BY <4>1, Zenon DEF QInv, Q!TypeOK
    <3> QED BY <3>1, <3>2
  <2> QED BY <2>1, <2>2
<1>4. taken' \in SUBSET {"nil", "timeout"}
  BY <1>1, <1>2 DEF QInv, Q!TypeOK
<1>5. Q!TypeOK'
  BY <1>1, <1>2, <1>3, <1>4, SameValue DEF QInv, Q!TypeOK
<1>6. \A q \in Proc : Q!Granted(q) => Q!Granted(q)' \/ (q = p /\ taken' # {})
  BY <1>2 DEF QInv, Q!TypeOK, Q!Granted
<1>7. \A q \in Proc : reply'[q] = "conflict" => reply[q] = "conflict" \/ answer[q] = "conflict"
  BY <1>1, <1>2 DEF QInv, Q!TypeOK
<1>8. Q!RowHasCause'
  BY <1>2, <1>6, <1>7 DEF QInv, Q!RowHasCause
<1> QED BY <1>5, <1>8 DEF QInv

LEMMA OtherInstanceKeeps ==
  ASSUME QInv, Q!OtherInstance
  PROVE  QInv'
<1>1. PICK i \in Id \ {GetID}, v \in Title : rows' = [rows EXCEPT ![i] = v]
  BY DEF Q!OtherInstance
<1>2. UNCHANGED <<sqlPc, sqlCall, answer, reply, found, taken, panicked>>
  BY DEF Q!OtherInstance
<1>3. rows' \in [Id -> Value] /\ rows'[GetID] = rows[GetID]
  BY <1>1, IdAssumption, SameValue DEF QInv, Q!TypeOK, Value
<1>4. Q!TypeOK'
  BY <1>2, <1>3, SameValue DEF QInv, Q!TypeOK
<1>5. \A q \in Proc : Q!Granted(q)' <=> Q!Granted(q)
  BY <1>2 DEF Q!Granted
<1>6. Q!RowHasCause'
  BY <1>2, <1>3, <1>5 DEF QInv, Q!RowHasCause
<1> QED BY <1>4, <1>6 DEF QInv

LEMMA InitQInv == Q!Init => QInv
<1> SUFFICES ASSUME Q!Init PROVE QInv
  OBVIOUS
<1>1. Q!TypeOK
  <2>1. None \in Value /\ GetID \in Id
    BY IdAssumption DEF Value
  <2>2. [op |-> "get", id |-> GetID, value |-> None]
          \in [op : {"add", "modify", "delete", "get", "list"}, id : Id, value : Value]
    BY <2>1
  <2>3. rows \in [Id -> Value]
    BY SameValue DEF Q!Init
  <2>4. sqlCall \in [Proc -> [op : {"add", "modify", "delete", "get", "list"},
                              id : Id, value : Value]]
    BY <2>2 DEF Q!Init
  <2>5. /\ sqlPc \in [Proc -> {"idle", "sent", "answered"}]
        /\ answer \in [Proc -> {"none", "ok", "conflict", "syntax", "norows"}]
        /\ reply \in [Proc -> {"none", "nil", "timeout", "conflict", "syntax", "norows"}]
        /\ found \in [Proc -> SUBSET Id] /\ taken \in SUBSET {"nil", "timeout"}
    BY DEF Q!Init
  <2>6. panicked \in BOOLEAN
    BY Zenon DEF Q!Init
  <2> QED BY <2>3, <2>4, <2>5, <2>6, SameValue DEF Q!TypeOK
<1>2. Q!RowHasCause
  BY DEF Q!Init, Q!RowHasCause, Q!Granted
<1> QED BY <1>1, <1>2 DEF QInv

LEMMA NextQInv == QInv /\ [Q!Next]_sqlVars => QInv'
<1> SUFFICES ASSUME QInv, [Q!Next]_sqlVars PROVE QInv'
  OBVIOUS
<1>1. CASE UNCHANGED sqlVars
  <2>1. UNCHANGED <<rows, sqlPc, sqlCall, answer, reply, found, taken, panicked>>
    BY <1>1 DEF sqlVars
  <2>2. \A q \in Proc : Q!Granted(q)' <=> Q!Granted(q)
    BY <2>1 DEF Q!Granted
  <2> QED BY <2>1, <2>2, SameValue DEF QInv, Q!TypeOK, Q!RowHasCause
<1>2. CASE Q!Next
  <2>1. CASE Q!OtherInstance
    BY <2>1, OtherInstanceKeeps
  <2>2. ASSUME NEW p \in Proc,
               Q!AddEvent(p) \/ Q!ModifyEvent(p) \/ Q!DeleteEvent(p) \/ Q!GetEvent(p) \/ Q!ListEvents(p)
        PROVE  QInv'
    BY <2>2, SendKeeps
  <2>3. ASSUME NEW p \in Proc, Q!Insert(p) \/ Q!Update(p) \/ Q!Delete(p) \/ Q!Select(p)
        PROVE  QInv'
    BY <2>3, AnswerKeeps
  <2>4. ASSUME NEW p \in Proc, Q!Return(p) \/ Q!Timeout(p) PROVE QInv'
    BY <2>4, ReturnKeeps
  <2> QED BY <1>2, <2>1, <2>2, <2>3, <2>4 DEF Q!Next
<1> QED BY <1>1, <1>2
-----------------------------------------------------------------------------
(* The calendar's storage, whichever it is.                                *)

LEMMA StorageStep == [StorageNext]_allVars => [Next]_vars /\ [Q!Next]_sqlVars
BY DEF StorageNext, allVars

\* With either storage, the map has one writer at a time, who holds mu, and
\* every listing is regular so far (memory/storage.go:32-80).
THEOREM StorageInv == StorageSpec => []Inv
BY InitInv, NextInv, StorageStep, PTL DEF StorageSpec, StorageInit

\* A listing that is over lists what was stored at some time of the call, and
\* all that was stored throughout it (memory/storage.go:72-80).
THEOREM ListIsRegularHolds == StorageSpec => []ListIsRegular
BY StorageInv, InvIsRegular, PTL

\* However calls of the SQL storage race, time out and are repeated, AddEvent is
\* refused only if the table took the event of an AddEvent, whose caller was told
\* nil or a timeout or is to be told (sql/storage.go:81-111).
THEOREM ConflictHasCauseHolds == StorageSpec => []ConflictHasCause
<1>1. QInv => ConflictHasCause
  BY DEF QInv, Q!RowHasCause, Q!ConflictHasCause, ConflictHasCause
<1> QED BY <1>1, InitQInv, NextQInv, StorageStep, PTL DEF StorageSpec, StorageInit
=============================================================================
