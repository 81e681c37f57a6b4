------------------------ MODULE CalendarServer_proofs ------------------------
(***************************************************************************)
(* What holds of the calendar's start-up and shutdown for any requests. The*)
(* exit status says what happened because each goroutine knows how far the *)
(* others are (Phases); a failure waits for the requests because a failed  *)
(* server lets none begin (Settled). Together these parts are inductive.   *)
(***************************************************************************)
EXTENDS CalendarServer, TLAPS

LEMMA InitInv == Init => Inv
<1> SUFFICES ASSUME Init PROVE Inv
  OBVIOUS
<1>1. TypeOK
  <2>1. {done, notified, late} \subseteq BOOLEAN
    BY Zenon DEF Init
  <2>2. QED  BY <2>1 DEF Init, TypeOK
<1>2. QED  BY <1>1 DEF Init, Inv, Phases, Settled, StatusIsHonest, Shutting, Active

\* A step of main.
LEMMA MainKeepsInv ==
  ASSUME Inv, main # "exited", Main
  PROVE  Inv'
<1> USE DEF Inv, TypeOK, Phases, Settled, StatusIsHonest, Shutting, Active, Exit
<1>1. CASE Configure
  BY <1>1 DEF Configure
<1>2. CASE Connect
  BY <1>2 DEF Connect
<1>3. CASE CallStart
  BY <1>3 DEF CallStart
<1>4. CASE StartTakesError
  BY <1>4 DEF StartTakesError
<1>5. CASE StartSeesDone
  BY <1>5 DEF StartSeesDone
<1>6. CASE Drain
  BY <1>6 DEF Drain
<1>7. CASE Leave
  BY <1>7 DEF Leave
<1>8. CASE CloseStorage
  BY <1>8 DEF CloseStorage
<1>9. QED
  BY <1>1, <1>2, <1>3, <1>4, <1>5, <1>6, <1>7, <1>8 DEF Main

\* A step of the other goroutines, the clock, a signal or a client.
LEMMA OthersKeepInv ==
  ASSUME Inv, main # "exited",
         \/ ServeFails \/ ListenAndServe \/ CallStop \/ StopReturns
         \/ TimeIsOver \/ Signal \/ \E r \in Req : Request(r)
  PROVE  Inv'
<1> USE DEF Inv, TypeOK, Phases, Settled, StatusIsHonest, Shutting, Active, Exit
<1>1. CASE ServeFails
  BY <1>1 DEF ServeFails
<1>2. CASE ListenAndServe
  BY <1>2 DEF ListenAndServe
<1>3. CASE CallStop
  BY <1>3 DEF CallStop
<1>4. CASE StopReturns
  BY <1>4 DEF StopReturns
<1>5. CASE TimeIsOver
  BY <1>5 DEF TimeIsOver
<1>6. CASE Signal
  <2>1. CASE notified
    BY <1>6, <2>1 DEF Signal
  <2>2. CASE ~notified
    <3>1. main \notin {"start", "exited"}
      BY <2>2
    <3>2. serve \in {"none", "ended"} \/ done
      BY <3>1
    <3>3. QED  BY <1>6, <2>2, <3>1, <3>2 DEF Signal
  <2>3. QED  BY <2>1, <2>2
<1>7. ASSUME NEW r \in Req, Request(r) PROVE Inv'
  BY <1>7 DEF Request
<1>8. QED
  BY <1>1, <1>2, <1>3, <1>4, <1>5, <1>6, <1>7

LEMMA StutterKeepsInv ==
  ASSUME Inv, UNCHANGED vars
  PROVE  Inv'
BY DEF vars, Inv, TypeOK, Phases, Settled, StatusIsHonest, Shutting, Active

\* Status 0 answers a signal and leaves the database closed, status 1 tells of a
\* failure, and a signal kills only where nobody listens for it, in every order
\* of main, Start's goroutine, Stop's and the signals (main.go:46-103).
THEOREM InvHolds == Spec => []Inv
<1>1. Inv /\ [Next]_vars => Inv'
  BY MainKeepsInv, OthersKeepInv, StutterKeepsInv DEF Next
<1>2. QED  BY InitInv, <1>1, PTL DEF Spec

\* After a failure a request is cut only when the time is over, however many
\* requests there are and whenever Shutdown took hold (main.go:93-103).
THEOREM FailureDrainsHolds == Spec => []FailureDrains
<1>1. Init => FailureDrains
  BY DEF Init, FailureDrains
<1>2. Inv /\ FailureDrains /\ [Next]_vars => FailureDrains'
  <2> SUFFICES ASSUME Inv, FailureDrains, [Next]_vars PROVE FailureDrains'
    OBVIOUS
  <2> USE DEF Inv, Phases, Settled, Active, Exit, FailureDrains
  <2>1. CASE Configure \/ Connect \/ CallStart
    BY <2>1 DEF Configure, Connect, CallStart
  <2>2. CASE StartTakesError \/ StartSeesDone
    BY <2>2 DEF StartTakesError, StartSeesDone
  <2>3. CASE Drain
    BY <2>3 DEF Drain
  <2>4. CASE Leave \/ CloseStorage
    BY <2>4 DEF Leave, CloseStorage
  <2>5. CASE ServeFails \/ ListenAndServe
    BY <2>5 DEF ServeFails, ListenAndServe
  <2>6. CASE CallStop \/ StopReturns \/ TimeIsOver
    BY <2>6 DEF CallStop, StopReturns, TimeIsOver
  <2>7. CASE Signal
    BY <2>7 DEF Signal
  <2>8. ASSUME main # "exited", NEW r \in Req, Request(r) PROVE FailureDrains'
    BY <2>8 DEF Request
  <2>9. CASE UNCHANGED vars
    BY <2>9 DEF vars
  <2>10. QED
    BY <2>1, <2>2, <2>3, <2>4, <2>5, <2>6, <2>7, <2>8, <2>9 DEF Next, Main
<1>3. QED  BY <1>1, <1>2, InvHolds, PTL DEF Spec
=============================================================================
