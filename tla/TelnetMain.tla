----------------------------- MODULE TelnetMain -----------------------------
(***************************************************************************)
(* hw11_telnet_client/main.go: the program runs Send and Receive in two    *)
(* goroutines that report over the unbuffered errorsChan, waits for the    *)
(* first report or for an interrupt, and leaves through its deferred calls.*)
(***************************************************************************)
EXTENDS TelnetDuplex

VARIABLES
  main,    \* "connect", "select", "wait" (wg.Wait), "leave" (deferred calls
           \* ahead), "errors", "signals", "stopped" (the last one done:
           \* errorsChan, signalChan, stopChan closed), "exited", "fatal"
  first,   \* what the select saw: "none", "signal", "nil" or "error"
  told,    \* the goroutines whose result was received
  sig      \* an interrupt waits in signalChan

mainVars == <<main, first, told, sig>>
vars == <<sendVars, rxVars, mainVars>>

Init ==
  /\ ConnInit /\ SendInit /\ ReceiveInit
  /\ main = "connect" /\ first = "none" /\ told = {} /\ sig = FALSE

Alive == ~crashed /\ main \notin {"exited", "fatal"}

\* The goroutines that reached errorsChan <- result, and their results.
Reporting == {g \in {"send", "receive"} \ told :
                (IF g = "send" THEN tx ELSE rx) = "returned"}
ResultOf(g) == IF g = "send" THEN txResult ELSE rxResult
-----------------------------------------------------------------------------
MainConnects ==
  /\ main = "connect"
  /\ \/ Connect /\ main' = "select"
     \/ main' = "fatal" /\ UNCHANGED connVars
  /\ UNCHANGED <<txVars, rxVars, first, told, sig>>

\* An interrupt; the channel holds one. It is never withdrawn from the runtime
\* (no signal.Stop), which sends on the channel after main closed it.
Interrupt ==
  /\ main \notin {"connect", "exited", "fatal"}
  /\ IF main \in {"signals", "stopped"}
       THEN Panic /\ UNCHANGED sig
       ELSE ~sig /\ sig' = TRUE /\ UNCHANGED connVars
  /\ UNCHANGED <<txVars, rxVars, main, first, told>>

\* Mutant: main returns after an interrupt.
MainInterruptedLeaves ==
  /\ main = "select" /\ sig
  /\ sig' = FALSE
  /\ first' = "signal"
  /\ main' = "leave"
  /\ UNCHANGED <<sendVars, rxVars, told>>

MainInterrupted ==
  /\ main = "select" /\ sig
  /\ sig' = FALSE
  /\ first' = "signal"
  /\ main' = "wait"
  /\ UNCHANGED <<sendVars, rxVars, told>>

\* Mutant: an error is printed and waited after like the end of the work.
MainTakesWaiting(g) ==
  /\ main = "select" /\ g \in Reporting
  /\ told' = told \union {g}
  /\ first' = IF ResultOf(g) = "nil" THEN "nil" ELSE "error"
  /\ main' = "wait"
  /\ UNCHANGED <<sendVars, rxVars, sig>>

\* The only receive from errorsChan. After a result nil or an interrupt main is
\* in wg.Wait, which has no action: one of the goroutines is never received
\* from, and wg.Done follows the send on errorsChan.
MainTakes(g) ==
  /\ main = "select" /\ g \in Reporting
  /\ told' = told \union {g}
  /\ first' = IF ResultOf(g) = "nil" THEN "nil" ELSE "error"
  /\ main' = IF first' = "nil" THEN "wait" ELSE "leave"
  /\ UNCHANGED <<sendVars, rxVars, sig>>

\* Mutant: Close is only deferred to the caller of main.
MainLeavesUnclosed ==
  /\ \/ main = "leave" /\ main' = "errors"
     \/ main = "errors" /\ main' = "signals"
     \/ main = "signals" /\ main' = "exited"
  /\ UNCHANGED <<sendVars, rxVars, first, told, sig>>

\* The deferred calls, last first: errorsChan, signalChan, Close.
MainLeaves ==
  /\ \/ main = "leave" /\ main' = "errors" /\ UNCHANGED connVars
     \/ main = "errors" /\ main' = "signals" /\ UNCHANGED connVars
     \/ main = "signals" /\ main' = "stopped" /\ CloseStop
     \/ main = "stopped" /\ main' = "exited" /\ CloseConn
  /\ UNCHANGED <<txVars, rxVars, first, told, sig>>

\* A goroutine sends its result on the closed errorsChan.
ReportPanics ==
  /\ main \in {"errors", "signals", "stopped"} /\ Reporting # {}
  /\ Panic
  /\ UNCHANGED <<txVars, rxVars, mainVars>>

Main == \/ MainConnects \/ MainInterrupted \/ MainLeaves
        \/ \E g \in {"send", "receive"} : MainTakes(g)
Sender == SendNext /\ UNCHANGED <<rxVars, mainVars>>
Receiver == ReceiveNext /\ UNCHANGED <<txVars, mainVars>>
Outside == \/ Interrupt
           \/ PeerLeaves /\ UNCHANGED <<txVars, rxVars, mainVars>>
           \/ PeerSends /\ UNCHANGED <<txVars, mainVars>>

Next == Alive /\ (Main \/ ReportPanics \/ Sender \/ Receiver \/ Outside)

Spec == Init /\ [][Next]_vars

\* As Send's and Receive's own fairness, while the process is there; main runs.
FairSpec ==
  /\ Spec
  /\ WF_vars(Alive /\ Main)
  /\ WF_vars(Alive /\ Running /\ TxSelect /\ UNCHANGED <<rxVars, mainVars>>)
  /\ WF_vars(Alive /\ Running /\ (TxPoll \/ TxReaderCloses)
               /\ UNCHANGED <<rxVars, mainVars>>)
  /\ \A m \in 1..Lines :
       WF_vars(Alive /\ Running /\ Writer(m) /\ UNCHANGED <<rxVars, mainVars>>)
  /\ WF_vars(Alive /\ Running /\ ReceiveSelect /\ UNCHANGED <<txVars, mainVars>>)
  /\ WF_vars(Alive /\ Running /\ ReceiveReader /\ UNCHANGED <<txVars, mainVars>>)
-----------------------------------------------------------------------------
TypeOK ==
  /\ SendTypeOK /\ ReceiveTypeOK
  /\ main \in {"connect", "select", "wait", "leave", "errors", "signals",
               "stopped", "exited", "fatal"}
  /\ first \in {"none", "signal", "nil", "error"}
  /\ told \subseteq {"send", "receive"} /\ sig \in BOOLEAN

\* However often Ctrl+D and interrupts come, the program panics only because it
\* has failed: main leaves after an error, or the peer is gone and a line did not
\* get through to it (telnet.go:97-121, main.go:38-65).
PanicIsFailure ==
  crashed =>
    \/ first = "error"
    \/ /\ conn \in {"eof", "reset"}
       /\ \E m \in 1..Lines : writer[m] = "fail" /\ \A i \in 1..Len(wire) : wire[i] # m

\* The program leaves only after one of its directions failed and it has heard
\* of the failure; when it has exited the connection is closed.
ExitIsAfterClose ==
  /\ main \in {"leave", "errors", "signals", "stopped", "exited"} =>
       first = "error" /\ \E g \in told : ResultOf(g) \notin {"none", "nil"}
  /\ main \in {"stopped", "exited"} => stop
  /\ main = "exited" => conn = "closed"

\* A failed Send or Receive that main heard first ends the program.
ErrorEndsProgram == first = "error" ~> (main = "exited" \/ crashed)

\* README.md:18: at Ctrl+D the program closes the socket and ends.
CtrlDEnds == inputEnd = "eof" ~> (main = "exited" \/ crashed)
=============================================================================
