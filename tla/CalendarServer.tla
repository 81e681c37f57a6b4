--------------------------- MODULE CalendarServer ---------------------------
(***************************************************************************)
(* hw12_13_14_15_calendar: cmd/calendar/main.go with Start and Stop of     *)
(* internal/server/http/server.go. Three goroutines: main, the one in which*)
(* Start serves, and the one that calls Stop once the context is done.     *)
(* net/http, the operating system and the clients are external.            *)
(***************************************************************************)
EXTENDS FiniteSets

CONSTANTS Req   \* requests of the clients

VARIABLES
  main,      \* "config", "connect", "ready", "start" (in Start's select),
             \* "drain" (in main's select), "leave", "close", "exited"
  serve,     \* Start's goroutine: "none", "listen", "bind", "accept", at errChan
             \* with ErrServerClosed ("closed") or another error ("failed"), "ended"
  stop,      \* the goroutine that stops: "none", "wait", "shutdown", "ended"
  done,      \* the context of main is done
  notified,  \* signals go to the context, not to their default handlers
  late,      \* the time allowed for the shutdown is over
  db,        \* the connection of the SQL storage: "none", "open" or "closed"
  request,   \* per request: "none", "active", "answered" or "cut" by the exit
  why,       \* what happened so far: "signal", "config", "connect", "serve"
  status     \* how the process ended: "none" (not yet), "ok", "failed", "killed"

vars == <<main, serve, stop, done, notified, late, db, request, why, status>>

Init ==
  /\ main = "config" /\ serve = "none" /\ stop = "none" /\ status = "none"
  /\ done = FALSE /\ notified = FALSE /\ late = FALSE
  /\ db = "none" /\ why = {}
  /\ request = [r \in Req |-> "none"]

Active == {r \in Req : request[r] = "active"}
Shutting == stop \in {"shutdown", "ended"}

\* The process ends, with all its goroutines and connections.
Exit(s) ==
  /\ main' = "exited"
  /\ status' = s
  /\ request' = [r \in Req |-> IF r \in Active THEN "cut" ELSE request[r]]
-----------------------------------------------------------------------------
\* Start-up. A configuration that cannot be read, or a database that cannot be
\* reached, is fatal. The configuration says which storage is used.
Configure ==
  /\ main = "config"
  /\ \/ main' \in {"connect", "ready"} /\ UNCHANGED <<request, why, status>>
     \/ Exit("failed") /\ why' = why \union {"config"}
  /\ UNCHANGED <<serve, stop, done, notified, late, db>>

Connect ==
  /\ main = "connect"
  /\ \/ main' = "ready" /\ db' = "open" /\ UNCHANGED <<request, why, status>>
     \/ Exit("failed") /\ why' = why \union {"connect"} /\ UNCHANGED db
  /\ UNCHANGED <<serve, stop, done, notified, late>>

CallStart ==
  /\ main = "ready"
  /\ main' = "start" /\ serve' = "listen" /\ stop' = "wait" /\ notified' = TRUE
  /\ UNCHANGED <<done, late, db, request, why, status>>
-----------------------------------------------------------------------------
\* The address may be taken, which hides a shutdown, and accepting may fail later.
ServeFails ==
  /\ serve = "bind" \/ (serve = "accept" /\ ~Shutting)
  /\ serve' = "failed" /\ why' = why \union {"serve"}
  /\ UNCHANGED <<main, stop, done, notified, late, db, request, status>>

\* ListenAndServe looks at Shutdown before it binds the address and after it, and
\* is ended by it.
ListenAndServe ==
  /\ \/ serve = "listen" /\ ~Shutting /\ serve' = "bind"
     \/ serve = "bind" /\ ~Shutting /\ serve' = "accept"
     \/ serve \in {"listen", "bind", "accept"} /\ Shutting /\ serve' = "closed"
  /\ UNCHANGED <<main, stop, done, notified, late, db, request, why, status>>

\* Mutant: Start waits for the signal first and looks at the error then.
StartTakesErrorLate ==
  /\ main = "start" /\ serve \in {"closed", "failed"} /\ done
  /\ serve' = "ended" /\ done' = TRUE
  /\ \/ serve = "closed" /\ main' = "leave" /\ UNCHANGED notified
     \/ serve = "failed" /\ main' = "drain" /\ notified' = FALSE
  /\ UNCHANGED <<stop, late, db, request, why, status>>

\* Mutant: Start returns ErrServerClosed as any other error.
StartTakesAnyError ==
  /\ main = "start" /\ serve \in {"closed", "failed"}
  /\ serve' = "ended" /\ done' = TRUE
  /\ main' = "drain" /\ notified' = FALSE
  /\ UNCHANGED <<stop, late, db, request, why, status>>

\* Start receives the error. Another one than ErrServerClosed makes main cancel
\* the context, which also gives the signals back, and wait.
StartTakesError ==
  /\ main = "start" /\ serve \in {"closed", "failed"}
  /\ serve' = "ended" /\ done' = TRUE
  /\ \/ serve = "closed" /\ main' = "leave" /\ UNCHANGED notified
     \/ serve = "failed" /\ main' = "drain" /\ notified' = FALSE
  /\ UNCHANGED <<stop, late, db, request, why, status>>

\* Start sees the context done; its goroutine will wait at errChan for ever.
StartSeesDone ==
  /\ main = "start" /\ done
  /\ main' = "leave"
  /\ UNCHANGED <<serve, stop, done, notified, late, db, request, why, status>>
-----------------------------------------------------------------------------
\* Stop: Shutdown closes the listener and waits for the requests, within the
\* shorter of two timeouts; stopChan is closed whatever it returned.
CallStop ==
  /\ stop = "wait" /\ done
  /\ stop' = "shutdown"
  /\ UNCHANGED <<main, serve, done, notified, late, db, request, why, status>>

StopReturns ==
  /\ stop = "shutdown" /\ (Active = {} \/ late)
  /\ stop' = "ended"
  /\ UNCHANGED <<main, serve, done, notified, late, db, request, why, status>>

\* The timers of Stop and of main, which start at nearly the same time.
TimeIsOver ==
  /\ stop = "shutdown" \/ main = "drain"
  /\ ~late /\ late' = TRUE
  /\ UNCHANGED <<main, serve, stop, done, notified, db, request, why, status>>

\* Mutant: stopChan is closed when Stop is called, not when it returned.
DrainUnwaited ==
  /\ main = "drain" /\ (Shutting \/ late)
  /\ Exit("failed")
  /\ UNCHANGED <<serve, stop, done, notified, late, db, why>>

\* os.Exit(1): no deferred call is made.
Drain ==
  /\ main = "drain" /\ (stop = "ended" \/ late)
  /\ Exit("failed")
  /\ UNCHANGED <<serve, stop, done, notified, late, db, why>>

\* main returns: its deferred calls are cancel and, with the SQL storage, Close.
Leave ==
  /\ main = "leave"
  /\ done' = TRUE /\ notified' = FALSE
  /\ IF db = "open" THEN main' = "close" /\ UNCHANGED <<request, status>>
                    ELSE Exit("ok")
  /\ UNCHANGED <<serve, stop, late, db, why>>

CloseStorage ==
  /\ main = "close"
  /\ db' = "closed"
  /\ Exit("ok")
  /\ UNCHANGED <<serve, stop, done, notified, late, why>>
-----------------------------------------------------------------------------
\* SIGINT, SIGTERM or SIGHUP.
Signal ==
  /\ why' = why \union {"signal"}
  /\ IF notified THEN done' = TRUE /\ UNCHANGED <<main, request, status>>
                 ELSE Exit("killed") /\ UNCHANGED done
  /\ UNCHANGED <<serve, stop, notified, late, db>>

\* The handler of /hello, behind the logging middleware; it uses no storage.
Request(r) ==
  /\ \/ serve = "accept" /\ request[r] = "none" /\ request' = [request EXCEPT ![r] = "active"]
     \/ request[r] = "active" /\ request' = [request EXCEPT ![r] = "answered"]
  /\ UNCHANGED <<main, serve, stop, done, notified, late, db, why, status>>

Main == \/ Configure \/ Connect \/ CallStart \/ StartTakesError \/ StartSeesDone
        \/ Drain \/ Leave \/ CloseStorage

Next ==
  /\ main # "exited"
  /\ \/ Main \/ ServeFails \/ ListenAndServe
     \/ CallStop \/ StopReturns \/ TimeIsOver
     \/ Signal \/ \E r \in Req : Request(r)

\* The goroutines run and the clock goes on; clients and signals may stay out,
\* and no request need ever be finished.
Spec == /\ Init /\ [][Next]_vars
        /\ WF_vars(Main)
        /\ WF_vars(main # "exited" /\ ListenAndServe)
        /\ WF_vars(main # "exited" /\ (CallStop \/ StopReturns))
        /\ WF_vars(main # "exited" /\ TimeIsOver)
-----------------------------------------------------------------------------
TypeOK ==
  /\ main \in {"config", "connect", "ready", "start", "drain", "leave", "close", "exited"}
  /\ serve \in {"none", "listen", "bind", "accept", "closed", "failed", "ended"}
  /\ stop \in {"none", "wait", "shutdown", "ended"}
  /\ {done, notified, late} \subseteq BOOLEAN
  /\ db \in {"none", "open", "closed"}
  /\ request \in [Req -> {"none", "active", "answered", "cut"}]
  /\ why \subseteq {"signal", "config", "connect", "serve"}
  /\ status \in {"none", "ok", "failed", "killed"}

\* Whatever signals, failures and the shutdown meet in Start's select: status 0
\* is the answer to a signal, with the database closed; status 1 tells of a
\* failure, never of a shutdown alone; a signal kills only before Start or
\* once main has stopped to listen for it (main.go:72-103, server.go:63-73).
StatusIsHonest ==
  /\ status = "ok"     => "signal" \in why /\ db # "open"
  /\ status = "failed" => why \ {"signal"} # {}
  /\ status = "killed" => serve = "none" \/ serve = "ended" \/ done

\* How far the three goroutines can be from each other: Start's and Stop's exist
\* once main has called Start, which listens for signals; only a signal makes the
\* context done before Start returned; the listener is closed by Shutdown alone,
\* and takes requests only between the bind and that (main.go:68-103).
Phases ==
  /\ main \in {"config", "connect", "ready"} =>
       serve = "none" /\ stop = "none" /\ ~done /\ ~notified
  /\ main = "start" => serve \notin {"none", "ended"} /\ notified /\ (done => "signal" \in why)
  /\ main = "drain" => serve = "ended" /\ done /\ "serve" \in why
  /\ main \in {"leave", "close"} => done /\ "signal" \in why
  /\ Shutting => done
  /\ serve = "closed" => Shutting
  /\ serve = "failed" => "serve" \in why
  /\ serve \in {"none", "listen", "bind"} => \A r \in Req : request[r] = "none"
  /\ status # "none" <=> main = "exited"
  /\ main # "exited" => \A r \in Req : request[r] # "cut"

\* Once a failed server has been told of, Stop has returned only with every
\* request answered or the time over: none can begin any more.
Settled ==
  serve = "failed" \/ main = "drain" => (stop = "ended" => Active = {} \/ late)

\* Types, phases and outcome together, in every state; inductive.
Inv == TypeOK /\ Phases /\ Settled /\ StatusIsHonest

\* After a failure main waits for the requests in flight: it cuts them only
\* when the time is over. (After a signal it does not wait, server.go:64-66.)
FailureDrains == status = "failed" /\ (\E r \in Req : request[r] = "cut") => late

\* A signal, or a server that failed, ends the process, whatever the requests
\* do and although Start may have left its goroutine at errChan (server.go:60).
EndsWhenAsked == (done \/ serve = "failed") ~> main = "exited"
=============================================================================
