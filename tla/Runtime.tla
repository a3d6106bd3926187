------------------------------- MODULE Runtime -------------------------------
(***************************************************************************)
(* The life of the serving process: serve of runtime.rs, with the pool     *)
(* that health probes and System requests share and the boundary that      *)
(* drops a handler at its deadline.  Five things run beside each other:    *)
(* the main task (phase), the server task it spawns (server), the handlers *)
(* of the requests (state), the connections on their way back to the pool  *)
(* (returning) and a storage that comes and goes.                          *)
(*                                                                         *)
(* Durations are left out: a timeout may pass as soon as it runs.  The     *)
(* startup check is the readiness probe under the name Startup.            *)
(***************************************************************************)
EXTENDS Naturals, FiniteSets

CONSTANTS
    Request,            \* requests that clients send
    Startup,            \* the storage_ready of startup
    None,               \* nothing yet
    MaxConnections      \* PgPoolOptions::max_connections

ASSUME StartupAssumption == Startup \notin Request /\ IsFiniteSet(Request)
ASSUME NoneAssumption == None \notin {"Ok", "ready", "cut"}
ASSUME ConnectionsAssumption == MaxConnections \in Nat \ {0}

VARIABLES
    phase,      \* where the main task is in serve
    result,     \* what serve returned
    server,     \* the spawned server task
    stopping,   \* shutdown_tx has sent
    signal,     \* signal_result
    closed,     \* the pool refuses to lend connections
    returning,  \* connections that were dropped and are not yet idle
    state,      \* where each handler is
    kind,       \* what it serves
    answer,     \* what became of it
    storage     \* whether the database is there with the packaged schema

mainVars == <<phase, result, signal, stopping>>
requestVars == <<returning, state, kind, answer>>
vars == <<mainVars, server, closed, requestVars, storage>>

Call == Request \cup {Startup}

Kinds == {"live", "ready", "system"}

Active(r) == state[r] \in {"running", "waiting", "holding"}

Used == returning + Cardinality({r \in Call : state[r] = "holding"})

-----------------------------------------------------------------------------
(* Handlers.                                                               *)

\* The future of r ends or is dropped; a connection it holds is rolled back and
\* returned by a task of its own.
Finish(r, what) ==
    /\ Active(r)
    /\ state' = [state EXCEPT ![r] = "over"]
    /\ answer' = [answer EXCEPT ![r] = what]
    /\ returning' = IF state[r] = "holding" THEN returning + 1 ELSE returning
    /\ UNCHANGED <<mainVars, server, closed, kind, storage>>

Accept(r, k) ==
    /\ server = "accepting" /\ state[r] = "none"
    /\ state' = [state EXCEPT ![r] = "running"]
    /\ kind' = [kind EXCEPT ![r] = k]
    /\ UNCHANGED <<mainVars, server, closed, returning, answer, storage>>

\* live, and what the boundary or the authentication turns away.
Reply(r) ==
    /\ state[r] = "running"
    /\ Finish(r, "answered")

\* The handler asks for a connection.
Ask(r) ==
    /\ state[r] = "running" /\ kind[r] # "live"
    /\ state' = [state EXCEPT ![r] = "waiting"]
    /\ UNCHANGED <<mainVars, server, closed, returning, kind, answer, storage>>

Acquire(r) ==
    /\ state[r] = "waiting"
    /\ ~closed /\ Used < MaxConnections
    /\ state' = [state EXCEPT ![r] = "holding"]
    /\ UNCHANGED <<mainVars, server, closed, returning, kind, answer, storage>>

\* Mutant: the timeout covers acquire and not the check after it.
FailWaiting(r) ==
    /\ state[r] = "waiting"
    /\ Finish(r, IF kind[r] = "ready" THEN "unready" ELSE "answered")

\* acquire_timeout, a closed pool, an unreachable database, a failed check.
Fail(r) ==
    /\ state[r] \in {"waiting", "holding"}
    /\ Finish(r, IF kind[r] = "ready" THEN "unready" ELSE "answered")

\* check_schema of storage_ready succeeds.
Check(r) ==
    /\ state[r] = "holding" /\ kind[r] = "ready" /\ storage
    /\ Finish(r, "ready")

\* A System is created or read.
Serve(r) ==
    /\ state[r] = "holding" /\ kind[r] = "system" /\ storage
    /\ Finish(r, "answered")

\* Mutant: the deadline does not reach a handler inside its transaction.
DropOutside(r) ==
    /\ r \in Request /\ state[r] # "holding"
    /\ Finish(r, "dropped")

\* The deadline of the boundary drops the handler, or its client hangs up.
Drop(r) ==
    /\ r \in Request
    /\ Finish(r, "dropped")

\* A dropped connection is idle again.
Return ==
    /\ returning > 0
    /\ returning' = returning - 1
    /\ UNCHANGED <<mainVars, server, closed, state, kind, answer, storage>>

StorageChanges ==
    /\ storage' = ~storage
    /\ UNCHANGED <<mainVars, server, closed, requestVars>>

-----------------------------------------------------------------------------
(* The server task: axum::serve with_graceful_shutdown.                    *)

ServerStops ==
    /\ server = "accepting" /\ stopping
    /\ server' = "draining"
    /\ UNCHANGED <<mainVars, closed, requestVars, storage>>

\* Mutant: the task ends once it no longer accepts.
ServerEndsEarly ==
    /\ server = "draining"
    /\ server' = "ended"
    /\ UNCHANGED <<mainVars, closed, requestVars, storage>>

ServerEnds ==
    /\ server = "draining" /\ \A r \in Request : ~Active(r)
    /\ server' = "ended"
    /\ UNCHANGED <<mainVars, closed, requestVars, storage>>

\* The task ends of itself; the tasks of its connections do not.
ServerFails ==
    /\ server \in {"accepting", "draining"}
    /\ server' = "failed"
    /\ UNCHANGED <<mainVars, closed, requestVars, storage>>

-----------------------------------------------------------------------------
(* The main task.                                                          *)

\* serve returns and main drops the runtime with every task in it.
Exit(what) ==
    /\ phase' = "exited"
    /\ result' = what
    /\ answer' = [r \in Call |-> IF Active(r) THEN "cut" ELSE answer[r]]
    /\ UNCHANGED <<signal, stopping, closed, returning, state, kind, storage>>

\* Without storage there is no listener: the pool is closed, without a deadline.
Abandon ==
    /\ phase = "starting" /\ answer[Startup] = "unready"
    /\ phase' = "abandoning"
    /\ closed' = TRUE
    /\ UNCHANGED <<result, signal, stopping, server, requestVars, storage>>

Abandoned ==
    /\ phase = "abandoning" /\ Used = 0
    /\ Exit("Storage")
    /\ UNCHANGED server

\* The routers are built, the listener bound and the signal handler registered
\* before the server is spawned; any of them may fail.
Listen ==
    /\ phase = "starting" /\ answer[Startup] = "ready"
    /\ \/ /\ phase' = "serving"
          /\ server' = "accepting"
          /\ UNCHANGED <<result, signal, stopping, closed, requestVars, storage>>
       \/ /\ \E what \in {"Discovery", "SystemCreation", "Listener", "Signal"} : Exit(what)
          /\ UNCHANGED server

\* The server ended before any signal.
NoticeFailure ==
    /\ phase = "serving" /\ server = "failed"
    /\ phase' = "failing"
    /\ closed' = TRUE
    /\ UNCHANGED <<result, signal, stopping, server, requestVars, storage>>

Failed ==
    /\ phase = "failing" /\ Used = 0
    /\ Exit("Serving")
    /\ UNCHANGED server

\* Mutant: the pool is closed together with the listener.
SignalClosing(what) ==
    /\ phase = "serving"
    /\ phase' = "draining"
    /\ signal' = what
    /\ stopping' = TRUE
    /\ closed' = TRUE
    /\ UNCHANGED <<result, server, requestVars, storage>>

\* SIGTERM or Ctrl-C, or an error in place of the latter.
Signal(what) ==
    /\ phase = "serving"
    /\ phase' = "draining"
    /\ signal' = what
    /\ stopping' = TRUE
    /\ UNCHANGED <<result, server, closed, requestVars, storage>>

Drained ==
    /\ phase = "draining"
    /\ \/ /\ server = "ended"
          /\ phase' = "closing"
          /\ closed' = TRUE
          /\ UNCHANGED <<result, signal, stopping, server, requestVars, storage>>
       \/ /\ server = "failed"
          /\ Exit("Serving")
          /\ UNCHANGED server

\* Mutant: the pool is told to close and not waited for.
FinishedAtOnce ==
    /\ phase = "closing"
    /\ Exit(signal)
    /\ UNCHANGED server

\* pool.close returns and signal_result with it.
Finished ==
    /\ phase = "closing" /\ Used = 0
    /\ Exit(signal)
    /\ UNCHANGED server

\* Mutant: the deadline covers draining only.
ExpireDraining ==
    /\ phase \in {"failing", "draining"}
    /\ Exit("Shutdown")
    /\ server' = IF phase = "failing" THEN server ELSE "aborted"

\* Five seconds have passed: for draining and closing together the server is
\* aborted.
Expire ==
    /\ phase \in {"failing", "draining", "closing"}
    /\ Exit("Shutdown")
    /\ server' = IF phase = "failing" THEN server ELSE "aborted"

-----------------------------------------------------------------------------

Init ==
    /\ phase = "starting" /\ result = None /\ signal = None /\ stopping = FALSE
    /\ server = "none" /\ closed = FALSE /\ returning = 0
    /\ state = [r \in Call |-> IF r = Startup THEN "waiting" ELSE "none"]
    /\ kind = [r \in Call |-> IF r = Startup THEN "ready" ELSE None]
    /\ answer = [r \in Call |-> None]
    /\ storage \in BOOLEAN

Handles(r) ==
    \/ \E k \in Kinds : r \in Request /\ Accept(r, k)
    \/ Reply(r) \/ Ask(r) \/ Acquire(r) \/ Fail(r) \/ Check(r) \/ Serve(r) \/ Drop(r)

Main ==
    \/ Abandon \/ Abandoned \/ Listen
    \/ NoticeFailure \/ Failed
    \/ Drained \/ Finished

Next ==
    /\ phase # "exited"
    /\ \/ \E r \in Call : Handles(r)
       \/ Return \/ StorageChanges
       \/ ServerStops \/ ServerEnds \/ ServerFails
       \/ Main \/ Expire
       \/ \E what \in {"Ok", "Signal"} : Signal(what)

Spec == Init /\ [][Next]_vars

\* The main task runs, and the timers of the startup check and of the shutdown
\* fire.  Handlers, signals and failures have no fairness.
FairSpec ==
    /\ Spec
    /\ WF_vars(Main) /\ WF_vars(Expire)
    /\ WF_vars(Fail(Startup))

\* A dropped connection comes back: its session has a statement_timeout and a
\* lock_timeout, and the server closes it when the process does not.
ConnectionsReturn == WF_vars(Return)

\* The deadline of the boundary passes for every handler.
DeadlinesPass == \A r \in Request : WF_vars(Drop(r))

-----------------------------------------------------------------------------
(* Properties.                                                             *)

\* Types of the tasks' states.
TypeOK ==
    /\ phase \in {"starting", "abandoning", "serving", "failing", "draining", "closing", "exited"}
    /\ result \in {None, "Ok", "Storage", "Discovery", "SystemCreation", "Listener",
                   "Signal", "Serving", "Shutdown"}
    /\ signal \in {None, "Ok", "Signal"}
    /\ server \in {"none", "accepting", "draining", "ended", "failed", "aborted"}
    /\ stopping \in BOOLEAN /\ closed \in BOOLEAN /\ storage \in BOOLEAN
    /\ returning \in Nat
    /\ state \in [Call -> {"none", "running", "waiting", "holding", "over"}]
    /\ kind \in [Call -> Kinds \cup {None}]
    /\ answer \in [Call -> {None, "answered", "ready", "unready", "dropped", "cut"}]

\* runtime.rs:167, "One deadline covers both HTTP draining and checked-out
\* storage work": success means that every accepted request ran to its end and
\* every connection came back.
CleanExit ==
    result = "Ok" => /\ \A r \in Call : ~Active(r) /\ answer[r] # "cut"
                     /\ Used = 0 /\ closed

\* docs/runtime-configuration.md, "allow up to five seconds for in-flight
\* requests": until the deadline a signal takes the pool from nobody who was
\* accepted before it.
PoolOutlivesRequests ==
    signal # None /\ phase # "exited" /\ closed => \A r \in Call : ~Active(r)

\* test 8 of docs/runtime-health-tests.md: the process ends after a signal or a
\* failure of the server, whatever its handlers wait for.
StopsInTime == phase \in {"failing", "draining", "closing"} ~> phase = "exited"

\* "Unavailable storage also fails startup": it is decided whether the process
\* serves, provided that a connection comes back, since pool.close has no deadline
\* there.
StartupEnds == ConnectionsReturn => (phase = "starting" ~> phase \in {"serving", "exited"})

\* Both connections may wait for locks of each other or of strangers, but never
\* for good: a serving process has capacity again and again.
CapacityReturns ==
    ConnectionsReturn /\ DeadlinesPass => []<>(Used < MaxConnections \/ phase = "exited")
==============================================================================
