---------------------------- MODULE RuntimeProofs ----------------------------
(***************************************************************************)
(* What serve promises at shutdown, for any number of requests and         *)
(* connections: a success report means that everything was drained, and    *)
(* the pool is closed only behind the last accepted request.               *)
(***************************************************************************)
EXTENDS Runtime, TLAPS

\* The startup check is over once its answer is in, and stays so.
StartupIsOver ==
    /\ answer[Startup] = "ready" => state[Startup] = "over"
    /\ phase \in {"serving", "failing", "draining", "closing"} => state[Startup] = "over"

\* A server that has ended by itself has no requests left, and only behind it
\* does a signal close the pool.
Drains ==
    /\ server = "ended" => \A r \in Request : ~Active(r)
    /\ phase \in {"starting", "serving", "draining"} => closed = FALSE
    /\ phase = "closing" => server = "ended" /\ closed = TRUE
    /\ signal # None => phase \in {"draining", "closing", "exited"}

\* Nothing is reported or cut off before the exit.
ExitIsLast ==
    phase # "exited" => result # "Ok" /\ \A r \in Call : answer[r] # "cut"

\* The inductive invariant.
Inv == TypeOK /\ StartupIsOver /\ Drains /\ ExitIsLast /\ CleanExit

\* The initial states satisfy the invariant: nothing has begun.
LEMMA InitInv == Init => Inv
<1> SUFFICES ASSUME Init PROVE Inv
  OBVIOUS
<1>1. TypeOK
  BY DEF Init, TypeOK, Kinds
<1>2. StartupIsOver /\ Drains
  BY NoneAssumption DEF Init, StartupIsOver, Drains, Call
<1>3. ExitIsLast /\ CleanExit
  BY NoneAssumption DEF Init, ExitIsLast, CleanExit
<1> QED BY <1>1, <1>2, <1>3 DEF Inv

\* As long as the process has not exited CleanExit says nothing.
LEMMA OpenInv ==
    ASSUME TypeOK', StartupIsOver', Drains', ExitIsLast', phase' # "exited"
    PROVE  Inv'
  BY DEF Inv, ExitIsLast, CleanExit

\* A handler that ends, or is dropped, keeps the invariant: handlers end before
\* the exit and say nothing of it.
LEMMA FinishInv ==
    ASSUME Inv, phase # "exited", NEW r \in Call,
           NEW what \in {"answered", "ready", "unready", "dropped"},
           Finish(r, what)
    PROVE  Inv'
<1>1. TypeOK'
  <2>1. returning' \in Nat
    <3>1. returning \in Nat
      BY DEF Inv, TypeOK
    <3>2. returning' = returning \/ returning' = returning + 1
      BY DEF Finish
    <3> QED BY <3>1, <3>2
  <2>2. state' \in [Call -> {"none", "running", "waiting", "holding", "over"}]
    BY DEF Inv, TypeOK, Finish
  <2>3. answer' \in [Call -> {None, "answered", "ready", "unready", "dropped", "cut"}]
    BY DEF Inv, TypeOK, Finish
  <2>4. UNCHANGED <<phase, result, signal, stopping, server, closed, kind, storage>>
    BY DEF Finish, mainVars
  <2> QED BY <2>1, <2>2, <2>3, <2>4 DEF Inv, TypeOK
<1>2. StartupIsOver' /\ Drains'
  BY DEF Inv, TypeOK, StartupIsOver, Drains, Finish, Active, mainVars, Call
<1>3. ExitIsLast' /\ phase' # "exited"
  BY DEF Inv, TypeOK, ExitIsLast, Finish, mainVars
<1> QED BY <1>1, <1>2, <1>3, OpenInv

\* The exit keeps the invariant, if success is reported only by a pool that is
\* closed and empty behind an ended server.
LEMMA ExitInv ==
    ASSUME Inv, phase # "exited",
           NEW what \in {"Ok", "Storage", "Discovery", "SystemCreation", "Listener",
                         "Signal", "Serving", "Shutdown"},
           Exit(what), what = "Ok" => phase = "closing" /\ Used = 0,
           server' = server \/ server' = "aborted"
    PROVE  Inv'
<1>1. TypeOK'
  BY DEF Inv, TypeOK, Exit
<1>2. StartupIsOver'
  BY StartupAssumption DEF Inv, TypeOK, StartupIsOver, Exit, Active, Call
<1>3. Drains'
  BY DEF Inv, TypeOK, Drains, Exit, Active, Call
<1>4. ExitIsLast'
  BY DEF ExitIsLast, Exit
<1>5. CleanExit'
  <2>1. CASE what = "Ok"
    <3>1. \A r \in Call : ~Active(r)
      BY <2>1 DEF Inv, Drains, StartupIsOver, Active, Call
    <3>2. \A r \in Call : ~Active(r)' /\ answer'[r] # "cut"
      BY <3>1 DEF Inv, TypeOK, ExitIsLast, Exit, Active
    <3>3. Used' = 0 /\ closed'
      BY <2>1 DEF Inv, Drains, Exit, Used
    <3> QED BY <3>2, <3>3 DEF CleanExit
  <2>2. CASE what # "Ok"
    BY <2>2 DEF CleanExit, Exit
  <2> QED BY <2>1, <2>2
<1> QED BY <1>1, <1>2, <1>3, <1>4, <1>5 DEF Inv

\* Every step keeps the invariant.
LEMMA StepInv == Inv /\ [Next]_vars => Inv'
<1> SUFFICES ASSUME Inv, [Next]_vars PROVE Inv'
  OBVIOUS
<1>1. CASE UNCHANGED vars
  <2>1. TypeOK'
    BY <1>1 DEF vars, mainVars, requestVars, Inv, TypeOK
  <2>4. StartupIsOver' /\ ExitIsLast'
    BY <1>1 DEF vars, mainVars, requestVars, Inv, StartupIsOver, ExitIsLast
  <2>3. Drains'
    BY <1>1 DEF vars, mainVars, requestVars, Inv, Drains, Active
  <2>2. CleanExit'
    <3>1. Used' = Used
      BY <1>1 DEF vars, requestVars, Used
    <3> QED BY <1>1, <3>1 DEF vars, mainVars, requestVars, Inv, CleanExit, Active
  <2> QED BY <2>1, <2>2, <2>3, <2>4 DEF Inv
<1>2. CASE Next
  <2>0. phase # "exited"
    BY <1>2 DEF Next
  <2>1. ASSUME NEW r \in Request, NEW k \in Kinds, Accept(r, k) PROVE Inv'
    <3>1. TypeOK'
      BY <2>0, <2>1, StartupAssumption DEF Accept, Inv, TypeOK, mainVars, requestVars, Call
    <3>2. StartupIsOver'
      BY <2>0, <2>1, StartupAssumption DEF Accept, Inv, TypeOK, StartupIsOver, mainVars, requestVars, Call
    <3>3. Drains'
      BY <2>0, <2>1, StartupAssumption DEF Accept, Inv, TypeOK, StartupIsOver, Drains, Active,
         mainVars, requestVars, Call
    <3>4. ExitIsLast' /\ phase' # "exited"
      BY <2>0, <2>1 DEF Accept, Inv, ExitIsLast, mainVars, requestVars
    <3> QED BY <3>1, <3>2, <3>3, <3>4, OpenInv
  <2>2. ASSUME NEW r \in Call, Ask(r) PROVE Inv'
    <3>1. TypeOK'
      <4>1. state' \in [Call -> {"none", "running", "waiting", "holding", "over"}]
        BY <2>2 DEF Ask, Inv, TypeOK
      <4>2. UNCHANGED <<phase, result, signal, stopping, server, closed, returning, kind, answer,
                        storage>>
        BY <2>2 DEF Ask, mainVars
      <4> QED BY <4>1, <4>2 DEF Inv, TypeOK
    <3>2. StartupIsOver'
      BY <2>0, <2>2 DEF Ask, Inv, TypeOK, StartupIsOver, mainVars, requestVars, Call
    <3>3. Drains'
      BY <2>0, <2>2 DEF Ask, Inv, TypeOK, StartupIsOver, Drains, Active,
         mainVars, requestVars, Call
    <3>4. ExitIsLast' /\ phase' # "exited"
      BY <2>0, <2>2 DEF Ask, Inv, ExitIsLast, mainVars, requestVars
    <3> QED BY <3>1, <3>2, <3>3, <3>4, OpenInv
  <2>3. ASSUME NEW r \in Call, Acquire(r) PROVE Inv'
    <3>1. TypeOK'
      <4>1. state' \in [Call -> {"none", "running", "waiting", "holding", "over"}]
        BY <2>3 DEF Acquire, Inv, TypeOK
      <4>2. UNCHANGED <<phase, result, signal, stopping, server, closed, returning, kind, answer,
                        storage>>
        BY <2>3 DEF Acquire, mainVars
      <4> QED BY <4>1, <4>2 DEF Inv, TypeOK
    <3>2. StartupIsOver'
      BY <2>0, <2>3 DEF Acquire, Inv, TypeOK, StartupIsOver, mainVars, requestVars, Call
    <3>3. Drains'
      BY <2>0, <2>3 DEF Acquire, Inv, TypeOK, StartupIsOver, Drains, Active,
         mainVars, requestVars, Call
    <3>4. ExitIsLast' /\ phase' # "exited"
      BY <2>0, <2>3 DEF Acquire, Inv, ExitIsLast, mainVars, requestVars
    <3> QED BY <3>1, <3>2, <3>3, <3>4, OpenInv
  <2>4. ASSUME NEW r \in Call, Reply(r) \/ Fail(r) \/ Check(r) \/ Serve(r) \/ Drop(r) PROVE Inv'
    <3>1. \E what \in {"answered", "ready", "unready", "dropped"} :
            Finish(r, what)
      BY <2>4 DEF Reply, Fail, Check, Serve, Drop
    <3> QED BY <3>1, <2>0, FinishInv
  <2>5. CASE Return
    <3>1. TypeOK'
      <4>1. returning' \in Nat
        BY <2>5 DEF Return, Inv, TypeOK
      <4>2. UNCHANGED <<phase, result, signal, stopping, server, closed, state, kind, answer, storage>>
        BY <2>5 DEF Return, mainVars
      <4> QED BY <4>1, <4>2 DEF Inv, TypeOK
    <3>2. StartupIsOver'
      BY <2>0, <2>5 DEF Return, Inv, TypeOK, StartupIsOver, mainVars, requestVars, Call
    <3>3. Drains'
      BY <2>0, <2>5 DEF Return, Inv, TypeOK, StartupIsOver, Drains, Active,
         mainVars, requestVars, Call
    <3>4. ExitIsLast' /\ phase' # "exited"
      BY <2>0, <2>5 DEF Return, Inv, ExitIsLast, mainVars, requestVars
    <3> QED BY <3>1, <3>2, <3>3, <3>4, OpenInv
  <2>6. CASE StorageChanges
    <3>1. TypeOK'
      <4>1. storage' \in BOOLEAN
        BY <2>6 DEF StorageChanges
      <4>2. UNCHANGED <<phase, result, signal, stopping, server, closed, returning, state, kind,
                        answer>>
        BY <2>6 DEF StorageChanges, mainVars, requestVars
      <4> QED BY <4>1, <4>2 DEF Inv, TypeOK
    <3>2. StartupIsOver'
      BY <2>0, <2>6 DEF StorageChanges, Inv, TypeOK, StartupIsOver, mainVars, requestVars, Call
    <3>3. Drains'
      BY <2>0, <2>6 DEF StorageChanges, Inv, TypeOK, StartupIsOver, Drains, Active,
         mainVars, requestVars, Call
    <3>4. ExitIsLast' /\ phase' # "exited"
      BY <2>0, <2>6 DEF StorageChanges, Inv, ExitIsLast, mainVars, requestVars
    <3> QED BY <3>1, <3>2, <3>3, <3>4, OpenInv
  <2>7. CASE ServerStops
    <3>1. TypeOK'
      BY <2>0, <2>7 DEF ServerStops, Inv, TypeOK, mainVars, requestVars, Call
    <3>2. StartupIsOver'
      BY <2>0, <2>7 DEF ServerStops, Inv, TypeOK, StartupIsOver, mainVars, requestVars, Call
    <3>3. Drains'
      BY <2>0, <2>7 DEF ServerStops, Inv, TypeOK, StartupIsOver, Drains, Active,
         mainVars, requestVars, Call
    <3>4. ExitIsLast' /\ phase' # "exited"
      BY <2>0, <2>7 DEF ServerStops, Inv, ExitIsLast, mainVars, requestVars
    <3> QED BY <3>1, <3>2, <3>3, <3>4, OpenInv
  <2>8. CASE ServerEnds
    <3>1. TypeOK'
      BY <2>0, <2>8 DEF ServerEnds, Inv, TypeOK, mainVars, requestVars, Call
    <3>2. StartupIsOver'
      BY <2>0, <2>8 DEF ServerEnds, Inv, TypeOK, StartupIsOver, mainVars, requestVars, Call
    <3>3. Drains'
      BY <2>0, <2>8 DEF ServerEnds, Inv, TypeOK, StartupIsOver, Drains, Active,
         mainVars, requestVars, Call
    <3>4. ExitIsLast' /\ phase' # "exited"
      BY <2>0, <2>8 DEF ServerEnds, Inv, ExitIsLast, mainVars, requestVars
    <3> QED BY <3>1, <3>2, <3>3, <3>4, OpenInv
  <2>9. CASE ServerFails
    <3>1. TypeOK'
      BY <2>0, <2>9 DEF ServerFails, Inv, TypeOK, mainVars, requestVars, Call
    <3>2. StartupIsOver'
      BY <2>0, <2>9 DEF ServerFails, Inv, TypeOK, StartupIsOver, mainVars, requestVars, Call
    <3>3. Drains'
      BY <2>0, <2>9 DEF ServerFails, Inv, TypeOK, StartupIsOver, Drains, Active,
         mainVars, requestVars, Call
    <3>4. ExitIsLast' /\ phase' # "exited"
      BY <2>0, <2>9 DEF ServerFails, Inv, ExitIsLast, mainVars, requestVars
    <3> QED BY <3>1, <3>2, <3>3, <3>4, OpenInv
  <2>10. CASE Abandon
    <3>1. TypeOK'
      BY <2>0, <2>10 DEF Abandon, Inv, TypeOK, mainVars, requestVars, Call
    <3>2. StartupIsOver'
      BY <2>0, <2>10 DEF Abandon, Inv, TypeOK, StartupIsOver, mainVars, requestVars, Call
    <3>3. Drains'
      BY <2>0, <2>10 DEF Abandon, Inv, TypeOK, StartupIsOver, Drains, Active,
         mainVars, requestVars, Call
    <3>4. ExitIsLast' /\ phase' # "exited"
      BY <2>0, <2>10 DEF Abandon, Inv, ExitIsLast, mainVars, requestVars
    <3> QED BY <3>1, <3>2, <3>3, <3>4, OpenInv
  <2>11. CASE NoticeFailure
    <3>1. TypeOK'
      BY <2>0, <2>11 DEF NoticeFailure, Inv, TypeOK, mainVars, requestVars, Call
    <3>2. StartupIsOver'
      BY <2>0, <2>11 DEF NoticeFailure, Inv, TypeOK, StartupIsOver, mainVars, requestVars, Call
    <3>3. Drains'
      BY <2>0, <2>11 DEF NoticeFailure, Inv, TypeOK, StartupIsOver, Drains, Active,
         mainVars, requestVars, Call
    <3>4. ExitIsLast' /\ phase' # "exited"
      BY <2>0, <2>11 DEF NoticeFailure, Inv, ExitIsLast, mainVars, requestVars
    <3> QED BY <3>1, <3>2, <3>3, <3>4, OpenInv
  <2>12. ASSUME NEW what \in {"Ok", "Signal"}, Signal(what) PROVE Inv'
    <3>1. TypeOK'
      BY <2>0, <2>12 DEF Signal, Inv, TypeOK, mainVars, requestVars, Call
    <3>2. StartupIsOver'
      BY <2>0, <2>12 DEF Signal, Inv, TypeOK, StartupIsOver, mainVars, requestVars, Call
    <3>3. Drains'
      BY <2>0, <2>12 DEF Signal, Inv, TypeOK, StartupIsOver, Drains, Active,
         mainVars, requestVars, Call
    <3>4. ExitIsLast' /\ phase' # "exited"
      BY <2>0, <2>12 DEF Signal, Inv, ExitIsLast, mainVars, requestVars
    <3> QED BY <3>1, <3>2, <3>3, <3>4, OpenInv
  <2>13. CASE Abandoned \/ Failed \/ Expire
    <3>1. \E what \in {"Storage", "Serving", "Shutdown"} : Exit(what)
      BY <2>13 DEF Abandoned, Failed, Expire
    <3>2. server' = server \/ server' = "aborted"
      BY <2>13 DEF Abandoned, Failed, Expire
    <3> QED BY <3>1, <3>2, <2>0, ExitInv
  <2>14. CASE Listen
    <3>1. CASE /\ phase' = "serving" /\ server' = "accepting" /\ answer[Startup] = "ready"
               /\ phase = "starting"
               /\ UNCHANGED <<result, signal, stopping, closed, requestVars, storage>>
      BY <2>0, <3>1 DEF Inv, TypeOK, StartupIsOver, Drains, ExitIsLast, CleanExit, Active,
         requestVars, Call
    <3>2. CASE (\E what \in {"Discovery", "SystemCreation", "Listener", "Signal"} : Exit(what))
               /\ UNCHANGED server
      BY <3>2, <2>0, ExitInv
    <3> QED BY <2>14, <3>1, <3>2 DEF Listen
  <2>15. CASE Drained
    <3>1. CASE /\ server = "ended" /\ phase = "draining" /\ phase' = "closing" /\ closed' = TRUE
               /\ UNCHANGED <<result, signal, stopping, server, requestVars, storage>>
      BY <2>0, <3>1 DEF Inv, TypeOK, StartupIsOver, Drains, ExitIsLast, CleanExit, Active,
         requestVars, Call
    <3>2. CASE Exit("Serving") /\ UNCHANGED server
      BY <3>2, <2>0, ExitInv
    <3> QED BY <2>15, <3>1, <3>2 DEF Drained
  <2>16. CASE Finished
    <3>1. signal \in {"Ok", "Signal"} \/ signal = None
      BY DEF Inv, TypeOK
    <3>2. CASE signal \in {"Ok", "Signal"}
      BY <3>2, <2>16, <2>0, ExitInv DEF Finished
    <3>3. CASE signal = None
      BY <3>3, <2>16, <2>0, NoneAssumption DEF Finished, Exit, Inv, TypeOK, StartupIsOver, Drains,
         ExitIsLast, CleanExit, Active, Call
    <3> QED BY <3>1, <3>2, <3>3
  <2> QED
    BY <1>2, <2>1, <2>2, <2>3, <2>4, <2>5, <2>6, <2>7, <2>8, <2>9, <2>10, <2>11, <2>12, <2>13, <2>14, <2>15, <2>16
    DEF Next, Handles, Main
<1> QED BY <1>1, <1>2

\* The invariant holds in every reachable state.
THEOREM Invariance == Spec => []Inv
  BY InitInv, StepInv, PTL DEF Spec

\* Type correctness of the serving process.
THEOREM TypeCorrect == Spec => []TypeOK
<1>1. Inv => TypeOK BY DEF Inv
<1> QED BY <1>1, Invariance, PTL

\* serve returns Ok only when every accepted request ran to its end and every
\* connection is back in a closed pool.
THEOREM ExitIsClean == Spec => []CleanExit
<1>1. Inv => CleanExit BY DEF Inv
<1> QED BY <1>1, Invariance, PTL

\* After a signal the pool stays open for every request accepted before it.
THEOREM PoolIsLast == Spec => []PoolOutlivesRequests
<1>1. Inv => PoolOutlivesRequests
  BY DEF Inv, PoolOutlivesRequests, Drains, StartupIsOver, Active, Call
<1> QED BY <1>1, Invariance, PTL
==============================================================================
