------------------------------ MODULE DenialRate ------------------------------
(***************************************************************************)
(* The rate limit on the records of denied mutations: DenialState of       *)
(* authorization.rs.  All handlers of a process share one RateState under  *)
(* a mutex; the clock is read before the mutex is taken, so denials may    *)
(* reach it in another order than the one in which they read the clock.    *)
(* A denial that passes is "granted"; DenialAudit goes on from there.      *)
(***************************************************************************)
EXTENDS Naturals, Sequences, FiniteSets

CONSTANTS
    Proc,           \* server processes
    Denial,         \* denied mutations
    Owner,          \* the process that handles each
    None,           \* Option::None
    MaxPerWindow,   \* DenialLimits.max_per_window
    Window,         \* DenialLimits.window_seconds
    MaxTime,        \* bound on the clock
    MaxRestarts,    \* bound on the restarts
    ClockFaults     \* what else the clock may read: nothing, or another time

ASSUME DenialAssumption ==
    Owner \in [Denial -> Proc] /\ IsFiniteSet(Denial) /\ None \notin Denial
ASSUME RateAssumption == MaxPerWindow \in Nat \ {0} /\ Window \in Nat \ {0}
ASSUME BoundsAssumption ==
    /\ MaxTime \in Nat /\ MaxRestarts \in Nat
    /\ ClockFaults \subseteq (0 .. MaxTime) \cup {None} /\ None \notin Nat

VARIABLES
    time,       \* elapsed time
    restarts,   \* how many restarts there have been
    first,      \* RateState.start of each process
    last,       \* RateState.last
    used,       \* RateState.used
    counts,     \* Counters
    taken,      \* history: the readings at which a process let denials through
    pc,         \* where each denial is in its process
    reading     \* now: what it read from the clock

rate == <<first, last, used, taken>>
rateVars == <<time, restarts, rate, counts, pc, reading>>

Moment == 0 .. MaxTime

Counter == {"retained", "rate_limited", "storage_limited", "storage_busy",
            "storage_failed", "clock_unavailable"}

Zero == [k \in Counter |-> 0]

\* What RateClock::now may return.
Readings == {time} \cup ClockFaults

\* deny returns, having counted what became of the record.
Finish(d, k) ==
    /\ pc' = [pc EXCEPT ![d] = "answered"]
    /\ counts' = [counts EXCEPT ![Owner[d]][k] = @ + 1]

\* The clock is read before the mutex is taken.
ReadClock(d, now) ==
    /\ pc[d] = "idle"
    /\ reading' = [reading EXCEPT ![d] = now]
    /\ IF now = None
       THEN Finish(d, "clock_unavailable")
       ELSE pc' = [pc EXCEPT ![d] = "clocked"] /\ UNCHANGED counts
    /\ UNCHANGED <<time, restarts, rate>>

ClockIsBehind(p, now) == last[p] # None /\ now < last[p]

\* Mutant: the window ends one tick early.
WindowIsOverEarly(p, now) == first[p] = None \/ now + 1 >= first[p] + Window

WindowIsOver(p, now) == first[p] = None \/ now >= first[p] + Window

IsExhausted(spent) == spent >= MaxPerWindow

\* The critical section of take_capacity.
TakeCapacity(d) ==
    LET p == Owner[d]
        now == reading[d]
        spent == IF WindowIsOver(p, now) THEN 0 ELSE used[p]
    IN  /\ pc[d] = "clocked"
        /\ \/ /\ ClockIsBehind(p, now)
              /\ Finish(d, "clock_unavailable")
              /\ UNCHANGED rate
           \/ /\ ~ClockIsBehind(p, now)
              /\ last' = [last EXCEPT ![p] = now]
              /\ first' = [first EXCEPT ![p] = IF WindowIsOver(p, now) THEN now ELSE @]
              /\ \/ /\ IsExhausted(spent)
                    /\ used' = [used EXCEPT ![p] = spent]
                    /\ Finish(d, "rate_limited")
                    /\ UNCHANGED taken
                 \/ /\ ~IsExhausted(spent)
                    /\ used' = [used EXCEPT ![p] = spent + 1]
                    /\ taken' = [taken EXCEPT ![p] = Append(@, now)]
                    /\ pc' = [pc EXCEPT ![d] = "granted"]
                    /\ UNCHANGED counts
        /\ UNCHANGED <<time, restarts, reading>>

\* The process and all it keeps in memory are replaced.
Restart(p) ==
    /\ restarts < MaxRestarts
    /\ restarts' = restarts + 1
    /\ first' = [first EXCEPT ![p] = None]
    /\ last' = [last EXCEPT ![p] = None]
    /\ used' = [used EXCEPT ![p] = 0]
    /\ taken' = [taken EXCEPT ![p] = << >>]
    /\ counts' = [counts EXCEPT ![p] = Zero]
    /\ pc' = [d \in Denial |-> IF Owner[d] = p /\ pc[d] # "idle" THEN "dropped" ELSE pc[d]]
    /\ UNCHANGED <<time, reading>>

Tick ==
    /\ time < MaxTime
    /\ time' = time + 1
    /\ UNCHANGED <<restarts, rate, counts, pc, reading>>

RateInit ==
    /\ time = 0 /\ restarts = 0
    /\ first = [p \in Proc |-> None] /\ last = [p \in Proc |-> None]
    /\ used = [p \in Proc |-> 0] /\ taken = [p \in Proc |-> << >>]
    /\ counts = [p \in Proc |-> Zero]
    /\ pc = [d \in Denial |-> "idle"] /\ reading = [d \in Denial |-> None]

\* The synchronous part of deny for d.
Screen(d) == (\E now \in Readings : ReadClock(d, now)) \/ TakeCapacity(d)

-----------------------------------------------------------------------------
(* Properties.                                                             *)

\* Types of RateState and Counters.
RateTypeOK ==
    /\ time \in Moment /\ restarts \in 0 .. MaxRestarts
    /\ first \in [Proc -> Moment \cup {None}]
    /\ last \in [Proc -> Moment \cup {None}]
    /\ used \in [Proc -> 0 .. MaxPerWindow]
    /\ counts \in [Proc -> [Counter -> Nat]]
    /\ taken \in [Proc -> Seq(Moment)]
    /\ pc \in [Denial -> {"idle", "clocked", "granted", "locked", "room",
                          "committing", "answered", "dropped"}]
    /\ reading \in [Denial -> Moment \cup {None}]

\* docs/authorization.md, the rate of a process: at most MaxPerWindow denials
\* pass at one reading, and at most twice that in any span of Window.
RateBounded ==
    \A p \in Proc : \A i, j \in 1 .. Len(taken[p]) :
        /\ j = i + MaxPerWindow => taken[p][j] > taken[p][i]
        /\ j = i + 2 * MaxPerWindow => taken[p][j] > taken[p][i] + Window
===============================================================================
