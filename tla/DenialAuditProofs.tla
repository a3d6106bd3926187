-------------------------- MODULE DenialAuditProofs --------------------------
(***************************************************************************)
(* Proofs about DenialAudit, for any number of processes, denials and      *)
(* restarts and any limits: its types, the cap on the rows, the bound on   *)
(* the rate and what the counters say.                                     *)
(***************************************************************************)
EXTENDS DenialAudit, FiniteSetTheorems, TLAPS

\* A denial enters the critical section with a reading.
HasRead == \A d \in Denial : pc[d] = "clocked" => reading[d] # None

\* A denial awaits COMMIT only once its transaction has found something.
HasFound == \A d \in Denial : pc[d] = "committing" => outcome[d] \in Counter

TypeInv == TypeOK /\ HasRead /\ HasFound

\* Incrementing one counter of one process.
LEMMA CountTypes ==
    ASSUME counts \in [Proc -> [Counter -> Nat]], NEW d \in Denial, NEW k \in Counter,
           Finish(d, k)
    PROVE  counts' \in [Proc -> [Counter -> Nat]]
<1> DEFINE p == Owner[d]
           new == [counts[p] EXCEPT ![k] = @ + 1]
<1>1. p \in Proc
    BY DenialAssumption
<1>2. counts[p] \in [Counter -> Nat]
    BY <1>1
<1>3. new \in [Counter -> Nat]
    BY <1>2
<1>4. counts' = [counts EXCEPT ![p] = new]
    BY <1>1, <1>2 DEF Finish
<1> QED BY <1>1, <1>3, <1>4

\* What the screening of a denial keeps of the types.
LEMMA ScreenTypes ==
    ASSUME TypeInv, NEW d \in Denial, Screen(d)
    PROVE  RateTypeOK' /\ HasRead' /\ \A e \in Denial : pc'[e] = "committing" => pc[e] = "committing"
<1> USE BoundsAssumption, DenialAssumption, RateAssumption DEF TypeInv, TypeOK, RateTypeOK, HasRead, Moment
<1>1. CASE \E now \in Readings : ReadClock(d, now)
    <2>1. PICK now \in Readings : ReadClock(d, now)
        BY <1>1
    <2>2. now \in Moment \cup {None}
        BY DEF Readings
    <2>3. /\ pc' \in [Denial -> {"idle", "clocked", "granted", "locked", "room",
                                 "committing", "answered", "dropped"}]
          /\ reading' \in [Denial -> Moment \cup {None}]
          /\ HasRead'
          /\ \A e \in Denial : pc'[e] = "committing" => pc[e] = "committing"
        BY <2>1, <2>2, ZenonT(60) DEF ReadClock, Finish
    <2>4. counts' \in [Proc -> [Counter -> Nat]]
        BY <2>1, CountTypes DEF ReadClock, Counter
    <2> QED BY <2>1, <2>3, <2>4 DEF ReadClock, rate
<1>2. CASE TakeCapacity(d)
    <2> DEFINE p == Owner[d]
               now == reading[d]
               spent == IF WindowIsOver(p, now) THEN 0 ELSE used[p]
    <2>1. p \in Proc /\ now \in Moment
        BY <1>2 DEF TakeCapacity
    <2>2. spent \in 0 .. MaxPerWindow
        BY <2>1
    <2>3. CASE ClockIsBehind(p, now)
        <3>1. Finish(d, "clock_unavailable") /\ UNCHANGED <<time, restarts, rate, reading>>
            BY <1>2, <2>3 DEF TakeCapacity
        <3>2. counts' \in [Proc -> [Counter -> Nat]]
            BY <3>1, CountTypes DEF Counter
        <3> QED BY <2>1, <3>1, <3>2 DEF Finish, rate
    <2>4. ASSUME ~ClockIsBehind(p, now)
          PROVE  /\ last' \in [Proc -> Moment \cup {None}]
                 /\ first' \in [Proc -> Moment \cup {None}]
                 /\ UNCHANGED <<time, restarts, reading>>
        <3>1. /\ last' = [last EXCEPT ![p] = now]
              /\ first' = [first EXCEPT ![p] = IF WindowIsOver(p, now) THEN now ELSE first[p]]
              /\ UNCHANGED <<time, restarts, reading>>
            BY <1>2, <2>4 DEF TakeCapacity
        <3>2. (IF WindowIsOver(p, now) THEN now ELSE first[p]) \in Moment \cup {None}
            BY <2>1
        <3> QED BY <2>1, <3>1, <3>2
    <2>5. CASE ~ClockIsBehind(p, now) /\ IsExhausted(spent)
        <3>1. /\ used' = [used EXCEPT ![p] = spent]
              /\ Finish(d, "rate_limited")
              /\ UNCHANGED taken
            BY <1>2, <2>5 DEF TakeCapacity
        <3>2. counts' \in [Proc -> [Counter -> Nat]]
            BY <3>1, CountTypes DEF Counter
        <3>3. used' \in [Proc -> 0 .. MaxPerWindow]
            BY <2>1, <2>2, <3>1
        <3> QED BY <2>4, <2>5, <3>1, <3>2, <3>3 DEF Finish
    <2>6. CASE ~ClockIsBehind(p, now) /\ ~IsExhausted(spent)
        <3>1. /\ used' = [used EXCEPT ![p] = spent + 1]
              /\ taken' = [taken EXCEPT ![p] = Append(@, now)]
              /\ pc' = [pc EXCEPT ![d] = "granted"]
              /\ UNCHANGED counts
            BY <1>2, <2>6 DEF TakeCapacity
        <3>2. spent + 1 \in 0 .. MaxPerWindow
            BY <2>2, <2>6 DEF IsExhausted
        <3>3. used' \in [Proc -> 0 .. MaxPerWindow]
            BY <2>1, <3>1, <3>2
        <3>4. Append(taken[p], now) \in Seq(Moment)
            BY <2>1
        <3>5. taken' \in [Proc -> Seq(Moment)]
            BY <2>1, <3>1, <3>4
        <3> QED BY <2>4, <2>6, <3>1, <3>3, <3>5
    <2> QED BY <2>3, <2>5, <2>6
<1> QED BY <1>1, <1>2 DEF Screen

\* The types of DenialAudit are kept by every step.
LEMMA TypeStep == TypeInv /\ [Next]_vars => TypeInv'
<1> SUFFICES ASSUME TypeInv, [Next]_vars PROVE TypeInv'
    OBVIOUS
<1> USE BoundsAssumption, DenialAssumption DEF TypeInv, TypeOK, RateTypeOK, HasRead, HasFound
<1>1. ASSUME NEW d \in Denial, Screen(d), UNCHANGED database PROVE TypeInv'
    <2>1. /\ RateTypeOK' /\ HasRead'
          /\ \A e \in Denial : pc'[e] = "committing" => pc[e] = "committing"
        BY ScreenTypes, <1>1
    <2> QED BY <2>1, <1>1 DEF database
<1>0. ASSUME NEW d \in Denial, NEW k \in Counter, Found(d, k),
             UNCHANGED <<time, restarts, rate, counts, reading, holder, rows>>
      PROVE  TypeInv'
    BY <1>0 DEF Found, rate
<1>2. ASSUME NEW d \in Denial, TryLock(d) PROVE TypeInv'
    <2>1. CASE LockIsFree
        <3>1. /\ holder' = d
              /\ pc' = [pc EXCEPT ![d] = "locked"]
              /\ tx' = [tx EXCEPT ![d] = "open"]
              /\ UNCHANGED <<time, restarts, rate, counts, reading, outcome, rows>>
            BY <1>2, <2>1 DEF TryLock
        <3> QED BY <3>1 DEF rate
    <2>2. CASE ~LockIsFree
        BY <1>0, <1>2, <2>2 DEF TryLock, Counter
    <2> QED BY <2>1, <2>2
<1>3. ASSUME NEW d \in Denial, CountRows(d) PROVE TypeInv'
    <2>1. CASE CapIsReached
        BY <1>0, <1>3, <2>1 DEF CountRows, Counter
    <2>2. CASE ~CapIsReached
        BY <1>3, <2>2, ZenonT(60) DEF CountRows, rate
    <2> QED BY <2>1, <2>2
<1>4. ASSUME NEW d \in Denial, Insert(d) PROVE TypeInv'
    BY <1>0, <1>4 DEF Insert, Counter
<1>5. ASSUME NEW d \in Denial, NEW k \in Counter, Finish(d, k),
             UNCHANGED <<time, restarts, rate, reading, database>>
      PROVE  TypeInv'
    <2>1. counts' \in [Proc -> [Counter -> Nat]]
        BY <1>5, CountTypes
    <2> QED BY <1>5, <2>1 DEF Finish, rate, database
<1>6. ASSUME NEW d \in Denial, Receive(d) PROVE TypeInv'
    BY <1>5, <1>6 DEF Receive
<1>7. ASSUME NEW d \in Denial, Fail(d) PROVE TypeInv'
    BY <1>5, <1>7 DEF Fail, Counter
<1>8. ASSUME NEW d \in Denial, Cancel(d) PROVE TypeInv'
    BY <1>8 DEF Cancel, rate, database
<1>9. ASSUME NEW d \in Denial, ServerCommit(d) \/ ServerAbort(d) PROVE TypeInv'
    <2>1. /\ UNCHANGED <<time, restarts, rate, counts, pc, reading, outcome>>
          /\ rows' \in SUBSET Denial /\ holder' \in Denial \cup {None}
        BY <1>9 DEF ServerCommit, ServerAbort, Unlocked
    <2>2. tx' \in [Denial -> {"none", "open", "sent", "committed", "aborted"}]
        BY <1>9 DEF ServerCommit, ServerAbort
    <2> QED BY <2>1, <2>2 DEF rate
<1>10. ASSUME NEW p \in Proc, Restart(p), UNCHANGED database PROVE TypeInv'
    <2>1. Zero \in [Counter -> Nat]
        BY DEF Zero
    <2>2. counts' \in [Proc -> [Counter -> Nat]]
        BY <1>10, <2>1 DEF Restart
    <2>3. taken' \in [Proc -> Seq(Moment)]
        BY <1>10 DEF Restart
    <2>4. /\ used' \in [Proc -> 0 .. MaxPerWindow]
          /\ first' \in [Proc -> Moment \cup {None}]
          /\ last' \in [Proc -> Moment \cup {None}]
          /\ restarts' \in 0 .. MaxRestarts
        BY <1>10, RateAssumption DEF Restart
    <2> QED BY <1>10, <2>2, <2>3, <2>4 DEF Restart, database
<1>11. ASSUME Tick, UNCHANGED database PROVE TypeInv'
    BY <1>11 DEF Tick, rate, database, Moment
<1>12. ASSUME UNCHANGED vars PROVE TypeInv'
    BY <1>12 DEF vars, rateVars, rate, database
<1> QED
    BY <1>1, <1>2, <1>3, <1>4, <1>6, <1>7, <1>8, <1>9, <1>10, <1>11, <1>12
    DEF Next, Proceeds

\* The initial states have their types.
LEMMA TypeInit == Init => TypeInv
<1>1. Zero \in [Counter -> Nat]
    BY DEF Zero
<1> QED BY <1>1, BoundsAssumption, RateAssumption
        DEF Init, RateInit, TypeInv, TypeOK, RateTypeOK, HasRead, HasFound, Moment

\* RateState, the counters and the locals of deny always have their types.
THEOREM TypeCorrect == Spec => []TypeOK
<1>1. TypeInv => TypeOK
    BY DEF TypeInv
<1> QED BY <1>1, TypeInit, TypeStep, PTL DEF Spec

-----------------------------------------------------------------------------
(* The cap.                                                                *)

\* d may still add a row: its transaction has the lock and is not over.
Claims(d) ==
    \/ tx[d] = "open"
    \/ tx[d] = "sent" /\ outcome[d] \in {"retained", "storage_limited"}

\* Only the holder of the lock claims a row, a denial has no transaction until
\* it asks for the lock, and what the holder counted is not stale: nobody else
\* can have added a row since.
StoreInv ==
    /\ \A d \in Denial : Claims(d) => holder = d
    /\ \A d \in Denial : pc[d] \in {"idle", "clocked", "granted"} => tx[d] = "none"
    /\ \A d \in Denial :
          \/ pc[d] = "room" /\ tx[d] = "open"
          \/ tx[d] = "sent" /\ outcome[d] = "retained"
          => Cardinality(rows) < MaxRecords
    /\ RowCap

\* Steps that leave the database alone keep StoreInv, if they give no denial
\* that has a transaction new rights.
LEMMA StoreKept ==
    ASSUME StoreInv, UNCHANGED database,
           \A d \in Denial :
              /\ pc'[d] = "room" => pc[d] = "room"
              /\ pc'[d] \in {"idle", "clocked", "granted"}
                    => pc[d] \in {"idle", "clocked", "granted"}
    PROVE  StoreInv'
BY DEF StoreInv, Claims, database, RowCap

\* Every step keeps StoreInv.
LEMMA StoreStep == TypeInv /\ StoreInv /\ [Next]_vars => StoreInv'
<1> SUFFICES ASSUME TypeInv, StoreInv, [Next]_vars PROVE StoreInv'
    OBVIOUS
<1> USE DEF TypeInv, TypeOK, RateTypeOK
<1>1. ASSUME NEW d \in Denial, Screen(d), UNCHANGED database PROVE StoreInv'
    <2>1. CASE \E now \in Readings : ReadClock(d, now)
        BY <1>1, <2>1, StoreKept DEF ReadClock, Finish
    <2>2. CASE TakeCapacity(d)
        BY <1>1, <2>2, StoreKept DEF TakeCapacity, Finish
    <2> QED BY <1>1, <2>1, <2>2 DEF Screen
<1>2. ASSUME NEW d \in Denial, TryLock(d) PROVE StoreInv'
    <2>1. CASE LockIsFree
        <3>1. \A e \in Denial : ~Claims(e)
            BY <2>1, DenialAssumption DEF StoreInv, LockIsFree
        <3> QED BY <1>2, <2>1, <3>1 DEF TryLock, StoreInv, Claims, RowCap
    <2>2. CASE ~LockIsFree
        BY <1>2, <2>2, ZenonT(60) DEF TryLock, Found, StoreInv, Claims, RowCap
    <2> QED BY <2>1, <2>2
<1>3. ASSUME NEW d \in Denial, CountRows(d) PROVE StoreInv'
    <2>1. Cardinality(rows) \in Nat
        BY FS_Subset, FS_CardinalityType, DenialAssumption
    <2>2. holder = d
        BY <1>3 DEF CountRows, StoreInv, Claims
    <2>3. CASE CapIsReached
        BY <1>3, <2>2, <2>3 DEF CountRows, Found, StoreInv, Claims, RowCap
    <2>4. CASE ~CapIsReached
        <3>1. Cardinality(rows) < MaxRecords
            BY <2>1, <2>4, RecordsAssumption DEF CapIsReached
        <3> QED BY <1>3, <2>2, <2>4, <3>1 DEF CountRows, StoreInv, Claims, RowCap
    <2> QED BY <2>3, <2>4
<1>4. ASSUME NEW d \in Denial, Insert(d) PROVE StoreInv'
    BY <1>4 DEF Insert, Found, StoreInv, Claims, RowCap
<1>5. ASSUME NEW d \in Denial, Receive(d) \/ Fail(d) \/ Cancel(d) PROVE StoreInv'
    BY <1>5, StoreKept DEF Receive, Fail, Cancel, Finish
<1>6. ASSUME NEW d \in Denial, ServerCommit(d) PROVE StoreInv'
    <2>1. CASE outcome[d] = "retained"
        <3>1. holder = d /\ Cardinality(rows) < MaxRecords
            BY <1>6, <2>1 DEF ServerCommit, StoreInv, Claims
        <3>2. \A e \in Denial \ {d} : ~Claims(e)
            BY <3>1 DEF StoreInv
        <3>3. rows' = rows \cup {d} /\ IsFiniteSet(rows)
            BY <1>6, <2>1, FS_Subset, DenialAssumption DEF ServerCommit
        <3> DEFINE before == Cardinality(rows)
                   after == Cardinality(rows \cup {d})
        <3>4. after = IF d \in rows THEN before ELSE before + 1
            BY <3>3, FS_AddElement
        <3>5. before \in Nat
            BY <3>3, FS_CardinalityType
        <3> HIDE DEF before, after
        <3>6. before < MaxRecords
            BY <3>1 DEF before
        <3>7. after <= MaxRecords
            BY <3>4, <3>5, <3>6, RecordsAssumption
        <3>8. RowCap'
            BY <3>3, <3>7 DEF RowCap, after
        <3> QED BY <1>6, <3>1, <3>2, <3>8 DEF ServerCommit, StoreInv, Claims
    <2>2. CASE outcome[d] # "retained"
        BY <1>6, <2>2 DEF ServerCommit, StoreInv, Claims, Unlocked, RowCap
    <2> QED BY <2>1, <2>2
<1>7. ASSUME NEW d \in Denial, ServerAbort(d) PROVE StoreInv'
    BY <1>7 DEF ServerAbort, StoreInv, Claims, Unlocked, RowCap
<1>8. ASSUME NEW p \in Proc, Restart(p), UNCHANGED database PROVE StoreInv'
    BY <1>8, StoreKept DEF Restart
<1>9. CASE Tick /\ UNCHANGED database
    BY <1>9, StoreKept DEF Tick
<1>10. CASE UNCHANGED vars
    BY <1>10, StoreKept DEF vars, rateVars
<1> QED
    BY <1>1, <1>2, <1>3, <1>4, <1>5, <1>6, <1>7, <1>8, <1>9, <1>10 DEF Next, Proceeds

\* docs/authorization.md: the retained-denial row cap is database-wide, for any
\* number of processes and whatever becomes of their futures and connections.
THEOREM RowsAreCapped == Spec => []RowCap
<1>1. Init => StoreInv
    <2>1. Cardinality({}) = 0
        BY FS_EmptySet
    <2> QED BY <2>1, RecordsAssumption DEF Init, RateInit, StoreInv, Claims, RowCap
<1>2. StoreInv => RowCap
    BY DEF StoreInv
<1> QED BY <1>1, <1>2, TypeInit, TypeStep, StoreStep, PTL DEF Spec

-----------------------------------------------------------------------------
(* The rate.                                                               *)

\* What RateState remembers of the readings s: the last u belong to the window
\* that starts at f, the others lie before it, and those that are MaxPerWindow
\* further back lie a whole window before it; none is after l.
InWindows(s, u, f, l) ==
    /\ u <= Len(s)
    /\ \A i \in 1 .. Len(s) :
          /\ s[i] <= l
          /\ i > Len(s) - u => f <= s[i] /\ s[i] < f + Window
          /\ i <= Len(s) - u => s[i] < f
          /\ i + MaxPerWindow <= Len(s) - u => s[i] + Window < f

\* RateBounded, for the readings of one process.
Spaced(s) ==
    \A i, j \in 1 .. Len(s) :
        /\ j = i + MaxPerWindow => s[j] > s[i]
        /\ j = i + 2 * MaxPerWindow => s[j] > s[i] + Window

\* RateState of p is as it was made, or knows the last window.
Known(p) ==
    \/ first[p] = None /\ last[p] = None /\ used[p] = 0 /\ taken[p] = << >>
    \/ /\ first[p] # None /\ last[p] # None /\ first[p] <= last[p]
       /\ InWindows(taken[p], used[p], first[p], last[p])
       /\ Spaced(taken[p])

RateInv == \A p \in Proc : Known(p)

\* Letting one more denial through keeps the windows of its process.
LEMMA TakeKeepsWindows ==
    ASSUME NEW s \in Seq(Nat), NEW u \in Nat, NEW f \in Nat, NEW l \in Nat,
           NEW now \in Nat, NEW v \in Nat, NEW g \in Nat,
           u <= MaxPerWindow, l <= now, f <= now,
           InWindows(s, u, f, l), Spaced(s),
           \/ now >= f + Window /\ g = now /\ v = 1
           \/ now < f + Window /\ g = f /\ v = u + 1 /\ u < MaxPerWindow
    PROVE  InWindows(Append(s, now), v, g, now) /\ Spaced(Append(s, now))
<1> USE RateAssumption
<1> DEFINE n == Len(s)
           t == Append(s, now)
<1>1. /\ n \in Nat /\ Len(t) = n + 1
      /\ \A i \in 1 .. n : t[i] = s[i] /\ s[i] \in Nat
      /\ t[n + 1] = now
    OBVIOUS
<1>2. \A i \in 1 .. n :
        /\ s[i] <= l
        /\ i > n - u => f <= s[i] /\ s[i] < f + Window
        /\ i <= n - u => s[i] < f
        /\ i + MaxPerWindow <= n - u => s[i] + Window < f
    BY DEF InWindows
<1> HIDE DEF n, t
<1>3. ASSUME NEW i \in 1 .. n + 1
      PROVE  /\ t[i] <= now
             /\ i > n + 1 - v => g <= t[i] /\ t[i] < g + Window
             /\ i <= n + 1 - v => t[i] < g
             /\ i + MaxPerWindow <= n + 1 - v => t[i] + Window < g
    <2>1. CASE i = n + 1
        BY <1>1, <2>1
    <2>2. CASE i \in 1 .. n
        <3>1. /\ t[i] = s[i] /\ s[i] \in Nat /\ s[i] <= l
              /\ i > n - u => f <= s[i] /\ s[i] < f + Window
              /\ i <= n - u => s[i] < f
              /\ i + MaxPerWindow <= n - u => s[i] + Window < f
            BY <1>1, <1>2, <2>2
        <3>2. CASE now >= f + Window /\ g = now /\ v = 1
            <4>1. i > n - u \/ i <= n - u
                BY <1>1
            <4>2. s[i] < f + Window
                BY <3>1, <4>1
            <4>3. i + MaxPerWindow <= n => i <= n - u
                BY <1>1
            <4>4. i + MaxPerWindow <= n => s[i] + Window < f + Window
                BY <3>1, <4>3
            <4> QED BY <1>1, <2>2, <3>1, <3>2, <4>2, <4>4
        <3>3. CASE now < f + Window /\ g = f /\ v = u + 1 /\ u < MaxPerWindow
            BY <1>1, <2>2, <3>1, <3>3
        <3> QED BY <3>2, <3>3
    <2> QED BY <1>1, <2>1, <2>2
<1>4. ASSUME NEW i \in 1 .. n + 1, NEW j \in 1 .. n + 1
      PROVE  /\ j = i + MaxPerWindow => t[j] > t[i]
             /\ j = i + 2 * MaxPerWindow => t[j] > t[i] + Window
    <2>1. CASE j \in 1 .. n
        <3>1. CASE i \in 1 .. n
            <4>1. /\ j = i + MaxPerWindow => s[j] > s[i]
                  /\ j = i + 2 * MaxPerWindow => s[j] > s[i] + Window
                BY <2>1, <3>1 DEF n, Spaced
            <4> QED BY <1>1, <2>1, <3>1, <4>1
        <3>2. CASE i = n + 1
            BY <1>1, <2>1, <3>2
        <3> QED BY <1>1, <3>1, <3>2
    <2>2. CASE j = n + 1
        <3>1. v <= MaxPerWindow /\ g <= now
            OBVIOUS
        <3>2. /\ t[j] = now /\ t[i] \in Nat
              /\ i <= n + 1 - v => t[i] < g
              /\ i + MaxPerWindow <= n + 1 - v => t[i] + Window < g
            BY <1>1, <1>3, <2>2
        <3> QED BY <1>1, <2>2, <3>1, <3>2
    <2> QED BY <1>1, <2>1, <2>2
<1>5. v <= n + 1
    BY <1>1 DEF n, InWindows
<1>6. InWindows(t, v, g, now) /\ Spaced(t)
    BY <1>1, <1>3, <1>4, <1>5 DEF InWindows, Spaced
<1> QED BY <1>6 DEF t

\* The critical section keeps RateInv.
LEMMA TakeStep ==
    ASSUME TypeInv, RateInv, NEW d \in Denial, TakeCapacity(d),
           NEW p \in Proc, NEW now \in Moment, NEW spent \in Nat,
           p = Owner[d], now = reading[d],
           spent = IF WindowIsOver(p, now) THEN 0 ELSE used[p]
    PROVE  RateInv'
<1> USE BoundsAssumption, DenialAssumption, RateAssumption
<1>1. CASE ClockIsBehind(p, now)
    BY <1>1 DEF TakeCapacity, RateInv, Known, rate
<1>2. ASSUME ~ClockIsBehind(p, now)
      PROVE  /\ last'[p] = now
             /\ first'[p] = IF WindowIsOver(p, now) THEN now ELSE first[p]
             /\ \A q \in Proc \ {p} : last'[q] = last[q] /\ first'[q] = first[q]
    BY <1>2 DEF TakeCapacity, TypeInv, TypeOK, RateTypeOK
<1>3. ASSUME NEW q \in Proc \ {p}, taken'[q] = taken[q], used'[q] = used[q],
             ~ClockIsBehind(p, now)
      PROVE  Known(q)'
    BY <1>2, <1>3 DEF RateInv, Known
<1>4. /\ taken[p] \in Seq(Moment) /\ used[p] \in 0 .. MaxPerWindow
      /\ first[p] \in Moment \cup {None} /\ last[p] \in Moment \cup {None}
      /\ now \in Nat /\ now # None
    BY DEF TypeInv, TypeOK, RateTypeOK, Moment
<1>5. Known(p)
    BY DEF RateInv
<1>6. CASE ~ClockIsBehind(p, now) /\ IsExhausted(spent)
    <2>1. /\ taken' = taken
          /\ used' = [used EXCEPT ![p] = spent]
        BY <1>6 DEF TakeCapacity
    <2>2. ~WindowIsOver(p, now)
        BY <1>6 DEF IsExhausted
    <2>3. /\ taken'[p] = taken[p] /\ used'[p] = used[p] /\ first'[p] = first[p]
          /\ last'[p] = now
          /\ \A q \in Proc \ {p} : used'[q] = used[q]
        BY <1>2, <1>6, <2>1, <2>2 DEF TypeInv, TypeOK, RateTypeOK
    <2>4. /\ first[p] \in Nat /\ last[p] \in Nat /\ last[p] <= now /\ first[p] <= last[p]
          /\ InWindows(taken[p], used[p], first[p], last[p]) /\ Spaced(taken[p])
        BY <1>4, <1>5, <1>6, <2>2 DEF ClockIsBehind, WindowIsOver, Known, Moment
    <2>5. \A i \in 1 .. Len(taken[p]) : taken[p][i] \in Nat
        BY <1>4 DEF Moment
    <2>6. InWindows(taken[p], used[p], first[p], now)
        BY <1>4, <2>4, <2>5 DEF InWindows
    <2>7. Known(p)'
        BY <1>4, <2>3, <2>4, <2>6 DEF Known
    <2> QED BY <1>3, <1>6, <2>1, <2>3, <2>7 DEF RateInv
<1>7. CASE ~ClockIsBehind(p, now) /\ ~IsExhausted(spent)
    <2>1. /\ taken' = [taken EXCEPT ![p] = Append(@, now)]
          /\ used' = [used EXCEPT ![p] = spent + 1]
        BY <1>7 DEF TakeCapacity
    <2>2. /\ taken'[p] = Append(taken[p], now) /\ used'[p] = spent + 1 /\ last'[p] = now
          /\ \A q \in Proc \ {p} : taken'[q] = taken[q] /\ used'[q] = used[q]
        BY <1>2, <1>7, <2>1 DEF TypeInv, TypeOK, RateTypeOK
    <2>3. ASSUME first[p] = None PROVE Known(p)'
        <3>1. taken[p] = << >> /\ spent = 0
            BY <1>5, <2>3 DEF Known, WindowIsOver
        <3>2. taken'[p] = <<now>> /\ used'[p] = 1 /\ first'[p] = now
            BY <1>2, <1>7, <2>2, <2>3, <3>1 DEF WindowIsOver
        <3>3. Len(<<now>>) = 1 /\ <<now>>[1] = now
            BY <1>4
        <3>4. InWindows(<<now>>, 1, now, now) /\ Spaced(<<now>>)
            BY <1>4, <3>3 DEF InWindows, Spaced
        <3> QED BY <1>4, <2>2, <3>2, <3>4 DEF Known
    <2>4. ASSUME first[p] # None PROVE Known(p)'
        <3>1. /\ first[p] \in Nat /\ last[p] \in Nat /\ taken[p] \in Seq(Nat)
              /\ last[p] <= now /\ first[p] <= now
              /\ InWindows(taken[p], used[p], first[p], last[p]) /\ Spaced(taken[p])
            BY <1>4, <1>5, <1>7, <2>4 DEF ClockIsBehind, Known, Moment
        <3>2. \/ now >= first[p] + Window /\ first'[p] = now /\ used'[p] = 1
              \/ /\ now < first[p] + Window /\ first'[p] = first[p]
                 /\ used'[p] = used[p] + 1 /\ used[p] < MaxPerWindow
            BY <1>2, <1>4, <1>7, <2>2, <2>4, <3>1 DEF WindowIsOver, IsExhausted
        <3>3. /\ used[p] \in Nat /\ used[p] <= MaxPerWindow
              /\ first'[p] \in Nat /\ used'[p] \in Nat /\ first'[p] <= now
            BY <1>4, <3>1, <3>2
        <3>4. /\ InWindows(Append(taken[p], now), used'[p], first'[p], now)
              /\ Spaced(Append(taken[p], now))
            BY <1>4, <3>1, <3>2, <3>3, TakeKeepsWindows, ZenonT(60)
        <3> QED BY <1>4, <2>2, <3>3, <3>4 DEF Known
    <2> QED BY <1>3, <1>7, <2>2, <2>3, <2>4 DEF RateInv
<1> QED BY <1>1, <1>6, <1>7

\* Every step keeps RateInv.
LEMMA RateStep == TypeInv /\ RateInv /\ [Next]_vars => RateInv'
<1> SUFFICES ASSUME TypeInv, RateInv, [Next]_vars PROVE RateInv'
    OBVIOUS
<1> USE BoundsAssumption, DenialAssumption, RateAssumption
<1>1. ASSUME UNCHANGED rate PROVE RateInv'
    BY <1>1 DEF RateInv, Known, rate
<1>2. ASSUME NEW p \in Proc, Restart(p) PROVE RateInv'
    <2>1. ASSUME NEW q \in Proc \ {p}
          PROVE  /\ taken'[q] = taken[q] /\ used'[q] = used[q]
                 /\ first'[q] = first[q] /\ last'[q] = last[q]
        BY <1>2 DEF Restart, TypeInv, TypeOK, RateTypeOK
    <2>2. taken'[p] = << >> /\ used'[p] = 0 /\ first'[p] = None /\ last'[p] = None
        BY <1>2 DEF Restart, TypeInv, TypeOK, RateTypeOK
    <2>3. ASSUME NEW q \in Proc \ {p} PROVE Known(q)'
        BY <2>1 DEF RateInv, Known
    <2>4. Known(p)'
        BY <2>2 DEF Known
    <2> QED BY <2>3, <2>4 DEF RateInv
<1>3. ASSUME NEW d \in Denial, TakeCapacity(d) PROVE RateInv'
    <2>1. Owner[d] \in Proc /\ reading[d] \in Moment
        BY <1>3 DEF TakeCapacity, TypeInv, TypeOK, RateTypeOK, HasRead
    <2>2. (IF WindowIsOver(Owner[d], reading[d]) THEN 0 ELSE used[Owner[d]]) \in Nat
        BY <2>1 DEF TypeInv, TypeOK, RateTypeOK
    <2> QED BY <1>3, <2>1, <2>2, TakeStep
<1>4. ASSUME NEW d \in Denial, NEW now, ReadClock(d, now) PROVE RateInv'
    BY <1>1, <1>4 DEF ReadClock
<1>5. ASSUME NEW d \in Denial, Proceeds(d) \/ Cancel(d) \/ ServerCommit(d) \/ ServerAbort(d)
      PROVE  RateInv'
    BY <1>1, <1>5
    DEF Proceeds, Cancel, ServerCommit, ServerAbort, TryLock, CountRows, Insert, Receive, Fail
<1>6. CASE Tick
    BY <1>1, <1>6 DEF Tick
<1>7. CASE UNCHANGED vars
    BY <1>1, <1>7 DEF vars, rateVars
<1> QED BY <1>2, <1>3, <1>4, <1>5, <1>6, <1>7 DEF Next, Screen

\* docs/authorization.md, "attempts per process window": whatever the clock
\* reads and in whatever order the readings reach the mutex, a process passes at
\* most MaxPerWindow denials at one reading and twice that in a span of Window.
THEOREM RateIsBounded == Spec => []RateBounded
<1>1. Init => RateInv
    BY DEF Init, RateInit, RateInv, Known
<1>2. TypeInv /\ RateInv => RateBounded
    BY DEF RateInv, Known, Spaced, RateBounded
<1> QED BY <1>1, <1>2, TypeInit, TypeStep, RateStep, PTL DEF Spec
-----------------------------------------------------------------------------
(* The counters.                                                           *)

\* What one set of counters adds up to.
Total(f) ==
    f["retained"] + f["rate_limited"] + f["storage_limited"]
        + f["storage_busy"] + f["storage_failed"] + f["clock_unavailable"]

\* The element a sum takes first.
Pick(s) == CHOOSE y \in s : TRUE

\* There are six counters.
LEMMA SixCounters == IsFiniteSet(Counter) /\ Cardinality(Counter) = 6
<1> DEFINE two == {"retained", "rate_limited"}
           four == two \cup {"storage_limited"} \cup {"storage_busy"}
<1>1. IsFiniteSet({}) /\ Cardinality({}) = 0
    BY FS_EmptySet
<1>2. IsFiniteSet({"retained"}) /\ Cardinality({"retained"}) = 1
    BY FS_Singleton
<1>3. two = {"retained"} \cup {"rate_limited"} /\ "rate_limited" \notin {"retained"}
    OBVIOUS
<1>4. IsFiniteSet(two) /\ Cardinality(two) = 2
    BY <1>2, <1>3, FS_AddElement
<1>5. "storage_limited" \notin two /\ "storage_busy" \notin two \cup {"storage_limited"}
    OBVIOUS
<1> HIDE DEF two
<1>6. /\ IsFiniteSet(two \cup {"storage_limited"})
      /\ Cardinality(two \cup {"storage_limited"}) = 3
    BY <1>4, <1>5, FS_AddElement
<1>7. IsFiniteSet(four) /\ Cardinality(four) = 4
    BY <1>5, <1>6, FS_AddElement
<1>8. "storage_failed" \notin four /\ "clock_unavailable" \notin four \cup {"storage_failed"}
    BY DEF two
<1>9. Counter = four \cup {"storage_failed"} \cup {"clock_unavailable"}
    BY DEF Counter, two
<1> HIDE DEF four
<1>10. /\ IsFiniteSet(four \cup {"storage_failed"})
       /\ Cardinality(four \cup {"storage_failed"}) = 5
    BY <1>7, <1>8, FS_AddElement
<1> QED BY <1>8, <1>9, <1>10, FS_AddElement

\* SumFunction adds up the six counters, in whatever order it takes them.
LEMMA SumIsTotal ==
    ASSUME NEW f \in [Counter -> Nat]
    PROVE  SumFunction(f) = Total(f)
<1> DEFINE part(s, k) == IF k \in s THEN f[k] ELSE 0
           sums(g) == [s \in SUBSET Counter |->
                          IF s = {} THEN 0 ELSE f[Pick(s)] + g[s \ {Pick(s)}]]
           g == [s \in SUBSET Counter |->
                    part(s, "retained") + part(s, "rate_limited")
                    + part(s, "storage_limited") + part(s, "storage_busy")
                    + part(s, "storage_failed") + part(s, "clock_unavailable")]
           h == CHOOSE x : x = sums(x)
<1>1. SumFunction(f) = h[Counter]
    <2>1. DOMAIN f = Counter
        OBVIOUS
    <2> QED BY <2>1 DEF SumFunction, SumFunctionOnSet, FoldFunctionOnSet, MapThenFoldSet, Pick
<1>2. ASSUME NEW s \in SUBSET Counter, s # {}
      PROVE  g[s] = f[Pick(s)] + g[s \ {Pick(s)}]
    <2>1. PICK x : x = Pick(s)
        OBVIOUS
    <2>2. x \in s /\ x \in Counter
        BY <1>2, <2>1 DEF Pick
    <2>3. \A k \in Counter : f[k] \in Nat
        OBVIOUS
    <2>4. g[s] = f[x] + g[s \ {x}]
        BY <2>2, <2>3 DEF Counter
    <2> QED BY <2>1, <2>4
<1>3. g[{}] = 0
    OBVIOUS
<1>4. g = sums(g)
    <2>1. g = [s \in SUBSET Counter |-> g[s]]
        OBVIOUS
    <2> HIDE DEF g
    <2>2. \A s \in SUBSET Counter :
             g[s] = IF s = {} THEN 0 ELSE f[Pick(s)] + g[s \ {Pick(s)}]
        BY <1>2, <1>3
    <2> QED BY <2>1, <2>2
<1>5. h = sums(h)
    <2>1. \E x : x = sums(x)
        BY <1>4
    <2> HIDE DEF sums
    <2> QED BY <2>1
<1> HIDE DEF g, h
<1>6. \A s \in SUBSET Counter : s # {} =>
          /\ g[s] = f[Pick(s)] + g[s \ {Pick(s)}]
          /\ h[s] = f[Pick(s)] + h[s \ {Pick(s)}]
    BY <1>2, <1>5
<1> DEFINE Agree(n) == \A s \in SUBSET Counter : Cardinality(s) = n => g[s] = h[s]
<1>7. Agree(0)
    <2>1. \A s \in SUBSET Counter : Cardinality(s) = 0 => s = {}
        BY SixCounters, FS_Subset, FS_EmptySet
    <2>2. h[{}] = 0
        BY <1>5
    <2> QED BY <1>3, <2>1, <2>2
<1>8. ASSUME NEW n \in Nat, Agree(n), NEW s \in SUBSET Counter, Cardinality(s) = n + 1
      PROVE  g[s] = h[s]
    <2>0. Cardinality({}) = 0
        BY FS_EmptySet
    <2>1. s # {}
        BY <1>8, <2>0
    <2>2. PICK x : x = Pick(s)
        OBVIOUS
    <2>3. x \in s
        BY <2>1, <2>2 DEF Pick
    <2>4. IsFiniteSet(s)
        BY SixCounters, FS_Subset
    <2>5. Cardinality(s \ {x}) = Cardinality(s) - 1
        BY <2>3, <2>4, FS_RemoveElement
    <2>6. Cardinality(s \ {x}) = n
        BY <1>8, <2>5
    <2>7. g[s \ {x}] = h[s \ {x}]
        BY <1>8, <2>6
    <2> QED BY <1>6, <2>1, <2>2, <2>7
<1>9. \A n \in Nat : Agree(n) => Agree(n + 1)
    BY <1>8
<1> HIDE DEF Agree
<1>10. Agree(1) /\ Agree(2) /\ Agree(3)
    BY <1>7, <1>9
<1>11. Agree(4) /\ Agree(5) /\ Agree(6)
    BY <1>9, <1>10
<1>12. g[Counter] = h[Counter]
    BY <1>11, SixCounters DEF Agree
<1>13. g[Counter] = Total(f)
    BY DEF g, Counter, Total
<1> QED BY <1>1, <1>12, <1>13

\* One more of one counter is one more in the sum.
LEMMA SumCounts ==
    ASSUME NEW f \in [Counter -> Nat], NEW k \in Counter
    PROVE  /\ SumFunction(f) \in Nat
           /\ SumFunction([f EXCEPT ![k] = @ + 1]) = SumFunction(f) + 1
           /\ SumFunction(Zero) = 0
<1> DEFINE g == [f EXCEPT ![k] = @ + 1]
<1>1. g \in [Counter -> Nat] /\ Zero \in [Counter -> Nat]
    BY DEF Zero
<1>2. Total(f) \in Nat /\ Total(g) = Total(f) + 1
    BY DEF Total, Counter
<1>3. Total(Zero) = 0
    BY DEF Total, Zero, Counter
<1> HIDE DEF g
<1>4. /\ SumFunction(f) = Total(f) /\ SumFunction(g) = Total(g)
      /\ SumFunction(Zero) = Total(Zero)
    BY <1>1, SumIsTotal
<1> QED BY <1>2, <1>3, <1>4 DEF g

\* A retained denial has its row once its COMMIT was executed, and a denial that
\* found the table full leaves it full: rows are only added.
CountInv ==
    /\ CountsAreTrue
    /\ \A d \in Denial : tx[d] = "committed" /\ outcome[d] = "retained" => d \in rows
    /\ \A d \in Denial : tx[d] \in {"sent", "committed"} /\ outcome[d] = "storage_limited"
          => Cardinality(rows) >= MaxRecords

\* Subsets of the denials are finite, and grow with what they contain.
LEMMA DenialSets ==
    ASSUME NEW S \in SUBSET Denial, NEW T \in SUBSET S
    PROVE  /\ IsFiniteSet(S) /\ Cardinality(S) \in Nat
           /\ Cardinality(T) \in Nat /\ Cardinality(T) <= Cardinality(S)
<1>1. IsFiniteSet(S)
    BY DenialAssumption, FS_Subset
<1>2. IsFiniteSet(T) /\ Cardinality(T) <= Cardinality(S)
    BY <1>1, FS_Subset
<1> QED BY <1>1, <1>2, FS_CardinalityType

\* A step that counts nothing and removes no row keeps the counters true.
LEMMA CountsKept ==
    ASSUME TypeInv, CountsAreTrue, UNCHANGED counts,
           \A d \in Denial : pc'[d] = "answered" <=> pc[d] = "answered",
           rows \subseteq rows', rows' \subseteq Denial
    PROVE  CountsAreTrue'
<1> SUFFICES ASSUME NEW p \in Proc
             PROVE  /\ Cardinality(Answered(p)') = SumFunction(counts'[p])
                    /\ counts'[p]["retained"] <= Cardinality(Answered(p)' \cap rows')
                    /\ counts'[p]["storage_limited"] > 0 => Cardinality(rows') >= MaxRecords
    BY DEF CountsAreTrue
<1> DEFINE A == Answered(p)
<1>1. A' = A /\ A \subseteq Denial
    BY DEF Answered
<1> HIDE DEF A
<1>2. /\ Cardinality(A \cap rows) <= Cardinality(A \cap rows')
      /\ Cardinality(rows) <= Cardinality(rows')
      /\ Cardinality(A \cap rows) \in Nat /\ Cardinality(A \cap rows') \in Nat
      /\ Cardinality(rows) \in Nat /\ Cardinality(rows') \in Nat
    BY <1>1, DenialSets
<1>3. /\ Cardinality(A) = SumFunction(counts[p])
      /\ counts[p]["retained"] <= Cardinality(A \cap rows)
      /\ counts[p]["storage_limited"] > 0 => Cardinality(rows) >= MaxRecords
    BY DEF CountsAreTrue, A
<1>4. counts[p]["retained"] \in Nat
    BY DEF TypeInv, TypeOK, RateTypeOK, Counter
<1>5. counts[p]["retained"] <= Cardinality(A \cap rows')
    BY <1>2, <1>3, <1>4
<1>6. counts[p]["storage_limited"] > 0 => Cardinality(rows') >= MaxRecords
    BY <1>2, <1>3, RecordsAssumption
<1> QED BY <1>1, <1>3, <1>5, <1>6 DEF A

\* A denial that answers is counted once, under what became of its record.
LEMMA FinishCounts ==
    ASSUME TypeInv, CountsAreTrue, NEW d \in Denial, NEW k \in Counter, Finish(d, k),
           pc[d] # "answered", UNCHANGED rows,
           k = "retained" => d \in rows,
           k = "storage_limited" => Cardinality(rows) >= MaxRecords
    PROVE  CountsAreTrue'
<1> SUFFICES ASSUME NEW p \in Proc
             PROVE  /\ Cardinality(Answered(p)') = SumFunction(counts'[p])
                    /\ counts'[p]["retained"] <= Cardinality(Answered(p)' \cap rows')
                    /\ counts'[p]["storage_limited"] > 0 => Cardinality(rows') >= MaxRecords
    BY DEF CountsAreTrue
<1> DEFINE A == Answered(p)
           f == counts[p]
<1>1. /\ Cardinality(A) = SumFunction(f)
      /\ f["retained"] <= Cardinality(A \cap rows)
      /\ f["storage_limited"] > 0 => Cardinality(rows) >= MaxRecords
    BY DEF CountsAreTrue
<1>2. f \in [Counter -> Nat] /\ pc' = [pc EXCEPT ![d] = "answered"] /\ rows' = rows
      /\ A \subseteq Denial /\ rows \subseteq Denial
    BY DEF TypeInv, TypeOK, RateTypeOK, Finish, Answered
<1>3. CASE p # Owner[d]
    <2>1. A' = A /\ counts'[p] = f
        BY <1>2, <1>3 DEF Finish, Answered, TypeInv, TypeOK, RateTypeOK
    <2> QED BY <1>1, <1>2, <2>1
<1>4. CASE p = Owner[d]
    <2>1. A' = A \cup {d} /\ d \notin A
        BY <1>2, <1>4 DEF Answered, TypeInv, TypeOK, RateTypeOK
    <2>2. counts'[p] = [f EXCEPT ![k] = @ + 1]
        BY <1>4 DEF Finish, TypeInv, TypeOK, RateTypeOK
    <2> HIDE DEF A, f
    <2>3. Cardinality(A \cup {d}) = Cardinality(A) + 1
        BY <1>2, <2>1, DenialSets, FS_AddElement
    <2>4. SumFunction(counts'[p]) = SumFunction(f) + 1
        BY <1>2, <2>2, SumCounts
    <2>5. counts'[p]["retained"] <= Cardinality((A \cup {d}) \cap rows)
        <3> DEFINE B == A \cap rows
        <3>1. B \subseteq Denial /\ d \notin B
            BY <1>2, <2>1
        <3>2. f["retained"] <= Cardinality(B) /\ f["retained"] \in Nat
            BY <1>1, <1>2 DEF Counter
        <3> HIDE DEF B
        <3>3. Cardinality(B) \in Nat /\ Cardinality(B \cup {d}) = Cardinality(B) + 1
            BY <3>1, DenialSets, FS_AddElement
        <3>4. /\ d \in rows => (A \cup {d}) \cap rows = B \cup {d}
              /\ d \notin rows => (A \cup {d}) \cap rows = B
            BY DEF B
        <3>5. counts'[p]["retained"] = IF k = "retained" THEN f["retained"] + 1
                                       ELSE f["retained"]
            BY <1>2, <2>2 DEF Counter
        <3>6. CASE d \in rows
            BY <3>2, <3>3, <3>4, <3>5, <3>6
        <3>7. CASE d \notin rows
            BY <3>2, <3>4, <3>5, <3>7
        <3> QED BY <3>6, <3>7
    <2>6. counts'[p]["storage_limited"] > 0 => Cardinality(rows) >= MaxRecords
        <3>1. k # "storage_limited" => counts'[p]["storage_limited"] = f["storage_limited"]
            BY <1>2, <2>2 DEF Counter
        <3> QED BY <1>1, <3>1
    <2> QED BY <1>1, <1>2, <2>1, <2>3, <2>4, <2>5, <2>6 DEF A
<1> QED BY <1>3, <1>4

\* Every step keeps the counters true.
LEMMA NextCounts == TypeInv /\ StoreInv /\ CountInv /\ [Next]_vars => CountInv'
<1> SUFFICES ASSUME TypeInv, StoreInv, CountInv, [Next]_vars PROVE CountInv'
    OBVIOUS
<1>0. /\ CountsAreTrue
      /\ \A d \in Denial : tx[d] = "committed" /\ outcome[d] = "retained" => d \in rows
      /\ \A d \in Denial : tx[d] \in {"sent", "committed"} /\ outcome[d] = "storage_limited"
          => Cardinality(rows) >= MaxRecords
      /\ rows \subseteq Denial
      /\ pc \in [Denial -> {"idle", "clocked", "granted", "locked", "room",
                            "committing", "answered", "dropped"}]
      /\ tx \in [Denial -> {"none", "open", "sent", "committed", "aborted"}]
      /\ outcome \in [Denial -> Counter \cup {None}]
    BY DEF CountInv, TypeInv, TypeOK, RateTypeOK
\* A step of the process that leaves the database alone.
<1>1. ASSUME NEW d \in Denial, NEW k \in Counter, Finish(d, k), UNCHANGED database,
             pc[d] # "answered",
             k = "retained" => d \in rows,
             k = "storage_limited" => Cardinality(rows) >= MaxRecords
      PROVE  CountInv'
    <2>1. UNCHANGED <<outcome, tx, rows>>
        BY <1>1 DEF database
    <2>2. CountsAreTrue'
        BY <1>0, <1>1, <2>1, FinishCounts
    <2> QED BY <1>0, <2>1, <2>2 DEF CountInv
<1>2. ASSUME UNCHANGED <<counts, database>>,
             \A d \in Denial : pc'[d] = "answered" <=> pc[d] = "answered"
      PROVE  CountInv'
    <2>1. UNCHANGED <<outcome, tx, rows, counts>>
        BY <1>2 DEF database
    <2>2. CountsAreTrue'
        BY <1>0, <1>2, <2>1, CountsKept
    <2> QED BY <1>0, <2>1, <2>2 DEF CountInv
\* A step of the transaction of d that adds no row.
<1>3. ASSUME NEW d \in Denial, NEW k \in Counter, Found(d, k), UNCHANGED <<counts, rows>>,
             pc[d] # "answered",
             k = "storage_limited" => Cardinality(rows) >= MaxRecords
      PROVE  CountInv'
    <2>1. \A e \in Denial : pc'[e] = "answered" <=> pc[e] = "answered"
        BY <1>0, <1>3 DEF Found
    <2>2. CountsAreTrue'
        BY <1>0, <1>3, <2>1, CountsKept
    <2> QED BY <1>0, <1>3, <2>2 DEF CountInv, Found
<1>4. ASSUME NEW d \in Denial, Screen(d), UNCHANGED database PROVE CountInv'
    <2>1. CASE \E now \in Readings : ReadClock(d, now)
        <3>1. PICK now \in Readings : ReadClock(d, now)
            BY <2>1
        <3>2. CASE now = None
            BY <1>1, <1>4, <3>1, <3>2 DEF ReadClock, Counter
        <3>3. CASE now # None
            BY <1>0, <1>2, <1>4, <3>1, <3>3 DEF ReadClock
        <3> QED BY <3>2, <3>3
    <2>2. CASE TakeCapacity(d)
        <3>1. /\ pc[d] = "clocked"
              /\ \/ Finish(d, "clock_unavailable")
                 \/ Finish(d, "rate_limited")
                 \/ pc' = [pc EXCEPT ![d] = "granted"] /\ UNCHANGED counts
            BY <2>2 DEF TakeCapacity
        <3>2. CASE Finish(d, "clock_unavailable")
            BY <1>1, <1>4, <3>1, <3>2 DEF Counter
        <3>3. CASE Finish(d, "rate_limited")
            BY <1>1, <1>4, <3>1, <3>3 DEF Counter
        <3>4. CASE pc' = [pc EXCEPT ![d] = "granted"] /\ UNCHANGED counts
            BY <1>0, <1>2, <1>4, <3>1, <3>4
        <3> QED BY <3>1, <3>2, <3>3, <3>4
    <2> QED BY <1>4, <2>1, <2>2 DEF Screen
<1>5. ASSUME NEW d \in Denial, TryLock(d) PROVE CountInv'
    <2>1. CASE LockIsFree
        <3>1. /\ pc[d] = "granted" /\ pc' = [pc EXCEPT ![d] = "locked"]
              /\ tx' = [tx EXCEPT ![d] = "open"]
              /\ UNCHANGED <<outcome, counts, rows>>
            BY <1>5, <2>1 DEF TryLock
        <3>2. \A e \in Denial : pc'[e] = "answered" <=> pc[e] = "answered"
            BY <1>0, <3>1
        <3>3. CountsAreTrue'
            BY <1>0, <3>1, <3>2, CountsKept
        <3> QED BY <1>0, <3>1, <3>3 DEF CountInv
    <2>2. CASE ~LockIsFree
        BY <1>3, <1>5, <2>2 DEF TryLock, Counter
    <2> QED BY <2>1, <2>2
<1>6. ASSUME NEW d \in Denial, CountRows(d) PROVE CountInv'
    <2>1. CASE CapIsReached
        BY <1>3, <1>6, <2>1 DEF CountRows, CapIsReached, Counter
    <2>2. CASE ~CapIsReached
        BY <1>0, <1>2, <1>6, <2>2 DEF CountRows, database
    <2> QED BY <2>1, <2>2
<1>7. ASSUME NEW d \in Denial, Insert(d) PROVE CountInv'
    BY <1>3, <1>7 DEF Insert, Counter
<1>8. ASSUME NEW d \in Denial, ServerCommit(d) PROVE CountInv'
    <2>1. /\ UNCHANGED <<counts, pc, outcome>>
          /\ tx[d] = "sent" /\ tx' = [tx EXCEPT ![d] = "committed"]
          /\ rows' = IF outcome[d] = "retained" THEN rows \cup {d} ELSE rows
        BY <1>8 DEF ServerCommit
    <2>2. rows \subseteq rows' /\ rows' \subseteq Denial
        BY <1>0, <2>1
    <2>3. CountsAreTrue'
        BY <1>0, <2>1, <2>2, CountsKept
    <2>4. \A e \in Denial : tx'[e] = "committed" /\ outcome'[e] = "retained" => e \in rows'
        BY <1>0, <2>1
    <2>5. /\ Cardinality(rows) \in Nat /\ Cardinality(rows') \in Nat
          /\ Cardinality(rows) <= Cardinality(rows')
        BY <2>2, DenialSets
    <2>6. ASSUME NEW e \in Denial, tx'[e] \in {"sent", "committed"},
                 outcome'[e] = "storage_limited"
          PROVE  Cardinality(rows') >= MaxRecords
        BY <1>0, <2>1, <2>5, <2>6, RecordsAssumption
    <2> QED BY <2>3, <2>4, <2>6 DEF CountInv
<1>9. ASSUME NEW d \in Denial, ServerAbort(d) PROVE CountInv'
    <2>1. UNCHANGED <<counts, pc, outcome, rows>> /\ tx' = [tx EXCEPT ![d] = "aborted"]
        BY <1>9 DEF ServerAbort
    <2>2. CountsAreTrue'
        BY <1>0, <2>1, CountsKept
    <2> QED BY <1>0, <2>1, <2>2 DEF CountInv
<1>10. ASSUME NEW d \in Denial, Receive(d) PROVE CountInv'
    <2>1. outcome[d] \in Counter
        BY <1>10 DEF Receive, TypeInv, HasFound
    <2> QED BY <1>0, <1>1, <1>10, <2>1 DEF Receive
<1>11. ASSUME NEW d \in Denial, Fail(d) PROVE CountInv'
    BY <1>1, <1>11 DEF Fail, Storing, Counter
<1>12. ASSUME NEW d \in Denial, Cancel(d) PROVE CountInv'
    BY <1>0, <1>2, <1>12 DEF Cancel, Storing
<1>13. ASSUME NEW p \in Proc, Restart(p), UNCHANGED database PROVE CountInv'
    <2>1. UNCHANGED <<outcome, tx, rows>>
        BY <1>13 DEF database
    <2>2. ASSUME NEW q \in Proc
          PROVE  /\ Cardinality(Answered(q)') = SumFunction(counts'[q])
                 /\ counts'[q]["retained"] <= Cardinality(Answered(q)' \cap rows')
                 /\ counts'[q]["storage_limited"] > 0 => Cardinality(rows') >= MaxRecords
        <3>1. CASE q = p
            <4>1. counts'[q] = Zero
                BY <1>13, <3>1 DEF Restart, TypeInv, TypeOK, RateTypeOK
            <4>2. Answered(q)' = {}
                BY <1>0, <1>13, <3>1 DEF Restart, Answered
            <4>3. Answered(q)' \cap rows' = {}
                BY <4>2
            <4>4. Cardinality({}) = 0
                BY FS_EmptySet
            <4>5. Zero \in [Counter -> Nat] /\ "retained" \in Counter
                BY DEF Zero, Counter
            <4>6. SumFunction(Zero) = 0
                BY <4>5, SumCounts
            <4>7. Zero["retained"] = 0 /\ Zero["storage_limited"] = 0
                BY DEF Zero, Counter
            <4> QED BY <4>1, <4>2, <4>3, <4>4, <4>6, <4>7
        <3>2. CASE q # p
            <4>1. counts'[q] = counts[q]
                BY <1>13, <3>2 DEF Restart, TypeInv, TypeOK, RateTypeOK
            <4>2. Answered(q)' = Answered(q)
                BY <1>0, <1>13, <3>2 DEF Restart, Answered
            <4> QED BY <1>0, <2>1, <4>1, <4>2 DEF CountsAreTrue
        <3> QED BY <3>1, <3>2
    <2>3. CountsAreTrue'
        BY <2>2 DEF CountsAreTrue
    <2> QED BY <1>0, <2>1, <2>3 DEF CountInv
<1>14. CASE Tick /\ UNCHANGED database
    BY <1>2, <1>14 DEF Tick
<1>15. CASE UNCHANGED vars
    BY <1>2, <1>15 DEF vars, rateVars
<1> QED
    BY <1>4, <1>5, <1>6, <1>7, <1>8, <1>9, <1>10, <1>11, <1>12, <1>13, <1>14, <1>15
    DEF Next, Proceeds

\* docs/authorization.md: the counters of a process distinguish the limitations.
\* Each of its denials that answered is counted once, a retained one has its row
\* in the database and a limited one met a full table, across restarts.
THEOREM CountersAreTrue == Spec => []CountsAreTrue
<1>1. Init => CountInv
    <2> SUFFICES ASSUME Init PROVE CountInv
        OBVIOUS
    <2>1. Zero \in [Counter -> Nat] /\ "retained" \in Counter
        BY DEF Zero, Counter
    <2>2. SumFunction(Zero) = 0
        BY <2>1, SumCounts
    <2>3. Zero["retained"] = 0 /\ Zero["storage_limited"] = 0
        BY DEF Zero, Counter
    <2>4. Cardinality({}) = 0
        BY FS_EmptySet
    <2>5. ASSUME NEW p \in Proc
          PROVE  counts[p] = Zero /\ Answered(p) = {} /\ Answered(p) \cap rows = {}
        BY DEF Init, RateInit, Answered
    <2>6. CountsAreTrue
        <3> SUFFICES ASSUME NEW p \in Proc
                     PROVE  /\ Cardinality(Answered(p)) = SumFunction(counts[p])
                            /\ counts[p]["retained"] <= Cardinality(Answered(p) \cap rows)
                            /\ counts[p]["storage_limited"] = 0
            BY DEF CountsAreTrue
        <3>1. Cardinality(Answered(p)) = 0 /\ Cardinality(Answered(p) \cap rows) = 0
            BY <2>4, <2>5
        <3> QED BY <2>2, <2>3, <2>5, <3>1
    <2>7. \A d \in Denial : tx[d] = "none"
        BY DEF Init
    <2> QED BY <2>6, <2>7 DEF CountInv
<1>2. Init => StoreInv
    <2>1. Cardinality({}) = 0
        BY FS_EmptySet
    <2> QED BY <2>1, RecordsAssumption DEF Init, RateInit, StoreInv, Claims, RowCap
<1>3. CountInv => CountsAreTrue
    BY DEF CountInv
<1> QED BY <1>1, <1>2, <1>3, TypeInit, TypeStep, StoreStep, NextCounts, PTL DEF Spec

==============================================================================
