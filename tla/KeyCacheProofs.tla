--------------------------- MODULE KeyCacheProofs ---------------------------
(***************************************************************************)
(* Proofs about KeyCache for every number of concurrent calls, every key   *)
(* set, lifetime and interval, and a clock that may misread.               *)
(***************************************************************************)
EXTENDS KeyCache, TLAPS

-----------------------------------------------------------------------------
(* Types and the ownership of the attempt.                                 *)

\* A call in flight knows when its fetch started and for which key.
CallFits(c) ==
    /\ pc[c] = "idle" => outcome[c] = None /\ kid[c] = None
    /\ pc[c] \notin {"fetching", "releasing"} => fetched[c] = None
    /\ pc[c] = "fetching" => start[c] # None /\ kid[c] # None /\ outcome[c] = None
    /\ pc[c] = "releasing" => outcome[c] \in Answer \cup {"key", "cancelled"}

TypeInv == TypeOK /\ \A c \in Call : CallFits(c)

\* The cache is empty and no call has begun.
LEMMA InitTypes == Init => TypeInv
<1> SUFFICES ASSUME Init PROVE TypeInv
  OBVIOUS
<1>1. /\ time \in Moment /\ wall \in Walls
      /\ published \subseteq Kid /\ keys \subseteq Kid
      /\ withdrawn \in [Kid -> Moment \cup {None}]
      /\ expiry \in Nat \cup {None}
      /\ {lastAttempt, lastClock, requested} \subseteq Moment \cup {None}
  BY BoundsAssumption DEF Init, Moment
<1> busy \in BOOLEAN
  BY DEF Init
<1>2. /\ pc \in [Call -> {"idle", "fetching", "releasing", "verify", "answered"}]
      /\ kid \in [Call -> Kid \cup {None}]
      /\ exp \in [Call -> Nat]
      /\ start \in [Call -> Moment \cup {None}]
      /\ fetched \in [Call -> {None} \cup SUBSET Kid]
      /\ outcome \in [Call -> Answer \cup {"key", "cancelled", None}]
  BY DEF Init
<1>3. \A c \in Call : CallFits(c)
  BY DEF Init, CallFits
<1>4. QED
  BY <1>1, <1>2, <1>3 DEF TypeInv, TypeOK

\* Every reading of the key clock that is not absent is a moment.
LEMMA ReadingTypes ==
    ASSUME TypeOK, NEW now \in Readings
    PROVE  now = None \/ (now \in Moment /\ now <= time)
  BY BoundsAssumption DEF TypeOK, Readings, Moment

\* Every step keeps the types.
LEMMA NextTypes == TypeInv /\ [Next]_vars => TypeInv'
<1> SUFFICES ASSUME TypeInv, [Next]_vars PROVE TypeInv'
  OBVIOUS
<1> USE NoneAssumption, EndpointAssumption, BoundsAssumption
        DEF TypeInv, TypeOK, CallFits, Moment, Answer
<1>1. ASSUME NEW c \in Call, NEW k \in Kid, NEW e \in Exps, NEW now \in Readings,
             Get(c, k, e, now)
      PROVE  TypeInv'
  <2>1. now = None \/ now \in Moment
    BY ReadingTypes
  <2>2. CASE Reply(c, "unavailable") /\ UNCHANGED <<start, cache>>
    BY <1>1, <2>2 DEF Get, Reply, cache, issuer
  <2>3. CASE /\ now # None /\ lastClock' = now /\ UNCHANGED <<keys, expiry>>
             /\ UNCHANGED <<start, busy, lastAttempt, requested>>
             /\ pc'[c] # "fetching" /\ pc'[c] # "releasing"
    BY <1>1, <2>1, <2>3 DEF Get, Reply, Observes, issuer
  <2>4. CASE /\ now # None /\ lastClock' = now /\ UNCHANGED <<keys, expiry>>
             /\ busy' = TRUE /\ lastAttempt' = now /\ requested' = now
             /\ start' = [start EXCEPT ![c] = now]
             /\ pc' = [pc EXCEPT ![c] = "fetching"] /\ UNCHANGED outcome
    <3>1. TypeOK'
      BY <1>1, <2>1, <2>4 DEF Get, issuer
    <3>2. \A d \in Call : CallFits(d)'
      BY <1>1, <2>1, <2>4 DEF Get, issuer
    <3>3. QED
      BY <3>1, <3>2
  <2>5. CASE ~(wall = None \/ ~Observes(now))
    <3>1. now # None /\ lastClock' = now /\ UNCHANGED <<keys, expiry>>
      BY <1>1, <2>5 DEF Get, Observes
    <3>2. CASE pc'[c] # "fetching"
      <4>1. /\ UNCHANGED <<start, busy, lastAttempt, requested>>
            /\ pc'[c] \in {"verify", "answered"}
        BY <1>1, <2>5, <3>2 DEF Get, Reply
      <4>2. QED
        BY <2>3, <3>1, <4>1
    <3>3. CASE pc'[c] = "fetching"
      <4>1. /\ busy' = TRUE /\ lastAttempt' = now /\ requested' = now
            /\ start' = [start EXCEPT ![c] = now]
            /\ pc' = [pc EXCEPT ![c] = "fetching"] /\ UNCHANGED outcome
        BY <1>1, <2>5, <3>3 DEF Get, Reply
      <4>2. QED
        BY <2>4, <3>1, <4>1
    <3>4. QED
      BY <3>2, <3>3
  <2>6. QED
    BY <1>1, <2>2, <2>5 DEF Get
<1>2. ASSUME NEW c \in Call, Malformed(c) PROVE TypeInv'
  BY <1>2 DEF Malformed, Reply, cache, issuer
<1>3. ASSUME NEW c \in Call, FetchEnds(c) PROVE TypeInv'
  BY <1>3 DEF FetchEnds, Serve, FetchFails, cache, issuer
<1>4. ASSUME NEW c \in Call, NEW now \in Readings, Complete(c, now) PROVE TypeInv'
  <2>1. now = None \/ now \in Moment
    BY ReadingTypes
  <2>2. QED
    BY <1>4, <2>1 DEF Complete, Observes, OnTime, NewExpiry, Replacement, issuer
<1>5. ASSUME NEW c \in Call, Cancel(c) PROVE TypeInv'
  BY <1>5 DEF Cancel, cache, issuer
<1>6. ASSUME NEW c \in Call, Release(c) PROVE TypeInv'
  <2>1. /\ pc' = [pc EXCEPT ![c] = IF outcome[c] = "key" THEN "verify" ELSE "answered"]
        /\ pc[c] = "releasing" /\ busy' \in BOOLEAN
        /\ start' = [start EXCEPT ![c] = None] /\ fetched' = [fetched EXCEPT ![c] = None]
    BY <1>6 DEF Release
  <2>2. TypeOK'
    BY <1>6, <2>1 DEF Release, issuer
  <2>3. \A d \in Call : CallFits(d)'
    BY <1>6, <2>1 DEF Release
  <2>4. QED
    BY <2>2, <2>3
<1>7. ASSUME NEW c \in Call, Verify(c) PROVE TypeInv'
  BY <1>7 DEF Verify, Reply, cache, issuer
<1>8. ASSUME NEW c \in Call, Return(c) PROVE TypeInv'
  BY <1>8 DEF Return, cache, issuer
<1>9. ASSUME NEW k \in Kid, Withdraw(k) \/ Announce(k) PROVE TypeInv'
  BY <1>9 DEF Withdraw, Announce, cache, calls
<1>10. CASE Tick
  BY <1>10 DEF Tick, cache, calls, issuer
<1>11. CASE SetWall
  BY <1>11 DEF SetWall, cache, calls, issuer
<1>12. CASE UNCHANGED vars
  BY <1>12 DEF vars, cache, calls, issuer
<1>13. QED
  BY <1>1, <1>2, <1>3, <1>4, <1>5, <1>6, <1>7, <1>8, <1>9, <1>10, <1>11, <1>12
     DEF Next, Completes

\* Type correctness of the key cache.
THEOREM TypeCorrect == Spec => []TypeOK
<1>1. TypeInv => TypeOK
  BY DEF TypeInv
<1>2. QED
  BY <1>1, InitTypes, NextTypes, PTL DEF Spec

-----------------------------------------------------------------------------
(* One call at a time owns the attempt.                                    *)

\* What the first critical section of get does to the attempt.
LEMMA GetKinds ==
    ASSUME TypeInv, NEW c \in Call, NEW k \in Kid, NEW e \in Exps,
           NEW now \in Readings, Get(c, k, e, now)
    PROVE  /\ pc[c] = "idle" /\ UNCHANGED <<keys, expiry, fetched, time, issuer>>
           /\ \A d \in Call \ {c} : /\ pc'[d] = pc[d] /\ start'[d] = start[d]
                                    /\ kid'[d] = kid[d] /\ outcome'[d] = outcome[d]
           /\ \/ /\ pc'[c] \in {"verify", "answered"}
                 /\ UNCHANGED <<start, busy, lastAttempt, requested>>
              \/ /\ pc'[c] = "fetching" /\ ~MayNotFetch(now) /\ Observes(now)
                 /\ busy' = TRUE /\ lastAttempt' = now /\ requested' = now
                 /\ start'[c] = now /\ outcome'[c] = outcome[c]
           /\ lastClock' = lastClock \/ (Observes(now) /\ lastClock' = now)
           /\ outcome'[c] = "key" => /\ Observes(now) /\ Fresh(now) /\ lastClock' = now
                                     /\ kid'[c] \in keys
<1> USE DEF TypeInv, TypeOK, cache, issuer, Reply
<1>1. pc[c] = "idle" /\ UNCHANGED <<keys, expiry, fetched, time, issuer>>
  BY DEF Get
<1>2. \A d \in Call \ {c} : /\ pc'[d] = pc[d] /\ start'[d] = start[d]
                            /\ kid'[d] = kid[d] /\ outcome'[d] = outcome[d]
  BY DEF Get
<1>3. \/ /\ pc'[c] \in {"verify", "answered"}
         /\ UNCHANGED <<start, busy, lastAttempt, requested>>
      \/ /\ pc'[c] = "fetching" /\ ~MayNotFetch(now) /\ Observes(now)
         /\ busy' = TRUE /\ lastAttempt' = now /\ requested' = now
         /\ start'[c] = now /\ outcome'[c] = outcome[c]
  BY DEF Get
<1>4. lastClock' = lastClock \/ (Observes(now) /\ lastClock' = now)
  BY DEF Get
<1>5. outcome'[c] = "key" => /\ Observes(now) /\ Fresh(now) /\ lastClock' = now
                             /\ kid'[c] \in keys
  <2>1. outcome[c] # "key"
    BY <1>1, NoneAssumption DEF CallFits
  <2>2. kid'[c] = k
    BY DEF Get
  <2>3. QED
    BY <2>1, <2>2 DEF Get
<1>6. QED
  BY <1>1, <1>2, <1>3, <1>4, <1>5

\* The attempt changes hands only when it is free.
LEMMA NextOneFetch == TypeInv /\ OneFetch /\ [Next]_vars => OneFetch'
<1> SUFFICES ASSUME TypeInv, OneFetch, [Next]_vars PROVE OneFetch'
  OBVIOUS
<1> USE DEF TypeInv, TypeOK
<1>1. ASSUME busy' = busy, InFlight' = InFlight PROVE OneFetch'
  BY <1>1 DEF OneFetch
<1>2. ASSUME NEW c \in Call, NEW k \in Kid, NEW e \in Exps, NEW now \in Readings,
             Get(c, k, e, now)
      PROVE  OneFetch'
  <2>1. CASE pc'[c] \in {"verify", "answered"} /\ busy' = busy
    <3>1. InFlight' = InFlight
      BY <1>2, <2>1, GetKinds DEF InFlight
    <3>2. QED
      BY <1>1, <2>1, <3>1
  <2>2. CASE pc'[c] = "fetching" /\ ~MayNotFetch(now) /\ busy' = TRUE
    <3>1. InFlight = {}
      BY <2>2 DEF OneFetch, MayNotFetch
    <3>2. InFlight' = {c}
      BY <1>2, <2>2, <3>1, GetKinds, ZenonT(60) DEF InFlight
    <3>3. QED
      BY <2>2, <3>2 DEF OneFetch
  <2>3. QED
    BY <1>2, <2>1, <2>2, GetKinds
<1>3. ASSUME NEW c \in Call, NEW now \in Readings,
             Complete(c, now) \/ Cancel(c) \/ Serve(c) \/ FetchFails(c)
             \/ Malformed(c) \/ Verify(c) \/ Return(c)
      PROVE  OneFetch'
  <2>1. busy' = busy /\ InFlight' = InFlight
    BY <1>3 DEF Complete, Cancel, Serve, FetchFails, Malformed, Verify, Return, Reply,
                cache, InFlight
  <2>2. QED
    BY <1>1, <2>1
<1>4. ASSUME NEW c \in Call, Release(c) PROVE OneFetch'
  <2>1. InFlight' = {}
    BY <1>4 DEF Release, InFlight, OneFetch
  <2>2. QED
    BY <1>4, <2>1 DEF OneFetch, Release
<1>5. ASSUME UNCHANGED <<cache, calls>> PROVE OneFetch'
  BY <1>1, <1>5 DEF cache, calls, InFlight
<1>6. ASSUME NEW k \in Kid, Withdraw(k) \/ Announce(k) PROVE OneFetch'
  BY <1>5, <1>6 DEF Withdraw, Announce
<1>7. CASE Tick \/ SetWall \/ UNCHANGED vars
  BY <1>5, <1>7 DEF Tick, SetWall, vars
<1>8. time \in Readings
  BY DEF Readings
<1>9. QED
  BY <1>2, <1>3, <1>4, <1>6, <1>7, <1>8 DEF Next, Completes, FetchEnds

\* docs/authentication.md, "one in-flight fetch": at most one call is between
\* claiming the attempt and clearing busy, for any number of calls.
THEOREM FetchIsExclusive == Spec => []OneFetch
<1>1. Init => OneFetch
  BY DEF Init, OneFetch, InFlight
<1>2. QED
  BY <1>1, InitTypes, NextTypes, NextOneFetch, PTL DEF Spec

-----------------------------------------------------------------------------
(* Trust: what the cache holds was served after the fetch started, so every *)
(* key in it was withdrawn, if at all, less than Ttl before the expiry.     *)

\* k is served now, or was withdrawn at t or later.
HeldAt(k, t) == k \in published \/ (withdrawn[k] # None /\ t <= withdrawn[k])

CacheFits ==
    /\ lastClock # None => lastClock <= time
    /\ expiry # None => lastClock # None /\ expiry <= time + Ttl
    /\ expiry = None => keys = {}
    /\ expiry # None => \A k \in keys :
            k \in published \/ (withdrawn[k] # None /\ expiry <= withdrawn[k] + Ttl)
    /\ requested = lastAttempt

FetchFits(c) ==
    pc[c] = "fetching" =>
        /\ start[c] <= time /\ lastClock # None
        /\ fetched[c] # None => \A k \in fetched[c] : HeldAt(k, start[c])

TrustInv == CacheFits /\ \A c \in Call : FetchFits(c)

Inv == TypeInv /\ TrustInv

\* Time passing and the issuer's changes of its key set.
LEMMA WorldTrust ==
    ASSUME Inv, (\E k \in Kid : Withdraw(k) \/ Announce(k)) \/ Tick \/ SetWall
                \/ UNCHANGED vars
    PROVE  TrustInv'
<1> USE NoneAssumption, EndpointAssumption, BoundsAssumption
        DEF Inv, TypeInv, TypeOK, TrustInv, Moment, cache, calls, issuer
<1>1. ASSUME NEW k \in Kid, Withdraw(k) PROVE TrustInv'
  <2>1. /\ published' = published \ {k} /\ withdrawn' = [withdrawn EXCEPT ![k] = time]
        /\ UNCHANGED <<time, keys, expiry, lastAttempt, lastClock, requested, pc, start,
                       fetched>>
    BY <1>1 DEF Withdraw
  <2>2. CacheFits'
    BY <2>1 DEF CacheFits
  <2>3. ASSUME NEW c \in Call PROVE FetchFits(c)'
    <3>1. pc[c] = "fetching" => start[c] \in Nat
      BY DEF CallFits
    <3>2. QED
      BY <2>1, <3>1 DEF FetchFits, HeldAt
  <2>4. QED
    BY <2>2, <2>3
<1>2. ASSUME NEW k \in Kid, Announce(k) PROVE TrustInv'
  BY <1>2 DEF Announce, CacheFits, FetchFits, HeldAt
<1>3. CASE Tick
  <2>1. /\ time' = time + 1
        /\ UNCHANGED <<published, withdrawn, keys, expiry, lastAttempt, lastClock,
                       requested, pc, start, fetched>>
    BY <1>3 DEF Tick
  <2>2. CacheFits'
    BY <2>1 DEF CacheFits
  <2>3. ASSUME NEW c \in Call PROVE FetchFits(c)'
    <3>1. pc[c] = "fetching" => start[c] \in Nat
      BY DEF CallFits
    <3>2. QED
      BY <2>1, <3>1 DEF FetchFits, HeldAt
  <2>4. QED
    BY <2>2, <2>3
<1>4. CASE SetWall \/ UNCHANGED vars
  BY <1>4 DEF SetWall, vars, CacheFits, FetchFits, HeldAt
<1>5. QED
  BY <1>1, <1>2, <1>3, <1>4

\* The first critical section moves nothing but the clock and the attempt.
LEMMA GetTrust ==
    ASSUME Inv, NEW c \in Call, NEW k \in Kid, NEW e \in Exps, NEW now \in Readings,
           Get(c, k, e, now)
    PROVE  TrustInv'
<1>0. /\ pc[c] = "idle" /\ UNCHANGED <<keys, expiry, fetched, time, issuer>>
      /\ \A d \in Call \ {c} : pc'[d] = pc[d] /\ start'[d] = start[d]
      /\ \/ /\ pc'[c] \in {"verify", "answered"}
            /\ UNCHANGED <<start, busy, lastAttempt, requested>>
         \/ /\ pc'[c] = "fetching" /\ Observes(now)
            /\ lastAttempt' = now /\ requested' = now /\ start'[c] = now
      /\ lastClock' = lastClock \/ (Observes(now) /\ lastClock' = now)
  BY GetKinds DEF Inv
<1> USE NoneAssumption, EndpointAssumption, BoundsAssumption
        DEF Inv, TypeInv, TypeOK, Moment
<1>1. now = None \/ (now \in Moment /\ now <= time)
  BY ReadingTypes
<1>2. /\ UNCHANGED <<keys, expiry, fetched, time, published, withdrawn>>
      /\ \A d \in Call \ {c} : pc'[d] = pc[d] /\ start'[d] = start[d]
  BY <1>0 DEF issuer
<1>3. /\ lastClock # None => lastClock' # None
      /\ lastClock' # None => lastClock' <= time
  BY <1>0, <1>1 DEF TrustInv, CacheFits, Observes
<1>4. requested' = lastAttempt'
  BY <1>0 DEF TrustInv, CacheFits
<1>5. CacheFits'
  BY <1>2, <1>3, <1>4 DEF TrustInv, CacheFits
<1>6. ASSUME NEW d \in Call \ {c} PROVE FetchFits(d)'
  BY <1>2, <1>3 DEF TrustInv, FetchFits, HeldAt
<1>7. FetchFits(c)'
  <2>1. SUFFICES ASSUME pc'[c] = "fetching" PROVE FetchFits(c)'
    BY DEF FetchFits
  <2>2. start'[c] = now /\ Observes(now) /\ lastAttempt' = now
    BY <1>0, <2>1
  <2>3. lastClock' # None
    BY <2>1, <2>2 DEF Get, Observes, Reply
  <2>4. fetched'[c] = None
    BY <1>0 DEF CallFits
  <2>5. QED
    BY <1>1, <1>2, <2>2, <2>3, <2>4 DEF FetchFits, Observes
<1>8. QED
  BY <1>5, <1>6, <1>7 DEF TrustInv

\* The second critical section: what it does to the cache and what it answers.
LEMMA CompleteKinds ==
    ASSUME TypeInv, NEW c \in Call, NEW now \in Readings, Complete(c, now)
    PROVE  /\ pc[c] = "fetching" /\ fetched[c] # None
           /\ UNCHANGED <<time, issuer, lastAttempt, requested, kid, start, fetched>>
           /\ pc'[c] = "releasing"
           /\ \A d \in Call \ {c} : pc'[d] = pc[d] /\ outcome'[d] = outcome[d]
           /\ \/ /\ keys' = keys /\ expiry' = expiry
                 /\ outcome'[c] = "unavailable"
              \/ /\ Observes(now) /\ now < start[c] + Ttl
                 /\ keys' = fetched[c] /\ expiry' = start[c] + Ttl
                 /\ outcome'[c] = "key" => kid[c] \in fetched[c]
           /\ lastClock' = IF Observes(now) THEN now ELSE lastClock
<1> USE DEF TypeInv, TypeOK
<1>1. /\ pc[c] = "fetching" /\ fetched[c] # None
      /\ UNCHANGED <<time, issuer, lastAttempt, requested, kid, start, fetched>>
      /\ pc'[c] = "releasing"
      /\ \A d \in Call \ {c} : pc'[d] = pc[d] /\ outcome'[d] = outcome[d]
  BY DEF Complete
<1>2. \/ /\ keys' = keys /\ expiry' = expiry
         /\ outcome'[c] = "unavailable"
      \/ /\ Observes(now) /\ now < start[c] + Ttl
         /\ keys' = fetched[c] /\ expiry' = start[c] + Ttl
         /\ outcome'[c] = "key" => kid[c] \in fetched[c]
  BY DEF Complete, OnTime, NewExpiry, Replacement
<1>3. lastClock' = IF Observes(now) THEN now ELSE lastClock
  BY DEF Complete
<1>4. QED
  BY <1>1, <1>2, <1>3

\* Installing a response keeps the bound, counted from the start of its fetch.
LEMMA CompleteTrust ==
    ASSUME Inv, NEW c \in Call, NEW now \in Readings, Complete(c, now)
    PROVE  TrustInv'
<1>1. /\ pc[c] = "fetching" /\ fetched[c] # None
      /\ UNCHANGED <<time, issuer, lastAttempt, requested, kid, start, fetched>>
      /\ pc'[c] = "releasing"
      /\ \A d \in Call \ {c} : pc'[d] = pc[d]
      /\ \/ keys' = keys /\ expiry' = expiry
         \/ /\ Observes(now) /\ now < start[c] + Ttl
            /\ keys' = fetched[c] /\ expiry' = start[c] + Ttl
      /\ lastClock' = IF Observes(now) THEN now ELSE lastClock
  BY CompleteKinds DEF Inv
<1> USE NoneAssumption, EndpointAssumption, BoundsAssumption
        DEF Inv, TypeInv, TypeOK, Moment
<1>2. now = None \/ (now \in Moment /\ now <= time)
  BY ReadingTypes
<1>3. start[c] \in Moment /\ start[c] <= time
  BY <1>1 DEF CallFits, TrustInv, FetchFits
<1>4. /\ lastClock # None => lastClock' # None
      /\ lastClock' # None => lastClock' <= time
  BY <1>1, <1>2 DEF TrustInv, CacheFits, Observes
<1>5. CacheFits'
  <2>1. CASE keys' = keys /\ expiry' = expiry
    BY <1>1, <1>4, <2>1 DEF TrustInv, CacheFits, issuer
  <2>2. CASE /\ Observes(now) /\ keys' = fetched[c] /\ expiry' = start[c] + Ttl
    <3>1. \A k \in fetched[c] : k \in Kid /\ HeldAt(k, start[c])
      BY <1>1 DEF TrustInv, FetchFits
    <3>2. \A k \in keys' : k \in published'
                           \/ (withdrawn'[k] # None /\ expiry' <= withdrawn'[k] + Ttl)
      BY <1>1, <1>3, <2>2, <3>1 DEF HeldAt, issuer
    <3>3. lastClock' # None /\ expiry' <= time' + Ttl /\ expiry' # None
      BY <1>1, <1>2, <1>3, <2>2 DEF Observes
    <3>4. QED
      BY <1>1, <1>4, <3>2, <3>3 DEF TrustInv, CacheFits
  <2>3. QED
    BY <1>1, <2>1, <2>2
<1>6. ASSUME NEW d \in Call PROVE FetchFits(d)'
  BY <1>1, <1>4 DEF TrustInv, FetchFits, HeldAt, issuer
<1>7. QED
  BY <1>5, <1>6 DEF TrustInv

\* A response, its loss, and the steps that leave the cache contents alone.
LEMMA CallTrust ==
    ASSUME Inv, NEW c \in Call,
           Serve(c) \/ FetchFails(c) \/ Cancel(c) \/ Release(c) \/ Malformed(c)
           \/ Verify(c) \/ Return(c)
    PROVE  TrustInv'
<1> USE DEF Inv, TypeInv, TypeOK, issuer, cache
<1>1. /\ UNCHANGED <<time, published, withdrawn, keys, expiry, lastAttempt, lastClock,
                     requested>>
      /\ \A d \in Call \ {c} : /\ pc'[d] = pc[d] /\ start'[d] = start[d]
                               /\ fetched'[d] = fetched[d]
  BY DEF Serve, FetchFails, Cancel, Release, Malformed, Verify, Return, Reply
<1>2. CacheFits'
  BY <1>1 DEF TrustInv, CacheFits
<1>3. ASSUME NEW d \in Call \ {c} PROVE FetchFits(d)'
  BY <1>1 DEF TrustInv, FetchFits, HeldAt
<1>4. FetchFits(c)'
  <2>1. CASE Serve(c)
    <3>1. start[c] \in Moment /\ start[c] <= time /\ lastClock # None
      BY <2>1 DEF Serve, CallFits, TrustInv, FetchFits
    <3>2. QED
      BY <1>1, <2>1, <3>1 DEF Serve, FetchFits, HeldAt
  <2>2. CASE FetchFails(c)
    BY <1>1, <2>2 DEF FetchFails, TrustInv, FetchFits, HeldAt
  <2>3. CASE Cancel(c) \/ Release(c) \/ Malformed(c) \/ Verify(c) \/ Return(c)
    BY <2>3 DEF Cancel, Release, Malformed, Verify, Return, Reply, FetchFits
  <2>4. QED
    BY <2>1, <2>2, <2>3
<1>5. QED
  BY <1>2, <1>3, <1>4 DEF TrustInv

\* Every step keeps the invariant.
LEMMA NextInv == Inv /\ [Next]_vars => Inv'
<1> SUFFICES ASSUME Inv, [Next]_vars PROVE Inv'
  OBVIOUS
<1>1. TypeInv'
  BY NextTypes DEF Inv
<1>2. TrustInv'
  BY WorldTrust, GetTrust, CompleteTrust, CallTrust DEF Next, Completes, FetchEnds
<1>3. QED
  BY <1>1, <1>2 DEF Inv

\* The state of the key cache satisfies the inductive invariant.
THEOREM Invariance == Spec => []Inv
<1>1. Init => Inv
  <2> SUFFICES ASSUME Init PROVE Inv
    OBVIOUS
  <2>1. CacheFits
    BY DEF Init, CacheFits
  <2>2. \A c \in Call : FetchFits(c)
    BY DEF Init, FetchFits
  <2>3. QED
    BY <2>1, <2>2, InitTypes DEF Inv, TrustInv
<1>2. QED
  BY <1>1, NextInv, PTL DEF Spec

\* A call obtains a key from a fresh cache or from the response it installs.
LEMMA ObtainKinds ==
    ASSUME Inv, [Next]_vars, NEW c \in Call, Obtains(c)
    PROVE  /\ kid'[c] \in keys' /\ kid'[c] \in Kid /\ UNCHANGED issuer
           /\ expiry' # None /\ lastClock' \in Nat /\ lastClock' < expiry'
           /\ lastClock # None => lastClock <= lastClock'
<1> USE DEF Obtains
<1>1. ASSUME NEW d \in Call, NEW k \in Kid, NEW e \in Exps, NEW now \in Readings,
             Get(d, k, e, now)
      PROVE  /\ d = c /\ Observes(now) /\ Fresh(now) /\ lastClock' = now
             /\ kid'[c] \in keys /\ UNCHANGED <<keys, expiry, issuer>>
  BY <1>1, GetKinds DEF Inv
<1>2. ASSUME NEW d \in Call, NEW now \in Readings, Complete(d, now)
      PROVE  /\ d = c /\ Observes(now) /\ now < start[c] + Ttl /\ lastClock' = now
             /\ keys' = fetched[c] /\ expiry' = start[c] + Ttl /\ start[c] # None
             /\ kid'[c] \in fetched[c] /\ fetched[c] # None /\ UNCHANGED issuer
  <2>1. start[d] # None
    BY <1>2 DEF Complete, Inv, TypeInv, CallFits
  <2>2. d = c
    BY <1>2, CompleteKinds DEF Inv
  <2>3. QED
    BY <1>2, <2>1, <2>2, CompleteKinds DEF Inv
<1>3. ASSUME NEW d \in Call,
             Serve(d) \/ FetchFails(d) \/ Cancel(d) \/ Release(d) \/ Malformed(d)
             \/ Verify(d) \/ Return(d)
      PROVE  FALSE
  BY <1>3, NoneAssumption DEF Serve, FetchFails, Cancel, Release, Malformed, Verify,
         Return, Reply, Inv, TypeInv, TypeOK
<1>4. ASSUME UNCHANGED calls PROVE FALSE
  BY <1>4 DEF calls
<1>5. ASSUME NEW now \in Readings, Observes(now)
      PROVE  now \in Nat /\ (lastClock # None => lastClock <= now)
  BY <1>5, ReadingTypes, BoundsAssumption DEF Observes, Inv, TypeInv, TypeOK, Moment
<1>6. CASE \E d \in Call, k \in Kid, e \in Exps, now \in Readings : Get(d, k, e, now)
  <2>1. kid'[c] \in Kid
    BY <1>1, <1>6 DEF Inv, TypeInv, TypeOK
  <2>2. QED
    BY <1>1, <1>5, <1>6, <2>1 DEF Fresh
<1>7. CASE \E d \in Call, now \in Readings : Complete(d, now)
  <2>1. PICK now \in Readings : Complete(c, now)
    BY <1>2, <1>7
  <2>2. kid'[c] \in Kid /\ start[c] + Ttl \in Nat
    BY <1>2, <2>1, EndpointAssumption, BoundsAssumption DEF Inv, TypeInv, TypeOK, Moment
  <2>3. QED
    BY <1>2, <1>5, <2>1, <2>2, NoneAssumption
<1>8. QED
  BY <1>3, <1>4, <1>6, <1>7
     DEF Next, Completes, FetchEnds, Withdraw, Announce, Tick, SetWall, vars

\* docs/authentication.md, "bounded rotation/revocation lag": no key is used at a
\* reading Ttl or more after its withdrawal, whatever the clock shows.
THEOREM RevocationLagIsBounded == Spec => TrustIsBounded
<1> DEFINE Bounded == \A c \in Call : Obtains(c) =>
                         \/ kid'[c] \in published
                         \/ /\ withdrawn[kid'[c]] # None
                            /\ lastClock' < withdrawn[kid'[c]] + Ttl
<1>1. Inv /\ Inv' /\ [Next]_vars => [Bounded]_vars
  <2> SUFFICES ASSUME Inv, Inv', [Next]_vars, NEW c \in Call, Obtains(c)
               PROVE  \/ kid'[c] \in published
                      \/ /\ withdrawn[kid'[c]] # None
                         /\ lastClock' < withdrawn[kid'[c]] + Ttl
    OBVIOUS
  <2>1. /\ kid'[c] \in keys' /\ kid'[c] \in Kid /\ UNCHANGED issuer
        /\ expiry' # None /\ lastClock' \in Nat /\ lastClock' < expiry'
    BY ObtainKinds
  <2>2. \/ kid'[c] \in published'
        \/ withdrawn'[kid'[c]] # None /\ expiry' <= withdrawn'[kid'[c]] + Ttl
    BY <2>1 DEF Inv, TrustInv, CacheFits
  <2>3. expiry' \in Nat /\ withdrawn'[kid'[c]] \in Nat \cup {None}
    BY <2>1, BoundsAssumption DEF Inv, TypeInv, TypeOK, Moment
  <2>4. QED
    BY <2>1, <2>2, <2>3, EndpointAssumption DEF issuer
<1>2. QED
  BY <1>1, Invariance, PTL DEF Spec, TrustIsBounded

\* docs/key-refresh-tests.md, "not newly fresh trust": a set seen expired gives
\* no key until a later response replaces it.
THEOREM ExpiredStaysExpired == Spec => NeverNewlyFresh
<1> DEFINE Later == \A c \in Call : Obtains(c) /\ expiry # None /\ lastClock >= expiry
                                       => expiry' > lastClock
<1>1. Inv /\ Inv' /\ [Next]_vars => [Later]_vars
  <2> SUFFICES ASSUME Inv, Inv', [Next]_vars, NEW c \in Call, Obtains(c), expiry # None
               PROVE  expiry' > lastClock
    OBVIOUS
  <2>1. /\ expiry' # None /\ lastClock' \in Nat /\ lastClock' < expiry'
        /\ lastClock # None => lastClock <= lastClock'
    BY ObtainKinds
  <2>2. lastClock # None
    BY DEF Inv, TrustInv, CacheFits
  <2>3. expiry' \in Nat /\ lastClock \in Nat
    BY <2>1, <2>2, BoundsAssumption DEF Inv, TypeInv, TypeOK, Moment
  <2>4. QED
    BY <2>1, <2>2, <2>3
<1>2. QED
  BY <1>1, Invariance, PTL DEF Spec, NeverNewlyFresh

\* The cooldown of the cache: two requests to the issuer are Interval apart,
\* whether the first succeeded, failed or was cancelled.
THEOREM FetchSpacing == Spec => FetchesAreSpaced
<1> DEFINE Spaced == \A c \in Call :
                        pc[c] # "fetching" /\ pc'[c] = "fetching" /\ requested # None
                           => start'[c] >= requested + Interval
<1>1. Inv /\ [Next]_vars => [Spaced]_vars
  <2> SUFFICES ASSUME Inv, [Next]_vars, NEW c \in Call, pc[c] # "fetching",
                      pc'[c] = "fetching", requested # None
               PROVE  start'[c] >= requested + Interval
    OBVIOUS
  <2>1. ASSUME NEW d \in Call, NEW k \in Kid, NEW e \in Exps, NEW now \in Readings,
               Get(d, k, e, now)
        PROVE  start'[c] >= requested + Interval
    <3>1. start'[c] = now /\ ~MayNotFetch(now) /\ Observes(now)
      BY <2>1, GetKinds, ZenonT(60) DEF Inv
    <3>2. now \in Nat /\ requested \in Nat
      BY <3>1, ReadingTypes, BoundsAssumption
         DEF Observes, Inv, TypeInv, TypeOK, Moment
    <3>3. requested = lastAttempt
      BY DEF Inv, TrustInv, CacheFits
    <3>4. QED
      BY <3>1, <3>2, <3>3, EndpointAssumption DEF MayNotFetch, CoolingDown
  <2>2. ASSUME NEW d \in Call, NEW now \in Readings,
               Complete(d, now) \/ Serve(d) \/ FetchFails(d) \/ Cancel(d) \/ Release(d)
               \/ Malformed(d) \/ Verify(d) \/ Return(d)
        PROVE  FALSE
    BY <2>2 DEF Complete, Serve, FetchFails, Cancel, Release, Malformed, Verify,
                Return, Reply, Inv, TypeInv, TypeOK
  <2>3. ASSUME UNCHANGED calls PROVE FALSE
    BY <2>3 DEF calls
  <2>4. time \in Readings
    BY DEF Readings
  <2>5. QED
    BY <2>1, <2>2, <2>3, <2>4
       DEF Next, Completes, FetchEnds, Withdraw, Announce, Tick, SetWall, vars
<1>2. QED
  BY <1>1, Invariance, PTL DEF Spec, FetchesAreSpaced

\* Which steps refuse a token as invalid.
LEMMA InvalidKinds ==
    ASSUME Inv, [Next]_vars, NEW c \in Call, outcome'[c] # outcome[c],
           outcome'[c] = "invalid"
    PROVE  \/ Malformed(c)
           \/ Verify(c)
           \/ \E k \in Kid, e \in Exps, now \in Readings : Get(c, k, e, now)
           \/ \E now \in Readings : Complete(c, now)
<1> USE NoneAssumption DEF Inv, TypeInv, TypeOK
<1>1. ASSUME NEW d \in Call, NEW k \in Kid, NEW e \in Exps, NEW now \in Readings,
             Get(d, k, e, now)
      PROVE  d = c
  BY <1>1 DEF Get, Reply
<1>2. ASSUME NEW d \in Call, NEW now \in Readings, Complete(d, now)
      PROVE  d = c
  BY <1>2 DEF Complete
<1>3. ASSUME NEW d \in Call, Malformed(d) \/ Verify(d)
      PROVE  d = c
  BY <1>3 DEF Malformed, Verify, Reply
<1>4. ASSUME NEW d \in Call,
             Serve(d) \/ FetchFails(d) \/ Cancel(d) \/ Release(d) \/ Return(d)
      PROVE  FALSE
  BY <1>4 DEF Serve, FetchFails, Cancel, Release, Return
<1>5. ASSUME UNCHANGED calls PROVE FALSE
  BY <1>5 DEF calls
<1>6. QED
  BY <1>1, <1>2, <1>3, <1>4, <1>5
     DEF Next, Completes, FetchEnds, Withdraw, Announce, Tick, SetWall, vars

\* docs/authentication.md: a caller is told 401 for an unknown key only against
\* a key set that is trusted at that reading; every other failure of the cache,
\* the clock or the issuer is a 503.
THEOREM UnknownKeysAreHonest == Spec => InvalidIsHonest
<1> DEFINE Honest == \A c \in Call :
                        /\ pc[c] # "verify" /\ kid'[c] # None
                        /\ outcome[c] # "invalid" /\ outcome'[c] = "invalid"
                        => expiry' # None /\ lastClock' < expiry' /\ kid'[c] \notin keys'
<1>1. Inv /\ [Next]_vars => [Honest]_vars
  <2> SUFFICES ASSUME Inv, [Next]_vars, NEW c \in Call, pc[c] # "verify",
                      kid'[c] # None, outcome[c] # "invalid", outcome'[c] = "invalid"
               PROVE  expiry' # None /\ lastClock' < expiry' /\ kid'[c] \notin keys'
    OBVIOUS
  <2> USE NoneAssumption DEF Inv, TypeInv, TypeOK
  <2>1. ASSUME NEW k \in Kid, NEW e \in Exps, NEW now \in Readings, Get(c, k, e, now)
        PROVE  expiry' # None /\ lastClock' < expiry' /\ kid'[c] \notin keys'
    <3>1. /\ outcome[c] = None /\ kid'[c] = k /\ UNCHANGED <<keys, expiry>>
          /\ Observes(now) /\ lastClock' = now
          /\ ~(Fresh(now) /\ k \in keys) /\ Fresh(now)
      BY <2>1 DEF Get, Reply, CallFits, cache
    <3>2. QED
      BY <3>1 DEF Fresh
  <2>2. ASSUME NEW now \in Readings, Complete(c, now)
        PROVE  expiry' # None /\ lastClock' < expiry' /\ kid'[c] \notin keys'
    <3>1. /\ Observes(now) /\ OnTime(c, now) /\ lastClock' = now
          /\ keys' = Replacement(c) /\ kid[c] \notin Replacement(c)
          /\ expiry' = NewExpiry(c, now) /\ kid' = kid
      BY <2>2 DEF Complete
    <3>2. start[c] \in Nat
      BY <2>2, BoundsAssumption DEF Complete, CallFits, Moment
    <3>3. start[c] + Ttl \in Nat
      BY <3>2, EndpointAssumption
    <3>4. QED
      BY <3>1, <3>3 DEF OnTime, NewExpiry
  <2>3. ~Malformed(c) /\ ~Verify(c)
    BY DEF Malformed, Verify, CallFits
  <2>4. QED
    BY <2>1, <2>2, <2>3, InvalidKinds
<1>2. QED
  BY <1>1, Invariance, PTL DEF Spec, InvalidIsHonest

-----------------------------------------------------------------------------
(* What is trusted stays trusted: a response that may still be installed is  *)
(* of a fetch that began after the one that filled the cache had ended.      *)

KeptFits(c) ==
    pc[c] = "fetching" =>
        /\ start[c] <= lastClock
        /\ expiry # None => expiry <= start[c] + Ttl
        /\ fetched[c] \notin {None, {}} => \A k \in Kid : StillServed(k) => k \in fetched[c]

KeptInv ==
    /\ expiry # None => expiry <= lastClock + Ttl
    /\ \A c \in Call : KeptFits(c)

KeepsTrust ==
    /\ \A k \in Kid : StillServed(k) => k \in keys'
    /\ expiry # None => expiry' # None /\ expiry <= expiry'

\* Steps that leave the cached set alone.
LEMMA SameTrust == TypeInv /\ UNCHANGED <<keys, expiry>> => KeepsTrust
  BY DEF TypeInv, TypeOK, StillServed, KeepsTrust

\* A fetch begins at a reading no earlier than any before, hence no earlier than
\* the one at which the cached set was asked for.
LEMMA GetKept ==
    ASSUME Inv, KeptInv, NEW c \in Call, NEW k \in Kid, NEW e \in Exps,
           NEW now \in Readings, Get(c, k, e, now)
    PROVE  KeptInv' /\ KeepsTrust
<1>1. /\ pc[c] = "idle" /\ UNCHANGED <<keys, expiry, fetched, time, issuer>>
      /\ \A d \in Call \ {c} : pc'[d] = pc[d] /\ start'[d] = start[d]
      /\ pc'[c] = "fetching" => Observes(now) /\ start'[c] = now
      /\ lastClock' = lastClock \/ (Observes(now) /\ lastClock' = now)
  BY GetKinds DEF Inv
<1> USE NoneAssumption, EndpointAssumption, BoundsAssumption
        DEF Inv, TypeInv, TypeOK, Moment
<1>2. now = None \/ now \in Nat
  BY ReadingTypes
<1>3. lastClock # None => /\ lastClock \in Nat /\ lastClock' \in Nat
                          /\ lastClock <= lastClock'
  BY <1>1, <1>2 DEF Observes
<1>4. \A j \in Kid : StillServed(j)' <=> StillServed(j)
  BY <1>1 DEF StillServed, issuer
<1>5. expiry # None => /\ lastClock # None /\ expiry \in Nat
                       /\ expiry <= lastClock + Ttl
  BY DEF TrustInv, CacheFits, KeptInv
<1>6. ASSUME NEW d \in Call \ {c} PROVE KeptFits(d)'
  <2>1. pc[d] = "fetching" => lastClock # None /\ start[d] \in Nat
    BY DEF TrustInv, FetchFits, CallFits
  <2>2. QED
    BY <1>1, <1>3, <1>4, <2>1 DEF KeptInv, KeptFits
<1>7. KeptFits(c)'
  <2>1. SUFFICES ASSUME pc'[c] = "fetching" PROVE KeptFits(c)'
    BY DEF KeptFits
  <2>2. start'[c] = now /\ Observes(now) /\ now \in Nat
    BY <1>1, <1>2, <2>1 DEF Observes
  <2>3. lastClock' = now
    BY <2>1 DEF Get, Reply
  <2>4. fetched'[c] = None
    BY <1>1 DEF CallFits
  <2>5. expiry' # None => expiry' <= start'[c] + Ttl
    BY <1>1, <1>5, <2>2 DEF Observes
  <2>6. QED
    BY <2>2, <2>3, <2>4, <2>5 DEF KeptFits
<1>8. expiry' # None => expiry' <= lastClock' + Ttl
  BY <1>1, <1>3, <1>5
<1>9. KeepsTrust
  BY <1>1, SameTrust
<1>10. QED
  BY <1>6, <1>7, <1>8, <1>9 DEF KeptInv

\* A bound on a deadline still holds at a later reading.
LEMMA Later ==
    ASSUME NEW deadline \in Nat, NEW a \in Nat, NEW b \in Nat, NEW t \in Nat,
           a <= b, deadline <= a + t
    PROVE  deadline <= b + t
  OBVIOUS

\* A response that is installed has every key that is still served, and a later
\* deadline; it was the only one under way.
LEMMA CompleteKept ==
    ASSUME Inv, OneFetch, KeptInv, NEW c \in Call, NEW now \in Readings, Complete(c, now)
    PROVE  KeptInv' /\ KeepsTrust
<1>1. /\ pc[c] = "fetching" /\ UNCHANGED <<time, issuer, start, fetched>>
      /\ pc'[c] = "releasing"
      /\ \A d \in Call \ {c} : pc'[d] = pc[d]
      /\ lastClock' = IF Observes(now) THEN now ELSE lastClock
  BY CompleteKinds DEF Inv
<1>2. \/ keys' = keys /\ expiry' = expiry
      \/ /\ fetched[c] \notin {None, {}}
         /\ keys' = fetched[c] /\ expiry' = start[c] + Ttl
  BY DEF Complete, Replacement, NewExpiry
<1> USE NoneAssumption, EndpointAssumption, BoundsAssumption
        DEF Inv, TypeInv, TypeOK, Moment
<1>3. now = None \/ now \in Nat
  BY ReadingTypes
<1>4. /\ start[c] \in Nat /\ lastClock \in Nat /\ start[c] <= lastClock
      /\ expiry # None => expiry <= start[c] + Ttl
  BY <1>1 DEF CallFits, TrustInv, FetchFits, KeptInv, KeptFits
<1>5. lastClock' \in Nat /\ lastClock <= lastClock'
  BY <1>1, <1>3, <1>4 DEF Observes
<1>6. ASSUME NEW d \in Call PROVE KeptFits(d)'
  <2>1. pc[d] = "fetching" => d = c
    BY <1>1 DEF OneFetch, InFlight
  <2>2. pc'[d] # "fetching"
    BY <1>1, <2>1
  <2>3. QED
    BY <2>2 DEF KeptFits
<1>7. expiry' # None => expiry' <= lastClock' + Ttl
  <2>1. ASSUME expiry' = expiry, expiry' # None PROVE expiry' <= lastClock' + Ttl
    <3>1. expiry \in Nat /\ expiry <= lastClock + Ttl
      BY <2>1 DEF KeptInv
    <3>2. Ttl \in Nat
      BY EndpointAssumption
    <3>3. expiry <= lastClock' + Ttl
      BY <1>4, <1>5, <3>1, <3>2, Later
    <3>4. QED
      BY <2>1, <3>3, Zenon
  <2>2. CASE expiry' = start[c] + Ttl
    BY <1>4, <1>5, <2>2
  <2>3. QED
    BY <1>2, <2>1, <2>2
<1>8. KeepsTrust
  <2>1. CASE keys' = keys /\ expiry' = expiry
    BY <2>1, SameTrust
  <2>2. CASE /\ fetched[c] \notin {None, {}}
             /\ keys' = fetched[c] /\ expiry' = start[c] + Ttl
    <3>1. \A k \in Kid : StillServed(k) => k \in keys'
      BY <1>1, <2>2 DEF KeptInv, KeptFits
    <3>2. expiry # None => expiry' # None /\ expiry <= expiry'
      BY <1>4, <2>2
    <3>3. QED
      BY <3>1, <3>2 DEF KeepsTrust
  <2>3. QED
    BY <1>2, <2>1, <2>2
<1>9. QED
  BY <1>6, <1>7, <1>8 DEF KeptInv

\* The issuer answers with all that it serves; the other steps of a call neither
\* fill the cache nor begin a fetch.
LEMMA CallKept ==
    ASSUME Inv, KeptInv, NEW c \in Call,
           Serve(c) \/ FetchFails(c) \/ Cancel(c) \/ Release(c) \/ Malformed(c)
           \/ Verify(c) \/ Return(c)
    PROVE  KeptInv' /\ KeepsTrust
<1> USE DEF Inv, TypeInv, TypeOK
<1>1. /\ UNCHANGED <<published, withdrawn, keys, expiry, lastClock>>
      /\ \A d \in Call \ {c} : /\ pc'[d] = pc[d] /\ start'[d] = start[d]
                               /\ fetched'[d] = fetched[d]
  BY DEF Serve, FetchFails, Cancel, Release, Malformed, Verify, Return, Reply, issuer, cache
<1>2. \A j \in Kid : StillServed(j)' <=> StillServed(j)
  BY <1>1 DEF StillServed
<1>3. ASSUME NEW d \in Call \ {c} PROVE KeptFits(d)'
  BY <1>1, <1>2 DEF KeptInv, KeptFits
<1>4. KeptFits(c)'
  <2>1. CASE Serve(c)
    <3>1. /\ pc[c] = "fetching" /\ pc'[c] = pc[c] /\ start'[c] = start[c]
          /\ fetched'[c] = published
      BY <2>1 DEF Serve
    <3>2. \A j \in Kid : StillServed(j)' => j \in fetched'[c]
      BY <1>2, <3>1 DEF StillServed
    <3>3. QED
      BY <1>1, <3>1, <3>2 DEF KeptInv, KeptFits
  <2>2. CASE FetchFails(c)
    <3>1. /\ pc[c] = "fetching" /\ pc'[c] = pc[c] /\ start'[c] = start[c]
          /\ fetched'[c] = {}
      BY <2>2 DEF FetchFails
    <3>2. QED
      BY <1>1, <3>1 DEF KeptInv, KeptFits
  <2>3. CASE Cancel(c) \/ Release(c) \/ Malformed(c) \/ Verify(c) \/ Return(c)
    <3>1. pc'[c] # "fetching"
      BY <2>3 DEF Cancel, Release, Malformed, Verify, Return, Reply
    <3>2. QED
      BY <3>1 DEF KeptFits
  <2>4. QED
    BY <2>1, <2>2, <2>3
<1>5. expiry' # None => expiry' <= lastClock' + Ttl
  BY <1>1 DEF KeptInv
<1>6. KeepsTrust
  BY <1>1, SameTrust
<1>7. QED
  BY <1>3, <1>4, <1>5, <1>6 DEF KeptInv

\* A cached key that is announced again was withdrawn after its fetch began, so
\* that nothing more is still served than before.
LEMMA WorldKept ==
    ASSUME Inv, KeptInv, (\E k \in Kid : Withdraw(k) \/ Announce(k)) \/ Tick \/ SetWall
                         \/ UNCHANGED vars
    PROVE  KeptInv' /\ KeepsTrust
<1> USE DEF Inv, TypeInv, TypeOK
<1>1. UNCHANGED <<keys, expiry, lastClock, pc, start, fetched>>
  BY DEF Withdraw, Announce, Tick, SetWall, vars, cache, calls
<1>2. ASSUME NEW j \in Kid, StillServed(j)' PROVE StillServed(j)
  <2>1. ASSUME NEW k \in Kid, Withdraw(k) PROVE StillServed(j)
    <3>1. /\ published' = published \ {k}
          /\ withdrawn' = [withdrawn EXCEPT ![k] = time]
      BY <2>1 DEF Withdraw
    <3>2. j # k /\ j \in published /\ withdrawn'[j] = withdrawn[j]
      BY <1>2, <3>1 DEF StillServed
    <3>3. QED
      BY <1>1, <1>2, <3>2 DEF StillServed
  <2>2. ASSUME NEW k \in Kid, Announce(k) PROVE StillServed(j)
    <3>1. published' = published \cup {k} /\ withdrawn' = withdrawn
      BY <2>2 DEF Announce
    <3>2. /\ j \in keys
          /\ withdrawn[j] = None \/ withdrawn[j] + Ttl < expiry
      BY <1>1, <1>2, <3>1 DEF StillServed
    <3>3. expiry # None /\ expiry \in Nat
      BY <3>2 DEF TrustInv, CacheFits
    <3>4. j \in published \/ (withdrawn[j] # None /\ expiry <= withdrawn[j] + Ttl)
      BY <3>2, <3>3 DEF TrustInv, CacheFits
    <3>5. withdrawn[j] # None => withdrawn[j] + Ttl \in Nat
      BY EndpointAssumption, BoundsAssumption DEF Moment
    <3>6. j \in published
      BY <3>2, <3>3, <3>4, <3>5
    <3>7. QED
      BY <3>2, <3>6 DEF StillServed
  <2>3. CASE Tick \/ SetWall \/ UNCHANGED vars
    <3>1. published' = published /\ withdrawn' = withdrawn
      BY <2>3 DEF Tick, SetWall, vars, issuer
    <3>2. QED
      BY <1>1, <1>2, <3>1 DEF StillServed
  <2>4. QED
    BY <2>1, <2>2, <2>3
<1>3. \A d \in Call : KeptFits(d)'
  BY <1>1, <1>2 DEF KeptInv, KeptFits
<1>4. KeepsTrust
  BY <1>1, SameTrust
<1>5. QED
  BY <1>1, <1>3, <1>4 DEF KeptInv

\* docs/key-refresh-tests.md, "Failed replacement while A remains fresh": whatever
\* becomes of the fetches, no key that the issuer still serves is lost from the
\* cache and no deadline is moved forward.
THEOREM NoTrustIsLost == Spec => TrustIsKept
<1>1. Init => KeptInv
  BY DEF Init, KeptInv, KeptFits
<1>2. Inv /\ OneFetch /\ KeptInv /\ [Next]_vars => KeptInv' /\ [KeepsTrust]_vars
  <2> SUFFICES ASSUME Inv, OneFetch, KeptInv, [Next]_vars
               PROVE  KeptInv' /\ KeepsTrust
    OBVIOUS
  <2>1. CASE \E c \in Call, k \in Kid, e \in Exps, now \in Readings : Get(c, k, e, now)
    BY <2>1, GetKept
  <2>2. CASE \E c \in Call, now \in Readings : Complete(c, now)
    BY <2>2, CompleteKept
  <2>3. CASE \E c \in Call : \/ Serve(c) \/ FetchFails(c) \/ Cancel(c) \/ Release(c)
                             \/ Malformed(c) \/ Verify(c) \/ Return(c)
    BY <2>3, CallKept
  <2>4. CASE (\E k \in Kid : Withdraw(k) \/ Announce(k)) \/ Tick \/ SetWall
             \/ UNCHANGED vars
    BY <2>4, WorldKept
  <2>5. QED
    BY <2>1, <2>2, <2>3, <2>4 DEF Next, Completes, FetchEnds
<1>3. QED
  BY <1>1, <1>2, Invariance, FetchIsExclusive, PTL DEF Spec, TrustIsKept, KeepsTrust
=============================================================================
