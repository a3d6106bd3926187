------------------------------ MODULE KeyCache ------------------------------
(***************************************************************************)
(* The issuer-key cache of authentication/keys.rs (RemoteKeys::get) and its *)
(* use by JwtVerifier::verify_async.  One cache is shared by all requests. *)
(* Its mutex is never held across an await, so one call is these steps:    *)
(*                                                                         *)
(*   Get       the first critical section: answer from the cache, refuse,  *)
(*             or claim the one fetch                                      *)
(*   Serve     the issuer answers the HTTPS request (or FetchFails)        *)
(*   Complete  the second critical section, after the await                *)
(*   Release   the drop of Attempt, which locks again to clear busy        *)
(*   Verify    the claims are checked against a new wall-clock reading     *)
(*                                                                         *)
(* A call may be cancelled while it awaits the fetch.  A call that has     *)
(* answered becomes another request: there is no bound on their number.    *)
(***************************************************************************)
EXTENDS Naturals, FiniteSets

CONSTANTS
    Call,           \* requests being authenticated at the same time
    None,           \* Option::None
    Kid,            \* key identifiers
    Ttl,            \* cache_ttl_seconds
    Interval,       \* refresh_interval_seconds
    MaxTime,        \* bound on the key clock
    Walls,          \* readings of the token clock, None if before the epoch
    Exps,           \* exp claims of the tokens presented
    ClockMayFail    \* whether the key clock may be absent or read backward

ASSUME NoneAssumption ==
    /\ None \notin Kid /\ None \notin Nat
    /\ None \notin {"key", "accepted", "invalid"}
    /\ \A S \in SUBSET Kid : None # S
ASSUME EndpointAssumption ==
    /\ Ttl \in Nat /\ Interval \in Nat
    /\ 1 <= Interval /\ Interval <= Ttl
ASSUME BoundsAssumption ==
    /\ MaxTime \in Nat /\ Exps \subseteq Nat /\ ClockMayFail \in BOOLEAN
    /\ 0 \in Walls /\ \A w \in Walls : w = None \/ w \in Nat

VARIABLES
    time,           \* elapsed time of the process
    wall,           \* SystemClock: the token clock, None before the epoch
    published,      \* the key set the issuer serves now
    withdrawn,      \* when the issuer last withdrew each key
    keys,           \* Cache.keys
    expiry,         \* Cache.expiry
    lastAttempt,    \* Cache.last_attempt
    lastClock,      \* Cache.last_clock
    busy,           \* Cache.busy
    requested,      \* history: the reading at which the issuer was last asked
    pc,             \* where each call is
    kid,            \* the key identifier of its token
    exp,            \* the exp claim of its token
    start,          \* the reading at which its fetch started
    fetched,        \* the result of its fetch: None while in flight, {} on error
    outcome         \* what it will answer

issuer == <<published, withdrawn>>
cache == <<keys, expiry, lastAttempt, lastClock, busy, requested>>
calls == <<pc, kid, exp, start, fetched, outcome>>
vars == <<time, wall, issuer, cache, calls>>

Moment == 0 .. MaxTime

Answer == {"accepted", "invalid", "insufficient_scope", "unavailable"}

\* What clock.now() may return to a caller.
Readings == {time} \cup (IF ClockMayFail THEN 0 .. time \cup {None} ELSE {})

-----------------------------------------------------------------------------
(* Cache.                                                                  *)

\* Mutant: a reading below the last one is believed.
ObservesAny(now) == now # None

\* Cache::observe succeeds; it then stores now in last_clock.
Observes(now) == now # None /\ (lastClock # None => now >= lastClock)

\* Mutant: the expiry boundary is inclusive.
FreshInclusive(now) == expiry # None /\ now <= expiry

Fresh(now) == expiry # None /\ now < expiry

CoolingDown(now) == lastAttempt # None /\ now < lastAttempt + Interval

\* Mutant: only the cooldown limits fetches.
MayNotFetchCooling(now) == CoolingDown(now)

MayNotFetch(now) == busy \/ CoolingDown(now)

-----------------------------------------------------------------------------
(* One call.                                                               *)

Reply(c, what) ==
    /\ pc' = [pc EXCEPT ![c] = "answered"]
    /\ outcome' = [outcome EXCEPT ![c] = what]

\* bearer and parse_token refuse a header before any key is looked up.
Malformed(c) ==
    /\ pc[c] = "idle"
    /\ Reply(c, "invalid")
    /\ UNCHANGED <<time, wall, issuer, cache, kid, exp, start, fetched>>

\* A first reading of the token clock, the first critical section of get
\* and, when it claims the fetch, the sending of the request.
Get(c, k, e, now) ==
    /\ pc[c] = "idle"
    /\ kid' = [kid EXCEPT ![c] = k]
    /\ exp' = [exp EXCEPT ![c] = e]
    /\ IF wall = None \/ ~Observes(now)
       THEN /\ Reply(c, "unavailable")
            /\ UNCHANGED <<start, cache>>
       ELSE /\ lastClock' = now
            /\ \/ /\ Fresh(now) /\ k \in keys
                  /\ pc' = [pc EXCEPT ![c] = "verify"]
                  /\ outcome' = [outcome EXCEPT ![c] = "key"]
                  /\ UNCHANGED <<start, busy, lastAttempt, requested>>
               \/ /\ ~(Fresh(now) /\ k \in keys) /\ MayNotFetch(now)
                  /\ Reply(c, IF Fresh(now) THEN "invalid" ELSE "unavailable")
                  /\ UNCHANGED <<start, busy, lastAttempt, requested>>
               \/ /\ ~(Fresh(now) /\ k \in keys) /\ ~MayNotFetch(now)
                  /\ busy' = TRUE
                  /\ lastAttempt' = now
                  /\ requested' = now
                  /\ start' = [start EXCEPT ![c] = now]
                  /\ pc' = [pc EXCEPT ![c] = "fetching"]
                  /\ UNCHANGED outcome
            /\ UNCHANGED <<keys, expiry>>
    /\ UNCHANGED <<time, wall, issuer, fetched>>

\* The issuer reads its key set and sends it; key_set refuses an empty one.
Serve(c) ==
    /\ pc[c] = "fetching" /\ fetched[c] = None
    /\ fetched' = [fetched EXCEPT ![c] = published]
    /\ UNCHANGED <<time, wall, issuer, cache, pc, kid, exp, start, outcome>>

\* Mutant: a failure makes the cache forget what it trusts.
FetchFailsForgetting(c) ==
    /\ pc[c] = "fetching" /\ fetched[c] # {}
    /\ fetched' = [fetched EXCEPT ![c] = {}]
    /\ keys' = {} /\ expiry' = None
    /\ UNCHANGED <<time, wall, issuer, lastAttempt, lastClock, busy, requested, pc, kid,
                   exp, start, outcome>>

\* Timeout, transport error, refused response.
FetchFails(c) ==
    /\ pc[c] = "fetching" /\ fetched[c] # {}
    /\ fetched' = [fetched EXCEPT ![c] = {}]
    /\ UNCHANGED <<time, wall, issuer, cache, pc, kid, exp, start, outcome>>

\* Mutant: a late response is installed with what is left of its lifetime.
OnTimeAlways(c, now) == TRUE

OnTime(c, now) == now < start[c] + Ttl

\* Mutant: a slow fetch earns extra trust.
ExpiryFromNow(c, now) == now + Ttl

NewExpiry(c, now) == start[c] + Ttl

\* Mutant: the response is merged into the old set.
Merged(c) == keys \cup fetched[c]

Replacement(c) == fetched[c]

\* The second critical section.
Complete(c, now) ==
    /\ pc[c] = "fetching" /\ fetched[c] # None
    /\ pc' = [pc EXCEPT ![c] = "releasing"]
    /\ IF Observes(now) /\ OnTime(c, now) /\ fetched[c] # {}
       THEN /\ keys' = Replacement(c)
            /\ expiry' = NewExpiry(c, now)
            /\ outcome' = [outcome EXCEPT ![c] = IF kid[c] \in Replacement(c)
                                                 THEN "key" ELSE "invalid"]
       ELSE /\ outcome' = [outcome EXCEPT ![c] = "unavailable"]
            /\ UNCHANGED <<keys, expiry>>
    /\ lastClock' = IF Observes(now) THEN now ELSE lastClock
    /\ UNCHANGED <<time, wall, issuer, lastAttempt, busy, requested, kid, exp,
                   start, fetched>>

\* The future is dropped while it awaits: the request goes, then Attempt.
Cancel(c) ==
    /\ pc[c] = "fetching"
    /\ pc' = [pc EXCEPT ![c] = "releasing"]
    /\ outcome' = [outcome EXCEPT ![c] = "cancelled"]
    /\ UNCHANGED <<time, wall, issuer, cache, kid, exp, start, fetched>>

\* Mutant: a dropped future leaves busy set.
ReleaseUnlessCancelled(c) ==
    /\ pc[c] = "releasing"
    /\ busy' = (outcome[c] = "cancelled")
    /\ pc' = [pc EXCEPT ![c] = IF outcome[c] = "key" THEN "verify" ELSE "answered"]
    /\ start' = [start EXCEPT ![c] = None]
    /\ fetched' = [fetched EXCEPT ![c] = None]
    /\ UNCHANGED <<time, wall, issuer, keys, expiry, lastAttempt, lastClock,
                   requested, kid, exp, outcome>>

\* Mutant: a call that failed gives its attempt back.
ReleaseAttempt(c) ==
    /\ pc[c] = "releasing"
    /\ busy' = FALSE
    /\ lastAttempt' = IF outcome[c] = "key" THEN lastAttempt ELSE None
    /\ pc' = [pc EXCEPT ![c] = IF outcome[c] = "key" THEN "verify" ELSE "answered"]
    /\ start' = [start EXCEPT ![c] = None]
    /\ fetched' = [fetched EXCEPT ![c] = None]
    /\ UNCHANGED <<time, wall, issuer, keys, expiry, lastClock, requested,
                   kid, exp, outcome>>

\* Attempt::drop
Release(c) ==
    /\ pc[c] = "releasing"
    /\ busy' = FALSE
    /\ pc' = [pc EXCEPT ![c] = IF outcome[c] = "key" THEN "verify" ELSE "answered"]
    /\ start' = [start EXCEPT ![c] = None]
    /\ fetched' = [fetched EXCEPT ![c] = None]
    /\ UNCHANGED <<time, wall, issuer, keys, expiry, lastAttempt, lastClock,
                   requested, kid, exp, outcome>>

\* verify_with_key with a second reading of the token clock; the signature and
\* the other claims may refuse the token at any time.
Verify(c) ==
    /\ pc[c] = "verify"
    /\ \/ wall = None /\ Reply(c, "unavailable")
       \/ wall # None /\ \E why \in {"invalid", "insufficient_scope"} : Reply(c, why)
       \/ wall # None /\ wall < exp[c] /\ Reply(c, "accepted")
    /\ UNCHANGED <<time, wall, issuer, cache, kid, exp, start, fetched>>

\* The response is sent; another request takes its place.
Return(c) ==
    /\ pc[c] = "answered"
    /\ pc' = [pc EXCEPT ![c] = "idle"]
    /\ kid' = [kid EXCEPT ![c] = None]
    /\ exp' = [exp EXCEPT ![c] = 0]
    /\ outcome' = [outcome EXCEPT ![c] = None]
    /\ UNCHANGED <<time, wall, issuer, cache, start, fetched>>

-----------------------------------------------------------------------------
(* The issuer and the clocks.                                              *)

Withdraw(k) ==
    /\ k \in published
    /\ published' = published \ {k}
    /\ withdrawn' = [withdrawn EXCEPT ![k] = time]
    /\ UNCHANGED <<time, wall, cache, calls>>

Announce(k) ==
    /\ k \notin published
    /\ published' = published \cup {k}
    /\ UNCHANGED <<time, wall, withdrawn, cache, calls>>

Tick ==
    /\ time < MaxTime
    /\ time' = time + 1
    /\ UNCHANGED <<wall, issuer, cache, calls>>

\* The token clock moves, or is set to anything, even before the epoch.
SetWall ==
    /\ wall' \in Walls \ {wall}
    /\ UNCHANGED <<time, issuer, cache, calls>>

-----------------------------------------------------------------------------

Init ==
    /\ time = 0 /\ wall = 0
    /\ published \in SUBSET Kid
    /\ withdrawn = [k \in Kid |-> None]
    /\ keys = {} /\ expiry = None /\ lastAttempt = None /\ lastClock = None
    /\ busy = FALSE /\ requested = None
    /\ pc = [c \in Call |-> "idle"]
    /\ kid = [c \in Call |-> None]
    /\ exp = [c \in Call |-> 0]
    /\ start = [c \in Call |-> None]
    /\ fetched = [c \in Call |-> None]
    /\ outcome = [c \in Call |-> None]

\* What ends the fetch of a call: an answer or the configured timeout.
FetchEnds(c) == Serve(c) \/ FetchFails(c)

Completes(c) == \E now \in Readings : Complete(c, now)

Next ==
    \/ \E c \in Call :
        \/ \E k \in Kid, e \in Exps, now \in Readings : Get(c, k, e, now)
        \/ Malformed(c) \/ FetchEnds(c) \/ Completes(c) \/ Cancel(c) \/ Release(c)
        \/ Verify(c) \/ Return(c)
    \/ \E k \in Kid : Withdraw(k) \/ Announce(k)
    \/ Tick
    \/ SetWall

Spec == Init /\ [][Next]_vars

\* The request timeout ends every fetch, and the executor polls a ready future.
FairSpec ==
    /\ Spec
    /\ \A c \in Call : /\ WF_vars(FetchEnds(c)) /\ WF_vars(Completes(c))
                       /\ WF_vars(Release(c)) /\ WF_vars(Verify(c))

-----------------------------------------------------------------------------
(* Properties.                                                             *)

\* Types of Cache and of the locals of RemoteKeys::get.
TypeOK ==
    /\ time \in Moment /\ wall \in Walls
    /\ published \subseteq Kid /\ keys \subseteq Kid
    /\ withdrawn \in [Kid -> Moment \cup {None}]
    /\ expiry \in Nat \cup {None}
    /\ {lastAttempt, lastClock, requested} \subseteq Moment \cup {None}
    /\ busy \in BOOLEAN
    /\ pc \in [Call -> {"idle", "fetching", "releasing", "verify", "answered"}]
    /\ kid \in [Call -> Kid \cup {None}]
    /\ exp \in [Call -> Nat]
    /\ start \in [Call -> Moment \cup {None}]
    /\ fetched \in [Call -> {None} \cup SUBSET Kid]
    /\ outcome \in [Call -> Answer \cup {"key", "cancelled", None}]

InFlight == {c \in Call : pc[c] \in {"fetching", "releasing"}}

\* docs/authentication.md: "All clones of one configured authenticator share one
\* cache and one in-flight fetch"; busy is set for exactly as long as a call
\* holds the attempt, cancelled or not.
OneFetch ==
    /\ \A c, d \in InFlight : c = d
    /\ busy = (InFlight # {})

Obtains(c) == outcome[c] # "key" /\ outcome'[c] = "key"

\* docs/authentication.md: "bounded rotation/revocation lag"; whatever is
\* fetched late, fails, is cancelled or misreads the clock, no key is used at a
\* reading Ttl or more after the issuer withdrew it.
TrustIsBounded ==
    [][\A c \in Call : Obtains(c) =>
          \/ kid'[c] \in published
          \/ /\ withdrawn[kid'[c]] # None
             /\ lastClock' < withdrawn[kid'[c]] + Ttl]_vars

\* docs/key-refresh-tests.md, "Key clock absent or moving backward: Unavailable,
\* not newly fresh trust": a set once seen expired is replaced before any key
\* is used again.
NeverNewlyFresh ==
    [][\A c \in Call :
          Obtains(c) /\ expiry # None /\ lastClock >= expiry
             => expiry' > lastClock]_vars

\* The issuer is asked at most once in Interval, also after failures and
\* cancellations ("The attempt's global cooldown remains").
FetchesAreSpaced ==
    [][\A c \in Call :
          pc[c] # "fetching" /\ pc'[c] = "fetching" /\ requested # None
             => start'[c] >= requested + Interval]_vars

\* docs/authentication.md: an unknown key is the caller's fault (401) only
\* against a key set that is still trusted; otherwise the answer is 503.
InvalidIsHonest ==
    [][\A c \in Call :
          /\ pc[c] # "verify" /\ kid'[c] # None
          /\ outcome[c] # "invalid" /\ outcome'[c] = "invalid"
          => expiry' # None /\ lastClock' < expiry' /\ kid'[c] \notin keys']_vars

\* k is cached and the issuer, which serves it, has not withdrawn it since the
\* fetch that brought it.
StillServed(k) ==
    /\ k \in keys \cap published
    /\ withdrawn[k] = None \/ withdrawn[k] + Ttl < expiry

\* docs/key-refresh-tests.md, "Failed replacement while A remains fresh" and
\* "fail without partial cache replacement": whatever fetches fail, are
\* cancelled, come late or end after a later one has begun, the cache loses no
\* key that the issuer did not withdraw, and no trust ends before its deadline.
TrustIsKept ==
    [][/\ \A k \in Kid : StillServed(k) => k \in keys'
       /\ expiry # None => expiry' # None /\ expiry <= expiry']_vars

\* A fetch never leaves the cache busy for good.
BusyEnds == busy ~> ~busy
=============================================================================
