# Formal models of glaux-server

TLA+ specifications of the parts of glaux-server that are hard to test: database
transactions that interleave, futures that are dropped at an await, answers that
come late or never, and clocks that are read at one moment and used at another.
TLC checks small instances; TLAPS proves the main theorems for every instance.

## 1. The system

glaux-server is a Rust workspace of three crates over PostgreSQL/PostGIS.
`glaux-domain` has the value types, `glaux-standards` reads and checks SensorML
and SWE Common documents, and `glaux-server` is the process that stores Systems.

| Component | State it keeps | Operations | Hard behaviour | What makes it correct |
|---|---|---|---|---|
| Atomic System writes (`application.rs`, `storage.rs`, `revisions.rs`, migrations 0002-0008) | the tables of identities, edges, artifacts, revisions, audit, outgoing work, heads, receipts | create with or without retry key, replay, conditional and unconditional update, bare identity, low-level history | statements of concurrent transactions, waits and deadlocks, unknown COMMIT outcome, a wall clock read twice | all evidence of a write or none of it; one line of revisions; one creation per live key; unique identities |
| Issuer keys and tokens (`authentication.rs`, `authentication/keys.rs`, `authentication/jwt.rs`) | one cache per process: keys, expiry, last attempt, last clock, busy | look up, fetch, install, drop | a mutex released across an await, late responses, cancelled futures, clocks that jump | one fetch at a time, spaced; bounded trust after a withdrawal; failures and stale responses lose no trusted key; refusals that are the caller's fault only when they are |
| Bounded denial audit (`authorization.rs` 281-371 and 594-632, `application.rs` 584-650) | a rate window and counters per process; rows and an advisory lock in the database | take capacity, try the lock, count, insert, commit | readings out of order, dropped futures, several processes, restarts | a rate, a cap on rows, counters that tell the truth, a lock that is given back |
| Authorization and admission (`authorization.rs`, `authorization_storage.rs`) | a policy; none of its own per request | permissions, preflight, admission callback, visibility | the preflight reads are outside the transaction that the callback guards | nothing written or shown without permission at the deciding moment |
| HTTP boundary (`http_boundary.rs`, `http_boundary/media.rs`) | a request's budgets and deadline | target checks, body limits, negotiation, deadline | the deadline drops the handler at any await | what is dropped leaves nothing half done |
| System resource (`system_http.rs`) | none | POST and GET of Systems | the order of authentication, precondition, validation, write, answer | one answer that agrees with the write |
| Runtime (`runtime.rs`, `main.rs`) | a pool of two connections, readiness, a shutdown deadline | start, probe, serve, drain, close | probes and handlers share two connections; one deadline for drain and close; handlers dropped at any await | bounded startup and shutdown, success only after everything has ended, capacity that comes back |
| Schema (`storage.rs`, migrations) | the migration ledger, triggers, constraints | migrate, check compatibility | a check and a write in different statements, at an isolation level that the writer chooses | history immutable, no parent cycles |
| Backup and restore (`scripts/system-restore.sh`) | a clone database and its grants | create, revoke, restore, grant, verify | it may stop between any two commands; other runs, sessions and operators go on meanwhile | a clone is reported isolated only if it is; nothing else is touched; a failure is heard |
| Standards algorithms (`glaux-standards`) | none | schema guard, references, validation, projection | depth, step and cycle limits that interact | agreement with a reference definition |
| Domain values (`glaux-domain`) | none | parse, compare, normalise | exact decimal and time arithmetic | order and equality laws |
| Configuration, discovery | none after startup | parse, build documents | - | - |

How they meet: the boundary gives a request a deadline and drops its handler when
it passes; the handler authenticates (key cache), reads the policy and, outside
any transaction, the parent (admission); the write boundary opens one transaction
and calls back into the policy inside it; a denial takes rate capacity in the
process and a row under a try-lock in the database.

## 2. Modules

| Module | Models |
|---|---|
| `SystemWrites` | the write boundary, statement by statement |
| `AtomicWrites` | what it promises: one step per write |
| `Retries` | `SystemWrites` with a history variable: was the wall clock ever set back |
| `SystemWritesProofs` | theorems about `SystemWrites` and `Retries` |
| `MCSystemWrites`, `MCRetry` | three sets of client calls for TLC |
| `KeyCache`, `KeyCacheProofs`, `MCKeyCache` | the issuer-key cache and token verification |
| `DenialRate` | the rate window of a process |
| `DenialAudit`, `DenialAuditProofs`, `MCDenialAudit` | the whole record of a denial; extends `DenialRate` |
| `Admission`, `AdmissionProofs`, `MCAdmission` | the policy, admission and visibility around a write or a read |
| `ParentEdges`, `ParentEdgesProofs`, `MCParentEdges` | the guard row and the cycle trigger of migration 0003 under any changes of edges |
| `Runtime`, `RuntimeProofs`, `MCRuntime` | `serve`: startup, pool, handlers, shutdown |
| `References`, `ReferencesProofs`, `MCReferences` | indexing, resolution and traversal of component references |
| `RestoreClone`, `RestoreCloneProofs`, `MCRestoreClone` | the restore command of `system-restore.sh` and who else uses the databases |

### SystemWrites

A *request* is one call of a writing operation on a connection of its own. Every
identifier a call generates is fresh, so the request stands for all of them.
`pc[r]` is the next statement, `written[r]` the tables in which its transaction has
rows and `placed[r]` how many aliases it has inserted. Locks are not variables:
`HoldsScope`, `HoldsGuard`, `HoldsRow`, `HoldsShare`, `UidOwners` and `AliasOwners`
read them off `pc` and `written`, as PostgreSQL holds each from the statement that takes it to
the end of the transaction, and `Blockers(r)` says who keeps the next statement
waiting. Committed effects that later statements overwrite are `label`, `head` and
`receipt`.

| Actions | Code |
|---|---|
| `Begin`, `Refuse` | the input contract, the schema check, `BEGIN` |
| `LockScope`, `Lookup`, `Retain` | `PreparedRetry::replay` and `store` |
| `Admit`, `Recheck` | the admission callback, which may refuse |
| `InsertIdentity`, `CheckUid`, `InsertAlias`, `CheckAlias`, `LockGuard`, `InsertEdge` | `insert_system` with the constraints of migration 0002 and the trigger and foreign keys of 0003 |
| `InsertEvidence` | artifact, revision, audit, outgoing work, head |
| `LockRow`, `ReadHead`, `WriteUpdate` | `update_system_admission` |
| `InsertHistory` | `RevisionRepository`, `ArtifactRepository` |
| `Commit`, `CommitLost`, `Fail` | the answers a caller may get; `Fail` covers a failed statement, a lost connection, a restart of the database and a dropped future |
| `BreakDeadlock` | PostgreSQL's deadlock detector |
| `ReadClock` | `clock_timestamp()`, forward and set back |

UIDs and aliases are guarded by *exclusion* constraints. PostgreSQL enters the
row in the index first and looks for conflicting rows afterwards, waiting for those
of open transactions; hence two steps for each. Two overlapping insertions of one
UID, or of one alias, may therefore wait for each other and end in a deadlock, which
the caller sees as unavailable and not as a conflict. Aliases are inserted in the
order of the input (`storage.rs:190`), so that creations that list two shared
aliases in opposite orders can deadlock as well. `OnlyIdentitiesDeadlock` says that
nothing else does.

Consecutive statements on rows that nobody else can see or wait for are one step.
The text of labels, media and documents is a `Payload`. `Digest` stands for the
SHA-256 of `retry_content`: it is taken to be injective on the framed intent, and it
is insensitive to alias order because the code sorts.

### AtomicWrites

One action per kind of write, with the condition that the documents promise: the
identity free, the parent present, the expected revision current, no live receipt
replaced. `SystemWrites` implements it under a mapping (`WritesAreAtomic`) in which a
write happens when its transaction commits.

### KeyCache

`Get` and `Complete` are the two critical sections of `RemoteKeys::get`; between
them the call awaits `Serve` or `FetchFails`. `Attempt::drop` takes the mutex again,
after the guard of the second section is gone, so that clearing `busy` is a step of
its own (`Release`). `Cancel` drops the future during the await. The issuer rotates
its keys (`Withdraw`, `Announce`) at any time. `wall` is the token clock:
`Get` refuses when it is absent, as `verify_async` does before the lookup, and `Verify` reads it
again after the wait. The production key clock is monotone; an injected one
may be absent or read an earlier value (`ClockMayFail`). Left out: static keys,
development and disabled modes, signatures (a token may always be refused) and
mutex poisoning.

### DenialRate and DenialAudit

The clock is read (`ReadClock`) before the mutex is taken (`TakeCapacity`), so two
denials may reach it in the other order; the later one is then counted as
`clock_unavailable` although the clock is sound. The client side of a denial
(`pc`) and its transaction (`tx`) end separately: a dropped future, a broken connection
or a restarted process leave the server to commit what was sent or to roll
back. Left out: the saturation of the 64-bit counters and
`record_denied_system_create`, which only the examples call.

### Admission

`policy` is what the `AccessPolicy` adapter answers. The configured adapter is loaded at
startup and never changes; the trait is consulted anew at every step so that another one may,
as the revocation fixtures of the tests do, and `Revise` replaces it at any moment. A call keeps the
permission sets it was given (`perms`) and the owners and links it read (`facts`) exactly as
long as the Rust locals live.

| Actions | Code |
|---|---|
| `Preflight`, `Parse` | `preflight_system_create` and the rest of `create` in `system_http.rs` before admission |
| `ConsultCreate`, `ConsultRead`, `ReadParent` | `create_system_if` before the transaction |
| `Lookup`, `Callback`, `DecideCreate` | the receipt selected and the admission callback, whose two consultations are two steps |
| `ConsultUpdate`, `ReadTarget`, `DecideUpdate` | `update_system` and its callback |
| `Write`, `Expire` | the rest of the transaction, which `SystemWrites` has in detail, and the receipt it leaves |
| `ConsultGet`, `Select` | `current_system`, `get_system`, `list_systems` |
| `Fail` | an unavailable adapter, a failed statement, a dropped future |

A System is named by the call that creates it. `during` and `deciding` record the
policies in force while a call, and while its callback, ran; only properties read them. A
conflict over a UID, which the documents promise to report as a safe 409, is not counted as
telling of a System. Left out: the validation of the policy file, the matching of issuer,
subject and group (a policy is a function of the caller), header syntax.

### ParentEdges

`SystemWrites` inserts edges of new Systems only, as the server does; such an edge cannot close a
cycle. The triggers of migration 0003 promise more: that no writer of the table can. `ParentEdges` lets
transactions at READ COMMITTED and REPEATABLE READ run any statements of any rows.

| Actions | Code |
|---|---|
| `Begin`, `Issue` | `BEGIN`; a statement and, per isolation level, its snapshot |
| `Serialize` | the statement trigger: `UPDATE` of the guard row, which waits for its writer and fails at REPEATABLE READ if the row is newer than the snapshot |
| `InsertRow`, `UpdateRow`, `DeleteRow` | one row each: the row trigger, then primary key and `CHECK` |
| `EndStatement`, `Commit`, `Rollback` | the end of a statement and of a transaction |

`Ancestors` is the least fixed point that `WITH RECURSIVE` computes, said as the intersection of all
closed sets, so that it can be proved about. `View` is what a query in the trigger sees, `Current` what
the rows are; that the two agree is `ChecksAreCurrent`, and that the test on `View` is right is
`CheckIsExact`. `MCParentEdges` compares `Acyclic` with the cycles of the community module `Graphs`.
Left out: savepoints, `TRUNCATE` (which fires no trigger and removes all edges), a missing guard row (every
statement fails then), the foreign keys, and SERIALIZABLE, which is REPEATABLE READ with more aborts.

### Runtime

| Actions | Code |
|---|---|
| `Abandon`, `Abandoned`, `Listen` | `serve` up to the spawned server: storage check, routers, listener, signal handler |
| `Accept`, `Reply`, `Ask`, `Acquire`, `Check`, `Serve`, `Fail` | a handler: `live`, `ready`, a System request, with its use of the pool |
| `Drop` | the deadline of `http_boundary.rs` or a client that hangs up: the future is dropped at any await |
| `Return` | sqlx gives a dropped connection back in a task of its own, after rolling back (external) |
| `ServerStops`, `ServerEnds`, `ServerFails` | `axum::serve ... with_graceful_shutdown` in its task (external) |
| `Signal`, `NoticeFailure`, `Drained`, `Finished`, `Failed`, `Expire` | the `select!` at the end of `serve` and its timeouts |
| `StorageChanges` | the database or its schema comes and goes |

The startup check is `storage_ready`, hence the probe under the name `Startup`. Durations are left out: every
timeout may pass as soon as it runs; of the answers of handlers only those of the storage check are told apart. `Exit` drops the Tokio runtime and whatever is in it.

### References

Documents are not a constant: the indexing steps choose the next member as they read it, so that TLC visits every
document of the given declarations. `Declare`, `Refer` and `Close` are `Index::component`, `Index::child`
and `Index::reference`; `Resolve` is `resolve_targets`; `Enter`, `Skip`, `Leave` and `Complete` are one
round each of the loop in `traverse`. The errors have the order of the code. `Verdict` is the reference definition: it knows no
stack and no flags, only walks from the root in declaration order, and asks for the first one that
is at fault. Left out: source ranges and pointers, structural validation of fragments, qualities that do not
compile and the binding of quality arrays; `Seq` positions stand for JSON members.

### RestoreClone

A run of the script is at the command `step[r]`. `Fail` is a failed command or an answer that is lost after
the command has worked: `set -e` ends the shell and the `EXIT` trap speaks if it is set. `Kill` ends it
silently. `Connect`, `Disconnect` and `Write` are the sessions of the inspection role and of the
serving role of the source; a session keeps what it has when the right to connect is revoked. An operator may
`Drop` a target whose run is over. What a dump says is a set of `Grants`, chosen at the start. Left out: the
backup command, and administrators who change grants meanwhile.

## 3. Runs

| Run | Shows | Instance |
|---|---|---|
| `retry` | evidence, answers, one live creation per key, atomicity; a retry of a recorded creation is not refused as a conflict unless the clock was set back (`slipped` of `Retries`) | 3 creations, keyed or not, of 2 intents; retention 2, clock 0..4, both directions |
| `systems` | linear history, no lost update, unique identities, deadlocks only over identities | 3 calls: creations with and without parent, crossing aliases, identities, every update and history input |
| `calls_end` | every call ends; atomicity with parents, aliases, identities and history | 3 calls around one System, fairness |
| `key_trust` | one fetch, spaced, bounded trust that misreadings never extend, honest answers, no trust lost to failures or late responses | 2 calls at a time, 2 keys, lifetime 2, interval 1, time 0..4, any earlier reading or none |
| `key_live` | busy ends | 1 key, token clock that jumps or is absent, fairness |
| `denial` | the rate, the cap, the counters, the lock is given back | 3 denials of a process and of the one that replaces it, cap 1, 1 per window of 1, time 0..1, clock that may be absent, fairness |
| `admission_retry` | replays are reauthorized | 2 creations at once, keyed or not, 4 policies, 2 changes |
| `admission_tree` | writes are permitted, nothing concealed is told | 3 calls on one connection: trees without retry keys, updates, reads, lists; 2 policies, 1 change |
| `parent_edges` | no cycle, checks of the current graph, an exact check | 3 Systems, 2 sessions with any number of transactions, statements and rows |
| `runtime` | a clean exit, the pool after the requests, shutdown and startup end, capacity comes back | 3 requests of any kind on 2 connections, fairness |
| `references` | the answer is the first fault in declaration order over all walks, so that no cycle and no unfit target is accepted and a shared target is; termination | every document of up to 4 components of 5 declarations and 2 references; depth 3, 5 steps |
| `restore` | a reported clone is isolated and unwritten, failures are heard, nothing is overwritten | 2 runs, the source and one new name, 2 roles, every set of grants in the dump |

Every run passes. Every invariant, every action property and the refinement that they check is also proved (section 4), and so are
the type invariants of all eight components. Each property is also known to fail for at least one plausible
defect of the code: the operators marked `Mutant` just before the definition they would
replace.

**Why the bounds are enough.** Three requests are a holder, a rival and a later
observer: the third sees what the race of the first two left, and a cycle of waits or a
lost update takes two. Four clock units hold one retention of two, its end, and a
receipt stored afterwards. In `KeyCache` the number of requests is not bounded, only
those at the same time: one owns the fetch, one meets it. Time covers a whole lifetime
and the late use after it. Three denials with one per window pass the bound of
`RateBounded` by one; against one row the first fills the table, the second meets it full or races
for the row, and the third comes after a restart. The database does not tell two processes from one process and
the transactions its predecessor left. In `Admission` two creations are a receipt and its retry, three calls a
parent, its child and a call on the child; the policy changes between any two of
their steps, and every single change of the policies given can happen. Three Systems have every
shape of forest and of cycle that a check of parent and grandparent would miss, and two sessions are the holder of the guard and one that waits
for it, or that comes after it with an old snapshot; their transactions follow each other without end. Three requests on two connections are one more than the pool holds. Four
components and two references make a shared target, a cycle through a link and one through containment,
and meet each of the four limits. Two runs race for one name, or one comes after the other's target was dropped. What larger instances could add is what the proofs cover.

**Deadlock checking** is off in the runs of `SystemWrites`, `Admission`, `DenialAudit` and `RestoreClone`, whose
finite set of calls or runs ends and leaves nothing to do, and of `Runtime` and `References`, where the process
exits and the function returns. `CallsEnd`, `LockEnds`, `StopsInTime` and `Terminates` say that
nobody waits for ever. The key runs and `parent_edges` check for deadlock.

**Symmetry** is used in runs that check only safety, over requests, calls, keys,
Systems and sessions; no specification distinguishes them.

**Fairness.** `SystemWrites`: weak fairness of each transaction's own progress, as the
database executes a statement that nothing blocks and its detector ends every cycle of
waits. `KeyCache`: the request timeout ends a fetch, and the executor polls a future that is
ready and runs drops. `DenialAudit`: a call proceeds, since its statements run
under `statement_timeout` and `lock_timeout`, and a transaction whose client has
gone ends, since a dropped sqlx transaction is rolled back when its connection returns
to the pool or closes. No client, clock or issuer is assumed to act. `Runtime`: only the main task and
its timers are fair, so that `StopsInTime` holds whatever handlers, clients and database do. The two other properties name what they need
besides as premises: `ConnectionsReturn` (a returned session is bounded by
`statement_timeout` and `lock_timeout`) and `DeadlinesPass` (the boundary's timer of each request). `References`: one thread
that runs the loop of `traverse`.

## 4. Proofs

Proved with TLAPS for every set of requests, calls, denials, processes, Systems, sessions, runs, documents, inputs and every bound, from
the named `ASSUME`s only: `None` outside the other values, answers told apart from requests (`RefusalAssumption`), positive durations,
interval at most lifetime as `endpoint` checks, a finite set of denials, known inputs, positive limits and, of references, reserved `href` values that
are no ids and answers that are not `None`.

- **Writes.** `TypeCorrect`, `EvidenceIsAtomic`, `HistoryIsLinear`, `NoUpdateIsLost`,
  `CreationsAreOncePerKey`. The inductive invariant is `TypeInv` (each transaction is at a
  statement of its operation), `RowsInv` (which rows it has there), `LockInv` (at most one
  transaction holds a System's row, and what it read is still the head) and `HeadInv` (what
  committed heads, labels and receipts point at). None of the properties is inductive alone: that
  a commit keeps `LinearHistory` needs to know that the head has not moved since it was
  read, which is the lock. `CreationsAreOncePerKey` adds `RecordInv`: at most one transaction holds a scope,
  and the receipt it is about to replace had expired at its own `retained_at`. A step is
  either `Quiet`, leaving everything committed alone, or the commit of one
  transaction (`StepKinds`), which keeps the case analysis short. On this foundation:
  - `IdentitiesAreUnique`. That committed Systems differ is not inductive, because a row is there before its constraint has looked
    for rivals. `IdentityInv` says of all transactions, open ones included, that rows whose check has passed differ from each other;
    a check passes only when no other transaction owns the value.
  - `Refinement`: `SystemWrites` implements `AtomicWrites`. The commit of a transaction that wrote is the abstract write of its request
    (`PublishIsAtomic`), everything else a stutter. The conditions of the abstract write follow from `RefinementInv`: the identity is
    free by `IdentityInv`, what a row refers to is committed by `BoundInv` (rows are never deleted, `RowsStay`), the expected revision
    is current by `LockInv` and no live receipt is replaced by `RecordInv`.
  - `AnswersHold`. `AnswerInv` says what a call was told at each end of its transaction, and of a replay that the receipt
    it selected is committed, of its own scope and of its own intent.
  - `WaitsAreOrdered`. Of each statement that waits, `WaitKinds` says for whom: whoever waits for the guard, for the parent of
    an edge or for a receipt is at most two waits from one that waits for nobody, and whoever waits for a scope, a System's row or the target of a history row holds nothing that
    others wait for. A cycle therefore consists of insertions of UIDs and aliases.
  - `RetriesAreNotRefused`, about `Retries`. `RetryInv`: one transaction holds a scope, and as long as the clock was not set back,
    no receipt was stored in the future and a creation past its lookup finds only expired ones in its scope.
- **Keys.** `TypeCorrect`, `FetchIsExclusive`, `RevocationLagIsBounded`,
  `ExpiredStaysExpired`, `FetchSpacing`, `UnknownKeysAreHonest`, `NoTrustIsLost`. The invariant `TrustInv` says that every cached key was
  published or was withdrawn no earlier than the start of the fetch that brought it, which is the expiry
  less the lifetime, and the same of a response in flight. `NoTrustIsLost` adds `KeptInv`: a fetch
  under way began at a reading no earlier than the one the cached set was asked at, so that its deadline is no
  earlier either, and a response that has arrived has every cached key that the issuer still serves. Both
  need `OneFetch`: with two fetches the older response could be installed last.
- **Denials.** `TypeCorrect`, `RowsAreCapped`, `RateIsBounded`, `CountersAreTrue`. `StoreInv`: whoever may still insert holds the lock,
  and there was room when it counted. `RateInv`: the readings let through are those of the current
  window, preceded by older ones of which all but the last few lie more than a window back. `CountInv`: a transaction whose COMMIT
  was executed has its row, and one that found the table full leaves it full. That the counters add up to the denials that answered
  goes through the sum of the six counters (`SumIsTotal`, `SumCounts`).
- **Admission.** `TypeCorrect`, `CommittedWritesArePermitted`, `ConcealmentHolds`, `RetriesAreReauthorized`,
  for any number of changes of the policy. What is committed keeps its owner and parent (`OwnedKeeps`), so a step
  of one call cannot invalidate what another has read; the invariant is therefore one formula per call,
  `CallInv`: the facts it holds are those of the database, a selected receipt is of its own scope, its
  permission sets are those of policies it ran under, and it has told nothing before its answer.
- **Parent edges.** `TypeCorrect`, `EdgesHaveNoCycle`, `NoCheckIsStale`, `TriggerIsExact`, for any set of Systems. Nothing
  is proved by induction over paths: a cycle is a non-empty set that holds the parents of all its members, the ancestors are the least closed
  set, and either direction of the check exhibits such a set (`PassedRowIsSafe`, `RefusedRowIsUnsafe`). The invariant says that only the
  holder of the guard has written rows (`Guarded`), that a snapshot that is not stale is the committed graph (`Fresh`), and that
  the committed graph and the holder's are acyclic (`Forest`).
- **Runtime.** `TypeCorrect`, `ExitIsClean`, `PoolIsLast`, for any number of requests and connections. The invariant adds
  `StartupIsOver` (the startup check has ended once there is a server), `Drains` (a server that has ended leaves no handler, and only
  behind it does a signal close the pool) and `ExitIsLast`.
- **Restore.** `TypeCorrect`, `ReportIsTrue`, `ReportIsOfTheDump`, `FailureIsHeard`, `NothingIsOverwritten`, for any number of runs and
  databases. The invariant says that a run past `createdb` owns its target and a database has one owner (`Owned`), how far the database is shut at
  each command (`Shut`), that the trap is set from its command on (`Trapped`), and who can be connected late (`LateSessions`) or have written late
  (`LateWriters`): only the inspection role after `Admit`, and what let it write is still there for the checks to find.

- **References.** `TypeCorrect`, `FirstFaultIsAnswered`, `AcceptedDocumentsAreSound`, for documents of any size and any limits.
  The traversal has a stack, flags and counters; `Verdict` knows only walks. Four invariants lead from one to the other: `IndexInv` (what is indexed leads to
  what is indexed), `GraphInv` (members and resolved links fit their slots), `StackInv` (the frames are a path from the root that
  meets no component twice, the active components are those on it, and the element flag of a frame says whether the path to it
  describes an element) and `WalkInv` (the visits so far are the walks that come first in declaration order, without gap or repetition, and none is at
  fault). The checks before a visit find what is wrong with the walk that leads to it (`VisitIsWalk`), and an edge that is left has all walks
  behind it seen (`LeaveSeen`). `Walks` in the reference definition is a recursive function; it is shown to
  be the set it should be by looking at the least length at which it would not be, since the induction theorems of the library cannot be cited
  here. `AcceptedIsSound`, which quantifies over walks of every length and is stated in the proof module only, says what acceptance means without the limits of `Verdict`.

Only model-checked are the liveness properties `CallsEnd`, `BusyEnds`, `LockEnds`, `StopsInTime`, `StartupEnds`,
`CapacityReturns` and `Terminates`: liveness under fairness, like `ENABLED`, is out of this prover's reach.

## 5. What the results do not say

- The rate of `RateBounded` is in terms of clock readings and of one life of a process; a restart
  begins a new window, as `docs/authorization.md` states.
- `TrustIsBounded` and `TrustIsKept` are in terms of the key clock's readings.
- That a token is judged by the token clock read after the wait is how `Verify` is written, after `jwt.rs:103`; no
  property speaks of it, as it could only repeat that guard.
- `WritesArePermitted` and `NothingConcealedIsTold` take the policies in force while the callback, or the call,
  ran. A call consults the policy several times, so that the decision may combine two of
  them, one that grants writing and one that grants reading; the code allows it and no property forbids it. And a revocation after the last consultation does not stop the call.
- Deduplication by key holds within the retention; after it the key may create again.
- `CapacityReturns` says that the pool is not full for good, not that a given request gets a connection.
- `StopsInTime` and `StartupEnds` say that an end comes, not after how many seconds.
- `References` takes limits far below those of the code, which the code compares in the same way.
- A session that begins between `createdb` (line 65) and `REVOKE CONNECT` (line 69) of the restore script survives the
  revocation, and `ReportedIsUnwritten` does not speak of it. A run whose `createdb` worked but was not heard of, or that
  stops before its trap is set (line 67), leaves a target that nobody announces, and so does a killed one.
- PostgreSQL, sqlx, axum, the executor and the issuer are modelled from how the code uses them.

## 6. Plan

Modelled: the write boundary, the key cache, the denial audit, admission, the parent edges, the life of the
process, component references and the restore command. What is left, in order:

1. Theorems: facts behind the liveness properties that are safety, such as a measure that every round of `traverse` lowers and that
   a transaction which nobody blocks has a next statement.
2. `SchemaGuard`: the depth-first reference check of schemas against a reference definition, as for `References`.
3. Decimal and time comparison, media negotiation and request budgets as pure operators.

Not modelled: configuration parsing, discovery documents, the validation of single SWE and SensorML documents,
cryptography and PostGIS, which keep no state; the migration run, check-config and backup, which one
process runs alone from start to end; the fuzz and test programs, which are not part of the server.
