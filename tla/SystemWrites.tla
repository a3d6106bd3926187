---------------------------- MODULE SystemWrites ----------------------------
(***************************************************************************)
(* The transactional write boundary of glaux-server: application.rs and    *)
(* the storage primitives it shares with storage.rs and revisions.rs, over *)
(* the tables of migrations 0002-0008.                                     *)
(*                                                                         *)
(* A Request is one call of a writing operation on its own connection.     *)
(* Every identifier a call generates (System, revision, artifact, audit,   *)
(* event) is fresh, so the request itself stands for all of them: the      *)
(* System created by r is r, the revision r writes is r, and so on.        *)
(*                                                                         *)
(* Each call runs statement by statement in a READ COMMITTED transaction.  *)
(* Its rows are in written[r] from the statement that makes them until the *)
(* transaction ends, and other transactions see them once r has committed. *)
(* Row, advisory and uniqueness locks are held from the statement that     *)
(* takes them to the end of the transaction, so who holds what is read off *)
(* pc and written.  Consecutive statements that touch only rows keyed by   *)
(* the call's own fresh identifiers neither wait nor are seen, and are one *)
(* step.                                                                   *)
(***************************************************************************)
EXTENDS Naturals, Sequences, FiniteSets

CONSTANTS
    Request,        \* calls, and the fresh identifiers each would generate
    None,           \* SQL NULL / Option::None
    Keys,           \* the (actor, source, retry key) part of a retry scope
    Uids,           \* System UIDs
    Aliases,        \* (authority, identifier) source identities
    Payloads,       \* label, semantic time, media type and bytes of an intent
    Retentions,     \* configured retention_seconds values
    Inputs,         \* the calls clients make
    MaxClock,       \* bound on the database wall clock
    ClockMaySlip    \* whether the wall clock may be set back

NewInput ==
    [op : {"create", "identity"}, key : Keys \cup {None}, retention : Retentions,
     uid : Uids, aliases : Seq(Aliases), parent : Request \cup {None},
     payload : Payloads]

UpdateInput ==
    [op : {"update"}, target : Request, expected : Request \cup {None}]

HistoryInput ==
    {i \in [op : {"history"}, target : Request \cup {None},
            artifact : Request \cup {None}] :
        i.target # None \/ i.artifact = None}

Input == NewInput \cup UpdateInput \cup HistoryInput

ASSUME NoneAssumption == None \notin Request \cup Inputs
ASSUME ClockAssumption == MaxClock \in Nat /\ Retentions \subseteq Nat \ {0}
ASSUME InputsAssumption == Inputs \subseteq Input
ASSUME SlipAssumption == ClockMaySlip \in BOOLEAN

VARIABLES
    pc,         \* the next statement of each call's transaction
    input,      \* what each call was asked to do
    written,    \* tables in which each transaction has rows
    placed,     \* how many source_identity rows each transaction has
    seen,       \* what each transaction read: a row locked, a head, a receipt
    retained,   \* retained_at of the receipt a transaction stores
    answer,     \* what the caller was told
    label,      \* committed system_identity.label: the write it comes from
    head,       \* committed system_write_head.revision_id
    receipt,    \* committed system_create_retry: the creation it points to
    now         \* clock_timestamp()

vars == <<pc, input, written, placed, seen, retained, answer,
          label, head, receipt, now>>

Statement == {"scope", "lookup", "admit", "identity", "uid", "alias", "pair",
              "guard", "edge", "evidence", "retain", "row", "recheck", "head",
              "write", "history", "commit"}

Table == {"resource_identity", "system_identity", "system_parent",
          "source_artifact", "system_revision", "server_audit",
          "outgoing_work", "system_write_head", "system_create_retry"}

Refusal == {"invalid", "denied", "conflict", "association", "not_found",
            "uninitialized", "precondition", "unavailable"}

ASSUME RefusalAssumption == (Request \cup {None}) \cap Refusal = {}

Scopes == Keys \X (Request \cup {None})

-----------------------------------------------------------------------------
(* Transactions and what they hold.                                        *)

Open(r) == pc[r] \in Statement

Committed == {r \in Request : pc[r] = "committed"}

\* The rows of a table that a new statement of another transaction sees.
Visible(t) == {r \in Committed : t \in written[r]}

Systems == Visible("resource_identity")

Op(r) == input[r].op

\* The System a call writes: its own fresh one, or the one it names.
Target(r) == IF Op(r) \in {"create", "identity"} THEN r ELSE input[r].target

\* (actor, source, 'system.create', target, key): the target of a creation is
\* the parent it names, or the root collection.
Scope(r) == <<input[r].key, input[r].parent>>

\* retry_content: every part of the intent and no generated value; the framing
\* makes it injective and the sort makes alias order immaterial.
Digest(r) ==
    <<input[r].uid, input[r].payload, input[r].parent,
      {input[r].aliases[i] : i \in DOMAIN input[r].aliases}>>

Keyed(i) == i.op = "create" /\ i.key # None

DuplicateAliases(i) ==
    \E m, n \in DOMAIN i.aliases : m # n /\ i.aliases[m] = i.aliases[n]

Expires(r) == retained[r] + input[r].retention

\* Mutant: the advisory lock is not taken.
HoldsNoScope(r, s) == FALSE

\* Mutant: a session lock that outlives the transaction.
HoldsScopeForSession(r, s) ==
    pc[r] \notin {"idle", "scope"} /\ input[r] # None /\ Keyed(input[r])
    /\ Scope(r) = s

\* pg_advisory_xact_lock on the scope, held from the statement after "scope".
HoldsScope(r, s) ==
    Open(r) /\ pc[r] # "scope" /\ Keyed(input[r]) /\ Scope(r) = s

\* Mutant: the guard row is share-locked with the identity and upgraded later.
HoldsGuardShared(r) ==
    Open(r) /\ "resource_identity" \in written[r] /\ input[r].parent # None

\* UPDATE of system_parent_write_guard by the statement trigger.
HoldsGuard(r) == Open(r) /\ (pc[r] = "edge" \/ "system_parent" \in written[r])

\* Mutant: the System row is read without FOR UPDATE.
HoldsNoRow(r, s) == FALSE

\* SELECT ... FOR UPDATE on system_identity that found its row.
HoldsRow(r, s) ==
    /\ Open(r) /\ Op(r) = "update" /\ pc[r] # "row"
    /\ input[r].target = s /\ seen[r] # None

\* FOR KEY SHARE on system_identity, by the foreign key of an inserted row.
HoldsShare(r, s) ==
    /\ Open(r)
    /\ \/ "system_parent" \in written[r] /\ input[r].parent = s
       \/ Op(r) = "history" /\ "system_revision" \in written[r] /\ Target(r) = s

\* Mutant: the UID is looked up instead of being excluded by a constraint.
CommittedUidOwners(r) ==
    {q \in Committed \ {r} : "resource_identity" \in written[q]
                             /\ input[q].uid = input[r].uid}

UidOwners(r) ==
    {q \in Request \ {r} : "resource_identity" \in written[q]
                           /\ input[q].uid = input[r].uid}

\* The transactions that wrote the alias r wrote last, in a row before that one
\* if it is r itself.
AliasOwners(r) ==
    {q \in Request : \E i \in 1 .. placed[q] :
        /\ <<q, i>> # <<r, placed[r]>>
        /\ input[q].aliases[i] = input[r].aliases[placed[r]]}

\* The transactions that keep the next statement of r waiting.
Blockers(r) ==
    CASE pc[r] = "scope" -> {q \in Request \ {r} : HoldsScope(q, Scope(r))}
      [] pc[r] = "uid" -> UidOwners(r) \ Committed
      [] pc[r] = "pair" -> AliasOwners(r) \ (Committed \cup {r})
      [] pc[r] = "guard" -> {q \in Request \ {r} : HoldsGuard(q)}
      [] pc[r] = "edge" -> {q \in Request \ {r} : HoldsRow(q, input[r].parent)}
      [] pc[r] = "row" -> {q \in Request \ {r} : HoldsRow(q, input[r].target)
                                             \/ HoldsShare(q, input[r].target)}
      [] pc[r] = "history" -> {q \in Request \ {r} : HoldsRow(q, input[r].target)}
      [] pc[r] = "retain" ->
            {q \in Request \ {r} : Open(q) /\ "system_create_retry" \in written[q]
                                          /\ Scope(q) = Scope(r)}
      [] OTHER -> {}

-----------------------------------------------------------------------------
(* How a transaction moves on and how it ends.                             *)

Goto(r, where) == pc' = [pc EXCEPT ![r] = where]

Write(r, tables) == written' = [written EXCEPT ![r] = @ \cup tables]

DbUnchanged == UNCHANGED <<label, head, receipt>>

\* Err(..) => rollback: every row and every lock of the transaction is gone.
Abort(r, why) ==
    /\ Goto(r, "aborted")
    /\ written' = [written EXCEPT ![r] = {}]
    /\ placed' = [placed EXCEPT ![r] = 0]
    /\ answer' = [answer EXCEPT ![r] = why]
    /\ UNCHANGED <<input, seen, retained, now>> /\ DbUnchanged

\* The server processes COMMIT: all rows of r become visible at once.
Publish(r) ==
    /\ Goto(r, "committed")
    /\ label' = IF "system_identity" \in written[r]
                THEN [label EXCEPT ![Target(r)] = r] ELSE label
    /\ head' = IF "system_write_head" \in written[r]
               THEN [head EXCEPT ![Target(r)] = r] ELSE head
    /\ receipt' = IF "system_create_retry" \in written[r]
                  THEN [receipt EXCEPT ![Scope(r)] = r] ELSE receipt
    /\ UNCHANGED <<input, written, placed, seen, retained, now>>

AfterEdge(r) == IF Op(r) = "create" THEN "evidence" ELSE "commit"

AfterAliases(r) == IF input[r].parent # None THEN "guard" ELSE AfterEdge(r)

-----------------------------------------------------------------------------
(* The statements of create_system_inner and SystemRepository::create.     *)

FirstStatement(i) ==
    CASE Keyed(i) -> "scope"
      [] i.op = "create" /\ i.key = None -> "admit"
      [] i.op = "identity" -> "identity"
      [] i.op = "update" -> "row"
      [] i.op = "history" -> "history"

\* Input and schema checks pass; BEGIN ISOLATION LEVEL READ COMMITTED.
Begin(r) ==
    /\ pc[r] = "idle"
    /\ \E i \in Inputs :
        /\ ~(Keyed(i) /\ DuplicateAliases(i))
        /\ input' = [input EXCEPT ![r] = i]
        /\ Goto(r, FirstStatement(i))
    /\ UNCHANGED <<written, placed, seen, retained, answer, now>> /\ DbUnchanged

\* The bounded input contract, the schema check or the connection refuses the
\* call before any transaction; a keyed creation with duplicate aliases is always refused.
Refuse(r) ==
    /\ pc[r] = "idle"
    /\ Goto(r, "aborted")
    /\ \E why \in {"invalid", "unavailable"} :
            answer' = [answer EXCEPT ![r] = why]
    /\ UNCHANGED <<input, written, placed, seen, retained, now>> /\ DbUnchanged

LockScope(r) ==
    /\ pc[r] = "scope"
    /\ Blockers(r) = {}
    /\ Goto(r, "lookup")
    /\ UNCHANGED <<input, written, placed, seen, retained, answer, now>>
    /\ DbUnchanged

\* Mutant: a receipt expires one unit early.
LiveButLast(q) == q # None /\ Expires(q) > now + 1

Live(q) == q # None /\ Expires(q) > now

\* PreparedRetry::replay after the lock: a live receipt ends the call, with the
\* recorded outcome only when the policy allows it and the intent is the same.
Lookup(r) ==
    LET q == receipt[Scope(r)] IN
    /\ pc[r] = "lookup"
    /\ \/ /\ ~Live(q)
          /\ Goto(r, "admit")
          /\ UNCHANGED <<input, written, placed, seen, retained, answer, now>>
          /\ DbUnchanged
       \/ Live(q) /\ Abort(r, "denied")
       \/ Live(q) /\ Digest(q) # Digest(r) /\ Abort(r, "conflict")
       \/ /\ Live(q) /\ Digest(q) = Digest(r)
          /\ seen' = [seen EXCEPT ![r] = q]
          /\ Goto(r, "commit")
          /\ UNCHANGED <<input, written, placed, retained, answer, now>>
          /\ DbUnchanged

\* authorize(&receipt, false)
Admit(r) ==
    /\ pc[r] = "admit"
    /\ \/ Abort(r, "denied")
       \/ /\ Goto(r, "identity")
          /\ UNCHANGED <<input, written, placed, seen, retained, answer, now>>
          /\ DbUnchanged

\* resource_identity.  An exclusion constraint enters the row in its index
\* first and looks for rivals afterwards.
InsertIdentity(r) ==
    /\ pc[r] = "identity"
    /\ Write(r, {"resource_identity"})
    /\ Goto(r, "uid")
    /\ UNCHANGED <<input, placed, seen, retained, answer, now>> /\ DbUnchanged

\* resource_uid_unique waits for open rivals; then system_identity.
CheckUid(r) ==
    /\ pc[r] = "uid"
    /\ \/ UidOwners(r) \cap Committed # {} /\ Abort(r, "conflict")
       \/ /\ UidOwners(r) = {}
          /\ Write(r, {"system_identity"})
          /\ Goto(r, IF input[r].aliases = <<>> THEN AfterAliases(r) ELSE "alias")
          /\ UNCHANGED <<input, placed, seen, retained, answer, now>>
          /\ DbUnchanged

\* One source_identity row, in the order of the input.
InsertAlias(r) ==
    /\ pc[r] = "alias"
    /\ placed' = [placed EXCEPT ![r] = @ + 1]
    /\ Goto(r, "pair")
    /\ UNCHANGED <<input, written, seen, retained, answer, now>> /\ DbUnchanged

\* source_pair_unique waits for open rivals.
CheckAlias(r) ==
    /\ pc[r] = "pair"
    /\ \/ AliasOwners(r) \cap (Committed \cup {r}) # {} /\ Abort(r, "conflict")
       \/ /\ AliasOwners(r) = {}
          /\ Goto(r, IF placed[r] = Len(input[r].aliases)
                     THEN AfterAliases(r) ELSE "alias")
          /\ UNCHANGED <<input, written, placed, seen, retained, answer, now>>
          /\ DbUnchanged

LockGuard(r) ==
    /\ pc[r] = "guard"
    /\ Blockers(r) = {}
    /\ Goto(r, "edge")
    /\ UNCHANGED <<input, written, placed, seen, retained, answer, now>>
    /\ DbUnchanged

\* Mutant: the edge has no foreign key.
InsertAnyEdge(r) ==
    /\ pc[r] = "edge"
    /\ Write(r, {"system_parent"})
    /\ Goto(r, AfterEdge(r))
    /\ UNCHANGED <<input, placed, seen, retained, answer, now>> /\ DbUnchanged

\* The edge row and its foreign key, which waits for a writer of the parent.
InsertEdge(r) ==
    /\ pc[r] = "edge"
    /\ \/ input[r].parent \notin Systems /\ Abort(r, "association")
       \/ /\ input[r].parent \in Systems
          /\ Blockers(r) = {}
          /\ Write(r, {"system_parent"})
          /\ Goto(r, AfterEdge(r))
          /\ UNCHANGED <<input, placed, seen, retained, answer, now>>
          /\ DbUnchanged

\* Mutant: outgoing work is left to a later transaction.
CreateEvidenceWithoutWork ==
    {"source_artifact", "system_revision", "server_audit", "system_write_head"}

\* Artifact, revision, accepted audit, outgoing work and write head.
CreateEvidence ==
    {"source_artifact", "system_revision", "server_audit", "outgoing_work",
     "system_write_head"}

InsertEvidence(r) ==
    /\ pc[r] = "evidence"
    /\ Write(r, CreateEvidence)
    /\ Goto(r, IF Keyed(input[r]) THEN "retain" ELSE "commit")
    /\ UNCHANGED <<input, placed, seen, retained, answer, now>> /\ DbUnchanged

\* Mutant: ON CONFLICT DO UPDATE without its WHERE.
RetainAlways(r) ==
    /\ pc[r] = "retain"
    /\ Blockers(r) = {}
    /\ retained' = [retained EXCEPT ![r] = now]
    /\ Write(r, {"system_create_retry"})
    /\ Goto(r, "commit")
    /\ UNCHANGED <<input, placed, seen, answer, now>> /\ DbUnchanged

\* INSERT ... ON CONFLICT (scope) DO UPDATE WHERE expires_at <= retained_at.
Retain(r) ==
    LET old == receipt[Scope(r)] IN
    /\ pc[r] = "retain"
    /\ Blockers(r) = {}
    /\ \/ Live(old) /\ Abort(r, "conflict")
       \/ /\ ~Live(old)
          /\ retained' = [retained EXCEPT ![r] = now]
          /\ Write(r, {"system_create_retry"})
          /\ Goto(r, "commit")
          /\ UNCHANGED <<input, placed, seen, answer, now>> /\ DbUnchanged

-----------------------------------------------------------------------------
(* The statements of update_system_admission.                              *)

\* Mutant: the lookup does not wait for a writer.
LockRowNoWait(r) ==
    /\ pc[r] = "row"
    /\ seen' = [seen EXCEPT ![r] = IF input[r].target \in Systems
                                   THEN input[r].target ELSE None]
    /\ Goto(r, "recheck")
    /\ UNCHANGED <<input, written, placed, retained, answer, now>> /\ DbUnchanged

LockRow(r) ==
    /\ pc[r] = "row"
    /\ input[r].target \in Systems => Blockers(r) = {}
    /\ seen' = [seen EXCEPT ![r] = IF input[r].target \in Systems
                                   THEN input[r].target ELSE None]
    /\ Goto(r, "recheck")
    /\ UNCHANGED <<input, written, placed, retained, answer, now>> /\ DbUnchanged

\* The policy recheck comes before the missing row is disclosed.
Recheck(r) ==
    /\ pc[r] = "recheck"
    /\ \/ Abort(r, "denied")
       \/ seen[r] = None /\ Abort(r, "not_found")
       \/ /\ seen[r] # None
          /\ Goto(r, "head")
          /\ UNCHANGED <<input, written, placed, seen, retained, answer, now>>
          /\ DbUnchanged

CheckRevision(expected, current) == expected \in {None, current}

ReadHead(r) ==
    LET current == head[input[r].target] IN
    /\ pc[r] = "head"
    /\ \/ current = None /\ Abort(r, "uninitialized")
       \/ /\ current # None
          /\ ~CheckRevision(input[r].expected, current)
          /\ Abort(r, "precondition")
       \/ /\ current # None
          /\ CheckRevision(input[r].expected, current)
          /\ seen' = [seen EXCEPT ![r] = current]
          /\ Goto(r, "write")
          /\ UNCHANGED <<input, written, placed, retained, answer, now>>
          /\ DbUnchanged

\* Mutant: the label is not updated with the head.
UpdateRowsWithoutLabel ==
    {"source_artifact", "system_revision", "system_write_head", "server_audit",
     "outgoing_work"}

UpdateRows ==
    {"source_artifact", "system_revision", "system_identity",
     "system_write_head", "server_audit", "outgoing_work"}

WriteUpdate(r) ==
    /\ pc[r] = "write"
    /\ Write(r, UpdateRows)
    /\ Goto(r, "commit")
    /\ UNCHANGED <<input, placed, seen, retained, answer, now>> /\ DbUnchanged

-----------------------------------------------------------------------------
(* The storage primitives of revisions.rs: a revision of an existing System *)
(* with its own artifact (create_with_artifact) or an earlier one (append), *)
(* or an artifact alone (ArtifactRepository::insert, target = None).        *)

HistoryRows(i) ==
    (IF i.artifact = None THEN {"source_artifact"} ELSE {})
    \cup (IF i.target # None THEN {"system_revision"} ELSE {})

InsertHistory(r) ==
    LET i == input[r]
        bound == /\ i.target \in Systems \cup {None}
                 /\ i.artifact \in Visible("source_artifact") \cup {None}
    IN
    /\ pc[r] = "history"
    /\ \/ ~bound /\ Abort(r, "association")
       \/ /\ bound
          /\ Blockers(r) = {}
          /\ Write(r, HistoryRows(i))
          /\ Goto(r, "commit")
          /\ UNCHANGED <<input, placed, seen, retained, answer, now>>
          /\ DbUnchanged

-----------------------------------------------------------------------------
(* COMMIT, failures and the clock.                                         *)

\* Mutant: a replay answers with the identifiers it generated itself.
CommitOwn(r) ==
    /\ pc[r] = "commit"
    /\ Publish(r)
    /\ answer' = [answer EXCEPT ![r] = r]

\* A replay wrote nothing and answers with the receipt it read.
Commit(r) ==
    /\ pc[r] = "commit"
    /\ Publish(r)
    /\ answer' = [answer EXCEPT ![r] = IF written[r] = {} THEN seen[r] ELSE r]

\* The transport is lost, or the caller's future dropped, while the server
\* processes COMMIT: the outcome stands and the caller does not learn it.
CommitLost(r) ==
    /\ pc[r] = "commit"
    /\ Publish(r)
    /\ answer' = [answer EXCEPT ![r] = "unavailable"]

\* A statement fails, the connection drops, the database restarts or the
\* caller's future is cancelled before COMMIT is processed.
Fail(r) == Open(r) /\ Abort(r, "unavailable")

\* PostgreSQL aborts a transaction of a cycle of waits (SQLSTATE 40P01).
Deadlocked(r) ==
    \E C \in SUBSET Request :
        /\ r \in C
        /\ \A q \in C : Open(q) /\ Blockers(q) \cap C # {}
        /\ \A q \in C : \E p \in C : q \in Blockers(p)

BreakDeadlock(r) == Open(r) /\ Deadlocked(r) /\ Abort(r, "unavailable")

\* The database reads t next: the same as before, a unit later or, if the wall
\* clock was set back, a unit earlier.
ReadClock(t) ==
    /\ t \in {now, now + 1} \/ (ClockMaySlip /\ t + 1 = now)
    /\ now' = t
    /\ UNCHANGED <<pc, input, written, placed, seen, retained, answer>>
    /\ DbUnchanged

-----------------------------------------------------------------------------

Init ==
    /\ pc = [r \in Request |-> "idle"]
    /\ input = [r \in Request |-> None]
    /\ written = [r \in Request |-> {}]
    /\ placed = [r \in Request |-> 0]
    /\ seen = [r \in Request |-> None]
    /\ retained = [r \in Request |-> 0]
    /\ answer = [r \in Request |-> None]
    /\ label = [r \in Request |-> None]
    /\ head = [r \in Request |-> None]
    /\ receipt = [s \in Scopes |-> None]
    /\ now = 0

\* What the database and the server do for a call without outside help.
Progress(r) ==
    \/ LockScope(r) \/ Lookup(r) \/ Admit(r)
    \/ InsertIdentity(r) \/ CheckUid(r) \/ InsertAlias(r) \/ CheckAlias(r)
    \/ LockGuard(r) \/ InsertEdge(r)
    \/ InsertEvidence(r) \/ Retain(r)
    \/ LockRow(r) \/ Recheck(r) \/ ReadHead(r) \/ WriteUpdate(r)
    \/ InsertHistory(r)
    \/ Commit(r) \/ BreakDeadlock(r)

Next ==
    \/ \E r \in Request :
        Begin(r) \/ Refuse(r) \/ Progress(r) \/ CommitLost(r) \/ Fail(r)
    \/ \E t \in 0 .. MaxClock : ReadClock(t)

Spec == Init /\ [][Next]_vars

\* Every statement of an open transaction is executed once nothing blocks it.
FairSpec == Spec /\ \A r \in Request : WF_vars(Progress(r))
-----------------------------------------------------------------------------
(* Properties.                                                             *)

\* Types of the state of application.rs: a reply is a receipt or a refusal.
TypeOK ==
    /\ pc \in [Request -> Statement \cup {"idle", "committed", "aborted"}]
    /\ input \in [Request -> Inputs \cup {None}]
    /\ written \in [Request -> SUBSET Table]
    /\ placed \in [Request -> Nat]
    /\ seen \in [Request -> Request \cup {None}]
    /\ retained \in [Request -> 0 .. MaxClock]
    /\ answer \in [Request -> Request \cup Refusal \cup {None}]
    /\ label \in [Request -> Request \cup {None}]
    /\ head \in [Request -> Request \cup {None}]
    /\ receipt \in [Scopes -> Request \cup {None}]
    /\ now \in 0 .. MaxClock

Accepted == Visible("system_write_head")

\* docs/atomic-write.md: an accepted write is visible with its artifact,
\* revision, accepted audit and outgoing work or not at all; heads, labels and
\* receipts point at such writes only.
AcceptedEvidence ==
    /\ Accepted = Visible("server_audit")
    /\ Accepted = Visible("outgoing_work")
    /\ Accepted \subseteq Visible("system_revision") \cap Visible("source_artifact")
    /\ Visible("system_create_retry") \subseteq Accepted
    /\ \A s \in Request : head[s] # None => /\ s \in Systems
                                           /\ head[s] \in Accepted
                                           /\ Target(head[s]) = s
                                           /\ label[s] = head[s]
    /\ \A s \in Systems : label[s] \in Committed
    /\ \A c \in Scopes : receipt[c] # None =>
            receipt[c] \in Visible("system_create_retry") /\ Scope(receipt[c]) = c

\* A caller that holds a receipt holds it for a committed outcome: its own, or
\* on replay the one recorded for the same scope and the same intent.  A caller
\* refused for any reason but an unknown outcome left nothing behind.
AnswersAreTrue ==
    \A r \in Request :
        /\ answer[r] \in Request =>
            /\ {r, answer[r]} \subseteq Committed
            /\ Op(r) \in {"create", "update"} => answer[r] \in Accepted
            /\ answer[r] # r =>
                Scope(answer[r]) = Scope(r) /\ Digest(answer[r]) = Digest(r)
        /\ answer[r] \in Refusal \ {"unavailable"} =>
            /\ pc[r] = "aborted" /\ written[r] = {} /\ placed[r] = 0

\* docs/write-retries.md: within its retention a scoped key admits at most one
\* creation, whatever the wall clock does between lookup and recording.
OneLiveCreation ==
    \A r, q \in Visible("system_create_retry") :
        r # q /\ Scope(r) = Scope(q) =>
            Expires(r) <= retained[q] \/ Expires(q) <= retained[r]

\* UIDs and source identities name one System for ever (migration 0002).
UniqueIdentity ==
    \A r, q \in Systems :
        r # q => /\ input[r].uid # input[q].uid
                 /\ \A m \in DOMAIN input[r].aliases, n \in DOMAIN input[q].aliases :
                        input[r].aliases[m] # input[q].aliases[n]

Updates(s) == {r \in Accepted : Op(r) = "update" /\ Target(r) = s}

\* docs/conditional-writes.md, "Row locking serializes writes": the accepted
\* writes of a System form one line; no two updates, conditional or not,
\* replaced the same revision, and the head is the one nothing replaced.
LinearHistory ==
    \A s \in Request :
        /\ \A r \in Updates(s) : seen[r] \in Accepted /\ Target(seen[r]) = s
        /\ \A r \in Updates(s) : seen[r] # head[s]
        /\ \A r, q \in Updates(s) : r # q => seen[r] # seen[q]

\* A head only moves to a write whose condition was absent or named exactly the
\* revision it replaces, at the moment it replaces it (check_revision).
NoLostUpdate ==
    [][\A s \in Request :
          head[s] # None /\ head'[s] # head[s] =>
             CheckRevision(input[head'[s]].expected, head[s])]_vars

\* application.rs:196, "Acquire before any resource/parent lock": waits never
\* form a cycle, except between creations racing for the same UID or for shared
\* aliases, whose constraints of migration 0002 wait for each other.
OnlyIdentitiesDeadlock ==
    \A r \in Request : Open(r) /\ Deadlocked(r) => pc[r] \in {"uid", "pair"}

-----------------------------------------------------------------------------
(* Refinement: to everyone else a transaction is one step of AtomicWrites, *)
(* taken when it commits.                                                  *)

DoneAs(r) == IF pc[r] = "committed" /\ written[r] # {} THEN input[r] ELSE None

KeptAs(r) ==
    IF pc[r] = "committed" /\ "system_create_retry" \in written[r]
    THEN retained[r] ELSE 0

Atomic == INSTANCE AtomicWrites WITH
            done <- [r \in Request |-> DoneAs(r)],
            kept <- [r \in Request |-> KeptAs(r)]

\* The interleaved transactions of application.rs have the effect of atomic
\* writes in the order of their commits.
WritesAreAtomic == Atomic!Spec

\* Every call whose transaction was opened is answered and gives up its locks.
CallsEnd == \A r \in Request : Open(r) ~> ~Open(r)
=============================================================================
