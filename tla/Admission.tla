------------------------------ MODULE Admission ------------------------------
(***************************************************************************)
(* Admission of authorization.rs between the HTTP handlers of              *)
(* system_http.rs and the write boundary of application.rs, with the       *)
(* selection of visible Systems of authorization_storage.rs.               *)
(*                                                                         *)
(* A policy may change at any moment.  A call consults it once for each    *)
(* action, reads ownership and parents in statements of their own and, if  *)
(* it writes, consults the policy again in a callback inside the           *)
(* transaction: after the receipt is selected (creation) or the row is     *)
(* locked (update), before anything is compared, disclosed or written.     *)
(*                                                                         *)
(* The System a creation makes is the call itself.  The transaction around *)
(* the callback is one step here, which SystemWrites justifies; whether it *)
(* then meets a conflict, a stale revision or a failure is left open.  The *)
(* adapter may be unavailable at any consultation.                         *)
(***************************************************************************)
EXTENDS Naturals, FiniteSets

CONSTANTS
    Call,           \* calls, and the Systems they create
    None,           \* Option::None, and resources: null
    Caller,         \* verified callers
    Named,          \* those whose identity fits the audit actor
    Sources,        \* configured sources
    Keys,           \* retry keys
    Payloads,       \* the intents of creations
    Policies,       \* the policies that may be in force
    Inputs,         \* the calls that are made
    Connections,    \* max_connections of the pool: calls that run at once
    MaxRevisions    \* bound on the changes of the policy

Action == {"read", "create", "update"}

Grant == [source : Sources, resources : SUBSET Call \cup {None}]

Policy == [Caller -> [Action -> SUBSET Grant]]

Input ==
    [op : {"create", "identity"}, caller : Caller, source : Sources,
     parent : Call \cup {None}, key : Keys \cup {None}, payload : Payloads,
     condition : BOOLEAN]
    \cup [op : {"update", "get"}, caller : Caller, target : Call]
    \cup [op : {"list"}, caller : Caller, limit : Nat \ {0}]

ASSUME PolicyAssumption ==
    Policies \subseteq Policy /\ Policies # {}
ASSUME BoundsAssumption == MaxRevisions \in Nat /\ Connections \in Nat \ {0}
ASSUME InputsAssumption == Inputs \subseteq Input /\ Named \subseteq Caller

VARIABLES
    policy,     \* the policy in force
    revisions,  \* how often it has changed
    written,    \* the calls whose write is committed
    receipt,    \* the creation recorded for a retry scope
    pc,         \* where each call is
    input,      \* what it was asked to do
    perms,      \* the permission sets it has been given
    facts,      \* owner and link of the parent or target, read before the write
    seen,       \* the recorded creation its transaction selected
    answer,     \* what the caller was told
    shown,      \* the Systems whose record or receipt it was given
    noted,      \* the target of its denied audit row
    during,     \* history: policies in force while the call ran
    deciding    \* history: policies in force while its callback ran

calls == <<pc, input, perms, facts, seen, answer, shown, noted, during, deciding>>
vars == <<policy, revisions, written, receipt, calls>>

Scopes == Caller \X Sources \X (Call \cup {None}) \X Keys

Facts == [owner : Sources \cup {None}, link : Call \cup {None},
          linkOwner : Sources \cup {None}]

NoFacts == [owner |-> None, link |-> None, linkOwner |-> None]

Step == {"preflight", "parse", "create", "context", "parent", "read", "update", "target",
         "lookup", "callback", "decide", "write", "get", "select"}

Answer == {"created", "updated", "found", "denied", "not_found", "conflict",
           "precondition", "invalid", "unavailable"}

ASSUME NoneAssumption ==
    /\ None \notin Call /\ None \notin Sources /\ None \notin Keys /\ None \notin Answer
    /\ \A S \in SUBSET Call : None # S

Op(r) == input[r].op
Me(r) == input[r].caller

Running(r) == pc[r] \in Step

-----------------------------------------------------------------------------
(* PermissionSet and the selection of visible Systems.                     *)

Allows(grants, source, id) ==
    \E g \in grants : g.source = source /\ (g.resources # None => id \in g.resources)

AllowsSource(grants, source) ==
    \E g \in grants : g.source = source /\ g.resources # {}

Exists == {s \in written : Op(s) \in {"create", "identity"}}

\* system_source: the source of the one accepted CREATE; none for a bare identity.
Owner(s) == IF s \in written /\ Op(s) = "create" THEN input[s].source ELSE None

Parent(s) == input[s].parent

Readable(grants) == {s \in Exists : Owner(s) # None /\ Allows(grants, Owner(s), s)}

\* Mutant: a child is shown whatever its parent.
VisibleAlone(grants) == Readable(grants)

\* visible_systems!: a child whose direct parent is not readable is withheld.
Visible(grants) ==
    {s \in Readable(grants) : Parent(s) # None => Parent(s) \in Readable(grants)}

\* The owner and the parent link of a System, with the owner of that link.
FactsOf(s) ==
    [owner |-> Owner(s), link |-> Parent(s),
     linkOwner |-> IF Parent(s) = None THEN None ELSE Owner(Parent(s))]

-----------------------------------------------------------------------------

Goto(r, where) == pc' = [pc EXCEPT ![r] = where]

\* Mutant: the callback trusts what was read before the transaction.
GivenBefore(r, a) ==
    IF pc[r] \in {"callback", "decide"} THEN perms[r][a] ELSE policy[Me(r)][a]

\* What the adapter returns to a call.
Given(r, a) == policy[Me(r)][a]

NoPerms == [a \in Action |-> {}]

Consult(r, a) == perms' = [perms EXCEPT ![r][a] = Given(r, a)]

DbUnchanged == UNCHANGED <<policy, revisions, written, receipt>>

\* The function returns and its locals are gone.
Reply(r, what) ==
    /\ Goto(r, "answered")
    /\ answer' = [answer EXCEPT ![r] = what]
    /\ perms' = [perms EXCEPT ![r] = NoPerms]
    /\ facts' = [facts EXCEPT ![r] = NoFacts]
    /\ UNCHANGED <<input, seen, during, deciding>>

\* A refusal that is not recorded.
Refuse(r, why) == Reply(r, why) /\ UNCHANGED <<shown, noted>>

\* deny: the row may be withheld by the rate, the cap or a failure.
Deny(r, why, target) ==
    /\ Reply(r, why)
    /\ \E t \in {None, target} : noted' = [noted EXCEPT ![r] = t]
    /\ UNCHANGED shown

Proceed(r, where) ==
    /\ Goto(r, where)
    /\ UNCHANGED <<input, facts, seen, answer, shown, noted, during, deciding>>

\* The call goes on with what it read about s.
Note(r, s, where) ==
    /\ facts' = [facts EXCEPT ![r] = FactsOf(s)]
    /\ Goto(r, where)
    /\ UNCHANGED <<input, perms, seen, answer, shown, noted, during, deciding>>

\* The target of a denied row, once it is known to be readable.
SafeTarget(r) == input[r].target

\* Creations by HTTP name no parent and pass the preflight first.
FirstStep(i) ==
    CASE i.op = "create" /\ i.parent = None -> "preflight"
      [] i.op = "create" /\ i.parent # None -> "create"
      [] i.op = "identity" -> "write"
      [] i.op = "update" -> "read"
      [] i.op \in {"get", "list"} -> "get"

\* A connection of the pool is free; the call keeps it to its end.
Begin(r) ==
    /\ pc[r] = "idle"
    /\ Cardinality({q \in Call : Running(q)}) < Connections
    /\ \E i \in Inputs : /\ input' = [input EXCEPT ![r] = i]
                         /\ Goto(r, FirstStep(i))
    /\ during' = [during EXCEPT ![r] = {policy}]
    /\ UNCHANGED <<perms, facts, seen, answer, shown, noted, deciding>>
    /\ DbUnchanged

\* The adapter, a connection or a statement fails, or the future is dropped: an
\* open transaction is rolled back.
Fail(r) == Running(r) /\ Refuse(r, "unavailable") /\ DbUnchanged

-----------------------------------------------------------------------------
(* create_system_if and the handler in front of it.                        *)

\* preflight_system_create
Preflight(r) ==
    LET allowed == AllowsSource(Given(r, "create"), input[r].source) IN
    /\ pc[r] = "preflight"
    /\ \/ ~allowed /\ Deny(r, "denied", None)
       \/ allowed /\ Me(r) \notin Named /\ Refuse(r, "unavailable")
       \/ allowed /\ Me(r) \in Named /\ Proceed(r, "parse") /\ UNCHANGED perms
    /\ DbUnchanged

\* Headers, body and schema.
Parse(r) ==
    /\ pc[r] = "parse"
    /\ \/ Refuse(r, "invalid")
       \/ Proceed(r, "create") /\ UNCHANGED perms
    /\ DbUnchanged

\* A keyed call may select another System than its candidate, so that only its
\* source is screened.
ScopeAllowed(grants, i, candidate) ==
    IF i.key # None THEN AllowsSource(grants, i.source)
    ELSE Allows(grants, i.source, candidate)

ConsultCreate(r) ==
    LET allowed == ScopeAllowed(Given(r, "create"), input[r], r) IN
    /\ pc[r] = "create"
    /\ \/ ~allowed /\ Deny(r, "denied", None)
       \/ allowed /\ Me(r) \notin Named /\ Refuse(r, "unavailable")
       \/ allowed /\ Me(r) \in Named /\ Consult(r, "create") /\ Proceed(r, "context")
    /\ DbUnchanged

ConsultRead(r) ==
    /\ pc[r] = "context"
    /\ Consult(r, "read")
    /\ Proceed(r, IF input[r].parent = None THEN "lookup" ELSE "parent")
    /\ DbUnchanged

\* list_systems and system_source of the parent and of its link.  What they read
\* of a visible System was committed with it, so that they are one step.
ReadParent(r) ==
    LET parent == input[r].parent
        fits == /\ parent \in Visible(perms[r]["read"])
                /\ input[r].key = None =>
                        Allows(perms[r]["create"], Owner(parent), parent)
    IN
    /\ pc[r] = "parent"
    /\ \/ ~fits /\ Deny(r, "denied", None)
       \/ fits /\ Note(r, parent, "lookup")
    /\ DbUnchanged

Scope(r) == <<Me(r), input[r].source, input[r].parent, input[r].key>>

InTransaction(r) == pc[r] \in {"callback", "decide", "write"}

\* The advisory lock and the lookup of a live receipt.
Lookup(r) ==
    /\ pc[r] = "lookup"
    /\ IF input[r].key = None
       THEN UNCHANGED seen
       ELSE /\ \A q \in Call \ {r} :
                  ~(InTransaction(q) /\ Op(q) = "create" /\ Scope(q) = Scope(r))
            /\ seen' = [seen EXCEPT ![r] = receipt[Scope(r)]]
    /\ Goto(r, "callback")
    /\ UNCHANGED <<input, perms, facts, answer, shown, noted, during, deciding>>
    /\ DbUnchanged

\* The first consultation of the callback: Create, or Read for an update.
Callback(r) ==
    /\ pc[r] = "callback"
    /\ Consult(r, IF Op(r) = "create" THEN "create" ELSE "read")
    /\ deciding' = [deciding EXCEPT ![r] = {policy}]
    /\ Goto(r, "decide")
    /\ UNCHANGED <<input, facts, seen, answer, shown, noted, during>>
    /\ DbUnchanged

Replays(r) == seen[r] # None

\* Mutant: the recorded creation is not authorized itself.
PermitsCandidate(r, create, read) == Allows(create, input[r].source, r)

\* The callback of create_system_if: the System selected, and the parent with
\* its link by the owners read before the transaction.
Permits(r, create, read) ==
    LET i == input[r]
        f == facts[r]
        id == IF Replays(r) THEN seen[r] ELSE r
    IN
    /\ Allows(create, i.source, id)
    /\ Replays(r) => Allows(read, i.source, id)
    /\ i.parent # None =>
        /\ Replays(r) \/ Allows(create, f.owner, i.parent)
        /\ Allows(read, f.owner, i.parent)
        /\ f.link # None => Allows(read, f.linkOwner, f.link)

\* The second consultation and the decision of a creation.  A replay ends here:
\* the intent is compared only after the decision.
DecideCreate(r) ==
    LET permitted == Permits(r, perms[r]["create"], Given(r, "read"))
        meant == input[r].condition
        q == seen[r]
    IN
    /\ pc[r] = "decide" /\ Op(r) = "create"
    /\ \/ ~permitted /\ Deny(r, "denied", None)
       \/ permitted /\ ~meant /\ Refuse(r, "precondition")
       \/ permitted /\ meant /\ ~Replays(r) /\ Consult(r, "read") /\ Proceed(r, "write")
       \/ /\ permitted /\ meant /\ Replays(r)
          /\ input[q].payload # input[r].payload
          /\ Refuse(r, "conflict")
       \/ /\ permitted /\ meant /\ Replays(r)
          /\ input[q].payload = input[r].payload
          /\ Reply(r, "created")
          /\ shown' = [shown EXCEPT ![r] = {q}]
          /\ UNCHANGED noted
    /\ DbUnchanged

-----------------------------------------------------------------------------
(* update_system.                                                          *)

ConsultUpdate(r) ==
    /\ \/ pc[r] = "read" /\ Consult(r, "read") /\ Proceed(r, "update")
       \/ pc[r] = "update" /\ Consult(r, "update") /\ Proceed(r, "target")
    /\ DbUnchanged

\* list_systems and system_source of the target and of its parent.
ReadTarget(r) ==
    LET id == input[r].target
        visible == id \in Visible(perms[r]["read"])
        allowed == Allows(perms[r]["update"], Owner(id), id)
    IN
    /\ pc[r] = "target"
    /\ \/ ~visible /\ Deny(r, "not_found", None)
       \/ visible /\ ~allowed /\ Deny(r, "denied", SafeTarget(r))
       \/ visible /\ allowed /\ Me(r) \notin Named /\ Refuse(r, "unavailable")
       \/ visible /\ allowed /\ Me(r) \in Named /\ Note(r, id, "callback")
    /\ DbUnchanged

\* The target and its parent, by the owners read before the transaction.
StillReadable(r, read) ==
    /\ Allows(read, facts[r].owner, input[r].target)
    /\ facts[r].link # None => Allows(read, facts[r].linkOwner, facts[r].link)

\* The callback of update_system, its second consultation included.
DecideUpdate(r) ==
    LET readable == StillReadable(r, perms[r]["read"])
        allowed == Allows(Given(r, "update"), facts[r].owner, input[r].target)
    IN
    /\ pc[r] = "decide" /\ Op(r) = "update"
    /\ \/ ~readable /\ Deny(r, "not_found", None)
       \/ readable /\ ~allowed /\ Deny(r, "denied", SafeTarget(r))
       \/ readable /\ allowed /\ Consult(r, "update") /\ Proceed(r, "write")
    /\ DbUnchanged

-----------------------------------------------------------------------------
(* The write, and what a receipt records.                                  *)

Keyed(r) == Op(r) = "create" /\ input[r].key # None

Store(r) ==
    /\ written' = written \cup {r}
    /\ receipt' = IF Keyed(r) THEN [receipt EXCEPT ![Scope(r)] = r] ELSE receipt
    /\ UNCHANGED <<policy, revisions>>

\* The rest of the transaction: accepted, accepted and not told, or refused.
Write(r) ==
    /\ pc[r] = "write"
    /\ \/ /\ Refuse(r, IF Op(r) = "update" THEN "precondition" ELSE "conflict")
          /\ DbUnchanged
       \/ /\ Reply(r, IF Op(r) = "update" THEN "updated" ELSE "created")
          /\ shown' = [shown EXCEPT ![r] = {IF Op(r) = "update" THEN input[r].target ELSE r}]
          /\ UNCHANGED noted
          /\ Store(r)
       \/ Store(r) /\ Refuse(r, "unavailable")

\* A recorded receipt passes its deadline.
Expire(scope) ==
    /\ receipt[scope] # None
    /\ receipt' = [receipt EXCEPT ![scope] = None]
    /\ UNCHANGED <<policy, revisions, written, calls>>

-----------------------------------------------------------------------------
(* current_system, get_system and list_systems.                            *)

ConsultGet(r) ==
    /\ pc[r] = "get"
    /\ Consult(r, "read")
    /\ Proceed(r, "select")
    /\ DbUnchanged

\* One statement authorizes, counts, limits and hydrates.
Select(r) ==
    LET visible == Visible(perms[r]["read"]) IN
    /\ pc[r] = "select"
    /\ \/ Op(r) = "get" /\ input[r].target \notin visible /\ Refuse(r, "not_found")
       \/ /\ Op(r) = "get" /\ input[r].target \in visible
          /\ Reply(r, "found")
          /\ shown' = [shown EXCEPT ![r] = {input[r].target}]
          /\ UNCHANGED noted
       \/ /\ Op(r) = "list"
          /\ Reply(r, "found")
          /\ \E page \in SUBSET visible :
                /\ Cardinality(page) <= input[r].limit
                /\ Cardinality(page) < input[r].limit => page = visible
                /\ shown' = [shown EXCEPT ![r] = page]
          /\ UNCHANGED noted
    /\ DbUnchanged

-----------------------------------------------------------------------------

\* The policy behind the adapter is replaced.
Revise ==
    /\ revisions < MaxRevisions
    /\ revisions' = revisions + 1
    /\ policy' \in Policies \ {policy}
    /\ during' = [r \in Call |-> IF Running(r) THEN during[r] \cup {policy'} ELSE during[r]]
    /\ deciding' = [r \in Call |-> IF pc[r] = "decide" THEN deciding[r] \cup {policy'}
                                   ELSE deciding[r]]
    /\ UNCHANGED <<written, receipt, pc, input, perms, facts, seen, answer, shown, noted>>

Init ==
    /\ policy \in Policies /\ revisions = 0
    /\ written = {} /\ receipt = [c \in Scopes |-> None]
    /\ pc = [r \in Call |-> "idle"] /\ input = [r \in Call |-> None]
    /\ perms = [r \in Call |-> NoPerms]
    /\ facts = [r \in Call |-> NoFacts] /\ seen = [r \in Call |-> None]
    /\ answer = [r \in Call |-> None] /\ shown = [r \in Call |-> {}]
    /\ noted = [r \in Call |-> None]
    /\ during = [r \in Call |-> {}] /\ deciding = [r \in Call |-> {}]

Next ==
    \/ \E r \in Call :
        \/ Begin(r) \/ Fail(r)
        \/ Preflight(r) \/ Parse(r) \/ ConsultCreate(r) \/ ConsultRead(r)
        \/ ReadParent(r) \/ Lookup(r)
        \/ ConsultUpdate(r) \/ ReadTarget(r)
        \/ Callback(r) \/ DecideCreate(r) \/ DecideUpdate(r) \/ Write(r)
        \/ ConsultGet(r) \/ Select(r)
    \/ \E c \in Scopes : Expire(c)
    \/ Revise

Spec == Init /\ [][Next]_vars

-----------------------------------------------------------------------------
(* Properties.                                                             *)

\* Types of the locals of the admission functions.
TypeOK ==
    /\ policy \in Policies /\ revisions \in 0 .. MaxRevisions
    /\ written \subseteq Call
    /\ receipt \in [Scopes -> Call \cup {None}]
    /\ pc \in [Call -> Step \cup {"idle", "answered"}]
    /\ input \in [Call -> Inputs \cup {None}]
    /\ perms \in [Call -> [Action -> SUBSET Grant]]
    /\ facts \in [Call -> Facts]
    /\ seen \in [Call -> Call \cup {None}]
    /\ answer \in [Call -> Answer \cup {None}]
    /\ shown \in [Call -> SUBSET Call]
    /\ noted \in [Call -> Call \cup {None}]
    /\ during \in [Call -> SUBSET Policies]
    /\ deciding \in [Call -> SUBSET Policies]

\* s and its parent, if it has one, are readable to c under p, by the owners the
\* database holds.
MayRead(p, c, s) ==
    /\ s \in Exists /\ Owner(s) # None /\ Allows(p[c]["read"], Owner(s), s)
    /\ Parent(s) # None => /\ Owner(Parent(s)) # None
                           /\ Allows(p[c]["read"], Owner(Parent(s)), Parent(s))

\* The write of r is permitted by policies in force while its callback ran, by
\* the owners the database holds.
MayWrite(r) ==
    /\ Op(r) = "create" =>
        \E p, q \in deciding[r] :
            /\ Allows(p[Me(r)]["create"], input[r].source, r)
            /\ Parent(r) # None =>
                /\ Allows(p[Me(r)]["create"], Owner(Parent(r)), Parent(r))
                /\ MayRead(q, Me(r), Parent(r))
    /\ Op(r) = "update" =>
        \E p, q \in deciding[r] :
            /\ MayRead(p, Me(r), input[r].target)
            /\ Allows(q[Me(r)]["update"], Owner(input[r].target), input[r].target)

\* docs/authorization.md, "The local policy is consulted on every operation":
\* whatever was revoked between the preflight and the transaction, a committed
\* write was permitted while its callback ran.
WritesArePermitted == \A r \in written : MayWrite(r)

\* The Systems whose existence a caller can tell from its answer, its own
\* creation apart, and the one named in its denied audit row.
Told(r) ==
    ((shown[r] \cup {noted[r]}) \ {r, None})
    \cup IF answer[r] \in {"denied", "conflict", "precondition", "updated"} /\ Op(r) = "update"
         THEN {input[r].target} ELSE {}

\* docs/authorization.md, "A concealed item and an absent item receive the same
\* safe 404": whatever a caller is told of was readable to it, with its parent,
\* under one policy that was in force while the call ran.
NothingConcealedIsTold ==
    \A r \in Call : \A s \in Told(r) : \E p \in during[r] : MayRead(p, Me(r), s)

Reauthorized(r) ==
    \E p, q \in deciding[r] :
        /\ Allows(p[Me(r)]["create"], Owner(seen[r]), seen[r])
        /\ MayRead(q, Me(r), seen[r])

\* docs/authorization.md, "Optional creation retries reauthorize the original
\* outcome before disclosure": nothing of a recorded creation is told, not even
\* that it had another intent, unless it could be created and read while the
\* callback ran.
ReplayIsReauthorized ==
    \A r \in Call :
        /\ pc[r] = "answered" /\ Replays(r)
        /\ answer[r] \in {"created", "conflict", "precondition"}
        => Reauthorized(r)
=============================================================================
