---------------------------- MODULE AtomicWrites ----------------------------
(***************************************************************************)
(* What the write boundary of glaux-server promises, as one step for each  *)
(* write: a System is created, updated or given history all at once, when  *)
(* its identity is free, its parent exists, its condition holds and no     *)
(* live receipt is kept for its retry scope.  docs/atomic-write.md,        *)
(* docs/conditional-writes.md and docs/write-retries.md state these rules; *)
(* SystemWrites carries them out with interleaved transactions.            *)
(***************************************************************************)
EXTENDS Naturals, Sequences

CONSTANTS Request, None, Scopes, Inputs

VARIABLES
    done,       \* the accepted writes, by the identifier of each
    head,       \* the revision each System is at
    label,      \* the write each System's label comes from
    receipt,    \* the creation recorded for each retry scope
    kept        \* when a recorded creation was recorded

vars == <<done, head, label, receipt, kept>>

Written == {r \in Request : done[r] # None}

Exists == {s \in Written : done[s].op \in {"create", "identity"}}

HasArtifact ==
    {a \in Written : \/ done[a].op \in {"create", "update"}
                     \/ done[a].op = "history" /\ done[a].artifact = None}

AliasesOf(i) == {i.aliases[n] : n \in DOMAIN i.aliases}

Free(i) ==
    /\ \A s \in Exists : /\ done[s].uid # i.uid
                         /\ AliasesOf(done[s]) \cap AliasesOf(i) = {}
    /\ \A m, n \in DOMAIN i.aliases : i.aliases[m] = i.aliases[n] => m = n

\* A keyed creation is recorded at some instant; the record it replaces had
\* expired by then.
Record(r, i) ==
    LET scope == <<i.key, i.parent>>
        old == receipt[scope]
    IN
    IF i.op = "create" /\ i.key # None
    THEN /\ kept'[r] \in Nat
         /\ kept' = [kept EXCEPT ![r] = kept'[r]]
         /\ old # None => kept[old] + done[old].retention <= kept'[r]
         /\ receipt' = [receipt EXCEPT ![scope] = r]
    ELSE UNCHANGED <<receipt, kept>>

Create(r, i) ==
    /\ i.op \in {"create", "identity"}
    /\ Free(i)
    /\ i.parent \in Exists \cup {None}
    /\ label' = [label EXCEPT ![r] = r]
    /\ head' = IF i.op = "create" THEN [head EXCEPT ![r] = r] ELSE head
    /\ Record(r, i)

Update(r, i) ==
    /\ i.op = "update"
    /\ head[i.target] # None
    /\ i.expected \in {None, head[i.target]}
    /\ label' = [label EXCEPT ![i.target] = r]
    /\ head' = [head EXCEPT ![i.target] = r]
    /\ UNCHANGED <<receipt, kept>>

AppendHistory(r, i) ==
    /\ i.op = "history"
    /\ i.target \in Exists \cup {None}
    /\ i.artifact \in HasArtifact \cup {None}
    /\ UNCHANGED <<head, label, receipt, kept>>

Init ==
    /\ done = [r \in Request |-> None]
    /\ head = [r \in Request |-> None]
    /\ label = [r \in Request |-> None]
    /\ receipt = [s \in Scopes |-> None]
    /\ kept = [r \in Request |-> 0]

Next ==
    \E r \in Request, i \in Inputs :
        /\ done[r] = None
        /\ done' = [done EXCEPT ![r] = i]
        /\ Create(r, i) \/ Update(r, i) \/ AppendHistory(r, i)

Spec == Init /\ [][Next]_vars
=============================================================================
