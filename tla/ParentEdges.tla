----------------------------- MODULE ParentEdges -----------------------------
(***************************************************************************)
(* The edges from Systems to their parents and the triggers of migration   *)
(* 0003 that keep them free of cycles, whoever changes them: transactions  *)
(* that insert, update and delete edges at READ COMMITTED or REPEATABLE    *)
(* READ, several statements each, any rows in a statement.                 *)
(*                                                                         *)
(* A statement takes its snapshot before its trigger waits for the guard   *)
(* row.  The queries of the volatile row trigger take snapshots of their   *)
(* own at READ COMMITTED and see what the statement has done so far; at    *)
(* REPEATABLE READ they see what the first statement saw, and the guard    *)
(* row must be one that snapshot knows.  The boolean flip says nothing: a  *)
(* row version is newer whatever its value.                                *)
(***************************************************************************)
CONSTANTS
    System,     \* rows of system_identity
    Txn,        \* sessions, each with a transaction at a time
    None        \* NULL, no row, nobody

ASSUME NoneAssumption ==
    None \notin System /\ None \notin Txn /\ None \notin [System -> System \cup {None}]

VARIABLES
    edges,      \* committed system_parent: the parent of each child, if any
    guard,      \* who has updated the row of system_parent_write_guard
    pc,         \* where the transaction of each session is
    level,      \* its isolation level
    snapshot,   \* the edges its snapshot holds
    stale,      \* whether the guard row changed after that snapshot
    changes     \* the rows it has written

local == <<pc, level, snapshot, stale, changes>>
vars == <<edges, guard, local>>

Graph == [System -> System \cup {None}]

\* What a transaction has written to some rows.
Writes == UNION {[rows -> System \cup {None}] : rows \in SUBSET System}

Nothing == [s \in {} |-> None]

Overlay(g, w) == [s \in System |-> IF s \in DOMAIN w THEN w[s] ELSE g[s]]

Put(w, c, p) == [s \in DOMAIN w \cup {c} |-> IF s = c THEN p ELSE w[s]]

\* The rows themselves, which constraints and the rows to update come from.
Current(t) == Overlay(edges, changes[t])

\* Mutant: the trigger function is STABLE and sees what its statement saw.
ViewOfStatement(t) == Overlay(snapshot[t], changes[t])

\* What a query in the volatile row trigger sees.
View(t) ==
    Overlay(IF level[t] = "read committed" THEN edges ELSE snapshot[t], changes[t])

-----------------------------------------------------------------------------
(* The row trigger.                                                        *)

\* S holds the parents of its members, but that of the replaced row.
IsClosed(S, g, replaced) == \A s \in S : s # replaced /\ g[s] # None => g[s] \in S

\* Mutant: the row that is about to be replaced is followed too.
AncestorsOfAll(g, p, replaced) ==
    {a \in System : \A S \in SUBSET System : p \in S /\ IsClosed(S, g, None) => a \in S}

\* Mutant: only the parent and the grandparent are looked at.
AncestorsNear(g, p, replaced) == {p} \cup ({g[p]} \ {None})

\* WITH RECURSIVE ancestors: the least set that holds p and is closed.
Ancestors(g, p, replaced) ==
    {a \in System : \A S \in SUBSET System : p \in S /\ IsClosed(S, g, replaced) => a \in S}

\* check_system_parent_cycle raises for NEW = (c, p).
ClosesCycle(g, c, p, replaced) == c \in Ancestors(g, p, replaced)

-----------------------------------------------------------------------------
(* Transactions.                                                           *)

Begin(t, l) ==
    /\ pc[t] = "idle"
    /\ pc' = [pc EXCEPT ![t] = "open"]
    /\ level' = [level EXCEPT ![t] = l]
    /\ UNCHANGED <<edges, guard, snapshot, stale, changes>>

\* A statement begins: at READ COMMITTED each one has a snapshot of its own.
Issue(t) ==
    /\ pc[t] = "open"
    /\ pc' = [pc EXCEPT ![t] = "waiting"]
    /\ IF level[t] = "read committed" \/ snapshot[t] = None
       THEN /\ snapshot' = [snapshot EXCEPT ![t] = edges]
            /\ stale' = [stale EXCEPT ![t] = FALSE]
       ELSE UNCHANGED <<snapshot, stale>>
    /\ UNCHANGED <<edges, guard, level, changes>>

\* Mutant: the trigger reads the guard row instead of updating it.
SerializeWithoutLock(t) ==
    /\ pc[t] = "waiting"
    /\ level[t] = "repeatable read" => ~stale[t]
    /\ guard' = t
    /\ pc' = [pc EXCEPT ![t] = "writing"]
    /\ UNCHANGED <<edges, level, snapshot, stale, changes>>

\* Mutant: SELECT ... FOR UPDATE of a table nobody changes, which locks only.
SerializeWithoutUpdate(t) ==
    /\ pc[t] = "waiting"
    /\ guard \in {None, t}
    /\ guard' = t
    /\ pc' = [pc EXCEPT ![t] = "writing"]
    /\ UNCHANGED <<edges, level, snapshot, stale, changes>>

\* The statement trigger updates the guard row: it waits for another writer to
\* end and, at REPEATABLE READ, fails if that one has committed.
Serialize(t) ==
    /\ pc[t] = "waiting"
    /\ guard \in {None, t}
    /\ level[t] = "repeatable read" => ~stale[t]
    /\ guard' = t
    /\ pc' = [pc EXCEPT ![t] = "writing"]
    /\ UNCHANGED <<edges, level, snapshot, stale, changes>>

\* An inserted row passes the row trigger and then its constraints.
InsertRow(t, c, p) ==
    /\ pc[t] = "writing"
    /\ ~ClosesCycle(View(t), c, p, None)
    /\ c # p /\ Current(t)[c] = None
    /\ changes' = [changes EXCEPT ![t] = Put(@, c, p)]
    /\ UNCHANGED <<edges, guard, pc, level, snapshot, stale>>

\* So does the row of old, which may get another child as well as parent.
UpdateRow(t, old, c, p) ==
    /\ pc[t] = "writing"
    /\ Current(t)[old] # None
    /\ ~ClosesCycle(View(t), c, p, old)
    /\ c # p /\ (c # old => Current(t)[c] = None)
    /\ changes' = [changes EXCEPT ![t] = Put(Put(@, old, None), c, p)]
    /\ UNCHANGED <<edges, guard, pc, level, snapshot, stale>>

DeleteRow(t, c) ==
    /\ pc[t] = "writing"
    /\ Current(t)[c] # None
    /\ changes' = [changes EXCEPT ![t] = Put(@, c, None)]
    /\ UNCHANGED <<edges, guard, pc, level, snapshot, stale>>

EndStatement(t) ==
    /\ pc[t] = "writing"
    /\ pc' = [pc EXCEPT ![t] = "open"]
    /\ UNCHANGED <<edges, guard, level, snapshot, stale, changes>>

\* The transaction of t is over and its locks are gone.
Over(t) ==
    /\ guard' = IF guard = t THEN None ELSE guard
    /\ pc' = [pc EXCEPT ![t] = "idle"]
    /\ level' = [level EXCEPT ![t] = "read committed"]
    /\ snapshot' = [snapshot EXCEPT ![t] = None]
    /\ changes' = [changes EXCEPT ![t] = Nothing]

\* COMMIT makes its rows, and with them the guard row, newer than the snapshots
\* that others hold.
Commit(t) ==
    /\ pc[t] = "open"
    /\ edges' = Current(t)
    /\ stale' = [u \in Txn |-> IF u = t THEN FALSE
                               ELSE stale[u] \/ (guard = t /\ snapshot[u] # None)]
    /\ Over(t)

\* A row or a statement is refused, a session ends or a client thinks better.
Rollback(t) ==
    /\ pc[t] # "idle"
    /\ stale' = [stale EXCEPT ![t] = FALSE]
    /\ UNCHANGED edges
    /\ Over(t)

-----------------------------------------------------------------------------

Init ==
    /\ edges = [s \in System |-> None]
    /\ guard = None
    /\ pc = [t \in Txn |-> "idle"]
    /\ level = [t \in Txn |-> "read committed"]
    /\ snapshot = [t \in Txn |-> None]
    /\ stale = [t \in Txn |-> FALSE]
    /\ changes = [t \in Txn |-> Nothing]

Next ==
    \E t \in Txn :
        \/ \E l \in {"read committed", "repeatable read"} : Begin(t, l)
        \/ Issue(t) \/ Serialize(t) \/ EndStatement(t)
        \/ \E c \in System : DeleteRow(t, c) \/ \E p \in System : InsertRow(t, c, p)
        \/ \E old, c, p \in System : UpdateRow(t, old, c, p)
        \/ Commit(t) \/ Rollback(t)

Spec == Init /\ [][Next]_vars

-----------------------------------------------------------------------------
(* Properties.                                                             *)

\* Types of the rows and of the transactions.
TypeOK ==
    /\ edges \in Graph
    /\ guard \in Txn \cup {None}
    /\ pc \in [Txn -> {"idle", "open", "waiting", "writing"}]
    /\ level \in [Txn -> {"read committed", "repeatable read"}]
    /\ snapshot \in [Txn -> Graph \cup {None}]
    /\ stale \in [Txn -> BOOLEAN]
    /\ changes \in [Txn -> Writes]

\* Nobody can be followed upwards for ever: no System's ancestry returns to it.
Acyclic(g) == \A S \in SUBSET System : (\A s \in S : g[s] \in S) => S = {}

\* docs/system-storage.md: "Self-parenting and cycles fail", for the edges that
\* any transactions together leave behind.
NoCycle == Acyclic(edges)

\* docs/system-storage.md: the triggers "see the current graph at READ
\* COMMITTED, while a stale higher-isolation writer must abort rather than accept
\* a stale graph": what a writer checks is what its COMMIT will leave.
ChecksAreCurrent == \A t \in Txn : pc[t] = "writing" => View(t) = Current(t)

\* g after the row of old, or a new one if old is None, has become (c, p).
Moved(g, old, c, p) ==
    [s \in System |-> IF s = c THEN p ELSE IF s = old THEN None ELSE g[s]]

\* The row old, or no row for None, can become the only row of c.
HasRoom(g, old, c) == (old # None => g[old] # None) /\ (c # old => g[c] = None)

\* check_system_parent_cycle refuses a row exactly if the graph with it has a
\* cycle: it misses none, and it does not take the row that is replaced for one
\* that stays.
CheckIsExact ==
    \A t \in Txn : pc[t] = "writing" =>
        \A old \in System \cup {None}, c, p \in System : HasRoom(View(t), old, c) =>
            (ClosesCycle(View(t), c, p, old) <=> ~Acyclic(Moved(View(t), old, c, p)))
=============================================================================
