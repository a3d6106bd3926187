-------------------------- MODULE ParentEdgesProofs --------------------------
(***************************************************************************)
(* Proofs about ParentEdges, for any Systems and any number of sessions:   *)
(* the check of the row trigger is exact, the guard row makes it current,  *)
(* and the committed edges have no cycle.  Nothing is proved by induction  *)
(* over paths: a cycle is a set closed under the parents, the ancestors    *)
(* are the least closed set, and both directions of the check are a matter *)
(* of exhibiting such a set.                                               *)
(***************************************************************************)
EXTENDS ParentEdges, TLAPS

-----------------------------------------------------------------------------
(* The row trigger.                                                        *)

\* The first ancestor of a parent is the parent, and the set is closed.
LEMMA AncestorsAreClosed ==
    ASSUME NEW g \in Graph, NEW p \in System, NEW old
    PROVE  /\ Ancestors(g, p, old) \subseteq System
           /\ p \in Ancestors(g, p, old)
           /\ IsClosed(Ancestors(g, p, old), g, old)
BY DEF Ancestors, IsClosed, Graph

\* Every closed set that holds the parent holds the ancestors.
LEMMA AncestorsAreLeast ==
    ASSUME NEW g, NEW p, NEW old, NEW S \in SUBSET System, p \in S, IsClosed(S, g, old)
    PROVE  Ancestors(g, p, old) \subseteq S
BY DEF Ancestors

\* A row the trigger lets pass closes no cycle: the ancestors within a closed
\* set of the new graph would be a closed set of the old one.
LEMMA PassedRowIsSafe ==
    ASSUME NEW g \in Graph, Acyclic(g), NEW old \in System \cup {None},
           NEW c \in System, NEW p \in System, ~ClosesCycle(g, c, p, old)
    PROVE  Acyclic(Moved(g, old, c, p))
<1> DEFINE n == Moved(g, old, c, p)
           A == Ancestors(g, p, old)
<1>1. SUFFICES ASSUME NEW S \in SUBSET System, \A s \in S : n[s] \in S
      PROVE  S = {}
    BY DEF Acyclic
<1>2. \A s \in S : s # c => s # old /\ g[s] = n[s] /\ g[s] # None
    BY <1>1, NoneAssumption DEF Moved
<1>3. CASE c \notin S
    BY <1>1, <1>2, <1>3 DEF Acyclic
<1>4. CASE c \in S
    <2>1. p \in S
        BY <1>1, <1>4 DEF Moved
    <2>2. A \subseteq System /\ p \in A /\ IsClosed(A, g, old) /\ c \notin A
        BY AncestorsAreClosed DEF ClosesCycle
    <2>3. \A s \in A \cap S : g[s] \in A \cap S
        BY <1>1, <1>2, <2>2 DEF IsClosed
    <2>4. A \cap S = {}
        BY <2>2, <2>3 DEF Acyclic
    <2> QED BY <2>1, <2>2, <2>4
<1> QED BY <1>3, <1>4

\* A row the trigger refuses would close a cycle: the ancestors of the new
\* parent that have the child among their own ancestors lead back to it.
LEMMA RefusedRowIsUnsafe ==
    ASSUME NEW g \in Graph, NEW old \in System \cup {None},
           NEW c \in System, NEW p \in System, ClosesCycle(g, c, p, old)
    PROVE  ~Acyclic(Moved(g, old, c, p))
<1> DEFINE n == Moved(g, old, c, p)
           A(x) == Ancestors(g, x, old)
           S == {x \in A(p) : c \in A(x)}
<1>1. /\ A(p) \subseteq System /\ p \in A(p) /\ IsClosed(A(p), g, old)
      /\ c \in A(p)
    BY AncestorsAreClosed DEF ClosesCycle
<1>2. p \in S
    BY <1>1
<1>3. ASSUME NEW s \in S, s # c
      PROVE  s # old /\ g[s] # None /\ c \in A(g[s])
    <2> DEFINE up == s # old /\ g[s] # None
               B == {s} \cup (IF up THEN A(g[s]) ELSE {})
    <2>1. s \in System /\ c \in A(s)
        BY <1>1
    <2>2. up => /\ g[s] \in System /\ A(g[s]) \subseteq System
                /\ g[s] \in A(g[s]) /\ IsClosed(A(g[s]), g, old)
        BY <2>1, AncestorsAreClosed DEF Graph
    <2>3. B \in SUBSET System /\ s \in B /\ IsClosed(B, g, old)
        BY <2>1, <2>2 DEF IsClosed
    <2>4. c \in B
        BY <2>1, <2>3, AncestorsAreLeast
    <2> QED BY <1>3, <2>4
<1>4. ASSUME NEW s \in S
      PROVE  n[s] \in S
    <2>1. s \in System
        BY <1>1
    <2>2. CASE s = c
        BY <1>2, <2>1, <2>2 DEF Moved
    <2>3. CASE s # c
        <3>1. s # old /\ g[s] # None /\ c \in A(g[s])
            BY <1>3, <2>3
        <3>2. g[s] \in A(p)
            BY <1>1, <3>1 DEF IsClosed
        <3>3. n[s] = g[s]
            BY <2>1, <2>3, <3>1 DEF Moved
        <3> QED BY <3>1, <3>2, <3>3
    <2> QED BY <2>2, <2>3
<1>5. S \in SUBSET System /\ S # {}
    BY <1>1, <1>2
<1> QED BY <1>4, <1>5 DEF Acyclic

\* Taking a row away closes nothing.
LEMMA DeletedRowIsSafe ==
    ASSUME NEW g \in Graph, Acyclic(g), NEW c \in System
    PROVE  Acyclic([s \in System |-> IF s = c THEN None ELSE g[s]])
BY NoneAssumption DEF Acyclic, Graph

-----------------------------------------------------------------------------
(* Rows written over other rows.                                           *)

LEMMA OverlayType ==
    ASSUME NEW g \in Graph, NEW w \in Writes
    PROVE  Overlay(g, w) \in Graph
BY DEF Overlay, Graph, Writes

LEMMA OverlayNothing ==
    ASSUME NEW g \in Graph
    PROVE  Overlay(g, Nothing) = g
BY DEF Overlay, Nothing, Graph

LEMMA NothingType == Nothing \in Writes
<1>1. Nothing \in [{} -> System \cup {None}]
    BY DEF Nothing
<1> QED BY <1>1 DEF Writes

LEMMA PutType ==
    ASSUME NEW w \in Writes, NEW c \in System, NEW p \in System \cup {None}
    PROVE  Put(w, c, p) \in Writes
<1>1. PICK rows \in SUBSET System : w \in [rows -> System \cup {None}]
    BY DEF Writes
<1>2. Put(w, c, p) \in [rows \cup {c} -> System \cup {None}]
    BY <1>1 DEF Put
<1>3. rows \cup {c} \in SUBSET System
    OBVIOUS
<1> QED BY <1>2, <1>3 DEF Writes

\* g with another row for c.
Changed(g, c, p) == [s \in System |-> IF s = c THEN p ELSE g[s]]

LEMMA OverlayPut ==
    ASSUME NEW g \in Graph, NEW w \in Writes, NEW c \in System, NEW p \in System \cup {None}
    PROVE  Overlay(g, Put(w, c, p)) = Changed(Overlay(g, w), c, p)
BY DEF Overlay, Put, Changed

-----------------------------------------------------------------------------
(* The inductive invariant.                                                *)

\* Only the holder of the guard row writes, and only it has written.
Guarded ==
    \A t \in Txn : /\ pc[t] = "writing" => guard = t
                   /\ pc[t] = "waiting" => snapshot[t] # None
                   /\ pc[t] = "idle" => guard # t /\ snapshot[t] = None
                   /\ guard # t => changes[t] = Nothing

\* A snapshot that the guard row has not outlived holds the committed edges, and
\* a holder of the guard row at REPEATABLE READ has such a snapshot.
Fresh ==
    \A t \in Txn : level[t] = "repeatable read" =>
        /\ snapshot[t] # None /\ ~stale[t] => snapshot[t] = edges
        /\ guard = t => snapshot[t] # None /\ ~stale[t]

\* The committed edges have no cycle, and neither will they if the holder of the
\* guard row commits now.
Forest == Acyclic(edges) /\ \A t \in Txn : guard = t => Acyclic(Current(t))

IInv == TypeOK /\ Guarded /\ Fresh /\ Forest

\* A transaction that has not written sees the committed edges.
LEMMA CurrentWithoutWrites ==
    ASSUME TypeOK, NEW t \in Txn, changes[t] = Nothing
    PROVE  Current(t) = edges
BY OverlayNothing DEF TypeOK, Current

\* The holder of the guard row checks what its COMMIT will leave.
LEMMA HolderIsCurrent ==
    ASSUME IInv, NEW t \in Txn, guard = t
    PROVE  View(t) = Current(t)
BY DEF IInv, TypeOK, Fresh, View, Current

LEMMA CurrentType ==
    ASSUME TypeOK, NEW t \in Txn
    PROVE  Current(t) \in Graph
BY OverlayType DEF TypeOK, Current

\* Begin, Issue, Serialize and EndStatement write no rows.
LEMMA StepsWithoutRows ==
    ASSUME IInv, NEW t \in Txn,
           \/ \E l \in {"read committed", "repeatable read"} : Begin(t, l)
           \/ Issue(t) \/ Serialize(t) \/ EndStatement(t)
    PROVE  IInv'
<1> USE DEF IInv, TypeOK
<1>1. /\ edges' = edges /\ changes' = changes
      /\ \A u \in Txn : Current(u)' = Current(u)
    BY DEF Begin, Issue, Serialize, EndStatement, Current
<1>2. TypeOK'
    BY ZenonT(60) DEF Begin, Issue, Serialize, EndStatement, Graph
<1>3. Guarded' /\ Fresh'
    <2>1. ASSUME NEW l \in {"read committed", "repeatable read"}, Begin(t, l)
          PROVE  Guarded' /\ Fresh'
        BY <2>1, NoneAssumption DEF Begin, Guarded, Fresh
    <2>2. CASE Issue(t)
        <3>1. /\ guard' = guard /\ level' = level /\ pc' = [pc EXCEPT ![t] = "waiting"]
              /\ \A u \in Txn : u # t => snapshot'[u] = snapshot[u] /\ stale'[u] = stale[u]
              /\ \/ snapshot'[t] = edges /\ stale'[t] = FALSE
                 \/ snapshot'[t] = snapshot[t] /\ stale'[t] = stale[t]
            BY <2>2 DEF Issue
        <3>2. edges # None
            BY NoneAssumption DEF Graph
        <3>3. snapshot'[t] # None
            BY <2>2, <3>2 DEF Issue
        <3>4. Guarded'
            BY <1>1, <2>2, <3>1, <3>3, ZenonT(60) DEF Issue, Guarded
        <3>5. Fresh'
            BY <1>1, <3>1, <3>2 DEF Fresh
        <3> QED BY <3>4, <3>5
    <2>3. CASE Serialize(t)
        <3>1. Guarded'
            BY <2>3, NoneAssumption DEF Serialize, Guarded
        <3>2. level[t] = "repeatable read" => snapshot[t] # None /\ ~stale[t]
            BY <2>3 DEF Serialize, Guarded
        <3>3. Fresh'
            BY <2>3, <3>2, ZenonT(60) DEF Serialize, Fresh
        <3> QED BY <3>1, <3>3
    <2>4. CASE EndStatement(t)
        BY <2>4 DEF EndStatement, Guarded, Fresh
    <2> QED BY <2>1, <2>2, <2>3, <2>4
<1>5. Forest'
    <2>1. CASE Serialize(t)
        <3>1. guard' = t /\ Acyclic(edges)'
            BY <1>1, <2>1 DEF Serialize, Forest
        <3>2. Acyclic(Current(t))
            BY CurrentWithoutWrites DEF Forest, Guarded
        <3> QED BY <1>1, <3>1, <3>2 DEF Forest
    <2>2. CASE ~Serialize(t)
        <3>1. guard' = guard
            BY <2>2 DEF Begin, Issue, EndStatement
        <3> QED BY <1>1, <3>1 DEF Forest, Acyclic
    <2> QED BY <2>1, <2>2
<1> QED BY <1>2, <1>3, <1>5

\* A row is written by the holder of the guard row; what it will leave changes
\* in that row alone.
LEMMA StepsWithRows ==
    ASSUME IInv, NEW t \in Txn, NEW c \in System,
           \/ DeleteRow(t, c)
           \/ \E p \in System : InsertRow(t, c, p) \/ \E old \in System : UpdateRow(t, old, c, p)
    PROVE  IInv'
<1> USE DEF IInv, TypeOK
<1>1. /\ UNCHANGED <<edges, guard, pc, level, snapshot, stale>>
      /\ pc[t] = "writing" /\ guard = t
      /\ \A u \in Txn : u # t => changes'[u] = changes[u]
    BY DEF DeleteRow, InsertRow, UpdateRow, Guarded
<1> edges \in Graph /\ changes[t] \in Writes /\ None \in System \cup {None}
    OBVIOUS
<1>2. Current(t) \in Graph /\ Acyclic(Current(t)) /\ View(t) = Current(t)
    BY <1>1, CurrentType, HolderIsCurrent DEF Forest
<1>3. changes' \in [Txn -> Writes] /\ Acyclic(Overlay(edges, changes'[t]))
    <2>1. CASE DeleteRow(t, c)
        <3>1. changes' = [changes EXCEPT ![t] = Put(changes[t], c, None)]
            BY <2>1 DEF DeleteRow
        <3>2. Put(changes[t], c, None) \in Writes
            BY PutType
        <3>3. Overlay(edges, changes'[t]) = Changed(Current(t), c, None)
            BY <3>1, OverlayPut DEF Current
        <3> QED BY <1>2, <3>1, <3>2, <3>3, DeletedRowIsSafe DEF Changed
    <2>2. ASSUME NEW p \in System, InsertRow(t, c, p)
          PROVE  changes' \in [Txn -> Writes] /\ Acyclic(Overlay(edges, changes'[t]))
        <3>1. changes' = [changes EXCEPT ![t] = Put(changes[t], c, p)]
            BY <2>2 DEF InsertRow
        <3>2. Put(changes[t], c, p) \in Writes
            BY PutType
        <3> p \in System \cup {None}
            OBVIOUS
        <3>3. Overlay(edges, changes'[t]) = Changed(Current(t), c, p)
            BY <3>1, OverlayPut DEF Current
        <3>4. Overlay(edges, changes'[t]) = Moved(Current(t), None, c, p)
            BY <3>3, NoneAssumption DEF Moved, Changed
        <3>5. ~ClosesCycle(Current(t), c, p, None)
            BY <1>2, <2>2 DEF InsertRow
        <3> QED BY <1>2, <3>1, <3>2, <3>4, <3>5, PassedRowIsSafe
    <2>3. ASSUME NEW p \in System, NEW old \in System, UpdateRow(t, old, c, p)
          PROVE  changes' \in [Txn -> Writes] /\ Acyclic(Overlay(edges, changes'[t]))
        <3> DEFINE w == Put(changes[t], old, None)
        <3>1. changes' = [changes EXCEPT ![t] = Put(w, c, p)]
            BY <2>3 DEF UpdateRow
        <3>2. w \in Writes
            BY PutType
        <3>3. Put(w, c, p) \in Writes
            BY <3>2, PutType
        <3>4. Overlay(edges, w) = Changed(Current(t), old, None)
            BY OverlayPut DEF Current
        <3> p \in System \cup {None}
            OBVIOUS
        <3>5. Overlay(edges, Put(w, c, p)) = Changed(Overlay(edges, w), c, p)
            BY <3>2, OverlayPut
        <3>6. Overlay(edges, Put(w, c, p)) = Moved(Current(t), old, c, p)
            BY <3>4, <3>5 DEF Moved, Changed
        <3>7. ~ClosesCycle(Current(t), c, p, old)
            BY <1>2, <2>3 DEF UpdateRow
        <3>8. Acyclic(Moved(Current(t), old, c, p))
            BY <1>2, <3>7, PassedRowIsSafe
        <3> HIDE DEF w
        <3> QED BY <3>1, <3>3, <3>6, <3>8
    <2> QED BY <2>1, <2>2, <2>3
<1>4. TypeOK'
    BY <1>1, <1>3
<1>5. Guarded' /\ Fresh'
    BY <1>1 DEF Guarded, Fresh
<1>6. Forest'
    BY <1>1, <1>3 DEF Forest, Current, Acyclic
<1> QED BY <1>4, <1>5, <1>6

\* COMMIT leaves what the holder of the guard row checked; without the guard row
\* there is nothing to leave.
LEMMA CommitStep ==
    ASSUME IInv, NEW t \in Txn, Commit(t)
    PROVE  IInv'
<1> USE DEF IInv, TypeOK
<1>1. edges' = Current(t) /\ Current(t) \in Graph
    BY CurrentType DEF Commit
<1>2. guard # t => edges' = edges
    BY <1>1, CurrentWithoutWrites DEF Guarded
<1>3. Acyclic(edges')
    BY <1>1, <1>2 DEF Forest
<1>4. TypeOK'
    BY <1>1, NothingType DEF Commit, Over
<1>5. Guarded'
    BY NoneAssumption DEF Guarded, Commit, Over
<1>6. Fresh'
    <2> SUFFICES ASSUME NEW u \in Txn, level'[u] = "repeatable read"
        PROVE  /\ snapshot'[u] # None /\ ~stale'[u] => snapshot'[u] = edges'
               /\ guard' = u => snapshot'[u] # None /\ ~stale'[u]
        BY DEF Fresh
    <2>1. u # t /\ level[u] = "repeatable read" /\ snapshot'[u] = snapshot[u]
        BY DEF Commit, Over
    <2>2. stale'[u] = (stale[u] \/ (guard = t /\ snapshot[u] # None))
        BY <2>1 DEF Commit
    <2>3. guard' = u => guard = u /\ guard # t
        BY <2>1, NoneAssumption DEF Commit, Over
    <2> QED BY <1>2, <2>1, <2>2, <2>3 DEF Fresh
<1>7. Forest'
    <2> SUFFICES ASSUME NEW u \in Txn, guard' = u
        PROVE  Acyclic(Current(u)')
        BY <1>3 DEF Forest, Acyclic
    <2>1. guard = u /\ u # t /\ edges' = edges /\ changes'[u] = changes[u]
        BY <1>2, NoneAssumption DEF Commit, Over
    <2>2. Current(u)' = Current(u)
        BY <2>1 DEF Current
    <2> QED BY <2>1, <2>2 DEF Forest
<1> QED BY <1>4, <1>5, <1>6, <1>7

LEMMA RollbackStep ==
    ASSUME IInv, NEW t \in Txn, Rollback(t)
    PROVE  IInv'
<1> USE DEF IInv, TypeOK
<1>1. edges' = edges
    BY DEF Rollback
<1>2. TypeOK'
    BY NothingType DEF Rollback, Over
<1>3. Guarded'
    BY NoneAssumption DEF Guarded, Rollback, Over
<1>4. Fresh'
    BY NoneAssumption DEF Fresh, Rollback, Over
<1>5. Forest'
    <2> SUFFICES ASSUME NEW u \in Txn, guard' = u
        PROVE  Acyclic(Current(u)')
        BY <1>1 DEF Forest, Acyclic
    <2>1. guard = u /\ u # t /\ changes'[u] = changes[u]
        BY NoneAssumption DEF Rollback, Over
    <2>2. Current(u)' = Current(u)
        BY <1>1, <2>1 DEF Current
    <2> QED BY <2>1, <2>2 DEF Forest
<1> QED BY <1>2, <1>3, <1>4, <1>5

-----------------------------------------------------------------------------
(* Theorems.                                                               *)

\* Every step of every session keeps the invariant.
THEOREM Invariance == Spec => []IInv
<1>1. Init => IInv
    <2> SUFFICES ASSUME Init
        PROVE  IInv
        OBVIOUS
    <2>1. TypeOK /\ Guarded /\ Fresh
        BY NothingType, NoneAssumption DEF Init, TypeOK, Graph, Guarded, Fresh
    <2>2. Forest
        BY NoneAssumption DEF Init, Forest, Acyclic
    <2> QED BY <2>1, <2>2 DEF IInv
<1>2. IInv /\ [Next]_vars => IInv'
    <2> SUFFICES ASSUME IInv, [Next]_vars
        PROVE  IInv'
        OBVIOUS
    <2>1. CASE Next
        <3>1. PICK t \in Txn :
                \/ \E l \in {"read committed", "repeatable read"} : Begin(t, l)
                \/ Issue(t) \/ Serialize(t) \/ EndStatement(t)
                \/ \E c \in System : DeleteRow(t, c) \/ \E p \in System : InsertRow(t, c, p)
                \/ \E old, c, p \in System : UpdateRow(t, old, c, p)
                \/ Commit(t) \/ Rollback(t)
            BY <2>1 DEF Next
        <3> QED BY <3>1, StepsWithoutRows, StepsWithRows, CommitStep, RollbackStep
    <2>2. CASE UNCHANGED vars
        BY <2>2 DEF vars, local, IInv, TypeOK, Guarded, Fresh, Forest, Current, Acyclic
    <2> QED BY <2>1, <2>2
<1> QED BY <1>1, <1>2, PTL DEF Spec

\* The rows and the transactions keep their types.
THEOREM TypeCorrect == Spec => []TypeOK
<1>1. IInv => TypeOK
    BY DEF IInv
<1> QED BY <1>1, Invariance, PTL

\* Whatever the transactions do, the committed edges have no cycle.
THEOREM EdgesHaveNoCycle == Spec => []NoCycle
<1>1. IInv => NoCycle
    BY DEF IInv, Forest, NoCycle
<1> QED BY <1>1, Invariance, PTL

\* Whatever the isolation level, a writer checks the graph its COMMIT leaves.
THEOREM NoCheckIsStale == Spec => []ChecksAreCurrent
<1>1. IInv => ChecksAreCurrent
    BY HolderIsCurrent DEF IInv, Guarded, ChecksAreCurrent
<1> QED BY <1>1, Invariance, PTL

\* The trigger refuses exactly the rows that would close a cycle.
THEOREM TriggerIsExact == Spec => []CheckIsExact
<1>1. IInv => CheckIsExact
    <2> SUFFICES ASSUME IInv, NEW t \in Txn, pc[t] = "writing",
                        NEW old \in System \cup {None}, NEW c \in System, NEW p \in System
        PROVE  ClosesCycle(View(t), c, p, old) <=> ~Acyclic(Moved(View(t), old, c, p))
        BY DEF CheckIsExact
    <2>1. View(t) \in Graph /\ Acyclic(View(t))
        BY HolderIsCurrent, CurrentType DEF IInv, Guarded, Forest
    <2> QED BY <2>1, PassedRowIsSafe, RefusedRowIsUnsafe
<1> QED BY <1>1, Invariance, PTL
=============================================================================
