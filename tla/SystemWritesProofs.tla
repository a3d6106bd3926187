------------------------- MODULE SystemWritesProofs -------------------------
(***************************************************************************)
(* Proofs about SystemWrites for every set of requests, inputs, keys and   *)
(* every clock bound: evidence, linear histories, retry receipts,          *)
(* identities, the refinement of AtomicWrites, answers, waits and retries. *)
(***************************************************************************)
EXTENDS Retries, TLAPS

-----------------------------------------------------------------------------
(* Which statements belong to which operation.                             *)

\* The next statement of r is one of its operation.
PcFits(r) ==
    /\ pc[r] \in Statement \cup {"committed"} => input[r] \in Inputs
    /\ pc[r] \in {"scope", "lookup", "retain"} => Keyed(input[r])
    /\ pc[r] \in {"admit", "evidence"} => Op(r) = "create"
    /\ pc[r] \in {"identity", "uid", "alias", "pair", "guard", "edge"} =>
            Op(r) \in {"create", "identity"}
    /\ pc[r] \in {"row", "recheck", "head", "write"} => Op(r) = "update"
    /\ pc[r] = "history" => Op(r) = "history"

TypeInv == TypeOK /\ \A r \in Request : PcFits(r)

\* What the op of an input says about its other fields.
LEMMA InputKinds ==
    ASSUME NEW i \in Inputs
    PROVE  /\ i.op \in {"create", "identity", "update", "history"}
           /\ i.op \in {"create", "identity"} =>
                /\ i.key \in Keys \cup {None} /\ i.parent \in Request \cup {None}
                /\ i.retention \in Nat \ {0}
           /\ i.op = "update" => /\ i.target \in Request
                                 /\ i.expected \in Request \cup {None}
           /\ i.op = "history" => i.target \in Request \cup {None}
  BY InputsAssumption, ClockAssumption
     DEF Input, NewInput, UpdateInput, HistoryInput

\* A history call has at least one row and none but these two.
LEMMA HistoryRowKinds ==
    ASSUME NEW i \in Inputs, i.op = "history"
    PROVE  /\ HistoryRows(i) # {}
           /\ HistoryRows(i) \subseteq {"source_artifact", "system_revision"}
           /\ "source_artifact" \in HistoryRows(i) => i.artifact = None
  BY InputsAssumption DEF Input, NewInput, UpdateInput, HistoryInput, HistoryRows

\* A rolled back call keeps the types: no table is touched.
LEMMA AbortTypes ==
    ASSUME TypeInv, NEW r \in Request, NEW why \in Refusal, Abort(r, why)
    PROVE  TypeInv'
  BY DEF TypeInv, TypeOK, PcFits, Abort, Goto, DbUnchanged, Op, Keyed, Statement

\* A committing call keeps the types.
LEMMA PublishTypes ==
    ASSUME TypeInv, NEW r \in Request, Publish(r), pc[r] = "commit",
           answer' \in [Request -> Request \cup Refusal \cup {None}]
    PROVE  TypeInv'
  BY DEF TypeInv, TypeOK, PcFits, Publish, Goto, Op, Keyed, Statement

\* Where a creation goes after its identity and alias rows.
LEMMA NextStatements ==
    ASSUME NEW r \in Request
    PROVE  /\ AfterAliases(r) \in {"alias", "guard", "evidence", "commit"}
           /\ AfterAliases(r) = "evidence" => Op(r) = "create"
           /\ AfterAliases(r) = "commit" => Op(r) # "create"
  BY DEF AfterAliases, AfterEdge

\* Statements that only move on, write rows of their own transaction or note
\* what they read.
LEMMA ProgressTypes ==
    ASSUME TypeInv, NEW r \in Request, Progress(r)
    PROVE  TypeInv'
<1> USE DEF TypeInv
<1> DEFINE Same == UNCHANGED <<input, placed, retained, answer, now, label,
                               head, receipt>>
<1>1. CASE LockScope(r)
  BY <1>1 DEF LockScope, TypeOK, PcFits, Goto, DbUnchanged, Op, Keyed, Statement
<1>2. CASE Lookup(r)
  <2> DEFINE q == receipt[Scope(r)]
  <2>1. Scope(r) \in Scopes
    BY <1>2, InputKinds DEF Lookup, PcFits, Keyed, Scope, Scopes, Statement
  <2>2. q \in Request \cup {None}
    BY <2>1 DEF TypeOK
  <2>3. ASSUME Abort(r, "denied") \/ Abort(r, "conflict")
        PROVE  TypeInv'
    BY <2>3, AbortTypes DEF Refusal
  <2>4. CASE pc' = [pc EXCEPT ![r] = "admit"] /\ UNCHANGED seen
             /\ UNCHANGED written /\ Same
    BY <2>4, <1>2 DEF Lookup, TypeOK, PcFits, Op, Keyed, Statement
  <2>5. CASE pc' = [pc EXCEPT ![r] = "commit"] /\ seen' = [seen EXCEPT ![r] = q]
             /\ UNCHANGED written /\ Same
    BY <2>5, <2>2, <1>2 DEF Lookup, TypeOK, PcFits, Op, Keyed, Statement
  <2>6. QED
    BY <1>2, <2>3, <2>4, <2>5 DEF Lookup, Goto, DbUnchanged
<1>3. CASE Admit(r)
  BY <1>3, AbortTypes
     DEF Admit, Refusal, TypeOK, PcFits, Goto, DbUnchanged, Op, Keyed, Statement
<1>4. CASE InsertIdentity(r) \/ InsertAlias(r)
  BY <1>4 DEF InsertIdentity, InsertAlias, TypeOK, PcFits, Goto, Write, DbUnchanged,
              Op, Keyed, Statement, Table
<1>5. CASE CheckUid(r) \/ CheckAlias(r)
  <2>1. CASE Abort(r, "conflict")
    BY <2>1, AbortTypes DEF Refusal
  <2>2. ASSUME NEW where \in {"alias", "guard", "evidence", "commit"},
               where = "evidence" => Op(r) = "create", Goto(r, where),
               Write(r, {"system_identity"}) \/ UNCHANGED written,
               UNCHANGED seen, Same
        PROVE  TypeInv'
    <3>1. written' \in [Request -> SUBSET Table]
      BY <2>2 DEF TypeOK, Write, Table
    <3>2. pc[r] \in {"uid", "pair"}
      BY <1>5 DEF CheckUid, CheckAlias
    <3>3. QED
      BY <2>2, <3>1, <3>2 DEF TypeOK, PcFits, Goto, Op, Keyed, Statement
  <2>3. QED
    BY <1>5, <2>1, <2>2, NextStatements DEF CheckUid, CheckAlias, DbUnchanged
<1>6. CASE LockGuard(r)
  BY <1>6 DEF LockGuard, TypeOK, PcFits, Goto, DbUnchanged, Op, Keyed, Statement
<1>7. CASE InsertEdge(r)
  BY <1>7, AbortTypes
     DEF InsertEdge, Refusal, TypeOK, PcFits, Goto, Write, DbUnchanged, Op,
         Keyed, Statement, Table, AfterEdge
<1>8. CASE InsertEvidence(r)
  BY <1>8 DEF InsertEvidence, TypeOK, PcFits, Goto, Write, DbUnchanged, Op,
              Keyed, Statement, Table, CreateEvidence
<1>9. CASE Retain(r)
  BY <1>9, AbortTypes
     DEF Retain, Refusal, TypeOK, PcFits, Goto, Write, DbUnchanged, Op,
         Keyed, Statement, Table
<1>10. CASE LockRow(r)
  BY <1>10, InputKinds
     DEF LockRow, TypeOK, PcFits, Goto, DbUnchanged, Op, Keyed, Statement
<1>11. CASE Recheck(r)
  BY <1>11, AbortTypes
     DEF Recheck, Refusal, TypeOK, PcFits, Goto, DbUnchanged, Op, Keyed, Statement
<1>12. CASE ReadHead(r)
  <2>1. head[input[r].target] \in Request \cup {None}
    BY <1>12, InputKinds DEF ReadHead, TypeOK, PcFits, Op, Statement
  <2>2. QED
    BY <1>12, <2>1, AbortTypes
       DEF ReadHead, Refusal, TypeOK, PcFits, Goto, DbUnchanged, Op, Keyed, Statement
<1>13. CASE WriteUpdate(r)
  BY <1>13 DEF WriteUpdate, TypeOK, PcFits, Goto, Write, DbUnchanged, Op,
               Keyed, Statement, Table, UpdateRows
<1>14. CASE InsertHistory(r)
  BY <1>14, AbortTypes
     DEF InsertHistory, HistoryRows, Refusal, TypeOK, PcFits, Goto, Write,
         DbUnchanged, Op, Keyed, Statement, Table
<1>15. CASE Commit(r)
  BY <1>15, PublishTypes DEF Commit, TypeOK
<1>16. CASE BreakDeadlock(r)
  BY <1>16, AbortTypes DEF BreakDeadlock, Refusal
<1>17. QED
  BY <1>1, <1>2, <1>3, <1>4, <1>5, <1>6, <1>7, <1>8, <1>9, <1>10, <1>11,
     <1>12, <1>13, <1>14, <1>15, <1>16 DEF Progress

\* No call has begun.
LEMMA InitTypes == Init => TypeInv
  BY NoneAssumption, ClockAssumption
     DEF Init, TypeInv, TypeOK, PcFits, Statement

\* Every step keeps the types and each transaction at a statement of its operation.
LEMMA NextTypes == TypeInv /\ [Next]_vars => TypeInv'
<1> SUFFICES ASSUME TypeInv, [Next]_vars PROVE TypeInv'
  OBVIOUS
<1>1. ASSUME NEW r \in Request, Begin(r) PROVE TypeInv'
  BY <1>1, InputKinds
     DEF Begin, FirstStatement, TypeInv, TypeOK, PcFits, Goto, DbUnchanged, Op,
         Keyed, Statement
<1>2. ASSUME NEW r \in Request, Refuse(r) PROVE TypeInv'
  BY <1>2 DEF Refuse, TypeInv, TypeOK, PcFits, Goto, DbUnchanged, Op,
         Keyed, Statement, Refusal
<1>3. ASSUME NEW r \in Request, CommitLost(r) PROVE TypeInv'
  BY <1>3, PublishTypes DEF CommitLost, TypeInv, TypeOK, Refusal
<1>4. ASSUME NEW r \in Request, Fail(r) PROVE TypeInv'
  BY <1>4, AbortTypes DEF Fail, Refusal
<1>5. ASSUME NEW t \in 0 .. MaxClock, ReadClock(t) PROVE TypeInv'
  BY <1>5
     DEF ReadClock, TypeInv, TypeOK, PcFits, DbUnchanged, Op, Keyed, Statement
<1>6. CASE UNCHANGED vars
  BY <1>6 DEF vars, TypeInv, TypeOK, PcFits, Op, Keyed, Statement
<1>7. QED
  BY <1>1, <1>2, <1>3, <1>4, <1>5, <1>6, ProgressTypes DEF Next

\* Type correctness of the write boundary, with each transaction at a statement
\* of its own operation.
THEOREM TypeCorrect == Spec => []TypeOK
<1>1. TypeInv => TypeOK
  BY DEF TypeInv
<1>2. QED
  BY <1>1, InitTypes, NextTypes, PTL DEF Spec

-----------------------------------------------------------------------------
(* Which rows a transaction has at each statement.                         *)

Ident == {"resource_identity", "system_identity"}

\* The rows that r has inserted when it reaches a statement.
RowsFit(r) ==
    /\ pc[r] \in {"idle", "aborted", "scope", "lookup", "admit", "identity",
                  "row", "recheck", "head", "write", "history"} => written[r] = {}
    /\ pc[r] = "uid" => written[r] = {"resource_identity"}
    /\ pc[r] \in {"alias", "pair", "guard", "edge"} => written[r] = Ident
    /\ pc[r] = "evidence" =>
            Ident \subseteq written[r] /\ written[r] \subseteq Ident \cup {"system_parent"}
    /\ pc[r] = "retain" =>
            /\ Ident \cup CreateEvidence \subseteq written[r]
            /\ "system_create_retry" \notin written[r]
    /\ pc[r] \in {"commit", "committed"} =>
        \/ written[r] = {} /\ Keyed(input[r])
        \/ /\ Op(r) = "create"
           /\ Ident \cup CreateEvidence \subseteq written[r]
           /\ Keyed(input[r]) <=> "system_create_retry" \in written[r]
        \/ /\ Op(r) = "identity"
           /\ Ident \subseteq written[r]
           /\ written[r] \subseteq Ident \cup {"system_parent"}
        \/ Op(r) = "update" /\ written[r] = UpdateRows
        \/ /\ Op(r) = "history" /\ written[r] # {}
           /\ written[r] \subseteq {"source_artifact", "system_revision"}
           /\ "source_artifact" \in written[r] => input[r].artifact = None

RowsInv == \A r \in Request : RowsFit(r)

\* A rollback leaves no row.
LEMMA AbortRows ==
    ASSUME TypeInv, RowsInv, NEW r \in Request, NEW why, Abort(r, why)
    PROVE  RowsInv'
  BY DEF TypeInv, TypeOK, RowsInv, RowsFit, Abort, Goto, Op, Keyed

\* A commit keeps every row of its transaction.
LEMMA PublishRows ==
    ASSUME TypeInv, RowsInv, NEW r \in Request, pc[r] = "commit", Publish(r)
    PROVE  RowsInv'
  BY DEF TypeInv, TypeOK, RowsInv, RowsFit, Publish, Goto, Op, Keyed

\* Each statement of a call adds the rows its operation calls for.
LEMMA ProgressRows ==
    ASSUME TypeInv, RowsInv, NEW r \in Request, Progress(r)
    PROVE  RowsInv'
<1>1. CASE LockScope(r)
  BY <1>1
     DEF LockScope, TypeInv, TypeOK, PcFits, RowsInv, RowsFit, Goto, Op,
         Keyed, Ident
<1>2. CASE Lookup(r)
  BY <1>2, AbortRows
     DEF Lookup, TypeInv, TypeOK, PcFits, RowsInv, RowsFit, Goto, Op, Keyed,
         Ident
<1>3. CASE Admit(r)
  BY <1>3, AbortRows
     DEF Admit, TypeInv, TypeOK, PcFits, RowsInv, RowsFit, Goto, Op, Keyed,
         Ident
<1>4. CASE InsertIdentity(r) \/ InsertAlias(r)
  BY <1>4
     DEF InsertIdentity, InsertAlias, TypeInv, TypeOK, PcFits, RowsInv, RowsFit,
         Goto, Write, Op, Keyed, Ident
<1>5. CASE CheckUid(r) \/ CheckAlias(r)
  <2>1. CASE Abort(r, "conflict")
    BY <2>1, AbortRows
  <2>2. ASSUME NEW where \in {"alias", "guard", "evidence", "commit"},
               where = "commit" => Op(r) # "create",
               Goto(r, where), UNCHANGED input,
               \/ pc[r] = "uid" /\ Write(r, {"system_identity"})
               \/ pc[r] = "pair" /\ UNCHANGED written
        PROVE  RowsInv'
    BY <1>5, <2>2 DEF TypeInv, TypeOK, PcFits, RowsInv, RowsFit, Goto, Write, Op,
                      Keyed, Ident
  <2>3. QED
    BY <1>5, <2>1, <2>2, NextStatements DEF CheckUid, CheckAlias
<1>6. CASE LockGuard(r)
  BY <1>6
     DEF LockGuard, TypeInv, TypeOK, PcFits, RowsInv, RowsFit, Goto, Op,
         Keyed, Ident
<1>7. CASE InsertEdge(r)
  BY <1>7, AbortRows
     DEF InsertEdge, TypeInv, TypeOK, PcFits, RowsInv, RowsFit, Goto, Op,
         Keyed, Ident, Write, AfterEdge
<1>8. CASE InsertEvidence(r)
  BY <1>8
     DEF InsertEvidence, TypeInv, TypeOK, PcFits, RowsInv, RowsFit, Goto,
         Op, Keyed, Ident, Write, CreateEvidence
<1>9. CASE Retain(r)
  BY <1>9, AbortRows
     DEF Retain, TypeInv, TypeOK, PcFits, RowsInv, RowsFit, Goto, Op, Keyed,
         Ident, Write, CreateEvidence
<1>10. CASE LockRow(r)
  BY <1>10
     DEF LockRow, TypeInv, TypeOK, PcFits, RowsInv, RowsFit, Goto, Op,
         Keyed, Ident
<1>11. CASE Recheck(r)
  BY <1>11, AbortRows
     DEF Recheck, TypeInv, TypeOK, PcFits, RowsInv, RowsFit, Goto, Op,
         Keyed, Ident
<1>12. CASE ReadHead(r)
  BY <1>12, AbortRows
     DEF ReadHead, TypeInv, TypeOK, PcFits, RowsInv, RowsFit, Goto, Op,
         Keyed, Ident
<1>13. CASE WriteUpdate(r)
  BY <1>13
     DEF WriteUpdate, TypeInv, TypeOK, PcFits, RowsInv, RowsFit, Goto, Op,
         Keyed, Ident, Write, UpdateRows
<1>14. CASE InsertHistory(r)
  <2>1. CASE Abort(r, "association")
    BY <2>1, AbortRows
  <2>2. CASE Write(r, HistoryRows(input[r])) /\ Goto(r, "commit") /\ UNCHANGED input
    <3>1. input[r] \in Inputs /\ input[r].op = "history" /\ written[r] = {}
      BY <1>14 DEF InsertHistory, TypeInv, PcFits, RowsInv, RowsFit, Op, Statement
    <3>2. PICK rows : rows = HistoryRows(input[r])
      OBVIOUS
    <3>3. /\ rows # {} /\ rows \subseteq {"source_artifact", "system_revision"}
          /\ "source_artifact" \in rows => input[r].artifact = None
      BY <3>1, <3>2, HistoryRowKinds
    <3>4. QED
      BY <2>2, <3>1, <3>2, <3>3
         DEF TypeInv, TypeOK, RowsInv, RowsFit, Goto, Write, Op, Keyed
  <2>3. QED
    BY <1>14, <2>1, <2>2 DEF InsertHistory
<1>15. CASE Commit(r)
  BY <1>15, PublishRows
     DEF Commit, TypeInv, TypeOK, PcFits, RowsInv, RowsFit, Goto, Op, Keyed,
         Ident
<1>16. CASE BreakDeadlock(r)
  BY <1>16, AbortRows
     DEF BreakDeadlock, TypeInv, TypeOK, PcFits, RowsInv, RowsFit, Goto, Op,
         Keyed, Ident
<1>17. QED
  BY <1>1, <1>2, <1>3, <1>4, <1>5, <1>6, <1>7, <1>8, <1>9, <1>10, <1>11,
     <1>12, <1>13, <1>14, <1>15, <1>16 DEF Progress

\* The rows of a transaction fit its statement after every step.
LEMMA NextRows == TypeInv /\ RowsInv /\ [Next]_vars => RowsInv'
<1> SUFFICES ASSUME TypeInv, RowsInv, [Next]_vars PROVE RowsInv'
  OBVIOUS
<1>1. ASSUME NEW r \in Request, Begin(r) PROVE RowsInv'
  <2>1. PICK i \in Inputs : /\ input' = [input EXCEPT ![r] = i]
                            /\ Goto(r, FirstStatement(i))
    BY <1>1 DEF Begin
  <2>2. FirstStatement(i) \in {"scope", "admit", "identity", "row", "history"}
    BY InputKinds DEF FirstStatement, Keyed
  <2>3. QED
    BY <1>1, <2>1, <2>2
       DEF Begin, TypeInv, TypeOK, RowsInv, RowsFit, Goto, Op, Keyed
<1>2. ASSUME NEW r \in Request, Refuse(r) PROVE RowsInv'
  BY <1>2 DEF Refuse, TypeInv, TypeOK, RowsInv, RowsFit, Goto, Op, Keyed
<1>3. ASSUME NEW r \in Request, CommitLost(r) PROVE RowsInv'
  BY <1>3, PublishRows DEF CommitLost
<1>4. ASSUME NEW r \in Request, Fail(r) PROVE RowsInv'
  BY <1>4, AbortRows DEF Fail
<1>5. CASE (\E t \in 0 .. MaxClock : ReadClock(t)) \/ UNCHANGED vars
  BY <1>5 DEF ReadClock, vars, RowsInv, RowsFit, Op, Keyed
<1>6. QED
  BY <1>1, <1>2, <1>3, <1>4, <1>5, ProgressRows DEF Next

-----------------------------------------------------------------------------
(* A step either leaves what other transactions see alone or publishes one  *)
(* transaction.                                                             *)

Quiet ==
    /\ UNCHANGED <<label, head, receipt>>
    /\ Committed' = Committed
    /\ \A q \in Committed : /\ input'[q] = input[q] /\ written'[q] = written[q]
                            /\ seen'[q] = seen[q] /\ retained'[q] = retained[q]

\* A statement of a call is quiet, unless it is the COMMIT.
LEMMA ProgressKinds ==
    ASSUME TypeInv, NEW r \in Request, Progress(r)
    PROVE  Quiet \/ (pc[r] = "commit" /\ Publish(r))
<1> USE DEF Quiet, Committed, TypeInv, TypeOK, Goto, DbUnchanged
<1>1. ASSUME NEW why, Abort(r, why), pc[r] # "committed" PROVE Quiet
  BY <1>1 DEF Abort
<1>2. ASSUME NEW where \in Statement, Goto(r, where), pc[r] # "committed",
             NEW w, written' = [written EXCEPT ![r] = w],
             NEW v, seen' = [seen EXCEPT ![r] = v],
             NEW t, retained' = [retained EXCEPT ![r] = t],
             UNCHANGED <<input, label, head, receipt>>
      PROVE  Quiet
  BY <1>2 DEF Statement
<1>3. CASE LockScope(r) \/ Lookup(r) \/ Admit(r) \/ LockGuard(r)
  BY <1>1, <1>2, <1>3 DEF LockScope, Lookup, Admit, LockGuard, Statement
<1>4. CASE \/ InsertIdentity(r) \/ CheckUid(r) \/ InsertAlias(r) \/ CheckAlias(r)
           \/ InsertEdge(r)
  <2>1. AfterAliases(r) \in Statement /\ AfterEdge(r) \in Statement
    BY DEF AfterAliases, AfterEdge, Statement
  <2>2. CASE InsertIdentity(r)
    BY <1>2, <2>2 DEF InsertIdentity, Write, Statement
  <2>3. CASE CheckUid(r)
    BY <1>1, <1>2, <2>1, <2>3 DEF CheckUid, Write, Statement
  <2>4. CASE CheckAlias(r)
    BY <1>1, <1>2, <2>1, <2>4 DEF CheckAlias, Statement
  <2>5. CASE InsertEdge(r)
    BY <1>1, <1>2, <2>1, <2>5 DEF InsertEdge, Write, Statement
  <2>6. CASE InsertAlias(r)
    BY <2>6 DEF InsertAlias, Statement
  <2>7. QED
    BY <1>4, <2>2, <2>3, <2>4, <2>5, <2>6
<1>5. CASE InsertEvidence(r) \/ Retain(r) \/ WriteUpdate(r) \/ InsertHistory(r)
  BY <1>1, <1>2, <1>5
     DEF InsertEvidence, Retain, WriteUpdate, InsertHistory, Write, Statement
<1>6. CASE LockRow(r) \/ Recheck(r) \/ ReadHead(r)
  BY <1>1, <1>2, <1>6 DEF LockRow, Recheck, ReadHead, Statement
<1>7. CASE Commit(r)
  BY <1>7 DEF Commit
<1>8. CASE BreakDeadlock(r)
  BY <1>1, <1>8 DEF BreakDeadlock, Open, Statement
<1>9. QED
  BY <1>3, <1>4, <1>5, <1>6, <1>7, <1>8 DEF Progress

\* A step is quiet or it is the commit of one transaction.
LEMMA StepKinds ==
    ASSUME TypeInv, [Next]_vars
    PROVE  Quiet \/ \E r \in Request : pc[r] = "commit" /\ Publish(r)
<1> USE DEF Quiet, Committed, TypeInv, TypeOK, Goto, DbUnchanged
<1>1. ASSUME NEW r \in Request, Begin(r) PROVE Quiet
  <2>1. PICK i \in Inputs : /\ input' = [input EXCEPT ![r] = i]
                            /\ Goto(r, FirstStatement(i))
    BY <1>1 DEF Begin
  <2>2. FirstStatement(i) \in {"scope", "admit", "identity", "row", "history"}
    BY InputKinds DEF FirstStatement, Keyed
  <2>3. QED
    BY <1>1, <2>1, <2>2 DEF Begin
<1>2. ASSUME NEW r \in Request, Refuse(r) PROVE Quiet
  BY <1>2 DEF Refuse
<1>3. ASSUME NEW r \in Request, Fail(r) PROVE Quiet
  BY <1>3 DEF Fail, Abort, Open, Statement
<1>4. ASSUME NEW r \in Request, CommitLost(r) PROVE pc[r] = "commit" /\ Publish(r)
  BY <1>4 DEF CommitLost
<1>5. CASE (\E t \in 0 .. MaxClock : ReadClock(t)) \/ UNCHANGED vars
  BY <1>5 DEF ReadClock, vars
<1>6. QED
  BY <1>1, <1>2, <1>3, <1>4, <1>5, ProgressKinds DEF Next

-----------------------------------------------------------------------------
(* Row locks, heads and receipts.                                          *)

\* r holds FOR UPDATE on the row of the System it names.
Locks(r) ==
    /\ Op(r) = "update" /\ seen[r] # None
    /\ pc[r] \in {"recheck", "head", "write", "commit"}

\* What r read under its lock is still there.
LockFits(r) ==
    /\ Locks(r) => input[r].target \in Systems
    /\ Op(r) = "update" /\ pc[r] \in {"head", "write", "commit"} => seen[r] # None
    /\ Op(r) = "update" /\ pc[r] \in {"write", "commit"} =>
            /\ seen[r] = head[input[r].target]
            /\ CheckRevision(input[r].expected, seen[r])

\* One transaction at a time holds a System's row.
LockInv ==
    /\ \A r \in Request : LockFits(r)
    /\ \A r, q \in Request :
            r # q /\ Locks(r) /\ Locks(q) => input[r].target # input[q].target

\* What committed heads, labels and receipts point at.
HeadInv ==
    /\ \A s \in Request : head[s] # None => /\ s \in Systems
                                           /\ head[s] \in Accepted
                                           /\ Target(head[s]) = s
                                           /\ label[s] = head[s]
    /\ \A s \in Systems : label[s] \in Committed
    /\ \A c \in Scopes : receipt[c] # None =>
            receipt[c] \in Visible("system_create_retry") /\ Scope(receipt[c]) = c
    /\ LinearHistory

\* Heads, labels and receipts stay right while nothing is published.
LEMMA QuietHeads ==
    ASSUME TypeInv, HeadInv, Quiet
    PROVE  HeadInv'
<1>1. ASSUME NEW t PROVE Visible(t)' = Visible(t)
  BY DEF Quiet, Visible, Committed
<1>2. Systems' = Systems /\ Accepted' = Accepted
  BY <1>1 DEF Systems, Accepted
<1>3. \A q \in Committed : /\ Op(q)' = Op(q) /\ Target(q)' = Target(q)
                          /\ Scope(q)' = Scope(q)
  BY DEF Quiet, Op, Target, Scope
<1>4. /\ Systems \subseteq Committed /\ Accepted \subseteq Committed
      /\ Visible("system_create_retry") \subseteq Committed
  BY DEF Systems, Accepted, Visible
<1>5. \A s \in Request : Updates(s)' = Updates(s)
  BY <1>2, <1>3, <1>4 DEF Updates
<1>6. LinearHistory'
  BY <1>2, <1>3, <1>4, <1>5 DEF HeadInv, LinearHistory, Quiet, Updates
<1>7. QED
  BY <1>1, <1>2, <1>3, <1>4, <1>6 DEF HeadInv, Quiet

\* What a commit adds to what the other transactions see.
LEMMA PublishVisible ==
    ASSUME TypeInv, NEW r \in Request, pc[r] = "commit", Publish(r)
    PROVE  /\ r \notin Committed /\ Committed' = Committed \cup {r}
           /\ \A t : Visible(t)' = IF t \in written[r] THEN Visible(t) \cup {r}
                                                       ELSE Visible(t)
           /\ UNCHANGED <<input, written, seen>>
<1>1. /\ r \notin Committed /\ Committed' = Committed \cup {r}
      /\ UNCHANGED <<input, written, seen>>
  BY DEF TypeInv, TypeOK, Committed, Publish, Goto
<1>2. QED
  BY <1>1 DEF Visible

\* A commit moves at most one head: to a System that had none, or from the
\* revision the update read under its lock.
LEMMA PublishHeads ==
    ASSUME TypeInv, RowsInv, LockInv, HeadInv,
           NEW r \in Request, pc[r] = "commit", Publish(r)
    PROVE  HeadInv'
<1> DEFINE retry == "system_create_retry"
<1>1. /\ r \notin Committed /\ Committed' = Committed \cup {r}
      /\ \A t : Visible(t)' = IF t \in written[r] THEN Visible(t) \cup {r}
                                                  ELSE Visible(t)
      /\ UNCHANGED <<input, written, seen>>
  BY PublishVisible
<1>2. /\ Systems \subseteq Committed /\ Accepted \subseteq Committed
      /\ Visible(retry) \subseteq Committed
  BY DEF Systems, Accepted, Visible
<1>3. /\ Systems' = IF "resource_identity" \in written[r] THEN Systems \cup {r}
                                                          ELSE Systems
      /\ Accepted' = IF "system_write_head" \in written[r] THEN Accepted \cup {r}
                                                           ELSE Accepted
  BY <1>1 DEF Systems, Accepted
<1>4. /\ label' = IF "system_identity" \in written[r]
                  THEN [label EXCEPT ![Target(r)] = r] ELSE label
      /\ head' = IF "system_write_head" \in written[r]
                 THEN [head EXCEPT ![Target(r)] = r] ELSE head
      /\ receipt' = IF retry \in written[r]
                    THEN [receipt EXCEPT ![Scope(r)] = r] ELSE receipt
  BY DEF Publish
<1>5. head[r] = None
  BY <1>1, <1>2 DEF HeadInv
<1>6. \A c \in Scopes : receipt'[c] # None =>
            receipt'[c] \in Visible(retry)' /\ Scope(receipt[c])' = c
  BY <1>1, <1>4 DEF HeadInv, TypeInv, TypeOK, Op, Target, Scope
<1>7. CASE "system_write_head" \notin written[r]
  <2>1. CASE written[r] \cap Ident = {}
    <3>1. head' = head /\ label' = label /\ Systems' = Systems /\ Accepted' = Accepted
      BY <1>3, <1>4, <1>7, <2>1 DEF Ident
    <3>2. \A s \in Request : Updates(s)' = Updates(s)
      BY <1>1, <3>1 DEF Updates, Op, Target
    <3>3. LinearHistory'
      BY <1>1, <3>1, <3>2 DEF HeadInv, LinearHistory, Op, Target
    <3>4. QED
      BY <1>1, <1>6, <3>1, <3>3 DEF HeadInv, Op, Target
  <2>2. CASE Op(r) = "identity" /\ Ident \subseteq written[r]
    <3>1. /\ head' = head /\ label' = [label EXCEPT ![r] = r]
          /\ Systems' = Systems \cup {r} /\ Accepted' = Accepted
      BY <1>3, <1>4, <1>7, <2>2 DEF Ident, Target
    <3>2. \A s \in Request : Updates(s)' = Updates(s)
      BY <1>1, <3>1 DEF Updates, Op, Target
    <3>3. LinearHistory'
      BY <1>1, <3>1, <3>2 DEF HeadInv, LinearHistory, Op, Target
    <3>4. \A s \in Systems' : label'[s] \in Committed'
      BY <1>1, <3>1 DEF HeadInv, TypeInv, TypeOK, Systems, Visible, Committed
    <3>5. \A s \in Request : head'[s] # None =>
             /\ s \in Systems' /\ head'[s] \in Accepted' /\ Target(head[s])' = s
             /\ label'[s] = head'[s]
      BY <1>1, <1>5, <3>1 DEF HeadInv, TypeInv, TypeOK, Op, Target, Scope
    <3>6. QED
      BY <1>6, <3>3, <3>4, <3>5 DEF HeadInv
  <2>3. QED
    BY <1>7, <2>1, <2>2 DEF RowsInv, RowsFit, Ident, CreateEvidence, UpdateRows
<1>8. CASE Op(r) = "create" /\ Ident \cup CreateEvidence \subseteq written[r]
  <2>1. /\ head' = [head EXCEPT ![r] = r] /\ label' = [label EXCEPT ![r] = r]
        /\ Systems' = Systems \cup {r} /\ Accepted' = Accepted \cup {r}
        /\ Target(r) = r
    BY <1>3, <1>4, <1>8 DEF Ident, CreateEvidence, Target
  <2>2. \A s \in Request : Updates(s)' = Updates(s)
    BY <1>1, <1>8, <2>1 DEF Updates, Op, Target
  <2>3. LinearHistory'
    <3>1. \A s \in Request : \A u \in Updates(s) : seen[u] # r
      BY <1>1, <1>2 DEF HeadInv, LinearHistory, Op, Target
    <3>2. QED
      BY <1>1, <2>1, <2>2, <3>1 DEF HeadInv, LinearHistory, TypeInv, TypeOK, Op, Target
  <2>4. \A s \in Systems' : label'[s] \in Committed'
    BY <1>1, <2>1 DEF HeadInv, TypeInv, TypeOK, Systems, Visible, Committed
  <2>5. \A s \in Request : head'[s] # None =>
           /\ s \in Systems' /\ head'[s] \in Accepted' /\ Target(head[s])' = s
           /\ label'[s] = head'[s]
    BY <1>1, <2>1 DEF HeadInv, TypeInv, TypeOK, Op, Target, Scope
  <2>6. QED
    BY <1>6, <2>3, <2>4, <2>5 DEF HeadInv
<1>9. CASE Op(r) = "update" /\ written[r] = UpdateRows
  <2> DEFINE t == Target(r)
  <2>1. /\ head' = [head EXCEPT ![t] = r] /\ label' = [label EXCEPT ![t] = r]
        /\ Systems' = Systems /\ Accepted' = Accepted \cup {r}
        /\ Visible("system_write_head")' = Visible("system_write_head") \cup {r}
    BY <1>1, <1>3, <1>4, <1>9 DEF UpdateRows
  <2>2. t \in Request /\ t \in Systems /\ seen[r] = head[t] /\ head[t] # None
    BY <1>9, InputKinds
       DEF LockInv, LockFits, Locks, Target, TypeInv, PcFits, Statement, Op
  <2>3. /\ Updates(t)' = Updates(t) \cup {r}
        /\ \A s \in Request \ {t} : Updates(s)' = Updates(s)
    BY <1>1, <1>9, <2>1 DEF Updates, Op, Target
  <2>4. seen[r] \in Accepted /\ Target(seen[r]) = t
    BY <2>2 DEF HeadInv
  <2>5. LinearHistory'
    <3>1. ASSUME NEW s \in Request \ {t}
          PROVE  /\ \A u \in Updates(s)' : /\ seen'[u] \in Accepted'
                                           /\ Target(seen[u])' = s
                                           /\ seen'[u] # head'[s]
                 /\ \A u, v \in Updates(s)' : u # v => seen'[u] # seen'[v]
      BY <1>1, <2>1, <2>3 DEF HeadInv, LinearHistory, TypeInv, TypeOK, Op, Target
    <3>2. \A u \in Updates(t) : /\ seen[u] \in Accepted /\ Target(seen[u]) = t
                                /\ seen[u] # head[t] /\ seen[u] # r
      BY <1>1, <1>2, <2>2 DEF HeadInv, LinearHistory, Op, Target
    <3>3. seen[r] # r
      BY <1>1, <1>2, <2>4
    <3>4. head'[t] = r
      BY <2>1, <2>2 DEF TypeInv, TypeOK
    <3>5. ASSUME NEW u \in Updates(t)'
          PROVE  /\ seen[u] \in Accepted' /\ Target(seen[u]) = t
                 /\ seen[u] # head'[t]
      <4>2. CASE u = r
        BY <1>1, <2>1, <2>4, <3>3, <3>4, <4>2
      <4>3. CASE u \in Updates(t)
        BY <1>1, <2>1, <3>2, <3>4, <4>3
      <4>4. QED
        BY <2>3, <4>2, <4>3
    <3>6. ASSUME NEW u \in Updates(t)', NEW v \in Updates(t)', u # v
          PROVE  seen'[u] # seen'[v]
      <4>1. CASE u \in Updates(t) /\ v \in Updates(t)
        BY <1>1, <2>2, <3>6, <4>1 DEF HeadInv, LinearHistory
      <4>2. CASE u = r \/ v = r
        BY <1>1, <2>2, <2>3, <3>2, <3>6, <4>2
      <4>3. QED
        BY <2>3, <4>1, <4>2
    <3>7. \A u \in Updates(t)' : /\ seen[u] \in Accepted' /\ Target(seen[u]) = t
                                 /\ seen[u] # head'[t]
      BY <3>5
    <3>8. \A u, v \in Updates(t)' : u # v => seen'[u] # seen'[v]
      BY <3>6
    <3>9. QED
      BY <1>1, <3>1, <3>7, <3>8 DEF LinearHistory, Target, Op
  <2>6. \A s \in Systems' : label'[s] \in Committed'
    BY <1>1, <2>1, <2>2 DEF HeadInv, TypeInv, TypeOK, Systems, Visible, Committed
  <2>7. \A s \in Request : head'[s] # None =>
           /\ s \in Systems' /\ head'[s] \in Accepted' /\ Target(head[s])' = s
           /\ label'[s] = head'[s]
    BY <1>1, <2>1, <2>2 DEF HeadInv, TypeInv, TypeOK, Op, Target, Scope
  <2>8. QED
    BY <1>6, <2>5, <2>6, <2>7 DEF HeadInv
<1>10. QED
  BY <1>7, <1>8, <1>9 DEF RowsInv, RowsFit, Ident

\* A quiet step of r keeps the locks when r itself fits and gains no lock that
\* another transaction holds.
LEMMA QuietLocks ==
    ASSUME TypeInv, LockInv, Quiet, NEW r \in Request,
           \A q \in Request \ {r} : /\ pc'[q] = pc[q] /\ input'[q] = input[q]
                                    /\ seen'[q] = seen[q],
           LockFits(r)',
           Locks(r)' => \/ Locks(r) /\ input'[r] = input[r]
                        \/ \A q \in Request \ {r} :
                                Locks(q) => input[q].target # input'[r].target
    PROVE  LockInv'
<1>1. head' = head /\ Systems' = Systems
  BY DEF Quiet, Systems, Visible, Committed
<1>2. \A q \in Request \ {r} : LockFits(q)' /\ (Locks(q)' <=> Locks(q))
  BY <1>1 DEF LockInv, LockFits, Locks, Op, CheckRevision
<1>3. \A q \in Request : LockFits(q)'
  BY <1>2
<1>4. \A q, p \in Request :
        q # p /\ Locks(q)' /\ Locks(p)' => input'[q].target # input'[p].target
  BY <1>2 DEF LockInv
<1>5. QED
  BY <1>3, <1>4 DEF LockInv

\* A transaction that is not an update takes no row lock.
LEMMA OtherLocks ==
    ASSUME NEW r \in Request, Op(r)' # "update"
           \/ pc'[r] \in {"idle", "row", "aborted", "committed"}
    PROVE  LockFits(r)' /\ ~Locks(r)'
  BY DEF LockFits, Locks

\* A commit releases the locks of r and moves no head another transaction has
\* read under its own.
LEMMA PublishLocks ==
    ASSUME TypeInv, RowsInv, LockInv, NEW r \in Request, pc[r] = "commit", Publish(r)
    PROVE  LockInv'
<1>1. /\ r \notin Committed /\ Systems \subseteq Systems'
      /\ UNCHANGED <<input, written, seen>>
  BY PublishVisible DEF Systems
<1>2. LockFits(r)' /\ ~Locks(r)'
  <2>1. pc'[r] = "committed"
    BY DEF Publish, Goto, TypeInv, TypeOK
  <2>2. QED
    BY <2>1, OtherLocks
<1>3. ASSUME NEW q \in Request \ {r}
      PROVE  LockFits(q)' /\ (Locks(q)' <=> Locks(q))
  <2>1. pc'[q] = pc[q]
    BY DEF Publish, Goto, TypeInv, TypeOK
  <2>2. ASSUME Locks(q) PROVE head'[input[q].target] = head[input[q].target]
    <3>1. CASE "system_write_head" \notin written[r]
      BY <3>1 DEF Publish
    <3>2. CASE Op(r) = "create"
      <4>1. input[q].target # r
        BY <1>1, <2>2 DEF LockInv, LockFits, Systems, Visible
      <4>2. QED
        BY <3>2, <4>1 DEF Publish, Target, TypeInv, TypeOK
    <3>3. CASE Op(r) = "update"
      <4>1. Locks(r)
        BY <3>3 DEF LockInv, LockFits, Locks
      <4>2. input[q].target # input[r].target
        BY <2>2, <4>1 DEF LockInv
      <4>3. QED
        BY <3>3, <4>2 DEF Publish, Target, TypeInv, TypeOK
    <3>4. QED
      BY <3>1, <3>2, <3>3 DEF RowsInv, RowsFit, Ident
  <2>3. Locks(q)' <=> Locks(q)
    BY <1>1, <2>1 DEF Locks, Op
  <2>4. QED
    BY <1>1, <2>1, <2>2, <2>3 DEF LockInv, LockFits, Locks, Op, CheckRevision
<1>4. \A q \in Request : LockFits(q)'
  BY <1>2, <1>3
<1>5. \A q, p \in Request :
        q # p /\ Locks(q)' /\ Locks(p)' => input'[q].target # input'[p].target
  BY <1>1, <1>2, <1>3 DEF LockInv
<1>6. QED
  BY <1>4, <1>5 DEF LockInv

\* A step of one call leaves what the other calls read and where they are alone.
Alone(r) ==
    \A q \in Request \ {r} : /\ pc'[q] = pc[q] /\ input'[q] = input[q]
                             /\ seen'[q] = seen[q]

\* FOR UPDATE is granted when no other transaction holds the row.
LEMMA LockRowLocks ==
    ASSUME TypeInv, LockInv, Quiet, NEW r \in Request, LockRow(r)
    PROVE  LockInv'
<1> DEFINE t == input[r].target
<1>1. /\ Op(r) = "update" /\ pc[r] = "row" /\ t \in Request /\ t # None
      /\ pc' = [pc EXCEPT ![r] = "recheck"] /\ input' = input
      /\ seen' = [seen EXCEPT ![r] = IF t \in Systems THEN t ELSE None]
  BY InputKinds, NoneAssumption DEF LockRow, TypeInv, PcFits, Statement, Op, Goto
<1>2. Systems' = Systems
  BY DEF Quiet, Systems, Visible, Committed
<1>3. LockFits(r)'
  BY <1>1, <1>2 DEF LockFits, Locks, Op, TypeInv, TypeOK
<1>4. ASSUME Locks(r)', NEW q \in Request \ {r}, Locks(q)
      PROVE  input[q].target # input'[r].target
  <2>1. t \in Systems
    BY <1>1, <1>4 DEF Locks, TypeInv, TypeOK
  <2>2. ~HoldsRow(q, t)
    BY <1>1, <2>1 DEF LockRow, Blockers
  <2>3. QED
    BY <1>1, <1>4, <2>2 DEF HoldsRow, Locks, Open, Statement
<1>5. QED
  BY <1>1, <1>3, <1>4, QuietLocks DEF TypeInv, TypeOK

\* A statement of a call keeps the locks.
LEMMA ProgressLocks ==
    ASSUME TypeInv, RowsInv, LockInv, NEW r \in Request, Progress(r)
    PROVE  LockInv'
<1>1. CASE pc[r] = "commit" /\ Publish(r)
  BY <1>1, PublishLocks
<1>2. SUFFICES ASSUME Quiet, pc[r] # "commit" \/ ~Publish(r) PROVE LockInv'
  BY <1>1, ProgressKinds
<1>3. ASSUME Alone(r), Op(r)' # "update" \/ pc'[r] \in {"idle", "row", "aborted", "committed"}
      PROVE  LockInv'
  BY <1>2, <1>3, OtherLocks, QuietLocks DEF Alone
<1>4. ASSUME NEW why, Abort(r, why) PROVE LockInv'
  <2>1. pc'[r] = "aborted" /\ Alone(r)
    BY <1>4 DEF Abort, Goto, Alone, TypeInv, TypeOK
  <2>2. QED
    BY <2>1, <1>3
<1>5. ASSUME NEW where, Goto(r, where), Op(r) # "update", UNCHANGED input,
             NEW v, seen' = [seen EXCEPT ![r] = v]
      PROVE  LockInv'
  <2>1. Op(r)' # "update" /\ Alone(r)
    BY <1>5 DEF Goto, Alone, Op, TypeInv, TypeOK
  <2>2. QED
    BY <2>1, <1>3
<1>6. seen = [seen EXCEPT ![r] = seen[r]]
  BY DEF TypeInv, TypeOK
<1>7. CASE LockScope(r) \/ Lookup(r) \/ Admit(r) \/ LockGuard(r)
  <2>1. Op(r) # "update"
    BY <1>7 DEF LockScope, Lookup, Admit, LockGuard, TypeInv, PcFits, Keyed, Op
  <2>2. QED
    BY <1>4, <1>5, <1>6, <1>7, <2>1 DEF LockScope, Lookup, Admit, LockGuard
<1>8. CASE \/ InsertIdentity(r) \/ CheckUid(r) \/ InsertAlias(r) \/ CheckAlias(r)
           \/ InsertEdge(r)
  <2>1. Op(r) # "update"
    BY <1>8 DEF InsertIdentity, CheckUid, InsertAlias, CheckAlias, InsertEdge,
                TypeInv, PcFits
  <2>2. QED
    BY <1>4, <1>5, <1>6, <1>8, <2>1
       DEF InsertIdentity, CheckUid, InsertAlias, CheckAlias, InsertEdge
<1>9. CASE InsertEvidence(r) \/ Retain(r) \/ InsertHistory(r)
  <2>1. Op(r) # "update"
    BY <1>9 DEF InsertEvidence, Retain, InsertHistory, TypeInv, PcFits, Keyed, Op
  <2>2. QED
    BY <1>4, <1>5, <1>6, <1>9, <2>1 DEF InsertEvidence, Retain, InsertHistory
<1>10. CASE LockRow(r)
  BY <1>2, <1>10, LockRowLocks
<1>11. head' = head /\ Systems' = Systems
  BY <1>2 DEF Quiet, Systems, Visible, Committed
<1>12. CASE Recheck(r)
  <2>1. CASE seen[r] # None /\ Goto(r, "head") /\ UNCHANGED <<input, seen>>
    <3>1. Alone(r) /\ LockFits(r)' /\ Locks(r) /\ input'[r] = input[r]
      BY <1>11, <1>12, <2>1
         DEF Recheck, Goto, Alone, LockInv, LockFits, Locks, Op, TypeInv, TypeOK, PcFits
    <3>2. QED
      BY <1>2, <3>1, QuietLocks DEF Alone
  <2>2. QED
    BY <1>4, <1>12, <2>1 DEF Recheck
<1>13. CASE ReadHead(r)
  <2> DEFINE current == head[input[r].target]
  <2>1. CASE /\ current # None /\ CheckRevision(input[r].expected, current)
             /\ Goto(r, "write") /\ UNCHANGED input
             /\ seen' = [seen EXCEPT ![r] = current]
    <3>1. Alone(r) /\ LockFits(r)' /\ Locks(r) /\ input'[r] = input[r]
      BY <1>11, <1>13, <2>1
         DEF ReadHead, Goto, Alone, LockInv, LockFits, Locks, Op, TypeInv, TypeOK, PcFits
    <3>2. QED
      BY <1>2, <3>1, QuietLocks DEF Alone
  <2>2. QED
    BY <1>4, <1>13, <2>1 DEF ReadHead
<1>14. CASE WriteUpdate(r)
  <2>1. Alone(r) /\ LockFits(r)' /\ Locks(r) /\ input'[r] = input[r]
    BY <1>11, <1>14
       DEF WriteUpdate, Goto, Alone, LockInv, LockFits, Locks, Op, TypeInv, TypeOK, PcFits
  <2>2. QED
    BY <1>2, <2>1, QuietLocks DEF Alone
<1>15. CASE Commit(r) \/ BreakDeadlock(r)
  BY <1>2, <1>4, <1>15 DEF Commit, BreakDeadlock
<1>16. QED
  BY <1>7, <1>8, <1>9, <1>10, <1>12, <1>13, <1>14, <1>15 DEF Progress

\* Every step keeps the locks.
LEMMA NextLocks == TypeInv /\ RowsInv /\ LockInv /\ [Next]_vars => LockInv'
<1> SUFFICES ASSUME TypeInv, RowsInv, LockInv, [Next]_vars PROVE LockInv'
  OBVIOUS
<1>1. CASE \E r \in Request : pc[r] = "commit" /\ Publish(r)
  BY <1>1, PublishLocks
<1>2. SUFFICES ASSUME Quiet PROVE LockInv'
  BY <1>1, StepKinds
<1>3. ASSUME NEW r \in Request, Alone(r),
             pc'[r] \in {"scope", "admit", "identity", "row", "history", "aborted"},
             TypeInv'
      PROVE  LockInv'
  <2>1. Op(r)' # "update" \/ pc'[r] \in {"idle", "row", "aborted", "committed"}
    BY <1>3 DEF TypeInv, PcFits, Keyed, Op
  <2>2. QED
    BY <1>2, <1>3, <2>1, OtherLocks, QuietLocks DEF Alone
<1>4. ASSUME NEW r \in Request, Begin(r) PROVE LockInv'
  <2>1. PICK i \in Inputs : /\ input' = [input EXCEPT ![r] = i]
                            /\ Goto(r, FirstStatement(i))
    BY <1>4 DEF Begin
  <2>2. FirstStatement(i) \in {"scope", "admit", "identity", "row", "history"}
    BY InputKinds DEF FirstStatement, Keyed
  <2>3. Alone(r) /\ pc'[r] = FirstStatement(i)
    BY <1>4, <2>1 DEF Begin, Alone, Goto, TypeInv, TypeOK
  <2>4. QED
    BY <1>3, <2>2, <2>3, NextTypes
<1>5. ASSUME NEW r \in Request, Refuse(r) \/ Fail(r) PROVE LockInv'
  <2>1. Alone(r) /\ pc'[r] = "aborted"
    BY <1>5 DEF Refuse, Fail, Abort, Alone, Goto, TypeInv, TypeOK
  <2>2. QED
    BY <1>3, <2>1, NextTypes
<1>6. ASSUME NEW r \in Request, CommitLost(r) PROVE LockInv'
  BY <1>6, PublishLocks DEF CommitLost
<1>7. CASE (\E t \in 0 .. MaxClock : ReadClock(t)) \/ UNCHANGED vars
  BY <1>7 DEF ReadClock, vars, DbUnchanged, LockInv, LockFits, Locks, Op,
              Systems, Visible, Committed, CheckRevision
<1>8. QED
  BY <1>4, <1>5, <1>6, <1>7, ProgressLocks DEF Next

-----------------------------------------------------------------------------
(* The inductive invariant and the theorems it carries.                    *)

Inv == TypeInv /\ RowsInv /\ LockInv /\ HeadInv

\* The empty database satisfies the invariant.
LEMMA InitInv == Init => Inv
<1> SUFFICES ASSUME Init PROVE Inv
  OBVIOUS
<1>1. TypeInv
  BY InitTypes
<1>2. \A r \in Request : pc[r] = "idle" /\ written[r] = {} /\ head[r] = None
  BY DEF Init
<1>3. Committed = {} /\ \A t : Visible(t) = {}
  BY <1>2 DEF Committed, Visible
<1>4. RowsInv
  BY <1>2 DEF RowsInv, RowsFit
<1>5. LockInv
  BY <1>2 DEF LockInv, LockFits, Locks
<1>6. LinearHistory
  BY <1>3 DEF LinearHistory, Updates, Accepted
<1>7. HeadInv
  BY <1>2, <1>3, <1>6 DEF HeadInv, Init, Systems
<1>8. QED
  BY <1>1, <1>4, <1>5, <1>7 DEF Inv

\* Every step keeps the invariant.
LEMMA NextInv == Inv /\ [Next]_vars => Inv'
<1> SUFFICES ASSUME Inv, [Next]_vars PROVE Inv'
  OBVIOUS
<1>1. TypeInv' /\ RowsInv' /\ LockInv'
  BY NextTypes, NextRows, NextLocks DEF Inv
<1>2. HeadInv'
  BY StepKinds, QuietHeads, PublishHeads DEF Inv
<1>3. QED
  BY <1>1, <1>2 DEF Inv

\* The state of the write boundary satisfies the inductive invariant: types, the
\* rows of each statement, row locks with what was read under them, and heads.
THEOREM Invariance == Spec => []Inv
  BY InitInv, NextInv, PTL DEF Spec

\* docs/atomic-write.md: whatever fails or is cancelled, a write is visible with
\* its artifact, revision, audit and outgoing work or not at all, and heads,
\* labels and retry receipts point at such writes only.
THEOREM EvidenceIsAtomic == Spec => []AcceptedEvidence
<1>1. Inv => AcceptedEvidence
  <2> SUFFICES ASSUME Inv PROVE AcceptedEvidence
    OBVIOUS
  <2>1. \A r \in Committed :
          /\ "system_write_head" \in written[r] <=> "server_audit" \in written[r]
          /\ "system_write_head" \in written[r] <=> "outgoing_work" \in written[r]
          /\ "system_write_head" \in written[r] =>
                {"system_revision", "source_artifact"} \subseteq written[r]
          /\ "system_create_retry" \in written[r] => "system_write_head" \in written[r]
    BY DEF Inv, RowsInv, RowsFit, Committed, CreateEvidence, UpdateRows, Ident, Keyed, Op
  <2>2. /\ Accepted = Visible("server_audit") /\ Accepted = Visible("outgoing_work")
        /\ Accepted \subseteq Visible("system_revision") \cap Visible("source_artifact")
        /\ Visible("system_create_retry") \subseteq Accepted
    BY <2>1 DEF Accepted, Visible
  <2>3. QED
    BY <2>2 DEF AcceptedEvidence, Inv, HeadInv
<1>2. QED
  BY <1>1, Invariance, PTL

\* docs/conditional-writes.md, "Row locking serializes writes": the accepted
\* writes of every System form one line that ends in its head.
THEOREM HistoryIsLinear == Spec => []LinearHistory
<1>1. Inv => LinearHistory
  BY DEF Inv, HeadInv
<1>2. QED
  BY <1>1, Invariance, PTL

\* check_revision under FOR UPDATE: no head is replaced by a write whose
\* condition named another revision.
THEOREM NoUpdateIsLost == Spec => NoLostUpdate
<1> DEFINE Kept == \A s \in Request :
                     head[s] # None /\ head'[s] # head[s] =>
                        CheckRevision(input[head'[s]].expected, head[s])
<1>1. Inv /\ [Next]_vars => [Kept]_vars
  <2> SUFFICES ASSUME Inv, [Next]_vars PROVE Kept
    OBVIOUS
  <2>1. CASE Quiet
    BY <2>1 DEF Quiet
  <2>2. ASSUME NEW r \in Request, pc[r] = "commit", Publish(r),
               NEW s \in Request, head[s] # None, head'[s] # head[s]
        PROVE  CheckRevision(input[head'[s]].expected, head[s])
    <3>1. s = Target(r) /\ head'[s] = r /\ "system_write_head" \in written[r]
      BY <2>2 DEF Publish, Inv, TypeInv, TypeOK
    <3>2. head[r] = None
      BY <2>2 DEF Inv, HeadInv, Systems, Visible, Committed
    <3>3. Op(r) = "update"
      BY <2>2, <3>1, <3>2 DEF Inv, RowsInv, RowsFit, Ident, Target
    <3>4. seen[r] = head[s] /\ CheckRevision(input[r].expected, seen[r])
      BY <2>2, <3>1, <3>3 DEF Inv, LockInv, LockFits, Target
    <3>5. QED
      BY <3>1, <3>4
  <2>3. QED
    BY <2>1, <2>2, StepKinds DEF Inv
<1>2. QED
  BY <1>1, Invariance, PTL DEF Spec, NoLostUpdate

-----------------------------------------------------------------------------
(* Retry receipts.                                                         *)

\* r has stored a receipt and not committed it.
Pending(r) == pc[r] = "commit" /\ "system_create_retry" \in written[r]

\* Receipts of one scope replace each other only after they expire.
RecordInv ==
    /\ \A q \in Visible("system_create_retry") :
            /\ receipt[Scope(q)] # None
            /\ q = receipt[Scope(q)] \/ Expires(q) <= retained[receipt[Scope(q)]]
    /\ OneLiveCreation
    /\ \A r \in Request : Pending(r) /\ receipt[Scope(r)] # None =>
            Expires(receipt[Scope(r)]) <= retained[r]
    /\ \A r, q \in Request : r # q /\ Pending(r) /\ Pending(q) => Scope(r) # Scope(q)

\* What a step of r leaves alone of the receipts the other calls have stored.
Apart(r) ==
    \A q \in Request \ {r} : /\ pc'[q] = pc[q] /\ input'[q] = input[q]
                             /\ written'[q] = written[q]
                             /\ retained'[q] = retained[q]

\* A receipt belongs to a keyed creation, and its scope and lifetime are defined.
LEMMA ReceiptTypes ==
    ASSUME Inv, NEW r \in Request, "system_create_retry" \in written[r]
    PROVE  /\ Scope(r) \in Scopes /\ retained[r] \in Nat
           /\ input[r].retention \in Nat \ {0}
           /\ Expires(r) \in Nat /\ retained[r] < Expires(r)
<1>1. Keyed(input[r]) /\ pc[r] \in {"commit", "committed"}
  <2>1. pc[r] \in Statement \cup {"idle", "committed", "aborted"}
    BY DEF Inv, TypeInv, TypeOK
  <2>2. QED
    BY <2>1 DEF Inv, RowsInv, RowsFit, Statement, Ident, UpdateRows
<1>2. input[r] \in Inputs
  BY <1>1 DEF Inv, TypeInv, PcFits, Statement
<1>3. Scope(r) \in Scopes /\ input[r].retention \in Nat \ {0}
  BY <1>1, <1>2, InputKinds DEF Keyed, Scope, Scopes
<1>4. retained[r] \in Nat
  BY ClockAssumption DEF Inv, TypeInv, TypeOK
<1>5. QED
  BY <1>3, <1>4 DEF Expires

\* A step that publishes nothing keeps the receipts apart when the receipt its
\* call may have stored is.
LEMMA QuietRecords ==
    ASSUME Inv, RecordInv, Quiet, NEW r \in Request, Apart(r),
           Pending(r)' =>
              /\ input'[r] = input[r] /\ Scope(r) \in Scopes
              /\ receipt[Scope(r)] # None => Expires(receipt[Scope(r)]) <= retained'[r]
              /\ \A q \in Request \ {r} : Pending(q) => Scope(q) # Scope(r)
    PROVE  RecordInv'
<1> DEFINE kept == Visible("system_create_retry")
<1>1. kept' = kept /\ receipt' = receipt
  BY DEF Quiet, Visible, Committed
<1>2. \A q \in Committed : /\ input'[q] = input[q] /\ retained'[q] = retained[q]
  BY DEF Quiet
<1>3. \A q \in kept : /\ q \in Committed /\ receipt[Scope(q)] \in Committed \cup {None}
                      /\ Scope(q) \in Scopes
  BY ReceiptTypes DEF Inv, HeadInv, Visible, Committed
<1>4. \A c \in Scopes : receipt[c] # None => receipt[c] \in Committed
  BY DEF Inv, HeadInv, Visible
<1>5. \A q \in kept' : /\ receipt[Scope(q)]' # None
                       /\ \/ q = receipt[Scope(q)]'
                          \/ Expires(q)' <= retained[receipt[Scope(q)]]'
  <2> SUFFICES ASSUME NEW q \in kept
               PROVE  /\ receipt[Scope(q)]' # None
                      /\ \/ q = receipt[Scope(q)]'
                         \/ Expires(q)' <= retained[receipt[Scope(q)]]'
    BY <1>1
  <2>1. receipt[Scope(q)]' = receipt[Scope(q)] /\ Expires(q)' = Expires(q)
    BY <1>1, <1>2, <1>3 DEF Scope, Expires
  <2>2. receipt[Scope(q)] # None =>
            retained[receipt[Scope(q)]]' = retained[receipt[Scope(q)]]
    BY <1>2, <1>3, <2>1
  <2>3. QED
    BY <2>1, <2>2 DEF RecordInv
<1>6. OneLiveCreation'
  BY <1>1, <1>2, <1>3, ZenonT(60) DEF RecordInv, OneLiveCreation, Scope, Expires
<1>7. \A q \in Request \ {r} : (Pending(q)' <=> Pending(q)) /\ Scope(q)' = Scope(q)
  BY DEF Apart, Pending, Scope
<1>8. ASSUME NEW q \in Request, Pending(q)'
      PROVE  /\ Scope(q)' = Scope(q)
             /\ receipt[Scope(q)] # None =>
                    /\ receipt[Scope(q)] \in Committed
                    /\ Expires(receipt[Scope(q)]) <= retained'[q]
  <2>1. CASE q = r
    BY <1>4, <1>8, <2>1 DEF Scope
  <2>2. CASE q # r
    <3>1. Pending(q) /\ retained'[q] = retained[q] /\ Scope(q)' = Scope(q)
      BY <1>7, <1>8, <2>2 DEF Apart
    <3>2. Scope(q) \in Scopes
      BY <3>1, ReceiptTypes DEF Pending
    <3>3. QED
      BY <1>4, <3>1, <3>2 DEF RecordInv
  <2>3. QED
    BY <2>1, <2>2
<1>9. \A q \in Request : Pending(q)' /\ receipt[Scope(q)]' # None =>
            Expires(receipt[Scope(q)])' <= retained'[q]
  BY <1>1, <1>2, <1>8 DEF Expires
<1>10. \A q, p \in Request : q # p /\ Pending(q)' /\ Pending(p)' => Scope(q)' # Scope(p)'
  BY <1>7, <1>8 DEF RecordInv
<1>11. QED
  BY <1>5, <1>6, <1>9, <1>10 DEF RecordInv

\* A commit replaces only a receipt that had expired when the new one was stored.
LEMMA PublishRecords ==
    ASSUME Inv, RecordInv, NEW r \in Request, pc[r] = "commit", Publish(r)
    PROVE  RecordInv'
<1> DEFINE kept == Visible("system_create_retry")
<1>1. /\ UNCHANGED <<input, written, retained>> /\ ~Pending(r)'
      /\ \A q \in Request \ {r} : Pending(q)' <=> Pending(q)
  BY DEF Publish, Goto, Pending, Inv, TypeInv, TypeOK
<1>2. \A q \in Request : Pending(q)' => Pending(q) /\ q # r
  BY <1>1
<1>3. \A q, p \in Request : q # p /\ Pending(q)' /\ Pending(p)' => Scope(q)' # Scope(p)'
  BY <1>1, <1>2 DEF RecordInv, Scope
<1>4. CASE "system_create_retry" \notin written[r]
  <2>1. kept' = kept /\ receipt' = receipt
    BY <1>4, PublishVisible DEF Publish, Inv
  <2>2. OneLiveCreation'
    BY <1>1, <2>1 DEF RecordInv, OneLiveCreation, Scope, Expires
  <2>3. QED
    BY <1>1, <1>2, <1>3, <2>1, <2>2 DEF RecordInv, Scope, Expires
<1>5. CASE Pending(r)
  <2>1. /\ kept' = kept \cup {r} /\ receipt' = [receipt EXCEPT ![Scope(r)] = r]
        /\ r \notin kept
    BY <1>5, PublishVisible DEF Publish, Inv, Pending, Visible
  <2>2. \A q \in kept \cup {r} : /\ Scope(q) \in Scopes /\ Expires(q) \in Nat
                                 /\ retained[q] \in Nat /\ retained[q] < Expires(q)
    BY <1>5, ReceiptTypes DEF Visible, Committed, Pending
  <2>3. ASSUME NEW q \in kept, Scope(q) = Scope(r)
        PROVE  Expires(q) <= retained[r]
    <3> DEFINE o == receipt[Scope(r)]
    <3>1. o # None /\ (q = o \/ Expires(q) <= retained[o]) /\ Expires(o) <= retained[r]
      BY <1>5, <2>3 DEF RecordInv
    <3>2. o \in kept
      BY <2>2, <3>1 DEF Inv, HeadInv
    <3>3. QED
      BY <2>2, <3>1, <3>2
  <2>4. ASSUME NEW q \in kept'
        PROVE  /\ receipt[Scope(q)]' # None
               /\ q = receipt[Scope(q)]' \/ Expires(q)' <= retained[receipt[Scope(q)]]'
    <3>1. Scope(q)' = Scope(q) /\ Expires(q)' = Expires(q) /\ Scope(q) \in Scopes
      BY <1>1, <2>1, <2>2 DEF Scope, Expires
    <3>2. CASE Scope(q) = Scope(r)
      <4>1. receipt[Scope(q)]' = r
        BY <2>1, <3>1, <3>2 DEF Inv, TypeInv, TypeOK
      <4>2. QED
        BY <1>1, <2>1, <2>3, <3>1, <3>2, <4>1, NoneAssumption
    <3>3. CASE Scope(q) # Scope(r)
      <4>1. receipt[Scope(q)]' = receipt[Scope(q)] /\ q \in kept
        BY <2>1, <3>1, <3>3 DEF Inv, TypeInv, TypeOK
      <4>2. QED
        BY <1>1, <3>1, <4>1 DEF RecordInv
    <3>4. QED
      BY <3>2, <3>3
  <2>5. OneLiveCreation'
    <3>1. \A q, p \in kept \cup {r} : q # p /\ Scope(q) = Scope(p) =>
                Expires(q) <= retained[p] \/ Expires(p) <= retained[q]
      BY <2>3 DEF RecordInv, OneLiveCreation
    <3>2. QED
      BY <1>1, <2>1, <3>1 DEF OneLiveCreation, Scope, Expires
  <2>6. ASSUME NEW q \in Request, Pending(q)', receipt[Scope(q)]' # None
        PROVE  Expires(receipt[Scope(q)])' <= retained'[q]
    <3>1. Pending(q) /\ q # r /\ Scope(q) # Scope(r)
      BY <1>2, <1>5, <2>6 DEF RecordInv
    <3>2. Scope(q) \in Scopes
      BY <3>1, ReceiptTypes DEF Pending
    <3>3. receipt[Scope(q)]' = receipt[Scope(q)]
      BY <1>1, <2>1, <3>1, <3>2 DEF Inv, TypeInv, TypeOK, Scope
    <3>4. QED
      BY <1>1, <2>6, <3>1, <3>3 DEF RecordInv, Expires
  <2>7. QED
    BY <1>3, <2>4, <2>5, <2>6 DEF RecordInv
<1>6. QED
  BY <1>4, <1>5 DEF Pending

\* Every step keeps the receipts apart; only Retain stores one.
LEMMA NextRecords == Inv /\ RecordInv /\ [Next]_vars => RecordInv'
<1> SUFFICES ASSUME Inv, RecordInv, [Next]_vars PROVE RecordInv'
  OBVIOUS
<1>1. CASE \E r \in Request : pc[r] = "commit" /\ Publish(r)
  BY <1>1, PublishRecords
<1>2. SUFFICES ASSUME Quiet, \A r \in Request : pc[r] # "commit" \/ ~Publish(r)
               PROVE  RecordInv'
  BY <1>1, StepKinds DEF Inv
<1>3. ASSUME NEW r \in Request, Apart(r), ~Pending(r)' PROVE RecordInv'
  BY <1>2, <1>3, QuietRecords
<1> USE DEF Inv, TypeInv, TypeOK
<1>4. ASSUME NEW r \in Request, NEW why, Abort(r, why) PROVE RecordInv'
  <2>1. Apart(r) /\ ~Pending(r)'
    BY <1>4 DEF Abort, Goto, Apart, Pending
  <2>2. QED
    BY <1>3, <2>1
<1>5. ASSUME NEW r \in Request, NEW where, Goto(r, where),
             NEW w, written' = [written EXCEPT ![r] = w],
             "system_create_retry" \notin w \/ where # "commit",
             NEW i, input' = [input EXCEPT ![r] = i], UNCHANGED retained
      PROVE  RecordInv'
  <2>1. Apart(r) /\ ~Pending(r)'
    BY <1>5 DEF Goto, Apart, Pending
  <2>2. QED
    BY <1>3, <2>1
<1>6. \A r \in Request : /\ written = [written EXCEPT ![r] = written[r]]
                         /\ input = [input EXCEPT ![r] = input[r]]
  OBVIOUS
<1>7. ASSUME NEW r \in Request, Begin(r) PROVE RecordInv'
  <2>1. PICK i \in Inputs : /\ input' = [input EXCEPT ![r] = i]
                            /\ Goto(r, FirstStatement(i))
    BY <1>7 DEF Begin
  <2>2. FirstStatement(i) \in {"scope", "admit", "identity", "row", "history"}
    BY InputKinds DEF FirstStatement, Keyed
  <2>3. QED
    BY <1>5, <1>6, <1>7, <2>1, <2>2 DEF Begin
<1>8. ASSUME NEW r \in Request, Refuse(r) \/ CommitLost(r) \/ Fail(r) PROVE RecordInv'
  BY <1>2, <1>4, <1>5, <1>6, <1>8 DEF Refuse, CommitLost, Fail
<1>9. ASSUME NEW r \in Request, LockScope(r) \/ Lookup(r) \/ Admit(r) \/ LockGuard(r)
      PROVE  RecordInv'
  <2>1. "system_create_retry" \notin written[r]
    BY <1>9 DEF LockScope, Lookup, Admit, LockGuard, RowsInv, RowsFit, Ident
  <2>2. QED
    BY <1>4, <1>5, <1>6, <1>9, <2>1 DEF LockScope, Lookup, Admit, LockGuard
<1>10. ASSUME NEW r \in Request,
              \/ InsertIdentity(r) \/ CheckUid(r) \/ InsertAlias(r) \/ CheckAlias(r)
              \/ InsertEdge(r)
       PROVE  RecordInv'
  <2>1. "system_create_retry" \notin written[r]
    BY <1>10 DEF InsertIdentity, CheckUid, InsertAlias, CheckAlias, InsertEdge,
                 RowsInv, RowsFit, Ident
  <2>2. CASE InsertIdentity(r)
    <3> DEFINE w == written[r] \cup {"resource_identity"}
    <3>1. "system_create_retry" \notin w
      BY <2>1
    <3>2. written' = [written EXCEPT ![r] = w] /\ input' = [input EXCEPT ![r] = input[r]]
      BY <1>6, <2>2 DEF InsertIdentity, Write
    <3>3. QED
      BY <1>5, <2>2, <3>1, <3>2 DEF InsertIdentity
  <2>3. CASE CheckUid(r)
    <3>1. CASE Abort(r, "conflict")
      BY <1>4, <3>1
    <3>2. ASSUME NEW where, Goto(r, where), Write(r, {"system_identity"}),
                 UNCHANGED <<input, retained>>
          PROVE  RecordInv'
      <4> DEFINE w == written[r] \cup {"system_identity"}
      <4>1. "system_create_retry" \notin w
        BY <2>1
      <4>2. written' = [written EXCEPT ![r] = w] /\ input' = [input EXCEPT ![r] = input[r]]
        BY <1>6, <3>2 DEF Write
      <4>3. QED
        BY <1>5, <3>2, <4>1, <4>2
    <3>3. QED
      BY <2>3, <3>1, <3>2 DEF CheckUid
  <2>4. CASE InsertAlias(r) \/ CheckAlias(r)
    BY <1>4, <1>5, <1>6, <2>1, <2>4 DEF InsertAlias, CheckAlias
  <2>5. CASE InsertEdge(r)
    BY <1>4, <1>5, <1>6, <2>1, <2>5 DEF InsertEdge, Write
  <2>6. QED
    BY <1>10, <2>2, <2>3, <2>4, <2>5
<1>11. ASSUME NEW r \in Request,
              InsertEvidence(r) \/ WriteUpdate(r) \/ InsertHistory(r)
       PROVE  RecordInv'
  <2>1. "system_create_retry" \notin written[r]
    BY <1>11 DEF InsertEvidence, WriteUpdate, InsertHistory, RowsInv, RowsFit, Ident
  <2>2. QED
    BY <1>4, <1>5, <1>6, <1>11, <2>1
       DEF InsertEvidence, WriteUpdate, InsertHistory, Write, CreateEvidence,
           UpdateRows, HistoryRows
<1>12. ASSUME NEW r \in Request, LockRow(r) \/ Recheck(r) \/ ReadHead(r)
       PROVE  RecordInv'
  BY <1>4, <1>5, <1>6, <1>12 DEF LockRow, Recheck, ReadHead
<1>13. ASSUME NEW r \in Request, Retain(r) PROVE RecordInv'
  <2>1. CASE Abort(r, "conflict")
    BY <1>4, <2>1
  <2>2. CASE /\ ~Live(receipt[Scope(r)]) /\ Blockers(r) = {}
             /\ retained' = [retained EXCEPT ![r] = now]
             /\ Write(r, {"system_create_retry"}) /\ Goto(r, "commit")
             /\ UNCHANGED input
    <3>1. Apart(r) /\ retained'[r] = now /\ input'[r] = input[r]
      BY <2>2 DEF Apart, Goto, Write
    <3>2. Scope(r) \in Scopes
      BY <1>13, InputKinds DEF Retain, PcFits, Keyed, Scope, Scopes, Statement
    <3>3. receipt[Scope(r)] # None => Expires(receipt[Scope(r)]) <= now
      <4>1. receipt[Scope(r)] # None => Expires(receipt[Scope(r)]) \in Nat
        BY <3>2, ReceiptTypes DEF HeadInv, Visible, Committed
      <4>2. now \in Nat
        BY ClockAssumption
      <4>3. QED
        BY <2>2, <4>1, <4>2 DEF Live
    <3>4. \A q \in Request \ {r} : Pending(q) => Scope(q) # Scope(r)
      BY <1>13, <2>2 DEF Retain, Blockers, Pending, Open, Statement
    <3>5. QED
      BY <1>2, <3>1, <3>2, <3>3, <3>4, QuietRecords
  <2>3. QED
    BY <1>13, <2>1, <2>2 DEF Retain
<1>14. ASSUME NEW r \in Request, Commit(r) \/ BreakDeadlock(r) PROVE RecordInv'
  BY <1>2, <1>4, <1>14 DEF Commit, BreakDeadlock
<1>15. CASE (\E t \in 0 .. MaxClock : ReadClock(t)) \/ UNCHANGED vars
  <2>1. UNCHANGED <<pc, input, written, retained, receipt>>
    BY <1>15 DEF ReadClock, vars, DbUnchanged
  <2>2. QED
    BY <2>1 DEF RecordInv, OneLiveCreation, Visible, Committed, Scope, Expires, Pending
<1>16. QED
  BY <1>7, <1>8, <1>9, <1>10, <1>11, <1>12, <1>13, <1>14, <1>15 DEF Next, Progress

\* No receipt is stored yet.
LEMMA InitRecords == Init => RecordInv
<1> SUFFICES ASSUME Init PROVE RecordInv
  OBVIOUS
<1>1. \A r \in Request : ~Pending(r) /\ r \notin Committed
  BY DEF Init, Pending, Committed
<1>2. Visible("system_create_retry") = {}
  BY <1>1 DEF Visible, Committed
<1>3. QED
  BY <1>1, <1>2 DEF RecordInv, OneLiveCreation

\* docs/write-retries.md: the retention windows of two recorded creations of one
\* retry scope never overlap, whatever the database clock does.
THEOREM CreationsAreOncePerKey == Spec => []OneLiveCreation
<1>1. RecordInv => OneLiveCreation
  BY DEF RecordInv
<1>2. QED
  BY <1>1, InitRecords, NextRecords, Invariance, PTL DEF Spec

-----------------------------------------------------------------------------
(* Identities.                                                             *)

\* Statements before the first source_identity row of a call.
Early == {"scope", "lookup", "admit", "identity", "uid", "row", "recheck", "head",
          "write", "history"}

\* How many source_identity rows r has at each statement.
PlacedFits(r) ==
    /\ pc[r] \in Early \cup {"idle", "aborted"} => placed[r] = 0
    /\ pc[r] = "alias" => placed[r] < Len(input[r].aliases)
    /\ pc[r] = "pair" => placed[r] \in 1 .. Len(input[r].aliases)
    /\ pc[r] \in {"guard", "edge", "evidence", "retain"} =>
            placed[r] = Len(input[r].aliases)
    /\ pc[r] \in {"commit", "committed"} =>
            placed[r] = IF "resource_identity" \in written[r]
                        THEN Len(input[r].aliases) ELSE 0

\* resource_uid_unique has accepted the row of r.
UidChecked(r) == "resource_identity" \in written[r] /\ pc[r] # "uid"

\* How many rows of r source_pair_unique has accepted.
AliasesChecked(r) == IF pc[r] = "pair" THEN placed[r] - 1 ELSE placed[r]

\* Rows that the constraints have accepted name one System, committed or not.
IdentityInv ==
    /\ \A r \in Request : PlacedFits(r)
    /\ \A r, q \in Request :
            r # q /\ UidChecked(r) /\ UidChecked(q) => input[r].uid # input[q].uid
    /\ \A r, q \in Request :
            \A m \in 1 .. AliasesChecked(r), n \in 1 .. AliasesChecked(q) :
                <<r, m>> # <<q, n>> => input[r].aliases[m] # input[q].aliases[n]

\* The aliases of a creation are a sequence.
LEMMA InputAliases ==
    ASSUME NEW i \in Inputs, i.op \in {"create", "identity"}
    PROVE  i.aliases \in Seq(Aliases) /\ Len(i.aliases) \in Nat
           /\ DOMAIN i.aliases = 1 .. Len(i.aliases)
<1>1. i.aliases \in Seq(Aliases)
  BY InputsAssumption DEF Input, NewInput, UpdateInput, HistoryInput
<1>2. QED
  BY <1>1

\* A step of r leaves what the other calls have written alone.
Beside(r) ==
    \A q \in Request \ {r} : /\ pc'[q] = pc[q] /\ input'[q] = input[q]
                             /\ written'[q] = written[q]
                             /\ placed'[q] = placed[q]

\* A step of r keeps identities apart when every row of it that a constraint
\* accepts now was accepted before or meets no rival.
LEMMA IdentityStep ==
    ASSUME TypeInv, IdentityInv, NEW r \in Request, Beside(r), PlacedFits(r)',
           \/ ~UidChecked(r)'
           \/ UidChecked(r) /\ input'[r] = input[r]
           \/ UidOwners(r) = {} /\ input'[r] = input[r],
           \/ AliasesChecked(r)' = 0
           \/ AliasesChecked(r)' = AliasesChecked(r) /\ input'[r] = input[r]
           \/ /\ AliasOwners(r) = {} /\ input'[r] = input[r]
              /\ AliasesChecked(r)' = placed[r] /\ AliasesChecked(r) = placed[r] - 1
    PROVE  IdentityInv'
<1>1. \A q \in Request \ {r} : /\ PlacedFits(q)'
                               /\ UidChecked(q)' <=> UidChecked(q)
                               /\ AliasesChecked(q)' = AliasesChecked(q)
  BY DEF Beside, IdentityInv, PlacedFits, UidChecked, AliasesChecked
<1>2. ASSUME UidChecked(r)', NEW q \in Request \ {r}, UidChecked(q)
      PROVE  input[q].uid # input'[r].uid
  <2>1. CASE UidChecked(r) /\ input'[r] = input[r]
    BY <1>2, <2>1 DEF IdentityInv
  <2>2. CASE UidOwners(r) = {} /\ input'[r] = input[r]
    BY <1>2, <2>2 DEF UidOwners, UidChecked
  <2>3. QED
    BY <1>2, <2>1, <2>2
<1>3. \A p, q \in Request :
        p # q /\ UidChecked(p)' /\ UidChecked(q)' => input'[p].uid # input'[q].uid
  <2>1. ASSUME NEW p \in Request, NEW q \in Request, p # q,
               UidChecked(p)', UidChecked(q)'
        PROVE  input'[p].uid # input'[q].uid
    <3>1. CASE p # r /\ q # r
      BY <1>1, <2>1, <3>1 DEF IdentityInv, Beside
    <3>2. CASE p = r
      BY <1>1, <1>2, <2>1, <3>2 DEF Beside
    <3>3. CASE q = r
      BY <1>1, <1>2, <2>1, <3>3 DEF Beside
    <3>4. QED
      BY <3>1, <3>2, <3>3
  <2>2. QED
    BY <2>1
<1>4. \A q \in Request : AliasesChecked(q) \in Nat /\ AliasesChecked(q) <= placed[q]
                         /\ placed[q] \in Nat
  BY DEF TypeInv, TypeOK, AliasesChecked, IdentityInv, PlacedFits
<1>5. ASSUME NEW m \in 1 .. AliasesChecked(r)', NEW q \in Request,
             NEW n \in 1 .. AliasesChecked(q)', <<r, m>> # <<q, n>>
      PROVE  input'[r].aliases[m] # input'[q].aliases[n]
  <2>1. CASE AliasesChecked(r)' = 0
    BY <1>5, <2>1
  <2>2. CASE AliasesChecked(r)' = AliasesChecked(r) /\ input'[r] = input[r]
    <3>1. AliasesChecked(q)' = AliasesChecked(q) /\ input'[q] = input[q]
      BY <1>1, <2>2 DEF Beside
    <3>2. QED
      BY <1>5, <2>2, <3>1 DEF IdentityInv
  <2>3. CASE /\ AliasOwners(r) = {} /\ input'[r] = input[r]
             /\ AliasesChecked(r)' = placed[r] /\ AliasesChecked(r) = placed[r] - 1
    <3>1. ASSUME NEW p \in Request, NEW i \in 1 .. placed[p], <<p, i>> # <<r, placed[r]>>
          PROVE  input[p].aliases[i] # input[r].aliases[placed[r]]
      BY <2>3, <3>1 DEF AliasOwners
    <3>2. input'[q] = input[q] /\ n \in 1 .. placed[q] /\ m \in 1 .. placed[r]
      BY <1>1, <1>4, <1>5, <2>3 DEF Beside
    <3>3. CASE m = placed[r]
      BY <1>5, <2>3, <3>1, <3>2, <3>3
    <3>4. CASE q = r /\ n = placed[r]
      BY <1>5, <2>3, <3>1, <3>2, <3>4
    <3>5. CASE m # placed[r] /\ ~(q = r /\ n = placed[r])
      <4>1. m \in 1 .. AliasesChecked(r)
        BY <1>4, <2>3, <3>2, <3>5
      <4>2. n \in 1 .. AliasesChecked(q)
        <5>1. CASE q = r
          BY <1>4, <1>5, <2>3, <3>2, <3>5, <5>1
        <5>2. CASE q # r
          BY <1>1, <1>5, <5>2
        <5>3. QED
          BY <5>1, <5>2
      <4>3. QED
        BY <1>5, <2>3, <3>2, <4>1, <4>2 DEF IdentityInv
    <3>6. QED
      BY <3>3, <3>4, <3>5
  <2>4. QED
    BY <2>1, <2>2, <2>3
<1>6. ASSUME NEW p \in Request, NEW q \in Request,
             NEW m \in 1 .. AliasesChecked(p)', NEW n \in 1 .. AliasesChecked(q)',
             <<p, m>> # <<q, n>>
      PROVE  input'[p].aliases[m] # input'[q].aliases[n]
  <2>1. CASE p = r
    BY <1>5, <1>6, <2>1
  <2>2. CASE q = r
    BY <1>5, <1>6, <2>2
  <2>3. CASE p # r /\ q # r
    BY <1>1, <1>6, <2>3 DEF IdentityInv, Beside
  <2>4. QED
    BY <2>1, <2>2, <2>3
<1>7. \A q \in Request : PlacedFits(q)'
  BY <1>1
<1>8. QED
  BY <1>3, <1>6, <1>7 DEF IdentityInv

\* A rollback takes the identities of its call back.
LEMMA AbortIdentity ==
    ASSUME TypeInv, IdentityInv, NEW r \in Request, NEW why, Abort(r, why)
    PROVE  IdentityInv'
<1>1. /\ Beside(r) /\ pc'[r] = "aborted" /\ placed'[r] = 0 /\ written'[r] = {}
  BY DEF Abort, Goto, Beside, TypeInv, TypeOK
<1>2. PlacedFits(r)' /\ ~UidChecked(r)' /\ AliasesChecked(r)' = 0
  BY <1>1 DEF PlacedFits, UidChecked, AliasesChecked
<1>3. QED
  BY <1>1, <1>2, IdentityStep

\* A step that adds no identity row keeps them apart.
LEMMA RowIdentity ==
    ASSUME TypeInv, IdentityInv, NEW r \in Request, NEW where, Goto(r, where),
           NEW w, written' = [written EXCEPT ![r] = w], UNCHANGED <<input, placed>>,
           \/ /\ pc[r] \in Early /\ where \in Early \cup {"commit"}
              /\ "resource_identity" \notin w \/ where = "uid"
           \/ /\ pc[r] \in {"guard", "edge", "evidence", "retain"}
              /\ where \in {"edge", "evidence", "retain", "commit"}
              /\ "resource_identity" \in w \cap written[r]
           \/ pc[r] = "commit" /\ where = "committed" /\ w = written[r]
    PROVE  IdentityInv'
<1>1. /\ Beside(r) /\ pc'[r] = where /\ written'[r] = w
      /\ input'[r] = input[r] /\ placed'[r] = placed[r]
  BY DEF Goto, Beside, TypeInv, TypeOK
<1>2. PlacedFits(r)
  BY DEF IdentityInv
<1>3. CASE pc[r] \in Early
  <2>1. placed[r] = 0 /\ where \in Early \cup {"commit"}
    BY <1>2, <1>3 DEF PlacedFits, Early
  <2>2. PlacedFits(r)' /\ ~UidChecked(r)' /\ AliasesChecked(r)' = 0
    BY <1>1, <1>3, <2>1 DEF PlacedFits, UidChecked, AliasesChecked, Early
  <2>3. QED
    BY <1>1, <2>2, IdentityStep
<1>4. CASE pc[r] \notin Early
  <2>1. /\ PlacedFits(r)'
        /\ UidChecked(r)' => UidChecked(r)
        /\ AliasesChecked(r)' = AliasesChecked(r)
    BY <1>1, <1>2, <1>4 DEF PlacedFits, UidChecked, AliasesChecked, Early
  <2>2. QED
    BY <1>1, <2>1, IdentityStep
<1>5. QED
  BY <1>3, <1>4

\* Every step keeps identities apart.
LEMMA NextIdentity == TypeInv /\ RowsInv /\ IdentityInv /\ [Next]_vars => IdentityInv'
<1> SUFFICES ASSUME TypeInv, RowsInv, IdentityInv, [Next]_vars PROVE IdentityInv'
  OBVIOUS
<1>1. \A r \in Request : written = [written EXCEPT ![r] = written[r]]
  BY DEF TypeInv, TypeOK
<1>2. ASSUME NEW r \in Request, Begin(r) PROVE IdentityInv'
  <2>1. PICK i \in Inputs : /\ input' = [input EXCEPT ![r] = i]
                            /\ Goto(r, FirstStatement(i))
    BY <1>2 DEF Begin
  <2>2. FirstStatement(i) \in Early \ {"uid"}
    BY InputKinds DEF FirstStatement, Keyed, Early
  <2>3. /\ Beside(r) /\ pc'[r] = FirstStatement(i) /\ placed'[r] = 0 /\ written'[r] = {}
    BY <1>2, <2>1 DEF Begin, Goto, Beside, TypeInv, TypeOK, IdentityInv, PlacedFits,
                      RowsInv, RowsFit
  <2>4. PlacedFits(r)' /\ ~UidChecked(r)' /\ AliasesChecked(r)' = 0
    BY <2>2, <2>3 DEF PlacedFits, UidChecked, AliasesChecked, Early
  <2>5. QED
    BY <2>3, <2>4, IdentityStep
<1>3. ASSUME NEW r \in Request, Refuse(r) PROVE IdentityInv'
  <2>1. /\ Beside(r) /\ pc'[r] = "aborted" /\ placed'[r] = 0 /\ written'[r] = {}
    BY <1>3 DEF Refuse, Goto, Beside, TypeInv, TypeOK, IdentityInv, PlacedFits,
                RowsInv, RowsFit
  <2>2. PlacedFits(r)' /\ ~UidChecked(r)' /\ AliasesChecked(r)' = 0
    BY <2>1 DEF PlacedFits, UidChecked, AliasesChecked, Early
  <2>3. QED
    BY <2>1, <2>2, IdentityStep
<1>4. ASSUME NEW r \in Request, pc[r] = "commit", Publish(r) PROVE IdentityInv'
  BY <1>1, <1>4, RowIdentity DEF Publish
<1>5. ASSUME NEW r \in Request, NEW where \in Early \cup {"commit"}, Goto(r, where),
             pc[r] \in Early \ {"uid"}, where # "uid", UNCHANGED <<input, placed, written>>
      PROVE  IdentityInv'
  <2>1. "resource_identity" \notin written[r]
    BY <1>5 DEF RowsInv, RowsFit, Early
  <2>2. QED
    BY <1>1, <1>5, <2>1, RowIdentity
<1>6. ASSUME NEW r \in Request, LockScope(r) \/ Lookup(r) \/ Admit(r)
      PROVE  IdentityInv'
  BY <1>5, <1>6, AbortIdentity DEF LockScope, Lookup, Admit, Early
<1>7. ASSUME NEW r \in Request, InsertIdentity(r) PROVE IdentityInv'
  BY <1>7, RowIdentity DEF InsertIdentity, Write, Early
<1>8. ASSUME NEW r \in Request, pc[r] \in {"uid", "pair"}
      PROVE  /\ input[r] \in Inputs /\ Len(input[r].aliases) \in Nat
             /\ input[r].aliases = <<>> <=> Len(input[r].aliases) = 0
  <2>1. input[r] \in Inputs /\ input[r].op \in {"create", "identity"}
    BY <1>8 DEF TypeInv, PcFits, Statement, Op
  <2>2. QED
    BY <2>1, InputAliases
<1>9. \A r \in Request : AfterAliases(r) \in {"guard", "evidence", "commit"}
  BY DEF AfterAliases, AfterEdge
<1>10. ASSUME NEW r \in Request, CheckUid(r) PROVE IdentityInv'
  <2>1. CASE Abort(r, "conflict")
    BY <2>1, AbortIdentity
  <2>2. ASSUME UidOwners(r) = {}, Write(r, {"system_identity"}),
               NEW where, Goto(r, where), UNCHANGED <<input, placed>>,
               where \in {"alias", "guard", "evidence", "commit"},
               where = "alias" <=> input[r].aliases # <<>>
        PROVE  IdentityInv'
    <3>1. /\ pc[r] = "uid" /\ placed[r] = 0 /\ "resource_identity" \in written[r]
      BY <1>10 DEF CheckUid, IdentityInv, PlacedFits, RowsInv, RowsFit, Early
    <3>2. /\ Beside(r) /\ pc'[r] = where /\ "resource_identity" \in written'[r]
          /\ input'[r] = input[r] /\ placed'[r] = 0
      BY <2>2, <3>1 DEF Goto, Write, Beside, TypeInv, TypeOK
    <3>3. PlacedFits(r)' /\ AliasesChecked(r)' = 0
      BY <1>8, <2>2, <3>1, <3>2 DEF PlacedFits, AliasesChecked, Early
    <3>4. QED
      BY <2>2, <3>2, <3>3, IdentityStep
  <2>3. QED
    BY <1>9, <1>10, <2>1, <2>2 DEF CheckUid
<1>11. ASSUME NEW r \in Request, InsertAlias(r) PROVE IdentityInv'
  <2>1. /\ pc[r] = "alias" /\ placed[r] < Len(input[r].aliases) /\ placed[r] \in Nat
    BY <1>11 DEF InsertAlias, IdentityInv, PlacedFits, TypeInv, TypeOK
  <2>2. Len(input[r].aliases) \in Nat
    BY <2>1, InputAliases DEF TypeInv, PcFits, Statement, Op
  <2>3. /\ Beside(r) /\ pc'[r] = "pair" /\ written'[r] = written[r]
        /\ input'[r] = input[r] /\ placed'[r] = placed[r] + 1
    BY <1>11 DEF InsertAlias, Goto, Beside, TypeInv, TypeOK
  <2>4. /\ PlacedFits(r)' /\ AliasesChecked(r)' = AliasesChecked(r)
        /\ UidChecked(r)' => UidChecked(r)
    BY <2>1, <2>2, <2>3 DEF PlacedFits, AliasesChecked, UidChecked, Early
  <2>5. QED
    BY <2>3, <2>4, IdentityStep
<1>12. ASSUME NEW r \in Request, CheckAlias(r) PROVE IdentityInv'
  <2>1. CASE Abort(r, "conflict")
    BY <2>1, AbortIdentity
  <2>2. ASSUME AliasOwners(r) = {}, NEW where, Goto(r, where),
               UNCHANGED <<input, written, placed>>,
               where \in {"alias", "guard", "evidence", "commit"},
               where = "alias" <=> placed[r] # Len(input[r].aliases)
        PROVE  IdentityInv'
    <3>1. /\ pc[r] = "pair" /\ placed[r] \in 1 .. Len(input[r].aliases)
          /\ "resource_identity" \in written[r]
      BY <1>12 DEF CheckAlias, IdentityInv, PlacedFits, RowsInv, RowsFit, Ident
    <3>2. /\ Beside(r) /\ pc'[r] = where /\ written'[r] = written[r]
          /\ input'[r] = input[r] /\ placed'[r] = placed[r]
      BY <2>2 DEF Goto, Beside, TypeInv, TypeOK
    <3>3. Len(input[r].aliases) \in Nat
      BY <1>8, <3>1
    <3>4. /\ PlacedFits(r)'
          /\ UidChecked(r)' => UidChecked(r)
          /\ AliasesChecked(r)' = placed[r] /\ AliasesChecked(r) = placed[r] - 1
      BY <2>2, <3>1, <3>2, <3>3 DEF PlacedFits, AliasesChecked, UidChecked, Early
    <3>5. QED
      BY <2>2, <3>2, <3>4, IdentityStep
  <2>3. QED
    BY <1>9, <1>12, <2>1, <2>2 DEF CheckAlias
<1>13. ASSUME NEW r \in Request, LockGuard(r) \/ InsertEdge(r) PROVE IdentityInv'
  <2>1. "resource_identity" \in written[r]
    BY <1>13 DEF LockGuard, InsertEdge, RowsInv, RowsFit, Ident
  <2>2. QED
    BY <1>1, <1>13, <2>1, AbortIdentity, RowIdentity
       DEF LockGuard, InsertEdge, Write, AfterEdge
<1>14. ASSUME NEW r \in Request, InsertEvidence(r) \/ Retain(r) PROVE IdentityInv'
  <2>1. "resource_identity" \in written[r]
    BY <1>14 DEF InsertEvidence, Retain, RowsInv, RowsFit, Ident
  <2>2. QED
    BY <1>14, <2>1, AbortIdentity, RowIdentity DEF InsertEvidence, Retain, Write
<1>15. ASSUME NEW r \in Request, LockRow(r) \/ Recheck(r) \/ ReadHead(r)
       PROVE  IdentityInv'
  BY <1>5, <1>15, AbortIdentity DEF LockRow, Recheck, ReadHead, Early
<1>16. ASSUME NEW r \in Request, WriteUpdate(r) \/ InsertHistory(r) PROVE IdentityInv'
  <2>1. "resource_identity" \notin written[r]
    BY <1>16 DEF WriteUpdate, InsertHistory, RowsInv, RowsFit
  <2>2. QED
    BY <1>16, <2>1, AbortIdentity, RowIdentity
       DEF WriteUpdate, InsertHistory, Write, UpdateRows, HistoryRows, Early
<1>17. ASSUME NEW r \in Request, Commit(r) \/ CommitLost(r) \/ BreakDeadlock(r) \/ Fail(r)
       PROVE  IdentityInv'
  BY <1>4, <1>17, AbortIdentity DEF Commit, CommitLost, BreakDeadlock, Fail
<1>18. CASE (\E t \in 0 .. MaxClock : ReadClock(t)) \/ UNCHANGED vars
  <2>1. UNCHANGED <<pc, input, written, placed>>
    BY <1>18 DEF ReadClock, vars
  <2>2. QED
    BY <2>1 DEF IdentityInv, PlacedFits, UidChecked, AliasesChecked
<1>19. QED
  BY <1>2, <1>3, <1>6, <1>7, <1>10, <1>11, <1>12, <1>13, <1>14, <1>15, <1>16, <1>17, <1>18
     DEF Next, Progress

\* No call has an identity yet.
LEMMA InitIdentity == Init => IdentityInv
  BY DEF Init, IdentityInv, PlacedFits, UidChecked, AliasesChecked

\* Migration 0002: UIDs and source identities name one System for ever, whatever
\* creations race for them and however their transactions end.
THEOREM IdentitiesAreUnique == Spec => []UniqueIdentity
<1>1. Inv /\ IdentityInv => UniqueIdentity
  <2> SUFFICES ASSUME Inv, IdentityInv, NEW r \in Systems, NEW q \in Systems, r # q
               PROVE  /\ input[r].uid # input[q].uid
                      /\ \A m \in DOMAIN input[r].aliases, n \in DOMAIN input[q].aliases :
                            input[r].aliases[m] # input[q].aliases[n]
    BY DEF UniqueIdentity
  <2>1. ASSUME NEW s \in Systems
        PROVE  /\ s \in Request /\ UidChecked(s)
               /\ DOMAIN input[s].aliases = 1 .. AliasesChecked(s)
    <3>1. s \in Request /\ pc[s] = "committed" /\ "resource_identity" \in written[s]
      BY DEF Systems, Visible, Committed
    <3>2. input[s] \in Inputs /\ input[s].op \in {"create", "identity"}
      BY <3>1 DEF Inv, TypeInv, PcFits, RowsInv, RowsFit, UpdateRows, Op
    <3>3. AliasesChecked(s) = Len(input[s].aliases)
      BY <3>1 DEF AliasesChecked, IdentityInv, PlacedFits
    <3>4. QED
      BY <3>1, <3>2, <3>3, InputAliases DEF UidChecked
  <2>2. QED
    BY <2>1 DEF IdentityInv
<1>2. QED
  BY <1>1, InitIdentity, NextIdentity, Invariance, PTL DEF Spec, Inv

-----------------------------------------------------------------------------
(* References.                                                             *)

\* The parent, System and artifact that the rows of r refer to are committed.
Bound(r) ==
    /\ pc[r] \in {"evidence", "retain", "commit"} /\ "resource_identity" \in written[r]
            => input[r].parent \in Systems \cup {None}
    /\ pc[r] = "commit" /\ Op(r) = "history" =>
            /\ input[r].target \in Systems \cup {None}
            /\ input[r].artifact \in Visible("source_artifact") \cup {None}

BoundInv == \A r \in Request : Bound(r)

\* Rows are never deleted.
LEMMA RowsStay ==
    ASSUME TypeInv, [Next]_vars
    PROVE  \A t : Visible(t) \subseteq Visible(t)'
<1>1. CASE Quiet
  BY <1>1 DEF Quiet, Visible, Committed
<1>2. ASSUME NEW r \in Request, pc[r] = "commit", Publish(r)
      PROVE  \A t : Visible(t) \subseteq Visible(t)'
  BY <1>2, PublishVisible
<1>3. QED
  BY <1>1, <1>2, StepKinds

\* A step of r keeps what the other calls refer to.
LEMMA BoundStep ==
    ASSUME TypeInv, BoundInv, [Next]_vars, NEW r \in Request, Beside(r), Bound(r)'
    PROVE  BoundInv'
<1>1. Systems \subseteq Systems' /\ Visible("source_artifact") \subseteq Visible("source_artifact")'
  BY RowsStay DEF Systems
<1>2. \A q \in Request \ {r} : Bound(q)'
  BY <1>1 DEF Beside, BoundInv, Bound, Op
<1>3. QED
  BY <1>2 DEF BoundInv

\* Every step keeps references; the foreign keys check the new ones.
LEMMA NextBound == TypeInv /\ RowsInv /\ BoundInv /\ [Next]_vars => BoundInv'
<1> SUFFICES ASSUME TypeInv, RowsInv, BoundInv, [Next]_vars PROVE BoundInv'
  OBVIOUS
<1>1. \A r \in Request : written = [written EXCEPT ![r] = written[r]]
  BY DEF TypeInv, TypeOK
<1>2. Systems \subseteq Systems' /\ Visible("source_artifact") \subseteq Visible("source_artifact")'
  BY RowsStay DEF Systems
<1>3. ASSUME NEW r \in Request, Beside(r), pc'[r] \notin {"evidence", "retain", "commit"}
      PROVE  BoundInv'
  BY <1>3, BoundStep DEF Bound
<1>4. ASSUME NEW r \in Request, NEW where, Goto(r, where),
             NEW w, written' = [written EXCEPT ![r] = w], UNCHANGED <<input, placed>>,
             where \in {"evidence", "retain", "commit"} /\ "resource_identity" \in w
                => input[r].parent \in Systems \cup {None},
             where = "commit" /\ Op(r) = "history" =>
                /\ input[r].target \in Systems \cup {None}
                /\ input[r].artifact \in Visible("source_artifact") \cup {None}
      PROVE  BoundInv'
  <2>1. /\ Beside(r) /\ pc'[r] = where /\ written'[r] = w /\ input'[r] = input[r]
    BY <1>4 DEF Goto, Beside, TypeInv, TypeOK
  <2>2. Bound(r)'
    BY <1>2, <1>4, <2>1 DEF Bound, Op
  <2>3. QED
    BY <2>1, <2>2, BoundStep
<1>5. ASSUME NEW r \in Request, NEW why, Abort(r, why) PROVE BoundInv'
  <2>1. Beside(r) /\ pc'[r] = "aborted"
    BY <1>5 DEF Abort, Goto, Beside, TypeInv, TypeOK
  <2>2. QED
    BY <1>3, <2>1
<1>6. ASSUME NEW r \in Request, Begin(r) \/ Refuse(r) PROVE BoundInv'
  <2>1. CASE Begin(r)
    <3>1. PICK i \in Inputs : /\ input' = [input EXCEPT ![r] = i]
                              /\ Goto(r, FirstStatement(i))
      BY <2>1 DEF Begin
    <3>2. FirstStatement(i) \in {"scope", "admit", "identity", "row", "history"}
      BY InputKinds DEF FirstStatement, Keyed
    <3>3. Beside(r) /\ pc'[r] = FirstStatement(i)
      BY <2>1, <3>1 DEF Begin, Goto, Beside, TypeInv, TypeOK
    <3>4. QED
      BY <1>3, <3>2, <3>3
  <2>2. CASE Refuse(r)
    <3>1. Beside(r) /\ pc'[r] = "aborted"
      BY <2>2 DEF Refuse, Goto, Beside, TypeInv, TypeOK
    <3>2. QED
      BY <1>3, <3>1
  <2>3. QED
    BY <1>6, <2>1, <2>2
<1>7. ASSUME NEW r \in Request, pc[r] = "commit", Publish(r) PROVE BoundInv'
  <2>1. Beside(r) /\ pc'[r] = "committed"
    BY <1>7 DEF Publish, Goto, Beside, TypeInv, TypeOK
  <2>2. QED
    BY <1>3, <2>1
\* Statements after which the call refers to nothing yet.
<1>8. ASSUME NEW r \in Request, NEW where, Goto(r, where),
             where \notin {"evidence", "retain", "commit"},
             NEW w, written' = [written EXCEPT ![r] = w],
             NEW n, placed' = [placed EXCEPT ![r] = n], UNCHANGED input
      PROVE  BoundInv'
  <2>1. Beside(r) /\ pc'[r] = where
    BY <1>8 DEF Goto, Beside, TypeInv, TypeOK
  <2>2. QED
    BY <1>3, <1>8, <2>1
<1>9. \A r \in Request : placed = [placed EXCEPT ![r] = placed[r]]
  BY DEF TypeInv, TypeOK
<1>10. ASSUME NEW r \in Request,
              \/ LockScope(r) \/ Admit(r) \/ InsertIdentity(r) \/ InsertAlias(r)
              \/ LockGuard(r)
       PROVE  BoundInv'
  BY <1>1, <1>5, <1>8, <1>9, <1>10
     DEF LockScope, Admit, InsertIdentity, InsertAlias, LockGuard, Write
<1>11. ASSUME NEW r \in Request, LockRow(r) \/ Recheck(r) \/ ReadHead(r) PROVE BoundInv'
  BY <1>1, <1>5, <1>8, <1>9, <1>11 DEF LockRow, Recheck, ReadHead
<1>12. ASSUME NEW r \in Request, Lookup(r) PROVE BoundInv'
  <2>1. "resource_identity" \notin written[r] /\ Op(r) # "history"
    BY <1>12 DEF Lookup, RowsInv, RowsFit, TypeInv, PcFits, Keyed, Op
  <2>2. QED
    BY <1>1, <1>4, <1>5, <1>12, <2>1 DEF Lookup
<1>13. ASSUME NEW r \in Request, CheckUid(r) \/ CheckAlias(r) PROVE BoundInv'
  <2>1. Op(r) # "history"
    BY <1>13 DEF CheckUid, CheckAlias, TypeInv, PcFits
  <2>2. AfterAliases(r) # "guard" => input[r].parent = None
    BY DEF AfterAliases, AfterEdge
  <2>3. ASSUME NEW where, Goto(r, where), NEW w, written' = [written EXCEPT ![r] = w],
               UNCHANGED <<input, placed>>, where \in {"alias", AfterAliases(r)}
        PROVE  BoundInv'
    <3>1. where \in {"alias", "guard"} \/ input[r].parent = None
      BY <2>2, <2>3
    <3>2. QED
      BY <1>4, <2>1, <2>3, <3>1
  <2>4. QED
    BY <1>1, <1>5, <1>13, <2>3 DEF CheckUid, CheckAlias, Write
<1>14. ASSUME NEW r \in Request, InsertEdge(r) PROVE BoundInv'
  <2>1. Op(r) # "history"
    BY <1>14 DEF InsertEdge, TypeInv, PcFits
  <2>2. QED
    BY <1>4, <1>5, <1>14, <2>1 DEF InsertEdge, Write
<1>15. ASSUME NEW r \in Request, InsertEvidence(r) \/ Retain(r) PROVE BoundInv'
  <2>1. /\ Op(r) # "history" /\ "resource_identity" \in written[r]
        /\ pc[r] \in {"evidence", "retain"}
    BY <1>15 DEF InsertEvidence, Retain, TypeInv, PcFits, Keyed, Op, RowsInv, RowsFit, Ident
  <2>2. input[r].parent \in Systems \cup {None}
    BY <2>1 DEF BoundInv, Bound
  <2>3. QED
    BY <1>4, <1>5, <1>15, <2>1, <2>2 DEF InsertEvidence, Retain, Write
<1>16. ASSUME NEW r \in Request, WriteUpdate(r) PROVE BoundInv'
  <2>1. Op(r) # "history" /\ "resource_identity" \notin written[r] \cup UpdateRows
    BY <1>16 DEF WriteUpdate, TypeInv, PcFits, RowsInv, RowsFit, UpdateRows
  <2>2. QED
    BY <1>4, <1>16, <2>1 DEF WriteUpdate, Write
<1>17. ASSUME NEW r \in Request, InsertHistory(r) PROVE BoundInv'
  <2>1. "resource_identity" \notin written[r] \cup HistoryRows(input[r])
    BY <1>17 DEF InsertHistory, RowsInv, RowsFit, HistoryRows
  <2>2. QED
    BY <1>4, <1>5, <1>17, <2>1 DEF InsertHistory, Write
<1>18. ASSUME NEW r \in Request, Commit(r) \/ CommitLost(r) \/ BreakDeadlock(r) \/ Fail(r)
       PROVE  BoundInv'
  BY <1>5, <1>7, <1>18 DEF Commit, CommitLost, BreakDeadlock, Fail
<1>19. CASE (\E t \in 0 .. MaxClock : ReadClock(t)) \/ UNCHANGED vars
  <2>1. UNCHANGED <<pc, input, written>>
    BY <1>19 DEF ReadClock, vars
  <2>2. QED
    BY <2>1 DEF BoundInv, Bound, Op, Systems, Visible, Committed
<1>20. QED
  BY <1>6, <1>10, <1>11, <1>12, <1>13, <1>14, <1>15, <1>16, <1>17, <1>18, <1>19
     DEF Next, Progress

\* No call refers to anything yet.
LEMMA InitBound == Init => BoundInv
  BY DEF Init, BoundInv, Bound

-----------------------------------------------------------------------------
(* The refinement.                                                         *)

RefinementInv == Inv /\ RecordInv /\ IdentityInv /\ BoundInv

\* The accepted writes and the times of the recorded ones, as AtomicWrites
\* sees them.
Done == [r \in Request |-> DoneAs(r)]
Kept == [r \in Request |-> KeptAs(r)]

\* A committed call with rows is an accepted write, and only such a call.
LEMMA DoneWrites ==
    ASSUME Inv
    PROVE  /\ \A q \in Request : Done[q] # None <=> q \in Committed /\ written[q] # {}
           /\ \A q \in Request : Done[q] # None => Done[q] = input[q] /\ input[q] \in Inputs
           /\ Atomic!Exists = Systems
           /\ Visible("source_artifact") \subseteq Atomic!HasArtifact
<1>1. \A q \in Committed : input[q] \in Inputs /\ input[q] # None
  BY NoneAssumption DEF Inv, TypeInv, PcFits, Committed
<1>2. /\ \A q \in Request : Done[q] # None <=> q \in Committed /\ written[q] # {}
      /\ \A q \in Request : Done[q] # None => Done[q] = input[q] /\ input[q] \in Inputs
  BY <1>1 DEF Done, DoneAs, Committed
<1>3. Atomic!Written = {q \in Committed : written[q] # {}}
  BY <1>2 DEF Atomic!Written, Done, Committed
<1>4. \A q \in Committed : written[q] # {} =>
          /\ input[q].op \in {"create", "identity"} <=> "resource_identity" \in written[q]
          /\ "source_artifact" \in written[q] =>
                \/ input[q].op \in {"create", "update"}
                \/ input[q].op = "history" /\ input[q].artifact = None
  BY DEF Committed, Inv, RowsInv, RowsFit, Ident, UpdateRows, Op
<1>5. Atomic!Exists = Systems
  BY <1>2, <1>3, <1>4 DEF Atomic!Exists, Systems, Visible, Done, Committed
<1>6. Visible("source_artifact") \subseteq Atomic!HasArtifact
  BY <1>2, <1>3, <1>4 DEF Atomic!HasArtifact, Visible, Done, Committed
<1>7. QED
  BY <1>2, <1>5, <1>6

\* A quiet step is none of AtomicWrites.
LEMMA QuietIsAtomic ==
    ASSUME Inv, Quiet
    PROVE  UNCHANGED Atomic!vars
<1>1. ASSUME NEW q \in Request
      PROVE  DoneAs(q)' = DoneAs(q) /\ KeptAs(q)' = KeptAs(q)
  <2>1. pc'[q] = "committed" <=> pc[q] = "committed"
    BY DEF Quiet, Committed
  <2>2. pc[q] = "committed" => /\ input'[q] = input[q] /\ written'[q] = written[q]
                               /\ retained'[q] = retained[q]
    BY DEF Quiet, Committed
  <2>3. QED
    BY <2>1, <2>2 DEF DoneAs, KeptAs
<1>2. Done' = Done /\ Kept' = Kept
  BY <1>1 DEF Done, Kept
<1>3. QED
  BY <1>2 DEF Atomic!vars, Done, Kept, Quiet

\* What a commit does to the abstract state.
LEMMA PublishMaps ==
    ASSUME Inv, NEW r \in Request, pc[r] = "commit", Publish(r)
    PROVE  /\ Done[r] = None /\ Kept[r] = 0
           /\ written[r] = {} => UNCHANGED <<Done, Kept>>
           /\ written[r] # {} => Done' = [Done EXCEPT ![r] = input[r]]
           /\ "system_create_retry" \notin written[r] => Kept' = Kept
           /\ "system_create_retry" \in written[r] =>
                    Kept' = [Kept EXCEPT ![r] = retained[r]]
<1>1. /\ UNCHANGED <<input, written, retained>>
      /\ pc' = [pc EXCEPT ![r] = "committed"]
  BY DEF Publish, Goto
<1>2. \A q \in Request : /\ q # r => DoneAs(q)' = DoneAs(q) /\ KeptAs(q)' = KeptAs(q)
                         /\ DoneAs(r)' = IF written[r] = {} THEN None ELSE input[r]
                         /\ KeptAs(r)' = IF "system_create_retry" \in written[r]
                                         THEN retained[r] ELSE 0
                         /\ DoneAs(r) = None /\ KeptAs(r) = 0
  BY <1>1 DEF DoneAs, KeptAs, Inv, TypeInv, TypeOK
<1>3. QED
  BY <1>2 DEF Done, Kept

\* Committing a creation or a bare identity creates a System.
LEMMA CreateIsAtomic ==
    ASSUME RefinementInv, NEW r \in Request, pc[r] = "commit", Publish(r),
           written[r] # {}, Op(r) \in {"create", "identity"}
    PROVE  Atomic!Create(r, input[r])
<1> DEFINE i == input[r]
<1>1. /\ i \in Inputs /\ i.op \in {"create", "identity"}
      /\ Ident \subseteq written[r] /\ "resource_identity" \in written[r]
      /\ "system_write_head" \in written[r] <=> i.op = "create"
      /\ "system_create_retry" \in written[r] <=> Keyed(i)
  BY DEF RefinementInv, Inv, TypeInv, PcFits, Statement, RowsInv, RowsFit, Ident,
         CreateEvidence, UpdateRows, Keyed, Op
<1>2. DOMAIN i.aliases = 1 .. AliasesChecked(r) /\ UidChecked(r)
  BY <1>1, InputAliases DEF RefinementInv, IdentityInv, PlacedFits, AliasesChecked, UidChecked
<1>3. ASSUME NEW s \in Systems
      PROVE  /\ s \in Request /\ s # r /\ Done[s] = input[s] /\ UidChecked(s)
             /\ DOMAIN input[s].aliases = 1 .. AliasesChecked(s)
  <2>1. /\ s \in Committed /\ s \in Request /\ pc[s] = "committed"
        /\ "resource_identity" \in written[s]
    BY DEF Systems, Visible, Committed
  <2>2. input[s] \in Inputs /\ input[s].op \in {"create", "identity"}
    BY <2>1 DEF RefinementInv, Inv, TypeInv, PcFits, RowsInv, RowsFit, UpdateRows, Op
  <2>3. AliasesChecked(s) = Len(input[s].aliases)
    BY <2>1 DEF AliasesChecked, RefinementInv, IdentityInv, PlacedFits
  <2>4. Done[s] = input[s]
    BY <2>1, DoneWrites DEF RefinementInv
  <2>5. QED
    BY <2>1, <2>2, <2>3, <2>4, InputAliases DEF UidChecked
<1>4. Atomic!Exists = Systems
  BY DoneWrites DEF RefinementInv
<1>5. Atomic!Free(i)
  <2>1. ASSUME NEW s \in Systems
        PROVE  input[s].uid # i.uid
               /\ Atomic!AliasesOf(input[s]) \cap Atomic!AliasesOf(i) = {}
    <3>1. input[s].uid # i.uid
      BY <1>2, <1>3 DEF RefinementInv, IdentityInv
    <3>2. ASSUME NEW m \in DOMAIN input[s].aliases, NEW n \in DOMAIN i.aliases
          PROVE  input[s].aliases[m] # i.aliases[n]
      <4>1. /\ m \in 1 .. AliasesChecked(s) /\ n \in 1 .. AliasesChecked(r)
            /\ s \in Request /\ <<s, m>> # <<r, n>>
        BY <1>2, <1>3, <3>2
      <4>2. QED
        BY <4>1 DEF RefinementInv, IdentityInv
    <3>3. QED
      BY <3>1, <3>2 DEF Atomic!AliasesOf
  <2>2. \A m, n \in DOMAIN i.aliases : i.aliases[m] = i.aliases[n] => m = n
    BY <1>2 DEF RefinementInv, IdentityInv
  <2>3. \A s \in Atomic!Exists : /\ Done[s].uid # i.uid
                                 /\ Atomic!AliasesOf(Done[s]) \cap Atomic!AliasesOf(i) = {}
    BY <1>3, <1>4, <2>1
  <2>4. QED
    BY <2>2, <2>3 DEF Atomic!Free, Done
<1>6. i.parent \in Atomic!Exists \cup {None}
  BY <1>1, <1>4 DEF RefinementInv, BoundInv, Bound
<1>7. /\ label' = [label EXCEPT ![r] = r]
      /\ head' = IF i.op = "create" THEN [head EXCEPT ![r] = r] ELSE head
      /\ receipt' = IF Keyed(i) THEN [receipt EXCEPT ![Scope(r)] = r] ELSE receipt
  BY <1>1 DEF Publish, Target, Op, Ident
<1>8. Atomic!Record(r, i)
  <2>1. CASE ~Keyed(i)
    <3>1. UNCHANGED <<receipt, Kept>>
      BY <1>1, <1>7, <2>1, PublishMaps DEF RefinementInv
    <3>2. QED
      BY <2>1, <3>1 DEF Atomic!Record, Keyed, Kept
  <2>2. CASE Keyed(i)
    <3> DEFINE old == receipt[Scope(r)]
    <3>1. Kept' = [Kept EXCEPT ![r] = retained[r]] /\ retained[r] \in Nat
      BY <1>1, <2>2, PublishMaps, ReceiptTypes DEF RefinementInv
    <3>2. Kept'[r] = retained[r] /\ Kept' = [Kept EXCEPT ![r] = Kept'[r]]
      BY <3>1 DEF Kept
    <3>3. old # None => Kept[old] + Done[old].retention <= retained[r]
      <4> SUFFICES ASSUME old # None
                   PROVE  Kept[old] + Done[old].retention <= retained[r]
        OBVIOUS
      <4>1. Expires(old) <= retained[r]
        BY <1>1, <2>2 DEF RefinementInv, RecordInv, Pending
      <4>2. Scope(r) \in Scopes
        BY <1>1, <2>2, ReceiptTypes DEF RefinementInv
      <4>3. old \in Committed /\ "system_create_retry" \in written[old]
        BY <4>2 DEF RefinementInv, Inv, HeadInv, Visible
      <4>4. Done[old] = input[old] /\ Kept[old] = retained[old]
        BY <4>3, DoneWrites DEF RefinementInv, Kept, KeptAs, Committed
      <4>5. QED
        BY <4>1, <4>4 DEF Expires
    <3>4. receipt' = [receipt EXCEPT ![Scope(r)] = r]
      BY <1>7, <2>2
    <3>5. QED
      BY <2>2, <3>1, <3>2, <3>3, <3>4 DEF Atomic!Record, Keyed, Kept, Done, Scope
  <2>3. QED
    BY <2>1, <2>2
<1>9. QED
  BY <1>1, <1>5, <1>6, <1>7, <1>8 DEF Atomic!Create

\* Committing an update moves the head its condition allows it to move.
LEMMA UpdateIsAtomic ==
    ASSUME RefinementInv, NEW r \in Request, pc[r] = "commit", Publish(r),
           written[r] # {}, Op(r) = "update"
    PROVE  Atomic!Update(r, input[r])
<1>1. /\ written[r] = UpdateRows /\ Target(r) = input[r].target
      /\ input[r].op = "update"
  BY DEF RefinementInv, Inv, TypeInv, PcFits, RowsInv, RowsFit, Op, Target, Keyed
<1>2. /\ seen[r] = head[input[r].target] /\ seen[r] # None
      /\ CheckRevision(input[r].expected, seen[r])
  BY DEF RefinementInv, Inv, LockInv, LockFits, Locks
<1>3. /\ label' = [label EXCEPT ![input[r].target] = r]
      /\ head' = [head EXCEPT ![input[r].target] = r]
      /\ receipt' = receipt
  BY <1>1 DEF Publish, UpdateRows
<1>4. Kept' = Kept
  BY <1>1, PublishMaps DEF RefinementInv, UpdateRows
<1>5. QED
  BY <1>1, <1>2, <1>3, <1>4 DEF Atomic!Update, CheckRevision, Kept

\* Committing history adds a revision to a System that exists.
LEMMA HistoryIsAtomic ==
    ASSUME RefinementInv, NEW r \in Request, pc[r] = "commit", Publish(r),
           written[r] # {}, Op(r) = "history"
    PROVE  Atomic!AppendHistory(r, input[r])
<1>1. /\ written[r] \subseteq {"source_artifact", "system_revision"}
      /\ input[r].op = "history"
  BY DEF RefinementInv, Inv, TypeInv, PcFits, RowsInv, RowsFit, Op
<1>2. UNCHANGED <<label, head, receipt>> /\ Kept' = Kept
  BY <1>1, PublishMaps DEF Publish, RefinementInv
<1>3. /\ input[r].target \in Atomic!Exists \cup {None}
      /\ input[r].artifact \in Atomic!HasArtifact \cup {None}
  BY DoneWrites DEF RefinementInv, BoundInv, Bound
<1>4. QED
  BY <1>1, <1>2, <1>3 DEF Atomic!AppendHistory, Kept

\* A commit is one step of AtomicWrites, or none if the call replayed a receipt.
LEMMA PublishIsAtomic ==
    ASSUME RefinementInv, NEW r \in Request, pc[r] = "commit", Publish(r)
    PROVE  Atomic!Next \/ UNCHANGED Atomic!vars
<1>1. CASE written[r] = {}
  BY <1>1, PublishMaps DEF Publish, RefinementInv, Atomic!vars, Done, Kept
<1>2. CASE written[r] # {}
  <2>1. input[r] \in Inputs /\ input[r].op \in {"create", "identity", "update", "history"}
    BY InputKinds DEF RefinementInv, Inv, TypeInv, PcFits, Statement
  <2>2. \/ Atomic!Create(r, input[r]) \/ Atomic!Update(r, input[r])
        \/ Atomic!AppendHistory(r, input[r])
    BY <1>2, <2>1, CreateIsAtomic, UpdateIsAtomic, HistoryIsAtomic DEF Op
  <2>3. Done[r] = None /\ Done' = [Done EXCEPT ![r] = input[r]]
    BY <1>2, PublishMaps DEF RefinementInv
  <2>4. QED
    BY <2>1, <2>2, <2>3 DEF Atomic!Next, Done
<1>3. QED
  BY <1>1, <1>2

\* docs/atomic-write.md, docs/conditional-writes.md and docs/write-retries.md:
\* the interleaved transactions of application.rs, with their locks, failures
\* and lost answers, have the effect of atomic writes in the order of commits.
THEOREM Refinement == Spec => WritesAreAtomic
<1>1. Init => Atomic!Init
  <2> SUFFICES ASSUME Init PROVE Atomic!Init
    OBVIOUS
  <2>1. \A q \in Request : DoneAs(q) = None /\ KeptAs(q) = 0
    BY DEF Init, DoneAs, KeptAs
  <2>2. QED
    BY <2>1 DEF Init, Atomic!Init
<1>2. RefinementInv /\ [Next]_vars => [Atomic!Next]_(Atomic!vars)
  <2>1. ASSUME RefinementInv, [Next]_vars PROVE Atomic!Next \/ UNCHANGED Atomic!vars
    BY <2>1, StepKinds, QuietIsAtomic, PublishIsAtomic DEF RefinementInv, Inv
  <2>2. QED
    BY <2>1
<1>3. Spec => []RefinementInv
  <2>1. Init => RecordInv /\ IdentityInv /\ BoundInv
    BY InitRecords, InitIdentity, InitBound
  <2>2. QED
    BY <2>1, InitInv, NextInv, NextRecords, NextIdentity, NextBound,
       PTL DEF Spec, RefinementInv, Inv
<1>4. QED
  BY <1>1, <1>2, <1>3, PTL DEF Spec, WritesAreAtomic, Atomic!Spec

-----------------------------------------------------------------------------
(* Answers.                                                                *)

\* r found a live receipt for its scope and intent and wrote nothing.
Replays(r) == pc[r] \in {"commit", "committed"} /\ written[r] = {}

\* What a caller was told, and what a replay is about to tell.
AnswerFits(r) ==
    /\ Replays(r) => /\ seen[r] \in Visible("system_create_retry")
                     /\ Scope(seen[r]) = Scope(r) /\ Digest(seen[r]) = Digest(r)
    /\ pc[r] = "committed" =>
            answer[r] \in {"unavailable", IF written[r] = {} THEN seen[r] ELSE r}
    /\ pc[r] = "aborted" => answer[r] \in Refusal
    /\ pc[r] \notin {"committed", "aborted"} => answer[r] = None

AnswerInv == \A r \in Request : AnswerFits(r)

\* A step of r leaves the answers of the other calls and what they rest on.
LEMMA AnswerStep ==
    ASSUME TypeInv, AnswerInv, [Next]_vars, NEW r \in Request, Beside(r),
           \A q \in Request \ {r} : seen'[q] = seen[q] /\ answer'[q] = answer[q],
           AnswerFits(r)'
    PROVE  AnswerInv'
<1>1. Visible("system_create_retry") \subseteq Visible("system_create_retry")'
  BY RowsStay
<1>2. \A q \in Committed : input'[q] = input[q]
  BY StepKinds DEF Quiet, Publish
<1>3. ASSUME NEW q \in Request \ {r} PROVE AnswerFits(q)'
  <2>1. ASSUME Replays(q)'
        PROVE  /\ seen'[q] \in Visible("system_create_retry")'
               /\ Scope(seen[q])' = Scope(q)' /\ Digest(seen[q])' = Digest(q)'
    <3>1. Replays(q) /\ AnswerFits(q)
      BY <2>1 DEF Replays, Beside, AnswerInv
    <3>2. seen[q] \in Visible("system_create_retry") /\ seen[q] \in Committed
      BY <3>1 DEF AnswerFits, Visible
    <3>3. input'[seen[q]] = input[seen[q]] /\ input'[q] = input[q] /\ seen'[q] = seen[q]
      BY <1>2, <3>2 DEF Beside
    <3>4. Scope(seen[q]) = Scope(q) /\ Digest(seen[q]) = Digest(q)
      BY <3>1 DEF AnswerFits
    <3>5. /\ Scope(seen[q])' = Scope(seen[q]) /\ Scope(q)' = Scope(q)
          /\ Digest(seen[q])' = Digest(seen[q]) /\ Digest(q)' = Digest(q)
      BY <3>3 DEF Scope, Digest
    <3>6. QED
      BY <1>1, <3>2, <3>3, <3>4, <3>5
  <2>2. QED
    BY <2>1 DEF Beside, AnswerInv, AnswerFits
<1>4. QED
  BY <1>3 DEF AnswerInv

\* Every step keeps the answers true.
LEMMA NextAnswers == Inv /\ AnswerInv /\ [Next]_vars => AnswerInv'
<1> SUFFICES ASSUME Inv, AnswerInv, [Next]_vars PROVE AnswerInv'
  OBVIOUS
<1>1. TypeInv /\ RowsInv
  BY DEF Inv
<1>2. \A r \in Request : /\ written = [written EXCEPT ![r] = written[r]]
                         /\ seen = [seen EXCEPT ![r] = seen[r]]
  BY <1>1 DEF TypeInv, TypeOK
\* A statement of r that does not answer and does not leave it with nothing to commit.
<1>3. ASSUME NEW r \in Request, pc[r] \notin {"committed", "aborted"}, Beside(r),
             pc'[r] \notin {"committed", "aborted"}, pc'[r] = "commit" => written'[r] # {},
             \A q \in Request \ {r} : seen'[q] = seen[q], UNCHANGED answer
      PROVE  AnswerInv'
  <2>1. answer[r] = None
    BY <1>3 DEF AnswerInv, AnswerFits
  <2>2. AnswerFits(r)'
    BY <1>3, <2>1 DEF AnswerFits, Replays
  <2>3. QED
    BY <1>3, <1>1, <2>2, AnswerStep
<1>4. ASSUME NEW r \in Request, pc[r] \notin {"committed", "aborted"},
             NEW where, Goto(r, where), where \notin {"committed", "aborted"},
             NEW w, written' = [written EXCEPT ![r] = w], where = "commit" => w # {},
             NEW v, seen' = [seen EXCEPT ![r] = v], UNCHANGED <<input, placed, answer>>
      PROVE  AnswerInv'
  <2>1. /\ Beside(r) /\ pc'[r] = where /\ written'[r] = w
        /\ \A q \in Request \ {r} : seen'[q] = seen[q]
    BY <1>1, <1>4 DEF Goto, Beside, TypeInv, TypeOK
  <2>2. QED
    BY <1>3, <1>4, <2>1
<1>5. ASSUME NEW r \in Request, NEW why \in Refusal, Abort(r, why) PROVE AnswerInv'
  <2>1. /\ Beside(r) /\ pc'[r] = "aborted" /\ answer'[r] = why
        /\ \A q \in Request \ {r} : seen'[q] = seen[q] /\ answer'[q] = answer[q]
    BY <1>1, <1>5 DEF Abort, Goto, Beside, TypeInv, TypeOK
  <2>2. AnswerFits(r)'
    BY <2>1 DEF AnswerFits, Replays
  <2>3. QED
    BY <1>1, <2>1, <2>2, AnswerStep
<1>6. {"unavailable", "denied", "conflict", "association", "not_found", "uninitialized",
       "precondition", "invalid"} \subseteq Refusal
  BY DEF Refusal
<1>7. ASSUME NEW r \in Request, Begin(r) PROVE AnswerInv'
  <2>1. PICK i \in Inputs : /\ input' = [input EXCEPT ![r] = i]
                            /\ Goto(r, FirstStatement(i))
    BY <1>7 DEF Begin
  <2>2. FirstStatement(i) \in {"scope", "admit", "identity", "row", "history"}
    BY InputKinds DEF FirstStatement, Keyed
  <2>3. /\ pc[r] = "idle" /\ pc'[r] = FirstStatement(i) /\ Beside(r)
        /\ UNCHANGED <<seen, answer>>
    BY <1>1, <1>7, <2>1 DEF Begin, Goto, Beside, TypeInv, TypeOK
  <2>4. QED
    BY <1>3, <2>2, <2>3
<1>8. ASSUME NEW r \in Request, Refuse(r) PROVE AnswerInv'
  <2>1. /\ Beside(r) /\ pc'[r] = "aborted" /\ answer'[r] \in Refusal
        /\ \A q \in Request \ {r} : seen'[q] = seen[q] /\ answer'[q] = answer[q]
    BY <1>1, <1>6, <1>8 DEF Refuse, Goto, Beside, TypeInv, TypeOK
  <2>2. AnswerFits(r)'
    BY <2>1 DEF AnswerFits, Replays
  <2>3. QED
    BY <1>1, <2>1, <2>2, AnswerStep
<1>9. ASSUME NEW r \in Request, pc[r] = "commit", Publish(r),
             NEW a, answer' = [answer EXCEPT ![r] = a],
             a \in {"unavailable", IF written[r] = {} THEN seen[r] ELSE r}
      PROVE  AnswerInv'
  <2>1. /\ Beside(r) /\ pc'[r] = "committed" /\ answer'[r] = a
        /\ UNCHANGED <<input, written, seen>>
        /\ \A q \in Request \ {r} : answer'[q] = answer[q]
    BY <1>1, <1>9 DEF Publish, Goto, Beside, TypeInv, TypeOK
  <2>2. Visible("system_create_retry") \subseteq Visible("system_create_retry")'
    BY <1>1, RowsStay
  <2>3. /\ Scope(seen[r])' = Scope(seen[r]) /\ Scope(r)' = Scope(r)
        /\ Digest(seen[r])' = Digest(seen[r]) /\ Digest(r)' = Digest(r)
    BY <2>1 DEF Scope, Digest
  <2>4. Replays(r)' => /\ seen'[r] \in Visible("system_create_retry")'
                       /\ Scope(seen[r])' = Scope(r)' /\ Digest(seen[r])' = Digest(r)'
    BY <1>9, <2>1, <2>2, <2>3 DEF AnswerInv, AnswerFits, Replays
  <2>5. AnswerFits(r)'
    BY <1>9, <2>1, <2>4 DEF AnswerFits
  <2>6. QED
    BY <1>1, <2>1, <2>5, AnswerStep
<1>10. ASSUME NEW r \in Request, Lookup(r) PROVE AnswerInv'
  <2>0. PICK q : q = receipt[Scope(r)]
    OBVIOUS
  <2>1. CASE Abort(r, "denied") \/ Abort(r, "conflict")
    BY <1>5, <1>6, <2>1
  <2>2. CASE Goto(r, "admit") /\ UNCHANGED <<input, written, placed, seen, answer>>
    BY <1>2, <1>4, <1>10, <2>2 DEF Lookup
  <2>3. CASE /\ Live(q) /\ Digest(q) = Digest(r) /\ Goto(r, "commit")
             /\ seen' = [seen EXCEPT ![r] = q]
             /\ UNCHANGED <<input, written, placed, answer>>
    <3>1. Scope(r) \in Scopes
      BY <1>1, <1>10, InputKinds DEF Lookup, TypeInv, PcFits, Keyed, Scope, Scopes, Statement
    <3>2. q \in Visible("system_create_retry") /\ Scope(q) = Scope(r)
      BY <2>0, <2>3, <3>1 DEF Live, Inv, HeadInv
    <3>3. Visible("system_create_retry") \subseteq Visible("system_create_retry")'
      BY <1>1, RowsStay
    <3>4. /\ Beside(r) /\ pc'[r] = "commit" /\ seen'[r] = q
          /\ \A p \in Request \ {r} : seen'[p] = seen[p]
      BY <1>1, <2>3 DEF Goto, Beside, TypeInv, TypeOK
    <3>5. answer[r] = None
      BY <1>10 DEF Lookup, AnswerInv, AnswerFits
    <3>6. Scope(seen[r])' = Scope(r)' /\ Digest(seen[r])' = Digest(r)'
      <4>1. /\ Scope(q)' = Scope(q) /\ Scope(r)' = Scope(r)
            /\ Digest(q)' = Digest(q) /\ Digest(r)' = Digest(r)
        BY <2>3 DEF Scope, Digest
      <4> QED
        BY <2>3, <3>2, <3>4, <4>1
    <3>7. AnswerFits(r)'
      BY <2>3, <3>2, <3>3, <3>4, <3>5, <3>6 DEF AnswerFits
    <3>8. QED
      BY <1>1, <2>3, <3>4, <3>7, AnswerStep
  <2>4. QED
    BY <1>10, <2>0, <2>1, <2>2, <2>3 DEF Lookup
<1>11. ASSUME NEW r \in Request, LockScope(r) \/ Admit(r) \/ LockGuard(r) PROVE AnswerInv'
  <2>1. ASSUME NEW where \in {"lookup", "identity", "edge"}, Goto(r, where),
               UNCHANGED <<input, written, placed, seen, answer>>
        PROVE  AnswerInv'
    BY <1>2, <1>4, <1>11, <2>1 DEF LockScope, Admit, LockGuard
  <2>2. QED
    BY <1>5, <1>6, <1>11, <2>1 DEF LockScope, Admit, LockGuard
<1>12. ASSUME NEW r \in Request, LockRow(r) \/ Recheck(r) \/ ReadHead(r) PROVE AnswerInv'
  <2>1. ASSUME NEW where \in {"recheck", "head", "write"}, Goto(r, where),
               NEW v, seen' = [seen EXCEPT ![r] = v],
               UNCHANGED <<input, written, placed, answer>>
        PROVE  AnswerInv'
    BY <1>2, <1>4, <1>12, <2>1 DEF LockRow, Recheck, ReadHead
  <2>2. QED
    BY <1>2, <1>5, <1>6, <1>12, <2>1 DEF LockRow, Recheck, ReadHead
<1>13. ASSUME NEW r \in Request, InsertIdentity(r) \/ InsertAlias(r) PROVE AnswerInv'
  <2>1. /\ Beside(r) /\ pc[r] \in {"identity", "alias"} /\ pc'[r] \in {"uid", "pair"}
        /\ UNCHANGED <<seen, answer>>
    BY <1>1, <1>13 DEF InsertIdentity, InsertAlias, Write, Goto, Beside, TypeInv, TypeOK
  <2>2. QED
    BY <1>3, <2>1
<1>14. ASSUME NEW r \in Request, CheckUid(r) \/ CheckAlias(r) PROVE AnswerInv'
  <2>1. pc[r] \in {"uid", "pair"} /\ written[r] # {}
    BY <1>1, <1>14 DEF CheckUid, CheckAlias, RowsInv, RowsFit, Ident
  <2>2. \A where \in {"alias", AfterAliases(r)} : where \notin {"committed", "aborted"}
    BY DEF AfterAliases, AfterEdge
  <2>3. ASSUME NEW where \in {"alias", AfterAliases(r)}, Goto(r, where),
               NEW w, written' = [written EXCEPT ![r] = w], w # {},
               UNCHANGED <<input, placed, seen, answer>>
        PROVE  AnswerInv'
    BY <1>2, <1>4, <2>1, <2>2, <2>3
  <2>4. written[r] \cup {"system_identity"} # {}
    OBVIOUS
  <2>5. QED
    BY <1>2, <1>5, <1>6, <1>14, <2>1, <2>3, <2>4 DEF CheckUid, CheckAlias, Write
<1>15. ASSUME NEW r \in Request, InsertEdge(r) PROVE AnswerInv'
  <2>1. written[r] \cup {"system_parent"} # {}
    OBVIOUS
  <2>2. QED
    BY <1>2, <1>4, <1>5, <1>6, <1>15, <2>1 DEF InsertEdge, Write, AfterEdge
<1>16. ASSUME NEW r \in Request, InsertEvidence(r) \/ Retain(r) \/ WriteUpdate(r)
       PROVE  AnswerInv'
  <2>1. /\ written[r] \cup CreateEvidence # {} /\ written[r] \cup UpdateRows # {}
        /\ written[r] \cup {"system_create_retry"} # {}
    BY DEF CreateEvidence, UpdateRows
  <2>2. QED
    BY <1>2, <1>4, <1>5, <1>6, <1>16, <2>1 DEF InsertEvidence, Retain, WriteUpdate, Write
<1>17. ASSUME NEW r \in Request, InsertHistory(r) PROVE AnswerInv'
  <2>1. input[r] \in Inputs /\ input[r].op = "history"
    BY <1>1, <1>17 DEF InsertHistory, TypeInv, PcFits, Statement, Op
  <2>2. written[r] \cup HistoryRows(input[r]) # {}
    BY <2>1, HistoryRowKinds
  <2>3. QED
    BY <1>2, <1>4, <1>5, <1>6, <1>17, <2>2 DEF InsertHistory, Write
<1>18. ASSUME NEW r \in Request, Commit(r) \/ CommitLost(r) \/ BreakDeadlock(r) \/ Fail(r)
       PROVE  AnswerInv'
  BY <1>5, <1>6, <1>9, <1>18 DEF Commit, CommitLost, BreakDeadlock, Fail
<1>19. CASE (\E t \in 0 .. MaxClock : ReadClock(t)) \/ UNCHANGED vars
  <2>1. UNCHANGED <<pc, input, written, seen, answer>>
    BY <1>19 DEF ReadClock, vars
  <2>2. /\ Visible("system_create_retry")' = Visible("system_create_retry")
        /\ \A q : Scope(q)' = Scope(q) /\ Digest(q)' = Digest(q)
    BY <2>1 DEF Visible, Committed, Scope, Digest
  <2>3. \A q : Scope(seen[q])' = Scope(seen[q]) /\ Digest(seen[q])' = Digest(seen[q])
    BY <2>1 DEF Scope, Digest
  <2>4. QED
    BY <2>1, <2>2, <2>3 DEF AnswerInv, AnswerFits, Replays
<1>20. QED
  BY <1>7, <1>8, <1>10, <1>11, <1>12, <1>13, <1>14, <1>15, <1>16, <1>17, <1>18, <1>19
     DEF Next, Progress

\* docs/write-retries.md: a caller that holds a receipt holds it for a committed
\* write with all its evidence, on replay the one recorded for its own scope and
\* intent; a call refused for a known reason left nothing behind.
THEOREM AnswersHold == Spec => []AnswersAreTrue
<1>1. Inv /\ IdentityInv /\ AnswerInv => AnswersAreTrue
  <2> SUFFICES ASSUME Inv, IdentityInv, AnswerInv, NEW r \in Request
               PROVE  /\ answer[r] \in Request =>
                            /\ {r, answer[r]} \subseteq Committed
                            /\ Op(r) \in {"create", "update"} => answer[r] \in Accepted
                            /\ answer[r] # r =>
                                  /\ Scope(answer[r]) = Scope(r)
                                  /\ Digest(answer[r]) = Digest(r)
                      /\ answer[r] \in Refusal \ {"unavailable"} =>
                            pc[r] = "aborted" /\ written[r] = {} /\ placed[r] = 0
    BY DEF AnswersAreTrue
  <2>1. AnswerFits(r) /\ RowsFit(r) /\ PlacedFits(r)
    BY DEF AnswerInv, Inv, RowsInv, IdentityInv
  <2>2. None \notin Request /\ None \notin Refusal /\ Request \cap Refusal = {}
        /\ "unavailable" \in Refusal
    BY NoneAssumption, RefusalAssumption DEF Refusal
  <2>3. seen[r] \in Request \cup {None}
    BY DEF Inv, TypeInv, TypeOK
  <2>4. \A q \in Committed : "system_create_retry" \in written[q]
                                => "system_write_head" \in written[q]
    BY DEF Inv, RowsInv, RowsFit, Committed, CreateEvidence, UpdateRows, Ident
  <2>5. ASSUME answer[r] \in Request
        PROVE  /\ {r, answer[r]} \subseteq Committed
               /\ Op(r) \in {"create", "update"} => answer[r] \in Accepted
               /\ answer[r] # r => /\ Scope(answer[r]) = Scope(r)
                                   /\ Digest(answer[r]) = Digest(r)
    <3>1. /\ pc[r] = "committed" /\ r \in Committed
          /\ answer[r] = IF written[r] = {} THEN seen[r] ELSE r
      BY <2>1, <2>2, <2>5 DEF AnswerFits, Committed
    <3>2. CASE written[r] = {}
      <4>1. /\ answer[r] \in Visible("system_create_retry")
            /\ Scope(answer[r]) = Scope(r) /\ Digest(answer[r]) = Digest(r)
        BY <2>1, <3>1, <3>2 DEF AnswerFits, Replays
      <4>2. answer[r] \in Committed /\ answer[r] \in Accepted
        BY <2>4, <4>1 DEF Visible, Accepted
      <4>3. QED
        BY <3>1, <4>1, <4>2
    <3>3. CASE written[r] # {}
      <4>1. Op(r) \in {"create", "update"} => "system_write_head" \in written[r]
        BY <2>1, <3>1, <3>3 DEF RowsFit, CreateEvidence, UpdateRows
      <4>2. QED
        BY <3>1, <3>3, <4>1 DEF Accepted, Visible
    <3>4. QED
      BY <3>2, <3>3
  <2>6. ASSUME answer[r] \in Refusal \ {"unavailable"}
        PROVE  pc[r] = "aborted" /\ written[r] = {} /\ placed[r] = 0
    BY <2>1, <2>2, <2>3, <2>6 DEF AnswerFits, RowsFit, PlacedFits
  <2>7. QED
    BY <2>5, <2>6
<1>2. Init => AnswerInv
  BY DEF Init, AnswerInv, AnswerFits, Replays
<1>3. QED
  BY <1>1, <1>2, InitInv, NextInv, InitIdentity, NextIdentity, NextAnswers,
     PTL DEF Spec, Inv

-----------------------------------------------------------------------------
(* Waits.                                                                  *)

\* A transaction that waits for a row, the guard or a receipt waits for one that
\* waits for nobody, or for a writer of an edge that waits for one that waits for
\* nobody; and one that waits for a scope, a System's row or a history target
\* holds nothing.
LEMMA WaitKinds ==
    ASSUME Inv, IdentityInv, NEW r \in Request, Open(r)
    PROVE  /\ pc[r] \in {"lookup", "admit", "identity", "alias", "evidence", "recheck",
                         "head", "write", "commit"} => Blockers(r) = {}
           /\ pc[r] \in {"edge", "retain"} => \A q \in Blockers(r) : Blockers(q) = {}
           /\ pc[r] = "guard" =>
                \A q \in Blockers(r) : pc[q] = "edge" \/ pc[q] = "retain" \/ Blockers(q) = {}
           /\ pc[r] \in {"scope", "row", "history"} =>
                \A q \in Request : Open(q) => r \notin Blockers(q)
<1> USE DEF Inv, TypeInv, RowsInv, IdentityInv
<1>1. ASSUME NEW q \in Request,
             pc[q] \in {"lookup", "admit", "identity", "alias", "evidence", "recheck",
                        "head", "write", "commit"}
      PROVE  Blockers(q) = {}
  BY <1>1 DEF Blockers
<1>2. ASSUME NEW q \in Request, NEW s, HoldsRow(q, s) PROVE Blockers(q) = {}
  <2>1. pc[q] \in {"recheck", "head", "write", "commit"}
    BY <1>2 DEF HoldsRow, Open, Statement, PcFits, Keyed, Op
  <2>2. QED
    BY <1>1, <2>1
<1>3. ASSUME pc[r] = "edge", NEW q \in Blockers(r) PROVE Blockers(q) = {}
  BY <1>2, <1>3 DEF Blockers
<1>4. ASSUME pc[r] = "retain", NEW q \in Blockers(r) PROVE Blockers(q) = {}
  <2>1. q \in Request /\ Open(q) /\ "system_create_retry" \in written[q]
    BY <1>4 DEF Blockers
  <2>2. pc[q] = "commit"
    BY <2>1 DEF Open, Statement, RowsFit, Ident
  <2>3. QED
    BY <1>1, <2>1, <2>2
<1>5. ASSUME pc[r] = "guard", NEW q \in Blockers(r)
      PROVE  pc[q] = "edge" \/ pc[q] = "retain" \/ Blockers(q) = {}
  <2>1. q \in Request /\ HoldsGuard(q)
    BY <1>5 DEF Blockers
  <2>2. pc[q] \in {"edge", "evidence", "retain", "commit"}
    BY <2>1 DEF HoldsGuard, Open, Statement, RowsFit, Ident
  <2>3. QED
    BY <1>1, <2>1, <2>2
<1>6. ASSUME pc[r] \in {"scope", "row", "history"}, NEW q \in Request, Open(q)
      PROVE  r \notin Blockers(q)
  <2>1. written[r] = {} /\ placed[r] = 0
    BY <1>6 DEF RowsFit, PlacedFits, Early
  <2>2. ~HoldsGuard(r) /\ r \notin UidOwners(q)
    BY <1>6, <2>1 DEF HoldsGuard, UidOwners
  <2>3. \A s : ~HoldsRow(r, s) /\ ~HoldsShare(r, s)
    BY <1>6, <2>1 DEF HoldsRow, HoldsShare, PcFits, Keyed, Op
  <2>4. \A s : ~HoldsScope(r, s)
    BY <1>6 DEF HoldsScope, PcFits, Keyed, Op
  <2>5. r \notin AliasOwners(q)
    BY <2>1 DEF AliasOwners
  <2>6. QED
    BY <2>1, <2>2, <2>3, <2>4, <2>5 DEF Blockers
<1>7. QED
  BY <1>1, <1>3, <1>4, <1>5, <1>6

\* application.rs:196, "Acquire before any resource/parent lock": no call ends up
\* in a cycle of waits unless it waits for an identity that another creation is
\* claiming, whatever calls run at once.
THEOREM WaitsAreOrdered == Spec => []OnlyIdentitiesDeadlock
<1>1. Inv /\ IdentityInv => OnlyIdentitiesDeadlock
  <2> SUFFICES ASSUME Inv, IdentityInv, NEW r \in Request, Open(r), Deadlocked(r),
                      pc[r] \notin {"uid", "pair"}
               PROVE  FALSE
    BY DEF OnlyIdentitiesDeadlock
  <2>1. PICK C \in SUBSET Request :
            /\ r \in C
            /\ \A q \in C : Open(q) /\ Blockers(q) \cap C # {}
            /\ \A q \in C : \E p \in C : q \in Blockers(p)
    BY DEF Deadlocked
  <2>2. \A q \in C : Open(q) /\ q \in Request /\ Blockers(q) # {}
    BY <2>1
  <2>3. \A q \in C : pc[q] \notin {"edge", "retain"}
    <3> SUFFICES ASSUME NEW q \in C, pc[q] \in {"edge", "retain"} PROVE FALSE
      OBVIOUS
    <3>1. PICK p \in Blockers(q) : p \in C
      BY <2>1
    <3>2. Blockers(p) = {}
      BY <2>2, <3>1, WaitKinds
    <3>3. QED
      BY <2>2, <3>1, <3>2
  <2>4. CASE pc[r] = "guard"
    <3>1. PICK p \in Blockers(r) : p \in C
      BY <2>1
    <3>2. pc[p] = "edge" \/ pc[p] = "retain" \/ Blockers(p) = {}
      BY <2>1, <2>2, <2>4, <3>1, WaitKinds
    <3>3. QED
      BY <2>2, <2>3, <3>1, <3>2
  <2>5. CASE pc[r] \in {"scope", "row", "history"}
    <3>1. PICK p \in C : r \in Blockers(p)
      BY <2>1
    <3>2. QED
      BY <2>2, <2>5, <3>1, WaitKinds
  <2>6. CASE pc[r] \in {"lookup", "admit", "identity", "alias", "evidence", "recheck",
                        "head", "write", "commit"}
    BY <2>1, <2>2, <2>6, WaitKinds
  <2>7. QED
    BY <2>1, <2>3, <2>4, <2>5, <2>6 DEF Open, Statement
<1>2. QED
  BY <1>1, InitIdentity, NextIdentity, Invariance, PTL DEF Spec, Inv

-----------------------------------------------------------------------------
(* Retries.                                                                *)

\* r holds the advisory lock of its scope.
Holder(r) == Open(r) /\ pc[r] # "scope" /\ Keyed(input[r])

\* r has found no live receipt in its scope and not stored its own.
PastLookup(r) ==
    /\ Keyed(input[r])
    /\ pc[r] \in {"admit", "identity", "uid", "alias", "pair", "guard", "edge",
                  "evidence", "retain"}

\* Every receipt recorded for the scope of r has expired.
Spent(r) ==
    \A q \in Visible("system_create_retry") : Scope(q) = Scope(r) => Expires(q) <= now

\* A scope has one holder; unless the clock was set back, nothing was recorded
\* in the future and a creation that is past its lookup finds its scope spent.
RetryInv ==
    /\ \A r, q \in Request : r # q /\ Holder(r) /\ Holder(q) => Scope(r) # Scope(q)
    /\ slipped \in BOOLEAN
    /\ slipped = FALSE =>
        \A r \in Request : retained[r] <= now /\ (PastLookup(r) => Spent(r))

\* What a step can do to a call.
LEMMA CallSteps ==
    ASSUME TypeInv, [Next]_vars, NEW r \in Request
    PROVE  \/ pc'[r] = pc[r] /\ input'[r] = input[r]
           \/ pc'[r] \in {"aborted", "committed"}
           \/ pc'[r] = "scope" \/ ~Keyed(input'[r])
           \/ LockScope(r) /\ input'[r] = input[r]
           \/ Lookup(r) /\ input'[r] = input[r]
           \/ Open(r) /\ pc[r] \notin {"scope", "lookup", "commit"} /\ input'[r] = input[r]
<1> DEFINE Fine == \/ pc'[r] = pc[r] /\ input'[r] = input[r]
                   \/ pc'[r] \in {"aborted", "committed"}
                   \/ pc'[r] = "scope" \/ ~Keyed(input'[r])
                   \/ LockScope(r) /\ input'[r] = input[r]
                   \/ Lookup(r) /\ input'[r] = input[r]
                   \/ /\ Open(r) /\ pc[r] \notin {"scope", "lookup", "commit"}
                      /\ input'[r] = input[r]
<1> USE DEF TypeInv, TypeOK, Goto
<1>1. ASSUME NEW q \in Request, NEW where, Goto(q, where), UNCHANGED input,
             q # r \/ where \in {"aborted", "committed"}
                   \/ (Open(r) /\ pc[r] \notin {"scope", "lookup", "commit"})
      PROVE  Fine
  BY <1>1
<1>2. ASSUME NEW q \in Request, NEW why, Abort(q, why) PROVE Fine
  BY <1>1, <1>2 DEF Abort
<1>3. ASSUME NEW q \in Request, Begin(q) PROVE Fine
  <2>1. PICK i \in Inputs : /\ input' = [input EXCEPT ![q] = i]
                            /\ Goto(q, FirstStatement(i))
    BY <1>3 DEF Begin
  <2>2. Keyed(i) => FirstStatement(i) = "scope"
    BY DEF FirstStatement, Keyed
  <2>3. QED
    BY <2>1, <2>2
<1>4. ASSUME NEW q \in Request, Refuse(q) \/ CommitLost(q) \/ Commit(q) PROVE Fine
  BY <1>1, <1>4 DEF Refuse, CommitLost, Commit, Publish
<1>5. ASSUME NEW q \in Request, Fail(q) \/ BreakDeadlock(q) PROVE Fine
  BY <1>2, <1>5 DEF Fail, BreakDeadlock
<1>6. ASSUME NEW q \in Request, LockScope(q) PROVE Fine
  <2>1. UNCHANGED input /\ Goto(q, "lookup")
    BY <1>6 DEF LockScope
  <2>2. QED
    BY <1>1, <1>6, <2>1
<1>7. ASSUME NEW q \in Request, Lookup(q) PROVE Fine
  <2>1. UNCHANGED input /\ \E where : Goto(q, where)
    BY <1>7 DEF Lookup, Abort
  <2>2. QED
    BY <1>1, <1>7, <2>1
<1>8. ASSUME NEW q \in Request,
             \/ Admit(q) \/ InsertIdentity(q) \/ CheckUid(q) \/ InsertAlias(q)
             \/ CheckAlias(q) \/ LockGuard(q) \/ InsertEdge(q)
      PROVE  Fine
  BY <1>1, <1>2, <1>8
     DEF Admit, InsertIdentity, CheckUid, InsertAlias, CheckAlias, LockGuard, InsertEdge,
         Open, Statement
<1>9. ASSUME NEW q \in Request,
             \/ InsertEvidence(q) \/ Retain(q) \/ LockRow(q) \/ Recheck(q)
             \/ ReadHead(q) \/ WriteUpdate(q) \/ InsertHistory(q)
      PROVE  Fine
  BY <1>1, <1>2, <1>9
     DEF InsertEvidence, Retain, LockRow, Recheck, ReadHead, WriteUpdate, InsertHistory,
         Open, Statement
<1>10. CASE (\E t \in 0 .. MaxClock : ReadClock(t)) \/ UNCHANGED vars
  BY <1>10 DEF ReadClock, vars
<1>11. QED
  BY <1>3, <1>4, <1>5, <1>6, <1>7, <1>8, <1>9, <1>10 DEF Next, Progress

\* receipt_retained is the time of a Retain.
LEMMA RetainedKinds ==
    ASSUME TypeInv, [Next]_vars, NEW r \in Request
    PROVE  retained'[r] \in {retained[r], now}
<1> USE DEF TypeInv, TypeOK
<1>1. ASSUME UNCHANGED retained PROVE retained'[r] \in {retained[r], now}
  BY <1>1
<1>2. ASSUME NEW q \in Request, NEW why, Abort(q, why) PROVE UNCHANGED retained
  BY <1>2 DEF Abort
<1>3. ASSUME NEW q \in Request, Retain(q) PROVE retained'[r] \in {retained[r], now}
  BY <1>2, <1>3 DEF Retain
<1>4. ASSUME NEW q \in Request, Progress(q), ~Retain(q) PROVE UNCHANGED retained
  BY <1>2, <1>4
     DEF Progress, LockScope, Lookup, Admit, InsertIdentity, CheckUid, InsertAlias,
         CheckAlias, LockGuard, InsertEdge, InsertEvidence, LockRow, Recheck, ReadHead,
         WriteUpdate, InsertHistory, Commit, Publish, BreakDeadlock
<1>5. QED
  BY <1>1, <1>2, <1>3, <1>4 DEF Next, Begin, Refuse, CommitLost, Publish, Fail, ReadClock, vars

\* A conflict is told by the lookup, by a constraint or by the recording.
LEMMA ConflictKinds ==
    ASSUME TypeInv, [Next]_vars, NEW r \in Request,
           answer[r] = None, answer'[r] = "conflict"
    PROVE  \/ pc[r] \in {"uid", "pair", "retain"}
           \/ /\ pc[r] = "lookup" /\ Live(receipt[Scope(r)])
              /\ Digest(receipt[Scope(r)]) # Digest(r)
<1> DEFINE Told == \/ pc[r] \in {"uid", "pair", "retain"}
                   \/ /\ pc[r] = "lookup" /\ Live(receipt[Scope(r)])
                      /\ Digest(receipt[Scope(r)]) # Digest(r)
<1> USE DEF TypeInv, TypeOK
<1>0. answer' # answer /\ "conflict" \notin Request \cup {None}
  BY RefusalAssumption DEF Refusal
<1>1. ASSUME NEW q \in Request, NEW why, Abort(q, why) PROVE q = r /\ why = "conflict"
  BY <1>0, <1>1 DEF Abort
<1>2. ASSUME NEW q \in Request, Begin(q) \/ Refuse(q) \/ CommitLost(q) \/ Fail(q) PROVE Told
  BY <1>0, <1>1, <1>2 DEF Begin, Refuse, CommitLost, Fail
<1>3. ASSUME NEW q \in Request, Lookup(q) PROVE Told
  <2>1. CASE Abort(q, "denied")
    BY <1>1, <2>1
  <2>2. CASE Live(receipt[Scope(q)]) /\ Digest(receipt[Scope(q)]) # Digest(q)
             /\ Abort(q, "conflict") /\ pc[q] = "lookup"
    <3>1. q = r
      BY <1>1, <2>2
    <3>2. QED
      BY <2>2, <3>1
  <2>3. QED
    BY <1>0, <1>3, <2>1, <2>2 DEF Lookup
<1>4. ASSUME NEW q \in Request, CheckUid(q) \/ CheckAlias(q) \/ Retain(q) PROVE Told
  <2>1. pc[q] \in {"uid", "pair", "retain"}
    BY <1>4 DEF CheckUid, CheckAlias, Retain
  <2>2. UNCHANGED answer \/ Abort(q, "conflict")
    BY <1>4 DEF CheckUid, CheckAlias, Retain
  <2>3. QED
    BY <1>0, <1>1, <2>1, <2>2
<1>5. ASSUME NEW q \in Request,
             \/ LockScope(q) \/ Admit(q) \/ InsertIdentity(q) \/ InsertAlias(q)
             \/ LockGuard(q) \/ InsertEdge(q) \/ InsertEvidence(q)
      PROVE  Told
  BY <1>0, <1>1, <1>5
     DEF LockScope, Admit, InsertIdentity, InsertAlias, LockGuard, InsertEdge, InsertEvidence
<1>6. ASSUME NEW q \in Request,
             \/ LockRow(q) \/ Recheck(q) \/ ReadHead(q) \/ WriteUpdate(q)
             \/ InsertHistory(q) \/ BreakDeadlock(q)
      PROVE  Told
  BY <1>0, <1>1, <1>6
     DEF LockRow, Recheck, ReadHead, WriteUpdate, InsertHistory, BreakDeadlock
<1>7. ASSUME NEW q \in Request, Commit(q) PROVE Told
  <2>1. PICK a : a = IF written[q] = {} THEN seen[q] ELSE q
    OBVIOUS
  <2>2. a \in Request \cup {None} /\ answer' = [answer EXCEPT ![q] = a]
    BY <1>7, <2>1 DEF Commit
  <2>3. QED
    BY <1>0, <2>2
<1>8. CASE (\E t \in 0 .. MaxClock : ReadClock(t)) \/ UNCHANGED vars
  BY <1>0, <1>8 DEF ReadClock, vars
<1>9. QED
  BY <1>2, <1>3, <1>4, <1>5, <1>6, <1>7, <1>8 DEF Next, Progress

\* A step of Retries is one of SystemWrites that remembers a clock set back.
LEMMA RetryStep ==
    ASSUME TypeInv, TypeInv', RetryInv, [RetryNext]_<<vars, slipped>>
    PROVE  /\ [Next]_vars /\ slipped' \in BOOLEAN
           /\ slipped' = FALSE => slipped = FALSE /\ now <= now'
<1>1. now \in Nat /\ now' \in Nat
  BY ClockAssumption DEF TypeInv, TypeOK
<1>2. CASE Next /\ slipped' = (slipped \/ now' < now)
  <2>0. slipped = TRUE \/ slipped = FALSE
    BY DEF RetryInv
  <2>1. CASE now' < now
    <3>1. slipped' = TRUE
      BY <1>2, <2>1, Zenon
    <3>2. QED
      BY <1>2, <3>1
  <2>2. CASE ~(now' < now)
    <3>1. slipped' = slipped
      BY <1>2, <2>0, <2>2, Zenon
    <3>2. QED
      BY <1>1, <1>2, <2>0, <2>2, <3>1
  <2>3. QED
    BY <2>1, <2>2
<1>3. CASE UNCHANGED <<vars, slipped>>
  BY <1>1, <1>3 DEF RetryInv, vars
<1>4. QED
  BY <1>2, <1>3 DEF RetryNext

\* A scope keeps its one holder: LockScope waits until there is none.
LEMMA HoldersStayApart ==
    ASSUME TypeInv, RetryInv, [Next]_vars
    PROVE  \A r, q \in Request : r # q /\ Holder(r)' /\ Holder(q)' => Scope(r)' # Scope(q)'
<1>1. ASSUME NEW r \in Request, Holder(r)'
      PROVE  (Holder(r) \/ LockScope(r)) /\ input'[r] = input[r] /\ Scope(r)' = Scope(r)
  <2>1. pc'[r] \notin {"aborted", "committed", "scope"} /\ Keyed(input'[r])
    BY <1>1 DEF Holder, Open, Statement
  <2>2. (Holder(r) \/ LockScope(r)) /\ input'[r] = input[r]
    BY <1>1, <2>1, CallSteps DEF Holder, Open, Statement, Lookup
  <2>3. QED
    BY <2>2 DEF Scope
<1>2. ASSUME NEW r \in Request, LockScope(r), NEW q \in Request, q # r, Holder(q)
      PROVE  Scope(q) # Scope(r)
  BY <1>2 DEF LockScope, Blockers, HoldsScope, Holder
<1>3. ASSUME NEW r \in Request, LockScope(r), NEW q \in Request, LockScope(q)
      PROVE  r = q
  BY <1>3 DEF LockScope, Goto, TypeInv, TypeOK
<1>4. QED
  BY <1>1, <1>2, <1>3 DEF RetryInv

\* A spent scope stays spent while a call holds it that is not at its COMMIT.
LEMMA SpentStays ==
    ASSUME Inv, TypeInv', RetryInv, [Next]_vars, now <= now',
           NEW r \in Request, Holder(r), pc[r] # "commit", input'[r] = input[r], Spent(r)
    PROVE  Spent(r)'
<1>1. Scope(r)' = Scope(r)
  BY DEF Scope
<1>2. now \in Nat /\ now' \in Nat
  BY ClockAssumption DEF Inv, TypeInv, TypeOK
<1>3. \A q \in Visible("system_create_retry") :
            q \in Committed /\ Expires(q) \in Nat /\ (Scope(q) = Scope(r) => Expires(q) <= now')
  BY <1>2, ReceiptTypes DEF Visible, Committed, Spent
<1>4. CASE Quiet
  <2>1. Visible("system_create_retry")' = Visible("system_create_retry")
    BY <1>4 DEF Quiet, Visible
  <2>2. \A q \in Visible("system_create_retry") :
            Scope(q)' = Scope(q) /\ Expires(q)' = Expires(q)
    BY <1>3, <1>4 DEF Quiet, Scope, Expires
  <2>3. QED
    BY <1>1, <1>3, <2>1, <2>2 DEF Spent
<1>5. ASSUME NEW p \in Request, pc[p] = "commit", Publish(p)
      PROVE  Spent(r)'
  <2>1. \A q : Scope(q)' = Scope(q) /\ Expires(q)' = Expires(q)
    BY <1>5 DEF Publish, Scope, Expires
  <2>2. \A q \in Visible("system_create_retry")' :
            q \in Visible("system_create_retry") \/ (q = p /\ "system_create_retry" \in written[p])
    BY <1>5 DEF Publish, Goto, Visible, Committed, Inv, TypeInv, TypeOK
  <2>3. ASSUME "system_create_retry" \in written[p] PROVE Scope(p) # Scope(r)
    <3>1. Keyed(input[p])
      BY <1>5, <2>3 DEF Inv, RowsInv, RowsFit, Ident, UpdateRows
    <3>2. Holder(p) /\ p # r
      BY <1>5, <3>1 DEF Holder, Open, Statement
    <3>3. QED
      BY <3>2 DEF RetryInv
  <2>4. QED
    BY <1>1, <1>3, <2>1, <2>2, <2>3 DEF Spent
<1>6. QED
  BY <1>4, <1>5, StepKinds DEF Inv

\* Every step keeps the scopes apart and, while the clock is not set back, spent
\* under the creations past their lookup.
LEMMA NextRetries ==
    ASSUME Inv, TypeInv', RecordInv, RetryInv, [RetryNext]_<<vars, slipped>>
    PROVE  RetryInv'
<1>1. TypeInv
  BY DEF Inv
<1>2. [Next]_vars /\ slipped' \in BOOLEAN
  BY <1>1, RetryStep
<1>3. \A r, q \in Request : r # q /\ Holder(r)' /\ Holder(q)' => Scope(r)' # Scope(q)'
  BY <1>1, <1>2, HoldersStayApart
<1>4. ASSUME slipped' = FALSE, NEW r \in Request
      PROVE  retained'[r] <= now' /\ (PastLookup(r)' => Spent(r)')
  <2>1. slipped = FALSE /\ now <= now'
    BY <1>1, <1>4, RetryStep
  <2>2. now \in Nat /\ now' \in Nat /\ retained[r] \in Nat
    BY <1>1, ClockAssumption DEF TypeInv, TypeOK
  <2>3. retained'[r] <= now'
    BY <1>1, <1>2, <2>1, <2>2, RetainedKinds DEF RetryInv
  <2>4. ASSUME PastLookup(r)' PROVE Spent(r)'
    <3>1. pc'[r] \notin {"aborted", "committed", "scope", "lookup"} /\ Keyed(input'[r])
      BY <2>4 DEF PastLookup
    <3>2. CASE PastLookup(r) /\ input'[r] = input[r]
      <4>1. Holder(r) /\ pc[r] # "commit" /\ Spent(r)
        BY <2>1, <3>2 DEF PastLookup, Holder, Open, Statement, RetryInv
      <4>2. QED
        BY <1>2, <2>1, <3>2, <4>1, SpentStays
    <3>3. CASE Lookup(r) /\ input'[r] = input[r]
      <4>1. PICK o : o = receipt[Scope(r)]
        OBVIOUS
      <4>2. Keyed(input[r]) /\ Scope(r) \in Scopes /\ Holder(r) /\ pc[r] = "lookup"
        BY <1>1, <3>3, InputKinds
           DEF Lookup, TypeInv, PcFits, Keyed, Scope, Scopes, Statement, Holder, Open
      <4>3. ~Live(o)
        <5>1. pc'[r] # "commit"
          BY <2>4 DEF PastLookup
        <5>2. QED
          BY <1>1, <3>1, <3>3, <4>1, <5>1 DEF Lookup, Abort, Goto, TypeInv, TypeOK
      <4>4. ASSUME NEW q \in Visible("system_create_retry"), Scope(q) = Scope(r)
            PROVE  Expires(q) <= now
        <5>1. o # None /\ (q = o \/ Expires(q) <= retained[o])
          BY <4>1, <4>4 DEF RecordInv
        <5>2. o \in Visible("system_create_retry") /\ o \in Request
          BY <4>1, <4>2, <5>1 DEF Inv, HeadInv, Visible, Committed
        <5>3. Expires(o) \in Nat /\ Expires(q) \in Nat /\ retained[o] \in Nat
          BY <4>4, <5>2, ReceiptTypes DEF Visible, Committed
        <5>4. Expires(o) <= now /\ retained[o] <= now
          BY <2>1, <2>2, <4>3, <5>1, <5>2, <5>3 DEF Live, RetryInv
        <5>5. QED
          BY <2>2, <5>1, <5>3, <5>4
      <4>5. Spent(r)
        BY <4>4 DEF Spent
      <4>6. QED
        BY <1>2, <2>1, <3>3, <4>2, <4>5, SpentStays
    <3>4. QED
      <4>1. Open(r) /\ pc[r] \notin {"scope", "lookup", "commit"} /\ input'[r] = input[r]
            => PastLookup(r)
        BY <1>1, <3>1 DEF Open, Statement, PastLookup, TypeInv, PcFits, Keyed, Op
      <4>2. pc'[r] = pc[r] /\ input'[r] = input[r] => PastLookup(r)
        BY <2>4 DEF PastLookup
      <4>3. ~LockScope(r)
        BY <1>1, <2>4 DEF LockScope, Goto, TypeInv, TypeOK, PastLookup
      <4>4. QED
        BY <1>1, <1>2, <3>1, <3>2, <3>3, <4>1, <4>2, <4>3, CallSteps
  <2>5. QED
    BY <2>3, <2>4
<1>5. QED
  BY <1>2, <1>3, <1>4 DEF RetryInv

\* docs/write-retries.md: as long as the clock is not set back, no retry of a
\* recorded creation is turned away as a conflict before its deadline, whichever
\* of the lookup, the constraints and the recording answers it.
THEOREM RetriesAreNotRefused == RetrySpec => RetryNotRefused
<1> DEFINE Told == \A r \in Request, q \in Visible("system_create_retry") :
                      /\ answer[r] = None /\ answer'[r] = "conflict" /\ Keyed(input[r])
                      /\ Scope(q) = Scope(r) /\ Digest(q) = Digest(r)
                      => slipped \/ Expires(q) <= now
<1>1. RetryInit => Inv /\ RecordInv /\ RetryInv
  <2> SUFFICES ASSUME RetryInit PROVE RetryInv
    BY InitInv, InitRecords DEF RetryInit
  <2>1. \A r \in Request : retained[r] <= now /\ ~Holder(r) /\ ~PastLookup(r)
    BY DEF RetryInit, Init, Holder, Open, Statement, PastLookup
  <2>2. QED
    BY <2>1 DEF RetryInit, RetryInv
<1>2. Inv /\ RecordInv /\ RetryInv /\ [RetryNext]_<<vars, slipped>>
        => (Inv /\ RecordInv /\ RetryInv)'
  <2> SUFFICES ASSUME Inv, RecordInv, RetryInv, [RetryNext]_<<vars, slipped>>
               PROVE  (Inv /\ RecordInv /\ RetryInv)'
    OBVIOUS
  <2>1. [Next]_vars
    BY DEF RetryNext, vars
  <2>2. Inv' /\ RecordInv'
    BY <2>1, NextInv, NextRecords
  <2>3. QED
    BY <2>2, NextRetries DEF Inv
<1>3. Inv /\ RecordInv /\ RetryInv /\ [RetryNext]_<<vars, slipped>> => [Told]_vars
  <2> SUFFICES ASSUME Inv, RecordInv, RetryInv, [Next]_vars,
                      NEW r \in Request, NEW q \in Visible("system_create_retry"),
                      answer[r] = None, answer'[r] = "conflict", Keyed(input[r]),
                      Scope(q) = Scope(r), Digest(q) = Digest(r), slipped = FALSE
               PROVE  Expires(q) <= now
    BY DEF RetryNext, vars, RetryInv
  <2>1. TypeInv
    BY DEF Inv
  <2>2. CASE pc[r] \in {"uid", "pair", "retain"}
    BY <2>2 DEF RetryInv, PastLookup, Spent
  <2>3. CASE /\ pc[r] = "lookup" /\ Live(receipt[Scope(r)])
             /\ Digest(receipt[Scope(r)]) # Digest(r)
    <3>1. PICK o : o = receipt[Scope(r)]
      OBVIOUS
    <3>2. o # None /\ o # q /\ Expires(q) <= retained[o]
      BY <2>3, <3>1 DEF RecordInv, Live
    <3>3. Scope(r) \in Scopes /\ q \in Request
      BY ReceiptTypes DEF Visible, Committed
    <3>4. o \in Visible("system_create_retry") /\ o \in Request
      BY <3>1, <3>2, <3>3 DEF Inv, HeadInv, Visible, Committed
    <3>5. Expires(q) \in Nat /\ retained[o] \in Nat /\ now \in Nat
      BY <2>1, <3>4, ReceiptTypes, ClockAssumption DEF Visible, Committed, TypeInv, TypeOK
    <3>6. retained[o] <= now
      BY <3>4 DEF RetryInv
    <3>7. QED
      BY <3>2, <3>5, <3>6
  <2>4. QED
    BY <2>1, <2>2, <2>3, ConflictKinds
<1>4. QED
  BY <1>1, <1>2, <1>3, PTL DEF RetrySpec, RetryNotRefused

=============================================================================
