----------------------------- MODULE DenialAudit -----------------------------
(***************************************************************************)
(* The record of denied mutations: Admission::deny of authorization.rs,    *)
(* whose rate DenialRate models, and record_denied_mutation_bounded of     *)
(* application.rs, which caps the rows of the database all processes share. *)
(*                                                                         *)
(* A denial is one call of deny.  Its client side (pc) and its database    *)
(* transaction (tx) end separately: the future may be dropped at its       *)
(* deadline, the connection may break and the process may restart, and     *)
(* PostgreSQL still has a transaction to end, perhaps one whose COMMIT has *)
(* been sent.                                                              *)
(***************************************************************************)
EXTENDS DenialRate, Functions

CONSTANT MaxRecords     \* DenialLimits.max_records

ASSUME RecordsAssumption == MaxRecords \in Nat \ {0}

VARIABLES
    outcome,    \* the DenialStorage its transaction found
    tx,         \* its database transaction
    holder,     \* who holds the advisory lock
    rows        \* the committed rows of server_audit with outcome denied

database == <<outcome, tx, holder, rows>>
vars == <<rateVars, database>>

-----------------------------------------------------------------------------
(* The transaction.                                                        *)

\* The process awaits the database on behalf of d.
Storing(d) == pc[d] \in {"granted", "locked", "room", "committing"}

Found(d, what) ==
    /\ outcome' = [outcome EXCEPT ![d] = what]
    /\ pc' = [pc EXCEPT ![d] = "committing"]
    /\ tx' = [tx EXCEPT ![d] = "sent"]

\* Mutant: the lock is asked for under a key of one's own.
LockIsFreeAlways == TRUE

\* pg_try_advisory_xact_lock would succeed.
LockIsFree == holder = None

\* BEGIN, the timeouts, the schema check and the attempt at the lock.
TryLock(d) ==
    /\ pc[d] = "granted"
    /\ \/ /\ LockIsFree
          /\ holder' = d
          /\ pc' = [pc EXCEPT ![d] = "locked"]
          /\ tx' = [tx EXCEPT ![d] = "open"]
          /\ UNCHANGED outcome
       \/ /\ ~LockIsFree
          /\ Found(d, "storage_busy")
          /\ UNCHANGED holder
    /\ UNCHANGED <<time, restarts, rate, counts, reading, rows>>

\* Mutant: one row too few is counted.
CapIsReachedEarly == Cardinality(rows) + 1 >= MaxRecords

CapIsReached == Cardinality(rows) >= MaxRecords

\* A new statement under READ COMMITTED sees every committed row.
CountRows(d) ==
    /\ pc[d] = "locked" /\ tx[d] = "open"
    /\ \/ CapIsReached /\ Found(d, "storage_limited")
       \/ /\ ~CapIsReached
          /\ pc' = [pc EXCEPT ![d] = "room"]
          /\ UNCHANGED <<outcome, tx>>
    /\ UNCHANGED <<time, restarts, rate, counts, reading, holder, rows>>

\* insert_audit, and COMMIT is sent.
Insert(d) ==
    /\ pc[d] = "room" /\ tx[d] = "open"
    /\ Found(d, "retained")
    /\ UNCHANGED <<time, restarts, rate, counts, reading, holder, rows>>

Unlocked(d) == IF holder = d THEN None ELSE holder

\* PostgreSQL executes a COMMIT, whether or not its client still waits.
ServerCommit(d) ==
    /\ tx[d] = "sent"
    /\ tx' = [tx EXCEPT ![d] = "committed"]
    /\ rows' = IF outcome[d] = "retained" THEN rows \cup {d} ELSE rows
    /\ holder' = Unlocked(d)
    /\ UNCHANGED <<time, restarts, rate, counts, pc, reading, outcome>>

\* Mutant: the lock belongs to the session, which outlives the rollback.
ServerAbortKeeping(d) ==
    /\ tx[d] \in {"open", "sent"}
    /\ tx' = [tx EXCEPT ![d] = "aborted"]
    /\ UNCHANGED <<time, restarts, rate, counts, pc, reading, outcome, holder, rows>>

\* A rollback, a statement or lock timeout, a session that ends.
ServerAbort(d) ==
    /\ tx[d] \in {"open", "sent"}
    /\ tx' = [tx EXCEPT ![d] = "aborted"]
    /\ holder' = Unlocked(d)
    /\ UNCHANGED <<time, restarts, rate, counts, pc, reading, outcome, rows>>

\* Mutant: what the transaction found is counted without asking how it ended.
ReceiveEarly(d) ==
    /\ pc[d] = "committing"
    /\ Finish(d, outcome[d])
    /\ UNCHANGED <<time, restarts, rate, reading, database>>

\* The answer to COMMIT arrives.
Receive(d) ==
    /\ pc[d] = "committing" /\ tx[d] = "committed"
    /\ Finish(d, outcome[d])
    /\ UNCHANGED <<time, restarts, rate, reading, database>>

\* Mutant: an error returns through ? without a count.
FailSilently(d) ==
    /\ Storing(d)
    /\ pc' = [pc EXCEPT ![d] = "answered"]
    /\ UNCHANGED <<time, restarts, rate, counts, reading, database>>

\* No audit identifier, an error of a statement, a connection that broke, even
\* after COMMIT was executed.
Fail(d) ==
    /\ Storing(d)
    /\ Finish(d, "storage_failed")
    /\ UNCHANGED <<time, restarts, rate, reading, database>>

\* The deadline of the request drops the future while it awaits the database.
Cancel(d) ==
    /\ Storing(d)
    /\ pc' = [pc EXCEPT ![d] = "dropped"]
    /\ UNCHANGED <<time, restarts, rate, counts, reading, database>>

-----------------------------------------------------------------------------

Init ==
    /\ RateInit
    /\ outcome = [d \in Denial |-> None] /\ tx = [d \in Denial |-> "none"]
    /\ holder = None /\ rows = {}

\* What the process does for d while the database answers.
Proceeds(d) == TryLock(d) \/ CountRows(d) \/ Insert(d) \/ Receive(d) \/ Fail(d)

Next ==
    \/ \E d \in Denial :
        \/ Screen(d) /\ UNCHANGED database
        \/ Proceeds(d) \/ Cancel(d)
        \/ ServerCommit(d) \/ ServerAbort(d)
    \/ \E p \in Proc : Restart(p) /\ UNCHANGED database
    \/ Tick /\ UNCHANGED database

Spec == Init /\ [][Next]_vars

\* A transaction whose client has gone is rolled back, when its connection
\* returns to the pool or closes; the statements of the others end in time.
FairSpec ==
    /\ Spec
    /\ \A d \in Denial :
        /\ WF_vars(Proceeds(d))
        /\ WF_vars(ServerCommit(d) \/ (~Storing(d) /\ ServerAbort(d)))

-----------------------------------------------------------------------------
(* Properties.                                                             *)

\* Types of the locals of deny and of the database it writes.
TypeOK ==
    /\ RateTypeOK
    /\ outcome \in [Denial -> Counter \cup {None}]
    /\ tx \in [Denial -> {"none", "open", "sent", "committed", "aborted"}]
    /\ holder \in Denial \cup {None}
    /\ rows \subseteq Denial

\* docs/authorization.md: "The retained-denial row cap is database-wide":
\* whichever processes write, restart or lose their connections.
RowCap == Cardinality(rows) <= MaxRecords

Answered(p) == {d \in Denial : Owner[d] = p /\ pc[d] = "answered"}

\* docs/authorization.md, the counters "distinguish limitations": each denial
\* that answered is counted once, a retained one has its row and a limited one
\* met a full table.
CountsAreTrue ==
    \A p \in Proc :
        /\ Cardinality(Answered(p)) = SumFunction(counts[p])
        /\ counts[p]["retained"] <= Cardinality(Answered(p) \cap rows)
        /\ counts[p]["storage_limited"] > 0 => Cardinality(rows) >= MaxRecords

\* "A transaction-scoped try-lock": no dropped future, broken connection or
\* restart leaves the lock held for good.
LockEnds == holder # None ~> holder = None
=============================================================================
