---------------------------- MODULE RestoreClone ----------------------------
(***************************************************************************)
(* The restore command of scripts/system-restore.sh: runs of the script,   *)
(* each a sequence of client commands any of which may fail, and which may *)
(* be killed between any two; the databases they name; and the sessions of *)
(* ordinary roles, which connect and write as far as the server lets them. *)
(*                                                                         *)
(* The dump carries grants and owners.  "table" and "column" are write     *)
(* privileges of the inspection role that a REVOKE from it takes away,     *)
(* "public" and "inherited" write privileges that it holds otherwise,      *)
(* "owner" its ownership of a relation, "server" the write privileges of   *)
(* the serving role.  A session outlives the right to start one, and       *)
(* default_transaction_read_only binds nobody, so it is not kept.          *)
(***************************************************************************)
EXTENDS Naturals, FiniteSets

CONSTANTS
    Run,        \* invocations of the script
    Database,   \* names of databases
    Existing,   \* those there from the start, the source among them
    Inspector,  \* INSPECTION_ROLE
    Server,     \* the serving role of the source
    None        \* no session, no maker, no result yet

Role == {Inspector, Server}

Grants == {"table", "column", "public", "inherited", "owner", "server"}

ASSUME ExistingAssumption == Existing \subseteq Database
ASSUME RoleAssumption == Inspector # Server
ASSUME NoneAssumption ==
    None \notin Run \cup Role \cup Database \cup {"failed", "killed", "isolated"}

VARIABLES
    step,       \* the next command of each run
    args,       \* SOURCE_DB, TARGET_DB and whether the role suits
    trap,       \* the EXIT trap is set
    result,     \* how the run ended
    warned,     \* it said that the target is not isolated
    dump,       \* the grants in the dump
    db,         \* the databases of the server
    session     \* the session of each role

runVars == <<step, args, trap, result, warned>>
vars == <<runVars, dump, db, session>>

\* A database from template0: PUBLIC may connect, and there are no tables.
Created(r) == [made |-> r, public |-> TRUE, connect |-> {}, data |-> FALSE,
               grants |-> {}, writers |-> {}]

Absent == [made |-> None, public |-> FALSE, connect |-> {}, data |-> FALSE,
           grants |-> {}, writers |-> {}]

There(d) == d \in Existing \/ db[d].made # None

Target(r) == args[r].target

\* What has_table_privilege and has_any_column_privilege tell of the role.
Writable(d) == db[d].grants \cap {"table", "column", "public", "inherited"} # {}

\* An owner can give himself what was revoked.
MayWrite(role, d) ==
    IF role = Inspector THEN Writable(d) \/ "owner" \in db[d].grants
    ELSE db[d].grants \cap {"server", "public"} # {}

-----------------------------------------------------------------------------
(* The script.                                                             *)

\* Mutant: the trap is cleared before the checks.
EndSilently(r, what) ==
    /\ result' = [result EXCEPT ![r] = what]
    /\ warned' = [warned EXCEPT ![r] = trap[r] /\ what = "failed" /\ step[r] # "verify"]
    /\ UNCHANGED <<step, args, trap, dump, db, session>>

\* set -e and fail: the trap speaks on the way out.
End(r, what) ==
    /\ result' = [result EXCEPT ![r] = what]
    /\ warned' = [warned EXCEPT ![r] = trap[r] /\ what = "failed"]
    /\ UNCHANGED <<step, args, trap, dump, db, session>>

At(r, s) == step[r] = s /\ result[r] = None

Goto(r, s) ==
    /\ step' = [step EXCEPT ![r] = s]
    /\ UNCHANGED <<args, result, warned, dump, session>>

\* One command on the target, which has to be there.
Command(r, s, then, change) ==
    /\ At(r, s) /\ There(Target(r))
    /\ db' = [db EXCEPT ![Target(r)] = change]
    /\ Goto(r, then)
    /\ UNCHANGED trap

\* The checks before anything is created.
Check(r) ==
    /\ At(r, "check")
    /\ IF args[r].target = args[r].source \/ There(Target(r)) \/ ~args[r].suits
       THEN End(r, "failed")
       ELSE Goto(r, "create") /\ UNCHANGED <<trap, db>>

\* Mutant: an existing target is good enough.
CreateOrTake(r) ==
    /\ At(r, "create")
    /\ db' = IF There(Target(r)) THEN db ELSE [db EXCEPT ![Target(r)] = Created(r)]
    /\ Goto(r, "trap")
    /\ UNCHANGED trap

\* createdb fails when somebody was faster.
Create(r) ==
    /\ At(r, "create") /\ ~There(Target(r))
    /\ db' = [db EXCEPT ![Target(r)] = Created(r)]
    /\ Goto(r, "trap")
    /\ UNCHANGED trap

SetTrap(r) ==
    /\ At(r, "trap")
    /\ trap' = [trap EXCEPT ![r] = TRUE]
    /\ Goto(r, "close")
    /\ UNCHANGED db

Close(r) == Command(r, "close", "load", [db[Target(r)] EXCEPT !.public = FALSE])

\* pg_restore in a single transaction; without --create no right to connect.
Load(r) ==
    /\ ~db[Target(r)].data
    /\ Command(r, "load", "revoke", [db[Target(r)] EXCEPT !.data = TRUE, !.grants = dump])

\* Mutant: the role may connect as soon as the data is in.
RevokeAdmitting(r) ==
    LET d == db[Target(r)] IN
    \/ Command(r, "revoke", "revoke", [d EXCEPT !.connect = {Inspector}])
    \/ Command(r, "revoke", "read", [d EXCEPT !.grants = @ \ {"table", "column"}])

\* A table privilege takes its column privileges along.
Revoke(r) == Command(r, "revoke", "read", [db[Target(r)] EXCEPT !.grants = @ \ {"table", "column"}])

\* GRANT USAGE and SELECT, and the default of the sessions.
Read(r) == Command(r, "read", "admit", db[Target(r)])

Admit(r) == Command(r, "admit", "verify", [db[Target(r)] EXCEPT !.connect = {Inspector}])

\* Mutant: ownership is not looked at.
VerifiedPrivileges(d) == ~Writable(d) /\ ~db[d].public

Verified(d) ==
    /\ ~Writable(d)
    /\ "owner" \notin db[d].grants
    /\ ~db[d].public

\* The three queries, the end of the trap and the report.
Verify(r) ==
    /\ At(r, "verify") /\ There(Target(r))
    /\ IF Verified(Target(r))
       THEN /\ trap' = [trap EXCEPT ![r] = FALSE]
            /\ result' = [result EXCEPT ![r] = "isolated"]
            /\ UNCHANGED <<step, args, warned, dump, db, session>>
       ELSE End(r, "failed")

\* A command fails, or its answer is lost after it has worked.
Fail(r) == result[r] = None /\ End(r, "failed")

\* The shell is killed; in sh no trap runs then.
Kill(r) == result[r] = None /\ End(r, "killed")

Script(r) ==
    \/ Check(r) \/ Create(r) \/ SetTrap(r) \/ Close(r) \/ Load(r) \/ Revoke(r)
    \/ Read(r) \/ Admit(r) \/ Verify(r) \/ Fail(r) \/ Kill(r)

-----------------------------------------------------------------------------
(* The server and its clients.                                             *)

\* A session remembers whether it began before PUBLIC was shut out.
Connect(role, d) ==
    /\ session[role] = None /\ db[d].made # None
    /\ db[d].public \/ role \in db[d].connect
    /\ session' = [session EXCEPT ![role] = [on |-> d, early |-> db[d].public]]
    /\ UNCHANGED <<runVars, dump, db>>

Disconnect(role) ==
    /\ session[role] # None
    /\ session' = [session EXCEPT ![role] = None]
    /\ UNCHANGED <<runVars, dump, db>>

Write(role) ==
    /\ session[role] # None
    /\ LET d == session[role].on IN
       /\ MayWrite(role, d)
       /\ db' = [db EXCEPT ![d].writers = @ \cup {session[role].early}]
    /\ UNCHANGED <<runVars, dump, session>>

\* An operator drops a target once its run is over and nobody is connected.
Drop(d) ==
    /\ db[d].made # None /\ result[db[d].made] # None
    /\ \A role \in Role : session[role] # None => session[role].on # d
    /\ db' = [db EXCEPT ![d] = Absent]
    /\ UNCHANGED <<runVars, dump, session>>

-----------------------------------------------------------------------------

Init ==
    /\ step = [r \in Run |-> "check"]
    /\ args \in [Run -> [source : Existing, target : Database, suits : BOOLEAN]]
    /\ trap = [r \in Run |-> FALSE]
    /\ result = [r \in Run |-> None]
    /\ warned = [r \in Run |-> FALSE]
    /\ dump \in SUBSET Grants
    /\ db = [d \in Database |-> Absent]
    /\ session = [role \in Role |-> None]

Next ==
    \/ \E r \in Run : Script(r)
    \/ \E role \in Role : Disconnect(role) \/ Write(role)
    \/ \E role \in Role, d \in Database : Connect(role, d)
    \/ \E d \in Database : Drop(d)

Spec == Init /\ [][Next]_vars

-----------------------------------------------------------------------------
(* Properties.                                                             *)

\* Types of the runs, the databases and the sessions, which are of databases
\* that are there.
TypeOK ==
    /\ step \in [Run -> {"check", "create", "trap", "close", "load", "revoke", "read",
                         "admit", "verify"}]
    /\ args \in [Run -> [source : Existing, target : Database, suits : BOOLEAN]]
    /\ trap \in [Run -> BOOLEAN] /\ warned \in [Run -> BOOLEAN]
    /\ result \in [Run -> {None, "failed", "killed", "isolated"}]
    /\ dump \in SUBSET Grants
    /\ db \in [Database -> [made : Run \cup {None}, public : BOOLEAN, connect : SUBSET Role,
                            data : BOOLEAN, grants : SUBSET Grants, writers : SUBSET BOOLEAN]]
    /\ session \in [Role -> {None} \cup [on : Database, early : BOOLEAN]]
    /\ \A role \in Role : session[role] # None => db[session[role].on].made # None

\* "Restored into isolated inspection database": as long as the database of a
\* run that said so is there, its role can write nothing and owns nothing, and
\* no other role may connect.
ReportedIsIsolated ==
    \A d \in Database : \A r \in Run :
        db[d].made = r /\ result[r] = "isolated" =>
            /\ ~MayWrite(Inspector, d)
            /\ db[d].data /\ ~db[d].public /\ db[d].connect \subseteq {Inspector}

\* "Inspection only: no request can add resources, audit, retries or outgoing
\* work": nobody who connected after PUBLIC was shut out has ever written to a
\* clone that is reported isolated, in the commands before the report included.
ReportedIsUnwritten ==
    \A d \in Database : \A r \in Run :
        db[d].made = r /\ result[r] = "isolated" => FALSE \notin db[d].writers

\* "From here on, any failure leaves a target that must not be used": a run
\* whose target is there and not isolated has said so, was killed, or never
\* heard that createdb had worked.
FailureIsAnnounced ==
    \A d \in Database : \A r \in Run :
        db[d].made = r /\ result[r] = "failed" => warned[r] \/ step[r] = "trap"

\* "The existing-database refusal is what protects the source and any other
\* database": what was there, and the clone of another run, is never changed by
\* a run of the script.
NothingOverwritten ==
    [][\A r \in Run : Script(r) => \A d \in Database :
         db'[d] = db[d] \/ (d \notin Existing /\ db[d].made \in {None, r} /\ db'[d].made = r)]_vars
==============================================================================
