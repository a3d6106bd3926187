-------------------------- MODULE RestoreCloneProofs --------------------------
(***************************************************************************)
(* What the restore command promises, for any number of runs, databases    *)
(* and whatever the dump carries.  The argument follows a database from    *)
(* createdb: it belongs to the run that made it, only this run's commands  *)
(* change its grants, and how far the run has come tells who can be        *)
(* connected to it.                                                        *)
(***************************************************************************)
EXTENDS RestoreClone, TLAPS

Db == [made : Run \cup {None}, public : BOOLEAN, connect : SUBSET Role,
       data : BOOLEAN, grants : SUBSET Grants, writers : SUBSET BOOLEAN]

Early == {"check", "create"}

\* A run past createdb owns its target, and a database has one owner.
Owned ==
    /\ \A r \in Run : result[r] = None /\ step[r] \notin Early => db[Target(r)].made = r
    /\ \A d \in Database : \A r \in Run : db[d].made = r =>
         Target(r) = d /\ d \notin Existing /\ step[r] \notin Early

\* How far the run has come tells how far the database is shut.
Shut ==
    \A d \in Database : \A r \in Run : db[d].made = r =>
        /\ step[r] \notin {"trap", "close"} => db[d].public = FALSE
        /\ step[r] \in {"revoke", "read", "admit", "verify"} => db[d].data = TRUE
        /\ step[r] # "verify" => db[d].connect = {}
        /\ db[d].connect \subseteq {Inspector}

\* From the trap on, a failure is announced.
Trapped == \A r \in Run : result[r] = None /\ step[r] \notin Early \cup {"trap"} => trap[r] = TRUE

\* Who is connected late is the inspection role, admitted by the last grant.
LateSessions ==
    \A role \in Role : session[role] # None /\ session[role].early = FALSE =>
        role = Inspector /\ step[db[session[role].on].made] = "verify"

\* What it has written it can still write, so that the checks will see it.
LateWriters ==
    \A d \in Database : FALSE \in db[d].writers =>
        db[d].made # None /\ step[db[d].made] = "verify" /\ MayWrite(Inspector, d)

\* The inductive invariant.
Inv ==
    /\ TypeOK /\ Owned /\ Shut /\ Trapped /\ LateSessions /\ LateWriters
    /\ ReportedIsIsolated /\ FailureIsAnnounced

\* At the start no database has been made and no run has ended.
LEMMA InitInv == Init => Inv
<1> SUFFICES ASSUME Init PROVE Inv
  OBVIOUS
<1>1. db \in [Database -> Db] /\ \A d \in Database : db[d].made = None /\ db[d].writers = {}
  BY DEF Init, Absent, Db
<1>2. TypeOK
  BY <1>1, NoneAssumption DEF Init, TypeOK, Db
<1>3. Owned /\ Shut /\ ReportedIsIsolated /\ FailureIsAnnounced
  BY <1>1, NoneAssumption DEF Init, Owned, Shut, ReportedIsIsolated, FailureIsAnnounced, Early
<1>4. Trapped /\ LateSessions /\ LateWriters
  BY <1>1 DEF Init, Trapped, LateSessions, LateWriters, Early
<1> QED BY <1>2, <1>3, <1>4 DEF Inv

\* The end of a run, by a failed command or by a signal.
LEMMA EndInv ==
    ASSUME Inv, NEW r \in Run, result[r] = None, NEW what \in {"failed", "killed"}, End(r, what)
    PROVE  Inv'
<1>1. TypeOK'
  BY DEF End, Inv, TypeOK
<1>2. Owned' /\ Shut' /\ Trapped'
  BY DEF End, Inv, TypeOK, Owned, Shut, Trapped, Target
<1>3. LateSessions' /\ LateWriters'
  BY DEF End, Inv, LateSessions, LateWriters, MayWrite, Writable
<1>4. ReportedIsIsolated'
  BY DEF End, Inv, TypeOK, ReportedIsIsolated, MayWrite, Writable
<1>5. FailureIsAnnounced'
  BY DEF End, Inv, TypeOK, FailureIsAnnounced, Owned, Trapped, Early
<1> QED BY <1>1, <1>2, <1>3, <1>4, <1>5 DEF Inv

\* A step of the script that leaves the databases alone.
LEMMA MoveInv ==
    ASSUME Inv, NEW r \in Run, UNCHANGED db
    PROVE  /\ At(r, "check") /\ Goto(r, "create") /\ UNCHANGED trap => Inv'
           /\ SetTrap(r) => Inv'
<1>1. ASSUME At(r, "check"), Goto(r, "create"), UNCHANGED trap PROVE Inv'
  <2>0. \A d \in Database : db[d].made # r
    BY <1>1 DEF At, Inv, Owned, Early
  <2>1. TypeOK'
    BY <1>1 DEF Goto, Inv, TypeOK
  <2>2. Owned' /\ Shut' /\ Trapped'
    BY <1>1, <2>0 DEF Goto, Inv, TypeOK, Owned, Shut, Trapped, Target, Early
  <2>3. LateSessions' /\ LateWriters'
    BY <1>1, <2>0 DEF Goto, Inv, TypeOK, LateSessions, LateWriters, MayWrite, Writable
  <2>4. ReportedIsIsolated' /\ FailureIsAnnounced'
    BY <1>1, <2>0 DEF Goto, Inv, TypeOK, ReportedIsIsolated, FailureIsAnnounced, MayWrite, Writable
  <2> QED BY <2>1, <2>2, <2>3, <2>4 DEF Inv
<1>2. ASSUME SetTrap(r) PROVE Inv'
  <2>1. TypeOK'
    BY <1>2 DEF SetTrap, Goto, Inv, TypeOK
  <2>2. Owned' /\ Shut' /\ Trapped'
    BY <1>2 DEF SetTrap, At, Goto, Inv, TypeOK, Owned, Shut, Trapped, Target, Early
  <2>3. LateSessions' /\ LateWriters'
    BY <1>2 DEF SetTrap, At, Goto, Inv, TypeOK, LateSessions, LateWriters, MayWrite, Writable
  <2>4. ReportedIsIsolated' /\ FailureIsAnnounced'
    BY <1>2, NoneAssumption DEF SetTrap, At, Goto, Inv, TypeOK, ReportedIsIsolated, FailureIsAnnounced,
       MayWrite, Writable
  <2> QED BY <2>1, <2>2, <2>3, <2>4 DEF Inv
<1> QED BY <1>1, <1>2

\* A command on the run's own database that keeps to the order of Shut.
LEMMA CommandInv ==
    ASSUME Inv, NEW r \in Run, NEW s, NEW then, NEW change \in Db,
           Command(r, s, then, change),
           s \in {"close", "load", "revoke", "read", "admit"},
           then \in {"load", "revoke", "read", "admit", "verify"},
           change.made = db[Target(r)].made,
           change.writers = db[Target(r)].writers,
           change.public = FALSE,
           then # "load" => change.data = TRUE,
           then # "verify" => change.connect = {},
           change.connect \subseteq {Inspector}
    PROVE  Inv'
<1> DEFINE t == Target(r)
<1>1. /\ result[r] = None /\ step[r] = s /\ step' = [step EXCEPT ![r] = then]
      /\ db' = [db EXCEPT ![t] = change]
      /\ UNCHANGED <<args, trap, result, warned, dump, session>>
  BY DEF Command, At, Goto
<1>2. t \in Database /\ db[t].made = r /\ change.made = r
  BY <1>1 DEF Inv, TypeOK, Owned, Target, Early
<1>3. /\ step'[r] = then /\ db'[t] = change
      /\ \A q \in Run \ {r} : step'[q] = step[q]
      /\ \A d \in Database \ {t} : db'[d] = db[d] /\ db[d].made # r
      /\ \A d \in Database : db'[d].made = db[d].made /\ db'[d].writers = db[d].writers
  BY <1>1, <1>2 DEF Inv, TypeOK, Owned
<1> HIDE DEF t
<1>4. TypeOK'
  <2>1. db' \in [Database -> Db]
    BY <1>1 DEF Inv, TypeOK, Db
  <2>2. step' \in [Run -> {"check", "create", "trap", "close", "load", "revoke", "read",
                           "admit", "verify"}]
    BY <1>1 DEF Inv, TypeOK
  <2>3. \A role \in Role : session'[role] # None => db'[session'[role].on].made # None
    BY <1>1, <1>3 DEF Inv, TypeOK
  <2> QED BY <1>1, <2>1, <2>2, <2>3 DEF Inv, TypeOK, Db
<1>5. Owned'
  BY <1>1, <1>2, <1>3 DEF Inv, TypeOK, Owned, Target, Early
<1>6. Shut'
  BY <1>1, <1>2, <1>3 DEF Inv, TypeOK, Shut
<1>7. Trapped'
  BY <1>1, <1>3 DEF Inv, TypeOK, Trapped, Early
<1>8. LateSessions'
  BY <1>1, <1>2, <1>3 DEF Inv, TypeOK, LateSessions
<1>9. LateWriters'
  <2> SUFFICES ASSUME NEW d \in Database, FALSE \in db'[d].writers
              PROVE  db'[d].made # None /\ step'[db'[d].made] = "verify" /\ MayWrite(Inspector, d)'
    BY DEF LateWriters
  <2>1. db[d].made # None /\ step[db[d].made] = "verify" /\ MayWrite(Inspector, d)
    BY <1>3 DEF Inv, LateWriters
  <2>2. d # t
    BY <2>1, <1>1, <1>2
  <2>3. db[d].made \in Run \ {r}
    BY <2>1, <2>2, <1>3 DEF Inv, TypeOK
  <2> QED BY <2>1, <2>2, <2>3, <1>3 DEF MayWrite, Writable
<1>10. ReportedIsIsolated'
  <2> SUFFICES ASSUME NEW d \in Database, NEW q \in Run, db'[d].made = q, result'[q] = "isolated"
              PROVE  /\ ~MayWrite(Inspector, d)'
                     /\ db'[d].data /\ ~db'[d].public /\ db'[d].connect \subseteq {Inspector}
    BY DEF ReportedIsIsolated
  <2>1. d # t
    BY <1>1, <1>2, <1>3, NoneAssumption
  <2> QED BY <2>1, <1>1, <1>3 DEF Inv, ReportedIsIsolated, MayWrite, Writable
<1>11. FailureIsAnnounced'
  BY <1>1, <1>2, <1>3, NoneAssumption DEF Inv, TypeOK, FailureIsAnnounced
<1> QED BY <1>4, <1>5, <1>6, <1>7, <1>8, <1>9, <1>10, <1>11 DEF Inv

\* createdb makes the run the owner of a database nobody is connected to.
LEMMA CreateInv == ASSUME Inv, NEW r \in Run, Create(r) PROVE Inv'
<1> DEFINE t == Target(r)
<1>1. /\ result[r] = None /\ step[r] = "create" /\ step' = [step EXCEPT ![r] = "trap"]
      /\ db' = [db EXCEPT ![t] = Created(r)]
      /\ t \notin Existing /\ db[t].made = None
      /\ UNCHANGED <<args, trap, result, warned, dump, session>>
  BY DEF Create, At, Goto, There
<1>2. t \in Database /\ Created(r) \in Db
  BY DEF Inv, TypeOK, Target, Created, Db
<1>3. /\ step'[r] = "trap" /\ db'[t] = Created(r)
      /\ \A q \in Run \ {r} : step'[q] = step[q]
      /\ \A d \in Database \ {t} : db'[d] = db[d] /\ db[d].made # r
  BY <1>1, <1>2 DEF Inv, TypeOK, Owned, Early
<1>4. \A role \in Role : session[role] # None => session[role].on \in Database \ {t}
  BY <1>1 DEF Inv, TypeOK
<1> HIDE DEF t
<1>5. TypeOK'
  <2>1. db' \in [Database -> Db]
    BY <1>1, <1>2 DEF Inv, TypeOK, Db
  <2>2. step' \in [Run -> {"check", "create", "trap", "close", "load", "revoke", "read",
                           "admit", "verify"}]
    BY <1>1 DEF Inv, TypeOK
  <2>3. \A role \in Role : session'[role] # None => db'[session'[role].on].made # None
    BY <1>1, <1>3, <1>4 DEF Inv, TypeOK
  <2> QED BY <1>1, <2>1, <2>2, <2>3 DEF Inv, TypeOK, Db
<1>6. Owned'
  <2>1. t = Target(r)
    BY DEF t
  <2>2. ASSUME NEW q \in Run, result'[q] = None, step'[q] \notin Early PROVE db'[Target(q)'].made = q
    <3>1. CASE q = r
      BY <3>1, <2>1, <1>1, <1>3 DEF Target, Created
    <3>2. CASE q # r
      <4>1. db[Target(q)].made = q /\ Target(q) \in Database
        BY <3>2, <2>2, <1>1, <1>3 DEF Inv, Owned, TypeOK, Target
      <4>2. Target(q) # t
        BY <4>1, <1>1, NoneAssumption
      <4> QED BY <4>1, <4>2, <1>1, <1>3 DEF Target
    <3> QED BY <3>1, <3>2
  <2>3. ASSUME NEW d \in Database, NEW q \in Run, db'[d].made = q
        PROVE  Target(q)' = d /\ d \notin Existing /\ step'[q] \notin Early
    <3>1. CASE d = t
      BY <3>1, <2>1, <2>3, <1>1, <1>3 DEF Target, Created, Early
    <3>2. CASE d # t
      BY <3>2, <2>3, <1>1, <1>3 DEF Inv, Owned, Target
    <3> QED BY <3>1, <3>2
  <2> QED BY <2>2, <2>3 DEF Owned
<1>7. Shut'
  BY <1>1, <1>2, <1>3 DEF Inv, TypeOK, Shut, Created
<1>8. Trapped'
  BY <1>1, <1>3 DEF Inv, TypeOK, Trapped, Early
<1>9. LateSessions'
  <2> SUFFICES ASSUME NEW role \in Role, session[role] # None, session[role].early = FALSE
              PROVE  role = Inspector /\ step'[db'[session[role].on].made] = "verify"
    BY <1>1 DEF LateSessions
  <2>1. role = Inspector /\ step[db[session[role].on].made] = "verify"
    BY DEF Inv, LateSessions
  <2>2. db[session[role].on].made \in Run \ {r}
    BY <1>3, <1>4 DEF Inv, TypeOK
  <2> QED BY <2>1, <2>2, <1>3, <1>4
<1>10. LateWriters'
  <2> SUFFICES ASSUME NEW d \in Database, FALSE \in db'[d].writers
              PROVE  db'[d].made # None /\ step'[db'[d].made] = "verify" /\ MayWrite(Inspector, d)'
    BY DEF LateWriters
  <2>1. d # t
    <3>1. db'[t].writers = {}
      BY <1>3 DEF Created
    <3> QED BY <3>1
  <2>2. db[d].made # None /\ step[db[d].made] = "verify" /\ MayWrite(Inspector, d)
    BY <2>1, <1>3 DEF Inv, LateWriters
  <2>3. db[d].made \in Run \ {r}
    BY <2>1, <2>2, <1>3 DEF Inv, TypeOK
  <2> QED BY <2>1, <2>2, <2>3, <1>3 DEF MayWrite, Writable
<1>11. ReportedIsIsolated' /\ FailureIsAnnounced'
  <2>1. \A d \in Database, q \in Run : db'[d].made = q /\ result[q] # None =>
          d # t /\ q # r /\ db'[d] = db[d] /\ step'[q] = step[q]
    BY <1>1, <1>3 DEF Created
  <2> QED BY <2>1, <1>1, NoneAssumption
          DEF Inv, ReportedIsIsolated, FailureIsAnnounced, MayWrite, Writable
<1> QED BY <1>5, <1>6, <1>7, <1>8, <1>9, <1>10, <1>11 DEF Inv

\* The report: the checks have seen what ReportedIsIsolated says.
LEMMA VerifyInv == ASSUME Inv, NEW r \in Run, Verify(r) PROVE Inv'
<1>1. result[r] = None /\ step[r] = "verify"
  BY DEF Verify, At
<1>2. CASE ~Verified(Target(r))
  BY <1>1, <1>2, EndInv DEF Verify
<1>3. CASE Verified(Target(r))
  <2>1. /\ trap' = [trap EXCEPT ![r] = FALSE] /\ result' = [result EXCEPT ![r] = "isolated"]
        /\ UNCHANGED <<step, args, warned, dump, db, session>>
    BY <1>3 DEF Verify
  <2>2. TypeOK'
    BY <2>1 DEF Inv, TypeOK
  <2>3. Owned' /\ Shut' /\ Trapped'
    BY <2>1, NoneAssumption DEF Inv, TypeOK, Owned, Shut, Trapped, Target
  <2>4. LateSessions' /\ LateWriters'
    BY <2>1 DEF Inv, LateSessions, LateWriters, MayWrite, Writable
  <2>5. ReportedIsIsolated'
    <3> SUFFICES ASSUME NEW d \in Database, NEW q \in Run, db[d].made = q, result'[q] = "isolated"
                PROVE  /\ ~MayWrite(Inspector, d)
                       /\ db[d].data /\ ~db[d].public /\ db[d].connect \subseteq {Inspector}
      BY <2>1 DEF ReportedIsIsolated, MayWrite, Writable
    <3>1. CASE q = r
      <4>1. Target(r) = d
        BY <3>1 DEF Inv, Owned
      <4>2. ~MayWrite(Inspector, d)
        BY <4>1, <1>3 DEF Verified, MayWrite
      <4>3. db[d].data = TRUE /\ db[d].public = FALSE /\ db[d].connect \subseteq {Inspector}
        BY <3>1, <1>1 DEF Inv, Shut
      <4> QED BY <4>2, <4>3
    <3>2. CASE q # r
      BY <3>2, <2>1 DEF Inv, TypeOK, ReportedIsIsolated
    <3> QED BY <3>1, <3>2
  <2>6. FailureIsAnnounced'
    BY <2>1 DEF Inv, TypeOK, FailureIsAnnounced
  <2> QED BY <2>2, <2>3, <2>4, <2>5, <2>6 DEF Inv
<1> QED BY <1>2, <1>3

\* A session begins: late only where PUBLIC is shut out, hence by the last grant.
LEMMA ConnectInv ==
    ASSUME Inv, NEW role \in Role, NEW d \in Database, Connect(role, d) PROVE Inv'
<1>1. /\ session[role] = None /\ db[d].made # None
      /\ session' = [session EXCEPT ![role] = [on |-> d, early |-> db[d].public]]
      /\ UNCHANGED <<step, args, trap, result, warned, dump, db>>
  BY DEF Connect, runVars
<1>2. db[d].public = FALSE => role \in db[d].connect
  BY DEF Connect
<1>3. /\ session'[role].on = d /\ session'[role].early = db[d].public
      /\ \A o \in Role \ {role} : session'[o] = session[o]
  BY <1>1 DEF Inv, TypeOK
<1>4. db[d].public \in BOOLEAN /\ db[d].made \in Run
  BY <1>1 DEF Inv, TypeOK
<1>5. TypeOK'
  <2>1. session' \in [Role -> {None} \cup [on : Database, early : BOOLEAN]]
    BY <1>1, <1>4 DEF Inv, TypeOK
  <2>2. \A o \in Role : session'[o] # None => db[session'[o].on].made # None
    BY <1>1, <1>3 DEF Inv, TypeOK
  <2> QED BY <1>1, <2>1, <2>2 DEF Inv, TypeOK
<1>6. Owned' /\ Shut' /\ Trapped' /\ ReportedIsIsolated' /\ FailureIsAnnounced'
  BY <1>1 DEF Inv, Owned, Shut, Trapped, Target, ReportedIsIsolated, FailureIsAnnounced,
     MayWrite, Writable
<1>7. LateWriters'
  BY <1>1 DEF Inv, LateWriters, MayWrite, Writable
<1>8. LateSessions'
  <2> SUFFICES ASSUME NEW o \in Role, session'[o] # None, session'[o].early = FALSE
              PROVE  o = Inspector /\ step[db[session'[o].on].made] = "verify"
    BY <1>1 DEF LateSessions
  <2>1. CASE o = role
    <3>1. role \in db[d].connect
      BY <2>1, <1>2, <1>3
    <3>2. role = Inspector /\ step[db[d].made] = "verify"
      BY <3>1, <1>4 DEF Inv, Shut
    <3> QED BY <2>1, <3>2, <1>3
  <2>2. CASE o # role
    BY <2>2, <1>3 DEF Inv, LateSessions
  <2> QED BY <2>1, <2>2
<1> QED BY <1>5, <1>6, <1>7, <1>8 DEF Inv

\* A session ends.
LEMMA DisconnectInv == ASSUME Inv, NEW role \in Role, Disconnect(role) PROVE Inv'
<1>1. /\ session' = [session EXCEPT ![role] = None]
      /\ UNCHANGED <<step, args, trap, result, warned, dump, db>>
  BY DEF Disconnect, runVars
<1>2. TypeOK' /\ LateSessions'
  BY <1>1 DEF Inv, TypeOK, LateSessions
<1>3. Owned' /\ Shut' /\ Trapped' /\ ReportedIsIsolated' /\ FailureIsAnnounced'
  BY <1>1 DEF Inv, Owned, Shut, Trapped, Target, ReportedIsIsolated, FailureIsAnnounced,
     MayWrite, Writable
<1>4. LateWriters'
  BY <1>1 DEF Inv, LateWriters, MayWrite, Writable
<1> QED BY <1>2, <1>3, <1>4 DEF Inv

\* A write: a late one is the inspection role's, past the last command.
LEMMA WriteInv == ASSUME Inv, NEW role \in Role, Write(role) PROVE Inv'
<1> DEFINE t == session[role].on
           change == [db[t] EXCEPT !.writers = @ \cup {session[role].early}]
<1>1. /\ session[role] # None /\ MayWrite(role, t)
      /\ db' = [db EXCEPT ![t] = change]
      /\ UNCHANGED <<step, args, trap, result, warned, dump, session>>
  BY DEF Write, runVars
<1>2. t \in Database /\ session[role].early \in BOOLEAN /\ db[t] \in Db
  BY <1>1 DEF Inv, TypeOK, Db
<1>3. /\ change \in Db /\ change.writers = db[t].writers \cup {session[role].early}
      /\ change.made = db[t].made /\ change.public = db[t].public
      /\ change.connect = db[t].connect /\ change.data = db[t].data /\ change.grants = db[t].grants
  BY <1>2 DEF Db
<1>4. \A d \in Database : /\ db'[d].made = db[d].made /\ db'[d].public = db[d].public
                          /\ db'[d].connect = db[d].connect /\ db'[d].data = db[d].data
                          /\ db'[d].grants = db[d].grants
                          /\ d # t => db'[d] = db[d]
  BY <1>1, <1>2, <1>3 DEF Inv, TypeOK
<1>5. db'[t].writers = db[t].writers \cup {session[role].early}
  BY <1>1, <1>2, <1>3 DEF Inv, TypeOK
<1>6. db' \in [Database -> Db]
  BY <1>1, <1>3 DEF Inv, TypeOK, Db
<1> HIDE DEF change, t
<1>7. TypeOK'
  <2>1. \A o \in Role : session[o] # None => db'[session[o].on].made # None
    BY <1>4 DEF Inv, TypeOK
  <2> QED BY <1>1, <1>6, <2>1 DEF Inv, TypeOK, Db
<1>8. Owned' /\ Trapped'
  BY <1>1, <1>4 DEF Inv, TypeOK, Owned, Trapped, Target
<1>9. Shut'
  BY <1>1, <1>4 DEF Inv, TypeOK, Shut
<1>10. LateSessions'
  BY <1>1, <1>4 DEF Inv, TypeOK, LateSessions
<1>11. \A d \in Database : MayWrite(Inspector, d)' <=> MayWrite(Inspector, d)
  BY <1>4 DEF MayWrite, Writable
<1>12. LateWriters'
  <2>0. ASSUME NEW d \in Database, FALSE \in db'[d].writers
        PROVE  db[d].made # None /\ step[db[d].made] = "verify" /\ MayWrite(Inspector, d)
    <3>1. CASE FALSE \in db[d].writers
      BY <3>1 DEF Inv, LateWriters
    <3>2. CASE FALSE \notin db[d].writers
      <4>1. d = t
        BY <3>2, <2>0, <1>4
      <4>2. session[role].early = FALSE
        BY <4>1, <3>2, <2>0, <1>5
      <4>3. role = Inspector /\ step[db[t].made] = "verify" /\ db[t].made # None
        BY <4>2, <1>1 DEF Inv, LateSessions, TypeOK, t
      <4> QED BY <4>1, <4>3, <1>1
    <3> QED BY <3>1, <3>2
  <2> SUFFICES ASSUME NEW d \in Database, FALSE \in db'[d].writers
              PROVE  db'[d].made # None /\ step'[db'[d].made] = "verify" /\ MayWrite(Inspector, d)'
    BY DEF LateWriters
  <2>1. db[d].made # None /\ step[db[d].made] = "verify" /\ MayWrite(Inspector, d)
    BY <2>0
  <2>2. db'[d].made = db[d].made /\ step' = step
    BY <1>1, <1>4
  <2>3. MayWrite(Inspector, d)'
    BY <2>1, <1>11
  <2> QED BY <2>1, <2>2, <2>3
<1>13. ReportedIsIsolated' /\ FailureIsAnnounced'
  BY <1>1, <1>4, <1>11 DEF Inv, ReportedIsIsolated, FailureIsAnnounced
<1> QED BY <1>7, <1>8, <1>9, <1>10, <1>12, <1>13 DEF Inv

\* A database is dropped: its run is over and nobody is connected to it.
LEMMA DropInv == ASSUME Inv, NEW d \in Database, Drop(d) PROVE Inv'
<1>1. /\ db[d].made # None /\ result[db[d].made] # None
      /\ \A role \in Role : session[role] # None => session[role].on # d
      /\ db' = [db EXCEPT ![d] = Absent]
      /\ UNCHANGED <<step, args, trap, result, warned, dump, session>>
  BY DEF Drop, runVars
<1>2. /\ db'[d] = Absent /\ \A e \in Database \ {d} : db'[e] = db[e]
      /\ Absent \in Db /\ Absent.made = None /\ Absent.writers = {}
  BY <1>1 DEF Inv, TypeOK, Absent, Db
<1>3. \A e \in Database : \A r \in Run : db'[e].made = r => e # d /\ db'[e] = db[e]
  BY <1>2, NoneAssumption
<1>4. \A role \in Role : session[role] # None =>
        session[role].on \in Database \ {d} /\ db'[session[role].on] = db[session[role].on]
  BY <1>1, <1>2 DEF Inv, TypeOK
<1>5. TypeOK'
  <2>1. db' \in [Database -> Db]
    BY <1>1, <1>2 DEF Inv, TypeOK, Db
  <2>2. \A role \in Role : session[role] # None => db'[session[role].on].made # None
    BY <1>4 DEF Inv, TypeOK
  <2> QED BY <1>1, <2>1, <2>2 DEF Inv, TypeOK, Db
<1>6. Owned'
  <2>1. ASSUME NEW r \in Run, result[r] = None, step[r] \notin Early PROVE db'[Target(r)].made = r
    <3>1. db[Target(r)].made = r /\ Target(r) \in Database
      BY <2>1 DEF Inv, TypeOK, Owned, Target
    <3>2. Target(r) # d
      BY <3>1, <2>1, <1>1
    <3> QED BY <3>1, <3>2, <1>2
  <2>2. \A e \in Database : \A r \in Run : db'[e].made = r =>
          Target(r) = e /\ e \notin Existing /\ step[r] \notin Early
    BY <1>3 DEF Inv, Owned
  <2> QED BY <2>1, <2>2, <1>1 DEF Owned, Target
<1>7. Shut' /\ Trapped'
  BY <1>1, <1>3 DEF Inv, Shut, Trapped
<1>8. LateSessions'
  BY <1>1, <1>4 DEF Inv, LateSessions
<1>9. LateWriters'
  <2> SUFFICES ASSUME NEW e \in Database, FALSE \in db'[e].writers
              PROVE  db'[e].made # None /\ step[db'[e].made] = "verify" /\ MayWrite(Inspector, e)'
    BY <1>1 DEF LateWriters
  <2>1. e # d
    BY <1>2
  <2>2. db'[e] = db[e]
    BY <2>1, <1>2
  <2>3. db[e].made # None /\ step[db[e].made] = "verify" /\ MayWrite(Inspector, e)
    BY <2>2 DEF Inv, LateWriters
  <2> QED BY <2>2, <2>3 DEF MayWrite, Writable
<1>10. ReportedIsIsolated' /\ FailureIsAnnounced'
  BY <1>1, <1>3 DEF Inv, ReportedIsIsolated, FailureIsAnnounced, MayWrite, Writable
<1> QED BY <1>5, <1>6, <1>7, <1>8, <1>9, <1>10 DEF Inv

\* Every step keeps the invariant.
LEMMA StepInv == Inv /\ [Next]_vars => Inv'
<1> SUFFICES ASSUME Inv, [Next]_vars PROVE Inv'
  OBVIOUS
<1>1. CASE UNCHANGED vars
  <2>1. UNCHANGED <<step, args, trap, result, warned, dump, db, session>>
    BY <1>1 DEF vars, runVars
  <2>2. TypeOK' /\ Owned' /\ Shut' /\ Trapped'
    BY <2>1 DEF Inv, TypeOK, Owned, Shut, Trapped, Target
  <2>3. LateSessions' /\ LateWriters' /\ ReportedIsIsolated' /\ FailureIsAnnounced'
    BY <2>1 DEF Inv, LateSessions, LateWriters, ReportedIsIsolated, FailureIsAnnounced,
       MayWrite, Writable
  <2> QED BY <2>2, <2>3 DEF Inv
<1>2. ASSUME NEW r \in Run, Script(r) PROVE Inv'
  <2> DEFINE old == db[Target(r)]
  <2>0. result[r] = None /\ step[r] \notin Early => old.made = r /\ old \in Db /\ Target(r) \in Database
    BY DEF Inv, TypeOK, Owned, Target, Db
  <2>1. CASE Check(r)
    <3>1. CASE End(r, "failed")
      BY <3>1, <2>1, EndInv DEF Check, At
    <3>2. CASE Goto(r, "create") /\ UNCHANGED <<trap, db>>
      BY <3>2, <2>1, MoveInv DEF Check
    <3> QED BY <2>1, <3>1, <3>2 DEF Check
  <2>2. CASE Create(r)
    BY <2>2, CreateInv
  <2>3. CASE SetTrap(r)
    BY <2>3, MoveInv DEF SetTrap
  <2>4. CASE Close(r)
    <3> DEFINE change == [old EXCEPT !.public = FALSE]
    <3>1. Command(r, "close", "load", change) /\ result[r] = None /\ step[r] = "close"
      BY <2>4 DEF Close, Command, At
    <3>2. /\ change \in Db /\ change.made = old.made /\ change.writers = old.writers
          /\ change.public = FALSE /\ change.connect = old.connect
      BY <2>0, <3>1 DEF Db, Early
    <3>3. old.connect = {}
      BY <2>0, <3>1 DEF Inv, Shut, Early
    <3> HIDE DEF change
    <3> QED BY <3>1, <3>2, <3>3, CommandInv
  <2>5. CASE Load(r)
    <3> DEFINE change == [old EXCEPT !.data = TRUE, !.grants = dump]
    <3>1. Command(r, "load", "revoke", change) /\ result[r] = None /\ step[r] = "load"
      BY <2>5 DEF Load, Command, At
    <3>2. /\ change \in Db /\ change.made = old.made /\ change.writers = old.writers
          /\ change.public = old.public /\ change.connect = old.connect /\ change.data = TRUE
      BY <2>0, <3>1 DEF Db, Early, Inv, TypeOK
    <3>3. old.connect = {} /\ old.public = FALSE
      BY <2>0, <3>1 DEF Inv, Shut, Early
    <3> HIDE DEF change
    <3> QED BY <3>1, <3>2, <3>3, CommandInv
  <2>6. CASE Revoke(r)
    <3> DEFINE change == [old EXCEPT !.grants = @ \ {"table", "column"}]
    <3>1. Command(r, "revoke", "read", change) /\ result[r] = None /\ step[r] = "revoke"
      BY <2>6 DEF Revoke, Command, At
    <3>2. /\ change \in Db /\ change.made = old.made /\ change.writers = old.writers
          /\ change.public = old.public /\ change.connect = old.connect /\ change.data = old.data
      BY <2>0, <3>1 DEF Db, Early
    <3>3. old.connect = {} /\ old.public = FALSE /\ old.data = TRUE
      BY <2>0, <3>1 DEF Inv, Shut, Early
    <3> HIDE DEF change
    <3> QED BY <3>1, <3>2, <3>3, CommandInv
  <2>7. CASE Read(r)
    <3>1. Command(r, "read", "admit", old) /\ result[r] = None /\ step[r] = "read"
      BY <2>7 DEF Read, Command, At
    <3>2. old \in Db
      BY <2>0, <3>1 DEF Early
    <3>3. old.connect = {} /\ old.public = FALSE /\ old.data = TRUE
      BY <2>0, <3>1 DEF Inv, Shut, Early
    <3> QED BY <3>1, <3>2, <3>3, CommandInv
  <2>8. CASE Admit(r)
    <3> DEFINE change == [old EXCEPT !.connect = {Inspector}]
    <3>1. Command(r, "admit", "verify", change) /\ result[r] = None /\ step[r] = "admit"
      BY <2>8 DEF Admit, Command, At
    <3>2. /\ change \in Db /\ change.made = old.made /\ change.writers = old.writers
          /\ change.public = old.public /\ change.connect = {Inspector} /\ change.data = old.data
      BY <2>0, <3>1 DEF Db, Early, Role
    <3>3. old.public = FALSE /\ old.data = TRUE
      BY <2>0, <3>1 DEF Inv, Shut, Early
    <3> HIDE DEF change
    <3> QED BY <3>1, <3>2, <3>3, CommandInv
  <2>9. CASE Verify(r)
    BY <2>9, VerifyInv
  <2>10. CASE Fail(r) \/ Kill(r)
    BY <2>10, EndInv DEF Fail, Kill
  <2> QED BY <1>2, <2>1, <2>2, <2>3, <2>4, <2>5, <2>6, <2>7, <2>8, <2>9, <2>10 DEF Script
<1> QED BY <1>1, <1>2, ConnectInv, DisconnectInv, WriteInv, DropInv DEF Next

\* The invariant holds in every reachable state.
THEOREM Invariance == Spec => []Inv
  BY InitInv, StepInv, PTL DEF Spec

\* Type correctness of runs, databases and sessions.
THEOREM TypeCorrect == Spec => []TypeOK
<1>1. Inv => TypeOK BY DEF Inv
<1> QED BY <1>1, Invariance, PTL

\* A clone that the script reports isolated is isolated as long as it exists.
THEOREM ReportIsTrue == Spec => []ReportedIsIsolated
<1>1. Inv => ReportedIsIsolated BY DEF Inv
<1> QED BY <1>1, Invariance, PTL

\* No session that began after PUBLIC was shut out has written to it: the role is
\* admitted by the last command, and what it could write the checks would see.
THEOREM ReportIsOfTheDump == Spec => []ReportedIsUnwritten
<1>1. Inv => ReportedIsUnwritten
  BY DEF Inv, ReportedIsUnwritten, LateWriters, ReportedIsIsolated
<1> QED BY <1>1, Invariance, PTL

\* A failure after createdb was heard of is announced.
THEOREM FailureIsHeard == Spec => []FailureIsAnnounced
<1>1. Inv => FailureIsAnnounced BY DEF Inv
<1> QED BY <1>1, Invariance, PTL

\* No run of the script changes a database that it has not made.
THEOREM NothingIsOverwritten == Spec => NothingOverwritten
<1>1. ASSUME Inv, NEW r \in Run, Script(r), NEW d \in Database
      PROVE  db'[d] = db[d] \/ (d \notin Existing /\ db[d].made \in {None, r} /\ db'[d].made = r)
  <2>1. CASE UNCHANGED db
    BY <2>1
  <2>2. CASE Create(r)
    BY <2>2 DEF Create, There, Created, Inv, TypeOK
  <2>3. ASSUME NEW s, NEW then, NEW change, Command(r, s, then, change), s \notin Early,
               change.made = db[Target(r)].made
        PROVE  db'[d] = db[d] \/ (d \notin Existing /\ db[d].made \in {None, r} /\ db'[d].made = r)
    <3>1. db[Target(r)].made = r /\ Target(r) \in Database
      BY <1>1, <2>3 DEF Command, At, Inv, Owned, TypeOK, Target
    <3>2. db' = [db EXCEPT ![Target(r)] = change]
      BY <2>3 DEF Command
    <3>3. CASE d = Target(r)
      BY <1>1, <3>1, <3>2, <3>3, <2>3 DEF Inv, Owned, TypeOK
    <3>4. CASE d # Target(r)
      BY <1>1, <3>2, <3>4 DEF Inv, TypeOK
    <3> QED BY <3>3, <3>4
  <2>4. CASE Close(r) \/ Load(r) \/ Revoke(r) \/ Read(r) \/ Admit(r)
    <3> DEFINE old == db[Target(r)]
    <3>1. old \in Db
      BY <1>1 DEF Inv, TypeOK, Target, Db
    <3>2. CASE Close(r)
      <4> DEFINE change == [old EXCEPT !.public = FALSE]
      <4>1. Command(r, "close", "load", change)
        BY <3>2 DEF Close
      <4>2. change.made = old.made
        BY <3>1 DEF Db
      <4> HIDE DEF change
      <4> QED BY <4>1, <4>2, <2>3 DEF Early
    <3>3. CASE Load(r)
      <4> DEFINE change == [old EXCEPT !.data = TRUE, !.grants = dump]
      <4>1. Command(r, "load", "revoke", change)
        BY <3>3 DEF Load
      <4>2. change.made = old.made
        BY <3>1 DEF Db
      <4> HIDE DEF change
      <4> QED BY <4>1, <4>2, <2>3 DEF Early
    <3>4. CASE Revoke(r)
      <4> DEFINE change == [old EXCEPT !.grants = @ \ {"table", "column"}]
      <4>1. Command(r, "revoke", "read", change)
        BY <3>4 DEF Revoke
      <4>2. change.made = old.made
        BY <3>1 DEF Db
      <4> HIDE DEF change
      <4> QED BY <4>1, <4>2, <2>3 DEF Early
    <3>5. CASE Read(r)
      BY <3>5, <2>3 DEF Read, Early
    <3>6. CASE Admit(r)
      <4> DEFINE change == [old EXCEPT !.connect = {Inspector}]
      <4>1. Command(r, "admit", "verify", change)
        BY <3>6 DEF Admit
      <4>2. change.made = old.made
        BY <3>1 DEF Db
      <4> HIDE DEF change
      <4> QED BY <4>1, <4>2, <2>3 DEF Early
    <3> QED BY <2>4, <3>2, <3>3, <3>4, <3>5, <3>6
  <2>5. CASE Check(r) \/ SetTrap(r) \/ Verify(r) \/ Fail(r) \/ Kill(r)
    BY <2>5, <2>1 DEF Check, SetTrap, Verify, Fail, Kill, End
  <2> QED BY <1>1, <2>2, <2>4, <2>5 DEF Script
<1>2. Inv => [\A r \in Run : Script(r) => \A d \in Database :
         db'[d] = db[d] \/ (d \notin Existing /\ db[d].made \in {None, r} /\ db'[d].made = r)]_vars
  BY <1>1
<1> QED BY <1>2, Invariance, PTL DEF NothingOverwritten
==============================================================================
