--------------------------- MODULE AdmissionProofs ---------------------------
(***************************************************************************)
(* What a caller is told and what it writes is permitted, for any set of   *)
(* calls, callers and policies and any number of changes of the policy.    *)
(*                                                                         *)
(* A step of a call leaves the locals of the other calls alone and only    *)
(* adds to what is committed, and what is committed keeps its owner and    *)
(* parent.  The invariant is therefore one formula for each call, CallInv, *)
(* and two about what is committed.                                        *)
(***************************************************************************)
EXTENDS Admission, TLAPS

\* Where a call is agrees with what it was asked to do.
OpInv(r) ==
    /\ pc[r] # "idle" => input[r] \in Inputs
    /\ pc[r] \in {"preflight", "parse", "create", "context", "parent", "lookup"}
            => Op(r) = "create"
    /\ pc[r] = "parent" => input[r].parent # None
    /\ pc[r] \in {"read", "update", "target"} => Op(r) = "update"
    /\ pc[r] \in {"callback", "decide"} => Op(r) \in {"create", "update"}
    /\ pc[r] = "write" => Op(r) \in {"create", "identity", "update"}
    /\ pc[r] \in {"get", "select"} => Op(r) \in {"get", "list"}

\* s exists, is owned, and so is its parent.
Owned(s) == /\ s \in Exists /\ Owner(s) # None
            /\ Parent(s) # None => Owner(Parent(s)) # None

\* What was read about a parent or a target is still so.
FactsInv(r) ==
    /\ /\ pc[r] \in {"lookup", "callback", "decide", "write"}
       /\ Op(r) = "create" /\ input[r].parent # None
       => Owned(input[r].parent) /\ facts[r] = FactsOf(input[r].parent)
    /\ pc[r] \in {"callback", "decide", "write"} /\ Op(r) = "update"
       => Owned(input[r].target) /\ facts[r] = FactsOf(input[r].target)

\* A selected receipt is that of a committed creation in the call's scope.
SeenInv(r) ==
    seen[r] # None =>
        /\ pc[r] \in {"callback", "decide", "answered"}
        /\ Op(r) = "create" /\ input[r].key # None
        /\ seen[r] \in written /\ Op(seen[r]) = "create"
        /\ Scope(seen[r]) = Scope(r)

\* The permissions a call holds are those of policies it ran under.
PermsInv(r) ==
    /\ deciding[r] \subseteq during[r]
    /\ pc[r] = "idle" => deciding[r] = {}
    /\ Running(r) => policy \in during[r]
    /\ pc[r] \in {"update", "target", "select"} =>
            \E p \in during[r] : perms[r]["read"] = p[Me(r)]["read"]
    /\ pc[r] = "decide" =>
        /\ policy \in deciding[r]
        /\ Op(r) = "create" =>
                \E p \in deciding[r] : perms[r]["create"] = p[Me(r)]["create"]
        /\ Op(r) = "update" =>
                \E p \in deciding[r] : perms[r]["read"] = p[Me(r)]["read"]
    /\ pc[r] = "write" => MayWrite(r)

\* Nothing is told before the answer, and then only what is readable.
TellInv(r) ==
    /\ pc[r] # "answered" => shown[r] = {} /\ noted[r] = None /\ answer[r] = None
    /\ \A s \in Told(r) : \E p \in during[r] : MayRead(p, Me(r), s)

ReplayInv(r) ==
    /\ pc[r] = "answered" /\ Replays(r)
    /\ answer[r] \in {"created", "conflict", "precondition"}
    => Reauthorized(r)

CallInv(r) ==
    OpInv(r) /\ FactsInv(r) /\ SeenInv(r) /\ PermsInv(r) /\ TellInv(r) /\ ReplayInv(r)

StoredInv ==
    \A s \in written :
        /\ pc[s] = "answered" /\ input[s] \in Inputs
        /\ Op(s) \in {"create", "identity", "update"}
        /\ MayWrite(s)

ReceiptInv ==
    \A c \in Scopes : receipt[c] # None =>
        receipt[c] \in written /\ Op(receipt[c]) = "create" /\ Scope(receipt[c]) = c

Inv == TypeOK /\ StoredInv /\ ReceiptInv /\ \A r \in Call : CallInv(r)
-----------------------------------------------------------------------------
(* What is committed keeps its owner and parent.                           *)

\* The fields of an input.
LEMMA InputShape ==
    ASSUME NEW i \in Inputs
    PROVE  /\ i.caller \in Caller
           /\ i.op \in {"create", "identity", "update", "get", "list"}
           /\ i.op \in {"create", "identity"} =>
                /\ i.source \in Sources /\ i.parent \in Call \cup {None}
                /\ i.key \in Keys \cup {None}
           /\ i.op \in {"update", "get"} => i.target \in Call
  BY InputsAssumption DEF Input

Grows == written \subseteq written' /\ \A s \in written : input'[s] = input[s]

\* Systems, their owners and their parents last.
LEMMA OwnerKeeps ==
    ASSUME Grows, NEW s
    PROVE  /\ s \in Exists => s \in Exists' /\ Parent(s)' = Parent(s)
           /\ Owner(s) # None => s \in Exists /\ Owner(s)' = Owner(s)
  BY DEF Grows, Exists, Owner, Parent, Op

LEMMA OwnedKeeps ==
    ASSUME Grows, NEW s, Owned(s)
    PROVE  /\ Owned(s)' /\ Owner(s)' = Owner(s) /\ Parent(s)' = Parent(s)
           /\ FactsOf(s)' = FactsOf(s)
  <1>1. s \in Exists' /\ Parent(s)' = Parent(s) /\ Owner(s)' = Owner(s)
    BY OwnerKeeps DEF Owned
  <1>2. CASE Parent(s) = None
    <2>1. Owned(s)'
      BY <1>1, <1>2 DEF Owned
    <2>2. FactsOf(s)' = FactsOf(s)
      BY <1>1, <1>2 DEF FactsOf
    <2>3. QED
      BY <1>1, <2>1, <2>2
  <1>3. CASE Parent(s) # None
    <2>1. Owner(Parent(s)) # None
      BY <1>3 DEF Owned
    <2>2. \A t : Owner(t) # None => Owner(t)' = Owner(t)
      BY OwnerKeeps
    <2>3. Owner(Parent(s))' = Owner(Parent(s))
      <3> DEFINE t == Parent(s)
      <3>1. Owner(t) # None => (IF t \in written' /\ input'[t].op = "create"
                                THEN input'[t].source ELSE None) = Owner(t)
        BY DEF Grows, Owner, Op
      <3>2. QED
        BY <1>1, <2>1, <3>1 DEF Owner, Op
    <2>4. Owned(s)'
      BY <1>1, <2>1, <2>3 DEF Owned
    <2>5. FactsOf(s)' = FactsOf(s)
      BY <1>1, <2>3 DEF FactsOf
    <2>6. QED
      BY <1>1, <2>4, <2>5
  <1>4. QED
    BY <1>2, <1>3

\* What a policy lets a caller read stays readable under it.
LEMMA MayReadKeeps ==
    ASSUME Grows, NEW p, NEW c, NEW s, MayRead(p, c, s)
    PROVE  MayRead(p, c, s)'
  <1>1. Owned(s)
    BY DEF MayRead, Owned
  <1>2. Owned(s)' /\ Owner(s)' = Owner(s) /\ Parent(s)' = Parent(s)
        /\ FactsOf(s)' = FactsOf(s)
    BY <1>1, OwnedKeeps
  <1>3. Parent(s) # None => Owner(Parent(s))' = Owner(Parent(s))
    BY <1>2 DEF FactsOf
  <1>4. QED
    BY <1>2, <1>3 DEF MayRead, Owned

\* A permission to write outlasts every change of the policy.
LEMMA MayWriteKeeps ==
    ASSUME Grows, NEW r, input'[r] = input[r], deciding[r] \subseteq deciding'[r],
           MayWrite(r)
    PROVE  MayWrite(r)'
  <1> PICK t : t = input[r].target
    OBVIOUS
  <1> PICK u : u = Parent(r)
    OBVIOUS
  <1>1. Op(r)' = Op(r) /\ Me(r)' = Me(r) /\ Parent(r)' = u /\ input'[r].target = t
    BY DEF Op, Me, Parent
  <1>2. \A p : MayRead(p, Me(r), t) => MayRead(p, Me(r), t)' /\ Owner(t)' = Owner(t)
    <2> PICK c : c = Me(r)
      OBVIOUS
    <2> SUFFICES ASSUME NEW p, MayRead(p, c, t)
                 PROVE  MayRead(p, c, t)' /\ Owner(t)' = Owner(t)
      BY <1>1 DEF MayRead
    <2>1. Owner(t)' = Owner(t)
      BY OwnerKeeps DEF MayRead
    <2>2. QED
      BY <2>1, MayReadKeeps
  <1>3. \A p : MayRead(p, Me(r), u) => MayRead(p, Me(r), u)' /\ Owner(u)' = Owner(u)
    <2> PICK c : c = Me(r)
      OBVIOUS
    <2> SUFFICES ASSUME NEW p, MayRead(p, c, u)
                 PROVE  MayRead(p, c, u)' /\ Owner(u)' = Owner(u)
      BY <1>1 DEF MayRead
    <2>1. Owner(u)' = Owner(u)
      BY OwnerKeeps DEF MayRead
    <2>2. QED
      BY <2>1, MayReadKeeps
  <1>4. Op(r) = "create" =>
            \E p, q \in deciding'[r] :
                /\ Allows(p[Me(r)]["create"], input[r].source, r)
                /\ u # None => /\ Allows(p[Me(r)]["create"], Owner(u)', u)
                               /\ MayRead(q, Me(r), u)'
    BY <1>3 DEF MayWrite
  <1>5. Op(r) = "update" =>
            \E p, q \in deciding'[r] :
                /\ MayRead(p, Me(r), t)'
                /\ Allows(q[Me(r)]["update"], Owner(t)', t)
    BY <1>2 DEF MayWrite
  <1>6. QED
    BY <1>1, <1>4, <1>5 DEF MayWrite, Op, Me, MayRead

LEMMA ReauthorizedKeeps ==
    ASSUME Grows, NEW r, input'[r] = input[r], seen'[r] = seen[r],
           deciding[r] \subseteq deciding'[r], Reauthorized(r)
    PROVE  Reauthorized(r)'
  <1> PICK t : t = seen[r]
    OBVIOUS
  <1> PICK c : c = Me(r)
    OBVIOUS
  <1> PICK p \in deciding[r], q \in deciding[r] :
            Allows(p[c]["create"], Owner(t), t) /\ MayRead(q, c, t)
    BY DEF Reauthorized
  <1>1. Owner(t)' = Owner(t)
    BY OwnerKeeps DEF MayRead
  <1>2. MayRead(q, c, t)'
    BY MayReadKeeps
  <1>3. Me(r)' = c /\ seen'[r] = t
    BY DEF Me
  <1>4. QED
    BY <1>1, <1>2, <1>3 DEF Reauthorized, MayRead

\* The locals of r are left alone, and so are the policies r has run under but
\* for one that takes effect.
Still(r) ==
    /\ pc'[r] = pc[r] /\ input'[r] = input[r] /\ perms'[r] = perms[r]
    /\ facts'[r] = facts[r] /\ seen'[r] = seen[r] /\ answer'[r] = answer[r]
    /\ shown'[r] = shown[r] /\ noted'[r] = noted[r]
    /\ during[r] \subseteq during'[r] /\ deciding[r] \subseteq deciding'[r]
    /\ deciding'[r] \subseteq during'[r]
    /\ pc[r] = "idle" => deciding'[r] = {}
    /\ Running(r) => policy' \in during'[r]
    /\ pc[r] = "decide" => policy' \in deciding'[r]

LEMMA FactsKeep ==
    ASSUME Grows, NEW r, FactsInv(r), input'[r] = input[r], facts'[r] = facts[r],
           \/ pc'[r] = pc[r]
           \/ pc'[r] = "callback" /\ pc[r] = "lookup"
           \/ pc'[r] = "decide" /\ pc[r] = "callback"
           \/ pc'[r] = "write" /\ pc[r] = "decide",
           pc[r] = "lookup" => Op(r) = "create"
    PROVE  FactsInv(r)'
  <1> PICK t : t = input[r].target
    OBVIOUS
  <1> PICK u : u = input[r].parent
    OBVIOUS
  <1>1. Owned(t) => Owned(t)' /\ FactsOf(t)' = FactsOf(t)
    BY OwnedKeeps
  <1>2. Owned(u) => Owned(u)' /\ FactsOf(u)' = FactsOf(u)
    BY OwnedKeeps
  <1>3. Op(r)' = Op(r) /\ input'[r].target = t /\ input'[r].parent = u
    BY DEF Op
  <1>4. /\ pc'[r] \in {"lookup", "callback", "decide", "write"}
        /\ Op(r) = "create" /\ u # None
        => Owned(u)' /\ facts'[r] = FactsOf(u)'
    BY <1>2 DEF FactsInv
  <1>5. pc'[r] \in {"callback", "decide", "write"} /\ Op(r) = "update"
        => Owned(t)' /\ facts'[r] = FactsOf(t)'
    BY <1>1 DEF FactsInv
  <1>6. QED
    BY <1>3, <1>4, <1>5 DEF FactsInv, Owned, FactsOf

LEMMA SeenKeeps ==
    ASSUME Grows, NEW r, SeenInv(r), input'[r] = input[r], seen'[r] = seen[r],
           pc'[r] = pc[r] \/ pc'[r] \in {"callback", "decide", "answered"}
    PROVE  SeenInv(r)'
  <1> PICK t : t = seen[r]
    OBVIOUS
  <1>1. t \in written => t \in written' /\ input'[t] = input[t]
    BY DEF Grows
  <1>2. QED
    BY <1>1 DEF SeenInv, Scope, Op, Me

LEMMA ToldKeeps ==
    ASSUME Grows, NEW r, TellInv(r), input'[r] = input[r], during[r] \subseteq during'[r],
           Told(r)' = Told(r)
    PROVE  \A s \in Told(r)' : \E p \in during'[r] : MayRead(p, Me(r), s)'
  <1> PICK c : c = Me(r)
    OBVIOUS
  <1> SUFFICES ASSUME NEW s \in Told(r)
               PROVE  \E p \in during'[r] : MayRead(p, Me(r), s)'
    OBVIOUS
  <1> PICK p \in during[r] : MayRead(p, c, s)
    BY DEF TellInv
  <1>1. MayRead(p, c, s)' /\ Me(r)' = c
    BY MayReadKeeps DEF Me
  <1>2. QED
    BY <1>1 DEF MayRead

LEMMA CallKeeps ==
    ASSUME Grows, NEW r, CallInv(r), Still(r)
    PROVE  CallInv(r)'
  <1> USE DEF Still
  <1>1. OpInv(r)'
    BY DEF CallInv, OpInv, Op
  <1>2. FactsInv(r)'
    BY FactsKeep DEF CallInv, OpInv
  <1>3. SeenInv(r)'
    BY SeenKeeps DEF CallInv
  <1>4. PermsInv(r)'
    <2>1. MayWrite(r) => MayWrite(r)'
      BY MayWriteKeeps
    <2>2. PermsInv(r)
      BY DEF CallInv
    <2>3. QED
      BY <2>1, <2>2 DEF PermsInv, Running, Op, Me
  <1>5. TellInv(r)'
    <2>1. Told(r)' = Told(r)
      BY DEF Told, Op
    <2>2. QED
      BY <2>1, ToldKeeps DEF CallInv, TellInv
  <1>6. ReplayInv(r)'
    <2>1. Reauthorized(r) => Reauthorized(r)'
      BY ReauthorizedKeeps
    <2>2. QED
      BY <2>1 DEF CallInv, ReplayInv, Replays
  <1>7. QED
    BY <1>1, <1>2, <1>3, <1>4, <1>5, <1>6 DEF CallInv
-----------------------------------------------------------------------------
(* Kinds of steps of a call.                                               *)

CallTypes ==
    /\ pc \in [Call -> Step \cup {"idle", "answered"}]
    /\ input \in [Call -> Inputs \cup {None}]
    /\ perms \in [Call -> [Action -> SUBSET Grant]]
    /\ facts \in [Call -> Facts]
    /\ seen \in [Call -> Call \cup {None}]
    /\ answer \in [Call -> Answer \cup {None}]
    /\ shown \in [Call -> SUBSET Call]
    /\ noted \in [Call -> Call \cup {None}]
    /\ during \in [Call -> SUBSET Policies]
    /\ deciding \in [Call -> SUBSET Policies]

\* Only the locals of r change.
Local(r) ==
    \A q \in Call \ {r} :
        /\ pc'[q] = pc[q] /\ input'[q] = input[q] /\ perms'[q] = perms[q]
        /\ facts'[q] = facts[q] /\ seen'[q] = seen[q] /\ answer'[q] = answer[q]
        /\ shown'[q] = shown[q] /\ noted'[q] = noted[q]
        /\ during'[q] = during[q] /\ deciding'[q] = deciding[q]

Good(r) == CallTypes' /\ Local(r) /\ CallInv(r)'

\* Before its answer a call has told nothing.
LEMMA UntoldStep ==
    ASSUME NEW r \in Call, CallInv(r), pc[r] # "answered", pc'[r] # "answered",
           shown'[r] = shown[r], noted'[r] = noted[r], answer'[r] = answer[r]
    PROVE  TellInv(r)' /\ ReplayInv(r)'
  <1>1. shown'[r] = {} /\ noted'[r] = None /\ answer'[r] = None
    BY DEF CallInv, TellInv
  <1>2. Told(r)' = {}
    BY <1>1, NoneAssumption DEF Told, Answer
  <1>3. QED
    BY <1>1, <1>2 DEF TellInv, ReplayInv

LEMMA ReplyStep ==
    ASSUME Inv, Grows, policy' = policy,
           NEW r \in Call, NEW what \in Answer, Running(r), Reply(r, what),
           NEW told \in SUBSET Call, shown' = [shown EXCEPT ![r] = told],
           NEW row \in Call \cup {None}, noted' = [noted EXCEPT ![r] = row],
           \A s \in Told(r)' : \E p \in during[r] : MayRead(p, Me(r), s)',
           /\ Replays(r) /\ what \in {"created", "conflict", "precondition"}
           => Reauthorized(r)
    PROVE  Good(r)
  <1>1. CallTypes
    BY DEF Inv, TypeOK, CallTypes
  <1>2. NoPerms \in [Action -> SUBSET Grant] /\ NoFacts \in Facts
    BY DEF NoPerms, NoFacts, Facts
  <1>3. CallTypes'
    BY <1>1, <1>2 DEF CallTypes, Reply, Goto
  <1>4. Local(r)
    BY <1>1 DEF Local, CallTypes, Reply, Goto
  <1>5. /\ pc'[r] = "answered" /\ answer'[r] = what /\ input' = input /\ seen' = seen
        /\ during' = during /\ deciding' = deciding /\ pc[r] \in Step
    BY <1>1 DEF CallTypes, Reply, Goto, Running
  <1>6. CallInv(r)
    BY DEF Inv
  <1>7. OpInv(r)'
    BY <1>5, <1>6 DEF CallInv, OpInv, Step
  <1>8. FactsInv(r)'
    BY <1>5 DEF FactsInv
  <1>9. SeenInv(r)'
    BY <1>5, <1>6, SeenKeeps DEF CallInv
  <1>10. PermsInv(r)'
    BY <1>5, <1>6 DEF CallInv, PermsInv, Running, Step
  <1>11. TellInv(r)'
    BY <1>5 DEF TellInv
  <1>12. ReplayInv(r)'
    <2>1. Reauthorized(r) => Reauthorized(r)'
      BY <1>5, ReauthorizedKeeps
    <2>2. QED
      BY <1>5, <2>1 DEF ReplayInv, Replays
  <1>13. QED
    BY <1>3, <1>4, <1>7, <1>8, <1>9, <1>10, <1>11, <1>12 DEF Good, CallInv

\* A transaction that is not committed changes nothing that is.
LEMMA DbStays ==
    ASSUME DbUnchanged, \A s \in written : input'[s] = input[s]
    PROVE  Grows /\ policy' = policy
  BY DEF DbUnchanged, Grows

\* An answer that names nothing.
LEMMA QuietReply ==
    ASSUME Inv, Grows, policy' = policy,
           NEW r \in Call, NEW what \in Answer, Running(r), Reply(r, what),
           UNCHANGED shown, noted' = [noted EXCEPT ![r] = None],
           what \in {"denied", "conflict", "precondition", "updated"} => Op(r) # "update",
           Replays(r) /\ what \in {"created", "conflict", "precondition"} => Reauthorized(r)
    PROVE  Good(r)
  <1>1. CallTypes
    BY DEF Inv, TypeOK, CallTypes
  <1>2. input' = input
    BY DEF Reply
  <1>4. shown[r] = {} /\ pc[r] # "answered"
    BY DEF Inv, CallInv, TellInv, Running, Step
  <1>5. shown' = [shown EXCEPT ![r] = {}]
    BY <1>1, <1>4 DEF CallTypes
  <1>6. shown'[r] = {} /\ noted'[r] = None /\ answer'[r] = what
    BY <1>1, <1>5 DEF CallTypes, Reply
  <1>7. Told(r)' = {}
    BY <1>2, <1>6 DEF Told, Op
  <1>8. QED
    BY <1>5, <1>7, ReplyStep

LEMMA RefuseStep ==
    ASSUME Inv, Grows, policy' = policy,
           NEW r \in Call, NEW why \in Answer, Running(r), Refuse(r, why),
           why \in {"denied", "conflict", "precondition", "updated"} => Op(r) # "update",
           Replays(r) /\ why \in {"created", "conflict", "precondition"} => Reauthorized(r)
    PROVE  Good(r)
  <1>1. noted[r] = None /\ noted \in [Call -> Call \cup {None}]
    BY DEF Inv, CallInv, TellInv, Running, Step, TypeOK
  <1>2. noted' = [noted EXCEPT ![r] = None]
    BY <1>1 DEF Refuse
  <1>3. QED
    BY <1>2, QuietReply DEF Refuse

\* A denied row without a target.
LEMMA DenyStep ==
    ASSUME Inv, DbUnchanged,
           NEW r \in Call, NEW why \in {"denied", "not_found"}, Running(r),
           Deny(r, why, None), why = "denied" => Op(r) # "update"
    PROVE  Good(r)
  <1>1. Grows /\ policy' = policy
    BY DbStays DEF Deny, Reply
  <1>2. QED
    BY <1>1, QuietReply DEF Deny, Answer

\* An answer of an update that names its target, which is known to be readable.
LEMMA TargetReply ==
    ASSUME Inv, Grows, policy' = policy,
           NEW r \in Call, NEW what \in Answer, Running(r), Op(r) = "update",
           Reply(r, what),
           NEW told \in SUBSET {input[r].target}, shown' = [shown EXCEPT ![r] = told],
           NEW row \in {None, input[r].target}, noted' = [noted EXCEPT ![r] = row],
           NEW p \in during[r], MayRead(p, Me(r), input[r].target)
    PROVE  Good(r)
  <1> PICK c : c = Me(r)
    OBVIOUS
  <1> PICK t : t = input[r].target
    OBVIOUS
  <1>1. CallTypes
    BY DEF Inv, TypeOK, CallTypes
  <1>2. input' = input /\ Me(r)' = c
    BY DEF Reply, Me
  <1>3. ~Replays(r) /\ input[r] \in Inputs
    BY DEF Inv, CallInv, SeenInv, OpInv, Replays, Running, Step
  <1>4. t \in Call
    BY <1>3, InputShape DEF Op
  <1>5. told \in SUBSET Call /\ row \in Call \cup {None}
    BY <1>4
  <1>6. shown'[r] \subseteq {t} /\ noted'[r] \in {None, t}
    BY <1>1 DEF CallTypes
  <1>7. Told(r)' \subseteq {t}
    BY <1>2, <1>6 DEF Told
  <1>8. MayRead(p, c, t)'
    BY MayReadKeeps
  <1>9. \A s \in Told(r)' : \E o \in during[r] : MayRead(o, Me(r), s)'
    BY <1>2, <1>7, <1>8 DEF MayRead
  <1>10. QED
    BY <1>3, <1>5, <1>9, ReplyStep

\* A denied row that names its target.
LEMMA DenyTargetStep ==
    ASSUME Inv, DbUnchanged, NEW r \in Call, Running(r), Op(r) = "update",
           Deny(r, "denied", SafeTarget(r)),
           NEW p \in during[r], MayRead(p, Me(r), input[r].target)
    PROVE  Good(r)
  <1>1. Grows /\ policy' = policy
    BY DbStays DEF Deny, Reply
  <1>2. shown[r] = {} /\ shown \in [Call -> SUBSET Call]
    BY DEF Inv, CallInv, TellInv, Running, Step, TypeOK
  <1>3. shown' = [shown EXCEPT ![r] = {}]
    BY <1>2 DEF Deny
  <1>4. PICK row \in {None, input[r].target} : noted' = [noted EXCEPT ![r] = row]
    BY DEF Deny, SafeTarget
  <1>5. Reply(r, "denied") /\ "denied" \in Answer /\ {} \in SUBSET {input[r].target}
    BY DEF Deny, Answer
  <1>6. row \in {None, input[r].target}
    BY <1>4
  <1>7. QED
    BY <1>1, <1>3, <1>4, <1>5, <1>6, TargetReply

\* A call goes on.
LEMMA ProceedStep ==
    ASSUME Inv, DbUnchanged, NEW r \in Call, NEW where \in Step, Running(r),
           Proceed(r, where),
           perms' \in [Call -> [Action -> SUBSET Grant]],
           \A q \in Call \ {r} : perms'[q] = perms[q],
           seen[r] = None \/ where = "decide",
           OpInv(r)', FactsInv(r)', PermsInv(r)'
    PROVE  Good(r)
  <1>1. CallTypes
    BY DEF Inv, TypeOK, CallTypes
  <1>2. CallTypes'
    BY <1>1 DEF CallTypes, Proceed, Goto
  <1>3. Local(r)
    BY <1>1 DEF Local, CallTypes, Proceed, Goto
  <1>4. pc'[r] = where /\ pc'[r] # "answered" /\ pc[r] # "answered" /\ CallInv(r)
    BY <1>1 DEF CallTypes, Proceed, Goto, Running, Step, Inv
  <1>5. TellInv(r)' /\ ReplayInv(r)'
    BY <1>4, UntoldStep DEF Proceed
  <1>6. SeenInv(r)'
    <2>1. Grows /\ input' = input /\ seen' = seen
      BY DbStays DEF Proceed
    <2>2. CASE seen[r] = None
      BY <2>1, <2>2 DEF SeenInv
    <2>3. CASE where = "decide"
      BY <1>4, <2>1, <2>3, SeenKeeps DEF CallInv
    <2>4. QED
      BY <2>2, <2>3
  <1>7. QED
    BY <1>2, <1>3, <1>5, <1>6 DEF Good, CallInv

\* A consultation changes one permission set of one call.
LEMMA ConsultGives ==
    ASSUME TypeOK, NEW r \in Call, input[r] \in Inputs, NEW a \in Action, Consult(r, a)
    PROVE  /\ perms' \in [Call -> [Action -> SUBSET Grant]]
           /\ \A q \in Call \ {r} : perms'[q] = perms[q]
           /\ perms'[r][a] = policy[Me(r)][a]
           /\ \A b \in Action \ {a} : perms'[r][b] = perms[r][b]
  <1>1. policy[Me(r)][a] \in SUBSET Grant
    BY InputShape, PolicyAssumption DEF TypeOK, Policy, Me
  <1>2. perms \in [Call -> [Action -> SUBSET Grant]]
    BY DEF TypeOK
  <1>3. perms' = [perms EXCEPT ![r][a] = policy[Me(r)][a]]
    BY DEF Consult, Given
  <1>4. QED
    BY <1>1, <1>2, <1>3

\* A call that goes on with the permissions it need not have.
LEMMA PlainPerms ==
    ASSUME Inv, DbUnchanged, NEW r \in Call, NEW where, Running(r),
           pc'[r] = where, during' = during, deciding' = deciding,
           where \notin {"update", "target", "select", "decide", "write", "idle"}
    PROVE  PermsInv(r)'
  BY DEF Inv, CallInv, PermsInv, DbUnchanged, Running
-----------------------------------------------------------------------------
(* The actions.                                                            *)

LEMMA FailGood ==
    ASSUME Inv, NEW r \in Call, Fail(r)
    PROVE  Good(r)
  <1>1. Grows /\ policy' = policy
    BY DbStays DEF Fail, Refuse, Reply
  <1>2. "unavailable" \in Answer
    BY DEF Answer
  <1>3. QED
    BY <1>1, <1>2, RefuseStep DEF Fail

LEMMA BeginGood ==
    ASSUME Inv, NEW r \in Call, Begin(r)
    PROVE  Good(r)
  <1>1. CallTypes /\ CallInv(r) /\ policy \in Policies
    BY DEF Inv, TypeOK, CallTypes
  <1>2. PICK i \in Inputs : input' = [input EXCEPT ![r] = i] /\ Goto(r, FirstStep(i))
    BY DEF Begin
  <1>3. FirstStep(i) \in {"preflight", "create", "write", "read", "get"}
    BY InputShape DEF FirstStep
  <1>4. CallTypes'
    BY <1>1, <1>2, <1>3 DEF CallTypes, Begin, Goto, Step
  <1>5. Local(r)
    BY <1>1, <1>2 DEF Local, CallTypes, Begin, Goto
  <1>6. /\ pc[r] = "idle" /\ pc'[r] = FirstStep(i) /\ input'[r] = i /\ seen' = seen
        /\ during'[r] = {policy} /\ deciding' = deciding /\ policy' = policy
    BY <1>1, <1>2 DEF CallTypes, Begin, Goto, DbUnchanged
  <1>7. /\ FirstStep(i) \in {"preflight", "create"} => i.op = "create"
        /\ FirstStep(i) = "write" => i.op = "identity"
        /\ FirstStep(i) = "read" => i.op = "update"
        /\ FirstStep(i) = "get" => i.op \in {"get", "list"}
    BY InputShape DEF FirstStep
  <1>8. OpInv(r)'
    BY <1>3, <1>6, <1>7 DEF OpInv, Op
  <1>9. FactsInv(r)'
    BY <1>3, <1>6, <1>7 DEF FactsInv, Op
  <1>10. SeenInv(r)'
    BY <1>1, <1>6 DEF CallInv, SeenInv
  <1>11. PermsInv(r)'
    <2>1. pc'[r] = "write" => MayWrite(r)'
      BY <1>6, <1>7 DEF MayWrite, Op
    <2>2. deciding'[r] = {}
      BY <1>1, <1>6 DEF CallInv, PermsInv
    <2>3. QED
      BY <1>3, <1>6, <2>1, <2>2 DEF PermsInv
  <1>12. TellInv(r)' /\ ReplayInv(r)'
    BY <1>1, <1>3, <1>6, UntoldStep DEF Begin
  <1>13. QED
    BY <1>4, <1>5, <1>8, <1>9, <1>10, <1>11, <1>12 DEF Good, CallInv

LEMMA PreflightGood ==
    ASSUME Inv, NEW r \in Call, Preflight(r)
    PROVE  Good(r)
  <1>1. /\ Running(r) /\ DbUnchanged /\ CallInv(r) /\ Op(r) = "create" /\ TypeOK
        /\ seen[r] = None
    BY DEF Preflight, Running, Step, Inv, CallInv, OpInv, SeenInv
  <1>2. CASE Deny(r, "denied", None)
    BY <1>1, <1>2, DenyStep
  <1>3. CASE Refuse(r, "unavailable")
    BY <1>1, <1>3, FailGood DEF Fail
  <1>4. CASE Proceed(r, "parse") /\ UNCHANGED perms
    <2>1. pc'[r] = "parse" /\ input' = input /\ during' = during /\ deciding' = deciding
      BY <1>1, <1>4 DEF Proceed, Goto, TypeOK
    <2>2. OpInv(r)' /\ FactsInv(r)'
      BY <1>1, <2>1 DEF CallInv, OpInv, FactsInv, Op, Running, Step
    <2>3. PermsInv(r)'
      BY <1>1, <2>1, PlainPerms
    <2>4. QED
      BY <1>1, <1>4, <2>2, <2>3, ProceedStep DEF TypeOK, Step
  <1>5. QED
    BY <1>2, <1>3, <1>4 DEF Preflight

LEMMA ParseGood ==
    ASSUME Inv, NEW r \in Call, Parse(r)
    PROVE  Good(r)
  <1>1. /\ Running(r) /\ DbUnchanged /\ CallInv(r) /\ Op(r) = "create" /\ TypeOK
        /\ seen[r] = None
    BY DEF Parse, Running, Step, Inv, CallInv, OpInv, SeenInv
  <1>2. CASE Refuse(r, "invalid")
    <2>1. Grows /\ policy' = policy /\ "invalid" \in Answer
      BY <1>1, <1>2, DbStays DEF Refuse, Reply, Answer
    <2>2. QED
      BY <1>1, <1>2, <2>1, RefuseStep
  <1>3. CASE Proceed(r, "create") /\ UNCHANGED perms
    <2>1. pc'[r] = "create" /\ input' = input /\ during' = during /\ deciding' = deciding
      BY <1>1, <1>3 DEF Proceed, Goto, TypeOK
    <2>2. OpInv(r)' /\ FactsInv(r)'
      BY <1>1, <2>1 DEF CallInv, OpInv, FactsInv, Op, Running, Step
    <2>3. PermsInv(r)'
      BY <1>1, <2>1, PlainPerms
    <2>4. QED
      BY <1>1, <1>3, <2>2, <2>3, ProceedStep DEF TypeOK, Step
  <1>4. QED
    BY <1>2, <1>3 DEF Parse

LEMMA ConsultCreateGood ==
    ASSUME Inv, NEW r \in Call, ConsultCreate(r)
    PROVE  Good(r)
  <1>1. /\ Running(r) /\ DbUnchanged /\ CallInv(r) /\ Op(r) = "create" /\ TypeOK
        /\ seen[r] = None /\ input[r] \in Inputs
    BY DEF ConsultCreate, Running, Step, Inv, CallInv, OpInv, SeenInv
  <1>2. CASE Deny(r, "denied", None)
    BY <1>1, <1>2, DenyStep
  <1>3. CASE Refuse(r, "unavailable")
    BY <1>1, <1>3, FailGood DEF Fail
  <1>4. CASE Consult(r, "create") /\ Proceed(r, "context")
    <2>1. pc'[r] = "context" /\ input' = input /\ during' = during /\ deciding' = deciding
      BY <1>1, <1>4 DEF Proceed, Goto, TypeOK
    <2>2. OpInv(r)' /\ FactsInv(r)'
      BY <1>1, <2>1 DEF CallInv, OpInv, FactsInv, Op
    <2>3. PermsInv(r)'
      BY <1>1, <2>1, PlainPerms
    <2>4. /\ perms' \in [Call -> [Action -> SUBSET Grant]]
          /\ \A q \in Call \ {r} : perms'[q] = perms[q]
      BY <1>1, <1>4, ConsultGives DEF Action
    <2>5. QED
      BY <1>1, <1>4, <2>2, <2>3, <2>4, ProceedStep DEF Step
  <1>5. QED
    BY <1>2, <1>3, <1>4 DEF ConsultCreate

LEMMA ConsultReadGood ==
    ASSUME Inv, NEW r \in Call, ConsultRead(r)
    PROVE  Good(r)
  <1> DEFINE where == IF input[r].parent = None THEN "lookup" ELSE "parent"
  <1>1. /\ Running(r) /\ DbUnchanged /\ CallInv(r) /\ Op(r) = "create" /\ TypeOK
        /\ seen[r] = None /\ input[r] \in Inputs
    BY DEF ConsultRead, Running, Step, Inv, CallInv, OpInv, SeenInv
  <1>2. Consult(r, "read") /\ Proceed(r, where) /\ where \in Step
    BY DEF ConsultRead, Step
  <1>3. pc'[r] = where /\ input' = input /\ during' = during /\ deciding' = deciding
    BY <1>1, <1>2 DEF Proceed, Goto, TypeOK
  <1>4. OpInv(r)' /\ FactsInv(r)'
    BY <1>1, <1>3 DEF CallInv, OpInv, FactsInv, Op
  <1>5. PermsInv(r)'
    BY <1>1, <1>3, PlainPerms
  <1>6. /\ perms' \in [Call -> [Action -> SUBSET Grant]]
        /\ \A q \in Call \ {r} : perms'[q] = perms[q]
    BY <1>1, <1>2, ConsultGives DEF Action
  <1>7. QED
    BY <1>1, <1>2, <1>4, <1>5, <1>6, ProceedStep

\* What is read about a System that exists.
LEMMA FactsType ==
    ASSUME Inv, NEW s \in Exists
    PROVE  s \in Call /\ FactsOf(s) \in Facts
  <1>1. \A t : Owner(t) \in Sources \cup {None}
    BY InputShape DEF Inv, StoredInv, Owner, Op
  <1>2. s \in Call /\ Parent(s) \in Call \cup {None}
    BY InputShape DEF Inv, StoredInv, TypeOK, Exists, Parent, Op
  <1>3. QED
    BY <1>1, <1>2 DEF FactsOf, Facts

\* A visible System and its parent are owned and readable.
LEMMA VisibleMeans ==
    ASSUME NEW grants, NEW s \in Visible(grants)
    PROVE  /\ Owned(s)
           /\ \A p, c : p[c]["read"] = grants => MayRead(p, c, s)
  BY DEF Visible, Readable, Owned, MayRead

\* The call goes on with what it read about its parent or target.
LEMMA NoteStep ==
    ASSUME Inv, DbUnchanged, NEW r \in Call, Running(r), seen[r] = None,
           NEW s, Owned(s), NEW where, Note(r, s, where),
           \/ where = "lookup" /\ Op(r) = "create" /\ s = input[r].parent
           \/ where = "callback" /\ Op(r) = "update" /\ s = input[r].target
    PROVE  Good(r)
  <1>1. CallTypes /\ CallInv(r)
    BY DEF Inv, TypeOK, CallTypes
  <1>2. FactsOf(s) \in Facts
    BY FactsType DEF Owned
  <1>3. CallTypes'
    BY <1>1, <1>2 DEF CallTypes, Note, Goto, Step
  <1>4. Local(r)
    BY <1>1 DEF Local, CallTypes, Note, Goto
  <1>5. /\ pc'[r] = where /\ input' = input /\ during' = during /\ deciding' = deciding
        /\ facts'[r] = FactsOf(s) /\ seen' = seen
    BY <1>1 DEF CallTypes, Note, Goto
  <1>6. Grows
    BY <1>5, DbStays
  <1>7. OpInv(r)'
    BY <1>1, <1>5 DEF CallInv, OpInv, Op, Running, Step
  <1>8. FactsInv(r)'
    <2>1. Owned(s)' /\ FactsOf(s)' = FactsOf(s)
      BY <1>6, OwnedKeeps
    <2>2. CASE where = "lookup" /\ Op(r) = "create" /\ s = input[r].parent
      <3>1. Op(r)' = "create" /\ input'[r].parent = s
        BY <1>5, <2>2 DEF Op
      <3>2. QED
        BY <1>5, <2>1, <3>1 DEF FactsInv, Owned, FactsOf
    <2>3. CASE where = "callback" /\ Op(r) = "update" /\ s = input[r].target
      <3>1. Op(r)' = "update" /\ input'[r].target = s
        BY <1>5, <2>3 DEF Op
      <3>2. QED
        BY <1>5, <2>1, <3>1 DEF FactsInv, Owned, FactsOf
    <2>4. QED
      BY <2>2, <2>3
  <1>9. SeenInv(r)'
    BY <1>5 DEF SeenInv
  <1>10. PermsInv(r)'
    BY <1>5, PlainPerms
  <1>11. TellInv(r)' /\ ReplayInv(r)'
    BY <1>1, <1>5, UntoldStep DEF Note, Running, Step
  <1>12. QED
    BY <1>3, <1>4, <1>7, <1>8, <1>9, <1>10, <1>11 DEF Good, CallInv

LEMMA ReadParentGood ==
    ASSUME Inv, NEW r \in Call, ReadParent(r)
    PROVE  Good(r)
  <1>1. /\ Running(r) /\ DbUnchanged /\ CallInv(r) /\ Op(r) = "create"
        /\ seen[r] = None
    BY DEF ReadParent, Running, Step, Inv, CallInv, OpInv, SeenInv
  <1>2. CASE Deny(r, "denied", None)
    BY <1>1, <1>2, DenyStep
  <1>3. CASE /\ input[r].parent \in Visible(perms[r]["read"])
             /\ Note(r, input[r].parent, "lookup")
    <2> PICK s : s = input[r].parent
      OBVIOUS
    <2> PICK g : g = perms[r]["read"]
      OBVIOUS
    <2>1. Owned(s)
      BY <1>3, VisibleMeans
    <2>2. QED
      BY <1>1, <1>3, <2>1, NoteStep
  <1>4. QED
    BY <1>2, <1>3 DEF ReadParent

LEMMA LookupGood ==
    ASSUME Inv, NEW r \in Call, Lookup(r)
    PROVE  Good(r)
  <1>1. /\ CallTypes /\ CallInv(r) /\ Op(r) = "create" /\ DbUnchanged /\ Running(r)
        /\ seen[r] = None /\ input[r] \in Inputs
    BY DEF Inv, TypeOK, CallTypes, Lookup, CallInv, OpInv, SeenInv, Running, Step
  <1>2. CallTypes' /\ Local(r) /\ SeenInv(r)'
    <2>1. CASE input[r].key = None /\ seen' = seen
      <3>1. CallTypes' /\ Local(r)
        BY <1>1, <2>1 DEF CallTypes, Local, Lookup, Goto, Step
      <3>2. SeenInv(r)'
        BY <1>1, <2>1 DEF SeenInv
      <3>3. QED
        BY <3>1, <3>2
    <2>2. CASE input[r].key # None /\ seen' = [seen EXCEPT ![r] = receipt[Scope(r)]]
      <3>1. Scope(r) \in Scopes
        BY <1>1, <2>2, InputShape DEF Scope, Scopes, Me, Op
      <3>2. receipt[Scope(r)] \in Call \cup {None}
        BY <3>1 DEF Inv, TypeOK
      <3>3. CallTypes' /\ Local(r)
        BY <1>1, <2>2, <3>2 DEF CallTypes, Local, Lookup, Goto, Step
      <3>4. seen'[r] = receipt[Scope(r)] /\ pc'[r] = "callback" /\ input' = input
            /\ written' = written
        BY <1>1, <2>2 DEF CallTypes, Lookup, Goto, DbUnchanged
      <3>5. SeenInv(r)'
        <4> PICK c : c = Scope(r)
          OBVIOUS
        <4> PICK t : t = receipt[c]
          OBVIOUS
        <4>1. t # None => t \in written /\ Op(t) = "create" /\ Scope(t) = c
          BY <3>1 DEF Inv, ReceiptInv
        <4>2. seen'[r] = t /\ Scope(r)' = c /\ Op(r)' = "create"
          BY <1>1, <3>4 DEF Scope, Me, Op
        <4>3. Op(t)' = Op(t) /\ Scope(t)' = Scope(t)
          BY <3>4 DEF Scope, Me, Op
        <4>4. QED
          BY <2>2, <3>4, <4>1, <4>2, <4>3 DEF SeenInv, Scope, Me, Op
      <3>6. QED
        BY <3>3, <3>5
    <2>3. QED
      BY <2>1, <2>2 DEF Lookup
  <1>3. /\ pc[r] = "lookup" /\ pc'[r] = "callback" /\ input' = input /\ facts' = facts
        /\ during' = during /\ deciding' = deciding /\ Grows
    BY <1>1, DbStays DEF CallTypes, Lookup, Goto
  <1>4. OpInv(r)' /\ FactsInv(r)'
    <2>1. OpInv(r)'
      BY <1>1, <1>3 DEF OpInv, Op
    <2>2. QED
      BY <1>1, <1>3, <2>1, FactsKeep DEF CallInv
  <1>5. PermsInv(r)'
    BY <1>1, <1>3, PlainPerms
  <1>6. TellInv(r)' /\ ReplayInv(r)'
    BY <1>1, <1>3, UntoldStep DEF Lookup
  <1>7. QED
    BY <1>2, <1>4, <1>5, <1>6 DEF Good, CallInv

LEMMA CallbackGood ==
    ASSUME Inv, NEW r \in Call, Callback(r)
    PROVE  Good(r)
  <1> DEFINE a == IF Op(r) = "create" THEN "create" ELSE "read"
  <1>1. /\ CallTypes /\ CallInv(r) /\ TypeOK /\ DbUnchanged /\ Running(r)
        /\ input[r] \in Inputs /\ pc[r] = "callback" /\ policy \in Policies
    BY DEF Inv, TypeOK, CallTypes, Callback, CallInv, OpInv, Running, Step
  <1>2. Consult(r, a) /\ a \in Action
    BY DEF Callback, Action
  <1>3. /\ perms' \in [Call -> [Action -> SUBSET Grant]]
        /\ \A q \in Call \ {r} : perms'[q] = perms[q]
        /\ perms'[r][a] = policy[Me(r)][a]
    BY <1>1, <1>2, ConsultGives
  <1>4. CallTypes'
    BY <1>1, <1>3 DEF CallTypes, Callback, Goto, Step
  <1>5. Local(r)
    BY <1>1, <1>3 DEF CallTypes, Local, Callback, Goto
  <1>6. /\ pc'[r] = "decide" /\ input' = input /\ facts' = facts /\ seen' = seen
        /\ during' = during /\ deciding'[r] = {policy} /\ policy' = policy /\ Grows
    BY <1>1, DbStays DEF CallTypes, Callback, Goto, DbUnchanged
  <1>7. OpInv(r)'
    BY <1>1, <1>6 DEF CallInv, OpInv, Op
  <1>8. FactsInv(r)'
    BY <1>1, <1>6, FactsKeep DEF CallInv
  <1>9. SeenInv(r)'
    BY <1>1, <1>6, SeenKeeps DEF CallInv
  <1>10. PermsInv(r)'
    <2>1. policy \in during[r]
      BY <1>1 DEF CallInv, PermsInv
    <2>2. Op(r)' = Op(r) /\ Me(r)' = Me(r)
      BY <1>6 DEF Op, Me
    <2>3. QED
      BY <1>3, <1>6, <2>1, <2>2 DEF PermsInv, Running
  <1>11. TellInv(r)' /\ ReplayInv(r)'
    BY <1>1, <1>6, UntoldStep DEF Callback
  <1>12. QED
    BY <1>4, <1>5, <1>7, <1>8, <1>9, <1>10, <1>11 DEF Good, CallInv

\* The facts a call holds about s are enough to tell whether s may be read.
LEMMA FactsSuffice ==
    ASSUME NEW s, Owned(s), NEW f, f = FactsOf(s), NEW p, NEW c,
           Allows(p[c]["read"], f.owner, s),
           f.link # None => Allows(p[c]["read"], f.linkOwner, f.link)
    PROVE  MayRead(p, c, s) /\ f.owner = Owner(s)
  BY DEF FactsOf, Owned, MayRead

\* What the callback of a creation decides.
LEMMA PermitsMeans ==
    ASSUME Inv, NEW r \in Call, pc[r] = "decide", Op(r) = "create",
           Permits(r, perms[r]["create"], Given(r, "read"))
    PROVE  /\ ~Replays(r) => MayWrite(r)
           /\ Replays(r) => Reauthorized(r)
  <1>1. /\ input[r] \in Inputs /\ policy \in deciding[r] /\ FactsInv(r) /\ SeenInv(r)
    BY DEF Inv, CallInv, OpInv, PermsInv
  <1>2. PICK p \in deciding[r] : perms[r]["create"] = p[Me(r)]["create"]
    BY DEF Inv, CallInv, PermsInv
  <1> PICK c : c = Me(r)
    OBVIOUS
  <1> PICK u : u = input[r].parent
    OBVIOUS
  <1> PICK id : id = IF Replays(r) THEN seen[r] ELSE r
    OBVIOUS
  <1>3. /\ Allows(p[c]["create"], input[r].source, id)
        /\ Replays(r) => Allows(policy[c]["read"], input[r].source, id)
        /\ u # None =>
            /\ ~Replays(r) => Allows(p[c]["create"], facts[r].owner, u)
            /\ Allows(policy[c]["read"], facts[r].owner, u)
            /\ facts[r].link # None =>
                    Allows(policy[c]["read"], facts[r].linkOwner, facts[r].link)
    BY <1>2 DEF Permits, Given
  <1>4. u # None => Owned(u) /\ facts[r] = FactsOf(u)
    BY <1>1 DEF FactsInv
  <1>5. u # None => MayRead(policy, c, u) /\ facts[r].owner = Owner(u)
    BY <1>3, <1>4, FactsSuffice
  <1>6. ASSUME ~Replays(r) PROVE MayWrite(r)
    BY <1>1, <1>2, <1>3, <1>5, <1>6 DEF MayWrite, Parent
  <1>7. ASSUME Replays(r) PROVE Reauthorized(r)
    <2>1. id \in written /\ Op(id) = "create" /\ Scope(id) = Scope(r) /\ id = seen[r]
      BY <1>1, <1>7 DEF SeenInv, Replays
    <2>2. input[id].source = input[r].source /\ input[id].parent = u
      BY <2>1 DEF Scope
    <2>3. Owner(id) = input[r].source /\ Owner(id) # None /\ Parent(id) = u
      BY <1>1, <2>1, <2>2, InputShape, NoneAssumption DEF Owner, Parent, Op
    <2>4. MayRead(policy, c, id)
      BY <1>3, <1>5, <1>7, <2>1, <2>3 DEF MayRead, Exists
    <2>5. QED
      BY <1>1, <1>2, <1>3, <2>1, <2>3, <2>4 DEF Reauthorized
  <1>8. QED
    BY <1>6, <1>7

LEMMA DecideCreateGood ==
    ASSUME Inv, NEW r \in Call, DecideCreate(r)
    PROVE  Good(r)
  <1>1. /\ Running(r) /\ DbUnchanged /\ CallInv(r) /\ Op(r) = "create" /\ TypeOK
        /\ input[r] \in Inputs /\ pc[r] = "decide"
    BY DEF DecideCreate, Running, Step, Inv, CallInv, OpInv
  <1> DEFINE permitted == Permits(r, perms[r]["create"], Given(r, "read"))
  <1>2. /\ permitted /\ ~Replays(r) => MayWrite(r)
        /\ permitted /\ Replays(r) => Reauthorized(r)
    BY <1>1, PermitsMeans
  <1> HIDE DEF permitted
  <1>3. CASE Deny(r, "denied", None)
    BY <1>1, <1>3, DenyStep
  <1>4. CASE permitted /\ \E why \in {"precondition", "conflict"} : Refuse(r, why)
    <2>1. PICK why \in {"precondition", "conflict"} : Refuse(r, why)
      BY <1>4
    <2>2. Grows /\ policy' = policy /\ why \in Answer
      BY <1>1, <2>1, DbStays DEF Refuse, Reply, Answer
    <2>3. QED
      BY <1>1, <1>2, <1>4, <2>1, <2>2, RefuseStep
  <1>5. CASE permitted /\ ~Replays(r) /\ Consult(r, "read") /\ Proceed(r, "write")
    <2>1. /\ pc'[r] = "write" /\ input' = input /\ facts' = facts
          /\ during' = during /\ deciding' = deciding /\ Grows /\ policy' = policy
      BY <1>1, <1>5, DbStays DEF Proceed, Goto, TypeOK
    <2>2. /\ perms' \in [Call -> [Action -> SUBSET Grant]]
          /\ \A q \in Call \ {r} : perms'[q] = perms[q]
      BY <1>1, <1>5, ConsultGives DEF Action
    <2>3. OpInv(r)'
      BY <1>1, <2>1 DEF OpInv, Op
    <2>4. FactsInv(r)'
      BY <1>1, <2>1, FactsKeep DEF CallInv
    <2>5. MayWrite(r)'
      BY <1>2, <1>5, <2>1, MayWriteKeeps
    <2>6. PermsInv(r)'
      BY <1>1, <2>1, <2>5 DEF CallInv, PermsInv, Running
    <2>7. QED
      BY <1>1, <1>5, <2>2, <2>3, <2>4, <2>6, ProceedStep DEF Replays, Step
  <1>6. CASE /\ permitted /\ Replays(r) /\ Reply(r, "created")
             /\ shown' = [shown EXCEPT ![r] = {seen[r]}] /\ noted' = noted
    <2> PICK c : c = Me(r)
      OBVIOUS
    <2> PICK s : s = seen[r]
      OBVIOUS
    <2>1. PICK q \in deciding[r] : MayRead(q, c, s)
      BY <1>2, <1>6 DEF Reauthorized
    <2>2. Grows /\ policy' = policy /\ input' = input /\ "created" \in Answer
      BY <1>1, <1>6, DbStays DEF Reply, Answer
    <2>3. MayRead(q, c, s)' /\ Me(r)' = c /\ q \in during[r]
      BY <1>1, <2>1, <2>2, MayReadKeeps DEF Me, CallInv, PermsInv
    <2>4. /\ noted[r] = None /\ noted' = [noted EXCEPT ![r] = None] /\ s \in Call
          /\ shown'[r] = {s} /\ noted'[r] = None
      BY <1>1, <1>6 DEF CallInv, TellInv, TypeOK, Replays
    <2>5. Told(r)' \subseteq {s}
      BY <1>1, <2>2, <2>4 DEF Told, Op
    <2>6. \A t \in Told(r)' : \E o \in during[r] : MayRead(o, Me(r), t)'
      BY <2>3, <2>5 DEF MayRead
    <2>7. {s} \in SUBSET Call /\ None \in Call \cup {None}
          /\ shown' = [shown EXCEPT ![r] = {s}]
      BY <1>6, <2>4
    <2>8. QED
      BY <1>1, <1>2, <1>6, <2>2, <2>4, <2>6, <2>7, ReplyStep
  <1>7. QED
    BY <1>3, <1>4, <1>5, <1>6 DEF DecideCreate, permitted

\* A call that has consulted the policy about reading goes on.
LEMMA ReadStep ==
    ASSUME Inv, DbUnchanged, NEW r \in Call, Running(r), seen[r] = None,
           NEW a \in Action, Consult(r, a), NEW where, Proceed(r, where),
           \/ pc[r] = "read" /\ a = "read" /\ where = "update"
           \/ pc[r] = "update" /\ a = "update" /\ where = "target"
           \/ pc[r] = "get" /\ a = "read" /\ where = "select"
    PROVE  Good(r)
  <1>1. CallInv(r) /\ TypeOK /\ input[r] \in Inputs
    BY DEF Inv, CallInv, OpInv, Running, Step
  <1>2. /\ perms' \in [Call -> [Action -> SUBSET Grant]]
        /\ \A q \in Call \ {r} : perms'[q] = perms[q]
        /\ perms'[r][a] = policy[Me(r)][a]
        /\ \A b \in Action \ {a} : perms'[r][b] = perms[r][b]
    BY <1>1, ConsultGives
  <1>3. /\ pc'[r] = where /\ input' = input /\ during' = during /\ deciding' = deciding
        /\ policy' = policy
    BY <1>1, DbStays DEF Proceed, Goto, TypeOK
  <1>4. OpInv(r)' /\ FactsInv(r)'
    BY <1>1, <1>3 DEF CallInv, OpInv, FactsInv, Op
  <1>5. PermsInv(r)'
    <2>1. PermsInv(r) /\ policy \in during[r] /\ Me(r)' = Me(r)
      BY <1>1, <1>3 DEF CallInv, PermsInv, Me
    <2>2. \E p \in during[r] : perms'[r]["read"] = p[Me(r)]["read"]
      <3>1. CASE a = "read"
        BY <1>2, <2>1, <3>1
      <3>2. CASE a = "update" /\ pc[r] = "update"
        <4>1. perms'[r]["read"] = perms[r]["read"]
          BY <1>2, <3>2 DEF Action
        <4>2. QED
          BY <2>1, <3>2, <4>1 DEF PermsInv
      <3>3. QED
        BY <3>1, <3>2
    <2>3. QED
      BY <1>3, <2>1, <2>2 DEF PermsInv
  <1>6. QED
    BY <1>2, <1>4, <1>5, ProceedStep DEF Step

LEMMA ConsultUpdateGood ==
    ASSUME Inv, NEW r \in Call, ConsultUpdate(r)
    PROVE  Good(r)
  <1>1. Running(r) /\ DbUnchanged /\ seen[r] = None
    BY DEF ConsultUpdate, Running, Step, Inv, CallInv, SeenInv
  <1>2. QED
    BY <1>1, ReadStep DEF ConsultUpdate, Action

LEMMA ConsultGetGood ==
    ASSUME Inv, NEW r \in Call, ConsultGet(r)
    PROVE  Good(r)
  <1>1. Running(r) /\ DbUnchanged /\ seen[r] = None
    BY DEF ConsultGet, Running, Step, Inv, CallInv, SeenInv
  <1>2. QED
    BY <1>1, ReadStep DEF ConsultGet, Action

LEMMA ReadTargetGood ==
    ASSUME Inv, NEW r \in Call, ReadTarget(r)
    PROVE  Good(r)
  <1>1. /\ Running(r) /\ DbUnchanged /\ CallInv(r) /\ Op(r) = "update"
        /\ seen[r] = None /\ pc[r] = "target"
    BY DEF ReadTarget, Running, Step, Inv, CallInv, OpInv, SeenInv
  <1> PICK c : c = Me(r)
    OBVIOUS
  <1> PICK t : t = input[r].target
    OBVIOUS
  <1>2. PICK p \in during[r] : perms[r]["read"] = p[c]["read"]
    BY <1>1 DEF CallInv, PermsInv
  <1>3. t \in Visible(perms[r]["read"]) => Owned(t) /\ MayRead(p, c, t)
    BY <1>2, VisibleMeans
  <1>4. CASE Deny(r, "not_found", None)
    BY <1>1, <1>4, DenyStep
  <1>5. CASE t \in Visible(perms[r]["read"]) /\ Deny(r, "denied", SafeTarget(r))
    BY <1>1, <1>3, <1>5, DenyTargetStep
  <1>6. CASE Refuse(r, "unavailable")
    BY <1>1, <1>6, FailGood DEF Fail
  <1>7. CASE t \in Visible(perms[r]["read"]) /\ Note(r, t, "callback")
    BY <1>1, <1>3, <1>7, NoteStep
  <1>8. QED
    BY <1>4, <1>5, <1>6, <1>7 DEF ReadTarget

LEMMA DecideUpdateGood ==
    ASSUME Inv, NEW r \in Call, DecideUpdate(r)
    PROVE  Good(r)
  <1>1. /\ Running(r) /\ DbUnchanged /\ CallInv(r) /\ Op(r) = "update" /\ TypeOK
        /\ seen[r] = None /\ input[r] \in Inputs /\ pc[r] = "decide"
    BY DEF DecideUpdate, Running, Step, Inv, CallInv, OpInv, SeenInv
  <1> PICK c : c = Me(r)
    OBVIOUS
  <1> PICK t : t = input[r].target
    OBVIOUS
  <1>2. PICK p \in deciding[r] : perms[r]["read"] = p[c]["read"]
    BY <1>1 DEF CallInv, PermsInv
  <1>3. Owned(t) /\ facts[r] = FactsOf(t)
    BY <1>1 DEF CallInv, FactsInv
  <1>4. StillReadable(r, perms[r]["read"]) => MayRead(p, c, t) /\ facts[r].owner = Owner(t)
    BY <1>2, <1>3, FactsSuffice DEF StillReadable
  <1>5. p \in during[r] /\ policy \in deciding[r]
    BY <1>1 DEF CallInv, PermsInv
  <1>6. CASE Deny(r, "not_found", None)
    BY <1>1, <1>6, DenyStep
  <1>7. CASE StillReadable(r, perms[r]["read"]) /\ Deny(r, "denied", SafeTarget(r))
    BY <1>1, <1>4, <1>5, <1>7, DenyTargetStep
  <1>8. CASE /\ StillReadable(r, perms[r]["read"])
             /\ Allows(Given(r, "update"), facts[r].owner, t)
             /\ Consult(r, "update") /\ Proceed(r, "write")
    <2>1. /\ pc'[r] = "write" /\ input' = input /\ facts' = facts
          /\ during' = during /\ deciding' = deciding /\ Grows /\ policy' = policy
      BY <1>1, <1>8, DbStays DEF Proceed, Goto, TypeOK
    <2>2. /\ perms' \in [Call -> [Action -> SUBSET Grant]]
          /\ \A q \in Call \ {r} : perms'[q] = perms[q]
      BY <1>1, <1>8, ConsultGives DEF Action
    <2>3. OpInv(r)'
      BY <1>1, <2>1 DEF OpInv, Op
    <2>4. FactsInv(r)'
      BY <1>1, <2>1, FactsKeep DEF CallInv
    <2>5. MayWrite(r)
      BY <1>1, <1>4, <1>5, <1>8 DEF MayWrite, Given
    <2>6. MayWrite(r)'
      BY <2>1, <2>5, MayWriteKeeps
    <2>7. PermsInv(r)'
      BY <1>1, <2>1, <2>6 DEF CallInv, PermsInv, Running
    <2>8. QED
      BY <1>1, <1>8, <2>2, <2>3, <2>4, <2>7, ProceedStep DEF Step
  <1>9. QED
    BY <1>6, <1>7, <1>8 DEF DecideUpdate

LEMMA SelectGood ==
    ASSUME Inv, NEW r \in Call, Select(r)
    PROVE  Good(r)
  <1>1. /\ Running(r) /\ DbUnchanged /\ CallInv(r) /\ Op(r) \in {"get", "list"} /\ TypeOK
        /\ ~Replays(r) /\ pc[r] = "select"
    BY DEF Select, Running, Step, Inv, CallInv, OpInv, SeenInv, Replays
  <1> PICK c : c = Me(r)
    OBVIOUS
  <1>2. PICK p \in during[r] : perms[r]["read"] = p[c]["read"]
    BY <1>1 DEF CallInv, PermsInv
  <1>3. CASE Refuse(r, "not_found")
    <2>1. Grows /\ policy' = policy /\ "not_found" \in Answer
      BY <1>1, <1>3, DbStays DEF Refuse, Reply, Answer
    <2>2. QED
      BY <1>1, <1>3, <2>1, RefuseStep
  <1>4. CASE /\ Reply(r, "found") /\ noted' = noted
             /\ \E page \in SUBSET Visible(perms[r]["read"]) :
                    shown' = [shown EXCEPT ![r] = page]
    <2>1. PICK page \in SUBSET Visible(perms[r]["read"]) : shown' = [shown EXCEPT ![r] = page]
      BY <1>4
    <2>2. Grows /\ policy' = policy /\ input' = input /\ "found" \in Answer
      BY <1>1, <1>4, DbStays DEF Reply, Answer
    <2>3. \A s \in page : MayRead(p, c, s) /\ s \in Call
      <3> SUFFICES ASSUME NEW s \in page
                   PROVE  MayRead(p, c, s) /\ s \in Call
        OBVIOUS
      <3>1. MayRead(p, c, s)
        BY <1>2, <2>1, VisibleMeans
      <3>2. QED
        BY <1>1, <3>1 DEF MayRead, Exists, TypeOK
    <2>4. \A s \in page : MayRead(p, c, s)'
      BY <2>2, <2>3, MayReadKeeps
    <2>5. /\ noted[r] = None /\ noted' = [noted EXCEPT ![r] = None]
          /\ shown'[r] = page /\ noted'[r] = None
      BY <1>1, <1>4, <2>1 DEF CallInv, TellInv, TypeOK
    <2>6. Told(r)' \subseteq page /\ Me(r)' = c
      BY <1>1, <2>2, <2>5 DEF Told, Op, Me
    <2>7. \A s \in Told(r)' : \E o \in during[r] : MayRead(o, Me(r), s)'
      BY <2>4, <2>6 DEF MayRead
    <2>8. page \in SUBSET Call /\ None \in Call \cup {None}
      BY <2>3
    <2>9. QED
      BY <1>1, <1>4, <2>1, <2>2, <2>5, <2>7, <2>8, ReplyStep
  <1>5. QED
    BY <1>3, <1>4 DEF Select

\* The rest of a transaction ends the call and stores its write or nothing.
LEMMA WriteEnds ==
    ASSUME Inv, NEW r \in Call, Write(r)
    PROVE  /\ DbUnchanged \/ Store(r)
           /\ Grows /\ policy' = policy /\ revisions' = revisions
           /\ pc'[r] = "answered" /\ input' = input /\ deciding' = deciding
  <1>1. \E what \in Answer : Reply(r, what)
    BY DEF Write, Refuse, Answer
  <1>2. pc'[r] = "answered" /\ input' = input /\ deciding' = deciding
    BY <1>1 DEF Reply, Goto, Inv, TypeOK
  <1>3. DbUnchanged \/ Store(r)
    BY DEF Write
  <1>4. QED
    BY <1>2, <1>3 DEF DbUnchanged, Store, Grows

LEMMA WriteGood ==
    ASSUME Inv, NEW r \in Call, Write(r)
    PROVE  Good(r)
  <1>1. /\ Running(r) /\ CallInv(r) /\ TypeOK /\ ~Replays(r) /\ input[r] \in Inputs
        /\ pc[r] = "write" /\ Op(r) \in {"create", "identity", "update"} /\ MayWrite(r)
        /\ shown[r] = {} /\ noted[r] = None
    BY DEF Write, Running, Step, Inv, CallInv, OpInv, SeenInv, Replays, PermsInv, TellInv
  <1>2. Grows /\ policy' = policy /\ input' = input
    BY WriteEnds
  <1>3. CASE Refuse(r, "unavailable")
    BY <1>1, <1>2, <1>3, RefuseStep DEF Answer
  <1>4. CASE Op(r) # "update"
    <2>1. CASE Refuse(r, "conflict")
      BY <1>1, <1>2, <1>4, <2>1, RefuseStep DEF Answer
    <2>2. CASE /\ Reply(r, "created") /\ shown' = [shown EXCEPT ![r] = {r}]
               /\ noted' = noted
      <3>1. noted' = [noted EXCEPT ![r] = None] /\ noted'[r] = None /\ shown'[r] = {r}
        BY <1>1, <2>2 DEF TypeOK
      <3>2. Told(r)' = {}
        BY <1>2, <1>4, <3>1 DEF Told, Op
      <3>3. {r} \in SUBSET Call /\ None \in Call \cup {None} /\ "created" \in Answer
        BY DEF Answer
      <3>4. QED
        BY <1>1, <1>2, <2>2, <3>1, <3>2, <3>3, ReplyStep
    <2>3. QED
      BY <1>3, <1>4, <2>1, <2>2 DEF Write
  <1>5. CASE Op(r) = "update"
    <2> DEFINE t == input[r].target
    <2>1. PICK p \in deciding[r] : MayRead(p, Me(r), t)
      BY <1>1, <1>5 DEF MayWrite
    <2>2. p \in during[r]
      BY <1>1 DEF CallInv, PermsInv
    <2>3. noted \in [Call -> Call \cup {None}] /\ shown \in [Call -> SUBSET Call]
      BY <1>1 DEF TypeOK
    <2>4. noted' = noted => noted' = [noted EXCEPT ![r] = None]
      BY <1>1, <2>3
    <2>5. CASE Refuse(r, "precondition")
      <3>1. shown' = [shown EXCEPT ![r] = {}]
        BY <1>1, <2>3, <2>5 DEF Refuse
      <3>2. "precondition" \in Answer /\ {} \in SUBSET {t} /\ None \in {None, t}
            /\ Reply(r, "precondition") /\ noted' = [noted EXCEPT ![r] = None]
        BY <2>4, <2>5 DEF Answer, Refuse
      <3>3. QED
        BY <1>1, <1>2, <1>5, <2>1, <2>2, <3>1, <3>2, TargetReply
    <2>6. CASE /\ Reply(r, "updated") /\ shown' = [shown EXCEPT ![r] = {t}]
               /\ noted' = noted
      <3>1. "updated" \in Answer /\ {t} \in SUBSET {t} /\ None \in {None, t}
            /\ noted' = [noted EXCEPT ![r] = None]
        BY <2>4, <2>6 DEF Answer
      <3>2. QED
        BY <1>1, <1>2, <1>5, <2>1, <2>2, <2>6, <3>1, TargetReply
    <2>7. QED
      BY <1>3, <1>5, <2>5, <2>6 DEF Write
  <1>6. QED
    BY <1>4, <1>5

-----------------------------------------------------------------------------
(* The invariant.                                                          *)

\* A step of one call leaves the others as they are.
LEMMA OthersStill ==
    ASSUME Inv, NEW r \in Call, Local(r), policy' = policy, NEW q \in Call, q # r
    PROVE  Still(q)
  <1>1. PermsInv(q)
    BY DEF Inv, CallInv
  <1>2. QED
    BY <1>1 DEF Still, Local, PermsInv

LEMMA CallStepKeeps ==
    ASSUME Inv, NEW r \in Call, Good(r), DbUnchanged, pc[r] # "answered"
    PROVE  Inv'
  <1>1. TypeOK'
    BY DEF Inv, TypeOK, Good, CallTypes, DbUnchanged
  <1>2. policy' = policy /\ \A s \in written : s \in Call /\ s # r
    BY DEF DbUnchanged, Inv, StoredInv, TypeOK
  <1>3. \A q \in Call : q # r => Still(q)
    BY <1>2, OthersStill DEF Good
  <1>4. Grows /\ written' = written /\ receipt' = receipt
    BY <1>2, <1>3 DEF Grows, Still, DbUnchanged
  <1>5. \A q \in Call : CallInv(q)'
    <2> SUFFICES ASSUME NEW q \in Call PROVE CallInv(q)'
      OBVIOUS
    <2>1. CASE q = r
      BY <2>1 DEF Good
    <2>2. CASE q # r
      BY <1>3, <1>4, <2>2, CallKeeps DEF Inv
    <2>3. QED
      BY <2>1, <2>2
  <1>6. StoredInv'
    <2> SUFFICES ASSUME NEW s \in written
                 PROVE  /\ pc'[s] = "answered" /\ input'[s] \in Inputs
                        /\ Op(s)' \in {"create", "identity", "update"} /\ MayWrite(s)'
      BY <1>4 DEF StoredInv
    <2>1. Still(s) /\ MayWrite(s)
      BY <1>2, <1>3 DEF Inv, StoredInv
    <2>2. MayWrite(s)'
      BY <1>4, <2>1, MayWriteKeeps DEF Still
    <2>3. QED
      BY <2>1, <2>2 DEF Still, Inv, StoredInv, Op
  <1>7. ReceiptInv'
    BY <1>4 DEF Inv, ReceiptInv, Grows, Op, Scope, Me
  <1>8. QED
    BY <1>1, <1>5, <1>6, <1>7 DEF Inv

LEMMA WriteKeeps ==
    ASSUME Inv, NEW r \in Call, Write(r)
    PROVE  Inv'
  <1>1. /\ pc[r] = "write" /\ pc[r] # "answered" /\ CallInv(r) /\ input[r] \in Inputs
        /\ Op(r) \in {"create", "identity", "update"} /\ MayWrite(r)
    BY DEF Write, Inv, CallInv, OpInv, PermsInv
  <1>2. Good(r)
    BY WriteGood
  <1>3. /\ DbUnchanged \/ Store(r)
        /\ Grows /\ policy' = policy /\ revisions' = revisions
        /\ pc'[r] = "answered" /\ input' = input /\ deciding' = deciding
    BY WriteEnds
  <1>4. CASE DbUnchanged
    BY <1>1, <1>2, <1>4, CallStepKeeps
  <1>5. CASE Store(r)
    <2>1. written' = written \cup {r} /\ \A s \in written : s \in Call /\ s # r
      BY <1>1, <1>5 DEF Store, Inv, StoredInv, TypeOK
    <2>2. Keyed(r) => Scope(r) \in Scopes
      BY <1>1, InputShape DEF Keyed, Scope, Scopes, Me, Op
    <2>3. receipt' \in [Scopes -> Call \cup {None}]
      BY <1>5, <2>2 DEF Store, Inv, TypeOK
    <2>4. TypeOK'
      BY <1>2, <1>3, <2>1, <2>3 DEF Inv, TypeOK, Good, CallTypes
    <2>5. \A q \in Call : q # r => Still(q)
      BY <1>2, <1>3, OthersStill DEF Good
    <2>6. \A q \in Call : CallInv(q)'
      <3> SUFFICES ASSUME NEW q \in Call PROVE CallInv(q)'
        OBVIOUS
      <3>1. CASE q = r
        BY <1>2, <3>1 DEF Good
      <3>2. CASE q # r
        BY <1>3, <2>5, <3>2, CallKeeps DEF Inv
      <3>3. QED
        BY <3>1, <3>2
    <2>7. StoredInv'
      <3> SUFFICES ASSUME NEW s \in written \cup {r}
                   PROVE  /\ pc'[s] = "answered" /\ input'[s] \in Inputs
                          /\ Op(s)' \in {"create", "identity", "update"} /\ MayWrite(s)'
        BY <2>1 DEF StoredInv
      <3>1. /\ MayWrite(s) /\ pc'[s] = "answered" /\ input[s] \in Inputs
            /\ Op(s) \in {"create", "identity", "update"}
        BY <1>1, <1>3, <2>1, <2>5 DEF Inv, StoredInv, Still
      <3>2. MayWrite(s)'
        BY <1>3, <3>1, MayWriteKeeps
      <3>3. QED
        BY <1>3, <3>1, <3>2 DEF Op
    <2>8. ReceiptInv'
      <3> SUFFICES ASSUME NEW c \in Scopes, receipt'[c] # None
                   PROVE  /\ receipt'[c] \in written' /\ Op(receipt[c])' = "create"
                          /\ Scope(receipt[c])' = c
        BY DEF ReceiptInv
      <3>1. CASE Keyed(r) /\ c = Scope(r)
        <4>1. receipt'[c] = r
          BY <1>5, <2>2, <3>1 DEF Store, Inv, TypeOK
        <4>2. QED
          BY <1>3, <2>1, <3>1, <4>1 DEF Keyed, Op, Scope, Me
      <3>2. CASE ~(Keyed(r) /\ c = Scope(r))
        <4>1. receipt'[c] = receipt[c]
          BY <1>5, <2>2, <3>2 DEF Store, Inv, TypeOK
        <4>2. receipt[c] \in written /\ Op(receipt[c]) = "create" /\ Scope(receipt[c]) = c
          BY <4>1 DEF Inv, ReceiptInv
        <4>3. QED
          BY <1>3, <2>1, <4>1, <4>2 DEF Op, Scope, Me
      <3>3. QED
        BY <3>1, <3>2
    <2>9. QED
      BY <2>4, <2>6, <2>7, <2>8 DEF Inv
  <1>6. QED
    BY <1>3, <1>4, <1>5

\* A step that moves no call and commits nothing.
LEMMA QuietKeeps ==
    ASSUME Inv, TypeOK', written' = written, input' = input, pc' = pc,
           \A q \in Call : Still(q), ReceiptInv'
    PROVE  Inv'
  <1>1. Grows
    BY DEF Grows
  <1>2. \A q \in Call : CallInv(q)'
    BY <1>1, CallKeeps DEF Inv
  <1>3. StoredInv'
    <2> SUFFICES ASSUME NEW s \in written PROVE MayWrite(s)'
      BY DEF Inv, StoredInv, Op
    <2>1. Still(s) /\ MayWrite(s)
      BY DEF Inv, StoredInv, TypeOK
    <2>2. QED
      BY <1>1, <2>1, MayWriteKeeps DEF Still
  <1>4. QED
    BY <1>2, <1>3 DEF Inv

LEMMA ExpireKeeps ==
    ASSUME Inv, NEW c \in Scopes, Expire(c)
    PROVE  Inv'
  <1>1. receipt' = [receipt EXCEPT ![c] = None] /\ UNCHANGED <<policy, revisions, written, calls>>
    BY DEF Expire
  <1>2. TypeOK'
    BY <1>1 DEF Inv, TypeOK, calls
  <1>3. \A q \in Call : Still(q)
    BY <1>1 DEF Inv, CallInv, PermsInv, Still, calls
  <1>4. ReceiptInv'
    BY <1>1 DEF Inv, TypeOK, ReceiptInv, calls, Op, Scope, Me
  <1>5. QED
    BY <1>1, <1>2, <1>3, <1>4, QuietKeeps DEF calls

LEMMA ReviseKeeps ==
    ASSUME Inv, Revise
    PROVE  Inv'
  <1>1. /\ policy' \in Policies /\ revisions' = revisions + 1 /\ revisions < MaxRevisions
        /\ during' = [r \in Call |-> IF Running(r) THEN during[r] \cup {policy'}
                                     ELSE during[r]]
        /\ deciding' = [r \in Call |-> IF pc[r] = "decide" THEN deciding[r] \cup {policy'}
                                       ELSE deciding[r]]
        /\ UNCHANGED <<written, receipt, pc, input, perms, facts, seen, answer, shown, noted>>
    BY DEF Revise
  <1>2. TypeOK'
    <2>1. revisions' \in 0 .. MaxRevisions
      BY <1>1, BoundsAssumption DEF Inv, TypeOK
    <2>2. during' \in [Call -> SUBSET Policies] /\ deciding' \in [Call -> SUBSET Policies]
      BY <1>1 DEF Inv, TypeOK
    <2>3. QED
      BY <1>1, <2>1, <2>2 DEF Inv, TypeOK
  <1>3. \A q \in Call : Still(q)
    <2> SUFFICES ASSUME NEW q \in Call PROVE Still(q)
      OBVIOUS
    <2>1. PermsInv(q)
      BY DEF Inv, CallInv
    <2>2. during'[q] = IF Running(q) THEN during[q] \cup {policy'} ELSE during[q]
      BY <1>1
    <2>3. deciding'[q] = IF pc[q] = "decide" THEN deciding[q] \cup {policy'} ELSE deciding[q]
      BY <1>1
    <2>4. pc[q] = "decide" => Running(q)
      BY DEF Running, Step
    <2>5. QED
      BY <1>1, <2>1, <2>2, <2>3, <2>4 DEF Still, PermsInv
  <1>4. ReceiptInv'
    BY <1>1 DEF Inv, ReceiptInv, Op, Scope, Me
  <1>5. QED
    BY <1>1, <1>2, <1>3, <1>4, QuietKeeps

LEMMA InitInv == Init => Inv
  <1> SUFFICES ASSUME Init PROVE Inv
    OBVIOUS
  <1> USE DEF Init
  <1>1. TypeOK
    <2>1. NoPerms \in [Action -> SUBSET Grant] /\ NoFacts \in Facts
      BY DEF NoPerms, NoFacts, Facts
    <2>2. QED
      BY <2>1, BoundsAssumption DEF TypeOK
  <1>2. StoredInv
    BY DEF StoredInv
  <1>3. ReceiptInv
    BY DEF ReceiptInv
  <1>4. ASSUME NEW r \in Call PROVE CallInv(r)
    <2>1. OpInv(r) /\ FactsInv(r) /\ SeenInv(r) /\ PermsInv(r) /\ ReplayInv(r)
      BY DEF OpInv, FactsInv, SeenInv, PermsInv, ReplayInv, Running, Step
    <2>2. Told(r) = {}
      BY NoneAssumption DEF Told, Answer
    <2>3. TellInv(r)
      BY <2>2 DEF TellInv
    <2>4. QED
      BY <2>1, <2>3 DEF CallInv
  <1>5. QED
    BY <1>1, <1>2, <1>3, <1>4 DEF Inv

LEMMA NextInv == Inv /\ [Next]_vars => Inv'
  <1> SUFFICES ASSUME Inv, [Next]_vars PROVE Inv'
    OBVIOUS
  <1>1. CASE UNCHANGED vars
    <2>1. \A q \in Call : Still(q)
      BY <1>1 DEF Inv, CallInv, PermsInv, Still, vars, calls
    <2>2. TypeOK'
      BY <1>1 DEF Inv, TypeOK, vars, calls
    <2>3. ReceiptInv'
      BY <1>1 DEF Inv, ReceiptInv, vars, calls, Op, Scope, Me
    <2>4. QED
      BY <1>1, <2>1, <2>2, <2>3, QuietKeeps DEF vars, calls
  <1>2. ASSUME NEW r \in Call, Write(r) PROVE Inv'
    BY <1>2, WriteKeeps
  <1>3. ASSUME NEW r \in Call, Begin(r) PROVE Inv'
    BY <1>3, BeginGood, CallStepKeeps DEF Begin
  <1>4. ASSUME NEW r \in Call, Fail(r) PROVE Inv'
    BY <1>4, FailGood, CallStepKeeps DEF Fail, Running, Step
  <1>5. ASSUME NEW r \in Call, Preflight(r) PROVE Inv'
    BY <1>5, PreflightGood, CallStepKeeps DEF Preflight
  <1>6. ASSUME NEW r \in Call, Parse(r) PROVE Inv'
    BY <1>6, ParseGood, CallStepKeeps DEF Parse
  <1>7. ASSUME NEW r \in Call, ConsultCreate(r) PROVE Inv'
    BY <1>7, ConsultCreateGood, CallStepKeeps DEF ConsultCreate
  <1>8. ASSUME NEW r \in Call, ConsultRead(r) PROVE Inv'
    BY <1>8, ConsultReadGood, CallStepKeeps DEF ConsultRead
  <1>9. ASSUME NEW r \in Call, ReadParent(r) PROVE Inv'
    BY <1>9, ReadParentGood, CallStepKeeps DEF ReadParent
  <1>10. ASSUME NEW r \in Call, Lookup(r) PROVE Inv'
    BY <1>10, LookupGood, CallStepKeeps DEF Lookup
  <1>11. ASSUME NEW r \in Call, ConsultUpdate(r) PROVE Inv'
    BY <1>11, ConsultUpdateGood, CallStepKeeps DEF ConsultUpdate
  <1>12. ASSUME NEW r \in Call, ReadTarget(r) PROVE Inv'
    BY <1>12, ReadTargetGood, CallStepKeeps DEF ReadTarget
  <1>13. ASSUME NEW r \in Call, Callback(r) PROVE Inv'
    BY <1>13, CallbackGood, CallStepKeeps DEF Callback
  <1>14. ASSUME NEW r \in Call, DecideCreate(r) PROVE Inv'
    BY <1>14, DecideCreateGood, CallStepKeeps DEF DecideCreate
  <1>15. ASSUME NEW r \in Call, DecideUpdate(r) PROVE Inv'
    BY <1>15, DecideUpdateGood, CallStepKeeps DEF DecideUpdate
  <1>16. ASSUME NEW r \in Call, ConsultGet(r) PROVE Inv'
    BY <1>16, ConsultGetGood, CallStepKeeps DEF ConsultGet
  <1>17. ASSUME NEW r \in Call, Select(r) PROVE Inv'
    BY <1>17, SelectGood, CallStepKeeps DEF Select
  <1>18. ASSUME NEW c \in Scopes, Expire(c) PROVE Inv'
    BY <1>18, ExpireKeeps
  <1>19. CASE Revise
    BY <1>19, ReviseKeeps
  <1>20. QED
    BY <1>1, <1>2, <1>3, <1>4, <1>5, <1>6, <1>7, <1>8, <1>9, <1>10, <1>11, <1>12,
       <1>13, <1>14, <1>15, <1>16, <1>17, <1>18, <1>19 DEF Next

\* The whole invariant, for authorization.rs, authorization_storage.rs and the
\* handlers of system_http.rs together.
THEOREM Invariance == Spec => []Inv
  <1>1. QED
    BY InitInv, NextInv, PTL DEF Spec

-----------------------------------------------------------------------------
(* The theorems.                                                           *)

\* Type correctness of the locals of the admission functions.
THEOREM TypeCorrect == Spec => []TypeOK
  <1>1. Inv => TypeOK
    BY DEF Inv
  <1>2. QED
    BY <1>1, Invariance, PTL

\* A committed write was permitted while the callback of create_system_if or
\* update_system ran, by the owners the database holds.
THEOREM CommittedWritesArePermitted == Spec => []WritesArePermitted
  <1>1. Inv => WritesArePermitted
    BY DEF Inv, StoredInv, WritesArePermitted
  <1>2. QED
    BY <1>1, Invariance, PTL

\* No answer of a handler and no denied audit row tells of a System that its
\* caller could not read while the call ran.
THEOREM ConcealmentHolds == Spec => []NothingConcealedIsTold
  <1>1. Inv => NothingConcealedIsTold
    BY DEF Inv, CallInv, TellInv, NothingConcealedIsTold
  <1>2. QED
    BY <1>1, Invariance, PTL

\* PreparedRetry::replay discloses nothing of a recorded creation that the
\* policy forbade while the callback ran.
THEOREM RetriesAreReauthorized == Spec => []ReplayIsReauthorized
  <1>1. Inv => ReplayIsReauthorized
    BY DEF Inv, CallInv, ReplayInv, ReplayIsReauthorized
  <1>2. QED
    BY <1>1, Invariance, PTL
=============================================================================
