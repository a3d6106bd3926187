--------------------------- MODULE MCSystemWrites ---------------------------
(* Small instances of SystemWrites for TLC: which calls the clients make.  *)
EXTENDS SystemWrites, TLC

CONSTANTS r1, r2, r3, r4, k1, u1, u2, u3, a1, a2, p1

Creation(op, key, uid, aliases, parent) ==
    [op |-> op, key |-> key, retention |-> 2, uid |-> uid, aliases |-> aliases,
     parent |-> parent, payload |-> p1]

\* Keyed and unkeyed creations of two intents.
RetryInputs ==
    {Creation("create", k, u, <<>>, None) : k \in {k1, None}, u \in {u1, u2}}

\* One System, conditional and unconditional updates, bare identities, history
\* appended below the write boundary, and creations below some System, keyed and
\* unkeyed, whose aliases cross.
SystemInputs ==
    {Creation(op, None, u1, <<>>, None) : op \in {"create", "identity"}}
    \cup UpdateInput
    \cup [op : {"history"}, target : Request \cup {None}, artifact : {None}]
    \cup {[op |-> "history", target |-> s, artifact |-> s] : s \in Request}
    \cup {Creation("create", None, u2, <<a1, a2>>, p) : p \in Request}
    \cup {Creation("create", k1, u3, <<a2, a1>>, p) : p \in Request}

\* The same contention around one System, small enough for liveness.
LiveInputs ==
    {Creation("create", None, u1, <<>>, None)}
    \cup {Creation("create", None, u2, <<a1, a2>>, r1)}
    \cup {Creation("create", k1, u3, <<a2, a1>>, r1)}
    \cup {[Creation("create", None, u1, <<>>, None) EXCEPT !.op = "identity"]}
    \cup [op : {"update"}, target : {r1}, expected : {None}]
    \cup {[op |-> "history", target |-> r1, artifact |-> None]}

Symmetric == Permutations(Request)
=============================================================================
