---------------------------- MODULE MCAdmission ----------------------------
(* Small instances of Admission for TLC.                                   *)
EXTENDS Admission, TLC

CONSTANTS r1, r2, r3, c1, c2, A, B, k1, p1, p2

Whole(sources) == {[source |-> s, resources |-> None] : s \in sources}

Listed(source, ids) == {[source |-> source, resources |-> ids]}

Rules(read, create, update) ==
    [a \in Action |-> CASE a = "read" -> read
                        [] a = "create" -> create
                        [] a = "update" -> update]

\* Everything to the first caller; the second, whose identity does not fit the
\* audit, may do what it likes to source A.
Open == c1 :> Rules(Whole({A, B}), Whole({A, B}), Whole({A, B}))
        @@ c2 :> Rules(Whole({A}), Whole({A}), Whole({A}))

\* Source A is closed to readers.
Closed == c1 :> Rules(Whole({B}), Whole({A, B}), Whole({A, B}))
          @@ c2 :> Rules(Whole({B}), {}, {})

\* Nothing may be written to source B, and nothing at all to source A but to a
\* System that is listed.
Only(x) == c1 :> Rules(Whole({A, B}), Listed(A, {x}), Listed(A, {x}))
           @@ c2 :> Rules(Listed(A, {x}), Listed(A, {}), {})

RetryPolicies == {Open, Closed} \cup {Only(x) : x \in Call}

\* Source A is closed to readers and to updates.
Shut == c1 :> Rules(Whole({B}), Whole({A, B}), Whole({B}))
        @@ c2 :> Rules(Whole({A, B}), {}, {})

TreePolicies == {Open, Shut}

Create(c, source, parent, key, payload, condition) ==
    [op |-> "create", caller |-> c, source |-> source, parent |-> parent, key |-> key,
     payload |-> payload, condition |-> condition]

\* Retries of a creation, some with another intent or a condition.
RetryInputs ==
    {Create(c1, A, None, k1, p, TRUE) : p \in {p1, p2}}
    \cup {Create(c1, A, None, None, p1, TRUE), Create(c1, A, None, k1, p1, FALSE),
          Create(c2, A, None, None, p1, TRUE)}

\* Systems below each other, bare identities, updates and reads.
TreeInputs ==
    {Create(c1, A, None, None, p1, TRUE)}
    \cup {Create(c1, B, s, None, p1, TRUE) : s \in Call}
    \cup {[Create(c1, A, None, None, p1, TRUE) EXCEPT !.op = "identity"]}
    \cup [op : {"update"}, caller : {c1, c2}, target : Call]
    \cup [op : {"get"}, caller : {c1}, target : Call]
    \cup {[op |-> "list", caller |-> c2, limit |-> 1]}

Symmetric == Permutations(Call)
=============================================================================
