---------------------------- MODULE MCReferences ----------------------------
(* A small instance of References for TLC: every document of few parts.    *)
EXTENDS References

CONSTANTS a, b

A(kind, id, value) == [kind |-> kind, id |-> id, value |-> value]

\* A shared target that may contain itself, one with a value, and one of each
\* other kind that the slots tell apart.  The items of a choice are what the
\* fields of a record are.
Parts ==
    {A("DataChoice", a, FALSE), A("DataArray", None, FALSE), A("Matrix", None, FALSE),
     A("Count", b, TRUE), A("Category", None, FALSE)}
==============================================================================
