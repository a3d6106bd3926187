----------------------------- MODULE MCKeyCache -----------------------------
(* Small instances of KeyCache for TLC.                                    *)
EXTENDS KeyCache, TLC

CONSTANTS c1, c2, k1, k2

Symmetric == Permutations(Call) \cup Permutations(Kid)
=============================================================================
