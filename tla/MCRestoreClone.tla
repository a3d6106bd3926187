--------------------------- MODULE MCRestoreClone ---------------------------
(* A small instance of RestoreClone for TLC: two runs, which may name the  *)
(* source, the same new database or different ones.                        *)
EXTENDS RestoreClone

CONSTANTS x, y, source, clone
==============================================================================
