---------------------------- MODULE MCDenialAudit ----------------------------
(* A small instance of DenialAudit for TLC: the denials of one process and *)
(* of the process that replaces it, whose transactions the database cannot *)
(* tell from those of another one.                                         *)
EXTENDS DenialAudit

CONSTANTS p1, d1, d2, d3

AllInOne == [d \in Denial |-> p1]
==============================================================================
