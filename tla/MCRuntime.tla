------------------------------ MODULE MCRuntime ------------------------------
(* A small instance of Runtime for TLC: one request more than connections. *)
EXTENDS Runtime

CONSTANTS r1, r2, r3
==============================================================================
