------------------------------ MODULE MCRetry ------------------------------
(* A small instance of Retries for TLC.                                    *)
EXTENDS MCSystemWrites, Retries
=============================================================================
