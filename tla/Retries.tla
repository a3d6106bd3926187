------------------------------ MODULE Retries ------------------------------
(***************************************************************************)
(* Retries of creations, with the one fact about the past that judging     *)
(* them takes: whether the wall clock was ever set back.                   *)
(***************************************************************************)
EXTENDS SystemWrites

VARIABLE slipped    \* history: the clock was set back

RetryInit == Init /\ slipped = FALSE

RetryNext == Next /\ slipped' = (slipped \/ now' < now)

RetrySpec == RetryInit /\ [][RetryNext]_<<vars, slipped>>

\* docs/write-retries.md: "a live key and identical intent return the original
\* WriteReceipt"; as long as the clock is not set back, the retry of a recorded
\* creation is not turned away as a conflict before its deadline, even if it
\* waited for the recording.
RetryNotRefused ==
    [][\A r \in Request, q \in Visible("system_create_retry") :
          /\ answer[r] = None /\ answer'[r] = "conflict" /\ Keyed(input[r])
          /\ Scope(q) = Scope(r) /\ Digest(q) = Digest(r)
          => slipped \/ Expires(q) <= now]_vars
============================================================================
