------------------------- MODULE MCSubmissionEngine -------------------------
(* Small instances of SubmissionEngine for TLC. *)
EXTENDS SubmissionEngine, TLC

CONSTANTS a1, a2, x1, x2

\* The way back from a failed or unconfirmed submission to another one, which is
\* also how the owner can get in the way of a submission.
RetryStatuses == {"READY_TO_SUBMIT", "WAITING_FOR_USER", "APPLICATION_STARTED", "RETRY_PENDING",
                  "UNCONFIRMED"}
NoStatuses    == {}

Symmetric == Permutations({a1, a2}) \cup Permutations({x1, x2})
=============================================================================
