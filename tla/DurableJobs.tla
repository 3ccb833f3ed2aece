---------------------------- MODULE DurableJobs -----------------------------
(***************************************************************************)
(* The lease protocol of a durable job row, as the gap-repair, historical- *)
(* merge and continuous-aggregate services each implement it: a worker     *)
(* claims a pending or expired row and receives a fresh lease token, its   *)
(* transactions check that token and the expiry under a row lock, and      *)
(* failures are counted against the job's retries.                         *)
(*                                                                         *)
(* A token is the worker slot of the attempt that received it: a slot runs *)
(* one attempt at a time and tokens are random, so an old attempt's token  *)
(* never equals a newer one.  "live" stands for lease_expires_at > now.    *)
(* The retry delay (next_attempt_at) is a wait that may end at any time.   *)
(***************************************************************************)
EXTENDS Naturals

CONSTANTS NoWorker,     \* lease_token and worker_id of an unclaimed row
          MaxRetries    \* max_retries of a job

ASSUME JobAssumption == MaxRetries \in Nat

Status == {"NONE", "PENDING", "PROCESSING", "AWAITING_MERGE", "COMPLETED", "FAILED"}

JobType(Worker) == [status : Status, holder : Worker \cup {NoWorker},
                    live : BOOLEAN, retries : Nat]

\* No row, and a row as the schedulers insert it.
NoJob  == [status |-> "NONE", holder |-> NoWorker, live |-> FALSE, retries |-> 0]
NewJob == [NoJob EXCEPT !.status = "PENDING"]

\* Mutant: a row whose worker died is not claimed again.
ClaimablePending(job) == job.status = "PENDING"

\* What claim_job selects.
Claimable(job) ==
    \/ job.status = "PENDING"
    \/ job.status = "PROCESSING" /\ ~job.live

Claimed(job, w) ==
    [job EXCEPT !.status = "PROCESSING", !.holder = w, !.live = TRUE]

\* The predicate of _assert_lease_owned and of every *_if_owned update.
Owned(job, w) ==
    job.status = "PROCESSING" /\ job.holder = w /\ job.live

\* The row leaves PROCESSING for the given status and forgets its claim.
Settled(job, status) ==
    [job EXCEPT !.status = status, !.holder = NoWorker, !.live = FALSE]

\* _record_failure_if_owned, for the owner.
Failed(job, retryable) ==
    [Settled(job, IF retryable /\ job.retries + 1 <= MaxRetries
                  THEN "PENDING" ELSE "FAILED")
       EXCEPT !.retries = job.retries + 1]
=============================================================================
