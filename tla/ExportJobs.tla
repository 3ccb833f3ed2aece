----------------------------- MODULE ExportJobs -----------------------------
(***************************************************************************)
(* One asynchronous export (services/export_jobs.py, workers/export.py):   *)
(* attempts claim the job, write a Parquet file, upload it under a key of  *)
(* their own and publish that key in the job row.                          *)
(*                                                                         *)
(* Every claim counts as an attempt and gets a fresh lease token, so that  *)
(* an attempt's number serves as its token and as its object key.  "live"  *)
(* stands for lease_expires_at > now.  The retry delay may end at any      *)
(* time.  Reaping and claiming are transactions of their own, and each     *)
(* attempt goes on for as long as its process lives, stale or not.         *)
(***************************************************************************)
EXTENDS Naturals

CONSTANTS MaxAttempts,  \* max_attempts of the job
          MaxFaults     \* bound on crashes, errors, pauses and lost answers

ASSUME ExportAssumption == MaxAttempts \in Nat \ {0} /\ MaxFaults \in Nat

Attempt == 1..MaxAttempts
None == 0   \* no lease token, no object key

VARIABLES status, attempt_count, lease_token, live, s3_key,   \* the job row
          objects,    \* keys in the object store
          pc,         \* where each attempt stands
          uploaded,   \* attempts that know of their uploaded object
          lost,       \* attempts whose ownership_lost event is set
          faults

row == <<status, attempt_count, lease_token, live, s3_key>>
vars == <<row, objects, pc, uploaded, lost, faults>>

\* The states in which an attempt's heartbeat runs.
Beating == {"generate", "upload", "uploading", "publish", "error"}

\* The ranges of the variables.
TypeOK ==
    /\ status \in {"PENDING", "PROCESSING", "COMPLETED", "FAILED"}
    /\ attempt_count \in 0..MaxAttempts
    /\ lease_token \in 0..MaxAttempts /\ live \in BOOLEAN
    /\ s3_key \in 0..MaxAttempts
    /\ objects \subseteq Attempt /\ uploaded \subseteq Attempt /\ lost \subseteq Attempt
    /\ pc \in [Attempt -> Beating \cup {"none", "cleanup", "done"}]
    /\ faults \in 0..MaxFaults

Init ==
    /\ status = "PENDING" /\ attempt_count = 0
    /\ lease_token = None /\ live = FALSE /\ s3_key = None
    /\ objects = {} /\ uploaded = {} /\ lost = {} /\ faults = 0
    /\ pc = [a \in Attempt |-> "none"]

Fault == faults < MaxFaults /\ faults' = faults + 1
Goto(a, where) == pc' = [pc EXCEPT ![a] = where]

-----------------------------------------------------------------------------
(* The job row *)

\* Mutant: the token is not compared, only the status and the expiry.
OwnsAny(a) == status = "PROCESSING" /\ live

\* The predicate of assert_owned and of the *_if_owned updates.
Owns(a) == status = "PROCESSING" /\ lease_token = a /\ live

Expired == status = "PROCESSING" /\ ~live

\* Mutant: the last attempt is not counted as exhausted.
ReapLate ==
    /\ Expired /\ attempt_count > MaxAttempts
    /\ status' = "FAILED" /\ lease_token' = None
    /\ UNCHANGED <<attempt_count, live, s3_key, objects, pc, uploaded, lost, faults>>

\* reap_expired_exhausted_jobs
Reap ==
    /\ Expired /\ attempt_count >= MaxAttempts
    /\ status' = "FAILED" /\ lease_token' = None
    /\ UNCHANGED <<attempt_count, live, s3_key, objects, pc, uploaded, lost, faults>>

\* Mutant: an expired claim is taken over without regard to the attempts used.
ClaimUnbounded ==
    /\ status = "PENDING" \/ Expired
    /\ status' = "PROCESSING" /\ live' = TRUE
    /\ attempt_count' = attempt_count + 1
    /\ lease_token' = attempt_count'
    /\ Goto(attempt_count', "generate")
    /\ UNCHANGED <<s3_key, objects, uploaded, lost, faults>>

\* _claim, by a requested run or by the recovery sweep.
Claim ==
    /\ status = "PENDING" \/ Expired
    /\ attempt_count < MaxAttempts
    /\ status' = "PROCESSING" /\ live' = TRUE
    /\ attempt_count' = attempt_count + 1
    /\ lease_token' = attempt_count'
    /\ Goto(attempt_count', "generate")
    /\ UNCHANGED <<s3_key, objects, uploaded, lost, faults>>

\* complete_if_owned, for the owner.
PublishKey(a) ==
    /\ Owns(a)
    /\ status' = "COMPLETED" /\ s3_key' = a
    /\ lease_token' = None /\ live' = FALSE
    /\ UNCHANGED attempt_count

-----------------------------------------------------------------------------
(* One attempt: _execute_claimed_export *)

\* _generate_parquet_export, up to its last ownership check.
Generate(a) ==
    /\ pc[a] = "generate"
    /\ Goto(a, IF a \notin lost /\ Owns(a) THEN "upload" ELSE "done")
    /\ UNCHANGED <<row, objects, uploaded, lost, faults>>

StartUpload(a) ==
    /\ pc[a] = "upload"
    /\ Goto(a, IF a \in lost THEN "done" ELSE "uploading")
    /\ UNCHANGED <<row, objects, uploaded, lost, faults>>

\* The upload thread is always awaited; a stale attempt removes its object.
UploadEnds(a) ==
    /\ pc[a] = "uploading"
    /\ objects' = objects \cup {a}
    /\ uploaded' = uploaded \cup {a}
    /\ Goto(a, IF a \in lost THEN "cleanup" ELSE "publish")
    /\ UNCHANGED <<row, lost, faults>>

\* The upload reports a failure; the object may be there all the same.
UploadFails(a) ==
    /\ Fault
    /\ pc[a] = "uploading"
    /\ objects' \in {objects, objects \cup {a}}
    /\ Goto(a, IF a \in lost THEN "done" ELSE "error")
    /\ UNCHANGED <<row, uploaded, lost>>

Publish(a) ==
    /\ pc[a] = "publish"
    /\ IF a \notin lost /\ Owns(a)
       THEN PublishKey(a) /\ Goto(a, "done")
       ELSE UNCHANGED row /\ Goto(a, "cleanup")
    /\ UNCHANGED <<objects, uploaded, lost, faults>>

\* The same, but the answer to the commit is lost.
PublishUnanswered(a) ==
    /\ Fault
    /\ pc[a] = "publish" /\ a \notin lost
    /\ PublishKey(a)
    /\ Goto(a, "error")
    /\ UNCHANGED <<objects, uploaded, lost>>

\* The database or the disk fails.
AttemptError(a) ==
    /\ Fault
    /\ pc[a] \in {"generate", "publish"}
    /\ Goto(a, "error")
    /\ UNCHANGED <<row, objects, uploaded, lost>>

\* Where the error path ends: an uploaded object that was not published goes.
AfterError(a) == Goto(a, IF a \in uploaded THEN "cleanup" ELSE "done")

\* Mutant: the failure is recorded in whatever state the row is.
RecordFailureUnowned(a) ==
    /\ pc[a] = "error"
    /\ status' = IF attempt_count < MaxAttempts THEN "PENDING" ELSE "FAILED"
    /\ lease_token' = None /\ live' = FALSE
    /\ AfterError(a)
    /\ UNCHANGED <<attempt_count, s3_key, objects, uploaded, lost, faults>>

\* record_failure_if_owned
RecordFailure(a) ==
    /\ pc[a] = "error"
    /\ IF Owns(a)
       THEN /\ status' = IF attempt_count < MaxAttempts THEN "PENDING" ELSE "FAILED"
            /\ lease_token' = None /\ live' = FALSE
            /\ UNCHANGED <<attempt_count, s3_key>>
       ELSE UNCHANGED row
    /\ AfterError(a)
    /\ UNCHANGED <<objects, uploaded, lost, faults>>

\* The failure cannot be recorded; the claim is left to expire.
RecordFails(a) ==
    /\ Fault
    /\ pc[a] = "error"
    /\ AfterError(a)
    /\ UNCHANGED <<row, objects, uploaded, lost>>

\* Mutant: all attempts share one object key.
CleanupShared(a) ==
    /\ pc[a] = "cleanup"
    /\ objects' = {}
    /\ Goto(a, "done")
    /\ UNCHANGED <<row, uploaded, lost, faults>>

\* _delete_artifact_sync
Cleanup(a) ==
    /\ pc[a] = "cleanup"
    /\ objects' = objects \ {a}
    /\ Goto(a, "done")
    /\ UNCHANGED <<row, uploaded, lost, faults>>

\* Deletion is best effort.
CleanupFails(a) ==
    /\ Fault
    /\ pc[a] = "cleanup"
    /\ Goto(a, "done")
    /\ UNCHANGED <<row, objects, uploaded, lost>>

\* The process dies, perhaps with its upload just done.
Crash(a) ==
    /\ Fault
    /\ pc[a] \in Beating \cup {"cleanup"}
    /\ objects' \in {objects} \cup (IF pc[a] = "uploading" THEN {objects \cup {a}} ELSE {})
    /\ Goto(a, "done")
    /\ UNCHANGED <<row, uploaded, lost>>

-----------------------------------------------------------------------------
(* The lease *)

\* heartbeat_loop finds the claim gone.
HeartbeatLost(a) ==
    /\ pc[a] \in Beating /\ ~Owns(a)
    /\ lost' = lost \cup {a}
    /\ UNCHANGED <<row, objects, pc, uploaded, faults>>

\* heartbeat_loop meets a database error.
HeartbeatError(a) ==
    /\ Fault
    /\ pc[a] \in Beating
    /\ lost' = lost \cup {a}
    /\ UNCHANGED <<row, objects, pc, uploaded>>

Renewed == \E a \in Attempt \ lost : pc[a] \in Beating /\ Owns(a)

\* The lease runs out: nobody renews it, or its worker is paused.
Expire ==
    /\ status = "PROCESSING" /\ live
    /\ IF Renewed THEN Fault ELSE UNCHANGED faults
    /\ live' = FALSE
    /\ UNCHANGED <<status, attempt_count, lease_token, s3_key, objects, pc, uploaded, lost>>

Progress(a) ==
    \/ Generate(a) \/ StartUpload(a) \/ UploadEnds(a) \/ Publish(a)
    \/ RecordFailure(a) \/ Cleanup(a)

Faulty(a) ==
    \/ UploadFails(a) \/ PublishUnanswered(a) \/ AttemptError(a) \/ RecordFails(a)
    \/ CleanupFails(a) \/ Crash(a) \/ HeartbeatError(a)

Next ==
    \/ Reap \/ Claim \/ Expire
    \/ \E a \in Attempt : Progress(a) \/ Faulty(a) \/ HeartbeatLost(a)

Spec == Init /\ [][Next]_vars

\* The maintenance loop sends the recovery sweep again and again, storage and
\* database calls end (their timeouts are finite), and a lease that nobody
\* renews runs out.
FairSpec ==
    /\ Spec
    /\ WF_vars(Reap) /\ WF_vars(Claim)
    /\ WF_vars(~Renewed /\ Expire)
    /\ \A a \in Attempt : WF_vars(Progress(a))

-----------------------------------------------------------------------------
(* Properties *)

\* The published key is that of the latest claim, and only a completed export
\* has one: a paused attempt that wakes up after a later claim never publishes.
PublishedByLatest ==
    IF status = "COMPLETED" THEN s3_key = attempt_count /\ s3_key # None
    ELSE s3_key = None

\* A completed export stays as it is, whatever late attempts do.
CompletedIsFinal ==
    [][status = "COMPLETED" => UNCHANGED <<status, s3_key>>]_vars

\* No attempt removes the published object of another one.
PublishedIsKept ==
    [][(s3_key \in objects \ objects') => pc[s3_key] = "cleanup"]_vars

\* Every export completes or fails, also when each attempt dies after its claim.
ExportSettles == <>(status \in {"COMPLETED", "FAILED"})

\* The download URL of a completed export leads to an object.
PublishedExists == status = "COMPLETED" => s3_key \in objects
=============================================================================
