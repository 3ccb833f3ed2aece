----------------------------- MODULE GapRepair ------------------------------
(***************************************************************************)
(* Durable gap repair of one asset (services/gap_repair.py): windows of    *)
(* minutes are scheduled as jobs, claimed by workers, downloaded from the  *)
(* exchange and committed in fenced batches; a job whose rows went to      *)
(* staging waits for the historical merger.                                *)
(*                                                                         *)
(* Coverage is the set of minutes of the asset's sync_ranges, of which     *)
(* CandleStore models the rows and the detection of what is missing.  A    *)
(* job is named by its window: at most one job of a window is active, and  *)
(* a finished one matters no more once the window is scheduled again.      *)
(* Every transaction locks the asset or the job row and is one step; what  *)
(* an attempt reads in one transaction and uses in another is kept in its  *)
(* local state.                                                            *)
(***************************************************************************)
EXTENDS DurableJobs, Integers, FiniteSets

CONSTANTS GapWorker,    \* slots of gap-repair workers
          Horizon,      \* minutes are 0..Horizon
          HistoricalTo, \* minutes before this one are older than 7 days
          MaxOverlaps,  \* GAP_REPAIR_MAX_ACTIVE_OVERLAPS
          MaxFaults     \* bound on crashes, errors and pauses

ASSUME GapAssumption ==
    /\ NoWorker \notin GapWorker
    /\ Horizon \in Nat \ {0} /\ HistoricalTo \in Nat
    /\ MaxOverlaps \in Nat /\ MaxFaults \in Nat

Minute == 0..Horizon
Historical == {m \in Minute : m < HistoricalTo}
Window == {w \in Minute \X Minute : w[1] < w[2]}
MinutesOf(w) == w[1]..w[2]

VARIABLES covered,   \* minutes in sync_ranges
          staging,   \* minutes in gap_staging_candles
          jobs,      \* gap_repair_jobs
          att,       \* the attempt each worker slot runs
          lost,      \* slots whose ownership_lost event is set
          faults     \* crashes, errors and pauses so far

gapVars == <<covered, staging, jobs, att, lost, faults>>

GapPC == {"idle", "detect", "fetch", "check", "park", "complete",
          "retry", "giveup"}
Idle == [pc |-> "idle", job |-> <<0, 1>>, todo |-> {}]

\* The ranges of the variables of gap repair.
GapTypeOK ==
    /\ covered \subseteq Minute
    /\ staging \subseteq Historical
    /\ jobs \in [Window -> JobType(GapWorker)]
    /\ att \in [GapWorker -> [pc : GapPC, job : Window, todo : SUBSET Minute]]
    /\ lost \subseteq GapWorker
    /\ faults \in 0..MaxFaults

GapInit ==
    /\ covered = {} /\ staging = {}
    /\ jobs = [w \in Window |-> NoJob]
    /\ att = [g \in GapWorker |-> Idle]
    /\ lost = {} /\ faults = 0

Fault == faults < MaxFaults /\ faults' = faults + 1

Busy(g) == att[g].pc # "idle"
OwnsJob(g) == Owned(jobs[att[g].job], g)

\* The attempt goes on at pc; it ends and its heartbeat is cancelled.
Goto(g, pc) == att' = [att EXCEPT ![g].pc = pc]
End(g) == att' = [att EXCEPT ![g] = Idle] /\ lost' = lost \ {g}

-----------------------------------------------------------------------------
(* Scheduling *)

\* Mutant: a job that waits for the merger does not count as active.
ActiveUnparked(w) == jobs[w].status \in {"PENDING", "PROCESSING"}

\* _ACTIVE_STATUSES
Active(w) == jobs[w].status \in {"PENDING", "PROCESSING", "AWAITING_MERGE"}

Overlap(v, w) == v[1] < w[2] /\ w[1] < v[2]

\* _uncovered_intervals: the largest parts of w that no active job overlaps.
Unscheduled(w) ==
    LET free == {v \in Window : /\ w[1] <= v[1] /\ v[2] <= w[2]
                                /\ \A a \in Window : Active(a) => ~Overlap(a, v)}
    IN  {v \in free : \A u \in free : u[1] <= v[1] /\ v[2] <= u[2] => u = v}

\* schedule_repair_jobs, for a window found by a scan or asked for by an actor.
Schedule(w) ==
    /\ Cardinality({a \in Window : Active(a) /\ Overlap(a, w)}) <= MaxOverlaps
    /\ Unscheduled(w) # {}
    /\ jobs' = [v \in Window |-> IF v \in Unscheduled(w) THEN NewJob ELSE jobs[v]]
    /\ UNCHANGED <<covered, staging, att, lost, faults>>

\* The live pipeline persists a recent minute of the asset.
LiveCommit(m) ==
    /\ m \notin Historical
    /\ covered' = covered \cup {m}
    /\ UNCHANGED <<staging, jobs, att, lost, faults>>

-----------------------------------------------------------------------------
(* One attempt: process_next_job *)

ClaimJob(g, w) ==
    /\ ~Busy(g)
    /\ Claimable(jobs[w])
    /\ jobs' = [jobs EXCEPT ![w] = Claimed(@, g)]
    /\ att' = [att EXCEPT ![g] = [pc |-> "detect", job |-> w, todo |-> {}]]
    /\ UNCHANGED <<covered, staging, lost, faults>>

\* The missing intervals of a window reach to the covered minutes beside them.
FetchMinutes(w) ==
    {m \in MinutesOf(w) : \E k \in MinutesOf(w) \ covered : k - 1 <= m /\ m <= k + 1}

\* detect_gaps, before the first request.
DetectGaps(g) ==
    /\ att[g].pc = "detect"
    /\ att' = [att EXCEPT ![g].pc = "fetch",
                          ![g].todo = FetchMinutes(att[g].job)]
    /\ UNCHANGED <<covered, staging, jobs, lost, faults>>

\* Mutant: the whole batch is staged as soon as one of its minutes is old.
CommitBatchStaged(batch) ==
    /\ covered' = IF batch \cap Historical = {} THEN covered \cup batch ELSE covered
    /\ staging' = IF batch \cap Historical = {} THEN staging ELSE staging \cup batch

\* Recent minutes become canonical, historical ones are staged.
CommitBatch(batch) ==
    /\ covered' = covered \cup (batch \ Historical)
    /\ staging' = staging \cup (batch \cap Historical)

\* The next page arrives, perhaps with minutes missing.  A batch that is not
\* empty is committed under the claim, or ends the attempt.
FetchBatch(g) ==
    /\ att[g].pc = "fetch"
    /\ \E last \in att[g].todo :
         LET page == {m \in att[g].todo : m <= last} IN
         \E batch \in SUBSET page :
           IF batch = {} \/ (g \notin lost /\ OwnsJob(g))
           THEN /\ CommitBatch(batch)
                /\ att' = [att EXCEPT ![g].todo = @ \ page]
                /\ UNCHANGED lost
           ELSE End(g) /\ UNCHANGED <<covered, staging>>
    /\ UNCHANGED <<jobs, faults>>

\* Mutant: completion is decided from the download, not from coverage.
VerifyDownload(g) ==
    /\ att[g].pc = "fetch" /\ att[g].todo = {}
    /\ Goto(g, "complete")
    /\ UNCHANGED <<covered, staging, jobs, lost, faults>>

\* detect_gaps again, after the last page.
VerifyCoverage(g) ==
    /\ att[g].pc = "fetch" /\ att[g].todo = {}
    /\ Goto(g, IF MinutesOf(att[g].job) \subseteq covered THEN "complete" ELSE "check")
    /\ UNCHANGED <<covered, staging, jobs, lost, faults>>

\* _has_staged_rows; without them the coverage is incomplete, a retryable error.
HasStagedRows(g) ==
    /\ att[g].pc = "check"
    /\ Goto(g, IF staging \cap MinutesOf(att[g].job) # {} THEN "park" ELSE "retry")
    /\ UNCHANGED <<covered, staging, jobs, lost, faults>>

\* _mark_awaiting_merge_if_owned
Park(g) ==
    /\ att[g].pc = "park"
    /\ jobs' = IF OwnsJob(g)
               THEN [jobs EXCEPT ![att[g].job] = Settled(@, "AWAITING_MERGE")]
               ELSE jobs
    /\ End(g)
    /\ UNCHANGED <<covered, staging, faults>>

\* _mark_complete_and_schedule_cagg
Complete(g) ==
    /\ att[g].pc = "complete"
    /\ jobs' = IF g \notin lost /\ OwnsJob(g)
               THEN [jobs EXCEPT ![att[g].job] = Settled(@, "COMPLETED")]
               ELSE jobs
    /\ End(g)
    /\ UNCHANGED <<covered, staging, faults>>

\* An exception of the exchange or of the database, retryable or not.
AttemptError(g) ==
    /\ Fault
    /\ att[g].pc \in {"detect", "fetch", "check", "park", "complete"}
    /\ \E pc \in {"retry", "giveup"} : Goto(g, pc)
    /\ UNCHANGED <<covered, staging, jobs, lost>>

\* Mutant: a failure is recorded without looking at the claim.
RecordFailureUnowned(g) ==
    /\ att[g].pc \in {"retry", "giveup"}
    /\ jobs' = [jobs EXCEPT ![att[g].job] = Failed(@, att[g].pc = "retry")]
    /\ End(g)
    /\ UNCHANGED <<covered, staging, faults>>

\* _record_failure_if_owned
RecordFailure(g) ==
    /\ att[g].pc \in {"retry", "giveup"}
    /\ jobs' = IF OwnsJob(g)
               THEN [jobs EXCEPT ![att[g].job] = Failed(@, att[g].pc = "retry")]
               ELSE jobs
    /\ End(g)
    /\ UNCHANGED <<covered, staging, faults>>

\* The process dies, or the failure cannot be recorded.
Crash(g) ==
    /\ Fault
    /\ Busy(g)
    /\ End(g)
    /\ UNCHANGED <<covered, staging, jobs>>

\* _heartbeat_loop finds the claim gone; a renewal changes nothing here.
HeartbeatLost(g) ==
    /\ Busy(g) /\ ~OwnsJob(g)
    /\ lost' = lost \cup {g}
    /\ UNCHANGED <<covered, staging, jobs, att, faults>>

\* _heartbeat_loop meets a database error and fences its worker.
HeartbeatError(g) ==
    /\ Fault
    /\ Busy(g)
    /\ lost' = lost \cup {g}
    /\ UNCHANGED <<covered, staging, jobs, att>>

\* A heartbeat renews the lease of this job.
Renewed(w) == \E g \in GapWorker \ lost : Busy(g) /\ att[g].job = w /\ OwnsJob(g)

\* The lease runs out: nobody renews it, or its worker is paused.
Expire(w) ==
    /\ jobs[w].status = "PROCESSING" /\ jobs[w].live
    /\ IF Renewed(w) THEN Fault ELSE UNCHANGED faults
    /\ jobs' = [jobs EXCEPT ![w].live = FALSE]
    /\ UNCHANGED <<covered, staging, att, lost>>

Attempt(g) ==
    \/ DetectGaps(g) \/ FetchBatch(g) \/ VerifyCoverage(g) \/ HasStagedRows(g)
    \/ Park(g) \/ Complete(g) \/ RecordFailure(g)

GapNext ==
    \/ \E w \in Window : Schedule(w) \/ Expire(w)
    \/ \E m \in Minute : LiveCommit(m)
    \/ \E g \in GapWorker :
         \/ \E w \in Window : ClaimJob(g, w)
         \/ Attempt(g) \/ AttemptError(g) \/ Crash(g)
         \/ HeartbeatLost(g) \/ HeartbeatError(g)
=============================================================================
