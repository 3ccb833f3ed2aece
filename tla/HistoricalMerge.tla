-------------------------- MODULE HistoricalMerge ---------------------------
(***************************************************************************)
(* Promotion of staged candles, day by day (services/historical_merge.py), *)
(* together with gap repair: a merge attempt decompresses the chunk of its *)
(* day, moves staging to canonical storage page by page, recompresses the  *)
(* chunk, completes its job and requeues the gap jobs whose window is      *)
(* drained.                                                                *)
(***************************************************************************)
EXTENDS GapRepair

CONSTANTS MergeWorker,  \* slots of merge workers
          DayLength,    \* minutes of a day
          PageSize      \* HISTORICAL_MERGE_PAGE_SIZE

ASSUME MergeAssumption ==
    /\ NoWorker \notin MergeWorker
    /\ DayLength \in Nat \ {0}
    /\ PageSize \in Nat \ {0}

DayOf(m) == m \div DayLength
Day == {DayOf(m) : m \in Minute}

VARIABLES mjobs,     \* historical_merge_jobs, one row per day
          matt,      \* the attempt each merge slot runs
          mlost,     \* merge slots whose ownership_lost event is set
          writable   \* days whose chunk is decompressed

mergeVars == <<mjobs, matt, mlost, writable>>
vars == <<gapVars, mergeVars>>

MergePC == {"idle", "decompress", "decompressing", "page", "recompress",
            "recompressing", "complete", "release", "failed"}
MergeIdle == [pc |-> "idle", day |-> DayOf(0)]

\* The ranges of all variables.
TypeOK ==
    /\ GapTypeOK
    /\ mjobs \in [Day -> JobType(MergeWorker)]
    /\ matt \in [MergeWorker -> [pc : MergePC, day : Day]]
    /\ mlost \subseteq MergeWorker
    /\ writable \subseteq Day

Init ==
    /\ GapInit
    /\ mjobs = [d \in Day |-> NoJob]
    /\ matt = [h \in MergeWorker |-> MergeIdle]
    /\ mlost = {} /\ writable = {}

StagedOn(d) == {m \in staging : DayOf(m) = d}

MBusy(h) == matt[h].pc # "idle"
OwnsDay(h) == Owned(mjobs[matt[h].day], h)
MGoto(h, pc) == matt' = [matt EXCEPT ![h].pc = pc]
MEnd(h) == matt' = [matt EXCEPT ![h] = MergeIdle] /\ mlost' = mlost \ {h}

\* What the steps of the merger leave alone.
gapJobVars == <<jobs, att, lost>>

-----------------------------------------------------------------------------
(* Scheduling and claiming *)

\* Mutant: a failed day is never reopened.
ScheduleFreshDays ==
    /\ mjobs' = [d \in Day |->
                   IF StagedOn(d) # {} /\ mjobs[d].status \in {"NONE", "COMPLETED"}
                   THEN Settled(mjobs[d], "PENDING") ELSE mjobs[d]]
    /\ UNCHANGED <<gapVars, matt, mlost, writable>>

\* schedule_staged_days: a day with staged rows gets a job, or its finished one
\* is reopened with the retries it has used.
ScheduleStagedDays ==
    /\ mjobs' = [d \in Day |->
                   IF StagedOn(d) # {} /\ mjobs[d].status \in {"NONE", "COMPLETED", "FAILED"}
                   THEN Settled(mjobs[d], "PENDING") ELSE mjobs[d]]
    /\ UNCHANGED <<gapVars, matt, mlost, writable>>

ClaimDay(h, d) ==
    /\ ~MBusy(h)
    /\ Claimable(mjobs[d])
    /\ mjobs' = [mjobs EXCEPT ![d] = Claimed(@, h)]
    /\ matt' = [matt EXCEPT ![h] = [pc |-> "decompress", day |-> d]]
    /\ UNCHANGED <<gapVars, mlost, writable>>

-----------------------------------------------------------------------------
(* One attempt: process_next_job *)

\* The ownership checks that come before the chunk calls, each in a session of
\* its own.
CheckBeforeChunkCall(h) ==
    /\ matt[h].pc \in {"decompress", "recompress"}
    /\ IF h \notin mlost /\ OwnsDay(h)
       THEN /\ MGoto(h, IF matt[h].pc = "decompress" THEN "decompressing"
                        ELSE "recompressing")
            /\ UNCHANGED mlost
       ELSE MEnd(h)
    /\ UNCHANGED <<gapVars, mjobs, writable>>

DecompressDay(h) ==
    /\ matt[h].pc = "decompressing"
    /\ writable' = writable \cup {matt[h].day}
    /\ MGoto(h, "page")
    /\ UNCHANGED <<gapVars, mjobs, mlost>>

\* Copied to raw, proven and deleted in one transaction.
PromotePage(page) ==
    /\ staging' = staging \ page
    /\ covered' = covered \cup page

\* _merge_one_page: the first rows of the day, or none and the loop ends.
MergeOnePage(h) ==
    LET rows == StagedOn(matt[h].day)
        page == {m \in rows : Cardinality({k \in rows : k < m}) < PageSize} IN
    /\ matt[h].pc = "page"
    /\ IF h \notin mlost /\ OwnsDay(h)
       THEN /\ PromotePage(page)
            /\ MGoto(h, IF page = {} THEN "recompress" ELSE "page")
            /\ UNCHANGED mlost
       ELSE MEnd(h) /\ UNCHANGED <<covered, staging>>
    /\ UNCHANGED <<gapJobVars, faults, mjobs, writable>>

\* The same while a repair transaction has all rows of the day locked: the
\* merger skips them and takes the day for drained.
MergeSkipsLocked(h) ==
    /\ matt[h].pc = "page"
    /\ h \notin mlost /\ OwnsDay(h)
    /\ StagedOn(matt[h].day) # {}
    /\ \E g \in GapWorker : /\ att[g].pc = "fetch"
                            /\ StagedOn(matt[h].day) \subseteq att[g].todo
    /\ MGoto(h, "recompress")
    /\ UNCHANGED <<gapVars, mjobs, mlost, writable>>

RecompressDay(h) ==
    /\ matt[h].pc = "recompressing"
    /\ writable' = writable \ {matt[h].day}
    /\ MGoto(h, "complete")
    /\ UNCHANGED <<gapVars, mjobs, mlost>>

\* _complete_if_owned; with rows left the attempt just stops.
CompleteDay(h) ==
    /\ matt[h].pc = "complete"
    /\ IF h \notin mlost /\ OwnsDay(h) /\ StagedOn(matt[h].day) = {}
       THEN /\ mjobs' = [mjobs EXCEPT ![matt[h].day] = Settled(@, "COMPLETED")]
            /\ MGoto(h, "release")
            /\ UNCHANGED mlost
       ELSE MEnd(h) /\ UNCHANGED mjobs
    /\ UNCHANGED <<gapVars, writable>>

\* _release_gap_jobs_waiting_for_merge
ReleaseGapJobs(h) ==
    /\ matt[h].pc = "release"
    /\ jobs' = [w \in Window |->
                  IF jobs[w].status = "AWAITING_MERGE" /\ staging \cap MinutesOf(w) = {}
                  THEN Settled(jobs[w], "PENDING") ELSE jobs[w]]
    /\ MEnd(h)
    /\ UNCHANGED <<covered, staging, att, lost, faults, mjobs, writable>>

MergeError(h) ==
    /\ Fault
    /\ matt[h].pc \in MergePC \ {"idle", "failed"}
    /\ MGoto(h, "failed")
    /\ UNCHANGED <<covered, staging, gapJobVars, mjobs, mlost, writable>>

\* _record_failure_if_owned: every error may be retried.
RecordMergeFailure(h) ==
    /\ matt[h].pc = "failed"
    /\ mjobs' = IF OwnsDay(h)
                THEN [mjobs EXCEPT ![matt[h].day] = Failed(@, TRUE)]
                ELSE mjobs
    /\ MEnd(h)
    /\ UNCHANGED <<gapVars, writable>>

MergeCrash(h) ==
    /\ Fault
    /\ MBusy(h)
    /\ MEnd(h)
    /\ UNCHANGED <<covered, staging, gapJobVars, mjobs, writable>>

MergeHeartbeatLost(h) ==
    /\ MBusy(h) /\ ~OwnsDay(h)
    /\ mlost' = mlost \cup {h}
    /\ UNCHANGED <<gapVars, mjobs, matt, writable>>

MergeHeartbeatError(h) ==
    /\ Fault
    /\ MBusy(h)
    /\ mlost' = mlost \cup {h}
    /\ UNCHANGED <<covered, staging, gapJobVars, mjobs, matt, writable>>

DayRenewed(d) == \E h \in MergeWorker \ mlost : MBusy(h) /\ matt[h].day = d /\ OwnsDay(h)

ExpireDay(d) ==
    /\ mjobs[d].status = "PROCESSING" /\ mjobs[d].live
    /\ IF DayRenewed(d) THEN Fault ELSE UNCHANGED faults
    /\ mjobs' = [mjobs EXCEPT ![d].live = FALSE]
    /\ UNCHANGED <<covered, staging, gapJobVars, matt, mlost, writable>>

MergeAttempt(h) ==
    \/ CheckBeforeChunkCall(h) \/ DecompressDay(h) \/ MergeOnePage(h)
    \/ MergeSkipsLocked(h) \/ RecompressDay(h) \/ CompleteDay(h)
    \/ ReleaseGapJobs(h) \/ RecordMergeFailure(h)

MergeNext ==
    \/ ScheduleStagedDays
    \/ \E d \in Day : ExpireDay(d)
    \/ \E h \in MergeWorker :
         \/ \E d \in Day : ClaimDay(h, d)
         \/ MergeAttempt(h) \/ MergeError(h) \/ MergeCrash(h)
         \/ MergeHeartbeatLost(h) \/ MergeHeartbeatError(h)

Next == (GapNext /\ UNCHANGED mergeVars) \/ MergeNext

Spec == Init /\ [][Next]_vars

\* The maintenance loop wakes the schedulers and the workers again and again,
\* a running attempt goes on, and a lease that nobody renews runs out.  Claims
\* go to the oldest row, so that none is passed over for ever, and the row locks
\* of a repair batch are too short to be met by every page.
FairSpec ==
    /\ Spec
    /\ WF_vars(ScheduleStagedDays)
    /\ \A g \in GapWorker :
         /\ WF_vars(Attempt(g) /\ UNCHANGED mergeVars)
         /\ \A w \in Window : SF_vars(ClaimJob(g, w) /\ UNCHANGED mergeVars)
    /\ \A h \in MergeWorker :
         /\ WF_vars(MergeAttempt(h))
         /\ \A d \in Day : /\ SF_vars(ClaimDay(h, d))
                           /\ SF_vars(MergeOnePage(h) /\ matt[h].day = d)
    /\ \A w \in Window : WF_vars(~Renewed(w) /\ Expire(w) /\ UNCHANGED mergeVars)
    /\ \A d \in Day : WF_vars(~DayRenewed(d) /\ ExpireDay(d))

-----------------------------------------------------------------------------
(* Properties *)

\* Two active repair jobs never overlap, whatever the schedulers, workers and
\* the merger do: the exclusion constraint of migration 015 never fires.
ActiveWindowsDisjoint ==
    \A v, w \in Window : Active(v) /\ Active(w) /\ Overlap(v, w) => v = w

\* The loops over intervals, as the code computes them.
Loops == INSTANCE SyncRanges

\* _uncovered_intervals, which walks the active jobs in order with a cursor,
\* computes the largest free parts of every window, for every set of active jobs
\* that the system reaches: the set that Schedule uses for its result.
SchedulerLoopIsExact ==
    \A w \in Window :
        Loops!uncovered_intervals(w[1], w[2], {a \in Window : Active(a)})
            = Unscheduled(w)

\* A completed repair means that every minute of its window is canonical: an
\* attempt verifies in one transaction and completes in a later one.
CompletedIsCovered ==
    \A w \in Window : jobs[w].status = "COMPLETED" => MinutesOf(w) \subseteq covered

\* A staged minute leaves staging only into canonical coverage, through crashes,
\* expired leases and two mergers of one day.
StagedIsKept == [][staging \ staging' \subseteq covered']_vars

\* RepairService: no hole in a requested window, no overlap, no lost minute, and
\* a repair that is done only while its claim is good and its window canonical,
\* which an attempt that lost its claim cannot undo.
Open == {w \in Window : Active(w)}
Done == {w \in Window : jobs[w].status = "COMPLETED"}

Service == INSTANCE RepairService WITH
    acquired <- covered \cup staging, canonical <- covered, open <- Open, done <- Done

ImplementsRepairService == Service!Spec

\* Staged rows are promoted in the end: a day is retried, reclaimed from a dead
\* worker, or reopened after it failed.
StagedIsMerged == \A m \in Historical : m \in staging ~> m \in covered

\* A repair job in hand reaches a verdict: done, failed or waiting for the merger.
JobsSettle ==
    \A w \in Window : jobs[w].status \in {"PENDING", "PROCESSING"}
                        ~> jobs[w].status \in {"COMPLETED", "FAILED", "AWAITING_MERGE"}

\* A job that waits for the merger is requeued in the end.
ParkedIsReleased ==
    \A w \in Window : jobs[w].status = "AWAITING_MERGE"
                        ~> jobs[w].status # "AWAITING_MERGE"
=============================================================================
