---------------------------- MODULE RepairProofs ----------------------------
(***************************************************************************)
(* Proofs about gap repair and the historical merger, for any number of    *)
(* workers, minutes and faults.                                            *)
(***************************************************************************)
EXTENDS HistoricalMerge, TLAPS

-----------------------------------------------------------------------------
(* Job rows *)

\* Every operation on a row of the durable-job tables yields a row again.
LEMMA JobRows ==
    ASSUME NEW W, NEW job \in JobType(W), NEW w \in W
    PROVE  /\ NoJob \in JobType(W)
           /\ NewJob \in JobType(W)
           /\ Claimed(job, w) \in JobType(W)
           /\ \A s \in Status : Settled(job, s) \in JobType(W)
           /\ \A r \in BOOLEAN : Failed(job, r) \in JobType(W)
           /\ [job EXCEPT !.live = FALSE] \in JobType(W)
<1> USE JobAssumption
<1>1. NoJob \in JobType(W) /\ NewJob \in JobType(W)
  BY DEF JobType, Status, NoJob, NewJob
<1>2. Claimed(job, w) \in JobType(W) /\ [job EXCEPT !.live = FALSE] \in JobType(W)
  BY DEF JobType, Status, Claimed
<1>3. \A s \in Status : Settled(job, s) \in JobType(W)
  BY DEF JobType, Status, Settled
<1>4. ASSUME NEW r \in BOOLEAN PROVE Failed(job, r) \in JobType(W)
  <2>1. \A s \in {"PENDING", "FAILED"} : Settled(job, s) \in JobType(W)
    BY <1>3 DEF Status
  <2>2. job.retries + 1 \in Nat
    BY DEF JobType
  <2> QED BY <2>1, <2>2 DEF Failed, JobType
<1> QED BY <1>1, <1>2, <1>3, <1>4

\* The parts of the type invariant, as a step changes them.
LEMMA GapTypeStep ==
    ASSUME TypeOK, GapNext
    PROVE  GapTypeOK'
<1> USE GapAssumption, JobAssumption DEF TypeOK, GapTypeOK
<1>idle. Idle \in [pc : GapPC, job : Window, todo : SUBSET Minute]
  BY DEF Idle, GapPC, Window, Minute
<1>1. ASSUME NEW w \in Window, Schedule(w) PROVE GapTypeOK'
  <2>1. NewJob \in JobType(GapWorker)
    BY DEF NewJob, NoJob, JobType, Status
  <2> QED BY <1>1, <2>1 DEF Schedule
<1>2. ASSUME NEW w \in Window, Expire(w) PROVE GapTypeOK'
  <2>1. jobs' = [jobs EXCEPT ![w] = [jobs[w] EXCEPT !.live = FALSE]]
    BY <1>2 DEF Expire
  <2>2. jobs[w] \in JobType(GapWorker)
    OBVIOUS
  <2>3. [jobs[w] EXCEPT !.live = FALSE] \in JobType(GapWorker)
    BY <2>2 DEF JobType
  <2>4. jobs' \in [Window -> JobType(GapWorker)]
    BY <2>1, <2>3
  <2> QED BY <1>2, <2>4 DEF Expire, Fault
<1>3. ASSUME NEW m \in Minute, LiveCommit(m) PROVE GapTypeOK'
  BY <1>3 DEF LiveCommit
<1>4. ASSUME NEW g \in GapWorker, NEW w \in Window, ClaimJob(g, w) PROVE GapTypeOK'
  <2>1. Claimed(jobs[w], g) \in JobType(GapWorker)
    BY JobRows
  <2>2. [pc |-> "detect", job |-> w, todo |-> {}] \in [pc : GapPC, job : Window, todo : SUBSET Minute]
    BY DEF GapPC
  <2> QED BY <1>4, <2>1, <2>2 DEF ClaimJob
<1>5. ASSUME NEW g \in GapWorker, DetectGaps(g) PROVE GapTypeOK'
  <2>1. FetchMinutes(att[g].job) \subseteq Minute
    BY DEF FetchMinutes, MinutesOf, Window, Minute
  <2> DEFINE rec == [pc : GapPC, job : Window, todo : SUBSET Minute]
             next == [att[g] EXCEPT !.pc = "fetch", !.todo = FetchMinutes(att[g].job)]
  <2>2. att \in [GapWorker -> rec] /\ "fetch" \in GapPC
    BY DEF GapPC
  <2>3. next \in rec
    BY ONLY <2>1, <2>2, g \in GapWorker
  <2>4. att' = [att EXCEPT ![g] = next]
    BY ONLY <1>5, <2>2, g \in GapWorker DEF DetectGaps
  <2>5. att' \in [GapWorker -> rec]
    BY ONLY <2>2, <2>3, <2>4
  <2> QED BY <1>5, <2>5 DEF DetectGaps
<1>6. ASSUME NEW g \in GapWorker, FetchBatch(g) PROVE GapTypeOK'
  <2>1. PICK last \in att[g].todo : \E batch \in SUBSET {m \in att[g].todo : m <= last} :
           IF batch = {} \/ (g \notin lost /\ OwnsJob(g))
           THEN /\ CommitBatch(batch)
                /\ att' = [att EXCEPT ![g].todo = @ \ {m \in att[g].todo : m <= last}]
                /\ UNCHANGED lost
           ELSE End(g) /\ UNCHANGED <<covered, staging>>
    BY <1>6 DEF FetchBatch
  <2>2. PICK batch \in SUBSET {m \in att[g].todo : m <= last} :
           IF batch = {} \/ (g \notin lost /\ OwnsJob(g))
           THEN /\ CommitBatch(batch)
                /\ att' = [att EXCEPT ![g].todo = @ \ {m \in att[g].todo : m <= last}]
                /\ UNCHANGED lost
           ELSE End(g) /\ UNCHANGED <<covered, staging>>
    BY <2>1
  <2>3. jobs' = jobs /\ faults' = faults
    BY <1>6 DEF FetchBatch
  <2>4. batch \subseteq Minute
    OBVIOUS
  <2>5. CASE batch = {} \/ (g \notin lost /\ OwnsJob(g))
    <3>1. covered' \subseteq Minute /\ staging' \subseteq Historical
      BY <2>2, <2>4, <2>5 DEF CommitBatch
    <3>2. att' \in [GapWorker -> [pc : GapPC, job : Window, todo : SUBSET Minute]]
      BY <2>2, <2>5
    <3> QED BY <2>2, <2>3, <2>5, <3>1, <3>2
  <2>6. CASE ~(batch = {} \/ (g \notin lost /\ OwnsJob(g)))
    BY <2>2, <2>3, <2>6, <1>idle DEF End
  <2> QED BY <2>5, <2>6
<1>7. ASSUME NEW g \in GapWorker, VerifyCoverage(g) \/ HasStagedRows(g) PROVE GapTypeOK'
  BY <1>7, SMTT(30) DEF VerifyCoverage, HasStagedRows, Goto, GapPC
<1>8. ASSUME NEW g \in GapWorker, Park(g) \/ Complete(g) PROVE GapTypeOK'
  <2>1. PICK s \in Status :
          \/ jobs' = [jobs EXCEPT ![att[g].job] = Settled(@, s)]
          \/ jobs' = jobs
    BY <1>8 DEF Park, Complete, Status
  <2>2. Settled(jobs[att[g].job], s) \in JobType(GapWorker)
    BY JobRows
  <2>3. jobs' \in [Window -> JobType(GapWorker)]
    BY <2>1, <2>2
  <2> QED BY <1>8, <2>3, <1>idle DEF Park, Complete, End
<1>9. ASSUME NEW g \in GapWorker, AttemptError(g) PROVE GapTypeOK'
  BY <1>9 DEF AttemptError, Goto, Fault, GapPC
<1>10. ASSUME NEW g \in GapWorker, RecordFailure(g) PROVE GapTypeOK'
  <2>1. Failed(jobs[att[g].job], att[g].pc = "retry") \in JobType(GapWorker)
    BY JobRows
  <2> QED BY <1>10, <2>1, <1>idle DEF RecordFailure, End
<1>11. ASSUME NEW g \in GapWorker, Crash(g) PROVE GapTypeOK'
  BY <1>11, <1>idle DEF Crash, End, Fault
<1>12. ASSUME NEW g \in GapWorker, HeartbeatLost(g) \/ HeartbeatError(g) PROVE GapTypeOK'
  BY <1>12 DEF HeartbeatLost, HeartbeatError, Fault
<1> QED
  BY <1>1, <1>2, <1>3, <1>4, <1>5, <1>6, <1>7, <1>8, <1>9, <1>10, <1>11, <1>12
     DEF GapNext, Attempt

\* The steps of the merger keep every variable in its range.
LEMMA MergeTypeStep ==
    ASSUME TypeOK, MergeNext
    PROVE  TypeOK'
<1> USE GapAssumption, JobAssumption, MergeAssumption DEF TypeOK
<1>idle. MergeIdle \in [pc : MergePC, day : Day]
  BY DEF MergeIdle, MergePC, Day, Minute
<1>1. ASSUME ScheduleStagedDays PROVE TypeOK'
  <2>1. \A d \in Day : mjobs[d] \in JobType(MergeWorker)
    OBVIOUS
  <2>2. \A d \in Day : Settled(mjobs[d], "PENDING") \in JobType(MergeWorker)
    BY <2>1 DEF JobType, Settled, Status
  <2>3. mjobs' \in [Day -> JobType(MergeWorker)]
    BY <1>1, <2>1, <2>2 DEF ScheduleStagedDays
  <2> QED BY <1>1, <2>3 DEF ScheduleStagedDays, gapVars, GapTypeOK
<1>2. ASSUME NEW d \in Day, ExpireDay(d) PROVE TypeOK'
  <2>1. mjobs' = [mjobs EXCEPT ![d] = [mjobs[d] EXCEPT !.live = FALSE]]
    BY <1>2 DEF ExpireDay
  <2>2. mjobs[d] \in JobType(MergeWorker)
    OBVIOUS
  <2>3. [mjobs[d] EXCEPT !.live = FALSE] \in JobType(MergeWorker)
    BY <2>2 DEF JobType
  <2>4. mjobs' \in [Day -> JobType(MergeWorker)]
    BY <2>1, <2>3
  <2> QED BY <1>2, <2>4 DEF ExpireDay, Fault, gapJobVars, GapTypeOK
<1>3. ASSUME NEW h \in MergeWorker, NEW d \in Day, ClaimDay(h, d) PROVE TypeOK'
  <2>1. Claimed(mjobs[d], h) \in JobType(MergeWorker)
    BY JobRows
  <2>2. [pc |-> "decompress", day |-> d] \in [pc : MergePC, day : Day]
    BY DEF MergePC
  <2> QED BY <1>3, <2>1, <2>2 DEF ClaimDay, gapVars, GapTypeOK
<1>4. ASSUME NEW h \in MergeWorker, CheckBeforeChunkCall(h) PROVE TypeOK'
  BY <1>4, <1>idle DEF CheckBeforeChunkCall, MGoto, MEnd, MergePC, gapVars, GapTypeOK
<1>5. ASSUME NEW h \in MergeWorker, DecompressDay(h) \/ RecompressDay(h) PROVE TypeOK'
  BY <1>5 DEF DecompressDay, RecompressDay, MGoto, MergePC, gapVars, GapTypeOK
<1>6. ASSUME NEW h \in MergeWorker, MergeOnePage(h) PROVE TypeOK'
  <2> DEFINE rows == StagedOn(matt[h].day)
             page == {m \in rows : Cardinality({k \in rows : k < m}) < PageSize}
  <2>1. page \subseteq Minute
    BY DEF StagedOn, GapTypeOK, Historical
  <2> HIDE DEF page
  <2>2. \/ /\ PromotePage(page)
           /\ MGoto(h, "recompress") \/ MGoto(h, "page")
           /\ UNCHANGED mlost
        \/ MEnd(h) /\ UNCHANGED <<covered, staging>>
    BY <1>6 DEF MergeOnePage, page
  <2>3. UNCHANGED <<jobs, att, lost, faults, mjobs, writable>>
    BY <1>6 DEF MergeOnePage, gapJobVars
  <2>4. CASE /\ PromotePage(page)
             /\ MGoto(h, "recompress") \/ MGoto(h, "page")
             /\ UNCHANGED mlost
    <3>1. covered' \subseteq Minute /\ staging' \subseteq Historical
      BY <2>1, <2>4 DEF PromotePage, GapTypeOK
    <3>2. matt' \in [MergeWorker -> [pc : MergePC, day : Day]]
      BY <2>4 DEF MGoto, MergePC
    <3> QED BY <2>3, <2>4, <3>1, <3>2 DEF GapTypeOK
  <2>5. CASE MEnd(h) /\ UNCHANGED <<covered, staging>>
    BY <2>3, <2>5, <1>idle DEF MEnd, GapTypeOK
  <2> QED BY <2>2, <2>4, <2>5
<1>7. ASSUME NEW h \in MergeWorker, MergeSkipsLocked(h) PROVE TypeOK'
  BY <1>7 DEF MergeSkipsLocked, MGoto, MergePC, gapVars, GapTypeOK
<1>8. ASSUME NEW h \in MergeWorker, CompleteDay(h) PROVE TypeOK'
  <2>1. Settled(mjobs[matt[h].day], "COMPLETED") \in JobType(MergeWorker)
    BY JobRows DEF Status
  <2>2. mjobs' \in [Day -> JobType(MergeWorker)]
    BY <1>8, <2>1 DEF CompleteDay
  <2>3. (MGoto(h, "release") /\ UNCHANGED mlost) \/ MEnd(h)
    BY <1>8 DEF CompleteDay
  <2>4. matt' \in [MergeWorker -> [pc : MergePC, day : Day]] /\ mlost' \subseteq MergeWorker
    BY <2>3, <1>idle DEF MGoto, MEnd, MergePC
  <2> QED BY <1>8, <2>2, <2>4 DEF CompleteDay, gapVars, GapTypeOK
<1>9. ASSUME NEW h \in MergeWorker, ReleaseGapJobs(h) PROVE TypeOK'
  <2>1. \A w \in Window : jobs[w] \in JobType(GapWorker)
    BY DEF GapTypeOK
  <2>2. \A w \in Window : Settled(jobs[w], "PENDING") \in JobType(GapWorker)
    BY <2>1 DEF JobType, Settled, Status
  <2>3. jobs' \in [Window -> JobType(GapWorker)]
    BY <1>9, <2>1, <2>2 DEF ReleaseGapJobs
  <2> QED BY <1>9, <2>3, <1>idle DEF ReleaseGapJobs, MEnd, GapTypeOK
<1>10. ASSUME NEW h \in MergeWorker, MergeError(h) \/ MergeCrash(h) PROVE TypeOK'
  BY <1>10, <1>idle
     DEF MergeError, MergeCrash, Fault, MGoto, MEnd, MergePC, gapJobVars, GapTypeOK
<1>11. ASSUME NEW h \in MergeWorker, RecordMergeFailure(h) PROVE TypeOK'
  <2>1. Failed(mjobs[matt[h].day], TRUE) \in JobType(MergeWorker)
    BY JobRows
  <2>2. mjobs' \in [Day -> JobType(MergeWorker)]
    BY <1>11, <2>1 DEF RecordMergeFailure
  <2> QED BY <1>11, <2>2, <1>idle DEF RecordMergeFailure, MEnd, gapVars, GapTypeOK
<1>12. ASSUME NEW h \in MergeWorker, MergeHeartbeatLost(h) \/ MergeHeartbeatError(h)
       PROVE  TypeOK'
  BY <1>12 DEF MergeHeartbeatLost, MergeHeartbeatError, Fault, gapVars, gapJobVars, GapTypeOK
<1> QED
  BY <1>1, <1>2, <1>3, <1>4, <1>5, <1>6, <1>7, <1>8, <1>9, <1>10, <1>11, <1>12
     DEF MergeNext, MergeAttempt

\* A step of the whole system keeps the variables in their ranges.
LEMMA TypeStep == TypeOK /\ [Next]_vars => TypeOK'
<1> SUFFICES ASSUME TypeOK, [Next]_vars PROVE TypeOK'
  OBVIOUS
<1>1. CASE GapNext /\ UNCHANGED mergeVars
  <2>1. GapTypeOK'
    BY <1>1, GapTypeStep
  <2> QED BY <1>1, <2>1 DEF mergeVars, TypeOK
<1>2. CASE MergeNext
  BY <1>2, MergeTypeStep
<1>3. CASE UNCHANGED vars
  BY <1>3 DEF vars, gapVars, mergeVars, TypeOK, GapTypeOK
<1> QED BY <1>1, <1>2, <1>3 DEF Next

\* The empty tables and idle workers have their types.
LEMMA TypeInit == Init => TypeOK
<1> SUFFICES ASSUME Init PROVE TypeOK
  OBVIOUS
<1> USE GapAssumption, JobAssumption, MergeAssumption DEF Init, GapInit
<1>1. Idle \in [pc : GapPC, job : Window, todo : SUBSET Minute]
  BY DEF Idle, GapPC, Window, Minute
<1>2. MergeIdle \in [pc : MergePC, day : Day]
  BY DEF MergeIdle, MergePC, Day, Minute
<1>3. NoJob \in JobType(GapWorker) /\ NoJob \in JobType(MergeWorker)
  BY DEF NoJob, JobType, Status
<1> QED BY <1>1, <1>2, <1>3 DEF TypeOK, GapTypeOK

\* Every variable keeps its range, for any number of workers and minutes.
THEOREM RepairTypeCorrect == Spec => []TypeOK
BY TypeInit, TypeStep, PTL DEF Spec

-----------------------------------------------------------------------------
(* The inductive invariant *)

\* An attempt about to complete has seen its whole window covered, and coverage
\* does not shrink: what makes CompletedIsCovered inductive.
VerifiedInv ==
    \A g \in GapWorker : att[g].pc = "complete" => MinutesOf(att[g].job) \subseteq covered

IInv == TypeOK /\ ActiveWindowsDisjoint /\ CompletedIsCovered /\ VerifiedInv

\* Coverage only grows.
LEMMA CoverageGrows ==
    ASSUME TypeOK, [Next]_vars
    PROVE  covered \subseteq covered'
<1>1. ASSUME GapNext PROVE covered \subseteq covered'
  BY <1>1 DEF GapNext, Schedule, Expire, LiveCommit, ClaimJob, Attempt, DetectGaps,
     FetchBatch, CommitBatch, VerifyCoverage, HasStagedRows, Park, Complete,
     AttemptError, RecordFailure, Crash, HeartbeatLost, HeartbeatError
<1>2. ASSUME MergeNext PROVE covered \subseteq covered'
  BY <1>2 DEF MergeNext, ScheduleStagedDays, ExpireDay, ClaimDay, MergeAttempt,
     CheckBeforeChunkCall, DecompressDay, MergeOnePage, PromotePage, MergeSkipsLocked,
     RecompressDay, CompleteDay, ReleaseGapJobs, MergeError, RecordMergeFailure,
     MergeCrash, MergeHeartbeatLost, MergeHeartbeatError, gapVars
<1> QED BY <1>1, <1>2 DEF Next, vars, gapVars

\* What a step may do to a repair job: only the scheduler activates one, and only
\* the attempt that verified it completes it.
JobStep(w) ==
    /\ Active(w)' => Active(w)
    /\ jobs'[w].status = "COMPLETED" =>
         \/ jobs[w].status = "COMPLETED"
         \/ \E g \in GapWorker : att[g].pc = "complete" /\ att[g].job = w

\* What the steps of gap repair other than scheduling do to a job row: an active
\* row stays or was active, and a completed one was verified.
LEMMA GapJobStep ==
    ASSUME TypeOK, GapNext, NEW w \in Window
    PROVE  JobStep(w) \/ \E v \in Window : Schedule(v)
<1> USE DEF TypeOK, GapTypeOK
<1>job. jobs[w] \in JobType(GapWorker)
  OBVIOUS
<1>same. jobs' = jobs => JobStep(w)
  BY DEF JobStep, Active
<1>1. ASSUME NEW v \in Window, Expire(v) PROVE JobStep(w)
  <2>1. jobs'[w].status = jobs[w].status
    BY <1>1 DEF Expire, JobType
  <2> QED BY <2>1 DEF JobStep, Active
<1>2. ASSUME NEW m \in Minute, LiveCommit(m) PROVE JobStep(w)
  BY <1>2, <1>same DEF LiveCommit
<1>3. ASSUME NEW g \in GapWorker, NEW v \in Window, ClaimJob(g, v) PROVE JobStep(w)
  <2>1. CASE v = w
    BY <1>3, <2>1 DEF ClaimJob, Claimable, Claimed, JobStep, Active, JobType
  <2>2. CASE v # w
    BY <1>3, <2>2 DEF ClaimJob, JobStep, Active
  <2> QED BY <2>1, <2>2
<1>4. ASSUME NEW g \in GapWorker,
             DetectGaps(g) \/ FetchBatch(g) \/ VerifyCoverage(g) \/ HasStagedRows(g)
               \/ AttemptError(g) \/ Crash(g) \/ HeartbeatLost(g) \/ HeartbeatError(g)
      PROVE  JobStep(w)
  BY <1>4, <1>same DEF DetectGaps, FetchBatch, VerifyCoverage, HasStagedRows,
     AttemptError, Crash, HeartbeatLost, HeartbeatError
<1>5. ASSUME NEW g \in GapWorker, Park(g) \/ Complete(g) \/ RecordFailure(g)
      PROVE  JobStep(w)
  <2>1. CASE jobs' = jobs \/ att[g].job # w
    <3>1. jobs'[w] = jobs[w]
      BY <1>5, <2>1 DEF Park, Complete, RecordFailure
    <3> QED BY <3>1 DEF JobStep, Active
  <2>2. CASE jobs' # jobs /\ att[g].job = w
    <3>1. jobs[w].status = "PROCESSING"
      BY <1>5, <2>2 DEF Park, Complete, RecordFailure, OwnsJob, Owned
    <3>2. CASE Park(g)
      <4>1. jobs'[w] = Settled(jobs[w], "AWAITING_MERGE")
        BY <2>2, <3>2 DEF Park
      <4> QED BY <3>1, <4>1 DEF JobStep, Active, Settled, JobType
    <3>3. CASE Complete(g)
      BY <3>1, <3>3, <2>2 DEF Complete, JobStep, Active
    <3>4. CASE RecordFailure(g)
      <4>1. jobs'[w] = Failed(jobs[w], att[g].pc = "retry")
        BY <2>2, <3>4 DEF RecordFailure
      <4>2. Failed(jobs[w], att[g].pc = "retry").status \in {"PENDING", "FAILED"}
        BY <1>job DEF Failed, Settled, JobType
      <4> QED BY <3>1, <4>1, <4>2 DEF JobStep, Active
    <3> QED BY <1>5, <3>2, <3>3, <3>4
  <2> QED BY <2>1, <2>2
<1> QED
  BY <1>1, <1>2, <1>3, <1>4, <1>5 DEF GapNext, Attempt

\* The merger changes repair jobs only by requeueing those that wait for it.
LEMMA MergeJobStep ==
    ASSUME TypeOK, MergeNext, NEW w \in Window
    PROVE  JobStep(w)
<1>same. jobs' = jobs => JobStep(w)
  BY DEF JobStep, Active
<1>1. ASSUME NEW h \in MergeWorker, ReleaseGapJobs(h) PROVE JobStep(w)
  <2>1. jobs[w] \in JobType(GapWorker)
    BY DEF TypeOK, GapTypeOK
  <2>2. \/ jobs'[w] = jobs[w]
        \/ /\ jobs[w].status = "AWAITING_MERGE"
           /\ jobs'[w] = Settled(jobs[w], "PENDING")
    BY <1>1 DEF ReleaseGapJobs
  <2>3. Settled(jobs[w], "PENDING").status = "PENDING"
    BY <2>1 DEF Settled, JobType
  <2> QED BY <2>2, <2>3 DEF JobStep, Active
<1>2. jobs' = jobs \/ \E h \in MergeWorker : ReleaseGapJobs(h)
  BY DEF MergeNext, ScheduleStagedDays, ExpireDay, ClaimDay, MergeAttempt,
     CheckBeforeChunkCall, DecompressDay, MergeOnePage, MergeSkipsLocked,
     RecompressDay, CompleteDay, MergeError, RecordMergeFailure,
     MergeCrash, MergeHeartbeatLost, MergeHeartbeatError, gapVars, gapJobVars
<1> QED BY <1>same, <1>1, <1>2

\* Two overlapping free parts of a window lie in a larger free part, so the
\* largest ones do not overlap.
LEMMA FreePartsJoin ==
    ASSUME NEW u \in Window, NEW v \in Window, Overlap(u, v), NEW a \in Window,
           ~Overlap(a, u), ~Overlap(a, v),
           NEW j \in Window,
           j[1] = IF u[1] <= v[1] THEN u[1] ELSE v[1],
           j[2] = IF u[2] <= v[2] THEN v[2] ELSE u[2]
    PROVE  ~Overlap(a, j)
BY GapAssumption DEF Overlap, Window, Minute

\* The windows that the scheduler creates do not overlap one another.
LEMMA UnscheduledDisjoint ==
    ASSUME NEW w \in Window, NEW u \in Unscheduled(w), NEW v \in Unscheduled(w),
           Overlap(u, v)
    PROVE  u = v
<1> DEFINE free == {x \in Window : /\ w[1] <= x[1] /\ x[2] <= w[2]
                                  /\ \A a \in Window : Active(a) => ~Overlap(a, x)}
           lo == IF u[1] <= v[1] THEN u[1] ELSE v[1]
           hi == IF u[2] <= v[2] THEN v[2] ELSE u[2]
           j == <<lo, hi>>
<1>1. u \in free /\ v \in free
  BY DEF Unscheduled
<1>2. \A x \in free : x[1] <= u[1] /\ u[2] <= x[2] => x = u
  BY DEF Unscheduled
<1>3. \A x \in free : x[1] <= v[1] /\ v[2] <= x[2] => x = v
  BY DEF Unscheduled
<1>4. /\ lo \in Minute /\ hi \in Minute /\ lo < hi
      /\ lo <= u[1] /\ lo <= v[1] /\ u[2] <= hi /\ v[2] <= hi
      /\ w[1] <= lo /\ hi <= w[2]
  BY <1>1, GapAssumption DEF Window, Minute
<1>5. j \in Window /\ j[1] = lo /\ j[2] = hi
  BY <1>4 DEF Window
<1>6. \A a \in Window : Active(a) => ~Overlap(a, j)
  <2> SUFFICES ASSUME NEW a \in Window, Active(a) PROVE ~Overlap(a, j)
    OBVIOUS
  <2>1. ~Overlap(a, u) /\ ~Overlap(a, v)
    BY <1>1
  <2> HIDE DEF j
  <2> QED BY <1>1, <1>5, <2>1, FreePartsJoin
<1>7. j \in free
  BY <1>4, <1>5, <1>6
<1> HIDE DEF free, j
<1>8. j = u /\ j = v
  BY <1>2, <1>3, <1>4, <1>5, <1>7
<1> QED BY <1>8

\* The scheduler adds only jobs that overlap neither an active one nor each other.
LEMMA ScheduleKeepsDisjoint ==
    ASSUME TypeOK, ActiveWindowsDisjoint, NEW w \in Window, Schedule(w)
    PROVE  ActiveWindowsDisjoint'
<1> SUFFICES ASSUME NEW u \in Window, NEW v \in Window,
                    Active(u)', Active(v)', Overlap(u, v)
             PROVE  u = v
  BY DEF ActiveWindowsDisjoint, Overlap
<1>1. \A x \in Window : Active(x)' => Active(x) \/ x \in Unscheduled(w)
  BY DEF Schedule, Active
<1>2. \A x \in Unscheduled(w), a \in Window : Active(a) => ~Overlap(a, x)
  BY DEF Unscheduled
<1>3. Overlap(v, u)
  BY DEF Overlap
<1>4. CASE Active(u) /\ Active(v)
  BY <1>4 DEF ActiveWindowsDisjoint
<1>5. CASE u \in Unscheduled(w) /\ v \in Unscheduled(w)
  BY <1>5, UnscheduledDisjoint
<1> QED BY <1>1, <1>2, <1>3, <1>4, <1>5

\* The scheduler completes no job.
LEMMA ScheduleKeepsCompleted ==
    ASSUME CompletedIsCovered, NEW w \in Window, Schedule(w)
    PROVE  CompletedIsCovered'
<1>1. \A v \in Window : jobs'[v].status = "COMPLETED" => jobs[v].status = "COMPLETED"
  BY DEF Schedule, NewJob, NoJob
<1>2. covered' = covered
  BY DEF Schedule
<1> QED BY <1>1, <1>2 DEF CompletedIsCovered, MinutesOf

\* An attempt reaches its completion only by finding its window covered.
LEMMA VerifiedStep ==
    ASSUME TypeOK, VerifiedInv, [Next]_vars
    PROVE  VerifiedInv'
<1> SUFFICES ASSUME NEW g \in GapWorker, att'[g].pc = "complete"
             PROVE  MinutesOf(att'[g].job) \subseteq covered'
  BY DEF VerifiedInv, MinutesOf
<1>grow. covered \subseteq covered'
  BY CoverageGrows
<1>att. att \in [GapWorker -> [pc : GapPC, job : Window, todo : SUBSET Minute]]
  BY DEF TypeOK, GapTypeOK
<1>same. ASSUME att'[g].pc = att[g].pc, att'[g].job = att[g].job
         PROVE  MinutesOf(att'[g].job) \subseteq covered'
  BY <1>same, <1>grow DEF VerifiedInv
<1>end. ASSUME NEW k \in GapWorker, End(k) PROVE att'[g] = att[g]
  <2>1. k # g
    BY <1>end, <1>att DEF End, Idle
  <2> QED BY <1>end, <1>att, <2>1 DEF End
<1>1. CASE UNCHANGED att
  BY <1>1, <1>same
<1>2. ASSUME NEW k \in GapWorker, NEW w \in Window, ClaimJob(k, w)
      PROVE  MinutesOf(att'[g].job) \subseteq covered'
  <2>1. k # g
    BY <1>2, <1>att DEF ClaimJob
  <2> QED BY <1>2, <1>att, <1>same, <2>1 DEF ClaimJob
<1>3. ASSUME NEW k \in GapWorker, DetectGaps(k)
      PROVE  MinutesOf(att'[g].job) \subseteq covered'
  <2>1. k # g
    BY <1>3, <1>att DEF DetectGaps
  <2> QED BY <1>3, <1>att, <1>same, <2>1 DEF DetectGaps
<1>4. ASSUME NEW k \in GapWorker, FetchBatch(k)
      PROVE  MinutesOf(att'[g].job) \subseteq covered'
  <2>1. (\E S : att' = [att EXCEPT ![k].todo = S]) \/ End(k)
    BY <1>4 DEF FetchBatch
  <2>2. CASE \E S : att' = [att EXCEPT ![k].todo = S]
    BY <2>2, <1>att, <1>same
  <2> QED BY <2>1, <2>2, <1>end, <1>same
<1>5. ASSUME NEW k \in GapWorker, VerifyCoverage(k)
      PROVE  MinutesOf(att'[g].job) \subseteq covered'
  <2>1. CASE k = g
    BY <1>5, <2>1, <1>att, <1>grow DEF VerifyCoverage, Goto
  <2>2. CASE k # g
    BY <1>5, <2>2, <1>att, <1>same DEF VerifyCoverage, Goto
  <2> QED BY <2>1, <2>2
<1>6. ASSUME NEW k \in GapWorker, HasStagedRows(k) \/ AttemptError(k)
      PROVE  MinutesOf(att'[g].job) \subseteq covered'
  <2>1. k # g
    BY <1>6, <1>att DEF HasStagedRows, AttemptError, Goto
  <2> QED BY <1>6, <1>att, <1>same, <2>1 DEF HasStagedRows, AttemptError, Goto
<1>7. ASSUME NEW k \in GapWorker, Park(k) \/ Complete(k) \/ RecordFailure(k) \/ Crash(k)
      PROVE  MinutesOf(att'[g].job) \subseteq covered'
  BY <1>7, <1>end, <1>same DEF Park, Complete, RecordFailure, Crash
<1>8. CASE GapNext
  BY <1>8, <1>1, <1>2, <1>3, <1>4, <1>5, <1>6, <1>7
     DEF GapNext, Attempt, Schedule, Expire, LiveCommit, HeartbeatLost, HeartbeatError
<1>9. CASE MergeNext
  BY <1>9, <1>1 DEF MergeNext, ScheduleStagedDays, ExpireDay, ClaimDay, MergeAttempt,
     CheckBeforeChunkCall, DecompressDay, MergeOnePage, MergeSkipsLocked,
     RecompressDay, CompleteDay, ReleaseGapJobs, MergeError, RecordMergeFailure,
     MergeCrash, MergeHeartbeatLost, MergeHeartbeatError, gapVars, gapJobVars
<1> QED BY <1>1, <1>8, <1>9 DEF Next, vars, gapVars

\* The invariant is inductive.
LEMMA Inductive == IInv /\ [Next]_vars => IInv'
<1> SUFFICES ASSUME IInv, [Next]_vars PROVE IInv'
  OBVIOUS
<1> USE DEF IInv
<1>1. TypeOK'
  BY TypeStep
<1>2. VerifiedInv'
  BY VerifiedStep
<1>3. covered \subseteq covered'
  BY CoverageGrows
<1>4. CASE \E w \in Window : Schedule(w)
  BY <1>1, <1>2, <1>4, ScheduleKeepsDisjoint, ScheduleKeepsCompleted
<1>5. CASE \A w \in Window : JobStep(w)
  <2>1. ActiveWindowsDisjoint'
    BY <1>5 DEF ActiveWindowsDisjoint, JobStep, Overlap
  <2>2. CompletedIsCovered'
    BY <1>3, <1>5 DEF CompletedIsCovered, VerifiedInv, JobStep, MinutesOf
  <2> QED BY <1>1, <1>2, <2>1, <2>2
<1>6. CASE GapNext
  BY <1>4, <1>5, <1>6, GapJobStep
<1>7. CASE MergeNext
  BY <1>5, <1>7, MergeJobStep
<1>8. CASE UNCHANGED vars
  BY <1>5, <1>8 DEF vars, gapVars, JobStep, Active
<1> QED BY <1>6, <1>7, <1>8 DEF Next

\* The invariant holds of the empty tables.
LEMMA InvInit == Init => IInv
<1> SUFFICES ASSUME Init PROVE IInv
  OBVIOUS
<1>1. TypeOK
  BY TypeInit
<1>2. \A w \in Window : jobs[w].status = "NONE"
  BY DEF Init, GapInit, NoJob
<1>3. \A g \in GapWorker : att[g].pc = "idle"
  BY DEF Init, GapInit, Idle
<1> QED BY <1>1, <1>2, <1>3
        DEF IInv, ActiveWindowsDisjoint, Active, CompletedIsCovered, VerifiedInv

\* Active repair jobs never overlap (schedule_repair_jobs, claim_job and the
\* release of parked jobs), for every number of minutes and workers.
THEOREM ActiveDisjoint == Spec => []ActiveWindowsDisjoint
<1>1. IInv => ActiveWindowsDisjoint
  BY DEF IInv
<1> QED BY <1>1, InvInit, Inductive, PTL DEF Spec

\* A completed repair job has its whole window in canonical coverage, although
\* process_next_job verifies and completes in different transactions.
THEOREM CompletedCovered == Spec => []CompletedIsCovered
<1>1. IInv => CompletedIsCovered
  BY DEF IInv
<1> QED BY <1>1, InvInit, Inductive, PTL DEF Spec

\* No step takes a minute out of staging without making it canonical.
LEMMA StagedStep == [Next]_vars => staging \ staging' \subseteq covered'
<1> SUFFICES ASSUME [Next]_vars PROVE staging \ staging' \subseteq covered'
  OBVIOUS
<1>1. CASE GapNext
  BY <1>1 DEF GapNext, Schedule, Expire, LiveCommit, ClaimJob, Attempt, DetectGaps,
     FetchBatch, CommitBatch, VerifyCoverage, HasStagedRows, Park, Complete,
     AttemptError, RecordFailure, Crash, HeartbeatLost, HeartbeatError
<1>2. CASE MergeNext
  BY <1>2 DEF MergeNext, ScheduleStagedDays, ExpireDay, ClaimDay, MergeAttempt,
     CheckBeforeChunkCall, DecompressDay, MergeOnePage, PromotePage, MergeSkipsLocked,
     RecompressDay, CompleteDay, ReleaseGapJobs, MergeError, RecordMergeFailure,
     MergeCrash, MergeHeartbeatLost, MergeHeartbeatError, gapVars
<1> QED BY <1>1, <1>2 DEF Next, vars, gapVars

\* Staged minutes are never dropped (_merge_one_page), whatever crashes.
THEOREM StagedKept == Spec => StagedIsKept
BY StagedStep, PTL DEF Spec, StagedIsKept

-----------------------------------------------------------------------------
(* The scheduler's loop *)

\* The candle store of the same minutes.  Its theorem on the sweep speaks of
\* intervals only, so that its other parameters do not matter.
Store == INSTANCE StoreProofs WITH
    HotMinutes <- 0, WsValues <- {}, MaxRevision <- 0, MaxDeletes <- 0,
    now <- 0, raw <- <<>>, revisions <- {}, ranges <- {}, deletes <- 0

\* Both instances of the interval algorithms are the same functions.
LEMMA SameLoop ==
    ASSUME NEW lo, NEW hi, NEW A
    PROVE  Loops!uncovered_intervals(lo, hi, A) = Store!uncovered_intervals(lo, hi, A)
<1>1. ASSUME NEW R PROVE Loops!ByStart(R) = Store!ByStart(R)
  <2>1. Loops!Cardinality(R) = Store!Cardinality(R)
    BY DEF Loops!Cardinality, Store!Cardinality
  <2>2. ASSUME NEW s PROVE Loops!Sorted(s) = Store!Sorted(s)
    BY DEF Loops!Sorted, Store!Sorted, Loops!Before, Store!Before
  <2> QED BY <2>1, <2>2 DEF Loops!ByStart, Store!ByStart
<1>2. ASSUME NEW S PROVE Loops!Max(S) = Store!Max(S) /\ Loops!Min(S) = Store!Min(S)
  BY DEF Loops!Max, Store!Max, Loops!Min, Store!Min
<1>3. ASSUME NEW acc, NEW iv PROVE Loops!uncovered_step(acc, iv, hi) = Store!uncovered_step(acc, iv, hi)
  BY <1>2 DEF Loops!uncovered_step, Store!uncovered_step
<1>4. ASSUME NEW cut PROVE Loops!Sweep(cut, lo, hi) = Store!Sweep(cut, lo, hi)
  BY <1>3 DEF Loops!Sweep, Store!Sweep
<1> QED BY <1>1, <1>2, <1>4 DEF Loops!uncovered_intervals, Store!uncovered_intervals

\* The set that the scheduler of the model uses is the one of the theorem on the
\* sweep.
LEMMA UnscheduledIsLargest ==
    ASSUME NEW w \in Window
    PROVE  Store!LargestFree(w[1], w[2], {a \in Window : Active(a)}) = Unscheduled(w)
<1> DEFINE A == {a \in Window : Active(a)}
           F == Store!FreeParts(w[1], w[2], A)
           G == {v \in Window : /\ w[1] <= v[1] /\ v[2] <= w[2]
                                /\ \A a \in Window : Active(a) => ~Overlap(a, v)}
<1>1. w[1] \in Nat /\ w[2] \in Nat /\ w[1] < w[2] /\ w[2] <= Horizon
  BY GapAssumption DEF Window, Minute
<1>2. \A v : v \in Window /\ w[1] <= v[1] /\ v[2] <= w[2]
               <=> v \in (w[1]..w[2]) \X (w[1]..w[2]) /\ v[1] < v[2]
  BY <1>1, GapAssumption DEF Window, Minute
<1>3. F = G
  <2>1. \A v : (\A a \in A : ~Store!Overlap(a, v))
                 <=> (\A a \in Window : Active(a) => ~Overlap(a, v))
    BY DEF Overlap, Store!Overlap
  <2> HIDE DEF A
  <2> QED BY <1>2, <2>1 DEF Store!FreeParts
<1>4. Unscheduled(w) = {v \in G : \A u \in G : u[1] <= v[1] /\ v[2] <= u[2] => u = v}
  BY DEF Unscheduled
<1> HIDE DEF G
<1> QED BY <1>3, <1>4 DEF Store!LargestFree

\* In every state the scheduler's loop and the set of the model agree.
LEMMA LoopIsExact == SchedulerLoopIsExact
<1> SUFFICES ASSUME NEW w \in Window
             PROVE  Loops!uncovered_intervals(w[1], w[2], {a \in Window : Active(a)})
                      = Unscheduled(w)
  BY DEF SchedulerLoopIsExact
<1> DEFINE A == {a \in Window : Active(a)}
<1>1. Horizon \in Nat /\ A \subseteq (0..Horizon) \X (0..Horizon) /\ \A a \in A : a[1] < a[2]
  BY GapAssumption DEF Window, Minute
<1>2. w[1] \in Nat /\ w[2] \in Nat /\ w[1] < w[2]
  BY GapAssumption DEF Window, Minute
<1>3. Store!LargestFree(w[1], w[2], A) = Unscheduled(w)
  BY UnscheduledIsLargest
<1> HIDE DEF A
<1>4. Store!uncovered_intervals(w[1], w[2], A) = Store!LargestFree(w[1], w[2], A)
  BY <1>1, <1>2, GapAssumption, Store!UncoveredIsExact
<1>5. Loops!uncovered_intervals(w[1], w[2], A) = Store!uncovered_intervals(w[1], w[2], A)
  BY SameLoop
<1> QED BY <1>3, <1>4, <1>5 DEF A

\* _uncovered_intervals computes the largest free parts of the window in every
\* state, for every number of minutes and every set of active jobs: Schedule,
\* which takes those parts, does what the loop of the code does.
THEOREM SchedulerLoopAlwaysExact == Spec => []SchedulerLoopIsExact
BY LoopIsExact, PTL

-----------------------------------------------------------------------------
(* Refinement of RepairService *)

\* A part of the window w that no active job covers lies in a window that the
\* scheduler creates.
LEMMA UnscheduledComplete ==
    ASSUME NEW w \in Window, NEW m \in w[1]..(w[2] - 1),
           \A a \in Window : Active(a) => ~(a[1] <= m /\ m < a[2])
    PROVE  \E v \in Unscheduled(w) : v[1] <= m /\ m < v[2]
<1> DEFINE free == {v \in Window : /\ w[1] <= v[1] /\ v[2] <= w[2]
                                   /\ \A a \in Window : Active(a) => ~Overlap(a, v)}
           L == {x \in 0..m : <<x, m + 1>> \in free}
           H == {y \in 0..Horizon : <<m, y>> \in free}
<1>1. \A v \in Window : /\ v = <<v[1], v[2]>> /\ v[1] < v[2]
                        /\ v[1] \in 0..Horizon /\ v[2] \in 0..Horizon
  BY DEF Window, Minute
<1>2. m \in Nat /\ m + 1 \in 0..Horizon /\ <<m, m + 1>> \in Window
      /\ w[1] <= m /\ m + 1 <= w[2] /\ Horizon \in Nat
  BY <1>1, GapAssumption DEF Window, Minute
<1>3. \A a \in Window : Active(a) => ~Overlap(a, <<m, m + 1>>)
  BY <1>1, <1>2 DEF Overlap
<1>4. <<m, m + 1>> \in free
  BY <1>2, <1>3
<1>5. m \in L /\ m + 1 \in H
  BY <1>2, <1>4
<1>6. PICK x \in L : \A y \in L : x <= y
  <2>1. L \subseteq 0..m /\ L # {}
    BY <1>2, <1>5
  <2> HIDE DEF L
  <2>2. Store!Min(L) \in L /\ \A y \in L : Store!Min(L) <= y
    BY <1>2, <2>1, GapAssumption, Store!MinMax
  <2> QED BY <2>2
<1>7. PICK y \in H : \A z \in H : z <= y
  <2>1. H \subseteq 0..Horizon /\ H # {}
    BY <1>5
  <2> HIDE DEF H
  <2>2. Store!Max(H) \in H /\ \A z \in H : z <= Store!Max(H)
    BY <1>2, <2>1, GapAssumption, Store!MinMax
  <2> QED BY <2>2
<1>8. x <= m /\ m + 1 <= y /\ x \in Nat /\ y \in 0..Horizon
  BY <1>2, <1>5, <1>6, <1>7
<1>9. <<x, y>> \in Window /\ w[1] <= x /\ y <= w[2]
  BY <1>2, <1>6, <1>7, <1>8 DEF Window, Minute
<1>10. \A a \in Window : Active(a) => ~Overlap(a, <<x, y>>)
  BY <1>1, <1>2, <1>6, <1>7, <1>8 DEF Overlap
<1>11. ASSUME NEW u \in free, u[1] <= x, y <= u[2]
       PROVE  u = <<x, y>>
  <2>1. u \in Window /\ w[1] <= u[1] /\ u[2] <= w[2]
        /\ \A a \in Window : Active(a) => ~Overlap(a, u)
    OBVIOUS
  <2>2. /\ u = <<u[1], u[2]>> /\ u[1] \in 0..Horizon /\ u[2] \in 0..Horizon
        /\ u[1] <= m /\ m + 1 <= u[2]
    BY <1>1, <1>2, <1>8, <1>11, <2>1
  <2>3. <<u[1], m + 1>> \in Window /\ <<m, u[2]>> \in Window
    BY <1>2, <2>2 DEF Window, Minute
  <2>4. \A a \in Window : Active(a) => ~Overlap(a, <<u[1], m + 1>>) /\ ~Overlap(a, <<m, u[2]>>)
    BY <1>1, <1>2, <2>1, <2>2 DEF Overlap
  <2>5. u[1] \in L /\ u[2] \in H
    BY <1>2, <2>1, <2>2, <2>3, <2>4
  <2> QED BY <1>6, <1>7, <1>8, <1>11, <2>2, <2>5
<1>12. <<x, y>> \in Unscheduled(w)
  BY <1>9, <1>10, <1>11 DEF Unscheduled
<1> QED BY <1>2, <1>8, <1>12

\* Scheduling a window is a request of the service.
LEMMA ScheduleRequests ==
    ASSUME TypeOK, ActiveWindowsDisjoint, NEW w \in Window, Schedule(w)
    PROVE  Service!Request(w)
<1> DEFINE new == Unscheduled(w)
<1>1. /\ \A v \in Window : jobs'[v] = IF v \in new THEN NewJob ELSE jobs[v]
      /\ UNCHANGED <<covered, staging>>
  BY DEF Schedule
<1>2. \A v \in new : v \in Window /\ w[1] <= v[1] /\ v[2] <= w[2]
  BY DEF Unscheduled
<1>3. NewJob.status = "PENDING"
  BY DEF NewJob, NoJob
<1>4. Open' = Open \cup new
  BY <1>1, <1>2, <1>3 DEF Open, Active
<1>5. Done' = Done \ Open'
  <2>1. \A v \in Window : v \in Done' <=> v \in Done /\ v \notin new
    BY <1>1, <1>3 DEF Done
  <2>2. \A v \in Done : v \notin Open
    BY DEF Done, Open, Active
  <2>3. Done \subseteq Window /\ Done' \subseteq Window
    BY DEF Done
  <2> HIDE DEF new
  <2> QED BY <1>4, <2>1, <2>2, <2>3
<1>6. Service!Apart(Open')
  <2>1. ActiveWindowsDisjoint'
    BY ScheduleKeepsDisjoint
  <2>2. \A v \in Open' : v \in Window /\ Active(v)'
    BY DEF Open
  <2>3. \A v \in Window : v[1] \in Nat /\ v[2] \in Nat
    BY GapAssumption DEF Window, Minute
  <2>4. \A u, v \in Open' : Overlap(u, v) => u = v
    BY <2>1, <2>2 DEF ActiveWindowsDisjoint, Overlap
  <2> QED BY <2>2, <2>3, <2>4 DEF Overlap, Service!Apart
<1>7. ASSUME NEW m \in w[1]..(w[2] - 1)
      PROVE  \E v \in Open' : v[1] <= m /\ m < v[2]
  <2>1. CASE \E a \in Window : Active(a) /\ a[1] <= m /\ m < a[2]
    BY <1>4, <2>1 DEF Open
  <2>2. CASE \A a \in Window : Active(a) => ~(a[1] <= m /\ m < a[2])
    BY <1>4, <2>2, UnscheduledComplete
  <2> QED BY <2>1, <2>2
<1>8. Open' \subseteq Window
  BY DEF Open
<1> HIDE DEF new
<1> QED BY <1>1, <1>2, <1>4, <1>5, <1>6, <1>7, <1>8 DEF Service!Request

\* What the other steps do to the open and the done windows: nothing, or one open
\* window is closed, as done only when it is canonical.
SameWindows == Open' = Open /\ Done' = Done

Closes(w) ==
    /\ w \in Open /\ Open' = Open \ {w}
    /\ \/ Done' = Done
       \/ Done' = Done \cup {w} /\ MinutesOf(w) \subseteq covered
    /\ UNCHANGED <<covered, staging>>

\* Rows that keep their kind of status keep the open and the done windows.
LEMMA SameKind ==
    ASSUME \A w \in Window : /\ Active(w)' <=> Active(w)
                             /\ jobs'[w].status = "COMPLETED" <=> jobs[w].status = "COMPLETED"
    PROVE  SameWindows
BY DEF SameWindows, Open, Done

\* An attempt that owns its job settles it: the row leaves the open windows.
LEMMA SettleCloses ==
    ASSUME TypeOK, NEW w \in Window, jobs[w].status = "PROCESSING",
           NEW row, jobs' = [jobs EXCEPT ![w] = row], UNCHANGED <<covered, staging>>,
           row.status \in {"COMPLETED", "FAILED"},
           row.status = "COMPLETED" => MinutesOf(w) \subseteq covered
    PROVE  Closes(w)
<1>1. \A v \in Window : jobs'[v] = IF v = w THEN row ELSE jobs[v]
  BY DEF TypeOK, GapTypeOK
<1>2. w \in Open /\ Open' = Open \ {w}
  BY <1>1 DEF Open, Active
<1>3. Done' = IF row.status = "COMPLETED" THEN Done \cup {w} ELSE Done
  BY <1>1 DEF Done
<1> QED BY <1>2, <1>3 DEF Closes

\* The steps of gap repair other than scheduling.
LEMMA GapWindows ==
    ASSUME TypeOK, VerifiedInv, GapNext
    PROVE  \/ SameWindows
           \/ \E w \in Window : Schedule(w) \/ Closes(w)
<1> USE DEF TypeOK, GapTypeOK
<1>same. jobs' = jobs => SameWindows
  BY SameKind DEF Active
<1>row. \A w \in Window : jobs[w] \in JobType(GapWorker)
  OBVIOUS
<1>att. \A g \in GapWorker : att[g].job \in Window
  OBVIOUS
<1>one. ASSUME NEW w \in Window, NEW row, jobs' = [jobs EXCEPT ![w] = row], Active(w),
               row.status \in {"PENDING", "PROCESSING", "AWAITING_MERGE"}
        PROVE  SameWindows
  <2>1. \A v \in Window : jobs'[v] = IF v = w THEN row ELSE jobs[v]
    BY <1>one
  <2> QED BY <1>one, <2>1, SameKind DEF Active
<1>1. ASSUME NEW v \in Window, Expire(v) PROVE SameWindows
  <2>1. jobs' = [jobs EXCEPT ![v] = [jobs[v] EXCEPT !.live = FALSE]] /\ jobs[v].status = "PROCESSING"
    BY <1>1 DEF Expire
  <2>2. [jobs[v] EXCEPT !.live = FALSE].status = "PROCESSING"
    BY <1>row, <2>1 DEF JobType
  <2> QED BY <1>one, <2>1, <2>2 DEF Active
<1>2. ASSUME NEW g \in GapWorker, NEW v \in Window, ClaimJob(g, v) PROVE SameWindows
  <2>1. jobs' = [jobs EXCEPT ![v] = Claimed(jobs[v], g)] /\ Active(v)
    BY <1>2 DEF ClaimJob, Claimable, Active
  <2>2. Claimed(jobs[v], g).status = "PROCESSING"
    BY <1>row DEF Claimed, JobType
  <2> QED BY <1>one, <2>1, <2>2
<1>3. ASSUME NEW g \in GapWorker, Park(g) PROVE SameWindows
  <2> DEFINE w == att[g].job
  <2>1. CASE OwnsJob(g)
    <3>1. jobs' = [jobs EXCEPT ![w] = Settled(jobs[w], "AWAITING_MERGE")] /\ Active(w)
      BY <1>3, <2>1 DEF Park, OwnsJob, Owned, Active
    <3>2. Settled(jobs[w], "AWAITING_MERGE").status = "AWAITING_MERGE"
      BY <1>row, <1>att DEF Settled, JobType
    <3> QED BY <1>one, <1>att, <3>1, <3>2
  <2> QED BY <1>3, <1>same, <2>1 DEF Park
<1>4. ASSUME NEW g \in GapWorker, Complete(g)
      PROVE  SameWindows \/ \E w \in Window : Closes(w)
  <2> DEFINE w == att[g].job
             row == Settled(jobs[w], "COMPLETED")
  <2>1. CASE g \notin lost /\ OwnsJob(g)
    <3>1. /\ jobs' = [jobs EXCEPT ![w] = row] /\ UNCHANGED <<covered, staging>>
          /\ att[g].pc = "complete"
      BY <1>4, <2>1 DEF Complete
    <3>2. jobs[w].status = "PROCESSING" /\ w \in Window
      BY <1>att, <2>1 DEF OwnsJob, Owned
    <3>3. row.status = "COMPLETED"
      BY <1>row, <1>att DEF Settled, JobType
    <3>4. MinutesOf(w) \subseteq covered
      BY <3>1 DEF VerifiedInv
    <3> HIDE DEF w, row
    <3> QED BY <3>1, <3>2, <3>3, <3>4, SettleCloses
  <2> QED BY <1>4, <1>same, <2>1 DEF Complete
<1>5. ASSUME NEW g \in GapWorker, RecordFailure(g)
      PROVE  SameWindows \/ \E w \in Window : Closes(w)
  <2> DEFINE w == att[g].job
             row == Failed(jobs[w], att[g].pc = "retry")
  <2>1. CASE OwnsJob(g)
    <3>1. jobs' = [jobs EXCEPT ![w] = row] /\ UNCHANGED <<covered, staging>>
      BY <1>5, <2>1 DEF RecordFailure
    <3>2. jobs[w].status = "PROCESSING" /\ w \in Window
      BY <1>att, <2>1 DEF OwnsJob, Owned
    <3>3. row.status \in {"PENDING", "FAILED"}
      BY <1>row, <1>att DEF Failed, Settled, JobType
    <3> HIDE DEF w, row
    <3>4. CASE row.status = "PENDING"
      BY <1>one, <3>1, <3>2, <3>4 DEF Active
    <3>5. CASE row.status = "FAILED"
      BY <3>1, <3>2, <3>5, SettleCloses
    <3> QED BY <3>3, <3>4, <3>5
  <2> QED BY <1>5, <1>same, <2>1 DEF RecordFailure
<1>6. ASSUME NEW g \in GapWorker,
             DetectGaps(g) \/ FetchBatch(g) \/ VerifyCoverage(g) \/ HasStagedRows(g)
               \/ AttemptError(g) \/ Crash(g) \/ HeartbeatLost(g) \/ HeartbeatError(g)
      PROVE  SameWindows
  BY <1>6, <1>same DEF DetectGaps, FetchBatch, VerifyCoverage, HasStagedRows,
     AttemptError, Crash, HeartbeatLost, HeartbeatError
<1>7. ASSUME NEW m \in Minute, LiveCommit(m) PROVE SameWindows
  BY <1>7, <1>same DEF LiveCommit
<1> QED BY <1>1, <1>2, <1>3, <1>4, <1>5, <1>6, <1>7 DEF GapNext, Attempt

\* The merger closes no window: it requeues the jobs that wait for it.
LEMMA MergeWindows ==
    ASSUME TypeOK, MergeNext
    PROVE  SameWindows
<1>1. CASE jobs' = jobs
  BY <1>1, SameKind DEF Active
<1>2. ASSUME NEW h \in MergeWorker, ReleaseGapJobs(h) PROVE SameWindows
  <2>1. \A w \in Window : Settled(jobs[w], "PENDING").status = "PENDING"
    BY DEF TypeOK, GapTypeOK, Settled, JobType
  <2>2. \A w \in Window : \/ jobs'[w] = jobs[w]
                          \/ /\ jobs[w].status = "AWAITING_MERGE"
                             /\ jobs'[w] = Settled(jobs[w], "PENDING")
    BY <1>2 DEF ReleaseGapJobs
  <2> QED BY <2>1, <2>2, SameKind DEF Active
<1>3. jobs' = jobs \/ \E h \in MergeWorker : ReleaseGapJobs(h)
  BY DEF MergeNext, ScheduleStagedDays, ExpireDay, ClaimDay, MergeAttempt,
     CheckBeforeChunkCall, DecompressDay, MergeOnePage, MergeSkipsLocked,
     RecompressDay, CompleteDay, MergeError, RecordMergeFailure,
     MergeCrash, MergeHeartbeatLost, MergeHeartbeatError, gapVars, gapJobVars
<1> QED BY <1>1, <1>2, <1>3

\* Gap repair and the merger implement RepairService: requests leave no hole,
\* acquired minutes are kept, and a job is done once, under its claim, with its
\* whole window canonical, whatever stale attempts do.
THEOREM RepairRefinement == Spec => ImplementsRepairService
<1>1. Init => Service!Init
  BY DEF Init, GapInit, NoJob, Service!Init, Open, Done, Active
<1>2. ASSUME IInv, [Next]_vars
      PROVE  [Service!Next]_Service!serviceVars
  <2>1. TypeOK /\ ActiveWindowsDisjoint /\ VerifiedInv
    BY <1>2 DEF IInv
  <2>2. CASE SameWindows
    <3>1. covered \subseteq covered' /\ staging \ staging' \subseteq covered'
      BY <1>2, <2>1, CoverageGrows, StagedStep
    <3>2. Service!Acquire
      BY <2>2, <3>1 DEF Service!Acquire, SameWindows
    <3> QED BY <3>2 DEF Service!Next
  <2>3. ASSUME NEW w \in Window, Schedule(w) PROVE Service!Next
    BY <2>1, <2>3, ScheduleRequests DEF Service!Next
  <2>4. ASSUME NEW w \in Window, Closes(w) PROVE Service!Next
    <3>1. Service!Finish(w) \/ Service!GiveUp(w)
      BY <2>4 DEF Closes, MinutesOf, Service!Finish, Service!GiveUp
    <3> QED BY <3>1 DEF Service!Next
  <2>5. CASE UNCHANGED vars
    BY <2>5 DEF vars, gapVars, Service!serviceVars, Open, Done, Active
  <2>6. CASE GapNext
    BY <2>1, <2>2, <2>3, <2>4, <2>6, GapWindows
  <2>7. CASE MergeNext
    BY <2>1, <2>2, <2>7, MergeWindows
  <2> QED BY <1>2, <2>5, <2>6, <2>7 DEF Next
<1> QED BY <1>1, <1>2, InvInit, Inductive, PTL
        DEF Spec, ImplementsRepairService, Service!Spec
=============================================================================
