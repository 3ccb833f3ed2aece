---------------------------- MODULE CaggRefresh -----------------------------
(***************************************************************************)
(* The refresh of the continuous aggregates (services/cagg_refresh.py):    *)
(* whoever changed old candles asks for a window; the scheduler aligns it  *)
(* to days and inserts jobs for the parts that no active job covers; a     *)
(* worker claims a job and calls the refresh procedure once per aggregate. *)
(*                                                                         *)
(* A candle is its minute, and what is known of a day's candles is the     *)
(* number of their latest change.  A refresh call reads the candles when   *)
(* it starts and writes the aggregate when it ends; TimescaleDB lets one   *)
(* call at a time work on an aggregate.  A call whose client is gone may   *)
(* still end.                                                              *)
(* As in GapRepair a job is named by its window.                           *)
(***************************************************************************)
EXTENDS DurableJobs, Integers

CONSTANTS Refresher,   \* slots of refresh workers
          Days,        \* days are 0..Days-1
          DayLength,   \* minutes of a day
          NumViews,    \* aggregates, refreshed in the order 1..NumViews
          MaxChanges,  \* bound on the changes of candles
          MaxFaults    \* bound on crashes, errors and pauses

ASSUME CaggAssumption ==
    /\ NoWorker \notin Refresher
    /\ Days \in Nat \ {0} /\ DayLength \in Nat \ {0} /\ NumViews \in Nat \ {0}
    /\ MaxChanges \in Nat /\ MaxFaults \in Nat

Day == 0..(Days - 1)
Minute == 0..(Days * DayLength - 1)
Window == {w \in (0..Days) \X (0..Days) : w[1] < w[2]}
DaysOf(w) == w[1]..(w[2] - 1)
View == 1..NumViews
Version == 0..MaxChanges

VARIABLES changes,  \* changes of candles so far
          data,     \* the latest change of each day's candles
          views,    \* the latest change of a day that each aggregate contains
          call,     \* the refresh call at work on each aggregate
          jobs,     \* cagg_refresh_jobs
          att,      \* the attempt each worker slot runs
          lost,     \* slots whose ownership_lost event is set
          faults,   \* crashes, errors and pauses so far
          asked,    \* history: the latest change of each day at its latest request
          late,     \* history: days requested while their job was processed
          seen      \* history: the data when a job being processed was claimed

caggVars == <<changes, data, views, call, jobs, att, lost, faults,
              asked, late, seen>>

PC == {"idle", "check", "call", "wait", "complete", "fail"}
Versions == [Day -> Version]
NoCall == [by |-> NoWorker, window |-> <<0, 0>>, snap |-> [d \in Day |-> 0]]
Idle == [pc |-> "idle", job |-> <<0, 1>>, view |-> 1]

\* The ranges of the variables of the aggregate refresh.
TypeOK ==
    /\ changes \in Version
    /\ data \in Versions /\ asked \in Versions
    /\ views \in [View -> Versions]
    /\ call \in [View -> [by : Refresher \cup {NoWorker},
                          window : Window \cup {<<0, 0>>}, snap : Versions]]
    /\ jobs \in [Window -> JobType(Refresher)]
    /\ att \in [Refresher -> [pc : PC, job : Window, view : View]]
    /\ lost \subseteq Refresher
    /\ faults \in 0..MaxFaults
    /\ late \subseteq Day
    /\ seen \in [Window -> Versions]

Init ==
    /\ changes = 0
    /\ data = [d \in Day |-> 0] /\ asked = data
    /\ views = [v \in View |-> data]
    /\ call = [v \in View |-> NoCall]
    /\ jobs = [w \in Window |-> NoJob]
    /\ att = [r \in Refresher |-> Idle]
    /\ lost = {} /\ faults = 0 /\ late = {}
    /\ seen = [w \in Window |-> data]

Fault == faults < MaxFaults /\ faults' = faults + 1
Busy(r) == att[r].pc # "idle"
OwnsJob(r) == Owned(jobs[att[r].job], r)
History == <<asked, late, seen>>

\* A repair batch, a merged page or the live pipeline changes candles of d.
Write(d) ==
    /\ changes < MaxChanges
    /\ changes' = changes + 1
    /\ data' = [data EXCEPT ![d] = changes + 1]
    /\ UNCHANGED <<views, call, jobs, att, lost, faults, History>>

-----------------------------------------------------------------------------
(* Scheduling *)

\* Mutant: the last minute of an inclusive range is left out.
alignment_exclusive(lo, hi, inclusive) ==
    <<lo \div DayLength, (hi + DayLength - 1) \div DayLength>>

\* compute_cagg_bucket_alignment for whole days, the only frame in use.  An
\* inclusive end is moved past its minute by less than a minute: time is
\* counted in half minutes.
compute_cagg_bucket_alignment(lo, hi, inclusive) ==
    LET end == 2 * hi + (IF inclusive THEN 1 ELSE 0)
        floor == end \div (2 * DayLength)
    IN  <<lo \div DayLength, IF floor * 2 * DayLength < end THEN floor + 1 ELSE floor>>

Active(w) == jobs[w].status \in {"PENDING", "PROCESSING"}
Overlap(v, w) == v[1] < w[2] /\ w[1] < v[2]

\* _uncovered_intervals: the largest parts of w that no active job overlaps.
Uncovered(w) ==
    LET free == {v \in Window : /\ w[1] <= v[1] /\ v[2] <= w[2]
                                /\ \A a \in Window : Active(a) => ~Overlap(a, v)}
    IN  {v \in free : \A u \in free : u[1] <= v[1] /\ v[2] <= u[2] => u = v}

\* schedule_cagg_refresh_jobs, for the minutes lo..hi (hi included or not).
Schedule(lo, hi, inclusive) ==
    LET w == compute_cagg_bucket_alignment(lo, hi, inclusive)
        minutes == lo..(IF inclusive THEN hi ELSE hi - 1)
        days == {m \div DayLength : m \in minutes}
        new == Uncovered(w)
        running == {a \in Window : jobs[a].status = "PROCESSING"}
    IN  /\ IF inclusive THEN lo <= hi ELSE lo < hi
        /\ jobs' = [v \in Window |-> IF v \in new THEN NewJob ELSE jobs[v]]
        /\ asked' = [d \in Day |-> IF d \in days THEN data[d] ELSE asked[d]]
        /\ late' = (late \ UNION {DaysOf(v) : v \in new})
                     \cup {d \in days : \E a \in running : d \in DaysOf(a)}
        /\ UNCHANGED <<changes, data, views, call, att, lost, faults, seen>>

-----------------------------------------------------------------------------
(* One attempt: process_pending_jobs *)

\* claim_next_job.  The attempt starts with the first aggregate again.
ClaimJob(r, w) ==
    /\ ~Busy(r)
    /\ Claimable(jobs[w])
    /\ jobs' = [jobs EXCEPT ![w] = Claimed(@, r)]
    /\ att' = [att EXCEPT ![r] = [pc |-> "check", job |-> w, view |-> 1]]
    /\ late' = late \ DaysOf(w)
    /\ seen' = [seen EXCEPT ![w] = data]
    /\ UNCHANGED <<changes, data, views, call, lost, faults, asked>>

\* The attempt goes on at pc; it ends and its heartbeat is cancelled.
Goto(r, pc) == att' = [att EXCEPT ![r].pc = pc]
End(r) == att' = [att EXCEPT ![r] = Idle] /\ lost' = lost \ {r}

\* The row of w leaves PROCESSING.
Verdict(w, job) ==
    /\ jobs' = [jobs EXCEPT ![w] = job]
    /\ seen' = [seen EXCEPT ![w] = [d \in Day |-> 0]]

\* The client of a call is gone, or no longer waits for it.
Abandoned(r) == [v \in View |-> IF call[v].by = r
                                THEN [call[v] EXCEPT !.by = NoWorker] ELSE call[v]]

\* _refresh_one, up to _assert_lease_owned.
CheckLease(r) ==
    /\ att[r].pc = "check"
    /\ IF r \notin lost /\ OwnsJob(r) THEN Goto(r, "call") /\ UNCHANGED lost ELSE End(r)
    /\ UNCHANGED <<changes, data, views, call, jobs, faults, History>>

\* _refresh_one: CALL refresh_continuous_aggregate begins to read.
StartCall(r) ==
    /\ att[r].pc = "call"
    /\ call[att[r].view] = NoCall
    /\ call' = [call EXCEPT ![att[r].view] =
                    [by |-> r, window |-> att[r].job, snap |-> data]]
    /\ Goto(r, "wait")
    /\ UNCHANGED <<changes, data, views, jobs, lost, faults, History>>

\* The procedure ends and has written the aggregate.
CallEnds(v) ==
    /\ call[v] # NoCall
    /\ views' = [views EXCEPT ![v] = [d \in Day |->
                    IF d \in DaysOf(call[v].window) THEN call[v].snap[d] ELSE @[d]]]
    /\ call' = [call EXCEPT ![v] = NoCall]
    /\ UNCHANGED <<changes, data, jobs, att, lost, faults, History>>

\* The server cancels a call that nobody waits for.
CallAborts(v) ==
    /\ call[v] # NoCall /\ call[v].by = NoWorker
    /\ call' = [call EXCEPT ![v] = NoCall]
    /\ UNCHANGED <<changes, data, views, jobs, att, lost, faults, History>>

NextPC(r) == IF att[r].view = NumViews THEN "complete" ELSE "check"

\* Mutant: the loop runs past the last aggregate.
AwaitOverrun(r) ==
    /\ att[r].pc = "wait"
    /\ r \notin lost /\ call[att[r].view].by # r
    /\ att' = [att EXCEPT ![r].pc = NextPC(r), ![r].view = @ + 1]
    /\ UNCHANGED <<changes, data, views, call, jobs, lost, faults, History>>

\* _refresh_one: the claim is lost, or the call has ended and the loop goes on.
Await(r) ==
    /\ att[r].pc = "wait"
    /\ \/ /\ r \in lost
          /\ End(r)
          /\ call' = Abandoned(r)
       \/ /\ r \notin lost /\ call[att[r].view].by # r
          /\ att' = [att EXCEPT ![r].pc = NextPC(r),
                                ![r].view = IF @ = NumViews THEN @ ELSE @ + 1]
          /\ UNCHANGED <<lost, call>>
    /\ UNCHANGED <<changes, data, views, jobs, faults, History>>

\* Mutant: completion asks for the status and not for the token.
CompleteAnyClaim(r) ==
    /\ att[r].pc = "complete"
    /\ IF r \notin lost /\ jobs[att[r].job].status = "PROCESSING"
       THEN Verdict(att[r].job, Settled(jobs[att[r].job], "COMPLETED"))
       ELSE UNCHANGED <<jobs, seen>>
    /\ End(r)
    /\ UNCHANGED <<changes, data, views, call, faults, asked, late>>

\* _complete_if_owned
Complete(r) ==
    /\ att[r].pc = "complete"
    /\ IF r \notin lost /\ OwnsJob(r)
       THEN Verdict(att[r].job, Settled(jobs[att[r].job], "COMPLETED"))
       ELSE UNCHANGED <<jobs, seen>>
    /\ End(r)
    /\ UNCHANGED <<changes, data, views, call, faults, asked, late>>

\* A statement fails, or its connection breaks and the call is on its own.
AttemptError(r) ==
    /\ Fault
    /\ att[r].pc \in {"check", "call", "wait", "complete"}
    /\ Goto(r, "fail")
    /\ call' = Abandoned(r)
    /\ UNCHANGED <<changes, data, views, jobs, lost, History>>

\* _record_failure_if_owned
RecordFailure(r) ==
    /\ att[r].pc = "fail"
    /\ IF OwnsJob(r) THEN Verdict(att[r].job, Failed(jobs[att[r].job], TRUE))
                     ELSE UNCHANGED <<jobs, seen>>
    /\ End(r)
    /\ UNCHANGED <<changes, data, views, call, faults, asked, late>>

Crash(r) ==
    /\ Fault
    /\ Busy(r)
    /\ End(r)
    /\ call' = Abandoned(r)
    /\ UNCHANGED <<changes, data, views, jobs, History>>

\* _heartbeat_loop: the claim is gone, or the database cannot be asked.
HeartbeatLost(r) ==
    /\ Busy(r) /\ r \notin lost
    /\ IF OwnsJob(r) THEN Fault ELSE UNCHANGED faults
    /\ lost' = lost \cup {r}
    /\ UNCHANGED <<changes, data, views, call, jobs, att, History>>

\* The lease runs out: nobody renews it, or its worker is paused.
Expire(w) ==
    /\ jobs[w].status = "PROCESSING" /\ jobs[w].live
    /\ IF \E r \in Refresher \ lost : Busy(r) /\ att[r].job = w /\ OwnsJob(r)
       THEN Fault ELSE UNCHANGED faults
    /\ jobs' = [jobs EXCEPT ![w].live = FALSE]
    /\ UNCHANGED <<changes, data, views, call, att, lost, History>>

\* The refresh policy of an aggregate, run by TimescaleDB itself.
PolicyRefresh(v) ==
    /\ call[v] = NoCall
    /\ views' = [views EXCEPT ![v] = data]
    /\ UNCHANGED <<changes, data, call, jobs, att, lost, faults, History>>

Attempt(r) ==
    \/ CheckLease(r) \/ StartCall(r) \/ Await(r) \/ Complete(r) \/ RecordFailure(r)

Next ==
    \/ \E d \in Day : Write(d)
    \/ \E lo, hi \in Minute : Schedule(lo, hi, TRUE)
    \/ \E d \in Day : Schedule(d * DayLength, (d + 1) * DayLength, FALSE)
    \/ \E w \in Window : Expire(w) \/ \E r \in Refresher : ClaimJob(r, w)
    \/ \E r \in Refresher :
         Attempt(r) \/ AttemptError(r) \/ Crash(r) \/ HeartbeatLost(r)
    \/ \E v \in View : CallEnds(v) \/ CallAborts(v) \/ PolicyRefresh(v)

Spec == Init /\ [][Next]_caggVars

-----------------------------------------------------------------------------
(* Properties *)

\* A completed job has put into every aggregate all that its window contained
\* when the job was last claimed, whatever stale attempts and abandoned calls
\* did meanwhile (process_pending_jobs with its fencing token).
CompletedIsMaterialized ==
    [][\A w \in Window : jobs[w].status # "COMPLETED" /\ jobs'[w].status = "COMPLETED"
         => \A v \in View, d \in DaysOf(w) : views[v][d] >= seen[w][d]]_caggVars

\* A change somebody asked to refresh is in the aggregates, or a job will see
\* it, or its job failed for good.  The exception is a request that met a job
\* already being processed (schedule_cagg_refresh_jobs creates nothing then).
AskedIsRefreshed ==
    \A v \in View, d \in Day :
        \/ views[v][d] >= asked[d]
        \/ d \in late
        \/ \E w \in Window : /\ d \in DaysOf(w)
                             /\ jobs[w].status \in {"PENDING", "PROCESSING", "FAILED"}
=============================================================================
