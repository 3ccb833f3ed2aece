----------------------------- MODULE CaggProofs -----------------------------
(***************************************************************************)
(* Proofs about the refresh of the continuous aggregates, for any number   *)
(* of workers, days, aggregates, changes and faults.                       *)
(***************************************************************************)
EXTENDS CaggRefresh, WellFoundedInduction, TLAPS

-----------------------------------------------------------------------------
(* Numbers *)

\* A non-empty set of naturals has a least element.
LEMMA LeastNumber ==
    ASSUME NEW S, S \subseteq Nat, S # {}
    PROVE  \E x \in S : \A y \in S : x <= y
<1> DEFINE Less == {ss \in Nat \X Nat : ss[1] < ss[2]}
<1>1. IsWellFoundedOn(Less, Nat)
  BY NatLessThanWellFounded DEF OpToRel
<1>2. \A p, q \in Nat : p < q => <<p, q>> \in Less
  OBVIOUS
<1> HIDE DEF Less
<1>3. PICK x \in S : \A y \in S : ~(<<y, x>> \in Less)
  BY <1>1, WFMin
<1>4. \A y \in S : x <= y
  <2> TAKE y \in S
  <2>1. x \in Nat /\ y \in Nat
    OBVIOUS
  <2>2. ~(y < x)
    BY <1>2, <1>3, <2>1, Zenon
  <2> QED BY <2>1, <2>2
<1> QED BY <1>4

\* A non-empty set of naturals below n has a greatest element.
LEMMA GreatestNumber ==
    ASSUME NEW n \in Nat, NEW S, S \subseteq 0..n, S # {}
    PROVE  \E x \in S : \A y \in S : y <= x
<1> DEFINE T == {n - y : y \in S}
<1>1. \A y \in S : y \in Nat /\ n - y \in Nat
  OBVIOUS
<1>2. T \subseteq Nat /\ T # {}
  BY <1>1
<1>3. PICK z \in T : \A u \in T : z <= u
  BY <1>2, LeastNumber
<1>4. PICK x \in S : z = n - x
  BY <1>3
<1>5. \A y \in S : y <= x
  <2> TAKE y \in S
  <2>1. n - x <= n - y
    BY <1>3, <1>4
  <2> QED BY <1>1, <2>1
<1> QED BY <1>5

\* The quotient of a natural number by a positive one.
LEMMA Quotient ==
    ASSUME NEW n \in Nat, NEW k \in Nat \ {0}
    PROVE  /\ n \div k \in Nat
           /\ k * (n \div k) <= n
           /\ n < k * (n \div k + 1)
OBVIOUS

\* Multiples of a positive number are ordered as their factors.
LEMMA Multiples ==
    ASSUME NEW k \in Nat \ {0}, NEW p \in Nat, NEW q \in Nat, k * p < k * (q + 1)
    PROVE  p <= q
<1>1. CASE p >= q + 1
  <2>1. PICK e \in Nat : p = q + 1 + e
    <3>1. p - (q + 1) \in Nat /\ p = q + 1 + (p - (q + 1))
      BY <1>1
    <3> QED BY <3>1
  <2>2. k * p = k * (q + 1) + k * e /\ k * e >= 0
    BY <2>1
  <2> QED BY <2>2
<1> QED BY <1>1

-----------------------------------------------------------------------------
(* Job rows and windows *)

\* Every operation on a row of cagg_refresh_jobs yields a row again.
LEMMA JobRows ==
    ASSUME NEW job \in JobType(Refresher), NEW r \in Refresher
    PROVE  /\ Claimed(job, r) \in JobType(Refresher)
           /\ Settled(job, "COMPLETED") \in JobType(Refresher)
           /\ Failed(job, TRUE) \in JobType(Refresher)
           /\ Failed(job, TRUE).status \in {"PENDING", "FAILED"}
           /\ [job EXCEPT !.live = FALSE] \in JobType(Refresher)
<1> USE JobAssumption
<1>1. Claimed(job, r) \in JobType(Refresher) /\ [job EXCEPT !.live = FALSE] \in JobType(Refresher)
  BY DEF JobType, Status, Claimed
<1>2. \A s \in Status : Settled(job, s) \in JobType(Refresher) /\ Settled(job, s).status = s
  BY DEF JobType, Status, Settled
<1>3. job.retries + 1 \in Nat
  BY DEF JobType
<1>4. \A s \in {"PENDING", "FAILED"} :
        /\ [Settled(job, s) EXCEPT !.retries = job.retries + 1] \in JobType(Refresher)
        /\ [Settled(job, s) EXCEPT !.retries = job.retries + 1].status = s
  BY <1>2, <1>3 DEF JobType, Status
<1> QED BY <1>1, <1>2, <1>4 DEF Failed, Status

\* The parts that are scheduled are windows without an active day, and no two
\* of them share a day.
LEMMA UncoveredParts ==
    ASSUME NEW w
    PROVE  /\ Uncovered(w) \subseteq Window
           /\ \A v \in Uncovered(w), a \in Window : Active(a) => ~Overlap(a, v) /\ a # v
           /\ \A u, v \in Uncovered(w) : Overlap(u, v) => u = v
<1> DEFINE free == {v \in Window : /\ w[1] <= v[1] /\ v[2] <= w[2]
                                   /\ \A a \in Window : Active(a) => ~Overlap(a, v)}
<1>1. \A v \in Window : v = <<v[1], v[2]>> /\ v[1] \in 0..Days /\ v[2] \in 0..Days /\ v[1] < v[2]
  BY DEF Window
<1>2. Uncovered(w) \subseteq free
  BY DEF Uncovered
<1>3. \A v \in Uncovered(w), u \in free : u[1] <= v[1] /\ v[2] <= u[2] => u = v
  BY DEF Uncovered
<1>4. \A v \in free, a \in Window : Active(a) => ~Overlap(a, v) /\ a # v
  BY <1>1 DEF Overlap
<1>5. ASSUME NEW u \in Uncovered(w), NEW v \in Uncovered(w), Overlap(u, v)
      PROVE  u = v
  <2> DEFINE lo == IF u[1] <= v[1] THEN u[1] ELSE v[1]
             hi == IF u[2] <= v[2] THEN v[2] ELSE u[2]
             x  == <<lo, hi>>
  <2>1. u \in free /\ v \in free
    BY <1>2
  <2>2. /\ x \in Window /\ x[1] <= u[1] /\ u[2] <= x[2] /\ x[1] <= v[1] /\ v[2] <= x[2]
        /\ x[1] \in {u[1], v[1]} /\ x[2] \in {u[2], v[2]}
    BY <1>1, <2>1 DEF Window
  <2>3. \A a \in Window : Active(a) => ~Overlap(a, x)
    BY <1>1, <1>5, <2>1, <2>2 DEF Overlap
  <2>4. x \in free
    BY <2>1, <2>2, <2>3
  <2> QED BY <1>3, <2>2, <2>4
<1> QED BY <1>2, <1>4, <1>5

\* A day of w in which no job is active is part of what is scheduled.
LEMMA UncoveredComplete ==
    ASSUME NEW w, w[1] \in Int, w[2] \in Int, NEW d \in Day, w[1] <= d, d < w[2],
           \A a \in Window : Active(a) => d \notin DaysOf(a)
    PROVE  \E v \in Uncovered(w) : d \in DaysOf(v)
<1> USE CaggAssumption
<1> DEFINE free == {v \in Window : /\ w[1] <= v[1] /\ v[2] <= w[2]
                                   /\ \A a \in Window : Active(a) => ~Overlap(a, v)}
           L == {x \in 0..d : <<x, d + 1>> \in free}
           H == {y \in 0..Days : <<d, y>> \in free}
<1>1. \A v \in Window : v = <<v[1], v[2]>> /\ v[1] \in 0..Days /\ v[2] \in 0..Days /\ v[1] < v[2]
  BY DEF Window
<1>2. d \in Nat /\ d + 1 \in 0..Days /\ <<d, d + 1>> \in Window
  BY DEF Day, Window
<1>3. \A a \in Window : Active(a) => ~Overlap(a, <<d, d + 1>>)
  BY <1>1, <1>2 DEF Overlap, DaysOf
<1>4. <<d, d + 1>> \in free
  BY <1>2, <1>3
<1>5. d \in L /\ d + 1 \in H
  BY <1>2, <1>4
<1>6. PICK x \in L : \A y \in L : x <= y
  <2>1. L \subseteq Nat
    BY <1>2
  <2> QED BY <1>5, <2>1, LeastNumber
<1>7. PICK y \in H : \A z \in H : z <= y
  <2>1. H \subseteq 0..Days
    OBVIOUS
  <2> QED BY <1>5, <2>1, GreatestNumber
<1>8. x <= d /\ d + 1 <= y /\ x \in Nat /\ y \in 0..Days
  BY <1>2, <1>5, <1>6, <1>7
<1>9. <<x, y>> \in Window /\ w[1] <= x /\ y <= w[2]
  BY <1>6, <1>7, <1>8 DEF Window
<1>10. \A a \in Window : Active(a) => ~Overlap(a, <<x, y>>)
  BY <1>1, <1>2, <1>6, <1>7, <1>8 DEF Overlap
<1>11. ASSUME NEW u \in free, u[1] <= x, y <= u[2]
       PROVE  u = <<x, y>>
  <2>1. u \in Window /\ w[1] <= u[1] /\ u[2] <= w[2]
        /\ \A a \in Window : Active(a) => ~Overlap(a, u)
    OBVIOUS
  <2>2. /\ u = <<u[1], u[2]>> /\ u[1] \in 0..Days /\ u[2] \in 0..Days
        /\ u[1] <= d /\ d + 1 <= u[2]
    BY <1>1, <1>8, <1>11, <2>1
  <2>3. <<u[1], d + 1>> \in Window /\ <<d, u[2]>> \in Window
    BY <1>2, <2>2 DEF Window
  <2>4. \A a \in Window : Active(a) => ~Overlap(a, <<u[1], d + 1>>) /\ ~Overlap(a, <<d, u[2]>>)
    BY <1>1, <1>2, <2>1, <2>2 DEF Overlap
  <2>5. u[1] \in L /\ u[2] \in H
    BY <1>2, <2>1, <2>2, <2>3, <2>4
  <2> QED BY <1>6, <1>7, <1>8, <1>11, <2>2, <2>5
<1>12. <<x, y>> \in Uncovered(w)
  BY <1>9, <1>10, <1>11 DEF Uncovered
<1>13. d \in DaysOf(<<x, y>>)
  BY <1>2, <1>8 DEF DaysOf
<1> QED BY <1>12, <1>13

\* The aligned window contains the day of every minute asked for.
LEMMA AlignmentCovers ==
    ASSUME NEW lo \in Nat, NEW hi \in Nat, NEW inclusive \in BOOLEAN,
           NEW m \in lo..(IF inclusive THEN hi ELSE hi - 1)
    PROVE  LET w == compute_cagg_bucket_alignment(lo, hi, inclusive)
           IN  /\ w[1] \in Int /\ w[2] \in Int
               /\ w[1] <= m \div DayLength /\ m \div DayLength < w[2]
<1> USE CaggAssumption
<1> DEFINE end == 2 * hi + (IF inclusive THEN 1 ELSE 0)
           K == 2 * DayLength
           floor == end \div K
           d == m \div DayLength
           s == lo \div DayLength
<1>1. m \in Nat /\ lo <= m /\ 2 * m < end /\ end \in Nat /\ K \in Nat \ {0}
  OBVIOUS
<1>2. s \in Nat /\ DayLength * s <= lo
  BY Quotient
<1>3. d \in Nat /\ DayLength * d <= m /\ m < DayLength * (d + 1)
  BY <1>1, Quotient
<1>4. floor \in Nat /\ K * floor <= end /\ end < K * (floor + 1)
  BY <1>1, Quotient
<1> HIDE DEF floor, d, s
<1>5. s <= d
  <2>1. DayLength * s < DayLength * (d + 1)
    BY <1>1, <1>2, <1>3
  <2> QED BY <1>2, <1>3, <2>1, Multiples
<1>6. K * d = 2 * (DayLength * d)
  BY <1>3
<1>7. K * d < end
  BY <1>1, <1>3, <1>6
<1>8. d <= floor
  BY <1>1, <1>3, <1>4, <1>7, Multiples
<1>9. floor * 2 * DayLength = K * floor
  BY <1>4
<1>10. floor * 2 * DayLength < end \/ d < floor
  BY <1>3, <1>4, <1>7, <1>8, <1>9
<1> QED BY <1>2, <1>3, <1>4, <1>5, <1>8, <1>10
        DEF compute_cagg_bucket_alignment, floor, d, s
-----------------------------------------------------------------------------
(* Types *)

\* Every step keeps the ranges of the variables.
LEMMA TypeStep ==
    ASSUME TypeOK, [Next]_caggVars
    PROVE  TypeOK'
<1> USE CaggAssumption, JobAssumption DEF TypeOK
<1> DEFINE Att == [pc : PC, job : Window, view : View]
           Row == JobType(Refresher)
           CallType == [by : Refresher \cup {NoWorker},
                        window : Window \cup {<<0, 0>>}, snap : Versions]
<1>idle. Idle \in Att
  BY DEF Idle, PC, Window, View
<1>zero. [d \in Day |-> 0] \in Versions
  BY DEF Versions, Version
<1>nocall. NoCall \in CallType
  BY <1>zero DEF NoCall
<1>end. ASSUME NEW r \in Refresher, End(r) PROVE att' \in [Refresher -> Att] /\ lost' \subseteq Refresher
  BY <1>idle, <1>end DEF End
<1>goto. ASSUME NEW r \in Refresher, NEW pc \in PC, Goto(r, pc) PROVE att' \in [Refresher -> Att]
  BY <1>goto DEF Goto
<1>abandon. ASSUME NEW r \in Refresher PROVE Abandoned(r) \in [View -> CallType]
  <2>1. \A v \in View : [call[v] EXCEPT !.by = NoWorker] \in CallType
    OBVIOUS
  <2> QED BY <2>1 DEF Abandoned
<1>verdict. ASSUME NEW w \in Window, NEW job \in Row, Verdict(w, job)
            PROVE  jobs' \in [Window -> Row] /\ seen' \in [Window -> Versions]
  BY <1>verdict, <1>zero DEF Verdict
<1>1. ASSUME NEW d \in Day, Write(d) PROVE TypeOK'
  BY <1>1 DEF Write, Versions, Version, History
<1>2. ASSUME NEW lo, NEW hi, NEW inclusive, Schedule(lo, hi, inclusive) PROVE TypeOK'
  <2>1. NewJob \in Row
    BY DEF NewJob, NoJob, JobType, Status
  <2>2. jobs' \in [Window -> Row] /\ asked' \in Versions
    BY <1>2, <2>1 DEF Schedule, Versions
  <2>3. late' \subseteq Day
    <3>1. \A a \in Window : DaysOf(a) \subseteq Day
      BY DEF Window, DaysOf, Day
    <3> QED BY <1>2, <3>1 DEF Schedule
  <2> QED BY <1>2, <2>2, <2>3 DEF Schedule
<1>3. ASSUME NEW w \in Window, Expire(w) PROVE TypeOK'
  <2>1. [jobs[w] EXCEPT !.live = FALSE] \in Row
    BY DEF JobType
  <2>2. jobs' = [jobs EXCEPT ![w] = [jobs[w] EXCEPT !.live = FALSE]]
    BY <1>3 DEF Expire
  <2>3. jobs' \in [Window -> Row]
    BY <2>1, <2>2
  <2>4. faults' \in 0..MaxFaults
    BY <1>3 DEF Expire, Fault
  <2> QED BY <1>3, <2>3, <2>4 DEF Expire, History
<1>4. ASSUME NEW w \in Window, NEW r \in Refresher, ClaimJob(r, w) PROVE TypeOK'
  <2>1. Claimed(jobs[w], r) \in Row
    BY JobRows
  <2>2. [pc |-> "check", job |-> w, view |-> 1] \in Att
    BY DEF PC, View
  <2> QED BY <1>4, <2>1, <2>2 DEF ClaimJob
<1>5. ASSUME NEW r \in Refresher, CheckLease(r) PROVE TypeOK'
  <2>1. att' \in [Refresher -> Att] /\ lost' \subseteq Refresher
    BY <1>5, <1>end, <1>goto DEF CheckLease, PC
  <2> QED BY <1>5, <2>1 DEF CheckLease, History
<1>6. ASSUME NEW r \in Refresher, StartCall(r) PROVE TypeOK'
  <2>1. att' \in [Refresher -> Att]
    BY <1>6, <1>goto DEF StartCall, PC
  <2> QED BY <1>6, <2>1 DEF StartCall, History
<1>7. ASSUME NEW r \in Refresher, Await(r) PROVE TypeOK'
  <2>1. CASE End(r) /\ call' = Abandoned(r)
    BY <1>7, <2>1, <1>end, <1>abandon DEF Await, History
  <2>2. CASE /\ att' = [att EXCEPT ![r].pc = NextPC(r),
                                   ![r].view = IF @ = NumViews THEN @ ELSE @ + 1]
             /\ UNCHANGED <<lost, call>>
    <3> DEFINE pc == NextPC(r)
               view == IF att[r].view = NumViews THEN att[r].view ELSE att[r].view + 1
    <3>1. pc \in PC
      BY DEF NextPC, PC
    <3>2. view \in View
      BY DEF View
    <3>3. att' = [att EXCEPT ![r].pc = pc, ![r].view = view]
      BY <2>2
    <3> HIDE DEF pc, view
    <3>4. att' \in [Refresher -> Att]
      BY <3>1, <3>2, <3>3
    <3> QED BY <1>7, <2>2, <3>4 DEF Await, History
  <2> QED BY <1>7, <2>1, <2>2 DEF Await
<1>8. ASSUME NEW r \in Refresher, Complete(r) PROVE TypeOK'
  <2>1. Settled(jobs[att[r].job], "COMPLETED") \in Row
    BY JobRows
  <2>2. jobs' \in [Window -> Row] /\ seen' \in [Window -> Versions]
    BY <1>8, <2>1, <1>verdict DEF Complete
  <2> QED BY <1>8, <2>2, <1>end DEF Complete
<1>9. ASSUME NEW r \in Refresher, RecordFailure(r) PROVE TypeOK'
  <2>1. Failed(jobs[att[r].job], TRUE) \in Row
    BY JobRows
  <2>2. jobs' \in [Window -> Row] /\ seen' \in [Window -> Versions]
    BY <1>9, <2>1, <1>verdict DEF RecordFailure
  <2> QED BY <1>9, <2>2, <1>end DEF RecordFailure
<1>10. ASSUME NEW r \in Refresher, AttemptError(r) PROVE TypeOK'
  <2>1. att' \in [Refresher -> Att]
    BY <1>10, <1>goto DEF AttemptError, PC
  <2> QED BY <1>10, <2>1, <1>abandon DEF AttemptError, Fault, History
<1>11. ASSUME NEW r \in Refresher, Crash(r) PROVE TypeOK'
  BY <1>11, <1>end, <1>abandon DEF Crash, Fault, History
<1>12. ASSUME NEW r \in Refresher, HeartbeatLost(r) PROVE TypeOK'
  BY <1>12 DEF HeartbeatLost, Fault, History
<1>13. ASSUME NEW v \in View, CallEnds(v) PROVE TypeOK'
  <2>1. [d \in Day |-> IF d \in DaysOf(call[v].window) THEN call[v].snap[d] ELSE views[v][d]]
          \in Versions
    BY DEF Versions
  <2>2. views' \in [View -> Versions]
    BY <1>13, <2>1 DEF CallEnds
  <2> QED BY <1>13, <1>nocall, <2>2 DEF CallEnds, History
<1>14. ASSUME NEW v \in View, CallAborts(v) PROVE TypeOK'
  BY <1>14, <1>nocall DEF CallAborts, History
<1>15. ASSUME NEW v \in View, PolicyRefresh(v) PROVE TypeOK'
  BY <1>15 DEF PolicyRefresh, History
<1>16. CASE UNCHANGED caggVars
  BY <1>16 DEF caggVars
<1> QED BY <1>1, <1>2, <1>3, <1>4, <1>5, <1>6, <1>7, <1>8, <1>9, <1>10, <1>11, <1>12, <1>13,
           <1>14, <1>15, <1>16 DEF Next, Attempt

\* The rows, the aggregates and the history are empty at first.
LEMMA CaggTypeInit == Init => TypeOK
<1> SUFFICES ASSUME Init PROVE TypeOK
  OBVIOUS
<1> USE CaggAssumption
<1>1. [d \in Day |-> 0] \in Versions
  BY DEF Versions, Version
<1>2. NoCall \in [by : Refresher \cup {NoWorker},
                  window : Window \cup {<<0, 0>>}, snap : Versions]
  BY <1>1 DEF NoCall
<1>3. NoJob \in JobType(Refresher)
  BY DEF NoJob, JobType, Status
<1>4. Idle \in [pc : PC, job : Window, view : View]
  BY DEF Idle, PC, Window, View
<1> QED BY <1>1, <1>2, <1>3, <1>4 DEF Init, TypeOK, Version

\* The refresh of the aggregates keeps its types.
THEOREM CaggTypeCorrect == Spec => []TypeOK
<1>1. TypeOK /\ [Next]_caggVars => TypeOK'
  BY TypeStep
<1> QED BY <1>1, CaggTypeInit, PTL DEF Spec
-----------------------------------------------------------------------------
(* The inductive invariant *)

\* What was read, asked for or written is not newer than the candles, and the
\* aggregate a call works on is not newer than what the call has read.
Ordered ==
    /\ \A d \in Day : asked[d] <= data[d] /\ data[d] <= changes
    /\ \A w \in Window, d \in Day : seen[w][d] <= data[d]
    /\ \A v \in View, d \in Day : views[v][d] <= data[d]
    /\ \A v \in View : \A d \in DaysOf(call[v].window) :
          views[v][d] <= call[v].snap[d] /\ call[v].snap[d] <= data[d]

\* No day has two active jobs.
ActiveDisjoint ==
    \A a, b \in Window : Active(a) /\ Active(b) /\ Overlap(a, b) => a = b

\* The attempt of r holds the row of its job, expired or not.
Claims(r) == Busy(r) /\ jobs[att[r].job].status = "PROCESSING" /\ jobs[att[r].job].holder = r

\* Aggregate v has all that the job of r contained when r claimed it.
Done(r, v) == \A d \in DaysOf(att[r].job) : views[v][d] >= seen[att[r].job][d]

\* The call r waits for will bring its aggregate there.
Calling(r) ==
    LET c == call[att[r].view]
    IN  /\ c.by = r /\ c.window = att[r].job
        /\ \A d \in DaysOf(att[r].job) : c.snap[d] >= seen[att[r].job][d]

\* How far the attempt that holds a row has come.
ProgressOf(r) ==
    Claims(r) =>
        /\ \A v \in View : v < att[r].view => Done(r, v)
        /\ att[r].pc = "complete" => \A v \in View : Done(r, v)
        /\ att[r].pc = "wait" => Done(r, att[r].view) \/ Calling(r)

Progress == \A r \in Refresher : ProgressOf(r)

\* What was asked for before a job was claimed is what the job saw.
AskedIsSeen ==
    \A w \in Window : jobs[w].status = "PROCESSING" =>
        \A d \in DaysOf(w) \ late : asked[d] <= seen[w][d]

CInv ==
    TypeOK /\ Ordered /\ ActiveDisjoint /\ Progress /\ AskedIsSeen /\ AskedIsRefreshed

\* The days of windows and the numbers of changes.
LEMMA Ranges ==
    ASSUME TypeOK
    PROVE  /\ \A w \in Window \cup {<<0, 0>>} : DaysOf(w) \subseteq Day
           /\ changes \in Nat
           /\ \A d \in Day : data[d] \in Nat /\ asked[d] \in Nat
           /\ \A w \in Window, d \in Day : seen[w][d] \in Nat
           /\ \A v \in View, d \in Day : views[v][d] \in Nat /\ call[v].snap[d] \in Nat
           /\ \A v \in View : call[v].window \in Window \cup {<<0, 0>>}
<1> USE CaggAssumption
<1>1. \A w \in Window \cup {<<0, 0>>} : DaysOf(w) \subseteq Day
  BY DEF Window, DaysOf, Day
<1>2. \A f \in Versions, d \in Day : f[d] \in Nat
  BY DEF Versions, Version
<1>3. /\ changes \in Nat
      /\ \A d \in Day : data[d] \in Nat /\ asked[d] \in Nat
      /\ \A w \in Window, d \in Day : seen[w][d] \in Nat
      /\ \A v \in View, d \in Day : views[v][d] \in Nat
  BY <1>2 DEF TypeOK, Version
<1>4. \A v \in View : call[v].snap \in Versions /\ call[v].window \in Window \cup {<<0, 0>>}
  BY DEF TypeOK
<1> QED BY <1>1, <1>2, <1>3, <1>4

\* An aggregate never goes back: a call that ends late still brings what is at
\* least as new, because nobody else wrote its aggregate meanwhile.
LEMMA ViewsGrow ==
    ASSUME TypeOK, Ordered, [Next]_caggVars
    PROVE  \A v \in View, d \in Day : views'[v][d] \in Nat /\ views'[v][d] >= views[v][d]
<1> SUFFICES ASSUME NEW u \in View, NEW d \in Day
             PROVE  views'[u][d] \in Nat /\ views'[u][d] >= views[u][d]
  OBVIOUS
<1>1. ASSUME NEW v \in View, CallEnds(v)
      PROVE  views'[u][d] \in Nat /\ views'[u][d] >= views[u][d]
  BY <1>1, Ranges DEF CallEnds, Ordered, TypeOK
<1>2. ASSUME NEW v \in View, PolicyRefresh(v)
      PROVE  views'[u][d] \in Nat /\ views'[u][d] >= views[u][d]
  BY <1>2, Ranges DEF PolicyRefresh, Ordered, TypeOK
<1>3. CASE UNCHANGED views
  BY <1>3, Ranges
<1> QED BY <1>1, <1>2, <1>3 DEF Next, Write, Schedule, Expire, ClaimJob, Attempt, CheckLease,
        StartCall, Await, Complete, RecordFailure, AttemptError, Crash, HeartbeatLost,
        CallAborts, caggVars

\* What a step does to the call on each aggregate.
LEMMA CallStep ==
    ASSUME TypeOK, [Next]_caggVars
    PROVE  \A v \in View :
             \/ call'[v].window = call[v].window /\ call'[v].snap = call[v].snap
             \/ call'[v].window = <<0, 0>>
             \/ /\ call'[v].snap = data /\ UNCHANGED <<views, data>>
<1> SUFFICES ASSUME NEW v \in View
             PROVE  \/ call'[v].window = call[v].window /\ call'[v].snap = call[v].snap
                    \/ call'[v].window = <<0, 0>>
                    \/ /\ call'[v].snap = data /\ UNCHANGED <<views, data>>
  OBVIOUS
<1> DEFINE G == \/ call'[v].window = call[v].window /\ call'[v].snap = call[v].snap
                \/ call'[v].window = <<0, 0>>
                \/ /\ call'[v].snap = data /\ UNCHANGED <<views, data>>
<1>1. ASSUME NEW r \in Refresher, call' = Abandoned(r) PROVE G
  BY <1>1 DEF Abandoned, TypeOK
<1>2. ASSUME NEW r \in Refresher, StartCall(r) PROVE G
  BY <1>2 DEF StartCall, TypeOK
<1>3. ASSUME NEW u \in View, call' = [call EXCEPT ![u] = NoCall] PROVE G
  BY <1>3 DEF TypeOK, NoCall
<1>4. ASSUME UNCHANGED call PROVE G
  BY <1>4
<1>5. ASSUME NEW r \in Refresher, Await(r) \/ AttemptError(r) \/ Crash(r)
      PROVE  UNCHANGED call \/ call' = Abandoned(r)
  BY <1>5 DEF Await, AttemptError, Crash
<1>6. ASSUME NEW u \in View, CallEnds(u) \/ CallAborts(u)
      PROVE  call' = [call EXCEPT ![u] = NoCall]
  BY <1>6 DEF CallEnds, CallAborts
<1> HIDE DEF G
<1>7. G
  BY <1>1, <1>2, <1>3, <1>4, <1>5, <1>6 DEF Next, Write, Schedule, Expire, ClaimJob, Attempt,
     CheckLease, Complete, RecordFailure, HeartbeatLost, PolicyRefresh, caggVars
<1> QED BY <1>7 DEF G

\* The order is kept.
LEMMA OrderedStep ==
    ASSUME TypeOK, TypeOK', Ordered, [Next]_caggVars
    PROVE  Ordered'
<1> USE CaggAssumption
<1>1. /\ \A d \in Day : data'[d] >= data[d] /\ data'[d] <= changes' /\ data'[d] \in Nat
      /\ changes' >= changes
  <2>1. ASSUME NEW d \in Day, Write(d)
        PROVE  /\ \A e \in Day : data'[e] >= data[e] /\ data'[e] <= changes' /\ data'[e] \in Nat
               /\ changes' >= changes
    BY <2>1, Ranges DEF Write, Ordered, TypeOK
  <2>2. CASE UNCHANGED <<changes, data>>
    BY <2>2, Ranges DEF Ordered
  <2> QED BY <2>1, <2>2 DEF Next, Schedule, Expire, ClaimJob, Attempt, CheckLease, StartCall,
          Await, Complete, RecordFailure, AttemptError, Crash, HeartbeatLost, CallEnds,
          CallAborts, PolicyRefresh, caggVars
<1>2. \A d \in Day : asked'[d] \in {asked[d], data[d]}
  <2>1. ASSUME NEW lo, NEW hi, NEW inclusive, Schedule(lo, hi, inclusive)
        PROVE  \A d \in Day : asked'[d] \in {asked[d], data[d]}
    BY <2>1 DEF Schedule
  <2>2. CASE UNCHANGED asked
    BY <2>2
  <2> QED BY <2>1, <2>2 DEF Next, Write, Expire, ClaimJob, Attempt, CheckLease, StartCall,
          Await, Complete, RecordFailure, AttemptError, Crash, HeartbeatLost, CallEnds,
          CallAborts, PolicyRefresh, History, caggVars
<1>3. \A w \in Window, d \in Day : seen'[w][d] \in {0, seen[w][d], data[d]}
  <2>1. ASSUME NEW w \in Window, NEW job, Verdict(w, job)
        PROVE  \A u \in Window, d \in Day : seen'[u][d] \in {0, seen[u][d], data[d]}
    BY <2>1 DEF Verdict, TypeOK
  <2>2. ASSUME NEW w \in Window, NEW r \in Refresher, ClaimJob(r, w)
        PROVE  \A u \in Window, d \in Day : seen'[u][d] \in {0, seen[u][d], data[d]}
    BY <2>2 DEF ClaimJob, TypeOK
  <2>3. CASE UNCHANGED seen
    BY <2>3
  <2>4. \A r \in Refresher : att[r].job \in Window
    BY DEF TypeOK
  <2> QED BY <2>1, <2>2, <2>3, <2>4 DEF Next, Write, Schedule, Expire, Attempt, CheckLease,
          StartCall, Await, Complete, RecordFailure, AttemptError, Crash, HeartbeatLost,
          CallEnds, CallAborts, PolicyRefresh, History, caggVars
<1>4. \A v \in View, d \in Day : views'[v][d] \in {views[v][d], call[v].snap[d], data[d]}
        /\ (views'[v][d] = call[v].snap[d] => d \in DaysOf(call[v].window)
               \/ views'[v][d] \in {views[v][d], data[d]})
  <2>1. ASSUME NEW v \in View, CallEnds(v)
        PROVE  \A u \in View, d \in Day : views'[u][d] \in {views[u][d], call[u].snap[d], data[d]}
                  /\ (views'[u][d] = call[u].snap[d] => d \in DaysOf(call[u].window)
                        \/ views'[u][d] \in {views[u][d], data[d]})
    BY <2>1 DEF CallEnds, TypeOK
  <2>2. ASSUME NEW v \in View, PolicyRefresh(v)
        PROVE  \A u \in View, d \in Day : views'[u][d] \in {views[u][d], data[d]}
    BY <2>2 DEF PolicyRefresh, TypeOK
  <2>3. CASE UNCHANGED views
    BY <2>3
  <2> QED BY <2>1, <2>2, <2>3 DEF Next, Write, Schedule, Expire, ClaimJob, Attempt, CheckLease,
          StartCall, Await, Complete, RecordFailure, AttemptError, Crash, HeartbeatLost,
          CallAborts, caggVars
<1>5. \A v \in View, d \in Day : views'[v][d] <= data'[d]
  BY <1>1, <1>4, Ranges DEF Ordered
<1>6. ASSUME NEW v \in View, NEW d \in DaysOf(call'[v].window)
      PROVE  views'[v][d] <= call'[v].snap[d] /\ call'[v].snap[d] <= data'[d]
  <2>1. call'[v].window # <<0, 0>>
    BY DEF DaysOf
  <2>2. d \in Day
    <3>1. call'[v].window \in Window \cup {<<0, 0>>}
      BY DEF TypeOK
    <3> QED BY <3>1, Ranges
  <2>3. CASE call'[v].snap = data /\ UNCHANGED <<views, data>>
    BY <2>2, <2>3, Ranges DEF Ordered
  <2>4. CASE call'[v].window = call[v].window /\ call'[v].snap = call[v].snap
    <3>1. views[v][d] <= call[v].snap[d] /\ call[v].snap[d] <= data[d] /\ call[v].window # <<0, 0>>
      BY <2>1, <2>4 DEF Ordered
    <3>2. views'[v][d] \in {views[v][d], call[v].snap[d]}
      <4>1. ASSUME NEW u \in View, PolicyRefresh(u) PROVE views'[v][d] = views[v][d]
        <5>1. call[u].window = <<0, 0>>
          BY <4>1 DEF PolicyRefresh, NoCall
        <5>2. u # v
          BY <3>1, <5>1
        <5> QED BY <4>1, <5>2 DEF PolicyRefresh, TypeOK
      <4>2. ASSUME NEW u \in View, CallEnds(u)
            PROVE  views'[v][d] \in {views[v][d], call[v].snap[d]}
        BY <2>2, <4>2 DEF CallEnds, TypeOK
      <4>3. CASE UNCHANGED views
        BY <4>3
      <4> QED BY <4>1, <4>2, <4>3 DEF Next, Write, Schedule, Expire, ClaimJob, Attempt,
              CheckLease, StartCall, Await, Complete, RecordFailure, AttemptError, Crash,
              HeartbeatLost, CallAborts, caggVars
    <3> QED BY <1>1, <2>2, <2>4, <3>1, <3>2, Ranges
  <2> QED BY <2>1, <2>3, <2>4, CallStep
<1>7. \A d \in Day : asked'[d] <= data'[d]
  BY <1>1, <1>2, Ranges DEF Ordered
<1>8. \A w \in Window, d \in Day : seen'[w][d] <= data'[d]
  BY <1>1, <1>3, Ranges DEF Ordered
<1> QED BY <1>1, <1>5, <1>6, <1>7, <1>8 DEF Ordered

\* Active jobs stay disjoint: what is scheduled meets no active job.
LEMMA DisjointStep ==
    ASSUME TypeOK, ActiveDisjoint, [Next]_caggVars
    PROVE  ActiveDisjoint'
<1>1. ASSUME NEW lo, NEW hi, NEW inclusive, Schedule(lo, hi, inclusive)
      PROVE  ActiveDisjoint'
  <2> DEFINE new == Uncovered(compute_cagg_bucket_alignment(lo, hi, inclusive))
  <2>1. jobs' = [v \in Window |-> IF v \in new THEN NewJob ELSE jobs[v]]
    BY <1>1 DEF Schedule
  <2> HIDE DEF new
  <2>2. \A a \in Window : Active(a)' => Active(a) \/ a \in new
    BY <2>1 DEF Active
  <2>3. /\ \A v \in new, a \in Window : Active(a) => ~Overlap(a, v)
        /\ \A u, v \in new : Overlap(u, v) => u = v
    BY UncoveredParts DEF new
  <2>4. \A u, v : Overlap(u, v) => Overlap(v, u)
    BY DEF Overlap
  <2> QED BY <2>2, <2>3, <2>4 DEF ActiveDisjoint, Overlap
<1>2. CASE \A a \in Window : Active(a)' => Active(a)
  BY <1>2 DEF ActiveDisjoint, Overlap
<1>3. ASSUME NEW w \in Window, NEW job, jobs' = [jobs EXCEPT ![w] = job], Active(w)
      PROVE  \A a \in Window : Active(a)' => Active(a)
  BY <1>3 DEF Active, TypeOK
<1>4. ASSUME NEW w \in Window, NEW r \in Refresher, ClaimJob(r, w)
      PROVE  \A a \in Window : Active(a)' => Active(a)
  BY <1>3, <1>4 DEF ClaimJob, Claimable, Active
<1>5. ASSUME NEW w \in Window, Expire(w)
      PROVE  \A a \in Window : Active(a)' => Active(a)
  BY <1>5 DEF Expire, Active, TypeOK
<1>6. ASSUME NEW r \in Refresher, Complete(r) \/ RecordFailure(r)
      PROVE  \A a \in Window : Active(a)' => Active(a)
  <2>1. att[r].job \in Window
    BY DEF TypeOK
  <2>2. CASE OwnsJob(r)
    <3>1. Active(att[r].job)
      BY <2>2 DEF OwnsJob, Owned, Active
    <3>2. UNCHANGED jobs \/ \E job : jobs' = [jobs EXCEPT ![att[r].job] = job]
      BY <1>6 DEF Complete, RecordFailure, Verdict
    <3> QED BY <1>3, <2>1, <3>1, <3>2 DEF Active
  <2>3. CASE ~OwnsJob(r)
    BY <1>6, <2>3 DEF Complete, RecordFailure, Active
  <2> QED BY <2>2, <2>3
<1>7. CASE UNCHANGED jobs
  BY <1>2, <1>7 DEF Active
<1> QED BY <1>1, <1>2, <1>4, <1>5, <1>6, <1>7 DEF Next, Write, Attempt, CheckLease, StartCall,
        Await, AttemptError, Crash, HeartbeatLost, CallEnds, CallAborts, PolicyRefresh, caggVars

\* An attempt that a step leaves alone keeps its progress.
LEMMA LeftAlone ==
    ASSUME TypeOK, TypeOK', Ordered, Progress, [Next]_caggVars,
           NEW r \in Refresher, att'[r] = att[r], Claims(r)' => Claims(r),
           Claims(r)' => seen'[att[r].job] = seen[att[r].job],
           Calling(r) /\ Claims(r)' => Calling(r)' \/ Done(r, att[r].view)'
    PROVE  ProgressOf(r)'
<1> SUFFICES ASSUME Claims(r)'
             PROVE  /\ \A v \in View : v < att'[r].view => Done(r, v)'
                    /\ att'[r].pc = "complete" => \A v \in View : Done(r, v)'
                    /\ att'[r].pc = "wait" => Done(r, att[r].view)' \/ Calling(r)'
  BY DEF ProgressOf
<1>1. att[r].job \in Window /\ att[r].view \in View
  BY DEF TypeOK
<1>2. \A v \in View : Done(r, v) => Done(r, v)'
  <2> SUFFICES ASSUME NEW v \in View, Done(r, v), NEW d \in DaysOf(att[r].job)
               PROVE  views'[v][d] >= seen'[att[r].job][d]
    BY DEF Done
  <2>1. d \in Day /\ seen'[att[r].job][d] = seen[att[r].job][d]
    BY <1>1, Ranges
  <2>2. views[v][d] >= seen[att[r].job][d]
    BY DEF Done
  <2> QED BY <1>1, <2>1, <2>2, ViewsGrow, Ranges
<1>3. \A v \in View : v < att'[r].view => Done(r, v)'
  BY <1>2 DEF Progress, ProgressOf
<1>4. att'[r].pc = "complete" => \A v \in View : Done(r, v)'
  BY <1>2 DEF Progress, ProgressOf
<1>5. ASSUME att'[r].pc = "wait"
      PROVE  Done(r, att[r].view)' \/ Calling(r)'
  <2>1. Done(r, att[r].view) \/ Calling(r)
    BY <1>5 DEF Progress, ProgressOf
  <2>2. CASE Done(r, att[r].view)
    <3>1. PICK v \in View : v = att[r].view
      BY <1>1
    <3>2. Done(r, v)'
      BY <1>2, <2>2, <3>1
    <3> QED BY <3>1, <3>2 DEF Done
  <2>3. CASE Calling(r)
    BY <2>3 DEF Done
  <2> QED BY <2>1, <2>2, <2>3
<1> QED BY <1>3, <1>4, <1>5

\* The progress of every attempt that holds a row is kept.
LEMMA ProgressStep ==
    ASSUME TypeOK, TypeOK', Ordered, Progress, [Next]_caggVars
    PROVE  Progress'
<1> USE CaggAssumption
<1> SUFFICES ASSUME NEW r \in Refresher PROVE ProgressOf(r)'
  BY DEF Progress
<1>a. att[r].job \in Window /\ att[r].view \in View /\ att[r].pc \in PC
  BY DEF TypeOK
<1>b. Claims(r) => /\ \A v \in View : v < att[r].view => Done(r, v)
                   /\ att[r].pc = "complete" => \A v \in View : Done(r, v)
                   /\ att[r].pc = "wait" => Done(r, att[r].view) \/ Calling(r)
  BY DEF Progress, ProgressOf
<1>1. ASSUME att'[r] = att[r], UNCHANGED <<jobs, seen, call>> PROVE ProgressOf(r)'
  <2>1. (Claims(r)' => Claims(r)) /\ (Calling(r) => Calling(r)')
    BY <1>1 DEF Claims, Calling, Busy
  <2> QED BY <1>1, <2>1, LeftAlone
<1>2. ASSUME NEW s \in Refresher, s # r, call' = Abandoned(s), att'[r] = att[r],
             UNCHANGED <<jobs, seen>>
      PROVE  ProgressOf(r)'
  <2>1. Claims(r)' => Claims(r)
    BY <1>2 DEF Claims, Busy
  <2>2. Calling(r) => Calling(r)'
    BY <1>a, <1>2 DEF Calling, Abandoned
  <2> QED BY <1>2, <2>1, <2>2, LeftAlone
<1>3. ASSUME att'[r] = Idle PROVE ProgressOf(r)'
  BY <1>3 DEF Claims, Busy, Idle, ProgressOf
<1>4. ASSUME NEW s \in Refresher, End(s), s # r, UNCHANGED <<jobs, seen>>,
             UNCHANGED call \/ call' = Abandoned(s)
      PROVE  ProgressOf(r)'
  BY <1>1, <1>2, <1>4 DEF End, TypeOK
<1>5. ASSUME NEW s \in Refresher, End(s), s = r PROVE ProgressOf(r)'
  BY <1>3, <1>5 DEF End, TypeOK
\* The attempt goes on, and its aggregates are where they were.
<1>6. ASSUME NEW pc \in {"check", "call", "fail"}, Goto(r, pc), UNCHANGED <<jobs, seen, views>>,
             Busy(r)
      PROVE  ProgressOf(r)'
  <2>1. att'[r].pc = pc /\ att'[r].job = att[r].job /\ att'[r].view = att[r].view
    BY <1>6 DEF Goto, TypeOK
  <2>2. Claims(r)' => Claims(r)
    BY <1>6, <2>1 DEF Claims
  <2>3. \A v \in View : Done(r, v) => Done(r, v)'
    BY <1>6, <2>1 DEF Done
  <2> QED BY <1>b, <2>1, <2>2, <2>3 DEF ProgressOf
\* A row leaves PROCESSING.
<1>7. ASSUME NEW w \in Window, NEW job \in JobType(Refresher), Verdict(w, job),
             job.status # "PROCESSING", att'[r] = att[r], UNCHANGED call
      PROVE  ProgressOf(r)'
  <2>1. CASE att[r].job = w
    <3>1. jobs'[att'[r].job] = job
      BY <1>7, <2>1 DEF Verdict, TypeOK
    <3> QED BY <1>7, <3>1 DEF Claims, ProgressOf
  <2>2. CASE att[r].job # w
    <3>1. jobs'[att[r].job] = jobs[att[r].job] /\ seen'[att[r].job] = seen[att[r].job]
      BY <1>a, <1>7, <2>2 DEF Verdict, TypeOK
    <3>2. (Claims(r)' => Claims(r)) /\ (Calling(r) => Calling(r)')
      BY <1>7, <3>1 DEF Claims, Calling, Busy
    <3> QED BY <1>7, <3>1, <3>2, LeftAlone
  <2> QED BY <2>1, <2>2
<1>8. ASSUME NEW d \in Day, Write(d) PROVE ProgressOf(r)'
  BY <1>1, <1>8 DEF Write, History
<1>9. ASSUME NEW lo, NEW hi, NEW inclusive, Schedule(lo, hi, inclusive) PROVE ProgressOf(r)'
  <2> DEFINE new == Uncovered(compute_cagg_bucket_alignment(lo, hi, inclusive))
  <2>1. /\ jobs' = [v \in Window |-> IF v \in new THEN NewJob ELSE jobs[v]]
        /\ UNCHANGED <<att, seen, call>>
    BY <1>9 DEF Schedule
  <2> HIDE DEF new
  <2>2. NewJob.status # "PROCESSING"
    BY DEF NewJob, NoJob
  <2>3. (Claims(r)' => Claims(r)) /\ (Calling(r) => Calling(r)')
    BY <1>a, <2>1, <2>2 DEF Claims, Calling, Busy
  <2> QED BY <2>1, <2>3, LeftAlone
<1>10. ASSUME NEW w \in Window, Expire(w) PROVE ProgressOf(r)'
  <2>1. /\ \A u \in Window : jobs'[u].status = jobs[u].status /\ jobs'[u].holder = jobs[u].holder
        /\ UNCHANGED <<att, seen, call>>
    BY <1>10 DEF Expire, TypeOK, JobType, History
  <2>2. (Claims(r)' => Claims(r)) /\ (Calling(r) => Calling(r)')
    BY <1>a, <2>1 DEF Claims, Calling, Busy
  <2> QED BY <2>1, <2>2, LeftAlone
<1>11. ASSUME NEW w \in Window, NEW s \in Refresher, ClaimJob(s, w) PROVE ProgressOf(r)'
  <2>1. /\ att' = [att EXCEPT ![s] = [pc |-> "check", job |-> w, view |-> 1]]
        /\ jobs' = [jobs EXCEPT ![w] = Claimed(@, s)]
        /\ seen' = [seen EXCEPT ![w] = data] /\ UNCHANGED call
    BY <1>11 DEF ClaimJob
  <2>2. CASE s = r
    <3>1. att'[r].pc = "check" /\ att'[r].view = 1
      BY <2>1, <2>2 DEF TypeOK
    <3> QED BY <3>1 DEF View, ProgressOf
  <2>3. CASE s # r
    <3>1. att'[r] = att[r]
      BY <2>1, <2>3 DEF TypeOK
    <3>2. jobs'[w].holder = s
      BY <2>1 DEF TypeOK, JobType, Claimed
    <3>3. \A u \in Window : u # w => jobs'[u] = jobs[u] /\ seen'[u] = seen[u]
      BY <2>1 DEF TypeOK
    <3>4. Claims(r)' => att[r].job # w /\ Claims(r)
      BY <1>a, <2>3, <3>1, <3>2, <3>3 DEF Claims, Busy
    <3>5. Claims(r)' => seen'[att[r].job] = seen[att[r].job]
      BY <1>a, <3>3, <3>4
    <3>6. Calling(r) /\ Claims(r)' => Calling(r)'
      BY <2>1, <3>1, <3>5 DEF Calling
    <3> QED BY <3>1, <3>4, <3>5, <3>6, LeftAlone
  <2> QED BY <2>2, <2>3
<1>12. ASSUME NEW s \in Refresher, CheckLease(s) PROVE ProgressOf(r)'
  <2>1. UNCHANGED <<jobs, seen, call, views>> /\ Busy(s) /\ (End(s) \/ Goto(s, "call"))
    BY <1>12 DEF CheckLease, History, Busy
  <2>2. CASE s # r /\ Goto(s, "call")
    BY <1>1, <2>1, <2>2 DEF Goto, TypeOK
  <2> QED BY <1>4, <1>5, <1>6, <2>1, <2>2
<1>13. ASSUME NEW s \in Refresher, StartCall(s) PROVE ProgressOf(r)'
  <2>1. /\ att[s].pc = "call" /\ call[att[s].view] = NoCall
        /\ call' = [call EXCEPT ![att[s].view] =
                       [by |-> s, window |-> att[s].job, snap |-> data]]
        /\ Goto(s, "wait") /\ UNCHANGED <<jobs, seen, views>>
    BY <1>13 DEF StartCall, History
  <2>2. CASE s = r
    <3>1. att'[r].pc = "wait" /\ att'[r].job = att[r].job /\ att'[r].view = att[r].view
      BY <2>1, <2>2 DEF Goto, TypeOK
    <3>2. Claims(r)' => Claims(r)
      BY <2>1, <2>2, <3>1 DEF Claims, Busy
    <3>3. \A v \in View : Done(r, v) => Done(r, v)'
      BY <2>1, <3>1 DEF Done
    <3>4. call'[att[r].view] = [by |-> r, window |-> att[r].job, snap |-> data]
      BY <1>a, <2>1, <2>2 DEF TypeOK
    <3>5. \A d \in DaysOf(att[r].job) : data[d] >= seen[att[r].job][d]
      BY <1>a, Ranges DEF Ordered
    <3>6. Calling(r)'
      BY <2>1, <3>1, <3>4, <3>5 DEF Calling
    <3> QED BY <1>b, <3>1, <3>2, <3>3, <3>6 DEF ProgressOf
  <2>3. CASE s # r
    <3>1. att'[r] = att[r]
      BY <2>1, <2>3 DEF Goto, TypeOK
    <3>2. Claims(r)' => Claims(r)
      BY <2>1, <3>1 DEF Claims, Busy
    <3>3. Calling(r) => Calling(r)'
      <4>1. SUFFICES ASSUME Calling(r) PROVE Calling(r)'
        OBVIOUS
      <4>2. att[r].view # att[s].view
        BY <2>1, <4>1 DEF Calling, NoCall
      <4>3. call'[att[r].view] = call[att[r].view]
        BY <1>a, <2>1, <4>2 DEF TypeOK
      <4> QED BY <2>1, <3>1, <4>1, <4>3 DEF Calling
    <3> QED BY <2>1, <3>1, <3>2, <3>3, LeftAlone
  <2> QED BY <2>2, <2>3
<1>14. ASSUME NEW s \in Refresher, Await(s) PROVE ProgressOf(r)'
  <2>1. UNCHANGED <<jobs, seen, views>> /\ att[s].pc = "wait"
    BY <1>14 DEF Await, History
  <2>2. CASE End(s) /\ call' = Abandoned(s)
    BY <1>4, <1>5, <2>1, <2>2
  <2>3. CASE /\ call[att[s].view].by # s /\ UNCHANGED <<lost, call>>
             /\ att' = [att EXCEPT ![s].pc = NextPC(s),
                                   ![s].view = IF @ = NumViews THEN @ ELSE @ + 1]
    <3>1. CASE s # r
      BY <1>1, <2>1, <2>3, <3>1 DEF TypeOK
    <3>2. CASE s = r
      <4> DEFINE view == IF att[r].view = NumViews THEN att[r].view ELSE att[r].view + 1
      <4>1. att'[r].pc = NextPC(r) /\ att'[r].job = att[r].job /\ att'[r].view = view
        BY <2>3, <3>2 DEF TypeOK
      <4>2. Claims(r)' => Claims(r)
        BY <2>1, <3>2, <4>1 DEF Claims, Busy
      <4>3. \A v \in View : Done(r, v) => Done(r, v)'
        BY <2>1, <4>1 DEF Done
      <4>4. Claims(r) => \A v \in View : v <= att[r].view => Done(r, v)
        <5>1. ~Calling(r)
          BY <2>3, <3>2 DEF Calling
        <5> QED BY <1>a, <1>b, <2>1, <3>2, <5>1 DEF View
      <4>5. NextPC(r) # "wait" /\ (NextPC(r) = "complete" => att[r].view = NumViews)
        BY DEF NextPC
      <4>6. \A v \in View : v < view => v <= att[r].view
        BY <1>a DEF View
      <4>7. att[r].view = NumViews => \A v \in View : v <= att[r].view
        BY DEF View
      <4> QED BY <4>1, <4>2, <4>3, <4>4, <4>5, <4>6, <4>7 DEF ProgressOf
    <3> QED BY <3>1, <3>2
  <2> QED BY <1>14, <2>2, <2>3 DEF Await
<1>15. ASSUME NEW s \in Refresher, Complete(s) \/ RecordFailure(s) PROVE ProgressOf(r)'
  <2>1. End(s) /\ UNCHANGED call /\ att[s].job \in Window
    BY <1>15 DEF Complete, RecordFailure, TypeOK
  <2>2. \/ UNCHANGED <<jobs, seen>>
        \/ Verdict(att[s].job, Settled(jobs[att[s].job], "COMPLETED"))
        \/ Verdict(att[s].job, Failed(jobs[att[s].job], TRUE))
    BY <1>15 DEF Complete, RecordFailure
  <2>3. \A job \in JobType(Refresher) :
           /\ Settled(job, "COMPLETED") \in JobType(Refresher)
           /\ Settled(job, "COMPLETED").status # "PROCESSING"
           /\ Failed(job, TRUE) \in JobType(Refresher)
           /\ Failed(job, TRUE).status # "PROCESSING"
    <3> TAKE job \in JobType(Refresher)
    <3>1. Settled(job, "COMPLETED").status # "PROCESSING"
      BY DEF Settled, JobType
    <3> QED BY <3>1, JobRows
  <2>4. jobs[att[s].job] \in JobType(Refresher)
    BY <2>1 DEF TypeOK
  <2>5. CASE s = r
    BY <1>5, <2>1, <2>5
  <2>6. CASE s # r
    <3>1. att'[r] = att[r]
      BY <2>1, <2>6 DEF End, TypeOK
    <3> QED BY <1>1, <1>7, <2>1, <2>2, <2>3, <2>4, <3>1
  <2> QED BY <2>5, <2>6
<1>16. ASSUME NEW s \in Refresher, AttemptError(s) PROVE ProgressOf(r)'
  <2>1. /\ Goto(s, "fail") /\ call' = Abandoned(s) /\ UNCHANGED <<jobs, seen, views>>
        /\ Busy(s)
    BY <1>16 DEF AttemptError, History, Busy
  <2>2. CASE s # r
    <3>1. att'[r] = att[r]
      BY <2>1, <2>2 DEF Goto, TypeOK
    <3> QED BY <1>2, <2>1, <2>2, <3>1
  <2> QED BY <1>6, <2>1, <2>2
<1>17. ASSUME NEW s \in Refresher, Crash(s) PROVE ProgressOf(r)'
  BY <1>4, <1>5, <1>17 DEF Crash, History
<1>18. ASSUME NEW s \in Refresher, HeartbeatLost(s) PROVE ProgressOf(r)'
  BY <1>1, <1>18 DEF HeartbeatLost, History
<1>19. ASSUME NEW v \in View, CallEnds(v) PROVE ProgressOf(r)'
  <2>1. /\ views' = [views EXCEPT ![v] = [d \in Day |->
                 IF d \in DaysOf(call[v].window) THEN call[v].snap[d] ELSE @[d]]]
        /\ call' = [call EXCEPT ![v] = NoCall] /\ UNCHANGED <<jobs, att, seen>>
    BY <1>19 DEF CallEnds, History
  <2>2. Claims(r)' => Claims(r)
    BY <2>1 DEF Claims, Busy
  <2>3. Calling(r) => Calling(r)' \/ Done(r, att[r].view)'
    <3> SUFFICES ASSUME Calling(r) PROVE Calling(r)' \/ Done(r, att[r].view)'
      OBVIOUS
    <3>1. CASE att[r].view # v
      <4>1. call'[att[r].view] = call[att[r].view]
        BY <1>a, <2>1, <3>1 DEF TypeOK
      <4> QED BY <2>1, <4>1 DEF Calling
    <3>2. CASE att[r].view = v
      <4>1. \A d \in DaysOf(att[r].job) : views'[v][d] = call[v].snap[d]
        BY <1>a, <2>1, <3>2, Ranges DEF Calling, TypeOK
      <4>2. \A d \in DaysOf(att[r].job) : call[v].snap[d] >= seen[att[r].job][d]
        BY <3>2 DEF Calling
      <4> QED BY <2>1, <3>2, <4>1, <4>2 DEF Done
    <3> QED BY <3>1, <3>2
  <2> QED BY <2>1, <2>2, <2>3, LeftAlone
<1>20. ASSUME NEW v \in View, CallAborts(v) PROVE ProgressOf(r)'
  <2>1. call' = [call EXCEPT ![v] = NoCall] /\ UNCHANGED <<jobs, att, seen>>
        /\ call[v].by = NoWorker
    BY <1>20 DEF CallAborts, History
  <2>2. Claims(r)' => Claims(r)
    BY <2>1 DEF Claims, Busy
  <2>3. Calling(r) => Calling(r)'
    <3> SUFFICES ASSUME Calling(r) PROVE Calling(r)'
      OBVIOUS
    <3>1. att[r].view # v
      BY <2>1 DEF Calling
    <3>2. call'[att[r].view] = call[att[r].view]
      BY <1>a, <2>1, <3>1 DEF TypeOK
    <3> QED BY <2>1, <3>2 DEF Calling
  <2> QED BY <2>1, <2>2, <2>3, LeftAlone
<1>21. ASSUME NEW v \in View, PolicyRefresh(v) PROVE ProgressOf(r)'
  BY <1>1, <1>21 DEF PolicyRefresh, History
<1>22. ASSUME UNCHANGED caggVars PROVE ProgressOf(r)'
  BY <1>1, <1>22 DEF caggVars
<1> QED BY <1>8, <1>9, <1>10, <1>11, <1>12, <1>13, <1>14, <1>15, <1>16, <1>17, <1>18, <1>19,
           <1>20, <1>21, <1>22 DEF Next, Attempt

\* A row that keeps its status, with what was asked and seen, keeps both facts.
LEMMA SameRequests ==
    ASSUME TypeOK, TypeOK', Ordered, AskedIsSeen, AskedIsRefreshed, [Next]_caggVars,
           \A w \in Window : jobs'[w].status = jobs[w].status, UNCHANGED <<asked, late, seen>>
    PROVE  AskedIsSeen' /\ AskedIsRefreshed'
<1>1. AskedIsSeen'
  BY DEF AskedIsSeen
<1>2. AskedIsRefreshed'
  <2> SUFFICES ASSUME NEW v \in View, NEW d \in Day, ~(d \in late),
                      views[v][d] >= asked[d]
               PROVE  views'[v][d] >= asked[d]
    BY DEF AskedIsRefreshed
  <2> QED BY ViewsGrow, Ranges
<1> QED BY <1>1, <1>2

\* The row of w leaves PROCESSING with its days in the aggregates, or with a
\* status that says so.
LEMMA SettledRequests ==
    ASSUME TypeOK, AskedIsSeen, AskedIsRefreshed, NEW w \in Window, NEW job \in JobType(Refresher),
           Verdict(w, job), UNCHANGED <<asked, late, views>>,
           jobs[w].status = "PROCESSING", job.status # "PROCESSING",
           job.status \in {"PENDING", "FAILED"}
             \/ \A v \in View, d \in DaysOf(w) : views[v][d] >= seen[w][d]
    PROVE  AskedIsSeen' /\ AskedIsRefreshed'
<1>1. /\ jobs'[w] = job
      /\ \A u \in Window : u # w => jobs'[u] = jobs[u] /\ seen'[u] = seen[u]
  BY DEF Verdict, TypeOK
<1>2. AskedIsSeen'
  BY <1>1 DEF AskedIsSeen
<1>3. AskedIsRefreshed'
  <2> SUFFICES ASSUME NEW v \in View, NEW d \in Day, ~(views[v][d] >= asked[d]), ~(d \in late)
               PROVE  \E u \in Window : d \in DaysOf(u)
                         /\ jobs'[u].status \in {"PENDING", "PROCESSING", "FAILED"}
    BY DEF AskedIsRefreshed
  <2>1. PICK u \in Window : d \in DaysOf(u)
                         /\ jobs[u].status \in {"PENDING", "PROCESSING", "FAILED"}
    BY DEF AskedIsRefreshed
  <2>2. CASE u # w
    BY <1>1, <2>1, <2>2
  <2>3. CASE u = w
    <3>1. asked[d] <= seen[w][d]
      BY <2>1, <2>3 DEF AskedIsSeen
    <3>2. ~(views[v][d] >= seen[w][d])
      BY <3>1, Ranges
    <3> QED BY <1>1, <2>1, <2>3, <3>2
  <2> QED BY <2>2, <2>3
<1> QED BY <1>2, <1>3

\* Requests are kept.
LEMMA AskedStep ==
    ASSUME CInv, TypeOK', [Next]_caggVars
    PROVE  AskedIsSeen' /\ AskedIsRefreshed'
<1> USE CaggAssumption
<1> USE DEF CInv
<1>1. ASSUME UNCHANGED <<jobs, asked, late, seen>>
      PROVE  AskedIsSeen' /\ AskedIsRefreshed'
  BY <1>1, SameRequests
<1>2. ASSUME NEW lo \in Nat, NEW hi \in Nat, NEW inclusive \in BOOLEAN,
             Schedule(lo, hi, inclusive)
      PROVE  AskedIsSeen' /\ AskedIsRefreshed'
  <2> DEFINE w == compute_cagg_bucket_alignment(lo, hi, inclusive)
             minutes == lo..(IF inclusive THEN hi ELSE hi - 1)
             days == {m \div DayLength : m \in minutes}
             new == Uncovered(w)
             running == {a \in Window : jobs[a].status = "PROCESSING"}
  <2>1. /\ jobs' = [v \in Window |-> IF v \in new THEN NewJob ELSE jobs[v]]
        /\ asked' = [d \in Day |-> IF d \in days THEN data[d] ELSE asked[d]]
        /\ late' = (late \ UNION {DaysOf(v) : v \in new})
                     \cup {d \in days : \E a \in running : d \in DaysOf(a)}
        /\ UNCHANGED <<views, seen>>
    BY <1>2 DEF Schedule
  <2>2. \A d \in days : w[1] \in Int /\ w[2] \in Int /\ w[1] <= d /\ d < w[2]
    BY AlignmentCovers
  <2>3. /\ new \subseteq Window
        /\ \A v \in new, a \in Window : Active(a) => ~Overlap(a, v) /\ a # v
    BY UncoveredParts
  <2>4. \A d \in Day \cap days : \/ \E v \in new : d \in DaysOf(v)
                                 \/ \E a \in Window : Active(a) /\ d \in DaysOf(a)
    BY <2>2, UncoveredComplete
  <2>5. NewJob.status = "PENDING"
    BY DEF NewJob, NoJob
  <2> HIDE DEF w, days, new
  <2>6. \A a \in Window, v \in new : Active(a) => \A d \in DaysOf(a) : d \notin DaysOf(v)
    BY <2>3 DEF DaysOf, Overlap, Window
  <2>7. AskedIsSeen'
    <3> SUFFICES ASSUME NEW u \in Window, jobs'[u].status = "PROCESSING",
                        NEW d \in DaysOf(u), d \notin late'
                 PROVE  asked'[d] <= seen'[u][d]
      BY DEF AskedIsSeen
    <3>1. jobs[u].status = "PROCESSING" /\ Active(u)
      BY <2>1, <2>5 DEF Active
    <3>2. d \in Day /\ d \notin days /\ d \notin late
      BY <2>1, <2>6, <3>1, Ranges
    <3> QED BY <2>1, <3>1, <3>2 DEF AskedIsSeen
  <2>8. AskedIsRefreshed'
    <3> SUFFICES ASSUME NEW v \in View, NEW d \in Day,
                        ~(views[v][d] >= asked'[d]), d \notin late'
                 PROVE  \E u \in Window : d \in DaysOf(u)
                           /\ jobs'[u].status \in {"PENDING", "PROCESSING", "FAILED"}
      BY <2>1 DEF AskedIsRefreshed
    <3>1. ASSUME NEW u \in Window, d \in DaysOf(u),
                 jobs[u].status \in {"PENDING", "PROCESSING", "FAILED"}
          PROVE  jobs'[u].status \in {"PENDING", "PROCESSING", "FAILED"}
      BY <2>1, <2>5, <3>1
    <3>2. ASSUME NEW u \in new, d \in DaysOf(u)
          PROVE  u \in Window /\ jobs'[u].status = "PENDING"
      BY <2>1, <2>3, <2>5
    <3>3. CASE d \in days
      BY <2>4, <3>1, <3>2, <3>3 DEF Active
    <3>4. CASE d \notin days
      <4>1. CASE d \in late
        <5>1. \E u \in new : d \in DaysOf(u)
          BY <2>1, <4>1
        <5> QED BY <3>2, <5>1
      <4>2. CASE d \notin late
        <5>1. ~(views[v][d] >= asked[d])
          BY <2>1, <3>4
        <5> QED BY <3>1, <4>2, <5>1 DEF AskedIsRefreshed
      <4> QED BY <4>1, <4>2
    <3> QED BY <3>3, <3>4
  <2> QED BY <2>7, <2>8
<1>3. ASSUME NEW u \in Window, Expire(u)
      PROVE  AskedIsSeen' /\ AskedIsRefreshed'
  <2>1. \A w \in Window : jobs'[w].status = jobs[w].status
    BY <1>3 DEF Expire, TypeOK, JobType
  <2> QED BY <1>3, <2>1, SameRequests DEF Expire, History
<1>4. ASSUME NEW w \in Window, NEW r \in Refresher, ClaimJob(r, w)
      PROVE  AskedIsSeen' /\ AskedIsRefreshed'
  <2>1. /\ late' = late \ DaysOf(w) /\ seen' = [seen EXCEPT ![w] = data]
        /\ jobs' = [jobs EXCEPT ![w] = Claimed(@, r)]
        /\ UNCHANGED <<views, asked>> /\ Active(w)
    BY <1>4 DEF ClaimJob, Claimable, Active
  <2>2. jobs'[w].status = "PROCESSING" /\ seen'[w] = data
    BY <2>1 DEF TypeOK, JobType, Claimed
  <2>3. \A u \in Window : u # w => jobs'[u] = jobs[u] /\ seen'[u] = seen[u]
    BY <2>1 DEF TypeOK
  <2>4. \A u \in Window : u # w /\ Active(u) => \A d \in DaysOf(u) : d \notin DaysOf(w)
    BY <2>1 DEF ActiveDisjoint, Overlap, DaysOf, Window
  <2>5. AskedIsSeen'
    <3> SUFFICES ASSUME NEW u \in Window, jobs'[u].status = "PROCESSING",
                        NEW d \in DaysOf(u), d \notin late'
                 PROVE  asked[d] <= seen'[u][d]
      BY <2>1 DEF AskedIsSeen
    <3>1. d \in Day
      BY Ranges
    <3>2. CASE u = w
      BY <2>2, <3>1, <3>2 DEF Ordered
    <3>3. CASE u # w
      BY <2>1, <2>3, <2>4, <3>3 DEF AskedIsSeen, Active
    <3> QED BY <3>2, <3>3
  <2>6. AskedIsRefreshed'
    <3> SUFFICES ASSUME NEW v \in View, NEW d \in Day,
                        ~(views[v][d] >= asked[d]), d \notin DaysOf(w), d \notin late
                 PROVE  \E u \in Window : d \in DaysOf(u)
                           /\ jobs'[u].status \in {"PENDING", "PROCESSING", "FAILED"}
      BY <2>1, <2>2 DEF AskedIsRefreshed
    <3> QED BY <2>3 DEF AskedIsRefreshed
  <2> QED BY <2>5, <2>6
<1>5. ASSUME NEW r \in Refresher, Complete(r)
      PROVE  AskedIsSeen' /\ AskedIsRefreshed'
  <2>1. CASE r \notin lost /\ OwnsJob(r)
    <3> DEFINE w == att[r].job
               job == Settled(jobs[w], "COMPLETED")
    <3>1. w \in Window /\ jobs[w] \in JobType(Refresher)
      BY DEF TypeOK
    <3>2. job \in JobType(Refresher)
      BY <3>1, JobRows
    <3>3. job.status # "PROCESSING" /\ jobs[w].status = "PROCESSING"
      BY <2>1, <3>1 DEF Settled, JobType, OwnsJob, Owned
    <3>4. \A v \in View, d \in DaysOf(w) : views[v][d] >= seen[w][d]
      BY <1>5, <2>1 DEF Progress, ProgressOf, Claims, Busy, Complete, OwnsJob, Owned, Done
    <3>5. Verdict(w, job) /\ UNCHANGED <<asked, late, views>>
      BY <1>5, <2>1 DEF Complete
    <3> HIDE DEF w, job
    <3> QED BY <3>1, <3>2, <3>3, <3>4, <3>5, SettledRequests
  <2>2. CASE ~(r \notin lost /\ OwnsJob(r))
    BY <1>1, <1>5, <2>2 DEF Complete
  <2> QED BY <2>1, <2>2
<1>6. ASSUME NEW r \in Refresher, RecordFailure(r)
      PROVE  AskedIsSeen' /\ AskedIsRefreshed'
  <2>1. CASE OwnsJob(r)
    <3> DEFINE w == att[r].job
               job == Failed(jobs[w], TRUE)
    <3>1. w \in Window /\ jobs[w] \in JobType(Refresher)
      BY DEF TypeOK
    <3>2. job \in JobType(Refresher) /\ job.status \in {"PENDING", "FAILED"}
      BY <3>1, JobRows
    <3>3. jobs[w].status = "PROCESSING"
      BY <2>1 DEF OwnsJob, Owned
    <3>4. Verdict(w, job) /\ UNCHANGED <<asked, late, views>>
      BY <1>6, <2>1 DEF RecordFailure
    <3> HIDE DEF w, job
    <3> QED BY <3>1, <3>2, <3>3, <3>4, SettledRequests
  <2>2. CASE ~OwnsJob(r)
    BY <1>1, <1>6, <2>2 DEF RecordFailure
  <2> QED BY <2>1, <2>2
<1>7. \A d \in Day : d * DayLength \in Nat /\ (d + 1) * DayLength \in Nat
  BY DEF Day
<1>8. \A m \in Minute : m \in Nat
  BY DEF Minute
<1>9. ASSUME \/ \E d \in Day : Write(d)
             \/ \E r \in Refresher : \/ CheckLease(r) \/ StartCall(r) \/ Await(r)
                                     \/ AttemptError(r) \/ Crash(r) \/ HeartbeatLost(r)
             \/ \E v \in View : CallEnds(v) \/ CallAborts(v) \/ PolicyRefresh(v)
             \/ UNCHANGED caggVars
      PROVE  UNCHANGED <<jobs, asked, late, seen>>
  BY <1>9 DEF Write, CheckLease, StartCall, Await, AttemptError, Crash, HeartbeatLost, CallEnds,
     CallAborts, PolicyRefresh, History, caggVars
<1> QED BY <1>1, <1>2, <1>3, <1>4, <1>5, <1>6, <1>7, <1>8, <1>9 DEF Next, Attempt

\* The invariant holds in every behaviour.
LEMMA CaggInvariant == Spec => []CInv
<1>1. Init => CInv
  <2> SUFFICES ASSUME Init PROVE CInv
    OBVIOUS
  <2> USE CaggAssumption
  <2>1. Init => TypeOK
    BY CaggTypeInit
  <2>2. Ordered
    BY DEF Init, Ordered, NoCall, DaysOf
  <2>3. \A w \in Window : jobs[w].status = "NONE"
    BY DEF Init, NoJob
  <2>4. ActiveDisjoint /\ AskedIsSeen
    BY <2>3 DEF ActiveDisjoint, Active, AskedIsSeen
  <2>5. Progress
    BY DEF Init, Progress, ProgressOf, Claims, Busy, Idle
  <2>6. AskedIsRefreshed
    BY DEF Init, AskedIsRefreshed
  <2> QED BY <2>1, <2>2, <2>4, <2>5, <2>6 DEF CInv
<1>2. CInv /\ [Next]_caggVars => CInv'
  <2> SUFFICES ASSUME CInv, [Next]_caggVars PROVE CInv'
    OBVIOUS
  <2>1. TypeOK'
    BY TypeStep DEF CInv
  <2>2. Ordered' /\ ActiveDisjoint' /\ Progress'
    BY <2>1, OrderedStep, DisjointStep, ProgressStep DEF CInv
  <2>3. AskedIsSeen' /\ AskedIsRefreshed'
    BY <2>1, AskedStep
  <2> QED BY <2>1, <2>2, <2>3 DEF CInv
<1> QED BY <1>1, <1>2, PTL DEF Spec

\* A change that schedule_cagg_refresh_jobs was asked to refresh reaches the
\* aggregates, or a row says that it has not, unless the request met a job in
\* progress.
THEOREM RequestsAreKept == Spec => []AskedIsRefreshed
<1>1. CInv => AskedIsRefreshed
  BY DEF CInv
<1> QED BY <1>1, CaggInvariant, PTL

\* A job completes only when every aggregate has all that its window held when
\* the job was claimed (_complete_if_owned at the end of process_pending_jobs).
THEOREM CompletedMaterialized == Spec => CompletedIsMaterialized
<1> DEFINE A == \A w \in Window : jobs[w].status # "COMPLETED" /\ jobs'[w].status = "COMPLETED"
                  => \A v \in View, d \in DaysOf(w) : views[v][d] >= seen[w][d]
<1>1. CInv /\ [Next]_caggVars => [A]_caggVars
  <2> SUFFICES ASSUME CInv, Next, NEW w \in Window, jobs[w].status # "COMPLETED",
                      jobs'[w].status = "COMPLETED"
               PROVE  \A v \in View, d \in DaysOf(w) : views[v][d] >= seen[w][d]
    OBVIOUS
  <2> USE DEF CInv
  <2>1. ASSUME NEW r \in Refresher, Complete(r)
        PROVE  \A v \in View, d \in DaysOf(w) : views[v][d] >= seen[w][d]
    <3>1. att[r].job = w /\ OwnsJob(r)
      BY <2>1 DEF Complete, Verdict, TypeOK
    <3> QED BY <2>1, <3>1 DEF Progress, ProgressOf, Claims, Busy, Complete, OwnsJob, Owned, Done
  <2>2. ASSUME NEW r \in Refresher, RecordFailure(r) PROVE FALSE
    <3>1. Failed(jobs[att[r].job], TRUE).status \in {"PENDING", "FAILED"}
      BY JobRows DEF TypeOK
    <3> QED BY <2>2, <3>1 DEF RecordFailure, Verdict, TypeOK
  <2>3. ASSUME NEW lo, NEW hi, NEW inclusive, Schedule(lo, hi, inclusive) PROVE FALSE
    BY <2>3 DEF Schedule, NewJob, NoJob
  <2>4. ASSUME NEW u \in Window, Expire(u) PROVE FALSE
    BY <2>4 DEF Expire, TypeOK, JobType
  <2>5. ASSUME NEW u \in Window, NEW r \in Refresher, ClaimJob(r, u) PROVE FALSE
    BY <2>5 DEF ClaimJob, Claimed, TypeOK, JobType
  <2>6. UNCHANGED jobs => FALSE
    OBVIOUS
  <2> QED BY <2>1, <2>2, <2>3, <2>4, <2>5, <2>6 DEF Next, Write, Attempt, CheckLease, StartCall,
          Await, AttemptError, Crash, HeartbeatLost, CallEnds, CallAborts, PolicyRefresh
<1>2. Spec => [][A]_caggVars
  BY <1>1, CaggInvariant, PTL DEF Spec
<1> QED BY <1>2 DEF CompletedIsMaterialized

-----------------------------------------------------------------------------
(* The scheduler's loop *)

\* The interval algorithms over the days.  The theorem on the sweep speaks of
\* intervals only, so that the other parameters of the store do not matter.
Store == INSTANCE StoreProofs WITH
    Horizon <- Days, HotMinutes <- 0, WsValues <- {}, MaxRevision <- 0, MaxDeletes <- 0,
    now <- 0, raw <- <<>>, staging <- <<>>, revisions <- {}, ranges <- {}, deletes <- 0

\* CaggRefreshService._uncovered_intervals, which has the body of the loop of gap
\* repair, computes for every aligned window and in every state the largest parts
\* that no active job overlaps: the set that Schedule inserts jobs for.
THEOREM RefreshLoopExact ==
    ASSUME NEW w \in Window
    PROVE  Store!uncovered_intervals(w[1], w[2], {a \in Window : Active(a)}) = Uncovered(w)
<1> DEFINE A == {a \in Window : Active(a)}
           F == Store!FreeParts(w[1], w[2], A)
           G == {v \in Window : /\ w[1] <= v[1] /\ v[2] <= w[2]
                                /\ \A a \in Window : Active(a) => ~Overlap(a, v)}
<1>1. w[1] \in Nat /\ w[2] \in Nat /\ w[1] < w[2] /\ w[2] <= Days /\ Days \in Nat
  BY CaggAssumption DEF Window
<1>2. A \subseteq (0..Days) \X (0..Days) /\ \A a \in A : a[1] < a[2]
  BY DEF Window
<1>3. \A v : v \in Window /\ w[1] <= v[1] /\ v[2] <= w[2]
               <=> v \in (w[1]..w[2]) \X (w[1]..w[2]) /\ v[1] < v[2]
  BY <1>1 DEF Window
<1>4. \A v : (\A a \in A : ~Store!Overlap(a, v))
               <=> (\A a \in Window : Active(a) => ~Overlap(a, v))
  BY DEF Overlap, Store!Overlap
<1>5. Uncovered(w) = {v \in G : \A u \in G : u[1] <= v[1] /\ v[2] <= u[2] => u = v}
  BY DEF Uncovered
<1> HIDE DEF A
<1>6. F = G
  BY <1>3, <1>4 DEF Store!FreeParts
<1> HIDE DEF G
<1>7. Store!LargestFree(w[1], w[2], A) = Uncovered(w)
  BY <1>5, <1>6 DEF Store!LargestFree
<1>8. Store!uncovered_intervals(w[1], w[2], A) = Store!LargestFree(w[1], w[2], A)
  BY <1>1, <1>2, Store!UncoveredIsExact
<1> QED BY <1>7, <1>8 DEF A
=============================================================================
