---------------------------- MODULE ExportProofs ----------------------------
(***************************************************************************)
(* Proofs about exports, for any number of attempts and faults.            *)
(***************************************************************************)
EXTENDS ExportJobs, TLAPS

\* A claimed row names its latest claim; an unclaimed row names none.
ClaimInv ==
    IF status = "PROCESSING" THEN lease_token = attempt_count /\ attempt_count # 0
    ELSE lease_token = None

IInv == TypeOK /\ ClaimInv /\ PublishedByLatest

PC == Beating \cup {"none", "cleanup", "done"}

\* The steps that leave the job row alone.
QuietStep(a) ==
    \/ Generate(a) \/ StartUpload(a) \/ UploadEnds(a) \/ UploadFails(a)
    \/ AttemptError(a) \/ RecordFails(a) \/ Cleanup(a) \/ CleanupFails(a)
    \/ Crash(a) \/ HeartbeatLost(a) \/ HeartbeatError(a)

\* A quiet step keeps the row, and the other variables their types.
LEMMA QuietSteps ==
    ASSUME TypeOK, NEW a \in Attempt, QuietStep(a)
    PROVE  row' = row /\ TypeOK'
<1> USE DEF QuietStep, Generate, StartUpload, UploadEnds, UploadFails, AttemptError,
            RecordFails, AfterError, Cleanup, CleanupFails, Crash, HeartbeatLost,
            HeartbeatError
<1>1. row' = row
  OBVIOUS
<1>2. faults' \in 0..MaxFaults
  <2>1. faults' = faults \/ Fault
    BY DEF Fault
  <2> QED BY <2>1, ExportAssumption DEF Fault, TypeOK
<1>3. objects' \subseteq Attempt
  BY DEF TypeOK
<1>4. uploaded' \subseteq Attempt /\ lost' \subseteq Attempt
  BY DEF TypeOK
<1>5. pc' \in [Attempt -> PC]
  <2>1. pc' = pc \/ \E where \in PC : Goto(a, where)
    BY DEF PC, Beating
  <2> QED BY <2>1 DEF Goto, TypeOK, PC
<1> HIDE DEF QuietStep
<1> QED BY <1>1, <1>2, <1>3, <1>4, <1>5 DEF TypeOK, row, PC

\* The invariant is inductive: each action that writes the row in turn.
LEMMA Inductive == IInv /\ [Next]_vars => IInv'
<1> SUFFICES ASSUME IInv, [Next]_vars PROVE IInv'
  OBVIOUS
<1> USE ExportAssumption DEF IInv
<1>1. CASE UNCHANGED vars
  BY <1>1 DEF vars, row, TypeOK, ClaimInv, PublishedByLatest
<1>2. CASE Reap
  BY <1>2 DEF Reap, Expired, TypeOK, ClaimInv, PublishedByLatest, None
<1>3. CASE Claim
  <2>1. attempt_count' \in Attempt
    BY <1>3 DEF Claim, TypeOK, Attempt
  <2>2. TypeOK'
    BY <1>3, <2>1 DEF Claim, Goto, TypeOK, Attempt, Beating
  <2> QED BY <1>3, <2>1, <2>2 DEF Claim, Expired, ClaimInv, PublishedByLatest, Attempt
<1>4. CASE Expire
  <2>1. faults' \in 0..MaxFaults
    BY <1>4 DEF Expire, Fault, TypeOK
  <2> QED BY <1>4, <2>1 DEF Expire, TypeOK, ClaimInv, PublishedByLatest
<1>5. ASSUME NEW a \in Attempt, QuietStep(a) PROVE IInv'
  <2>1. row' = row /\ TypeOK'
    BY <1>5, QuietSteps
  <2> QED BY <2>1 DEF row, ClaimInv, PublishedByLatest
<1>6. ASSUME NEW a \in Attempt, Publish(a) \/ PublishUnanswered(a) PROVE IInv'
  <2>1. TypeOK'
    <3>1. faults' \in 0..MaxFaults
      BY <1>6 DEF Publish, PublishUnanswered, Fault, TypeOK
    <3>2. pc' \in [Attempt -> PC]
      BY <1>6 DEF Publish, PublishUnanswered, Goto, TypeOK, PC, Beating
    <3>3. PublishKey(a) \/ UNCHANGED row
      BY <1>6 DEF Publish, PublishUnanswered
    <3>4. live' \in BOOLEAN
      BY <3>3, Zenon DEF PublishKey, row, TypeOK
    <3>5. status' \in {"PENDING", "PROCESSING", "COMPLETED", "FAILED"}
      BY <3>3 DEF PublishKey, row, TypeOK
    <3>6. /\ attempt_count' \in 0..MaxAttempts /\ lease_token' \in 0..MaxAttempts
          /\ s3_key' \in 0..MaxAttempts
      BY <3>3 DEF PublishKey, row, TypeOK, Attempt, None
    <3> QED BY <1>6, <3>1, <3>2, <3>4, <3>5, <3>6 DEF Publish, PublishUnanswered,
               TypeOK, PC
  <2>2. CASE PublishKey(a)
    BY <2>1, <2>2 DEF PublishKey, Owns, ClaimInv, PublishedByLatest, None
  <2>3. CASE UNCHANGED row
    BY <2>1, <2>3 DEF row, ClaimInv, PublishedByLatest
  <2> QED BY <1>6, <2>2, <2>3 DEF Publish, PublishUnanswered
<1>7. ASSUME NEW a \in Attempt, RecordFailure(a) PROVE IInv'
  <2>1. TypeOK'
    <3>1. pc' \in [Attempt -> PC]
      BY <1>7 DEF RecordFailure, AfterError, Goto, TypeOK, PC
    <3>2. live' \in BOOLEAN
      BY <1>7, Zenon DEF RecordFailure, row, TypeOK
    <3> QED BY <1>7, <3>1, <3>2 DEF RecordFailure, row, TypeOK, PC, None
  <2> QED BY <1>7, <2>1 DEF RecordFailure, Owns, row, ClaimInv, PublishedByLatest, None
<1> QED
  BY <1>1, <1>2, <1>3, <1>4, <1>5, <1>6, <1>7 DEF Next, Progress, Faulty, QuietStep

\* The invariant holds of a job as the API creates it.
LEMMA InvInit == Init => IInv
<1> SUFFICES ASSUME Init PROVE IInv
  OBVIOUS
<1> USE ExportAssumption DEF Init, None
<1>1. pc \in [Attempt -> PC]
  BY DEF PC
<1>2. live \in BOOLEAN
  BY Zenon
<1>3. TypeOK
  BY <1>1, <1>2 DEF TypeOK, PC
<1> QED BY <1>3 DEF IInv, ClaimInv, PublishedByLatest

\* Every variable keeps its range; in particular no job is claimed more often
\* than its max_attempts (_claim).
THEOREM ExportTypeCorrect == Spec => []TypeOK
<1>1. IInv => TypeOK
  BY DEF IInv
<1> QED BY <1>1, InvInit, Inductive, PTL DEF Spec

\* Only the latest claim publishes its artifact (complete_if_owned), for every
\* number of attempts, pauses and lost answers.
THEOREM LatestPublishes == Spec => []PublishedByLatest
<1>1. IInv => PublishedByLatest
  BY DEF IInv
<1> QED BY <1>1, InvInit, Inductive, PTL DEF Spec

\* No step changes the row of a completed export: complete_if_owned and
\* record_failure_if_owned find it unowned, _claim and the reaper unclaimable.
LEMMA FinalStep ==
    IInv /\ [Next]_vars => (status = "COMPLETED" => UNCHANGED <<status, s3_key>>)
<1> SUFFICES ASSUME IInv, [Next]_vars, status = "COMPLETED"
             PROVE  UNCHANGED <<status, s3_key>>
  OBVIOUS
<1> USE DEF IInv
<1>1. CASE UNCHANGED vars
  BY <1>1 DEF vars, row
<1>2. CASE Reap \/ Claim \/ Expire
  BY <1>2 DEF Reap, Claim, Expire, Expired
<1>3. ASSUME NEW a \in Attempt, QuietStep(a) PROVE UNCHANGED <<status, s3_key>>
  BY <1>3, QuietSteps DEF row
<1>4. ASSUME NEW a \in Attempt, Publish(a) \/ PublishUnanswered(a) \/ RecordFailure(a)
      PROVE  UNCHANGED <<status, s3_key>>
  BY <1>4 DEF Publish, PublishUnanswered, PublishKey, RecordFailure, Owns, row
<1> QED BY <1>1, <1>2, <1>3, <1>4 DEF Next, Progress, Faulty, QuietStep

\* A completed export is final, however late the other attempts come
\* (complete_if_owned, record_failure_if_owned, reap_expired_exhausted_jobs).
THEOREM CompletedStays == Spec => CompletedIsFinal
BY InvInit, Inductive, FinalStep, PTL DEF Spec, CompletedIsFinal

\* Objects go only in the cleanup of their own attempt.
LEMMA ObjectStep ==
    [Next]_vars => ((s3_key \in objects \ objects') => pc[s3_key] = "cleanup")
<1> SUFFICES ASSUME [Next]_vars, s3_key \in objects, s3_key \notin objects'
             PROVE  pc[s3_key] = "cleanup"
  OBVIOUS
<1>1. PICK a \in Attempt : Cleanup(a)
  BY DEF Next, vars, row, Reap, Claim, Expire, Progress, Faulty, Generate, StartUpload,
     UploadEnds, UploadFails, Publish, PublishUnanswered, AttemptError, RecordFailure,
     RecordFails, CleanupFails, Crash, HeartbeatLost, HeartbeatError
<1> QED BY <1>1 DEF Cleanup

\* No attempt deletes the published object of another (_artifact_object_key).
THEOREM PublishedKept == Spec => PublishedIsKept
BY ObjectStep, PTL DEF Spec, PublishedIsKept
=============================================================================
