------------------------ MODULE ShardOwnershipProofs ------------------------
(***************************************************************************)
(* Safety of ShardOwnership for every set of workers and every bound on    *)
(* acquisitions and Redis restarts.                                        *)
(*                                                                         *)
(* The argument has two halves.  In PostgreSQL, the generation of the      *)
(* fence row only changes to one with a larger token and never while a     *)
(* persistence transaction is open, so the writer and every running        *)
(* generation stay behind it (FenceInv).  In a process, the supervisor     *)
(* starts a runtime only when none of its runtimes is running, and the     *)
(* bookkeeping names only the process' own generations (SupervisorInv).    *)
(***************************************************************************)
EXTENDS ShardOwnership, TLAPS

\* pc values at which a worker holds the claim of an unfinished acquisition.
Acquiring == {"leased", "registered", "starting", "releasing"}

\* A generation that exists has a positive token; one that does not is unused.
ClaimInv ==
    /\ \A g \in Gen :
         /\ g <= issued => token[g] > 0
         /\ g > issued => owner[g] = NoWorker /\ rt[g] = "none" /\ hb[g] = "off"
    /\ \A w \in Worker : active[w] <= issued

\* The row lock, the fence row and the latest write; pending registrations.
FenceInv ==
    /\ fence <= issued /\ lastWrite <= issued
    /\ OnlyFenceHolderWrites
    /\ lastWrite = fence \/ Tok(lastWrite) < Tok(fence)
    /\ \A w \in Worker :
         pc[w] \in {"registered", "starting"} => Registered(pending[w])
    /\ RunningIsRegistered

\* The claim of an unfinished acquisition is the worker's own.
PendingInv ==
    \A w \in Worker : pc[w] \in Acquiring =>
      pending[w] \in 1..issued /\ owner[pending[w]] = w

\* A worker that acquires, or that is not there, runs nothing.
QuietInv ==
    \A w \in Worker : pc[w] \in Acquiring \cup {"off"} =>
      \A g \in Gen : owner[g] = w => rt[g] # "RUNNING"

\* The heartbeat task a worker cancels at shutdown is its own.
HbTaskInv == \A w \in Worker : hbTask[w] # NoGen => owner[hbTask[w]] = w

\* Each process knows its own generations only, and runs at most one of them.
SupervisorInv ==
    /\ PendingInv
    /\ QuietInv
    /\ HbTaskInv
    /\ RunningIsActive
    /\ RunningIsSupervised

\* Every generation that exists has an owner.
OwnerInv == \A g \in Gen : g <= issued => owner[g] \in Worker

IInv == TypeOK /\ OwnerInv /\ ClaimInv /\ FenceInv /\ SupervisorInv

-----------------------------------------------------------------------------
USE OwnershipAssumption DEF Gen, NoGen

\* A step of the system keeps the variables in their ranges.
LEMMA TypeStep == TypeOK /\ [Next]_vars => TypeOK'
<1> SUFFICES ASSUME TypeOK, [Next]_vars PROVE TypeOK'
    OBVIOUS
<1> USE DEF TypeOK, RedisOK, ClaimOK, DbOK, SupOK, RtOK, PC, HB,
            redisVars, claimVars, dbVars, supVars, rtVars
<1>1. CASE Expire
    BY <1>1 DEF Expire
<1>2. CASE RedisLoss
  <2>1. RedisOK'
    BY <1>2 DEF RedisLoss
  <2>2. ClaimOK'
    BY <1>2 DEF RedisLoss
  <2>3. DbOK'
    BY <1>2 DEF RedisLoss
  <2>4. SupOK'
    BY <1>2 DEF RedisLoss
  <2>5. RtOK'
    BY <1>2 DEF RedisLoss
  <2>6. QED
    BY <2>1, <2>2, <2>3, <2>4, <2>5
<1>3. ASSUME NEW w \in Worker, Boot(w) PROVE TypeOK'
    BY <1>3 DEF Boot
<1>4. ASSUME NEW w \in Worker, AcquireLease(w) PROVE TypeOK'
  <2>1. RedisOK'
    BY <1>4 DEF AcquireLease, MayAcquire, AcquireScript
  <2>2. ClaimOK'
    <3>1. AcquireScript(w)
      BY <1>4 DEF AcquireLease
    <3>2. QED
      BY <3>1, SMTT(30) DEF AcquireScript
  <2>3. DbOK'
    BY <1>4 DEF AcquireLease, MayAcquire, AcquireScript
  <2>4. SupOK'
    <3>1. issued + 1 \in 0..MaxGen
      BY <1>4 DEF AcquireLease, AcquireScript
    <3>2. QED
      BY <1>4, <3>1 DEF AcquireLease
  <2>5. RtOK'
    BY <1>4 DEF AcquireLease, MayAcquire, AcquireScript
  <2>6. QED
    BY <2>1, <2>2, <2>3, <2>4, <2>5
<1>5. ASSUME NEW w \in Worker, AcquireReplyLost(w) PROVE TypeOK'
  <2>1. RedisOK'
    BY <1>5 DEF AcquireReplyLost, MayAcquire, AcquireScript
  <2>2. ClaimOK'
    BY <1>5, SMTT(30) DEF AcquireReplyLost, MayAcquire, AcquireScript
  <2>3. DbOK'
    BY <1>5 DEF AcquireReplyLost, MayAcquire, AcquireScript
  <2>4. SupOK'
    BY <1>5 DEF AcquireReplyLost, MayAcquire, AcquireScript
  <2>5. RtOK'
    BY <1>5 DEF AcquireReplyLost, MayAcquire, AcquireScript
  <2>6. QED
    BY <2>1, <2>2, <2>3, <2>4, <2>5
<1>6. ASSUME NEW w \in Worker, RegisterClaim(w) PROVE TypeOK'
  <2>1. RedisOK'
    BY <1>6 DEF RegisterClaim, RegisterAccepted, Tok
  <2>2. ClaimOK'
    BY <1>6 DEF RegisterClaim, RegisterAccepted, Tok
  <2>3. DbOK'
    BY <1>6 DEF RegisterClaim, RegisterAccepted, Tok
  <2>4. SupOK'
    BY <1>6 DEF RegisterClaim, RegisterAccepted, Tok
  <2>5. RtOK'
    BY <1>6 DEF RegisterClaim, RegisterAccepted, Tok
  <2>6. QED
    BY <2>1, <2>2, <2>3, <2>4, <2>5
<1>7. ASSUME NEW w \in Worker, ConfirmLease(w) PROVE TypeOK'
    BY <1>7 DEF ConfirmLease, HoldsLease
<1>8. ASSUME NEW w \in Worker, StartRuntime(w) PROVE TypeOK'
  <2>1. RedisOK'
    BY <1>8 DEF StartRuntime
  <2>2. ClaimOK'
    BY <1>8 DEF StartRuntime
  <2>3. DbOK'
    BY <1>8 DEF StartRuntime
  <2>4. SupOK'
    BY <1>8 DEF StartRuntime
  <2>5. RtOK'
    BY <1>8 DEF StartRuntime
  <2>6. QED
    BY <2>1, <2>2, <2>3, <2>4, <2>5
<1>9. ASSUME NEW w \in Worker, StartFails(w) PROVE TypeOK'
    BY <1>9 DEF StartFails
<1>10. ASSUME NEW w \in Worker, ReleaseLease(w) PROVE TypeOK'
  <2>1. RedisOK'
    BY <1>10 DEF ReleaseLease, ReleaseScript, HoldsLease
  <2>2. ClaimOK'
    BY <1>10 DEF ReleaseLease, ReleaseScript, HoldsLease
  <2>3. DbOK'
    BY <1>10 DEF ReleaseLease, ReleaseScript, HoldsLease
  <2>4. SupOK'
    BY <1>10 DEF ReleaseLease, ReleaseScript, HoldsLease
  <2>5. RtOK'
    BY <1>10 DEF ReleaseLease, ReleaseScript, HoldsLease
  <2>6. QED
    BY <2>1, <2>2, <2>3, <2>4, <2>5
<1>11. ASSUME NEW w \in Worker, ShutdownBegin(w) PROVE TypeOK'
  <2>1. RedisOK'
    BY <1>11 DEF ShutdownBegin
  <2>2. ClaimOK'
    BY <1>11 DEF ShutdownBegin
  <2>3. DbOK'
    BY <1>11 DEF ShutdownBegin
  <2>4. SupOK'
    BY <1>11 DEF ShutdownBegin
  <2>5. RtOK'
    BY <1>11 DEF ShutdownBegin
  <2>6. QED
    BY <2>1, <2>2, <2>3, <2>4, <2>5
<1>12. ASSUME NEW w \in Worker, ShutdownFence(w) PROVE TypeOK'
    BY <1>12 DEF ShutdownFence
<1>13. ASSUME NEW w \in Worker, ShutdownRelease(w) PROVE TypeOK'
  <2>1. RedisOK'
    BY <1>13 DEF ShutdownRelease, ReleaseScript, HoldsLease, ProcessEnds
  <2>2. ClaimOK'
    BY <1>13 DEF ShutdownRelease, ReleaseScript, HoldsLease, ProcessEnds
  <2>3. DbOK'
    BY <1>13 DEF ShutdownRelease, ReleaseScript, HoldsLease, ProcessEnds
  <2>4. SupOK'
    BY <1>13 DEF ShutdownRelease, ReleaseScript, HoldsLease, ProcessEnds
  <2>5. RtOK'
    BY <1>13 DEF ShutdownRelease, ReleaseScript, HoldsLease, ProcessEnds
  <2>6. QED
    BY <2>1, <2>2, <2>3, <2>4, <2>5
<1>14. ASSUME NEW w \in Worker, Crash(w) PROVE TypeOK'
  <2>1. RedisOK'
    BY <1>14 DEF Crash, ProcessEnds
  <2>2. ClaimOK'
    BY <1>14 DEF Crash, ProcessEnds
  <2>3. DbOK'
    BY <1>14 DEF Crash, ProcessEnds
  <2>4. SupOK'
    BY <1>14 DEF Crash, ProcessEnds
  <2>5. RtOK'
    BY <1>14 DEF Crash, ProcessEnds
  <2>6. QED
    BY <2>1, <2>2, <2>3, <2>4, <2>5
<1>15. ASSUME NEW g \in Gen, HbWake(g) PROVE TypeOK'
    BY <1>15 DEF HbWake, Beating, isRunning
<1>16. ASSUME NEW g \in Gen, HbRenew(g) PROVE TypeOK'
    BY <1>16 DEF HbRenew, HoldsLease
<1>17. ASSUME NEW g \in Gen, HbFence(g) PROVE TypeOK'
  <2>1. RedisOK'
    BY <1>17 DEF HbFence
  <2>2. ClaimOK'
    BY <1>17 DEF HbFence
  <2>3. DbOK'
    BY <1>17 DEF HbFence
  <2>4. SupOK'
    BY <1>17 DEF HbFence
  <2>5. RtOK'
    BY <1>17 DEF HbFence
  <2>6. QED
    BY <2>1, <2>2, <2>3, <2>4, <2>5
<1>18. ASSUME NEW g \in Gen, HbStop(g) PROVE TypeOK'
    BY <1>18 DEF HbStop
<1>19. ASSUME NEW g \in Gen, FenceSelf(g) PROVE TypeOK'
    BY <1>19 DEF FenceSelf
<1>20. ASSUME NEW g \in Gen, TxnOpen(g) PROVE TypeOK'
    BY <1>20 DEF TxnOpen
<1>21. ASSUME NEW g \in Gen, TxnRejected(g) PROVE TypeOK'
    BY <1>21 DEF TxnRejected
<1>22. ASSUME NEW g \in Gen, TxnSendCommit(g) PROVE TypeOK'
    BY <1>22 DEF TxnSendCommit
<1>23. ASSUME NEW g \in Gen, TxnCommit(g) PROVE TypeOK'
    BY <1>23 DEF TxnCommit
<1>24. ASSUME NEW g \in Gen, TxnAbort(g) PROVE TypeOK'
    BY <1>24, SMTT(30) DEF TxnAbort
<1>25. CASE UNCHANGED vars
    BY <1>25 DEF vars
<1>26. QED
    BY <1>1, <1>2, <1>3, <1>4, <1>5, <1>6, <1>7, <1>8, <1>9, <1>10, <1>11, <1>12, <1>13, <1>14, <1>15, <1>16, <1>17, <1>18, <1>19, <1>20, <1>21, <1>22, <1>23, <1>24, <1>25 DEF Next

\* A new generation gets a positive token; the others keep theirs.
LEMMA AcquireClaims ==
    ASSUME IInv, NEW w \in Worker, AcquireScript(w), UNCHANGED <<active, rtVars>>
    PROVE  ClaimInv'
<1> USE DEF IInv, ClaimInv, TypeOK, RedisOK, ClaimOK, SupOK, rtVars
<1>1. /\ issued + 1 \in Gen
      /\ issued' = issued + 1
      /\ counter \in Nat
      /\ token' = [token EXCEPT ![issued + 1] = counter + 1]
      /\ owner' = [owner EXCEPT ![issued + 1] = w]
  BY DEF AcquireScript
<1>2. \A g \in Gen : g <= issued' => token'[g] > 0
  <2> SUFFICES ASSUME NEW g \in Gen, g <= issued' PROVE token'[g] > 0
      OBVIOUS
  <2>1. CASE g = issued + 1
    BY <1>1, <2>1
  <2>2. CASE g # issued + 1
    BY <1>1, <2>2
  <2>3. QED
    BY <2>1, <2>2
<1>3. \A g \in Gen : g > issued' =>
        owner'[g] = NoWorker /\ rt'[g] = "none" /\ hb'[g] = "off"
  BY <1>1, SMTT(30)
<1>4. \A v \in Worker : active'[v] <= issued'
  BY <1>1, SMTT(30)
<1>5. QED
  BY <1>2, <1>3, <1>4

\* A step keeps unused generations unused and tokens positive.
LEMMA ClaimStep == IInv /\ [Next]_vars => ClaimInv'
<1> SUFFICES ASSUME IInv, [Next]_vars PROVE ClaimInv'
    OBVIOUS
<1> USE DEF IInv, ClaimInv, SupervisorInv, PendingInv, HbTaskInv, Acquiring,
            TypeOK, RedisOK, ClaimOK, DbOK, SupOK, RtOK, PC, HB,
            redisVars, claimVars, dbVars, supVars, rtVars
<1>1. CASE Expire
  BY <1>1 DEF Expire
<1>2. CASE RedisLoss
  BY <1>2 DEF RedisLoss
<1>3. ASSUME NEW w \in Worker, Boot(w)
     PROVE  ClaimInv'
  BY <1>3 DEF Boot
<1>4. ASSUME NEW w \in Worker, AcquireLease(w)
     PROVE  ClaimInv'
  <2>1. AcquireScript(w) /\ UNCHANGED <<active, rtVars>>
    BY <1>4 DEF AcquireLease
  <2>2. QED
    BY <2>1, AcquireClaims
<1>5. ASSUME NEW w \in Worker, AcquireReplyLost(w)
     PROVE  ClaimInv'
  <2>1. AcquireScript(w) /\ UNCHANGED <<active, rtVars>>
    BY <1>5 DEF AcquireReplyLost
  <2>2. QED
    BY <2>1, AcquireClaims
<1>6. ASSUME NEW w \in Worker, RegisterClaim(w)
     PROVE  ClaimInv'
  BY <1>6 DEF RegisterClaim, RegisterAccepted, Tok
<1>7. ASSUME NEW w \in Worker, ConfirmLease(w)
     PROVE  ClaimInv'
  BY <1>7 DEF ConfirmLease, HoldsLease
<1>8. ASSUME NEW w \in Worker, StartRuntime(w)
     PROVE  ClaimInv'
  BY <1>8 DEF StartRuntime
<1>9. ASSUME NEW w \in Worker, StartFails(w)
     PROVE  ClaimInv'
  BY <1>9 DEF StartFails
<1>10. ASSUME NEW w \in Worker, ReleaseLease(w)
     PROVE  ClaimInv'
  BY <1>10 DEF ReleaseLease, ReleaseScript, HoldsLease
<1>11. ASSUME NEW w \in Worker, ShutdownBegin(w)
     PROVE  ClaimInv'
  <2>1. ASSUME NEW g \in Gen, g > issued PROVE g # hbTask[w]
    <3>1. owner[g] = NoWorker
      BY <2>1
    <3>2. g # NoGen /\ w # NoWorker
      OBVIOUS
    <3>3. hbTask[w] # NoGen => owner[hbTask[w]] = w
      OBVIOUS
    <3>4. QED
      BY ONLY <3>1, <3>2, <3>3
  <2>2. QED
    BY <1>11, <2>1 DEF ShutdownBegin
<1>12. ASSUME NEW w \in Worker, ShutdownFence(w)
     PROVE  ClaimInv'
  BY <1>12 DEF ShutdownFence
<1>13. ASSUME NEW w \in Worker, ShutdownRelease(w)
     PROVE  ClaimInv'
  BY <1>13 DEF ShutdownRelease, ReleaseScript, HoldsLease, ProcessEnds
<1>14. ASSUME NEW w \in Worker, Crash(w)
     PROVE  ClaimInv'
  BY <1>14 DEF Crash, ProcessEnds
<1>15. ASSUME NEW g \in Gen, HbWake(g)
     PROVE  ClaimInv'
  BY <1>15, SMTT(30) DEF HbWake, Beating, isRunning
<1>16. ASSUME NEW g \in Gen, HbRenew(g)
     PROVE  ClaimInv'
  BY <1>16 DEF HbRenew, HoldsLease
<1>17. ASSUME NEW g \in Gen, HbFence(g)
     PROVE  ClaimInv'
  BY <1>17 DEF HbFence
<1>18. ASSUME NEW g \in Gen, HbStop(g)
     PROVE  ClaimInv'
  BY <1>18 DEF HbStop
<1>19. ASSUME NEW g \in Gen, FenceSelf(g)
     PROVE  ClaimInv'
  BY <1>19 DEF FenceSelf
<1>20. ASSUME NEW g \in Gen, TxnOpen(g)
     PROVE  ClaimInv'
  BY <1>20 DEF TxnOpen
<1>21. ASSUME NEW g \in Gen, TxnRejected(g)
     PROVE  ClaimInv'
  BY <1>21 DEF TxnRejected
<1>22. ASSUME NEW g \in Gen, TxnSendCommit(g)
     PROVE  ClaimInv'
  BY <1>22 DEF TxnSendCommit
<1>23. ASSUME NEW g \in Gen, TxnCommit(g)
     PROVE  ClaimInv'
  BY <1>23 DEF TxnCommit
<1>24. ASSUME NEW g \in Gen, TxnAbort(g)
     PROVE  ClaimInv'
  BY <1>24 DEF TxnAbort
<1>25. CASE UNCHANGED vars
  BY <1>25 DEF vars
<1>26. QED
  BY <1>1, <1>2, <1>3, <1>4, <1>5, <1>6, <1>7, <1>8, <1>9, <1>10, <1>11, <1>12, <1>13, <1>14, <1>15, <1>16, <1>17, <1>18, <1>19, <1>20, <1>21, <1>22, <1>23, <1>24, <1>25 DEF Next

\* A new generation leaves the tokens of the fence row, of the writer and of
\* the registered generations alone.
LEMMA AcquireFence ==
    ASSUME IInv, NEW w \in Worker, AcquireScript(w), UNCHANGED <<dbVars, rt>>,
           \A v \in Worker : pc'[v] \in {"registered", "starting"} =>
             pc[v] = pc'[v] /\ pending[v] = pending'[v]
    PROVE  FenceInv'
<1> USE DEF IInv, FenceInv, OnlyFenceHolderWrites, RunningIsRegistered,
            Registered, Tok, ClaimInv, SupervisorInv, PendingInv, HbTaskInv, Acquiring,
            TypeOK, RedisOK, ClaimOK, DbOK, SupOK, RtOK, dbVars
<1>1. issued' = issued + 1 /\ \A g \in 1..issued : token'[g] = token[g]
  BY DEF AcquireScript
<1>2. ASSUME NEW g \in 0..issued PROVE Tok(g)' = Tok(g)
  <2>1. CASE g = 0
    BY <2>1
  <2>2. CASE g \in 1..issued
    BY <1>1, <2>2
  <2>3. QED
    BY <2>1, <2>2, SMTT(30)
<1>3. \A g \in 1..issued : Registered(g) => Registered(g)'
  BY <1>1, <1>2, SMTT(30)
<1>4. ASSUME NEW g \in Gen, rt[g] = "RUNNING" PROVE g \in 1..issued
  <2>1. issued \in Nat /\ ~(g > issued)
    BY ONLY <1>4, IInv, OwnershipAssumption, g \in Gen
       DEF IInv, ClaimInv, TypeOK, ClaimOK, Gen
  <2>2. QED
    BY ONLY <2>1, OwnershipAssumption, g \in Gen DEF Gen
<1>5. \A v \in Worker : pc[v] \in {"registered", "starting"} =>
        pending[v] \in 1..issued
  OBVIOUS
<1>6. \A v \in Worker : pc'[v] \in {"registered", "starting"} =>
        Registered(pending[v])'
  BY <1>3, <1>5
<1>7. RunningIsRegistered'
  BY <1>3, <1>4
<1>8. lastWrite' = fence' \/ Tok(lastWrite)' < Tok(fence)'
  BY <1>2, SMTT(30)
<1>9. QED
  BY <1>1, <1>6, <1>7, <1>8

\* A step keeps the writer and the running generations behind the fence row.
LEMMA FenceStep == IInv /\ [Next]_vars => FenceInv'
<1> SUFFICES ASSUME IInv, [Next]_vars PROVE FenceInv'
    OBVIOUS
<1> USE DEF IInv, FenceInv, OnlyFenceHolderWrites, RunningIsRegistered,
            Registered, Tok, ClaimInv, SupervisorInv, PendingInv, HbTaskInv, Acquiring,
            TypeOK, RedisOK, ClaimOK, DbOK, SupOK, RtOK, PC, HB,
            redisVars, claimVars, dbVars, supVars, rtVars
<1>1. CASE Expire
  BY <1>1 DEF Expire
<1>2. CASE RedisLoss
  BY <1>2 DEF RedisLoss
<1>3. ASSUME NEW w \in Worker, Boot(w)
     PROVE  FenceInv'
  BY <1>3 DEF Boot
<1>4. ASSUME NEW w \in Worker, AcquireLease(w)
     PROVE  FenceInv'
  <2>1. /\ AcquireScript(w) /\ UNCHANGED <<dbVars, rt>>
        /\ \A v \in Worker : pc'[v] \in {"registered", "starting"} =>
             pc[v] = pc'[v] /\ pending[v] = pending'[v]
    <3>1. \A v \in Worker : pc'[v] \in {"registered", "starting"} =>
            pc[v] = pc'[v] /\ pending[v] = pending'[v]
      BY <1>4 DEF AcquireLease
    <3>2. QED
      BY <1>4, <3>1 DEF AcquireLease
  <2>2. QED
    BY <2>1, AcquireFence
<1>5. ASSUME NEW w \in Worker, AcquireReplyLost(w)
     PROVE  FenceInv'
  <2>1. /\ AcquireScript(w) /\ UNCHANGED <<dbVars, rt>>
        /\ \A v \in Worker : pc'[v] \in {"registered", "starting"} =>
             pc[v] = pc'[v] /\ pending[v] = pending'[v]
    BY <1>5 DEF AcquireReplyLost
  <2>2. QED
    BY <2>1, AcquireFence
<1>6. ASSUME NEW w \in Worker, RegisterClaim(w)
     PROVE  FenceInv'
  <2> DEFINE h == pending[w]
  <2>1. /\ h \in 1..issued /\ h \in Gen
        /\ \A g \in Gen : txn[g] = "none"
        /\ UNCHANGED <<token, issued, rowLock, txn, lastWrite, pending, rt>>
    BY <1>6 DEF RegisterClaim
  <2>0. \A g \in Gen : token[g] \in Nat
    OBVIOUS
  <2>2. CASE RegisterAccepted(h) /\ fence' = h
    <3>1. fence = h \/ Tok(fence) < token[h]
      BY <2>2 DEF RegisterAccepted
    <3>0. Tok(fence) \in Nat /\ Tok(lastWrite) \in Nat
      BY <2>0
    <3>a. Tok(fence)' = token[h] /\ Tok(lastWrite)' = Tok(lastWrite)
      BY <2>1, <2>2
    <3>2. ASSUME NEW g \in Gen, Registered(g) PROVE Registered(g)'
      <4>1. CASE fence = h
        BY <2>1, <2>2, <3>2, <4>1
      <4>2. CASE Tok(fence) < token[h]
        <5>1. token[g] <= Tok(fence)
          BY <3>2, <2>0, SMTT(30)
        <5>2. token'[g] < Tok(fence)'
          BY ONLY <2>0, <2>1, <3>0, <3>a, <4>2, <5>1, g \in Gen
        <5>3. QED
          BY <5>2
      <4>3. QED
        BY <3>1, <4>1, <4>2
    <3>3. lastWrite = fence' \/ Tok(lastWrite)' < Tok(fence)'
      <4>1. lastWrite = fence \/ Tok(lastWrite) < Tok(fence)
        OBVIOUS
      <4>2. QED
        BY ONLY <2>0, <2>1, <2>2, <3>0, <3>a, <3>1, <4>1
    <3>4. ASSUME NEW v \in Worker, pc'[v] \in {"registered", "starting"}
          PROVE  Registered(pending[v])'
      <4>1. CASE v = w
        BY <2>1, <2>2, <4>1
      <4>2. CASE v # w
        <5>1. pc[v] \in {"registered", "starting"}
          BY <1>6, <3>4, <4>2, SMTT(30) DEF RegisterClaim
        <5>2. pending[v] \in Gen /\ Registered(pending[v])
          BY <5>1
        <5>3. QED
          <6>1. PICK k \in Gen : k = pending[v]
            BY <5>2
          <6>2. Registered(k)'
            BY ONLY <3>2, <5>2, <6>1
          <6>3. pending'[v] = k
            BY <2>1, <6>1
          <6>4. QED
            BY <6>2, <6>3
      <4>3. QED
        BY <4>1, <4>2
    <3>5. QED
      BY <2>1, <2>2, <3>2, <3>3, <3>4, SMTT(30)
  <2>3. CASE UNCHANGED fence /\ pc' = [pc EXCEPT ![w] = "releasing"]
    BY <2>1, <2>3
  <2>4. QED
    BY <1>6, <2>2, <2>3 DEF RegisterClaim
<1>7. ASSUME NEW w \in Worker, ConfirmLease(w)
     PROVE  FenceInv'
  <2>1. \A v \in Worker : pc'[v] \in {"registered", "starting"} =>
          pc[v] \in {"registered", "starting"}
    <3>1. \/ pc' = [pc EXCEPT ![w] = "starting"]
          \/ pc' = [pc EXCEPT ![w] = "releasing"]
      BY <1>7 DEF ConfirmLease
    <3>2. pc[w] = "registered"
      BY <1>7 DEF ConfirmLease
    <3>3. QED
      BY <3>1, <3>2, SMTT(30)
  <2>2. QED
    BY <1>7, <2>1 DEF ConfirmLease
<1>8. ASSUME NEW w \in Worker, StartRuntime(w)
     PROVE  FenceInv'
  <2>1. \A v \in Worker : pc'[v] \in {"registered", "starting"} =>
          pc[v] \in {"registered", "starting"} /\ pending'[v] = pending[v]
    BY <1>8 DEF StartRuntime
  <2>2. \A g \in Gen : rt'[g] = "RUNNING" => rt[g] = "RUNNING" \/ g = pending[w]
    BY <1>8 DEF StartRuntime
  <2>3. Registered(pending[w])
    BY <1>8 DEF StartRuntime
  <2>4. RunningIsRegistered'
    BY <1>8, <2>2, <2>3, SMTT(30) DEF StartRuntime
  <2>5. \A v \in Worker : pc'[v] \in {"registered", "starting"} =>
          Registered(pending[v])'
    BY <1>8, <2>1 DEF StartRuntime
  <2>6. UNCHANGED <<issued, token, dbVars>>
    BY <1>8 DEF StartRuntime
  <2>7. QED
    BY <2>4, <2>5, <2>6
<1>9. ASSUME NEW w \in Worker, StartFails(w)
     PROVE  FenceInv'
  BY <1>9 DEF StartFails
<1>10. ASSUME NEW w \in Worker, ReleaseLease(w)
     PROVE  FenceInv'
  BY <1>10 DEF ReleaseLease, ReleaseScript, HoldsLease
<1>11. ASSUME NEW w \in Worker, ShutdownBegin(w)
     PROVE  FenceInv'
  BY <1>11 DEF ShutdownBegin
<1>12. ASSUME NEW w \in Worker, ShutdownFence(w)
     PROVE  FenceInv'
  BY <1>12, SMTT(30) DEF ShutdownFence
<1>13. ASSUME NEW w \in Worker, ShutdownRelease(w)
     PROVE  FenceInv'
  BY <1>13 DEF ShutdownRelease, ReleaseScript, HoldsLease, ProcessEnds
<1>14. ASSUME NEW w \in Worker, Crash(w)
     PROVE  FenceInv'
  <2>1. \A v \in Worker : pc'[v] \in {"registered", "starting"} =>
          pc[v] = pc'[v] /\ pending'[v] = pending[v]
    BY <1>14 DEF Crash, ProcessEnds
  <2>2. \A g \in Gen : rt'[g] = "RUNNING" => rt[g] = "RUNNING"
    BY <1>14 DEF Crash, ProcessEnds
  <2>3. QED
    BY <1>14, <2>1, <2>2 DEF Crash
<1>15. ASSUME NEW g \in Gen, HbWake(g)
     PROVE  FenceInv'
  BY <1>15 DEF HbWake, Beating, isRunning
<1>16. ASSUME NEW g \in Gen, HbRenew(g)
     PROVE  FenceInv'
  BY <1>16 DEF HbRenew, HoldsLease
<1>17. ASSUME NEW g \in Gen, HbFence(g)
     PROVE  FenceInv'
  BY <1>17 DEF HbFence
<1>18. ASSUME NEW g \in Gen, HbStop(g)
     PROVE  FenceInv'
  BY <1>18 DEF HbStop
<1>19. ASSUME NEW g \in Gen, FenceSelf(g)
     PROVE  FenceInv'
  BY <1>19 DEF FenceSelf
<1>20. ASSUME NEW g \in Gen, TxnOpen(g)
     PROVE  FenceInv'
  BY <1>20 DEF TxnOpen
<1>21. ASSUME NEW g \in Gen, TxnRejected(g)
     PROVE  FenceInv'
  BY <1>21 DEF TxnRejected
<1>22. ASSUME NEW g \in Gen, TxnSendCommit(g)
     PROVE  FenceInv'
  BY <1>22 DEF TxnSendCommit
<1>23. ASSUME NEW g \in Gen, TxnCommit(g)
     PROVE  FenceInv'
  BY <1>23 DEF TxnCommit
<1>24. ASSUME NEW g \in Gen, TxnAbort(g)
     PROVE  FenceInv'
  BY <1>24 DEF TxnAbort
<1>25. CASE UNCHANGED vars
  BY <1>25 DEF vars
<1>26. QED
  BY <1>1, <1>2, <1>3, <1>4, <1>5, <1>6, <1>7, <1>8, <1>9, <1>10, <1>11, <1>12, <1>13, <1>14, <1>15, <1>16, <1>17, <1>18, <1>19, <1>20, <1>21, <1>22, <1>23, <1>24, <1>25 DEF Next

\* A running generation exists, so it has an owner.
LEMMA RunningExists ==
    ASSUME IInv, NEW g \in Gen, rt[g] = "RUNNING"
    PROVE  owner[g] \in Worker
<1>1. issued \in Nat /\ g \in Nat
  BY DEF IInv, TypeOK, ClaimOK
<1>2. ~(g > issued)
  BY DEF IInv, ClaimInv
<1>3. QED
  BY <1>1, <1>2 DEF IInv, OwnerInv

\* While an acquisition goes through its steps nothing else changes.
LEMMA AcquisitionMoves ==
    ASSUME IInv, NEW w \in Worker, NEW q \in Acquiring \cup {"idle"},
           pc[w] \in Acquiring, pc' = [pc EXCEPT ![w] = q],
           \A v \in Worker : pc'[v] \in Acquiring => pending'[v] = pending[v],
           UNCHANGED <<issued, owner, active, hbTask, rtVars>>
    PROVE  SupervisorInv'
<1>1. pc \in [Worker -> PC]
  BY DEF IInv, TypeOK, SupOK
<1>2. \A v \in Worker :
        /\ pc'[v] \in Acquiring => pc[v] \in Acquiring
        /\ pc'[v] = "off" => pc[v] = "off"
        /\ isRunning(v)' => isRunning(v)
  BY <1>1 DEF Acquiring, isRunning
<1>3. PendingInv'
  BY <1>2 DEF IInv, SupervisorInv, PendingInv
<1>4. QuietInv'
  BY <1>2 DEF IInv, SupervisorInv, QuietInv, rtVars
<1>5. HbTaskInv' /\ RunningIsActive'
  BY DEF IInv, SupervisorInv, HbTaskInv, RunningIsActive, rtVars
<1>6. RunningIsSupervised'
  <2> SUFFICES ASSUME NEW g \in Gen, rt'[g] = "RUNNING", isRunning(owner[g])'
               PROVE  hb'[g] \in {"sleeping", "renewing", "lost"}
      BY DEF RunningIsSupervised
  <2>1. owner[g] \in Worker /\ owner'[g] = owner[g] /\ rt[g] = "RUNNING"
    BY RunningExists DEF rtVars
  <2>2. isRunning(owner[g])
    BY <1>2, <2>1 DEF isRunning
  <2>3. QED
    BY <2>1, <2>2 DEF IInv, SupervisorInv, RunningIsSupervised, rtVars
<1>7. QED
  BY <1>3, <1>4, <1>5, <1>6 DEF SupervisorInv

\* A new generation belongs to the worker that created it and does not run.
LEMMA AcquireSupervisor ==
    ASSUME IInv, NEW w \in Worker, AcquireScript(w), pc[w] = "idle",
           \A g \in Gen : owner[g] = w => rt[g] # "RUNNING",
           \A v \in Worker : pc'[v] \in Acquiring =>
             \/ pc[v] \in Acquiring /\ pending'[v] = pending[v]
             \/ v = w /\ pending'[v] = issued',
           pc' = pc \/ pc' = [pc EXCEPT ![w] = "leased"],
           UNCHANGED <<active, hbTask, rtVars>>
    PROVE  SupervisorInv'
<1> DEFINE n == issued + 1
<1>1. /\ n \in Gen /\ n > issued /\ issued' = n /\ issued \in Nat
      /\ owner \in [Gen -> Worker \cup {NoWorker}]
      /\ owner' = [owner EXCEPT ![n] = w]
      /\ owner[n] = NoWorker /\ rt[n] = "none"
      /\ w # NoWorker
  BY DEF AcquireScript, IInv, TypeOK, ClaimOK, ClaimInv
<1>2. \A v \in Worker :
        /\ pc'[v] = "off" => pc[v] = "off"
        /\ isRunning(v)' => isRunning(v)
  BY DEF IInv, TypeOK, SupOK, isRunning
<1> HIDE DEF n
<1>3. /\ owner'[n] = w
      /\ \A g \in Gen : g # n => owner'[g] = owner[g]
  BY <1>1
<1>4. PendingInv'
  <2> SUFFICES ASSUME NEW v \in Worker, pc'[v] \in Acquiring
               PROVE  pending'[v] \in 1..n /\ owner'[pending'[v]] = v
      BY <1>1 DEF PendingInv
  <2>1. CASE pc[v] \in Acquiring /\ pending'[v] = pending[v]
    <3>1. pending[v] \in 1..issued /\ owner[pending[v]] = v
      BY <2>1 DEF IInv, SupervisorInv, PendingInv
    <3>2. pending[v] \in Gen /\ pending[v] # n /\ pending[v] \in 1..n
      BY <1>1, <3>1 DEF n
    <3>3. QED
      BY <2>1, <3>1, <3>2, <1>3
  <2>2. CASE v = w /\ pending'[v] = issued'
    BY <1>1, <1>3, <2>2
  <2>3. QED
    BY <2>1, <2>2
<1>5. QuietInv'
  <2> SUFFICES ASSUME NEW v \in Worker, pc'[v] \in Acquiring \cup {"off"},
                      NEW g \in Gen, owner'[g] = v
               PROVE  rt[g] # "RUNNING"
      BY DEF QuietInv, rtVars
  <2>1. CASE g = n
    BY <1>1, <2>1
  <2>2. CASE g # n
    <3>1. owner[g] = v
      BY <1>3, <2>2
    <3>2. pc[v] \in Acquiring \cup {"off"} \/ v = w
      BY <1>2
    <3>3. QED
      BY <3>1, <3>2 DEF IInv, SupervisorInv, QuietInv
  <2>3. QED
    BY <2>1, <2>2
<1>6. HbTaskInv'
  <2> SUFFICES ASSUME NEW v \in Worker, hbTask[v] # NoGen
               PROVE  owner'[hbTask[v]] = v
      BY DEF HbTaskInv
  <2>1. owner[hbTask[v]] = v /\ hbTask[v] \in Gen /\ v # NoWorker
    BY DEF IInv, TypeOK, SupOK, SupervisorInv, HbTaskInv
  <2>2. QED
    BY <1>1, <1>3, <2>1
<1>7. ASSUME NEW g \in Gen, rt'[g] = "RUNNING"
      PROVE  rt[g] = "RUNNING" /\ owner'[g] = owner[g] /\ owner[g] \in Worker
  <2>1. rt[g] = "RUNNING" /\ g # n
    BY <1>1, <1>7 DEF rtVars
  <2>2. owner[g] \in Worker
    BY <2>1, RunningExists
  <2>3. QED
    BY <1>1, <1>3, <2>1, <2>2
<1>8. RunningIsActive'
  BY <1>7 DEF IInv, SupervisorInv, RunningIsActive
<1>9. RunningIsSupervised'
  <2> SUFFICES ASSUME NEW g \in Gen, rt'[g] = "RUNNING", isRunning(owner[g])'
               PROVE  hb'[g] \in {"sleeping", "renewing", "lost"}
      BY DEF RunningIsSupervised
  <2>1. isRunning(owner[g])
    BY <1>2, <1>7 DEF isRunning
  <2>2. QED
    BY <1>7, <2>1 DEF IInv, SupervisorInv, RunningIsSupervised, rtVars
<1>10. QED
  BY <1>4, <1>5, <1>6, <1>8, <1>9 DEF SupervisorInv

\* A step keeps the bookkeeping of every process about its own generations.
LEMMA SupervisorStep == IInv /\ [Next]_vars => SupervisorInv'
<1> SUFFICES ASSUME IInv, [Next]_vars PROVE SupervisorInv'
    OBVIOUS
<1> USE DEF IInv, SupervisorInv, PendingInv, QuietInv, HbTaskInv,
            RunningIsActive, RunningIsSupervised, isRunning, ClaimInv, Acquiring,
            TypeOK, RedisOK, ClaimOK, DbOK, SupOK, RtOK, PC, HB,
            redisVars, claimVars, dbVars, supVars, rtVars
<1>1. CASE Expire
  BY <1>1 DEF Expire
<1>2. CASE RedisLoss
  BY <1>2 DEF RedisLoss
<1>3. ASSUME NEW w \in Worker, Boot(w)
     PROVE  SupervisorInv'
  BY <1>3 DEF Boot
<1>4. ASSUME NEW w \in Worker, AcquireLease(w)
     PROVE  SupervisorInv'
  <2>1. \A g \in Gen : owner[g] = w => rt[g] # "RUNNING"
    BY <1>4 DEF AcquireLease, MayAcquire
  <2>2. \A v \in Worker : pc'[v] \in Acquiring =>
          \/ pc[v] \in Acquiring /\ pending'[v] = pending[v]
          \/ v = w /\ pending'[v] = issued'
    BY <1>4 DEF AcquireLease, AcquireScript
  <2>3. QED
    BY <1>4, <2>1, <2>2, AcquireSupervisor DEF AcquireLease, MayAcquire
<1>5. ASSUME NEW w \in Worker, AcquireReplyLost(w)
     PROVE  SupervisorInv'
  <2>1. \A g \in Gen : owner[g] = w => rt[g] # "RUNNING"
    BY <1>5 DEF AcquireReplyLost, MayAcquire
  <2>2. QED
    BY <1>5, <2>1, AcquireSupervisor DEF AcquireReplyLost, MayAcquire
<1>6. ASSUME NEW w \in Worker, RegisterClaim(w)
     PROVE  SupervisorInv'
  <2>1. PICK q \in Acquiring : pc' = [pc EXCEPT ![w] = q]
    BY <1>6 DEF RegisterClaim
  <2>2. QED
    BY <1>6, <2>1, AcquisitionMoves DEF RegisterClaim
<1>7. ASSUME NEW w \in Worker, ConfirmLease(w)
     PROVE  SupervisorInv'
  <2>1. PICK q \in Acquiring : pc' = [pc EXCEPT ![w] = q]
    BY <1>7 DEF ConfirmLease
  <2>2. QED
    BY <1>7, <2>1, AcquisitionMoves DEF ConfirmLease
<1>8. ASSUME NEW w \in Worker, StartRuntime(w)
     PROVE  SupervisorInv'
  <2>1. PendingInv'
    BY <1>8 DEF StartRuntime
  <2>2. QuietInv'
    <3> SUFFICES ASSUME NEW v \in Worker, pc'[v] \in Acquiring \cup {"off"},
                        NEW g \in Gen, owner[g] = v
                 PROVE  rt'[g] # "RUNNING"
        BY <1>8, SMTT(30) DEF StartRuntime
    <3>1. v # w /\ pc[v] = pc'[v]
      BY <1>8 DEF StartRuntime
    <3>2. g # pending[w] /\ rt[g] # "RUNNING"
      <4>1. owner[pending[w]] = w
        BY <1>8 DEF StartRuntime
      <4>2. rt[g] # "RUNNING"
        BY ONLY IInv, <3>1, owner[g] = v, g \in Gen, v \in Worker,
                pc'[v] \in Acquiring \cup {"off"}
           DEF IInv, SupervisorInv, QuietInv
      <4>3. QED
        BY ONLY <3>1, <4>1, <4>2, owner[g] = v
    <3>3. QED
      BY <1>8, <3>2 DEF StartRuntime
  <2>3. HbTaskInv'
    BY <1>8, SMTT(30) DEF StartRuntime
  <2>4. RunningIsActive'
    BY <1>8, SMTT(30) DEF StartRuntime
  <2>5. RunningIsSupervised'
    BY <1>8, SMTT(30) DEF StartRuntime
  <2>6. QED
    BY <2>1, <2>2, <2>3, <2>4, <2>5
<1>9. ASSUME NEW w \in Worker, StartFails(w)
     PROVE  SupervisorInv'
  BY <1>9, AcquisitionMoves DEF StartFails
<1>10. ASSUME NEW w \in Worker, ReleaseLease(w)
     PROVE  SupervisorInv'
  <2>1. \A v \in Worker : pc'[v] \in Acquiring => pending'[v] = pending[v]
    BY <1>10 DEF ReleaseLease
  <2>2. QED
    BY <1>10, <2>1, AcquisitionMoves DEF ReleaseLease
<1>11. ASSUME NEW w \in Worker, ShutdownBegin(w)
     PROVE  SupervisorInv'
  <2>1. PendingInv'
    BY <1>11 DEF ShutdownBegin
  <2>2. QuietInv'
    BY <1>11, SMTT(30) DEF ShutdownBegin
  <2>3. HbTaskInv'
    BY <1>11 DEF ShutdownBegin
  <2>4. RunningIsActive'
    BY <1>11 DEF ShutdownBegin
  <2>5. RunningIsSupervised'
    <3> SUFFICES ASSUME NEW g \in Gen, rt[g] = "RUNNING", isRunning(owner[g])'
                 PROVE  hb'[g] \in {"sleeping", "renewing", "lost"}
        BY <1>11 DEF ShutdownBegin
    <3>1. owner[g] \in Worker /\ owner[g] # w /\ isRunning(owner[g])
      <4>1. owner[g] \in Worker
        BY ONLY IInv, g \in Gen, rt[g] = "RUNNING", RunningExists
      <4>2. /\ pc \in [Worker -> PC] /\ pc' = [pc EXCEPT ![w] = "fencing"]
            /\ owner' = owner
        BY <1>11 DEF ShutdownBegin
      <4>3. QED
        BY ONLY <4>1, <4>2, w \in Worker, isRunning(owner[g])' DEF isRunning
    <3>2. g # hbTask[w]
      <4>1. g # NoGen
        OBVIOUS
      <4>2. hbTask[w] # NoGen => owner[hbTask[w]] = w
        OBVIOUS
      <4>3. QED
        BY ONLY <3>1, <4>1, <4>2
    <3>3. QED
      BY <1>11, <3>1, <3>2 DEF ShutdownBegin
  <2>6. QED
    BY <2>1, <2>2, <2>3, <2>4, <2>5
<1>12. ASSUME NEW w \in Worker, ShutdownFence(w)
     PROVE  SupervisorInv'
  <2>1. \A v \in Worker :
          /\ pc'[v] \in Acquiring \cup {"off"} => pc[v] = pc'[v]
          /\ isRunning(v)' => isRunning(v)
    BY <1>12 DEF ShutdownFence
  <2>2. ASSUME NEW g \in Gen, rt'[g] = "RUNNING"
        PROVE  rt[g] = "RUNNING" /\ hb'[g] = hb[g] /\ owner[g] \in Worker
    <3>1. rt[g] = "RUNNING" /\ hb'[g] = hb[g]
      BY <1>12, <2>2 DEF ShutdownFence
    <3>2. QED
      BY <3>1, RunningExists
  <2>3. UNCHANGED <<issued, owner, pending, active, hbTask>>
    BY <1>12 DEF ShutdownFence
  <2>4. PendingInv' /\ HbTaskInv'
    BY <2>1, <2>3
  <2>5. QuietInv'
    BY ONLY IInv, <2>1, <2>2, <2>3 DEF IInv, SupervisorInv, QuietInv
  <2>6. RunningIsActive'
    BY <2>2, <2>3
  <2>7. RunningIsSupervised'
    BY <2>1, <2>2, <2>3
  <2>8. QED
    BY <2>4, <2>5, <2>6, <2>7
<1>13. ASSUME NEW w \in Worker, ShutdownRelease(w)
     PROVE  SupervisorInv'
  <2>1. PendingInv'
    BY <1>13 DEF ShutdownRelease, ProcessEnds
  <2>2. QuietInv'
    BY <1>13, SMTT(30) DEF ShutdownRelease, ProcessEnds
  <2>3. HbTaskInv'
    BY <1>13 DEF ShutdownRelease, ProcessEnds
  <2>4. RunningIsActive'
    BY <1>13 DEF ShutdownRelease, ProcessEnds
  <2>5. RunningIsSupervised'
    BY <1>13 DEF ShutdownRelease, ProcessEnds
  <2>6. QED
    BY <2>1, <2>2, <2>3, <2>4, <2>5
<1>14. ASSUME NEW w \in Worker, Crash(w)
     PROVE  SupervisorInv'
  <2>1. PendingInv'
    BY <1>14 DEF Crash, ProcessEnds
  <2>2. QuietInv'
    BY <1>14, SMTT(30) DEF Crash, ProcessEnds
  <2>3. HbTaskInv'
    BY <1>14 DEF Crash, ProcessEnds
  <2>4. RunningIsActive'
    BY <1>14 DEF Crash, ProcessEnds
  <2>5. RunningIsSupervised'
    BY <1>14 DEF Crash, ProcessEnds
  <2>6. QED
    BY <2>1, <2>2, <2>3, <2>4, <2>5
<1>15. ASSUME NEW g \in Gen, HbWake(g)
     PROVE  SupervisorInv'
  BY <1>15 DEF HbWake, Beating, isRunning
<1>16. ASSUME NEW g \in Gen, HbRenew(g)
     PROVE  SupervisorInv'
  BY <1>16, SMTT(30) DEF HbRenew, HoldsLease
<1>17. ASSUME NEW g \in Gen, HbFence(g)
     PROVE  SupervisorInv'
  <2>1. PendingInv'
    BY <1>17 DEF HbFence
  <2>2. QuietInv'
    BY <1>17, SMTT(30) DEF HbFence
  <2>3. HbTaskInv'
    BY <1>17 DEF HbFence
  <2>4. RunningIsActive'
    <3> SUFFICES ASSUME NEW k \in Gen, rt'[k] = "RUNNING"
                 PROVE  active'[owner[k]] = k
        BY <1>17 DEF HbFence
    <3>1. k # g /\ rt[k] = "RUNNING"
      BY <1>17 DEF HbFence
    <3>2. owner[k] \in Worker /\ active[owner[k]] = k
      BY <3>1, RunningExists
    <3>3. QED
      BY <1>17, <3>1, <3>2 DEF HbFence
  <2>5. RunningIsSupervised'
    BY <1>17 DEF HbFence
  <2>6. QED
    BY <2>1, <2>2, <2>3, <2>4, <2>5
<1>18. ASSUME NEW g \in Gen, HbStop(g)
     PROVE  SupervisorInv'
  <2>1. PendingInv'
    BY <1>18 DEF HbStop
  <2>2. QuietInv'
    BY <1>18, SMTT(30) DEF HbStop
  <2>3. HbTaskInv'
    BY <1>18 DEF HbStop
  <2>4. RunningIsActive'
    BY <1>18 DEF HbStop
  <2>5. RunningIsSupervised'
    BY <1>18 DEF HbStop
  <2>6. QED
    BY <2>1, <2>2, <2>3, <2>4, <2>5
<1>19. ASSUME NEW g \in Gen, FenceSelf(g)
     PROVE  SupervisorInv'
  BY <1>19 DEF FenceSelf
<1>20. ASSUME NEW g \in Gen, TxnOpen(g)
     PROVE  SupervisorInv'
  BY <1>20 DEF TxnOpen
<1>21. ASSUME NEW g \in Gen, TxnRejected(g)
     PROVE  SupervisorInv'
  BY <1>21 DEF TxnRejected
<1>22. ASSUME NEW g \in Gen, TxnSendCommit(g)
     PROVE  SupervisorInv'
  BY <1>22 DEF TxnSendCommit
<1>23. ASSUME NEW g \in Gen, TxnCommit(g)
     PROVE  SupervisorInv'
  BY <1>23 DEF TxnCommit
<1>24. ASSUME NEW g \in Gen, TxnAbort(g)
     PROVE  SupervisorInv'
  BY <1>24 DEF TxnAbort
<1>25. CASE UNCHANGED vars
  BY <1>25 DEF vars
<1>26. QED
  BY <1>1, <1>2, <1>3, <1>4, <1>5, <1>6, <1>7, <1>8, <1>9, <1>10, <1>11, <1>12, <1>13, <1>14, <1>15, <1>16, <1>17, <1>18, <1>19, <1>20, <1>21, <1>22, <1>23, <1>24, <1>25 DEF Next

\* Ownership never leaves the generations that exist.
LEMMA OwnerStep == IInv /\ [Next]_vars => OwnerInv'
<1> SUFFICES ASSUME IInv, [Next]_vars PROVE OwnerInv'
    OBVIOUS
<1>1. ASSUME NEW w \in Worker, AcquireScript(w) PROVE OwnerInv'
  <2>1. /\ issued + 1 \in Gen /\ issued \in Nat /\ issued' = issued + 1
        /\ owner \in [Gen -> Worker \cup {NoWorker}]
        /\ owner' = [owner EXCEPT ![issued + 1] = w]
    BY <1>1 DEF AcquireScript, IInv, TypeOK, ClaimOK
  <2>2. QED
    BY <2>1 DEF IInv, OwnerInv
<1>2. CASE UNCHANGED claimVars
  BY <1>2 DEF IInv, OwnerInv, claimVars
<1>3. UNCHANGED claimVars \/ \E w \in Worker : AcquireScript(w)
  BY DEF Next, vars, Expire, RedisLoss, Boot, AcquireLease, AcquireReplyLost,
         RegisterClaim, ConfirmLease, StartRuntime, StartFails, ReleaseLease,
         ShutdownBegin, ShutdownFence, ShutdownRelease, Crash, HbWake, HbRenew,
         HbFence, HbStop, FenceSelf, TxnOpen, TxnRejected, TxnSendCommit,
         TxnCommit, TxnAbort
<1>4. QED
  BY <1>1, <1>2, <1>3

\* The invariant is inductive.
LEMMA Inductive == Spec => []IInv
<1>1. Init => IInv
  <2> SUFFICES ASSUME Init PROVE IInv
      OBVIOUS
  <2> USE DEF Init
  <2>1. TypeOK
    BY DEF TypeOK, RedisOK, ClaimOK, DbOK, SupOK, RtOK, PC, HB
  <2>2. OwnerInv /\ ClaimInv
    BY DEF OwnerInv, ClaimInv
  <2>3. FenceInv
    BY DEF FenceInv, OnlyFenceHolderWrites, RunningIsRegistered
  <2>4. SupervisorInv
    BY DEF SupervisorInv, PendingInv, QuietInv, HbTaskInv, RunningIsActive,
           RunningIsSupervised, Acquiring
  <2>5. QED
    BY <2>1, <2>2, <2>3, <2>4 DEF IInv
<1>2. IInv /\ [Next]_vars => IInv'
  BY TypeStep, OwnerStep, ClaimStep, FenceStep, SupervisorStep DEF IInv
<1>3. QED
  BY <1>1, <1>2, PTL DEF Spec

-----------------------------------------------------------------------------

\* The variables stay in their ranges; in particular the fence counter counts
\* successful acquisitions only (ACQUIRE_LEASE_LUA).
THEOREM TypeCorrect == Spec => []TypeOK
<1>1. IInv => TypeOK
  BY DEF IInv
<1>2. QED
  BY <1>1, Inductive, PTL

\* Whatever expires, crashes or is lost, a transaction past assert_current
\* belongs to the generation in the fence row.
THEOREM FenceHolderWrites == Spec => []OnlyFenceHolderWrites
<1>1. IInv => OnlyFenceHolderWrites
  BY DEF IInv, FenceInv
<1>2. QED
  BY <1>1, Inductive, PTL

\* A runtime that attempt_acquire_shard started is registered, hence current
\* or strictly older than the current generation.
THEOREM RunningRegistered == Spec => []RunningIsRegistered
<1>1. IInv => RunningIsRegistered
  BY DEF IInv, FenceInv
<1>2. QED
  BY <1>1, Inductive, PTL

\* A process runs at most one runtime of the shard, the one in _active_shards.
THEOREM RunningActive == Spec => []RunningIsActive
<1>1. IInv => RunningIsActive
  BY DEF IInv, SupervisorInv
<1>2. QED
  BY <1>1, Inductive, PTL

\* No runtime outlives its heartbeat while its supervisor is running.
THEOREM RunningSupervised == Spec => []RunningIsSupervised
<1>1. IInv => RunningIsSupervised
  BY DEF IInv, SupervisorInv
<1>2. QED
  BY <1>1, Inductive, PTL

\* Every running runtime is registered, known to its supervisor's bookkeeping
\* and watched by a heartbeat, in every state of the system.
THEOREM RunningAccounted == Spec => []RunningIsAccounted
<1>1. RunningIsRegistered /\ RunningIsActive /\ RunningIsSupervised
        => RunningIsAccounted
  BY DEF RunningIsAccounted
<1>2. QED
  BY <1>1, RunningRegistered, RunningActive, RunningSupervised, PTL
-----------------------------------------------------------------------------
(* What a step can do to the fence row and to the latest write *)

\* Neither changes, or a newer generation registers, or the holder commits.
RowUnchanged == UNCHANGED <<fence, lastWrite>>
RowAdvances == /\ fence' \in 1..issued
               /\ Tok(fence) < token[fence']
               /\ UNCHANGED lastWrite
HolderWrites == fence # NoGen /\ lastWrite' = fence /\ UNCHANGED fence

\* register_claim and the commit of a persistence transaction are the only
\* ways to change the row and the latest write.
LEMMA RowStep ==
    IInv /\ [Next]_vars => RowUnchanged \/ RowAdvances \/ HolderWrites
<1> SUFFICES ASSUME IInv, [Next]_vars
             PROVE  RowUnchanged \/ RowAdvances \/ HolderWrites
    OBVIOUS
<1>1. ASSUME NEW w \in Worker, RegisterClaim(w)
      PROVE  RowUnchanged \/ RowAdvances
  <2>1. pending[w] \in 1..issued
    BY <1>1 DEF RegisterClaim, IInv, SupervisorInv, PendingInv, Acquiring
  <2>2. QED
    BY <1>1, <2>1 DEF RegisterClaim, RegisterAccepted, RowUnchanged, RowAdvances
<1>2. ASSUME NEW g \in Gen, TxnCommit(g) PROVE HolderWrites
  <2>1. fence = g
    BY <1>2 DEF TxnCommit, IInv, FenceInv, OnlyFenceHolderWrites
  <2>2. QED
    BY <1>2, <2>1 DEF TxnCommit, HolderWrites
<1>3. \/ UNCHANGED <<fence, lastWrite>>
      \/ \E w \in Worker : RegisterClaim(w)
      \/ \E g \in Gen : TxnCommit(g)
  BY DEF Next, vars, dbVars, Expire, RedisLoss, Boot, AcquireLease,
         AcquireReplyLost, ConfirmLease, StartRuntime, StartFails, ReleaseLease,
         ShutdownBegin, ShutdownFence, ShutdownRelease, Crash, HbWake, HbRenew,
         HbFence, HbStop, FenceSelf, TxnOpen, TxnRejected, TxnSendCommit,
         TxnAbort
<1>4. QED
  BY <1>1, <1>2, <1>3 DEF RowUnchanged

\* Two generations that write one after the other have increasing tokens, also
\* when Redis lost data and handed out a token twice.
THEOREM StaleNeverWrites == Spec => NoStaleWrite
<1>1. IInv /\ [Next]_vars =>
        [lastWrite' # lastWrite => Tok(lastWrite) < token[lastWrite']]_vars
  <2> SUFFICES ASSUME IInv, [Next]_vars, lastWrite' # lastWrite
               PROVE  Tok(lastWrite) < token[lastWrite']
      OBVIOUS
  <2>1. fence # NoGen /\ lastWrite' = fence
    BY RowStep DEF RowUnchanged, RowAdvances, HolderWrites
  <2>2. lastWrite = fence \/ Tok(lastWrite) < Tok(fence)
    BY DEF IInv, FenceInv
  <2>3. QED
    BY <2>1, <2>2 DEF Tok
<1>2. QED
  BY <1>1, Inductive, PTL DEF Spec, NoStaleWrite

\* A step does not change the token of a generation that exists.
LEMMA TokensStay ==
    ASSUME IInv, [Next]_vars, NEW g \in 0..MaxGen, g <= issued
    PROVE  Tok(g)' = Tok(g) /\ Tok(g) \in Nat
<1>1. issued \in Nat /\ token \in [Gen -> 0..issued]
  BY DEF IInv, TypeOK, ClaimOK
<1>2. UNCHANGED token \/ \E w \in Worker : AcquireScript(w)
  BY DEF Next, vars, claimVars, Expire, RedisLoss, Boot, AcquireLease,
         AcquireReplyLost, RegisterClaim, ConfirmLease, StartRuntime, StartFails,
         ReleaseLease, ShutdownBegin, ShutdownFence, ShutdownRelease, Crash,
         HbWake, HbRenew, HbFence, HbStop, FenceSelf, TxnOpen, TxnRejected,
         TxnSendCommit, TxnCommit, TxnAbort
<1>3. g # NoGen => token'[g] = token[g] /\ token[g] \in Nat
  <2>1. CASE UNCHANGED token
    BY <1>1, <2>1
  <2>2. CASE \E w \in Worker : AcquireScript(w)
    BY <1>1, <2>2 DEF AcquireScript
  <2>3. QED
    BY <1>2, <2>1, <2>2
<1>4. QED
  BY <1>3 DEF Tok

\* The lease, the fence row and the row lock implement FencedStore: the
\* generation allowed to write only advances, and only it writes.
THEOREM Refinement == Spec => ImplementsFencedStore
<1>1. Init => Store!Init
  BY DEF Init, Store!Init, Store!NoOwner, Generation, Tok
<1>2. ASSUME IInv, [Next]_vars
      PROVE  [Store!Next]_<<Generation(fence), Generation(lastWrite)>>
  <2>1. /\ fence \in 0..MaxGen /\ fence <= issued
        /\ lastWrite \in 0..MaxGen /\ lastWrite <= issued
        /\ issued \in 0..MaxGen
    BY <1>2 DEF IInv, FenceInv, TypeOK, DbOK, ClaimOK
  <2>2. PICK f \in 0..MaxGen : f = fence
    BY <2>1
  <2>3. PICK l \in 0..MaxGen : l = lastWrite
    BY <2>1
  <2>4. Tok(f)' = Tok(f) /\ Tok(f) \in Nat
    BY <1>2, <2>1, <2>2, TokensStay
  <2>5. Tok(l)' = Tok(l) /\ Tok(l) \in Nat
    BY <1>2, <2>1, <2>3, TokensStay
  <2>6. CASE RowUnchanged
    BY <2>2, <2>3, <2>4, <2>5, <2>6 DEF RowUnchanged, Generation, Tok
  <2>7. CASE RowAdvances
    <3>1. PICK h \in 0..MaxGen : h = fence' /\ h <= issued /\ h # NoGen
      BY <2>1, <2>7 DEF RowAdvances
    <3>2. Tok(h)' = Tok(h) /\ Tok(h) \in Nat
      BY <1>2, <3>1, TokensStay
    <3>3. Tok(f) < Tok(h)
      BY <2>2, <2>7, <3>1 DEF RowAdvances, Tok
    <3>4. Generation(fence)' = <<Tok(h), h>> /\ Generation(fence) = <<Tok(f), f>>
      BY <2>2, <3>1, <3>2 DEF Generation, Tok
    <3>5. Generation(lastWrite)' = Generation(lastWrite)
      BY <2>3, <2>5, <2>7 DEF RowAdvances, Generation, Tok
    <3>6. Store!Advance
      BY <2>4, <3>2, <3>3, <3>4, <3>5 DEF Store!Advance
    <3>7. QED
      BY <3>6 DEF Store!Next
  <2>8. CASE HolderWrites
    <3>1. Generation(lastWrite)' = Generation(fence)
      BY <2>2, <2>4, <2>8 DEF HolderWrites, Generation, Tok
    <3>2. Generation(fence)' = Generation(fence)
      BY <2>2, <2>4, <2>8 DEF HolderWrites, Generation, Tok
    <3>3. Generation(fence) # Store!NoOwner
      BY <2>8 DEF HolderWrites, Generation, Store!NoOwner
    <3>4. Store!Write
      BY <3>1, <3>2, <3>3 DEF Store!Write
    <3>5. QED
      BY <3>4 DEF Store!Next
  <2>9. QED
    BY <1>2, <2>6, <2>7, <2>8, RowStep
<1>3. QED
  BY <1>1, <1>2, Inductive, PTL DEF Spec, ImplementsFencedStore, Store!Spec
=============================================================================
