--------------------------- MODULE ShardOwnership ---------------------------
(***************************************************************************)
(* Ownership of one WebSocket shard by competing supervisor processes      *)
(* (services/ws_sharding/{lease,persistence_fence,supervisor,runtime}.py). *)
(*                                                                         *)
(* Redis holds a lease with a TTL and a counter of fencing tokens; a       *)
(* PostgreSQL row holds the generation allowed to persist candles.  Each   *)
(* successful acquisition creates a generation (a ShardLeaseClaim and the  *)
(* ShardRuntime built on it), here a number of Gen in order of creation:   *)
(* it plays the part of the random claim_token, while token[g] is the      *)
(* fencing token, which may repeat when Redis loses its latest writes.     *)
(*                                                                         *)
(* Time is abstracted: the lease may expire at any step, which is what a   *)
(* paused worker observes.  Every await of the code separates two actions. *)
(***************************************************************************)
EXTENDS Naturals

CONSTANTS Worker,       \* supervisor processes
          NoWorker,     \* owner of a generation not created yet
          MaxGen,       \* bound on the number of acquisitions
          MaxLosses,    \* bound on the number of Redis restarts with data loss
          RedisFaults   \* may Redis calls and fence registrations fail?

ASSUME OwnershipAssumption ==
    /\ Worker # {} /\ NoWorker \notin Worker
    /\ MaxGen \in Nat
    /\ MaxLosses \in Nat
    /\ RedisFaults \in BOOLEAN

Gen == 1..MaxGen
NoGen == 0

VARIABLES
    \* Redis
    lease,        \* generation stored under the shard's lease key, or NoGen
    counter,      \* the fence counter key
    losses,       \* restarts of Redis so far
    \* claims
    issued,       \* number of generations created
    owner,        \* the worker of each generation
    token,        \* the fencing token of each generation
    \* PostgreSQL
    fence,        \* generation in ws_shard_persistence_fences, or NoGen
    rowLock,      \* generation whose open transaction locks that row
    txn,          \* persistence transaction of each generation's flusher
    lastWrite,    \* generation of the latest committed candle batch
    \* supervisors
    pc,           \* where the supervisor coroutine of each worker is
    pending,      \* the claim an unfinished acquisition holds
    active,       \* _active_shards[shard_id]
    activeClaim,  \* _active_claims[shard_id]
    hbTask,       \* _heartbeat_tasks[shard_id]
    \* runtimes and their heartbeat tasks
    rt,           \* ShardRuntime state
    hb            \* its heartbeat loop; "stopped" once runtime.stop() ran

redisVars == <<lease, counter, losses>>
claimVars == <<issued, owner, token>>
dbVars    == <<fence, rowLock, txn, lastWrite>>
supVars   == <<pc, pending, active, activeClaim, hbTask>>
rtVars    == <<rt, hb>>
vars == <<redisVars, claimVars, dbVars, supVars, rtVars>>

PC == {"off", "idle", "leased", "registered", "starting", "releasing",
       "fencing", "unleasing"}
HB == {"off", "sleeping", "renewing", "lost", "stopping", "exited", "stopped"}

RedisOK == /\ lease \in 0..issued
           /\ counter \in 0..issued
           /\ losses \in 0..MaxLosses

ClaimOK == /\ issued \in 0..MaxGen
           /\ owner \in [Gen -> Worker \cup {NoWorker}]
           /\ token \in [Gen -> 0..issued]

DbOK == /\ fence \in 0..MaxGen
        /\ rowLock \in 0..MaxGen
        /\ txn \in [Gen -> {"none", "open", "committing"}]
        /\ lastWrite \in 0..MaxGen

SupOK == /\ pc \in [Worker -> PC]
         /\ pending \in [Worker -> 0..MaxGen]
         /\ active \in [Worker -> 0..MaxGen]
         /\ activeClaim \in [Worker -> 0..MaxGen]
         /\ hbTask \in [Worker -> 0..MaxGen]

RtOK == /\ rt \in [Gen -> {"none", "RUNNING", "FENCED", "dead"}]
        /\ hb \in [Gen -> HB]

\* The ranges of the variables; the counter and the tokens count owners, never
\* attempts that found the lease taken (acquire_shard_lease).
TypeOK == RedisOK /\ ClaimOK /\ DbOK /\ SupOK /\ RtOK

Init ==
    /\ lease = NoGen /\ counter = 0 /\ losses = 0
    /\ issued = 0
    /\ owner = [g \in Gen |-> NoWorker]
    /\ token = [g \in Gen |-> 0]
    /\ fence = NoGen /\ rowLock = NoGen /\ lastWrite = NoGen
    /\ txn = [g \in Gen |-> "none"]
    /\ pc = [w \in Worker |-> "off"]
    /\ pending = [w \in Worker |-> NoGen]
    /\ active = [w \in Worker |-> NoGen]
    /\ activeClaim = [w \in Worker |-> NoGen]
    /\ hbTask = [w \in Worker |-> NoGen]
    /\ rt = [g \in Gen |-> "none"]
    /\ hb = [g \in Gen |-> "off"]

\* The fencing token of a row or key; an absent one ranks below every token.
Tok(g) == IF g = NoGen THEN 0 ELSE token[g]

isRunning(w) == pc[w] \notin {"off", "fencing", "unleasing"}

-----------------------------------------------------------------------------
(* Redis *)

\* The TTL of the lease key runs out.
Expire ==
    /\ lease # NoGen
    /\ lease' = NoGen
    /\ UNCHANGED <<counter, losses, claimVars, dbVars, supVars, rtVars>>

\* Redis restarts from an append-only file that misses its latest writes: the
\* counter goes back, and so does the lease, to a claim of that time or none.
RedisLoss ==
    /\ losses < MaxLosses
    /\ losses' = losses + 1
    /\ \E n \in 0..counter :
         /\ counter' = n
         /\ lease' \in {NoGen} \cup {g \in 1..issued : token[g] <= n}
    /\ UNCHANGED <<claimVars, dbVars, supVars, rtVars>>

\* Mutant: the counter also goes up when the lease is found taken.
AcquireScriptSpeculative(w) ==
    /\ issued < MaxGen
    /\ counter' = counter + 1
    /\ IF lease = NoGen
       THEN /\ issued' = issued + 1
            /\ owner' = [owner EXCEPT ![issued + 1] = w]
            /\ token' = [token EXCEPT ![issued + 1] = counter + 1]
            /\ lease' = issued + 1
       ELSE UNCHANGED <<issued, owner, token, lease>>
    /\ UNCHANGED losses

\* ACQUIRE_LEASE_LUA: a free lease key is taken and the counter incremented.
AcquireScript(w) ==
    /\ lease = NoGen
    /\ issued < MaxGen
    /\ issued' = issued + 1
    /\ counter' = counter + 1
    /\ owner' = [owner EXCEPT ![issued + 1] = w]
    /\ token' = [token EXCEPT ![issued + 1] = counter + 1]
    /\ lease' = issued + 1
    /\ UNCHANGED losses

\* RENEW_LEASE_LUA and RELEASE_LEASE_LUA act only for the claim in the key.
HoldsLease(g) == lease = g

-----------------------------------------------------------------------------
(* The supervisor coroutine: start, attempt_acquire_shard, shutdown *)

\* A worker process starts; run_ws_shard_supervisor calls supervisor.start().
Boot(w) ==
    /\ pc[w] = "off"
    /\ pc' = [pc EXCEPT ![w] = "idle"]
    /\ UNCHANGED <<redisVars, claimVars, dbVars, pending, active, activeClaim,
                   hbTask, rtVars>>

\* Mutant: the check for a running runtime is dropped.
MayAcquireAlways(w) == pc[w] = "idle"

\* Nothing is attempted while the shard's runtime is still running here.
MayAcquire(w) ==
    /\ pc[w] = "idle"
    /\ ~ (active[w] # NoGen /\ rt[active[w]] = "RUNNING")

AcquireLease(w) ==
    /\ MayAcquire(w)
    /\ AcquireScript(w)
    /\ pc' = [pc EXCEPT ![w] = "leased"]
    /\ pending' = [pending EXCEPT ![w] = issued + 1]
    /\ UNCHANGED <<dbVars, active, activeClaim, hbTask, rtVars>>

\* The script ran but its reply was lost: RedisUnavailableError, attempt given
\* up, and the lease is left to its TTL.
AcquireReplyLost(w) ==
    /\ RedisFaults
    /\ MayAcquire(w)
    /\ AcquireScript(w)
    /\ UNCHANGED <<dbVars, supVars, rtVars>>

\* ON CONFLICT ... WHERE of register_claim: no row yet, a lower token, or the
\* very same claim.
RegisterAccepted(g) == Tok(fence) < token[g] \/ fence = g

\* Mutant: no row lock makes a registration wait for a write in progress.
RegisterClaimNoWait(w) ==
    /\ pc[w] = "leased"
    /\ IF RegisterAccepted(pending[w])
       THEN fence' = pending[w] /\ pc' = [pc EXCEPT ![w] = "registered"]
       ELSE UNCHANGED fence /\ pc' = [pc EXCEPT ![w] = "releasing"]
    /\ UNCHANGED <<redisVars, claimVars, rowLock, txn, lastWrite, pending,
                   active, activeClaim, hbTask, rtVars>>

\* register_claim waits for the row lock of a write in progress.  The caller
\* releases the lease when the row was not taken, and also when the call
\* failed, whether or not the upsert had been committed by then.
RegisterClaim(w) ==
    /\ pc[w] = "leased"
    /\ rowLock = NoGen
    /\ \/ /\ RegisterAccepted(pending[w])
          /\ fence' = pending[w]
          /\ \/ pc' = [pc EXCEPT ![w] = "registered"]
             \/ RedisFaults /\ pc' = [pc EXCEPT ![w] = "releasing"]
       \/ /\ ~ RegisterAccepted(pending[w]) \/ RedisFaults
          /\ pc' = [pc EXCEPT ![w] = "releasing"]
          /\ UNCHANGED fence
    /\ UNCHANGED <<redisVars, claimVars, rowLock, txn, lastWrite, pending,
                   active, activeClaim, hbTask, rtVars>>

\* The renewal after registration: a claim that expired meanwhile, or that
\* Redis cannot confirm, must not start a runtime.
ConfirmLease(w) ==
    /\ pc[w] = "registered"
    /\ \/ /\ HoldsLease(pending[w])
          /\ pc' = [pc EXCEPT ![w] = "starting"]
       \/ /\ ~ HoldsLease(pending[w]) \/ RedisFaults
          /\ pc' = [pc EXCEPT ![w] = "releasing"]
    /\ UNCHANGED <<redisVars, claimVars, dbVars, pending, active, activeClaim,
                   hbTask, rtVars>>

\* The runtime starts, replaces whatever _active_shards held, and gets its
\* heartbeat task.
StartRuntime(w) ==
    /\ pc[w] = "starting"
    /\ LET g == pending[w] IN
         /\ rt' = [rt EXCEPT ![g] = "RUNNING"]
         /\ hb' = [hb EXCEPT ![g] = "sleeping"]
         /\ active' = [active EXCEPT ![w] = g]
         /\ activeClaim' = [activeClaim EXCEPT ![w] = g]
         /\ hbTask' = [hbTask EXCEPT ![w] = g]
    /\ pending' = [pending EXCEPT ![w] = NoGen]
    /\ pc' = [pc EXCEPT ![w] = "idle"]
    /\ UNCHANGED <<redisVars, claimVars, dbVars>>

\* runtime.start() raised.  The runtime object left behind has no stream task,
\* hence never anything to persist, and no table of the supervisor knows it.
StartFails(w) ==
    /\ pc[w] = "starting"
    /\ pc' = [pc EXCEPT ![w] = "releasing"]
    /\ UNCHANGED <<redisVars, claimVars, dbVars, pending, active, activeClaim,
                   hbTask, rtVars>>

\* release_shard_lease: compare and delete; an error is logged and ignored.
ReleaseScript(g) ==
    \/ HoldsLease(g) /\ lease' = NoGen
    \/ ~ HoldsLease(g) /\ UNCHANGED lease
    \/ RedisFaults /\ UNCHANGED lease

ReleaseLease(w) ==
    /\ pc[w] = "releasing"
    /\ ReleaseScript(pending[w])
    /\ pc' = [pc EXCEPT ![w] = "idle"]
    /\ pending' = [pending EXCEPT ![w] = NoGen]
    /\ UNCHANGED <<counter, losses, claimVars, dbVars, active, activeClaim,
                   hbTask, rtVars>>

\* shutdown(): _is_running is cleared and the registered heartbeat task is
\* cancelled, also while it waits for a reply of Redis.
ShutdownBegin(w) ==
    /\ pc[w] = "idle"
    /\ pc' = [pc EXCEPT ![w] = "fencing"]
    /\ hb' = [g \in Gen |-> IF g = hbTask[w] THEN "exited" ELSE hb[g]]
    /\ hbTask' = [hbTask EXCEPT ![w] = NoGen]
    /\ UNCHANGED <<redisVars, claimVars, dbVars, pending, active, activeClaim,
                   rt>>

\* The runtime of the shard is fenced, then stopped.
ShutdownFence(w) ==
    /\ pc[w] = "fencing"
    /\ pc' = [pc EXCEPT ![w] = "unleasing"]
    /\ rt' = [g \in Gen |-> IF g = active[w] THEN "FENCED" ELSE rt[g]]
    /\ hb' = [g \in Gen |-> IF g = active[w] THEN "stopped" ELSE hb[g]]
    /\ UNCHANGED <<redisVars, claimVars, dbVars, pending, active, activeClaim,
                   hbTask>>

\* What is left of a process that ends: its tasks and runtimes are gone.
ProcessEnds(w) ==
    /\ pc' = [pc EXCEPT ![w] = "off"]
    /\ pending' = [pending EXCEPT ![w] = NoGen]
    /\ active' = [active EXCEPT ![w] = NoGen]
    /\ activeClaim' = [activeClaim EXCEPT ![w] = NoGen]
    /\ hbTask' = [hbTask EXCEPT ![w] = NoGen]
    /\ rt' = [g \in Gen |-> IF owner[g] = w THEN "dead" ELSE rt[g]]
    /\ hb' = [g \in Gen |-> IF owner[g] = w THEN "exited" ELSE hb[g]]

\* The claim in _active_claims, if any, is released and the process exits.
ShutdownRelease(w) ==
    /\ pc[w] = "unleasing"
    /\ ReleaseScript(activeClaim[w])
    /\ ProcessEnds(w)
    /\ UNCHANGED <<counter, losses, claimVars, dbVars>>

\* The process dies at any point.
Crash(w) ==
    /\ pc[w] # "off"
    /\ ProcessEnds(w)
    /\ UNCHANGED <<redisVars, claimVars, dbVars>>

-----------------------------------------------------------------------------
(* The heartbeat loop of a generation *)

\* Mutant: the loop does not look at the state of its runtime.
BeatingAlways(g) == isRunning(owner[g])

\* The loop goes on only for a running supervisor and a running runtime.
Beating(g) == isRunning(owner[g]) /\ rt[g] = "RUNNING"

HbWake(g) ==
    /\ hb[g] = "sleeping"
    /\ hb' = [hb EXCEPT ![g] = IF Beating(g) THEN "renewing" ELSE "exited"]
    /\ UNCHANGED <<redisVars, claimVars, dbVars, supVars, rt>>

\* Redis runs the renewal script.  A positive reply sends the loop back to
\* sleep; a negative one, or an error, has not been received yet.
HbRenew(g) ==
    /\ hb[g] = "renewing"
    /\ \/ HoldsLease(g) /\ hb' = [hb EXCEPT ![g] = "sleeping"]
       \/ /\ ~ HoldsLease(g) \/ RedisFaults
          /\ hb' = [hb EXCEPT ![g] = "lost"]
    /\ UNCHANGED <<redisVars, claimVars, dbVars, supVars, rt>>

\* A negative reply: the runtime is fenced and _cleanup_fenced_shard drops it
\* from the bookkeeping, the claim unconditionally.
HbFence(g) ==
    /\ hb[g] = "lost"
    /\ rt' = [rt EXCEPT ![g] = "FENCED"]
    /\ activeClaim' = [w \in Worker |->
                         IF w = owner[g] THEN NoGen ELSE activeClaim[w]]
    /\ active' = [w \in Worker |->
                    IF w = owner[g] /\ active[w] = g THEN NoGen ELSE active[w]]
    /\ hbTask' = [w \in Worker |->
                    IF w = owner[g] /\ hbTask[w] = g THEN NoGen ELSE hbTask[w]]
    /\ hb' = [hb EXCEPT ![g] = "stopping"]
    /\ UNCHANGED <<redisVars, claimVars, dbVars, pc, pending>>

\* The last step of the cleanup: runtime.stop().
HbStop(g) ==
    /\ hb[g] = "stopping"
    /\ hb' = [hb EXCEPT ![g] = "stopped"]
    /\ UNCHANGED <<redisVars, claimVars, dbVars, supVars, rt>>

-----------------------------------------------------------------------------
(* The runtime: self-fencing and persistence transactions *)

\* The stream ended unexpectedly, or the asset registry is unavailable.
FenceSelf(g) ==
    /\ rt[g] = "RUNNING"
    /\ rt' = [rt EXCEPT ![g] = "FENCED"]
    /\ UNCHANGED <<redisVars, claimVars, dbVars, supVars, hb>>

\* Mutant: the transaction does not look at the fence row.
TxnOpenUnchecked(g) ==
    /\ rt[g] = "RUNNING"
    /\ txn[g] = "none"
    /\ rowLock = NoGen
    /\ rowLock' = g
    /\ txn' = [txn EXCEPT ![g] = "open"]
    /\ UNCHANGED <<redisVars, claimVars, fence, lastWrite, supVars, rtVars>>

\* assert_current finds this claim in the row and locks it.
TxnOpen(g) ==
    /\ rt[g] = "RUNNING"
    /\ txn[g] = "none"
    /\ fence = g
    /\ rowLock = NoGen
    /\ rowLock' = g
    /\ txn' = [txn EXCEPT ![g] = "open"]
    /\ UNCHANGED <<redisVars, claimVars, fence, lastWrite, supVars, rtVars>>

\* assert_current finds another claim: the fatal error callback fences.
TxnRejected(g) ==
    /\ rt[g] = "RUNNING"
    /\ txn[g] = "none"
    /\ fence # g
    /\ rt' = [rt EXCEPT ![g] = "FENCED"]
    /\ UNCHANGED <<redisVars, claimVars, dbVars, supVars, hb>>

\* The batch is written and COMMIT is on its way.  A fenced runtime's flusher
\* was cancelled and does not get here.
TxnSendCommit(g) ==
    /\ rt[g] = "RUNNING"
    /\ txn[g] = "open"
    /\ txn' = [txn EXCEPT ![g] = "committing"]
    /\ UNCHANGED <<redisVars, claimVars, fence, rowLock, lastWrite, supVars,
                   rtVars>>

\* The server commits, whatever became of the worker meanwhile.
TxnCommit(g) ==
    /\ txn[g] = "committing"
    /\ txn' = [txn EXCEPT ![g] = "none"]
    /\ rowLock' = NoGen
    /\ lastWrite' = g
    /\ UNCHANGED <<redisVars, claimVars, fence, supVars, rtVars>>

\* Timeout, database error, cancellation or a dead client: rollback.
TxnAbort(g) ==
    /\ txn[g] # "none"
    /\ txn' = [txn EXCEPT ![g] = "none"]
    /\ rowLock' = NoGen
    /\ UNCHANGED <<redisVars, claimVars, fence, lastWrite, supVars, rtVars>>

-----------------------------------------------------------------------------

Next ==
    \/ Expire
    \/ RedisLoss
    \/ \E w \in Worker :
         \/ Boot(w) \/ AcquireLease(w) \/ AcquireReplyLost(w)
         \/ RegisterClaim(w) \/ ConfirmLease(w) \/ StartRuntime(w)
         \/ StartFails(w) \/ ReleaseLease(w) \/ ShutdownBegin(w)
         \/ ShutdownFence(w) \/ ShutdownRelease(w) \/ Crash(w)
    \/ \E g \in Gen :
         \/ HbWake(g) \/ HbRenew(g) \/ HbFence(g) \/ HbStop(g)
         \/ FenceSelf(g) \/ TxnOpen(g) \/ TxnRejected(g)
         \/ TxnSendCommit(g) \/ TxnCommit(g) \/ TxnAbort(g)

Spec == Init /\ [][Next]_vars

-----------------------------------------------------------------------------
(* Safety *)

\* Is g the generation of the fence row, or strictly older than it?
Registered(g) == fence = g \/ token[g] < Tok(fence)

\* Only the generation in the fence row has a persistence transaction past
\* assert_current: the row lock keeps a successor from registering between
\* the check and the commit (persistence_fence.py, assert_current).
OnlyFenceHolderWrites ==
    \A g \in Gen : txn[g] # "none" => fence = g /\ rowLock = g

\* Two different generations that write one after the other have increasing
\* fencing tokens: a paused owner that resumes after its successor wrote never
\* writes again, even when Redis lost data and handed out a token twice.
NoStaleWrite ==
    [][lastWrite' # lastWrite => Tok(lastWrite) < token[lastWrite']]_vars

\* A runtime runs only after its generation was registered in PostgreSQL, so a
\* running runtime that is not the current writer is strictly older than it
\* (attempt_acquire_shard registers before it starts the runtime).
RunningIsRegistered == \A g \in Gen : rt[g] = "RUNNING" => Registered(g)

\* A supervisor never runs two runtimes of the shard, and the one it runs is
\* the one its bookkeeping knows, so that a shutdown fences it.
RunningIsActive == \A g \in Gen : rt[g] = "RUNNING" => active[owner[g]] = g

\* A running runtime of a running supervisor has a live heartbeat task: it can
\* not go on without noticing that its lease was lost.
RunningIsSupervised ==
    \A g \in Gen : rt[g] = "RUNNING" /\ isRunning(owner[g])
                     => hb[g] \in {"sleeping", "renewing", "lost"}

\* Whatever a supervisor has running it can account for: the generation is
\* registered, it is the one the bookkeeping knows, and a heartbeat watches it.
RunningIsAccounted ==
    RunningIsRegistered /\ RunningIsActive /\ RunningIsSupervised

\* The lease, the fence row and the row lock implement the abstract store of
\* FencedStore: generations only advance and only the current one writes.
Generation(g) == <<Tok(g), g>>
Store == INSTANCE FencedStore WITH current <- Generation(fence),
                                   writer <- Generation(lastWrite)
ImplementsFencedStore == Store!Spec

-----------------------------------------------------------------------------
(* Liveness *)

\* Can somebody still renew the lease of g?
Renewable(g) ==
    \/ hb[g] \in {"sleeping", "renewing"}
    \/ \E w \in Worker : pending[w] = g /\ pc[w] \in {"leased", "registered"}

\* A key that nobody renews is removed by Redis once its TTL has passed.
ExpireUnattended == lease # NoGen /\ ~ Renewable(lease) /\ Expire

\* The event loop runs every ready task, calls to Redis and PostgreSQL return
\* or time out, and a TTL runs out.  No worker is obliged to start or to stay.
FairSpec ==
    /\ Spec
    /\ WF_vars(ExpireUnattended)
    /\ \A w \in Worker : WF_vars(RegisterClaim(w)) /\ WF_vars(ConfirmLease(w))
    /\ \A g \in Gen :
         /\ WF_vars(HbWake(g)) /\ WF_vars(HbRenew(g))
         /\ WF_vars(TxnCommit(g) \/ TxnAbort(g))

\* The lease of a generation that does not run and never will (crashed,
\* fenced, refused) does not keep healthy workers out for ever.
DeadLeaseIsFreed ==
    \A g \in Gen :
      (lease = g /\ rt[g] \in {"FENCED", "dead"}) ~> (lease # g)
=============================================================================
