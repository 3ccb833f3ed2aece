# Verification of the QUANTIVE market-data backend

This directory holds TLA+ models of the backend under `src/backend/app`: the
service that keeps one-minute candles of crypto assets complete and consistent.
TLC checks the models on small instances; TLAPS proves the main safety
properties for every value of the constants.

## The system

Processes share two stores: PostgreSQL with TimescaleDB (the truth) and Redis
(leases, fencing tokens, the task broker, a rate limiter). Workers are asyncio
programs; every `await` is a point at which another process, or another task of
the same process, may act.

```
Binance WebSocket --> shard runtime --> pipeline --fenced txn--> raw_1m_candles
                         ^  lease (Redis), fence row (PostgreSQL)   |  sync_ranges
                         |                                          |  candle_revisions
   shard supervisors ----+                                          v
Binance REST --> gap repair jobs --> raw (recent) / staging (older than 7 days)
                      ^    |                              |
   scan + API --------+    +--- AWAITING_MERGE <--release-+-- historical merge jobs
                      |                                   |
                      +--> continuous-aggregate refresh <-+
                 exports, live strategies, monitoring read the result
      maintenance loop: sends a sweep of every durable queue again and again
```

| component | state it keeps | operations | what makes it correct |
|---|---|---|---|
| shard ownership (`services/ws_sharding/{lease,persistence_fence,supervisor,runtime}.py`) | Redis lease and fence counter, fence row, supervisor tables, runtime and heartbeat state | acquire, register, confirm, start, renew, fence, clean up, shut down, fenced commit | one writer at a time, writers only advance, a paused owner never writes again, a dead lease is freed |
| canonical store (`services/ingestion.py`, migrations 014, 017, 018) | raw rows, revision ledger, staging, sync ranges | upsert by source precedence, stage, prove and publish coverage, promote, delete | coverage is backed by rows, ranges stay merged, detection misses nothing, the ledger records every row |
| gap repair (`services/gap_repair.py`) | `gap_repair_jobs`, the attempt's local state | schedule, claim, detect, fetch, commit, verify, park, complete, fail, heartbeat | active windows are disjoint, a completed job is covered, every job reaches a verdict |
| historical merge (`services/historical_merge.py`) | `historical_merge_jobs`, chunk state | schedule days, claim, decompress, page, recompress, complete, release, fail | staging is left only into raw, staged rows are merged, waiting repair jobs are released |
| exports (`services/export_jobs.py`, `workers/export.py`) | job row, objects in S3 | claim, reap, generate, upload, publish, fail, clean up, heartbeat | the latest claim publishes, a completed export is final and its object stays, every export settles |
| aggregate refresh (`services/cagg_refresh.py`) | `cagg_refresh_jobs`, calls running in TimescaleDB | align, coalesce, claim, refresh each view, complete, fail, heartbeat | a completed job materialized what its claim saw; a requested change is refreshed or has a job |
| live pipeline (`ws_sharding/{pipeline,runtime,registry}.py`) | bounded queue, counters, batch in flight, symbol cache | enqueue, wait for room, flush, resolve, commit per asset, fence, drain and stop | what was accepted is committed or accounted for; the counters match the queue; a fenced runtime holds nothing |
| WebSocket connector (`connectors/binance_ws.py`) | current connection, reading loop, rotation | connect, subscribe, read, back off, rotate, disconnect | no connection is orphaned; the stream comes back after any failure |
| live strategies (`services/live_strategy.py`, `live_strategies/contracts.py`) | activation, per-asset cursor and position, observations | activate, evaluate a slice, record a gap, fail, deactivate | bars are applied once and in order, positions are counted, no asset is left behind |
| monitoring and comparison (`services/{strategy_monitoring,strategy_comparison}.py`, `divergence/contracts.py`) | bindings with a claim, comparison runs, assessments, incidents, evidence, health | register, claim, plan, compare, assess, finalize, record an error, release | windows tile, a worker without its claim writes no verdict, evidence counts once, runs are assessed |
| dispatch (`workers/{live_strategy,strategy_monitoring,strategy_comparison,maintenance}.py`) | Redis dispatch lease, queued messages | enqueue, run, release, acknowledge, redeliver | one outstanding message per lease |
| assignment, rate limiter | rendezvous hashing, token bucket | assign, acquire | bounded load, no over-issue |

The hard behaviours are: leases that expire under a paused worker; two
transactions of one attempt with other workers in between; a commit whose
answer is lost; crashes between any two awaits; Redis coming back without its
latest writes; caps and cursors of the interval loops. `PROJECT.json` lists
them one by one under `hazards`.

## Modules

| module | models | composed with |
|---|---|---|
| `ShardOwnership` | one shard, its Redis keys, fence row, and the supervisors that compete for it | implements `FencedStore` |
| `FencedStore` | abstract: one writing generation that only advances | |
| `SyncRanges` | the interval algorithms: blocks, merge of ranges, detection under caps, free parts of a window | used by `CandleStore`, `HistoricalMerge` |
| `CandleStore` | the tables of one asset and their writers | extends `SyncRanges` |
| `DurableJobs` | the lease protocol of a durable job row | used by `GapRepair`, `HistoricalMerge`, `CaggRefresh` |
| `GapRepair` | repair jobs of one asset and their attempts | extends `DurableJobs` |
| `HistoricalMerge` | merge jobs per day, with gap repair: the composed system | extends `GapRepair`, implements `RepairService` |
| `RepairService` | abstract: requested windows, minutes acquired, repairs open, done or given up | |
| `ExportJobs` | one export, its attempts and the object store | |
| `CaggRefresh` | refresh jobs over days, the aggregates, and calls that outlive their client | uses `DurableJobs` |
| `WsConnector` | the client's connections, reading loop, backoff and rotation | |
| `LivePipeline` | queue, flusher, runtime and symbol cache of a shard: the composed live path | extends `WsConnector` |
| `DispatchLease` | the Redis lease before a periodic actor, and Dramatiq's redelivery | |
| `LiveStrategy` | one activation evaluated by workers behind that lease | extends `DispatchLease` |
| `StrategyMonitoring` | bindings, comparison producers and monitors of one activation | |
| `MC*` | instances for TLC | |
| `*Proofs` | theorems | extend the component's module |

### How the models correspond to the code

*Steps.* A transaction that locks a row is one action, as is a Lua script; what
an attempt reads in one transaction and uses in another is kept in its local
state (`att`, `matt`, `pc`), so every interleaving between the two is explored.
Each model keeps the guards, early returns and error paths of its handlers;
`PROJECT.json` gives the source lines of every definition.

*Time.* A lease is live or not. It may expire at any step: when its owner still
renews it, that is a pause (counted as a fault where faults are bounded), and
otherwise the passing of the TTL. Retry delays may end at any time.

*Tokens.* A random lease token is represented by who received it: the
generation in `ShardOwnership`, the worker slot in `DurableJobs` and
`StrategyMonitoring` (a slot runs one attempt at a time), the attempt number in
`ExportJobs`. Fencing tokens are
numbers because they are compared, and they can repeat after `RedisLoss`.

*Data.* `CandleStore` tells apart who wrote a candle and whether its values are
final, deviating, or those of an open minute; prices are left out. `GapRepair`
sees coverage as a set of minutes: that `detect_missing_ranges` returns no gap
exactly when each minute of a whole-minute window is covered is part of
`DetectionIsExact` of `CandleStore`, and that the scheduler's loop yields
exactly the free parts used by `Unscheduled` is `SchedulerLoopIsExact`. Windows
cut by the wall clock (half minutes) appear in `CandleStore` only. Operational
deletion of raw rows is part of `CandleStore` and not of `GapRepair`: there a
completed job would stop being covered by the operator's own act.

`CaggRefresh` numbers the changes of a day, and a view holds the number up to
which it is materialized; a call reads when it starts and writes when it ends,
also after its client is gone. `LiveStrategy` chooses the signal a candle
matches. In `StrategyMonitoring` a window is the bars it holds and a finding is
a diverging bar; `_build_input` never declares a reference complete, so every
run has a coverage finding and the branches for healthy and divergent runs are
not reachable.

*History.* A few variables record the past for the properties and guard no
step: `asked`, `late` and `seen` in
`CaggRefresh`, `accepted`, `settled` and `forfeit` in `LivePipeline`, `strayed`
in `DispatchLease`, and `late` of a comparison run.

*Size.* One shard, one asset, one export, one activation: different ones share
nothing but queues and advisory locks.

## Runs

| run | instance | shows |
|---|---|---|
| `ownership` | 2 workers, 2 generations, Redis and registration errors, 1 Redis restart with loss, fairness | exclusive and advancing writers even with repeated tokens, refinement of `FencedStore`, accounted runtimes, dead leases are freed |
| `store` | 3 minutes, 1 hot, 2 revisions, 1 deletion | coverage, ledger and rows agree, detection is exact under caps 1 and 2, precedence |
| `store_openminute` | 3 minutes | *violated*: a covered, closed minute keeps the values of its open kline |
| `repair_jobs` | 2 repair workers, 1 merger, 3 minutes, 1 fault | disjoint active windows, covered completion, exact scheduler loop, staging is left only into canonical coverage, refinement of `RepairService` |
| `repair_live` | 1 worker of each kind, 1 retry, 2 faults, fairness | staged rows are merged, jobs settle |
| `repair_parked` | 1 worker of each kind, no faults, fairness | *violated*: a job parked too late waits for ever |
| `export_jobs` | 3 attempts, 4 faults, fairness | latest claim publishes, completion is final, objects of others are kept, exports settle |
| `export_answer` | 2 attempts, 1 fault | *violated*: the object of a completed export is deleted |
| `refresh` | 2 workers, 2 days, 2 views, 1 change, 1 fault | completion materializes, requests are refreshed |
| `live_path` | 3 connections, 2 symbols (1 may be deactivated), queue of 2, 3 candles, 2 faults, fairness | counted queue, held connections, nothing accepted is dropped, accepted candles settle, the stream recovers |
| `live_strategy` | 2 workers, 2 assets with 3 and 1 bars, slice of 1, batch of 2, 1 fault, fairness | order, positions, one message, evaluation catches up |
| `monitoring` | 2 producers, 1 monitor, 2 assets, 2 bars, 2 registrations, 1 event, fairness | tiling windows, no verdict without the claim, evidence counted once, runs assessed |

*Why the bounds are enough.* Two generations and two workers give an old owner
and its successor alive together, and with the restart of Redis two owners with
the same token; the safety properties are proved for any number. Three minutes
are the least with an inner gap, a touching neighbour and a separated range;
with one hot minute both recent and historical rows occur. Two repair or
refresh workers give a stale and a current attempt on one job. Four faults and
three attempts give an export whose attempts all go wrong in different ways.
Two days are the least for a job that covers a part of a request, two views the
least for an attempt that loses its claim half-way; the one change falls before,
during or after each call. Three connections are the old one, the new one and
one more while the old still closes; a queue of two with three candles fills
while one waits. Three bars of an asset make a hole with a candle on each side,
and a second asset with a slice of one the rotation. The cap on a comparison
window does not bind with two bars; the theorems cover every cap. Two producers and two
registrations give a stale and a current planner, and a claim lost to expiry,
to a new policy and to a deactivation.

Deadlock is checked except where everything may rest: a settled export, a
stopped runtime, an activation that ended with nobody left to claim its binding.

*Fairness.* `maintenance.py` sends the sweeps of every queue again and again, so
scheduling and claiming are weakly fair; claims take the oldest row first, so
that no row is passed over for ever, hence strong fairness of a claim among
other claims. The event loop runs each ready task, and calls to Redis,
PostgreSQL, S3 and Binance end or time out, hence weak fairness of an attempt's
next step. A TTL that nobody renews runs out. Nothing obliges a worker to start,
an operator to act or the exchange to answer with data, and no fault is fair.
In `HistoricalMerge` a page is strongly fair: a repair batch locks its rows for
one short transaction, not each time the merger looks. In `LivePipeline` the
stream task, the put, the flusher and the stop are one weakly fair task each;
`StreamRecovers` therefore says that the client keeps trying and that faults
are finitely many, not that Binance is reachable. In `StrategyMonitoring` the
monitor's claim is strongly fair: `process_active` returns to every active
binding, and a producer holds the claim for one short cycle at a time.

## Proofs

All proofs are for arbitrary constants that satisfy the named assumptions of the
modules (`OwnershipAssumption`, `StoreAssumption`, `JobAssumption`,
`GapAssumption`, `MergeAssumption`, `ExportAssumption`, `CaggAssumption`,
`ConnAssumption`, `PipelineAssumption`, `DispatchAssumption`,
`StrategyAssumption`, `MonitoringAssumption`). They say that counts are natural
numbers, that sizes and limits are positive where the configuration demands it,
that placeholders such as "no worker" are not members of the sets they stand
beside, and, where something is counted, that the universe is finite.

*`ShardOwnershipProofs`.* The inductive invariant joins `TypeOK` with facts on
generations (those above `issued` are untouched and `owner` is a worker for the
others), on claims (a pending or active claim belongs to its worker), on the
fence (a transaction past the check holds the row lock and is the fence; the
fence token bounds the last writer's token) and on supervisors (a running
runtime is the active one and its heartbeat lives). From it follow type
correctness, `OnlyFenceHolderWrites`, `RunningIsAccounted` (the conjunction of
`RunningIsRegistered`, `RunningIsActive` and `RunningIsSupervised`, each with
its own theorem), the action property `NoStaleWrite`, and the refinement
of `FencedStore`: registering is `Advance`, committing is `Write`, every other
step stutters. The strengthening is needed because `RunningIsRegistered` alone
is not preserved by `StartRuntime`: that step is safe only for a claim that went
through registration, which the program counter records.

*`StoreProofs`.* `RangesInv` says of a set of ranges and the minutes with a row
that every range runs forward, contains only such minutes, and is more than one
minute away from the others. Three lemmas carry it through a batch:
`CompleteBlock` (as many rows as minutes prove each minute, which is what
`_raw_block_is_complete` relies on), `MergeKeeps` (the union of the ranges that
touch a block claims no further minute and touches no other range; this needs
that ranges run forward), and `MarkKeeps`, the induction over the blocks of the
batch. The ledger needs `LedgerEnds`: no entry of a minute is newer than its row.
Without it the next revision of a row might already be in the ledger with other
values, and `_append_raw_revisions` would skip the new entry. `TablesAgree`,
type correctness and the action property `PrecedenceHolds` follow.

`DetectionIsExact` follows from `RangesInv` and from what the scan computes for
every input. `ScanInv` says that all of the window that no range covers has been
found or lies beyond the pointer, which is the start of the window or the end of
a range; `AppendGap` and `ScanKeeps` preserve it, at the cap of gaps too, where
the last gap grows to the end of the window. It holds after any number of ranges
in any order, so the cap on ranges cannot hide a gap either (`DetectFinds`). That
nothing is reported for a covered window of whole minutes (`DetectQuiet`) needs
that one range holds all of it (`OneRangeHolds`), which is where the distance
between ranges comes in. `UncoveredIsExact` is a theorem on the operator alone:
the sweep of `_uncovered_intervals` yields the largest parts of the window that
no active job overlaps. Its invariant `SweepInv` needs the order of the
intervals: none that is still to come begins before the one at hand. `RepairProofs` and
`CaggProofs` use it through an instance of `StoreProofs`, for the two services
that have such a loop.

*`RepairProofs`.* The invariant is `TypeOK`, `ActiveWindowsDisjoint`,
`CompletedIsCovered`, and `VerifiedInv`: an attempt that is about to complete
has a covered window, although the verification was a transaction of its own.
It holds because coverage only grows in this model. `StagedIsKept` follows from
the form of the steps that change staging. `SchedulerLoopAlwaysExact` joins
`UncoveredIsExact` with `Unscheduled`, the definition that the scheduling action
uses: both are the largest parts of the window that no active job overlaps.

`RepairRefinement` maps the minutes that are canonical or staged to `acquired`,
the canonical ones to `canonical`, the windows of active jobs to `open` and
those of completed jobs to `done`. Scheduling is `Request`, a committed batch, a
live commit and a merged page are `Acquire`, the completing transaction is
`Finish`, a failure without a further retry is `GiveUp`; claims, heartbeats,
expiries, parking, release and retries leave a job active and stutter, as does
every write of a worker whose token is no longer in the row. `Request` needs
`UnscheduledComplete`: a minute of the window that no active job holds lies in
a largest free part, found by going as far down and as far up as no job is met.
`Finish` needs `VerifiedInv`.

*`ExportProofs`.* The invariant is `TypeOK`, `ClaimInv` (the token in the row is
the number of the latest attempt, attempts not yet claimed have not started) and
`PublishedByLatest`. `CompletedIsFinal` and `PublishedIsKept` are proved as
action properties from it.

*`CaggProofs`.* `CompletedIsMaterialized` needs the position of an attempt:
`Progress` says that the owner of a job has every view before its position at
what the claim saw, and that the call it waits for read no earlier than that;
`Ordered` bounds each view and each call by the changes of its day, so that a
call of a dead client that ends late never takes a view back. `ActiveDisjoint`
and `AskedIsSeen` do the same for requests: what was asked for is in the views,
or in an active job that is unclaimed or saw it. The alignment of a request to
whole days rests on two lemmas on integer division. `RefreshLoopExact` says that
the loop of `cagg_refresh.py` that subtracts the active jobs, written like the
scheduler's, yields the parts `Uncovered` that the model creates jobs for.

*`PipelineProofs`.* `Shape` gives the locals of the stream task at each of its
awaits; with it `OpenIsHeld` is inductive, because every error path closes what
its locals name. `QueueIsCounted` needs `WaitingFits`: a candle that waits for
room was admitted when its symbol was below its limit and the counter cannot
have grown since, a fenced runtime has no stream task left to put one, and a
commit has groups to work on. The lemmas count the candles of a symbol in a
sequence that is appended to, cut at the front, or emptied.

`NothingIsDropped` needs `Accounted`: while nothing is forfeited, the flusher
holds a batch or its groups and not both (`Staged`), and a stop goes through its
phases in order (`Stopping`: the stream task ends before the flusher, and the
flusher before the drain, so nothing is put behind the drain's back). Grouping a
batch by asset loses no candle of an active asset (`GroupsHaveAll`) and the cut
between batch and queue none at all (`CutKeepsAll`); a fence or a flusher that is
cancelled after its two seconds sets `forfeit`.

*`LiveStrategyProofs`.* `OneOutstanding` is inductive together with `OnePlace`: a
message is either queued or with one worker, and a worker without one is idle.
Without it the release of a lease could leave behind a second copy of its
message. `ObservedInOrder` and `PositionsAreCounted` are invariants of the rows
inside a transaction (`RowsInv`), not only between transactions: `EvaluateKeeps`
shows it for one candle, where the check of the expected bar keeps the evaluated
bars consecutive and `Opened` follows the number of positions, and `RunsKeep` for
the batch, by induction over its candles.

*`MonitoringProofs`.* The invariant `MInv` joins the shape of the rows with
`OneActive` (one active binding at a time), `UnenrolledIsUnknown`, `WindowsTile`
and `PlanInv`: while a producer that planned a window still owns the binding,
every run stored since then was stored without the claim. `OneActive` makes the
owner unique (`OneOwner`), so two owners never plan from the same end. The least
cursor and the last end exist by well-foundedness of the naturals
(`LeastExists`, `GreatestExists`). `EvidenceInv` adds that assessments are of
stored runs and that runs and evidence are finite; then each way of recording an
incident (a divergence of a run not yet assessed, or a keyed observation) adds
to the count exactly the pieces of evidence that are new.

*Loops.* A loop over a batch is a recursive function of the number of items
handled. That such a function exists (`LoopExists`, `RunsFollow`), that what each
item preserves holds at the end (`LoopKeeps`), and that a bounded set of
intervals can be sorted (`CanBeSorted`), is shown by induction in the form of
`Reaches`: a set of numbers that contains 0 and with each number its successor
contains all, because the least number outside it would have a predecessor.

*Only model-checked.* The liveness properties, which are out of the prover's
reach: `DeadLeaseIsFreed`, `StagedIsMerged`, `JobsSettle`, `ExportSettles`,
`AcceptedSettles`, `StreamRecovers`, `EvaluationCatchesUp` and
`ComparisonsAreAssessed`. Every invariant and action property of a passing run,
and both refinements, are proved. `NoStaleWrite` and `StagedIsKept` have theorems
and no line in a run: the refinements that the runs check imply them (the writer
of `FencedStore` is a current generation and those advance; what `RepairService`
acquired stays acquired).

## Findings

1. `store_openminute`: REST responses include the open kline, whose values then
   outrank the closing WebSocket candle.
2. `repair_parked`: `_has_staged_rows` and `_mark_awaiting_merge_if_owned` are
   two transactions; a merge that finishes in between leaves the job parked.
3. `export_answer`: a lost answer to the completing commit makes the error path
   delete the published object.

### Known divergences

What the models reproduce and no property claims, met while reading the code:

- `supervisor.py:261`: a runtime that fences itself ends its heartbeat loop
  without `_cleanup_fenced_shard`; the next acquisition overwrites it in
  `_active_shards` and its `stop()` is never called, although line 302 says that
  "a fenced owner is now fully stopped and removed first".
- `supervisor.py:304`: `_cleanup_fenced_shard` pops `_active_claims` without
  comparing generations, so a late negative renewal of the old generation
  removes the new claim, and shutdown leaves that lease to its TTL.
- `cagg_refresh.py:524`: a request that meets a job already being processed
  creates nothing, although that job may have read before the change. The
  variable `late` marks these days, and `AskedIsRefreshed` excepts them; the
  aggregates' own refresh policies repair recent days.
- `strategy_monitoring.py:473`: a comparison is stored without looking at the
  claim again, so a paused producer can add an overlapping window.
  `WindowsTile` allows an overlap only with such a run.
- `strategy_monitoring.py:1140`: with `autoflush=False`, two findings of one run
  with the same new `dedup_key` are inserted twice and violate the unique index
  (`models/strategy_monitoring.py:235`) in every cycle; the run and those after
  it stay unassessed. `ComparisonsAreAssessed` excepts such runs (`Colliding`).
- `strategy_monitoring.py:763`: repeated evidence does not reopen a resolved
  incident; `:508`: assets without a cursor are ignored, although the comment
  says that a window is comparable only through the slowest cursor.
- `live_strategy.py:457`: the activation's health is computed from the rows as
  they were before the transaction, because the session does not flush, so it
  lags by one candle.
- `live_strategies/contracts.py:291`: a flat asset that may not open a position
  falls through to the reversal branch and opens one beyond
  `max_open_positions`; `PositionsAreCounted` claims the limit without reversals.
- `binance_ws.py:378`: a connection opened by a rotation is not closed when the
  stream task is cancelled while it subscribes; `OpenIsHeld` speaks of the time
  before.

## Not modelled

Parsing, OHLCV validation, Parquet writing, URL signing, query endpoints,
authentication, metrics and schema definitions are sequential data handling
without shared state. The strategy catalogue and backtest results are
insert-only records. The rendezvous assignment of symbols and the arithmetic of
candle, execution, position and performance divergences are pure functions on
strings and decimals. The rate limiter is one atomic script over fractional
time. `StrategyComparisonService.persist` stores comparisons that a caller built;
nothing in the backend calls it. A batch and a deletion of `CandleStore` are one
step each, as the advisory lock of migration 018 makes them; what would happen
without the lock is not modelled. The vendored frontend and deployment files are outside the backend's
logic.

## Plan

Done: shard ownership, candle store, gap repair with historical merge, exports,
aggregate refresh, the live path from socket to commit, live strategies and
their monitoring. Next, in this order:

1. An abstract durable job (claim, settle once, only the latest claim settles)
   that refresh and export jobs implement; for repair and merge jobs
   `RepairService` says this and more.
2. `LivePipeline` under a runtime of `ShardOwnership`, in place of the fence
   that may fall at any step.
3. Several activations, for the order in which they are listed.

Several questions about one component share a run where their instances allow
it.
