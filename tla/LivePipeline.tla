---------------------------- MODULE LivePipeline ----------------------------
(***************************************************************************)
(* The live path of one shard: its WebSocket client, the bounded queue     *)
(* with its flusher (services/ws_sharding/pipeline.py), the runtime that   *)
(* fences or stops them (runtime.py), and the registry cache (registry.py) *)
(*                                                                         *)
(* A candle is its symbol and minute.  A transaction on raw_1m_candles     *)
(* takes effect or not; the caller may be told otherwise.  Ownership of    *)
(* the shard is modelled by ShardOwnership; here the fence may fall at any *)
(* step.  Metrics, and the uncommitted buffers nobody fills, are left out. *)
(***************************************************************************)
EXTENDS WsConnector, SequencesExt

CONSTANTS Symbol, Minutes,
          Delisted,     \* symbols whose asset may be deactivated
          QueueMax,     \* queue_maxsize
          BatchSize,    \* batch_size
          MaxPending,   \* max_pending_per_asset
          MaxCandles    \* bound on the final candles received

ASSUME PipelineAssumption ==
    /\ Minutes \subseteq Nat /\ Delisted \subseteq Symbol
    /\ QueueMax \in Nat \ {0} /\ BatchSize \in Nat \ {0} /\ MaxPending \in Nat \ {0}
    /\ MaxCandles \in Nat

Candle == Symbol \X Minutes
NoCandle == <<>>

VARIABLES queue, pending,  \* _queue and _pending_per_asset
          running,         \* _is_running of the pipeline
          flusher,         \* whether the flusher task is alive
          flush,           \* the batch being processed, and how far
          held,            \* the candle that waits for room in the queue
          rt,              \* state of the runtime
          accepting,       \* _is_accepting_work
          stop,            \* runtime.stop: its await, and its locals
          registry, cache, \* active symbols in the database and in the cache
          fresh,           \* whether the cache is within its TTL
          received,        \* final candles received so far
          accepted,        \* history: candles that entered the queue
          settled,         \* history: candles committed, failed or refused
          forfeit          \* history: a fence or a cut-off flush lost candles

pipeVars == <<queue, pending, running, flusher, flush, held>>
rtVars == <<rt, accepting, stop>>
regVars == <<registry, cache, fresh>>
histVars == <<received, accepted, settled, forfeit>>
vars == <<connVars, pipeVars, rtVars, regVars, histVars>>

NoFlush == [pc |-> "idle", batch |-> <<>>, groups |-> <<>>]
Empty == [s \in Symbol |-> 0]

\* The ranges of the variables of the live path.
TypeOK ==
    /\ ConnTypeOK
    /\ queue \in Seq(Candle) /\ Len(queue) <= QueueMax
    /\ pending \in [Symbol -> 0..MaxPending]
    /\ running \in BOOLEAN /\ flusher \in BOOLEAN
    /\ flush \in [pc : {"idle", "resolve", "group", "commit"},
                  batch : Seq(Candle), groups : Seq(SUBSET Candle)]
    /\ held \in Candle \cup {NoCandle}
    /\ rt \in {"RUNNING", "FENCED", "STOPPED"} /\ accepting \in BOOLEAN
    /\ stop \in [pc : {"no", "closing", "flusher", "drain", "finished"},
                 fenced : BOOLEAN, closing : Conn \cup {None}]
    /\ registry \subseteq Symbol /\ cache \subseteq Symbol /\ fresh \in BOOLEAN
    /\ received \in 0..MaxCandles
    /\ accepted \subseteq Candle /\ settled \subseteq Candle /\ forfeit \in BOOLEAN

\* ShardRuntime.start
Init ==
    /\ ConnInit
    /\ queue = <<>> /\ pending = Empty
    /\ running = TRUE /\ flusher = TRUE /\ flush = NoFlush /\ held = NoCandle
    /\ rt = "RUNNING" /\ accepting = TRUE
    /\ stop = [pc |-> "no", fenced |-> FALSE, closing |-> None]
    /\ registry = Symbol /\ cache = Symbol /\ fresh = FALSE
    /\ received = 0 /\ accepted = {} /\ settled = {} /\ forfeit = FALSE

-----------------------------------------------------------------------------
(* enqueue_candle *)

Enqueue(e) ==
    /\ queue' = Append(queue, e)
    /\ pending' = [pending EXCEPT ![e[1]] = @ + 1]
    /\ accepted' = accepted \cup {e}

\* A valid final candle arrives.  The consumer ends when work is no longer
\* accepted; the pipeline refuses it, takes it, or lets it wait.
RecvCandle(e) ==
    /\ st.pc = "recv" /\ sock[st.ws] = "subscribed" /\ ~stopReq
    /\ received < MaxCandles
    /\ received' = received + 1
    /\ IF ~accepting
       THEN st' = At("done") /\ UNCHANGED <<queue, pending, held, accepted>>
       ELSE IF ~running \/ rt # "RUNNING" \/ pending[e[1]] >= MaxPending
       THEN st' = AfterFrame /\ UNCHANGED <<queue, pending, held, accepted>>
       ELSE IF Len(queue) < QueueMax
       THEN Enqueue(e) /\ st' = AfterFrame /\ UNCHANGED held
       ELSE /\ st' = [st EXCEPT !.pc = "put"] /\ held' = e
            /\ UNCHANGED <<queue, pending, accepted>>
    /\ UNCHANGED <<sock, cur, stopReq, faults, running, flusher, flush, settled, forfeit>>
    /\ UNCHANGED <<rtVars, regVars>>

\* Mutant: after two seconds the candle enters the full queue.
PutForces ==
    /\ st.pc = "put"
    /\ Enqueue(held)
    /\ held' = NoCandle
    /\ st' = AfterFrame
    /\ UNCHANGED <<sock, cur, stopReq, faults, running, flusher, flush>>
    /\ UNCHANGED <<rtVars, regVars, received, settled, forfeit>>

\* The wait for room ends: there is room, or two seconds have passed.
\* wait_for runs the put in the caller's own task, so that nothing comes
\* between the put and the counting.
PutEnds ==
    /\ st.pc = "put"
    /\ IF Len(queue) < QueueMax THEN Enqueue(held) ELSE UNCHANGED <<queue, pending, accepted>>
    /\ held' = NoCandle
    /\ st' = AfterFrame
    /\ UNCHANGED <<sock, cur, stopReq, faults, running, flusher, flush>>
    /\ UNCHANGED <<rtVars, regVars, received, settled, forfeit>>

-----------------------------------------------------------------------------
(* The batch: _drain_batch_items and _process_and_flush_batch *)

\* Up to BatchSize candles leave the queue; a fenced runtime drops them.
Drain ==
    /\ queue # <<>>
    /\ LET n == IF Len(queue) < BatchSize THEN Len(queue) ELSE BatchSize
           batch == SubSeq(queue, 1, n)
       IN  /\ queue' = SubSeq(queue, n + 1, Len(queue))
           /\ pending' = [s \in Symbol |->
                pending[s] - Cardinality({i \in 1..n : batch[i][1] = s})]
           /\ flush' = IF rt = "RUNNING"
                       THEN [NoFlush EXCEPT !.pc = "resolve", !.batch = batch]
                       ELSE NoFlush

\* The flusher wakes by its timer or trigger, and the stop drains what is left.
FlushBegins ==
    /\ flush.pc = "idle"
    /\ (flusher /\ running) \/ stop.pc = "drain"
    /\ Drain
    /\ UNCHANGED <<connVars, running, flusher, held, rtVars, regVars, histVars>>

FlusherEnds ==
    /\ flusher /\ ~running /\ flush.pc = "idle"
    /\ flusher' = FALSE
    /\ UNCHANGED <<connVars, queue, pending, running, flush, held>>
    /\ UNCHANGED <<rtVars, regVars, histVars>>

\* Mutant: the stream task is left to notice the fence by itself.
FenceKeepsStream(p) ==
    /\ rt # "FENCED"
    /\ rt' = "FENCED" /\ accepting' = FALSE
    /\ running' = FALSE /\ queue' = <<>> /\ pending' = Empty
    /\ settled' = p /\ forfeit' = TRUE
    /\ UNCHANGED <<sock, st, held, cur, stopReq, stop, regVars, received, accepted>>

\* ShardRuntime.fence; p are the candles settled by then.
Fence(p) ==
    /\ rt # "FENCED"
    /\ rt' = "FENCED" /\ accepting' = FALSE
    /\ running' = FALSE /\ queue' = <<>> /\ pending' = Empty
    /\ StreamCancelled(sock)
    /\ held' = NoCandle
    /\ settled' = p /\ forfeit' = TRUE
    /\ UNCHANGED <<cur, stopReq, stop, regVars, received, accepted>>

\* The flusher's own fatal error; a fenced runtime is not fenced again.
FatalError ==
    /\ flush' = NoFlush
    /\ UNCHANGED flusher
    /\ IF rt = "FENCED"
       THEN UNCHANGED <<rt, accepting, running, queue, pending, held, st, sock, cur, stopReq,
                        stop, regVars, histVars>>
       ELSE Fence(settled)

\* Candles of active symbols, grouped by asset; each minute of one once.
GroupsOf(batch, active) ==
    LET symbols == {e[1] : e \in ToSet(batch)} \cap active
    IN  SetToSeq({{e \in ToSet(batch) : e[1] = s} : s \in symbols})

\* resolve_symbol for each candle; an expired cache is loaded again, or the
\* registry is unavailable and the runtime fences itself.
ResolveSymbols ==
    /\ flush.pc = "resolve"
    /\ \/ LET active == IF fresh THEN cache ELSE registry IN
          /\ cache' = active /\ fresh' = TRUE
          /\ flush' = [pc |-> "group", batch |-> <<>>,
                       groups |-> GroupsOf(flush.batch, active)]
          /\ settled' = settled \cup {e \in ToSet(flush.batch) : e[1] \notin active}
          /\ UNCHANGED <<connVars, queue, pending, running, flusher, held, rtVars>>
          /\ UNCHANGED <<registry, received, accepted, forfeit>>
       \/ ~fresh /\ Fault /\ FatalError

\* The fence is asked before each asset.
NextGroup ==
    /\ flush.pc = "group"
    /\ flush' = IF flush.groups = <<>> \/ rt # "RUNNING" THEN NoFlush
                ELSE [flush EXCEPT !.pc = "commit"]
    /\ UNCHANGED <<connVars, queue, pending, running, flusher, held>>
    /\ UNCHANGED <<rtVars, regVars, histVars>>

\* Mutant: a failed commit ends the batch.
CommitFailsBatch ==
    /\ flush.pc = "commit" /\ Fault
    /\ settled' = settled \cup Head(flush.groups)
    /\ flush' = NoFlush
    /\ UNCHANGED <<sock, cur, st, stopReq, queue, pending, running, flusher, held>>
    /\ UNCHANGED <<rtVars, regVars, received, accepted, forfeit>>

\* The asset's transaction fails or times out: the other assets go on.
CommitFails ==
    /\ flush.pc = "commit" /\ Fault
    /\ settled' = settled \cup Head(flush.groups)
    /\ flush' = [flush EXCEPT !.pc = "group", !.groups = Tail(@)]
    /\ UNCHANGED <<sock, cur, st, stopReq, queue, pending, running, flusher, held>>
    /\ UNCHANGED <<rtVars, regVars, received, accepted, forfeit>>

\* The asset's transaction commits.
CommitSucceeds ==
    /\ flush.pc = "commit"
    /\ settled' = settled \cup Head(flush.groups)
    /\ flush' = [flush EXCEPT !.pc = "group", !.groups = Tail(@)]
    /\ UNCHANGED <<connVars, queue, pending, running, flusher, held>>
    /\ UNCHANGED <<rtVars, regVars, received, accepted, forfeit>>

\* The transaction finds that the shard has a newer owner.
CommitFenced ==
    /\ flush.pc = "commit" /\ Fault
    /\ FatalError

-----------------------------------------------------------------------------
(* The runtime *)

\* A batch that is cancelled while it commits may or may not have committed.
CutOff == {settled} \cup (IF flush.pc = "commit"
                          THEN {settled \cup Head(flush.groups)} ELSE {})

\* The lease heartbeat fences the runtime; a flusher is cancelled, a stop that
\* drains is not.
HeartbeatFences ==
    /\ stop.pc # "finished"
    /\ \E p \in (IF flusher THEN CutOff ELSE {settled}) : Fence(p)
    /\ flush' = IF flusher THEN NoFlush ELSE flush
    /\ UNCHANGED <<flusher, faults>>

\* runtime.stop: disconnect begins; without a connection it does not wait.
StopBegins ==
    /\ stop.pc = "no" /\ rt # "STOPPED"
    /\ accepting' = FALSE /\ stopReq' = TRUE
    /\ stop' = [pc |-> IF cur = None THEN "flusher" ELSE "closing",
                fenced |-> rt = "FENCED", closing |-> cur]
    /\ IF cur = None
       THEN StreamCancelled(sock) /\ held' = NoCandle /\ running' = FALSE
       ELSE UNCHANGED <<st, sock, held, running>>
    /\ UNCHANGED <<cur, faults, queue, pending, flusher, flush, rt, regVars, histVars>>

\* disconnect ends, the stream task is cancelled, the flusher is asked to end.
StopCloses ==
    /\ stop.pc = "closing"
    /\ cur' = None
    /\ StreamCancelled(Closed(stop.closing))
    /\ held' = NoCandle /\ running' = FALSE
    /\ stop' = [stop EXCEPT !.pc = "flusher"]
    /\ UNCHANGED <<stopReq, faults, queue, pending, flusher, flush, rt, accepting>>
    /\ UNCHANGED <<regVars, histVars>>

\* Mutant: the stop ends with the flusher; what is left in the queue is not drained.
StopJoinsUndrained ==
    /\ stop.pc = "flusher"
    /\ ~flusher
    /\ flusher' = FALSE
    /\ stop' = [stop EXCEPT !.pc = "finished"]
    /\ UNCHANGED <<connVars, queue, pending, running, held, flush>>
    /\ UNCHANGED <<rt, accepting, regVars, histVars>>

\* pipeline.stop: the flusher has ended, or is cancelled after two seconds.
StopJoins ==
    /\ stop.pc = "flusher"
    /\ \/ ~flusher /\ UNCHANGED <<faults, flush, settled, forfeit>>
       \/ /\ flusher /\ flush.pc # "idle" /\ Fault
          /\ settled' \in CutOff
          /\ flush' = NoFlush /\ forfeit' = TRUE
    /\ flusher' = FALSE
    /\ stop' = [stop EXCEPT !.pc = IF stop.fenced THEN "finished" ELSE "drain"]
    /\ UNCHANGED <<sock, cur, st, stopReq, queue, pending, running, held>>
    /\ UNCHANGED <<rt, accepting, regVars, received, accepted>>

\* The queue is drained; the runtime is stopped, whatever fenced it meanwhile.
StopEnds ==
    /\ stop.pc = "drain" /\ flush.pc = "idle" /\ queue = <<>>
    /\ stop' = [stop EXCEPT !.pc = "finished"]
    /\ rt' = "STOPPED"
    /\ UNCHANGED <<connVars, pipeVars, accepting, regVars, histVars>>

-----------------------------------------------------------------------------
(* The registry *)

\* An operator deactivates an asset; the cache passes its TTL.
Deactivate(s) ==
    /\ s \in registry
    /\ registry' = registry \ {s}
    /\ UNCHANGED <<connVars, pipeVars, rtVars, cache, fresh, histVars>>

CacheExpires ==
    /\ fresh
    /\ fresh' = FALSE
    /\ UNCHANGED <<connVars, pipeVars, rtVars, registry, cache, histVars>>

-----------------------------------------------------------------------------
Connector == ConnNext /\ UNCHANGED <<pipeVars, rtVars, regVars, histVars>>

FlushStep ==
    FlushBegins \/ FlusherEnds \/ ResolveSymbols \/ NextGroup \/ CommitSucceeds

StopStep == StopCloses \/ StopJoins \/ StopEnds

Next ==
    \/ Connector
    \/ \E e \in Candle : RecvCandle(e)
    \/ PutEnds
    \/ FlushStep \/ CommitFails \/ CommitFenced
    \/ HeartbeatFences \/ StopBegins \/ StopStep
    \/ \E s \in Delisted : Deactivate(s)
    \/ CacheExpires

Spec == Init /\ [][Next]_vars

\* The event loop runs each ready task, and awaits end or time out.
Fairness ==
    /\ WF_vars(StreamStep /\ UNCHANGED <<pipeVars, rtVars, regVars, histVars>>)
    /\ WF_vars(PutEnds)
    /\ WF_vars(FlushStep)
    /\ WF_vars(StopStep)

FairSpec == Spec /\ Fairness

-----------------------------------------------------------------------------
(* Properties *)

\* The counters bound what each asset has in the queue, and a fenced runtime's
\* queue stays empty, although a candle may have waited for room in it.
QueueIsCounted ==
    /\ \A s \in Symbol :
         pending[s] = Cardinality({i \in DOMAIN queue : queue[i][1] = s})
    /\ rt = "FENCED" => queue = <<>>

\* Candles on their way from the queue to the database.
InFlight == ToSet(queue) \cup ToSet(flush.batch) \cup UNION ToSet(flush.groups)

\* Unless the shard was lost or a flush cut off, every candle that entered the
\* queue is settled or on its way, through batches, failed assets, symbols that
\* were delisted meanwhile and a stop in the middle of a batch; and when the stop
\* has finished none is on its way any more.
NothingIsDropped ==
    ~forfeit => /\ accepted \subseteq settled \cup InFlight
                /\ stop.pc = "finished" => accepted \subseteq settled

\* While the stream task lives it holds every open connection: no failure of
\* a connection or of a rotation, and no stop meanwhile, leaves one behind.
OpenIsHeld ==
    st.pc # "done" => \A c \in Conn : sock[c] # "none" => c \in Held

\* A candle that entered the queue is committed, or the transaction of its own
\* asset failed, or its asset is inactive, or the runtime lost the shard.
AcceptedSettles ==
    \A e \in Candle : e \in accepted ~> (e \in settled \/ forfeit)

\* After any failure the stream runs again, unless the runtime ends.
StreamRecovers ==
    ~(Connected /\ sock[cur] = "subscribed") /\ rt = "RUNNING"
        ~> \/ Connected /\ sock[cur] = "subscribed"
           \/ stopReq \/ rt # "RUNNING"
=============================================================================
