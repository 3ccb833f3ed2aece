---------------------------- MODULE LiveStrategy ----------------------------
(***************************************************************************)
(* Live strategy evaluation (services/live_strategy.py, live_strategies/   *)
(* contracts.py): one activation, its per-asset state rows and the         *)
(* observations it appends.  A worker lists the active activations, locks  *)
(* the activation row and, in one transaction, evaluates a bounded batch   *)
(* of canonical candles for a rotating slice of its assets.                *)
(*                                                                         *)
(* A candle is its asset and its bar number after activated_at; candles    *)
(* appear in any order, since repair inserts old ones.  Which signal a     *)
(* close price matches is a choice made when the candle is evaluated.      *)
(* Stored rows satisfy the table constraints, so evaluate_live_candle's    *)
(* invalid outcomes and the caught evaluation error do not arise.          *)
(***************************************************************************)
EXTENDS DispatchLease, Integers, Sequences, FiniteSetsExt

CONSTANTS Asset,        \* asset ids of the universe: 1..n, ordered
          Feed,         \* the candles that can appear: <<asset, bar after activated_at>>
          Entries,      \* directions of the strategy's entry signals
          AssetLimit,   \* LIVE_STRATEGY_MAX_ASSETS_PER_CYCLE
          CandleLimit,  \* candles read per asset and cycle
          MaxOpen,      \* position.max_open_positions
          Reversal      \* position.allow_reversal

ASSUME StrategyAssumption ==
    /\ Asset \subseteq Nat \ {0} /\ Asset # {} /\ IsFiniteSet(Asset)
    /\ Feed \subseteq Asset \X (Nat \ {0}) /\ IsFiniteSet(Feed)
    /\ Entries \subseteq {"LONG", "SHORT"}
    /\ {AssetLimit, CandleLimit, MaxOpen} \subseteq Nat \ {0}
    /\ Reversal \in BOOLEAN

VARIABLES
    present,    \* the canonical candles stored: <<asset, bar>>
    act,        \* the live_strategy_activations row
    state,      \* the live_strategy_states rows
    obs         \* per candle, the status of its last observation

strategyVars == <<present, act, state, obs>>
vars == <<dispatchVars, strategyVars>>

Bar      == {c[2] : c \in Feed}
Position == {"FLAT", "LONG", "SHORT"}
Health   == {"UNKNOWN", "HEALTHY", "DEGRADED", "ERROR", "STOPPED"}
Signal   == {"none", "EXIT"} \cup Entries

\* last_candle_timestamp and asset_cursor are 0 when NULL.
TypeOK ==
    /\ DispatchTypeOK
    /\ present \subseteq Feed
    /\ act \in [status : {"NONE", "ACTIVE", "DEACTIVATED", "ERROR"}, health : Health,
                cursor : Asset \cup {0}, open : 0..Cardinality(Asset)]
    /\ state \in [Asset -> [last : Bar \cup {0}, pos : Position, health : Health]]
    /\ obs \in [Feed -> {"none", "gap", "evaluated"}]

NewState == [last |-> 0, pos |-> "FLAT", health |-> "UNKNOWN"]

Init ==
    /\ DispatchInit
    /\ present = {}
    /\ act = [status |-> "NONE", health |-> "UNKNOWN", cursor |-> 0, open |-> 0]
    /\ state = [a \in Asset |-> NewState]
    /\ obs = [c \in Feed |-> "none"]

\* The ingestion path stores a candle.
CandleArrives ==
    /\ \E c \in Feed \ present : present' = present \cup {c}
    /\ UNCHANGED <<act, state, obs, dispatchVars>>

Locked == \E w \in Worker : At(w, "locked")

\* A second activation of the same configuration finds this row.
activate ==
    /\ act.status = "NONE"
    /\ act' = [act EXCEPT !.status = "ACTIVE"]
    /\ UNCHANGED <<present, state, obs, dispatchVars>>

\* Waits for the row lock of an evaluation in progress.
deactivate ==
    /\ act.status = "ACTIVE" /\ ~Locked
    /\ act' = [act EXCEPT !.status = "DEACTIVATED", !.health = "STOPPED"]
    /\ state' = [a \in Asset |-> [state[a] EXCEPT !.health = "STOPPED"]]
    /\ UNCHANGED <<present, obs, dispatchVars>>
-----------------------------------------------------------------------------
First(S, n) == {x \in S : Cardinality({y \in S : y < x}) < n}

\* Mutant: a slice that reaches the last asset does not start over.
slice_no_wrap == First({a \in Asset : a > act.cursor}, AssetLimit)

\* The next assets after the cursor, from the first one again at the end.
_locked_state_slice ==
    LET after == {a \in Asset : a > act.cursor}
    IN  First(IF after = {} THEN Asset ELSE after, AssetLimit)

\* Assets in the order of their ids, and the candles of each in time order.
Before(c, d) == c[1] < d[1] \/ (c[1] = d[1] /\ c[2] < d[2])

\* The sequence of the candles of S in this order, the only one there is.
InOrder(S) ==
    {s \in [1..Cardinality(S) -> S] : \A i, j \in DOMAIN s : i < j => Before(s[i], s[j])}

_read_canonical_candles(a) ==
    First({t \in Bar : <<a, t>> \in present /\ t > state[a].last}, CandleLimit)

\* Mutant: the first bar after a hole is evaluated.
continues_any(st, t) == t > st.last

\* evaluate_live_candle accepts any first candle, then only the next bar.
Continues(st, t) == st.last = 0 \/ t = st.last + 1

\* The position evaluate_live_candle ends in.  A flat asset that may not open
\* a position falls through to the reversal branch.
PositionAfter(pos, sig, canOpen) ==
    CASE sig = "none" -> pos
      [] sig = "EXIT" -> "FLAT"
      [] OTHER -> IF (pos = "FLAT" /\ canOpen) \/ Reversal THEN sig ELSE pos

\* Mutant: the count is not lowered when a position closes.
opened_only(before, after) == IF before = "FLAT" /\ after # "FLAT" THEN 1 ELSE 0

\* Mutant: the two ends of a position are counted the wrong way round.
opened_swapped(before, after) ==
    CASE before = "FLAT" /\ after # "FLAT" -> -1
      [] before # "FLAT" /\ after = "FLAT" -> 1
      [] OTHER -> 0

Opened(before, after) ==
    CASE before = "FLAT" /\ after # "FLAT" -> 1
      [] before # "FLAT" /\ after = "FLAT" -> -1
      [] OTHER -> 0

\* _refresh_activation_health.  The worker's session does not flush before a
\* query, so the rows read are those of the last committed transaction.
_refresh_activation_health ==
    LET healths == {state[a].health : a \in Asset}
    IN  IF "ERROR" \in healths THEN "ERROR"
        ELSE IF "DEGRADED" \in healths THEN "DEGRADED"
        ELSE IF "UNKNOWN" \in healths \/ \E a \in Asset : state[a].last = 0 THEN "UNKNOWN"
        ELSE "HEALTHY"

\* _evaluate_and_persist of one candle.  run carries the rows as the
\* transaction has changed them and the assets whose batch was broken off.
_evaluate_and_persist(run, c, sig) ==
    LET a       == c[1]
        st      == run.state[a]
        canOpen == st.pos # "FLAT" \/ run.act.open < MaxOpen
        after   == PositionAfter(st.pos, sig, canOpen)
    IN  CASE a \in run.broken -> run
          [] a \notin run.broken /\ Continues(st, c[2]) ->
               [run EXCEPT
                  !.state[a] = [last |-> c[2], pos |-> after, health |-> "HEALTHY"],
                  !.act.open = @ + Opened(st.pos, after),
                  !.act.health = _refresh_activation_health,
                  !.obs[c] = "evaluated"]
          [] a \notin run.broken /\ ~Continues(st, c[2]) /\ run.obs[c] # "none" ->
               [run EXCEPT !.broken = @ \cup {a}]
          [] OTHER ->
               [run EXCEPT !.broken = @ \cup {a}, !.obs[c] = "gap",
                           !.state[a].health = "DEGRADED", !.act.health = "DEGRADED"]

\* The rows as they are after each candle of the batch.
Runs(start, order, sig) ==
    LET run[n \in 0..Len(order)] ==
            IF n = 0 THEN start
            ELSE _evaluate_and_persist(run[n - 1], order[n], sig[order[n]])
    IN  run
-----------------------------------------------------------------------------
\* process_active lists the active activations and locks this one, unless it
\* is locked or no longer active: the lock repeats the check of the listing.
_locked_active_activation(w) ==
    /\ At(w, "list")
    /\ Goto(w, IF act.status = "ACTIVE" /\ ~Locked THEN "locked" ELSE "release")
    /\ UNCHANGED <<lease, queued, strayed, faults, strategyVars>>

\* process_activation, up to its commit.
Evaluate(w) ==
    LET slice   == _locked_state_slice
        candles == UNION {{a} \X _read_canonical_candles(a) : a \in slice}
        start   == [act |-> IF slice = {} THEN act ELSE [act EXCEPT !.cursor = Max(slice)],
                    state |-> state, obs |-> obs, broken |-> {}]
    IN  /\ At(w, "locked")
        /\ \E order \in InOrder(candles), sig \in [candles -> Signal] :
              LET done == Runs(start, order, sig)[Len(order)]
              IN  act' = done.act /\ state' = done.state /\ obs' = done.obs
        /\ Goto(w, "release")
        /\ UNCHANGED <<present, lease, queued, strayed, faults>>

\* The stored definition or configuration is one the running code rejects.
DefinitionRejected(w) ==
    /\ At(w, "locked")
    /\ act' = [act EXCEPT !.status = "ERROR", !.health = "ERROR"]
    /\ Goto(w, "release")
    /\ UNCHANGED <<present, state, obs, lease, queued, strayed, faults>>

\* The transaction fails and is rolled back; process_active goes on.
EvaluationFails(w) ==
    /\ At(w, "locked")
    /\ Fault
    /\ Goto(w, "release")
    /\ UNCHANGED <<lease, queued, strayed, strategyVars>>

Next ==
    \/ CandleArrives \/ activate \/ deactivate
    \/ (Enqueue \/ LeaseExpires) /\ UNCHANGED strategyVars
    \/ \E w \in Worker :
          \/ _locked_active_activation(w) \/ Evaluate(w) \/ DefinitionRejected(w) \/ EvaluationFails(w)
          \/ /\ Take(w) \/ ReleaseLease(w) \/ Acknowledge(w) \/ ActorRaises(w) \/ WorkerDies(w)
             /\ UNCHANGED strategyVars

Spec == Init /\ [][Next]_vars

\* The scheduler keeps ticking, the lease has a time to live, and workers
\* take messages and run the actor to its end unless a fault stops them.
Fairness ==
    /\ WF_vars(Enqueue /\ UNCHANGED strategyVars)
    /\ WF_vars(LeaseExpires /\ UNCHANGED strategyVars)
    /\ \A w \in Worker :
          WF_vars(\/ _locked_active_activation(w) \/ Evaluate(w)
                  \/ (Take(w) \/ ReleaseLease(w) \/ Acknowledge(w)) /\ UNCHANGED strategyVars)

FairSpec == Spec /\ Fairness
-----------------------------------------------------------------------------
Evaluated(a) == {t \in Bar : <<a, t>> \in Feed /\ obs[<<a, t>>] = "evaluated"}

\* The bars evaluated for an asset are consecutive and end at its cursor,
\* whatever order the candles, the workers and the retries come in: no bar is
\* applied across a hole and the cursor never passes one that was not applied.
ObservedInOrder ==
    \A a \in Asset :
        /\ Evaluated(a) = {t \in Bar : \E u \in Evaluated(a) : u <= t} \cap 1..state[a].last
        /\ state[a].last > 0 => state[a].last \in Evaluated(a)

\* The count that decides whether another position may be opened is the number
\* of assets holding one, and without reversals it respects the strategy's limit.
PositionsAreCounted ==
    /\ act.open = Cardinality({a \in Asset : state[a].pos # "FLAT"})
    /\ ~Reversal => act.open <= MaxOpen

\* Some stored candle is the next one of its asset.
Behind ==
    /\ act.status = "ACTIVE"
    /\ \E c \in present : c[2] > state[c[1]].last /\ Continues(state[c[1]], c[2])

\* An active activation catches up with the stored candles: the rotation over
\* the assets, the bounded batches, lost workers, retries and leases left
\* behind keep no candle that can be evaluated waiting for ever.
EvaluationCatchesUp == Behind ~> ~Behind
=============================================================================
