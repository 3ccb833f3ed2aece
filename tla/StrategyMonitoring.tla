------------------------- MODULE StrategyMonitoring -------------------------
(***************************************************************************)
(* Strategy comparison and monitoring (services/strategy_monitoring.py,    *)
(* strategy_comparison.py, divergence/contracts.py) of one activation.  A  *)
(* binding enrols the activation under a monitoring policy.  Producers     *)
(* persist comparison runs of consecutive windows, monitors turn the       *)
(* findings of each run into incidents and a health projection; both claim *)
(* the binding with the same expiring lease and work in short              *)
(* transactions that check it.                                             *)
(*                                                                         *)
(* Time is counted in bars; the window (start, end] of a run holds the     *)
(* bars after the previous run's end.  A claim's token is the worker slot, *)
(* as in DurableJobs.  Reference coverage is never complete (_build_input  *)
(* sets reference_complete to False), so every run is insufficient_        *)
(* reference: it has one coverage finding, and one signal finding per bar  *)
(* of "diverging" in its window.  The branches for healthy and divergent   *)
(* runs are unreachable and left out.  All registrations use the same      *)
(* reference and comparison policy; a changed one starts with no runs.     *)
(***************************************************************************)
EXTENDS Naturals, FiniteSets, FiniteSetsExt

CONSTANTS Producer, Monitor,    \* worker slots of the two actors
          NoWorker,
          Asset,
          Horizon,              \* bars evaluated by the live strategy
          Divergences,          \* the sets of bars that may be diverging
          MaxWindow,            \* STRATEGY_COMPARISON_MAX_WINDOW_SECONDS, in bars
          MaxBindings,          \* registrations in a behaviour
          MaxEvents             \* faults, stale periods and operator calls

ASSUME MonitoringAssumption ==
    /\ Producer \cap Monitor = {} /\ NoWorker \notin Producer \cup Monitor
    /\ Asset # {} /\ IsFiniteSet(Asset)
    /\ {Horizon, MaxWindow, MaxBindings} \subseteq Nat \ {0}
    /\ Divergences \subseteq SUBSET (1..Horizon)
    /\ MaxEvents \in Nat

VARIABLES
    act,        \* the activation: its status, and whether it stopped evaluating
    seen,       \* last_candle_timestamp of each asset, 0 when NULL
    diverging,  \* bars at which the reference has a signal the live run has not
    binding,    \* the strategy_monitoring_bindings rows
    health,     \* the strategy_health_states row
    runs,       \* strategy_comparison_runs
    assessed,   \* strategy_monitoring_assessments: <<run, binding>>
    inc,        \* strategy_incidents by binding and kind
    evidence,   \* evidence keys not derived from a finding: <<binding, kind, key>>
    job,        \* what each worker is doing
    events

vars == <<act, seen, diverging, binding, health, runs, assessed, inc, evidence, job, events>>
rows == <<act, seen, diverging, binding, health, runs, assessed, inc, evidence>>

Worker  == Producer \cup Monitor
Binding == 1..MaxBindings
Kind    == {"coverage", "signal", "stale", "uncompared", "runtime"}
Window  == {w \in [start : 0..Horizon, end : 1..Horizon] : w.start < w.end}
NoWindow == [start |-> 0, end |-> 0]
Run     == [window : Window, binding : Binding, late : BOOLEAN]
NoRow   == [status |-> "NONE", holder |-> NoWorker]
NoJob   == [pc |-> "idle", b |-> 0, window |-> NoWindow]

TypeOK ==
    /\ act \in [status : {"ACTIVE", "DEACTIVATED", "ERROR"}, stale : BOOLEAN]
    /\ seen \in [Asset -> 0..Horizon]
    /\ diverging \subseteq 1..Horizon
    /\ binding \in [Binding -> [status : {"NONE", "ACTIVE", "DEACTIVATED", "ERROR"},
                                holder : Worker \cup {NoWorker}]]
    /\ health \in [binding : 0..MaxBindings,
                   status : {"UNKNOWN", "DEGRADED", "STALE", "ERROR"},
                   cause : {"none", "reference", "behavior", "runtime"}]
    /\ runs \subseteq Run
    /\ assessed \subseteq runs \X Binding
    /\ inc \in [Binding -> [Kind -> [status : {"none", "open", "acknowledged", "resolved"},
                                     count : Nat]]]
    /\ evidence \subseteq Binding \X Kind \X (0..Horizon * Cardinality(Asset))
    /\ job \in [Worker -> [pc : {"idle", "plan", "persist", "assess", "renew",
                                 "finalize", "error", "release"},
                           b : 0..MaxBindings, window : Window \cup {NoWindow}]]
    /\ events \in 0..MaxEvents

Init ==
    /\ act = [status |-> "ACTIVE", stale |-> FALSE]
    /\ seen = [a \in Asset |-> 0]
    /\ diverging \in Divergences
    /\ binding = [b \in Binding |-> NoRow]
    /\ health = [binding |-> 0, status |-> "UNKNOWN", cause |-> "none"]
    /\ runs = {} /\ assessed = {} /\ evidence = {}
    /\ inc = [b \in Binding |-> [k \in Kind |-> [status |-> "none", count |-> 0]]]
    /\ job = [w \in Worker |-> NoJob]
    /\ events = 0

Event == events < MaxEvents /\ events' = events + 1
-----------------------------------------------------------------------------
(* The live strategy and the operators.                                    *)

\* The evaluator applies the next bar of an asset.
Evaluated(a) ==
    /\ act.status = "ACTIVE" /\ seen[a] < Horizon
    /\ seen' = [seen EXCEPT ![a] = @ + 1]
    /\ act' = [act EXCEPT !.stale = FALSE]
    /\ UNCHANGED <<diverging, binding, health, runs, assessed, inc, evidence, job, events>>

GoesStale ==
    /\ ~act.stale /\ act' = [act EXCEPT !.stale = TRUE]
    /\ Event
    /\ UNCHANGED <<seen, diverging, binding, health, runs, assessed, inc, evidence, job>>

ActivationEnds ==
    /\ act.status = "ACTIVE"
    /\ \E s \in {"DEACTIVATED", "ERROR"} : act' = [act EXCEPT !.status = s]
    /\ UNCHANGED <<seen, diverging, binding, health, runs, assessed, inc, evidence, job, events>>

Unknown(b) == [binding |-> b, status |-> "UNKNOWN", cause |-> "none"]
Ended(row, status) == [NoRow EXCEPT !.status = status]

\* A changed policy replaces the active binding; the same one is a no-op.
register ==
    /\ act.status = "ACTIVE"
    /\ \E b \in Binding :
          /\ \A c \in Binding : binding[c].status = "NONE" <=> c >= b
          /\ binding' = [c \in Binding |->
                CASE c = b -> [NoRow EXCEPT !.status = "ACTIVE"]
                  [] c # b /\ binding[c].status = "ACTIVE" -> Ended(binding[c], "DEACTIVATED")
                  [] OTHER -> binding[c]]
          /\ health' = Unknown(b)
          /\ IF b = 1 THEN UNCHANGED events ELSE Event
    /\ UNCHANGED <<act, seen, diverging, runs, assessed, inc, evidence, job>>

deactivate(b) ==
    /\ binding[b].status = "ACTIVE"
    /\ binding' = [binding EXCEPT ![b] = Ended(@, "DEACTIVATED")]
    /\ health' = IF health.binding = b THEN Unknown(b) ELSE health
    /\ UNCHANGED <<act, seen, diverging, runs, assessed, inc, evidence, job, events>>

\* acknowledge_incident and resolve_incident.
OperatorCall(b, k) ==
    /\ Event
    /\ \/ inc[b][k].status = "open" /\ inc' = [inc EXCEPT ![b][k].status = "acknowledged"]
       \/ inc[b][k].status \in {"open", "acknowledged"}
          /\ inc' = [inc EXCEPT ![b][k].status = "resolved"]
    /\ UNCHANGED <<act, seen, diverging, binding, health, runs, assessed, evidence, job>>
-----------------------------------------------------------------------------
(* The claim of a binding.                                                 *)

At(w, pc) == job[w].pc = pc
Goto(w, pc) == job' = [job EXCEPT ![w].pc = pc]

_claim_binding(w) ==
    /\ At(w, "idle")
    /\ \E b \in Binding :
          /\ binding[b].status = "ACTIVE" /\ binding[b].holder = NoWorker
          /\ binding' = [binding EXCEPT ![b].holder = w]
          /\ job' = [job EXCEPT ![w] = [NoJob EXCEPT
                        !.pc = IF w \in Producer THEN "plan" ELSE "assess", !.b = b]]
    /\ UNCHANGED <<act, seen, diverging, health, runs, assessed, inc, evidence, events>>

\* An expired claim is as good as none: anyone may claim the binding, and the
\* former holder no longer owns it.  A worker that is still at work when its
\* claim runs out is a fault: a cycle is far shorter than the lease.
ClaimExpires(b) ==
    /\ binding[b].holder # NoWorker
    /\ binding' = [binding EXCEPT ![b].holder = NoWorker]
    /\ IF job[binding[b].holder].b = b THEN Event ELSE UNCHANGED events
    /\ UNCHANGED <<act, seen, diverging, health, runs, assessed, inc, evidence, job>>

\* Mutant: a worker goes on with a binding it once claimed.
owned_once(w) == job[w].b # 0

_owned_binding(w) ==
    LET row == binding[job[w].b] IN row.status = "ACTIVE" /\ row.holder = w

\* Clears the claim only if it is still this worker's; a failing release
\* leaves it to its expiry.
_release_claim(w) ==
    /\ At(w, "release")
    /\ \/ /\ binding' = [binding EXCEPT ![job[w].b] =
                           IF @.holder = w THEN [@ EXCEPT !.holder = NoWorker] ELSE @]
          /\ UNCHANGED events
       \/ Event /\ UNCHANGED binding
    /\ job' = [job EXCEPT ![w] = NoJob]
    /\ UNCHANGED <<act, seen, diverging, health, runs, assessed, inc, evidence>>

WorkerDies(w) ==
    /\ ~At(w, "idle")
    /\ Event
    /\ job' = [job EXCEPT ![w] = NoJob]
    /\ UNCHANGED rows
-----------------------------------------------------------------------------
(* The producer.                                                           *)

PreviousEnd == Max({0} \cup {r.window.end : r \in runs})

\* Mutant: the end of the previous window is not looked up.
plan_from_start(commonEnd) == [start |-> 0, end |-> commonEnd]

\* Mutant: the bar after the slowest cursor is included.
plan_one_more(commonEnd) == [start |-> PreviousEnd, end |-> commonEnd + 1]

PlannedWindow(commonEnd) ==
    [start |-> PreviousEnd,
     end |-> IF commonEnd < PreviousEnd + MaxWindow THEN commonEnd ELSE PreviousEnd + MaxWindow]

\* The window ends at the slowest cursor; assets without one are left out.  The
\* transaction may fail, as it does on a stored policy that is not valid.
_next_comparison_plan(w) ==
    LET cursors == {seen[a] : a \in Asset} \ {0}
        window  == PlannedWindow(Min(cursors))
    IN  /\ At(w, "plan")
        /\ \/ /\ IF /\ _owned_binding(w) /\ act.status = "ACTIVE"
                    /\ cursors # {} /\ Min(cursors) > PreviousEnd /\ window.start < window.end
                 THEN job' = [job EXCEPT ![w].pc = "persist", ![w].window = window]
                 ELSE Goto(w, "release")
              /\ UNCHANGED events
           \/ Event /\ Goto(w, "error")
        /\ UNCHANGED rows

\* The run's id is a hash of its input: the same comparison is stored once.
_persist_loaded(run) ==
    IF \E r \in runs : r.window = run.window /\ r.binding = run.binding
    THEN runs ELSE runs \cup {run}

\* A transaction that does not look at the claim.
compare_activation(w) ==
    LET run == [window |-> job[w].window, binding |-> job[w].b, late |-> ~_owned_binding(w)]
    IN  /\ At(w, "persist")
        /\ \/ /\ runs' = _persist_loaded(run)
              /\ Goto(w, "release")
              /\ UNCHANGED events
           \/ Event /\ Goto(w, "error") /\ UNCHANGED runs
        /\ UNCHANGED <<act, seen, diverging, binding, health, assessed, inc, evidence>>
-----------------------------------------------------------------------------
(* The monitor.                                                            *)

Signals(r) == Cardinality(diverging \cap (r.window.start + 1 .. r.window.end))
Unassessed == {r \in runs : \A b \in Binding : <<r, b>> \notin assessed}

\* Mutant: runs without a complete reference, which all of them are, are skipped.
pending_complete == {}

Pending == Unassessed

\* The session does not flush before a query, so two findings of one new
\* incident are inserted as two incidents with the same dedup_key: the
\* transaction fails.
Colliding(r, b) == Signals(r) > 1 /\ inc[b]["signal"].status = "none"

\* An incident after n more pieces of evidence.
Recorded(i, n) ==
    IF n = 0 THEN i
    ELSE [status |-> IF i.status \in {"none", "resolved"} THEN "open" ELSE i.status,
          count |-> i.count + n]

\* _process_comparison_run: the findings become evidence, and the coverage
\* finding alone leaves the health unknown.
_process_comparison_run(r, b) ==
    /\ inc' = [inc EXCEPT ![b]["coverage"] = Recorded(@, 1),
                          ![b]["signal"] = Recorded(@, Signals(r))]
    /\ assessed' = assessed \cup {<<r, b>>}
    /\ health' = IF Signals(r) = 0 THEN Unknown(b)
                 ELSE [binding |-> b, status |-> "DEGRADED", cause |-> "behavior"]

\* Mutant: evidence already recorded is counted again.
once_always(b, k, key) == Recorded(inc[b][k], 1)

\* Evidence with a key counts once; it does not reopen what was resolved.
Once(b, k, key) == IF <<b, k, key>> \in evidence THEN inc[b][k] ELSE Recorded(inc[b][k], 1)

RuntimeError(b) == [binding |-> b, status |-> "ERROR", cause |-> "runtime"]

\* The evidence key is the failure's text: 0 for the activation's own error.
_record_activation_runtime_failure(b, key) ==
    /\ inc' = [inc EXCEPT ![b]["runtime"] = Once(b, "runtime", key)]
    /\ evidence' = evidence \cup {<<b, "runtime", key>>}
    /\ health' = RuntimeError(b)

\* The head of _process_one_comparison and _finalize_binding_cycle for an
\* activation that is no longer active.
NotActive(b) ==
    /\ binding' = [binding EXCEPT ![b].status =
                      IF act.status = "ERROR" THEN "ERROR" ELSE "DEACTIVATED"]
    /\ IF act.status = "ERROR"
       THEN _record_activation_runtime_failure(b, 0)
       ELSE health' = Unknown(b) /\ UNCHANGED <<inc, evidence>>

_process_one_comparison(w) ==
    LET b == job[w].b
    IN  /\ At(w, "assess")
        /\ UNCHANGED <<act, seen, diverging, runs>>
        /\ CASE ~_owned_binding(w) ->
                  Goto(w, "finalize") /\ UNCHANGED <<binding, health, assessed, inc, evidence, events>>
             [] _owned_binding(w) /\ act.status # "ACTIVE" ->
                  NotActive(b) /\ Goto(w, "finalize") /\ UNCHANGED <<assessed, events>>
             [] _owned_binding(w) /\ act.status = "ACTIVE" /\ Pending = {} ->
                  Goto(w, "finalize") /\ UNCHANGED <<binding, health, assessed, inc, evidence, events>>
             [] OTHER ->
                  \E r \in {p \in Pending : \A q \in Pending : p.window.end <= q.window.end} :
                     \/ /\ ~Colliding(r, b)
                        /\ _process_comparison_run(r, b)
                        /\ Goto(w, "renew")
                        /\ UNCHANGED <<binding, evidence, events>>
                     \/ /\ (Colliding(r, b) /\ UNCHANGED events) \/ Event
                        /\ Goto(w, "error")
                        /\ UNCHANGED <<binding, health, assessed, inc, evidence>>

\* The batch goes on while the claim can be renewed and its bound allows.
_renew_claim(w) ==
    /\ At(w, "renew")
    /\ \/ _owned_binding(w) /\ Goto(w, "assess")
       \/ Goto(w, "finalize")
    /\ UNCHANGED <<rows, events>>

\* _evaluate_comparison_freshness.  No comparison is ever complete, so a
\* binding that was found uncompared stays so.  Which of the two causes is
\* projected is up to the severities in the policy.
Freshness(b, uncompared) ==
    {h \in [binding : {b}, status : {"UNKNOWN", "DEGRADED", "STALE", "ERROR"},
            cause : {"none", "reference", "behavior", "runtime"}] :
        IF ~uncompared THEN h = [health EXCEPT !.binding = b]
        ELSE \/ h.cause = "reference" /\ h.status = "DEGRADED"
             \/ h.cause = health.cause /\ h.cause = "runtime" /\ h.status = "ERROR"
             \/ h.cause = health.cause /\ h.cause = "behavior" /\ h.status = "DEGRADED"}

\* _evaluate_staleness, on the health left by the freshness check.
Staleness(b, h) ==
    IF act.stale THEN [binding |-> b, status |-> "STALE", cause |-> "runtime"]
    ELSE IF h.status = "STALE" THEN Unknown(b) ELSE h

Recovered(i) == IF i.status \in {"open", "acknowledged"} THEN [i EXCEPT !.status = "resolved"] ELSE i

\* The number of evaluations so far stands for last_evaluated_at.
Baseline == Cardinality({x \in Asset \X (1..Horizon) : x[2] <= seen[x[1]]})

FinalizeActive(b) ==
    \E uncompared \in BOOLEAN :
        /\ <<b, "uncompared", 0>> \in evidence => uncompared
        /\ \E h \in Freshness(b, uncompared) : health' = Staleness(b, h)
        /\ inc' = [inc EXCEPT
              ![b]["uncompared"] = IF uncompared THEN Once(b, "uncompared", 0) ELSE Recovered(@),
              ![b]["stale"] = IF act.stale THEN Once(b, "stale", Baseline) ELSE Recovered(@)]
        /\ evidence' = evidence
              \cup (IF uncompared THEN {<<b, "uncompared", 0>>} ELSE {})
              \cup (IF act.stale THEN {<<b, "stale", Baseline>>} ELSE {})

_finalize_binding_cycle(w) ==
    /\ At(w, "finalize")
    /\ UNCHANGED <<act, seen, diverging, runs, assessed>>
    /\ \/ /\ Event /\ Goto(w, "error") /\ UNCHANGED <<binding, health, inc, evidence>>
       \/ /\ Goto(w, "release") /\ UNCHANGED events
          /\ CASE ~_owned_binding(w) -> UNCHANGED <<binding, health, inc, evidence>>
               [] _owned_binding(w) /\ act.status # "ACTIVE" -> NotActive(job[w].b)
               [] OTHER -> FinalizeActive(job[w].b) /\ UNCHANGED binding

\* The owner makes the failure of its cycle durable; the error text is one of
\* its own (key 1).
_record_binding_error(w) ==
    /\ At(w, "error")
    /\ Goto(w, "release")
    /\ IF _owned_binding(w) THEN _record_activation_runtime_failure(job[w].b, 1)
       ELSE UNCHANGED <<health, inc, evidence>>
    /\ UNCHANGED <<act, seen, diverging, binding, runs, assessed, events>>
-----------------------------------------------------------------------------
Step(w) ==
    \/ _next_comparison_plan(w) \/ compare_activation(w)
    \/ _process_one_comparison(w) \/ _renew_claim(w)
    \/ _finalize_binding_cycle(w) \/ _record_binding_error(w) \/ _release_claim(w)

Next ==
    \/ \E a \in Asset : Evaluated(a)
    \/ GoesStale \/ ActivationEnds \/ register
    \/ \E b \in Binding :
          \/ deactivate(b) \/ ClaimExpires(b)
          \/ \E k \in Kind : OperatorCall(b, k)
    \/ \E w \in Worker : _claim_binding(w) \/ Step(w) \/ WorkerDies(w)

Spec == Init /\ [][Next]_vars

\* Both actors are dispatched for ever and finish their cycles; claims expire.
\* A claim that is held makes a cycle skip the binding, so that a monitor gets
\* it in the end is strong fairness.
Fairness ==
    /\ \A w \in Worker : WF_vars(Step(w))
    /\ \A w \in Monitor : SF_vars(_claim_binding(w))
    /\ \A b \in Binding : WF_vars(ClaimExpires(b))

FairSpec == Spec /\ Fairness
-----------------------------------------------------------------------------
\* The windows compared follow each other without a hole, and two of them
\* overlap only if one was stored by a producer that no longer owned the
\* binding it had planned for.
WindowsTile ==
    /\ \A r \in runs : r.window.start = 0 \/ \E q \in runs : q.window.end = r.window.start
    /\ \A r, q \in runs :
          (r # q /\ r.window.start < q.window.end /\ q.window.start < r.window.end)
              => r.late \/ q.late

\* The health row follows the latest registration, and says nothing about a
\* strategy that is no longer monitored: a worker that lost its claim to a
\* deactivation or a new policy cannot write its verdict afterwards.
UnenrolledIsUnknown ==
    \A b \in Binding :
        /\ binding[b].status = "ACTIVE" => health.binding = b
        /\ binding[b].status = "DEACTIVATED" /\ health.binding = b => health.status = "UNKNOWN"

\* The runs a binding has assessed, the divergences in the windows of some
\* runs, and the keys of one of its kinds of evidence.
Mine(b) == {r \in runs : <<r, b>> \in assessed}
DivergencesIn(S) ==
    {x \in S \X diverging : x[1].window.start < x[2] /\ x[2] <= x[1].window.end}
Keys(b, k) == {e \in evidence : e[1] = b /\ e[2] = k}

\* occurrence_count, which decides an incident's severity, is the number of
\* distinct pieces of evidence, in spite of repeated cycles, lost claims,
\* crashed workers and operators resolving incidents in between.
EvidenceIsCounted ==
    \A b \in Binding :
        /\ inc[b]["coverage"].count = Cardinality(Mine(b))
        /\ inc[b]["signal"].count = Cardinality(DivergencesIn(Mine(b)))
        /\ \A k \in {"stale", "uncompared", "runtime"} :
              inc[b][k].count = Cardinality(Keys(b, k))

\* A comparison waits for the monitor of an active binding, and none of those
\* waiting is one whose incidents collide.
Waiting ==
    /\ act.status = "ACTIVE" /\ Unassessed # {}
    /\ \E b \in Binding : binding[b].status = "ACTIVE" /\ \A r \in Unassessed : ~Colliding(r, b)

\* Every comparison of a monitored strategy is assessed in the end, whatever
\* claims are lost or left behind, unless one that can never be is in the way.
ComparisonsAreAssessed == Waiting ~> ~Waiting
=============================================================================
