-------------------------- MODULE MonitoringProofs --------------------------
(***************************************************************************)
(* Proofs about strategy monitoring, for any number of workers, assets,    *)
(* bars, registrations and events.  The claim of the only active binding   *)
(* is what keeps comparison windows and verdicts in order.                 *)
(***************************************************************************)
EXTENDS StrategyMonitoring, FiniteSetTheorems, WellFoundedInduction, TLAPS

\* A non-empty set of naturals has a least element.
LEMMA LeastExists ==
    ASSUME NEW S, S \subseteq Nat, S # {}
    PROVE  Min(S) \in S /\ \A y \in S : Min(S) <= y
<1> DEFINE Less == {ss \in Nat \X Nat : ss[1] < ss[2]}
<1>1. IsWellFoundedOn(Less, Nat)
  BY NatLessThanWellFounded DEF OpToRel
<1>2. \A p, q \in Nat : p < q => <<p, q>> \in Less
  OBVIOUS
<1> HIDE DEF Less
<1>3. PICK x \in S : \A y \in S : ~(<<y, x>> \in Less)
  BY <1>1, WFMin
<1>4. \A y \in S : x <= y
  <2> TAKE y \in S
  <2>1. x \in Nat /\ y \in Nat
    OBVIOUS
  <2>2. ~(y < x)
    BY <1>2, <1>3, <2>1, Zenon
  <2> QED BY <2>1, <2>2
<1> QED BY <1>4 DEF Min

\* A bounded non-empty set of naturals has a greatest element.
LEMMA GreatestExists ==
    ASSUME NEW n \in Nat, NEW S, S \subseteq 0..n, S # {}
    PROVE  Max(S) \in S /\ \A y \in S : Max(S) >= y
<1> DEFINE T == {n - y : y \in S}
<1>1. \A y \in S : y \in Nat /\ n - y \in Nat
  OBVIOUS
<1>2. T \subseteq Nat /\ T # {}
  BY <1>1
<1>3. Min(T) \in T /\ \A z \in T : Min(T) <= z
  BY <1>2, LeastExists
<1>4. PICK x \in S : Min(T) = n - x
  BY <1>3
<1>5. \A y \in S : x >= y
  BY <1>1, <1>3, <1>4
<1> QED BY <1>5 DEF Max

-----------------------------------------------------------------------------
CycleStep == {"idle", "plan", "persist", "assess", "renew", "finalize", "error", "release"}

RowInv ==
    /\ binding \in [Binding -> [status : {"NONE", "ACTIVE", "DEACTIVATED", "ERROR"},
                                holder : Worker \cup {NoWorker}]]
    /\ job \in [Worker -> [pc : CycleStep, b : 0..MaxBindings, window : Window \cup {NoWindow}]]
    /\ \A w \in Worker : ~At(w, "idle") => job[w].b \in Binding
    /\ seen \in [Asset -> 0..Horizon]
    /\ runs \subseteq Run

\* At most one binding of the activation is active.
OneActive ==
    \A b, c \in Binding : binding[b].status = "ACTIVE" /\ binding[c].status = "ACTIVE" => b = c

\* A planned window follows the runs stored, and as long as its producer owns
\* the binding every run that ends in or after it was stored without the claim.
PlanInv ==
    \A w \in Worker : At(w, "persist") =>
        /\ job[w].window \in Window
        /\ \/ job[w].window.start = 0
           \/ \E q \in runs : q.window.end = job[w].window.start
        /\ _owned_binding(w) =>
              \A q \in runs : q.late \/ q.window.end <= job[w].window.start

MInv == RowInv /\ OneActive /\ UnenrolledIsUnknown /\ PlanInv /\ WindowsTile

\* A step that stores no run, plans no window and gives nobody a claim.
Quiet ==
    /\ runs' = runs
    /\ \A w \in Worker : At(w, "persist")' =>
          /\ At(w, "persist") /\ job'[w] = job[w]
          /\ _owned_binding(w)' => _owned_binding(w)

\* A quiet step disturbs neither the windows nor the plans made from them.
LEMMA QuietKeeps ==
    ASSUME MInv, Quiet
    PROVE  PlanInv' /\ WindowsTile'
BY DEF MInv, Quiet, PlanInv, WindowsTile

\* Only one worker owns the active binding.
LEMMA OneOwner ==
    ASSUME MInv, NEW v \in Worker, NEW w \in Worker, ~At(v, "idle"), ~At(w, "idle"),
           _owned_binding(v), _owned_binding(w)
    PROVE  v = w
BY DEF MInv, RowInv, OneActive, _owned_binding
-----------------------------------------------------------------------------
\* What the bookkeeping of a monitor or producer does to its own row.
LEMMA GotoKeeps ==
    ASSUME MInv, NEW w \in Worker, NEW pc \in CycleStep \ {"idle", "persist"}, ~At(w, "idle"),
           Goto(w, pc)
    PROVE  /\ job' \in [Worker -> [pc : CycleStep, b : 0..MaxBindings, window : Window \cup {NoWindow}]]
           /\ \A v \in Worker : ~At(v, "idle")' => job'[v].b \in Binding
           /\ \A v \in Worker : At(v, "persist")' => At(v, "persist") /\ job'[v] = job[v]
<1>1. job' \in [Worker -> [pc : CycleStep, b : 0..MaxBindings, window : Window \cup {NoWindow}]]
  BY DEF MInv, RowInv, Goto
<1>2. job'[w].pc = pc /\ job'[w].b = job[w].b /\ \A v \in Worker : v # w => job'[v] = job[v]
  BY DEF MInv, RowInv, Goto
<1> QED BY <1>1, <1>2 DEF MInv, RowInv, At

\* A worker that goes back to idle keeps the other workers' rows.
LEMMA ResetKeeps ==
    ASSUME MInv, NEW w \in Worker, job' = [job EXCEPT ![w] = NoJob]
    PROVE  /\ job' \in [Worker -> [pc : CycleStep, b : 0..MaxBindings, window : Window \cup {NoWindow}]]
           /\ \A v \in Worker : ~At(v, "idle")' => job'[v].b \in Binding
           /\ \A v \in Worker : At(v, "persist")' => At(v, "persist") /\ job'[v] = job[v]
<1> USE MonitoringAssumption
<1>1. NoJob \in [pc : CycleStep, b : 0..MaxBindings, window : Window \cup {NoWindow}]
  BY DEF NoJob, CycleStep
<1>2. job' \in [Worker -> [pc : CycleStep, b : 0..MaxBindings, window : Window \cup {NoWindow}]]
  BY <1>1 DEF MInv, RowInv
<1>3. job'[w].pc = "idle" /\ \A v \in Worker : v # w => job'[v] = job[v]
  BY DEF MInv, RowInv, NoJob
<1> QED BY <1>2, <1>3 DEF MInv, RowInv, At

\* A step of w that moves only its own program counter.
LEMMA MoveKeeps ==
    ASSUME MInv, NEW w \in Worker, NEW pc \in CycleStep \ {"idle", "persist"}, ~At(w, "idle"),
           Goto(w, pc), UNCHANGED <<binding, health, runs, seen>>
    PROVE  MInv'
<1>1. RowInv'
  BY GotoKeeps DEF MInv, RowInv
<1>2. OneActive' /\ UnenrolledIsUnknown'
  BY DEF MInv, OneActive, UnenrolledIsUnknown
<1>3. Quiet
  BY GotoKeeps DEF Quiet, _owned_binding
<1> QED BY <1>1, <1>2, <1>3, QuietKeeps DEF MInv

\* A step of w, owner of the active binding, that leaves the bindings alone and
\* keeps the health row with that binding.
LEMMA VerdictKeeps ==
    ASSUME MInv, NEW w \in Worker, NEW pc \in CycleStep \ {"idle", "persist"}, ~At(w, "idle"),
           Goto(w, pc), _owned_binding(w), UNCHANGED <<binding, runs, seen>>,
           health'.binding = job[w].b
    PROVE  MInv'
<1>1. RowInv'
  BY GotoKeeps DEF MInv, RowInv
<1>2. job[w].b \in Binding /\ binding[job[w].b].status = "ACTIVE"
  BY DEF MInv, RowInv, _owned_binding
<1>3. OneActive' /\ UnenrolledIsUnknown'
  BY <1>2 DEF MInv, OneActive, UnenrolledIsUnknown
<1>4. Quiet
  BY GotoKeeps DEF Quiet, _owned_binding
<1> QED BY <1>1, <1>3, <1>4, QuietKeeps DEF MInv

\* The owner ends the binding because the activation is no longer active.
LEMMA NotActiveKeeps ==
    ASSUME MInv, NEW w \in Worker, NEW pc \in CycleStep \ {"idle", "persist"}, ~At(w, "idle"),
           Goto(w, pc), _owned_binding(w), NotActive(job[w].b), UNCHANGED <<runs, seen>>
    PROVE  MInv'
<1> DEFINE b == job[w].b
<1>1. b \in Binding /\ binding[b].status = "ACTIVE"
  BY DEF MInv, RowInv, _owned_binding
<1>2. /\ binding'[b].holder = binding[b].holder
      /\ binding'[b].status \in {"ERROR", "DEACTIVATED"}
      /\ binding'[b].status = "DEACTIVATED" => health'.status = "UNKNOWN"
      /\ health'.binding = b
      /\ \A c \in Binding : c # b => binding'[c] = binding[c]
  BY <1>1 DEF NotActive, MInv, RowInv, Unknown, _record_activation_runtime_failure, RuntimeError
<1>3. binding' \in [Binding -> [status : {"NONE", "ACTIVE", "DEACTIVATED", "ERROR"},
                                holder : Worker \cup {NoWorker}]]
  BY DEF NotActive, MInv, RowInv
<1>4. RowInv'
  BY <1>3, GotoKeeps DEF MInv, RowInv
<1>5. OneActive' /\ UnenrolledIsUnknown'
  BY <1>1, <1>2 DEF MInv, OneActive, UnenrolledIsUnknown
<1>6. Quiet
  BY <1>2, GotoKeeps DEF Quiet, _owned_binding, MInv, RowInv, At
<1> QED BY <1>4, <1>5, <1>6, QuietKeeps DEF MInv
-----------------------------------------------------------------------------
\* register: the new binding is the only active one and has no holder.
LEMMA RegisterKeeps ==
    ASSUME MInv, register
    PROVE  MInv'
<1> USE MonitoringAssumption
<1>1. PICK b \in Binding :
        /\ binding' = [c \in Binding |->
              CASE c = b -> [NoRow EXCEPT !.status = "ACTIVE"]
                [] c # b /\ binding[c].status = "ACTIVE" -> Ended(binding[c], "DEACTIVATED")
                [] OTHER -> binding[c]]
        /\ health' = Unknown(b)
  BY DEF register
<1>2. UNCHANGED <<job, runs, seen>>
  BY DEF register
<1>3. /\ binding'[b] = [status |-> "ACTIVE", holder |-> NoWorker]
      /\ \A c \in Binding \ {b} :
            \/ binding'[c] = [status |-> "DEACTIVATED", holder |-> NoWorker]
            \/ binding'[c] = binding[c] /\ binding[c].status # "ACTIVE"
  BY <1>1 DEF Ended, NoRow
<1>4. \A c \in Binding : binding'[c] \in [status : {"NONE", "ACTIVE", "DEACTIVATED", "ERROR"},
                                          holder : Worker \cup {NoWorker}]
  BY <1>3 DEF MInv, RowInv
<1>5. RowInv'
  BY <1>1, <1>2, <1>4 DEF MInv, RowInv, At
<1>6. OneActive' /\ UnenrolledIsUnknown'
  BY <1>1, <1>3 DEF OneActive, UnenrolledIsUnknown, Unknown
<1>7. \A w \in Worker : ~At(w, "idle") => ~_owned_binding(w)'
  BY <1>2, <1>3 DEF _owned_binding, MInv, RowInv, Worker
<1>8. Quiet
  BY <1>2, <1>7 DEF Quiet, At
<1> QED BY <1>5, <1>6, <1>8, QuietKeeps DEF MInv

\* deactivate and the expiry or release of a claim take a claim away.
LEMMA DeactivateKeeps ==
    ASSUME MInv, NEW b \in Binding, deactivate(b)
    PROVE  MInv'
<1> USE MonitoringAssumption
<1>1. /\ binding'[b] = [status |-> "DEACTIVATED", holder |-> NoWorker]
      /\ \A c \in Binding : c # b => binding'[c] = binding[c]
      /\ binding' \in [Binding -> [status : {"NONE", "ACTIVE", "DEACTIVATED", "ERROR"},
                                   holder : Worker \cup {NoWorker}]]
  BY DEF deactivate, Ended, NoRow, MInv, RowInv
<1>2. /\ UNCHANGED <<job, runs, seen>>
      /\ health' = IF health.binding = b THEN Unknown(b) ELSE health
  BY DEF deactivate
<1>3. RowInv'
  BY <1>1, <1>2 DEF MInv, RowInv, At
<1>4. OneActive' /\ UnenrolledIsUnknown'
  BY <1>1, <1>2 DEF MInv, OneActive, UnenrolledIsUnknown, Unknown
<1>5. Quiet
  BY <1>1, <1>2 DEF Quiet, At, _owned_binding, MInv, RowInv
<1> QED BY <1>3, <1>4, <1>5, QuietKeeps DEF MInv

\* A step that only changes the holder of a binding, and plans nothing.
LEMMA HolderKeeps ==
    ASSUME MInv, NEW b \in Binding, NEW h \in Worker \cup {NoWorker},
           binding' = [binding EXCEPT ![b].holder = h],
           UNCHANGED <<health, runs, seen>>,
           job' \in [Worker -> [pc : CycleStep, b : 0..MaxBindings, window : Window \cup {NoWindow}]],
           \A w \in Worker : ~At(w, "idle")' => job'[w].b \in Binding,
           \A w \in Worker : At(w, "persist")' => At(w, "persist") /\ job'[w] = job[w] /\ h # w
    PROVE  MInv'
<1>1. /\ binding'[b].holder = h /\ binding'[b].status = binding[b].status
      /\ \A c \in Binding : c # b => binding'[c] = binding[c]
      /\ binding' \in [Binding -> [status : {"NONE", "ACTIVE", "DEACTIVATED", "ERROR"},
                                   holder : Worker \cup {NoWorker}]]
  BY DEF MInv, RowInv
<1>2. RowInv'
  BY <1>1 DEF MInv, RowInv
<1>3. OneActive' /\ UnenrolledIsUnknown'
  BY <1>1 DEF MInv, OneActive, UnenrolledIsUnknown
<1>4. Quiet
  BY <1>1 DEF Quiet, _owned_binding, MInv, RowInv, At
<1> QED BY <1>2, <1>3, <1>4, QuietKeeps DEF MInv

\* _claim_binding: the new holder starts a cycle with no window planned.
LEMMA ClaimKeeps ==
    ASSUME MInv, NEW w \in Worker, _claim_binding(w)
    PROVE  MInv'
<1> USE MonitoringAssumption
<1> DEFINE pc     == IF w \in Producer THEN "plan" ELSE "assess"
           new(b) == [NoJob EXCEPT !.pc = pc, !.b = b]
<1>1. pc \in {"plan", "assess"}
  OBVIOUS
<1>2. NoJob \in [pc : CycleStep, b : 0..MaxBindings, window : Window \cup {NoWindow}]
  BY DEF NoJob, CycleStep
<1>3. PICK b \in Binding :
        /\ binding' = [binding EXCEPT ![b].holder = w]
        /\ job' = [job EXCEPT ![w] = new(b)]
  BY DEF _claim_binding
<1>4. UNCHANGED <<health, runs, seen>>
  BY DEF _claim_binding
<1> HIDE DEF pc
<1>5. /\ new(b) \in [pc : CycleStep, b : 0..MaxBindings, window : Window \cup {NoWindow}]
      /\ new(b).b = b /\ new(b).pc \in {"plan", "assess"}
  <2>1. pc \in CycleStep /\ b \in 0..MaxBindings
    BY <1>1 DEF CycleStep, Binding
  <2>2. \A r \in [pc : CycleStep, b : 0..MaxBindings, window : Window \cup {NoWindow}] :
          /\ [r EXCEPT !.pc = pc, !.b = b]
               \in [pc : CycleStep, b : 0..MaxBindings, window : Window \cup {NoWindow}]
          /\ [r EXCEPT !.pc = pc, !.b = b].b = b
          /\ [r EXCEPT !.pc = pc, !.b = b].pc = pc
    BY <2>1
  <2> QED BY <1>1, <1>2, <2>2
<1> HIDE DEF new
<1>6. /\ job' \in [Worker -> [pc : CycleStep, b : 0..MaxBindings, window : Window \cup {NoWindow}]]
      /\ job'[w].b = b /\ job'[w].pc \in {"plan", "assess"}
      /\ \A v \in Worker : v # w => job'[v] = job[v]
  BY <1>3, <1>5 DEF MInv, RowInv
<1>7. \A v \in Worker : ~At(v, "idle")' => job'[v].b \in Binding
  BY <1>6 DEF MInv, RowInv, At
<1>8. \A v \in Worker : At(v, "persist")' => At(v, "persist") /\ job'[v] = job[v] /\ w # v
  BY <1>6 DEF At
<1> QED BY <1>3, <1>4, <1>6, <1>7, <1>8, HolderKeeps

\* The expiry of a claim leaves every worker with what it had read.
LEMMA ExpiryKeeps ==
    ASSUME MInv, NEW b \in Binding, ClaimExpires(b)
    PROVE  MInv'
<1>1. /\ binding' = [binding EXCEPT ![b].holder = NoWorker]
      /\ UNCHANGED <<health, runs, seen, job>>
  BY DEF ClaimExpires
<1>2. \A w \in Worker : NoWorker # w
  BY MonitoringAssumption DEF Worker
<1>3. /\ job' \in [Worker -> [pc : CycleStep, b : 0..MaxBindings, window : Window \cup {NoWindow}]]
      /\ \A w \in Worker : ~At(w, "idle")' => job'[w].b \in Binding
      /\ \A w \in Worker : At(w, "persist")' => At(w, "persist") /\ job'[w] = job[w]
  BY <1>1 DEF MInv, RowInv, At
<1> QED BY <1>1, <1>2, <1>3, HolderKeeps

\* _release_claim gives back the claim only if the worker still has it.
LEMMA ReleaseKeeps ==
    ASSUME MInv, NEW w \in Worker, _release_claim(w)
    PROVE  MInv'
<1> DEFINE b == job[w].b
<1>1. job' = [job EXCEPT ![w] = NoJob] /\ UNCHANGED <<health, runs, seen>> /\ b \in Binding
  BY DEF _release_claim, MInv, RowInv, At
<1>2. \A v \in Worker : NoWorker # v
  BY MonitoringAssumption DEF Worker
<1>3. \E h \in {NoWorker, binding[b].holder} : binding' = [binding EXCEPT ![b].holder = h]
  BY <1>1 DEF _release_claim, MInv, RowInv
<1>4. CASE binding' = [binding EXCEPT ![b].holder = NoWorker]
  BY <1>1, <1>2, <1>4, ResetKeeps, HolderKeeps
<1>5. CASE binding' = binding
  <2>1. RowInv'
    BY <1>1, <1>5, ResetKeeps DEF MInv, RowInv
  <2>2. OneActive' /\ UnenrolledIsUnknown'
    BY <1>1, <1>5 DEF MInv, OneActive, UnenrolledIsUnknown
  <2>3. Quiet
    BY <1>1, <1>5, ResetKeeps DEF Quiet, _owned_binding
  <2> QED BY <2>1, <2>2, <2>3, QuietKeeps DEF MInv
<1>6. [binding EXCEPT ![b].holder = binding[b].holder] = binding
  BY <1>1 DEF MInv, RowInv
<1> QED BY <1>3, <1>4, <1>5, <1>6
-----------------------------------------------------------------------------
\* The planned window starts where the last run stored ends.
LEMMA PlanKeeps ==
    ASSUME MInv, NEW w \in Worker, _next_comparison_plan(w)
    PROVE  MInv'
<1> USE MonitoringAssumption
<1> DEFINE cursors == {seen[a] : a \in Asset} \ {0}
           window  == PlannedWindow(Min(cursors))
<1>1. UNCHANGED <<binding, health, runs, seen>> /\ ~At(w, "idle") /\ job[w].b \in Binding
  BY DEF _next_comparison_plan, rows, MInv, RowInv, At
<1>2. CASE Goto(w, "release") \/ Goto(w, "error")
  BY <1>1, <1>2, MoveKeeps DEF CycleStep
<1>3. CASE /\ cursors # {} /\ window.start < window.end
           /\ job' = [job EXCEPT ![w].pc = "persist", ![w].window = window]
  <2>1. Min(cursors) \in 1..Horizon
    <3>1. cursors \subseteq 1..Horizon
      BY DEF MInv, RowInv
    <3> QED BY <3>1, <1>3, LeastExists
  <2> DEFINE ends == {0} \cup {r.window.end : r \in runs}
  <2>2. ends \subseteq 0..Horizon /\ ends # {}
    BY DEF MInv, RowInv, Run, Window
  <2>3. PreviousEnd \in ends /\ \A e \in ends : PreviousEnd >= e
    BY <2>2, GreatestExists DEF PreviousEnd
  <2>4. window \in Window /\ window.start = PreviousEnd
    <3> DEFINE m == Min(cursors)
    <3> HIDE DEF cursors
    <3>1. m \in 1..Horizon /\ PreviousEnd \in 0..Horizon /\ MaxWindow \in Nat \ {0}
      BY <2>1, <2>2, <2>3
    <3>2. PlannedWindow(m).start = PreviousEnd /\ PlannedWindow(m).start < PlannedWindow(m).end
      BY <1>3 DEF PlannedWindow
    <3> HIDE DEF m
    <3>3. PlannedWindow(m) \in [start : 0..Horizon, end : 1..Horizon]
      BY <3>1, <3>2 DEF PlannedWindow
    <3> QED BY <3>2, <3>3 DEF Window, m
  <2> HIDE DEF window, cursors
  <2>5. /\ job' \in [Worker -> [pc : CycleStep, b : 0..MaxBindings, window : Window \cup {NoWindow}]]
        /\ job'[w].window = window /\ job'[w].b = job[w].b
        /\ \A v \in Worker : v # w => job'[v] = job[v]
    BY <1>3, <2>4 DEF MInv, RowInv, CycleStep
  <2>6. RowInv'
    BY <1>1, <2>5 DEF MInv, RowInv, At
  <2>7. OneActive' /\ UnenrolledIsUnknown' /\ WindowsTile'
    BY <1>1 DEF MInv, OneActive, UnenrolledIsUnknown, WindowsTile
  <2>8. PlanInv'
    <3> SUFFICES ASSUME NEW v \in Worker, At(v, "persist")'
                 PROVE  /\ job'[v].window \in Window
                        /\ \/ job'[v].window.start = 0
                           \/ \E q \in runs' : q.window.end = job'[v].window.start
                        /\ _owned_binding(v)' =>
                              \A q \in runs' : q.late \/ q.window.end <= job'[v].window.start
      BY DEF PlanInv
    <3>1. CASE v = w
      BY <3>1, <1>1, <2>2, <2>3, <2>4, <2>5 DEF MInv, RowInv, Run, Window
    <3>2. CASE v # w
      BY <3>2, <1>1, <2>5 DEF MInv, PlanInv, At, _owned_binding
    <3> QED BY <3>1, <3>2
  <2> QED BY <2>6, <2>7, <2>8 DEF MInv
<1>4. \/ Goto(w, "release") \/ Goto(w, "error")
      \/ /\ cursors # {} /\ window.start < window.end
         /\ job' = [job EXCEPT ![w].pc = "persist", ![w].window = window]
  BY DEF _next_comparison_plan
<1> QED BY <1>2, <1>3, <1>4

\* A run stored by the owner of the claim overlaps none that was.
LEMMA CompareKeeps ==
    ASSUME MInv, NEW w \in Worker, compare_activation(w)
    PROVE  MInv'
<1> DEFINE run == [window |-> job[w].window, binding |-> job[w].b, late |-> ~_owned_binding(w)]
<1>1. /\ At(w, "persist") /\ ~At(w, "idle")
      /\ UNCHANGED <<binding, health, seen>>
      /\ \E pc \in {"release", "error"} : Goto(w, pc)
      /\ runs' \in {runs, runs \cup {run}}
  BY DEF compare_activation, _persist_loaded, At
<1>2. PICK pc \in {"release", "error"} : Goto(w, pc)
  BY <1>1
<1>3. pc \in CycleStep \ {"idle", "persist"}
  BY DEF CycleStep
<1>4. CASE runs' = runs
  BY <1>1, <1>2, <1>3, <1>4, MoveKeeps
<1>5. CASE runs' = runs \cup {run}
  <2>1. /\ run.window = job[w].window /\ run.late = ~_owned_binding(w)
        /\ run \in Run
    <3>1. job[w].window \in Window /\ job[w].b \in Binding
      BY <1>1 DEF MInv, PlanInv, RowInv
    <3>2. (~_owned_binding(w)) \in BOOLEAN
      BY Zenon DEF _owned_binding
    <3> QED BY <3>1, <3>2 DEF Run
  <2> HIDE DEF run
  <2>2. RowInv'
    BY <1>1, <1>2, <1>3, <1>5, <2>1, GotoKeeps DEF MInv, RowInv
  <2>3. OneActive' /\ UnenrolledIsUnknown'
    BY <1>1 DEF MInv, OneActive, UnenrolledIsUnknown
  <2>4. \A v \in Worker : At(v, "persist")' => /\ At(v, "persist") /\ job'[v] = job[v] /\ v # w
                                              /\ _owned_binding(v)' = _owned_binding(v)
    <3>1. \A v \in Worker : At(v, "persist")' => At(v, "persist") /\ job'[v] = job[v]
      BY <1>1, <1>2, <1>3, GotoKeeps
    <3>2. ~At(w, "persist")'
      BY <1>2, <1>3 DEF Goto, At, MInv, RowInv
    <3> QED BY <1>1, <3>1, <3>2 DEF _owned_binding
  <2>5. \A q \in runs : q \in Run /\ q.window.start \in Nat /\ q.window.end \in Nat
    BY DEF MInv, RowInv, Run, Window
  <2>6. run.window.start \in Nat /\ run.window.end \in Nat
    BY <2>1 DEF Run, Window
  <2>7. run.late \/ \A q \in runs : q.late \/ q.window.end <= run.window.start
    BY <1>1, <2>1 DEF MInv, PlanInv
  <2>8. WindowsTile'
    <3>1. \A r \in runs' : r.window.start = 0 \/ \E q \in runs' : q.window.end = r.window.start
      BY <1>1, <1>5, <2>1 DEF MInv, PlanInv, WindowsTile
    <3>2. \A q \in runs : q.window.start < run.window.end /\ run.window.start < q.window.end
                            => run.late \/ q.late
      BY <2>5, <2>6, <2>7
    <3>3. \A r, q \in runs' :
            (r # q /\ r.window.start < q.window.end /\ q.window.start < r.window.end)
                => r.late \/ q.late
      BY <1>5, <3>2 DEF MInv, WindowsTile
    <3> QED BY <3>1, <3>3 DEF WindowsTile
  <2>9. PlanInv'
    <3> SUFFICES ASSUME NEW v \in Worker, At(v, "persist")'
                 PROVE  /\ job'[v].window \in Window
                        /\ \/ job'[v].window.start = 0
                           \/ \E q \in runs' : q.window.end = job'[v].window.start
                        /\ _owned_binding(v)' =>
                              \A q \in runs' : q.late \/ q.window.end <= job'[v].window.start
      BY DEF PlanInv
    <3>1. At(v, "persist") /\ ~At(v, "idle") /\ job'[v] = job[v] /\ v # w
      BY <2>4 DEF At
    <3>2. _owned_binding(v)' => _owned_binding(v) /\ run.late
      BY <1>1, <2>1, <2>4, <3>1, OneOwner
    <3> QED BY <1>5, <3>1, <3>2 DEF MInv, PlanInv
  <2> QED BY <2>2, <2>3, <2>8, <2>9 DEF MInv
<1> QED BY <1>1, <1>4, <1>5
-----------------------------------------------------------------------------
\* The first transaction of a monitor cycle writes health only as the owner.
LEMMA AssessKeeps ==
    ASSUME MInv, NEW w \in Worker, _process_one_comparison(w)
    PROVE  MInv'
<1>1. ~At(w, "idle") /\ UNCHANGED <<runs, seen>>
  BY DEF _process_one_comparison, At
<1>2. CASE Goto(w, "finalize") /\ UNCHANGED <<binding, health>>
  BY <1>1, <1>2, MoveKeeps DEF CycleStep
<1>3. CASE _owned_binding(w) /\ NotActive(job[w].b) /\ Goto(w, "finalize")
  BY <1>1, <1>3, NotActiveKeeps DEF CycleStep
<1>4. CASE _owned_binding(w) /\ Goto(w, "renew") /\ UNCHANGED binding
           /\ \E r \in runs : _process_comparison_run(r, job[w].b)
  <2>1. health'.binding = job[w].b
    BY <1>4 DEF _process_comparison_run, Unknown
  <2> QED BY <1>1, <1>4, <2>1, VerdictKeeps DEF CycleStep
<1>5. CASE Goto(w, "error") /\ UNCHANGED <<binding, health>>
  BY <1>1, <1>5, MoveKeeps DEF CycleStep
<1> QED BY <1>2, <1>3, <1>4, <1>5 DEF _process_one_comparison, Pending, Unassessed

\* _finalize_binding_cycle writes its verdict only as the owner.
LEMMA FinalizeKeeps ==
    ASSUME MInv, NEW w \in Worker, _finalize_binding_cycle(w)
    PROVE  MInv'
<1>1. ~At(w, "idle") /\ UNCHANGED <<runs, seen>>
  BY DEF _finalize_binding_cycle, At
<1>2. CASE \E pc \in {"error", "release"} : Goto(w, pc) /\ UNCHANGED <<binding, health>>
  BY <1>1, <1>2, MoveKeeps DEF CycleStep
<1>3. CASE _owned_binding(w) /\ NotActive(job[w].b) /\ Goto(w, "release")
  BY <1>1, <1>3, NotActiveKeeps DEF CycleStep
<1>4. CASE _owned_binding(w) /\ FinalizeActive(job[w].b) /\ Goto(w, "release") /\ UNCHANGED binding
  <2>1. health'.binding = job[w].b
    <3>1. PICK uncompared \in BOOLEAN :
            \E h \in Freshness(job[w].b, uncompared) : health' = Staleness(job[w].b, h)
      BY <1>4 DEF FinalizeActive
    <3>2. PICK h \in Freshness(job[w].b, uncompared) : health' = Staleness(job[w].b, h)
      BY <3>1
    <3>3. h.binding = job[w].b
      BY <3>2 DEF Freshness
    <3> QED BY <3>2, <3>3 DEF Staleness, Unknown
  <2> QED BY <1>1, <1>4, <2>1, VerdictKeeps DEF CycleStep
<1> QED BY <1>2, <1>3, <1>4 DEF _finalize_binding_cycle

\* The transaction that records a failed cycle writes only as the owner.
LEMMA ErrorKeeps ==
    ASSUME MInv, NEW w \in Worker, _record_binding_error(w)
    PROVE  MInv'
<1>1. ~At(w, "idle") /\ UNCHANGED <<binding, runs, seen>> /\ Goto(w, "release")
  BY DEF _record_binding_error, At
<1>2. CASE _owned_binding(w)
  <2>1. health'.binding = job[w].b
    BY <1>2 DEF _record_binding_error, _record_activation_runtime_failure, RuntimeError
  <2> QED BY <1>1, <1>2, <2>1, VerdictKeeps DEF CycleStep
<1>3. CASE ~_owned_binding(w)
  <2>1. UNCHANGED health
    BY <1>3 DEF _record_binding_error
  <2> QED BY <1>1, <2>1, MoveKeeps DEF CycleStep
<1> QED BY <1>2, <1>3

\* Renewing the claim changes nothing but the worker's next step.
LEMMA RenewKeeps ==
    ASSUME MInv, NEW w \in Worker, _renew_claim(w)
    PROVE  MInv'
<1>1. ~At(w, "idle") /\ UNCHANGED <<binding, health, runs, seen>>
  BY DEF _renew_claim, At, rows
<1>2. \E pc \in {"assess", "finalize"} : Goto(w, pc)
  BY DEF _renew_claim
<1> QED BY <1>1, <1>2, MoveKeeps DEF CycleStep

\* A worker that dies leaves its claim behind and forgets its window.
LEMMA DeathKeeps ==
    ASSUME MInv, NEW w \in Worker, WorkerDies(w)
    PROVE  MInv'
<1>1. job' = [job EXCEPT ![w] = NoJob] /\ UNCHANGED <<binding, health, runs, seen>>
  BY DEF WorkerDies, rows
<1>2. RowInv'
  BY <1>1, ResetKeeps DEF MInv, RowInv
<1>3. OneActive' /\ UnenrolledIsUnknown'
  BY <1>1 DEF MInv, OneActive, UnenrolledIsUnknown
<1>4. Quiet
  BY <1>1, ResetKeeps DEF Quiet, _owned_binding
<1> QED BY <1>2, <1>3, <1>4, QuietKeeps DEF MInv

\* The evaluator, the clock and the operators do not touch bindings, runs or
\* workers.
LEMMA OutsideKeeps ==
    ASSUME MInv, UNCHANGED <<binding, health, runs, job>>, seen' \in [Asset -> 0..Horizon]
    PROVE  MInv'
<1>1. RowInv'
  BY DEF MInv, RowInv, At
<1>2. OneActive' /\ UnenrolledIsUnknown'
  BY DEF MInv, OneActive, UnenrolledIsUnknown
<1>3. Quiet
  BY DEF Quiet, At, _owned_binding
<1> QED BY <1>1, <1>2, <1>3, QuietKeeps DEF MInv

\* Every step of the system preserves the invariant.
LEMMA MonitoringStep ==
    ASSUME MInv, [Next]_vars
    PROVE  MInv'
<1>1. ASSUME NEW a \in Asset, Evaluated(a) PROVE MInv'
  <2>1. seen' \in [Asset -> 0..Horizon]
    BY <1>1, MonitoringAssumption DEF Evaluated, MInv, RowInv
  <2> QED BY <1>1, <2>1, OutsideKeeps DEF Evaluated
<1>2. ASSUME \/ GoesStale \/ ActivationEnds \/ UNCHANGED vars
             \/ \E b \in Binding, k \in Kind : OperatorCall(b, k)
      PROVE  MInv'
  <2>1. UNCHANGED <<binding, health, runs, job, seen>>
    BY <1>2 DEF GoesStale, ActivationEnds, OperatorCall, vars
  <2> QED BY <2>1, OutsideKeeps DEF MInv, RowInv
<1>3. ASSUME NEW w \in Worker, Step(w) PROVE MInv'
  BY <1>3, PlanKeeps, CompareKeeps, AssessKeeps, RenewKeeps, FinalizeKeeps, ErrorKeeps,
     ReleaseKeeps DEF Step
<1> QED BY <1>1, <1>2, <1>3, RegisterKeeps, DeactivateKeeps, ExpiryKeeps, ClaimKeeps, DeathKeeps
        DEF Next

\* The invariant holds before the first registration.
LEMMA MonitoringInit == Init => MInv
<1> SUFFICES ASSUME Init PROVE MInv
  OBVIOUS
<1> USE MonitoringAssumption
<1>1. NoJob \in [pc : CycleStep, b : 0..MaxBindings, window : Window \cup {NoWindow}] /\ NoJob.pc = "idle"
  BY DEF NoJob, CycleStep
<1>2. RowInv
  BY <1>1 DEF Init, RowInv, NoRow, At
<1>3. OneActive /\ UnenrolledIsUnknown
  BY DEF Init, OneActive, UnenrolledIsUnknown, NoRow
<1>4. PlanInv /\ WindowsTile
  BY <1>1 DEF Init, PlanInv, WindowsTile, At
<1> QED BY <1>2, <1>3, <1>4 DEF MInv

\* A strategy that is not enrolled has no verdict, and the health row belongs to
\* the latest registration (_owned_binding in every transaction of a monitor).
THEOREM UnenrolledUnknown == Spec => []UnenrolledIsUnknown
<1>1. MInv /\ [Next]_vars => MInv'
  BY MonitoringStep
<1>2. MInv => UnenrolledIsUnknown
  BY DEF MInv
<1> QED BY <1>1, <1>2, MonitoringInit, PTL DEF Spec

\* Comparison windows follow each other without a hole, and overlap only where
\* compare_activation stored a run whose producer had lost its claim.
THEOREM WindowsFollow == Spec => []WindowsTile
<1>1. MInv /\ [Next]_vars => MInv'
  BY MonitoringStep
<1>2. MInv => WindowsTile
  BY DEF MInv
<1> QED BY <1>1, <1>2, MonitoringInit, PTL DEF Spec
-----------------------------------------------------------------------------
(* The evidence *)

Incident == [status : {"none", "open", "acknowledged", "resolved"}, count : Nat]
HealthRow == [binding : 0..MaxBindings, status : {"UNKNOWN", "DEGRADED", "STALE", "ERROR"},
              cause : {"none", "reference", "behavior", "runtime"}]
Key == 0..Horizon * Cardinality(Asset)

\* The types of the rows that are not about claims; there are finitely many
\* runs and keys, which is what makes them countable.
EvidenceTypes ==
    /\ act \in [status : {"ACTIVE", "DEACTIVATED", "ERROR"}, stale : BOOLEAN]
    /\ diverging \subseteq 1..Horizon
    /\ health \in HealthRow
    /\ assessed \subseteq runs \X Binding
    /\ inc \in [Binding -> [Kind -> Incident]]
    /\ evidence \subseteq Binding \X Kind \X Key
    /\ events \in 0..MaxEvents
    /\ IsFiniteSet(runs) /\ IsFiniteSet(evidence)

\* What is invariant about the evidence, next to what is about the claims.
EvidenceInv == EvidenceTypes /\ EvidenceIsCounted

\* The type invariant is the types of the claims and of the evidence.
LEMMA MonitoringTypes == MInv /\ EvidenceInv => TypeOK
BY DEF MInv, RowInv, EvidenceInv, EvidenceTypes, TypeOK, CycleStep, Incident, HealthRow, Key

\* The number of evaluations is a key, and so are the two fixed ones.
LEMMA KeyTypes ==
    ASSUME RowInv
    PROVE  Baseline \in Key /\ 0 \in Key /\ 1 \in Key
<1> DEFINE c == Cardinality(Asset)
           T == Asset \X (1..Horizon)
           B == {x \in T : x[2] <= seen[x[1]]}
<1>1. Horizon \in Nat \ {0} /\ IsFiniteSet(Asset) /\ Asset # {}
  BY MonitoringAssumption
<1>2. c \in Nat /\ c # 0
  BY <1>1, FS_CardinalityType, FS_EmptySet
<1>3. IsFiniteSet(1..Horizon) /\ Cardinality(1..Horizon) = Horizon
  BY <1>1, FS_Interval
<1>4. IsFiniteSet(T) /\ Cardinality(T) = c * Horizon
  BY <1>1, <1>3, FS_Product
<1>5. B \in SUBSET T
  OBVIOUS
<1> HIDE DEF B, T
<1>6. IsFiniteSet(B) /\ Cardinality(B) <= Cardinality(T) /\ Cardinality(B) \in Nat
  BY <1>4, <1>5, FS_Subset, FS_CardinalityType
<1>7. Baseline = Cardinality(B)
  BY DEF Baseline, B, T
<1>8. c * Horizon = Horizon * c /\ Horizon * c \in Nat /\ Horizon * c >= 1
  <2> HIDE DEF c
  <2> QED BY <1>1, <1>2
<1> QED BY <1>4, <1>6, <1>7, <1>8 DEF Key

\* Recording n more pieces of evidence counts n more.
LEMMA RecordedCounts ==
    ASSUME NEW i \in Incident, NEW n \in Nat
    PROVE  Recorded(i, n) \in Incident /\ Recorded(i, n).count = i.count + n
BY DEF Recorded, Incident

\* What recovery does to an incident leaves its count.
LEMMA RecoveredCounts ==
    ASSUME NEW i \in Incident
    PROVE  Recovered(i) \in Incident /\ Recovered(i).count = i.count
BY DEF Recovered, Incident

\* A key that is recorded is counted if it is new.
LEMMA KeyCounts ==
    ASSUME EvidenceInv, NEW b \in Binding, NEW k \in {"stale", "uncompared", "runtime"},
           NEW key \in Key, NEW E, IsFiniteSet(E),
           {e \in E : e[1] = b /\ e[2] = k} = Keys(b, k) \cup {<<b, k, key>>}
    PROVE  /\ Once(b, k, key) \in Incident
           /\ Once(b, k, key).count = Cardinality({e \in E : e[1] = b /\ e[2] = k})
<1>1. /\ inc[b][k] \in Incident /\ inc[b][k].count = Cardinality(Keys(b, k))
      /\ inc[b][k].count \in Nat
  BY DEF EvidenceInv, EvidenceTypes, EvidenceIsCounted, Incident, Kind
<1>2. IsFiniteSet(Keys(b, k))
  <2>1. Keys(b, k) \in SUBSET evidence
    BY DEF Keys
  <2> QED BY <2>1, FS_Subset DEF EvidenceInv, EvidenceTypes
<1>3. <<b, k, key>> \in Keys(b, k) <=> <<b, k, key>> \in evidence
  BY DEF Keys
<1>4. CASE <<b, k, key>> \in evidence
  <2>1. Keys(b, k) \cup {<<b, k, key>>} = Keys(b, k) /\ Once(b, k, key) = inc[b][k]
    BY <1>3, <1>4 DEF Once
  <2> QED BY <1>1, <2>1
<1>5. CASE <<b, k, key>> \notin evidence
  <2>1. Cardinality(Keys(b, k) \cup {<<b, k, key>>}) = Cardinality(Keys(b, k)) + 1
    BY <1>2, <1>3, <1>5, FS_AddElement
  <2>2. Once(b, k, key) = Recorded(inc[b][k], 1)
    BY <1>5 DEF Once
  <2>3. Recorded(inc[b][k], 1) \in Incident
        /\ Recorded(inc[b][k], 1).count = inc[b][k].count + 1
    BY <1>1, RecordedCounts
  <2> QED BY <1>1, <2>1, <2>2, <2>3
<1> QED BY <1>4, <1>5

\* A step that neither assesses a run nor records a key keeps every count.
LEMMA CountsKept ==
    ASSUME EvidenceInv, UNCHANGED <<diverging, assessed, evidence>>,
           runs \subseteq runs', \A b \in Binding, k \in Kind : inc'[b][k].count = inc[b][k].count
    PROVE  EvidenceIsCounted'
<1>1. \A b : Mine(b)' = Mine(b)
  BY DEF Mine, EvidenceInv, EvidenceTypes
<1>2. \A b : DivergencesIn(Mine(b))' = DivergencesIn(Mine(b))
  BY <1>1 DEF DivergencesIn
<1>3. \A b, k : Keys(b, k)' = Keys(b, k)
  BY DEF Keys
<1> QED BY <1>1, <1>2, <1>3 DEF EvidenceInv, EvidenceIsCounted, Kind

\* The bound on events is kept where one is counted.
LEMMA EventType ==
    ASSUME events \in 0..MaxEvents, Event
    PROVE  events' \in 0..MaxEvents
BY MonitoringAssumption DEF Event

\* A step that leaves the evidence alone.
LEMMA EvidenceAlone ==
    ASSUME EvidenceInv, UNCHANGED <<diverging, assessed, inc, evidence>>,
           runs \subseteq runs', IsFiniteSet(runs'),
           act' \in [status : {"ACTIVE", "DEACTIVATED", "ERROR"}, stale : BOOLEAN],
           health' \in HealthRow, events' \in 0..MaxEvents
    PROVE  EvidenceInv'
<1>1. EvidenceIsCounted'
  BY CountsKept
<1>2. EvidenceTypes'
  BY DEF EvidenceInv, EvidenceTypes
<1> QED BY <1>1, <1>2 DEF EvidenceInv

\* The rows of the health projection that the model writes.
LEMMA HealthTypes ==
    ASSUME NEW b \in Binding
    PROVE  /\ Unknown(b) \in HealthRow /\ RuntimeError(b) \in HealthRow
           /\ [binding |-> b, status |-> "DEGRADED", cause |-> "behavior"] \in HealthRow
           /\ \A h \in HealthRow : Staleness(b, h) \in HealthRow
           /\ \A u \in BOOLEAN : Freshness(b, u) \subseteq HealthRow
<1>1. b \in 0..MaxBindings
  BY MonitoringAssumption DEF Binding
<1>2. Unknown(b) \in HealthRow /\ RuntimeError(b) \in HealthRow
  BY <1>1 DEF Unknown, RuntimeError, HealthRow
<1>3. [binding |-> b, status |-> "DEGRADED", cause |-> "behavior"] \in HealthRow
      /\ [binding |-> b, status |-> "STALE", cause |-> "runtime"] \in HealthRow
  BY <1>1 DEF HealthRow
<1>4. \A h \in HealthRow : Staleness(b, h) \in HealthRow
  BY <1>2, <1>3 DEF Staleness
<1>5. \A u \in BOOLEAN : Freshness(b, u) \subseteq HealthRow
  <2> DEFINE R == [binding : {b}, status : {"UNKNOWN", "DEGRADED", "STALE", "ERROR"},
                   cause : {"none", "reference", "behavior", "runtime"}]
  <2>1. R \subseteq HealthRow
    BY <1>1 DEF HealthRow
  <2>2. \A u \in BOOLEAN : Freshness(b, u) \subseteq R
    BY DEF Freshness
  <2> QED BY <2>1, <2>2
<1> QED BY <1>2, <1>3, <1>4, <1>5

\* A key of one kind is recorded: the error of the activation, or of a cycle.
LEMMA FailureCounts ==
    ASSUME EvidenceInv, NEW b \in Binding, NEW key \in Key,
           _record_activation_runtime_failure(b, key), UNCHANGED <<act, diverging, assessed, runs>>,
           events' \in 0..MaxEvents
    PROVE  EvidenceInv'
<1> USE DEF _record_activation_runtime_failure
<1>1. IsFiniteSet(evidence') /\ evidence' \subseteq Binding \X Kind \X Key
  <2>1. IsFiniteSet(evidence')
    BY FS_AddElement DEF EvidenceInv, EvidenceTypes
  <2>2. <<b, "runtime", key>> \in Binding \X Kind \X Key
    BY DEF Kind
  <2> QED BY <2>1, <2>2 DEF EvidenceInv, EvidenceTypes
<1>2. \A c, k : Keys(c, k)' = IF c = b /\ k = "runtime" THEN Keys(b, k) \cup {<<b, k, key>>}
                              ELSE Keys(c, k)
  BY DEF Keys
<1>3. /\ Once(b, "runtime", key) \in Incident
      /\ Once(b, "runtime", key).count = Cardinality(Keys(b, "runtime")')
  <2>1. {e \in evidence' : e[1] = b /\ e[2] = "runtime"}
          = Keys(b, "runtime") \cup {<<b, "runtime", key>>}
    BY <1>2 DEF Keys
  <2>2. /\ Once(b, "runtime", key) \in Incident
        /\ Once(b, "runtime", key).count
             = Cardinality({e \in evidence' : e[1] = b /\ e[2] = "runtime"})
    BY <1>1, <2>1, KeyCounts
  <2> QED BY <2>2 DEF Keys
<1>4. inc \in [Binding -> [Kind -> Incident]] /\ "runtime" \in Kind
  BY DEF EvidenceInv, EvidenceTypes, Kind
<1>5. /\ inc' \in [Binding -> [Kind -> Incident]]
      /\ inc'[b]["runtime"] = Once(b, "runtime", key)
      /\ \A c \in Binding, k \in Kind : c # b \/ k # "runtime" => inc'[c][k] = inc[c][k]
  BY <1>3, <1>4
<1>6. \A c : Mine(c)' = Mine(c) /\ DivergencesIn(Mine(c))' = DivergencesIn(Mine(c))
  BY DEF Mine, DivergencesIn
<1>7. EvidenceIsCounted'
  <2> SUFFICES ASSUME NEW c \in Binding
               PROVE  /\ inc'[c]["coverage"].count = Cardinality(Mine(c)')
                      /\ inc'[c]["signal"].count = Cardinality(DivergencesIn(Mine(c))')
                      /\ \A k \in {"stale", "uncompared", "runtime"} :
                            inc'[c][k].count = Cardinality(Keys(c, k)')
    BY DEF EvidenceIsCounted
  <2>1. inc'[c]["coverage"].count = Cardinality(Mine(c)')
        /\ inc'[c]["signal"].count = Cardinality(DivergencesIn(Mine(c))')
    BY <1>5, <1>6 DEF EvidenceInv, EvidenceIsCounted, Kind
  <2>2. ASSUME NEW k \in {"stale", "uncompared", "runtime"}
        PROVE  inc'[c][k].count = Cardinality(Keys(c, k)')
    BY <1>2, <1>3, <1>5 DEF EvidenceInv, EvidenceIsCounted, Kind
  <2> QED BY <2>1, <2>2
<1>8. EvidenceTypes'
  BY <1>1, <1>5, HealthTypes DEF EvidenceInv, EvidenceTypes
<1> QED BY <1>7, <1>8 DEF EvidenceInv

\* A run is assessed: one piece of evidence for its coverage, and one for each
\* divergence in its window.
LEMMA AssessmentCounts ==
    ASSUME EvidenceInv, RowInv, NEW b \in Binding, NEW r \in Unassessed,
           _process_comparison_run(r, b), UNCHANGED <<act, diverging, runs, evidence>>,
           events' \in 0..MaxEvents
    PROVE  EvidenceInv'
<1> USE DEF _process_comparison_run
<1> DEFINE D == diverging \cap (r.window.start + 1 .. r.window.end)
           F == DivergencesIn({r})
<1>0. /\ r \in runs /\ <<r, b>> \notin assessed
      /\ r.window.start \in Nat /\ r.window.end \in Nat
  BY DEF Unassessed, RowInv, Run, Window
<1>1. IsFiniteSet(D) /\ Signals(r) = Cardinality(D) /\ Signals(r) \in Nat
  <2>0. r.window.start + 1 \in Int /\ r.window.end \in Int
    BY <1>0
  <2>1. IsFiniteSet(r.window.start + 1 .. r.window.end)
    BY <2>0, FS_Interval
  <2>2. IsFiniteSet(D)
    BY <2>1, FS_Intersection
  <2> QED BY <2>2, FS_CardinalityType DEF Signals
<1>2. IsFiniteSet(F) /\ Cardinality(F) = Cardinality(D)
  <2> DEFINE f == [d \in D |-> <<r, d>>]
  <2>1. F = {<<r, d>> : d \in D}
    <3>1. \A d \in diverging : d \in Nat
      BY DEF EvidenceInv, EvidenceTypes
    <3> QED BY <1>0, <3>1 DEF DivergencesIn
  <2> HIDE DEF D, F
  <2>2. f \in [D -> F] /\ (\A x, y \in D : f[x] = f[y] => x = y)
        /\ \A z \in F : \E x \in D : f[x] = z
    BY <2>1
  <2> HIDE DEF f
  <2>3. f \in Bijection(D, F)
    BY <2>2 DEF Bijection, Injection, Surjection, IsInjective
  <2>4. ExistsBijection(D, F)
    BY <2>3 DEF ExistsBijection
  <2> QED BY <1>1, <2>4, FS_Bijection
<1>3. IsFiniteSet(Mine(b)) /\ r \notin Mine(b)
  <2>1. Mine(b) \in SUBSET runs
    BY DEF Mine
  <2> QED BY <1>0, <2>1, FS_Subset DEF EvidenceInv, EvidenceTypes, Mine
<1>4. \A c : Mine(c)' = IF c = b THEN Mine(b) \cup {r} ELSE Mine(c)
  BY <1>0 DEF Mine
<1>5. Cardinality(Mine(b)') = Cardinality(Mine(b)) + 1
  <2>1. Cardinality(Mine(b) \cup {r}) = Cardinality(Mine(b)) + 1
    BY <1>3, FS_AddElement
  <2> QED BY <1>4, <2>1
<1>6. /\ DivergencesIn(Mine(b))' = DivergencesIn(Mine(b)) \cup F
      /\ DivergencesIn(Mine(b)) \cap F = {}
      /\ \A c : c # b => DivergencesIn(Mine(c))' = DivergencesIn(Mine(c))
  BY <1>3, <1>4 DEF DivergencesIn
<1>7. IsFiniteSet(DivergencesIn(Mine(b)))
  <2>1. IsFiniteSet(diverging)
    <3>0. Horizon \in Int
      BY MonitoringAssumption
    <3>1. IsFiniteSet(1..Horizon)
      BY <3>0, FS_Interval
    <3> QED BY <3>1, FS_Subset DEF EvidenceInv, EvidenceTypes
  <2>2. IsFiniteSet(Mine(b) \X diverging)
    BY <1>3, <2>1, FS_Product
  <2>3. DivergencesIn(Mine(b)) \in SUBSET (Mine(b) \X diverging)
    BY DEF DivergencesIn
  <2> QED BY <2>2, <2>3, FS_Subset
<1> HIDE DEF F, D
<1>8. Cardinality(DivergencesIn(Mine(b))') = Cardinality(DivergencesIn(Mine(b))) + Signals(r)
  <2>1. Cardinality(DivergencesIn(Mine(b)) \cup F) = Cardinality(DivergencesIn(Mine(b)))
            + Cardinality(F) - Cardinality(DivergencesIn(Mine(b)) \cap F)
    BY <1>2, <1>7, FS_Union
  <2>2. Cardinality(DivergencesIn(Mine(b)) \cap F) = 0
    BY <1>6, FS_EmptySet
  <2>3. Cardinality(DivergencesIn(Mine(b))) \in Nat
    BY <1>7, FS_CardinalityType
  <2> QED BY <1>1, <1>2, <1>6, <2>1, <2>2, <2>3
<1>9. inc \in [Binding -> [Kind -> Incident]] /\ {"coverage", "signal"} \subseteq Kind
  BY DEF EvidenceInv, EvidenceTypes, Kind
<1>10. /\ Recorded(inc[b]["coverage"], 1) \in Incident
       /\ Recorded(inc[b]["coverage"], 1).count = inc[b]["coverage"].count + 1
       /\ Recorded(inc[b]["signal"], Signals(r)) \in Incident
       /\ Recorded(inc[b]["signal"], Signals(r)).count = inc[b]["signal"].count + Signals(r)
  BY <1>1, <1>9, RecordedCounts
<1>11. /\ inc' \in [Binding -> [Kind -> Incident]]
       /\ inc'[b]["coverage"] = Recorded(inc[b]["coverage"], 1)
       /\ inc'[b]["signal"] = Recorded(inc[b]["signal"], Signals(r))
       /\ \A c \in Binding, k \in Kind :
             c # b \/ k \notin {"coverage", "signal"} => inc'[c][k] = inc[c][k]
  BY <1>9, <1>10
<1>12. \A c, k : Keys(c, k)' = Keys(c, k)
  BY DEF Keys
<1>13. EvidenceIsCounted'
  <2> SUFFICES ASSUME NEW c \in Binding
               PROVE  /\ inc'[c]["coverage"].count = Cardinality(Mine(c)')
                      /\ inc'[c]["signal"].count = Cardinality(DivergencesIn(Mine(c))')
                      /\ \A k \in {"stale", "uncompared", "runtime"} :
                            inc'[c][k].count = Cardinality(Keys(c, k)')
    BY DEF EvidenceIsCounted
  <2>1. \A k \in {"stale", "uncompared", "runtime"} : inc'[c][k].count = Cardinality(Keys(c, k)')
    BY <1>11, <1>12 DEF EvidenceInv, EvidenceIsCounted, Kind
  <2>2. inc'[c]["coverage"].count = Cardinality(Mine(c)')
        /\ inc'[c]["signal"].count = Cardinality(DivergencesIn(Mine(c))')
    <3>1. CASE c = b
      BY <1>5, <1>8, <1>10, <1>11, <3>1 DEF EvidenceInv, EvidenceIsCounted
    <3>2. CASE c # b
      BY <1>4, <1>6, <1>9, <1>11, <3>2 DEF EvidenceInv, EvidenceIsCounted
    <3> QED BY <3>1, <3>2
  <2> QED BY <2>1, <2>2
<1>14. health' \in HealthRow
  BY HealthTypes
<1>15. assessed' \subseteq runs' \X Binding
  <2>1. assessed' = assessed \cup {<<r, b>>} /\ runs' = runs
    OBVIOUS
  <2> QED BY <1>0, <2>1 DEF EvidenceInv, EvidenceTypes
<1>16. UNCHANGED <<act, diverging, runs, evidence>>
  OBVIOUS
<1>17. EvidenceTypes'
  BY <1>11, <1>14, <1>15, <1>16 DEF EvidenceInv, EvidenceTypes
<1> QED BY <1>13, <1>17 DEF EvidenceInv

\* An active binding is finalised: the keys of the stale and the uncompared
\* incident are recorded, or these incidents recover.
LEMMA FinalizeCounts ==
    ASSUME EvidenceInv, RowInv, NEW b \in Binding, FinalizeActive(b),
           UNCHANGED <<act, diverging, assessed, runs>>, events' \in 0..MaxEvents
    PROVE  EvidenceInv'
<1>k. Baseline \in Key /\ 0 \in Key
  BY KeyTypes
<1>t. inc \in [Binding -> [Kind -> Incident]] /\ {"uncompared", "stale"} \subseteq Kind
  BY DEF EvidenceInv, EvidenceTypes, Kind
<1>1. PICK u \in BOOLEAN :
        /\ \E h \in Freshness(b, u) : health' = Staleness(b, h)
        /\ inc' = [inc EXCEPT
              ![b]["uncompared"] = IF u THEN Once(b, "uncompared", 0) ELSE Recovered(@),
              ![b]["stale"] = IF act.stale THEN Once(b, "stale", Baseline) ELSE Recovered(@)]
        /\ evidence' = evidence
              \cup (IF u THEN {<<b, "uncompared", 0>>} ELSE {})
              \cup (IF act.stale THEN {<<b, "stale", Baseline>>} ELSE {})
  BY DEF FinalizeActive
<1> DEFINE U == IF u THEN {<<b, "uncompared", 0>>} ELSE {}
           S == IF act.stale THEN {<<b, "stale", Baseline>>} ELSE {}
           new(k) == IF k = "uncompared"
                     THEN (IF u THEN Once(b, "uncompared", 0) ELSE Recovered(inc[b][k]))
                     ELSE (IF act.stale THEN Once(b, "stale", Baseline) ELSE Recovered(inc[b][k]))
<1>2. health' \in HealthRow
  BY <1>1, HealthTypes
<1>3. IsFiniteSet(evidence') /\ evidence' \subseteq Binding \X Kind \X Key
  <2>1. IsFiniteSet(U) /\ IsFiniteSet(S)
    BY FS_EmptySet, FS_Singleton
  <2>2. U \subseteq Binding \X Kind \X Key /\ S \subseteq Binding \X Kind \X Key
    BY <1>k, <1>t
  <2>3. evidence' = (evidence \cup U) \cup S
    BY <1>1
  <2> HIDE DEF U, S
  <2>4. IsFiniteSet(evidence \cup U)
    BY <2>1, FS_Union DEF EvidenceInv, EvidenceTypes
  <2>5. IsFiniteSet(evidence')
    BY <2>1, <2>3, <2>4, FS_Union
  <2> QED BY <2>2, <2>3, <2>5 DEF EvidenceInv, EvidenceTypes
<1>4. /\ \A c, k : c # b \/ k \notin {"uncompared", "stale"} => Keys(c, k)' = Keys(c, k)
      /\ Keys(b, "uncompared")' = Keys(b, "uncompared") \cup U
      /\ Keys(b, "stale")' = Keys(b, "stale") \cup S
  BY <1>1 DEF Keys
<1>5. new("uncompared") \in Incident /\ new("uncompared").count = Cardinality(Keys(b, "uncompared")')
  <2>1. CASE u
    <3>1. {e \in evidence' : e[1] = b /\ e[2] = "uncompared"}
            = Keys(b, "uncompared") \cup {<<b, "uncompared", 0>>}
      BY <1>4, <2>1 DEF Keys
    <3>2. /\ Once(b, "uncompared", 0) \in Incident
          /\ Once(b, "uncompared", 0).count
               = Cardinality({e \in evidence' : e[1] = b /\ e[2] = "uncompared"})
      BY <1>3, <1>k, <3>1, KeyCounts
    <3> QED BY <2>1, <3>2 DEF Keys
  <2>2. CASE ~u
    <3>1. Keys(b, "uncompared")' = Keys(b, "uncompared")
      BY <1>4, <2>2
    <3>2. inc[b]["uncompared"] \in Incident
      BY <1>t
    <3>3. inc[b]["uncompared"].count = Cardinality(Keys(b, "uncompared"))
      BY DEF EvidenceInv, EvidenceIsCounted
    <3> QED BY <2>2, <3>1, <3>2, <3>3, RecoveredCounts
  <2> QED BY <2>1, <2>2
<1>6. new("stale") \in Incident /\ new("stale").count = Cardinality(Keys(b, "stale")')
  <2>1. CASE act.stale
    <3>1. {e \in evidence' : e[1] = b /\ e[2] = "stale"}
            = Keys(b, "stale") \cup {<<b, "stale", Baseline>>}
      BY <1>4, <2>1 DEF Keys
    <3>2. /\ Once(b, "stale", Baseline) \in Incident
          /\ Once(b, "stale", Baseline).count
               = Cardinality({e \in evidence' : e[1] = b /\ e[2] = "stale"})
      BY <1>3, <1>k, <3>1, KeyCounts
    <3> QED BY <2>1, <3>2 DEF Keys
  <2>2. CASE ~act.stale
    <3>1. Keys(b, "stale")' = Keys(b, "stale")
      BY <1>4, <2>2
    <3>2. inc[b]["stale"] \in Incident
      BY <1>t
    <3>3. inc[b]["stale"].count = Cardinality(Keys(b, "stale"))
      BY DEF EvidenceInv, EvidenceIsCounted
    <3> QED BY <2>2, <3>1, <3>2, <3>3, RecoveredCounts
  <2> QED BY <2>1, <2>2
<1>7. inc' = [inc EXCEPT ![b]["uncompared"] = new("uncompared"), ![b]["stale"] = new("stale")]
  BY <1>1, <1>t
<1> HIDE DEF new, U, S
<1>8. /\ inc' \in [Binding -> [Kind -> Incident]]
      /\ inc'[b]["uncompared"] = new("uncompared") /\ inc'[b]["stale"] = new("stale")
      /\ \A c \in Binding, k \in Kind :
            c # b \/ k \notin {"uncompared", "stale"} => inc'[c][k] = inc[c][k]
  BY <1>5, <1>6, <1>7, <1>t
<1>9. \A c : Mine(c)' = Mine(c) /\ DivergencesIn(Mine(c))' = DivergencesIn(Mine(c))
  BY DEF Mine, DivergencesIn
<1>10. EvidenceIsCounted'
  <2> SUFFICES ASSUME NEW c \in Binding
               PROVE  /\ inc'[c]["coverage"].count = Cardinality(Mine(c)')
                      /\ inc'[c]["signal"].count = Cardinality(DivergencesIn(Mine(c))')
                      /\ \A k \in {"stale", "uncompared", "runtime"} :
                            inc'[c][k].count = Cardinality(Keys(c, k)')
    BY DEF EvidenceIsCounted
  <2>1. inc'[c]["coverage"].count = Cardinality(Mine(c)')
        /\ inc'[c]["signal"].count = Cardinality(DivergencesIn(Mine(c))')
    BY <1>8, <1>9 DEF EvidenceInv, EvidenceIsCounted, Kind
  <2>2. ASSUME NEW k \in {"stale", "uncompared", "runtime"}
        PROVE  inc'[c][k].count = Cardinality(Keys(c, k)')
    <3>1. CASE c = b /\ k \in {"uncompared", "stale"}
      BY <1>5, <1>6, <1>8, <3>1
    <3>2. CASE ~(c = b /\ k \in {"uncompared", "stale"})
      <4>1. Keys(c, k)' = Keys(c, k) /\ inc'[c][k] = inc[c][k]
        BY <1>4, <1>8, <3>2 DEF Kind
      <4> QED BY <4>1 DEF EvidenceInv, EvidenceIsCounted
    <3> QED BY <3>1, <3>2
  <2> QED BY <2>1, <2>2
<1>11. EvidenceTypes'
  BY <1>2, <1>3, <1>8 DEF EvidenceInv, EvidenceTypes
<1> QED BY <1>10, <1>11 DEF EvidenceInv

\* The head of a monitor's transactions for an activation that has ended.
LEMMA NotActiveCounts ==
    ASSUME EvidenceInv, RowInv, NEW b \in Binding, NotActive(b),
           UNCHANGED <<act, diverging, assessed, runs>>, events' \in 0..MaxEvents
    PROVE  EvidenceInv'
<1>1. CASE act.status = "ERROR"
  <2>1. _record_activation_runtime_failure(b, 0)
    BY <1>1 DEF NotActive
  <2> QED BY <2>1, KeyTypes, FailureCounts
<1>2. CASE act.status # "ERROR"
  <2>1. health' = Unknown(b) /\ UNCHANGED <<inc, evidence>>
    BY <1>2 DEF NotActive
  <2>2. health' \in HealthRow
    BY <2>1, HealthTypes
  <2> QED BY <2>1, <2>2, EvidenceAlone DEF EvidenceInv, EvidenceTypes
<1> QED BY <1>1, <1>2

\* Every step keeps the evidence counted.
LEMMA EvidenceStep ==
    ASSUME MInv, EvidenceInv, [Next]_vars
    PROVE  EvidenceInv'
<1> USE DEF Event
<1>t. /\ act \in [status : {"ACTIVE", "DEACTIVATED", "ERROR"}, stale : BOOLEAN]
      /\ health \in HealthRow /\ events \in 0..MaxEvents /\ IsFiniteSet(runs)
      /\ inc \in [Binding -> [Kind -> Incident]] /\ RowInv
  BY DEF EvidenceInv, EvidenceTypes, MInv
<1>e. Event \/ UNCHANGED events => events' \in 0..MaxEvents
  BY <1>t, EventType
<1>1. CASE \E a \in Asset : Evaluated(a)
  <2>1. /\ UNCHANGED <<diverging, health, runs, assessed, inc, evidence, events>>
        /\ act' = [act EXCEPT !.stale = FALSE]
    BY <1>1 DEF Evaluated
  <2> QED BY <1>t, <2>1, EvidenceAlone
<1>2. CASE GoesStale \/ ActivationEnds \/ UNCHANGED vars
  <2>1. /\ UNCHANGED <<diverging, health, runs, assessed, inc, evidence>>
        /\ Event \/ UNCHANGED events
    BY <1>2 DEF GoesStale, ActivationEnds, vars
  <2>2. act' \in [status : {"ACTIVE", "DEACTIVATED", "ERROR"}, stale : BOOLEAN]
    BY <1>t, <1>2 DEF GoesStale, ActivationEnds, vars
  <2> QED BY <1>t, <1>e, <2>1, <2>2, EvidenceAlone
<1>3. CASE register
  <2>1. /\ UNCHANGED <<act, diverging, runs, assessed, inc, evidence>>
        /\ Event \/ UNCHANGED events
        /\ \E b \in Binding : health' = Unknown(b)
    BY <1>3 DEF register
  <2>2. health' \in HealthRow
    BY <2>1, HealthTypes
  <2> QED BY <1>t, <1>e, <2>1, <2>2, EvidenceAlone
<1>4. ASSUME NEW b \in Binding, deactivate(b) \/ ClaimExpires(b)
      PROVE  EvidenceInv'
  <2>1. /\ UNCHANGED <<act, diverging, runs, assessed, inc, evidence>>
        /\ Event \/ UNCHANGED events
        /\ health' \in {health, Unknown(b)}
    BY <1>4 DEF deactivate, ClaimExpires
  <2>2. health' \in HealthRow
    BY <1>t, <2>1, HealthTypes
  <2> QED BY <1>t, <1>e, <2>1, <2>2, EvidenceAlone
<1>5. ASSUME NEW b \in Binding, NEW k \in Kind, OperatorCall(b, k)
      PROVE  EvidenceInv'
  <2>1. /\ UNCHANGED <<act, diverging, health, runs, assessed, evidence>> /\ Event
        /\ \E s \in {"acknowledged", "resolved"} : inc' = [inc EXCEPT ![b][k].status = s]
    BY <1>5 DEF OperatorCall
  <2>2. /\ inc' \in [Binding -> [Kind -> Incident]]
        /\ \A c \in Binding, j \in Kind : inc'[c][j].count = inc[c][j].count
    <3>1. PICK s \in {"acknowledged", "resolved"} : inc' = [inc EXCEPT ![b][k].status = s]
      BY <2>1
    <3> DEFINE new == [inc[b][k] EXCEPT !.status = s]
    <3>2. new \in Incident /\ new.count = inc[b][k].count
      BY <1>t DEF Incident
    <3>3. inc' = [inc EXCEPT ![b][k] = new]
      BY <1>t, <3>1
    <3> HIDE DEF new
    <3> QED BY <1>t, <3>2, <3>3
  <2>3. EvidenceIsCounted'
    BY <2>1, <2>2, CountsKept
  <2> QED BY <1>e, <2>1, <2>2, <2>3 DEF EvidenceInv, EvidenceTypes
<1>6. ASSUME NEW w \in Worker,
             _claim_binding(w) \/ _release_claim(w) \/ WorkerDies(w) \/ _next_comparison_plan(w)
                 \/ _renew_claim(w)
      PROVE  EvidenceInv'
  <2>1. /\ UNCHANGED <<act, diverging, health, runs, assessed, inc, evidence>>
        /\ Event \/ UNCHANGED events
    BY <1>6 DEF _claim_binding, _release_claim, WorkerDies, _next_comparison_plan, _renew_claim, rows
  <2> QED BY <1>t, <1>e, <2>1, EvidenceAlone
<1>7. ASSUME NEW w \in Worker, compare_activation(w)
      PROVE  EvidenceInv'
  <2> DEFINE run == [window |-> job[w].window, binding |-> job[w].b, late |-> ~_owned_binding(w)]
  <2>1. /\ UNCHANGED <<act, diverging, health, assessed, inc, evidence>>
        /\ Event \/ UNCHANGED events
        /\ runs' \in {runs, runs \cup {run}}
    BY <1>7 DEF compare_activation, _persist_loaded
  <2> HIDE DEF run
  <2>2. IsFiniteSet(runs') /\ runs \subseteq runs'
    BY <1>t, <2>1, FS_AddElement
  <2> QED BY <1>t, <1>e, <2>1, <2>2, EvidenceAlone
<1>8. ASSUME NEW w \in Worker, _process_one_comparison(w)
      PROVE  EvidenceInv'
  <2>1. job[w].b \in Binding /\ UNCHANGED <<act, seen, diverging, runs>>
    BY <1>t, <1>8 DEF _process_one_comparison, RowInv, At
  <2>2. CASE UNCHANGED <<health, assessed, inc, evidence>> /\ (Event \/ UNCHANGED events)
    BY <1>t, <1>e, <2>1, <2>2, EvidenceAlone
  <2>3. CASE NotActive(job[w].b) /\ UNCHANGED <<assessed, events>>
    BY <1>t, <1>e, <2>1, <2>3, NotActiveCounts
  <2>4. ASSUME NEW r \in Unassessed, _process_comparison_run(r, job[w].b),
               UNCHANGED <<evidence, events>>
        PROVE  EvidenceInv'
    BY <1>t, <1>e, <2>1, <2>4, AssessmentCounts
  <2> QED BY <1>8, <2>2, <2>3, <2>4 DEF _process_one_comparison, Pending
<1>9. ASSUME NEW w \in Worker, _finalize_binding_cycle(w)
      PROVE  EvidenceInv'
  <2>1. job[w].b \in Binding /\ UNCHANGED <<act, seen, diverging, runs, assessed>>
    BY <1>t, <1>9 DEF _finalize_binding_cycle, RowInv, At
  <2>2. CASE UNCHANGED <<health, inc, evidence>> /\ (Event \/ UNCHANGED events)
    BY <1>t, <1>e, <2>1, <2>2, EvidenceAlone
  <2>3. CASE NotActive(job[w].b) /\ UNCHANGED events
    BY <1>t, <1>e, <2>1, <2>3, NotActiveCounts
  <2>4. CASE FinalizeActive(job[w].b) /\ UNCHANGED events
    BY <1>t, <1>e, <2>1, <2>4, FinalizeCounts
  <2> QED BY <1>9, <2>2, <2>3, <2>4 DEF _finalize_binding_cycle
<1>10. ASSUME NEW w \in Worker, _record_binding_error(w)
       PROVE  EvidenceInv'
  <2>1. job[w].b \in Binding /\ UNCHANGED <<act, seen, diverging, runs, assessed, events>>
    BY <1>t, <1>10 DEF _record_binding_error, RowInv, At
  <2>2. CASE _record_activation_runtime_failure(job[w].b, 1)
    BY <1>t, <1>e, <2>1, <2>2, KeyTypes, FailureCounts
  <2>3. CASE UNCHANGED <<health, inc, evidence>>
    BY <1>t, <1>e, <2>1, <2>3, EvidenceAlone
  <2> QED BY <1>10, <2>2, <2>3 DEF _record_binding_error
<1> QED BY <1>1, <1>2, <1>3, <1>4, <1>5, <1>6, <1>7, <1>8, <1>9, <1>10 DEF Next, Step

\* Before the first registration there is no evidence.
LEMMA EvidenceInit == Init => EvidenceInv
<1> SUFFICES ASSUME Init PROVE EvidenceInv
  OBVIOUS
<1>1. /\ runs = {} /\ assessed = {} /\ evidence = {}
      /\ inc = [b \in Binding |-> [k \in Kind |-> [status |-> "none", count |-> 0]]]
      /\ events = 0 /\ act = [status |-> "ACTIVE", stale |-> FALSE] /\ diverging \in Divergences
      /\ health = [binding |-> 0, status |-> "UNKNOWN", cause |-> "none"]
  BY DEF Init
<1>2. \A b, k : Mine(b) = {} /\ DivergencesIn(Mine(b)) = {} /\ Keys(b, k) = {}
  BY <1>1 DEF Mine, DivergencesIn, Keys
<1>3. EvidenceIsCounted
  <2>1. Cardinality({}) = 0
    BY FS_EmptySet
  <2>2. \A b \in Binding, k \in Kind : inc[b][k].count = 0
    BY <1>1
  <2> QED BY <1>2, <2>1, <2>2 DEF EvidenceIsCounted, Kind
<1>4. IsFiniteSet(runs) /\ IsFiniteSet(evidence)
  BY <1>1, FS_EmptySet
<1>5. inc \in [Binding -> [Kind -> Incident]]
  BY <1>1 DEF Incident
<1>6. health \in HealthRow /\ events \in 0..MaxEvents /\ diverging \subseteq 1..Horizon
  BY <1>1, MonitoringAssumption DEF HealthRow
<1>7. EvidenceTypes
  BY <1>1, <1>4, <1>5, <1>6 DEF EvidenceTypes
<1> QED BY <1>3, <1>7 DEF EvidenceInv

\* The claims and the evidence keep their invariants together.
LEMMA EvidenceInvariant == Spec => [](MInv /\ EvidenceInv)
<1>1. Init => MInv /\ EvidenceInv
  BY MonitoringInit, EvidenceInit
<1>2. MInv /\ EvidenceInv /\ [Next]_vars => (MInv /\ EvidenceInv)'
  BY MonitoringStep, EvidenceStep
<1> QED BY <1>1, <1>2, PTL DEF Spec

\* The rows of comparison and monitoring keep their types; an assessment always
\* names a stored run, and health a registration.
THEOREM MonitoringTypeCorrect == Spec => []TypeOK
BY EvidenceInvariant, MonitoringTypes, PTL

\* occurrence_count is the number of distinct pieces of evidence, whatever
\* cycles are repeated, claims lost, workers crashed or incidents resolved.
THEOREM EvidenceCounted == Spec => []EvidenceIsCounted
<1>1. EvidenceInv => EvidenceIsCounted
  BY DEF EvidenceInv
<1> QED BY <1>1, EvidenceInvariant, PTL
=============================================================================
