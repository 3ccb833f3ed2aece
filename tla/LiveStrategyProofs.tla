------------------------- MODULE LiveStrategyProofs -------------------------
(***************************************************************************)
(* Proofs about live strategy evaluation and its dispatch, for any number  *)
(* of workers, tokens, faults, assets and candles and any strategy.        *)
(***************************************************************************)
EXTENDS LiveStrategy, FiniteSetTheorems, TLAPS

\* A message is in one place: in the queue or with one worker, and a worker is
\* idle exactly when it has none.
OnePlace ==
    /\ \A w \in Worker : At(w, "idle") <=> actor[w].token = NoToken
    /\ \A w \in Worker : actor[w].token \notin queued
    /\ \A v, w \in Worker :
          v # w /\ actor[v].token = actor[w].token => actor[v].token = NoToken

ActorInv ==
    /\ lease \in Token \cup {NoToken}
    /\ queued \subseteq Token
    /\ actor \in [Worker -> [token : Token \cup {NoToken}, pc : Steps]]

DispatchInv == ActorInv /\ OnePlace /\ OneOutstanding

\* The steps of the strategy move an actor on and touch nothing else of the
\* dispatch.
LEMMA StrategySteps ==
    ASSUME DispatchInv, NEW w \in Worker,
           \/ _locked_active_activation(w) \/ Evaluate(w)
           \/ DefinitionRejected(w) \/ EvaluationFails(w)
    PROVE  /\ UNCHANGED <<lease, queued, strayed>>
           /\ actor[w].pc \in {"list", "locked"}
           /\ \E pc \in {"locked", "release"} : Goto(w, pc)
BY DEF _locked_active_activation, Evaluate, DefinitionRejected, EvaluationFails, At

\* Moving an actor that is not idle keeps every message in its place.
LEMMA GotoKeeps ==
    ASSUME DispatchInv, NEW w \in Worker, ~At(w, "idle"),
           NEW pc \in Steps \ {"idle"}, Goto(w, pc), UNCHANGED <<lease, queued, strayed>>
    PROVE  DispatchInv'
<1>1. \A v \in Worker : actor'[v].token = actor[v].token /\ (At(v, "idle")' <=> At(v, "idle"))
  BY DEF DispatchInv, ActorInv, Goto, At
<1>2. ActorInv'
  BY DEF DispatchInv, ActorInv, Goto, Steps
<1>3. OnePlace'
  BY <1>1 DEF DispatchInv, OnePlace
<1>4. Outstanding' = Outstanding
  BY <1>1 DEF Outstanding, Running
<1>5. OneOutstanding'
  BY <1>4 DEF DispatchInv, OneOutstanding
<1> QED BY <1>2, <1>3, <1>5 DEF DispatchInv

\* Every step of the system preserves the invariant.
LEMMA DispatchStep ==
    ASSUME DispatchInv, [Next]_vars
    PROVE  DispatchInv'
<1> USE DispatchAssumption
<1>1. ASSUME UNCHANGED dispatchVars PROVE DispatchInv'
  BY <1>1 DEF DispatchInv, ActorInv, OnePlace, OneOutstanding, Outstanding, Running, At, dispatchVars
<1>2. ASSUME NEW w \in Worker,
             \/ _locked_active_activation(w) \/ Evaluate(w)
             \/ DefinitionRejected(w) \/ EvaluationFails(w)
      PROVE  DispatchInv'
  <2>1. PICK pc \in {"locked", "release"} : Goto(w, pc)
    BY <1>2, StrategySteps
  <2>2. UNCHANGED <<lease, queued, strayed>> /\ ~At(w, "idle")
    BY <1>2, StrategySteps DEF At
  <2> QED BY <2>1, <2>2, GotoKeeps DEF Steps
<1>3. ASSUME Enqueue PROVE DispatchInv'
  <2>1. PICK t \in Token \ Outstanding :
          /\ lease' = t
          /\ queued' \in {queued, queued \cup {t}}
    BY <1>3 DEF Enqueue
  <2>2. UNCHANGED <<actor, strayed>> /\ lease = NoToken
    BY <1>3 DEF Enqueue
  <2>3. ActorInv'
    BY <2>1, <2>2 DEF DispatchInv, ActorInv
  <2>4. \A w \in Worker : actor[w].token # t
    BY <2>1 DEF Outstanding, Running
  <2>5. OnePlace'
    BY <2>1, <2>2, <2>4 DEF DispatchInv, OnePlace, At
  <2>6. NoToken \notin Outstanding
    BY DEF DispatchInv, ActorInv, Outstanding, Running
  <2>7. Outstanding' \subseteq Outstanding \cup {t}
    BY <2>1, <2>2 DEF Outstanding, Running
  <2>8. OneOutstanding'
    BY <2>1, <2>2, <2>6, <2>7 DEF DispatchInv, OneOutstanding
  <2> QED BY <2>3, <2>5, <2>8 DEF DispatchInv
<1>4. ASSUME LeaseExpires PROVE DispatchInv'
  <2>1. ActorInv' /\ OnePlace'
    BY <1>4 DEF LeaseExpires, DispatchInv, ActorInv, OnePlace, At
  <2>2. Outstanding' = Outstanding
    BY <1>4 DEF LeaseExpires, Outstanding, Running
  <2>3. OneOutstanding'
    BY <1>4, <2>2 DEF LeaseExpires, DispatchInv, OneOutstanding
  <2> QED BY <2>1, <2>3 DEF DispatchInv
<1>5. ASSUME NEW w \in Worker, Take(w) PROVE DispatchInv'
  <2>1. PICK t \in queued : /\ actor' = [actor EXCEPT ![w] = [token |-> t, pc |-> "list"]]
                            /\ queued' = queued \ {t}
    BY <1>5 DEF Take
  <2>2. UNCHANGED <<lease, strayed>>
    BY <1>5 DEF Take
  <2>3. ActorInv'
    BY <2>1, <2>2 DEF DispatchInv, ActorInv, Steps
  <2>4. /\ actor'[w].token = t /\ actor'[w].pc = "list" /\ t # NoToken
        /\ \A v \in Worker : v # w => actor'[v] = actor[v] /\ actor[v].token # t
    BY <2>1 DEF DispatchInv, ActorInv, OnePlace
  <2>5. OnePlace'
    BY <2>1, <2>4 DEF DispatchInv, OnePlace, At
  <2>6. Outstanding' \subseteq Outstanding
    BY <2>1, <2>4 DEF Outstanding, Running
  <2>7. OneOutstanding'
    BY <2>2, <2>6 DEF DispatchInv, OneOutstanding
  <2> QED BY <2>3, <2>5, <2>7 DEF DispatchInv
<1>6. ASSUME NEW w \in Worker, actor' = [actor EXCEPT ![w] = Idle], ~At(w, "idle"),
             queued' \in {queued, queued \cup {actor[w].token}}
      PROVE  /\ actor' \in [Worker -> [token : Token \cup {NoToken}, pc : Steps]]
             /\ queued' \subseteq Token
             /\ OnePlace'
             /\ Outstanding' \subseteq Outstanding
             /\ queued' = queued => actor[w].token \notin Outstanding'
  <2>1. /\ actor[w].token \in Token
        /\ actor'[w].token = NoToken /\ actor'[w].pc = "idle"
        /\ \A v \in Worker : v # w => actor'[v] = actor[v] /\ actor[v].token # actor[w].token
    BY <1>6 DEF DispatchInv, ActorInv, OnePlace, Idle, At
  <2>2. actor' \in [Worker -> [token : Token \cup {NoToken}, pc : Steps]]
    BY <1>6 DEF DispatchInv, ActorInv, Idle, Steps
  <2>3. queued' \subseteq Token
    BY <1>6, <2>1 DEF DispatchInv, ActorInv
  <2>4. OnePlace'
    BY <1>6, <2>1, <2>3 DEF DispatchInv, OnePlace, At
  <2>5. Outstanding' \subseteq Outstanding
    BY <1>6, <2>1 DEF Outstanding, Running
  <2>6. queued' = queued => actor[w].token \notin Outstanding'
    BY <1>6, <2>1 DEF DispatchInv, OnePlace, Outstanding, Running
  <2> QED BY <2>2, <2>3, <2>4, <2>5, <2>6
<1>r. ASSUME NEW w \in Worker, ReleaseLease(w) PROVE DispatchInv'
  <2>1. /\ Goto(w, "ack") /\ ~At(w, "idle") /\ queued' = queued
        /\ \/ UNCHANGED <<lease, strayed>>
           \/ /\ strayed' = strayed \cup {actor[w].token}
              /\ lease' = lease \/ (lease' = NoToken /\ lease = actor[w].token)
    BY <1>r DEF ReleaseLease, _release_dispatch_lease, At
  <2>2. \A v \in Worker : actor'[v].token = actor[v].token /\ (At(v, "idle")' <=> At(v, "idle"))
    BY <2>1 DEF DispatchInv, ActorInv, Goto, At
  <2>3. ActorInv'
    BY <2>1 DEF DispatchInv, ActorInv, Goto, Steps
  <2>4. OnePlace'
    BY <2>1, <2>2 DEF DispatchInv, OnePlace
  <2>5. Outstanding' = Outstanding
    BY <2>1, <2>2 DEF Outstanding, Running
  <2>6. OneOutstanding'
    BY <2>1, <2>5 DEF DispatchInv, OneOutstanding
  <2> QED BY <2>3, <2>4, <2>6 DEF DispatchInv
<1>7. ASSUME NEW w \in Worker, Acknowledge(w) PROVE DispatchInv'
  <2>1. /\ actor' = [actor EXCEPT ![w] = Idle] /\ ~At(w, "idle") /\ queued' = queued
        /\ strayed' = strayed \ {actor[w].token} /\ lease' = lease
    BY <1>7 DEF Acknowledge, At
  <2>2. ActorInv' /\ OnePlace'
    BY <2>1, <1>6 DEF DispatchInv, ActorInv
  <2>3. OneOutstanding'
    BY <2>1, <1>6 DEF DispatchInv, OneOutstanding
  <2> QED BY <2>2, <2>3 DEF DispatchInv
<1>8. ASSUME NEW w \in Worker, ActorRaises(w) PROVE DispatchInv'
  <2>1. /\ actor' = [actor EXCEPT ![w] = Idle] /\ ~At(w, "idle")
        /\ queued' = queued \cup {actor[w].token}
        /\ strayed' = strayed \cup {actor[w].token}
        /\ lease' = lease \/ (lease' = NoToken /\ lease = actor[w].token)
    BY <1>8 DEF ActorRaises, _release_dispatch_lease, At
  <2>2. ActorInv' /\ OnePlace'
    BY <2>1, <1>6 DEF DispatchInv, ActorInv
  <2>3. OneOutstanding'
    BY <2>1, <1>6 DEF DispatchInv, OneOutstanding
  <2> QED BY <2>2, <2>3 DEF DispatchInv
<1>9. ASSUME NEW w \in Worker, WorkerDies(w) PROVE DispatchInv'
  <2>1. /\ actor' = [actor EXCEPT ![w] = Idle] /\ ~At(w, "idle")
        /\ queued' = queued \cup {actor[w].token}
        /\ UNCHANGED <<lease, strayed>>
    BY <1>9 DEF WorkerDies
  <2>2. ActorInv' /\ OnePlace'
    BY <2>1, <1>6 DEF DispatchInv, ActorInv
  <2>3. OneOutstanding'
    BY <2>1, <1>6 DEF DispatchInv, OneOutstanding
  <2> QED BY <2>2, <2>3 DEF DispatchInv
<1>10. ASSUME CandleArrives \/ activate \/ deactivate \/ UNCHANGED vars
       PROVE  UNCHANGED dispatchVars
  BY <1>10 DEF CandleArrives, activate, deactivate, vars
<1> QED BY <1>1, <1>2, <1>3, <1>4, <1>5, <1>r, <1>7, <1>8, <1>9, <1>10 DEF Next

\* At any time every message still to be handled is the one the dispatch lease
\* stands for, or one whose lease ran out or was released by its own actor
\* (enqueue_live_strategy_evaluation and _release_dispatch_lease).
THEOREM MessagesAreLeased == Spec => []OneOutstanding
<1>1. Init => DispatchInv
  BY DispatchAssumption DEF Init, DispatchInit, DispatchInv, ActorInv, OnePlace, OneOutstanding,
     Outstanding, Running, Idle, Steps, At
<1>2. DispatchInv /\ [Next]_vars => DispatchInv'
  BY DispatchStep
<1>3. DispatchInv => OneOutstanding
  BY DEF DispatchInv
<1> QED BY <1>1, <1>2, <1>3, PTL DEF Spec
-----------------------------------------------------------------------------
(* Numbers *)

\* A non-empty set of naturals has a least element.
LEMMA LeastNumber ==
    ASSUME NEW S, S \subseteq Nat, S # {}
    PROVE  \E x \in S : \A y \in S : x <= y
<1> DEFINE Less == {ss \in Nat \X Nat : ss[1] < ss[2]}
<1>1. IsWellFoundedOn(Less, Nat)
  BY NatLessThanWellFounded DEF OpToRel
<1>2. \A p, q \in Nat : p < q => <<p, q>> \in Less
  OBVIOUS
<1> HIDE DEF Less
<1>3. PICK x \in S : \A y \in S : ~(<<y, x>> \in Less)
  BY <1>1, WFMin
<1>4. \A y \in S : x <= y
  <2> TAKE y \in S
  <2>1. x \in Nat /\ y \in Nat
    OBVIOUS
  <2>2. ~(y < x)
    BY <1>2, <1>3, <2>1, Zenon
  <2> QED BY <2>1, <2>2
<1> QED BY <1>4

\* A set of numbers that holds 0 and the successor of each of its elements
\* below n holds every number up to n: induction on the set.
LEMMA Reaches ==
    ASSUME NEW n \in Nat, NEW S, 0 \in S, \A k \in 1..n : k - 1 \in S => k \in S
    PROVE  0..n \subseteq S
<1> SUFFICES ASSUME (0..n) \ S # {} PROVE FALSE
  OBVIOUS
<1>1. PICK k \in (0..n) \ S : \A y \in (0..n) \ S : k <= y
  <2> DEFINE B == (0..n) \ S
  <2>1. B \subseteq Nat /\ B # {}
    OBVIOUS
  <2> HIDE DEF B
  <2>2. \E x \in B : \A y \in B : x <= y
    BY <2>1, LeastNumber
  <2> QED BY <2>2 DEF B
<1>2. k \in 1..n /\ k - 1 \in 0..n
  BY <1>1
<1>3. k - 1 \in S
  BY <1>1, <1>2
<1> QED BY <1>1, <1>2, <1>3

\* A finite set of naturals that is not empty has a greatest element.
LEMMA GreatestOfFinite ==
    ASSUME NEW S, S \subseteq Nat, S # {}, IsFiniteSet(S)
    PROVE  Max(S) \in S
<1> DEFINE n == Cardinality(S)
<1>1. n \in Nat /\ ExistsBijection(1..n, S)
  BY FS_CardinalityType
<1>2. PICK f \in [1..n -> S] : \A y \in S : \E i \in 1..n : f[i] = y
  BY <1>1 DEF ExistsBijection, Bijection, Surjection
<1> HIDE DEF n
<1> DEFINE T == {k \in 0..n : k = 0 \/ \E j \in 1..k : \A i \in 1..k : f[i] <= f[j]}
<1>3. \A k \in 1..n : k - 1 \in T => k \in T
  <2> TAKE k \in 1..n
  <2> HAVE k - 1 \in T
  <2>1. \A i \in 1..k : i \in 1..n /\ f[i] \in Nat
    <3>1. \A i \in 1..k : i \in 1..n
      BY <1>1
    <3> QED BY <1>2, <3>1
  <2>2. CASE k - 1 = 0
    <3>1. k = 1 /\ 1 \in 1..k /\ f[1] \in Nat
      BY <1>1, <2>1, <2>2
    <3>2. \A i \in 1..k : f[i] <= f[1]
      BY <3>1
    <3> QED BY <1>1, <3>1, <3>2
  <2>3. CASE k - 1 # 0
    <3>1. PICK j \in 1..k - 1 : \A i \in 1..k - 1 : f[i] <= f[j]
      BY <2>3
    <3>2. CASE f[k] <= f[j]
      <4>1. \A i \in 1..k : f[i] <= f[j]
        BY <1>1, <2>1, <3>1, <3>2
      <4> QED BY <1>1, <3>1, <4>1
    <3>3. CASE ~(f[k] <= f[j])
      <4>1. \A i \in 1..k : f[i] <= f[k]
        BY <1>1, <2>1, <3>1, <3>3
      <4> QED BY <1>1, <4>1
    <3> QED BY <3>2, <3>3
  <2> QED BY <2>2, <2>3
<1>4. n \in T
  <2>1. 0 \in T
    BY <1>1
  <2> HIDE DEF T
  <2> QED BY <1>1, <1>3, <2>1, Reaches
<1>5. n # 0
  <2>1. PICK y : y \in S
    OBVIOUS
  <2>2. \E i \in 1..n : f[i] = y
    BY <1>2, <2>1
  <2> QED BY <1>1, <2>2
<1>6. \E x \in S : \A y \in S : x >= y
  <2>1. PICK j \in 1..n : \A i \in 1..n : f[i] <= f[j]
    BY <1>4, <1>5
  <2>2. f[j] \in S /\ \A y \in S : y <= f[j]
    BY <1>2, <2>1
  <2>3. \A y \in S : f[j] >= y
    BY <2>2
  <2> QED BY <2>2, <2>3
<1> QED BY <1>6 DEF Max
-----------------------------------------------------------------------------
(* The batch of one transaction *)

\* The rows after k candles follow from those after k - 1: the function that
\* defines them exists.
LEMMA RunsFollow ==
    ASSUME NEW start, NEW order, NEW sig, Len(order) \in Nat
    PROVE  /\ Runs(start, order, sig)[0] = start
           /\ \A k \in 1..Len(order) :
                Runs(start, order, sig)[k] =
                    _evaluate_and_persist(Runs(start, order, sig)[k - 1], order[k], sig[order[k]])
<1> DEFINE n == Len(order)
           Step(r, k) == _evaluate_and_persist(r, order[k], sig[order[k]])
           Def(f, m) == [k \in 0..m |-> IF k = 0 THEN start ELSE Step(f[k - 1], k)]
           T == {m \in 0..n : \E f : f = Def(f, m)}
<1>1. Runs(start, order, sig) = CHOOSE f : f = Def(f, n)
  BY DEF Runs
<1> HIDE DEF Step, n
<1>0. n \in Nat
  BY DEF n
<1>2. 0 \in T
  <2> DEFINE f == [k \in 0..0 |-> start]
  <2>1. f = Def(f, 0)
    OBVIOUS
  <2> HIDE DEF f
  <2> QED BY <1>0, <2>1
<1>3. \A k \in 1..n : k - 1 \in T => k \in T
  <2> TAKE k \in 1..n
  <2> HAVE k - 1 \in T
  <2>1. PICK f : f = Def(f, k - 1)
    OBVIOUS
  <2> DEFINE g == [j \in 0..k |-> IF j = k THEN Step(f[k - 1], k) ELSE f[j]]
  <2>2. \A j \in 0..k : g[j] = IF j = 0 THEN start ELSE Step(g[j - 1], j)
    <3> TAKE j \in 0..k
    <3>1. CASE j = k
      <4>1. j # 0 /\ g[j] = Step(f[k - 1], k) /\ g[j - 1] = f[k - 1]
        BY <1>0, <3>1
      <4> QED BY <3>1, <4>1
    <3>2. CASE j # k
      <4>1. j \in 0..k - 1 /\ g[j] = f[j] /\ (j # 0 => g[j - 1] = f[j - 1])
        BY <1>0, <3>2
      <4>2. f[j] = IF j = 0 THEN start ELSE Step(f[j - 1], j)
        BY <2>1, <4>1
      <4> QED BY <4>1, <4>2
    <3> QED BY <3>1, <3>2
  <2>3. g = [j \in 0..k |-> g[j]]
    OBVIOUS
  <2> HIDE DEF g
  <2>4. g = Def(g, k)
    BY <2>2, <2>3
  <2> HIDE DEF Def
  <2> QED BY <1>0, <2>4
<1>4. n \in T
  <2> HIDE DEF T
  <2>1. 0..n \subseteq T
    BY <1>0, <1>2, <1>3, Reaches
  <2> QED BY <1>0, <2>1
<1>5. \E f : f = Def(f, n)
  BY <1>4
<1> DEFINE R == Runs(start, order, sig)
<1>6. R = Def(R, n)
  <2> HIDE DEF Def
  <2> QED BY <1>1, <1>5
<1> HIDE DEF R
<1>7. R[0] = start /\ \A k \in 1..n : R[k] = Step(R[k - 1], k)
  BY <1>0, <1>6
<1> QED BY <1>7 DEF R, n, Step

ActRow   == [status : {"NONE", "ACTIVE", "DEACTIVATED", "ERROR"}, health : Health,
             cursor : Asset \cup {0}, open : Nat]
StateRow == [last : Bar \cup {0}, pos : Position, health : Health]
Outcome  == {"none", "gap", "evaluated"}
Rows     == [act : ActRow, state : [Asset -> StateRow], obs : [Feed -> Outcome],
             broken : SUBSET Asset]

EvaluatedIn(o, a) == {t \in Bar : <<a, t>> \in Feed /\ o[<<a, t>>] = "evaluated"}

\* ObservedInOrder of one asset, in the rows st and o of a transaction.
Consecutive(E, last) ==
    /\ E = {t \in Bar : \E u \in E : u <= t} \cap 1..last
    /\ last > 0 => last \in E

Holding(st) == {a \in Asset : st[a].pos # "FLAT"}

\* What holds of the rows of a transaction after each candle.
RowsInv(r) ==
    /\ r \in Rows
    /\ \A a \in Asset : Consecutive(EvaluatedIn(r.obs, a), r.state[a].last)
    /\ r.act.open = Cardinality(Holding(r.state))
    /\ ~Reversal => r.act.open <= MaxOpen

\* Bars are numbered from 1.
LEMMA BarsAreNumbers == Bar \subseteq Nat \ {0}
<1> SUFFICES ASSUME NEW c \in Feed PROVE c[2] \in Nat \ {0}
  BY DEF Bar
<1>1. c \in Asset \X (Nat \ {0})
  BY StrategyAssumption
<1> QED BY <1>1

\* The bar after the cursor, or any first one, keeps the evaluated bars
\* consecutive (evaluate_live_candle's check of the expected timestamp).
LEMMA NextBarIsConsecutive ==
    ASSUME NEW E, E \subseteq Bar, NEW last \in Bar \cup {0}, NEW t \in Bar,
           Consecutive(E, last), last = 0 \/ t = last + 1
    PROVE  Consecutive(E \cup {t}, t)
<1>1. Bar \subseteq Nat \ {0}
  BY BarsAreNumbers
<1>2. \A u \in E : u \in 1..last
  BY DEF Consecutive
<1>3. last = 0 => E = {}
  BY <1>2
<1>4. \A x \in Bar : x \in E <=> x \in 1..last /\ \E u \in E : u <= x
  BY DEF Consecutive
<1>5. ASSUME NEW x \in Bar, x \in 1..t, NEW u \in E \cup {t}, u <= x PROVE x \in E \cup {t}
  <2>1. CASE x = t
    BY <2>1
  <2>2. CASE x # t
    <3>1. u # t /\ u \in E /\ last # 0
      BY <1>1, <1>3, <1>5, <2>2
    <3>2. x \in 1..last
      BY <1>1, <1>5, <2>2, <3>1
    <3> QED BY <1>4, <1>5, <3>1, <3>2
  <2> QED BY <2>1, <2>2
<1>6. ASSUME NEW x \in E \cup {t} PROVE x \in Bar /\ x \in 1..t /\ \E u \in E \cup {t} : u <= x
  BY <1>1, <1>2, <1>6
<1> QED BY <1>5, <1>6 DEF Consecutive

\* What _evaluate_and_persist may do to the rows: a candle of an asset whose
\* batch is broken off changes nothing, the next bar is applied, any other
\* breaks the batch off and is noted as a gap unless it was observed before.
LEMMA EvaluateCases ==
    ASSUME NEW r \in Rows, NEW c \in Feed, NEW sig
    PROVE  LET a == c[1]
               st == r.state[a]
               canOpen == st.pos # "FLAT" \/ r.act.open < MaxOpen
               after == PositionAfter(st.pos, sig, canOpen)
               s == _evaluate_and_persist(r, c, sig)
           IN  \/ s = r
               \/ /\ Continues(st, c[2])
                  /\ s = [act |-> [r.act EXCEPT !.open = @ + Opened(st.pos, after),
                                                !.health = _refresh_activation_health],
                          state |-> [r.state EXCEPT ![a] = [last |-> c[2], pos |-> after, health |-> "HEALTHY"]],
                          obs |-> [r.obs EXCEPT ![c] = "evaluated"],
                          broken |-> r.broken]
               \/ s = [act |-> r.act, state |-> r.state, obs |-> r.obs, broken |-> r.broken \cup {a}]
               \/ /\ r.obs[c] = "none"
                  /\ s = [act |-> [r.act EXCEPT !.health = "DEGRADED"],
                          state |-> [r.state EXCEPT ![a].health = "DEGRADED"],
                          obs |-> [r.obs EXCEPT ![c] = "gap"],
                          broken |-> r.broken \cup {a}]
BY DEF _evaluate_and_persist, Rows

\* A strategy without reversals enters a position only where one may be opened.
LEMMA PositionFits ==
    ASSUME NEW pos \in Position, NEW sig \in Signal, NEW canOpen \in BOOLEAN
    PROVE  /\ PositionAfter(pos, sig, canOpen) \in Position
           /\ ~Reversal /\ pos = "FLAT" /\ ~canOpen => PositionAfter(pos, sig, canOpen) = "FLAT"
BY StrategyAssumption DEF PositionAfter, Position, Signal

\* Changing the position of one asset changes the number of positions by what
\* Opened says.
LEMMA OpenedCounts ==
    ASSUME NEW st \in [Asset -> StateRow], NEW a \in Asset, NEW row \in StateRow
    PROVE  /\ Cardinality(Holding(st)) \in Nat
           /\ Cardinality(Holding([st EXCEPT ![a] = row])) \in Nat
           /\ Cardinality(Holding([st EXCEPT ![a] = row])) =
                  Cardinality(Holding(st)) + Opened(st[a].pos, row.pos)
<1> DEFINE new == [st EXCEPT ![a] = row]
<1>1. \A b \in Asset : new[b] = IF b = a THEN row ELSE st[b]
  OBVIOUS
<1> HIDE DEF new
<1>2. IsFiniteSet(Asset)
  BY StrategyAssumption
<1>3. IsFiniteSet(Holding(st)) /\ Cardinality(Holding(st)) \in Nat
  BY <1>2, FS_Subset, FS_CardinalityType DEF Holding
<1>4. CASE st[a].pos = "FLAT" /\ row.pos # "FLAT"
  <2>1. Holding(new) = Holding(st) \cup {a} /\ a \notin Holding(st)
    BY <1>1, <1>4 DEF Holding
  <2>2. Cardinality(Holding(new)) = Cardinality(Holding(st)) + 1
    BY <1>3, <2>1, FS_AddElement
  <2>3. Opened(st[a].pos, row.pos) = 1
    BY <1>4 DEF Opened
  <2> QED BY <1>3, <2>2, <2>3 DEF new
<1>5. CASE st[a].pos # "FLAT" /\ row.pos = "FLAT"
  <2>1. Holding(new) = Holding(st) \ {a} /\ a \in Holding(st)
    BY <1>1, <1>5 DEF Holding
  <2>2. Cardinality(Holding(new)) = Cardinality(Holding(st)) - 1
    BY <1>3, <2>1, FS_RemoveElement
  <2>3. Cardinality(Holding(new)) \in Nat
    <3>1. IsFiniteSet(Holding(new))
      BY <1>2, FS_Subset DEF Holding
    <3> QED BY <3>1, FS_CardinalityType
  <2>4. Opened(st[a].pos, row.pos) = -1
    BY <1>5 DEF Opened
  <2> QED BY <1>3, <2>2, <2>3, <2>4 DEF new
<1>6. CASE (st[a].pos = "FLAT") = (row.pos = "FLAT")
  <2>1. Holding(new) = Holding(st)
    BY <1>1, <1>6 DEF Holding
  <2>2. Opened(st[a].pos, row.pos) = 0
    BY <1>6 DEF Opened
  <2> QED BY <1>3, <2>1, <2>2 DEF new
<1> QED BY <1>4, <1>5, <1>6

\* Evaluating one candle keeps the rows of the transaction in order
\* (_evaluate_and_persist).
LEMMA EvaluateKeeps ==
    ASSUME NEW r, RowsInv(r), NEW c \in Feed, NEW sig \in Signal
    PROVE  RowsInv(_evaluate_and_persist(r, c, sig))
<1> DEFINE a == c[1]
           t == c[2]
           st == r.state[a]
           canOpen == st.pos # "FLAT" \/ r.act.open < MaxOpen
           after == PositionAfter(st.pos, sig, canOpen)
           row == [last |-> t, pos |-> after, health |-> "HEALTHY"]
           s == _evaluate_and_persist(r, c, sig)
           Degraded == [r.state[a] EXCEPT !.health = "DEGRADED"]
<1> SUFFICES RowsInv(s)
  OBVIOUS
<1>1. r \in Rows
  BY DEF RowsInv
<1>2. /\ r.act \in ActRow /\ r.state \in [Asset -> StateRow]
      /\ r.obs \in [Feed -> Outcome] /\ r.broken \in SUBSET Asset
  BY <1>1 DEF Rows
<1>3. a \in Asset /\ t \in Bar /\ c = <<a, t>>
  <2>1. c \in Asset \X (Nat \ {0})
    BY StrategyAssumption
  <2> QED BY <2>1 DEF Bar
<1>4. st \in StateRow /\ st.last \in Bar \cup {0} /\ st.pos \in Position
  BY <1>2, <1>3 DEF StateRow
<1>5. Bar \subseteq Nat \ {0} /\ MaxOpen \in Nat
  BY BarsAreNumbers, StrategyAssumption
<1>6. CASE s = r
  BY <1>6
<1>7. CASE /\ Continues(st, t)
           /\ s = [act |-> [r.act EXCEPT !.open = @ + Opened(st.pos, after),
                                         !.health = _refresh_activation_health],
                   state |-> [r.state EXCEPT ![a] = row],
                   obs |-> [r.obs EXCEPT ![c] = "evaluated"],
                   broken |-> r.broken]
  <2>1. after \in Position /\ (~Reversal /\ st.pos = "FLAT" /\ ~canOpen => after = "FLAT")
    BY <1>4, PositionFits
  <2> HIDE DEF after, canOpen
  <2>2. row \in StateRow
    BY <1>3, <2>1 DEF StateRow, Health
  <2>3. /\ s.act = [r.act EXCEPT !.open = @ + Opened(st.pos, after),
                                 !.health = _refresh_activation_health]
        /\ s.state = [r.state EXCEPT ![a] = row]
        /\ s.obs = [r.obs EXCEPT ![c] = "evaluated"]
        /\ s = [act |-> s.act, state |-> s.state, obs |-> s.obs, broken |-> r.broken]
    BY <1>7
  <2>4. r.act.open = Cardinality(Holding(r.state)) /\ r.act.open \in Nat
    BY <1>2 DEF RowsInv, ActRow
  <2>5. row.pos = after
    OBVIOUS
  <2>6. s.act.open = Cardinality(Holding(s.state)) /\ s.act.open \in Nat
    <3>1. s.act.open = r.act.open + Opened(st.pos, after)
      BY <1>2, <2>3 DEF ActRow
    <3> HIDE DEF row, s
    <3>2. /\ Cardinality(Holding(s.state)) \in Nat
          /\ Cardinality(Holding(s.state)) = Cardinality(Holding(r.state)) + Opened(st.pos, after)
      BY <1>2, <1>3, <2>2, <2>3, <2>5, OpenedCounts
    <3> QED BY <2>4, <3>1, <3>2
  <2>7. _refresh_activation_health \in Health
    BY DEF _refresh_activation_health, Health
  <2>8. s.act \in ActRow
    <3> HIDE DEF s
    <3>1. /\ s.act.status = r.act.status /\ s.act.cursor = r.act.cursor
          /\ s.act.health = _refresh_activation_health
          /\ s.act = [status |-> s.act.status, health |-> s.act.health,
                      cursor |-> s.act.cursor, open |-> s.act.open]
      BY <1>2, <2>3 DEF ActRow
    <3> HIDE DEF s
    <3> QED BY <1>2, <2>6, <2>7, <3>1 DEF ActRow
  <2>9. s.state \in [Asset -> StateRow] /\ s.obs \in [Feed -> Outcome]
    <3> HIDE DEF s, row
    <3> QED BY <1>2, <1>3, <2>2, <2>3 DEF Outcome
  <2>10. s \in Rows
    <3> HIDE DEF s
    <3> QED BY <1>2, <2>3, <2>8, <2>9 DEF Rows
  <2>11. ASSUME NEW b \in Asset PROVE Consecutive(EvaluatedIn(s.obs, b), s.state[b].last)
    <3>1. CASE b # a
      <4>1. EvaluatedIn(s.obs, b) = EvaluatedIn(r.obs, b)
        <5> HIDE DEF s
        <5> QED BY <1>2, <1>3, <2>3, <3>1 DEF EvaluatedIn
      <4>2. s.state[b] = r.state[b]
        <5> HIDE DEF s, row
        <5> QED BY <1>2, <2>3, <2>11, <3>1
      <4> QED BY <2>11, <4>1, <4>2 DEF RowsInv
    <3>2. CASE b = a
      <4>1. EvaluatedIn(s.obs, a) = EvaluatedIn(r.obs, a) \cup {t}
        <5> HIDE DEF s
        <5>1. \A x \in Bar : <<a, x>> \in Feed =>
                 s.obs[<<a, x>>] = IF x = t THEN "evaluated" ELSE r.obs[<<a, x>>]
          BY <1>2, <1>3, <2>3
        <5> QED BY <1>3, <5>1 DEF EvaluatedIn
      <4>2. s.state[a].last = t
        BY <1>2, <1>3, <2>3
      <4>3. Consecutive(EvaluatedIn(r.obs, a), st.last)
        BY <1>3 DEF RowsInv
      <4>4. EvaluatedIn(r.obs, a) \subseteq Bar
        BY DEF EvaluatedIn
      <4>5. st.last = 0 \/ t = st.last + 1
        BY <1>7 DEF Continues
      <4> HIDE DEF st, t, s, a
      <4>6. Consecutive(EvaluatedIn(r.obs, a) \cup {t}, t)
        BY <1>3, <1>4, <4>3, <4>4, <4>5, NextBarIsConsecutive
      <4> QED BY <3>2, <4>1, <4>2, <4>6
    <3> QED BY <3>1, <3>2
  <2>12. ASSUME ~Reversal PROVE s.act.open <= MaxOpen
    <3>1. r.act.open <= MaxOpen
      BY <2>12 DEF RowsInv
    <3>2. s.act.open = r.act.open + Opened(st.pos, after)
      BY <1>2, <2>3 DEF ActRow
    <3> HIDE DEF s, st
    <3>3. CASE st.pos = "FLAT" /\ after # "FLAT"
      <4>1. r.act.open < MaxOpen
        BY <2>1, <2>12, <3>3 DEF canOpen
      <4>2. Opened(st.pos, after) = 1
        BY <3>3 DEF Opened
      <4> QED BY <1>5, <2>4, <3>2, <4>1, <4>2
    <3>4. CASE ~(st.pos = "FLAT" /\ after # "FLAT")
      <4>1. Opened(st.pos, after) \in {-1, 0}
        BY <3>4 DEF Opened
      <4> QED BY <1>5, <2>4, <3>1, <3>2, <4>1
    <3> QED BY <3>3, <3>4
  <2> HIDE DEF s
  <2> QED BY <2>6, <2>10, <2>11, <2>12 DEF RowsInv
<1>8. CASE s = [act |-> r.act, state |-> r.state, obs |-> r.obs, broken |-> r.broken \cup {a}]
  <2> HIDE DEF s
  <2>1. s.act = r.act /\ s.state = r.state /\ s.obs = r.obs /\ s \in Rows
    BY <1>2, <1>3, <1>8 DEF Rows
  <2> QED BY <2>1 DEF RowsInv
<1>9. CASE /\ r.obs[c] = "none"
           /\ s = [act |-> [r.act EXCEPT !.health = "DEGRADED"],
                   state |-> [r.state EXCEPT ![a].health = "DEGRADED"],
                   obs |-> [r.obs EXCEPT ![c] = "gap"],
                   broken |-> r.broken \cup {a}]
  <2> HIDE DEF s
  <2>1. /\ s.act = [r.act EXCEPT !.health = "DEGRADED"]
        /\ s.state = [r.state EXCEPT ![a] = Degraded]
        /\ s.obs = [r.obs EXCEPT ![c] = "gap"]
        /\ s = [act |-> s.act, state |-> s.state, obs |-> s.obs, broken |-> r.broken \cup {a}]
    BY <1>9
  <2>2. s.act \in ActRow /\ s.act.open = r.act.open
    BY <1>2, <2>1 DEF ActRow, Health
  <2>3. Degraded \in StateRow /\ Degraded.last = st.last /\ Degraded.pos = st.pos
    BY <1>4 DEF StateRow, Health
  <2> HIDE DEF Degraded
  <2>4. s.state \in [Asset -> StateRow] /\ s.obs \in [Feed -> Outcome]
    BY <1>2, <1>3, <2>1, <2>3 DEF Outcome
  <2>5. s \in Rows
    BY <1>2, <1>3, <2>1, <2>2, <2>4 DEF Rows
  <2>6. \A b \in Asset : s.state[b].last = r.state[b].last /\ s.state[b].pos = r.state[b].pos
    BY <1>2, <2>1, <2>3
  <2>7. Holding(s.state) = Holding(r.state)
    BY <2>6 DEF Holding
  <2>8. \A b \in Asset : EvaluatedIn(s.obs, b) = EvaluatedIn(r.obs, b)
    <3>1. \A d \in Feed : s.obs[d] = "evaluated" <=> r.obs[d] = "evaluated"
      BY <1>2, <1>9, <2>1
    <3> QED BY <3>1 DEF EvaluatedIn
  <2> QED BY <2>2, <2>5, <2>6, <2>7, <2>8 DEF RowsInv
<1>10. \/ s = r
       \/ /\ Continues(st, t)
          /\ s = [act |-> [r.act EXCEPT !.open = @ + Opened(st.pos, after),
                                        !.health = _refresh_activation_health],
                  state |-> [r.state EXCEPT ![a] = row],
                  obs |-> [r.obs EXCEPT ![c] = "evaluated"],
                  broken |-> r.broken]
       \/ s = [act |-> r.act, state |-> r.state, obs |-> r.obs, broken |-> r.broken \cup {a}]
       \/ /\ r.obs[c] = "none"
          /\ s = [act |-> [r.act EXCEPT !.health = "DEGRADED"],
                  state |-> [r.state EXCEPT ![a].health = "DEGRADED"],
                  obs |-> [r.obs EXCEPT ![c] = "gap"],
                  broken |-> r.broken \cup {a}]
  BY <1>1, EvaluateCases
<1> QED BY <1>6, <1>7, <1>8, <1>9, <1>10

\* The rows of the database, with no batch broken off.
Stored == [act |-> act, state |-> state, obs |-> obs, broken |-> {}]

\* The rotation hands out assets of the universe, so that the cursor is one.
LEMMA SliceOfAssets == _locked_state_slice \subseteq Asset
BY DEF _locked_state_slice, First

\* The rows an evaluation starts from differ in the cursor.
LEMMA CursorKeeps ==
    ASSUME RowsInv(Stored), _locked_state_slice # {}
    PROVE  RowsInv([act |-> [act EXCEPT !.cursor = Max(_locked_state_slice)],
                    state |-> state, obs |-> obs, broken |-> {}])
<1> DEFINE new == [act EXCEPT !.cursor = Max(_locked_state_slice)]
           r == [act |-> new, state |-> state, obs |-> obs, broken |-> {}]
<1>1. Max(_locked_state_slice) \in Asset
  <2>1. _locked_state_slice \subseteq Asset /\ Asset \subseteq Nat /\ IsFiniteSet(Asset)
    BY SliceOfAssets, StrategyAssumption
  <2>2. Max(_locked_state_slice) \in _locked_state_slice
    BY <2>1, FS_Subset, GreatestOfFinite
  <2> QED BY <2>1, <2>2
<1>2. act \in ActRow /\ state \in [Asset -> StateRow] /\ obs \in [Feed -> Outcome]
  BY DEF RowsInv, Stored, Rows
<1>3. new \in ActRow /\ new.open = act.open
  BY <1>1, <1>2 DEF ActRow
<1> HIDE DEF new
<1>4. r \in Rows /\ r.act = new /\ r.state = state /\ r.obs = obs
  BY <1>2, <1>3 DEF Rows
<1>5. Stored.act = act /\ Stored.state = state /\ Stored.obs = obs
  BY DEF Stored
<1> HIDE DEF r
<1>6. RowsInv(r)
  BY <1>3, <1>4, <1>5 DEF RowsInv
<1> QED BY <1>6 DEF r, new

\* The rows after every candle of a batch are in order: induction on the
\* number of candles evaluated.
LEMMA RunsKeep ==
    ASSUME NEW start, RowsInv(start), NEW candles, candles \subseteq Feed,
           NEW order \in InOrder(candles), NEW sig \in [candles -> Signal]
    PROVE  RowsInv(Runs(start, order, sig)[Len(order)])
<1> DEFINE n == Cardinality(candles)
           R == Runs(start, order, sig)
           T == {k \in 0..n : RowsInv(R[k])}
<1>1. n \in Nat
  BY StrategyAssumption, FS_Subset, FS_CardinalityType
<1>2. order \in [1..n -> candles]
  BY DEF InOrder
<1>3. Len(order) = n
  <2> HIDE DEF n
  <2> QED BY <1>1, <1>2
<1>4. /\ R[0] = start
      /\ \A k \in 1..n : R[k] = _evaluate_and_persist(R[k - 1], order[k], sig[order[k]])
  <2>1. Len(order) \in Nat
    BY <1>1, <1>3
  <2> QED BY <1>3, <2>1, RunsFollow
<1> HIDE DEF n, R
<1>5. 0 \in T
  BY <1>1, <1>4
<1>6. \A k \in 1..n : k - 1 \in T => k \in T
  <2> TAKE k \in 1..n
  <2> HAVE k - 1 \in T
  <2>1. order[k] \in Feed /\ sig[order[k]] \in Signal
    BY <1>2
  <2>2. RowsInv(R[k - 1])
    OBVIOUS
  <2>3. RowsInv(_evaluate_and_persist(R[k - 1], order[k], sig[order[k]]))
    BY <2>1, <2>2, EvaluateKeeps
  <2>4. RowsInv(R[k])
    BY <1>4, <2>3
  <2> QED BY <1>1, <2>4
<1>7. n \in T
  <2> HIDE DEF T
  <2>1. 0..n \subseteq T
    BY <1>1, <1>5, <1>6, Reaches
  <2> QED BY <1>1, <2>1
<1> QED BY <1>3, <1>7 DEF R
-----------------------------------------------------------------------------
(* The rows of the activation *)

StrategyInv == present \subseteq Feed /\ RowsInv(Stored)

\* An evaluation stores rows that are in order again (process_activation).
LEMMA EvaluateStores ==
    ASSUME StrategyInv, NEW w \in Worker, Evaluate(w)
    PROVE  StrategyInv'
<1> DEFINE slice == _locked_state_slice
           candles == UNION {{a} \X _read_canonical_candles(a) : a \in slice}
           start == [act |-> IF slice = {} THEN act ELSE [act EXCEPT !.cursor = Max(slice)],
                     state |-> state, obs |-> obs, broken |-> {}]
<1>1. PICK order \in InOrder(candles), sig \in [candles -> Signal] :
         /\ act' = Runs(start, order, sig)[Len(order)].act
         /\ state' = Runs(start, order, sig)[Len(order)].state
         /\ obs' = Runs(start, order, sig)[Len(order)].obs
  BY DEF Evaluate
<1> DEFINE done == Runs(start, order, sig)[Len(order)]
<1>2. candles \subseteq Feed
  <2>1. ASSUME NEW a \in slice, NEW t \in _read_canonical_candles(a) PROVE <<a, t>> \in Feed
    BY <2>1 DEF _read_canonical_candles, First, StrategyInv
  <2> QED BY <2>1
<1>3. RowsInv(start)
  <2>1. CASE slice = {}
    BY <2>1 DEF StrategyInv, Stored
  <2>2. CASE slice # {}
    BY <2>2, CursorKeeps DEF StrategyInv
  <2> QED BY <2>1, <2>2
<1> HIDE DEF candles, start
<1>4. RowsInv(done)
  BY <1>2, <1>3, RunsKeep
<1>5. act' = done.act /\ state' = done.state /\ obs' = done.obs
  BY <1>1
<1> HIDE DEF done
<1>6. RowsInv([act |-> done.act, state |-> done.state, obs |-> done.obs, broken |-> {}])
  BY <1>4 DEF RowsInv, Rows
<1>7. RowsInv(Stored')
  BY <1>5, <1>6 DEF Stored
<1>8. present' \subseteq Feed
  BY DEF Evaluate, StrategyInv
<1> QED BY <1>7, <1>8 DEF StrategyInv, RowsInv

\* A change of statuses and health alone keeps the rows in order.
LEMMA HealthKeeps ==
    ASSUME StrategyInv, UNCHANGED <<present, obs>>,
           act' \in ActRow, act'.open = act.open, state' \in [Asset -> StateRow],
           \A a \in Asset : state'[a].last = state[a].last /\ state'[a].pos = state[a].pos
    PROVE  StrategyInv'
<1>1. /\ Stored.act = act /\ Stored.state = state /\ Stored.obs = obs
      /\ Stored'.act = act' /\ Stored'.state = state' /\ Stored'.obs = obs
  BY DEF Stored
<1>2. obs \in [Feed -> Outcome]
  BY <1>1 DEF StrategyInv, RowsInv, Rows
<1>3. Stored' \in Rows
  BY <1>2 DEF Stored, Rows
<1>4. Holding(state') = Holding(state)
  BY DEF Holding
<1>5. RowsInv(Stored')
  BY <1>1, <1>3, <1>4 DEF StrategyInv, RowsInv
<1>6. present' \subseteq Feed
  BY DEF StrategyInv
<1> QED BY <1>5, <1>6 DEF StrategyInv, RowsInv

\* Every step keeps the rows of the activation in order.
LEMMA StrategyStep ==
    ASSUME StrategyInv, [Next]_vars
    PROVE  StrategyInv'
<1>1. act \in ActRow /\ state \in [Asset -> StateRow] /\ obs \in [Feed -> Outcome]
  BY DEF StrategyInv, RowsInv, Rows, Stored
<1>2. ASSUME UNCHANGED strategyVars PROVE StrategyInv'
  BY <1>2 DEF strategyVars, StrategyInv, Stored, RowsInv
<1>3. ASSUME CandleArrives PROVE StrategyInv'
  BY <1>3 DEF CandleArrives, StrategyInv, Stored, RowsInv
<1>4. ASSUME activate PROVE StrategyInv'
  <2>1. act' \in ActRow /\ act'.open = act.open /\ UNCHANGED <<present, state, obs>>
    BY <1>1, <1>4 DEF activate, ActRow
  <2> QED BY <1>1, <2>1, HealthKeeps
<1>5. ASSUME deactivate PROVE StrategyInv'
  <2>1. act' \in ActRow /\ act'.open = act.open /\ UNCHANGED <<present, obs>>
    BY <1>1, <1>5 DEF deactivate, ActRow, Health
  <2>2. /\ state' \in [Asset -> StateRow]
        /\ \A a \in Asset : state'[a].last = state[a].last /\ state'[a].pos = state[a].pos
    BY <1>1, <1>5 DEF deactivate, StateRow, Health
  <2> QED BY <2>1, <2>2, HealthKeeps
<1>6. ASSUME NEW w \in Worker, DefinitionRejected(w) PROVE StrategyInv'
  <2>1. act' \in ActRow /\ act'.open = act.open /\ UNCHANGED <<present, state, obs>>
    BY <1>1, <1>6 DEF DefinitionRejected, ActRow, Health
  <2> QED BY <1>1, <2>1, HealthKeeps
<1>7. ASSUME NEW w \in Worker, Evaluate(w) PROVE StrategyInv'
  BY <1>7, EvaluateStores
<1>8. ASSUME NEW w \in Worker, _locked_active_activation(w) \/ EvaluationFails(w)
      PROVE  UNCHANGED strategyVars
  BY <1>8 DEF _locked_active_activation, EvaluationFails
<1>9. UNCHANGED vars => UNCHANGED strategyVars
  BY DEF vars
<1> QED BY <1>2, <1>3, <1>4, <1>5, <1>6, <1>7, <1>8, <1>9 DEF Next

\* The rows the tables start with are in order.
LEMMA StrategyInit == Init => StrategyInv
<1> SUFFICES ASSUME Init PROVE StrategyInv
  OBVIOUS
<1>1. /\ present = {} /\ act = [status |-> "NONE", health |-> "UNKNOWN", cursor |-> 0, open |-> 0]
      /\ state = [a \in Asset |-> NewState] /\ obs = [c \in Feed |-> "none"]
  BY DEF Init
<1>2. act \in ActRow /\ state \in [Asset -> StateRow] /\ obs \in [Feed -> Outcome]
  BY <1>1 DEF ActRow, StateRow, Outcome, NewState, Health, Position
<1>3. Stored \in Rows /\ Stored.act = act /\ Stored.state = state /\ Stored.obs = obs
  BY <1>2 DEF Stored, Rows
<1>4. \A a \in Asset : EvaluatedIn(obs, a) = {} /\ state[a].last = 0
  BY <1>1 DEF EvaluatedIn, NewState
<1>5. \A a \in Asset : Consecutive(EvaluatedIn(obs, a), state[a].last)
  BY <1>4 DEF Consecutive
<1>6. Holding(state) = {}
  BY <1>1 DEF Holding, NewState
<1>7. act.open = Cardinality(Holding(state)) /\ act.open <= MaxOpen
  <2>1. Cardinality({}) = 0
    BY FS_EmptySet
  <2>2. act.open = 0 /\ MaxOpen \in Nat
    BY <1>1, StrategyAssumption
  <2> QED BY <1>6, <2>1, <2>2
<1> QED BY <1>1, <1>3, <1>5, <1>7 DEF StrategyInv, RowsInv

\* The bars evaluated for an asset are consecutive and end at its cursor, for
\* any batch and slice size, any order in which the candles are stored and any
\* interleaving of workers, faults and retries (process_activation and
\* _evaluate_and_persist).
THEOREM EvaluatedInOrder == Spec => []ObservedInOrder
<1>1. StrategyInv => ObservedInOrder
  <2> SUFFICES ASSUME StrategyInv, NEW a \in Asset
               PROVE  /\ Evaluated(a) = {t \in Bar : \E u \in Evaluated(a) : u <= t} \cap 1..state[a].last
                      /\ state[a].last > 0 => state[a].last \in Evaluated(a)
    BY DEF ObservedInOrder
  <2>1. Consecutive(EvaluatedIn(obs, a), state[a].last)
    BY DEF StrategyInv, RowsInv, Stored
  <2>2. EvaluatedIn(obs, a) = Evaluated(a)
    BY DEF EvaluatedIn, Evaluated
  <2> QED BY <2>1, <2>2 DEF Consecutive
<1>2. StrategyInv /\ [Next]_vars => StrategyInv'
  BY StrategyStep
<1> QED BY <1>1, <1>2, StrategyInit, PTL DEF Spec

\* The count of open positions, which decides whether a strategy may enter
\* another one, is the number of assets holding one, for any universe; without
\* reversals it stays within max_open_positions (evaluate_live_candle and
\* _evaluate_and_persist).
THEOREM PositionsCounted == Spec => []PositionsAreCounted
<1>1. StrategyInv => PositionsAreCounted
  BY DEF StrategyInv, RowsInv, Stored, Holding, PositionsAreCounted
<1>2. StrategyInv /\ [Next]_vars => StrategyInv'
  BY StrategyStep
<1> QED BY <1>1, <1>2, StrategyInit, PTL DEF Spec
-----------------------------------------------------------------------------
(* Types *)

\* Tokens noted as strayed are those of messages still to be handled.
StrayedInv == strayed \subseteq Outstanding /\ faults \in 0..MaxFaults

\* Acknowledging a message forgets it, and every other step keeps it outstanding.
LEMMA StrayedStep ==
    ASSUME DispatchInv, StrayedInv, [Next]_vars
    PROVE  StrayedInv'
<1> USE DispatchAssumption
<1>0. Fault => faults' \in 0..MaxFaults
  BY DEF Fault, StrayedInv
<1>1. ASSUME UNCHANGED dispatchVars PROVE StrayedInv'
  BY <1>1 DEF StrayedInv, Outstanding, Running, dispatchVars
<1>2. ASSUME NEW w \in Worker,
             \/ _locked_active_activation(w) \/ Evaluate(w)
             \/ DefinitionRejected(w) \/ EvaluationFails(w)
      PROVE  StrayedInv'
  <2>1. PICK pc \in {"locked", "release"} : Goto(w, pc)
    BY <1>2, StrategySteps
  <2>2. UNCHANGED <<lease, queued, strayed>>
    BY <1>2, StrategySteps
  <2>3. \A v \in Worker : actor'[v].token = actor[v].token
    BY <2>1 DEF DispatchInv, ActorInv, Goto
  <2>4. Outstanding' = Outstanding
    BY <2>2, <2>3 DEF Outstanding, Running
  <2>5. faults' = faults \/ Fault
    BY <1>2 DEF _locked_active_activation, Evaluate, DefinitionRejected, EvaluationFails
  <2> QED BY <1>0, <2>2, <2>4, <2>5 DEF StrayedInv
<1>3. ASSUME Enqueue PROVE StrayedInv'
  <2>1. UNCHANGED <<actor, strayed>> /\ queued \subseteq queued' /\ (faults' = faults \/ Fault)
    BY <1>3 DEF Enqueue
  <2>2. Outstanding \subseteq Outstanding'
    BY <2>1 DEF Outstanding, Running
  <2> QED BY <1>0, <2>1, <2>2 DEF StrayedInv
<1>4. ASSUME LeaseExpires PROVE StrayedInv'
  <2>1. Outstanding' = Outstanding /\ faults' = faults
    BY <1>4 DEF LeaseExpires, Outstanding, Running
  <2> QED BY <1>4, <2>1 DEF LeaseExpires, StrayedInv
<1>5. ASSUME NEW w \in Worker, Take(w) PROVE StrayedInv'
  <2>1. PICK t \in queued : /\ actor' = [actor EXCEPT ![w] = [token |-> t, pc |-> "list"]]
                            /\ queued' = queued \ {t}
    BY <1>5 DEF Take
  <2>2. /\ actor'[w].token = t /\ t # NoToken /\ actor[w].token = NoToken
        /\ \A v \in Worker : v # w => actor'[v] = actor[v]
    BY <1>5, <2>1 DEF DispatchInv, ActorInv, OnePlace, Take
  <2>3. Outstanding \subseteq Outstanding'
    <3> SUFFICES ASSUME NEW x \in Outstanding PROVE x \in Outstanding'
      OBVIOUS
    <3>1. CASE x = t
      BY <2>2, <3>1 DEF Outstanding, Running
    <3>2. CASE x # t /\ x \in queued
      BY <2>1, <3>2 DEF Outstanding
    <3>3. CASE x \in Running
      BY <2>2, <3>3 DEF Outstanding, Running
    <3> QED BY <3>1, <3>2, <3>3 DEF Outstanding
  <2>4. UNCHANGED <<strayed, faults>>
    BY <1>5 DEF Take
  <2> QED BY <2>3, <2>4 DEF StrayedInv
<1>6. ASSUME NEW w \in Worker, actor' = [actor EXCEPT ![w] = Idle], ~At(w, "idle"),
             queued' \in {queued, queued \cup {actor[w].token}}
      PROVE  /\ actor[w].token \in Token
             /\ Outstanding \ {actor[w].token} \subseteq Outstanding'
  <2>1. /\ actor[w].token \in Token
        /\ \A v \in Worker : v # w => actor'[v] = actor[v]
    BY <1>6 DEF DispatchInv, ActorInv, OnePlace
  <2>2. Outstanding \ {actor[w].token} \subseteq Outstanding'
    <3> SUFFICES ASSUME NEW x \in Outstanding, x # actor[w].token PROVE x \in Outstanding'
      OBVIOUS
    <3>1. CASE x \in queued
      BY <1>6, <3>1 DEF Outstanding
    <3>2. CASE x \in Running
      <4>1. PICK v \in Worker : x = actor[v].token /\ x # NoToken
        BY <3>2 DEF Running
      <4>2. actor'[v] = actor[v]
        BY <2>1, <4>1
      <4> QED BY <4>1, <4>2 DEF Outstanding, Running
    <3> QED BY <3>1, <3>2 DEF Outstanding
  <2> QED BY <2>1, <2>2
<1>r. ASSUME NEW w \in Worker, ReleaseLease(w) PROVE StrayedInv'
  <2>1. /\ Goto(w, "ack") /\ At(w, "release") /\ queued' = queued
        /\ strayed' \subseteq strayed \cup {actor[w].token} /\ (faults' = faults \/ Fault)
    BY <1>r DEF ReleaseLease
  <2>2. \A v \in Worker : actor'[v].token = actor[v].token
    BY <2>1 DEF DispatchInv, ActorInv, Goto
  <2>3. Outstanding' = Outstanding
    BY <2>1, <2>2 DEF Outstanding, Running
  <2>4. actor[w].token \in Outstanding
    BY <2>1 DEF DispatchInv, OnePlace, Outstanding, Running, At
  <2> QED BY <1>0, <2>1, <2>3, <2>4 DEF StrayedInv
<1>7. ASSUME NEW w \in Worker, Acknowledge(w) PROVE StrayedInv'
  <2>1. /\ actor' = [actor EXCEPT ![w] = Idle] /\ ~At(w, "idle") /\ queued' = queued
        /\ strayed' = strayed \ {actor[w].token} /\ faults' = faults
    BY <1>7 DEF Acknowledge, At
  <2>2. Outstanding \ {actor[w].token} \subseteq Outstanding'
    BY <1>6, <2>1
  <2> QED BY <1>0, <2>1, <2>2 DEF StrayedInv
<1>8. ASSUME NEW w \in Worker, ActorRaises(w) \/ WorkerDies(w) PROVE StrayedInv'
  <2>1. /\ actor' = [actor EXCEPT ![w] = Idle] /\ ~At(w, "idle")
        /\ queued' = queued \cup {actor[w].token}
        /\ strayed' \subseteq strayed \cup {actor[w].token} /\ Fault
    BY <1>8 DEF ActorRaises, WorkerDies, At
  <2>2. Outstanding \ {actor[w].token} \subseteq Outstanding'
    BY <1>6, <2>1
  <2>3. actor[w].token \in Outstanding'
    BY <2>1 DEF Outstanding
  <2> QED BY <1>0, <2>1, <2>2, <2>3 DEF StrayedInv
<1>9. ASSUME CandleArrives \/ activate \/ deactivate \/ UNCHANGED vars
      PROVE  UNCHANGED dispatchVars
  BY <1>9 DEF CandleArrives, activate, deactivate, vars
<1> QED BY <1>1, <1>2, <1>3, <1>4, <1>5, <1>r, <1>7, <1>8, <1>9 DEF Next

\* Every row, observation, message and lease keeps its shape.
THEOREM StrategyTypeCorrect == Spec => []TypeOK
<1>1. Init => DispatchInv /\ StrayedInv
  BY DispatchAssumption DEF Init, DispatchInit, DispatchInv, ActorInv, OnePlace, OneOutstanding,
     Outstanding, Running, Idle, Steps, At, StrayedInv
<1>2. DispatchInv /\ StrayedInv /\ [Next]_vars => DispatchInv' /\ StrayedInv'
  BY DispatchStep, StrayedStep
<1>3. StrategyInv /\ [Next]_vars => StrategyInv'
  BY StrategyStep
<1>4. DispatchInv /\ StrayedInv /\ StrategyInv => TypeOK
  <2> SUFFICES ASSUME DispatchInv, StrayedInv, StrategyInv PROVE TypeOK
    OBVIOUS
  <2>1. DispatchTypeOK
    BY DEF DispatchInv, ActorInv, StrayedInv, DispatchTypeOK
  <2>2. /\ act \in ActRow /\ state \in [Asset -> StateRow] /\ obs \in [Feed -> Outcome]
        /\ act.open = Cardinality(Holding(state))
    BY DEF StrategyInv, RowsInv, Rows, Stored
  <2>3. act.open \in 0..Cardinality(Asset)
    <3>1. IsFiniteSet(Asset) /\ Holding(state) \subseteq Asset
      BY StrategyAssumption DEF Holding
    <3>2. Cardinality(Holding(state)) <= Cardinality(Asset) /\ Cardinality(Asset) \in Nat
      BY <3>1, FS_Subset, FS_CardinalityType
    <3> QED BY <2>2, <3>2 DEF ActRow
  <2>4. act \in [status : {"NONE", "ACTIVE", "DEACTIVATED", "ERROR"}, health : Health,
                 cursor : Asset \cup {0}, open : 0..Cardinality(Asset)]
    BY <2>2, <2>3 DEF ActRow
  <2> QED BY <2>1, <2>2, <2>4 DEF TypeOK, StateRow, Outcome, StrategyInv
<1> QED BY <1>1, <1>2, <1>3, <1>4, StrategyInit, PTL DEF Spec
=============================================================================
