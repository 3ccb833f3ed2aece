--------------------------- MODULE PipelineProofs ---------------------------
(***************************************************************************)
(* Proofs about the live path of a shard, for any number of connections,   *)
(* symbols, minutes and candles, any batch and any queue, and any number   *)
(* of failures.                                                            *)
(***************************************************************************)
EXTENDS LivePipeline, FiniteSetTheorems, SequenceTheorems, TLAPS

-----------------------------------------------------------------------------
(* Counting the candles of a symbol in a queue *)

\* Where a queue holds candles of the symbol.
Places(q, s) == {i \in DOMAIN q : q[i][1] = s}

\* The places of a symbol in a queue can be counted.
LEMMA PlacesAreFinite ==
    ASSUME NEW q \in Seq(Candle), NEW s
    PROVE  IsFiniteSet(Places(q, s)) /\ Cardinality(Places(q, s)) \in Nat
<1>1. Len(q) \in Nat /\ Places(q, s) \in SUBSET (1..Len(q))
  BY DEF Places
<1>2. IsFiniteSet(1..Len(q))
  BY <1>1, FS_Interval
<1>3. IsFiniteSet(Places(q, s))
  BY <1>1, <1>2, FS_Subset
<1> QED BY <1>3, FS_CardinalityType

\* An empty queue holds no candle of any symbol.
LEMMA EmptyCounts ==
    ASSUME NEW s
    PROVE  Cardinality(Places(<<>>, s)) = 0
<1>1. Places(<<>>, s) = {}
  BY DEF Places
<1> QED BY <1>1, FS_EmptySet

\* A candle that is appended adds one to the count of its symbol.
LEMMA AppendCounts ==
    ASSUME NEW q \in Seq(Candle), NEW e \in Candle, NEW s
    PROVE  Cardinality(Places(Append(q, e), s)) =
               Cardinality(Places(q, s)) + (IF s = e[1] THEN 1 ELSE 0)
<1> DEFINE n == Len(q) + 1
<1>1. /\ Append(q, e) \in Seq(Candle) /\ Len(Append(q, e)) = n
      /\ \A i \in 1..Len(q) : Append(q, e)[i] = q[i]
      /\ Append(q, e)[n] = e
  BY AppendProperties
<1>2. Len(q) \in Nat /\ DOMAIN q = 1..Len(q) /\ DOMAIN Append(q, e) = 1..n
  BY <1>1
<1>3. Places(Append(q, e), s) = IF s = e[1] THEN Places(q, s) \cup {n} ELSE Places(q, s)
  BY <1>1, <1>2 DEF Places
<1>4. n \notin Places(q, s)
  BY <1>2 DEF Places
<1>5. IsFiniteSet(Places(q, s)) /\ Cardinality(Places(q, s)) \in Nat
  BY PlacesAreFinite
<1>6. Cardinality(Places(q, s) \cup {n}) = Cardinality(Places(q, s)) + 1
  BY <1>4, <1>5, FS_AddElement
<1> QED BY <1>3, <1>5, <1>6

\* What leaves the front of the queue and what stays are what it held.
LEMMA SplitCounts ==
    ASSUME NEW q \in Seq(Candle), NEW n \in 0..Len(q), NEW s
    PROVE  Cardinality(Places(q, s)) =
               Cardinality({i \in 1..n : SubSeq(q, 1, n)[i][1] = s})
               + Cardinality(Places(SubSeq(q, n + 1, Len(q)), s))
<1> DEFINE m == Len(q)
           r == SubSeq(q, n + 1, m)
           B == {i \in 1..n : SubSeq(q, 1, n)[i][1] = s}
           D == {i \in n + 1..m : q[i][1] = s}
           f == [i \in Places(r, s) |-> i + n]
<1>1. m \in Nat /\ n \in Nat /\ n <= m /\ DOMAIN q = 1..m /\ \A i \in 1..m : q[i] \in Candle
  OBVIOUS
<1>2. \A i \in 1..n : SubSeq(q, 1, n)[i] = q[i]
  <2>1. \A i \in 1..n : q[i] \in Candle
    BY <1>1
  <2>2. \A i \in 1..n - 1 + 1 : SubSeq(q, 1, n)[i] = q[1 + i - 1]
    BY <1>1, <2>1, SubSeqProperties
  <2> QED BY <1>1, <2>2
<1>3. /\ r \in Seq(Candle) /\ Len(r) = m - n /\ DOMAIN r = 1..m - n
      /\ \A i \in 1..m - n : r[i] = q[i + n]
  <2>1. \A i \in n + 1..m : q[i] \in Candle
    BY <1>1
  <2>2. /\ r \in Seq(Candle)
        /\ Len(r) = IF n + 1 <= m THEN m - (n + 1) + 1 ELSE 0
        /\ \A i \in 1..m - (n + 1) + 1 : r[i] = q[n + 1 + i - 1]
    BY <1>1, <2>1, SubSeqProperties
  <2>3. Len(r) = m - n
    <3> HIDE DEF r, m
    <3> QED BY <1>1, <2>2
  <2>4. \A i \in 1..m - n : r[i] = q[i + n]
    BY <1>1, <2>2
  <2>5. DOMAIN r = 1..m - n
    <3> HIDE DEF r, m
    <3> QED BY <2>2, <2>3
  <2> QED BY <2>2, <2>3, <2>4, <2>5
<1> HIDE DEF r
<1>4. Places(q, s) = B \cup D /\ B \cap D = {}
  BY <1>1, <1>2 DEF Places
<1>5. ExistsBijection(Places(r, s), D)
  <2>1. f \in [Places(r, s) -> D]
    BY <1>1, <1>3 DEF Places
  <2>2. \A x, y \in Places(r, s) : f[x] = f[y] => x = y
    BY <1>1, <1>3 DEF Places
  <2>3. \A z \in D : \E x \in Places(r, s) : f[x] = z
    <3> TAKE z \in D
    <3>1. z - n \in Places(r, s) /\ z - n + n = z
      BY <1>1, <1>3 DEF Places
    <3> QED BY <3>1
  <2> HIDE DEF f, D
  <2>4. f \in Bijection(Places(r, s), D)
    BY <2>1, <2>2, <2>3 DEF Bijection, Injection, Surjection, IsInjective
  <2> QED BY <2>4 DEF ExistsBijection
<1>6. IsFiniteSet(Places(r, s)) /\ Cardinality(Places(r, s)) \in Nat
  BY <1>3, PlacesAreFinite
<1>7. IsFiniteSet(D) /\ Cardinality(D) = Cardinality(Places(r, s))
  BY <1>5, <1>6, FS_Bijection
<1>8. IsFiniteSet(B) /\ Cardinality(B) \in Nat
  <2>1. IsFiniteSet(1..n) /\ B \in SUBSET (1..n)
    BY <1>1, FS_Interval
  <2> QED BY <2>1, FS_Subset, FS_CardinalityType
<1> HIDE DEF B, D
<1>9. Cardinality(B \cup D) = Cardinality(B) + Cardinality(D) - Cardinality(B \cap D)
  BY <1>7, <1>8, FS_Union
<1>10. Cardinality(B \cap D) = 0
  BY <1>4, FS_EmptySet
<1>11. Cardinality(Places(q, s)) = Cardinality(B) + Cardinality(Places(r, s))
  BY <1>4, <1>6, <1>7, <1>8, <1>9, <1>10
<1> QED BY <1>11 DEF B, r

-----------------------------------------------------------------------------
(* The groups of a batch *)

\* The elements of a finite set can be put in a sequence.
LEMMA SetToSeqType ==
    ASSUME NEW S, IsFiniteSet(S)
    PROVE  SetToSeq(S) \in Seq(S)
<1>1. Cardinality(S) \in Nat /\ ExistsBijection(1..Cardinality(S), S)
  BY FS_CardinalityType
<1>2. \E f \in [1..Cardinality(S) -> S] : IsInjective(f)
  BY <1>1 DEF ExistsBijection, Bijection, Injection
<1>3. SetToSeq(S) \in [1..Cardinality(S) -> S]
  BY <1>2 DEF SetToSeq
<1> QED BY <1>1, <1>3

\* A batch has finitely many groups.
LEMMA BatchIsGrouped ==
    ASSUME NEW batch \in Seq(Candle), NEW active
    PROVE  IsFiniteSet({{e \in ToSet(batch) : e[1] = s} :
                           s \in {e[1] : e \in ToSet(batch)} \cap active})
<1> DEFINE symbols == {e[1] : e \in ToSet(batch)} \cap active
           G(s) == {e \in ToSet(batch) : e[1] = s}
           T == {G(s) : s \in symbols}
           I == {i \in DOMAIN batch : batch[i][1] \in active}
           f == [i \in I |-> G(batch[i][1])]
<1>1. Len(batch) \in Nat /\ DOMAIN batch = 1..Len(batch)
  OBVIOUS
<1>2. IsFiniteSet(I)
  <2>1. IsFiniteSet(1..Len(batch)) /\ I \in SUBSET (1..Len(batch))
    BY <1>1, FS_Interval
  <2> QED BY <2>1, FS_Subset
<1>3. symbols = {batch[i][1] : i \in I}
  BY DEF ToSet
<1> HIDE DEF symbols
<1>4. f \in Surjection(I, T)
  <2>1. T = {G(batch[i][1]) : i \in I}
    <3> HIDE DEF G, I
    <3> QED BY <1>3
  <2> HIDE DEF G
  <2>2. f \in [I -> T] /\ \A t \in T : \E i \in I : f[i] = t
    BY <2>1
  <2> HIDE DEF f, T, I
  <2> QED BY <2>2 DEF Surjection
<1>5. IsFiniteSet(T)
  BY <1>2, <1>4, FS_Surjection
<1> QED BY <1>5 DEF symbols

\* Grouping a batch by asset yields sets of candles.
LEMMA GroupsType ==
    ASSUME NEW batch \in Seq(Candle), NEW active
    PROVE  GroupsOf(batch, active) \in Seq(SUBSET Candle)
<1> DEFINE symbols == {e[1] : e \in ToSet(batch)} \cap active
           T == {{e \in ToSet(batch) : e[1] = s} : s \in symbols}
<1>1. ToSet(batch) \subseteq Candle
  BY DEF ToSet
<1>2. SetToSeq(T) \in Seq(T)
  BY BatchIsGrouped, SetToSeqType
<1>3. T \subseteq SUBSET Candle
  BY <1>1
<1>4. SetToSeq(T) \in Seq(SUBSET Candle)
  <2> HIDE DEF T
  <2> QED BY <1>2, <1>3, SeqMonotonic
<1> QED BY <1>4 DEF GroupsOf

-----------------------------------------------------------------------------
(* The invariant *)

\* A candle that waits for room has a symbol that may still take one more;
\* a fenced runtime has no stream; a group is committed only if there is one.
WaitingFits ==
    /\ st.pc = "put" => held \in Candle /\ pending[held[1]] < MaxPending
    /\ rt = "FENCED" => st.pc = "done"
    /\ flush.pc = "commit" => flush.groups # <<>>

\* What the locals of the stream task are at each of its awaits.
Shape ==
    /\ st.pc \in {"loop", "opening", "backoff"} => st = At(st.pc)
    /\ st.pc = "backoff" => cur = None
    /\ st.pc = "opening" => ~Connected
    /\ st.pc \in {"subscribing", "recv", "put"} =>
         cur = st.ws /\ st.ws \in Conn /\ st.new = None /\ st.old = None
    /\ st.pc = "rotOpening" => st.ws = None /\ st.new = None /\ st.old = cur /\ cur \in Conn
    /\ st.pc = "rotSubscribing" =>
         st.ws = None /\ st.new \in Conn /\ st.old = cur /\ cur \in Conn
    /\ st.pc = "rotClosing" =>
         cur = st.ws /\ cur = st.new /\ cur \in Conn /\ st.old \in Conn

ConnInv == ConnTypeOK /\ Shape /\ OpenIsHeld

\* What the type invariant says of the queue, its flusher and the runtime.
Flushes == [pc : {"idle", "resolve", "group", "commit"},
            batch : Seq(Candle), groups : Seq(SUBSET Candle)]
Stops == [pc : {"no", "closing", "flusher", "drain", "finished"},
          fenced : BOOLEAN, closing : Conn \cup {None}]
QueueTypes ==
    /\ queue \in Seq(Candle) /\ Len(queue) <= QueueMax
    /\ pending \in [Symbol -> 0..MaxPending]
    /\ flush \in Flushes /\ held \in Candle \cup {NoCandle}
    /\ running \in BOOLEAN /\ flusher \in BOOLEAN
RuntimeTypes ==
    /\ rt \in {"RUNNING", "FENCED", "STOPPED"} /\ accepting \in BOOLEAN /\ stop \in Stops
    /\ registry \subseteq Symbol /\ cache \subseteq Symbol /\ fresh \in BOOLEAN
    /\ received \in 0..MaxCandles
    /\ accepted \subseteq Candle /\ settled \subseteq Candle /\ forfeit \in BOOLEAN

\* What is counted per symbol is what the queue holds of it.
Counted == \A s \in Symbol : pending[s] = Cardinality(Places(queue, s))

PipelineInv ==
    /\ ConnInv
    /\ QueueTypes /\ RuntimeTypes
    /\ QueueIsCounted /\ WaitingFits

Locals == [pc : StreamPC, ws : Conn \cup {None}, new : Conn \cup {None}, old : Conn \cup {None}]

\* The records of the stream task, field by field.
LEMMA StreamRecords ==
    /\ \A p \in StreamPC :
         /\ At(p) \in Locals
         /\ At(p).pc = p /\ At(p).ws = None /\ At(p).new = None /\ At(p).old = None
    /\ \A c \in Conn \cup {None} :
         /\ Reading(c) \in Locals
         /\ Reading(c).pc = "recv" /\ Reading(c).ws = c
         /\ Reading(c).new = None /\ Reading(c).old = None
    /\ \A r \in Locals :
         r.pc \in StreamPC /\ r.ws \in Conn \cup {None} /\ r.new \in Conn \cup {None}
             /\ r.old \in Conn \cup {None}
BY DEF At, Reading, Locals, StreamPC

\* No connection has the number that stands for none.
LEMMA NoneIsNoConn == None \notin Conn
BY ConnAssumption DEF None

\* A stream task that ends keeps the connection invariant, whatever it leaves.
LEMMA StreamEnds ==
    ASSUME st'.pc = "done"
    PROVE  Shape' /\ OpenIsHeld'
BY DEF Shape, OpenIsHeld, At

\* The locals at the await where the next frame is asked for.
LEMMA NextFrame ==
    ASSUME ConnTypeOK, Shape, OpenIsHeld, st.pc \in {"recv", "put"},
           st' = AfterFrame, sock' = sock, cur' = cur
    PROVE  st' \in Locals /\ Shape' /\ OpenIsHeld'
<1>1. cur = st.ws /\ st.ws \in Conn /\ st.new = None /\ st.old = None
  BY DEF Shape
<1>2. CASE stopReq
  <2>1. st' = At("done")
    BY <1>2 DEF AfterFrame
  <2> QED BY <2>1, StreamRecords, StreamEnds DEF StreamPC
<1>3. CASE ~stopReq /\ Connected
  <2>1. st' = Reading(cur)
    BY <1>1, <1>3 DEF AfterFrame
  <2>2. st' \in Locals /\ st'.pc = "recv" /\ st'.ws = cur /\ st'.new = None /\ st'.old = None
    BY <1>1, <2>1, StreamRecords
  <2> QED BY <1>1, <2>2, NoneIsNoConn DEF Shape, OpenIsHeld, Held
<1>4. CASE ~stopReq /\ ~Connected
  <2>1. st' = At("loop")
    BY <1>4 DEF AfterFrame
  <2>2. st' \in Locals /\ st'.pc = "loop" /\ st' = At(st'.pc)
    BY <2>1, StreamRecords DEF StreamPC
  <2> QED BY <1>1, <2>2, NoneIsNoConn DEF Shape, OpenIsHeld, Held
<1> QED BY <1>2, <1>3, <1>4

\* Every step of the client and of its environment keeps the connection
\* invariant.
LEMMA ConnectorStep ==
    ASSUME ConnInv, ConnNext
    PROVE  ConnInv'
<1> USE StreamRecords, NoneIsNoConn
<1>t. /\ sock \in [Conn -> {"none", "open", "subscribed"}] /\ cur \in Conn \cup {None}
      /\ st \in Locals /\ stopReq \in BOOLEAN /\ faults \in 0..MaxFaults
  BY DEF ConnInv, ConnTypeOK, Locals
<1>f. Fault => faults' \in 0..MaxFaults
  BY <1>t, ConnAssumption DEF Fault
<1>c. \A c : Closed(c) \in [Conn -> {"none", "open", "subscribed"}]
  BY <1>t DEF Closed
<1>s. Shape /\ OpenIsHeld
  BY DEF ConnInv
<1> DEFINE Good == /\ sock' \in [Conn -> {"none", "open", "subscribed"}]
                   /\ cur' \in Conn \cup {None} /\ st' \in Locals /\ stopReq' \in BOOLEAN
                   /\ faults' \in 0..MaxFaults
                   /\ Shape' /\ OpenIsHeld'
<1>g. Good => ConnInv'
  BY DEF ConnInv, ConnTypeOK, Locals
<1>1. ASSUME StreamLoop PROVE Good
  <2> USE <1>1 DEF StreamLoop
  <2>1. CASE stopReq
    <3>1. st' = At("done")
      BY <2>1
    <3> QED BY <1>t, <3>1, StreamEnds DEF StreamPC
  <2>2. CASE ~stopReq /\ Connected
    <3>1. st' = Reading(cur) /\ st = At("loop") /\ cur \in Conn
      BY <1>t, <1>s, <2>2 DEF Shape, Connected
    <3> QED BY <1>t, <1>s, <3>1 DEF Shape, OpenIsHeld, Held, StreamPC
  <2>3. CASE ~stopReq /\ ~Connected
    <3>1. st' = At("opening") /\ st = At("loop")
      BY <1>t, <1>s, <2>3 DEF Shape
    <3> QED BY <1>t, <1>s, <2>3, <3>1 DEF Shape, OpenIsHeld, Held, StreamPC, Connected
  <2> QED BY <2>1, <2>2, <2>3
<1>2. ASSUME ConnectOpens PROVE Good
  <2> USE <1>2 DEF ConnectOpens
  <2>0. st = At("opening") /\ ~Connected
    BY <1>s DEF Shape
  <2>1. \A d \in Conn : sock[d] = "none"
    BY <1>s, <2>0 DEF OpenIsHeld, Held, Connected, StreamPC
  <2>2. ASSUME NEW c \in Conn, sock' = [sock EXCEPT ![c] = "open"], cur' = c,
               st' = [At("subscribing") EXCEPT !.ws = c], UNCHANGED <<faults, stopReq>>
        PROVE  Good
    <3>1. st' \in Locals /\ st'.pc = "subscribing" /\ st'.ws = c /\ st'.new = None /\ st'.old = None
      BY <2>2 DEF At, Locals, StreamPC
    <3>2. \A d \in Conn : sock'[d] # "none" => d = c
      BY <1>t, <2>1, <2>2
    <3> QED BY <1>t, <2>2, <3>1, <3>2 DEF Shape, OpenIsHeld, Held
  <2>3. ASSUME Fault, cur' = None, st' = At(IF stopReq THEN "done" ELSE "backoff"),
               UNCHANGED <<sock, stopReq>>
        PROVE  Good
    <3>1. st' \in Locals /\ st'.pc \in {"done", "backoff"} /\ st' = At(st'.pc)
      BY <2>3 DEF StreamPC
    <3> QED BY <1>t, <1>f, <2>1, <2>3, <3>1 DEF Shape, OpenIsHeld
  <2> QED BY <2>2, <2>3
<1>3. ASSUME SubscribeAcked PROVE Good
  <2> USE <1>3 DEF SubscribeAcked
  <2>1. cur = st.ws /\ st.ws \in Conn /\ st.new = None /\ st.old = None
    BY <1>s DEF Shape
  <2>2. st' = Reading(cur) /\ cur' = cur
    BY <2>1
  <2>3. \A d \in Conn : sock'[d] # "none" => d = cur
    BY <1>t, <1>s, <2>1 DEF OpenIsHeld, Held
  <2>4. st' \in Locals /\ st'.pc = "recv" /\ st'.ws = cur /\ st'.new = None /\ st'.old = None
    BY <1>t, <2>2
  <2> QED BY <1>t, <2>1, <2>2, <2>3, <2>4 DEF Shape, OpenIsHeld, Held
<1>4. ASSUME SubscribeFails PROVE Good
  <2> USE <1>4 DEF SubscribeFails
  <2>1. cur = st.ws /\ st.ws \in Conn /\ st.new = None /\ st.old = None
    BY <1>s DEF Shape
  <2>2. \A d \in Conn : sock'[d] = "none"
    BY <1>t, <1>s, <2>1 DEF OpenIsHeld, Held, Closed
  <2>3. st' \in Locals /\ st'.pc \in {"done", "backoff"} /\ st' = At(st'.pc)
    BY DEF StreamPC
  <2>4. faults' \in 0..MaxFaults
    BY <1>t, <1>f
  <2> QED BY <1>t, <1>c, <2>2, <2>3, <2>4 DEF Shape, OpenIsHeld
<1>5. ASSUME RecvBreaks PROVE Good
  <2> USE <1>5 DEF RecvBreaks
  <2>1. cur = st.ws /\ st.ws \in Conn /\ st.new = None /\ st.old = None
    BY <1>s DEF Shape
  <2>2. \A d \in Conn : sock'[d] = "none"
    BY <1>t, <1>s, <2>1 DEF OpenIsHeld, Held
  <2>3. st' \in Locals /\ st'.pc \in {"done", "backoff"} /\ st' = At(st'.pc)
    BY DEF StreamFails, StreamPC
  <2>4. cur' \in {cur, None} /\ (st'.pc = "backoff" => cur' = None)
    BY <2>3 DEF StreamFails, StreamPC
  <2> QED BY <1>t, <2>2, <2>3, <2>4 DEF Shape, OpenIsHeld
<1>6. ASSUME BackoffEnds PROVE Good
  <2> USE <1>6 DEF BackoffEnds
  <2>1. st = At("backoff") /\ st' = At("loop") /\ cur' = cur /\ sock' = sock
    BY <1>s DEF Shape
  <2> QED BY <1>t, <1>s, <2>1 DEF Shape, OpenIsHeld, Held, StreamPC
<1>r. ASSUME RotationFails, st.pc \in {"rotOpening", "rotSubscribing"}, stopReq' = stopReq,
             faults' \in 0..MaxFaults
      PROVE  Good
  <2> USE <1>r DEF RotationFails
  <2>1. st.ws = None /\ st.old = cur /\ cur \in Conn
    BY <1>s DEF Shape
  <2>2. \A d \in Conn : sock'[d] # "none" => d = cur /\ sock[cur] # "none"
    BY <1>t, <1>s, <2>1 DEF OpenIsHeld, Held, Closed
  <2>3. CASE Connected
    <3>1. cur' = cur /\ st' = Reading(cur)
      BY <2>1, <2>3
    <3>2. st' \in Locals /\ st'.pc = "recv" /\ st'.ws = cur /\ st'.new = None /\ st'.old = None
      BY <1>t, <3>1
    <3> QED BY <1>t, <1>c, <2>1, <2>2, <3>1, <3>2 DEF Shape, OpenIsHeld, Held
  <2>4. CASE ~Connected
    <3>1. st' \in Locals /\ st'.pc \in {"done", "backoff"} /\ st' = At(st'.pc)
      BY <2>4 DEF StreamFails, StreamPC
    <3>2. cur' \in {cur, None} /\ (st'.pc = "backoff" => cur' = None)
      BY <2>4, <3>1 DEF StreamFails, StreamPC
    <3>3. \A d \in Conn : sock'[d] = "none"
      BY <2>1, <2>2, <2>4 DEF Connected
    <3> QED BY <1>t, <1>c, <3>1, <3>2, <3>3 DEF Shape, OpenIsHeld
  <2> QED BY <2>3, <2>4
<1>7. ASSUME RotationOpens PROVE Good
  <2>1. CASE Fault /\ RotationFails
    BY <1>7, <1>f, <1>r, <2>1 DEF RotationOpens
  <2>2. ASSUME NEW c \in Conn, Fresh(c), sock' = [sock EXCEPT ![c] = "open"],
               st' = [st EXCEPT !.pc = "rotSubscribing", !.new = c],
               UNCHANGED <<cur, faults, stopReq>>
        PROVE  Good
    <3>1. st.ws = None /\ st.new = None /\ st.old = cur /\ cur \in Conn
      BY <1>7, <1>s DEF Shape, RotationOpens
    <3>2. /\ st' \in Locals /\ st'.pc = "rotSubscribing" /\ st'.ws = None /\ st'.new = c
          /\ st'.old = cur
      BY <1>t, <2>2, <3>1 DEF Locals, StreamPC
    <3>0. st.pc = "rotOpening"
      BY <1>7 DEF RotationOpens
    <3>3. \A d \in Conn : sock[d] # "none" => d = cur
      BY <1>s, <3>0, <3>1 DEF OpenIsHeld, Held
    <3>4. \A d \in Conn : sock'[d] # "none" => d \in {c, cur}
      BY <1>t, <2>2, <3>3
    <3> QED BY <1>t, <2>2, <3>1, <3>2, <3>4 DEF Shape, OpenIsHeld, Held
  <2> QED BY <1>7, <2>1, <2>2 DEF RotationOpens
<1>8. ASSUME RotationSubscribes PROVE Good
  <2>1. CASE (IF sock[st.new] = "open" THEN Fault ELSE UNCHANGED faults) /\ RotationFails
    <3>1. faults' \in 0..MaxFaults
      BY <1>t, <1>f, <2>1
    <3> QED BY <1>8, <1>r, <2>1, <3>1 DEF RotationSubscribes
  <2>2. ASSUME sock' = [sock EXCEPT ![st.new] = "subscribed"], cur' = st.new,
               st' = [st EXCEPT !.pc = "rotClosing", !.ws = st.new],
               UNCHANGED <<faults, stopReq>>
        PROVE  Good
    <3>1. st.ws = None /\ st.new \in Conn /\ st.old = cur /\ cur \in Conn
      BY <1>8, <1>s DEF Shape, RotationSubscribes
    <3>2. /\ st' \in Locals /\ st'.pc = "rotClosing" /\ st'.ws = st.new /\ st'.new = st.new
          /\ st'.old = cur
      BY <1>t, <2>2, <3>1 DEF Locals, StreamPC
    <3>3. \A d \in Conn : sock'[d] # "none" => d \in {st.new, cur}
      BY <1>t, <1>s, <1>8, <2>2, <3>1 DEF OpenIsHeld, Held, RotationSubscribes
    <3> QED BY <1>t, <2>2, <3>1, <3>2, <3>3 DEF Shape, OpenIsHeld, Held
  <2> QED BY <1>8, <2>1, <2>2 DEF RotationSubscribes
<1>9. ASSUME RotationCloses PROVE Good
  <2> USE <1>9 DEF RotationCloses
  <2>1. cur = st.ws /\ cur = st.new /\ cur \in Conn
    BY <1>s DEF Shape
  <2>2. st' \in Locals /\ st'.pc = "recv" /\ st'.ws = cur /\ st'.new = None /\ st'.old = None
    BY <1>t, <2>1
  <2>3. \A d \in Conn : sock'[d] # "none" => d = cur
    BY <1>t, <1>s, <2>1 DEF OpenIsHeld, Held, Closed
  <2> QED BY <1>t, <1>c, <2>1, <2>2, <2>3 DEF Shape, OpenIsHeld, Held
<1>10. ASSUME OtherFrame PROVE Good
  <2>1. st.pc = "recv" /\ st' = AfterFrame /\ UNCHANGED <<sock, cur, stopReq, faults>>
    BY <1>10 DEF OtherFrame
  <2>2. st' \in Locals /\ Shape' /\ OpenIsHeld'
    BY <1>s, <2>1, NextFrame DEF ConnInv
  <2> QED BY <1>t, <2>1, <2>2
<1>11. ASSUME Rotate PROVE Good
  <2> USE <1>11 DEF Rotate
  <2>1. cur = st.ws /\ st.ws \in Conn /\ st.new = None /\ st.old = None
    BY <1>s DEF Shape
  <2>2. /\ st' \in Locals /\ st'.pc = "rotOpening" /\ st'.ws = None /\ st'.new = None
        /\ st'.old = cur
    BY <2>1 DEF At, Locals, StreamPC
  <2> QED BY <1>t, <1>s, <2>1, <2>2 DEF Shape, OpenIsHeld, Held
<1>12. ASSUME NEW c \in Conn, ConnectionBreaks(c) PROVE Good
  <2> USE <1>12 DEF ConnectionBreaks
  <2>1. \A d \in Conn : sock'[d] # "none" => sock[d] # "none"
    BY <1>t DEF Closed
  <2>2. Held' = Held /\ (Connected' => Connected)
    BY <1>t, <2>1 DEF Held, Connected
  <2>3. Shape'
    BY <1>s, <2>2 DEF Shape
  <2>4. OpenIsHeld'
    BY <1>s, <2>1, <2>2 DEF OpenIsHeld
  <2> QED BY <1>t, <1>f, <1>c, <2>3, <2>4
<1> HIDE DEF Good
<1> QED BY <1>1, <1>2, <1>3, <1>4, <1>5, <1>6, <1>7, <1>8, <1>9, <1>10, <1>11, <1>12, <1>g
        DEF ConnNext, StreamStep

\* A step of the client does not bring it to the wait for room in the queue,
\* and a stream that has ended stays so.
LEMMA ConnectorLeaves ==
    ASSUME ConnTypeOK, ConnNext
    PROVE  st' = st \/ (st.pc # "done" /\ st'.pc # "put")
<1> USE StreamRecords
<1>1. st.ws \in Conn \cup {None} /\ st.old \in Conn \cup {None} /\ cur \in Conn \cup {None}
      /\ st \in Locals
  BY DEF ConnTypeOK, Locals
<1>2. StreamFails => st'.pc \in {"done", "backoff"}
  BY DEF StreamFails, StreamPC
<1>3. RotationFails => st'.pc \in {"done", "backoff", "recv"}
  BY <1>1, <1>2 DEF RotationFails
<1>4. st' = AfterFrame => st'.pc \in {"done", "recv", "loop"}
  BY <1>1 DEF AfterFrame, StreamPC
<1>5. StreamLoop => st.pc # "done" /\ st'.pc # "put"
  BY <1>1 DEF StreamLoop, StreamPC
<1>6. ConnectOpens => st.pc # "done" /\ st'.pc # "put"
  BY <1>1 DEF ConnectOpens, At
<1>7. SubscribeAcked \/ SubscribeFails => st.pc # "done" /\ st'.pc # "put"
  BY <1>1 DEF SubscribeAcked, SubscribeFails, StreamPC
<1>8. RecvBreaks \/ BackoffEnds \/ RotationCloses => st.pc # "done" /\ st'.pc # "put"
  BY <1>1, <1>2 DEF RecvBreaks, BackoffEnds, RotationCloses, StreamPC
<1>9. RotationOpens => st.pc # "done" /\ st'.pc # "put"
  <2>1. \A c \in Conn : [st EXCEPT !.pc = "rotSubscribing", !.new = c].pc # "put"
    BY <1>1 DEF Locals
  <2> QED BY <1>3, <2>1 DEF RotationOpens
<1>10. RotationSubscribes => st.pc # "done" /\ st'.pc # "put"
  BY <1>1, <1>3 DEF RotationSubscribes, Locals
<1>11. OtherFrame \/ Rotate => st.pc # "done" /\ st'.pc # "put"
  BY <1>1, <1>4 DEF OtherFrame, Rotate, At
<1>12. \A c \in Conn : ConnectionBreaks(c) => st' = st
  BY DEF ConnectionBreaks
<1> QED BY <1>5, <1>6, <1>7, <1>8, <1>9, <1>10, <1>11, <1>12 DEF ConnNext, StreamStep

-----------------------------------------------------------------------------
(* The queue *)

\* The invariant is the type invariant, the two safety properties, and more.
LEMMA PipelineInvParts ==
    /\ PipelineInv => TypeOK /\ QueueIsCounted /\ OpenIsHeld
    /\ QueueIsCounted <=> Counted /\ (rt = "FENCED" => queue = <<>>)
BY DEF PipelineInv, ConnInv, QueueTypes, RuntimeTypes, Flushes, Stops, TypeOK, QueueIsCounted,
       Counted, Places

\* A candle enters a queue that has room.
LEMMA EnqueueStep ==
    ASSUME QueueTypes, Counted, accepted \subseteq Candle,
           NEW e \in Candle, Len(queue) < QueueMax, pending[e[1]] < MaxPending, Enqueue(e)
    PROVE  /\ queue' \in Seq(Candle) /\ Len(queue') <= QueueMax
           /\ pending' \in [Symbol -> 0..MaxPending]
           /\ accepted' \subseteq Candle
           /\ Counted'
<1>1. e[1] \in Symbol
  BY DEF Candle
<1>2. queue \in Seq(Candle) /\ pending \in [Symbol -> 0..MaxPending] /\ MaxPending \in Nat
      /\ QueueMax \in Nat /\ Len(queue) \in Nat
  BY PipelineAssumption DEF QueueTypes
<1>3. queue' = Append(queue, e) /\ pending' = [pending EXCEPT ![e[1]] = @ + 1]
      /\ accepted' = accepted \cup {e}
  BY DEF Enqueue
<1>4. queue' \in Seq(Candle) /\ Len(queue') = Len(queue) + 1
  BY <1>2, <1>3, AppendProperties
<1>5. \A s \in Symbol : pending[s] \in 0..MaxPending
                        /\ pending'[s] = pending[s] + (IF s = e[1] THEN 1 ELSE 0)
  BY <1>1, <1>2, <1>3
<1>6. pending' \in [Symbol -> 0..MaxPending]
  BY <1>1, <1>2, <1>3, <1>5
<1>7. Counted'
  <2>1. \A s \in Symbol : Cardinality(Places(queue', s)) =
                            Cardinality(Places(queue, s)) + (IF s = e[1] THEN 1 ELSE 0)
    BY <1>2, <1>3, AppendCounts
  <2>2. \A s \in Symbol : pending'[s] = Cardinality(Places(queue', s))
    BY <1>5, <2>1 DEF Counted
  <2> QED BY <2>2 DEF Counted, Places
<1> QED BY <1>2, <1>3, <1>4, <1>6, <1>7

\* The batch that is given up, and the one that is taken.
LEMMA FlushRecords ==
    /\ NoFlush \in Flushes /\ NoFlush.pc = "idle"
    /\ \A b \in Seq(Candle) :
         /\ [NoFlush EXCEPT !.pc = "resolve", !.batch = b] \in Flushes
         /\ [NoFlush EXCEPT !.pc = "resolve", !.batch = b].pc = "resolve"
<1>1. <<>> \in Seq(Candle) /\ <<>> \in Seq(SUBSET Candle)
  BY EmptySeq
<1>2. \A b \in Seq(Candle), g \in Seq(SUBSET Candle) :
        /\ [pc |-> "idle", batch |-> b, groups |-> g] \in Flushes
        /\ [pc |-> "resolve", batch |-> b, groups |-> g] \in Flushes
  BY DEF Flushes
<1>3. \A r \in Flushes, b \in Seq(Candle) :
        /\ [r EXCEPT !.pc = "resolve", !.batch = b] \in Flushes
        /\ [r EXCEPT !.pc = "resolve", !.batch = b].pc = "resolve"
  BY DEF Flushes
<1>4. NoFlush \in Flushes /\ NoFlush.pc = "idle"
  <2>1. NoFlush.pc = "idle"
    BY DEF NoFlush
  <2>2. NoFlush \in Flushes
    BY <1>1, <1>2, Zenon DEF NoFlush
  <2> QED BY <2>1, <2>2
<1> QED BY <1>3, <1>4

\* A batch leaves the queue.
LEMMA DrainStep ==
    ASSUME QueueTypes, Counted, Drain
    PROVE  /\ queue' \in Seq(Candle) /\ Len(queue') <= QueueMax
           /\ pending' \in [Symbol -> 0..MaxPending]
           /\ \A s \in Symbol : pending'[s] <= pending[s]
           /\ flush' \in Flushes /\ flush'.pc # "commit"
           /\ Counted'
<1> DEFINE m == Len(queue)
           n == IF m < BatchSize THEN m ELSE BatchSize
           batch == SubSeq(queue, 1, n)
           B(s) == {i \in 1..n : batch[i][1] = s}
<1>1. /\ queue \in Seq(Candle) /\ pending \in [Symbol -> 0..MaxPending] /\ MaxPending \in Nat
      /\ m \in Nat /\ m <= QueueMax /\ QueueMax \in Nat
      /\ DOMAIN queue = 1..m /\ \A i \in 1..m : queue[i] \in Candle
  BY PipelineAssumption DEF QueueTypes
<1>2. n \in 0..m /\ n \in Nat
  BY <1>1, PipelineAssumption
<1>3. /\ queue' = SubSeq(queue, n + 1, m)
      /\ pending' = [s \in Symbol |-> pending[s] - Cardinality(B(s))]
      /\ flush' = IF rt = "RUNNING" THEN [NoFlush EXCEPT !.pc = "resolve", !.batch = batch]
                  ELSE NoFlush
  BY DEF Drain
<1> HIDE DEF n, m
<1>4. queue' \in Seq(Candle) /\ Len(queue') <= QueueMax
  <2>1. \A i \in n + 1..m : queue[i] \in Candle
    BY <1>1, <1>2
  <2>2. queue' \in Seq(Candle) /\ Len(queue') = IF n + 1 <= m THEN m - (n + 1) + 1 ELSE 0
    BY <1>1, <1>2, <1>3, <2>1, SubSeqProperties
  <2> QED BY <1>1, <1>2, <2>2
<1>5. batch \in Seq(Candle)
  <2>1. \A i \in 1..n : queue[i] \in Candle
    BY <1>1, <1>2
  <2> QED BY <1>2, <2>1, SubSeqProperties
<1> HIDE DEF batch
<1>6. \A s \in Symbol : Cardinality(Places(queue, s)) =
                          Cardinality(B(s)) + Cardinality(Places(queue', s))
  BY <1>1, <1>2, <1>3, SplitCounts DEF batch, m
<1>7. \A s \in Symbol : Cardinality(B(s)) \in Nat
  <2>1. IsFiniteSet(1..n)
    BY <1>2, FS_Interval
  <2>2. \A s \in Symbol : B(s) \in SUBSET (1..n)
    OBVIOUS
  <2> QED BY <2>1, <2>2, FS_Subset, FS_CardinalityType
<1>8. \A s \in Symbol : Cardinality(Places(queue', s)) \in Nat
  BY <1>4, PlacesAreFinite
<1> HIDE DEF B
<1>9. \A s \in Symbol : /\ pending[s] = Cardinality(B(s)) + Cardinality(Places(queue', s))
                        /\ pending[s] \in 0..MaxPending
  BY <1>1, <1>6 DEF Counted
<1>10. \A s \in Symbol : /\ pending'[s] = Cardinality(Places(queue', s))
                         /\ pending'[s] <= pending[s] /\ pending'[s] \in 0..MaxPending
  BY <1>1, <1>3, <1>7, <1>8, <1>9
<1>11. pending' \in [Symbol -> 0..MaxPending]
  BY <1>3, <1>10
<1>12. Counted'
  BY <1>10 DEF Counted, Places
<1>13. flush' \in Flushes /\ flush'.pc # "commit"
  BY <1>3, <1>5, FlushRecords
<1> QED BY <1>4, <1>10, <1>11, <1>12, <1>13

\* The queue is emptied with its counters.
LEMMA ClearStep ==
    ASSUME queue' = <<>>, pending' = Empty
    PROVE  /\ queue' \in Seq(Candle) /\ Len(queue') <= QueueMax
           /\ pending' \in [Symbol -> 0..MaxPending]
           /\ Counted'
<1>1. queue' \in Seq(Candle) /\ Len(queue') = 0
  OBVIOUS
<1>2. pending' \in [Symbol -> 0..MaxPending]
  BY PipelineAssumption DEF Empty
<1>3. \A s \in Symbol : pending'[s] = Cardinality(Places(queue', s))
  BY EmptyCounts DEF Empty
<1>4. Counted'
  BY <1>3 DEF Counted, Places
<1> QED BY <1>1, <1>2, <1>4, PipelineAssumption

\* The stream task is cancelled.
LEMMA CancelStep ==
    ASSUME ConnInv, NEW s \in [Conn -> {"none", "open", "subscribed"}], StreamCancelled(s),
           cur' \in Conn \cup {None}, stopReq' \in BOOLEAN, faults' \in 0..MaxFaults
    PROVE  ConnInv' /\ st'.pc = "done"
<1>1. st' = At("done") /\ st'.pc = "done" /\ st' \in Locals
  BY StreamRecords DEF StreamCancelled, StreamPC
<1>2. sock' \in [Conn -> {"none", "open", "subscribed"}]
  BY DEF StreamCancelled
<1>3. Shape' /\ OpenIsHeld'
  BY <1>1, StreamEnds
<1> QED BY <1>1, <1>2, <1>3 DEF ConnInv, ConnTypeOK, Locals

-----------------------------------------------------------------------------
(* The steps of the live path *)

\* The runtime is fenced: the stream ends and the queue is emptied.
LEMMA FenceStep ==
    ASSUME PipelineInv, NEW p, p \subseteq Candle, Fence(p), faults' \in 0..MaxFaults,
           flush' \in Flushes, flush'.pc = "commit" => flush'.groups # <<>>,
           flusher' \in BOOLEAN
    PROVE  PipelineInv'
<1> USE DEF Fence
<1>1. ConnInv' /\ st'.pc = "done"
  <2>1. /\ sock \in [Conn -> {"none", "open", "subscribed"}]
        /\ cur' \in Conn \cup {None} /\ stopReq' \in BOOLEAN
    BY DEF PipelineInv, ConnInv, ConnTypeOK
  <2> QED BY <2>1, CancelStep DEF PipelineInv
<1>2. /\ queue' \in Seq(Candle) /\ Len(queue') <= QueueMax
      /\ pending' \in [Symbol -> 0..MaxPending] /\ Counted'
  BY ClearStep
<1>3. QueueIsCounted'
  BY <1>2, PipelineInvParts DEF QueueIsCounted, Counted, Places
<1>4. QueueTypes'
  BY <1>2 DEF QueueTypes
<1>5. RuntimeTypes'
  BY DEF PipelineInv, RuntimeTypes, regVars
<1>6. WaitingFits'
  BY <1>1 DEF WaitingFits
<1> QED BY <1>1, <1>3, <1>4, <1>5, <1>6 DEF PipelineInv

\* A fatal error of the flusher.
LEMMA FatalStep ==
    ASSUME PipelineInv, FatalError, faults' \in 0..MaxFaults
    PROVE  PipelineInv'
<1>1. flush' \in Flushes /\ flush'.pc = "idle" /\ flusher' \in BOOLEAN
  BY FlushRecords DEF FatalError, PipelineInv, QueueTypes
<1>2. CASE rt # "FENCED"
  <2>1. Fence(settled) /\ settled \subseteq Candle
    BY <1>2 DEF FatalError, PipelineInv, RuntimeTypes
  <2> QED BY <1>1, <2>1, FenceStep
<1>3. CASE rt = "FENCED"
  <2>1. UNCHANGED <<rt, accepting, running, queue, pending, held, st, sock, cur, stopReq, stop,
                    registry, cache, fresh, received, accepted, settled, forfeit, flusher>>
    BY <1>3 DEF FatalError, regVars, histVars
  <2>2. ConnInv'
    BY <2>1 DEF PipelineInv, ConnInv, ConnTypeOK, Shape, OpenIsHeld, Held, Connected
  <2>3. QueueTypes' /\ RuntimeTypes'
    BY <1>1, <2>1 DEF PipelineInv, QueueTypes, RuntimeTypes
  <2>4. QueueIsCounted' /\ WaitingFits'
    BY <1>1, <2>1 DEF PipelineInv, QueueIsCounted, WaitingFits
  <2> QED BY <2>2, <2>3, <2>4 DEF PipelineInv
<1> QED BY <1>2, <1>3

\* A step that leaves the client alone keeps its invariant.
LEMMA ClientAlone ==
    ASSUME ConnInv, UNCHANGED connVars
    PROVE  ConnInv'
BY DEF ConnInv, ConnTypeOK, Shape, OpenIsHeld, Held, Connected, connVars

\* A valid final candle arrives.
LEMMA RecvStep ==
    ASSUME PipelineInv, NEW e \in Candle, RecvCandle(e)
    PROVE  PipelineInv'
<1> USE DEF RecvCandle
<1>1. /\ st.pc = "recv" /\ sock' = sock /\ cur' = cur /\ stopReq' = stopReq /\ faults' = faults
      /\ UNCHANGED <<running, flusher, flush, settled, forfeit, rtVars, regVars>>
  OBVIOUS
<1>2. ConnTypeOK /\ Shape /\ OpenIsHeld /\ QueueTypes /\ RuntimeTypes /\ QueueIsCounted /\ Counted
      /\ WaitingFits
  BY PipelineInvParts DEF PipelineInv, ConnInv
<1>3. st \in Locals /\ e[1] \in Symbol /\ rt # "FENCED"
  BY <1>1, <1>2 DEF ConnTypeOK, Locals, WaitingFits, Candle
<1>4. received' \in 0..MaxCandles
  BY <1>2, PipelineAssumption DEF RuntimeTypes
<1> DEFINE Client == st' \in Locals /\ Shape' /\ OpenIsHeld'
           Queue == /\ queue' \in Seq(Candle) /\ Len(queue') <= QueueMax
                    /\ pending' \in [Symbol -> 0..MaxPending] /\ accepted' \subseteq Candle
                    /\ Counted'
           Same == UNCHANGED <<queue, pending, accepted>>
<1>5. Same => Queue
  BY <1>2 DEF QueueTypes, RuntimeTypes, Counted
<1>6. st' = AfterFrame => Client /\ st'.pc # "put"
  <2>1. st' = AfterFrame => Client
    BY <1>1, <1>2, NextFrame
  <2>2. st' = AfterFrame => st'.pc \in {"done", "recv", "loop"}
    BY <1>3, StreamRecords DEF AfterFrame, StreamPC, Locals
  <2> QED BY <2>1, <2>2
<1>7. \/ Client /\ Queue /\ held' = held /\ st'.pc # "put"
      \/ Client /\ Same /\ held' = e /\ pending[e[1]] < MaxPending
  <2>1. CASE ~accepting
    <3>1. st' = At("done") /\ Same /\ held' = held
      BY <2>1
    <3>2. Client /\ st'.pc = "done"
      BY <3>1, StreamRecords, StreamEnds DEF StreamPC
    <3> HIDE DEF Client, Queue, Same
    <3> QED BY <1>5, <3>1, <3>2
  <2>2. CASE accepting /\ (~running \/ rt # "RUNNING" \/ pending[e[1]] >= MaxPending)
    <3>1. st' = AfterFrame /\ Same /\ held' = held
      BY <2>2
    <3> HIDE DEF Client, Queue, Same
    <3> QED BY <1>5, <1>6, <3>1
  <2>3. CASE /\ accepting /\ ~(~running \/ rt # "RUNNING" \/ pending[e[1]] >= MaxPending)
             /\ Len(queue) < QueueMax
    <3>1. st' = AfterFrame /\ Enqueue(e) /\ held' = held
      BY <2>3
    <3>2. pending[e[1]] < MaxPending
      BY <1>2, <1>3, <2>3, PipelineAssumption DEF QueueTypes
    <3>3. Queue
      BY <1>2, <2>3, <3>1, <3>2, EnqueueStep DEF RuntimeTypes
    <3> HIDE DEF Client, Queue, Same
    <3> QED BY <1>6, <3>1, <3>3
  <2>4. CASE /\ accepting /\ ~(~running \/ rt # "RUNNING" \/ pending[e[1]] >= MaxPending)
             /\ ~(Len(queue) < QueueMax)
    <3>1. st' = [st EXCEPT !.pc = "put"] /\ held' = e /\ Same
      BY <2>4
    <3>2. pending[e[1]] < MaxPending
      BY <1>2, <1>3, <2>4, PipelineAssumption DEF QueueTypes
    <3>3. /\ st' \in Locals /\ st'.pc = "put" /\ st'.ws = st.ws /\ st'.new = st.new
          /\ st'.old = st.old
      BY <1>3, <3>1 DEF Locals, StreamPC
    <3>4. Client
      BY <1>1, <1>2, <3>3 DEF Shape, OpenIsHeld, Held
    <3> HIDE DEF Client, Queue, Same
    <3> QED BY <3>1, <3>2, <3>4
  <2> QED BY <2>1, <2>2, <2>3, <2>4
<1>8. ConnInv'
  BY <1>1, <1>2, <1>7 DEF ConnInv, ConnTypeOK, Locals
<1>9. Queue /\ held' \in Candle \cup {NoCandle}
  BY <1>2, <1>5, <1>7 DEF QueueTypes
<1>10. QueueTypes'
  BY <1>1, <1>2, <1>9 DEF QueueTypes
<1>11. RuntimeTypes'
  BY <1>1, <1>2, <1>4, <1>9 DEF RuntimeTypes, rtVars, regVars
<1>12. rt' = rt
  BY <1>1 DEF rtVars
<1>13. QueueIsCounted'
  <2>1. Counted' /\ rt' # "FENCED"
    BY <1>3, <1>9, <1>12
  <2> QED BY <2>1 DEF Counted, QueueIsCounted, Places
<1>14. WaitingFits'
  BY <1>1, <1>2, <1>3, <1>7, <1>12 DEF WaitingFits
<1> QED BY <1>8, <1>10, <1>11, <1>13, <1>14 DEF PipelineInv

\* The wait for room ends.
LEMMA PutStep ==
    ASSUME PipelineInv, PutEnds
    PROVE  PipelineInv'
<1> USE DEF PutEnds
<1>1. /\ st.pc = "put" /\ st' = AfterFrame /\ held' = NoCandle
      /\ sock' = sock /\ cur' = cur /\ stopReq' = stopReq /\ faults' = faults
      /\ UNCHANGED <<running, flusher, flush, rtVars, regVars, received, settled, forfeit>>
  OBVIOUS
<1>2. ConnTypeOK /\ Shape /\ OpenIsHeld /\ QueueTypes /\ RuntimeTypes /\ QueueIsCounted /\ Counted
      /\ WaitingFits
  BY PipelineInvParts DEF PipelineInv, ConnInv
<1>3. st \in Locals /\ held \in Candle /\ pending[held[1]] < MaxPending /\ rt # "FENCED"
  BY <1>1, <1>2 DEF ConnTypeOK, Locals, WaitingFits
<1>4. st' \in Locals /\ Shape' /\ OpenIsHeld'
  BY <1>1, <1>2, NextFrame
<1>5. st'.pc \in {"done", "recv", "loop"}
  BY <1>1, <1>3, StreamRecords DEF AfterFrame, StreamPC, Locals
<1>6. /\ queue' \in Seq(Candle) /\ Len(queue') <= QueueMax
      /\ pending' \in [Symbol -> 0..MaxPending] /\ accepted' \subseteq Candle
      /\ Counted'
  <2>1. CASE Len(queue) < QueueMax
    <3>1. Enqueue(held)
      BY <2>1
    <3> QED BY <1>2, <1>3, <2>1, <3>1, EnqueueStep DEF RuntimeTypes
  <2>2. CASE ~(Len(queue) < QueueMax)
    <3>1. UNCHANGED <<queue, pending, accepted>>
      BY <2>2
    <3> QED BY <1>2, <3>1 DEF QueueTypes, RuntimeTypes, Counted
  <2> QED BY <2>1, <2>2
<1>7. ConnInv'
  BY <1>1, <1>2, <1>4 DEF ConnInv, ConnTypeOK, Locals
<1>8. QueueTypes'
  BY <1>1, <1>2, <1>6 DEF QueueTypes
<1>9. RuntimeTypes' /\ rt' = rt
  BY <1>1, <1>2, <1>6 DEF RuntimeTypes, rtVars, regVars
<1>10. QueueIsCounted'
  BY <1>3, <1>6, <1>9 DEF Counted, QueueIsCounted, Places
<1>11. WaitingFits'
  BY <1>1, <1>2, <1>3, <1>5, <1>9 DEF WaitingFits
<1> QED BY <1>7, <1>8, <1>9, <1>10, <1>11 DEF PipelineInv

\* A step of the batch that leaves the client and the queue alone.
LEMMA BatchStep ==
    ASSUME PipelineInv, UNCHANGED <<sock, cur, st, stopReq, queue, pending, running, held, rt>>,
           faults' \in 0..MaxFaults, RuntimeTypes', flusher' \in BOOLEAN,
           flush' \in Flushes, flush'.pc = "commit" => flush'.groups # <<>>
    PROVE  PipelineInv'
<1>1. ConnInv'
  BY DEF PipelineInv, ConnInv, ConnTypeOK, Shape, OpenIsHeld, Held, Connected
<1>2. QueueTypes'
  BY DEF PipelineInv, QueueTypes
<1>3. QueueIsCounted' /\ WaitingFits'
  BY DEF PipelineInv, QueueIsCounted, WaitingFits
<1> QED BY <1>1, <1>2, <1>3 DEF PipelineInv

\* The steps of the flusher.
LEMMA FlusherStep ==
    ASSUME PipelineInv, FlushStep \/ CommitFails \/ CommitFenced
    PROVE  PipelineInv'
<1>1. /\ ConnInv /\ QueueTypes /\ RuntimeTypes /\ QueueIsCounted /\ Counted /\ WaitingFits
      /\ flush \in Flushes /\ flusher \in BOOLEAN /\ faults \in 0..MaxFaults
      /\ settled \subseteq Candle
  BY PipelineInvParts DEF PipelineInv, ConnInv, ConnTypeOK, QueueTypes, RuntimeTypes
<1>f. Fault => faults' \in 0..MaxFaults
  BY <1>1, ConnAssumption DEF Fault
<1>g. flush.pc = "commit" =>
        /\ Head(flush.groups) \subseteq Candle
        /\ [flush EXCEPT !.pc = "group", !.groups = Tail(@)] \in Flushes
        /\ [flush EXCEPT !.pc = "group", !.groups = Tail(@)].pc = "group"
  <2> SUFFICES ASSUME flush.pc = "commit"
               PROVE  /\ Head(flush.groups) \subseteq Candle
                      /\ [flush EXCEPT !.pc = "group", !.groups = Tail(@)] \in Flushes
                      /\ [flush EXCEPT !.pc = "group", !.groups = Tail(@)].pc = "group"
    OBVIOUS
  <2>1. flush.groups \in Seq(SUBSET Candle) /\ flush.groups # <<>>
    BY <1>1 DEF Flushes, WaitingFits
  <2>2. Head(flush.groups) \in SUBSET Candle /\ Tail(flush.groups) \in Seq(SUBSET Candle)
    BY <2>1, HeadTailProperties
  <2> QED BY <1>1, <2>2 DEF Flushes
<1>2. CASE FlushBegins
  <2> USE <1>2 DEF FlushBegins
  <2>1. /\ queue' \in Seq(Candle) /\ Len(queue') <= QueueMax
        /\ pending' \in [Symbol -> 0..MaxPending]
        /\ \A s \in Symbol : pending'[s] <= pending[s]
        /\ flush' \in Flushes /\ flush'.pc # "commit"
        /\ Counted'
    BY <1>1, DrainStep
  <2>2. ConnInv' /\ st' = st
    BY <1>1, ClientAlone DEF connVars
  <2>3. QueueTypes'
    BY <1>1, <2>1 DEF QueueTypes
  <2>4. RuntimeTypes' /\ rt' = rt
    BY <1>1 DEF RuntimeTypes, rtVars, regVars, histVars
  <2>5. QueueIsCounted'
    <3>1. rt # "FENCED"
      BY <1>1 DEF QueueIsCounted, Drain
    <3> QED BY <2>1, <2>4, <3>1 DEF Counted, QueueIsCounted, Places
  <2>6. WaitingFits'
    <3>1. st.pc = "put" => held[1] \in Symbol /\ pending[held[1]] < MaxPending /\ held \in Candle
      BY <1>1 DEF WaitingFits, Candle
    <3>2. \A s \in Symbol : pending[s] \in Nat /\ pending'[s] \in Nat
      BY <1>1, <2>1 DEF QueueTypes
    <3>3. st.pc = "put" => pending'[held[1]] < MaxPending
      BY <2>1, <3>1, <3>2, PipelineAssumption
    <3> QED BY <1>1, <2>1, <2>2, <2>4, <3>1, <3>3 DEF WaitingFits
  <2> QED BY <2>2, <2>3, <2>4, <2>5, <2>6 DEF PipelineInv
<1>3. CASE FlusherEnds
  <2>1. RuntimeTypes' /\ flush' = flush /\ flusher' = FALSE
        /\ UNCHANGED <<sock, cur, st, stopReq, faults, queue, pending, running, held, rt>>
    BY <1>1, <1>3 DEF FlusherEnds, RuntimeTypes, rtVars, regVars, histVars, connVars
  <2>2. flush.pc = "commit" => flush.groups # <<>>
    BY <1>1 DEF WaitingFits
  <2> QED BY <1>1, <2>1, <2>2, BatchStep
<1>4. CASE ResolveSymbols
  <2>1. CASE Fault /\ FatalError
    BY <1>f, <2>1, FatalStep
  <2>2. CASE ~(Fault /\ FatalError)
    <3> DEFINE active == IF fresh THEN cache ELSE registry
    <3>1. /\ cache' = active /\ fresh' = TRUE
          /\ flush' = [pc |-> "group", batch |-> <<>>, groups |-> GroupsOf(flush.batch, active)]
          /\ settled' = settled \cup {e \in ToSet(flush.batch) : e[1] \notin active}
          /\ UNCHANGED <<connVars, queue, pending, running, flusher, held, rtVars>>
          /\ UNCHANGED <<registry, received, accepted, forfeit>>
      BY <1>4, <2>2 DEF ResolveSymbols
    <3>2. active \subseteq Symbol
      BY <1>1 DEF RuntimeTypes
    <3> HIDE DEF active
    <3>3. flush.batch \in Seq(Candle)
      BY <1>1 DEF Flushes
    <3>4. GroupsOf(flush.batch, active) \in Seq(SUBSET Candle)
      BY <3>3, GroupsType
    <3>5. ToSet(flush.batch) \subseteq Candle
      <4>1. DOMAIN flush.batch = 1..Len(flush.batch)
        BY <3>3
      <4> QED BY <3>3, <4>1, ElementOfSeq DEF ToSet
    <3>6. <<>> \in Seq(Candle)
      BY EmptySeq
    <3>7. flush' \in Flushes /\ flush'.pc = "group"
      BY <3>1, <3>4, <3>6 DEF Flushes
    <3>8. RuntimeTypes'
      BY <1>1, <3>1, <3>2, <3>5 DEF RuntimeTypes, rtVars
    <3>9. UNCHANGED <<sock, cur, st, stopReq, faults, queue, pending, running, flusher, held, rt>>
      BY <3>1 DEF connVars, rtVars
    <3> QED BY <1>1, <3>7, <3>8, <3>9, BatchStep
  <2> QED BY <2>1, <2>2
<1>5. CASE NextGroup
  <2>1. RuntimeTypes'
        /\ UNCHANGED <<sock, cur, st, stopReq, faults, queue, pending, running, flusher, held, rt>>
    BY <1>1, <1>5 DEF NextGroup, RuntimeTypes, rtVars, regVars, histVars, connVars
  <2>2. [flush EXCEPT !.pc = "commit"] \in Flushes
        /\ [flush EXCEPT !.pc = "commit"].groups = flush.groups
    BY <1>1 DEF Flushes
  <2>3. flush' \in Flushes /\ (flush'.pc = "commit" => flush'.groups # <<>>)
    BY <1>5, <2>2, FlushRecords DEF NextGroup
  <2> QED BY <1>1, <2>1, <2>3, BatchStep
<1>6. CASE CommitSucceeds \/ CommitFails
  <2>1. /\ flush.pc = "commit" /\ settled' = settled \cup Head(flush.groups)
        /\ flush' = [flush EXCEPT !.pc = "group", !.groups = Tail(@)]
        /\ faults' \in 0..MaxFaults
        /\ UNCHANGED <<sock, cur, st, stopReq, queue, pending, running, flusher, held, rt, accepting,
                       stop, registry, cache, fresh, received, accepted, forfeit>>
    BY <1>1, <1>6, <1>f DEF CommitSucceeds, CommitFails, rtVars, regVars, connVars
  <2>2. RuntimeTypes'
    BY <1>1, <1>g, <2>1 DEF RuntimeTypes
  <2>3. flush' \in Flushes /\ flush'.pc = "group"
    BY <1>g, <2>1
  <2> QED BY <1>1, <2>1, <2>2, <2>3, BatchStep
<1>7. CASE CommitFenced
  BY <1>7, <1>f, FatalStep DEF CommitFenced
<1> QED BY <1>2, <1>3, <1>4, <1>5, <1>6, <1>7 DEF FlushStep

\* A step of the stop that cancels the stream, or leaves the client alone, and
\* leaves the queue alone.
LEMMA StopsClient ==
    ASSUME PipelineInv, ConnInv', st' = st \/ st'.pc = "done", held' \in {held, NoCandle},
           st'.pc = "put" => held' = held,
           UNCHANGED <<queue, pending, flush, flusher>>, running' \in BOOLEAN,
           RuntimeTypes', rt' \in {rt, "STOPPED"}
    PROVE  PipelineInv'
<1>1. QueueTypes'
  BY DEF PipelineInv, QueueTypes
<1>2. QueueIsCounted'
  BY DEF PipelineInv, QueueIsCounted
<1>3. WaitingFits'
  BY DEF PipelineInv, WaitingFits
<1> QED BY <1>1, <1>2, <1>3 DEF PipelineInv

\* The steps of the runtime.
LEMMA RuntimeStep ==
    ASSUME PipelineInv, HeartbeatFences \/ StopBegins \/ StopStep
    PROVE  PipelineInv'
<1>1. /\ ConnInv /\ QueueTypes /\ RuntimeTypes /\ QueueIsCounted /\ Counted /\ WaitingFits
      /\ flush \in Flushes /\ flusher \in BOOLEAN /\ faults \in 0..MaxFaults
      /\ settled \subseteq Candle /\ stop \in Stops /\ cur \in Conn \cup {None}
      /\ sock \in [Conn -> {"none", "open", "subscribed"}] /\ stopReq \in BOOLEAN
  BY PipelineInvParts DEF PipelineInv, ConnInv, ConnTypeOK, QueueTypes, RuntimeTypes
<1>f. Fault => faults' \in 0..MaxFaults
  BY <1>1, ConnAssumption DEF Fault
<1>c. \A p \in CutOff : p \subseteq Candle
  <2>1. flush.pc = "commit" => flush.groups \in Seq(SUBSET Candle) /\ flush.groups # <<>>
    BY <1>1 DEF Flushes, WaitingFits
  <2>2. flush.pc = "commit" => Head(flush.groups) \in SUBSET Candle
    BY <2>1, HeadTailProperties
  <2> QED BY <1>1, <2>2 DEF CutOff
<1>2. CASE HeartbeatFences
  <2>1. PICK p \in (IF flusher THEN CutOff ELSE {settled}) : Fence(p)
    BY <1>2 DEF HeartbeatFences
  <2>2. p \subseteq Candle
    BY <1>1, <1>c, <2>1
  <2>3. flush' \in Flushes /\ (flush'.pc = "commit" => flush'.groups # <<>>)
    BY <1>1, <1>2, FlushRecords DEF HeartbeatFences, WaitingFits
  <2>4. flusher' \in BOOLEAN /\ faults' \in 0..MaxFaults
    BY <1>1, <1>2 DEF HeartbeatFences
  <2> QED BY <2>1, <2>2, <2>3, <2>4, FenceStep
<1>3. CASE StopBegins
  <2> USE <1>3 DEF StopBegins
  <2>1. stop' \in Stops
    BY <1>1 DEF Stops
  <2>2. RuntimeTypes' /\ rt' = rt
    BY <1>1, <2>1 DEF RuntimeTypes, regVars, histVars
  <2>3. /\ cur' \in Conn \cup {None} /\ stopReq' \in BOOLEAN /\ faults' \in 0..MaxFaults
        /\ UNCHANGED <<queue, pending, flush, flusher>>
    BY <1>1
  <2>4. CASE cur = None
    <3>1. StreamCancelled(sock) /\ held' = NoCandle /\ running' = FALSE
      BY <2>4
    <3>2. ConnInv' /\ st'.pc = "done"
      BY <1>1, <2>3, <3>1, CancelStep
    <3> QED BY <2>2, <2>3, <3>1, <3>2, StopsClient
  <2>5. CASE cur # None
    <3>1. UNCHANGED <<st, sock, held, running, cur>>
      BY <2>5
    <3>2. ConnInv'
      BY <1>1, <2>3, <3>1 DEF ConnInv, ConnTypeOK, Shape, OpenIsHeld, Held, Connected
    <3> QED BY <1>1, <2>2, <2>3, <3>1, <3>2, StopsClient DEF QueueTypes
  <2> QED BY <2>4, <2>5
<1>4. CASE StopCloses
  <2> USE <1>4 DEF StopCloses
  <2>1. stop' \in Stops
    BY <1>1 DEF Stops
  <2>2. RuntimeTypes' /\ rt' = rt
    BY <1>1, <2>1 DEF RuntimeTypes, regVars, histVars
  <2>3. /\ cur' \in Conn \cup {None} /\ stopReq' \in BOOLEAN /\ faults' \in 0..MaxFaults
        /\ UNCHANGED <<queue, pending, flush, flusher>> /\ held' = NoCandle /\ running' = FALSE
    BY <1>1
  <2>4. Closed(stop.closing) \in [Conn -> {"none", "open", "subscribed"}]
    BY <1>1 DEF Closed
  <2>5. ConnInv' /\ st'.pc = "done"
    BY <1>1, <2>3, <2>4, CancelStep
  <2> QED BY <2>2, <2>3, <2>5, StopsClient
<1>5. CASE StopJoins
  <2> USE <1>5 DEF StopJoins
  <2>1. stop' \in Stops
    BY <1>1 DEF Stops
  <2>2. /\ UNCHANGED <<sock, cur, st, stopReq, queue, pending, running, held, rt>>
        /\ flusher' = FALSE /\ accepting' = accepting /\ UNCHANGED <<received, accepted>>
        /\ UNCHANGED regVars
    OBVIOUS
  <2>3. CASE UNCHANGED <<faults, flush, settled, forfeit>>
    <3>1. RuntimeTypes'
      BY <1>1, <2>1, <2>2, <2>3 DEF RuntimeTypes, regVars
    <3>2. flush' \in Flushes /\ (flush'.pc = "commit" => flush'.groups # <<>>)
          /\ faults' \in 0..MaxFaults
      BY <1>1, <2>3 DEF WaitingFits
    <3> QED BY <2>2, <3>1, <3>2, BatchStep
  <2>4. CASE Fault /\ settled' \in CutOff /\ flush' = NoFlush /\ forfeit' = TRUE
    <3>1. settled' \subseteq Candle
      BY <1>c, <2>4
    <3>2. RuntimeTypes'
      BY <1>1, <2>1, <2>2, <2>4, <3>1 DEF RuntimeTypes, regVars
    <3>3. flush' \in Flushes /\ flush'.pc = "idle" /\ faults' \in 0..MaxFaults
      BY <1>f, <2>4, FlushRecords
    <3> QED BY <2>2, <3>2, <3>3, BatchStep
  <2> QED BY <2>3, <2>4
<1>6. CASE StopEnds
  <2> USE <1>6 DEF StopEnds
  <2>1. stop' \in Stops
    BY <1>1 DEF Stops
  <2>2. RuntimeTypes' /\ rt' = "STOPPED"
    BY <1>1, <2>1 DEF RuntimeTypes, regVars, histVars
  <2>3. ConnInv' /\ st' = st
    BY <1>1, ClientAlone DEF connVars
  <2>4. UNCHANGED <<queue, pending, flush, flusher, running, held>>
    BY DEF pipeVars
  <2> QED BY <1>1, <2>2, <2>3, <2>4, StopsClient DEF QueueTypes
<1> QED BY <1>2, <1>3, <1>4, <1>5, <1>6 DEF StopStep

\* The invariant holds at the start.
LEMMA PipelineInit == Init => PipelineInv
<1> SUFFICES ASSUME Init PROVE PipelineInv
  OBVIOUS
<1> USE DEF Init
<1>1. st = At("loop") /\ st.pc = "loop" /\ st \in Locals
  BY StreamRecords DEF ConnInit, StreamPC
<1>2. ConnInv
  <2>1. /\ sock = [c \in Conn |-> "none"] /\ cur = None /\ stopReq = FALSE /\ faults = 0
    BY DEF ConnInit
  <2>2. sock \in [Conn -> {"none", "open", "subscribed"}] /\ faults \in 0..MaxFaults
    BY <2>1, ConnAssumption
  <2>3. ConnTypeOK
    BY <1>1, <2>1, <2>2 DEF ConnTypeOK, Locals
  <2>4. Shape /\ OpenIsHeld
    BY <1>1, <2>1 DEF Shape, OpenIsHeld
  <2> QED BY <2>3, <2>4 DEF ConnInv
<1>3. Counted /\ pending \in [Symbol -> 0..MaxPending] /\ queue \in Seq(Candle)
      /\ Len(queue) <= QueueMax
  <2>1. \A s \in Symbol : pending[s] = Cardinality(Places(<<>>, s))
    BY EmptyCounts DEF Empty
  <2>2. pending \in [Symbol -> 0..MaxPending]
    BY PipelineAssumption DEF Empty
  <2>3. queue = <<>> /\ queue \in Seq(Candle) /\ Len(queue) <= QueueMax
    BY EmptySeq, PipelineAssumption
  <2> QED BY <2>1, <2>2, <2>3 DEF Counted
<1>4. flush \in Flushes /\ flush.pc = "idle"
  BY FlushRecords
<1>5. QueueTypes
  BY <1>3, <1>4 DEF QueueTypes
<1>6. RuntimeTypes
  <2>1. stop \in Stops
    BY DEF Stops
  <2>2. received \in 0..MaxCandles
    BY PipelineAssumption
  <2> QED BY <2>1, <2>2 DEF RuntimeTypes
<1>7. QueueIsCounted /\ WaitingFits
  BY <1>1, <1>3, <1>4, PipelineInvParts DEF WaitingFits
<1> QED BY <1>2, <1>5, <1>6, <1>7 DEF PipelineInv

\* Every step of the live path keeps the invariant.
LEMMA PipelineStep == PipelineInv /\ [Next]_vars => PipelineInv'
<1> SUFFICES ASSUME PipelineInv, [Next]_vars PROVE PipelineInv'
  OBVIOUS
<1>1. CASE Connector
  <2>1. ConnNext /\ UNCHANGED <<pipeVars, rtVars, regVars, histVars>>
    BY <1>1 DEF Connector
  <2>2. ConnInv' /\ (st' = st \/ (st.pc # "done" /\ st'.pc # "put"))
    BY <2>1, ConnectorStep, ConnectorLeaves DEF PipelineInv, ConnInv
  <2>3. QueueTypes' /\ RuntimeTypes' /\ QueueIsCounted'
    BY <2>1 DEF PipelineInv, QueueTypes, RuntimeTypes, QueueIsCounted, pipeVars, rtVars, regVars,
                histVars
  <2>4. WaitingFits'
    BY <2>1, <2>2 DEF PipelineInv, WaitingFits, pipeVars, rtVars
  <2> QED BY <2>2, <2>3, <2>4 DEF PipelineInv
<1>2. CASE \E e \in Candle : RecvCandle(e)
  BY <1>2, RecvStep
<1>3. CASE PutEnds
  BY <1>3, PutStep
<1>4. CASE FlushStep \/ CommitFails \/ CommitFenced
  BY <1>4, FlusherStep
<1>5. CASE HeartbeatFences \/ StopBegins \/ StopStep
  BY <1>5, RuntimeStep
<1>6. CASE \/ \E s \in Delisted : Deactivate(s)
           \/ CacheExpires
           \/ UNCHANGED vars
  <2>1. /\ UNCHANGED <<connVars, pipeVars, rtVars, histVars>>
        /\ registry' \subseteq registry /\ cache' = cache /\ (fresh' = FALSE \/ fresh' = fresh)
    BY <1>6 DEF Deactivate, CacheExpires, vars, regVars
  <2>2. ConnInv'
    BY <2>1, ClientAlone DEF PipelineInv
  <2>3. QueueTypes' /\ QueueIsCounted'
    BY <2>1 DEF PipelineInv, QueueTypes, QueueIsCounted, pipeVars, rtVars
  <2>4. RuntimeTypes'
    BY <2>1 DEF PipelineInv, RuntimeTypes, rtVars, histVars
  <2>5. WaitingFits'
    BY <2>1 DEF PipelineInv, WaitingFits, pipeVars, rtVars, connVars
  <2> QED BY <2>2, <2>3, <2>4, <2>5 DEF PipelineInv
<1> QED BY <1>1, <1>2, <1>3, <1>4, <1>5, <1>6 DEF Next

\* The invariant holds in every behaviour of the live path.
LEMMA PipelineInvariant == Spec => []PipelineInv
BY PipelineInit, PipelineStep, PTL DEF Spec

\* Every variable of the live path keeps its type; above all the queue never
\* passes queue_maxsize and no counter passes max_pending_per_asset, although
\* both are tested before the wait for room and used after it.
THEOREM PipelineTypeCorrect == Spec => []TypeOK
BY PipelineInvariant, PipelineInvParts, PTL

\* _pending_per_asset is what the queue holds of each asset, and a fenced
\* runtime holds nothing.
THEOREM QueueCounted == Spec => []QueueIsCounted
BY PipelineInvariant, PipelineInvParts, PTL

\* No failure of a connection, of a subscription or of a rotation leaves a
\* connection open that the stream task has lost.
THEOREM ConnectionsAreHeld == Spec => []OpenIsHeld
BY PipelineInvariant, PipelineInvParts, PTL

-----------------------------------------------------------------------------
(* No accepted candle is dropped *)

\* One more element.
LEMMA AppendElements ==
    ASSUME NEW T, NEW q \in Seq(T), NEW e \in T
    PROVE  ToSet(Append(q, e)) = ToSet(q) \cup {e}
<1>1. /\ DOMAIN q = 1..Len(q) /\ Len(q) \in Nat
      /\ DOMAIN Append(q, e) = 1..Len(q) + 1
      /\ \A i \in 1..Len(q) : Append(q, e)[i] = q[i]
      /\ Append(q, e)[Len(q) + 1] = e
  BY AppendProperties
<1>2. 1..Len(q) + 1 = (1..Len(q)) \cup {Len(q) + 1}
  BY <1>1
<1> QED BY <1>1, <1>2 DEF ToSet

\* One element less.
LEMMA HeadElements ==
    ASSUME NEW T, NEW q \in Seq(T), q # <<>>
    PROVE  ToSet(q) = {Head(q)} \cup ToSet(Tail(q))
<1> DEFINE n == Len(q)
<1>1. /\ n \in Nat /\ n # 0 /\ DOMAIN q = 1..n /\ Head(q) = q[1]
      /\ Tail(q) \in Seq(T) /\ Len(Tail(q)) = n - 1 /\ DOMAIN Tail(q) = 1..n - 1
      /\ \A i \in 1..n - 1 : Tail(q)[i] = q[i + 1]
  BY EmptySeq, HeadTailProperties
<1>2. ToSet(q) \subseteq {Head(q)} \cup ToSet(Tail(q))
  <2> SUFFICES ASSUME NEW i \in 1..n PROVE q[i] \in {Head(q)} \cup ToSet(Tail(q))
    BY <1>1 DEF ToSet
  <2>1. CASE i = 1
    BY <1>1, <2>1
  <2>2. CASE i # 1
    <3>1. i - 1 \in 1..n - 1 /\ (i - 1) + 1 = i
      BY <1>1, <2>2
    <3>2. Tail(q)[i - 1] = q[i]
      BY <1>1, <3>1
    <3> QED BY <1>1, <3>1, <3>2 DEF ToSet
  <2> QED BY <2>1, <2>2
<1>3. {Head(q)} \cup ToSet(Tail(q)) \subseteq ToSet(q)
  <2>1. 1 \in 1..n /\ \A i \in 1..n - 1 : i + 1 \in 1..n
    BY <1>1
  <2> QED BY <1>1, <2>1 DEF ToSet
<1> QED BY <1>2, <1>3

\* What leaves the front of the queue and what stays are all it held.
LEMMA CutKeepsAll ==
    ASSUME NEW q \in Seq(Candle), NEW n \in 0..Len(q)
    PROVE  ToSet(q) \subseteq ToSet(SubSeq(q, 1, n)) \cup ToSet(SubSeq(q, n + 1, Len(q)))
<1> DEFINE m == Len(q)
           b == SubSeq(q, 1, n)
           r == SubSeq(q, n + 1, m)
<1>1. m \in Nat /\ n \in Nat /\ n <= m /\ DOMAIN q = 1..m /\ \A i \in 1..m : q[i] \in Candle
  OBVIOUS
<1>2. DOMAIN b = 1..n /\ \A i \in 1..n : b[i] = q[i]
  <2>1. \A i \in 1..n : q[i] \in Candle
    BY <1>1
  <2>2. /\ b \in Seq(Candle) /\ Len(b) = IF 1 <= n THEN n - 1 + 1 ELSE 0
        /\ \A i \in 1..n - 1 + 1 : b[i] = q[1 + i - 1]
    BY <1>1, <2>1, SubSeqProperties
  <2> HIDE DEF b
  <2>3. Len(b) = n /\ DOMAIN b = 1..Len(b)
    BY <1>1, <2>2
  <2> QED BY <1>1, <2>2, <2>3
<1>3. DOMAIN r = 1..m - n /\ \A i \in 1..m - n : r[i] = q[i + n]
  <2>1. \A i \in n + 1..m : q[i] \in Candle
    BY <1>1
  <2>2. /\ r \in Seq(Candle)
        /\ Len(r) = IF n + 1 <= m THEN m - (n + 1) + 1 ELSE 0
        /\ \A i \in 1..m - (n + 1) + 1 : r[i] = q[n + 1 + i - 1]
    BY <1>1, <2>1, SubSeqProperties
  <2> HIDE DEF r, m
  <2>3. Len(r) = m - n /\ DOMAIN r = 1..Len(r)
    BY <1>1, <2>2
  <2>4. \A i \in 1..m - n : n + 1 + i - 1 = i + n /\ i \in 1..m - (n + 1) + 1
    BY <1>1
  <2> QED BY <2>2, <2>3, <2>4
<1> HIDE DEF b, r
<1>4. ASSUME NEW i \in 1..m PROVE q[i] \in ToSet(b) \cup ToSet(r)
  <2>1. CASE i <= n
    BY <1>1, <1>2, <2>1 DEF ToSet
  <2>2. CASE ~(i <= n)
    <3>1. i - n \in 1..m - n /\ (i - n) + n = i
      BY <1>1, <2>2
    <3>2. r[i - n] = q[i]
      BY <1>3, <3>1
    <3> QED BY <1>3, <3>1, <3>2 DEF ToSet
  <2> QED BY <2>1, <2>2
<1> QED BY <1>1, <1>4 DEF ToSet, b, r

\* The sequence of a finite set has all its elements.
LEMMA SetToSeqHasAll ==
    ASSUME NEW S, IsFiniteSet(S)
    PROVE  S \subseteq ToSet(SetToSeq(S))
<1> DEFINE n == Cardinality(S)
           f == SetToSeq(S)
<1>1. n \in Nat /\ ExistsBijection(1..n, S)
  BY FS_CardinalityType
<1>2. \E g \in [1..n -> S] : IsInjective(g)
  BY <1>1 DEF ExistsBijection, Bijection, Injection
<1>3. f \in [1..n -> S] /\ IsInjective(f)
  BY <1>2 DEF SetToSeq
<1>4. Cardinality(1..n) = n
  BY <1>1, FS_Interval
<1> HIDE DEF f, n
<1>5. f \in Injection(1..n, S)
  BY <1>3 DEF Injection
<1>6. f \in Surjection(1..n, S)
  BY <1>4, <1>5, FS_Injection DEF n
<1>7. S \subseteq ToSet(f)
  BY <1>3, <1>6 DEF Surjection, ToSet
<1> QED BY <1>7 DEF f

\* Every candle of a batch is in a group or its symbol is not active.
LEMMA GroupsHaveAll ==
    ASSUME NEW batch \in Seq(Candle), NEW active, NEW e \in ToSet(batch), e[1] \in active
    PROVE  e \in UNION ToSet(GroupsOf(batch, active))
<1> DEFINE symbols == {x[1] : x \in ToSet(batch)} \cap active
           G(s) == {x \in ToSet(batch) : x[1] = s}
           T == {G(s) : s \in symbols}
<1>1. IsFiniteSet(T)
  BY BatchIsGrouped
<1>2. T \subseteq ToSet(SetToSeq(T))
  BY <1>1, SetToSeqHasAll
<1>3. G(e[1]) \in T /\ e \in G(e[1])
  OBVIOUS
<1>4. GroupsOf(batch, active) = SetToSeq(T)
  BY DEF GroupsOf
<1> HIDE DEF T, G
<1> QED BY <1>2, <1>3, <1>4

\* What a batch holds at each stage of its flush.
Staged(f) ==
    /\ f.pc = "idle" => f.batch = <<>> /\ f.groups = <<>>
    /\ f.pc = "resolve" => f.groups = <<>>
    /\ f.pc \in {"group", "commit"} => f.batch = <<>>

\* How far the stop has come: the stream and the flusher end before the queue is
\* drained, and only the drained runtime is stopped.
Stopping ==
    /\ stop.pc \in {"flusher", "drain", "finished"} => st.pc = "done" /\ ~running
    /\ stop.pc \in {"drain", "finished"} => ~flusher
    /\ ~flusher /\ stop.pc # "drain" => flush.pc = "idle"
    /\ stop.pc = "finished" => queue = <<>>
    /\ rt # "FENCED" /\ ~stop.fenced
    /\ rt = "STOPPED" => stop.pc = "finished"

\* Unless something was forfeited, the candles are accounted for.
Accounted ==
    forfeit \/ (Staged(flush) /\ Stopping /\ accepted \subseteq settled \cup InFlight)

\* The invariant is what the property needs.
LEMMA AccountedIsEnough == Accounted => NothingIsDropped
<1> SUFFICES ASSUME Accounted, ~forfeit PROVE NothingIsDropped
  BY DEF NothingIsDropped
<1>1. Staged(flush) /\ Stopping /\ accepted \subseteq settled \cup InFlight
  BY DEF Accounted
<1>2. ASSUME stop.pc = "finished" PROVE InFlight = {}
  <2>1. queue = <<>> /\ flush.batch = <<>> /\ flush.groups = <<>>
    BY <1>1, <1>2 DEF Staged, Stopping
  <2> QED BY <2>1 DEF InFlight, ToSet
<1> QED BY <1>1, <1>2 DEF NothingIsDropped

\* The parts of the invariants that the steps use.
LEMMA AccountedParts ==
    ASSUME PipelineInv, Accounted, ~forfeit
    PROVE  /\ Staged(flush) /\ Stopping /\ accepted \subseteq settled \cup InFlight
           /\ flush \in Flushes /\ queue \in Seq(Candle) /\ stop \in Stops
           /\ flush.batch \in Seq(Candle) /\ flush.groups \in Seq(SUBSET Candle)
           /\ flush.pc = "commit" => flush.groups # <<>>
           /\ ConnTypeOK
           /\ st.pc = "put" => held \in Candle
BY DEF PipelineInv, Accounted, QueueTypes, RuntimeTypes, WaitingFits, ConnInv, Flushes

\* The client's own steps and those of the registry.
LEMMA QuietAccounted ==
    ASSUME Accounted, ~forfeit, UNCHANGED <<pipeVars, rtVars, histVars>>,
           st' = st \/ st.pc # "done"
    PROVE  Accounted'
<1>1. Staged(flush) /\ Stopping /\ accepted \subseteq settled \cup InFlight
  BY DEF Accounted
<1>2. Staged(flush)' /\ Stopping'
  BY <1>1 DEF Staged, Stopping, pipeVars, rtVars
<1>3. InFlight' = InFlight /\ settled' = settled /\ accepted' = accepted
  BY DEF InFlight, pipeVars, histVars
<1> QED BY <1>1, <1>2, <1>3 DEF Accounted

\* A candle arrives, or the wait for room ends: it enters the queue or not.
LEMMA ArrivalAccounted ==
    ASSUME PipelineInv, Accounted, ~forfeit, st.pc # "done", NEW e \in Candle,
           Enqueue(e) \/ UNCHANGED <<queue, accepted>>,
           UNCHANGED <<running, flusher, flush, rt, stop, settled, forfeit>>
    PROVE  Accounted'
<1>1. Staged(flush) /\ Stopping /\ accepted \subseteq settled \cup InFlight /\ queue \in Seq(Candle)
      /\ stop \in Stops
  BY AccountedParts
<1>2. stop.pc \notin {"flusher", "drain", "finished"}
  BY <1>1 DEF Stopping
<1>3. Staged(flush)' /\ Stopping'
  BY <1>1, <1>2 DEF Staged, Stopping
<1>4. CASE Enqueue(e)
  <2>1. queue' = Append(queue, e) /\ accepted' = accepted \cup {e}
    BY <1>4 DEF Enqueue
  <2>2. ToSet(queue') = ToSet(queue) \cup {e}
    BY <1>1, <2>1, AppendElements
  <2>3. InFlight' = InFlight \cup {e}
    BY <2>2 DEF InFlight, ToSet
  <2> QED BY <1>1, <1>3, <2>1, <2>3 DEF Accounted
<1>5. CASE UNCHANGED <<queue, accepted>>
  <2>1. InFlight' = InFlight
    BY <1>5 DEF InFlight
  <2> QED BY <1>1, <1>3, <1>5, <2>1 DEF Accounted
<1> QED BY <1>4, <1>5

\* A fence forfeits what it drops.
LEMMA FatalForfeits ==
    ASSUME PipelineInv, Accounted, ~forfeit, FatalError
    PROVE  forfeit'
<1>1. rt # "FENCED"
  BY AccountedParts DEF Stopping
<1> QED BY <1>1 DEF FatalError, Fence

\* The steps of a batch: taken from the queue, resolved, grouped and committed.
LEMMA BatchAccounted ==
    ASSUME PipelineInv, Accounted, ~forfeit, FlushStep \/ CommitFails \/ CommitFenced
    PROVE  Accounted'
<1> USE AccountedParts
<1>p. /\ Staged(flush) /\ Stopping /\ accepted \subseteq settled \cup InFlight
      /\ flush \in Flushes /\ queue \in Seq(Candle)
      /\ flush.batch \in Seq(Candle) /\ flush.groups \in Seq(SUBSET Candle)
  OBVIOUS
<1>0. NoFlush.pc = "idle" /\ NoFlush.batch = <<>> /\ NoFlush.groups = <<>> /\ ToSet(<<>>) = {}
  BY DEF NoFlush, ToSet
<1>1. CASE FlushBegins
  <2> DEFINE m == Len(queue)
             n == IF m < BatchSize THEN m ELSE BatchSize
             b == SubSeq(queue, 1, n)
  <2>1. /\ flush.pc = "idle" /\ Drain /\ ((flusher /\ running) \/ stop.pc = "drain")
        /\ UNCHANGED <<connVars, running, flusher, rtVars, histVars>>
    BY <1>1 DEF FlushBegins
  <2>2. rt = "RUNNING"
    BY <1>p, <2>1 DEF Stopping, PipelineInv, RuntimeTypes
  <2>3. queue' = SubSeq(queue, n + 1, m) /\ flush' = [NoFlush EXCEPT !.pc = "resolve", !.batch = b]
    BY <2>1, <2>2 DEF Drain
  <2>4. n \in 0..m
    BY <1>p, PipelineAssumption
  <2> HIDE DEF n
  <2>5. ToSet(queue) \subseteq ToSet(b) \cup ToSet(queue')
    BY <1>p, <2>3, <2>4, CutKeepsAll
  <2>6. flush'.pc = "resolve" /\ flush'.batch = b /\ flush'.groups = <<>>
    <3> HIDE DEF b
    <3> QED BY <2>3 DEF NoFlush
  <2> HIDE DEF b
  <2>7. InFlight = ToSet(queue)
    BY <1>p, <1>0, <2>1 DEF InFlight, Staged
  <2>8. InFlight' = ToSet(queue') \cup ToSet(b)
    BY <1>0, <2>6 DEF InFlight
  <2>9. Staged(flush)' /\ Stopping'
    BY <1>p, <2>1, <2>6 DEF Staged, Stopping, connVars, rtVars
  <2>10. accepted' \subseteq settled' \cup InFlight'
    BY <1>p, <2>1, <2>5, <2>7, <2>8 DEF histVars
  <2> QED BY <2>9, <2>10 DEF Accounted
<1>2. CASE FlusherEnds
  <2>1. /\ flush.pc = "idle" /\ flusher' = FALSE
        /\ UNCHANGED <<connVars, queue, flush, running, rtVars, histVars>>
    BY <1>2 DEF FlusherEnds
  <2>2. Staged(flush)' /\ Stopping' /\ InFlight' = InFlight
    BY <1>p, <2>1 DEF Staged, Stopping, InFlight, connVars, rtVars
  <2> QED BY <1>p, <2>1, <2>2 DEF Accounted, histVars
<1>3. CASE ResolveSymbols
  <2>1. CASE FatalError
    BY <2>1, FatalForfeits DEF Accounted
  <2>2. CASE ~FatalError
    <3> DEFINE active == IF fresh THEN cache ELSE registry
    <3>1. /\ flush.pc = "resolve"
          /\ flush' = [pc |-> "group", batch |-> <<>>, groups |-> GroupsOf(flush.batch, active)]
          /\ settled' = settled \cup {e \in ToSet(flush.batch) : e[1] \notin active}
          /\ UNCHANGED <<connVars, queue, running, flusher, rtVars, accepted, forfeit>>
      BY <1>3, <2>2 DEF ResolveSymbols
    <3> HIDE DEF active
    <3>2. InFlight = ToSet(queue) \cup ToSet(flush.batch)
      BY <1>p, <1>0, <3>1 DEF InFlight, Staged
    <3>3. InFlight' = ToSet(queue) \cup UNION ToSet(GroupsOf(flush.batch, active))
      BY <1>0, <3>1 DEF InFlight
    <3>4. \A e \in ToSet(flush.batch) : e[1] \in active => e \in InFlight'
      BY <1>p, <3>3, GroupsHaveAll
    <3>5. accepted' \subseteq settled' \cup InFlight'
      BY <1>p, <3>1, <3>2, <3>3, <3>4
    <3>6. Staged(flush)' /\ Stopping'
      BY <1>p, <3>1 DEF Staged, Stopping, connVars, rtVars
    <3> QED BY <3>5, <3>6 DEF Accounted
  <2> QED BY <2>1, <2>2
<1>4. CASE NextGroup
  <2>1. /\ flush.pc = "group"
        /\ flush' = IF flush.groups = <<>> \/ rt # "RUNNING" THEN NoFlush
                    ELSE [flush EXCEPT !.pc = "commit"]
        /\ UNCHANGED <<connVars, queue, running, flusher, rtVars, histVars>>
    BY <1>4 DEF NextGroup
  <2>2. rt = "RUNNING"
    BY <1>p, <2>1 DEF Stopping, PipelineInv, RuntimeTypes
  <2>3. flush.batch = <<>>
    BY <1>p, <2>1 DEF Staged
  <2>4. CASE flush.groups = <<>>
    <3>1. flush' = NoFlush
      BY <2>1, <2>4
    <3>2. InFlight' = InFlight
      BY <1>0, <2>1, <2>3, <2>4, <3>1 DEF InFlight
    <3>3. Staged(flush)' /\ Stopping'
      BY <1>p, <1>0, <2>1, <3>1 DEF Staged, Stopping, connVars, rtVars
    <3> QED BY <1>p, <2>1, <3>2, <3>3 DEF Accounted, histVars
  <2>5. CASE flush.groups # <<>>
    <3>1. flush'.pc = "commit" /\ flush'.batch = <<>> /\ flush'.groups = flush.groups
      BY <1>p, <2>1, <2>2, <2>3, <2>5 DEF Flushes
    <3>2. InFlight' = InFlight
      BY <2>1, <2>3, <3>1 DEF InFlight
    <3>3. Staged(flush)' /\ Stopping'
      BY <1>p, <2>1, <3>1 DEF Staged, Stopping, connVars, rtVars
    <3> QED BY <1>p, <2>1, <3>2, <3>3 DEF Accounted, histVars
  <2> QED BY <2>4, <2>5
<1>5. CASE CommitSucceeds \/ CommitFails
  <2>1. /\ flush.pc = "commit" /\ settled' = settled \cup Head(flush.groups)
        /\ flush' = [flush EXCEPT !.pc = "group", !.groups = Tail(@)]
        /\ UNCHANGED <<st, queue, running, flusher, rtVars, accepted, forfeit>>
    BY <1>5 DEF CommitSucceeds, CommitFails, connVars
  <2>2. flush.groups # <<>> /\ flush.batch = <<>>
    BY <1>p, <2>1 DEF Staged
  <2>3. flush'.pc = "group" /\ flush'.batch = <<>> /\ flush'.groups = Tail(flush.groups)
    BY <1>p, <2>1, <2>2 DEF Flushes
  <2>4. ToSet(flush.groups) = {Head(flush.groups)} \cup ToSet(Tail(flush.groups))
    BY <1>p, <2>2, HeadElements
  <2>5. InFlight = InFlight' \cup Head(flush.groups)
    BY <2>1, <2>2, <2>3, <2>4 DEF InFlight
  <2>6. accepted' \subseteq settled' \cup InFlight'
    BY <1>p, <2>1, <2>5
  <2>7. Staged(flush)' /\ Stopping'
    BY <1>p, <2>1, <2>3 DEF Staged, Stopping, rtVars
  <2> QED BY <2>6, <2>7 DEF Accounted
<1>6. CASE CommitFenced
  BY <1>6, FatalForfeits DEF CommitFenced, Accounted
<1> QED BY <1>1, <1>2, <1>3, <1>4, <1>5, <1>6 DEF FlushStep

\* The runtime is fenced or stopped.
LEMMA StopAccounted ==
    ASSUME PipelineInv, Accounted, ~forfeit, HeartbeatFences \/ StopBegins \/ StopStep
    PROVE  Accounted'
<1> USE AccountedParts
<1>p. /\ Staged(flush) /\ Stopping /\ accepted \subseteq settled \cup InFlight /\ stop \in Stops
  OBVIOUS
<1>same. ASSUME UNCHANGED <<queue, flush, settled, accepted>>, Stopping' PROVE Accounted'
  BY <1>p, <1>same DEF Accounted, Staged, InFlight
<1>1. CASE HeartbeatFences
  BY <1>1 DEF HeartbeatFences, Fence, Accounted
<1>2. CASE StopBegins
  <2>1. /\ stop.pc = "no" /\ UNCHANGED <<queue, flusher, flush, rt, accepted, settled, forfeit>>
        /\ stop' = [pc |-> IF cur = None THEN "flusher" ELSE "closing",
                    fenced |-> rt = "FENCED", closing |-> cur]
        /\ rt # "STOPPED"
        /\ cur = None => st' = At("done") /\ running' = FALSE
    BY <1>2 DEF StopBegins, StreamCancelled, histVars
  <2>2. stop'.pc = (IF cur = None THEN "flusher" ELSE "closing") /\ ~stop'.fenced
    BY <1>p, <2>1 DEF Stopping
  <2>3. Stopping'
    BY <1>p, <2>1, <2>2 DEF Stopping, At
  <2> QED BY <1>same, <2>1, <2>3
<1>3. CASE StopCloses
  <2>1. /\ stop.pc = "closing" /\ st' = At("done") /\ running' = FALSE
        /\ stop' = [stop EXCEPT !.pc = "flusher"]
        /\ UNCHANGED <<queue, flusher, flush, rt, accepted, settled, forfeit>>
    BY <1>3 DEF StopCloses, StreamCancelled, histVars
  <2>2. stop'.pc = "flusher" /\ stop'.fenced = stop.fenced
    BY <1>p, <2>1 DEF Stops
  <2>3. Stopping'
    BY <1>p, <2>1, <2>2 DEF Stopping, At
  <2> QED BY <1>same, <2>1, <2>3
<1>4. CASE StopJoins
  <2>1. CASE forfeit'
    BY <2>1 DEF Accounted
  <2>2. CASE ~forfeit'
    <3>1. /\ stop.pc = "flusher" /\ ~flusher /\ flusher' = FALSE
          /\ stop' = [stop EXCEPT !.pc = IF stop.fenced THEN "finished" ELSE "drain"]
          /\ UNCHANGED <<st, queue, running, flush, rt, accepted, settled, forfeit>>
      BY <1>4, <2>2 DEF StopJoins
    <3>2. stop'.pc = "drain" /\ stop'.fenced = stop.fenced
      BY <1>p, <3>1 DEF Stopping, Stops
    <3>3. Stopping'
      BY <1>p, <3>1, <3>2 DEF Stopping
    <3> QED BY <1>same, <3>1, <3>3
  <2> QED BY <2>1, <2>2
<1>5. CASE StopEnds
  <2>1. /\ stop.pc = "drain" /\ flush.pc = "idle" /\ queue = <<>>
        /\ stop' = [stop EXCEPT !.pc = "finished"] /\ rt' = "STOPPED"
        /\ UNCHANGED <<st, queue, running, flusher, flush, accepted, settled, forfeit>>
    BY <1>5 DEF StopEnds, connVars, pipeVars, histVars
  <2>2. stop'.pc = "finished" /\ stop'.fenced = stop.fenced
    BY <1>p, <2>1 DEF Stops
  <2>3. Stopping'
    BY <1>p, <2>1, <2>2 DEF Stopping
  <2> QED BY <1>same, <2>1, <2>3
<1> QED BY <1>1, <1>2, <1>3, <1>4, <1>5 DEF StopStep

\* What is forfeited stays so.
LEMMA ForfeitStays == forfeit /\ [Next]_vars => forfeit'
BY DEF Next, Connector, RecvCandle, PutEnds, FlushStep, FlushBegins, FlusherEnds,
       ResolveSymbols, NextGroup, CommitSucceeds, CommitFails, CommitFenced, FatalError,
       Fence, HeartbeatFences, StopBegins, StopStep, StopCloses, StopJoins, StopEnds,
       Deactivate, CacheExpires, vars, histVars

\* Every step keeps the candles accounted for.
LEMMA AccountedStep == PipelineInv /\ Accounted /\ [Next]_vars => Accounted'
<1> SUFFICES ASSUME PipelineInv, Accounted, [Next]_vars PROVE Accounted'
  OBVIOUS
<1>1. CASE forfeit
  BY <1>1, ForfeitStays DEF Accounted
<1>2. CASE ~forfeit
  <2>p. ConnTypeOK /\ (st.pc = "put" => held \in Candle)
    BY <1>2, AccountedParts
  <2>1. CASE Connector
    <3>1. ConnNext /\ UNCHANGED <<pipeVars, rtVars, histVars>>
      BY <2>1 DEF Connector
    <3>2. st' = st \/ st.pc # "done"
      BY <2>p, <3>1, ConnectorLeaves
    <3> QED BY <1>2, <3>1, <3>2, QuietAccounted
  <2>2. ASSUME NEW e \in Candle, RecvCandle(e) PROVE Accounted'
    <3>1. /\ st.pc # "done" /\ (Enqueue(e) \/ UNCHANGED <<queue, accepted>>)
          /\ UNCHANGED <<running, flusher, flush, rt, stop, settled, forfeit>>
      BY <2>2 DEF RecvCandle, rtVars
    <3> QED BY <1>2, <3>1, ArrivalAccounted
  <2>3. CASE PutEnds
    <3>1. /\ st.pc = "put" /\ (Enqueue(held) \/ UNCHANGED <<queue, accepted>>)
          /\ UNCHANGED <<running, flusher, flush, rt, stop, settled, forfeit>>
      BY <2>3 DEF PutEnds, rtVars
    <3> QED BY <1>2, <2>p, <3>1, ArrivalAccounted
  <2>4. CASE FlushStep \/ CommitFails \/ CommitFenced
    BY <1>2, <2>4, BatchAccounted
  <2>5. CASE HeartbeatFences \/ StopBegins \/ StopStep
    BY <1>2, <2>5, StopAccounted
  <2>6. CASE \/ \E s \in Delisted : Deactivate(s)
             \/ CacheExpires
             \/ UNCHANGED vars
    <3>1. UNCHANGED <<pipeVars, rtVars, histVars>> /\ st' = st
      BY <2>6 DEF Deactivate, CacheExpires, vars, connVars
    <3> QED BY <1>2, <3>1, QuietAccounted
  <2> QED BY <2>1, <2>2, <2>3, <2>4, <2>5, <2>6 DEF Next
<1> QED BY <1>1, <1>2

\* Nothing is accepted at the start.
LEMMA AccountedInit == Init => Accounted
BY DEF Init, Accounted, Staged, Stopping, NoFlush

\* A candle that entered the queue is settled or on its way unless the shard was
\* lost or a flush cut off, and a stop that finished has settled them all, for
\* every queue, batch size, number of symbols and failures.
THEOREM NothingDropped == Spec => []NothingIsDropped
<1>1. PipelineInv /\ Accounted /\ [Next]_vars => (PipelineInv /\ Accounted)'
  BY PipelineStep, AccountedStep
<1> QED BY <1>1, PipelineInit, AccountedInit, AccountedIsEnough, PTL DEF Spec
=============================================================================
