---------------------------- MODULE StoreProofs -----------------------------
(***************************************************************************)
(* Proofs about the canonical candle store, for any number of minutes, any *)
(* hot window, any values the WebSocket carries and any number of          *)
(* revisions and deletions.                                                *)
(***************************************************************************)
EXTENDS CandleStore, FiniteSetTheorems, SequenceTheorems, TLAPS

(* Numbers *)

\* A non-empty set of naturals has a least element.
LEMMA LeastNumber ==
    ASSUME NEW S, S \subseteq Nat, S # {}
    PROVE  \E x \in S : \A y \in S : x <= y
<1> DEFINE Less == {ss \in Nat \X Nat : ss[1] < ss[2]}
<1>1. IsWellFoundedOn(Less, Nat)
  BY NatLessThanWellFounded DEF OpToRel
<1>2. \A p, q \in Nat : p < q => <<p, q>> \in Less
  OBVIOUS
<1> HIDE DEF Less
<1>3. PICK x \in S : \A y \in S : ~(<<y, x>> \in Less)
  BY <1>1, WFMin
<1>4. \A y \in S : x <= y
  <2> TAKE y \in S
  <2>1. x \in Nat /\ y \in Nat
    OBVIOUS
  <2>2. ~(y < x)
    BY <1>2, <1>3, <2>1, Zenon
  <2> QED BY <2>1, <2>2
<1> QED BY <1>4

\* A set of numbers that holds 0 and the successor of each of its elements
\* below n holds every number up to n: induction on the set.
LEMMA Reaches ==
    ASSUME NEW n \in Nat, NEW S, 0 \in S, \A k \in 1..n : k - 1 \in S => k \in S
    PROVE  0..n \subseteq S
<1> SUFFICES ASSUME (0..n) \ S # {} PROVE FALSE
  OBVIOUS
<1>1. PICK k \in (0..n) \ S : \A y \in (0..n) \ S : k <= y
  <2> DEFINE B == (0..n) \ S
  <2>1. B \subseteq Nat /\ B # {}
    OBVIOUS
  <2> HIDE DEF B
  <2>2. \E x \in B : \A y \in B : x <= y
    BY <2>1, LeastNumber
  <2> QED BY <2>2 DEF B
<1>2. k \in 1..n /\ k - 1 \in 0..n
  BY <1>1
<1>3. k - 1 \in S
  BY <1>1, <1>2
<1> QED BY <1>1, <1>2, <1>3

\* A non-empty set of naturals up to n has a least and a greatest element.
LEMMA MinMax ==
    ASSUME NEW n \in Nat, NEW S, S \subseteq 0..n, S # {}
    PROVE  /\ Min(S) \in S /\ \A y \in S : Min(S) <= y
           /\ Max(S) \in S /\ \A y \in S : y <= Max(S)
<1>0. \A y \in S : y \in Nat /\ n - y \in Nat
  OBVIOUS
<1>1. \E x \in S : \A y \in S : x <= y
  BY <1>0, LeastNumber
<1>2. \E x \in S : \A y \in S : x >= y
  <2> DEFINE B == {n - y : y \in S}
  <2>1. B \subseteq Nat /\ B # {}
    BY <1>0
  <2>2. \A y \in S : n - y \in B
    OBVIOUS
  <2>3. \A x \in B : \E y \in S : x = n - y
    OBVIOUS
  <2> HIDE DEF B
  <2>4. PICK b \in B : \A y \in B : b <= y
    BY <2>1, LeastNumber
  <2>5. PICK x \in S : b = n - x
    BY <2>3
  <2>6. ASSUME NEW y \in S PROVE x >= y
    <3>1. n - x <= n - y
      BY <2>2, <2>4, <2>5
    <3> QED BY <1>0, <3>1
  <2> QED BY <2>6
<1>3. Min(S) \in S /\ \A y \in S : Min(S) <= y
  BY <1>1 DEF Min
<1>4. Max(S) \in S /\ \A y \in S : Max(S) >= y
  BY <1>2 DEF Max
<1>5. \A y \in S : Max(S) >= y => y <= Max(S)
  BY <1>4
<1> QED BY <1>3, <1>4, <1>5
-----------------------------------------------------------------------------
(* Loops over intervals *)

\* f has the values of a loop from start on, where step gives what an item does.
Loop(f, n, start, step) == f[0] = start /\ \A k \in 1..n : f[k] = step[k][f[k - 1]]

\* A loop that takes St to St with every item has its values: the recursive
\* function that describes it exists.
LEMMA LoopExists ==
    ASSUME NEW n \in Nat, NEW St, NEW start \in St, NEW step \in [1..n -> [St -> St]]
    PROVE  \E f \in [0..n -> St] : Loop(f, n, start, step)
<1> DEFINE Runs(f, m) == f[0] = start /\ \A k \in 1..m : f[k] = step[k][f[k - 1]]
           T == {m \in 0..n : \E f \in [0..m -> St] : Runs(f, m)}
<1>1. 0 \in T
  <2> DEFINE f == [k \in 0..0 |-> start]
  <2>1. f \in [0..0 -> St] /\ Runs(f, 0)
    OBVIOUS
  <2> HIDE DEF f, Runs
  <2> QED BY <2>1
<1>2. \A k \in 1..n : k - 1 \in T => k \in T
  <2> TAKE k \in 1..n
  <2> HAVE k - 1 \in T
  <2>1. PICK f \in [0..k - 1 -> St] : Runs(f, k - 1)
    OBVIOUS
  <2> DEFINE g == [j \in 0..k |-> IF j = k THEN step[k][f[k - 1]] ELSE f[j]]
  <2>2. k - 1 \in 0..k - 1 /\ k \in 0..k /\ k - 1 # k
    OBVIOUS
  <2>3. /\ g[k] = step[k][f[k - 1]] /\ g[k] \in St
        /\ \A j \in 0..k - 1 : g[j] = f[j] /\ g[j] \in St
    BY <2>1, <2>2
  <2>4. \A j \in 0..k : j = k \/ j \in 0..k - 1
    OBVIOUS
  <2>5. g \in [0..k -> St]
    BY <2>3, <2>4
  <2> HIDE DEF g
  <2>6. ASSUME NEW j \in 1..k PROVE g[j] = step[j][g[j - 1]]
    <3>1. CASE j = k
      BY <2>2, <2>3, <3>1
    <3>2. CASE j # k
      <4>1. j \in 1..k - 1 /\ j \in 0..k - 1 /\ j - 1 \in 0..k - 1
        BY <3>2
      <4> QED BY <2>1, <2>3, <4>1
    <3> QED BY <3>1, <3>2
  <2>7. Runs(g, k)
    <3>1. g[0] = start
      <4>1. 0 \in 0..k - 1
        OBVIOUS
      <4> QED BY <2>1, <2>3, <4>1
    <3> QED BY <2>6, <3>1
  <2> HIDE DEF Runs
  <2> QED BY <2>5, <2>7
<1>3. \E f \in [0..n -> St] : Runs(f, n)
  <2> HIDE DEF T
  <2>1. 0..n \subseteq T
    BY <1>1, <1>2, Reaches
  <2>2. n \in T
    BY <2>1
  <2> HIDE DEF Runs
  <2> QED BY <2>2 DEF T
<1> QED BY <1>3 DEF Loop

\* What every item keeps holds of the values of a loop.
LEMMA LoopKeeps ==
    ASSUME NEW n \in Nat, NEW St, NEW g, g[0] \in St,
           \A k \in 1..n : g[k - 1] \in St => g[k] \in St
    PROVE  \A k \in 0..n : g[k] \in St
<1> DEFINE U == {k \in 0..n : g[k] \in St}
<1>1. 0 \in U
  OBVIOUS
<1>2. \A k \in 1..n : k - 1 \in U => k \in U
  OBVIOUS
<1> HIDE DEF U
<1>3. 0..n \subseteq U
  BY <1>1, <1>2, Reaches
<1> QED BY <1>3 DEF U

\* A bounded set of intervals can be sorted.
LEMMA CanBeSorted ==
    ASSUME NEW N \in Nat, NEW B, B \subseteq (0..N) \X (0..N)
    PROVE  /\ IsFiniteSet(B) /\ Cardinality(B) \in Nat
           /\ ByStart(B) \in [1..Cardinality(B) -> B] /\ Sorted(ByStart(B))
           /\ Len(ByStart(B)) = Cardinality(B)
<1> DEFINE Has(C, k) == \E s \in [1..k -> C] : Sorted(s)
           n == Cardinality(B)
           T == {k \in 0..n : \A C \in SUBSET B : Cardinality(C) = k => Has(C, k)}
<1>1. IsFiniteSet(B) /\ n \in Nat
  <2>1. IsFiniteSet(0..N)
    BY FS_Interval
  <2>2. IsFiniteSet((0..N) \X (0..N))
    BY <2>1, FS_Product
  <2>3. B \in SUBSET ((0..N) \X (0..N))
    OBVIOUS
  <2> QED BY <2>2, <2>3, FS_Subset, FS_CardinalityType
<1> HIDE DEF n
<1>2. 0 \in T
  <2> SUFFICES ASSUME NEW C PROVE Has(C, 0)
    BY <1>1
  <2> DEFINE s == [i \in 1..0 |-> CHOOSE x \in C : TRUE]
  <2>1. s \in [1..0 -> C] /\ Sorted(s)
    BY DEF Sorted
  <2> HIDE DEF s
  <2> QED BY <2>1
<1>3. \A k \in 1..n : k - 1 \in T => k \in T
  <2> TAKE k \in 1..n
  <2> HAVE k - 1 \in T
  <2> SUFFICES ASSUME NEW C \in SUBSET B, Cardinality(C) = k PROVE Has(C, k)
    BY <1>1
  <2>1. IsFiniteSet(C)
    BY <1>1, FS_Subset
  <2>2. C # {}
    <3> SUFFICES ASSUME C = {} PROVE FALSE
      OBVIOUS
    <3>1. k = 0
      BY FS_EmptySet, Zenon
    <3> QED BY <1>1, <3>1
  <2>3. \A c \in C : c[1] \in 0..N /\ c[2] \in 0..N /\ c = <<c[1], c[2]>>
    OBVIOUS
  <2>4. PICK p \in C : \A c \in C : c[1] <= p[1]
    <3> DEFINE S == {c[1] : c \in C}
    <3>1. S \subseteq 0..N /\ S # {} /\ \A c \in C : c[1] \in S
      BY <2>2, <2>3
    <3>2. \A x \in S : \E c \in C : x = c[1]
      OBVIOUS
    <3> HIDE DEF S
    <3>3. Max(S) \in S /\ \A y \in S : y <= Max(S)
      BY <3>1, MinMax
    <3> QED BY <3>1, <3>2, <3>3
  <2>5. PICK q \in C : q[1] = p[1] /\ \A c \in C : c[1] = p[1] => c[2] <= q[2]
    <3> DEFINE S == {c[2] : c \in {d \in C : d[1] = p[1]}}
    <3>1. S \subseteq 0..N /\ S # {} /\ \A c \in C : c[1] = p[1] => c[2] \in S
      BY <2>3
    <3>2. \A x \in S : \E c \in C : c[1] = p[1] /\ x = c[2]
      OBVIOUS
    <3> HIDE DEF S
    <3>3. Max(S) \in S /\ \A y \in S : y <= Max(S)
      BY <3>1, MinMax
    <3> QED BY <3>1, <3>2, <3>3
  <2>6. \A c \in C \ {q} : Before(c, q)
    <3> TAKE c \in C \ {q}
    <3>1. /\ c[1] \in Nat /\ c[2] \in Nat /\ q[1] \in Nat /\ q[2] \in Nat
          /\ ~(c[1] = q[1] /\ c[2] = q[2])
      BY <2>3
    <3>2. c[1] <= q[1] /\ (c[1] = q[1] => c[2] <= q[2])
      BY <2>4, <2>5
    <3> QED BY <3>1, <3>2 DEF Before
  <2>7. Cardinality(C \ {q}) = k - 1 /\ C \ {q} \in SUBSET B
    BY <2>1, FS_RemoveElement
  <2>8. PICK s \in [1..k - 1 -> C \ {q}] : Sorted(s)
    BY <2>7
  <2> DEFINE t == [i \in 1..k |-> IF i = k THEN q ELSE s[i]]
  <2>9. /\ \A i \in 1..k : i = k \/ i \in 1..k - 1
        /\ \A i \in 1..k - 1 : i \in 1..k /\ i # k
        /\ k \in 1..k
    BY <1>1
  <2>10. /\ t[k] = q
         /\ \A i \in 1..k - 1 : t[i] = s[i] /\ t[i] \in C \ {q}
    BY <2>8, <2>9
  <2>11. t \in [1..k -> C] /\ DOMAIN t = 1..k
    BY <2>9, <2>10
  <2> HIDE DEF t
  <2>12. Sorted(t)
    <3> SUFFICES ASSUME NEW i \in 1..k, NEW j \in 1..k, i < j PROVE Before(t[i], t[j])
      BY <2>11 DEF Sorted
    <3>1. i \in 1..k - 1
      BY <1>1
    <3>2. CASE j = k
      BY <2>6, <2>10, <3>1, <3>2
    <3>3. CASE j # k
      <4>1. j \in 1..k - 1
        BY <2>9, <3>3
      <4> QED BY <2>8, <2>10, <3>1, <4>1 DEF Sorted
    <3> QED BY <3>2, <3>3
  <2> QED BY <2>11, <2>12
<1>4. Has(B, n)
  <2> HIDE DEF T
  <2>1. n \in T
    BY <1>1, <1>2, <1>3, Reaches
  <2> HIDE DEF Has
  <2> QED BY <2>1 DEF T, n
<1>5. ByStart(B) \in [1..n -> B] /\ Sorted(ByStart(B))
  BY <1>4 DEF ByStart, n
<1>6. Len(ByStart(B)) = n
  BY <1>1, <1>5
<1> QED BY <1>1, <1>5, <1>6 DEF n
-----------------------------------------------------------------------------
(* Coverage *)

\* What holds of the ranges of an asset while rows are its canonical minutes.
RangesInv(R, rows) ==
    /\ R \subseteq Minute \X Minute
    /\ \A r \in R : r[1] <= r[2] /\ r[1]..r[2] \subseteq rows
    /\ \A r, s \in R : r = s \/ r[2] + 1 < s[1] \/ s[2] + 1 < r[1]

\* Counting the rows of a block, with its two ends, proves every minute of it
\* (_raw_block_is_complete).
LEMMA CompleteBlock ==
    ASSUME NEW rows, rows \subseteq Minute, NEW iv \in Minute \X Minute, iv[1] <= iv[2],
           raw_block_is_complete(rows, iv)
    PROVE  iv[1]..iv[2] \subseteq rows
<1> DEFINE lo == iv[1]
           hi == iv[2]
           found == {m \in rows : Within(m, iv)}
<1>1. lo \in Int /\ hi \in Int /\ lo <= hi
  BY StoreAssumption DEF Minute
<1>2. found \subseteq lo..hi
  <2> SUFFICES ASSUME NEW m \in rows, Within(m, iv) PROVE m \in lo..hi
    OBVIOUS
  <2>1. m \in Int /\ lo <= m /\ m <= hi
    BY StoreAssumption DEF Minute, Within
  <2> HIDE DEF lo, hi
  <2> QED BY <1>1, <2>1
<1>3. Cardinality(found) = hi - lo + 1
  BY DEF raw_block_is_complete
<1> HIDE DEF lo, hi, found
<1>4. IsFiniteSet(lo..hi) /\ Cardinality(lo..hi) = IF lo > hi THEN 0 ELSE hi - lo + 1
  BY <1>1, FS_Interval
<1>5. Cardinality(lo..hi) = hi - lo + 1
  BY <1>1, <1>4
<1>6. found = lo..hi
  BY <1>2, <1>3, <1>4, <1>5, FS_Subset
<1> QED BY <1>6 DEF found, lo, hi

\* Merging a proven block with the ranges it touches claims no other minute,
\* and leaves the ranges apart (_merge_verified_sync_ranges).
LEMMA MergeKeeps ==
    ASSUME NEW rows, NEW R, RangesInv(R, rows), NEW iv \in Minute \X Minute,
           iv[1] <= iv[2], iv[1]..iv[2] \subseteq rows
    PROVE  RangesInv(merge_verified_sync_ranges(R, iv), rows)
<1> DEFINE overlaps == {r \in R : r[1] <= iv[2] + 1 /\ r[2] >= iv[1] - 1}
           all == overlaps \cup {iv}
           Starts == {r[1] : r \in all}
           Ends == {r[2] : r \in all}
           lo == Min(Starts)
           hi == Max(Ends)
           new == <<lo, hi>>
<1>1. Horizon \in Nat /\ Minute = 0..Horizon
  BY StoreAssumption DEF Minute
<1>2. \A r \in R : /\ r[1] \in Minute /\ r[2] \in Minute /\ r[1] <= r[2]
                   /\ r[1]..r[2] \subseteq rows
  BY DEF RangesInv
<1>3. iv[1] \in Minute /\ iv[2] \in Minute
  OBVIOUS
<1>4. /\ Starts \subseteq 0..Horizon /\ iv[1] \in Starts
      /\ Ends \subseteq 0..Horizon /\ iv[2] \in Ends
  BY <1>1, <1>2, <1>3
<1>5. /\ \E r \in all : lo = r[1]
      /\ lo <= iv[1] /\ lo \in Minute
  <2> HIDE DEF Starts
  <2>1. lo \in Starts /\ lo <= iv[1]
    BY <1>1, <1>4, MinMax
  <2> HIDE DEF lo
  <2> QED BY <1>1, <1>4, <2>1 DEF Starts
<1>6. /\ \E r \in all : hi = r[2]
      /\ iv[2] <= hi /\ hi \in Minute
  <2> HIDE DEF Ends
  <2>1. hi \in Ends /\ iv[2] <= hi
    BY <1>1, <1>4, MinMax
  <2> HIDE DEF hi
  <2> QED BY <1>1, <1>4, <2>1 DEF Ends
<1>7. merge_verified_sync_ranges(R, iv) = (R \ overlaps) \cup {new}
  BY DEF merge_verified_sync_ranges
<1> HIDE DEF lo, hi, Starts, Ends
<1>8. new \in Minute \X Minute /\ new[1] = lo /\ new[2] = hi /\ lo <= hi
  BY <1>1, <1>3, <1>5, <1>6
<1>9. lo..hi \subseteq rows
  <2> SUFFICES ASSUME NEW m \in lo..hi PROVE m \in rows
    OBVIOUS
  <2>0. m \in Int /\ lo <= m /\ m <= hi
    BY <1>1, <1>5, <1>6
  <2>1. CASE m < iv[1]
    <3>1. PICK r \in all : lo = r[1]
      BY <1>5
    <3>2. r \in R /\ r[2] >= iv[1] - 1
      BY <1>1, <1>3, <2>0, <2>1, <3>1
    <3>3. m \in r[1]..r[2]
      BY <1>1, <1>2, <1>3, <2>0, <2>1, <3>1, <3>2
    <3> QED BY <1>2, <3>2, <3>3
  <2>2. CASE m > iv[2]
    <3>1. PICK r \in all : hi = r[2]
      BY <1>6
    <3>2. r \in R /\ r[1] <= iv[2] + 1
      BY <1>1, <1>3, <2>0, <2>2, <3>1
    <3>3. m \in r[1]..r[2]
      BY <1>1, <1>2, <1>3, <2>0, <2>2, <3>1, <3>2
    <3> QED BY <1>2, <3>2, <3>3
  <2>3. CASE iv[1] <= m /\ m <= iv[2]
    BY <1>1, <1>3, <2>0, <2>3
  <2> QED BY <1>1, <1>3, <2>0, <2>1, <2>2, <2>3
<1>10. ASSUME NEW s \in R \ overlaps PROVE hi + 1 < s[1] \/ s[2] + 1 < lo
  <2>1. /\ s[1] \in Minute /\ s[2] \in Minute /\ s[1] <= s[2]
        /\ s[1] > iv[2] + 1 \/ s[2] < iv[1] - 1
    BY <1>1, <1>2, <1>3
  <2>2. \A r \in overlaps : r[2] + 1 < s[1] \/ s[2] + 1 < r[1]
    BY DEF RangesInv
  <2>3. CASE s[1] > iv[2] + 1
    <3>1. PICK r \in all : hi = r[2]
      BY <1>6
    <3>2. CASE r = iv
      BY <1>1, <1>3, <2>1, <2>3, <3>1, <3>2
    <3>3. CASE r \in overlaps
      <4>1. r[1] \in Minute /\ r[2] \in Minute /\ r[1] <= iv[2] + 1
        BY <1>2, <3>3
      <4>2. r[2] + 1 < s[1] \/ s[2] + 1 < r[1]
        BY <2>2, <3>3
      <4> QED BY <1>1, <1>3, <2>1, <2>3, <3>1, <4>1, <4>2
    <3> QED BY <3>1, <3>2, <3>3
  <2>4. CASE s[2] < iv[1] - 1
    <3>1. PICK r \in all : lo = r[1]
      BY <1>5
    <3>2. CASE r = iv
      BY <1>1, <1>3, <2>1, <2>4, <3>1, <3>2
    <3>3. CASE r \in overlaps
      <4>1. r[1] \in Minute /\ r[2] \in Minute /\ r[2] >= iv[1] - 1
        BY <1>2, <3>3
      <4>2. r[2] + 1 < s[1] \/ s[2] + 1 < r[1]
        BY <2>2, <3>3
      <4> QED BY <1>1, <1>3, <2>1, <2>4, <3>1, <4>1, <4>2
    <3> QED BY <3>1, <3>2, <3>3
  <2> QED BY <2>1, <2>3, <2>4
<1> HIDE DEF overlaps, all, new
<1>11. (R \ overlaps) \cup {new} \subseteq Minute \X Minute
  BY <1>8 DEF RangesInv
<1>12. \A r \in (R \ overlaps) \cup {new} : r[1] <= r[2] /\ r[1]..r[2] \subseteq rows
  BY <1>2, <1>8, <1>9
<1>13. \A r, s \in (R \ overlaps) \cup {new} : r = s \/ r[2] + 1 < s[1] \/ s[2] + 1 < r[1]
  BY <1>8, <1>10 DEF RangesInv
<1> QED BY <1>7, <1>11, <1>12, <1>13 DEF RangesInv

\* Publishing the blocks of a batch keeps the ranges proven and apart
\* (_mark_verified_raw_blocks).
LEMMA MarkKeeps ==
    ASSUME NEW rows, rows \subseteq Minute, NEW R, RangesInv(R, rows),
           NEW S, S \subseteq Minute
    PROVE  RangesInv(mark_verified_raw_blocks(R, rows, S), rows)
<1> DEFINE B == contiguous_blocks(S)
           blocks == ByStart(B)
           n == Len(blocks)
           St == {Q \in SUBSET (Minute \X Minute) : RangesInv(Q, rows)}
           Mark(Q, k) == IF raw_block_is_complete(rows, blocks[k])
                         THEN merge_verified_sync_ranges(Q, blocks[k])
                         ELSE Q
           Def(f) == [k \in 0..n |-> IF k = 0 THEN R ELSE Mark(f[k - 1], k)]
           marked == CHOOSE f : f = Def(f)
           step == [k \in 1..n |-> [Q \in St |-> Mark(Q, k)]]
<1>1. \A iv \in B : iv \in Minute \X Minute /\ iv[1] <= iv[2]
  BY DEF contiguous_blocks
<1>2. n \in Nat /\ blocks \in [1..n -> B]
  <2>1. Horizon \in Nat /\ B \subseteq (0..Horizon) \X (0..Horizon)
    BY <1>1, StoreAssumption DEF Minute
  <2> HIDE DEF B
  <2>2. /\ Cardinality(B) \in Nat /\ ByStart(B) \in [1..Cardinality(B) -> B]
        /\ Len(ByStart(B)) = Cardinality(B)
    BY <2>1, CanBeSorted
  <2> QED BY <2>2
<1>3. mark_verified_raw_blocks(R, rows, S) = marked[n]
  BY DEF mark_verified_raw_blocks
<1> HIDE DEF B, blocks, n
<1>4. ASSUME NEW k \in 1..n, NEW Q \in St PROVE Mark(Q, k) \in St
  <2>1. blocks[k] \in Minute \X Minute /\ blocks[k][1] <= blocks[k][2]
    BY <1>1, <1>2, <1>4
  <2>2. CASE raw_block_is_complete(rows, blocks[k])
    <3>1. blocks[k][1]..blocks[k][2] \subseteq rows
      BY <2>1, <2>2, CompleteBlock
    <3>2. RangesInv(merge_verified_sync_ranges(Q, blocks[k]), rows)
      BY <2>1, <3>1, MergeKeeps
    <3> QED BY <2>2, <3>2 DEF RangesInv
  <2>3. CASE ~raw_block_is_complete(rows, blocks[k])
    BY <2>3
  <2> QED BY <2>2, <2>3
<1>5. R \in St
  BY DEF RangesInv
<1> HIDE DEF Mark, St
<1>6. /\ n \in Nat /\ R \in St /\ step \in [1..n -> [St -> St]]
      /\ \A k \in 1..n : \A Q \in St : step[k][Q] = Mark(Q, k)
  BY <1>2, <1>4, <1>5
<1> HIDE DEF step
<1>7. PICK f \in [0..n -> St] : Loop(f, n, R, step)
  BY <1>6, LoopExists
<1>8. \A k \in 0..n : f[k] = IF k = 0 THEN R ELSE Mark(f[k - 1], k)
  <2> TAKE k \in 0..n
  <2>1. CASE k # 0
    <3>1. k \in 1..n /\ k - 1 \in 0..n
      BY <1>2, <2>1
    <3> QED BY <1>6, <1>7, <2>1, <3>1 DEF Loop
  <2> QED BY <1>7, <2>1 DEF Loop
<1>9. f = [k \in 0..n |-> f[k]]
  OBVIOUS
<1>10. f = Def(f)
  BY <1>8, <1>9
<1>11. marked = Def(marked)
  <2> HIDE DEF Def
  <2> QED BY <1>10
<1> HIDE DEF marked
<1>12. marked[0] = R /\ \A k \in 1..n : marked[k] = Mark(marked[k - 1], k)
  BY <1>2, <1>11
<1>13. \A k \in 1..n : marked[k - 1] \in St => marked[k] \in St
  BY <1>4, <1>12
<1>14. \A k \in 0..n : marked[k] \in St
  BY <1>6, <1>12, <1>13, LoopKeeps
<1>15. marked[n] \in St
  BY <1>2, <1>14
<1> QED BY <1>3, <1>15 DEF St
-----------------------------------------------------------------------------
(* Rows and their ledger *)

\* The ledger of a minute ends at the revision of its row.
LedgerEnds ==
    \A m \in Present(raw) : \A e \in revisions : e.minute = m => e.row.revision <= raw[m].revision

TableTypes ==
    /\ raw \in [Minute -> Row \cup {NoRow}]
    /\ staging \in [Minute -> Row \cup {NoRow}]
    /\ revisions \subseteq [minute : Minute, row : Row]

StoreInv ==
    /\ now \in Minute /\ deletes \in 0..MaxDeletes
    /\ TableTypes
    /\ RangesInv(ranges, Present(raw))
    /\ LedgerRecordsRaw
    /\ LedgerEnds

\* A row that exists is not the absent one.
LEMMA RowsExist == NoRow \notin Row
BY DEF NoRow, Row, Source

\* A new row of a minute continues after every entry of its ledger
\* (enforce_raw_candle_revision).
LEMMA FirstRevision ==
    ASSUME TableTypes, NEW m
    PROVE  /\ first_revision(m) \in Nat /\ first_revision(m) >= 1
           /\ \A e \in revisions : e.minute = m => e.row.revision < first_revision(m)
<1> DEFINE S == {0} \cup {e.row.revision : e \in {x \in revisions : x.minute = m}}
<1>1. MaxRevision \in Nat
  BY StoreAssumption
<1>2. \A e \in revisions : e.row.revision \in 1..MaxRevision
  BY DEF TableTypes, Row
<1>3. S \subseteq 0..MaxRevision /\ S # {}
  BY <1>1, <1>2
<1>4. \A e \in revisions : e.minute = m => e.row.revision \in S
  OBVIOUS
<1>5. first_revision(m) = 1 + Max(S)
  BY DEF first_revision
<1> HIDE DEF S
<1>6. Max(S) \in S /\ \A y \in S : y <= Max(S)
  BY <1>1, <1>3, MinMax
<1> DEFINE top == Max(S)
<1>7. top \in S /\ first_revision(m) = 1 + top /\ \A y \in S : y <= top
  BY <1>5, <1>6
<1> HIDE DEF top
<1>8. top \in Nat
  BY <1>1, <1>3, <1>7
<1> QED BY <1>1, <1>2, <1>4, <1>7, <1>8

\* What an upsert makes of a row: it is created with the revision given, or
\* replaced under the next one, or kept.
LEMMA UpsertedRow ==
    ASSUME NEW old \in Row \cup {NoRow}, NEW source \in Source, NEW value \in Value,
           NEW first \in Nat, first >= 1, upserted(old, source, value, first).revision <= MaxRevision
    PROVE  /\ upserted(old, source, value, first) \in Row
           /\ \/ upserted(old, source, value, first) = old
              \/ /\ old = NoRow
                 /\ upserted(old, source, value, first).revision = first
              \/ /\ old \in Row
                 /\ upserted(old, source, value, first).revision = old.revision + 1
<1>1. MaxRevision \in Nat
  BY StoreAssumption
<1>2. CASE old = NoRow
  <2> DEFINE new == [source |-> source, value |-> value, revision |-> first]
  <2>1. upserted(old, source, value, first) = new
    BY <1>2 DEF upserted
  <2>2. first \in 1..MaxRevision
    BY <1>1, <2>1
  <2>3. new \in Row /\ new.revision = first
    BY <2>2 DEF Row
  <2> QED BY <1>2, <2>1, <2>3
<1>3. CASE old \in Row /\ Accepted(old, source, value)
  <2>1. old # NoRow
    BY <1>3, RowsExist
  <2>2. old.revision \in 1..MaxRevision
    BY <1>3 DEF Row
  <2> QED BY <1>1, <1>3, <2>1, <2>2 DEF upserted, Row
<1>4. CASE old \in Row /\ ~Accepted(old, source, value)
  <2>1. old # NoRow
    BY <1>4, RowsExist
  <2> QED BY <1>4, <2>1 DEF upserted
<1> QED BY <1>2, <1>3, <1>4

\* An accepted upsert ranks no lower than the row it replaces, and one that is
\* not accepted repeats the values or ranks lower (_upsert_raw_candles).
LEMMA UpsertedRanks ==
    ASSUME NEW old \in Row \cup {NoRow}, NEW source \in Source, NEW value \in Value, NEW first
    PROVE  LET new == upserted(old, source, value, first) IN
           /\ old.source = "binance_rest" => new.source = "binance_rest"
           /\ \/ new.value = value
              \/ source_priority(new.source) > source_priority(source)
<1>1. NoRow.source = "none"
  BY DEF NoRow
<1>2. CASE old = NoRow
  BY <1>1, <1>2 DEF upserted
<1>3. CASE old \in Row
  <2>1. old # NoRow /\ old.source \in Source
    BY <1>3, RowsExist DEF Row
  <2> QED BY <2>1 DEF upserted, Accepted, source_priority, Source
<1> QED BY <1>2, <1>3

\* What an upsert of S into the raw table leaves: rows and ledger in step, no row
\* lost, REST rows kept, and each row of S with its new values or higher ones.
RawUpserted(S, source, value) ==
    /\ raw' \in [Minute -> Row \cup {NoRow}]
    /\ revisions' \subseteq [minute : Minute, row : Row]
    /\ Present(raw) \subseteq Present(raw')
    /\ LedgerRecordsRaw' /\ LedgerEnds'
    /\ \A m \in Minute : raw[m].source = "binance_rest" => raw'[m].source = "binance_rest"
    /\ \A m \in S : /\ raw'[m] # NoRow
                    /\ \/ raw'[m].value = value[m]
                       \/ source_priority(raw'[m].source) > source_priority(source[m])

\* An upsert into the raw table keeps rows and ledger in step
\* (_upsert_raw_candles and _append_raw_revisions).
LEMMA UpsertRaw ==
    ASSUME StoreInv, NEW S, S \subseteq Minute, NEW source, NEW value,
           \A m \in S : source[m] \in Source /\ value[m] \in Value,
           upsert_raw_candles(S, source, value)
    PROVE  RawUpserted(S, source, value)
<1> DEFINE Fresh(k) == /\ raw'[k] # raw[k]
                       /\ \A e \in revisions : ~ /\ e.minute = k
                                                 /\ e.row.revision = raw'[k].revision
<1>1. /\ TableTypes /\ LedgerRecordsRaw /\ LedgerEnds
      /\ raw \in [Minute -> Row \cup {NoRow}]
      /\ revisions \subseteq [minute : Minute, row : Row]
  BY DEF StoreInv, TableTypes
<1>2. /\ raw' = [m \in Minute |->
                   IF m \in S THEN upserted(raw[m], source[m], value[m], first_revision(m))
                   ELSE raw[m]]
      /\ revisions' = revisions \cup {[minute |-> m, row |-> raw'[m]] : m \in {k \in S : Fresh(k)}}
      /\ \A m \in S : raw'[m].revision <= MaxRevision
  BY DEF upsert_raw_candles
<1>3. \A m \in Minute \ S : raw'[m] = raw[m]
  BY <1>2
<1>4. \A m \in S : raw'[m] = upserted(raw[m], source[m], value[m], first_revision(m))
  BY <1>2
<1>5. ASSUME NEW m \in S
      PROVE  /\ raw'[m] \in Row
             /\ \/ raw'[m] = raw[m]
                \/ raw[m] = NoRow /\ raw'[m].revision = first_revision(m)
                \/ raw[m] \in Row /\ raw'[m].revision = raw[m].revision + 1
  <2>1. raw[m] \in Row \cup {NoRow} /\ source[m] \in Source /\ value[m] \in Value
    BY <1>1, <1>5
  <2>2. first_revision(m) \in Nat /\ first_revision(m) >= 1
    BY <1>1, FirstRevision
  <2>3. upserted(raw[m], source[m], value[m], first_revision(m)).revision <= MaxRevision
    BY <1>2, <1>4, <1>5
  <2>4. raw'[m] = upserted(raw[m], source[m], value[m], first_revision(m))
    BY <1>4, <1>5
  <2> QED BY <2>1, <2>2, <2>3, <2>4, UpsertedRow
<1>6. ASSUME NEW m \in S
      PROVE  /\ raw[m].source = "binance_rest" => raw'[m].source = "binance_rest"
             /\ \/ raw'[m].value = value[m]
                \/ source_priority(raw'[m].source) > source_priority(source[m])
  <2>1. raw[m] \in Row \cup {NoRow} /\ source[m] \in Source /\ value[m] \in Value
    BY <1>1, <1>6
  <2>2. raw'[m] = upserted(raw[m], source[m], value[m], first_revision(m))
    BY <1>4, <1>6
  <2> QED BY <2>1, <2>2, UpsertedRanks
<1>7. raw' \in [Minute -> Row \cup {NoRow}]
  <2>1. \A m \in Minute : raw'[m] \in Row \cup {NoRow}
    BY <1>1, <1>3, <1>5
  <2>2. raw' = [m \in Minute |-> raw'[m]]
    BY <1>2
  <2> QED BY <2>1, <2>2
<1>8. ASSUME NEW m \in S, raw'[m] # raw[m], NEW e \in revisions, e.minute = m
      PROVE  e.row.revision < raw'[m].revision
  <2>1. e.row.revision \in Nat
    BY <1>1, <1>8 DEF Row
  <2>2. CASE raw[m] = NoRow /\ raw'[m].revision = first_revision(m)
    BY <1>1, <1>8, <2>2, FirstRevision
  <2>3. CASE raw[m] \in Row /\ raw'[m].revision = raw[m].revision + 1
    <3>1. m \in Present(raw) /\ raw[m].revision \in Nat
      BY <1>8, <2>3, RowsExist DEF Present, Row
    <3>2. e.row.revision <= raw[m].revision
      BY <1>1, <1>8, <3>1 DEF LedgerEnds
    <3> QED BY <2>1, <2>3, <3>1, <3>2
  <2> QED BY <1>5, <1>8, <2>2, <2>3
<1>9. \A m \in S : raw'[m] # raw[m] => Fresh(m)
  <2> SUFFICES ASSUME NEW m \in S, raw'[m] # raw[m], NEW e \in revisions, e.minute = m
               PROVE  e.row.revision # raw'[m].revision
    OBVIOUS
  <2>1. e.row.revision \in Nat /\ raw'[m].revision \in Nat
    BY <1>1, <1>5 DEF Row
  <2>2. e.row.revision < raw'[m].revision
    BY <1>8
  <2> QED BY <2>1, <2>2
<1>10. revisions' = revisions \cup {[minute |-> m, row |-> raw'[m]] : m \in {k \in S : raw'[k] # raw[k]}}
  BY <1>2, <1>9
<1> HIDE DEF Fresh
<1>11. revisions' \subseteq [minute : Minute, row : Row]
  BY <1>1, <1>5, <1>10
<1>12. Present(raw) \subseteq Present(raw') /\ \A m \in S : raw'[m] # NoRow
  BY <1>3, <1>5, RowsExist DEF Present
<1>13. LedgerRecordsRaw'
  <2> SUFFICES ASSUME NEW m \in Minute, raw'[m] # NoRow
               PROVE  [minute |-> m, row |-> raw'[m]] \in revisions'
    BY DEF LedgerRecordsRaw, Present
  <2>1. CASE raw'[m] = raw[m]
    <3>1. [minute |-> m, row |-> raw[m]] \in revisions
      BY <1>1, <2>1 DEF LedgerRecordsRaw, Present
    <3> QED BY <1>10, <2>1, <3>1
  <2>2. CASE raw'[m] # raw[m]
    <3>1. m \in S
      BY <1>3, <2>2
    <3> QED BY <1>10, <2>2, <3>1
  <2> QED BY <2>1, <2>2
<1>14. LedgerEnds'
  <2> SUFFICES ASSUME NEW m \in Minute, raw'[m] # NoRow, NEW e \in revisions', e.minute = m
               PROVE  e.row.revision <= raw'[m].revision
    BY DEF LedgerEnds, Present
  <2>1. raw'[m] \in Row /\ raw'[m].revision \in Nat
    BY <1>7 DEF Row
  <2>2. CASE e \in revisions /\ raw'[m] = raw[m]
    BY <1>1, <2>2 DEF LedgerEnds, Present
  <2>3. CASE e \in revisions /\ raw'[m] # raw[m]
    <3>1. m \in S
      BY <1>3, <2>3
    <3>2. e.row.revision < raw'[m].revision /\ e.row.revision \in Nat
      BY <1>1, <1>8, <2>3, <3>1 DEF Row
    <3> QED BY <2>1, <3>2
  <2>4. CASE e \notin revisions
    <3>1. PICK k \in S : e = [minute |-> k, row |-> raw'[k]]
      BY <1>10, <2>4
    <3>2. e.row = raw'[m]
      BY <3>1
    <3> QED BY <2>1, <3>2
  <2> QED BY <2>2, <2>3, <2>4
<1>15. \A m \in Minute : raw[m].source = "binance_rest" => raw'[m].source = "binance_rest"
  BY <1>3, <1>6
<1> QED BY <1>6, <1>7, <1>11, <1>12, <1>13, <1>14, <1>15 DEF RawUpserted

\* New rows keep the ranges that were proven, and the batch publishes only
\* blocks it proves (commit_raw_batch_in_transaction).
LEMMA PublishKeeps ==
    ASSUME StoreInv, NEW S, S \subseteq Minute, PublishCoverage(S),
           Present(raw) \subseteq Present(raw')
    PROVE  RangesInv(ranges', Present(raw'))
<1>1. RangesInv(ranges, Present(raw'))
  BY DEF StoreInv, RangesInv
<1>2. Present(raw') \subseteq Minute
  BY DEF Present
<1>3. RangesInv(mark_verified_raw_blocks(ranges, Present(raw'), S), Present(raw'))
  BY <1>1, <1>2, MarkKeeps
<1> QED BY <1>3 DEF PublishCoverage

\* An upsert into staging keeps its rows (_upsert_staged_candles).
LEMMA UpsertStaged ==
    ASSUME StoreInv, NEW S, S \subseteq Minute, NEW source, NEW value,
           \A m \in S : source[m] \in Source /\ value[m] \in Value,
           upsert_staged_candles(S, source, value)
    PROVE  /\ staging' \in [Minute -> Row \cup {NoRow}]
           /\ Present(staging) \subseteq Present(staging')
<1>1. staging \in [Minute -> Row \cup {NoRow}]
  BY DEF StoreInv, TableTypes
<1>2. /\ staging' = [m \in Minute |->
                       IF m \in S THEN upserted(staging[m], source[m], value[m], 1) ELSE staging[m]]
      /\ \A m \in S : staging'[m].revision <= MaxRevision
  BY DEF upsert_staged_candles
<1>3. ASSUME NEW m \in S PROVE staging'[m] \in Row
  <2>1. staging'[m] = upserted(staging[m], source[m], value[m], 1)
    BY <1>2, <1>3
  <2>2. /\ staging[m] \in Row \cup {NoRow} /\ source[m] \in Source /\ value[m] \in Value
        /\ 1 \in Nat /\ 1 >= 1
    BY <1>1, <1>3
  <2>3. upserted(staging[m], source[m], value[m], 1).revision <= MaxRevision
    BY <1>2, <1>3, <2>1
  <2> QED BY <2>1, <2>2, <2>3, UpsertedRow
<1>4. \A m \in Minute \ S : staging'[m] = staging[m]
  BY <1>2
<1>5. staging' = [m \in Minute |-> staging'[m]]
  BY <1>2
<1>6. \A m \in Minute : staging'[m] \in Row \cup {NoRow}
  BY <1>1, <1>3, <1>4
<1>7. staging' \in [Minute -> Row \cup {NoRow}]
  BY <1>5, <1>6
<1>8. Present(staging) \subseteq Present(staging')
  BY <1>3, <1>4, RowsExist DEF Present
<1> QED BY <1>7, <1>8

\* What one step does to the canonical row and the staged row of a minute.
Precedence ==
    /\ \A m \in Minute : raw[m].source = "binance_rest" /\ raw'[m] # NoRow
                          => raw'[m].source = "binance_rest"
    /\ \A m \in Present(staging) : staging'[m] = NoRow =>
         /\ raw'[m] # NoRow
         /\ \/ raw'[m].value = staging[m].value
            \/ source_priority(raw'[m].source) > source_priority(staging[m].source)

\* A batch of either connector (commit_batch_in_transaction).
LEMMA BatchStep ==
    ASSUME StoreInv, NEW S, S \subseteq Minute, NEW source, NEW value,
           \A m \in S : source[m] \in Source /\ value[m] \in Value,
           commit_batch_in_transaction(S, source, value), UNCHANGED <<now, deletes>>
    PROVE  StoreInv' /\ Precedence
<1> DEFINE live == {m \in S : ~Historical(m)}
<1>1. /\ upsert_raw_candles(live, source, value)
      /\ PublishCoverage(live)
      /\ upsert_staged_candles(S \ live, source, value)
  BY DEF commit_batch_in_transaction
<1>2. live \subseteq Minute /\ S \ live \subseteq Minute
  OBVIOUS
<1>3. /\ \A m \in live : source[m] \in Source /\ value[m] \in Value
      /\ \A m \in S \ live : source[m] \in Source /\ value[m] \in Value
  OBVIOUS
<1> HIDE DEF live
<1>4. /\ raw' \in [Minute -> Row \cup {NoRow}]
      /\ revisions' \subseteq [minute : Minute, row : Row]
      /\ Present(raw) \subseteq Present(raw')
      /\ LedgerRecordsRaw' /\ LedgerEnds'
      /\ \A m \in Minute : raw[m].source = "binance_rest" => raw'[m].source = "binance_rest"
  <2>1. RawUpserted(live, source, value)
    BY <1>1, <1>2, <1>3, UpsertRaw
  <2> QED BY <2>1, Zenon DEF RawUpserted
<1>5. RangesInv(ranges', Present(raw'))
  BY <1>1, <1>2, <1>4, PublishKeeps
<1>6. /\ staging' \in [Minute -> Row \cup {NoRow}]
      /\ Present(staging) \subseteq Present(staging')
  BY <1>1, <1>2, <1>3, UpsertStaged
<1>7. StoreInv'
  BY <1>4, <1>5, <1>6 DEF StoreInv, TableTypes, RangesInv, Present, Minute
<1>8. Precedence
  BY <1>4, <1>6 DEF Precedence, Present
<1> QED BY <1>7, <1>8

\* Every step keeps the invariant and the order of precedence.
LEMMA StoreStep ==
    ASSUME StoreInv, [Next]_vars
    PROVE  StoreInv' /\ (Precedence \/ UNCHANGED vars)
<1> USE StoreAssumption
<1>1. CASE UNCHANGED vars
  BY <1>1 DEF vars, StoreInv, TableTypes, RangesInv, LedgerRecordsRaw, LedgerEnds, Present
<1>2. CASE Tick
  <2>1. now' \in Minute /\ UNCHANGED <<raw, revisions, staging, ranges, deletes>>
    BY <1>2 DEF Tick, StoreInv, Minute
  <2>2. StoreInv'
    BY <2>1 DEF StoreInv, TableTypes, RangesInv, LedgerRecordsRaw, LedgerEnds, Present
  <2>3. Precedence
    BY <2>1 DEF Precedence, Present
  <2> QED BY <2>2, <2>3
<1>3. CASE WsCommit
  <2>0. PICK S \in SUBSET (0..(now - 1)) \ {{}} : \E value \in [S -> WsValues] :
           commit_batch_in_transaction(S, [m \in S |-> "binance_ws"], value)
    BY <1>3 DEF WsCommit
  <2>1. PICK value \in [S -> WsValues] :
           commit_batch_in_transaction(S, [m \in S |-> "binance_ws"], value)
    BY <2>0
  <2>2. S \subseteq Minute
    BY DEF StoreInv, Minute
  <2> DEFINE source == [m \in S |-> "binance_ws"]
  <2>3. \A m \in S : source[m] \in Source /\ value[m] \in Value
    BY DEF Source, Value
  <2>4. commit_batch_in_transaction(S, source, value) /\ UNCHANGED <<now, deletes>>
    BY <1>3, <2>1 DEF WsCommit
  <2> HIDE DEF source
  <2> QED BY <2>2, <2>3, <2>4, BatchStep
<1>4. CASE RestCommit
  <2>0. PICK then \in 0..now : \E S \in SUBSET (0..then) \ {{}} :
           commit_batch_in_transaction(S, [m \in S |-> "binance_rest"],
               [m \in S |-> IF m < then THEN "final" ELSE "partial"])
    BY <1>4 DEF RestCommit
  <2>1. PICK S \in SUBSET (0..then) \ {{}} :
           commit_batch_in_transaction(S, [m \in S |-> "binance_rest"],
               [m \in S |-> IF m < then THEN "final" ELSE "partial"])
    BY <2>0
  <2>2. S \subseteq Minute
    BY DEF StoreInv, Minute
  <2> DEFINE source == [m \in S |-> "binance_rest"]
             value == [m \in S |-> IF m < then THEN "final" ELSE "partial"]
  <2>3. \A m \in S : source[m] \in Source /\ value[m] \in Value
    BY DEF Source, Value
  <2>4. commit_batch_in_transaction(S, source, value) /\ UNCHANGED <<now, deletes>>
    BY <1>4, <2>1 DEF RestCommit
  <2> HIDE DEF source, value
  <2> QED BY <2>2, <2>3, <2>4, BatchStep
<1>5. CASE Promote
  <2>1. PICK S \in SUBSET Present(staging) \ {{}} : merge_page(S)
    BY <1>5 DEF Promote
  <2> DEFINE source == [m \in S |-> staging[m].source]
             value == [m \in S |-> staging[m].value]
  <2>2. staging \in [Minute -> Row \cup {NoRow}]
    BY DEF StoreInv, TableTypes
  <2>3. S \subseteq Minute
    BY DEF Present
  <2>4. /\ \A m \in S : source[m] \in Source /\ value[m] \in Value
        /\ \A m \in S : source[m] = staging[m].source /\ value[m] = staging[m].value
    BY <2>2 DEF Present, Row
  <2>5. /\ upsert_raw_candles(S, source, value)
        /\ PublishCoverage(S)
        /\ staging' = [m \in Minute |-> IF m \in S THEN NoRow ELSE staging[m]]
    BY <2>1 DEF merge_page
  <2> HIDE DEF source, value
  <2>6. /\ raw' \in [Minute -> Row \cup {NoRow}]
        /\ revisions' \subseteq [minute : Minute, row : Row]
        /\ Present(raw) \subseteq Present(raw')
        /\ LedgerRecordsRaw' /\ LedgerEnds'
        /\ \A m \in Minute : raw[m].source = "binance_rest" => raw'[m].source = "binance_rest"
        /\ \A m \in S : /\ raw'[m] # NoRow
                        /\ \/ raw'[m].value = value[m]
                           \/ source_priority(raw'[m].source) > source_priority(source[m])
    <3>1. RawUpserted(S, source, value)
      BY <2>3, <2>4, <2>5, UpsertRaw
    <3> QED BY <3>1, Zenon DEF RawUpserted
  <2>7. RangesInv(ranges', Present(raw'))
    BY <2>3, <2>5, <2>6, PublishKeeps
  <2>8. staging' \in [Minute -> Row \cup {NoRow}] /\ UNCHANGED <<now, deletes>>
    BY <1>5, <2>2, <2>5 DEF Promote
  <2>9. StoreInv'
    BY <2>6, <2>7, <2>8 DEF StoreInv, TableTypes, RangesInv, Present, Minute
  <2>10. \A m \in Present(staging) : staging'[m] = NoRow => m \in S
    BY <2>5 DEF Present
  <2>11. Precedence
    BY <2>4, <2>6, <2>10 DEF Precedence
  <2> QED BY <2>9, <2>11
<1>6. CASE DeleteRaw
  <2>1. PICK m \in Present(raw) : /\ raw' = [raw EXCEPT ![m] = NoRow]
                                  /\ ranges' = {r \in ranges : ~Within(m, r)}
    BY <1>6 DEF DeleteRaw
  <2>2. UNCHANGED <<now, revisions, staging>> /\ deletes' \in 0..MaxDeletes
    BY <1>6 DEF DeleteRaw, StoreInv
  <2>3. /\ raw \in [Minute -> Row \cup {NoRow}] /\ m \in Minute
        /\ raw' \in [Minute -> Row \cup {NoRow}]
        /\ raw'[m] = NoRow /\ \A k \in Minute : k # m => raw'[k] = raw[k]
    BY <2>1 DEF StoreInv, TableTypes, Present
  <2>4. Present(raw') = Present(raw) \ {m}
    BY <2>3 DEF Present
  <2>5. RangesInv(ranges', Present(raw'))
    <3>1. \A r \in ranges' : r \in ranges /\ ~Within(m, r)
      BY <2>1
    <3>2. ASSUME NEW r \in ranges' PROVE r[1] <= r[2] /\ r[1]..r[2] \subseteq Present(raw')
      <4>1. r \in Minute \X Minute /\ r[1] <= r[2] /\ r[1]..r[2] \subseteq Present(raw)
        BY <3>1, <3>2 DEF StoreInv, RangesInv
      <4>2. m \notin r[1]..r[2]
        BY <3>1, <3>2, <4>1 DEF Within, Minute
      <4> QED BY <2>4, <4>1, <4>2
    <3> QED BY <3>1, <3>2 DEF StoreInv, RangesInv
  <2>6. LedgerRecordsRaw' /\ LedgerEnds'
    <3>1. \A k \in Present(raw') : k \in Present(raw) /\ raw'[k] = raw[k]
      BY <2>3, <2>4 DEF Present
    <3> QED BY <2>2, <3>1 DEF StoreInv, LedgerRecordsRaw, LedgerEnds
  <2>7. StoreInv'
    BY <2>2, <2>3, <2>5, <2>6 DEF StoreInv, TableTypes, RangesInv, Present, Minute
  <2>8. Precedence
    BY <2>2, <2>3 DEF Precedence, Present
  <2> QED BY <2>7, <2>8
<1> QED BY <1>1, <1>2, <1>3, <1>4, <1>5, <1>6 DEF Next

\* The empty tables satisfy the invariant.
LEMMA StoreInit == Init => StoreInv
<1> SUFFICES ASSUME Init PROVE StoreInv
  OBVIOUS
<1>1. /\ now \in Minute /\ deletes \in 0..MaxDeletes /\ TableTypes
      /\ ranges = {} /\ revisions = {} /\ Present(raw) = {}
  BY StoreAssumption DEF Init, Minute, TableTypes, Present
<1> QED BY <1>1 DEF StoreInv, RangesInv, LedgerRecordsRaw, LedgerEnds

\* The tables keep their types; in particular no revision is below one.
THEOREM StoreTypeCorrect == Spec => []TypeOK
<1>1. StoreInv => TypeOK
  BY DEF StoreInv, TableTypes, RangesInv, TypeOK
<1>2. StoreInv /\ [Next]_vars => StoreInv'
  BY StoreStep
<1> QED BY <1>1, <1>2, StoreInit, PTL DEF Spec

\* Coverage, canonical rows and revision ledger agree, for any number of
\* minutes and any order of batches, promotions and deletions: a range is
\* claimed only where every row exists, ranges stay apart, and the values of
\* every row are those its revision has in the ledger (services/ingestion.py,
\* historical_merge.py and the triggers of migrations 014, 017 and 018).
THEOREM TablesAlwaysAgree == Spec => []TablesAgree
<1>1. StoreInv => TablesAgree
  BY DEF StoreInv, RangesInv, TablesAgree, CoverageIsRaw, Covered
<1>2. StoreInv /\ [Next]_vars => StoreInv'
  BY StoreStep
<1> QED BY <1>1, <1>2, StoreInit, PTL DEF Spec

\* No step lets a WebSocket replay replace an accepted REST row, or drops a
\* staged row whose values a row of at least its rank does not carry
\* (_source_priority and _merge_one_page).
THEOREM PrecedenceAlwaysHolds == Spec => PrecedenceHolds
<1>1. StoreInv /\ [Next]_vars => StoreInv' /\ [Precedence]_vars
  BY StoreStep
<1>2. [Precedence]_vars =>
        [/\ \A m \in Minute : raw[m].source = "binance_rest" /\ raw'[m] # NoRow
                               => raw'[m].source = "binance_rest"
         /\ \A m \in Present(staging) : staging'[m] = NoRow =>
              /\ raw'[m] # NoRow
              /\ \/ raw'[m].value = staging[m].value
                 \/ source_priority(raw'[m].source) > source_priority(staging[m].source)]_vars
  BY DEF Precedence
<1> QED BY <1>1, <1>2, StoreInit, PTL DEF Spec, PrecedenceHolds
-----------------------------------------------------------------------------
(* Detecting what is missing *)

ScanRec == [gaps : Seq(Nat \X Nat), pointer : Nat, stop : BOOLEAN]

Found(gaps, x) == \E i \in DOMAIN gaps : Within(x, gaps[i])

\* The scan t is the scan s with the gap from its pointer to u: up to the cap the
\* gap is added, at the cap the last one reaches to the end; nothing that was
\* found before is lost.
GapAppended(s, t, u, hi, maxGaps) ==
    /\ t \in ScanRec /\ t.pointer = s.pointer /\ Len(t.gaps) <= maxGaps
    /\ \A i \in DOMAIN t.gaps : t.gaps[i][1] <= s.pointer
    /\ \A x \in 0..hi : Found(s.gaps, x) => Found(t.gaps, x)
    /\ s.pointer < u => \A x \in s.pointer..hi : x <= u => Found(t.gaps, x)
    /\ t.stop = s.stop \/ \A x \in s.pointer..hi : Found(t.gaps, x)
    /\ s.pointer >= u => t = s

\* append_gap at the pointer of the scan.
LEMMA AppendGap ==
    ASSUME NEW hi \in Nat, NEW maxGaps \in Nat \ {0}, NEW s \in ScanRec, NEW u \in Nat,
           Len(s.gaps) <= maxGaps, \A i \in DOMAIN s.gaps : s.gaps[i][1] <= s.pointer
    PROVE  GapAppended(s, append_gap(s, s.pointer, u, hi, maxGaps), u, hi, maxGaps)
<1> SUFFICES ASSUME NEW t, t = append_gap(s, s.pointer, u, hi, maxGaps)
             PROVE  GapAppended(s, t, u, hi, maxGaps)
  OBVIOUS
<1> USE DEF GapAppended
<1> DEFINE n == Len(s.gaps)
           p == s.pointer
           g == s.gaps
<1>1. /\ g \in Seq(Nat \X Nat) /\ n \in Nat /\ DOMAIN g = 1..n /\ p \in Nat
      /\ \A i \in 1..n : g[i] \in Nat \X Nat /\ g[i][1] \in Nat /\ g[i][2] \in Nat
  BY DEF ScanRec
<1>2. CASE p >= u
  <2>1. t = s
    BY <1>2 DEF append_gap
  <2>2. ~(s.pointer < u)
    BY <1>1, <1>2
  <2> QED BY <2>1, <2>2
<1>3. CASE p < u /\ n < maxGaps
  <2> DEFINE h == Append(g, <<p, u>>)
  <2>1. t = [s EXCEPT !.gaps = h]
    BY <1>1, <1>3 DEF append_gap
  <2>2. /\ h \in Seq(Nat \X Nat) /\ Len(h) = n + 1 /\ DOMAIN h = 1..n + 1
        /\ h[n + 1] = <<p, u>> /\ \A i \in 1..n : h[i] = g[i]
    BY <1>1, AppendProperties
  <2> HIDE DEF h
  <2>3. t.gaps = h /\ t.pointer = p /\ t.stop = s.stop /\ t \in ScanRec
    BY <2>1, <2>2 DEF ScanRec
  <2> HIDE DEF g, n, p
  <2>4. n + 1 \in 1..n + 1 /\ \A i \in 1..n : i \in 1..n + 1
    BY <1>1
  <2>5. \A i \in 1..n + 1 : i = n + 1 \/ i \in 1..n
    BY <1>1
  <2>6. \A i \in 1..n + 1 : h[i][1] <= p
    <3> TAKE i \in 1..n + 1
    <3>1. CASE i = n + 1
      BY <1>1, <2>2, <3>1
    <3>2. CASE i \in 1..n
      BY <1>1, <2>2, <3>2 DEF g, p
    <3> QED BY <2>5, <3>1, <3>2
  <2>7. \A x : Found(g, x) => Found(h, x)
    BY <1>1, <2>2, <2>4 DEF Found
  <2>8. \A x \in p..hi : x <= u => Found(h, x)
    <3> SUFFICES ASSUME NEW x \in p..hi, x <= u PROVE Within(x, h[n + 1])
      BY <2>2, <2>4 DEF Found
    <3> QED BY <1>1, <2>2 DEF Within
  <2>9. ~(p >= u) /\ Len(t.gaps) <= maxGaps
    BY <1>1, <1>3, <2>2, <2>3
  <2> QED BY <2>2, <2>3, <2>6, <2>7, <2>8, <2>9 DEF g, p
<1>4. CASE p < u /\ ~(n < maxGaps)
  <2> DEFINE h == [g EXCEPT ![n] = <<g[n][1], hi>>]
  <2>0. n \in 1..n /\ n = maxGaps
    BY <1>1, <1>4
  <2>1. t = [s EXCEPT !.gaps[n] = <<@[1], hi>>, !.stop = TRUE]
    BY <1>1, <1>4 DEF append_gap
  <2>2. t.gaps = h /\ t.pointer = p /\ t.stop = TRUE
    BY <2>1 DEF ScanRec
  <2>3. t = [gaps |-> h, pointer |-> p, stop |-> TRUE]
    BY <2>1 DEF ScanRec
  <2>4. /\ h \in Seq(Nat \X Nat) /\ Len(h) = n /\ DOMAIN h = 1..n
        /\ h[n] = <<g[n][1], hi>> /\ \A i \in 1..n : i # n => h[i] = g[i]
    BY <1>1, <2>0
  <2> HIDE DEF h, g, p, n
  <2>5. t \in ScanRec
    BY <1>1, <2>3, <2>4 DEF ScanRec
  <2>6. \A i \in 1..n : h[i][1] = g[i][1]
    <3>1. h[n][1] = g[n][1]
      BY <2>4
    <3> QED BY <2>4, <3>1
  <2>7. \A x \in 0..hi : Found(g, x) => Found(h, x)
    <3> SUFFICES ASSUME NEW x \in 0..hi, NEW i \in 1..n, Within(x, g[i]) PROVE Within(x, h[i])
      BY <1>1, <2>4 DEF Found
    <3>1. CASE i = n
      BY <1>1, <2>4, <3>1 DEF Within
    <3>2. CASE i # n
      BY <2>4, <3>2
    <3> QED BY <3>1, <3>2
  <2>8. \A x \in p..hi : Found(h, x)
    <3> SUFFICES ASSUME NEW x \in p..hi PROVE Within(x, h[n])
      BY <2>0, <2>4 DEF Found
    <3>1. g[n][1] <= p
      BY <1>1, <2>0 DEF g, p
    <3> QED BY <1>1, <2>0, <2>4, <3>1 DEF Within
  <2>9. ~(p >= u) /\ Len(t.gaps) <= maxGaps
    BY <1>1, <1>4, <2>0, <2>2, <2>4
  <2>10. \A i \in 1..n : h[i][1] <= p
    BY <1>1, <2>6 DEF g, p
  <2> QED BY <2>2, <2>4, <2>5, <2>7, <2>8, <2>9, <2>10 DEF g, p
<1>5. p >= u \/ (p < u /\ n < maxGaps) \/ (p < u /\ ~(n < maxGaps))
  BY <1>1
<1> HIDE DEF GapAppended, p, n, g
<1> QED BY <1>2, <1>3, <1>4, <1>5

\* What of the window <<lo, hi>> the ranges R leave uncovered.
Missing(R, lo, hi) == {x \in lo..hi : \A r \in R : ~Within(x, r)}

\* The scan at any point: it has found all that is missing before its pointer,
\* which stands at the start of the window or at the end of a range.
ScanInv(s, R, lo, hi, maxGaps) ==
    /\ s \in ScanRec /\ Len(s.gaps) <= maxGaps /\ lo <= s.pointer
    /\ s.pointer = lo \/ \E r \in R : s.pointer = r[2]
    /\ \A i \in DOMAIN s.gaps : s.gaps[i][1] <= s.pointer
    /\ \A x \in Missing(R, lo, hi) : Found(s.gaps, x) \/ s.pointer <= x

\* The greater of two numbers.
LEMMA MaxOfTwo ==
    ASSUME NEW a \in Nat, NEW b \in Nat
    PROVE  /\ Max({a, b}) \in {a, b} /\ a <= Max({a, b}) /\ b <= Max({a, b})
           /\ Min({a, b}) \in {a, b} /\ Min({a, b}) <= a /\ Min({a, b}) <= b
<1>1. \E n \in Nat : {a, b} \subseteq 0..n
  <2>1. {a, b} \subseteq 0..(a + b) /\ a + b \in Nat
    OBVIOUS
  <2> QED BY <2>1
<1>2. PICK n \in Nat : {a, b} \subseteq 0..n
  BY <1>1
<1> DEFINE S == {a, b}
<1>3. S \subseteq 0..n /\ S # {} /\ a \in S /\ b \in S
  BY <1>2
<1> HIDE DEF S
<1>4. /\ Min(S) \in S /\ \A y \in S : Min(S) <= y
      /\ Max(S) \in S /\ \A y \in S : y <= Max(S)
  BY <1>3, MinMax
<1> QED BY <1>3, <1>4 DEF S

\* One range of the scan, in whatever order they come, keeps it so.
LEMMA ScanKeeps ==
    ASSUME NEW R, R \subseteq Nat \X Nat, NEW lo \in Nat, NEW hi \in Nat,
           NEW maxGaps \in Nat \ {0}, NEW s, ScanInv(s, R, lo, hi, maxGaps), NEW r \in R
    PROVE  ScanInv(scan_range(s, r, hi, maxGaps), R, lo, hi, maxGaps)
<1> DEFINE t == append_gap(s, s.pointer, r[1], hi, maxGaps)
           p == Max({t.pointer, r[2]})
           v == [t EXCEPT !.pointer = p, !.stop = p >= hi]
           X == Missing(R, lo, hi)
<1>1. s \in ScanRec /\ s.pointer \in Nat /\ s.stop \in BOOLEAN /\ r[1] \in Nat /\ r[2] \in Nat
  BY DEF ScanInv, ScanRec
<1>2. /\ t \in ScanRec /\ t.pointer = s.pointer /\ Len(t.gaps) <= maxGaps
      /\ \A i \in DOMAIN t.gaps : t.gaps[i][1] <= s.pointer
      /\ \A x \in 0..hi : Found(s.gaps, x) => Found(t.gaps, x)
      /\ s.pointer < r[1] => \A x \in s.pointer..hi : x <= r[1] => Found(t.gaps, x)
      /\ t.stop = s.stop \/ \A x \in s.pointer..hi : Found(t.gaps, x)
  <2>1. /\ Len(s.gaps) <= maxGaps
        /\ \A i \in DOMAIN s.gaps : s.gaps[i][1] <= s.pointer
    BY DEF ScanInv
  <2>2. GapAppended(s, t, r[1], hi, maxGaps)
    BY <1>1, <2>1, AppendGap
  <2> HIDE DEF t
  <2> QED BY <2>2, Zenon DEF GapAppended
<1>3. \A x \in X : x \in Nat /\ lo <= x /\ x <= hi /\ x \in 0..hi /\ ~Within(x, r)
  BY DEF Missing
<1>4. \A x \in X : Found(s.gaps, x) \/ s.pointer <= x
  BY DEF ScanInv
<1>5. \A x \in X : s.pointer <= x => x \in s.pointer..hi
  BY <1>1, <1>3
<1> HIDE DEF t, X
<1>6. CASE s.stop
  BY <1>6 DEF scan_range
<1>7. CASE ~s.stop /\ t.stop
  <2>1. scan_range(s, r, hi, maxGaps) = t
    BY <1>7 DEF scan_range, t
  <2>2. \A x \in s.pointer..hi : Found(t.gaps, x)
    BY <1>2, <1>7, Zenon
  <2>3. \A x \in X : Found(t.gaps, x)
    BY <1>2, <1>3, <1>4, <1>5, <2>2
  <2> QED BY <1>2, <2>1, <2>3 DEF ScanInv, X
<1>8. CASE ~s.stop /\ ~t.stop
  <2>1. scan_range(s, r, hi, maxGaps) = v
    BY <1>8 DEF scan_range, t
  <2>2. p \in {s.pointer, r[2]} /\ s.pointer <= p /\ r[2] <= p /\ p \in Nat
    BY <1>1, <1>2, MaxOfTwo
  <2> HIDE DEF p
  <2>3. v \in ScanRec /\ v.gaps = t.gaps /\ v.pointer = p
    <3> DEFINE b == p >= hi
    <3>1. b \in BOOLEAN
      OBVIOUS
    <3> HIDE DEF b
    <3>2. v = [t EXCEPT !.pointer = p, !.stop = b]
      BY DEF b
    <3> HIDE DEF v
    <3> QED BY <1>2, <2>2, <3>1, <3>2 DEF ScanRec
  <2> HIDE DEF v
  <2>4. \A x \in X : Found(t.gaps, x) \/ p <= x
    <3> SUFFICES ASSUME NEW x \in X, ~Found(t.gaps, x) PROVE p <= x
      OBVIOUS
    <3>1. s.pointer <= x /\ x \in s.pointer..hi /\ x \in Nat
      BY <1>2, <1>3, <1>4, <1>5
    <3>2. r[1] <= x
      <4>1. CASE s.pointer < r[1]
        <5>1. ~(x <= r[1])
          BY <1>2, <3>1, <4>1
        <5> QED BY <1>1, <3>1, <5>1
      <4>2. CASE ~(s.pointer < r[1])
        BY <1>1, <3>1, <4>2
      <4> QED BY <4>1, <4>2
    <3>3. ~(x <= r[2])
      BY <1>3, <3>2 DEF Within
    <3> QED BY <1>1, <2>2, <3>1, <3>3
  <2>5. lo <= p /\ (p = lo \/ \E q \in R : p = q[2])
    BY <1>1, <2>2 DEF ScanInv
  <2>6. \A i \in DOMAIN t.gaps : t.gaps[i][1] <= p
    <3> TAKE i \in DOMAIN t.gaps
    <3>1. t.gaps[i][1] \in Nat /\ t.gaps[i][1] <= s.pointer
      BY <1>2 DEF ScanRec
    <3> QED BY <1>1, <2>2, <3>1
  <2> QED BY <1>2, <2>1, <2>3, <2>4, <2>5, <2>6 DEF ScanInv, X
<1> QED BY <1>1, <1>6, <1>7, <1>8

\* f holds the state of the scan after each of the first n rows.
ScanOf(f, rows, n, lo, hi, maxGaps) ==
    /\ f[0] = [gaps |-> <<>>, pointer |-> lo, stop |-> FALSE]
    /\ \A k \in 1..n : f[k] = scan_range(f[k - 1], rows[k], hi, maxGaps)

\* The scan over any rows that are ranges of R ends in such a state.
LEMMA ScanEnds ==
    ASSUME NEW R, R \subseteq Nat \X Nat, NEW lo \in Nat, NEW hi \in Nat,
           NEW maxGaps \in Nat \ {0}, NEW rows, NEW n \in Nat, \A k \in 1..n : rows[k] \in R
    PROVE  /\ ScanInv(Scan(rows, n, lo, hi, maxGaps)[n], R, lo, hi, maxGaps)
           /\ ScanOf(Scan(rows, n, lo, hi, maxGaps), rows, n, lo, hi, maxGaps)
<1> DEFINE start == [gaps |-> <<>>, pointer |-> lo, stop |-> FALSE]
           St == {s \in ScanRec : ScanInv(s, R, lo, hi, maxGaps)}
           Go(s, k) == scan_range(s, rows[k], hi, maxGaps)
           Def(f) == [k \in 0..n |-> IF k = 0 THEN start ELSE Go(f[k - 1], k)]
           scan == CHOOSE f : f = Def(f)
           step == [k \in 1..n |-> [s \in St |-> Go(s, k)]]
<1>1. Scan(rows, n, lo, hi, maxGaps) = scan
  BY DEF Scan
<1>2. start \in St
  <2>1. start \in ScanRec /\ start.gaps = <<>> /\ start.pointer = lo
    BY DEF ScanRec
  <2>2. Len(start.gaps) <= maxGaps /\ DOMAIN start.gaps = {}
    BY <2>1
  <2>3. \A x \in Missing(R, lo, hi) : lo <= x
    BY DEF Missing
  <2> QED BY <2>1, <2>2, <2>3 DEF ScanInv
<1>3. ASSUME NEW k \in 1..n, NEW s \in St PROVE Go(s, k) \in St
  <2>1. ScanInv(Go(s, k), R, lo, hi, maxGaps)
    BY <1>3, ScanKeeps
  <2> QED BY <2>1 DEF ScanInv
<1> HIDE DEF Go, St, start
<1>4. /\ step \in [1..n -> [St -> St]]
      /\ \A k \in 1..n : \A s \in St : step[k][s] = Go(s, k)
  BY <1>3
<1> HIDE DEF step
<1>5. PICK f \in [0..n -> St] : Loop(f, n, start, step)
  BY <1>2, <1>4, LoopExists
<1>6. \A k \in 0..n : f[k] = IF k = 0 THEN start ELSE Go(f[k - 1], k)
  <2> TAKE k \in 0..n
  <2>1. CASE k # 0
    <3>1. k \in 1..n /\ k - 1 \in 0..n
      BY <2>1
    <3> QED BY <1>4, <1>5, <2>1, <3>1 DEF Loop
  <2> QED BY <1>5, <2>1 DEF Loop
<1>7. f = [k \in 0..n |-> f[k]]
  OBVIOUS
<1>8. f = Def(f)
  BY <1>6, <1>7
<1>9. scan = Def(scan)
  <2> HIDE DEF Def
  <2> QED BY <1>8
<1> HIDE DEF scan
<1>10. scan[0] = start /\ \A k \in 1..n : scan[k] = Go(scan[k - 1], k)
  BY <1>9
<1>11. scan[0] \in St /\ \A k \in 1..n : scan[k - 1] \in St => scan[k] \in St
  BY <1>2, <1>3, <1>10
<1>12. \A k \in 0..n : scan[k] \in St
  BY <1>11, LoopKeeps
<1>13. scan[n] \in St
  BY <1>12
<1>14. ScanInv(scan[n], R, lo, hi, maxGaps)
  BY <1>13 DEF St
<1>15. ScanOf(scan, rows, n, lo, hi, maxGaps)
  BY <1>10 DEF ScanOf, Go, start
<1> QED BY <1>1, <1>14, <1>15

\* Detection reports all of its window that the ranges leave uncovered, however
\* low its two caps, in at most maxGaps gaps (_detect_missing_ranges).
LEMMA DetectFinds ==
    ASSUME NEW N \in Nat, NEW R, R \subseteq (0..N) \X (0..N), \A r \in R : r[1] <= r[2],
           NEW lo \in Nat, NEW hi \in Nat, lo < hi,
           NEW maxRanges \in Nat, NEW maxGaps \in Nat \ {0}
    PROVE  /\ Len(detect_missing_ranges(R, lo, hi, maxRanges, maxGaps)) <= maxGaps
           /\ \A x \in Missing(R, lo, hi) :
                Found(detect_missing_ranges(R, lo, hi, maxRanges, maxGaps), x)
<1> DEFINE Q == {r \in R : r[2] >= lo /\ r[1] <= hi}
           rows == ByStart(Q)
           n == Min({Len(rows), maxRanges})
           s == Scan(rows, n, lo, hi, maxGaps)[n]
           t == append_gap(s, s.pointer, hi, hi, maxGaps)
<1>1. detect_missing_ranges(R, lo, hi, maxRanges, maxGaps) = t.gaps
  <2>1. ~(lo >= hi)
    OBVIOUS
  <2> QED BY <2>1 DEF detect_missing_ranges
<1>2. Q \subseteq (0..N) \X (0..N) /\ Q \subseteq Nat \X Nat /\ Q \subseteq R
  OBVIOUS
<1> HIDE DEF Q
<1>3. rows \in [1..Cardinality(Q) -> Q] /\ Len(rows) = Cardinality(Q) /\ Cardinality(Q) \in Nat
  BY <1>2, CanBeSorted
<1> HIDE DEF rows
<1>4. n \in Nat /\ n <= Cardinality(Q)
  BY <1>3, MaxOfTwo
<1> HIDE DEF n
<1>5. \A k \in 1..n : rows[k] \in Q
  <2> TAKE k \in 1..n
  <2>1. k \in 1..Cardinality(Q)
    BY <1>3, <1>4
  <2> QED BY <1>3, <2>1
<1>6. ScanInv(s, Q, lo, hi, maxGaps)
  BY <1>2, <1>4, <1>5, ScanEnds
<1> HIDE DEF s
<1>7. /\ s \in ScanRec /\ s.pointer \in Nat /\ Len(s.gaps) <= maxGaps
      /\ \A i \in DOMAIN s.gaps : s.gaps[i][1] <= s.pointer
      /\ s.pointer = lo \/ \E r \in Q : s.pointer = r[2]
      /\ \A x \in Missing(Q, lo, hi) : Found(s.gaps, x) \/ s.pointer <= x
  BY <1>6 DEF ScanInv, ScanRec
<1>8. GapAppended(s, t, hi, hi, maxGaps)
  BY <1>7, AppendGap
<1> HIDE DEF t
<1>9. /\ Len(t.gaps) <= maxGaps
      /\ \A x \in 0..hi : Found(s.gaps, x) => Found(t.gaps, x)
      /\ s.pointer < hi => \A x \in s.pointer..hi : x <= hi => Found(t.gaps, x)
  BY <1>8, Zenon DEF GapAppended
<1>10. ASSUME NEW x \in Missing(R, lo, hi) PROVE Found(t.gaps, x)
  <2>1. x \in Nat /\ x \in 0..hi /\ lo <= x /\ x <= hi /\ x \in Missing(Q, lo, hi)
    BY <1>2 DEF Missing
  <2>2. CASE Found(s.gaps, x)
    BY <1>9, <2>1, <2>2
  <2>3. CASE ~Found(s.gaps, x) /\ s.pointer < hi
    <3>1. s.pointer <= x
      BY <1>7, <2>1, <2>3
    <3>2. x \in s.pointer..hi
      BY <1>7, <2>1, <3>1
    <3> QED BY <1>9, <2>1, <2>3, <3>2
  <2>4. CASE ~Found(s.gaps, x) /\ ~(s.pointer < hi)
    <3>1. s.pointer <= x
      BY <1>7, <2>1, <2>4
    <3>2. s.pointer = x /\ s.pointer # lo
      BY <1>7, <2>1, <2>4, <3>1
    <3>3. PICK r \in Q : s.pointer = r[2]
      BY <1>7, <3>2
    <3>4. Within(x, r)
      BY <1>2, <3>2, <3>3 DEF Within
    <3> QED BY <2>1, <3>4 DEF Missing
  <2> QED BY <2>2, <2>3, <2>4
<1> QED BY <1>1, <1>9, <1>10

\* Detection reports nothing when one range holds the window and no other range
\* meets it.
LEMMA DetectQuiet ==
    ASSUME NEW N \in Nat, NEW R, R \subseteq (0..N) \X (0..N), NEW h \in R,
           NEW lo \in Nat, NEW hi \in Nat, lo < hi, h[1] <= lo, hi <= h[2],
           \A r \in R : r[2] >= lo /\ r[1] <= hi => r = h,
           NEW maxRanges \in Nat \ {0}, NEW maxGaps \in Nat \ {0}
    PROVE  detect_missing_ranges(R, lo, hi, maxRanges, maxGaps) = <<>>
<1> DEFINE Q == {r \in R : r[2] >= lo /\ r[1] <= hi}
           rows == ByStart(Q)
           n == Min({Len(rows), maxRanges})
           s == Scan(rows, n, lo, hi, maxGaps)[n]
           start == [gaps |-> <<>>, pointer |-> lo, stop |-> FALSE]
<1>1. detect_missing_ranges(R, lo, hi, maxRanges, maxGaps)
        = append_gap(s, s.pointer, hi, hi, maxGaps).gaps
  <2>1. ~(lo >= hi)
    OBVIOUS
  <2> QED BY <2>1 DEF detect_missing_ranges
<1>2. Q = {h} /\ Q \subseteq (0..N) \X (0..N) /\ Q \subseteq Nat \X Nat
  <2>1. h \in Q
    OBVIOUS
  <2> QED BY <2>1
<1> HIDE DEF Q
<1>3. rows \in [1..Cardinality(Q) -> Q] /\ Len(rows) = Cardinality(Q)
  BY <1>2, CanBeSorted
<1>4. Cardinality(Q) = 1
  BY <1>2, FS_Singleton
<1> HIDE DEF rows
<1>5. rows[1] = h /\ Len(rows) = 1
  <2>1. 1 \in 1..Cardinality(Q)
    BY <1>4
  <2>2. rows[1] \in Q
    BY <1>3, <2>1
  <2> QED BY <1>2, <1>3, <1>4, <2>2
<1>6. n = 1
  BY <1>5, MaxOfTwo
<1> HIDE DEF n
<1>7. \A k \in 1..n : rows[k] \in Q
  BY <1>2, <1>5, <1>6
<1>8. /\ Scan(rows, n, lo, hi, maxGaps)[0] = start
      /\ \A k \in 1..n : Scan(rows, n, lo, hi, maxGaps)[k] =
           scan_range(Scan(rows, n, lo, hi, maxGaps)[k - 1], rows[k], hi, maxGaps)
  <2>1. n \in Nat
    BY <1>6
  <2>2. Q \subseteq Nat \X Nat
    BY <1>2
  <2>3. ScanOf(Scan(rows, n, lo, hi, maxGaps), rows, n, lo, hi, maxGaps)
    BY <1>7, <2>1, <2>2, ScanEnds
  <2> QED BY <2>3, Zenon DEF ScanOf
<1>9. 1 \in 1..n /\ 1 - 1 = 0
  BY <1>6
<1>10. s = scan_range(start, h, hi, maxGaps)
  <2> DEFINE f == Scan(rows, n, lo, hi, maxGaps)
  <2>1. f[1] = scan_range(f[1 - 1], rows[1], hi, maxGaps)
    BY <1>8, <1>9
  <2>2. f[1 - 1] = start
    BY <1>8, <1>9
  <2> HIDE DEF f, start
  <2>3. s = f[1]
    BY <1>6 DEF f
  <2> QED BY <1>5, <2>1, <2>2, <2>3
<1> HIDE DEF s
<1> DEFINE p == Max({lo, h[2]})
<1>11. append_gap(start, lo, h[1], hi, maxGaps) = start
  BY DEF append_gap
<1>12. p \in Nat /\ p >= hi
  BY MaxOfTwo
<1>13. start.pointer = lo /\ start.stop = FALSE
  OBVIOUS
<1>14. s = [start EXCEPT !.pointer = p, !.stop = p >= hi]
  <2> HIDE DEF start
  <2> QED BY <1>10, <1>11, <1>13 DEF scan_range
<1> HIDE DEF p
<1>15. s.pointer = p /\ s.gaps = <<>>
  BY <1>14
<1> QED BY <1>1, <1>12, <1>15 DEF append_gap

\* Half minutes: every range keeps its order, and covers the same minutes.
LEMMA HalvesOf ==
    ASSUME NEW R, NEW rows, RangesInv(R, rows)
    PROVE  /\ 2 * Horizon \in Nat
           /\ HalfMinutes(R) \subseteq (0..2 * Horizon) \X (0..2 * Horizon)
           /\ \A h \in HalfMinutes(R) : h[1] <= h[2]
           /\ \A m \in Minute \ Covered(R) : \A h \in HalfMinutes(R) : ~Within(2 * m, h)
<1>1. Horizon \in Nat /\ 2 * Horizon \in Nat
  BY StoreAssumption
<1>2. \A r \in R : /\ r[1] \in 0..Horizon /\ r[2] \in 0..Horizon /\ r[1] <= r[2]
                   /\ 2 * r[1] \in 0..2 * Horizon /\ 2 * r[2] \in 0..2 * Horizon
                   /\ 2 * r[1] <= 2 * r[2]
  <2> TAKE r \in R
  <2>1. r[1] \in 0..Horizon /\ r[2] \in 0..Horizon /\ r[1] <= r[2]
    BY DEF RangesInv, Minute
  <2> QED BY <1>1, <2>1
<1>3. \A h \in HalfMinutes(R) : \E r \in R : h = <<2 * r[1], 2 * r[2]>>
  BY DEF HalfMinutes
<1>4. ASSUME NEW m \in Minute \ Covered(R), NEW h \in HalfMinutes(R) PROVE ~Within(2 * m, h)
  <2>1. PICK r \in R : h = <<2 * r[1], 2 * r[2]>>
    BY <1>3
  <2>2. h[1] = 2 * r[1] /\ h[2] = 2 * r[2]
    BY <2>1
  <2>3. m \notin r[1]..r[2]
    BY DEF Covered
  <2>4. m \in 0..Horizon
    BY DEF Minute
  <2> QED BY <1>1, <1>2, <2>2, <2>3, <2>4 DEF Within
<1> QED BY <1>1, <1>2, <1>3, <1>4

\* Ranges stay more than a minute apart, so that covered neighbours have one range.
LEMMA OneRangeHolds ==
    ASSUME NEW R, NEW rows, RangesInv(R, rows), NEW a \in Minute, NEW b \in Minute, a <= b,
           a..b \subseteq Covered(R)
    PROVE  \E r \in R : /\ r[1] <= a /\ b <= r[2]
                        /\ \A s \in R : s[2] >= a /\ s[1] <= b => s = r
<1>1. a \in Nat /\ b \in Nat /\ \A r \in R : r[1] \in Nat /\ r[2] \in Nat /\ r[1] <= r[2]
  BY StoreAssumption DEF Minute, RangesInv
<1>2. \A r, s \in R : r = s \/ r[2] + 1 < s[1] \/ s[2] + 1 < r[1]
  BY DEF RangesInv
<1>3. \A m \in a..b : \E r \in R : m \in r[1]..r[2]
  BY DEF Covered
<1>4. a \in a..b
  BY <1>1
<1>5. PICK r \in R : a \in r[1]..r[2]
  BY <1>3, <1>4
<1>6. b <= r[2]
  <2> SUFFICES ASSUME r[2] < b PROVE FALSE
    BY <1>1
  <2>1. r[2] + 1 \in a..b
    BY <1>1, <1>5
  <2>2. PICK s \in R : r[2] + 1 \in s[1]..s[2]
    BY <1>3, <2>1
  <2> QED BY <1>1, <1>2, <2>2
<1>7. ASSUME NEW s \in R, s[2] >= a, s[1] <= b PROVE s = r
  BY <1>1, <1>2, <1>5, <1>6, <1>7
<1> QED BY <1>1, <1>5, <1>6, <1>7

\* Whatever batches, promotions and deletions have left of the coverage, gap
\* detection on it reports every missing minute of every window under its two
\* caps, and reports nothing for a window of whole minutes exactly when all of
\* them are covered, the condition on which repair jobs complete.
THEOREM DetectionAlwaysExact == Spec => []DetectionIsExact
<1>1. ASSUME StoreInv PROVE DetectionIsExact
  <2> DEFINE H == HalfMinutes(ranges)
             Detected(w, k, n) == detect_missing_ranges(H, w[1], w[2], k, n)
  <2>1. RangesInv(ranges, Present(raw))
    BY <1>1 DEF StoreInv
  <2>2. /\ Horizon \in Nat /\ 2 * Horizon \in Nat
        /\ H \subseteq (0..2 * Horizon) \X (0..2 * Horizon)
        /\ \A h \in H : h[1] <= h[2]
        /\ \A m \in Minute \ Covered(ranges) : \A h \in H : ~Within(2 * m, h)
    BY <2>1, HalvesOf, StoreAssumption
  <2>3. \A r \in ranges : <<2 * r[1], 2 * r[2]>> \in H
    BY DEF HalfMinutes
  <2>4. \A h \in H : \E r \in ranges : h = <<2 * r[1], 2 * r[2]>>
    BY DEF HalfMinutes
  <2> HIDE DEF H
  <2>5. \A w \in Windows : /\ w[1] \in 0..2 * Horizon /\ w[2] \in 0..2 * Horizon
                           /\ w[1] \in Nat /\ w[2] \in Nat /\ w[1] < w[2]
    BY <2>2 DEF Windows
  <2>6. ASSUME NEW w \in Windows, NEW k \in Nat, NEW n \in Nat \ {0}
        PROVE  /\ Len(Detected(w, k, n)) <= n
               /\ \A m \in Minute \ Covered(ranges) : Within(2 * m, w) =>
                     Found(Detected(w, k, n), 2 * m)
    <3>1. /\ Len(Detected(w, k, n)) <= n
          /\ \A x \in Missing(H, w[1], w[2]) : Found(Detected(w, k, n), x)
      BY <2>2, <2>5, DetectFinds
    <3> HIDE DEF Detected
    <3>2. ASSUME NEW m \in Minute \ Covered(ranges), Within(2 * m, w)
          PROVE  2 * m \in Missing(H, w[1], w[2])
      <4>1. m \in 0..Horizon /\ w[1] <= 2 * m /\ 2 * m <= w[2]
        BY <3>2 DEF Minute, Within
      <4>2. 2 * m \in w[1]..w[2]
        BY <2>2, <2>5, <4>1
      <4> QED BY <2>2, <4>2 DEF Missing
    <3> QED BY <3>1, <3>2
  <2>7. DetectionMissesNothing
    <3> SUFFICES ASSUME NEW w \in Windows, NEW k \in 1..2, NEW n \in 1..2
                 PROVE  /\ Len(Detected(w, k, n)) <= n
                        /\ \A m \in Minute \ Covered(ranges) : Within(2 * m, w) =>
                              Found(Detected(w, k, n), 2 * m)
      BY DEF DetectionMissesNothing, Found, H
    <3>1. k \in Nat /\ n \in Nat \ {0}
      OBVIOUS
    <3> HIDE DEF Detected
    <3> QED BY <2>6, <3>1
  <2>8. ASSUME NEW w \in Windows, Detected(w, Horizon + 1, Horizon + 1) = <<>>,
               NEW m \in Minute, Within(2 * m, w)
        PROVE  m \in Covered(ranges)
    <3>1. Horizon + 1 \in Nat \ {0}
      BY <2>2
    <3>2. ~Found(Detected(w, Horizon + 1, Horizon + 1), 2 * m)
      BY <2>8 DEF Found
    <3> HIDE DEF Detected
    <3> QED BY <2>6, <2>8, <3>1, <3>2
  <2>9. ASSUME NEW w \in Windows, w[1] % 2 = 0, w[2] % 2 = 0,
               \A m \in Minute : Within(2 * m, w) => m \in Covered(ranges)
        PROVE  Detected(w, Horizon + 1, Horizon + 1) = <<>>
    <3>1. PICK a \in Minute, b \in Minute : w[1] = 2 * a /\ w[2] = 2 * b /\ a <= b
      <4> DEFINE a == w[1] \div 2
                 b == w[2] \div 2
      <4>1. a \in 0..Horizon /\ w[1] = 2 * a
        BY <2>2, <2>5, <2>9
      <4>2. b \in 0..Horizon /\ w[2] = 2 * b
        BY <2>2, <2>5, <2>9
      <4> HIDE DEF a, b
      <4>3. a <= b
        BY <2>2, <2>5, <4>1, <4>2
      <4> QED BY <4>1, <4>2, <4>3 DEF Minute
    <3>2. a \in Nat /\ b \in Nat /\ a \in 0..Horizon /\ b \in 0..Horizon
      BY <2>2 DEF Minute
    <3>3. a..b \subseteq Covered(ranges)
      <4> SUFFICES ASSUME NEW m \in a..b PROVE m \in Minute /\ Within(2 * m, w)
        BY <2>9
      <4> QED BY <2>2, <3>1, <3>2 DEF Minute, Within
    <3>4. PICK r \in ranges : /\ r[1] <= a /\ b <= r[2]
                              /\ \A s \in ranges : s[2] >= a /\ s[1] <= b => s = r
      BY <2>1, <3>1, <3>3, OneRangeHolds
    <3> DEFINE h == <<2 * r[1], 2 * r[2]>>
    <3>5. \A s \in ranges : s[1] \in Nat /\ s[2] \in Nat
      BY <2>1, <2>2 DEF RangesInv, Minute
    <3>6. h \in H /\ h[1] <= w[1] /\ w[2] <= h[2]
      BY <2>3, <3>1, <3>2, <3>4, <3>5
    <3>7. ASSUME NEW g \in H, g[2] >= w[1], g[1] <= w[2] PROVE g = h
      <4>1. PICK s \in ranges : g = <<2 * s[1], 2 * s[2]>>
        BY <2>4
      <4>2. 2 * s[2] >= 2 * a /\ 2 * s[1] <= 2 * b
        BY <3>1, <3>7, <4>1
      <4>3. s[2] >= a /\ s[1] <= b
        BY <3>2, <3>5, <4>2
      <4> QED BY <3>4, <4>1, <4>3
    <3> HIDE DEF h
    <3>8. Horizon + 1 \in Nat \ {0}
      BY <2>2
    <3> QED BY <2>2, <2>5, <3>6, <3>7, <3>8, DetectQuiet
  <2>10. WholeWindowSettles
    BY <2>8, <2>9 DEF WholeWindowSettles, H
  <2> QED BY <2>7, <2>10 DEF DetectionIsExact
<1>2. StoreInv /\ [Next]_vars => StoreInv'
  BY StoreStep
<1> QED BY <1>1, <1>2, StoreInit, PTL DEF Spec
-----------------------------------------------------------------------------
(* What of a window is not scheduled yet *)

\* The parts of the window that no interval of A overlaps, and the largest ones.
Overlap(v, w) == v[1] < w[2] /\ w[1] < v[2]

FreeParts(lo, hi, A) ==
    {v \in (lo..hi) \X (lo..hi) : v[1] < v[2] /\ \A a \in A : ~Overlap(a, v)}

LargestFree(lo, hi, A) ==
    {v \in FreeParts(lo, hi, A) :
        \A u \in FreeParts(lo, hi, A) : u[1] <= v[1] /\ v[2] <= u[2] => u = v}

\* A free part that begins at the window's start or where an interval ends, and
\* ends at the window's end or where an interval begins, is a largest one.
LEMMA FreeBetween ==
    ASSUME NEW C, NEW lo \in Nat, NEW hi \in Nat,
           \A c \in C : c[1] \in Nat /\ c[2] \in Nat /\ c[1] < c[2],
           NEW v \in FreeParts(lo, hi, C),
           v[1] = lo \/ \E c \in C : c[2] = v[1],
           v[2] = hi \/ \E c \in C : c[1] = v[2]
    PROVE  v \in LargestFree(lo, hi, C)
<1> SUFFICES ASSUME NEW u \in FreeParts(lo, hi, C), u[1] <= v[1], v[2] <= u[2] PROVE u = v
  BY DEF LargestFree
<1>1. \A w \in FreeParts(lo, hi, C) :
        /\ w = <<w[1], w[2]>> /\ w[1] \in Nat /\ w[2] \in Nat
        /\ lo <= w[1] /\ w[1] < w[2] /\ w[2] <= hi
        /\ \A c \in C : ~(c[1] < w[2] /\ w[1] < c[2])
  BY DEF FreeParts, Overlap
<1>2. u[1] = v[1]
  <2> SUFFICES ASSUME u[1] < v[1] PROVE FALSE
    BY <1>1
  <2>1. PICK c \in C : c[2] = v[1]
    BY <1>1
  <2>2. c[1] < u[2] /\ u[1] < c[2]
    BY <1>1, <2>1
  <2> QED BY <1>1, <2>2
<1>3. u[2] = v[2]
  <2> SUFFICES ASSUME v[2] < u[2] PROVE FALSE
    BY <1>1
  <2>1. PICK c \in C : c[1] = v[2]
    BY <1>1
  <2>2. c[1] < u[2] /\ u[1] < c[2]
    BY <1>1, <2>1
  <2> QED BY <1>1, <2>2
<1> QED BY <1>1, <1>2, <1>3

SweepRec == [cursor : Nat, found : SUBSET (Nat \X Nat)]

\* The sweep after the first k of the sorted intervals rows: they end before the
\* cursor, which is the start of the window or the end of one of them, and the
\* largest free parts that begin before it are found.
SweepInv(acc, k, rows, C, lo, hi) ==
    /\ acc \in SweepRec /\ lo <= acc.cursor /\ acc.cursor <= hi
    /\ acc.cursor = lo \/ \E c \in C : c[2] = acc.cursor
    /\ \A j \in 1..k : rows[j][2] <= acc.cursor
    /\ acc.found \subseteq LargestFree(lo, hi, C)
    /\ \A v \in LargestFree(lo, hi, C) : v \in acc.found \/ acc.cursor <= v[1]

\* The intervals C of a window, sorted as rows.
SweepRows(rows, n, C, lo, hi) ==
    /\ rows \in [1..n -> C] /\ Sorted(rows)
    /\ \A c \in C : \E j \in 1..n : rows[j] = c
    /\ \A c \in C : c[1] \in Nat /\ c[2] \in Nat /\ lo <= c[1] /\ c[1] < c[2] /\ c[2] <= hi

\* The part from the cursor to u is a largest free one when no interval that
\* ends after the cursor begins before u.
LEMMA CursorPart ==
    ASSUME NEW C, NEW lo \in Nat, NEW hi \in Nat,
           \A c \in C : c[1] \in Nat /\ c[2] \in Nat /\ c[1] < c[2],
           NEW p \in Nat, lo <= p, p = lo \/ \E c \in C : c[2] = p,
           NEW u \in Nat, p < u, u <= hi, u = hi \/ \E c \in C : c[1] = u,
           \A c \in C : c[2] <= p \/ u <= c[1]
    PROVE  /\ <<p, u>> \in LargestFree(lo, hi, C)
           /\ \A v \in LargestFree(lo, hi, C) : p <= v[1] /\ v[2] <= u => v = <<p, u>>
<1> DEFINE w == <<p, u>>
<1>1. w[1] = p /\ w[2] = u /\ w \in (lo..hi) \X (lo..hi)
  OBVIOUS
<1> HIDE DEF w
<1>2. \A c \in C : ~Overlap(c, w)
  BY <1>1 DEF Overlap
<1>3. w \in FreeParts(lo, hi, C)
  BY <1>1, <1>2 DEF FreeParts
<1>4. w \in LargestFree(lo, hi, C)
  BY <1>1, <1>3, FreeBetween
<1>5. ASSUME NEW v \in LargestFree(lo, hi, C), p <= v[1], v[2] <= u PROVE v = w
  BY <1>1, <1>3, <1>5 DEF LargestFree
<1> QED BY <1>4, <1>5 DEF w

\* One interval of the sweep (the loop body of _uncovered_intervals).
LEMMA SweepKeeps ==
    ASSUME NEW lo \in Nat, NEW hi \in Nat, NEW n \in Nat, NEW C, NEW rows,
           SweepRows(rows, n, C, lo, hi), NEW k \in 1..n,
           NEW acc, SweepInv(acc, k - 1, rows, C, lo, hi)
    PROVE  SweepInv(uncovered_step(acc, rows[k], hi), k, rows, C, lo, hi)
<1> DEFINE L == LargestFree(lo, hi, C)
           r == rows[k]
           p == acc.cursor
           q == Max({p, r[2]})
           F == IF r[1] > p THEN acc.found \cup {<<p, r[1]>>} ELSE acc.found
<1>1. /\ acc \in SweepRec /\ p \in Nat /\ acc.found \subseteq Nat \X Nat
      /\ lo <= p /\ p <= hi /\ (p = lo \/ \E c \in C : c[2] = p)
      /\ \A j \in 1..k - 1 : rows[j][2] <= p
      /\ acc.found \subseteq L
      /\ \A v \in L : v \in acc.found \/ p <= v[1]
  BY DEF SweepInv, SweepRec
<1>2. /\ r \in C /\ rows \in [1..n -> C]
      /\ \A c \in C : c[1] \in Nat /\ c[2] \in Nat /\ lo <= c[1] /\ c[1] < c[2] /\ c[2] <= hi
      /\ \A c \in C : \E j \in 1..n : rows[j] = c
  BY DEF SweepRows
<1>3. \A j \in 1..k : j = k \/ j \in 1..k - 1
  OBVIOUS
<1>4. \A v \in L : /\ v \in Nat \X Nat /\ v[1] \in Nat /\ v[2] \in Nat /\ v[1] < v[2]
                   /\ \A c \in C : ~(c[1] < v[2] /\ v[1] < c[2])
  BY DEF LargestFree, FreeParts, Overlap
<1>5. CASE p >= hi \/ r[2] <= p
  <2>1. uncovered_step(acc, r, hi) = acc
    BY <1>5 DEF uncovered_step
  <2>2. r[2] <= p
    BY <1>1, <1>2, <1>5
  <2>3. \A j \in 1..k : rows[j][2] <= p
    BY <1>1, <1>3, <2>2
  <2> HIDE DEF L, p, r
  <2> QED BY <1>1, <2>1, <2>3 DEF SweepInv, L, p, r
<1>6. CASE ~(p >= hi \/ r[2] <= p)
  <2>1. uncovered_step(acc, r, hi) = [cursor |-> q, found |-> F]
    BY <1>6 DEF uncovered_step
  <2>2. q = r[2] /\ p < r[2]
    <3>1. q \in {p, r[2]} /\ r[2] <= q
      BY <1>1, <1>2, MaxOfTwo
    <3> QED BY <1>1, <1>2, <1>6, <3>1
  <2>3. \A c \in C : c[2] <= p \/ r[1] <= c[1]
    <3> TAKE c \in C
    <3>1. PICK j \in 1..n : rows[j] = c
      BY <1>2
    <3>2. CASE j < k
      <4>1. j \in 1..k - 1
        BY <3>2
      <4> QED BY <1>1, <3>1, <4>1
    <3>3. CASE j = k
      BY <1>2, <3>1, <3>3
    <3>4. CASE k < j
      <4>1. Before(r, c)
        BY <1>2, <3>1, <3>4 DEF SweepRows, Sorted
      <4> QED BY <1>2, <4>1 DEF Before
    <3> QED BY <3>2, <3>3, <3>4
  <2> HIDE DEF q
  <2>4. p < r[1] =>
          <<p, r[1]>> \in L /\ \A v \in L : p <= v[1] /\ v[2] <= r[1] => v = <<p, r[1]>>
    <3> SUFFICES ASSUME p < r[1] PROVE
          <<p, r[1]>> \in L /\ \A v \in L : p <= v[1] /\ v[2] <= r[1] => v = <<p, r[1]>>
      OBVIOUS
    <3>1. r[1] \in Nat /\ r[1] <= hi /\ \E c \in C : c[1] = r[1]
      BY <1>2
    <3> HIDE DEF p, r
    <3> QED BY <1>1, <1>2, <2>3, <3>1, CursorPart
  <2>5. F \subseteq L /\ F \subseteq Nat \X Nat
    BY <1>1, <1>2, <2>4
  <2>6. ASSUME NEW v \in L PROVE v \in F \/ r[2] <= v[1]
    <3> SUFFICES ASSUME v \notin F, ~(r[2] <= v[1]) PROVE FALSE
      OBVIOUS
    <3>1. p <= v[1]
      BY <1>1
    <3>2. v[2] <= r[1]
      BY <1>2, <1>4
    <3>3. p < r[1]
      BY <1>1, <1>2, <1>4, <3>1, <3>2
    <3>4. v = <<p, r[1]>>
      BY <2>4, <3>1, <3>2, <3>3
    <3> QED BY <1>1, <1>2, <3>3, <3>4
  <2>7. \A j \in 1..k : rows[j][2] <= r[2]
    <3> TAKE j \in 1..k
    <3>1. CASE j = k
      BY <1>2, <3>1
    <3>2. CASE j \in 1..k - 1
      <4>1. rows[j] \in C /\ rows[j][2] <= p
        BY <1>1, <1>2, <3>2
      <4>2. rows[j][2] \in Nat /\ r[2] \in Nat
        BY <1>2, <4>1
      <4> HIDE DEF p, r
      <4> QED BY <1>1, <2>2, <4>1, <4>2
    <3> QED BY <1>3, <3>1, <3>2
  <2> DEFINE b == [cursor |-> q, found |-> F]
  <2> HIDE DEF L, F, r, p
  <2>8. b.cursor = r[2] /\ b.found = F /\ b \in SweepRec
    BY <1>2, <2>2, <2>5 DEF SweepRec
  <2>9. lo <= r[2] /\ r[2] <= hi /\ \E c \in C : c[2] = r[2]
    BY <1>1, <1>2, <2>2
  <2> HIDE DEF b
  <2>10. SweepInv(b, k, rows, C, lo, hi)
    BY <2>5, <2>6, <2>7, <2>8, <2>9 DEF SweepInv, L
  <2> QED BY <2>1, <2>10 DEF b, r
<1> QED BY <1>5, <1>6

\* The sweep over all the intervals ends in such a state.
LEMMA SweepEnds ==
    ASSUME NEW lo \in Nat, NEW hi \in Nat, lo <= hi, NEW n \in Nat, NEW C, NEW rows,
           SweepRows(rows, n, C, lo, hi), Len(rows) = n
    PROVE  SweepInv(Sweep(rows, lo, hi)[n], n, rows, C, lo, hi)
<1> DEFINE start == [cursor |-> lo, found |-> {}]
           Go(a, k) == uncovered_step(a, rows[k], hi)
           Def(f) == [k \in 0..n |-> IF k = 0 THEN start ELSE Go(f[k - 1], k)]
           acc == CHOOSE f : f = Def(f)
           step == [k \in 1..n |-> [a \in SweepRec |-> Go(a, k)]]
<1>1. Sweep(rows, lo, hi) = acc
  BY DEF Sweep
<1>2. start \in SweepRec /\ start.cursor = lo /\ start.found = {}
  BY DEF SweepRec
<1>3. ASSUME NEW k \in 1..n, NEW a \in SweepRec PROVE Go(a, k) \in SweepRec
  <2> DEFINE q == Max({a.cursor, rows[k][2]})
             F == IF rows[k][1] > a.cursor
                  THEN a.found \cup {<<a.cursor, rows[k][1]>>} ELSE a.found
  <2>1. a.cursor \in Nat /\ a.found \subseteq Nat \X Nat
    BY DEF SweepRec
  <2>2. rows[k] \in C /\ rows[k][1] \in Nat /\ rows[k][2] \in Nat
    BY DEF SweepRows
  <2>3. q \in Nat
    BY <2>1, <2>2, MaxOfTwo
  <2>4. F \subseteq Nat \X Nat
    BY <2>1, <2>2
  <2>5. Go(a, k) = a \/ Go(a, k) = [cursor |-> q, found |-> F]
    BY DEF uncovered_step
  <2> HIDE DEF Go, q, F
  <2> QED BY <2>3, <2>4, <2>5 DEF SweepRec
<1> HIDE DEF Go, start
<1>4. /\ step \in [1..n -> [SweepRec -> SweepRec]]
      /\ \A k \in 1..n : \A a \in SweepRec : step[k][a] = Go(a, k)
  BY <1>3
<1> HIDE DEF step
<1>5. PICK f \in [0..n -> SweepRec] : Loop(f, n, start, step)
  BY <1>2, <1>4, LoopExists
<1>6. \A k \in 0..n : f[k] = IF k = 0 THEN start ELSE Go(f[k - 1], k)
  <2> TAKE k \in 0..n
  <2>1. CASE k # 0
    <3>1. k \in 1..n /\ k - 1 \in 0..n
      BY <2>1
    <3> QED BY <1>4, <1>5, <2>1, <3>1 DEF Loop
  <2> QED BY <1>5, <2>1 DEF Loop
<1>7. f = [k \in 0..n |-> f[k]]
  OBVIOUS
<1>8. f = Def(f)
  BY <1>6, <1>7
<1>9. acc = Def(acc)
  <2> HIDE DEF Def
  <2> QED BY <1>8
<1> HIDE DEF acc
<1>10. acc[0] = start /\ \A k \in 1..n : acc[k] = Go(acc[k - 1], k)
  BY <1>9
<1> DEFINE U == {k \in 0..n : SweepInv(acc[k], k, rows, C, lo, hi)}
<1>11. 0 \in U
  <2>1. \A v \in LargestFree(lo, hi, C) : lo <= v[1]
    BY DEF LargestFree, FreeParts
  <2>2. SweepInv(start, 0, rows, C, lo, hi)
    BY <1>2, <2>1 DEF SweepInv
  <2> QED BY <1>10, <2>2
<1>12. \A k \in 1..n : k - 1 \in U => k \in U
  <2> TAKE k \in 1..n
  <2> HAVE k - 1 \in U
  <2>1. SweepInv(uncovered_step(acc[k - 1], rows[k], hi), k, rows, C, lo, hi)
    BY SweepKeeps
  <2> QED BY <1>10, <2>1 DEF Go
<1> HIDE DEF U
<1>13. 0..n \subseteq U
  BY <1>11, <1>12, Reaches
<1>14. n \in U
  BY <1>13
<1> QED BY <1>1, <1>14 DEF U

\* Sorting leaves no interval out.
LEMMA SortedHasAll ==
    ASSUME NEW N \in Nat, NEW B, B \subseteq (0..N) \X (0..N), NEW b \in B
    PROVE  \E j \in 1..Cardinality(B) : ByStart(B)[j] = b
<1> DEFINE n == Cardinality(B)
           rows == ByStart(B)
<1>1. /\ IsFiniteSet(B) /\ n \in Nat /\ rows \in [1..n -> B] /\ Sorted(rows)
  BY CanBeSorted
<1> HIDE DEF n, rows
<1>2. \A c \in B : c[1] \in Nat /\ c[2] \in Nat
  OBVIOUS
<1>3. ASSUME NEW i \in 1..n, NEW j \in 1..n, rows[i] = rows[j] PROVE i = j
  <2>1. ~Before(rows[i], rows[i])
    BY <1>1, <1>2 DEF Before
  <2>2. ~(i < j) /\ ~(j < i)
    BY <1>1, <1>3, <2>1 DEF Sorted
  <2> QED BY <1>1, <2>2
<1>4. rows \in Injection(1..n, B)
  BY <1>1, <1>3 DEF Injection, IsInjective
<1>5. Cardinality(1..n) = n
  BY <1>1, FS_Interval
<1>6. rows \in Surjection(1..n, B)
  BY <1>1, <1>4, <1>5, FS_Injection DEF n
<1> QED BY <1>6 DEF Surjection, n, rows

\* Cutting the intervals to the window frees no part of it and takes none.
LEMMA CutKeeps ==
    ASSUME NEW N \in Nat, NEW A, A \subseteq (0..N) \X (0..N), \A a \in A : a[1] < a[2],
           NEW lo \in Nat, NEW hi \in Nat, lo < hi,
           NEW C, C = {<<Max({lo, a[1]}), Min({hi, a[2]})>> :
                          a \in {b \in A : b[1] < hi /\ b[2] > lo}}
    PROVE  /\ \A c \in C : /\ c \in Nat \X Nat /\ c[1] \in Nat /\ c[2] \in Nat
                           /\ lo <= c[1] /\ c[1] < c[2] /\ c[2] <= hi
           /\ FreeParts(lo, hi, C) = FreeParts(lo, hi, A)
<1> DEFINE P(c, a) == /\ a[1] < hi /\ a[2] > lo
                      /\ c = <<Max({lo, a[1]}), Min({hi, a[2]})>>
<1>1. /\ \A c \in C : \E a \in A : P(c, a)
      /\ \A a \in A : a[1] < hi /\ a[2] > lo => \E c \in C : P(c, a)
  OBVIOUS
<1>2. \A a \in A : a[1] \in Nat /\ a[2] \in Nat /\ a[1] < a[2]
  OBVIOUS
<1>3. ASSUME NEW a \in A, NEW c, P(c, a)
      PROVE  /\ c \in Nat \X Nat /\ c[1] \in Nat /\ c[2] \in Nat
             /\ lo <= c[1] /\ c[1] < c[2] /\ c[2] <= hi
             /\ a[1] <= c[1] /\ c[2] <= a[2] /\ c[1] \in {lo, a[1]} /\ c[2] \in {hi, a[2]}
  <2> DEFINE x == Max({lo, a[1]})
             y == Min({hi, a[2]})
  <2>1. /\ x \in {lo, a[1]} /\ lo <= x /\ a[1] <= x
        /\ y \in {hi, a[2]} /\ y <= hi /\ y <= a[2]
    BY <1>2, MaxOfTwo
  <2>2. c = <<x, y>>
    BY <1>3
  <2> HIDE DEF x, y
  <2> QED BY <1>2, <1>3, <2>1, <2>2
<1> HIDE DEF P
<1>4. ASSUME NEW v \in (lo..hi) \X (lo..hi), v[1] < v[2]
      PROVE  (\A c \in C : ~Overlap(c, v)) <=> (\A a \in A : ~Overlap(a, v))
  <2>1. v[1] \in Nat /\ v[2] \in Nat /\ lo <= v[1] /\ v[2] <= hi
    OBVIOUS
  <2>2. ASSUME NEW c \in C, Overlap(c, v) PROVE \E a \in A : Overlap(a, v)
    <3>1. PICK a \in A : P(c, a)
      BY <1>1
    <3>2. /\ c[1] \in Nat /\ c[2] \in Nat /\ a[1] <= c[1] /\ c[2] <= a[2]
      BY <1>3, <3>1
    <3>3. Overlap(a, v)
      BY <1>2, <2>1, <2>2, <3>2 DEF Overlap
    <3> QED BY <3>3
  <2>3. ASSUME NEW a \in A, Overlap(a, v) PROVE \E c \in C : Overlap(c, v)
    <3>1. a[1] < hi /\ a[2] > lo
      BY <1>2, <1>4, <2>1, <2>3 DEF Overlap
    <3>2. PICK c \in C : P(c, a)
      BY <1>1, <3>1
    <3>3. c[1] \in {lo, a[1]} /\ c[2] \in {hi, a[2]}
      BY <1>3, <3>2
    <3>4. Overlap(c, v)
      BY <1>2, <1>4, <2>1, <2>3, <3>3 DEF Overlap
    <3> QED BY <3>4
  <2> QED BY <2>2, <2>3
<1>5. FreeParts(lo, hi, C) = FreeParts(lo, hi, A)
  BY <1>4 DEF FreeParts
<1> QED BY <1>1, <1>3, <1>5

\* _uncovered_intervals, which gap repair and the aggregate refresh have in the
\* same form, computes for every window and every set of active jobs the largest
\* parts of the window that no job overlaps: the set by which both models
\* schedule (Unscheduled of GapRepair, Uncovered of CaggRefresh).
THEOREM UncoveredIsExact ==
    ASSUME NEW N \in Nat, NEW A, A \subseteq (0..N) \X (0..N), \A a \in A : a[1] < a[2],
           NEW lo \in Nat, NEW hi \in Nat, lo < hi
    PROVE  uncovered_intervals(lo, hi, A) = LargestFree(lo, hi, A)
<1> DEFINE C == {<<Max({lo, a[1]}), Min({hi, a[2]})>> :
                    a \in {b \in A : b[1] < hi /\ b[2] > lo}}
           rows == ByStart(C)
           n == Len(rows)
           acc == Sweep(rows, lo, hi)[n]
           L == LargestFree(lo, hi, C)
<1>1. uncovered_intervals(lo, hi, A)
        = IF acc.cursor < hi THEN acc.found \cup {<<acc.cursor, hi>>} ELSE acc.found
  BY DEF uncovered_intervals
<1>2. /\ \A c \in C : /\ c \in Nat \X Nat /\ c[1] \in Nat /\ c[2] \in Nat
                      /\ lo <= c[1] /\ c[1] < c[2] /\ c[2] <= hi
      /\ FreeParts(lo, hi, C) = FreeParts(lo, hi, A)
  BY CutKeeps
<1> HIDE DEF C
<1>3. L = LargestFree(lo, hi, A)
  BY <1>2 DEF LargestFree
<1>4. C \subseteq (0..hi) \X (0..hi)
  <2> SUFFICES ASSUME NEW c \in C PROVE c \in (0..hi) \X (0..hi)
    OBVIOUS
  <2>1. c \in Nat \X Nat /\ c[1] <= hi /\ c[2] <= hi
    BY <1>2
  <2> QED BY <2>1
<1>5. n \in Nat /\ rows \in [1..n -> C] /\ Sorted(rows) /\ n = Cardinality(C)
  BY <1>4, CanBeSorted
<1>6. \A c \in C : \E j \in 1..n : rows[j] = c
  BY <1>4, <1>5, SortedHasAll
<1>7. SweepRows(rows, n, C, lo, hi)
  BY <1>2, <1>5, <1>6 DEF SweepRows
<1>8. Len(rows) = n
  OBVIOUS
<1> HIDE DEF n, rows
<1>9. SweepInv(acc, n, rows, C, lo, hi)
  BY <1>5, <1>7, <1>8, SweepEnds
<1> HIDE DEF acc
<1> DEFINE p == acc.cursor
<1>10. /\ p \in Nat /\ lo <= p /\ p <= hi /\ (p = lo \/ \E c \in C : c[2] = p)
       /\ \A j \in 1..n : rows[j][2] <= p
       /\ acc.found \subseteq L
       /\ \A v \in L : v \in acc.found \/ p <= v[1]
  BY <1>9 DEF SweepInv, SweepRec
<1>11. \A v \in L : v[1] \in Nat /\ v[2] \in Nat /\ v[1] < v[2] /\ v[2] <= hi
  BY DEF LargestFree, FreeParts
<1>12. \A c \in C : c[2] <= p
  BY <1>6, <1>10
<1> HIDE DEF p, L
<1>13. CASE p < hi
  <2>1. <<p, hi>> \in L /\ \A v \in L : p <= v[1] /\ v[2] <= hi => v = <<p, hi>>
    <3>1. \A c \in C : c[1] \in Nat /\ c[2] \in Nat /\ c[1] < c[2]
      BY <1>2
    <3>2. \A c \in C : c[2] <= p \/ hi <= c[1]
      BY <1>12
    <3>3. p \in Nat /\ lo <= p /\ (p = lo \/ \E c \in C : c[2] = p)
      BY <1>10
    <3>4. hi <= hi
      OBVIOUS
    <3> QED BY <1>13, <3>1, <3>2, <3>3, <3>4, CursorPart DEF L
  <2>2. \A v \in L : v \in acc.found \/ v = <<p, hi>>
    BY <1>10, <1>11, <2>1
  <2>3. acc.found \cup {<<p, hi>>} = L
    BY <1>10, <2>1, <2>2
  <2> QED BY <1>1, <1>3, <1>13, <2>3 DEF p
<1>14. CASE ~(p < hi)
  <2>1. \A v \in L : ~(p <= v[1])
    BY <1>10, <1>11, <1>14
  <2>2. acc.found = L
    BY <1>10, <2>1
  <2> QED BY <1>1, <1>3, <1>14, <2>2 DEF p
<1> QED BY <1>13, <1>14
=============================================================================
