----------------------------- MODULE SyncRanges -----------------------------
(***************************************************************************)
(* The interval algorithms of services/ingestion.py and of                 *)
(* services/gap_repair.py, as the code computes them: the contiguous       *)
(* blocks of a batch of one-minute candles, the merge of a proven block    *)
(* into the sync_ranges of an asset, the detection of missing ranges under *)
(* its two caps, and the parts of a window that no active job covers.      *)
(*                                                                         *)
(* An instant is a number of minutes and an interval a pair <<lo, hi>>.    *)
(***************************************************************************)
EXTENDS Integers, Sequences, FiniteSets, FiniteSetsExt

Within(m, iv) == iv[1] <= m /\ m <= iv[2]

\* The minutes that the intervals of R contain.
Covered(R) == UNION {iv[1]..iv[2] : iv \in R}

\* Intervals are sorted by their start, then by their end.
Before(a, b) == a[1] < b[1] \/ (a[1] = b[1] /\ a[2] < b[2])

Sorted(s) == \A i, j \in DOMAIN s : i < j => Before(s[i], s[j])

\* The sequence of the intervals of R in this order.
ByStart(R) == CHOOSE s \in [1..Cardinality(R) -> R] : Sorted(s)

-----------------------------------------------------------------------------
(* Publishing coverage *)

\* The maximal runs of consecutive minutes in the batch S.
contiguous_blocks(S) ==
    {iv \in S \X S : /\ iv[1] <= iv[2]
                     /\ iv[1]..iv[2] \subseteq S
                     /\ iv[1] - 1 \notin S
                     /\ iv[2] + 1 \notin S}

\* As many rows as minutes, the first and the last one among them.
raw_block_is_complete(rows, iv) ==
    /\ Cardinality({m \in rows : Within(m, iv)}) = iv[2] - iv[1] + 1
    /\ iv[1] \in rows
    /\ iv[2] \in rows

\* Ranges that touch iv, up to one minute away, become one range with it.
merge_verified_sync_ranges(R, iv) ==
    LET overlaps == {r \in R : r[1] <= iv[2] + 1 /\ r[2] >= iv[1] - 1}
        all == overlaps \cup {iv}
    IN  (R \ overlaps) \cup {<<Min({r[1] : r \in all}), Max({r[2] : r \in all})>>}

\* Each block of the batch S that the raw table proves is merged, in order.
mark_verified_raw_blocks(R, rows, S) ==
    LET blocks == ByStart(contiguous_blocks(S))
        marked[n \in 0..Len(blocks)] ==
            IF n = 0 THEN R
            ELSE IF raw_block_is_complete(rows, blocks[n])
            THEN merge_verified_sync_ranges(marked[n - 1], blocks[n])
            ELSE marked[n - 1]
    IN  marked[Len(blocks)]

-----------------------------------------------------------------------------
(* Detecting what is missing *)

\* Mutant: at the cap the remaining gaps are dropped.
append_gap_dropping(scan, lo, hi, end, maxGaps) ==
    IF lo >= hi THEN scan
    ELSE IF Len(scan.gaps) < maxGaps
    THEN [scan EXCEPT !.gaps = Append(@, <<lo, hi>>)]
    ELSE [scan EXCEPT !.stop = TRUE]

\* append_gap: at the cap the last gap is stretched to the end of the window.
append_gap(scan, lo, hi, end, maxGaps) ==
    IF lo >= hi THEN scan
    ELSE IF Len(scan.gaps) < maxGaps
    THEN [scan EXCEPT !.gaps = Append(@, <<lo, hi>>)]
    ELSE [scan EXCEPT !.gaps[Len(scan.gaps)] = <<@[1], end>>, !.stop = TRUE]

\* One range of the scan.
scan_range(scan, r, end, maxGaps) ==
    IF scan.stop THEN scan
    ELSE LET s == append_gap(scan, scan.pointer, r[1], end, maxGaps)
             p == Max({s.pointer, r[2]})
         IN  IF s.stop THEN s
             ELSE [s EXCEPT !.pointer = p, !.stop = p >= end]

\* The scan after each of the first n rows.
Scan(rows, n, lo, hi, maxGaps) ==
    LET scan[k \in 0..n] ==
            IF k = 0 THEN [gaps |-> <<>>, pointer |-> lo, stop |-> FALSE]
            ELSE scan_range(scan[k - 1], rows[k], hi, maxGaps)
    IN  scan

\* The sequence of missing intervals of the window <<lo, hi>>.
detect_missing_ranges(R, lo, hi, maxRanges, maxGaps) ==
    LET rows == ByStart({r \in R : r[2] >= lo /\ r[1] <= hi})
        n    == Min({Len(rows), maxRanges})
        scan == Scan(rows, n, lo, hi, maxGaps)[n]
    IN  IF lo >= hi THEN <<>> ELSE append_gap(scan, scan.pointer, hi, hi, maxGaps).gaps

-----------------------------------------------------------------------------
(* What of a window is not scheduled yet *)

\* Mutant: the cursor does not move past an interval that starts late.
uncovered_step_stuck(acc, iv, end) ==
    IF acc.cursor >= end \/ iv[2] <= acc.cursor THEN acc
    ELSE IF iv[1] > acc.cursor
    THEN [acc EXCEPT !.found = @ \cup {<<acc.cursor, iv[1]>>}]
    ELSE [acc EXCEPT !.cursor = iv[2]]

\* One active interval, already cut to the window.
uncovered_step(acc, iv, end) ==
    IF acc.cursor >= end \/ iv[2] <= acc.cursor THEN acc
    ELSE [cursor |-> Max({acc.cursor, iv[2]}),
          found  |-> IF iv[1] > acc.cursor
                     THEN acc.found \cup {<<acc.cursor, iv[1]>>}
                     ELSE acc.found]

\* The sweep after each of the active intervals, in order.
Sweep(cut, lo, hi) ==
    LET acc[k \in 0..Len(cut)] ==
            IF k = 0 THEN [cursor |-> lo, found |-> {}]
            ELSE uncovered_step(acc[k - 1], cut[k], hi)
    IN  acc

\* The window <<lo, hi>> minus the active intervals A.
uncovered_intervals(lo, hi, A) ==
    LET cut == ByStart({<<Max({lo, a[1]}), Min({hi, a[2]})>> :
                            a \in {b \in A : b[1] < hi /\ b[2] > lo}})
        acc == Sweep(cut, lo, hi)[Len(cut)]
    IN  IF acc.cursor < hi THEN acc.found \cup {<<acc.cursor, hi>>} ELSE acc.found
=============================================================================
