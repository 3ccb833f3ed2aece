---------------------------- MODULE CandleStore -----------------------------
(***************************************************************************)
(* The canonical one-minute candles of one asset: raw_1m_candles with its  *)
(* ledger candle_revisions, gap_staging_candles, and the sync_ranges that  *)
(* assert complete raw coverage (services/ingestion.py, the promotion of   *)
(* services/historical_merge.py, and the triggers of migrations 014, 017   *)
(* and 018).                                                               *)
(*                                                                         *)
(* Writers are the WebSocket pipeline, REST repair and the historical      *)
(* merger.  Each transaction locks the asset row, so that it is one step.  *)
(* Minutes are numbered; "now" is the minute in progress.  A candle is its *)
(* source and its values: what the exchange finally publishes for the      *)
(* minute, a deviating WebSocket copy, or the values of an open minute.    *)
(***************************************************************************)
EXTENDS SyncRanges

CONSTANTS Horizon,      \* minutes are 0..Horizon
          HotMinutes,   \* older minutes are historical (7 days in the code)
          WsValues,     \* values a WebSocket candle may carry
          MaxRevision,  \* bound on the revisions of one minute
          MaxDeletes    \* bound on operational deletions of raw rows

ASSUME StoreAssumption ==
    /\ Horizon \in Nat /\ HotMinutes \in Nat
    /\ WsValues \subseteq {"final", "deviating"}
    /\ MaxRevision \in Nat /\ MaxDeletes \in Nat

Minute == 0..Horizon
NoRow == [source |-> "none", value |-> "none", revision |-> 0]

VARIABLES now,        \* the minute in progress
          raw,        \* raw_1m_candles
          revisions,  \* candle_revisions
          staging,    \* gap_staging_candles
          ranges,     \* sync_ranges
          deletes     \* operational deletions so far

vars == <<now, raw, revisions, staging, ranges, deletes>>

Source == {"binance_ws", "binance_rest"}
Value == {"final", "deviating", "partial"}
Row == [source : Source, value : Value, revision : 1..MaxRevision]

Present(table) == {m \in Minute : table[m] # NoRow}

\* The ranges of the variables.
TypeOK ==
    /\ now \in Minute
    /\ raw \in [Minute -> Row \cup {NoRow}]
    /\ staging \in [Minute -> Row \cup {NoRow}]
    /\ revisions \subseteq [minute : Minute, row : Row]
    /\ ranges \subseteq Minute \X Minute
    /\ deletes \in 0..MaxDeletes

Init ==
    /\ now = 0
    /\ raw = [m \in Minute |-> NoRow]
    /\ staging = [m \in Minute |-> NoRow]
    /\ revisions = {}
    /\ ranges = {}
    /\ deletes = 0

-----------------------------------------------------------------------------
(* Upserts *)

\* Mutant: every connector may overwrite every other.
flat_priority(source) == 20

source_priority(source) ==
    CASE source = "binance_rest" -> 30
      [] source = "binance_ws"   -> 20
      [] source = "legacy"       -> 0
      [] OTHER                   -> 10

\* The values differ and the new source ranks no lower than the stored one.
Accepted(old, source, value) ==
    /\ value # old.value
    /\ source_priority(source) >= source_priority(old.source)

\* Mutant: revisions count from zero.
first_revision_zero(m) ==
    Max({0} \cup {e.row.revision : e \in {x \in revisions : x.minute = m}})

\* enforce_raw_candle_revision: a new raw row continues the ledger of its minute.
first_revision(m) ==
    1 + Max({0} \cup {e.row.revision : e \in {x \in revisions : x.minute = m}})

\* The row of one minute after an upsert; first is the revision of a new row.
upserted(old, source, value, first) ==
    IF old = NoRow
    THEN [source |-> source, value |-> value, revision |-> first]
    ELSE IF Accepted(old, source, value)
    THEN [source |-> source, value |-> value, revision |-> old.revision + 1]
    ELSE old

\* insert_candle_batch into raw: the rows of S and their new ledger entries; an
\* entry whose minute and revision exist already is skipped.
upsert_raw_candles(S, source, value) ==
    /\ raw' = [m \in Minute |->
                 IF m \in S
                 THEN upserted(raw[m], source[m], value[m], first_revision(m))
                 ELSE raw[m]]
    /\ revisions' = revisions \cup
         {[minute |-> m, row |-> raw'[m]] :
            m \in {k \in S : /\ raw'[k] # raw[k]
                             /\ \A e \in revisions : ~ /\ e.minute = k
                                                       /\ e.row.revision = raw'[k].revision}}
    /\ \A m \in S : raw'[m].revision <= MaxRevision

\* The coverage of the minutes just written is published in the same transaction.
PublishCoverage(S) ==
    ranges' = mark_verified_raw_blocks(ranges, Present(raw'), S)

upsert_staged_candles(S, source, value) ==
    /\ staging' = [m \in Minute |->
                     IF m \in S THEN upserted(staging[m], source[m], value[m], 1)
                     ELSE staging[m]]
    /\ \A m \in S : staging'[m].revision <= MaxRevision

Historical(m) == m < now - HotMinutes

\* Mutant: coverage is published for the whole batch, before promotion.
commit_batch_claiming(S, source, value) ==
    LET live == {m \in S : ~Historical(m)} IN
    /\ upsert_raw_candles(live, source, value)
    /\ upsert_staged_candles(S \ live, source, value)
    /\ ranges' = FoldSet(LAMBDA iv, r : merge_verified_sync_ranges(r, iv), ranges,
                         contiguous_blocks(S))

\* Recent rows go to raw, older ones to staging only.
commit_batch_in_transaction(S, source, value) ==
    LET live == {m \in S : ~Historical(m)} IN
    /\ upsert_raw_candles(live, source, value)
    /\ PublishCoverage(live)
    /\ upsert_staged_candles(S \ live, source, value)

-----------------------------------------------------------------------------
(* Writers *)

\* A minute ends.
Tick ==
    /\ now < Horizon
    /\ now' = now + 1
    /\ UNCHANGED <<raw, revisions, staging, ranges, deletes>>

\* The pipeline commits closed candles, in order but with any delay.
WsCommit ==
    /\ \E S \in SUBSET (0..(now - 1)) \ {{}} : \E value \in [S -> WsValues] :
         commit_batch_in_transaction(S, [m \in S |-> "binance_ws"], value)
    /\ UNCHANGED <<now, deletes>>

\* A REST response obtained at minute "then" is committed now.  It may lack
\* minutes, and it holds the open minute: get_klines filters nothing out.
RestCommit ==
    /\ \E then \in 0..now : \E S \in SUBSET (0..then) \ {{}} :
         commit_batch_in_transaction(S, [m \in S |-> "binance_rest"],
             [m \in S |-> IF m < then THEN "final" ELSE "partial"])
    /\ UNCHANGED <<now, deletes>>

\* _merge_one_page: a page of staging is copied to raw, proven and deleted.
merge_page(S) ==
    /\ upsert_raw_candles(S, [m \in S |-> staging[m].source],
                             [m \in S |-> staging[m].value])
    /\ PublishCoverage(S)
    /\ staging' = [m \in Minute |-> IF m \in S THEN NoRow ELSE staging[m]]

\* Rows that another transaction locks are not part of the page.
Promote ==
    /\ \E S \in SUBSET Present(staging) \ {{}} : merge_page(S)
    /\ UNCHANGED <<now, deletes>>

\* An operational deletion of a raw row: the trigger withdraws its range.
DeleteRaw ==
    /\ deletes < MaxDeletes
    /\ deletes' = deletes + 1
    /\ \E m \in Present(raw) :
         /\ raw' = [raw EXCEPT ![m] = NoRow]
         /\ ranges' = {r \in ranges : ~Within(m, r)}
    /\ UNCHANGED <<now, revisions, staging>>

Next == Tick \/ WsCommit \/ RestCommit \/ Promote \/ DeleteRaw

Spec == Init /\ [][Next]_vars

-----------------------------------------------------------------------------
(* Properties *)

\* sync_ranges claims a minute only while its canonical row exists, whatever
\* order batches, promotions and deletions come in (the trigger of migration 014
\* never has to reject a range), and no two ranges overlap or touch, although
\* batches meet within a minute.
CoverageIsRaw ==
    /\ Covered(ranges) \subseteq Present(raw)
    /\ \A r, s \in ranges : r = s \/ r[2] + 1 < s[1] \/ s[2] + 1 < r[1]

\* The current values of every raw row are the ledger's entry of its revision,
\* also after a deletion and a new ingestion of the minute.
LedgerRecordsRaw ==
    \A m \in Present(raw) : [minute |-> m, row |-> raw[m]] \in revisions

\* The three tables that speak of a minute agree: coverage, canonical row and
\* revision ledger.
TablesAgree == CoverageIsRaw /\ LedgerRecordsRaw

\* A delayed WebSocket replay never replaces an accepted REST row, and a staged
\* row leaves staging only when its values, or those of a source that ranks
\* higher, are canonical.
PrecedenceHolds ==
    [][/\ \A m \in Minute : raw[m].source = "binance_rest" /\ raw'[m] # NoRow
                             => raw'[m].source = "binance_rest"
       /\ \A m \in Present(staging) : staging'[m] = NoRow =>
            /\ raw'[m] # NoRow
            /\ \/ raw'[m].value = staging[m].value
               \/ source_priority(raw'[m].source) > source_priority(staging[m].source)]_vars

\* A scan cuts its window by the wall clock: ranges and windows in half minutes.
HalfMinutes(R) == {<<2 * r[1], 2 * r[2]>> : r \in R}
Windows == {w \in (0..2 * Horizon) \X (0..2 * Horizon) : w[1] < w[2]}

\* Under every cap, each missing minute of each window lies in a detected gap,
\* and there are no more gaps than the cap allows.
DetectionMissesNothing ==
    \A w \in Windows : \A maxRanges, maxGaps \in 1..2 :
        LET gaps == detect_missing_ranges(HalfMinutes(ranges), w[1], w[2],
                                          maxRanges, maxGaps)
        IN  /\ Len(gaps) <= maxGaps
            /\ \A m \in Minute \ Covered(ranges) : Within(2 * m, w) =>
                  \E i \in DOMAIN gaps : Within(2 * m, gaps[i])

\* A window of whole minutes that are all covered has no gap: the condition
\* on which a repair job completes.
WholeWindowSettles ==
    \A w \in Windows : w[1] % 2 = 0 /\ w[2] % 2 = 0 =>
        ((\A m \in Minute : Within(2 * m, w) => m \in Covered(ranges))
           <=> detect_missing_ranges(HalfMinutes(ranges), w[1], w[2],
                                     Horizon + 1, Horizon + 1) = <<>>)

\* Gap detection under its caps and at the edges of the minutes: it reports all
\* that is missing, and nothing for a window that is covered.
DetectionIsExact == DetectionMissesNothing /\ WholeWindowSettles

\* A closed minute that the asset claims as covered holds the values of the
\* closed minute, not those of a kline that was still open.
CoveredIsFinal ==
    \A m \in Covered(ranges) : m < now => raw[m].value # "partial"
=============================================================================
