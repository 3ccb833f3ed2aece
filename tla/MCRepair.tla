----------------------------- MODULE MCRepair -------------------------------
(* Gap repair with the historical merger, for TLC.                            *)
EXTENDS HistoricalMerge, TLC

WorkerSymmetry == Permutations(GapWorker) \cup Permutations(MergeWorker)
=============================================================================
