-------------------------- MODULE MCShardOwnership --------------------------
(* Instances of ShardOwnership for TLC. *)
EXTENDS ShardOwnership, TLC

\* Workers are interchangeable: no action or property names one of them.
WorkerSymmetry == Permutations(Worker)
=============================================================================
