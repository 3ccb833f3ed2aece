--------------------------- MODULE MCCaggRefresh ----------------------------
(* Instances of CaggRefresh for TLC; the .cfg files give the bounds.         *)
EXTENDS CaggRefresh, TLC

\* Workers are interchangeable: no action or property names one of them.
WorkerSymmetry == Permutations(Refresher)
=============================================================================
