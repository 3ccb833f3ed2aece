--------------------------- MODULE MCCandleStore ----------------------------
(* Instances of CandleStore for TLC; the .cfg files give the bounds.         *)
EXTENDS CandleStore
=============================================================================
