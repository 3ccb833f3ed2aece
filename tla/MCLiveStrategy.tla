-------------------------- MODULE MCLiveStrategy ----------------------------
(* LiveStrategy for TLC. *)
EXTENDS LiveStrategy

\* A second asset with one candle: three bars are needed for a gap, and two
\* assets for the rotation.
UnevenFeed == {<<1, 1>>, <<1, 2>>, <<1, 3>>, <<2, 1>>}
=============================================================================
