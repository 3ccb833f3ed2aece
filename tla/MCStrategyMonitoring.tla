----------------------- MODULE MCStrategyMonitoring -------------------------
(* StrategyMonitoring for TLC. *)
EXTENDS StrategyMonitoring
=============================================================================
