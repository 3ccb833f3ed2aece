---------------------------- MODULE FencedStore ----------------------------
(***************************************************************************)
(* What the lease and the persistence fence promise together, with Redis,  *)
(* supervisors, heartbeats and transactions abstracted away: canonical     *)
(* candle storage accepts writes from one ownership generation at a time,  *)
(* the current generation is only ever replaced by a newer one, and a      *)
(* generation that was replaced never writes again.                        *)
(*                                                                         *)
(* A generation is a pair <<fencing token, claim>>; NoOwner stands for a   *)
(* shard that has no row in ws_shard_persistence_fences, or no candle yet. *)
(***************************************************************************)
EXTENDS Naturals

VARIABLES current,   \* the generation allowed to write
          writer     \* the generation of the latest committed write

NoOwner == <<0, 0>>

Init == current = NoOwner /\ writer = NoOwner

\* A successor takes over; its fencing token is strictly larger.
Advance == /\ current' \in Nat \X Nat
           /\ current'[1] > current[1]
           /\ UNCHANGED writer

\* The current generation, and no other, commits a batch of candles.
Write == /\ current # NoOwner
         /\ writer' = current
         /\ UNCHANGED current

Next == Advance \/ Write

Spec == Init /\ [][Next]_<<current, writer>>
=============================================================================
