-------------------------- MODULE MCPoolCollection --------------------------
(* Small instances of PoolCollection.  c1 only runs collect_all; c2 mixes   *)
(* the three operations, or, for liveness, competes with "raw" sweeps, the  *)
(* only other operation that takes sources out of c1's reach.               *)
EXTENDS PoolCollection, TLC

CONSTANTS c1, c2

AllAgainstAnything == c1 :> {"all"} @@ c2 :> {"all", "enabled", "raw"}
AllAgainstRaw == c1 :> {"all"} @@ c2 :> {"raw"}
=============================================================================
