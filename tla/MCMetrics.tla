------------------------------ MODULE MCMetrics ------------------------------
(* Model checking of Metrics: four ids, used in any order by any     *)
(* caller.                                                                   *)
EXTENDS Metrics, TLC

Ids == Permutations(CallId)
=============================================================================
