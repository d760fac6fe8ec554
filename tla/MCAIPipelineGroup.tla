-------------------------- MODULE MCAIPipelineGroup --------------------------
(* Model-checking instances of AIPipelineGroup: an A/B comparison and single *)
(* tests, with one or two persona batches.                                   *)
EXTENDS AIPipelineGroup, TLC

CONSTANTS a, b, x, y

Symmetry == Permutations(Pipelines) \cup Permutations(Batches)

(* The behaviours in which nobody cancels.                                  *)
UncancelledNext == Initialization \/ Worker \/ Settle \/ RetryRequest
UncancelledSpec == Init /\ [][UncancelledNext]_vars /\ Fairness
=============================================================================
