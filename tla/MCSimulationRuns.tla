-------------------------- MODULE MCSimulationRuns --------------------------
(* Model-checking instances of SimulationRuns: an A/B comparison (two runs  *)
(* in one launch) and single tests (one run per launch).                    *)
EXTENDS SimulationRuns, TLC

CONSTANTS g1, g2, a, b

OneComparison == (a :> g1) @@ (b :> g1)
TwoTests == (a :> g1) @@ (b :> g2)
=============================================================================
