--------------------------- MODULE AnalysisOutcome --------------------------
(***************************************************************************)
(* What a simulation run relies on of its page analysis: once created it   *)
(* is pending until it succeeds or fails for good; a success is never      *)
(* taken back; only a failure that may pass is started again.  PageAnalysis *)
(* implements it, SimulationRuns uses it.                                  *)
(***************************************************************************)
CONSTANT Analyses

VARIABLE analysis

Init == analysis = [a \in Analyses |-> "none"]

Settled == {"succeeded", "failed", "rejected"}

(* One transaction may settle or start several analyses.                   *)
Moves ==
  {<<"none", "pending">>, <<"failed", "pending">>} \cup ({"pending"} \X Settled)

Step ==
  /\ analysis' \in [Analyses -> {"none", "pending"} \cup Settled]
  /\ \A a \in Analyses : analysis'[a] # analysis[a] => <<analysis[a], analysis'[a]>> \in Moves

(* The analysis of a settles.                                              *)
Settle(a) == Step /\ analysis[a] = "pending" /\ analysis'[a] \in Settled

Spec == Init /\ [][Step]_analysis
FairSpec == Spec /\ \A a \in Analyses : WF_analysis(Settle(a))
=============================================================================
