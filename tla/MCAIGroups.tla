----------------------------- MODULE MCAIGroups -----------------------------
(* Three instances in one run: an A/B comparison with one persona batch     *)
(* that nobody cancels, a single test with two batches whose cancellation   *)
(* may overlap everything else, and a single test that nobody cancels with  *)
(* a user who looks at its report.  plan names the instance that a          *)
(* behaviour runs; what belongs to the others stays as it was.              *)
EXTENDS AIPipelineGroup, TLC

CONSTANTS a, b, x, y

VARIABLES
  plan,
  onePipelines, oneStages, oneLeases, oneReservations, oneCurrent, oneEligible,
  oneInitializing, oneSettling, oneCancelling, oneWaiting, oneRetrying, oneCancels,
  viewed, page, initial, tab, call, fetch

Single == INSTANCE AIPipelineGroup
  WITH Pipelines <- {"single"}, Batches <- {x, y}, MaxCancels <- 1,
       pipelines <- onePipelines, stages <- oneStages, leases <- oneLeases,
       reservations <- oneReservations, current <- oneCurrent, eligible <- oneEligible,
       initializing <- oneInitializing, settling <- oneSettling, cancelling <- oneCancelling,
       waiting <- oneWaiting, retrying <- oneRetrying, cancels <- oneCancels

Viewed == INSTANCE AIReportTab
  WITH Pipelines <- {"single"}, Batches <- {x, y}, MaxCancels <- 0, MaxLeases <- 1,
       pipelines <- onePipelines, stages <- oneStages, leases <- oneLeases,
       reservations <- oneReservations, current <- oneCurrent, eligible <- oneEligible,
       initializing <- oneInitializing, settling <- oneSettling, cancelling <- oneCancelling,
       waiting <- oneWaiting, retrying <- oneRetrying, cancels <- oneCancels

oneVars == <<onePipelines, oneStages, oneLeases, oneReservations, oneCurrent, oneEligible,
  oneInitializing, oneSettling, oneCancelling, oneWaiting, oneRetrying, oneCancels>>
viewedVars == <<viewed, page, initial, tab, call, fetch>>
groupVars == <<plan, vars, oneVars, viewedVars>>

GroupsInit ==
  /\ Init /\ Viewed!TabInit
  /\ \/ plan = "comparison" /\ oneEligible
     \/ plan \in {"single", "viewed"} /\ eligible
GroupsNext ==
  /\ UNCHANGED plan
  /\ \/ plan = "comparison" /\ Next /\ UNCHANGED <<oneVars, viewedVars>>
     \/ plan = "single" /\ Single!Next /\ UNCHANGED <<vars, viewedVars>>
     \/ plan = "viewed" /\ Viewed!TabNext /\ UNCHANGED vars
GroupsSpec == GroupsInit /\ [][GroupsNext]_groupVars

Symmetry == Permutations({a, b}) \cup Permutations({x, y})

-----------------------------------------------------------------------------
(* The comparison is checked for the properties of AIPipelineGroup that are *)
(* about its shared chips and its results.  The single test: the fan-in of  *)
(* its batches and its cancellation hold, whatever overlaps, and its user   *)
(* sees a progress that never drops and a report that is there.             *)
SingleTestHolds ==
  /\ [](Single!StagesFollowGraph /\ Viewed!ReportsAreWhole)
  /\ Single!NoWorkAfterCancel /\ Viewed!ProgressNeverDrops
=============================================================================
