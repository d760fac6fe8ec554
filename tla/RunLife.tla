------------------------------ MODULE RunLife ------------------------------
(***************************************************************************)
(* The life of simulation runs as everybody sees it who reads committed    *)
(* rows: the lists and reports of the API, the crons of pipelines and      *)
(* heatmaps, the pages.  A run ends, and only a failure is left again.     *)
(* SimulationRuns implements it, RunsPage uses it.                         *)
(***************************************************************************)
CONSTANT Runs

VARIABLE status

Active == {"queued", "running"}
Ended == {"succeeded", "failed", "cancelled"}

Init == status = [r \in Runs |-> "none"]

(* Launch, claim and return by the reaper, the ends of what waits and of    *)
(* what runs, manual retry.                                                 *)
Moves ==
  {<<"none", "queued">>, <<"queued", "running">>, <<"running", "queued">>, <<"failed", "queued">>}
    \cup ({"queued"} \X (Ended \ {"succeeded"})) \cup ({"running"} \X Ended)

(* One transaction may move several runs.                                   *)
Step ==
  /\ status' \in [Runs -> {"none"} \cup Active \cup Ended]
  /\ \A r \in Runs : status'[r] # status[r] => <<status[r], status'[r]>> \in Moves

Spec == Init /\ [][Step]_status
=============================================================================
