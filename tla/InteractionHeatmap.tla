------------------------- MODULE InteractionHeatmap -------------------------
(***************************************************************************)
(* The interaction-heatmap jobs of one launch group: claim, provider call, *)
(* compare-and-set persistence, reaper and chip settlement of              *)
(* backend/app/services/ai_interaction_heatmap/worker.py, next to the      *)
(* baseline runs that feed them (simulation_worker.py).                    *)
(*                                                                         *)
(* A claim is one transaction under the advisory and row locks of its run. *)
(* The provider is called outside any transaction, so an answer may come   *)
(* after the job was reaped and claimed again.  Settlement reads the runs  *)
(* in one statement and the reservation and the jobs in later ones; that   *)
(* it also settles from a stale reservation object is ChipLedger's Preload.*)
(* Baseline runs are reduced to their outcome; SimulationRuns has the rest.*)
(***************************************************************************)
EXTENDS Naturals, Sequences

CONSTANTS
  Runs,               \* the runs of one launch, all with the heatmap module
  HeatmapMaxAttempts, \* MAX_ATTEMPTS
  MaxBaselineRetries  \* bound: manual retries of a failed baseline run

ASSUME HeatmapAssumption == HeatmapMaxAttempts \in Nat /\ MaxBaselineRetries \in Nat

(* What the claim finds in the run's snapshot and page analysis.  Usable    *)
(* evidence has a fingerprint: the runs with "same" evidence share it.      *)
Evidence == {"unusable", "no_candidates", "same", "own"}

VARIABLES
  baseline,     \* SimulationRun.status, reduced
  evidence,     \* fixed when the run is launched
  heatmap,      \* interaction_heatmaps: status, attempt_count, and the attempt that gave the result
  providerCalls,\* _ClaimedWork held by workers that wait for the provider
  reservations, \* status of every heatmap reservation of the group; the runs name the last
  settlement,   \* a settlement session after it has read the runs
  retried       \* baseline retries so far

heatmapVars ==
  <<baseline, evidence, heatmap, providerCalls, reservations, settlement, retried>>

NoSettlement == [seen |-> "nothing", id |-> 0]
NoJob == [status |-> "none", attempts |-> 0, by |-> 0]
Finished == {"succeeded", "failed"}

HeatmapTypeOK ==
  /\ baseline \in [Runs -> {"none", "active", "succeeded", "failed"}]
  /\ evidence \in [Runs -> Evidence]
  /\ heatmap \in [Runs -> [status : {"none", "queued", "running"} \cup Finished,
                           attempts : 0..HeatmapMaxAttempts, by : 0..HeatmapMaxAttempts]]
  /\ providerCalls \subseteq [run : Runs, attempt : 1..HeatmapMaxAttempts]
  /\ reservations \in Seq({"reserved", "consumed", "released"})
  /\ settlement \in [seen : {"nothing", "active", "succeeded", "failed"}, id : Nat]
  /\ retried \in 0..MaxBaselineRetries

HeatmapInit ==
  /\ baseline = [r \in Runs |-> "none"]
  /\ evidence = [r \in Runs |-> "unusable"]
  /\ heatmap = [r \in Runs |-> NoJob]
  /\ providerCalls = {}
  /\ reservations = <<>>
  /\ settlement = NoSettlement
  /\ retried = 0

Current == Len(reservations)

-----------------------------------------------------------------------------
(* The baseline.                                                            *)

(* launch_draft: one reservation for all runs of the launch.                *)
Launch(e) ==
  /\ reservations = <<>>
  /\ baseline' = [r \in Runs |-> "active"]
  /\ evidence' = e
  /\ reservations' = <<"reserved">>
  /\ UNCHANGED <<heatmap, providerCalls, settlement, retried>>

(* A run becomes terminal and resolves its group under the group lock: when *)
(* all are terminal and one failed, a reservation still held is released.   *)
EndBaseline(r, outcome) ==
  /\ baseline[r] = "active"
  /\ baseline' = [baseline EXCEPT ![r] = outcome]
  /\ reservations' =
       IF (\A q \in Runs : baseline'[q] \in Finished) /\ (\E q \in Runs : baseline'[q] = "failed")
          /\ reservations[Current] = "reserved"
       THEN [reservations EXCEPT ![Current] = "released"]
       ELSE reservations
  /\ UNCHANGED <<evidence, heatmap, providerCalls, settlement, retried>>

(* retry_run: a reservation that is no longer held is replaced for all      *)
(* runs of the group.                                                       *)
RetryBaseline(r) ==
  /\ baseline[r] = "failed"
  /\ retried < MaxBaselineRetries
  /\ baseline' = [baseline EXCEPT ![r] = "active"]
  /\ reservations' = IF reservations[Current] = "reserved" THEN reservations
                     ELSE Append(reservations, "reserved")
  /\ retried' = retried + 1
  /\ UNCHANGED <<evidence, heatmap, providerCalls, settlement>>

-----------------------------------------------------------------------------
(* The jobs.                                                                *)

(* _find_eligible_run_ids: a succeeded run without a job, or a queued job.  *)
Eligible(r) ==
  /\ baseline[r] = "succeeded"
  /\ heatmap[r].status \in {"none", "queued"}
  /\ heatmap[r].attempts < HeatmapMaxAttempts

(* _find_reusable_result: a stored result with the same fingerprint.        *)
Reusable(r) ==
  /\ evidence[r] = "same"
  /\ \E q \in Runs \ {r} : evidence[q] = "same" /\ heatmap[q].status = "succeeded"

(* _claim_run up to the commit.  What needs no provider is decided here:    *)
(* missing evidence or a rejected target task fails for good, a page        *)
(* without candidates and a reusable result succeed.                        *)
ClaimRun(r) ==
  /\ Eligible(r)
  /\ LET n == heatmap[r].attempts + 1
         outcome == IF evidence[r] = "unusable" THEN "failed"
                    ELSE IF evidence[r] = "no_candidates" \/ Reusable(r) THEN "succeeded"
                    ELSE "running"
     IN /\ heatmap' = [heatmap EXCEPT ![r] = [status |-> outcome, attempts |-> n, by |-> @.by]]
        /\ providerCalls' = IF outcome = "running" THEN providerCalls \cup {[run |-> r, attempt |-> n]}
                            ELSE providerCalls
  /\ UNCHANGED <<baseline, evidence, reservations, settlement, retried>>

(* Mutant: the attempt is not compared.                                     *)
StillRunningAnyAttempt(c) == heatmap[c.run].status = "running"

(* Mutant: the status is not compared.                                      *)
StillRunningAnyStatus(c) == heatmap[c.run].attempts = c.attempt

(* _reload_running: the row is locked and must be in the claimed attempt.   *)
StillRunning(c) ==
  /\ heatmap[c.run].status = "running"
  /\ heatmap[c.run].attempts = c.attempt

(* The call has returned: what the worker does with a superseded answer is  *)
(* nothing.                                                                 *)
Persist(c, status, by) ==
  /\ providerCalls' = providerCalls \ {c}
  /\ heatmap' = IF StillRunning(c)
                THEN [heatmap EXCEPT ![c.run] =
                        [status |-> status, attempts |-> @.attempts, by |-> by]]
                ELSE heatmap
  /\ UNCHANGED <<baseline, evidence, reservations, settlement, retried>>

(* A valid answer, or the deterministic ranking in place of an empty one.   *)
PersistSuccess(c) == Persist(c, "succeeded", c.attempt)

(* A provider error, retryable or not, or an answer that names an unknown   *)
(* or repeated candidate.                                                   *)
PersistFailure(c, retryable) ==
  Persist(c, IF retryable /\ c.attempt < HeatmapMaxAttempts THEN "queued" ELSE "failed", 0)

(* An unexpected exception or the death of the worker: the job stays        *)
(* running.                                                                 *)
LoseCall(c) ==
  /\ providerCalls' = providerCalls \ {c}
  /\ UNCHANGED <<baseline, evidence, heatmap, reservations, settlement, retried>>

(* reap_stale_interaction_heatmaps.  Whether the worker still waits is not  *)
(* known.                                                                   *)
Reap(r) ==
  /\ heatmap[r].status = "running"
  /\ heatmap' = [heatmap EXCEPT ![r].status =
                   IF heatmap[r].attempts < HeatmapMaxAttempts THEN "queued" ELSE "failed"]
  /\ UNCHANGED <<baseline, evidence, providerCalls, reservations, settlement, retried>>

-----------------------------------------------------------------------------
(* Settlement.                                                              *)

(* _settle_one_group up to the SELECT of the runs.                          *)
SettleReadRuns ==
  /\ settlement = NoSettlement
  /\ reservations # <<>>
  /\ reservations[Current] = "reserved"
  /\ settlement' =
       [id |-> Current,
        seen |-> IF \E r \in Runs : baseline[r] = "failed" THEN "failed"
                 ELSE IF \A r \in Runs : baseline[r] = "succeeded" THEN "succeeded"
                 ELSE "active"]
  /\ UNCHANGED <<baseline, evidence, heatmap, providerCalls, reservations, retried>>

(* Mutant: a missing job counts as finished.                                *)
VerdictWithoutCount ==
  IF settlement.seen = "failed" \/ \E r \in Runs : heatmap[r].status = "failed" THEN "released"
  ELSE IF settlement.seen = "succeeded"
          /\ \A r \in Runs : heatmap[r].status \in {"none", "succeeded"} THEN "consumed"
  ELSE "reserved"

(* Mutant: a failed job keeps the group waiting.                            *)
VerdictWithoutFailure ==
  IF settlement.seen = "failed" THEN "released"
  ELSE IF settlement.seen = "succeeded"
          /\ \A r \in Runs : heatmap[r].status = "succeeded" THEN "consumed"
  ELSE "reserved"

(* What the runs read earlier and the jobs read now say: released as soon   *)
(* as one failed, consumed when every run has a result, else wait.          *)
Verdict ==
  IF settlement.seen = "failed" THEN "released"
  ELSE IF settlement.seen = "succeeded" /\ \A r \in Runs : heatmap[r].status # "none"
  THEN IF \E r \in Runs : heatmap[r].status = "failed" THEN "released"
       ELSE IF \A r \in Runs : heatmap[r].status = "succeeded" THEN "consumed" ELSE "reserved"
  ELSE "reserved"

(* The rest of _settle_one_group, with _finish_settlement.                  *)
SettleFinish ==
  /\ settlement # NoSettlement
  /\ reservations' = IF reservations[settlement.id] = "reserved"
                     THEN [reservations EXCEPT ![settlement.id] = Verdict] ELSE reservations
  /\ settlement' = NoSettlement
  /\ UNCHANGED <<baseline, evidence, heatmap, providerCalls, retried>>

-----------------------------------------------------------------------------
Settle == SettleReadRuns \/ SettleFinish

HeatmapNext ==
  \/ \E e \in [Runs -> Evidence] : Launch(e)
  \/ \E r \in Runs :
       \/ \E outcome \in Finished : EndBaseline(r, outcome)
       \/ RetryBaseline(r)
       \/ ClaimRun(r)
       \/ Reap(r)
  \/ \E c \in providerCalls :
       \/ PersistSuccess(c)
       \/ \E retryable \in BOOLEAN : PersistFailure(c, retryable)
       \/ LoseCall(c)
  \/ SettleReadRuns
  \/ SettleFinish

HeatmapSpec == HeatmapInit /\ [][HeatmapNext]_heatmapVars

-----------------------------------------------------------------------------
(* Chips for heatmaps are spent only when every run of the launch has its   *)
(* result, although the settlement reads the runs and the jobs at different *)
(* times and jobs are reaped and claimed meanwhile.                         *)
SpentOnlyForHeatmaps ==
  \A i \in 1..Len(reservations) :
    reservations[i] = "consumed" => \A r \in Runs : heatmap[r].status = "succeeded"

(* A stored result comes from the last claim of its job: an answer that     *)
(* arrives after the reaper gave the job to another attempt is dropped.     *)
ResultOfLastAttempt ==
  \A r \in Runs : heatmap[r].by # 0 =>
    heatmap[r].status = "succeeded" /\ heatmap[r].by = heatmap[r].attempts

(* A finished job is never touched again: not by a late answer, not by the  *)
(* reaper, and not by a retry of the other run's baseline.                  *)
FinishedStays ==
  [][\A r \in Runs : heatmap[r].status \in Finished => heatmap'[r] = heatmap[r]]_heatmap

(* A job begins only while the chips of the launch are held or spent:       *)
(* simulation_worker.py says that no job is created once a failed baseline  *)
(* has released them.  The claim looks at its own run only.                 *)
NoJobForReleasedChips ==
  [][\A r \in Runs :
       heatmap[r].status = "none" /\ heatmap'[r].status # "none"
         => reservations[Current] # "released"]_heatmapVars

(* The heatmaps that were delivered are paid for.  Not an invariant: a      *)
(* settlement that read a failed run before its retry releases the chips    *)
(* after both heatmaps are there.                                           *)
DeliveredIsPaid ==
  (\A r \in Runs : heatmap[r].status = "succeeded") /\ (\A r \in Runs : baseline[r] = "succeeded")
    => reservations[Current] # "released"
=============================================================================
