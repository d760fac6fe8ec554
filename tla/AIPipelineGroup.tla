--------------------------- MODULE AIPipelineGroup ---------------------------
(***************************************************************************)
(* The AI report of one launch group: services/ai_pipeline of the backend. *)
(* worker.py runs the stages of a pipeline one by one, lifecycle.py        *)
(* creates the pipelines of the group and settles their shared chip        *)
(* reservation, mutations.py retries and cancels the group for the user.   *)
(*                                                                         *)
(* A stage execution spans three transactions (claim, pin, persist) and a  *)
(* provider call between them; between two of its transactions it is a     *)
(* lease, the ClaimedAIStage it carries.  Each of these transactions, and  *)
(* the reaper's for each stage, holds the lock of the stage row all the    *)
(* while (those that persist a result the pipeline's too) and is one step. *)
(* Cancel, retry and settlement read without row locks: each is an open    *)
(* transaction from its reads to its commit, one of each kind at a time    *)
(* under an advisory lock of that kind; settlement and retry read in one   *)
(* step, cancel in two.  The worker locks stage and then pipeline, cancel  *)
(* and retry write both: the deadlocks Postgres breaks are a lost lease or *)
(* an aborted request.                                                     *)
(*                                                                         *)
(* Simplifications: the provider configuration does not change (a changed  *)
(* one is a permanent failure); a stage that runs again gives the same     *)
(* output, so its successors have the same idempotency keys; error codes   *)
(* are kept for failed stages only and as the three classes the code       *)
(* distinguishes; PARTIAL and SKIPPED are never assigned by the code.      *)
(***************************************************************************)
EXTENDS Naturals, FiniteSets

CONSTANTS
  Pipelines,    \* one per simulation run of the group
  Batches,      \* persona batches of a pipeline
  MaxAttempts,  \* MAX_STAGE_ATTEMPTS
  MaxRetries,   \* bound: manual retries of the group
  MaxCancels,   \* bound: cancel requests
  MaxLeases,    \* bound: stages executed at the same time
  Idle          \* no open transaction

ASSUME SizeAssumption == IsFiniteSet(Batches) /\ Batches # {} /\ Pipelines # {}
ASSUME BoundAssumption ==
  MaxAttempts \in Nat \ {0} /\ MaxRetries \in Nat /\ MaxCancels \in Nat /\ MaxLeases \in Nat \ {0}
ASSUME IdleAssumption == Idle \notin {"record", "release"}
ASSUME KindAssumption ==
  Batches \cap {"evidence", "batching", "scenario", "aggregation", "uxreport"} = {}

VARIABLES
  pipelines,     \* AIPipelineRun: status, cancel_requested, manual_retry_count
  stages,        \* AIPipelineStage: status, attempt_count, error_code, validated_output
  leases,        \* stage executions of live workers
  reservations,  \* the reservation of each charge: the launch, then every manual retry
  current,       \* ai_chip_reservation_id of the runs: the number of that charge
  eligible,      \* the run has its report and a valid persona set
  initializing,  \* the rest of an initialization that failed for good
  settling,      \* the open settlement transaction
  cancelling,    \* the open cancel request
  waiting,       \* the charges read by retry requests that wait for the lock
  retrying,      \* the open retry request that holds the lock
  cancels        \* cancel requests so far

rows == <<pipelines, stages>>
requests == <<settling, cancelling, waiting, retrying, cancels>>
money == <<reservations, current>>
vars == <<rows, leases, money, eligible, initializing, requests>>

Kinds == {"evidence", "batching", "scenario", "aggregation", "uxreport"} \cup Batches
ProviderKinds == {"scenario", "uxreport"} \cup Batches
Charges == 0..MaxRetries

PipelineStatuses == {"none", "queued", "running", "succeeded", "failed", "cancelled"}
StageStatuses == {"absent", "queued", "running", "succeeded", "failed", "cancelled"}
Runnable == {"queued", "running"}
TerminalPipeline == {"succeeded", "failed", "cancelled"}

(* What a failure allows: a transient one both retries, a content one (a    *)
(* banned claim, a bad reference) the automatic retry only, a permanent one *)
(* neither; "stale" is the reaper's, open to a manual retry.                *)
AutoRetryable == {"transient", "content"}
ManualRetryable == {"transient", "stale"}
Errors == {"transient", "content", "permanent"}

Stage == [status : StageStatuses, attempts : 0..MaxAttempts, error : Errors \cup {"none", "stale"},
          output : BOOLEAN]
Lease == [pipeline : Pipelines, kind : Kinds, attempts : 1..MaxAttempts, generation : Charges,
          phase : {"claimed", "prepared", "cancelled", "running"}]
Settlement == [charge : Charges, outcome : {"consumed", "released"}]
Cancellation == [charge : Charges, active : SUBSET Pipelines, completed : BOOLEAN,
                 marked : {Idle} \cup [Pipelines -> SUBSET Kinds], refund : BOOLEAN]

PipelineRows == [Pipelines -> [status : PipelineStatuses, cancelRequested : BOOLEAN,
                               generation : Charges]]
StageRows == [Pipelines -> [Kinds -> Stage]]
Retry == [pipelines : PipelineRows, stages : StageRows]

TypeOK ==
  /\ pipelines \in PipelineRows
  /\ stages \in StageRows
  /\ leases \subseteq Lease
  /\ reservations \in [Charges -> {"none", "reserved", "consumed", "released"}]
  /\ current \in Charges
  /\ eligible \in BOOLEAN
  /\ initializing \in {Idle, "record", "release"}
  /\ settling \in Settlement \cup {Idle}
  /\ cancelling \in Cancellation \cup {Idle}
  /\ waiting \subseteq Charges
  /\ retrying \in Retry \cup {Idle}
  /\ cancels \in 0..MaxCancels

Absent == [status |-> "absent", attempts |-> 0, error |-> "none", output |-> FALSE]

(* Updates of a stage row that leave its output alone.                      *)
Become(stage, status, attempts, error) ==
  [status |-> status, attempts |-> attempts, error |-> error, output |-> stage.output]
Queued == Become(Absent, "queued", 0, "none")
SetStage(p, k, stage) == stages' = [stages EXCEPT ![p] = [stages[p] EXCEPT ![k] = stage]]

(* All runs of the group succeeded and the launch reserved the chips.       *)
Init ==
  /\ pipelines = [p \in Pipelines |-> [status |-> "none", cancelRequested |-> FALSE, generation |-> 0]]
  /\ stages = [p \in Pipelines |-> [k \in Kinds |-> Absent]]
  /\ leases = {}
  /\ reservations = [c \in Charges |-> IF c = 0 THEN "reserved" ELSE "none"]
  /\ current = 0
  /\ eligible \in BOOLEAN
  /\ initializing = Idle
  /\ settling = Idle
  /\ cancelling = Idle
  /\ waiting = {}
  /\ retrying = Idle
  /\ cancels = 0

Every(status) == \A p \in Pipelines : pipelines[p].status = status
Succeeded(p, K) == \A k \in K : stages[p][k].status = "succeeded"

-----------------------------------------------------------------------------
(* lifecycle._process_one_init_group: the pipelines of all runs in one      *)
(* transaction, each with its first stage.  A released reservation is the   *)
(* legacy recovery; a consumed one is left alone.                           *)
InitializeGroup ==
  /\ Every("none")
  /\ eligible
  /\ reservations[current] \in {"reserved", "released"}
  /\ pipelines' = [p \in Pipelines |-> [pipelines[p] EXCEPT !.status = "queued"]]
  /\ stages' = [p \in Pipelines |-> [stages[p] EXCEPT !["evidence"] = Queued]]
  /\ UNCHANGED <<leases, money, eligible, initializing, requests>>

InitializationFails ==
  /\ Every("none")
  /\ ~eligible
  /\ initializing = Idle
  /\ reservations[current] \in {"reserved", "released"}
  /\ initializing' = "record"
  /\ UNCHANGED <<rows, leases, money, eligible, requests>>

(* _record_group_initialization_failure: a failed pipeline for every run.   *)
(* Any error of this transaction is swallowed.                              *)
RecordInitializationFailure ==
  /\ initializing = "record"
  /\ initializing' = "release"
  /\ \/ UNCHANGED rows
     \/ /\ pipelines' = [p \in Pipelines |-> [pipelines[p] EXCEPT !.status = "failed"]]
        /\ stages' = [p \in Pipelines |-> [stages[p] EXCEPT !["evidence"] =
                        Become(Absent, "failed", 0, "permanent")]]
  /\ UNCHANGED <<leases, money, eligible, requests>>

(* _release_for_permanent_error, in a session that has read nothing before. *)
ReleaseForPermanentError ==
  /\ initializing = "release"
  /\ initializing' = Idle
  /\ reservations' = IF reservations[current] = "reserved"
                     THEN [reservations EXCEPT ![current] = "released"] ELSE reservations
  /\ UNCHANGED <<rows, leases, current, eligible, requests>>

(* The worker dies between those transactions; the next cycle finds a group *)
(* without pipelines again, or nothing to do.                               *)
LoseInitialization ==
  /\ initializing # Idle
  /\ initializing' = Idle
  /\ UNCHANGED <<rows, leases, money, eligible, requests>>

-----------------------------------------------------------------------------
Claimed(p, k) ==
  [pipeline |-> p, kind |-> k, attempts |-> stages[p][k].attempts + 1,
   generation |-> pipelines[p].generation, phase |-> "claimed"]

(* Mutant: the pipeline is not looked at.                                   *)
ClaimableAlone(p, k) == stages[p][k].status = "queued"

Claimable(p, k) ==
  /\ stages[p][k].status = "queued"
  /\ pipelines[p].status \in Runnable
  /\ ~pipelines[p].cancelRequested

(* claim_next_ai_stage.  SKIP LOCKED makes every order possible.  The lock  *)
(* of the stage does not cover the look at its pipeline: one step all the   *)
(* same.                                                                    *)
ClaimNextAIStage(p, k) ==
  /\ Claimable(p, k)
  /\ Cardinality(leases) < MaxLeases
  /\ SetStage(p, k, Become(stages[p][k], "running", stages[p][k].attempts + 1, stages[p][k].error))
  /\ pipelines' = [pipelines EXCEPT ![p].status = "running"]
  /\ leases' = leases \cup {Claimed(p, k)}
  /\ UNCHANGED <<money, eligible, initializing, requests>>

(* The outputs _prepare_stage_execution reads; without one of them it       *)
(* raises, and the lease is lost.                                           *)
Inputs(k) ==
  CASE k = "evidence" -> {}
    [] k \in {"batching", "scenario"} -> {"evidence"}
    [] k \in Batches -> {"evidence", "batching", "scenario"}
    [] k = "aggregation" -> {"scenario"}
    [] k = "uxreport" -> {"evidence", "aggregation"}

(* _prepare_stage_execution, with the cancel check before it.               *)
PrepareStageExecution(l) ==
  /\ l.phase = "claimed"
  /\ \/ /\ pipelines[l.pipeline].cancelRequested \/ pipelines[l.pipeline].status = "cancelled"
        /\ leases' = (leases \ {l}) \cup {[l EXCEPT !.phase = "cancelled"]}
     \/ /\ ~pipelines[l.pipeline].cancelRequested
        /\ pipelines[l.pipeline].status # "cancelled"
        /\ Succeeded(l.pipeline, Inputs(l.kind))
        /\ leases' = (leases \ {l}) \cup
             {[l EXCEPT !.phase = IF l.kind \in ProviderKinds THEN "prepared" ELSE "running"]}
  /\ UNCHANGED <<rows, money, eligible, initializing, requests>>

(* Mutant: any execution of this generation is taken for the current one.   *)
CurrentWithoutAttempts(l) ==
  /\ stages[l.pipeline][l.kind].status = "running"
  /\ pipelines[l.pipeline].generation = l.generation

(* _relock_for_persist: does the row still belong to this execution?        *)
Current(l) ==
  /\ stages[l.pipeline][l.kind].status = "running"
  /\ stages[l.pipeline][l.kind].attempts = l.attempts
  /\ pipelines[l.pipeline].generation = l.generation

(* Mutant: a stage result is accepted whatever has become of the pipeline.  *)
CurrentIfNotFailed(l) == Current(l) /\ pipelines[l.pipeline].status # "failed"

CurrentAndRunnable(l) ==
  /\ Current(l)
  /\ pipelines[l.pipeline].status \in Runnable
  /\ ~pipelines[l.pipeline].cancelRequested

(* _pin_provider_execution, just before the provider is called.             *)
PinProviderExecution(l) ==
  /\ l.phase = "prepared"
  /\ CurrentAndRunnable(l)
  /\ leases' = (leases \ {l}) \cup {[l EXCEPT !.phase = "running"]}
  /\ UNCHANGED <<rows, money, eligible, initializing, requests>>

(* A result that is rejected, an exception, or a worker that dies: the row  *)
(* keeps what it has.                                                       *)
DropLease(l) ==
  /\ leases' = leases \ {l}
  /\ UNCHANGED <<rows, money, eligible, initializing, requests>>

(* Mutant: the stage that just finished is not counted.                     *)
ReadySuccessorsMissingOne(p, k) ==
  CASE k = "evidence" -> {"batching"}
    [] k = "batching" -> {"scenario"}
    [] k = "scenario" -> Batches
    [] k \in Batches -> IF Succeeded(p, Batches) THEN {"aggregation"} ELSE {}
    [] k = "aggregation" -> {"uxreport"}
    [] k = "uxreport" -> {}

(* Mutant: the first finished batch starts the aggregation.                 *)
ReadySuccessorsEarly(p, k) ==
  CASE k = "evidence" -> {"batching"}
    [] k = "batching" -> {"scenario"}
    [] k = "scenario" -> Batches
    [] k \in Batches -> {"aggregation"}
    [] k = "aggregation" -> {"uxreport"}
    [] k = "uxreport" -> {}

(* enqueue_ready_successors: the stages that follow the success of k.       *)
ReadySuccessors(p, k) ==
  CASE k = "evidence" -> {"batching"}
    [] k = "batching" -> {"scenario"}
    [] k = "scenario" -> Batches
    [] k \in Batches -> IF Succeeded(p, Batches \ {k}) THEN {"aggregation"} ELSE {}
    [] k = "aggregation" -> {"uxreport"}
    [] k = "uxreport" -> {}

(* The outputs enqueue_ready_successors needs for their input hashes;       *)
(* without one of them the transaction is rolled back.                      *)
SuccessorInputs(k) ==
  CASE k \in {"batching", "aggregation"} -> {"evidence"}
    [] k = "scenario" -> {"evidence", "batching"}
    [] k \in Batches -> {"batching", "scenario"}
    [] k \in {"evidence", "uxreport"} -> {}

(* persist_stage_success: the result, the successors that do not exist yet, *)
(* and the end of the pipeline in one transaction.                          *)
PersistStageSuccess(l) ==
  LET p == l.pipeline
      k == l.kind
      new == {s \in ReadySuccessors(p, k) : stages[p][s].status = "absent"}
  IN
  /\ l.phase = "running"
  /\ CurrentAndRunnable(l)
  /\ Succeeded(p, SuccessorInputs(k))
  /\ stages' = [stages EXCEPT ![p] = [s \in Kinds |->
       IF s = k THEN [status |-> "succeeded", attempts |-> stages[p][k].attempts,
                      error |-> "none", output |-> TRUE]
       ELSE IF s \in new THEN Queued ELSE stages[p][s]]]
  /\ pipelines' = IF k = "uxreport" THEN [pipelines EXCEPT ![p].status = "succeeded"] ELSE pipelines
  /\ leases' = leases \ {l}
  /\ UNCHANGED <<money, eligible, initializing, requests>>

(* persist_stage_failure, reached from a failed configuration check or from *)
(* an error that allows no further attempt.  It does not ask whether the    *)
(* pipeline is still runnable.                                              *)
PersistStageFailure(l, error) ==
  LET row == stages[l.pipeline][l.kind] IN
  /\ \/ l.phase = "prepared" /\ error = "permanent"
     \/ l.phase = "running" /\ (error \in AutoRetryable => l.attempts >= MaxAttempts)
  /\ Current(l)
  /\ SetStage(l.pipeline, l.kind, Become(row, "failed", row.attempts, error))
  /\ pipelines' = [pipelines EXCEPT ![l.pipeline].status = "failed"]
  /\ leases' = leases \ {l}
  /\ UNCHANGED <<money, eligible, initializing, requests>>

(* persist_stage_retry: the automatic retry of a retryable error.           *)
PersistStageRetry(l) ==
  /\ l.phase = "running"
  /\ l.attempts < MaxAttempts
  /\ CurrentAndRunnable(l)
  /\ SetStage(l.pipeline, l.kind, [stages[l.pipeline][l.kind] EXCEPT !.status = "queued"])
  /\ leases' = leases \ {l}
  /\ UNCHANGED <<pipelines, money, eligible, initializing, requests>>

PersistCancellation(l) ==
  /\ l.phase = "cancelled"
  /\ Current(l)
  /\ SetStage(l.pipeline, l.kind, [stages[l.pipeline][l.kind] EXCEPT !.status = "cancelled"])
  /\ pipelines' = [pipelines EXCEPT ![l.pipeline].status = "cancelled"]
  /\ leases' = leases \ {l}
  /\ UNCHANGED <<money, eligible, initializing, requests>>

(* Mutant: one attempt too many.                                            *)
ReapedOnceMore(p, k) ==
  IF pipelines[p].cancelRequested \/ pipelines[p].status = "cancelled" THEN "cancelled"
  ELSE IF stages[p][k].attempts <= MaxAttempts THEN "queued" ELSE "failed"

(* reap_stale_ai_stages, for a stage that has been running for too long,    *)
(* whether its worker is dead or only slow.                                 *)
Reaped(p, k) ==
  IF pipelines[p].cancelRequested \/ pipelines[p].status = "cancelled" THEN "cancelled"
  ELSE IF stages[p][k].attempts < MaxAttempts THEN "queued" ELSE "failed"

ReapStaleAIStage(p, k) ==
  /\ stages[p][k].status = "running"
  /\ pipelines[p].status \in Runnable \cup {"cancelled"}
  /\ SetStage(p, k, Become(stages[p][k], Reaped(p, k), stages[p][k].attempts,
                           IF Reaped(p, k) = "failed" THEN "stale" ELSE stages[p][k].error))
  /\ pipelines' = IF Reaped(p, k) = "queued" THEN pipelines
                  ELSE [pipelines EXCEPT ![p].status = Reaped(p, k)]
  /\ UNCHANGED <<leases, money, eligible, initializing, requests>>

-----------------------------------------------------------------------------
(* Mutant: pipelines that still run are not waited for.                     *)
SettlementOutcomeAtOnce == {IF Every("succeeded") THEN "consumed" ELSE "released"}

(* Mutant: the first finished pipeline consumes.                            *)
SettlementOutcomeOfOne ==
  IF \E p \in Pipelines : pipelines[p].status \in {"failed", "cancelled"} THEN {"released"}
  ELSE IF \E p \in Pipelines : pipelines[p].status = "succeeded" THEN {"consumed"}
  ELSE {}

(* The decision of _process_one_settlement_group; none while it waits.      *)
SettlementOutcome ==
  IF \E p \in Pipelines : pipelines[p].status \in {"failed", "cancelled"} THEN {"released"}
  ELSE IF Every("succeeded") THEN {"consumed"}
  ELSE {}

SettlementReads(outcome) ==
  /\ settling = Idle
  /\ reservations[current] = "reserved"
  /\ \A p \in Pipelines : pipelines[p].status # "none"
  /\ outcome \in SettlementOutcome
  /\ settling' = [charge |-> current, outcome |-> outcome]
  /\ UNCHANGED <<rows, leases, money, eligible, initializing, cancelling, waiting, retrying, cancels>>

(* The reservation read above is still in the session when its row is       *)
(* locked, so its status is not read again.                                 *)
SettlementCommits ==
  /\ settling # Idle
  /\ reservations' = [reservations EXCEPT ![settling.charge] = settling.outcome]
  /\ settling' = Idle
  /\ UNCHANGED <<rows, leases, current, eligible, initializing, cancelling, waiting, retrying, cancels>>

SettlementAborts ==
  /\ settling # Idle
  /\ settling' = Idle
  /\ UNCHANGED <<rows, leases, money, eligible, initializing, cancelling, waiting, retrying, cancels>>

-----------------------------------------------------------------------------
(* retry_ai_pipeline_group reads the runs, and their reservation id with    *)
(* them, before it waits for the advisory lock of the group.                *)
RetryReadsRuns ==
  /\ current < MaxRetries
  /\ waiting' = waiting \cup {current}
  /\ UNCHANGED <<rows, leases, money, eligible, initializing, settling, cancelling, retrying, cancels>>

ToRetry == {p \in Pipelines : pipelines[p].status \in {"failed", "cancelled"}}

(* Mutant: settlement has not finished yet.                                 *)
RetryAllowedUnsettled(charge) ==
  /\ \A p \in Pipelines : pipelines[p].status \in TerminalPipeline
  /\ ToRetry # {}
  /\ \A p \in ToRetry : pipelines[p].status = "failed" =>
       \A k \in Kinds : stages[p][k].status = "failed" =>
         ~stages[p][k].output /\ stages[p][k].error \in ManualRetryable

RetryAllowed(charge) ==
  /\ \A p \in Pipelines : pipelines[p].status \in TerminalPipeline
  /\ ToRetry # {}
  /\ \A p \in ToRetry : pipelines[p].status = "failed" =>
       \A k \in Kinds : stages[p][k].status = "failed" =>
         ~stages[p][k].output /\ stages[p][k].error \in ManualRetryable
  /\ reservations[charge] = "released"

(* Mutant: every stage of a retried pipeline starts again.                  *)
RequeuedFromScratch(stage) ==
  IF stage.status = "absent" THEN stage ELSE Become(stage, "queued", 0, "none")

Requeued(stage) ==
  IF stage.status \in {"absent", "succeeded"} THEN stage
  ELSE Become(stage, "queued", 0, "none")

(* The checks of retry_ai_pipeline_group under the lock, on rows that are   *)
(* read but not locked.                                                     *)
RetryTakesLock(charge) ==
  /\ charge \in waiting
  /\ retrying = Idle
  /\ current < MaxRetries
  /\ RetryAllowed(charge)
  /\ waiting' = waiting \ {charge}
  /\ retrying' = [pipelines |-> pipelines, stages |-> stages]
  /\ UNCHANGED <<rows, leases, money, eligible, initializing, settling, cancelling, cancels>>

(* What a flush makes of a row: it writes the columns whose value the       *)
(* session has changed since it read them.                                  *)
Flushed(column, read, new) == IF new = read THEN column ELSE new
FlushedStage(row, read, new) ==
  [status |-> Flushed(row.status, read.status, new.status),
   attempts |-> Flushed(row.attempts, read.attempts, new.attempts),
   error |-> Flushed(row.error, read.error, new.error),
   output |-> Flushed(row.output, read.output, new.output)]
FlushedPipeline(row, read, new) ==
  [status |-> Flushed(row.status, read.status, new.status),
   cancelRequested |-> Flushed(row.cancelRequested, read.cancelRequested, new.cancelRequested),
   generation |-> Flushed(row.generation, read.generation, new.generation)]

(* Its writes: a new reservation, and a new generation for all pipelines of *)
(* the group.                                                               *)
RetryAIPipelineGroup ==
  LET next == current + 1
      read == retrying
      again == {p \in Pipelines : read.pipelines[p].status \in {"failed", "cancelled"}}
  IN
  /\ retrying # Idle
  /\ retrying' = Idle
  /\ reservations' = [reservations EXCEPT ![next] = "reserved"]
  /\ current' = next
  /\ stages' = [p \in Pipelines |-> [k \in Kinds |->
       IF p \in again
       THEN FlushedStage(stages[p][k], read.stages[p][k], Requeued(read.stages[p][k]))
       ELSE stages[p][k]]]
  /\ pipelines' = [p \in Pipelines |->
       FlushedPipeline(pipelines[p], read.pipelines[p],
                       IF p \in again
                       THEN [status |-> "queued", cancelRequested |-> FALSE, generation |-> next]
                       ELSE [read.pipelines[p] EXCEPT !.generation = next])]
  /\ UNCHANGED <<leases, eligible, initializing, settling, cancelling, waiting, cancels>>

RetryAborts(charge) ==
  /\ \/ waiting' = waiting \ {charge} /\ charge \in waiting /\ UNCHANGED retrying
     \/ retrying' = Idle /\ retrying # Idle /\ UNCHANGED waiting
  /\ UNCHANGED <<rows, leases, money, eligible, initializing, settling, cancelling, cancels>>

-----------------------------------------------------------------------------
(* cancel_ai_pipeline_group: the pipelines are read under its lock, the     *)
(* runs before it.  A request that has waited for the lock has the charge   *)
(* of that time, any that the runs have named so far ...                    *)
CancelReadsPipelines ==
  /\ cancelling = Idle
  /\ cancels < MaxCancels
  /\ \A p \in Pipelines : pipelines[p].status # "none"
  /\ cancels' = cancels + 1
  /\ \E charge \in 0..current :
       cancelling' = [charge |-> charge,
                      active |-> {p \in Pipelines : pipelines[p].status \in Runnable},
                      completed |-> Every("succeeded"),
                      marked |-> Idle, refund |-> FALSE]
  /\ UNCHANGED <<rows, leases, money, eligible, initializing, settling, waiting, retrying>>

(* ... then, in statements of their own, their stages and the reservation.  *)
(* A completed group that was charged is a conflict.                        *)
CancelReadsStages ==
  /\ cancelling # Idle
  /\ cancelling.marked = Idle
  /\ cancelling' =
       IF cancelling.completed /\ reservations[cancelling.charge] = "consumed" THEN Idle
       ELSE [charge |-> cancelling.charge, active |-> cancelling.active,
             completed |-> cancelling.completed,
             marked |-> [p \in Pipelines |->
                           {k \in Kinds : stages[p][k].status \in {"queued", "running"}}],
             refund |-> reservations[cancelling.charge] = "reserved"]
  /\ UNCHANGED <<rows, leases, money, eligible, initializing, settling, waiting, retrying, cancels>>

(* The writes, each by primary key and without a look at the row as it is   *)
(* by then.                                                                 *)
CancelCommits ==
  LET Marked(p, k) == p \in cancelling.active /\ k \in cancelling.marked[p] IN
  /\ cancelling # Idle
  /\ cancelling.marked # Idle
  /\ pipelines' = [p \in Pipelines |->
       IF p \in cancelling.active
       THEN [status |-> "cancelled", cancelRequested |-> TRUE, generation |-> pipelines[p].generation]
       ELSE pipelines[p]]
  /\ stages' = [p \in Pipelines |-> [k \in Kinds |->
       IF Marked(p, k) THEN [stages[p][k] EXCEPT !.status = "cancelled"] ELSE stages[p][k]]]
  /\ reservations' = IF cancelling.refund
                     THEN [reservations EXCEPT ![cancelling.charge] = "released"] ELSE reservations
  /\ cancelling' = Idle
  /\ UNCHANGED <<leases, current, eligible, initializing, settling, waiting, retrying, cancels>>

CancelAborts ==
  /\ cancelling # Idle
  /\ cancelling' = Idle
  /\ UNCHANGED <<rows, leases, money, eligible, initializing, settling, waiting, retrying, cancels>>

-----------------------------------------------------------------------------
Initialization ==
  \/ InitializeGroup
  \/ InitializationFails
  \/ RecordInitializationFailure
  \/ ReleaseForPermanentError
  \/ LoseInitialization

Execution(l) ==
  \/ PrepareStageExecution(l)
  \/ PinProviderExecution(l)
  \/ PersistStageSuccess(l)
  \/ \E error \in Errors : PersistStageFailure(l, error)
  \/ PersistStageRetry(l)
  \/ PersistCancellation(l)
  \/ DropLease(l)

Worker ==
  \/ \E p \in Pipelines, k \in Kinds : ClaimNextAIStage(p, k) \/ ReapStaleAIStage(p, k)
  \/ \E l \in leases : Execution(l)

Settle ==
  \/ \E outcome \in {"consumed", "released"} : SettlementReads(outcome)
  \/ SettlementCommits
  \/ SettlementAborts

RetryRequest ==
  \/ RetryReadsRuns
  \/ \E charge \in Charges : RetryTakesLock(charge) \/ RetryAborts(charge)
  \/ RetryAIPipelineGroup

CancelRequest ==
  \/ CancelReadsPipelines
  \/ CancelReadsStages
  \/ CancelCommits
  \/ CancelAborts

Next == Initialization \/ Worker \/ Settle \/ RetryRequest \/ CancelRequest

Spec == Init /\ [][Next]_vars

-----------------------------------------------------------------------------
Predecessors(k) ==
  CASE k = "evidence" -> {}
    [] k = "batching" -> {"evidence"}
    [] k = "scenario" -> {"batching"}
    [] k \in Batches -> {"scenario"}
    [] k = "aggregation" -> Batches
    [] k = "uxreport" -> {"aggregation"}

(* The stage graph survives crashes, late results, cancellation and manual  *)
(* retries: a stage exists only when every stage before it has stored its   *)
(* output, and the fan-in is not lost: when the last batch succeeds, also   *)
(* concurrently with its siblings, the aggregation exists                   *)
(* (enqueue_ready_successors).                                              *)
StagesFollowGraph ==
  /\ \A p \in Pipelines, k \in Kinds :
       stages[p][k].status # "absent" => \A j \in Predecessors(k) : stages[p][j].output
  /\ \A p \in Pipelines : Succeeded(p, Batches) => stages[p]["aggregation"].status # "absent"

(* Of all executions of a stage that are still out, lost claims and those   *)
(* from before a manual retry included, one at most can write its result    *)
(* (_relock_for_persist).                                                   *)
OneWriterPerStage ==
  \A l, m \in leases :
    l.pipeline = m.pipeline /\ l.kind = m.kind /\ Current(l) /\ Current(m) => l = m

(* Chips are consumed only by the charge in force and for a group whose     *)
(* reports are all there (_process_one_settlement_group), and the charge of *)
(* such a group is never given back.                                        *)
ChargedForReports ==
  /\ \A c \in Charges : reservations[c] = "consumed" => c = current /\ Every("succeeded")
  /\ Every("succeeded") => reservations[current] # "released"

(* Work is paid for: while a pipeline can run and none has failed, the      *)
(* chips of the charge in force are reserved; earlier charges were given    *)
(* back.                                                                    *)
WorkIsReserved ==
  /\ (\E p \in Pipelines : pipelines[p].status \in Runnable) /\ ToRetry = {} =>
       reservations[current] = "reserved"
  /\ \A c \in Charges : c < current => reservations[c] = "released"

(* A result that was stored stays: against late workers, the reaper and     *)
(* manual retries, which keep what succeeded.  (A cancellation that read    *)
(* the stage before its result was stored overwrites it.)                   *)
KeepsSucceeded ==
  \A p \in Pipelines, k \in Kinds :
    stages[p][k].status = "succeeded" => stages'[p][k].status = "succeeded"
SucceededKept == [][KeepsSucceeded]_stages

(* Nothing is produced for a group the user cancelled: no result, no new    *)
(* stage, until a manual retry takes the cancellation back.                 *)
LeavesCancelledAlone ==
  \A p \in Pipelines :
    pipelines[p].cancelRequested /\ pipelines'[p].cancelRequested =>
      \A k \in Kinds :
        /\ stages'[p][k].status = "succeeded" => stages[p][k].status = "succeeded"
        /\ stages[p][k].status = "absent" => stages'[p][k].status = "absent"
NoWorkAfterCancel == [][LeavesCancelledAlone]_rows

-----------------------------------------------------------------------------
(* The crons of worker.py fire for ever, and a worker ends each lease it    *)
(* has, if only by dying.  A settlement, or what follows a permanent        *)
(* initialization error, may be lost any number of times, but not every     *)
(* time.                                                                    *)
Fairness ==
  /\ WF_vars(InitializeGroup)
  /\ WF_vars(InitializationFails)
  /\ SF_vars(RecordInitializationFailure)
  /\ SF_vars(ReleaseForPermanentError)
  /\ SF_vars(\E p \in Pipelines, k \in Kinds : ClaimNextAIStage(p, k))
  /\ WF_vars(\E p \in Pipelines, k \in Kinds : ReapStaleAIStage(p, k))
  /\ WF_vars(\E l \in leases : Execution(l))
  /\ WF_vars(\E outcome \in {"consumed", "released"} : SettlementReads(outcome))
  /\ SF_vars(SettlementCommits)

FairSpec == Spec /\ Fairness

(* Chips never stay blocked: whatever becomes of the workers and of the     *)
(* initialization, every charge of the group is settled in the end.         *)
ChargesSettle == []<>(\A c \in Charges : reservations[c] # "reserved")
=============================================================================
