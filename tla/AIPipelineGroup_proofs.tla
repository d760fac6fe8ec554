----------------------- MODULE AIPipelineGroup_proofs ------------------------
(* Theorems about AIPipelineGroup, for every number of pipelines, batches,  *)
(* attempts, leases, manual retries and cancel requests.                    *)
EXTENDS AIReportTab, FiniteSetTheorems, TLAPS

(* Attempts: a stage that can be claimed has one left.                      *)
AttemptsLeft ==
  \A p \in Pipelines, k \in Kinds : stages[p][k].status = "queued" => stages[p][k].attempts < MaxAttempts

(* Generations: all pipelines of the group have that of the charge in       *)
(* force; while a retry holds the advisory lock nothing starts, so what it  *)
(* has read is right where its flush depends on it.                         *)
OneGeneration == \A p \in Pipelines : pipelines[p].generation = current
RetryReads ==
  retrying # Idle =>
    /\ current < MaxRetries
    /\ \A p \in Pipelines :
         /\ pipelines[p].status \in TerminalPipeline
         /\ retrying.pipelines[p].status \in TerminalPipeline
         /\ retrying.pipelines[p].generation = current
         /\ \A k \in Kinds :
              /\ stages[p][k].attempts = retrying.stages[p][k].attempts
              /\ stages[p][k].status = "absent" <=> retrying.stages[p][k].status = "absent"
              /\ stages[p][k].status = "succeeded" => retrying.stages[p][k].status = "succeeded"

(* Beginnings: a pipeline that has not begun is empty, a permanent          *)
(* initialization error is recorded before anything begins, and a cancel    *)
(* request finds and marks what has begun.                                  *)
NothingBefore ==
  \A p \in Pipelines : pipelines[p].status = "none" =>
    ~pipelines[p].cancelRequested /\ \A k \in Kinds : stages[p][k] = Absent
RecordsForNone == initializing = "record" => Every("none") /\ ~eligible
CancelReads ==
  cancelling # Idle =>
    \A p \in Pipelines :
      /\ pipelines[p].status # "none"
      /\ cancelling.marked # Idle =>
           \A k \in cancelling.marked[p] : k \in Kinds => stages[p][k].status # "absent"
RowInv ==
  /\ TypeOK /\ AttemptsLeft /\ OneGeneration /\ RetryReads
  /\ NothingBefore /\ RecordsForNone /\ CancelReads

(* Leases: a claim of a generation has a number of its own, at most that of *)
(* the last claim of its stage; a stage that does not exist was not claimed. *)
LeasesNumbered ==
  \A l \in leases :
    /\ l.generation <= current
    /\ l.generation = current => l.attempts <= stages[l.pipeline][l.kind].attempts
LeasesApart ==
  \A l, m \in leases :
    (/\ l.pipeline = m.pipeline /\ l.kind = m.kind
     /\ l.generation = m.generation /\ l.attempts = m.attempts) => l = m
AbsentEmpty ==
  \A p \in Pipelines, k \in Kinds : stages[p][k].status = "absent" => stages[p][k] = Absent
LeaseInv == LeasesNumbered /\ LeasesApart /\ AbsentEmpty

(* Stages: stored results have their output.                                *)
SuccessHasOutput ==
  \A p \in Pipelines, k \in Kinds : stages[p][k].status = "succeeded" => stages[p][k].output
GraphInv == StagesFollowGraph /\ SuccessHasOutput

(* What holds as long as nobody cancels.  Results: a stage with output has  *)
(* succeeded, a pipeline that has succeeded has all its stages, and a retry *)
(* has read which pipelines failed.                                         *)
NobodyCancels ==
  /\ cancelling = Idle
  /\ \A p \in Pipelines :
       /\ ~pipelines[p].cancelRequested /\ pipelines[p].status # "cancelled"
       /\ \A k \in Kinds : stages[p][k].status # "cancelled"
  /\ \A l \in leases : l.phase # "cancelled"
ResultsComplete ==
  \A p \in Pipelines :
    /\ \A k \in Kinds : stages[p][k].output => stages[p][k].status = "succeeded"
    /\ pipelines[p].status = "succeeded" => Succeeded(p, Kinds)
RetryReadsFailure ==
  retrying # Idle =>
    /\ \A p \in Pipelines : retrying.pipelines[p].status = pipelines[p].status
    /\ ToRetry # {}
UncancelledInv == NobodyCancels /\ ResultsComplete /\ RetryReadsFailure

(* Money: a group that cannot be initialized never runs, one that can has   *)
(* its chips reserved, and what a settlement has decided stays right.       *)
IneligibleNeverRuns ==
  ~eligible =>
    /\ leases = {} /\ retrying = Idle
    /\ \A p \in Pipelines :
         /\ pipelines[p].status \in {"none", "failed"}
         /\ \A k \in Kinds : stages[p][k].status \in {"absent", "failed"}
         /\ pipelines[p].status = "failed" =>
              stages[p]["evidence"].status = "failed" /\ stages[p]["evidence"].error = "permanent"
BeginsReserved ==
  eligible /\ (\E p \in Pipelines : pipelines[p].status = "none") =>
    Every("none") /\ reservations[current] = "reserved" /\ settling = Idle
EligibleNotFailing == eligible => initializing = Idle
RunsReserved ==
  (\E p \in Pipelines : pipelines[p].status \in Runnable) /\ ToRetry = {} =>
    reservations[current] = "reserved"
DecisionStands ==
  settling # Idle =>
    /\ settling.charge <= current
    /\ settling.outcome = "consumed" => settling.charge = current /\ Every("succeeded")
    /\ settling.outcome = "released" /\ settling.charge = current => ToRetry # {}
MoneyInv ==
  /\ IneligibleNeverRuns /\ BeginsReserved /\ EligibleNotFailing
  /\ RunsReserved /\ DecisionStands /\ ChargedForReports

(* Earlier charges: a retry waits with a charge that was in force once.     *)
(* With one manual retry that charge is the launch, so it was given back;   *)
(* a second retry may look at the charge of the launch again.               *)
EarlierInv ==
  /\ \A c \in waiting : c <= current
  /\ MaxRetries <= 1 /\ (retrying # Idle \/ current = 1) => reservations[0] = "released"

-----------------------------------------------------------------------------
(* Types.                                                                   *)
LEMMA StageRowsKept ==
  ASSUME TypeOK, NEW p \in Pipelines, NEW k \in Kinds, NEW new \in Stage, SetStage(p, k, new)
  PROVE  stages' \in StageRows
  BY DEF TypeOK, StageRows, SetStage

LEMMA BecomeStage ==
  ASSUME NEW stage \in Stage, NEW status \in StageStatuses, NEW attempts \in 0..MaxAttempts,
         NEW error \in Errors \cup {"none", "stale"}
  PROVE  Become(stage, status, attempts, error) \in Stage
  BY DEF Become, Stage

LEMMA NewStages ==
  /\ Absent \in Stage
  /\ Queued = [status |-> "queued", attempts |-> 0, error |-> "none", output |-> FALSE]
  /\ Queued \in Stage
  /\ Become(Absent, "failed", 0, "permanent") \in Stage
<1>1. Absent \in Stage
  BY BoundAssumption DEF Absent, Stage, StageStatuses
<1>2. Queued = [status |-> "queued", attempts |-> 0, error |-> "none", output |-> FALSE]
  BY DEF Queued, Absent, Become
<1>3. Queued \in Stage
  BY <1>2, BoundAssumption DEF Stage, StageStatuses
<1>4. Become(Absent, "failed", 0, "permanent") \in Stage
  BY <1>1, BecomeStage, BoundAssumption DEF StageStatuses, Errors
<1>5. QED
  BY <1>1, <1>2, <1>3, <1>4

LEMMA InitTypes == Init => TypeOK
<1> SUFFICES ASSUME Init
             PROVE  TypeOK
  OBVIOUS
<1> USE BoundAssumption DEF Init, Charges
<1>1. pipelines \in PipelineRows
  BY DEF PipelineRows, PipelineStatuses
<1>2. stages \in StageRows
  BY DEF StageRows, Stage, StageStatuses, Absent
<1>3. reservations \in [Charges -> {"none", "reserved", "consumed", "released"}]
  OBVIOUS
<1>4. QED
  BY <1>1, <1>2, <1>3 DEF TypeOK

LEMMA InitializationTypes == TypeOK /\ Initialization => TypeOK'
<1> SUFFICES ASSUME TypeOK, Initialization
             PROVE  TypeOK'
  OBVIOUS
<1> USE BoundAssumption
<1>1. ASSUME NEW status \in PipelineStatuses,
             pipelines' = [p \in Pipelines |-> [pipelines[p] EXCEPT !.status = status]]
      PROVE  pipelines' \in PipelineRows
  BY <1>1 DEF TypeOK, PipelineRows
<1>2. ASSUME NEW stage \in Stage,
             stages' = [p \in Pipelines |-> [stages[p] EXCEPT !["evidence"] = stage]]
      PROVE  stages' \in StageRows
  BY <1>2 DEF TypeOK, StageRows
<1>3. Queued \in Stage /\ Become(Absent, "failed", 0, "permanent") \in Stage
  BY NewStages
<1>4. CASE InitializeGroup
  BY <1>1, <1>2, <1>3, <1>4 DEF InitializeGroup, TypeOK, money, requests, PipelineStatuses
<1>5. CASE RecordInitializationFailure
  <2>1. pipelines' \in PipelineRows
    BY <1>1, <1>5 DEF RecordInitializationFailure, rows, TypeOK, PipelineStatuses
  <2>2. stages' \in StageRows
    BY <1>2, <1>3, <1>5 DEF RecordInitializationFailure, rows, TypeOK
  <2>3. QED
    BY <1>5, <2>1, <2>2 DEF RecordInitializationFailure, TypeOK, money, requests
<1>6. CASE InitializationFails
  BY <1>6 DEF InitializationFails, TypeOK, rows, money, requests
<1>7. CASE ReleaseForPermanentError
  BY <1>7 DEF ReleaseForPermanentError, TypeOK, rows, requests
<1>8. CASE LoseInitialization
  BY <1>8 DEF LoseInitialization, TypeOK, rows, money, requests
<1>9. QED
  BY <1>4, <1>5, <1>6, <1>7, <1>8 DEF Initialization

LEMMA WorkerTypes == TypeOK /\ AttemptsLeft /\ Worker => TypeOK'
<1> SUFFICES ASSUME TypeOK, AttemptsLeft, Worker
             PROVE  TypeOK'
  OBVIOUS
<1> USE BoundAssumption
<1>1. ASSUME NEW p \in Pipelines, NEW status \in PipelineStatuses,
             pipelines' = [pipelines EXCEPT ![p].status = status]
      PROVE  pipelines' \in PipelineRows
  BY <1>1 DEF TypeOK, PipelineRows
<1>2. ASSUME NEW p \in Pipelines, NEW k \in Kinds, ClaimNextAIStage(p, k)
      PROVE  TypeOK'
  <2>1. pipelines' \in PipelineRows
    BY <1>1, <1>2 DEF ClaimNextAIStage, PipelineStatuses
  <2>2. /\ stages[p][k] \in Stage /\ stages[p][k].attempts + 1 \in 1..MaxAttempts
        /\ pipelines[p].generation \in Charges
    BY <1>2 DEF ClaimNextAIStage, Claimable, AttemptsLeft, TypeOK, StageRows, Stage, PipelineRows
  <2>3. stages' \in StageRows
    <3>1. Become(stages[p][k], "running", stages[p][k].attempts + 1, stages[p][k].error) \in Stage
      BY <2>2, BecomeStage DEF Stage, StageStatuses
    <3>2. QED
      BY <1>2, <3>1, StageRowsKept DEF ClaimNextAIStage
  <2>4. leases' \subseteq Lease
    BY <1>2, <2>2 DEF ClaimNextAIStage, Claimed, Lease, TypeOK
  <2>5. QED
    BY <1>2, <2>1, <2>3, <2>4 DEF ClaimNextAIStage, TypeOK, money, requests
<1>3. ASSUME NEW p \in Pipelines, NEW k \in Kinds, ReapStaleAIStage(p, k)
      PROVE  TypeOK'
  <2>1. Reaped(p, k) \in {"queued", "failed", "cancelled"} /\ stages[p][k] \in Stage
    BY DEF Reaped, TypeOK, StageRows
  <2>2. pipelines' \in PipelineRows
    BY <1>1, <1>3, <2>1 DEF ReapStaleAIStage, PipelineStatuses, TypeOK
  <2>3. stages' \in StageRows
    <3>1. Become(stages[p][k], Reaped(p, k), stages[p][k].attempts,
                 IF Reaped(p, k) = "failed" THEN "stale" ELSE stages[p][k].error) \in Stage
      BY <2>1, BecomeStage DEF Stage, StageStatuses
    <3>2. QED
      BY <1>3, <3>1, StageRowsKept DEF ReapStaleAIStage
  <2>4. QED
    BY <1>3, <2>2, <2>3 DEF ReapStaleAIStage, TypeOK, money, requests
<1>4. ASSUME NEW l \in leases, Execution(l)
      PROVE  TypeOK'
  <2>1. /\ l \in Lease /\ l.pipeline \in Pipelines /\ l.kind \in Kinds
        /\ stages[l.pipeline][l.kind] \in Stage
    BY DEF TypeOK, Lease, StageRows
  <2>2. leases' \subseteq Lease
    <3>1. ASSUME NEW phase \in {"claimed", "prepared", "cancelled", "running"}
          PROVE  [l EXCEPT !.phase = phase] \in Lease
      BY <2>1 DEF Lease
    <3>2. QED
      BY <1>4, <3>1 DEF Execution, PrepareStageExecution, PinProviderExecution, PersistStageSuccess,
         PersistStageFailure, PersistStageRetry, PersistCancellation, DropLease, TypeOK
  <2>3. pipelines' \in PipelineRows
    BY <1>1, <1>4, <2>1 DEF Execution, PrepareStageExecution, PinProviderExecution, PersistStageSuccess,
       PersistStageFailure, PersistStageRetry, PersistCancellation, DropLease, TypeOK, rows,
       PipelineStatuses
  <2>4. stages' \in StageRows
    <3>1. CASE PersistStageSuccess(l)
      <4>1. [status |-> "succeeded", attempts |-> stages[l.pipeline][l.kind].attempts,
             error |-> "none", output |-> TRUE] \in Stage
        BY <2>1 DEF Stage, StageStatuses
      <4>2. QED
        BY <2>1, <3>1, <4>1, NewStages DEF PersistStageSuccess, TypeOK, StageRows
    <3>2. ASSUME NEW error \in Errors, PersistStageFailure(l, error)
          PROVE  stages' \in StageRows
      <4>1. stages[l.pipeline][l.kind].attempts \in 0..MaxAttempts
        BY <2>1 DEF Stage
      <4>2. Become(stages[l.pipeline][l.kind], "failed", stages[l.pipeline][l.kind].attempts, error)
              \in Stage
        BY <2>1, <4>1, BecomeStage DEF StageStatuses
      <4>3. QED
        BY <2>1, <3>2, <4>2, StageRowsKept DEF PersistStageFailure
    <3>3. ASSUME NEW status \in StageStatuses,
                 SetStage(l.pipeline, l.kind, [stages[l.pipeline][l.kind] EXCEPT !.status = status])
          PROVE  stages' \in StageRows
      <4>1. [stages[l.pipeline][l.kind] EXCEPT !.status = status] \in Stage
        BY <2>1 DEF Stage
      <4>2. QED
        BY <2>1, <3>3, <4>1, StageRowsKept
    <3>4. QED
      BY <1>4, <3>1, <3>2, <3>3 DEF Execution, PrepareStageExecution, PinProviderExecution,
         PersistStageRetry, PersistCancellation, DropLease, TypeOK, rows, StageStatuses
  <2>5. UNCHANGED <<money, eligible, initializing, requests>>
    BY <1>4 DEF Execution, PrepareStageExecution, PinProviderExecution, PersistStageSuccess,
       PersistStageFailure, PersistStageRetry, PersistCancellation, DropLease
  <2>6. QED
    BY <2>2, <2>3, <2>4, <2>5 DEF TypeOK, money, requests
<1>5. QED
  BY <1>2, <1>3, <1>4 DEF Worker

LEMMA SettleTypes == TypeOK /\ Settle => TypeOK'
<1> SUFFICES ASSUME TypeOK, Settle
             PROVE  TypeOK'
  OBVIOUS
<1>1. ASSUME NEW outcome \in {"consumed", "released"}, SettlementReads(outcome)
      PROVE  TypeOK'
  BY <1>1 DEF SettlementReads, TypeOK, Settlement, rows, money
<1>2. CASE SettlementCommits
  <2>1. settling \in Settlement
    BY <1>2 DEF SettlementCommits, TypeOK
  <2>2. reservations' \in [Charges -> {"none", "reserved", "consumed", "released"}]
    BY <1>2, <2>1 DEF SettlementCommits, TypeOK, Settlement
  <2>3. QED
    BY <1>2, <2>2 DEF SettlementCommits, TypeOK, rows
<1>3. CASE SettlementAborts
  BY <1>3 DEF SettlementAborts, TypeOK, rows, money
<1>4. QED
  BY <1>1, <1>2, <1>3 DEF Settle

LEMMA FlushedTypes ==
  /\ \A row, read, new \in Stage : FlushedStage(row, read, new) \in Stage
  /\ \A row, read, new \in [status : PipelineStatuses, cancelRequested : BOOLEAN, generation : Charges] :
       FlushedPipeline(row, read, new)
         \in [status : PipelineStatuses, cancelRequested : BOOLEAN, generation : Charges]
  BY DEF FlushedStage, FlushedPipeline, Flushed, Stage

(* The rows a retry writes, in full.                                        *)
Again == {p \in Pipelines : retrying.pipelines[p].status \in {"failed", "cancelled"}}
NewPipeline(p) ==
  IF p \in Again THEN [status |-> "queued", cancelRequested |-> FALSE, generation |-> current + 1]
  ELSE [retrying.pipelines[p] EXCEPT !.generation = current + 1]

LEMMA RetryWrites ==
  ASSUME TypeOK, RetryAIPipelineGroup
  PROVE  /\ \A p \in Pipelines : pipelines'[p] =
              FlushedPipeline(pipelines[p], retrying.pipelines[p], NewPipeline(p))
         /\ \A p \in Pipelines, k \in Kinds : stages'[p][k] =
              IF p \in Again
              THEN FlushedStage(stages[p][k], retrying.stages[p][k], Requeued(retrying.stages[p][k]))
              ELSE stages[p][k]
         /\ reservations' = [reservations EXCEPT ![current + 1] = "reserved"]
         /\ current' = current + 1
         /\ retrying \in Retry /\ retrying' = Idle
         /\ UNCHANGED <<leases, eligible, initializing, settling, cancelling, waiting, cancels>>
  BY DEF RetryAIPipelineGroup, Again, NewPipeline, TypeOK

LEMMA RetryTypes == TypeOK /\ RetryReads /\ RetryRequest => TypeOK'
<1> SUFFICES ASSUME TypeOK, RetryReads, RetryRequest
             PROVE  TypeOK'
  OBVIOUS
<1> USE BoundAssumption
<1>1. CASE RetryReadsRuns
  BY <1>1 DEF RetryReadsRuns, TypeOK, rows, money
<1>2. ASSUME NEW charge \in Charges, RetryTakesLock(charge)
      PROVE  TypeOK'
  <2>1. retrying' \in Retry
    BY <1>2 DEF RetryTakesLock, TypeOK, Retry
  <2>2. QED
    BY <1>2, <2>1 DEF RetryTakesLock, TypeOK, rows, money
<1>3. ASSUME NEW charge \in Charges, RetryAborts(charge)
      PROVE  TypeOK'
  BY <1>3 DEF RetryAborts, TypeOK, rows, money
<1>4. CASE RetryAIPipelineGroup
  <2>1. retrying \in Retry /\ current + 1 \in Charges
    BY <1>4 DEF RetryAIPipelineGroup, TypeOK, RetryReads, Charges
  <2>2. pipelines' \in PipelineRows
    <3>1. ASSUME NEW p \in Pipelines
          PROVE  /\ pipelines[p] \in [status : PipelineStatuses, cancelRequested : BOOLEAN, generation : Charges]
                 /\ retrying.pipelines[p]
                      \in [status : PipelineStatuses, cancelRequested : BOOLEAN, generation : Charges]
                 /\ NewPipeline(p)
                      \in [status : PipelineStatuses, cancelRequested : BOOLEAN, generation : Charges]
      BY <2>1 DEF TypeOK, Retry, PipelineRows, NewPipeline, PipelineStatuses
    <3>2. pipelines' = [p \in Pipelines |->
                          FlushedPipeline(pipelines[p], retrying.pipelines[p], NewPipeline(p))]
      BY <1>4 DEF RetryAIPipelineGroup, NewPipeline, Again
    <3>3. QED
      BY <3>1, <3>2, FlushedTypes DEF PipelineRows
  <2>3. stages' \in StageRows
    <3>1. ASSUME NEW p \in Pipelines, NEW k \in Kinds
          PROVE  /\ stages[p][k] \in Stage /\ retrying.stages[p][k] \in Stage
                 /\ Requeued(retrying.stages[p][k]) \in Stage
      <4>1. stages[p][k] \in Stage /\ retrying.stages[p][k] \in Stage
        BY <2>1 DEF TypeOK, Retry, StageRows
      <4>2. QED
        BY <4>1, BecomeStage DEF Requeued, StageStatuses
    <3>2. stages' = [p \in Pipelines |-> [k \in Kinds |->
            IF p \in Again
            THEN FlushedStage(stages[p][k], retrying.stages[p][k], Requeued(retrying.stages[p][k]))
            ELSE stages[p][k]]]
      BY <1>4 DEF RetryAIPipelineGroup, Again
    <3>3. QED
      BY <3>1, <3>2, FlushedTypes DEF StageRows
  <2>4. reservations' \in [Charges -> {"none", "reserved", "consumed", "released"}]
    BY <1>4, <2>1, RetryWrites DEF TypeOK
  <2>5. QED
    BY <1>4, <2>1, <2>2, <2>3, <2>4, RetryWrites DEF TypeOK
<1>5. QED
  BY <1>1, <1>2, <1>3, <1>4 DEF RetryRequest

LEMMA CancelTypes == TypeOK /\ CancelRequest => TypeOK'
<1> SUFFICES ASSUME TypeOK, CancelRequest
             PROVE  TypeOK'
  OBVIOUS
<1> USE BoundAssumption
<1>1. CASE CancelReadsPipelines
  <2>1. 0..current \subseteq Charges
    BY DEF TypeOK, Charges
  <2>2. cancelling' \in Cancellation
    BY <1>1, <2>1 DEF CancelReadsPipelines, TypeOK, Cancellation, Every
  <2>3. QED
    BY <1>1, <2>2 DEF CancelReadsPipelines, TypeOK, rows, money
<1>2. CASE CancelReadsStages
  <2>1. cancelling' \in Cancellation \cup {Idle}
    BY <1>2 DEF CancelReadsStages, TypeOK, Cancellation
  <2>2. QED
    BY <1>2, <2>1 DEF CancelReadsStages, TypeOK, rows, money
<1>3. CASE CancelCommits
  <2>1. cancelling \in Cancellation
    BY <1>3 DEF CancelCommits, TypeOK
  <2>2. pipelines' \in PipelineRows
    BY <1>3 DEF CancelCommits, TypeOK, PipelineRows, PipelineStatuses
  <2>3. stages' \in StageRows
    <3>1. \A stage \in Stage : [stage EXCEPT !.status = "cancelled"] \in Stage
      BY DEF Stage, StageStatuses
    <3>2. QED
      BY <1>3, <3>1 DEF CancelCommits, TypeOK, StageRows
  <2>4. reservations' \in [Charges -> {"none", "reserved", "consumed", "released"}]
    BY <1>3, <2>1 DEF CancelCommits, TypeOK, Cancellation
  <2>5. QED
    BY <1>3, <2>2, <2>3, <2>4 DEF CancelCommits, TypeOK
<1>4. CASE CancelAborts
  BY <1>4 DEF CancelAborts, TypeOK, rows, money
<1>5. QED
  BY <1>1, <1>2, <1>3, <1>4 DEF CancelRequest

-----------------------------------------------------------------------------
(* The steps of the group, by what they do to the rows.  The claim, the     *)
(* three persist functions other than success, and the reaper write one     *)
(* unfinished stage and the status of its pipeline.                         *)
Writes(p, k, new, status) ==
  /\ stages[p][k].status \in {"queued", "running"}
  /\ SetStage(p, k, new)
  /\ pipelines' = [pipelines EXCEPT ![p].status = status]
  /\ new.output = stages[p][k].output
  /\ new.status \in {"queued", "running", "failed", "cancelled"}
  /\ new.status = "queued" => new.attempts < MaxAttempts
  /\ IF new.status = "running"
     THEN pipelines[p].status \in Runnable /\ new.attempts = stages[p][k].attempts + 1
     ELSE new.attempts = stages[p][k].attempts
  /\ \/ status \in {pipelines[p].status, "failed", "cancelled"}
     \/ status = "running" /\ pipelines[p].status \in Runnable
  /\ "cancelled" \in {new.status, status} =>
       \/ pipelines[p].cancelRequested \/ pipelines[p].status = "cancelled"
       \/ \E l \in leases : l.phase = "cancelled"
  /\ UNCHANGED <<money, eligible, initializing, requests>>
LeavesRows ==
  /\ UNCHANGED <<rows, current, eligible>>
  /\ retrying' \in {retrying, Idle}
  /\ \/ cancelling' \in {cancelling, Idle}
     \/ cancelling'.marked = Idle /\ \A p \in Pipelines : pipelines[p].status # "none"
  /\ initializing' = "record" => initializing = "record" \/ (Every("none") /\ ~eligible)

LEMMA StageWritten ==
  ASSUME TypeOK, NEW p \in Pipelines, NEW k \in Kinds, NEW new, SetStage(p, k, new)
  PROVE  /\ stages'[p][k] = new
         /\ \A q \in Pipelines, j \in Kinds : q # p \/ j # k => stages'[q][j] = stages[q][j]
  BY DEF TypeOK, StageRows, SetStage

LEMMA StepsOfWorker ==
  ASSUME TypeOK, AttemptsLeft, Worker
  PROVE  \/ \E l \in leases : PersistStageSuccess(l)
         \/ \E p \in Pipelines, k \in Kinds, new \in Stage, status \in PipelineStatuses :
              Writes(p, k, new, status)
         \/ UNCHANGED <<rows, money, eligible, initializing, requests>>
<1> DEFINE Goal == \/ \E l \in leases : PersistStageSuccess(l)
                   \/ \E p \in Pipelines, k \in Kinds, new \in Stage, status \in PipelineStatuses :
                        Writes(p, k, new, status)
                   \/ UNCHANGED <<rows, money, eligible, initializing, requests>>
<1> USE BoundAssumption
<1>1. ASSUME NEW p \in Pipelines, NEW k \in Kinds
      PROVE  /\ stages[p][k] \in Stage
             /\ pipelines[p].status \in PipelineStatuses
             /\ pipelines = [pipelines EXCEPT ![p].status = pipelines[p].status]
  BY DEF TypeOK, StageRows, PipelineRows
<1>2. ASSUME NEW p \in Pipelines, NEW k \in Kinds, ClaimNextAIStage(p, k)
      PROVE  Goal
  <2> DEFINE new == Become(stages[p][k], "running", stages[p][k].attempts + 1, stages[p][k].error)
  <2>1. stages[p][k].attempts + 1 \in 0..MaxAttempts
    BY <1>1, <1>2 DEF ClaimNextAIStage, Claimable, AttemptsLeft, Stage
  <2>2. new \in Stage
    BY <1>1, <2>1, BecomeStage DEF Stage, StageStatuses
  <2>3. Writes(p, k, new, "running")
    BY <1>2 DEF ClaimNextAIStage, Claimable, Writes, Become
  <2>4. QED
    BY <2>2, <2>3 DEF PipelineStatuses
<1>3. ASSUME NEW p \in Pipelines, NEW k \in Kinds, ReapStaleAIStage(p, k)
      PROVE  Goal
  <2> DEFINE new == Become(stages[p][k], Reaped(p, k), stages[p][k].attempts,
                           IF Reaped(p, k) = "failed" THEN "stale" ELSE stages[p][k].error)
             status == IF Reaped(p, k) = "queued" THEN pipelines[p].status ELSE Reaped(p, k)
  <2>1. Reaped(p, k) \in {"queued", "failed", "cancelled"}
    BY DEF Reaped
  <2>2. new \in Stage /\ status \in PipelineStatuses
    BY <1>1, <2>1, BecomeStage DEF Stage, StageStatuses, PipelineStatuses
  <2>3. pipelines' = [pipelines EXCEPT ![p].status = status]
    BY <1>1, <1>3 DEF ReapStaleAIStage
  <2>4. Writes(p, k, new, status)
    BY <1>3, <2>1, <2>3 DEF ReapStaleAIStage, Writes, Become, Reaped
  <2>5. QED
    BY <2>2, <2>4
<1>4. ASSUME NEW l \in leases, NEW error \in Errors, PersistStageFailure(l, error)
      PROVE  Goal
  <2> DEFINE row == stages[l.pipeline][l.kind]
             new == Become(row, "failed", row.attempts, error)
  <2>1. l.pipeline \in Pipelines /\ l.kind \in Kinds
    BY DEF TypeOK, Lease
  <2>2. new \in Stage
    BY <1>1, <2>1, BecomeStage DEF Stage, StageStatuses
  <2>3. Writes(l.pipeline, l.kind, new, "failed")
    BY <1>4 DEF PersistStageFailure, Current, Writes, Become
  <2>4. QED
    BY <2>1, <2>2, <2>3 DEF PipelineStatuses
<1>5. ASSUME NEW l \in leases, PersistStageRetry(l)
      PROVE  Goal
  <2> DEFINE new == [stages[l.pipeline][l.kind] EXCEPT !.status = "queued"]
  <2>1. l.pipeline \in Pipelines /\ l.kind \in Kinds
    BY DEF TypeOK, Lease
  <2>2. /\ new \in Stage /\ new.status = "queued"
        /\ new.attempts = stages[l.pipeline][l.kind].attempts
        /\ new.output = stages[l.pipeline][l.kind].output
    BY <1>1, <2>1 DEF Stage, StageStatuses
  <2>3. Writes(l.pipeline, l.kind, new, pipelines[l.pipeline].status)
    BY <1>1, <1>5, <2>1, <2>2 DEF PersistStageRetry, CurrentAndRunnable, Current, Writes
  <2>4. QED
    BY <1>1, <2>1, <2>2, <2>3
<1>6. ASSUME NEW l \in leases, PersistCancellation(l)
      PROVE  Goal
  <2> DEFINE new == [stages[l.pipeline][l.kind] EXCEPT !.status = "cancelled"]
  <2>1. l.pipeline \in Pipelines /\ l.kind \in Kinds
    BY DEF TypeOK, Lease
  <2>2. /\ new \in Stage /\ new.status = "cancelled"
        /\ new.attempts = stages[l.pipeline][l.kind].attempts
        /\ new.output = stages[l.pipeline][l.kind].output
    BY <1>1, <2>1 DEF Stage, StageStatuses
  <2>3. Writes(l.pipeline, l.kind, new, "cancelled")
    BY <1>6, <2>2 DEF PersistCancellation, Current, Writes
  <2>4. QED
    BY <2>1, <2>2, <2>3 DEF PipelineStatuses
<1>7. ASSUME NEW l \in leases, PrepareStageExecution(l) \/ PinProviderExecution(l) \/ DropLease(l)
      PROVE  Goal
  BY <1>7 DEF PrepareStageExecution, PinProviderExecution, DropLease
<1>8. QED
  BY <1>2, <1>3, <1>4, <1>5, <1>6, <1>7 DEF Worker, Execution

LEMMA StepsOfGroup ==
  ASSUME TypeOK, AttemptsLeft, Next
  PROVE  \/ InitializeGroup \/ RecordInitializationFailure
         \/ \E l \in leases : PersistStageSuccess(l)
         \/ \E p \in Pipelines, k \in Kinds, new \in Stage, status \in PipelineStatuses :
              Writes(p, k, new, status)
         \/ \E charge \in Charges : RetryTakesLock(charge)
         \/ RetryAIPipelineGroup
         \/ CancelReadsStages \/ CancelCommits
         \/ LeavesRows
<1>1. CASE Initialization
  BY <1>1, IdleAssumption DEF Initialization, InitializationFails, ReleaseForPermanentError, LoseInitialization,
     LeavesRows, money, requests
<1>2. CASE Worker
  BY <1>2, StepsOfWorker DEF LeavesRows, money, requests
<1>3. CASE Settle
  BY <1>3 DEF Settle, SettlementReads, SettlementCommits, SettlementAborts, LeavesRows, money
<1>4. CASE RetryRequest
  BY <1>4 DEF RetryRequest, RetryReadsRuns, RetryAborts, LeavesRows, money
<1>5. CASE CancelRequest
  BY <1>5 DEF CancelRequest, CancelReadsPipelines, CancelAborts, LeavesRows, money
<1>6. QED
  BY <1>1, <1>2, <1>3, <1>4, <1>5 DEF Next

-----------------------------------------------------------------------------
(* The rows.                                                                *)
LEMMA SuccessRows ==
  ASSUME TypeOK, NEW l \in leases, PersistStageSuccess(l)
  PROVE  /\ l \in Lease /\ l.pipeline \in Pipelines /\ l.kind \in Kinds
         /\ pipelines[l.pipeline].status \in Runnable /\ ~pipelines[l.pipeline].cancelRequested
         /\ stages[l.pipeline][l.kind].status = "running"
         /\ \A q \in Pipelines : q # l.pipeline =>
              pipelines'[q] = pipelines[q] /\ \A j \in Kinds : stages'[q][j] = stages[q][j]
         /\ pipelines'[l.pipeline] =
              [status |-> IF l.kind = "uxreport" THEN "succeeded" ELSE pipelines[l.pipeline].status,
               cancelRequested |-> FALSE, generation |-> pipelines[l.pipeline].generation]
         /\ \A j \in Kinds : stages'[l.pipeline][j] =
              IF j = l.kind
              THEN [status |-> "succeeded", attempts |-> stages[l.pipeline][j].attempts,
                    error |-> "none", output |-> TRUE]
              ELSE IF j \in ReadySuccessors(l.pipeline, l.kind) /\ stages[l.pipeline][j].status = "absent"
              THEN Queued ELSE stages[l.pipeline][j]
         /\ leases' = leases \ {l}
         /\ UNCHANGED <<money, eligible, initializing, requests>>
<1>1. l \in Lease /\ l.pipeline \in Pipelines /\ l.kind \in Kinds
  BY DEF TypeOK, Lease
<1>2. /\ pipelines[l.pipeline].status \in Runnable /\ ~pipelines[l.pipeline].cancelRequested
      /\ stages[l.pipeline][l.kind].status = "running"
  BY DEF PersistStageSuccess, CurrentAndRunnable, Current
<1>3. pipelines[l.pipeline] \in [status : PipelineStatuses, cancelRequested : BOOLEAN, generation : Charges]
  BY <1>1 DEF TypeOK, PipelineRows
<1>4. /\ \A q \in Pipelines : q # l.pipeline => pipelines'[q] = pipelines[q]
      /\ pipelines'[l.pipeline] =
           [status |-> IF l.kind = "uxreport" THEN "succeeded" ELSE pipelines[l.pipeline].status,
            cancelRequested |-> FALSE, generation |-> pipelines[l.pipeline].generation]
  BY <1>1, <1>2, <1>3 DEF PersistStageSuccess, TypeOK, PipelineRows
<1>5. /\ \A q \in Pipelines : q # l.pipeline => stages'[q] = stages[q]
      /\ \A j \in Kinds : stages'[l.pipeline][j] =
           IF j = l.kind
           THEN [status |-> "succeeded", attempts |-> stages[l.pipeline][j].attempts,
                 error |-> "none", output |-> TRUE]
           ELSE IF j \in ReadySuccessors(l.pipeline, l.kind) /\ stages[l.pipeline][j].status = "absent"
           THEN Queued ELSE stages[l.pipeline][j]
  BY <1>1 DEF PersistStageSuccess, TypeOK, StageRows
<1>6. leases' = leases \ {l} /\ UNCHANGED <<money, eligible, initializing, requests>>
  BY DEF PersistStageSuccess
<1>7. QED
  BY <1>1, <1>2, <1>4, <1>5, <1>6

LEMMA BeginningRows ==
  ASSUME TypeOK, InitializeGroup \/ (RecordInitializationFailure /\ ~UNCHANGED rows),
         RecordsForNone
  PROVE  /\ Every("none")
         /\ \A p \in Pipelines :
              /\ pipelines'[p].status \in {"queued", "failed"}
              /\ pipelines'[p].cancelRequested = pipelines[p].cancelRequested
              /\ pipelines'[p].generation = pipelines[p].generation
              /\ stages'[p]["evidence"] \in {Queued, Become(Absent, "failed", 0, "permanent")}
              /\ \A k \in Kinds \ {"evidence"} : stages'[p][k] = stages[p][k]
         /\ initializing' # "record"
         /\ UNCHANGED <<leases, money, eligible, requests>>
<1>1. ASSUME NEW status \in {"queued", "failed"},
             NEW stage \in {Queued, Become(Absent, "failed", 0, "permanent")},
             pipelines' = [p \in Pipelines |-> [pipelines[p] EXCEPT !.status = status]],
             stages' = [p \in Pipelines |-> [stages[p] EXCEPT !["evidence"] = stage]],
             NEW p \in Pipelines
      PROVE  /\ pipelines'[p].status = status
             /\ pipelines'[p].cancelRequested = pipelines[p].cancelRequested
             /\ pipelines'[p].generation = pipelines[p].generation
             /\ stages'[p]["evidence"] = stage
             /\ \A k \in Kinds \ {"evidence"} : stages'[p][k] = stages[p][k]
  <2>1. /\ pipelines[p] \in [status : PipelineStatuses, cancelRequested : BOOLEAN, generation : Charges]
        /\ pipelines'[p] = [pipelines[p] EXCEPT !.status = status]
    BY <1>1 DEF TypeOK, PipelineRows
  <2>2. /\ stages[p] \in [Kinds -> Stage] /\ "evidence" \in Kinds
        /\ stages'[p] = [stages[p] EXCEPT !["evidence"] = stage]
    BY <1>1 DEF TypeOK, StageRows, Kinds
  <2>3. QED
    BY <2>1, <2>2
<1>2. CASE InitializeGroup
  <2>1. /\ Every("none") /\ eligible
        /\ pipelines' = [p \in Pipelines |-> [pipelines[p] EXCEPT !.status = "queued"]]
        /\ stages' = [p \in Pipelines |-> [stages[p] EXCEPT !["evidence"] = Queued]]
        /\ UNCHANGED <<leases, money, eligible, initializing, requests>>
    BY <1>2 DEF InitializeGroup
  <2>2. initializing' # "record"
    BY <2>1 DEF RecordsForNone
  <2>3. QED
    BY <1>1, <2>1, <2>2
<1>3. CASE RecordInitializationFailure /\ ~UNCHANGED rows
  <2>1. /\ Every("none") /\ initializing' # "record"
        /\ pipelines' = [p \in Pipelines |-> [pipelines[p] EXCEPT !.status = "failed"]]
        /\ stages' = [p \in Pipelines |-> [stages[p] EXCEPT !["evidence"] =
                         Become(Absent, "failed", 0, "permanent")]]
        /\ UNCHANGED <<leases, money, eligible, requests>>
    BY <1>3 DEF RecordInitializationFailure, RecordsForNone
  <2>2. QED
    BY <1>1, <2>1
<1>4. QED
  BY <1>2, <1>3

LEMMA RowsInductive ==
  ASSUME RowInv, TypeOK', Next
  PROVE  RowInv'
<1> USE BoundAssumption DEF RowInv
<1> DEFINE Goal == /\ (AttemptsLeft /\ OneGeneration /\ RetryReads)'
                   /\ (NothingBefore /\ RecordsForNone /\ CancelReads)'
<1>1. ASSUME InitializeGroup \/ (RecordInitializationFailure /\ ~UNCHANGED rows)
      PROVE  Goal
  <2>1. /\ Every("none") /\ initializing' # "record"
        /\ UNCHANGED <<leases, money, eligible, requests>>
    BY <1>1, BeginningRows
  <2>2. retrying = Idle /\ cancelling = Idle
    BY <2>1, SizeAssumption DEF Every, RetryReads, CancelReads, TerminalPipeline
  <2>3. ASSUME NEW p \in Pipelines
        PROVE  /\ pipelines'[p].status # "none" /\ pipelines'[p].generation = current
               /\ \A k \in Kinds : stages'[p][k].status = "queued" => stages'[p][k].attempts < MaxAttempts
    <3>1. Queued.attempts = 0 /\ Become(Absent, "failed", 0, "permanent").status = "failed"
      BY DEF Queued, Become
    <3>2. \A k \in Kinds \ {"evidence"} : stages'[p][k] = stages[p][k]
      BY <1>1, BeginningRows
    <3>3. stages'[p]["evidence"] \in {Queued, Become(Absent, "failed", 0, "permanent")}
      BY <1>1, BeginningRows
    <3>4. pipelines'[p].status # "none" /\ pipelines'[p].generation = current
      BY <1>1, BeginningRows DEF OneGeneration
    <3>5. QED
      BY <3>1, <3>2, <3>3, <3>4 DEF AttemptsLeft
  <2>4. QED
    BY <2>1, <2>2, <2>3 DEF AttemptsLeft, OneGeneration, RetryReads, NothingBefore, RecordsForNone,
       CancelReads, money, requests
<1>2. ASSUME RecordInitializationFailure, UNCHANGED rows
      PROVE  Goal
  BY <1>2, IdleAssumption DEF RecordInitializationFailure, rows, AttemptsLeft, OneGeneration, RetryReads, NothingBefore,
     RecordsForNone, CancelReads, Every, money, requests
<1>3. ASSUME NEW l \in leases, PersistStageSuccess(l)
      PROVE  Goal
  <2> DEFINE p == l.pipeline
  <2>1. /\ p \in Pipelines /\ pipelines[p].status \in Runnable
        /\ UNCHANGED <<money, eligible, initializing, requests>>
        /\ pipelines'[p].generation = pipelines[p].generation /\ pipelines'[p].status # "none"
        /\ \A q \in Pipelines : q # p =>
             pipelines'[q] = pipelines[q] /\ \A j \in Kinds : stages'[q][j] = stages[q][j]
    <3>1. /\ p \in Pipelines /\ pipelines[p].status \in Runnable
          /\ UNCHANGED <<money, eligible, initializing, requests>>
          /\ \A q \in Pipelines : q # p =>
               pipelines'[q] = pipelines[q] /\ \A j \in Kinds : stages'[q][j] = stages[q][j]
      BY <1>3, SuccessRows
    <3>2. pipelines'[p] =
            [status |-> IF l.kind = "uxreport" THEN "succeeded" ELSE pipelines[p].status,
             cancelRequested |-> FALSE, generation |-> pipelines[p].generation]
      BY <1>3, SuccessRows
    <3>3. QED
      BY <3>1, <3>2 DEF Runnable
  <2>2. retrying = Idle /\ initializing # "record"
    BY <2>1 DEF RetryReads, RecordsForNone, Every, Runnable, TerminalPipeline
  <2>3. \A j \in Kinds : \/ stages'[p][j] = stages[p][j]
                         \/ stages'[p][j].status = "succeeded"
                         \/ stages'[p][j] = Queued
    <3>1. \A j \in Kinds : stages'[p][j] =
            IF j = l.kind
            THEN [status |-> "succeeded", attempts |-> stages[p][j].attempts,
                  error |-> "none", output |-> TRUE]
            ELSE IF j \in ReadySuccessors(p, l.kind) /\ stages[p][j].status = "absent"
            THEN Queued ELSE stages[p][j]
      BY <1>3, SuccessRows
    <3>2. TAKE j \in Kinds
    <3>3. CASE j = l.kind
      <4>1. stages'[p][j] = [status |-> "succeeded", attempts |-> stages[p][j].attempts,
                             error |-> "none", output |-> TRUE]
        BY <3>1, <3>3
      <4>2. QED
        BY <4>1
    <3>4. CASE j # l.kind
      BY <3>1, <3>4
    <3>5. QED
      BY <3>3, <3>4
  <2>4. Queued.status = "queued" /\ Queued.attempts = 0
    BY NewStages
  <2>5. AttemptsLeft'
    BY <2>1, <2>3, <2>4 DEF AttemptsLeft
  <2>6. CancelReads'
    BY <2>1, <2>3, <2>4 DEF CancelReads, requests
  <2>7. QED
    BY <2>1, <2>2, <2>5, <2>6 DEF OneGeneration, RetryReads, NothingBefore, RecordsForNone, Every,
       money, requests
<1>4. ASSUME NEW p \in Pipelines, NEW k \in Kinds, NEW new \in Stage, NEW status \in PipelineStatuses,
             Writes(p, k, new, status)
      PROVE  Goal
  <2>1. /\ \A q \in Pipelines : q # p => pipelines'[q] = pipelines[q]
        /\ pipelines'[p].status = status /\ pipelines'[p].cancelRequested = pipelines[p].cancelRequested
        /\ pipelines'[p].generation = pipelines[p].generation
    BY <1>4 DEF Writes, TypeOK, PipelineRows
  <2>2. /\ stages'[p][k] = new
        /\ \A q \in Pipelines, j \in Kinds : q # p \/ j # k => stages'[q][j] = stages[q][j]
    BY <1>4, StageWritten DEF Writes
  <2>3. pipelines[p].status # "none" /\ status # "none"
    BY <1>4 DEF Writes, NothingBefore, Absent
  <2>4. (AttemptsLeft /\ OneGeneration /\ NothingBefore /\ RecordsForNone)'
    BY <1>4, <2>1, <2>2, <2>3 DEF Writes, AttemptsLeft, OneGeneration, NothingBefore, RecordsForNone,
       Every, money
  <2>5. RetryReads'
    BY <1>4, <2>1, <2>2 DEF Writes, RetryReads, TerminalPipeline, Runnable, money, requests
  <2>6. CancelReads'
    BY <1>4, <2>1, <2>2, <2>3 DEF Writes, CancelReads, requests
  <2>7. QED
    BY <2>4, <2>5, <2>6
<1>5. ASSUME NEW charge \in Charges, RetryTakesLock(charge)
      PROVE  Goal
  BY <1>5 DEF RetryTakesLock, RetryAllowed, AttemptsLeft, OneGeneration, RetryReads, NothingBefore,
     RecordsForNone, CancelReads, Every, rows, money
<1>6. CASE RetryAIPipelineGroup
  <2>1. retrying # Idle /\ retrying \in Retry /\ current \in Nat
    BY <1>6 DEF RetryAIPipelineGroup, TypeOK, Charges
  <2>2. ASSUME NEW p \in Pipelines
        PROVE  /\ pipelines'[p].generation = current'
               /\ pipelines'[p].status # "none"
               /\ \A k \in Kinds : stages'[p][k].status = "queued" => stages'[p][k].attempts < MaxAttempts
               /\ \A k \in Kinds : stages[p][k].status # "absent" => stages'[p][k].status # "absent"
    <3>1. /\ NewPipeline(p).generation = current + 1
          /\ NewPipeline(p).status = IF p \in Again THEN "queued" ELSE retrying.pipelines[p].status
      BY <2>1 DEF NewPipeline, Retry, PipelineRows
    <3>2. /\ retrying.pipelines[p].generation = current /\ retrying.pipelines[p].status # "none"
          /\ pipelines[p].status # "none" /\ current + 1 # current
      BY <2>1 DEF RetryReads, TerminalPipeline
    <3>3. pipelines'[p] = FlushedPipeline(pipelines[p], retrying.pipelines[p], NewPipeline(p))
          /\ current' = current + 1
      BY <1>6, RetryWrites
    <3>6. pipelines'[p].generation = current' /\ pipelines'[p].status # "none"
      BY <3>1, <3>2, <3>3 DEF FlushedPipeline, Flushed
    <3>4. ASSUME NEW k \in Kinds
          PROVE  /\ stages'[p][k].status = "queued" => stages'[p][k].attempts < MaxAttempts
                 /\ stages[p][k].status # "absent" => stages'[p][k].status # "absent"
      <4>1. CASE p \notin Again \/ retrying.stages[p][k].status \in {"absent", "succeeded"}
        <5>1. stages'[p][k] = stages[p][k]
          <6>1. stages[p][k] \in Stage /\ retrying.stages[p][k] \in Stage
            BY <2>1 DEF TypeOK, Retry, StageRows
          <6>2. \/ stages'[p][k] = stages[p][k]
                \/ stages'[p][k] = FlushedStage(stages[p][k], retrying.stages[p][k], retrying.stages[p][k])
            BY <1>6, <4>1, RetryWrites DEF Requeued
          <6>3. FlushedStage(stages[p][k], retrying.stages[p][k], retrying.stages[p][k]) = stages[p][k]
            BY <6>1 DEF FlushedStage, Flushed, Stage
          <6>4. QED
            BY <6>2, <6>3
        <5>2. QED
          BY <5>1 DEF AttemptsLeft
      <4>2. CASE p \in Again /\ retrying.stages[p][k].status \notin {"absent", "succeeded"}
        <5>1. Requeued(retrying.stages[p][k]).status = "queued" /\ Requeued(retrying.stages[p][k]).attempts = 0
          BY <4>2 DEF Requeued, Become
        <5>2. stages[p][k].attempts = retrying.stages[p][k].attempts
          BY <2>1 DEF RetryReads
        <5>3. stages'[p][k] =
                FlushedStage(stages[p][k], retrying.stages[p][k], Requeued(retrying.stages[p][k]))
          BY <1>6, <4>2, RetryWrites
        <5>4. stages'[p][k].attempts = 0 /\ stages'[p][k].status \in {"queued", stages[p][k].status}
          BY <5>1, <5>2, <5>3 DEF FlushedStage, Flushed
        <5>5. QED
          BY <5>4
      <4>3. QED
        BY <4>1, <4>2
    <3>5. QED
      BY <3>4, <3>6
  <2>3. initializing # "record"
    BY <2>1, SizeAssumption DEF RecordsForNone, Every, RetryReads, TerminalPipeline
  <2>4. CancelReads'
    BY <1>6, <2>2, RetryWrites DEF CancelReads
  <2>5. QED
    BY <1>6, <2>2, <2>3, <2>4, RetryWrites DEF AttemptsLeft, OneGeneration, NothingBefore, RecordsForNone,
       RetryReads
<1>7. CASE CancelReadsStages
  <2>1. UNCHANGED <<rows, current, eligible, initializing, retrying>>
    BY <1>7 DEF CancelReadsStages, rows, money
  <2>2. CancelReads'
    BY <1>7, <2>1 DEF CancelReadsStages, CancelReads, rows
  <2>3. QED
    BY <2>1, <2>2 DEF AttemptsLeft, OneGeneration, RetryReads, NothingBefore, RecordsForNone, Every, rows
<1>8. CASE CancelCommits
  <2>1. \A p \in Pipelines :
          /\ p \in cancelling.active => pipelines'[p].status = "cancelled"
          /\ p \notin cancelling.active =>
               pipelines'[p] = pipelines[p] /\ \A k \in Kinds : stages'[p][k] = stages[p][k]
          /\ pipelines'[p].generation = pipelines[p].generation
    BY <1>8 DEF CancelCommits, TypeOK, PipelineRows, StageRows
  <2>2. ASSUME NEW p \in Pipelines, NEW k \in Kinds
        PROVE  \/ stages'[p][k] = stages[p][k]
               \/ /\ stages'[p][k].attempts = stages[p][k].attempts
                  /\ stages'[p][k].status = "cancelled"
                  /\ stages[p][k].status # "absent"
    <3>1. CASE p \in cancelling.active /\ k \in cancelling.marked[p]
      <4>1. stages'[p][k] = [stages[p][k] EXCEPT !.status = "cancelled"]
        BY <1>8, <3>1 DEF CancelCommits
      <4>2. stages[p][k].status # "absent"
        BY <1>8, <3>1 DEF CancelCommits, CancelReads
      <4>3. QED
        BY <4>1, <4>2 DEF TypeOK, StageRows, Stage
    <3>2. CASE ~(p \in cancelling.active /\ k \in cancelling.marked[p])
      BY <1>8, <3>2 DEF CancelCommits
    <3>3. QED
      BY <3>1, <3>2
  <2>3. cancelling # Idle /\ cancelling' = Idle /\ UNCHANGED <<current, eligible, initializing, retrying>>
    BY <1>8 DEF CancelCommits
  <2>4. \A p \in Pipelines : pipelines[p].status # "none" /\ pipelines'[p].status # "none"
    BY <2>1, <2>3 DEF CancelReads
  <2>5. AttemptsLeft' /\ OneGeneration' /\ NothingBefore' /\ RecordsForNone' /\ CancelReads'
    BY <2>1, <2>2, <2>3, <2>4, SizeAssumption
       DEF AttemptsLeft, OneGeneration, NothingBefore, RecordsForNone, CancelReads, Every
  <2>6. RetryReads'
    BY <2>1, <2>2, <2>3 DEF RetryReads, TerminalPipeline
  <2>7. QED
    BY <2>5, <2>6
<1>9. CASE LeavesRows
  BY <1>9 DEF LeavesRows, rows, AttemptsLeft, OneGeneration, RetryReads, NothingBefore, RecordsForNone,
     CancelReads, Every
<1>10. QED
  BY <1>1, <1>2, <1>3, <1>4, <1>5, <1>6, <1>7, <1>8, <1>9, StepsOfGroup

LEMMA InitialRows == Init => RowInv
<1> SUFFICES ASSUME Init
             PROVE  RowInv
  OBVIOUS
<1>1. TypeOK
  BY InitTypes
<1>2. \A p \in Pipelines, k \in Kinds : stages[p][k] = Absent
  BY DEF Init
<1>3. AttemptsLeft /\ OneGeneration /\ RetryReads /\ RecordsForNone /\ CancelReads
  BY <1>2, IdleAssumption DEF Init, AttemptsLeft, OneGeneration, RetryReads, RecordsForNone, CancelReads,
     Absent
<1>4. NothingBefore
  BY <1>2 DEF Init, NothingBefore
<1>5. QED
  BY <1>1, <1>3, <1>4 DEF RowInv

LEMMA RowsKept == RowInv /\ [Next]_vars => RowInv'
<1> SUFFICES ASSUME RowInv, [Next]_vars
             PROVE  RowInv'
  OBVIOUS
<1>1. CASE Next
  <2>1. TypeOK'
    BY <1>1, InitializationTypes, WorkerTypes, SettleTypes, RetryTypes, CancelTypes DEF RowInv, Next
  <2>2. QED
    BY <1>1, <2>1, RowsInductive
<1>2. CASE UNCHANGED vars
  BY <1>2 DEF RowInv, TypeOK, AttemptsLeft, OneGeneration, RetryReads, NothingBefore, RecordsForNone,
     CancelReads, Every, vars, rows, money, requests
<1>3. QED
  BY <1>1, <1>2

LEMMA RowsHold == Spec => []RowInv
<1>1. QED
  BY InitialRows, RowsKept, PTL DEF Spec

(* Rows, requests and executions have the values their columns allow, and   *)
(* no stage ever counts more than MAX_STAGE_ATTEMPTS attempts.              *)
THEOREM PipelinesTypeCorrect == Spec => []TypeOK
<1>1. RowInv => TypeOK
  BY DEF RowInv
<1>2. QED
  BY <1>1, RowsHold, PTL

-----------------------------------------------------------------------------
(* What a retry makes of a stage row, and what the other steps but success  *)
(* make of it.                                                              *)
LEMMA RetriedRow ==
  ASSUME RowInv, RetryAIPipelineGroup, NEW p \in Pipelines, NEW k \in Kinds
  PROVE  \/ stages'[p][k] = stages[p][k]
         \/ /\ stages[p][k].status \notin {"absent", "succeeded"}
            /\ stages'[p][k].status \in {"queued", stages[p][k].status}
            /\ stages'[p][k].output = stages[p][k].output
<1> DEFINE read == retrying.stages[p][k]
<1>1. retrying # Idle /\ retrying \in Retry
  BY DEF RetryAIPipelineGroup, RowInv, TypeOK
<1>2. stages[p][k] \in Stage /\ read \in Stage
  BY <1>1 DEF RowInv, TypeOK, Retry, StageRows
<1>3. stages[p][k].status \in {"absent", "succeeded"} => read.status \in {"absent", "succeeded"}
  BY <1>1 DEF RowInv, RetryReads
<1>4. CASE p \notin Again \/ read.status \in {"absent", "succeeded"}
  <2>1. \/ stages'[p][k] = stages[p][k]
        \/ stages'[p][k] = FlushedStage(stages[p][k], read, read)
    BY <1>4, RetryWrites DEF Requeued, RowInv
  <2>2. FlushedStage(stages[p][k], read, read) = stages[p][k]
    BY <1>2 DEF FlushedStage, Flushed, Stage
  <2>3. QED
    BY <2>1, <2>2
<1>5. CASE p \in Again /\ read.status \notin {"absent", "succeeded"}
  <2>1. Requeued(read) = Become(read, "queued", 0, "none")
    BY <1>5 DEF Requeued
  <2>2. stages'[p][k] = FlushedStage(stages[p][k], read, Become(read, "queued", 0, "none"))
    BY <1>5, <2>1, RetryWrites DEF RowInv
  <2>3. /\ stages'[p][k].status \in {"queued", stages[p][k].status}
        /\ stages'[p][k].output = stages[p][k].output
    BY <2>2 DEF FlushedStage, Flushed, Become
  <2>4. QED
    BY <1>3, <1>5, <2>3
<1>6. QED
  BY <1>4, <1>5

LEMMA CancelledRow ==
  ASSUME RowInv, CancelCommits, NEW p \in Pipelines, NEW k \in Kinds
  PROVE  \/ stages'[p][k] = stages[p][k]
         \/ /\ stages[p][k].status # "absent"
            /\ stages'[p][k].status = "cancelled"
            /\ stages'[p][k].attempts = stages[p][k].attempts
            /\ stages'[p][k].output = stages[p][k].output
<1>1. CASE p \in cancelling.active /\ k \in cancelling.marked[p]
  <2>1. stages'[p][k] = [stages[p][k] EXCEPT !.status = "cancelled"]
    BY <1>1 DEF CancelCommits
  <2>2. stages[p][k].status # "absent"
    BY <1>1 DEF CancelCommits, RowInv, CancelReads
  <2>3. QED
    BY <2>1, <2>2 DEF RowInv, TypeOK, StageRows, Stage
<1>2. CASE ~(p \in cancelling.active /\ k \in cancelling.marked[p])
  BY <1>2 DEF CancelCommits
<1>3. QED
  BY <1>1, <1>2

LEMMA RowSteps ==
  ASSUME RowInv, Next, ~\E l \in leases : PersistStageSuccess(l), NEW p \in Pipelines, NEW k \in Kinds
  PROVE  /\ stages'[p][k].status = "absent" => stages'[p][k] = stages[p][k]
         /\ stages[p][k].status = "absent" /\ stages'[p][k].status # "absent" =>
              k = "evidence" /\ ~pipelines[p].cancelRequested
         /\ stages[p][k].status # "absent" /\ ~RetryAIPipelineGroup =>
              stages'[p][k].attempts >= stages[p][k].attempts
         /\ stages'[p][k].status = "succeeded" => stages[p][k].status = "succeeded"
         /\ stages[p][k].output => stages'[p][k].output
         /\ RetryAIPipelineGroup \/ current' = current
<1> DEFINE Goal == /\ stages'[p][k].status = "absent" => stages'[p][k] = stages[p][k]
                   /\ stages[p][k].status = "absent" /\ stages'[p][k].status # "absent" =>
                        k = "evidence" /\ ~pipelines[p].cancelRequested
                   /\ stages[p][k].status # "absent" /\ ~RetryAIPipelineGroup =>
                        stages'[p][k].attempts >= stages[p][k].attempts
                   /\ stages'[p][k].status = "succeeded" => stages[p][k].status = "succeeded"
                   /\ stages[p][k].output => stages'[p][k].output
                   /\ RetryAIPipelineGroup \/ current' = current
<1>1. stages[p][k] \in Stage /\ stages[p][k].attempts \in Nat
  BY BoundAssumption DEF RowInv, TypeOK, StageRows, Stage
<1>2. ASSUME UNCHANGED stages, current' = current
      PROVE  Goal
  BY <1>1, <1>2
<1>3. ASSUME InitializeGroup \/ (RecordInitializationFailure /\ ~UNCHANGED rows)
      PROVE  Goal
  <2>1. /\ Every("none") /\ UNCHANGED <<leases, money, eligible, requests>>
        /\ stages'[p]["evidence"] \in {Queued, Become(Absent, "failed", 0, "permanent")}
        /\ \A j \in Kinds \ {"evidence"} : stages'[p][j] = stages[p][j]
    BY <1>3, BeginningRows DEF RowInv
  <2>2. stages[p][k] = Absent /\ ~pipelines[p].cancelRequested
    BY <2>1 DEF Every, RowInv, NothingBefore
  <2>3. /\ Queued.status = "queued" /\ Become(Absent, "failed", 0, "permanent").status = "failed"
        /\ Absent.status = "absent" /\ ~Absent.output
    BY DEF Queued, Become, Absent
  <2>4. QED
    BY <2>1, <2>2, <2>3 DEF money
<1>4. CASE RecordInitializationFailure /\ UNCHANGED rows
  BY <1>2, <1>4 DEF RecordInitializationFailure, rows, money
<1>5. ASSUME NEW q \in Pipelines, NEW j \in Kinds, NEW new \in Stage, NEW status \in PipelineStatuses,
             Writes(q, j, new, status)
      PROVE  Goal
  <2>1. /\ stages'[q][j] = new /\ current' = current
        /\ q # p \/ j # k => stages'[p][k] = stages[p][k]
    BY <1>5, StageWritten DEF Writes, RowInv, money
  <2>2. CASE q = p /\ j = k
    <3>1. /\ stages[p][k].status \in {"queued", "running"}
          /\ new.output = stages[p][k].output
          /\ new.status \in {"queued", "running", "failed", "cancelled"}
          /\ new.attempts \in {stages[p][k].attempts, stages[p][k].attempts + 1}
      BY <1>5, <2>2 DEF Writes
    <3>2. QED
      BY <1>1, <2>1, <2>2, <3>1
  <2>3. QED
    BY <1>1, <2>1, <2>2
<1>6. CASE RetryAIPipelineGroup
  <2>1. CASE stages'[p][k] = stages[p][k]
    BY <1>1, <1>6, <2>1
  <2>2. CASE /\ stages[p][k].status \notin {"absent", "succeeded"}
             /\ stages'[p][k].status \in {"queued", stages[p][k].status}
             /\ stages'[p][k].output = stages[p][k].output
    BY <1>1, <1>6, <2>2
  <2>3. QED
    BY <1>6, <2>1, <2>2, RetriedRow
<1>7. CASE CancelCommits
  <2>1. current' = current
    BY <1>7 DEF CancelCommits
  <2>2. CASE stages'[p][k] = stages[p][k]
    BY <1>1, <2>1, <2>2
  <2>3. CASE /\ stages[p][k].status # "absent"
             /\ stages'[p][k].status = "cancelled"
             /\ stages'[p][k].attempts = stages[p][k].attempts
             /\ stages'[p][k].output = stages[p][k].output
    BY <1>1, <2>1, <2>3
  <2>4. QED
    BY <1>7, <2>2, <2>3, CancelledRow
<1>8. ASSUME NEW charge \in Charges, RetryTakesLock(charge)
      PROVE  Goal
  BY <1>2, <1>8 DEF RetryTakesLock, rows, money
<1>9. CASE CancelReadsStages
  BY <1>2, <1>9 DEF CancelReadsStages, rows, money
<1>10. CASE LeavesRows
  BY <1>2, <1>10 DEF LeavesRows, rows
<1>11. \/ InitializeGroup \/ RecordInitializationFailure
       \/ \E q \in Pipelines, j \in Kinds, new \in Stage, status \in PipelineStatuses :
            Writes(q, j, new, status)
       \/ \E charge \in Charges : RetryTakesLock(charge)
       \/ RetryAIPipelineGroup \/ CancelReadsStages \/ CancelCommits \/ LeavesRows
  BY StepsOfGroup DEF RowInv
<1>12. QED
  BY <1>3, <1>4, <1>5, <1>6, <1>7, <1>8, <1>9, <1>10, <1>11

LEMMA SuccessSteps ==
  ASSUME RowInv, NEW l \in leases, PersistStageSuccess(l), NEW p \in Pipelines, NEW k \in Kinds
  PROVE  /\ p = l.pipeline /\ k = l.kind =>
              /\ stages'[p][k].status = "succeeded" /\ stages'[p][k].output
              /\ stages'[p][k].attempts = stages[p][k].attempts
              /\ stages[p][k].status = "running"
         /\ ~(p = l.pipeline /\ k = l.kind) =>
              \/ stages'[p][k] = stages[p][k]
              \/ /\ p = l.pipeline /\ k \in ReadySuccessors(p, l.kind)
                 /\ stages[p][k].status = "absent" /\ stages'[p][k] = Queued
<1>1. TypeOK
  BY DEF RowInv
<1>2. CASE p # l.pipeline
  BY <1>1, <1>2, SuccessRows
<1>3. CASE p = l.pipeline /\ k = l.kind
  <2>1. stages'[p][k] = [status |-> "succeeded", attempts |-> stages[p][k].attempts,
                         error |-> "none", output |-> TRUE]
    BY <1>1, <1>3, SuccessRows
  <2>2. stages[p][k].status = "running"
    BY <1>1, <1>3, SuccessRows
  <2>3. QED
    BY <1>3, <2>1, <2>2
<1>4. CASE p = l.pipeline /\ k # l.kind
  BY <1>1, <1>4, SuccessRows
<1>5. QED
  BY <1>2, <1>3, <1>4

-----------------------------------------------------------------------------
(* Leases.                                                                  *)
LEMMA LeaseSteps ==
  ASSUME RowInv, Next
  PROVE  \/ leases' \subseteq leases
         \/ \E p \in Pipelines, k \in Kinds :
              /\ stages[p][k].status # "absent"
              /\ stages'[p][k].attempts = stages[p][k].attempts + 1
              /\ leases' = leases \cup {Claimed(p, k)}
              /\ UNCHANGED money
         \/ \E l \in leases, phase \in {"claimed", "prepared", "cancelled", "running"} :
              leases' = (leases \ {l}) \cup {[l EXCEPT !.phase = phase]} /\ UNCHANGED <<rows, money>>
<1>1. CASE Initialization
  BY <1>1 DEF Initialization, InitializeGroup, InitializationFails, RecordInitializationFailure,
     ReleaseForPermanentError, LoseInitialization
<1>2. ASSUME NEW p \in Pipelines, NEW k \in Kinds, ClaimNextAIStage(p, k)
      PROVE  /\ stages[p][k].status # "absent"
             /\ stages'[p][k].attempts = stages[p][k].attempts + 1
             /\ leases' = leases \cup {Claimed(p, k)}
             /\ UNCHANGED money
  <2>1. stages'[p][k] = Become(stages[p][k], "running", stages[p][k].attempts + 1, stages[p][k].error)
    BY <1>2, StageWritten DEF ClaimNextAIStage, RowInv
  <2>2. QED
    BY <1>2, <2>1 DEF ClaimNextAIStage, Claimable, Become
<1>3. ASSUME NEW p \in Pipelines, NEW k \in Kinds, ReapStaleAIStage(p, k)
      PROVE  leases' \subseteq leases
  BY <1>3 DEF ReapStaleAIStage
<1>4. ASSUME NEW l \in leases, Execution(l)
      PROVE  \/ leases' \subseteq leases
             \/ \E phase \in {"claimed", "prepared", "cancelled", "running"} :
                  leases' = (leases \ {l}) \cup {[l EXCEPT !.phase = phase]} /\ UNCHANGED <<rows, money>>
  BY <1>4 DEF Execution, PrepareStageExecution, PinProviderExecution, PersistStageSuccess,
     PersistStageFailure, PersistStageRetry, PersistCancellation, DropLease
<1>5. CASE Settle \/ RetryRequest \/ CancelRequest
  BY <1>5 DEF Settle, SettlementReads, SettlementCommits, SettlementAborts, RetryRequest, RetryReadsRuns,
     RetryTakesLock, RetryAborts, RetryAIPipelineGroup, CancelRequest, CancelReadsPipelines,
     CancelReadsStages, CancelCommits, CancelAborts
<1>6. QED
  BY <1>1, <1>2, <1>3, <1>4, <1>5 DEF Next, Worker

LEMMA AttemptsGrow ==
  ASSUME RowInv, Next, ~RetryAIPipelineGroup, NEW p \in Pipelines, NEW k \in Kinds,
         stages[p][k].status # "absent"
  PROVE  stages'[p][k].attempts >= stages[p][k].attempts
<1>1. stages[p][k].attempts \in Nat
  BY BoundAssumption DEF RowInv, TypeOK, StageRows, Stage
<1>2. ASSUME NEW l \in leases, PersistStageSuccess(l)
      PROVE  stages'[p][k].attempts = stages[p][k].attempts
  BY <1>2, SuccessSteps
<1>3. QED
  BY <1>1, <1>2, RowSteps

LEMMA CurrentSteps ==
  ASSUME RowInv, Next
  PROVE  \/ RetryAIPipelineGroup /\ current' = current + 1 /\ leases' = leases
         \/ ~RetryAIPipelineGroup /\ current' = current
<1>1. ASSUME NEW l \in leases, PersistStageSuccess(l)
      PROVE  current' = current
  BY <1>1 DEF PersistStageSuccess, money
<1>2. RetryAIPipelineGroup => current' = current + 1 /\ leases' = leases
  BY DEF RetryAIPipelineGroup
<1>3. \E k \in Kinds : TRUE
  BY DEF Kinds
<1>4. QED
  BY <1>1, <1>2, <1>3, RowSteps, SizeAssumption

LEMMA LeasesStayNumbered ==
  ASSUME RowInv, RowInv', LeaseInv, Next
  PROVE  LeasesNumbered'
<1>1. /\ current \in Nat /\ leases \subseteq Lease
      /\ \A l \in leases : l.attempts \in Nat /\ l.attempts >= 1 /\ l.generation \in Nat
  BY BoundAssumption DEF RowInv, TypeOK, Lease, Charges
<1>2. ASSUME NEW l \in leases
      PROVE  /\ l.generation <= current'
             /\ l.generation = current' => l.attempts <= stages'[l.pipeline][l.kind].attempts
  <2>1. l.generation <= current /\ l.pipeline \in Pipelines /\ l.kind \in Kinds
    BY <1>1 DEF LeaseInv, LeasesNumbered, Lease
  <2>2. CASE RetryAIPipelineGroup
    BY <1>1, <2>1, <2>2, CurrentSteps
  <2>3. CASE ~RetryAIPipelineGroup
    <3>1. current' = current
      BY <2>3, CurrentSteps
    <3>2. CASE l.generation = current
      <4>1. l.attempts <= stages[l.pipeline][l.kind].attempts
        BY <3>2 DEF LeaseInv, LeasesNumbered
      <4>2. stages[l.pipeline][l.kind].status # "absent"
        BY <1>1, <2>1, <4>1 DEF LeaseInv, AbsentEmpty, Absent
      <4>3. stages'[l.pipeline][l.kind].attempts >= stages[l.pipeline][l.kind].attempts
        BY <2>1, <2>3, <4>2, AttemptsGrow
      <4>4. stages[l.pipeline][l.kind].attempts \in Nat /\ stages'[l.pipeline][l.kind].attempts \in Nat
        BY <2>1, BoundAssumption DEF RowInv, TypeOK, StageRows, Stage
      <4>5. QED
        BY <1>1, <2>1, <3>1, <4>1, <4>3, <4>4
    <3>3. QED
      BY <2>1, <3>1, <3>2
  <2>4. QED
    BY <2>2, <2>3
<1>3. CASE leases' \subseteq leases
  BY <1>2, <1>3 DEF LeasesNumbered
<1>4. ASSUME NEW p \in Pipelines, NEW k \in Kinds,
             stages'[p][k].attempts = stages[p][k].attempts + 1,
             leases' = leases \cup {Claimed(p, k)}, UNCHANGED money
      PROVE  LeasesNumbered'
  <2>1. pipelines[p].generation = current /\ current' = current
    BY <1>4 DEF RowInv, OneGeneration, money
  <2>2. /\ Claimed(p, k).pipeline = p /\ Claimed(p, k).kind = k /\ Claimed(p, k).generation = current
        /\ Claimed(p, k).attempts = stages'[p][k].attempts
    BY <1>4, <2>1 DEF Claimed
  <2>3. stages'[p][k].attempts \in Nat
    BY BoundAssumption DEF RowInv, TypeOK, StageRows, Stage
  <2>4. QED
    BY <1>1, <1>2, <1>4, <2>1, <2>2, <2>3 DEF LeasesNumbered
<1>5. ASSUME NEW l \in leases, NEW phase \in {"claimed", "prepared", "cancelled", "running"},
             leases' = (leases \ {l}) \cup {[l EXCEPT !.phase = phase]}
      PROVE  LeasesNumbered'
  <2>1. LET m == [l EXCEPT !.phase = phase]
        IN  /\ m.pipeline = l.pipeline /\ m.kind = l.kind
            /\ m.generation = l.generation /\ m.attempts = l.attempts
    BY <1>1 DEF Lease
  <2>2. QED
    BY <1>2, <1>5, <2>1 DEF LeasesNumbered
<1>6. QED
  BY <1>3, <1>4, <1>5, LeaseSteps

LEMMA LeasesStayApart ==
  ASSUME RowInv, RowInv', LeaseInv, Next
  PROVE  LeasesApart'
<1>1. /\ leases \subseteq Lease
      /\ \A l \in leases : l.attempts \in Nat
  BY BoundAssumption DEF RowInv, TypeOK, Lease
<1>2. CASE leases' \subseteq leases
  BY <1>2 DEF LeaseInv, LeasesApart
<1>3. ASSUME NEW p \in Pipelines, NEW k \in Kinds,
             leases' = leases \cup {Claimed(p, k)}
      PROVE  LeasesApart'
  <2>1. /\ Claimed(p, k).pipeline = p /\ Claimed(p, k).kind = k /\ Claimed(p, k).generation = current
        /\ Claimed(p, k).attempts = stages[p][k].attempts + 1 /\ stages[p][k].attempts \in Nat
    BY BoundAssumption DEF Claimed, RowInv, OneGeneration, TypeOK, StageRows, Stage
  <2>2. ASSUME NEW l \in leases, l.pipeline = p, l.kind = k, l.generation = current
        PROVE  l.attempts # stages[p][k].attempts + 1
    BY <1>1, <2>1, <2>2 DEF LeaseInv, LeasesNumbered
  <2>3. QED
    BY <1>3, <2>1, <2>2 DEF LeaseInv, LeasesApart
<1>4. ASSUME NEW l \in leases, NEW phase \in {"claimed", "prepared", "cancelled", "running"},
             leases' = (leases \ {l}) \cup {[l EXCEPT !.phase = phase]}
      PROVE  LeasesApart'
  <2> DEFINE m == [l EXCEPT !.phase = phase]
  <2>1. /\ m.pipeline = l.pipeline /\ m.kind = l.kind
        /\ m.generation = l.generation /\ m.attempts = l.attempts
    BY <1>1 DEF Lease
  <2>2. \A n \in leases' : n = m \/ (n \in leases /\ n # l)
    BY <1>4
  <2> HIDE DEF m
  <2>3. QED
    BY <2>1, <2>2 DEF LeaseInv, LeasesApart
<1>5. QED
  BY <1>2, <1>3, <1>4, LeaseSteps

LEMMA AbsentStayEmpty ==
  ASSUME RowInv, LeaseInv, Next
  PROVE  AbsentEmpty'
<1> SUFFICES ASSUME NEW p \in Pipelines, NEW k \in Kinds, stages'[p][k].status = "absent"
             PROVE  stages'[p][k] = Absent
  BY DEF AbsentEmpty
<1>1. ASSUME NEW l \in leases, PersistStageSuccess(l)
      PROVE  stages'[p][k] = stages[p][k]
  BY <1>1, SuccessSteps, NewStages
<1>2. stages'[p][k] = stages[p][k]
  BY <1>1, RowSteps
<1>3. QED
  BY <1>2 DEF LeaseInv, AbsentEmpty

LEMMA LeasesHold == Spec => [](RowInv /\ LeaseInv)
<1>1. Init => LeaseInv
  BY DEF Init, LeaseInv, LeasesNumbered, LeasesApart, AbsentEmpty, Absent
<1>2. RowInv /\ RowInv' /\ LeaseInv /\ [Next]_vars => LeaseInv'
  <2>1. ASSUME RowInv, RowInv', LeaseInv, Next
        PROVE  LeaseInv'
    BY <2>1, LeasesStayNumbered, LeasesStayApart, AbsentStayEmpty DEF LeaseInv
  <2>2. LeaseInv /\ UNCHANGED vars => LeaseInv'
    BY DEF LeaseInv, LeasesNumbered, LeasesApart, AbsentEmpty, vars, rows, money
  <2>3. QED
    BY <2>1, <2>2
<1>3. QED
  BY <1>1, <1>2, RowsHold, PTL DEF Spec

(* Of all executions of a stage that are still out at any time, whatever    *)
(* was claimed again, reaped, retried by hand or cancelled since, at most   *)
(* one passes the check of _relock_for_persist.                             *)
THEOREM OneResultPerStage == Spec => []OneWriterPerStage
<1>1. LeaseInv => OneWriterPerStage
  BY DEF LeaseInv, LeasesApart, OneWriterPerStage, Current
<1>2. QED
  BY <1>1, LeasesHold, PTL

-----------------------------------------------------------------------------
(* Stages.                                                                  *)
LEMMA KindCases ==
  ASSUME NEW p \in Pipelines, NEW k \in Kinds
  PROVE  /\ Predecessors("evidence") = {} /\ Predecessors("aggregation") = Batches
         /\ \A j \in ReadySuccessors(p, k) :
              /\ j # "evidence"
              /\ \/ Predecessors(j) = {k}
                 \/ j = "aggregation" /\ k \in Batches /\ Succeeded(p, Batches \ {k})
         /\ k \in Batches /\ Succeeded(p, Batches \ {k}) => "aggregation" \in ReadySuccessors(p, k)
         /\ "aggregation" \in Kinds /\ Batches \subseteq Kinds
  BY KindAssumption DEF Kinds, Predecessors, ReadySuccessors

LEMMA PredecessorsAreKinds ==
  ASSUME NEW k \in Kinds
  PROVE  Predecessors(k) \subseteq Kinds
  BY KindAssumption DEF Kinds, Predecessors

LEMMA InitialGraph == Init => GraphInv
<1> SUFFICES ASSUME Init
             PROVE  GraphInv
  OBVIOUS
<1>1. \A p \in Pipelines, k \in Kinds : stages[p][k].status = "absent"
  BY DEF Init, Absent
<1>2. QED
  BY <1>1, SizeAssumption DEF GraphInv, StagesFollowGraph, SuccessHasOutput, Succeeded, Kinds

LEMMA OutputsStay ==
  ASSUME RowInv, AbsentEmpty, Next, NEW p \in Pipelines, NEW k \in Kinds
  PROVE  /\ stages[p][k].output => stages'[p][k].output
         /\ SuccessHasOutput /\ stages'[p][k].status = "succeeded" => stages'[p][k].output
<1>1. ASSUME NEW l \in leases, PersistStageSuccess(l)
      PROVE  /\ stages[p][k].output => stages'[p][k].output
             /\ SuccessHasOutput /\ stages'[p][k].status = "succeeded" => stages'[p][k].output
  <2>1. CASE p = l.pipeline /\ k = l.kind
    BY <1>1, <2>1, SuccessSteps
  <2>2. CASE stages'[p][k] = stages[p][k]
    BY <2>2 DEF SuccessHasOutput
  <2>3. CASE stages[p][k].status = "absent" /\ stages'[p][k] = Queued
    BY <2>3, NewStages DEF AbsentEmpty, Absent
  <2>4. QED
    BY <1>1, <2>1, <2>2, <2>3, SuccessSteps
<1>2. QED
  BY <1>1, RowSteps DEF SuccessHasOutput

LEMMA GraphStays ==
  ASSUME RowInv, AbsentEmpty, GraphInv, Next
  PROVE  GraphInv'
<1> USE DEF GraphInv
<1>1. \A p \in Pipelines, k \in Kinds :
        stages'[p][k].status = "absent" => stages[p][k].status = "absent"
  <2>1. ASSUME NEW l \in leases, PersistStageSuccess(l), NEW p \in Pipelines, NEW k \in Kinds
        PROVE  stages'[p][k].status = "absent" => stages[p][k].status = "absent"
    BY <2>1, SuccessSteps
  <2>2. QED
    BY <2>1, RowSteps
<1>2. ASSUME NEW p \in Pipelines, NEW k \in Kinds, stages'[p][k].status # "absent",
             NEW j \in Predecessors(k)
      PROVE  stages'[p][j].output
  <2>1. j \in Kinds
    BY PredecessorsAreKinds
  <2>2. CASE stages[p][k].status # "absent"
    BY <2>1, <2>2, OutputsStay DEF StagesFollowGraph
  <2>3. ASSUME stages[p][k].status = "absent", NEW l \in leases, PersistStageSuccess(l)
        PROVE  stages'[p][j].output
    <3>1. l.kind \in Kinds /\ p = l.pipeline /\ k \in ReadySuccessors(p, l.kind)
      <4>1. l.kind \in Kinds
        BY DEF RowInv, TypeOK, Lease
      <4>2. ~(p = l.pipeline /\ k = l.kind) /\ stages'[p][k] # stages[p][k]
        BY <1>2, <2>3, SuccessSteps
      <4>3. QED
        BY <2>3, <4>1, <4>2, SuccessSteps
    <3>2. stages'[p][l.kind].output
      BY <2>3, <3>1, SuccessSteps
    <3>3. /\ k # "evidence"
          /\ \/ Predecessors(k) = {l.kind}
             \/ /\ k = "aggregation" /\ Predecessors(k) = Batches
                /\ Succeeded(p, Batches \ {l.kind})
      BY <3>1, KindCases
    <3>4. CASE j = l.kind
      BY <3>2, <3>4
    <3>5. CASE j # l.kind
      <4>1. stages[p][j].output
        BY <2>1, <3>3, <3>5 DEF Succeeded, SuccessHasOutput
      <4>2. QED
        BY <2>1, <4>1, OutputsStay
    <3>6. QED
      BY <3>4, <3>5
  <2>4. CASE stages[p][k].status = "absent" /\ ~\E l \in leases : PersistStageSuccess(l)
    <3>1. k = "evidence"
      BY <1>2, <2>4, RowSteps
    <3>2. QED
      BY <1>2, <3>1, KindCases
  <2>5. QED
    BY <2>2, <2>3, <2>4
<1>3. ASSUME NEW p \in Pipelines, \A k \in Batches : stages'[p][k].status = "succeeded"
      PROVE  stages'[p]["aggregation"].status # "absent"
  <2>1. "aggregation" \in Kinds /\ Batches \subseteq Kinds
    BY DEF Kinds
  <2>2. CASE Succeeded(p, Batches)
    BY <1>1, <2>1, <2>2 DEF StagesFollowGraph
  <2>3. CASE ~Succeeded(p, Batches)
    <3>1. PICK k \in Batches : stages[p][k].status # "succeeded"
      BY <2>3 DEF Succeeded
    <3>2. PICK l \in leases : PersistStageSuccess(l)
      BY <1>3, <2>1, <3>1, RowSteps
    <3>3. \A j \in Batches : j # k => stages[p][j].status = "succeeded"
      <4>1. ASSUME NEW j \in Batches, ~(p = l.pipeline /\ j = l.kind)
            PROVE  stages[p][j].status = "succeeded"
        <5>1. stages'[p][j] # Queued
          BY <1>3, NewStages
        <5>2. stages'[p][j] = stages[p][j]
          BY <2>1, <3>2, <4>1, <5>1, SuccessSteps
        <5>3. QED
          BY <1>3, <5>2
      <4>2. QED
        BY <3>1, <4>1
    <3>4. p = l.pipeline /\ k = l.kind
      <4>1. ASSUME ~(p = l.pipeline /\ k = l.kind)
            PROVE  FALSE
        <5>1. stages'[p][k] # Queued
          BY <1>3, NewStages
        <5>2. stages'[p][k] = stages[p][k]
          BY <2>1, <3>2, <4>1, <5>1, SuccessSteps
        <5>3. QED
          BY <1>3, <3>1, <5>2
      <4>2. QED
        BY <4>1
    <3>5. "aggregation" \in ReadySuccessors(p, l.kind) /\ "aggregation" # l.kind
      BY <2>1, <3>3, <3>4, KindCases, KindAssumption DEF Succeeded
    <3>6. stages'[p]["aggregation"] =
            IF stages[p]["aggregation"].status = "absent" THEN Queued ELSE stages[p]["aggregation"]
      BY <2>1, <3>2, <3>4, <3>5, SuccessRows DEF RowInv
    <3>7. QED
      BY <3>6, NewStages
  <2>4. QED
    BY <2>2, <2>3
<1>4. StagesFollowGraph'
  BY <1>2, <1>3 DEF StagesFollowGraph, Succeeded
<1>5. SuccessHasOutput'
  BY OutputsStay DEF SuccessHasOutput
<1>6. QED
  BY <1>4, <1>5

(* The stage graph holds whatever crashes, late results, reaping, manual    *)
(* retries and cancellations do: no stage without the stored output of all  *)
(* stages before it, and no fan-in lost between batches that finish         *)
(* concurrently.                                                            *)
THEOREM PipelinesFollowGraph == Spec => []StagesFollowGraph
<1>1. Init => GraphInv
  BY InitialGraph
<1>2. RowInv /\ LeaseInv /\ GraphInv /\ [Next]_vars => GraphInv'
  <2>1. GraphInv /\ UNCHANGED vars => GraphInv'
    BY DEF GraphInv, StagesFollowGraph, SuccessHasOutput, Succeeded, vars, rows
  <2>2. QED
    BY <2>1, GraphStays DEF LeaseInv
<1>3. GraphInv => StagesFollowGraph
  BY DEF GraphInv
<1>4. QED
  BY <1>1, <1>2, <1>3, LeasesHold, PTL DEF Spec

-----------------------------------------------------------------------------
(* Nothing is produced for a group the user cancelled: no result, no new    *)
(* stage, until a manual retry takes the cancellation back.                 *)
THEOREM CancelledGroupsRest == Spec => NoWorkAfterCancel
<1>1. ASSUME RowInv, [Next]_vars
      PROVE  [LeavesCancelledAlone]_rows
  <2>1. CASE UNCHANGED vars
    BY <2>1 DEF vars
  <2>2. CASE Next
    <3> SUFFICES ASSUME NEW p \in Pipelines, pipelines[p].cancelRequested, NEW k \in Kinds
                 PROVE  /\ stages'[p][k].status = "succeeded" => stages[p][k].status = "succeeded"
                        /\ stages[p][k].status = "absent" => stages'[p][k].status = "absent"
      BY DEF LeavesCancelledAlone
    <3>1. ASSUME NEW l \in leases, PersistStageSuccess(l)
          PROVE  stages'[p][k] = stages[p][k]
      <4>1. p # l.pipeline
        BY <3>1 DEF PersistStageSuccess, CurrentAndRunnable
      <4>2. QED
        BY <1>1, <3>1, <4>1, SuccessRows DEF RowInv
    <3>2. QED
      BY <1>1, <2>2, <3>1, RowSteps
  <2>3. QED
    BY <1>1, <2>1, <2>2
<1>2. QED
  BY <1>1, RowsHold, PTL DEF Spec, NoWorkAfterCancel

-----------------------------------------------------------------------------
(* As long as nobody cancels: an open cancel request would have been        *)
(* counted, so there is none.                                               *)
LEMMA UncancelledSteps ==
  ASSUME RowInv, UncancelledInv, Next, cancels' = 0
  PROVE  \/ Initialization \/ Worker \/ Settle
         \/ RetryReadsRuns \/ \E charge \in Charges : RetryTakesLock(charge) \/ RetryAborts(charge)
         \/ RetryAIPipelineGroup
<1>1. CASE CancelRequest
  <2>1. cancels' = cancels + 1
    BY <1>1 DEF CancelRequest, CancelReadsPipelines, CancelReadsStages, CancelCommits, CancelAborts,
       UncancelledInv, NobodyCancels
  <2>2. cancels \in Nat
    BY BoundAssumption DEF RowInv, TypeOK
  <2>3. QED
    BY <2>1, <2>2
<1>2. QED
  BY <1>1 DEF Next, RetryRequest

(* What the worker does to the pipelines, and to the outputs.               *)
Progress ==
  /\ UNCHANGED <<money, eligible, initializing, requests>>
  /\ \A p \in Pipelines :
       /\ pipelines'[p].cancelRequested = pipelines[p].cancelRequested
       /\ \/ pipelines'[p].status = pipelines[p].status
          \/ pipelines[p].status \in Runnable /\ pipelines'[p].status \in {"running", "failed", "succeeded"}

LEMMA AllSucceeded ==
  ASSUME RowInv, AbsentEmpty, GraphInv, ResultsComplete, NEW l \in leases, PersistStageSuccess(l), l.kind = "uxreport"
  PROVE  \A k \in Kinds : stages'[l.pipeline][k].status = "succeeded"
<1> DEFINE p == l.pipeline
<1>1. p \in Pipelines /\ stages[p]["uxreport"].status = "running"
  BY SuccessRows DEF RowInv
<1>2. \A k, j \in Kinds : stages[p][k].status # "absent" /\ j \in Predecessors(k) => stages[p][j].status = "succeeded"
  BY <1>1 DEF GraphInv, StagesFollowGraph, ResultsComplete
<1>3. /\ Predecessors("uxreport") = {"aggregation"} /\ Predecessors("aggregation") = Batches
      /\ \A k \in Batches : Predecessors(k) = {"scenario"}
      /\ Predecessors("scenario") = {"batching"} /\ Predecessors("batching") = {"evidence"}
  BY KindAssumption DEF Predecessors
<1>4. Kinds = {"evidence", "batching", "scenario", "aggregation", "uxreport"} \cup Batches
  BY DEF Kinds
<1>5. stages[p]["aggregation"].status = "succeeded"
  BY <1>1, <1>2, <1>3, <1>4
<1>6. \A k \in Batches : stages[p][k].status = "succeeded"
  BY <1>2, <1>3, <1>4, <1>5
<1>7. stages[p]["scenario"].status = "succeeded"
  <2>1. PICK k \in Batches : TRUE
    BY SizeAssumption
  <2>2. k \in Kinds /\ stages[p][k].status # "absent" /\ "scenario" \in Predecessors(k)
    BY <1>3, <1>4, <1>6
  <2>3. QED
    BY <1>2, <1>4, <2>2
<1>8. stages[p]["batching"].status = "succeeded"
  BY <1>2, <1>3, <1>4, <1>7
<1>9. stages[p]["evidence"].status = "succeeded"
  BY <1>2, <1>3, <1>4, <1>8
<1>10. \A k \in Kinds : k # "uxreport" => stages[p][k].status = "succeeded"
  BY <1>4, <1>5, <1>6, <1>7, <1>8, <1>9
<1>11. ASSUME NEW k \in Kinds
       PROVE  stages'[p][k].status = "succeeded"
  <2>1. CASE k = "uxreport"
    BY <1>1, <2>1, SuccessSteps
  <2>2. CASE k # "uxreport"
    <3>1. stages[p][k].status = "succeeded"
      BY <1>10, <2>2
    <3>2. stages'[p][k] = stages[p][k]
      BY <1>1, <2>2, <3>1, SuccessSteps
    <3>3. QED
      BY <3>1, <3>2
  <2>3. QED
    BY <2>1, <2>2
<1>12. QED
  BY <1>11

LEMMA WorkerProgress ==
  ASSUME RowInv, AbsentEmpty, GraphInv, UncancelledInv, Worker
  PROVE  /\ Progress
         /\ ResultsComplete'
         /\ \A p \in Pipelines, k \in Kinds :
              stages'[p][k].status = "cancelled" => stages[p][k].status = "cancelled"
<1> DEFINE Goal == /\ Progress
                   /\ ResultsComplete'
                   /\ \A p \in Pipelines, k \in Kinds :
                        stages'[p][k].status = "cancelled" => stages[p][k].status = "cancelled"
<1>1. ASSUME NEW l \in leases, PersistStageSuccess(l)
      PROVE  Goal
  <2> DEFINE p == l.pipeline
  <2>1. /\ p \in Pipelines /\ l.kind \in Kinds /\ pipelines[p].status \in Runnable
        /\ \A q \in Pipelines : q # p => pipelines'[q] = pipelines[q]
        /\ UNCHANGED <<money, eligible, initializing, requests>>
        /\ ~pipelines[p].cancelRequested
    BY <1>1, SuccessRows DEF RowInv
  <2>2. pipelines'[p] =
          [status |-> IF l.kind = "uxreport" THEN "succeeded" ELSE pipelines[p].status,
           cancelRequested |-> FALSE, generation |-> pipelines[p].generation]
    BY <1>1, SuccessRows DEF RowInv
  <2>3. /\ pipelines'[p].cancelRequested = FALSE
        /\ l.kind = "uxreport" => pipelines'[p].status = "succeeded"
        /\ l.kind # "uxreport" => pipelines'[p].status = pipelines[p].status
    BY <2>2
  <2>4. pipelines[p].cancelRequested = FALSE
    BY <2>1 DEF RowInv, TypeOK, PipelineRows
  <2>5. Progress
    BY <2>1, <2>3, <2>4 DEF Progress
  <2>6. ASSUME NEW q \in Pipelines, NEW k \in Kinds
        PROVE  /\ stages'[q][k].output => stages'[q][k].status = "succeeded"
               /\ stages'[q][k].status = "cancelled" => stages[q][k].status = "cancelled"
    <3>1. CASE stages'[q][k] = stages[q][k]
      BY <3>1 DEF UncancelledInv, ResultsComplete
    <3>2. CASE q = p /\ k = l.kind
      BY <1>1, <3>2, SuccessSteps
    <3>3. CASE stages'[q][k] = Queued
      BY <3>3, NewStages
    <3>4. QED
      BY <1>1, <3>1, <3>2, <3>3, SuccessSteps
  <2>7. ASSUME NEW q \in Pipelines, pipelines'[q].status = "succeeded", NEW k \in Kinds
        PROVE  stages'[q][k].status = "succeeded"
    <3>1. CASE q = p
      <4>1. l.kind = "uxreport"
        BY <2>1, <2>3, <2>7, <3>1 DEF Runnable
      <4>2. QED
        BY <1>1, <3>1, <4>1, AllSucceeded DEF UncancelledInv
    <3>2. CASE q # p
      <4>1. stages'[q][k] = stages[q][k] /\ pipelines[q].status = "succeeded"
        BY <1>1, <2>1, <2>7, <3>2, SuccessRows DEF RowInv
      <4>2. QED
        BY <4>1 DEF UncancelledInv, ResultsComplete, Succeeded
    <3>3. QED
      BY <3>1, <3>2
  <2>8. QED
    BY <2>5, <2>6, <2>7 DEF ResultsComplete, Succeeded
<1>2. ASSUME NEW p \in Pipelines, NEW k \in Kinds, NEW new \in Stage, NEW status \in PipelineStatuses,
             Writes(p, k, new, status)
      PROVE  Goal
  <2>1. /\ \A q \in Pipelines : q # p => pipelines'[q] = pipelines[q]
        /\ pipelines'[p].status = status /\ pipelines'[p].cancelRequested = pipelines[p].cancelRequested
        /\ pipelines[p].status \in PipelineStatuses
    BY <1>2 DEF Writes, RowInv, TypeOK, PipelineRows
  <2>2. /\ stages'[p][k] = new
        /\ \A q \in Pipelines, j \in Kinds : q # p \/ j # k => stages'[q][j] = stages[q][j]
    BY <1>2, StageWritten DEF Writes, RowInv
  <2>3. status # "cancelled" /\ new.status # "cancelled"
    BY <1>2 DEF Writes, UncancelledInv, NobodyCancels
  <2>4. ~stages[p][k].output /\ ~new.output /\ pipelines[p].status # "succeeded"
    BY <1>2 DEF Writes, UncancelledInv, ResultsComplete, Succeeded
  <2>5. pipelines[p].status # "none" /\ pipelines[p].status # "cancelled"
    BY <1>2 DEF Writes, RowInv, NothingBefore, Absent, UncancelledInv, NobodyCancels
  <2>6. \/ status = pipelines[p].status
        \/ pipelines[p].status \in Runnable /\ status \in {"running", "failed"}
    BY <1>2, <2>1, <2>3, <2>4, <2>5 DEF Writes, PipelineStatuses, Runnable
  <2>7. Progress
    BY <1>2, <2>1, <2>6 DEF Progress, Writes
  <2>8. ResultsComplete'
    BY <2>1, <2>2, <2>4, <2>6 DEF ResultsComplete, Succeeded, UncancelledInv
  <2>9. QED
    BY <2>2, <2>3, <2>7, <2>8
<1>3. CASE Worker /\ UNCHANGED <<rows, money, eligible, initializing, requests>>
  BY <1>3 DEF Progress, rows, ResultsComplete, Succeeded, UncancelledInv
<1>4. \/ \E l \in leases : PersistStageSuccess(l)
      \/ \E p \in Pipelines, k \in Kinds, new \in Stage, status \in PipelineStatuses :
           Writes(p, k, new, status)
      \/ UNCHANGED <<rows, money, eligible, initializing, requests>>
  BY StepsOfWorker DEF RowInv
<1>5. QED
  BY <1>1, <1>2, <1>3, <1>4

LEMMA RetriedPipelines ==
  ASSUME RowInv, UncancelledInv, RetryAIPipelineGroup, NEW p \in Pipelines
  PROVE  /\ pipelines'[p].status = IF pipelines[p].status = "failed" THEN "queued" ELSE pipelines[p].status
         /\ pipelines'[p].cancelRequested = FALSE
<1>1. retrying # Idle /\ retrying \in Retry
  BY DEF RetryAIPipelineGroup, RowInv, TypeOK
<1>2. /\ retrying.pipelines[p] \in [status : PipelineStatuses, cancelRequested : BOOLEAN, generation : Charges]
      /\ pipelines[p].cancelRequested \in BOOLEAN
  BY <1>1 DEF RowInv, TypeOK, Retry, PipelineRows
<1>3. /\ retrying.pipelines[p].status = pipelines[p].status /\ pipelines[p].status # "cancelled"
      /\ pipelines[p].cancelRequested = FALSE
  BY <1>1, <1>2 DEF UncancelledInv, RetryReadsFailure, NobodyCancels
<1>4. pipelines'[p] = FlushedPipeline(pipelines[p], retrying.pipelines[p], NewPipeline(p))
  BY RetryWrites DEF RowInv
<1>5. CASE p \in Again
  <2>1. /\ NewPipeline(p).status = "queued" /\ NewPipeline(p).cancelRequested = FALSE
        /\ pipelines[p].status = "failed"
    BY <1>3, <1>5 DEF NewPipeline, Again
  <2>2. QED
    BY <1>3, <1>4, <2>1 DEF FlushedPipeline, Flushed
<1>6. CASE p \notin Again
  <2>1. /\ NewPipeline(p).status = retrying.pipelines[p].status
        /\ NewPipeline(p).cancelRequested = retrying.pipelines[p].cancelRequested
        /\ pipelines[p].status # "failed"
    BY <1>2, <1>3, <1>6 DEF NewPipeline, Again
  <2>2. QED
    BY <1>3, <1>4, <2>1 DEF FlushedPipeline, Flushed
<1>7. QED
  BY <1>5, <1>6

LEMMA UncancelledRows ==
  ASSUME RowInv, UncancelledInv, Next, cancels' = 0
  PROVE  Worker \/ RetryAIPipelineGroup \/ InitializeGroup
         \/ (RecordInitializationFailure /\ ~UNCHANGED rows) \/ UNCHANGED rows
<1>1. CASE Initialization
  BY <1>1 DEF Initialization, InitializationFails, ReleaseForPermanentError, LoseInitialization
<1>2. CASE Settle
  BY <1>2 DEF Settle, SettlementReads, SettlementCommits, SettlementAborts
<1>3. CASE RetryReadsRuns \/ \E charge \in Charges : RetryTakesLock(charge) \/ RetryAborts(charge)
  BY <1>3 DEF RetryReadsRuns, RetryTakesLock, RetryAborts
<1>4. QED
  BY <1>1, <1>2, <1>3, UncancelledSteps

LEMMA StaysUncancelled ==
  ASSUME RowInv, AbsentEmpty, GraphInv, UncancelledInv, Next, cancels' = 0
  PROVE  NobodyCancels'
<1>1. cancelling' = Idle
  BY UncancelledSteps DEF UncancelledInv, NobodyCancels, Initialization, InitializeGroup,
     InitializationFails, RecordInitializationFailure, ReleaseForPermanentError, LoseInitialization,
     Worker, ClaimNextAIStage, ReapStaleAIStage, Execution, PrepareStageExecution, PinProviderExecution,
     PersistStageSuccess, PersistStageFailure, PersistStageRetry, PersistCancellation, DropLease,
     Settle, SettlementReads, SettlementCommits, SettlementAborts, RetryReadsRuns, RetryTakesLock,
     RetryAborts, RetryAIPipelineGroup, requests
<1>2. ASSUME NEW p \in Pipelines
      PROVE  ~pipelines'[p].cancelRequested /\ pipelines'[p].status # "cancelled"
  <2>1. ~pipelines[p].cancelRequested /\ pipelines[p].status # "cancelled"
    BY DEF UncancelledInv, NobodyCancels
  <2>2. CASE Worker
    BY <2>1, <2>2, WorkerProgress DEF Progress
  <2>3. CASE RetryAIPipelineGroup
    BY <2>1, <2>3, RetriedPipelines
  <2>4. CASE InitializeGroup \/ (RecordInitializationFailure /\ ~UNCHANGED rows)
    BY <2>1, <2>4, BeginningRows DEF RowInv
  <2>5. CASE UNCHANGED rows
    BY <2>1, <2>5 DEF rows
  <2>6. QED
    BY <2>2, <2>3, <2>4, <2>5, UncancelledRows
<1>3. ASSUME NEW p \in Pipelines, NEW k \in Kinds
      PROVE  stages'[p][k].status # "cancelled"
  <2>1. stages[p][k].status # "cancelled"
    BY DEF UncancelledInv, NobodyCancels
  <2>2. CASE Worker
    BY <2>1, <2>2, WorkerProgress
  <2>3. CASE RetryAIPipelineGroup
    BY <2>1, <2>3, RetriedRow
  <2>4. CASE InitializeGroup \/ (RecordInitializationFailure /\ ~UNCHANGED rows)
    <3>1. stages'[p]["evidence"].status \in {"queued", "failed"}
      <4>1. Queued.status = "queued" /\ Become(Absent, "failed", 0, "permanent").status = "failed"
        BY DEF Queued, Become
      <4>2. QED
        BY <2>4, <4>1, BeginningRows DEF RowInv
    <3>2. k # "evidence" => stages'[p][k] = stages[p][k]
      BY <2>4, BeginningRows DEF RowInv
    <3>3. QED
      BY <2>1, <3>1, <3>2
  <2>5. CASE UNCHANGED rows
    BY <2>1, <2>5 DEF rows
  <2>6. QED
    BY <2>2, <2>3, <2>4, <2>5, UncancelledRows
<1>4. ASSUME NEW m \in leases'
      PROVE  m.phase # "cancelled"
  <2>1. CASE m \in leases
    BY <2>1 DEF UncancelledInv, NobodyCancels
  <2>2. ASSUME NEW p \in Pipelines, NEW k \in Kinds, leases' = leases \cup {Claimed(p, k)}, m \notin leases
        PROVE  m.phase # "cancelled"
    BY <2>2 DEF Claimed
  <2>3. ASSUME NEW l \in leases, PrepareStageExecution(l) \/ PinProviderExecution(l), m \notin leases
        PROVE  m.phase # "cancelled"
    <3>1. l \in Lease /\ l.pipeline \in Pipelines
      BY DEF RowInv, TypeOK, Lease
    <3>2. PICK phase \in {"prepared", "running"} : leases' = (leases \ {l}) \cup {[l EXCEPT !.phase = phase]}
      BY <2>3, <3>1 DEF PrepareStageExecution, PinProviderExecution, UncancelledInv, NobodyCancels
    <3>3. m = [l EXCEPT !.phase = phase]
      BY <2>3, <3>2
    <3>4. QED
      BY <3>1, <3>3 DEF Lease
  <2>4. CASE Worker
    <3>1. ASSUME NEW l \in leases, Execution(l)
          PROVE  PrepareStageExecution(l) \/ PinProviderExecution(l) \/ leases' \subseteq leases
      BY <3>1 DEF Execution, PersistStageSuccess, PersistStageFailure, PersistStageRetry,
         PersistCancellation, DropLease
    <3>2. ASSUME NEW p \in Pipelines, NEW k \in Kinds, ClaimNextAIStage(p, k) \/ ReapStaleAIStage(p, k)
          PROVE  leases' = leases \/ leases' = leases \cup {Claimed(p, k)}
      BY <3>2 DEF ClaimNextAIStage, ReapStaleAIStage
    <3>3. QED
      BY <2>1, <2>2, <2>3, <2>4, <3>1, <3>2 DEF Worker
  <2>5. CASE Initialization
    <3>1. leases' \subseteq leases
      BY <2>5 DEF Initialization, InitializeGroup, InitializationFails,
         RecordInitializationFailure, ReleaseForPermanentError, LoseInitialization
    <3>2. QED
      BY <2>1, <3>1
  <2>6. CASE ~Worker /\ ~Initialization
    <3>1. leases' \subseteq leases
      BY <2>6, UncancelledSteps DEF Settle, SettlementReads, SettlementCommits, SettlementAborts,
         RetryReadsRuns, RetryTakesLock, RetryAborts, RetryAIPipelineGroup
    <3>2. QED
      BY <2>1, <3>1
  <2>7. QED
    BY <2>4, <2>5, <2>6
<1>5. QED
  BY <1>1, <1>2, <1>3, <1>4 DEF NobodyCancels

LEMMA ResultsStayComplete ==
  ASSUME RowInv, AbsentEmpty, GraphInv, UncancelledInv, Next, cancels' = 0
  PROVE  ResultsComplete'
<1>1. CASE Worker
  BY <1>1, WorkerProgress
<1>2. CASE RetryAIPipelineGroup
  <2>1. ASSUME NEW p \in Pipelines, NEW k \in Kinds
        PROVE  /\ stages'[p][k].output => stages'[p][k].status = "succeeded"
               /\ stages[p][k].status = "succeeded" => stages'[p][k].status = "succeeded"
    BY <1>2, RetriedRow DEF UncancelledInv, ResultsComplete
  <2>2. \A p \in Pipelines : pipelines'[p].status = "succeeded" => pipelines[p].status = "succeeded"
    BY <1>2, RetriedPipelines
  <2>3. QED
    BY <2>1, <2>2 DEF UncancelledInv, ResultsComplete, Succeeded
<1>3. CASE InitializeGroup \/ (RecordInitializationFailure /\ ~UNCHANGED rows)
  <2>1. \A p \in Pipelines : pipelines'[p].status # "succeeded"
    BY <1>3, BeginningRows DEF RowInv
  <2>2. ASSUME NEW p \in Pipelines, NEW k \in Kinds
        PROVE  ~stages'[p][k].output
    <3>1. pipelines[p].status = "none"
      BY <1>3, BeginningRows DEF RowInv, Every
    <3>2. stages[p][k] = Absent
      BY <3>1 DEF RowInv, NothingBefore
    <3>3. ~Absent.output /\ ~Queued.output /\ ~Become(Absent, "failed", 0, "permanent").output
      BY DEF Queued, Become, Absent
    <3>4. stages'[p][k] \in {Absent, Queued, Become(Absent, "failed", 0, "permanent")}
      BY <1>3, <3>2, BeginningRows DEF RowInv
    <3>5. QED
      BY <3>3, <3>4
  <2>3. QED
    BY <2>1, <2>2 DEF ResultsComplete
<1>4. CASE UNCHANGED rows
  BY <1>4 DEF rows, UncancelledInv, ResultsComplete, Succeeded
<1>5. QED
  BY <1>1, <1>2, <1>3, <1>4, UncancelledSteps DEF Initialization, InitializationFails,
     ReleaseForPermanentError, LoseInitialization, Settle, SettlementReads, SettlementCommits,
     SettlementAborts, RetryReadsRuns, RetryTakesLock, RetryAborts

LEMMA RetryStillReads ==
  ASSUME RowInv, AbsentEmpty, GraphInv, UncancelledInv, Next, cancels' = 0
  PROVE  RetryReadsFailure'
<1>1. ASSUME UNCHANGED rows, retrying' \in {retrying, Idle}
      PROVE  RetryReadsFailure'
  BY <1>1 DEF rows, UncancelledInv, RetryReadsFailure, ToRetry
<1>2. CASE Worker
  <2>1. retrying' = retrying /\ \A p \in Pipelines :
          \/ pipelines'[p].status = pipelines[p].status
          \/ pipelines[p].status \in Runnable
    BY <1>2, WorkerProgress DEF Progress, requests
  <2>2. retrying # Idle => \A p \in Pipelines : pipelines'[p].status = pipelines[p].status
    BY <2>1 DEF RowInv, RetryReads, TerminalPipeline, Runnable
  <2>3. QED
    BY <2>1, <2>2 DEF UncancelledInv, RetryReadsFailure, ToRetry
<1>3. CASE RetryAIPipelineGroup
  BY <1>3 DEF RetryAIPipelineGroup, RetryReadsFailure
<1>4. CASE InitializeGroup \/ (RecordInitializationFailure /\ ~UNCHANGED rows)
  <2>1. Every("none") /\ retrying' = retrying
    BY <1>4, BeginningRows DEF RowInv, requests
  <2>2. retrying = Idle
    BY <2>1, SizeAssumption DEF Every, RowInv, RetryReads, TerminalPipeline
  <2>3. QED
    BY <2>1, <2>2 DEF RetryReadsFailure
<1>5. CASE RecordInitializationFailure /\ UNCHANGED rows
  BY <1>1, <1>5 DEF RecordInitializationFailure, requests
<1>6. ASSUME NEW charge \in Charges, RetryTakesLock(charge)
      PROVE  RetryReadsFailure'
  BY <1>6 DEF RetryTakesLock, RetryAllowed, RetryReadsFailure, ToRetry, rows
<1>7. QED
  BY <1>1, <1>2, <1>3, <1>4, <1>5, <1>6, UncancelledSteps DEF Initialization, InitializationFails,
     ReleaseForPermanentError, LoseInitialization, Settle, SettlementReads, SettlementCommits,
     SettlementAborts, RetryReadsRuns, RetryAborts, requests

LEMMA UncancelledKept ==
  RowInv /\ AbsentEmpty /\ GraphInv /\ UncancelledInv /\ [Next]_vars /\ cancels' = 0 => UncancelledInv'
<1>1. ASSUME RowInv, AbsentEmpty, GraphInv, UncancelledInv, Next, cancels' = 0
      PROVE  UncancelledInv'
  BY <1>1, StaysUncancelled, ResultsStayComplete, RetryStillReads DEF UncancelledInv
<1>2. UncancelledInv /\ UNCHANGED vars => UncancelledInv'
  BY DEF UncancelledInv, NobodyCancels, ResultsComplete, Succeeded, RetryReadsFailure, ToRetry,
     vars, rows, requests
<1>3. QED
  BY <1>1, <1>2

LEMMA UncancelledHold == Spec /\ [](cancels = 0) => [](RowInv /\ LeaseInv /\ GraphInv /\ UncancelledInv)
<1>1. Init => GraphInv /\ UncancelledInv
  <2>1. Init => UncancelledInv
    BY DEF Init, UncancelledInv, NobodyCancels, ResultsComplete, RetryReadsFailure, Absent
  <2>2. QED
    BY <2>1, InitialGraph
<1>2. RowInv /\ LeaseInv /\ GraphInv /\ [Next]_vars => GraphInv'
  <2>1. GraphInv /\ UNCHANGED vars => GraphInv'
    BY DEF GraphInv, StagesFollowGraph, SuccessHasOutput, Succeeded, vars, rows
  <2>2. QED
    BY <2>1, GraphStays DEF LeaseInv
<1>3. RowInv /\ LeaseInv /\ GraphInv /\ UncancelledInv /\ [Next]_vars /\ (cancels = 0)' => UncancelledInv'
  BY UncancelledKept DEF LeaseInv
<1>4. QED
  BY <1>1, <1>2, <1>3, LeasesHold, PTL DEF Spec

(* As long as nobody cancels, a result that was stored stays: late workers, *)
(* the reaper and manual retries leave it alone.                            *)
THEOREM ResultsAreKept == Spec /\ [](cancels = 0) => SucceededKept
<1>1. ASSUME RowInv, LeaseInv, GraphInv, UncancelledInv', [Next]_vars
      PROVE  [KeepsSucceeded]_stages
  <2>1. CASE Next
    <3>1. ASSUME NEW p \in Pipelines, NEW k \in Kinds, stages[p][k].status = "succeeded"
          PROVE  stages'[p][k].status = "succeeded"
      <4>1. stages'[p][k].output
        BY <1>1, <2>1, <3>1, OutputsStay DEF GraphInv, SuccessHasOutput, LeaseInv
      <4>2. QED
        BY <1>1, <4>1 DEF UncancelledInv, ResultsComplete
    <3>2. QED
      BY <3>1 DEF KeepsSucceeded
  <2>2. CASE UNCHANGED vars
    BY <2>2 DEF vars, rows
  <2>3. QED
    BY <1>1, <2>1, <2>2
<1>2. QED
  BY <1>1, UncancelledHold, PTL DEF Spec, SucceededKept

-----------------------------------------------------------------------------
(* Money, as long as nobody cancels.                                        *)
LEMMA IneligibleIdle ==
  ASSUME RowInv, MoneyInv, ~eligible
  PROVE  ~Worker /\ ~RetryAIPipelineGroup /\ ~\E charge \in Charges : RetryTakesLock(charge)
<1> USE DEF MoneyInv, IneligibleNeverRuns
<1>1. ASSUME Worker PROVE FALSE
  BY <1>1 DEF Worker, ClaimNextAIStage, Claimable, ReapStaleAIStage
<1>2. ~RetryAIPipelineGroup
  BY DEF RetryAIPipelineGroup
<1>3. ASSUME NEW charge \in Charges, RetryTakesLock(charge) PROVE FALSE
  <2>1. PICK p \in Pipelines : pipelines[p].status = "failed"
    BY <1>3 DEF RetryTakesLock, RetryAllowed, ToRetry
  <2>2. "evidence" \in Kinds
    BY DEF Kinds
  <2>3. QED
    BY <1>3, <2>1, <2>2 DEF RetryTakesLock, RetryAllowed, ToRetry, ManualRetryable
<1>4. QED
  BY <1>1, <1>2, <1>3

LEMMA WorkKeepsMoney ==
  ASSUME RowInv, AbsentEmpty, GraphInv, UncancelledInv, MoneyInv, Worker
  PROVE  MoneyInv'
<1>1. /\ reservations' = reservations /\ current' = current /\ eligible' = eligible
      /\ initializing' = initializing /\ settling' = settling /\ eligible
      /\ \A p \in Pipelines :
           \/ pipelines'[p].status = pipelines[p].status
           \/ pipelines[p].status \in Runnable /\ pipelines'[p].status \in {"running", "failed", "succeeded"}
  BY WorkerProgress, IneligibleIdle DEF Progress, money, requests
<1>2. \A p \in Pipelines :
        /\ pipelines[p].status \in {"failed", "cancelled"} => pipelines'[p].status \in {"failed", "cancelled"}
        /\ pipelines[p].status = "succeeded" => pipelines'[p].status = "succeeded"
        /\ pipelines'[p].status \in Runnable => pipelines[p].status \in Runnable
        /\ pipelines'[p].status = "none" <=> pipelines[p].status = "none"
  BY <1>1 DEF Runnable
<1>3. ToRetry # {} => ToRetry' # {}
  BY <1>2 DEF ToRetry
<1>4. IneligibleNeverRuns' /\ EligibleNotFailing'
  BY <1>1 DEF MoneyInv, IneligibleNeverRuns, EligibleNotFailing
<1>5. BeginsReserved'
  BY <1>1, <1>2 DEF MoneyInv, BeginsReserved, Every
<1>6. RunsReserved' /\ DecisionStands'
  BY <1>1, <1>2, <1>3 DEF MoneyInv, RunsReserved, DecisionStands, Every
<1>7. ChargedForReports'
  <2>1. \A c \in Charges : reservations'[c] = "consumed" => c = current' /\ Every("succeeded")'
    BY <1>1, <1>2 DEF MoneyInv, ChargedForReports, Every
  <2>2. ASSUME Every("succeeded")'
        PROVE  reservations'[current'] # "released"
    <3>1. CASE Every("succeeded")
      BY <1>1, <3>1 DEF MoneyInv, ChargedForReports
    <3>2. CASE ~Every("succeeded")
      <4>1. \E p \in Pipelines : pipelines[p].status \in Runnable
        BY <1>1, <2>2, <3>2 DEF Every
      <4>2. ToRetry = {}
        BY <1>2, <2>2 DEF Every, ToRetry
      <4>3. QED
        BY <1>1, <4>1, <4>2 DEF MoneyInv, RunsReserved
    <3>3. QED
      BY <3>1, <3>2
  <2>3. QED
    BY <2>1, <2>2 DEF ChargedForReports
<1>8. QED
  BY <1>4, <1>5, <1>6, <1>7 DEF MoneyInv

LEMMA InitializationKeepsMoney ==
  ASSUME RowInv, MoneyInv, Initialization
  PROVE  MoneyInv'
<1> USE DEF MoneyInv
<1>1. CASE InitializeGroup
  <2>1. /\ Every("none") /\ eligible /\ eligible' = eligible /\ initializing' = initializing
        /\ reservations' = reservations /\ current' = current /\ settling' = settling
    BY <1>1 DEF InitializeGroup, money, requests
  <2>2. \A p \in Pipelines : pipelines'[p].status = "queued"
    BY <1>1 DEF InitializeGroup, RowInv, TypeOK, PipelineRows
  <2>3. reservations[current] = "reserved" /\ settling = Idle
    BY <2>1, SizeAssumption DEF BeginsReserved, Every
  <2>4. \A c \in Charges : reservations[c] # "consumed"
    BY <2>1, SizeAssumption DEF ChargedForReports, Every
  <2>5. QED
    BY <2>1, <2>2, <2>3, <2>4, SizeAssumption DEF IneligibleNeverRuns, BeginsReserved,
       EligibleNotFailing, RunsReserved, DecisionStands, ChargedForReports, Every
<1>2. CASE RecordInitializationFailure /\ ~UNCHANGED rows
  <2>1. /\ Every("none") /\ ~eligible /\ eligible' = eligible /\ leases' = leases /\ retrying' = retrying
        /\ reservations' = reservations /\ current' = current /\ settling' = settling
    BY <1>2 DEF RecordInitializationFailure, RowInv, RecordsForNone, money, requests
  <2>2. \A p \in Pipelines : pipelines'[p].status = "failed"
    BY <1>2 DEF RecordInitializationFailure, RowInv, TypeOK, PipelineRows
  <2>3. ASSUME NEW p \in Pipelines
        PROVE  /\ stages'[p]["evidence"].status = "failed" /\ stages'[p]["evidence"].error = "permanent"
               /\ \A k \in Kinds : stages'[p][k].status \in {"absent", "failed"}
    <3>1. /\ stages'[p]["evidence"] = Become(Absent, "failed", 0, "permanent")
          /\ \A k \in Kinds : k # "evidence" => stages'[p][k] = stages[p][k]
      BY <1>2 DEF RecordInitializationFailure, RowInv, TypeOK, StageRows, Kinds
    <3>2. QED
      BY <2>1, <3>1 DEF Become, IneligibleNeverRuns
  <2>4. \A c \in Charges : reservations[c] # "consumed"
    BY <2>1, SizeAssumption DEF ChargedForReports, Every
  <2>5. PICK p \in Pipelines : TRUE
    BY SizeAssumption
  <2>6. ToRetry' # {} /\ ~Every("succeeded")' /\ ~Every("succeeded")
    BY <2>1, <2>2, <2>5 DEF ToRetry, Every
  <2>7. \A q \in Pipelines : pipelines'[q].status \notin Runnable
    BY <2>2 DEF Runnable
  <2>8. IneligibleNeverRuns'
    BY <2>1, <2>2, <2>3 DEF IneligibleNeverRuns
  <2>9. QED
    BY <2>1, <2>4, <2>6, <2>7, <2>8 DEF BeginsReserved, EligibleNotFailing, RunsReserved, DecisionStands,
       ChargedForReports
<1>3. ASSUME UNCHANGED rows, UNCHANGED <<leases, current, eligible>>, settling' = settling,
             retrying' = retrying, eligible => reservations' = reservations /\ initializing' = initializing,
             \A c \in Charges : reservations'[c] \in {reservations[c], "released"}
      PROVE  MoneyInv'
  <2>1. CASE eligible
    BY <1>3, <2>1 DEF rows, IneligibleNeverRuns, BeginsReserved, EligibleNotFailing, RunsReserved,
       DecisionStands, ChargedForReports, Every, ToRetry
  <2>2. CASE ~eligible
    <3>1. \A p \in Pipelines : pipelines[p].status \notin Runnable /\ pipelines[p].status # "succeeded"
      BY <2>2 DEF IneligibleNeverRuns, Runnable
    <3>2. IneligibleNeverRuns' /\ BeginsReserved' /\ EligibleNotFailing' /\ RunsReserved'
      BY <1>3, <2>2, <3>1 DEF rows, IneligibleNeverRuns, BeginsReserved, EligibleNotFailing, RunsReserved
    <3>3. DecisionStands' /\ ChargedForReports'
      BY <1>3, <2>2, <3>1, SizeAssumption DEF rows, DecisionStands, ChargedForReports, Every, ToRetry
    <3>4. QED
      BY <3>2, <3>3
  <2>3. QED
    BY <2>1, <2>2
<1>4. CASE \/ InitializationFails \/ LoseInitialization
           \/ RecordInitializationFailure /\ UNCHANGED rows
  <2>1. initializing # Idle => ~eligible
    BY DEF EligibleNotFailing
  <2>2. QED
    BY <1>3, <1>4, <2>1, IdleAssumption DEF InitializationFails, LoseInitialization,
       RecordInitializationFailure, money, requests
<1>5. CASE ReleaseForPermanentError
  <2>1. ~eligible
    BY <1>5, IdleAssumption DEF ReleaseForPermanentError, EligibleNotFailing
  <2>2. \A c \in Charges : reservations'[c] \in {reservations[c], "released"}
    BY <1>5 DEF ReleaseForPermanentError, RowInv, TypeOK
  <2>3. QED
    BY <1>3, <1>5, <2>1, <2>2 DEF ReleaseForPermanentError, requests
<1>6. QED
  BY <1>1, <1>2, <1>4, <1>5 DEF Initialization

LEMMA SettleKeepsMoney ==
  ASSUME RowInv, MoneyInv, Settle
  PROVE  MoneyInv'
<1> USE DEF MoneyInv
<1>1. UNCHANGED <<rows, leases, current, eligible, initializing, retrying>>
  BY DEF Settle, SettlementReads, SettlementCommits, SettlementAborts, money
<1>2. IneligibleNeverRuns' /\ EligibleNotFailing'
  BY <1>1 DEF rows, IneligibleNeverRuns, EligibleNotFailing
<1>3. ASSUME NEW outcome \in {"consumed", "released"}, SettlementReads(outcome)
      PROVE  MoneyInv'
  <2>1. /\ reservations' = reservations /\ settling' = [charge |-> current, outcome |-> outcome]
        /\ outcome \in SettlementOutcome /\ \A p \in Pipelines : pipelines[p].status # "none"
    BY <1>3 DEF SettlementReads, money
  <2>2. settling'.charge = current' /\ settling'.outcome = outcome /\ current \in Nat
    BY <1>1, <2>1 DEF RowInv, TypeOK, Charges
  <2>3. /\ outcome = "consumed" => Every("succeeded")
        /\ outcome = "released" => ToRetry # {}
    BY <2>1 DEF SettlementOutcome, ToRetry
  <2>4. DecisionStands'
    BY <1>1, <2>2, <2>3 DEF DecisionStands, rows, Every, ToRetry
  <2>5. BeginsReserved' /\ RunsReserved' /\ ChargedForReports'
    BY <1>1, <2>1 DEF rows, BeginsReserved, RunsReserved, ChargedForReports, Every, ToRetry
  <2>6. QED
    BY <1>2, <2>4, <2>5
<1>4. CASE SettlementCommits
  <2>1. /\ settling # Idle /\ settling \in Settlement /\ settling' = Idle
        /\ reservations' = [reservations EXCEPT ![settling.charge] = settling.outcome]
    BY <1>4 DEF SettlementCommits, RowInv, TypeOK
  <2>2. /\ settling.charge \in Charges /\ settling.outcome \in {"consumed", "released"}
        /\ reservations'[settling.charge] = settling.outcome
        /\ \A c \in Charges : c # settling.charge => reservations'[c] = reservations[c]
    BY <2>1 DEF Settlement, RowInv, TypeOK
  <2>3. current \in Charges
    BY DEF RowInv, TypeOK
  <2>4. BeginsReserved'
    BY <1>1, <2>1 DEF BeginsReserved, rows
  <2>5. RunsReserved'
    <3>1. CASE settling.charge = current
      BY <1>1, <2>1, <2>2, <3>1 DEF RunsReserved, DecisionStands, rows, Every, ToRetry, Runnable
    <3>2. CASE settling.charge # current
      BY <1>1, <2>2, <2>3, <3>2 DEF RunsReserved, rows, ToRetry
    <3>3. QED
      BY <3>1, <3>2
  <2>6. ChargedForReports'
    <3>1. ASSUME NEW c \in Charges, reservations'[c] = "consumed"
          PROVE  c = current /\ Every("succeeded")
      BY <2>1, <2>2, <3>1 DEF DecisionStands, ChargedForReports
    <3>2. ASSUME Every("succeeded")
          PROVE  reservations'[current] # "released"
      <4>1. ToRetry = {}
        BY <3>2 DEF ToRetry, Every
      <4>2. QED
        BY <2>1, <2>2, <2>3, <3>2, <4>1 DEF DecisionStands, ChargedForReports
    <3>3. QED
      BY <1>1, <3>1, <3>2 DEF ChargedForReports, rows, Every
  <2>7. DecisionStands'
    BY <2>1 DEF DecisionStands
  <2>8. QED
    BY <1>2, <2>4, <2>5, <2>6, <2>7
<1>5. CASE SettlementAborts
  BY <1>1, <1>2, <1>5 DEF SettlementAborts, money, rows, BeginsReserved, RunsReserved, DecisionStands,
     ChargedForReports, Every, ToRetry
<1>6. QED
  BY <1>3, <1>4, <1>5 DEF Settle

LEMMA RetryKeepsMoney ==
  ASSUME RowInv, RowInv', UncancelledInv, MoneyInv,
         \/ RetryReadsRuns \/ \E charge \in Charges : RetryTakesLock(charge) \/ RetryAborts(charge)
         \/ RetryAIPipelineGroup
  PROVE  MoneyInv'
<1> USE DEF MoneyInv
<1>1. ASSUME UNCHANGED <<rows, leases, money, eligible, initializing, settling>>,
             retrying' \in {retrying, Idle} \/ eligible
      PROVE  MoneyInv'
  BY <1>1 DEF rows, money, IneligibleNeverRuns, BeginsReserved, EligibleNotFailing, RunsReserved,
     DecisionStands, ChargedForReports, Every, ToRetry
<1>2. CASE RetryReadsRuns \/ \E charge \in Charges : RetryTakesLock(charge) \/ RetryAborts(charge)
  BY <1>1, <1>2, IneligibleIdle DEF RetryReadsRuns, RetryTakesLock, RetryAborts
<1>3. CASE RetryAIPipelineGroup
  <2>1. /\ eligible' = eligible /\ initializing' = initializing /\ settling' = settling /\ eligible
        /\ current' = current + 1 /\ reservations' = [reservations EXCEPT ![current + 1] = "reserved"]
        /\ retrying # Idle
    BY <1>3, IneligibleIdle DEF RetryAIPipelineGroup
  <2>2. /\ current \in Nat /\ current + 1 \in Charges /\ reservations'[current'] = "reserved"
        /\ \A c \in Charges : c # current' => reservations'[c] = reservations[c]
    <3>1. current \in Charges /\ current' \in Charges
      BY DEF RowInv, TypeOK
    <3>2. QED
      BY <2>1, <3>1 DEF RowInv, TypeOK, Charges
  <2>3. ~Every("succeeded") /\ \A p \in Pipelines : pipelines[p].status # "none"
    BY <2>1 DEF UncancelledInv, RetryReadsFailure, ToRetry, Every, RowInv, RetryReads, TerminalPipeline
  <2>4. \A p \in Pipelines : pipelines'[p].status # "none"
    BY <1>3, <2>3, RetriedPipelines
  <2>5. IneligibleNeverRuns' /\ BeginsReserved' /\ EligibleNotFailing' /\ RunsReserved'
    BY <2>1, <2>2, <2>4 DEF IneligibleNeverRuns, BeginsReserved, EligibleNotFailing, RunsReserved
  <2>6. DecisionStands'
    <3>1. settling # Idle => settling.charge <= current /\ settling.charge \in Nat /\ settling.outcome # "consumed"
      BY <2>3 DEF DecisionStands, RowInv, TypeOK, Settlement, Charges
    <3>2. QED
      BY <2>1, <2>2, <3>1 DEF DecisionStands
  <2>7. ChargedForReports'
    BY <2>1, <2>2, <2>3 DEF ChargedForReports
  <2>8. QED
    BY <2>5, <2>6, <2>7
<1>4. QED
  BY <1>2, <1>3

LEMMA MoneyKept ==
  RowInv /\ RowInv' /\ AbsentEmpty /\ GraphInv /\ UncancelledInv /\ MoneyInv /\ [Next]_vars /\ cancels' = 0
    => MoneyInv'
<1>1. ASSUME RowInv, RowInv', AbsentEmpty, GraphInv, UncancelledInv, MoneyInv, Next, cancels' = 0
      PROVE  MoneyInv'
  BY <1>1, UncancelledSteps, WorkKeepsMoney, InitializationKeepsMoney, SettleKeepsMoney, RetryKeepsMoney
<1>2. MoneyInv /\ UNCHANGED vars => MoneyInv'
  BY DEF MoneyInv, IneligibleNeverRuns, BeginsReserved, EligibleNotFailing, RunsReserved,
     DecisionStands, ChargedForReports, Every, ToRetry, vars, rows, money, requests
<1>3. QED
  BY <1>1, <1>2

LEMMA InitialMoney == Init => MoneyInv /\ EarlierInv
<1> SUFFICES ASSUME Init
             PROVE  MoneyInv /\ EarlierInv
  OBVIOUS
<1>1. /\ \A p \in Pipelines : pipelines[p].status = "none" /\ \A k \in Kinds : stages[p][k] = Absent
      /\ current = 0 /\ 0 \in Charges /\ reservations[0] = "reserved"
      /\ \A c \in Charges : c # 0 => reservations[c] = "none"
      /\ settling = Idle /\ retrying = Idle /\ leases = {} /\ waiting = {} /\ initializing = Idle
  BY BoundAssumption DEF Init, Charges
<1>2. IneligibleNeverRuns /\ BeginsReserved /\ EligibleNotFailing
  BY <1>1 DEF IneligibleNeverRuns, BeginsReserved, EligibleNotFailing, Every, Absent
<1>3. RunsReserved /\ DecisionStands /\ ChargedForReports /\ EarlierInv
  BY <1>1, SizeAssumption DEF RunsReserved, DecisionStands, ChargedForReports, EarlierInv, Every, Runnable
<1>4. QED
  BY <1>2, <1>3 DEF MoneyInv

LEMMA EarlierKept ==
  ASSUME RowInv, UncancelledInv, MoneyInv, EarlierInv, Next, cancels' = 0
  PROVE  EarlierInv'
<1>1. current \in Nat /\ waiting \subseteq Nat /\ 0 \in Charges /\ current \in Charges
  BY BoundAssumption DEF RowInv, TypeOK, Charges
<1>2. ASSUME current' = current, waiting' \subseteq waiting \cup {current}, retrying' \in {retrying, Idle},
             reservations[0] = "released" => reservations'[0] = "released"
      PROVE  EarlierInv'
  BY <1>1, <1>2 DEF EarlierInv
<1>3. CASE Initialization
  <2>1. reservations[0] = "released" => reservations'[0] = "released"
    BY <1>1, <1>3 DEF Initialization, InitializeGroup, InitializationFails, RecordInitializationFailure,
       ReleaseForPermanentError, LoseInitialization, money, RowInv, TypeOK
  <2>2. QED
    BY <1>2, <1>3, <2>1 DEF Initialization, InitializeGroup, InitializationFails,
       RecordInitializationFailure, ReleaseForPermanentError, LoseInitialization, money, requests
<1>4. CASE Worker
  <2>1. UNCHANGED <<current, reservations, waiting, retrying>>
    <3>1. ASSUME NEW l \in leases, Execution(l)
          PROVE  UNCHANGED <<money, requests>>
      BY <3>1 DEF Execution, PrepareStageExecution, PinProviderExecution, PersistStageSuccess,
         PersistStageFailure, PersistStageRetry, PersistCancellation, DropLease
    <3>2. QED
      BY <1>4, <3>1 DEF Worker, ClaimNextAIStage, ReapStaleAIStage, money, requests
  <2>2. QED
    BY <1>2, <2>1
<1>5. CASE Settle
  <2>1. UNCHANGED <<current, waiting, retrying>>
    BY <1>5 DEF Settle, SettlementReads, SettlementCommits, SettlementAborts, money
  <2>2. ASSUME SettlementCommits, retrying # Idle \/ current = 1, MaxRetries <= 1,
               reservations[0] = "released"
        PROVE  reservations'[0] = "released"
    <3>1. /\ settling # Idle /\ settling \in Settlement
          /\ reservations' = [reservations EXCEPT ![settling.charge] = settling.outcome]
      BY <2>2 DEF SettlementCommits, RowInv, TypeOK
    <3>2. CASE settling.charge # 0
      BY <1>1, <2>2, <3>1, <3>2 DEF RowInv, TypeOK, Settlement
    <3>3. CASE settling.charge = 0
      <4>1. settling.outcome # "consumed"
        BY <1>1, <2>2, <3>1, <3>3, SizeAssumption DEF MoneyInv, DecisionStands, UncancelledInv,
           RetryReadsFailure, ToRetry, Every
      <4>2. QED
        BY <1>1, <3>1, <3>3, <4>1 DEF RowInv, TypeOK, Settlement
    <3>4. QED
      BY <3>2, <3>3
  <2>3. UNCHANGED reservations \/ SettlementCommits
    BY <1>5 DEF Settle, SettlementReads, SettlementAborts, money
  <2>4. QED
    BY <2>1, <2>2, <2>3 DEF EarlierInv
<1>6. CASE RetryReadsRuns
  BY <1>2, <1>6 DEF RetryReadsRuns, money
<1>7. ASSUME NEW charge \in Charges, RetryAborts(charge)
      PROVE  EarlierInv'
  BY <1>2, <1>7 DEF RetryAborts, money
<1>8. ASSUME NEW charge \in Charges, RetryTakesLock(charge)
      PROVE  EarlierInv'
  <2>1. /\ charge \in waiting /\ current < MaxRetries /\ reservations[charge] = "released"
        /\ waiting' = waiting \ {charge} /\ current' = current /\ reservations' = reservations
    BY <1>8 DEF RetryTakesLock, RetryAllowed, money
  <2>2. MaxRetries <= 1 => charge = 0
    BY <1>1, <2>1, BoundAssumption DEF EarlierInv
  <2>3. QED
    BY <2>1, <2>2 DEF EarlierInv
<1>9. CASE RetryAIPipelineGroup
  <2>1. /\ retrying # Idle /\ retrying' = Idle /\ waiting' = waiting /\ current' = current + 1
        /\ reservations' = [reservations EXCEPT ![current + 1] = "reserved"]
    BY <1>9 DEF RetryAIPipelineGroup
  <2>2. reservations'[0] = reservations[0]
    BY <1>1, <2>1 DEF RowInv, TypeOK
  <2>3. QED
    BY <1>1, <2>1, <2>2 DEF EarlierInv
<1>10. QED
  BY <1>3, <1>4, <1>5, <1>6, <1>7, <1>8, <1>9, UncancelledSteps

LEMMA MoneyHolds ==
  Spec /\ [](cancels = 0) => [](RowInv /\ UncancelledInv /\ MoneyInv /\ EarlierInv)
<1>1. RowInv /\ RowInv' /\ LeaseInv /\ GraphInv /\ UncancelledInv /\ MoneyInv /\ [Next]_vars
        /\ (cancels = 0)' => MoneyInv'
  BY MoneyKept DEF LeaseInv
<1>2. RowInv /\ UncancelledInv /\ MoneyInv /\ EarlierInv /\ [Next]_vars /\ (cancels = 0)' => EarlierInv'
  <2>1. EarlierInv /\ UNCHANGED vars => EarlierInv'
    BY DEF EarlierInv, vars, money, requests
  <2>2. QED
    BY <2>1, EarlierKept
<1>3. QED
  BY <1>1, <1>2, InitialMoney, UncancelledHold, PTL DEF Spec

(* As long as nobody cancels, chips are consumed only by the charge in      *)
(* force and for a group whose reports are all there, and the charge of     *)
(* such a group is never given back (_process_one_settlement_group).        *)
THEOREM ChipsPayForReports == Spec /\ [](cancels = 0) => []ChargedForReports
<1>1. MoneyInv => ChargedForReports
  BY DEF MoneyInv
<1>2. QED
  BY <1>1, MoneyHolds, PTL

(* As long as nobody cancels, however often the group is retried, work that *)
(* can run and has not failed has its chips reserved.                       *)
THEOREM RunningWorkIsReserved == Spec /\ [](cancels = 0) => []RunsReserved
<1>1. MoneyInv => RunsReserved
  BY DEF MoneyInv
<1>2. QED
  BY <1>1, MoneyHolds, PTL

(* As long as nobody cancels, and with one manual retry at most, work is    *)
(* paid for: while a pipeline can run and none has failed, the chips of the *)
(* charge in force are reserved, and earlier charges were given back.       *)
THEOREM RunningWorkIsPaid ==
  ASSUME MaxRetries <= 1
  PROVE  Spec /\ [](cancels = 0) => []WorkIsReserved
<1>1. RowInv /\ MoneyInv /\ EarlierInv => WorkIsReserved
  <2>1. ASSUME RowInv, MoneyInv, EarlierInv, NEW c \in Charges, c < current
        PROVE  reservations[c] = "released"
    <3>1. c = 0 /\ current = 1
      BY <2>1, BoundAssumption DEF RowInv, TypeOK, Charges
    <3>2. QED
      BY <2>1, <3>1 DEF EarlierInv
  <2>2. QED
    BY <2>1 DEF MoneyInv, RunsReserved, WorkIsReserved
<1>2. QED
  BY <1>1, MoneyHolds, PTL

-----------------------------------------------------------------------------
(* The report tab.  Its steps leave the group alone, and the group leaves   *)
(* it alone.                                                                *)
LEMMA TabRunsGroup == TabSpec => Spec
<1>1. TabInit => Init
  BY DEF TabInit
<1>2. [TabNext]_tabVars => [Next]_vars
  BY DEF TabNext, tabVars
<1>3. QED
  BY <1>1, <1>2, PTL DEF TabSpec, Spec

LEMMA FiniteKinds ==
  /\ IsFiniteSet(Kinds)
  /\ Cardinality(Batches) \in Nat
  /\ \A S \in SUBSET Batches : Cardinality(S) \in Nat
<1>1. \A x : IsFiniteSet(Batches \cup {x})
  BY SizeAssumption, FS_AddElement
<1>2. IsFiniteSet(((((Batches \cup {"evidence"}) \cup {"batching"}) \cup {"scenario"}) \cup {"aggregation"}) \cup {"uxreport"})
  BY SizeAssumption, FS_AddElement
<1>3. Kinds = ((((Batches \cup {"evidence"}) \cup {"batching"}) \cup {"scenario"}) \cup {"aggregation"}) \cup {"uxreport"}
  BY DEF Kinds
<1>4. IsFiniteSet(Kinds)
  BY <1>2, <1>3
<1>5. \A S \in SUBSET Batches : Cardinality(S) \in Nat
  BY SizeAssumption, FS_Subset, FS_CardinalityType
<1>6. QED
  BY <1>4, <1>5

LEMMA DoneCounted ==
  ASSUME NEW p
  PROVE  /\ IsFiniteSet(Done(p)) /\ Cardinality(Done(p)) \in Nat
         /\ \A personas \in BOOLEAN : BatchCount(p, personas) \in Nat
<1>1. Done(p) \subseteq Kinds
  BY DEF Done
<1>2. IsFiniteSet(Done(p)) /\ Cardinality(Done(p)) \in Nat
  BY <1>1, FiniteKinds, FS_Subset, FS_CardinalityType
<1>3. {k \in Batches : stages[p][k].status # "absent"} \in SUBSET Batches
  OBVIOUS
<1>4. \A personas \in BOOLEAN : BatchCount(p, personas) \in Nat
  BY <1>3, FiniteKinds DEF BatchCount
<1>5. QED
  BY <1>2, <1>4

LEMMA ArrivedType ==
  ASSUME TabTypeOK, NEW personas \in BOOLEAN, StatusReadsStages(personas)
  PROVE  [status |-> call, done |-> Cardinality(Done(viewed)),
          expected |-> 5 + BatchCount(viewed, personas)] \in Response
<1>1. call \in PipelineStatuses
  BY DEF TabTypeOK, StatusReadsStages
<1>2. 5 + BatchCount(viewed, personas) \in Nat
  BY DoneCounted
<1>3. QED
  BY <1>1, <1>2, DoneCounted DEF Response

LEMMA TabTypes ==
  ASSUME RowInv, TabTypeOK, [TabNext]_tabVars
  PROVE  TabTypeOK'
<1>1. Unknown \in Response /\ Closed \in Tab /\ [Closed EXCEPT !.open = TRUE] \in Tab
  BY DEF Unknown, Closed, Response, Tab, PipelineStatuses
<1>2. ASSUME NEW response \in Response, StatusArrives(response)
      PROVE  TabTypeOK'
  <2>1. [tab EXCEPT !.failed = FALSE, !.shown = response,
           !.report = IF Announced(response) THEN "loading" ELSE tab.report] \in Tab
    BY <1>2 DEF TabTypeOK, Tab
  <2>2. CASE page = "loading"
    BY <1>2, <2>2 DEF StatusArrives, TabTypeOK, PipelineStatuses
  <2>3. CASE page # "loading"
    BY <1>2, <2>1, <2>3 DEF StatusArrives, TabTypeOK, PipelineStatuses
  <2>4. QED
    BY <2>2, <2>3
<1>3. ASSUME NEW code, StatusFails(code)
      PROVE  TabTypeOK'
  <2>1. [tab EXCEPT !.failed = TRUE] \in Tab
    BY DEF TabTypeOK, Tab
  <2>2. QED
    BY <1>3, <2>1 DEF StatusFails, TabTypeOK, PipelineStatuses
<1>4. ASSUME NEW result \in {"not_ready", "error", "shown"}, ReportEnds(result)
      PROVE  TabTypeOK'
  <2>1. [tab EXCEPT !.report = result] \in Tab
    BY DEF TabTypeOK, Tab
  <2>2. QED
    BY <1>4, <2>1 DEF ReportEnds, TabTypeOK
<1>5. CASE OpenPage \/ LeavePage \/ CloseTab \/ Poll \/ AskAgain
  BY <1>1, <1>5 DEF OpenPage, LeavePage, CloseTab, Poll, AskAgain, TabTypeOK, PipelineStatuses
<1>6. CASE OpenTab
  <2>1. tab' \in Tab
    BY <1>6 DEF OpenTab, Tab, TabTypeOK
  <2>2. QED
    BY <1>6, <2>1 DEF OpenTab, TabTypeOK
<1>7. CASE StatusReadsPipeline
  <2>1. pipelines[viewed].status \in PipelineStatuses
    BY DEF RowInv, TypeOK, PipelineRows, TabTypeOK
  <2>2. QED
    BY <1>3, <1>7, <2>1 DEF StatusReadsPipeline, TabTypeOK
<1>8. ASSUME NEW personas \in BOOLEAN, StatusReadsStages(personas)
      PROVE  TabTypeOK'
  BY <1>2, <1>3, <1>8, ArrivedType DEF StatusReadsStages
<1>9. CASE StatusLost
  BY <1>3, <1>9 DEF StatusLost
<1>10. CASE ReportReadsPipeline
  <2>1. pipelines[viewed].status \in PipelineStatuses
    BY DEF RowInv, TypeOK, PipelineRows, TabTypeOK
  <2>2. QED
    BY <1>4, <1>10, <2>1 DEF ReportReadsPipeline, TabTypeOK, PipelineStatuses, Runnable
<1>11. CASE ReportReadsStages \/ ReportLost
  BY <1>4, <1>11 DEF ReportReadsStages, ReportLost
<1>12. CASE UNCHANGED readerVars
  BY <1>12 DEF readerVars, TabTypeOK
<1>13. QED
  BY <1>5, <1>6, <1>7, <1>8, <1>9, <1>10, <1>11, <1>12 DEF TabNext, Reader, tabVars

(* The page and the tab are in states their components can be in, and a     *)
(* status response has the numbers its schema asks for.                     *)
THEOREM TabTypeCorrect == TabSpec => []TabTypeOK
<1>1. TabInit => TabTypeOK
  BY DEF TabInit, ReaderInit, TabTypeOK, Unknown, Closed, Response, Tab, PipelineStatuses
<1>2. RowInv /\ TabTypeOK /\ [TabNext]_tabVars => TabTypeOK'
  BY TabTypes
<1>3. QED
  BY <1>1, <1>2, TabRunsGroup, RowsHold, PTL DEF TabSpec

(* A success is for good as long as nobody cancels: of a stage, and of a    *)
(* pipeline.                                                                *)
LEMMA SuccessStays ==
  ASSUME RowInv, LeaseInv, GraphInv, UncancelledInv, Next, cancels' = 0, NEW p \in Pipelines
  PROVE  /\ \A k \in Kinds : stages[p][k].status = "succeeded" => stages'[p][k].status = "succeeded"
         /\ pipelines[p].status = "succeeded" => pipelines'[p].status = "succeeded"
<1>1. UncancelledInv'
  BY UncancelledKept DEF LeaseInv
<1>2. ASSUME NEW k \in Kinds, stages[p][k].status = "succeeded"
      PROVE  stages'[p][k].status = "succeeded"
  <2>1. stages'[p][k].output
    BY <1>2, OutputsStay DEF GraphInv, SuccessHasOutput, LeaseInv
  <2>2. QED
    BY <1>1, <2>1 DEF UncancelledInv, ResultsComplete
<1>3. ASSUME pipelines[p].status = "succeeded"
      PROVE  pipelines'[p].status = "succeeded"
  <2>1. CASE Worker
    BY <1>3, <2>1, WorkerProgress DEF Progress, Runnable, LeaseInv
  <2>2. CASE RetryAIPipelineGroup
    BY <1>3, <2>2, RetriedPipelines
  <2>3. CASE InitializeGroup \/ (RecordInitializationFailure /\ ~UNCHANGED rows)
    BY <1>3, <2>3, BeginningRows DEF RowInv, Every
  <2>4. CASE UNCHANGED rows
    BY <1>3, <2>4 DEF rows
  <2>5. QED
    BY <2>1, <2>2, <2>3, <2>4, UncancelledRows
<1>4. QED
  BY <1>2, <1>3

LEMMA DoneGrows ==
  ASSUME RowInv, LeaseInv, GraphInv, UncancelledInv, Next, cancels' = 0, NEW p \in Pipelines
  PROVE  Cardinality(Done(p)) <= Cardinality(Done(p)')
<1>1. Done(p) \subseteq Done(p)'
  BY SuccessStays DEF Done
<1>2. Done(p)' \subseteq Kinds
  BY DEF Done
<1>3. IsFiniteSet(Done(p)')
  BY <1>2, FiniteKinds, FS_Subset
<1>4. QED
  BY <1>1, <1>3, FS_Subset

LEMMA CancelsCounted == RowInv /\ [Next]_vars /\ cancels' = 0 => cancels = 0
<1> SUFFICES ASSUME RowInv, [Next]_vars, cancels' = 0
             PROVE  cancels = 0
  OBVIOUS
<1>1. cancels \in Nat
  BY BoundAssumption DEF RowInv, TypeOK
<1>2. cancels' = cancels \/ cancels' = cancels + 1
  <2>1. CASE Initialization
    BY <2>1 DEF Initialization, InitializeGroup, InitializationFails, RecordInitializationFailure,
       ReleaseForPermanentError, LoseInitialization, requests
  <2>2. CASE Worker
    <3>1. ASSUME NEW l \in leases, Execution(l)
          PROVE  cancels' = cancels
      BY <3>1 DEF Execution, PrepareStageExecution, PinProviderExecution, PersistStageSuccess,
         PersistStageFailure, PersistStageRetry, PersistCancellation, DropLease, requests
    <3>2. QED
      BY <2>2, <3>1 DEF Worker, ClaimNextAIStage, ReapStaleAIStage, requests
  <2>3. CASE Settle
    BY <2>3 DEF Settle, SettlementReads, SettlementCommits, SettlementAborts
  <2>4. CASE RetryRequest
    BY <2>4 DEF RetryRequest, RetryReadsRuns, RetryTakesLock, RetryAIPipelineGroup, RetryAborts
  <2>5. CASE CancelRequest
    BY <2>5 DEF CancelRequest, CancelReadsPipelines, CancelReadsStages, CancelCommits, CancelAborts
  <2>6. CASE UNCHANGED vars
    BY <2>6 DEF vars, requests
  <2>7. QED
    BY <2>1, <2>2, <2>3, <2>4, <2>5, <2>6 DEF Next
<1>3. QED
  BY <1>1, <1>2

(* What holds of the group until somebody cancels, also when somebody does  *)
(* later.                                                                   *)
UntilCancelled == cancels = 0 => UncancelledInv /\ MoneyInv
LEMMA UntilCancelledHolds == Spec => [](RowInv /\ LeaseInv /\ GraphInv /\ UntilCancelled)
<1>1. Init => GraphInv /\ UntilCancelled
  <2>1. Init => UncancelledInv
    BY DEF Init, UncancelledInv, NobodyCancels, ResultsComplete, RetryReadsFailure, Absent
  <2>2. QED
    BY <2>1, InitialGraph, InitialMoney DEF UntilCancelled
<1>2. RowInv /\ LeaseInv /\ GraphInv /\ [Next]_vars => GraphInv'
  <2>1. GraphInv /\ UNCHANGED vars => GraphInv'
    BY DEF GraphInv, StagesFollowGraph, SuccessHasOutput, Succeeded, vars, rows
  <2>2. QED
    BY <2>1, GraphStays DEF LeaseInv
<1>3. RowInv /\ RowInv' /\ LeaseInv /\ GraphInv /\ UntilCancelled /\ [Next]_vars => UntilCancelled'
  <2> SUFFICES ASSUME RowInv, RowInv', LeaseInv, GraphInv, UntilCancelled, [Next]_vars, cancels' = 0
               PROVE  UncancelledInv' /\ MoneyInv'
    BY DEF UntilCancelled
  <2>1. UncancelledInv /\ MoneyInv
    BY CancelsCounted DEF UntilCancelled
  <2>2. QED
    BY <2>1, UncancelledKept, MoneyKept DEF LeaseInv
<1>4. QED
  BY <1>1, <1>2, <1>3, LeasesHold, PTL DEF Spec

(* A request belongs to the page or to the tab, and no poll goes on after a *)
(* terminal status.                                                         *)
RequestsBelong ==
  /\ page \in {"closed", "loading"} => ~tab.open
  /\ ~tab.open => tab = Closed
  /\ call # "none" => page = "loading" \/ (tab.open /\ tab.shown.status \notin TerminalPipeline)
  /\ fetch # "none" => tab.open

LEMMA RequestsStay ==
  ASSUME RowInv, TabTypeOK, RequestsBelong, [TabNext]_tabVars
  PROVE  RequestsBelong'
<1>1. ASSUME NEW response, StatusArrives(response), call # "none"
      PROVE  RequestsBelong'
  <2>1. CASE page = "loading"
    BY <1>1, <2>1 DEF StatusArrives, RequestsBelong
  <2>2. CASE page # "loading"
    <3>1. tab.open /\ tab'.open /\ page' = page /\ call' = "none"
      BY <1>1, <2>2 DEF StatusArrives, RequestsBelong, TabTypeOK, Tab
    <3>2. QED
      BY <3>1 DEF RequestsBelong
  <2>3. QED
    BY <2>1, <2>2
<1>2. ASSUME NEW code, StatusFails(code), call # "none"
      PROVE  RequestsBelong'
  <2>1. CASE page = "loading"
    BY <1>2, <2>1 DEF StatusFails, RequestsBelong
  <2>2. CASE page # "loading"
    <3>1. tab.open /\ tab'.open /\ page' = page /\ call' = "none"
      BY <1>2, <2>2 DEF StatusFails, RequestsBelong, TabTypeOK, Tab
    <3>2. QED
      BY <3>1 DEF RequestsBelong
  <2>3. QED
    BY <2>1, <2>2
<1>3. ASSUME NEW result, ReportEnds(result), fetch # "none"
      PROVE  RequestsBelong'
  <2>1. /\ tab'.open = tab.open /\ tab'.shown = tab.shown
        /\ fetch' = "none" /\ page' = page /\ call' = call
    BY <1>3 DEF ReportEnds, TabTypeOK, Tab
  <2>2. QED
    BY <1>3, <2>1 DEF RequestsBelong
<1>4. CASE OpenPage \/ LeavePage \/ CloseTab \/ Poll
  BY <1>4 DEF OpenPage, LeavePage, CloseTab, Poll, RequestsBelong, Closed
<1>5. CASE OpenTab
  BY <1>5 DEF OpenTab, RequestsBelong
<1>6. CASE AskAgain
  <2>1. tab'.open /\ tab'.shown = Unknown /\ UNCHANGED <<page, call, fetch>> /\ tab.open
    BY <1>6 DEF AskAgain, Closed
  <2>2. Unknown.status \notin TerminalPipeline
    BY DEF Unknown, TerminalPipeline
  <2>3. QED
    BY <2>1, <2>2 DEF RequestsBelong
<1>7. CASE StatusReadsPipeline \/ StatusLost \/ \E personas \in BOOLEAN : StatusReadsStages(personas)
  BY <1>1, <1>2, <1>7 DEF StatusReadsPipeline, StatusLost, StatusReadsStages, RequestsBelong
<1>8. CASE ReportReadsPipeline \/ ReportReadsStages \/ ReportLost
  <2>1. fetch # "none"
    BY <1>8 DEF ReportReadsPipeline, ReportReadsStages, ReportLost
  <2>2. CASE \E result : ReportEnds(result)
    BY <1>3, <2>1, <2>2
  <2>3. CASE UNCHANGED <<page, tab, call>>
    BY <2>1, <2>3 DEF RequestsBelong
  <2>4. pipelines[viewed].status \in PipelineStatuses
    BY DEF RowInv, TypeOK, PipelineRows, TabTypeOK
  <2>5. QED
    BY <1>8, <2>2, <2>3, <2>4 DEF ReportReadsPipeline, ReportReadsStages, ReportLost, PipelineStatuses, Runnable
<1>9. CASE UNCHANGED readerVars
  BY <1>9 DEF readerVars, RequestsBelong
<1>10. QED
  BY <1>4, <1>5, <1>6, <1>7, <1>8, <1>9 DEF TabNext, Reader, tabVars

(* The percentage: it grows with the number of stages that are done, and it *)
(* is one.                                                                  *)
LEMMA DivGrows ==
  ASSUME NEW a \in Nat, NEW b \in Nat, a <= b, NEW e \in Nat, e > 0
  PROVE  a \div e \in Nat /\ a \div e <= b \div e
  OBVIOUS

LEMMA RoundedGrows ==
  ASSUME NEW a \in Nat, NEW b \in Nat, a <= b, NEW e \in Nat, e > 0
  PROVE  Rounded(a, e) \in Nat /\ Rounded(a, e) <= Rounded(b, e)
<1> DEFINE half == e \div 2
<1>1. half \in Nat
  BY DivGrows
<1> HIDE DEF half
<1>2. a * 100 + half \in Nat /\ b * 100 + half \in Nat /\ a * 100 + half <= b * 100 + half
  BY <1>1
<1>3. (a * 100 + half) \div e \in Nat /\ (a * 100 + half) \div e <= (b * 100 + half) \div e
  BY <1>2, DivGrows
<1>4. QED
  BY <1>3 DEF Rounded, half

LEMMA NothingRounded ==
  ASSUME NEW e \in Nat, e > 0
  PROVE  Rounded(0, e) = 0
<1>1. e \div 2 \in Nat /\ e \div 2 < e
  OBVIOUS
<1>2. (e \div 2) \div e = 0
  BY <1>1
<1>3. 0 * 100 + e \div 2 = e \div 2
  BY <1>1
<1>4. QED
  BY <1>2, <1>3 DEF Rounded

LEMMA PercentRange ==
  ASSUME NEW response \in Response, response.expected > 0
  PROVE  Percent(response) \in Nat /\ Percent(response) <= 100
<1>1. response.done \in Nat /\ response.expected \in Nat
  BY DEF Response
<1>2. Rounded(response.done, response.expected) \in Nat
  BY <1>1, RoundedGrows
<1>3. QED
  BY <1>2 DEF Percent

(* What a response has said is not more than what is so.                    *)
Seen(response) ==
  /\ response.status = "succeeded" => pipelines[viewed].status = "succeeded"
  /\ response.done <= Cardinality(Done(viewed))
  /\ \/ response.expected = 5 + Cardinality(Batches)
     \/ response.done = 0 /\ response.expected >= 5
ReaderSees ==
  cancels = 0 =>
    /\ Seen(initial) /\ Seen(tab.shown)
    /\ (call = "succeeded" \/ fetch # "none") => pipelines[viewed].status = "succeeded"
    /\ tab.report # "not_ready"

LEMMA UnknownSeen == Seen(Unknown)
  BY DoneCounted DEF Seen, Unknown

LEMMA ResponseSeen ==
  ASSUME RowInv, UntilCancelled, TabTypeOK, ReaderSees, cancels = 0,
         NEW personas \in BOOLEAN, StatusReadsStages(personas)
  PROVE  Seen([status |-> call, done |-> Cardinality(Done(viewed)),
               expected |-> 5 + BatchCount(viewed, personas)])
<1>1. call = "succeeded" => pipelines[viewed].status = "succeeded"
  BY DEF ReaderSees
<1>2. Cardinality(Done(viewed)) \in Nat /\ BatchCount(viewed, personas) \in Nat
  BY DoneCounted
<1>3. CASE eligible
  <2>1. BatchCount(viewed, personas) = Cardinality(Batches)
    BY <1>3 DEF StatusReadsStages, BatchCount
  <2>2. QED
    BY <1>1, <1>2, <2>1 DEF Seen
<1>4. CASE ~eligible
  <2>1. \A k \in Kinds : stages[viewed][k].status # "succeeded"
    BY <1>4 DEF UntilCancelled, MoneyInv, IneligibleNeverRuns, TabTypeOK
  <2>2. Done(viewed) = {}
    BY <2>1 DEF Done
  <2>3. Cardinality(Done(viewed)) = 0
    BY <2>2, FS_EmptySet
  <2>4. QED
    BY <1>1, <1>2, <2>3 DEF Seen
<1>5. QED
  BY <1>3, <1>4

LEMMA ReaderStillSees ==
  ASSUME RowInv, LeaseInv, GraphInv, UntilCancelled, TabTypeOK, RequestsBelong, ReaderSees,
         [TabNext]_tabVars
  PROVE  ReaderSees'
<1> SUFFICES ASSUME cancels' = 0
             PROVE  ReaderSees'
  BY DEF ReaderSees
<1>1. cancels = 0 /\ UncancelledInv
  <2>1. [Next]_vars
    BY DEF TabNext, tabVars
  <2>2. QED
    BY <2>1, CancelsCounted DEF UntilCancelled
<1>2. Seen(initial) /\ Seen(tab.shown) /\ tab.report # "not_ready"
  BY <1>1 DEF ReaderSees
<1>3. CASE Next /\ UNCHANGED readerVars
  <2>1. viewed \in Pipelines /\ initial \in Response /\ tab.shown \in Response
    BY DEF TabTypeOK, Tab
  <2>2. /\ Cardinality(Done(viewed)) \in Nat /\ Cardinality(Done(viewed)') \in Nat
        /\ Cardinality(Done(viewed)) <= Cardinality(Done(viewed)')
        /\ pipelines[viewed].status = "succeeded" => pipelines'[viewed].status = "succeeded"
    <3>1. IsFiniteSet(Done(viewed)')
      BY FiniteKinds, FS_Subset DEF Done
    <3>2. Cardinality(Done(viewed)') \in Nat
      BY <3>1, FS_CardinalityType
    <3>3. viewed' = viewed
      BY <1>3 DEF readerVars
    <3>4. \A p \in Pipelines :
            /\ Cardinality(Done(p)) <= Cardinality(Done(p)')
            /\ pipelines[p].status = "succeeded" => pipelines'[p].status = "succeeded"
      BY <1>1, <1>3, DoneGrows, SuccessStays
    <3>5. Done(viewed)' = {k \in Kinds : stages'[viewed][k].status = "succeeded"}
      BY <3>3 DEF Done
    <3>6. \A p : Done(p)' = {k \in Kinds : stages'[p][k].status = "succeeded"}
      BY DEF Done
    <3>7. QED
      BY <2>1, <3>2, <3>4, <3>5, <3>6, DoneCounted
  <2>3. ASSUME NEW response \in Response, Seen(response)
        PROVE  /\ response.status = "succeeded" => pipelines'[viewed].status = "succeeded"
               /\ response.done <= Cardinality(Done(viewed)')
               /\ \/ response.expected = 5 + Cardinality(Batches)
                  \/ response.done = 0 /\ response.expected >= 5
    <3>1. response.done \in Nat
      BY DEF Response
    <3>2. QED
      BY <2>2, <2>3, <3>1 DEF Seen
  <2>4. UNCHANGED <<viewed, initial, tab, call, fetch>>
    BY <1>3 DEF readerVars
  <2>5. Seen(initial)' /\ Seen(tab.shown)'
    BY <1>2, <2>1, <2>3, <2>4 DEF Seen
  <2>6. (call = "succeeded" \/ fetch # "none") => pipelines'[viewed].status = "succeeded"
    BY <1>1, <2>2 DEF ReaderSees
  <2>7. QED
    BY <1>2, <2>4, <2>5, <2>6 DEF ReaderSees
<1>4. CASE Reader /\ UNCHANGED vars
  <2>1. viewed' = viewed /\ pipelines' = pipelines /\ stages' = stages
    <3>1. OpenPage \/ LeavePage \/ OpenTab \/ CloseTab \/ Poll \/ AskAgain => viewed' = viewed
      BY DEF OpenPage, LeavePage, OpenTab, CloseTab, Poll, AskAgain, Closed
    <3>2. /\ \A response : StatusArrives(response) => viewed' = viewed
          /\ \A code : StatusFails(code) => viewed' = viewed
          /\ \A result : ReportEnds(result) => viewed' = viewed
      BY DEF StatusArrives, StatusFails, ReportEnds
    <3>3. pipelines[viewed].status \in PipelineStatuses
      BY DEF RowInv, TypeOK, PipelineRows, TabTypeOK
    <3>4. StatusReadsPipeline \/ StatusLost \/ (\E personas \in BOOLEAN : StatusReadsStages(personas))
            => viewed' = viewed
      BY <3>2 DEF StatusReadsPipeline, StatusLost, StatusReadsStages
    <3>5. ReportReadsPipeline \/ ReportReadsStages \/ ReportLost => viewed' = viewed
      BY <3>2, <3>3 DEF ReportReadsPipeline, ReportReadsStages, ReportLost, PipelineStatuses, Runnable
    <3>6. viewed' = viewed
      BY <1>4, <3>1, <3>4, <3>5 DEF Reader
    <3>7. QED
      BY <1>4, <3>6 DEF vars, rows
  <2>2. ASSUME Seen(initial'), Seen(tab'.shown), tab'.report # "not_ready",
               (call' = "succeeded" \/ fetch' # "none") => pipelines[viewed].status = "succeeded"
        PROVE  ReaderSees'
    <3>1. Done(viewed)' = Done(viewed)
      BY <2>1 DEF Done
    <3>2. QED
      BY <2>1, <2>2, <3>1 DEF ReaderSees, Seen
  <2>3. (call = "succeeded" \/ fetch # "none") => pipelines[viewed].status = "succeeded"
    BY <1>1 DEF ReaderSees
  <2>4. Seen(Unknown) /\ Closed.shown = Unknown /\ Closed.report = "idle"
        /\ [Closed EXCEPT !.open = TRUE].shown = Unknown /\ [Closed EXCEPT !.open = TRUE].report = "idle"
    BY UnknownSeen DEF Closed
  <2>5. ASSUME NEW response, Seen(response), StatusArrives(response)
        PROVE  ReaderSees'
    <3>1. CASE page = "loading"
      BY <1>2, <2>2, <2>3, <2>5, <3>1 DEF StatusArrives
    <3>2. CASE page # "loading"
      <4>1. /\ tab'.shown = response /\ initial' = initial /\ call' = "none"
            /\ tab'.report = IF Announced(response) THEN "loading" ELSE tab.report
            /\ fetch' = IF Announced(response) THEN "sent" ELSE fetch
        BY <2>5, <3>2 DEF StatusArrives, TabTypeOK, Tab
      <4>2. QED
        BY <1>2, <2>2, <2>3, <2>5, <4>1 DEF Seen, Announced
    <3>3. QED
      BY <3>1, <3>2
  <2>6. ASSUME NEW code, StatusFails(code)
        PROVE  ReaderSees'
    <3>1. /\ tab'.shown = tab.shown /\ tab'.report = tab.report
          /\ initial' = initial /\ fetch' = fetch /\ call' = "none"
      BY <2>6 DEF StatusFails, TabTypeOK, Tab
    <3>2. QED
      BY <1>2, <2>2, <2>3, <3>1
  <2>7. ASSUME NEW result, result # "not_ready", ReportEnds(result)
        PROVE  ReaderSees'
    <3>1. /\ tab'.shown = tab.shown /\ tab'.report = result
          /\ initial' = initial /\ fetch' = "none" /\ call' = call
      BY <2>7 DEF ReportEnds, TabTypeOK, Tab
    <3>2. QED
      BY <1>2, <2>2, <2>3, <2>7, <3>1
  <2>8. CASE OpenPage \/ LeavePage \/ CloseTab \/ Poll \/ AskAgain
    BY <1>2, <2>2, <2>3, <2>4, <2>8 DEF OpenPage, LeavePage, CloseTab, Poll, AskAgain
  <2>9. CASE OpenTab
    <3>1. /\ tab'.shown = initial /\ tab'.report # "not_ready" /\ initial' = initial /\ call' = call
          /\ fetch' # "none" => Announced(initial)
      BY <2>9 DEF OpenTab
    <3>2. QED
      BY <1>2, <2>2, <2>3, <3>1 DEF Seen, Announced
  <2>10. CASE StatusReadsPipeline \/ StatusLost
    BY <1>2, <2>2, <2>3, <2>6, <2>10 DEF StatusReadsPipeline, StatusLost
  <2>11. ASSUME NEW personas \in BOOLEAN, StatusReadsStages(personas)
         PROVE  ReaderSees'
    BY <1>1, <2>5, <2>6, <2>11, ResponseSeen DEF StatusReadsStages
  <2>12. CASE ReportReadsPipeline \/ ReportReadsStages \/ ReportLost
    <3>1. pipelines[viewed].status = "succeeded"
      BY <2>3, <2>12 DEF ReportReadsPipeline, ReportReadsStages, ReportLost
    <3>2. CASE ReportReadsPipeline
      <4>1. fetch' = "succeeded" /\ UNCHANGED <<viewed, page, initial, tab, call>>
        BY <3>1, <3>2 DEF ReportReadsPipeline, Runnable
      <4>2. QED
        BY <1>2, <2>2, <3>1, <4>1
    <3>3. CASE ReportReadsStages \/ ReportLost
      BY <2>7, <3>3 DEF ReportReadsStages, ReportLost
    <3>4. QED
      BY <2>12, <3>2, <3>3
  <2>13. QED
    BY <1>4, <2>8, <2>9, <2>10, <2>11, <2>12 DEF Reader
<1>5. CASE UNCHANGED tabVars
  BY <1>5 DEF tabVars, vars, rows, requests, readerVars, ReaderSees, Seen, Done
<1>6. QED
  BY <1>3, <1>4, <1>5 DEF TabNext

LEMMA TabHolds ==
  TabSpec => [](RowInv /\ LeaseInv /\ GraphInv /\ UntilCancelled /\ TabTypeOK /\ RequestsBelong /\ ReaderSees)
<1>1. TabInit => RequestsBelong /\ ReaderSees
  <2> SUFFICES ASSUME TabInit
               PROVE  RequestsBelong /\ ReaderSees
    OBVIOUS
  <2>1. initial = Unknown /\ tab = Closed /\ Closed.shown = Unknown /\ Closed.report = "idle" /\ ~Closed.open
    BY DEF TabInit, ReaderInit, Closed
  <2>2. QED
    BY <2>1, UnknownSeen DEF TabInit, ReaderInit, RequestsBelong, ReaderSees
<1>2. RowInv /\ TabTypeOK /\ RequestsBelong /\ [TabNext]_tabVars => RequestsBelong'
  BY RequestsStay
<1>3. RowInv /\ LeaseInv /\ GraphInv /\ UntilCancelled /\ TabTypeOK /\ RequestsBelong /\ ReaderSees
        /\ [TabNext]_tabVars => ReaderSees'
  BY ReaderStillSees
<1>4. QED
  BY <1>1, <1>2, <1>3, TabRunsGroup, TabTypeCorrect, UntilCancelledHolds, PTL DEF TabSpec

(* As long as nobody cancels, a report that a status has announced is there *)
(* whenever it is fetched, and a request that has read a succeeded pipeline *)
(* finds its report in the stages it reads later.                           *)
THEOREM AnnouncedReportsAreThere == TabSpec => []ReportsAreWhole
<1>1. ASSUME RowInv, GraphInv, UntilCancelled, TabTypeOK, ReaderSees
      PROVE  ReportsAreWhole
  <2> SUFFICES ASSUME cancels = 0
               PROVE  ReportsAreWhole
    BY DEF ReportsAreWhole
  <2>1. pipelines[viewed].status = "succeeded" => ReportStored(viewed)
    <3>1. viewed \in Pipelines /\ "uxreport" \in Kinds
      BY <1>1 DEF TabTypeOK, Kinds
    <3>2. QED
      BY <1>1, <3>1 DEF UntilCancelled, UncancelledInv, ResultsComplete, Succeeded, GraphInv,
         SuccessHasOutput, ReportStored
  <2>2. QED
    BY <1>1, <2>1 DEF ReaderSees, Seen, Announced, ReportsAreWhole
<1>2. QED
  BY <1>1, TabHolds, PTL

(* As long as nobody cancels, the progress an open tab shows never goes     *)
(* back, also over a manual retry of the pipeline.                          *)
THEOREM ShownProgressGrows == TabSpec => ProgressNeverDrops
<1>1. ASSUME RowInv, UntilCancelled, TabTypeOK, RequestsBelong, ReaderSees, [TabNext]_tabVars
      PROVE  [NeverDrops]_tabVars
  <2> SUFFICES ASSUME cancels' = 0, tab.shown.status # "none", tab'.shown.status # "none"
               PROVE  Percent(tab.shown) <= Percent(tab'.shown)
    BY DEF NeverDrops
  <2>1. tab.shown \in Response /\ initial \in Response
    BY <1>1 DEF TabTypeOK, Tab
  <2>2. cancels = 0
    <3>1. [Next]_vars
      BY <1>1 DEF TabNext, tabVars
    <3>2. QED
      BY <1>1, <3>1, CancelsCounted
  <2>3. Seen(tab.shown)
    BY <1>1, <2>2 DEF ReaderSees
  <2>4. tab.shown.expected > 0 /\ tab.shown.done \in Nat /\ tab.shown.expected \in Nat
    BY <2>1, <2>3, FiniteKinds DEF Seen, Response
  <2>5. CASE tab'.shown = tab.shown
    <3>1. Percent(tab.shown) \in Nat
      BY <2>1, <2>4, PercentRange
    <3>2. QED
      BY <2>5, <3>1
  <2>6. ASSUME NEW personas \in BOOLEAN, StatusReadsStages(personas), tab'.shown # tab.shown
        PROVE  Percent(tab.shown) <= Percent(tab'.shown)
    <3> DEFINE response == [status |-> call, done |-> Cardinality(Done(viewed)),
                            expected |-> 5 + BatchCount(viewed, personas)]
    <3>1. response \in Response
      BY <1>1, <2>6, ArrivedType
    <3>2. StatusArrives(response) /\ page # "loading"
      BY <2>6, <1>1 DEF StatusReadsStages, StatusFails, StatusArrives, TabTypeOK, Tab
    <3>3. tab'.shown = response
      BY <1>1, <3>2 DEF StatusArrives, TabTypeOK, Tab
    <3>4. Seen(response)
      BY <1>1, <2>2, <2>6, ResponseSeen
    <3>5. tab.shown.status \notin TerminalPipeline
      BY <1>1, <2>6, <3>2 DEF RequestsBelong, StatusReadsStages
    <3>6. tab.shown.status # "succeeded"
      BY <3>5 DEF TerminalPipeline
    <3>7. /\ tab.shown.done <= response.done /\ response.done \in Nat
          /\ response.expected > 0 /\ response.expected \in Nat
      BY <2>3, <3>4, <3>1, DoneCounted, FiniteKinds DEF Seen
    <3>8. Percent(response) \in Nat /\ Percent(tab.shown) \in Nat /\ Percent(tab.shown) <= 100
      BY <2>1, <2>4, <3>1, <3>7, PercentRange
    <3> HIDE DEF response
    <3>9. CASE tab.shown.done = 0
      <4>1. Percent(tab.shown) = 0
        BY <2>4, <3>6, <3>9, NothingRounded DEF Percent
      <4>2. QED
        BY <3>3, <3>8, <4>1
    <3>10. CASE response.status = "succeeded"
      BY <3>3, <3>8, <3>10 DEF Percent
    <3>11. CASE tab.shown.done # 0 /\ response.status # "succeeded"
      <4>1. tab.shown.expected = 5 + Cardinality(Batches) /\ response.expected = tab.shown.expected
        BY <2>3, <2>4, <3>4, <3>7, <3>11 DEF Seen
      <4>2. /\ Rounded(tab.shown.done, tab.shown.expected) \in Nat
            /\ Rounded(response.done, tab.shown.expected) \in Nat
            /\ Rounded(tab.shown.done, tab.shown.expected) <= Rounded(response.done, tab.shown.expected)
        BY <2>4, <3>7, RoundedGrows
      <4>3. QED
        BY <3>3, <3>6, <3>11, <4>1, <4>2 DEF Percent
    <3>12. QED
      BY <3>9, <3>10, <3>11
  <2>7. CASE ~\E personas \in BOOLEAN : StatusReadsStages(personas)
    <3>1. /\ \A code : StatusFails(code) => tab'.shown = tab.shown
          /\ \A result : ReportEnds(result) => tab'.shown = tab.shown
      BY <1>1 DEF StatusFails, ReportEnds, TabTypeOK, Tab
    <3>2. OpenTab => tab = Closed
      BY <1>1 DEF OpenTab, RequestsBelong
    <3>3. /\ Closed.shown = Unknown /\ [Closed EXCEPT !.open = TRUE].shown = Unknown
          /\ Unknown.status = "none"
      BY DEF Closed, Unknown
    <3>4. LeavePage \/ CloseTab \/ AskAgain => tab'.shown = Unknown
      BY <3>3 DEF LeavePage, CloseTab, AskAgain
    <3>5. OpenPage \/ Poll \/ UNCHANGED readerVars => tab' = tab
      BY DEF OpenPage, Poll, readerVars
    <3>6. pipelines[viewed].status \in PipelineStatuses
      BY <1>1 DEF RowInv, TypeOK, PipelineRows, TabTypeOK
    <3>7. StatusReadsPipeline \/ StatusLost \/ ReportReadsPipeline \/ ReportReadsStages \/ ReportLost
            => tab'.shown = tab.shown
      BY <3>1, <3>6 DEF StatusReadsPipeline, StatusLost, ReportReadsPipeline, ReportReadsStages, ReportLost,
         PipelineStatuses, Runnable
    <3>8. QED
      BY <1>1, <2>5, <2>7, <3>2, <3>3, <3>4, <3>5, <3>7 DEF TabNext, Reader, tabVars
  <2>8. QED
    BY <2>5, <2>6, <2>7
<1>2. QED
  BY <1>1, TabHolds, PTL DEF TabSpec, ProgressNeverDrops
=============================================================================
