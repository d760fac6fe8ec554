----------------------------- MODULE Jobs_proofs -----------------------------
(* Theorems about the background jobs and the services around them:         *)
(* PageAnalysis, for every set of analyses and every number of attempts and *)
(* restarts, InteractionHeatmap, for every set of runs and every number of  *)
(* attempts and retries, DesignGeneration, the purge of screenshots, the    *)
(* supervisor of the container, the browser service and the page of runs.   *)
EXTENDS MCJobs, FiniteSetTheorems, SequenceTheorems, TLAPS

-----------------------------------------------------------------------------
(* The page analysis.                                                       *)

(* A job that can be claimed has an attempt left, and one that was claimed  *)
(* has used one: neither follows from the types, and the delay of a retry   *)
(* depends on both.                                                         *)
AttemptsUsed ==
  \A a \in Analyses :
    /\ status[a] \in {"none", "queued"} => attempts[a] < MaxAttempts
    /\ status[a] = "running" => attempts[a] > 0
JobInv == TypeOK /\ AttemptsUsed /\ DelayOnlyBetweenAttempts

LEMMA JobsHold == Spec => []JobInv
<1> USE AttemptAssumption DEF JobInv
<1>1. Init => JobInv
  BY DEF Init, TypeOK, AttemptsUsed, DelayOnlyBetweenAttempts
<1>2. JobInv /\ [Next]_vars => JobInv'
  <2> SUFFICES ASSUME JobInv, [Next]_vars
               PROVE  JobInv'
    OBVIOUS
  <2> USE DEF TypeOK, AttemptsUsed, DelayOnlyBetweenAttempts
  <2>1. ASSUME NEW a \in Analyses, CreateAnalysis(a)
        PROVE  JobInv'
    BY <2>1 DEF CreateAnalysis
  <2>2. ASSUME NEW a \in Analyses, Process(a)
        PROVE  JobInv'
    <3>1. CASE Succeed(a)
      BY <3>1 DEF Succeed, Processed
    <3>2. ASSUME NEW isFatal \in BOOLEAN, FailForGood(a, isFatal)
          PROVE  JobInv'
      BY <3>2 DEF FailForGood, Processed
    <3>3. CASE FailTransiently(a)
      BY <3>3 DEF FailTransiently, Processed, AttemptsRemain
    <3>4. CASE Raise(a)
      BY <3>4 DEF Raise, Processed
    <3>5. QED
      BY <2>2, <3>1, <3>2, <3>3, <3>4 DEF Process
  <2>3. ASSUME NEW a \in Analyses, Recover(a)
        PROVE  JobInv'
    BY <2>3 DEF Recover
  <2>4. ASSUME NEW a \in Analyses, Restart(a)
        PROVE  JobInv'
    BY <2>4 DEF Restart
  <2>5. ASSUME NEW a \in Analyses, DelayPasses(a)
        PROVE  JobInv'
    BY <2>5 DEF DelayPasses
  <2>6. ASSUME NEW S \in SUBSET Due, ClaimNextQueued(S)
        PROVE  JobInv'
    BY <2>6 DEF ClaimNextQueued, Due
  <2>7. ASSUME NEW S \in SUBSET Analyses, ReapStaleRunning(S)
        PROVE  JobInv'
    BY <2>7 DEF ReapStaleRunning, AttemptsRemain
  <2>8. ASSUME NEW c \in calls, EndCall(c)
        PROVE  JobInv'
    BY <2>8 DEF EndCall
  <2>9. CASE UNCHANGED vars
    BY <2>9 DEF vars
  <2>10. QED
    BY <2>1, <2>2, <2>3, <2>4, <2>5, <2>6, <2>7, <2>8, <2>9 DEF Next
<1>3. QED
  BY <1>1, <1>2, PTL DEF Spec

(* No job gets more than MaxAttempts attempts between two manual restarts,  *)
(* although the analyzer failure path (_record_analyzer_failure) and the    *)
(* reaper (reap_stale_running) count independently.                         *)
THEOREM AnalysisTypeCorrect == Spec => []TypeOK
  BY JobsHold, PTL DEF JobInv

(* Every retry delay belongs to a job that waits for its next attempt, so   *)
(* retry_run need not clear next_attempt_at.                                *)
THEOREM DelaysEndWithAttempts == Spec => []DelayOnlyBetweenAttempts
  BY JobsHold, PTL DEF JobInv

-----------------------------------------------------------------------------
(* What a step shows of an analysis: either nothing, or one of the moves of *)
(* AnalysisOutcome.  Late workers are the hard case: Recover and Processed  *)
(* act on a job that is running, whoever claimed it last.                   *)
Shown(a) == OutcomeSeen[a]

LEMMA StepsShowMoves ==
  ASSUME JobInv, Next, NEW a \in Analyses, Shown(a)' # Shown(a)
  PROVE  <<Shown(a), Shown(a)'>> \in Outcome!Moves
<1> USE DEF JobInv, TypeOK, Shown, OutcomeSeen, Outcome!Moves, Outcome!Settled
<1>1. ASSUME NEW b \in Analyses, CreateAnalysis(b)
      PROVE  <<Shown(a), Shown(a)'>> \in Outcome!Moves
  BY <1>1 DEF CreateAnalysis
<1>2. ASSUME NEW b \in Analyses, Process(b)
      PROVE  <<Shown(a), Shown(a)'>> \in Outcome!Moves
  BY <1>2 DEF Process, Succeed, FailForGood, FailTransiently, Raise, Processed
<1>3. ASSUME NEW b \in Analyses, Recover(b)
      PROVE  <<Shown(a), Shown(a)'>> \in Outcome!Moves
  BY <1>3 DEF Recover
<1>4. ASSUME NEW b \in Analyses, Restart(b)
      PROVE  <<Shown(a), Shown(a)'>> \in Outcome!Moves
  BY <1>4 DEF Restart
<1>5. ASSUME NEW S \in SUBSET Due, ClaimNextQueued(S)
      PROVE  <<Shown(a), Shown(a)'>> \in Outcome!Moves
  BY <1>5 DEF ClaimNextQueued, Due
<1>6. ASSUME NEW S \in SUBSET Analyses, ReapStaleRunning(S)
      PROVE  <<Shown(a), Shown(a)'>> \in Outcome!Moves
  BY <1>6 DEF ReapStaleRunning
<1>7. QED
  BY <1>1, <1>2, <1>3, <1>4, <1>5, <1>6 DEF Next, DelayPasses, EndCall

(* What the code promises a simulation run about its page analysis: pending *)
(* until it settles, a success never taken back, a fatal failure never      *)
(* started again (the safety part of ImplementsOutcome).                    *)
THEOREM AnalysisImplementsOutcome == Spec => Outcome!Spec
<1>1. Init => Outcome!Init
  BY DEF Init, Outcome!Init, OutcomeSeen
<1>2. JobInv /\ JobInv' /\ [Next]_vars => [Outcome!Step]_OutcomeSeen
  <2> SUFFICES ASSUME JobInv, JobInv', [Next]_vars
               PROVE  [Outcome!Step]_OutcomeSeen
    OBVIOUS
  <2>1. CASE Next
    <3>1. OutcomeSeen' \in [Analyses -> {"none", "pending"} \cup Outcome!Settled]
      BY DEF JobInv, TypeOK, OutcomeSeen, Outcome!Settled
    <3>2. \A a \in Analyses :
            OutcomeSeen'[a] # OutcomeSeen[a] => <<OutcomeSeen[a], OutcomeSeen'[a]>> \in Outcome!Moves
      BY <2>1, StepsShowMoves DEF Shown
    <3>3. QED
      BY <3>1, <3>2 DEF Outcome!Step
  <2>2. CASE UNCHANGED vars
    BY <2>2 DEF vars, OutcomeSeen
  <2>3. QED
    BY <2>1, <2>2
<1>3. QED
  BY <1>1, <1>2, JobsHold, PTL DEF Spec, Outcome!Spec

-----------------------------------------------------------------------------
(* The heatmaps.                                                            *)
(* There is a reservation to look at: the current one once the launch has   *)
(* begun, and the one a settlement has read.                                *)
Charged ==
  /\ (\E r \in Runs : baseline[r] # "none") => reservations # <<>>
  /\ settlement # NoSettlement => settlement.id \in 1..Len(reservations)
HeatmapInv == HeatmapTypeOK /\ Charged /\ ResultOfLastAttempt /\ SpentOnlyForHeatmaps

(* What becomes of a job: finished ones stay as they are.                   *)
KeepsFinished == \A r \in Runs : heatmap[r].status \in Finished => heatmap'[r] = heatmap[r]

-----------------------------------------------------------------------------
LEMMA JobsKept ==
  ASSUME HeatmapTypeOK, [HeatmapNext]_heatmapVars
  PROVE  KeepsFinished
<1> USE DEF HeatmapTypeOK, KeepsFinished, Finished
<1>1. ASSUME NEW r \in Runs, ClaimRun(r)
      PROVE  KeepsFinished
  BY <1>1 DEF ClaimRun, Eligible
<1>2. ASSUME NEW r \in Runs, Reap(r)
      PROVE  KeepsFinished
  BY <1>2 DEF Reap
<1>3. ASSUME NEW c \in providerCalls, NEW ending, NEW by, Persist(c, ending, by)
      PROVE  KeepsFinished
  BY <1>3 DEF Persist, StillRunning
<1>4. QED
  BY <1>1, <1>2, <1>3
     DEF HeatmapNext, heatmapVars, Launch, EndBaseline, RetryBaseline, PersistSuccess,
         PersistFailure, LoseCall, SettleReadRuns, SettleFinish

LEMMA SettledCharge ==
  ASSUME reservations \in Seq({"reserved", "consumed", "released"}),
         NEW i \in 1..Len(reservations), NEW new \in {"reserved", "consumed", "released"},
         reservations' = reservations \/ reservations' = [reservations EXCEPT ![i] = new]
  PROVE  /\ reservations' \in Seq({"reserved", "consumed", "released"})
         /\ Len(reservations') = Len(reservations)
         /\ \A j \in 1..Len(reservations) : reservations'[j] \in {reservations[j], new}
<1> DEFINE S == {"reserved", "consumed", "released"}
<1>1. [reservations EXCEPT ![i] = new] \in Seq(S)
  BY ExceptSeq
<1>2. Len([reservations EXCEPT ![i] = new]) = Len(reservations)
  BY ExceptSeq
<1>3. \A j \in 1..Len(reservations) :
        [reservations EXCEPT ![i] = new][j] = IF j = i THEN new ELSE reservations[j]
  <2>1. DOMAIN reservations = 1..Len(reservations)
    OBVIOUS
  <2>2. QED
    BY <2>1
<1>4. QED
  BY <1>1, <1>2, <1>3

(* The charges of a step: no reservation disappears, and one becomes        *)
(* consumed only when every job has succeeded.                              *)
ChargesMove ==
  /\ Len(reservations) <= Len(reservations')
  /\ \A i \in 1..Len(reservations') : reservations'[i] = "consumed" =>
       \/ i \in 1..Len(reservations) /\ reservations[i] = "consumed"
       \/ \A r \in Runs : heatmap[r].status = "succeeded"

LEMMA ChargesSettle ==
  ASSUME HeatmapInv, [HeatmapNext]_heatmapVars
  PROVE  /\ reservations' \in Seq({"reserved", "consumed", "released"})
         /\ ChargesMove
         /\ Charged'
<1> USE DEF HeatmapInv, HeatmapTypeOK, Charged, ChargesMove, NoSettlement
<1> DEFINE Goal == /\ reservations' \in Seq({"reserved", "consumed", "released"})
                   /\ ChargesMove
                   /\ Charged'
<1>1. ASSUME NEW e \in [Runs -> Evidence], Launch(e)
      PROVE  Goal
  BY <1>1 DEF Launch
<1>2. ASSUME NEW r \in Runs, NEW outcome \in Finished, EndBaseline(r, outcome)
      PROVE  Goal
  <2>1. Current \in 1..Len(reservations)
    BY <1>2 DEF EndBaseline, Current
  <2>2. reservations' = reservations \/ reservations' = [reservations EXCEPT ![Current] = "released"]
    BY <1>2 DEF EndBaseline
  <2>3. /\ reservations' \in Seq({"reserved", "consumed", "released"})
        /\ Len(reservations') = Len(reservations)
        /\ \A i \in 1..Len(reservations) : reservations'[i] \in {reservations[i], "released"}
    BY <2>1, <2>2, SettledCharge
  <2>4. QED
    BY <1>2, <2>1, <2>3 DEF EndBaseline
<1>3. ASSUME NEW r \in Runs, RetryBaseline(r)
      PROVE  Goal
  BY <1>3 DEF RetryBaseline, Current
<1>4. CASE SettleReadRuns
  BY <1>4 DEF SettleReadRuns, Current
<1>5. CASE SettleFinish
  <2>1. settlement.id \in 1..Len(reservations) /\ Verdict \in {"reserved", "consumed", "released"}
    BY <1>5 DEF SettleFinish, Verdict
  <2>2. \/ reservations' = reservations
        \/ reservations' = [reservations EXCEPT ![settlement.id] = Verdict]
    BY <1>5 DEF SettleFinish
  <2>3. /\ reservations' \in Seq({"reserved", "consumed", "released"})
        /\ Len(reservations') = Len(reservations)
        /\ \A i \in 1..Len(reservations) : reservations'[i] \in {reservations[i], Verdict}
    BY <2>1, <2>2, SettledCharge
  <2>4. Verdict = "consumed" => \A r \in Runs : heatmap[r].status = "succeeded"
    BY DEF Verdict
  <2>5. QED
    BY <1>5, <2>1, <2>3, <2>4 DEF SettleFinish
<1>6. ASSUME UNCHANGED <<baseline, reservations, settlement>>
      PROVE  Goal
  BY <1>6
<1>7. QED
  BY <1>1, <1>2, <1>3, <1>4, <1>5, <1>6
     DEF HeatmapNext, heatmapVars, ClaimRun, Reap, Persist, PersistSuccess, PersistFailure, LoseCall

LEMMA TypesKept ==
  ASSUME HeatmapInv, [HeatmapNext]_heatmapVars
  PROVE  HeatmapTypeOK' /\ ResultOfLastAttempt'
<1> USE HeatmapAssumption DEF HeatmapTypeOK, ResultOfLastAttempt
<1> DEFINE Goal == HeatmapTypeOK' /\ ResultOfLastAttempt'
<1>0. HeatmapTypeOK /\ ResultOfLastAttempt
  BY DEF HeatmapInv
<1>1. reservations' \in Seq({"reserved", "consumed", "released"})
  BY ChargesSettle
<1>2. ASSUME NEW e \in [Runs -> Evidence], Launch(e)
      PROVE  Goal
  BY <1>0, <1>1, <1>2 DEF Launch
<1>3. ASSUME NEW r \in Runs, NEW outcome \in Finished, EndBaseline(r, outcome)
      PROVE  Goal
  BY <1>0, <1>1, <1>3 DEF EndBaseline, Finished
<1>4. ASSUME NEW r \in Runs, RetryBaseline(r)
      PROVE  Goal
  BY <1>0, <1>1, <1>4 DEF RetryBaseline
<1>5. ASSUME NEW r \in Runs, ClaimRun(r)
      PROVE  Goal
  BY <1>0, <1>5 DEF ClaimRun, Eligible, Finished
<1>6. ASSUME NEW r \in Runs, Reap(r)
      PROVE  Goal
  BY <1>0, <1>6 DEF Reap, Finished
<1>7. ASSUME NEW c \in providerCalls, PersistSuccess(c)
      PROVE  Goal
  BY <1>0, <1>7 DEF PersistSuccess, Persist, StillRunning, Finished
<1>8. ASSUME NEW c \in providerCalls, NEW retryable \in BOOLEAN, PersistFailure(c, retryable)
      PROVE  Goal
  BY <1>0, <1>8 DEF PersistFailure, Persist, StillRunning, Finished
<1>9. CASE SettleReadRuns
  BY <1>0, <1>1, <1>9 DEF SettleReadRuns, Current
<1>10. CASE SettleFinish
  BY <1>0, <1>1, <1>10 DEF SettleFinish, NoSettlement
<1>11. ASSUME NEW c \in providerCalls, LoseCall(c)
       PROVE  Goal
  BY <1>0, <1>11 DEF LoseCall
<1>12. CASE UNCHANGED heatmapVars
  BY <1>0, <1>12 DEF heatmapVars
<1>13. QED
  BY <1>2, <1>3, <1>4, <1>5, <1>6, <1>7, <1>8, <1>9, <1>10, <1>11, <1>12 DEF HeatmapNext

LEMMA HeatmapsHold == HeatmapSpec => []HeatmapInv
<1>1. HeatmapInit => HeatmapInv
  BY HeatmapAssumption DEF HeatmapInit, HeatmapInv, HeatmapTypeOK, Charged, ResultOfLastAttempt,
         SpentOnlyForHeatmaps, NoJob, NoSettlement, Evidence
<1>2. HeatmapInv /\ [HeatmapNext]_heatmapVars => HeatmapInv'
  <2> SUFFICES ASSUME HeatmapInv, [HeatmapNext]_heatmapVars
               PROVE  HeatmapInv'
    OBVIOUS
  <2>1. HeatmapTypeOK' /\ ResultOfLastAttempt' /\ Charged'
    BY TypesKept, ChargesSettle
  <2>2. (\A r \in Runs : heatmap[r].status = "succeeded")
        => \A r \in Runs : heatmap'[r].status = "succeeded"
    BY JobsKept DEF HeatmapInv, KeepsFinished, Finished
  <2>3. SpentOnlyForHeatmaps'
    BY <2>2, ChargesSettle DEF HeatmapInv, SpentOnlyForHeatmaps, ChargesMove
  <2>4. QED
    BY <2>1, <2>3 DEF HeatmapInv
<1>3. QED
  BY <1>1, <1>2, PTL DEF HeatmapSpec

-----------------------------------------------------------------------------
(* Chips for heatmaps are spent only when every run of the launch has its   *)
(* result, however settlements, retries of the baseline, reaping and late   *)
(* answers overlap (_settle_one_group, _finish_settlement).                 *)
THEOREM ChipsBuyHeatmaps == HeatmapSpec => []SpentOnlyForHeatmaps
  BY HeatmapsHold, PTL DEF HeatmapInv

(* A stored result comes from the last claim of its job (_reload_running).  *)
THEOREM ResultsAreOfLastAttempt == HeatmapSpec => []ResultOfLastAttempt
  BY HeatmapsHold, PTL DEF HeatmapInv

(* A finished job is never touched again.                                   *)
THEOREM FinishedJobsStay == HeatmapSpec => FinishedStays
<1>1. HeatmapTypeOK /\ [HeatmapNext]_heatmapVars =>
        [\A r \in Runs : heatmap[r].status \in Finished => heatmap'[r] = heatmap[r]]_heatmap
  BY JobsKept DEF KeepsFinished
<1>2. QED
  BY <1>1, HeatmapsHold, PTL DEF HeatmapSpec, HeatmapInv, FinishedStays

-----------------------------------------------------------------------------
(* Image generation.                                                        *)

DesignShape ==
  /\ job \in [Jobs -> [status : {"none", "queued", "running", "deleted"} \cup Ended,
                       attempts : Nat, prompt : {"none", "kept", "expired"}]]
  /\ images \in [Jobs -> Nat]
  /\ designCalls \subseteq [job : Jobs, attempt : Nat, phase : {"claimed", "generating", "recover"}]
  /\ requests \subseteq [job : Jobs, kind : {"cancel", "delete"}]

(* The call that draws holds the row lock: the job stays running under it,  *)
(* and no second call draws for the same job.                               *)
Draws(c) == c \in designCalls /\ c.phase = "generating"
LockHolds ==
  /\ \A c \in designCalls : Draws(c) => job[c.job].status = "running"
  /\ \A c, d \in designCalls : Draws(c) /\ Draws(d) /\ c.job = d.job => c = d

(* An image ends its job for good, or for the cancel request that was late. *)
ImageEnds ==
  \A j \in Jobs : images[j] = 0 \/ (images[j] = 1 /\ job[j].status \in {"succeeded", "cancelled", "deleted"})

DesignInv == DesignShape /\ LockHolds /\ ImageEnds

(* A step that writes one row, and makes no call draw.                      *)
LEMMA RowWritten ==
  ASSUME DesignInv, NEW j \in Jobs,
         NEW row \in [status : {"none", "queued", "running", "deleted"} \cup Ended,
                      attempts : Nat, prompt : {"none", "kept", "expired"}],
         job' = [job EXCEPT ![j] = row],
         ~Locked(j) \/ row.status = job[j].status,
         images[j] = 0 \/ row.status \in {"cancelled", "deleted", job[j].status},
         designCalls' \subseteq [job : Jobs, attempt : Nat, phase : {"claimed", "generating", "recover"}],
         \A c \in designCalls' : c.phase = "generating" => c \in designCalls,
         requests' \subseteq requests, images' = images
  PROVE  DesignInv'
<1> USE DEF DesignInv, DesignShape
<1>1. DesignShape'
  OBVIOUS
<1>2. \A k \in Jobs : job'[k] = IF k = j THEN row ELSE job[k]
  OBVIOUS
<1>3. LockHolds'
  BY <1>2 DEF LockHolds, Draws, Locked
<1>4. ImageEnds'
  BY <1>2 DEF ImageEnds
<1>5. QED
  BY <1>1, <1>3, <1>4

LEMMA CallStartsDrawing ==
  ASSUME DesignInv, NEW c \in designCalls, StartGeneration(c)
  PROVE  DesignInv'
<1> USE DEF DesignInv, DesignShape
<1> DEFINE drawing == [job |-> c.job, attempt |-> c.attempt, phase |-> "generating"]
<1>1. /\ c \in [job : Jobs, attempt : Nat, phase : {"claimed", "generating", "recover"}]
      /\ job[c.job].status = "running" /\ ~Locked(c.job)
      /\ UNCHANGED <<job, images, requests>>
  BY DEF StartGeneration
<1>2. [c EXCEPT !.phase = "generating"] = drawing
  BY <1>1
<1>3. designCalls' = (designCalls \ {c}) \cup {drawing}
  BY <1>2 DEF StartGeneration, MoveCall
<1>4. DesignShape'
  BY <1>1, <1>3
<1>5. LockHolds'
  BY <1>1, <1>3 DEF LockHolds, Draws, Locked
<1>6. QED
  BY <1>1, <1>4, <1>5 DEF ImageEnds

(* The row is written under the lock, which the same step gives up.         *)
LEMMA DrawingEnds ==
  ASSUME DesignInv, NEW c \in designCalls, NEW outcome \in {"succeeded", "failed", "raised"},
         EndGeneration(c, outcome)
  PROVE  DesignInv'
<1> USE DEF DesignInv, DesignShape
<1> DEFINE after == [job |-> c.job, attempt |-> c.attempt, phase |-> "recover"]
           row == [status |-> outcome, attempts |-> job[c.job].attempts, prompt |-> job[c.job].prompt]
<1>1. /\ c \in [job : Jobs, attempt : Nat, phase : {"claimed", "generating", "recover"}]
      /\ Draws(c) /\ UNCHANGED requests
  BY DEF EndGeneration, Draws
<1>2. [c EXCEPT !.phase = "recover"] = after
  BY <1>1
<1>3. designCalls' = (designCalls \ {c}) \cup {after}
  BY <1>2 DEF EndGeneration, MoveCall
<1>4. job[c.job].status = "running" /\ images[c.job] = 0
  BY <1>1 DEF LockHolds, ImageEnds
<1>5. \A d \in designCalls' : d.phase = "generating" => d \in designCalls /\ d.job # c.job
  BY <1>1, <1>3 DEF LockHolds, Draws
<1>6. designCalls' \subseteq [job : Jobs, attempt : Nat, phase : {"claimed", "generating", "recover"}]
  BY <1>1, <1>3
<1>7. CASE outcome = "raised"
  <2>1. UNCHANGED <<job, images>>
    BY <1>7 DEF EndGeneration
  <2>2. QED
    BY <1>1, <1>5, <1>6, <2>1 DEF LockHolds, Draws, ImageEnds
<1>8. CASE outcome # "raised"
  <2>1. job[c.job] \in [status : {"none", "queued", "running", "deleted"} \cup Ended,
                        attempts : Nat, prompt : {"none", "kept", "expired"}]
    BY <1>1
  <2>2. [job[c.job] EXCEPT !.status = outcome] = row
    BY <2>1
  <2>3. job' = [job EXCEPT ![c.job].status = outcome]
    BY <1>8 DEF EndGeneration
  <2>4. job' = [job EXCEPT ![c.job] = row]
    BY <2>2, <2>3
  <2>5. \/ images' = images
        \/ outcome = "succeeded" /\ images' = [images EXCEPT ![c.job] = 1]
    BY <1>1, <1>4 DEF EndGeneration
  <2>6. row \in [status : {"none", "queued", "running", "deleted"} \cup Ended,
                 attempts : Nat, prompt : {"none", "kept", "expired"}]
    BY <2>1, <1>8 DEF Ended
  <2>7. DesignShape'
    BY <1>1, <1>6, <2>4, <2>5, <2>6
  <2>8. LockHolds'
    BY <1>1, <1>5, <1>6, <2>4 DEF LockHolds, Draws
  <2>9. ImageEnds'
    BY <1>1, <1>4, <2>4, <2>5 DEF ImageEnds
  <2>10. QED
    BY <2>7, <2>8, <2>9
<1>9. QED
  BY <1>7, <1>8

LEMMA DesignStep ==
  ASSUME DesignInv, [DesignNext]_designVars
  PROVE  DesignInv'
<1> USE DEF DesignInv, DesignShape
<1> DEFINE Rows == [status : {"none", "queued", "running", "deleted"} \cup Ended,
                    attempts : Nat, prompt : {"none", "kept", "expired"}]
<1>0. ASSUME NEW j \in Jobs, NEW now, NEW prompt
      PROVE  /\ job[j] \in Rows
             /\ [job EXCEPT ![j].status = now]
                  = [job EXCEPT ![j] = [status |-> now, attempts |-> job[j].attempts, prompt |-> job[j].prompt]]
             /\ [job EXCEPT ![j].prompt = prompt]
                  = [job EXCEPT ![j] = [status |-> job[j].status, attempts |-> job[j].attempts, prompt |-> prompt]]
  <2>1. job[j] \in Rows
    OBVIOUS
  <2>2. /\ [job[j] EXCEPT !.status = now]
             = [status |-> now, attempts |-> job[j].attempts, prompt |-> job[j].prompt]
        /\ [job[j] EXCEPT !.prompt = prompt]
             = [status |-> job[j].status, attempts |-> job[j].attempts, prompt |-> prompt]
    BY <2>1
  <2>3. QED
    BY <2>1, <2>2
<1>1. ASSUME UNCHANGED <<job, images, designCalls>>, requests' \subseteq [job : Jobs, kind : {"cancel", "delete"}]
      PROVE  DesignInv'
  BY <1>1 DEF LockHolds, Draws, ImageEnds
<1>2. ASSUME NEW j \in Jobs, CreateGenerationJob(j)
      PROVE  DesignInv'
  BY <1>2, RowWritten DEF CreateGenerationJob, Locked, LockHolds, Draws, ImageEnds, Ended
<1>3. ASSUME NEW j \in Jobs, NEW kind \in {"cancel", "delete"}, BeginRequest(j, kind)
      PROVE  DesignInv'
  BY <1>1, <1>3 DEF BeginRequest
<1>4. ASSUME NEW j \in Jobs, ClaimDesign(j)
      PROVE  DesignInv'
  BY <1>0, <1>4, RowWritten DEF ClaimDesign, Locked, LockHolds, Draws, ImageEnds
<1>5. ASSUME NEW j \in Jobs, ReapDesign(j)
      PROVE  DesignInv'
  BY <1>0, <1>5, RowWritten DEF ReapDesign, ImageEnds, Ended
<1>6. ASSUME NEW j \in Jobs, PromptExpires(j) \/ PurgePrompt(j)
      PROVE  DesignInv'
  BY <1>0, <1>6, RowWritten DEF PromptExpires, PurgePrompt
<1>7. ASSUME NEW q \in requests, CommitRequest(q)
      PROVE  DesignInv'
  <2>1. q.job \in Jobs /\ requests' \subseteq requests /\ UNCHANGED <<images, designCalls>>
    BY <1>7 DEF CommitRequest
  <2>2. CASE ~Exists(q.job)
    BY <1>1, <1>7, <2>1, <2>2 DEF CommitRequest
  <2>3. CASE Exists(q.job)
    <3> DEFINE now == IF q.kind = "cancel" THEN "cancelled" ELSE "deleted"
    <3>1. job' = [job EXCEPT ![q.job].status = now]
      BY <1>7, <2>3 DEF CommitRequest
    <3>2. job' = [job EXCEPT ![q.job] = [status |-> now, attempts |-> job[q.job].attempts,
                                         prompt |-> job[q.job].prompt]]
      BY <1>0, <2>1, <3>1
    <3>3. now \in {"cancelled", "deleted"}
      OBVIOUS
    <3>4. ~Locked(q.job)
      BY <1>7 DEF CommitRequest
    <3>5. QED
      BY <1>0, <2>1, <3>2, <3>3, <3>4, RowWritten DEF Ended
  <2>4. QED
    BY <2>2, <2>3
<1>8. ASSUME NEW c \in designCalls, RecoverDesign(c)
      PROVE  DesignInv'
  BY <1>0, <1>8, RowWritten DEF RecoverDesign, ImageEnds, Ended
<1>9. ASSUME NEW c \in designCalls, DropCall(c)
      PROVE  DesignInv'
  BY <1>9 DEF DropCall, LockHolds, Draws, ImageEnds
<1>10. CASE UNCHANGED designVars
  BY <1>1, <1>10 DEF designVars
<1>11. CASE UploadAsset \/ AssetExpires \/ PurgeAsset \/ DeleteAsset
  BY <1>1, <1>11 DEF UploadAsset, AssetExpires, PurgeAsset, DeleteAsset
<1>12. QED
  BY <1>2, <1>3, <1>4, <1>5, <1>6, <1>7, <1>8, <1>9, <1>10, <1>11, CallStartsDrawing, DrawingEnds
     DEF DesignNext

(* OneImagePerJob: whatever is reaped and claimed again and whatever the    *)
(* overlapping calls and requests write, a job stores at most one image and *)
(* one that did is neither failed nor started again.                        *)
THEOREM ImagesAreStoredOnce == DesignSpec => []OneImagePerJob
<1>1. DesignInit => DesignInv
  BY DEF DesignInit, NoDesign, DesignInv, DesignShape, LockHolds, Draws, ImageEnds
<1>2. DesignInv => OneImagePerJob
  <2>1. ASSUME DesignInv, NEW j \in Jobs
        PROVE  images[j] <= 1 /\ (images[j] = 1 => job[j].status \notin {"queued", "running", "failed"})
    BY <2>1 DEF DesignInv, ImageEnds
  <2>2. QED
    BY <2>1 DEF OneImagePerJob
<1>3. DesignInv /\ [DesignNext]_designVars => DesignInv'
  BY DesignStep
<1>4. QED
  BY <1>1, <1>2, <1>3, PTL DEF DesignSpec

-----------------------------------------------------------------------------
(* The supervisor.                                                          *)

(* Outside the moment between spawning a process and registering it, every  *)
(* process is known: only then does wait_all see them all.                  *)
AllKnown ==
  /\ pending \subseteq Container!Services
  /\ main # "register" => Container!Unregistered = {}

(* How the main thread came to where it is.                                 *)
WayToTheEnd ==
  /\ main = "stop" => exitCode = 1
  /\ stopping => signalled \/ exitCode = 1
  /\ main \in {"wait", "ended"} => stopping
  /\ main = "ended" => Container!Running = {}

(* No other service runs, or is to be spawned, before the preflight is over.*)
PreflightFirst ==
  /\ main = "start" => preflight = 0
  /\ main = "preflight" => preflight > 0
  /\ (\E s \in Others : child[s] # "absent" \/ s \in pending) => preflight = 0

ContainerInv == Container!LauncherTypeOK /\ AllKnown /\ WayToTheEnd /\ PreflightFirst

LEMMA ContainerStep ==
  ASSUME ContainerInv, [Container!LauncherNext]_Container!launcherVars
  PROVE  ContainerInv'
<1> USE ServicesAssumption DEF ContainerInv, Container!LauncherTypeOK, AllKnown, WayToTheEnd, PreflightFirst,
            Container!Unregistered, Container!Running, Container!Services, Container!Ended
<1>1. ASSUME NEW s \in Container!Services, Container!SpawnService(s)
      PROVE  ContainerInv'
  BY <1>1 DEF Container!SpawnService
<1>2. CASE Container!RegisterService
  BY <1>2 DEF Container!RegisterService
<1>3. ASSUME NEW succeeds \in BOOLEAN, Container!PreflightStepEnds(succeeds)
      PROVE  ContainerInv'
  BY <1>3 DEF Container!PreflightStepEnds, Container!AfterFailedStep
<1>4. CASE Container!StartUnlessStopping
  BY <1>4 DEF Container!StartUnlessStopping
<1>5. CASE Container!Watch
  BY <1>5 DEF Container!Watch
<1>6. CASE Container!PollOnce
  BY <1>6 DEF Container!PollOnce, Container!ExitCode, Container!ReportedCodeOf
<1>7. CASE Container!Stop
  BY <1>7 DEF Container!Stop, Container!ToAsk
<1>8. CASE Container!Wait
  BY <1>8 DEF Container!Wait, Container!WaitAll
<1>9. CASE Container!HandleSignal
  BY <1>9 DEF Container!HandleSignal
<1>10. CASE Container!TimeoutPasses
  BY <1>10 DEF Container!TimeoutPasses
<1>11. ASSUME NEW s \in Container!Services, NEW code \in Container!Ended, Container!ServiceExits(s, code)
       PROVE  ContainerInv'
  BY <1>11 DEF Container!ServiceExits
<1>12. CASE UNCHANGED Container!launcherVars
  BY <1>12 DEF Container!launcherVars
<1>13. QED
  BY <1>1, <1>2, <1>3, <1>4, <1>5, <1>6, <1>7, <1>8, <1>9, <1>10, <1>11, <1>12
     DEF Container!LauncherNext, Container!MainThread

LEMMA ContainersHold == Container!LauncherSpec => []ContainerInv
<1>1. Container!LauncherInit => ContainerInv
  BY ServicesAssumption
     DEF Container!LauncherInit, ContainerInv, Container!LauncherTypeOK, AllKnown,
         WayToTheEnd, PreflightFirst, Container!Unregistered, Container!Running, Container!Services
<1>2. ContainerInv /\ [Container!LauncherNext]_Container!launcherVars => ContainerInv'
  BY ContainerStep
<1>3. QED
  BY <1>1, <1>2, PTL DEF Container!LauncherSpec

(* ContainerFailsClosed: with any services and preflight steps, whenever    *)
(* processes die and signals arrive, the container ends without a process   *)
(* left, with code 0 only when it was told to end, and no service runs      *)
(* before the preflight has succeeded.                                      *)
THEOREM ContainersFailClosed == Container!LauncherSpec => []Container!ContainerFailsClosed
<1>1. ContainerInv => Container!ContainerFailsClosed
  BY DEF ContainerInv, WayToTheEnd, PreflightFirst, Container!ContainerFailsClosed
<1>2. QED
  BY <1>1, ContainersHold, PTL

-----------------------------------------------------------------------------
(* The retention of screenshots.                                            *)

(* A purge that has looked for reports protects what they showed then, and  *)
(* only such a purge protects anything.                                     *)
RetentionInv ==
  /\ RetentionTypeOK
  /\ purge # "reports" => protected = {}
  /\ purge = "reports" => \A a \in candidates : report[a] = "inside" => a \in protected

LEMMA RetentionStep ==
  ASSUME RetentionInv, [RetentionNext]_retentionVars
  PROVE  /\ RetentionInv'
         /\ \A a \in Captures : report[a] = "inside" => (screenshot'[a] = "purged" <=> screenshot[a] = "purged")
<1> USE DEF RetentionInv, RetentionTypeOK
<1> DEFINE Kept == \A a \in Captures :
                     report[a] = "inside" => (screenshot'[a] = "purged" <=> screenshot[a] = "purged")
<1>1. ASSUME NEW a \in Captures, Capture(a) \/ TtlPasses(a)
      PROVE  RetentionInv' /\ Kept
  BY <1>1 DEF Capture, TtlPasses
<1>2. ASSUME NEW a \in Captures, CommitReport(a) \/ WindowPasses(a)
      PROVE  RetentionInv' /\ Kept
  BY <1>2 DEF CommitReport, WindowPasses
<1>3. CASE PurgeReadCandidates
  BY <1>3 DEF PurgeReadCandidates
<1>4. CASE PurgeReadReports
  BY <1>4 DEF PurgeReadReports, Protected, InWindow
<1>5. CASE PurgeCommit
  BY <1>5 DEF PurgeCommit
<1>6. CASE UNCHANGED retentionVars
  BY <1>6 DEF retentionVars
<1>7. QED
  BY <1>1, <1>2, <1>3, <1>4, <1>5, <1>6 DEF RetentionNext

LEMMA RetentionHolds == RetentionSpec => []RetentionInv
<1>1. RetentionInit => RetentionInv
  BY DEF RetentionInit, RetentionInv, RetentionTypeOK
<1>2. RetentionInv /\ [RetentionNext]_retentionVars => RetentionInv'
  BY RetentionStep
<1>3. QED
  BY <1>1, <1>2, PTL DEF RetentionSpec

(* ReportsKeepScreenshots: for any captures, no purge takes the screenshot  *)
(* of a report inside its window that was committed before the purge looked *)
(* for reports.                                                             *)
THEOREM ReportsAreIllustrated == RetentionSpec => ReportsKeepScreenshots
<1>1. RetentionInv /\ [RetentionNext]_retentionVars
        => [\A a \in Captures :
              report[a] = "inside" => screenshot'[a] = "purged" <=> screenshot[a] = "purged"]_retentionVars
  <2> SUFFICES ASSUME RetentionInv, [RetentionNext]_retentionVars
               PROVE  \A a \in Captures :
                        report[a] = "inside" => screenshot'[a] = "purged" <=> screenshot[a] = "purged"
    OBVIOUS
  <2>1. \A a \in Captures :
          report[a] = "inside" => (screenshot'[a] = "purged" <=> screenshot[a] = "purged")
    BY RetentionStep
  <2>2. QED
    BY <2>1
<1>2. QED
  BY <1>1, RetentionHolds, PTL DEF RetentionSpec, ReportsKeepScreenshots

-----------------------------------------------------------------------------
(* The browser service.                                                     *)

Before == {"new", "waiting", "launching"}
VisitRows ==
  [phase : Browser!Analysing \cup Before \cup {"closing", "answered"},
   answer : Browser!Answers \cup {"none"},
   page : {"none", "open", "closed"}, watchdog : {"off", "watching", "closing", "reaping"},
   tripped : BOOLEAN, oversized : BOOLEAN, hung : BOOLEAN, redirects : 0..MaxRedirects + 1,
   skipped : BOOLEAN, left : 0..Profiles]

(* A watchdog runs beside an analysis, which has no answer yet; what it has *)
(* ended is answered by a code that the worker tries again.                 *)
VisitFits(q) ==
  /\ q.watchdog # "off" => q.phase \in Browser!Analysing
  /\ q.phase \in Browser!Analysing \cup Before => q.answer = "none"
  /\ q.phase \in Before => ~q.tripped
  /\ q.tripped => /\ q.answer # "browser_crashed"
                  /\ q.answer \notin {"none", "ok"} => Browser!Retried(q.answer)

ChromiumInv ==
  /\ visit \in [Visits -> VisitRows] /\ \A v \in Visits : VisitFits(visit[v])
  /\ \A v, w \in Browser!Holding : v = w
  /\ processes \subseteq Visits /\ hit = {}

Holds(q) == q.phase \in Browser!Analysing \cup {"launching", "closing"}

(* The semaphore is the only way to a browser.                              *)
LEMMA VisitMoves ==
  ASSUME ChromiumInv, NEW v \in Visits, NEW q \in VisitRows, VisitFits(q),
         visit' = [visit EXCEPT ![v] = q],
         Holds(q) => Holds(visit[v]) \/ Browser!Holding = {},
         processes' \subseteq Visits, UNCHANGED hit
  PROVE  ChromiumInv'
<1>1. \A w \in Visits : visit'[w] = IF w = v THEN q ELSE visit[w]
  BY DEF ChromiumInv
<1>2. visit' \in [Visits -> VisitRows] /\ \A w \in Visits : VisitFits(visit'[w])
  BY <1>1 DEF ChromiumInv
<1>3. \A w \in Visits : w \in Browser!Holding <=> Holds(visit[w])
  BY DEF Browser!Holding, Browser!Phase, Holds
<1>4. \A w \in Visits : w \in Browser!Holding' <=> Holds(visit'[w])
  BY DEF Browser!Holding, Browser!Phase, Holds
<1>5. Browser!Holding \subseteq Visits /\ Browser!Holding' \subseteq Visits
  BY DEF Browser!Holding
<1>6. \A u, w \in Browser!Holding' : u = w
  BY <1>1, <1>3, <1>4, <1>5 DEF ChromiumInv
<1>7. QED
  BY <1>2, <1>6 DEF ChromiumInv

(* An analysis ends with a code that fits whether it was tripped.           *)
LEMMA VisitLeaves ==
  ASSUME ChromiumInv, NEW v \in Visits, Browser!Phase(v) \in Browser!Analysing,
         NEW code \in Browser!Answers, Browser!Leave(v, code),
         visit[v].tripped => code # "browser_crashed" /\ (code # "ok" => Browser!Retried(code))
  PROVE  ChromiumInv'
<1> DEFINE q == [visit[v] EXCEPT !.phase = "closing", !.answer = code, !.watchdog = "off"]
<1>1. visit[v] \in VisitRows /\ VisitFits(visit[v])
  BY DEF ChromiumInv
<1>2. visit' = [visit EXCEPT ![v] = q] /\ UNCHANGED <<processes, hit>>
  BY DEF Browser!Leave, Browser!OnlyVisit
<1>3. q \in VisitRows
  BY <1>1 DEF VisitRows
<1>4. q.phase = "closing" /\ q.answer = code /\ q.watchdog = "off" /\ (q.tripped <=> visit[v].tripped)
  BY <1>1 DEF VisitRows
<1>5. VisitFits(q) /\ Holds(visit[v])
  BY <1>4 DEF VisitFits, Holds, Before, Browser!Phase, Browser!Analysing, Browser!UrlPhases, Browser!DevicePhases
<1> HIDE DEF q
<1>6. QED
  BY <1>2, <1>3, <1>5, VisitMoves DEF ChromiumInv

LEMMA CodesFit ==
  ASSUME NEW v \in Visits,
         NEW error \in {"analysis_failed", "response_too_large", "empty_page_snapshot", "Exception",
                        "PlaywrightTimeoutError", "TimeoutError", "PlaywrightError"}
  PROVE  /\ Browser!CodeOf(v, error) \in Browser!Answers
         /\ visit[v].tripped => /\ Browser!CodeOf(v, error) # "browser_crashed"
                                /\ Browser!Retried(Browser!CodeOf(v, error))
<1>1. CASE visit[v].tripped /\ error \notin {"Exception", "PlaywrightTimeoutError"}
  <2>1. Browser!CodeOf(v, error) = "analyzer_memory_pressure"
    BY <1>1 DEF Browser!CodeOf, Browser!ReasonAsked
  <2>2. QED
    BY <2>1 DEF Browser!Answers, Browser!Retried
<1>2. CASE error = "Exception"
  <2>1. Browser!CodeOf(v, error) = "analyzer_internal_error"
    BY <1>2 DEF Browser!CodeOf, Browser!ReasonAsked
  <2>2. QED
    BY <2>1 DEF Browser!Answers, Browser!Retried
<1>3. CASE error = "PlaywrightTimeoutError"
  <2>1. Browser!CodeOf(v, error) = "analysis_failed"
    BY <1>3 DEF Browser!CodeOf, Browser!ReasonAsked
  <2>2. QED
    BY <2>1 DEF Browser!Answers, Browser!Retried
<1>4. CASE ~visit[v].tripped /\ error \notin {"Exception", "PlaywrightTimeoutError"}
  <2>1. error = "TimeoutError" => Browser!CodeOf(v, error) = "analyzer_timeout"
    BY <1>4 DEF Browser!CodeOf, Browser!ReasonAsked
  <2>2. error = "PlaywrightError" => Browser!CodeOf(v, error) = "browser_crashed"
    BY <1>4 DEF Browser!CodeOf, Browser!ReasonAsked
  <2>3. error \notin {"TimeoutError", "PlaywrightError"} => Browser!CodeOf(v, error) = error
    BY <1>4 DEF Browser!CodeOf, Browser!ReasonAsked
  <2>4. QED
    BY <1>4, <2>1, <2>2, <2>3 DEF Browser!Answers
<1>5. QED
  BY <1>1, <1>2, <1>3, <1>4

LEMMA VisitEnds ==
  ASSUME ChromiumInv, NEW v \in Visits, Browser!Phase(v) \in Browser!Analysing,
         NEW error \in {"analysis_failed", "response_too_large", "empty_page_snapshot", "Exception",
                        "PlaywrightTimeoutError", "TimeoutError", "PlaywrightError"},
         Browser!Leave(v, Browser!CodeOf(v, error)) \/ Browser!Leave(v, "ok")
  PROVE  ChromiumInv'
<1>1. "ok" \in Browser!Answers
  BY DEF Browser!Answers
<1>2. QED
  BY <1>1, CodesFit, VisitLeaves

(* An analysis goes on.                                                     *)
LEMMA VisitGoesOn ==
  ASSUME ChromiumInv, NEW v \in Visits, Browser!Phase(v) \in Browser!Analysing,
         NEW q \in VisitRows, visit' = [visit EXCEPT ![v] = q],
         q.phase \in Browser!Analysing, q.answer = visit[v].answer, UNCHANGED <<processes, hit>>
  PROVE  ChromiumInv'
<1>1. VisitFits(visit[v]) /\ visit[v].phase \in Browser!Analysing
  BY DEF ChromiumInv, Browser!Phase
<1>2. VisitFits(q) /\ Holds(visit[v])
  BY <1>1 DEF VisitFits, Holds, Before, Browser!Analysing, Browser!UrlPhases, Browser!DevicePhases
<1>3. QED
  BY <1>2, VisitMoves DEF ChromiumInv

LEMMA VisitGoes ==
  ASSUME ChromiumInv, NEW v \in Visits, Browser!Phase(v) \in Browser!Analysing,
         NEW phase \in Browser!Analysing, Browser!Goto(v, phase)
  PROVE  ChromiumInv'
<1> DEFINE q == [visit[v] EXCEPT !.phase = phase]
<1>1. visit' = [visit EXCEPT ![v] = q] /\ UNCHANGED <<processes, hit>>
  BY DEF Browser!Goto, Browser!OnlyVisit
<1>2. visit[v] \in VisitRows
  BY DEF ChromiumInv
<1>3. q \in VisitRows /\ q.phase = phase /\ q.answer = visit[v].answer
  BY <1>2 DEF VisitRows
<1> HIDE DEF q
<1>4. QED
  BY <1>1, <1>3, VisitGoesOn

LEMMA EnvironmentMoves ==
  ASSUME ChromiumInv, NEW v \in Visits,
         Browser!Environment(v) \/ Browser!Trip(v) \/ Browser!BrowserCloses(v)
  PROVE  ChromiumInv'
<1>1. visit[v] \in VisitRows /\ VisitFits(visit[v])
  BY DEF ChromiumInv
<1>2. visit[v].phase \in Browser!Analysing /\ UNCHANGED <<processes, hit>>
  BY <1>1 DEF VisitFits, Browser!Environment, Browser!RequestOtherHost, Browser!MainDocumentTooLarge,
              Browser!PageIsLost, Browser!PageHangs, Browser!Trip, Browser!BrowserCloses,
              Browser!OnlyVisit, Browser!Phase, Browser!Analysing, Browser!DevicePhases
<1>3. ASSUME NEW q \in VisitRows, q.phase = visit[v].phase, q.answer = visit[v].answer,
             visit' = [visit EXCEPT ![v] = q]
      PROVE  ChromiumInv'
  BY <1>2, <1>3, VisitGoesOn DEF Browser!Phase
<1>4. CASE Browser!RequestOtherHost(v)
  <2> DEFINE q == [visit[v] EXCEPT !.redirects = visit[v].redirects + 1]
  <2>0. visit[v].redirects + 1 \in 0..MaxRedirects + 1
    BY <1>1, <1>4, ServicesAssumption DEF VisitRows, Browser!RequestOtherHost
  <2>1. q \in VisitRows /\ q.phase = visit[v].phase /\ q.answer = visit[v].answer
    BY <1>1, <2>0 DEF VisitRows
  <2>2. visit' = [visit EXCEPT ![v] = q]
    BY <1>4 DEF Browser!RequestOtherHost
  <2> HIDE DEF q
  <2>3. QED
    BY <1>3, <2>1, <2>2
<1>5. CASE Browser!MainDocumentTooLarge(v)
  <2> DEFINE q == [visit[v] EXCEPT !.oversized = TRUE]
  <2>1. q \in VisitRows /\ q.phase = visit[v].phase /\ q.answer = visit[v].answer
    BY <1>1 DEF VisitRows
  <2>2. visit' = [visit EXCEPT ![v] = q]
    BY <1>5 DEF Browser!MainDocumentTooLarge
  <2> HIDE DEF q
  <2>3. QED
    BY <1>3, <2>1, <2>2
<1>6. CASE Browser!PageIsLost(v)
  <2> DEFINE q == [visit[v] EXCEPT !.page = "closed"]
  <2>1. q \in VisitRows /\ q.phase = visit[v].phase /\ q.answer = visit[v].answer
    BY <1>1 DEF VisitRows
  <2>2. visit' = [visit EXCEPT ![v] = q]
    BY <1>6 DEF Browser!PageIsLost
  <2> HIDE DEF q
  <2>3. QED
    BY <1>3, <2>1, <2>2
<1>7. CASE Browser!PageHangs(v)
  <2> DEFINE q == [visit[v] EXCEPT !.hung = TRUE]
  <2>1. q \in VisitRows /\ q.phase = visit[v].phase /\ q.answer = visit[v].answer
    BY <1>1 DEF VisitRows
  <2>2. visit' = [visit EXCEPT ![v] = q]
    BY <1>7 DEF Browser!PageHangs
  <2> HIDE DEF q
  <2>3. QED
    BY <1>3, <2>1, <2>2
<1>8. CASE Browser!Trip(v)
  <2> DEFINE q == [visit[v] EXCEPT !.watchdog = "closing", !.tripped = TRUE]
  <2>1. q \in VisitRows /\ q.phase = visit[v].phase /\ q.answer = visit[v].answer
    BY <1>1 DEF VisitRows
  <2>2. visit' = [visit EXCEPT ![v] = q]
    BY <1>8 DEF Browser!Trip
  <2> HIDE DEF q
  <2>3. QED
    BY <1>3, <2>1, <2>2
<1>9. CASE Browser!BrowserCloses(v)
  <2> DEFINE q == [visit[v] EXCEPT !.watchdog = "reaping", !.page = "closed"]
  <2>1. q \in VisitRows /\ q.phase = visit[v].phase /\ q.answer = visit[v].answer
    BY <1>1 DEF VisitRows
  <2>2. visit' = [visit EXCEPT ![v] = q]
    BY <1>9 DEF Browser!BrowserCloses
  <2> HIDE DEF q
  <2>3. QED
    BY <1>3, <2>1, <2>2
<1>10. QED
  BY <1>4, <1>5, <1>6, <1>7, <1>8, <1>9 DEF Browser!Environment

(* Whoever watches holds the only place, so nobody else is hit.             *)
LEMMA ReapMoves ==
  ASSUME ChromiumInv, NEW v \in Visits, Browser!Reap(v)
  PROVE  ChromiumInv'
<1> DEFINE q == [visit[v] EXCEPT !.watchdog = "off"]
           closed(w) == [visit[w] EXCEPT !.page = "closed"]
           after(w) == IF w = v THEN q ELSE IF w \in processes THEN closed(w) ELSE visit[w]
<1>1. \A w \in Visits : visit[w] \in VisitRows /\ VisitFits(visit[w])
  BY DEF ChromiumInv
<1>2. visit' = [w \in Visits |-> after(w)] /\ processes' = {}
  BY DEF Browser!Reap
<1>3. \A w \in Visits : /\ closed(w) \in VisitRows /\ closed(w).phase = visit[w].phase
                         /\ closed(w).answer = visit[w].answer /\ closed(w).watchdog = visit[w].watchdog
                         /\ (closed(w).tripped <=> visit[w].tripped)
  BY <1>1 DEF VisitRows
<1>4. /\ q \in VisitRows /\ q.phase = visit[v].phase /\ q.answer = visit[v].answer
      /\ q.watchdog = "off" /\ (q.tripped <=> visit[v].tripped)
  BY <1>1 DEF VisitRows
<1>5. \A w \in Visits : VisitFits(closed(w))
  BY <1>1, <1>3 DEF VisitFits
<1>6. VisitFits(q)
  BY <1>1, <1>4 DEF VisitFits
<1> HIDE DEF q, closed
<1>7. \A w \in Visits : after(w) \in VisitRows /\ VisitFits(after(w)) /\ after(w).phase = visit[w].phase
  BY <1>1, <1>3, <1>4, <1>5, <1>6
<1> HIDE DEF after
<1>8. visit' \in [Visits -> VisitRows] /\ \A w \in Visits : VisitFits(visit'[w]) /\ visit'[w].phase = visit[w].phase
  BY <1>2, <1>7
<1>9. Browser!Holding' = Browser!Holding
  BY <1>8 DEF Browser!Holding, Browser!Phase
<1>10. v \in Browser!Holding
  <2>1. visit[v].watchdog = "reaping"
    BY DEF Browser!Reap
  <2>2. QED
    BY <1>1, <2>1 DEF VisitFits, Browser!Holding, Browser!Phase
<1>11. \A w \in processes \ {v} : Browser!Phase(w) \notin Browser!Analysing
  BY <1>10 DEF ChromiumInv, Browser!Holding
<1>12. hit' = {}
  BY <1>11 DEF Browser!Reap, ChromiumInv
<1>13. QED
  BY <1>2, <1>8, <1>9, <1>12 DEF ChromiumInv

LEMMA AnalysisMoves ==
  ASSUME ChromiumInv, NEW v \in Visits, Browser!Analyse(v)
  PROVE  ChromiumInv'
<1>1. Browser!Phase(v) \in Browser!Analysing
  BY DEF Browser!Analyse, Browser!Load, Browser!Settle, Browser!Read, Browser!Capture, Browser!Check,
         Browser!CallFails, Browser!TotalTimeout, Browser!Analysing, Browser!UrlPhases
<1>2. CASE \E phase \in {"settling", "reading", "capturing", "checking"} : Browser!Goto(v, phase)
  <2>1. PICK phase \in {"settling", "reading", "capturing", "checking"} : Browser!Goto(v, phase)
    BY <1>2
  <2>2. phase \in Browser!Analysing
    BY DEF Browser!Analysing, Browser!UrlPhases
  <2>3. QED
    BY <1>1, <2>1, <2>2, VisitGoes
<1>3. CASE \E error \in {"analysis_failed", "response_too_large", "empty_page_snapshot", "Exception",
                         "PlaywrightTimeoutError", "TimeoutError", "PlaywrightError"} :
             Browser!Leave(v, Browser!CodeOf(v, error)) \/ Browser!Leave(v, "ok")
  BY <1>1, <1>3, VisitEnds
<1>4. QED
  BY <1>2, <1>3 DEF Browser!Analyse, Browser!Load, Browser!Settle, Browser!Read, Browser!Capture,
                    Browser!Check, Browser!CallFails, Browser!TotalTimeout

LEMMA MeasurementMoves ==
  ASSUME ChromiumInv, NEW v \in Visits, Browser!Measure(v)
  PROVE  ChromiumInv'
<1>1. visit[v] \in VisitRows
  BY DEF ChromiumInv
<1>2. Browser!Phase(v) \in Browser!Analysing /\ {"between", "measuring"} \subseteq Browser!Analysing
  BY DEF Browser!Measure, Browser!NextProfile, Browser!MeasureEnds, Browser!Analysing, Browser!DevicePhases
<1>3. CASE Browser!Leave(v, "ok") \/ Browser!Leave(v, Browser!CodeOf(v, "Exception"))
  BY <1>2, <1>3, VisitEnds
<1>4. CASE Browser!Goto(v, "between")
  BY <1>2, <1>4, VisitGoes
<1>5. CASE /\ visit[v].left > 0 /\ visit' = [visit EXCEPT ![v].left = @ - 1, ![v].skipped = TRUE]
           /\ Browser!OnlyVisit
  <2> DEFINE q == [visit[v] EXCEPT !.left = visit[v].left - 1, !.skipped = TRUE]
  <2>1. visit[v].left - 1 \in 0..Profiles
    BY <1>1, <1>5, ServicesAssumption DEF VisitRows
  <2>2. q \in VisitRows /\ q.phase = visit[v].phase /\ q.answer = visit[v].answer
    BY <1>1, <2>1 DEF VisitRows
  <2>3. visit' = [visit EXCEPT ![v] = q] /\ UNCHANGED <<processes, hit>>
    BY <1>5 DEF Browser!OnlyVisit
  <2> HIDE DEF q
  <2>4. QED
    BY <1>2, <2>2, <2>3, VisitGoesOn DEF Browser!Phase
<1>6. ASSUME NEW page \in {"open", visit[v].page}, visit[v].left > 0, Browser!OnlyVisit,
             visit' = [visit EXCEPT ![v].left = @ - 1, ![v].phase = "measuring", ![v].page = page, ![v].hung = FALSE]
      PROVE  ChromiumInv'
  <2> DEFINE q == [visit[v] EXCEPT !.left = visit[v].left - 1, !.phase = "measuring", !.page = page, !.hung = FALSE]
  <2>1. visit[v].left - 1 \in 0..Profiles
    BY <1>1, <1>6, ServicesAssumption DEF VisitRows
  <2>2. page \in {"none", "open", "closed"}
    BY <1>1 DEF VisitRows
  <2>3. q \in VisitRows /\ q.phase = "measuring" /\ q.answer = visit[v].answer
    BY <1>1, <1>2, <2>1, <2>2 DEF VisitRows
  <2>4. visit' = [visit EXCEPT ![v] = q] /\ UNCHANGED <<processes, hit>>
    BY <1>6 DEF Browser!OnlyVisit
  <2> HIDE DEF q
  <2>5. QED
    BY <1>2, <2>3, <2>4, VisitGoesOn
<1>7. QED
  BY <1>3, <1>4, <1>5, <1>6 DEF Browser!Measure, Browser!NextProfile, Browser!MeasureEnds

(* The requests that hold a place get one step further.                     *)
LEMMA ChromiumStep ==
  ASSUME MaxConcurrent = 1, ChromiumInv, NEW v \in Visits,
         \/ Browser!Receive(v) \/ Browser!Enter(v) \/ Browser!LaunchEnds(v) \/ Browser!CloseBrowser(v)
         \/ Browser!Trip(v) \/ Browser!BrowserCloses(v) \/ Browser!Reap(v)
         \/ Browser!Analyse(v) \/ Browser!Measure(v) \/ Browser!Environment(v)
  PROVE  ChromiumInv'
<1>1. visit[v] \in VisitRows /\ VisitFits(visit[v]) /\ processes \subseteq Visits
  BY DEF ChromiumInv
<1>2. CASE Browser!Receive(v)
  <2>1. visit[v].phase = "new" /\ UNCHANGED <<processes, hit>>
    BY <1>2 DEF Browser!Receive, Browser!Phase, Browser!OnlyVisit
  <2>2. visit[v].watchdog = "off" /\ visit[v].answer = "none" /\ ~visit[v].tripped
    BY <1>1, <2>1 DEF VisitFits, Before, Browser!Analysing, Browser!UrlPhases, Browser!DevicePhases
  <2>3. CASE visit' = [visit EXCEPT ![v].phase = "waiting"]
    <3> DEFINE q == [visit[v] EXCEPT !.phase = "waiting"]
    <3>1. q \in VisitRows /\ q.phase = "waiting" /\ q.answer = "none" /\ q.watchdog = "off" /\ ~q.tripped
      BY <1>1, <2>2 DEF VisitRows, Before
    <3>2. visit' = [visit EXCEPT ![v] = q]
      BY <2>3
    <3> HIDE DEF q
    <3>3. VisitFits(q) /\ ~Holds(q)
      BY <3>1 DEF VisitFits, Holds, Before, Browser!Analysing, Browser!UrlPhases, Browser!DevicePhases
    <3>4. QED
      BY <1>1, <2>1, <3>1, <3>2, <3>3, VisitMoves
  <2>4. CASE visit' = [visit EXCEPT ![v].phase = "answered", ![v].answer = "rejected"]
    <3> DEFINE q == [visit[v] EXCEPT !.phase = "answered", !.answer = "rejected"]
    <3>1. q \in VisitRows /\ q.phase = "answered" /\ q.answer = "rejected" /\ q.watchdog = "off" /\ ~q.tripped
      BY <1>1, <2>2 DEF VisitRows, Browser!Answers
    <3>2. visit' = [visit EXCEPT ![v] = q]
      BY <2>4
    <3> HIDE DEF q
    <3>3. VisitFits(q) /\ ~Holds(q)
      BY <3>1 DEF VisitFits, Holds, Before, Browser!Analysing, Browser!UrlPhases, Browser!DevicePhases
    <3>4. QED
      BY <1>1, <2>1, <3>1, <3>2, <3>3, VisitMoves
  <2>5. QED
    BY <1>2, <2>3, <2>4 DEF Browser!Receive
<1>3. CASE Browser!Enter(v)
  <2>1. visit[v].phase = "waiting" /\ UNCHANGED <<processes, hit>> /\ Cardinality(Browser!Holding) < 1
    <3>1. Cardinality(Browser!Holding) < MaxConcurrent
      BY <1>3, Zenon DEF Browser!Enter, Browser!Cardinality, Cardinality
    <3>2. visit[v].phase = "waiting" /\ UNCHANGED <<processes, hit>>
      BY <1>3, Zenon DEF Browser!Enter, Browser!Phase, Browser!OnlyVisit
    <3>3. QED
      BY <3>1, <3>2
  <2>2. visit[v].watchdog = "off" /\ visit[v].answer = "none" /\ ~visit[v].tripped
    BY <1>1, <2>1 DEF VisitFits, Before, Browser!Analysing, Browser!UrlPhases, Browser!DevicePhases
  <2>3. Browser!Holding = {}
    <3>1. IsFiniteSet(Browser!Holding)
      BY FS_Subset, ServicesAssumption DEF Browser!Holding
    <3>2. Cardinality(Browser!Holding) \in Nat
      BY <3>1, FS_CardinalityType
    <3>3. Cardinality(Browser!Holding) = 0
      BY <2>1, <3>2
    <3>4. QED
      BY <3>1, <3>3, FS_EmptySet
  <2>4. CASE visit' = [visit EXCEPT ![v].phase = "launching"]
    <3> DEFINE q == [visit[v] EXCEPT !.phase = "launching"]
    <3>1. q \in VisitRows /\ q.phase = "launching" /\ q.answer = "none" /\ q.watchdog = "off" /\ ~q.tripped
      BY <1>1, <2>2 DEF VisitRows, Before
    <3>2. visit' = [visit EXCEPT ![v] = q]
      BY <2>4
    <3> HIDE DEF q
    <3>3. VisitFits(q)
      BY <3>1 DEF VisitFits, Before, Browser!Analysing, Browser!UrlPhases, Browser!DevicePhases
    <3>4. QED
      BY <1>1, <2>1, <2>3, <3>1, <3>2, <3>3, VisitMoves
  <2>5. CASE visit' = [visit EXCEPT ![v].phase = "answered", ![v].answer = "analyzer_memory_pressure"]
    <3> DEFINE q == [visit[v] EXCEPT !.phase = "answered", !.answer = "analyzer_memory_pressure"]
    <3>1. /\ q \in VisitRows /\ q.phase = "answered" /\ q.answer = "analyzer_memory_pressure"
          /\ q.watchdog = "off" /\ ~q.tripped
      BY <1>1, <2>2 DEF VisitRows, Browser!Answers
    <3>2. visit' = [visit EXCEPT ![v] = q]
      BY <2>5
    <3> HIDE DEF q
    <3>3. VisitFits(q) /\ ~Holds(q)
      BY <3>1 DEF VisitFits, Holds, Before, Browser!Analysing, Browser!UrlPhases, Browser!DevicePhases
    <3>4. QED
      BY <1>1, <2>1, <3>1, <3>2, <3>3, VisitMoves
  <2>6. QED
    BY <1>3, <2>4, <2>5 DEF Browser!Enter
<1>4. CASE Browser!LaunchEnds(v)
  <2>1. visit[v].phase = "launching" /\ UNCHANGED hit
    BY <1>4 DEF Browser!LaunchEnds, Browser!Phase
  <2>2. visit[v].watchdog = "off" /\ visit[v].answer = "none" /\ ~visit[v].tripped /\ Holds(visit[v])
    BY <1>1, <2>1 DEF VisitFits, Holds, Before, Browser!Analysing, Browser!UrlPhases, Browser!DevicePhases
  <2>3. ASSUME NEW phase \in Browser!Analysing,
               visit' = [visit EXCEPT ![v].phase = phase, ![v].page = "open", ![v].watchdog = "watching"],
               processes' = processes \cup {v}
        PROVE  ChromiumInv'
    <3> DEFINE q == [visit[v] EXCEPT !.phase = phase, !.page = "open", !.watchdog = "watching"]
    <3>1. q \in VisitRows /\ q.phase = phase /\ q.answer = "none" /\ ~q.tripped
      BY <1>1, <2>2, <2>3 DEF VisitRows
    <3>2. visit' = [visit EXCEPT ![v] = q]
      BY <2>3
    <3> HIDE DEF q
    <3>3. VisitFits(q)
      BY <2>3, <3>1 DEF VisitFits
    <3>4. processes' \subseteq Visits
      BY <1>1, <2>3
    <3>5. QED
      BY <2>1, <2>2, <3>1, <3>2, <3>3, <3>4, VisitMoves
  <2>4. CASE /\ visit' = [visit EXCEPT ![v].phase = "answered", ![v].answer = "analyzer_internal_error"]
             /\ UNCHANGED processes
    <3> DEFINE q == [visit[v] EXCEPT !.phase = "answered", !.answer = "analyzer_internal_error"]
    <3>1. /\ q \in VisitRows /\ q.phase = "answered" /\ q.answer = "analyzer_internal_error"
          /\ q.watchdog = "off" /\ ~q.tripped
      BY <1>1, <2>2 DEF VisitRows, Browser!Answers
    <3>2. visit' = [visit EXCEPT ![v] = q]
      BY <2>4
    <3> HIDE DEF q
    <3>3. VisitFits(q)
      BY <3>1 DEF VisitFits, Before, Browser!Analysing, Browser!UrlPhases, Browser!DevicePhases
    <3>4. processes' \subseteq Visits
      BY <1>1, <2>4
    <3>5. QED
      BY <2>1, <2>2, <3>1, <3>2, <3>3, <3>4, VisitMoves
  <2>5. QED
    BY <1>4, <2>3, <2>4 DEF Browser!LaunchEnds, Browser!Analysing, Browser!UrlPhases, Browser!DevicePhases
<1>5. CASE Browser!CloseBrowser(v)
  <2> DEFINE q == [visit[v] EXCEPT !.phase = "answered", !.page = "closed"]
  <2>1. visit[v].phase = "closing" /\ UNCHANGED hit /\ processes' \subseteq Visits
    BY <1>1, <1>5 DEF Browser!CloseBrowser, Browser!Phase
  <2>2. visit[v].watchdog = "off"
    BY <1>1, <2>1 DEF VisitFits, Browser!Analysing, Browser!UrlPhases, Browser!DevicePhases
  <2>3. /\ q \in VisitRows /\ q.phase = "answered" /\ q.answer = visit[v].answer
        /\ q.watchdog = "off" /\ (q.tripped <=> visit[v].tripped)
    BY <1>1, <2>2 DEF VisitRows
  <2>4. visit' = [visit EXCEPT ![v] = q]
    BY <1>5 DEF Browser!CloseBrowser
  <2> HIDE DEF q
  <2>5. VisitFits(q) /\ ~Holds(q)
    BY <1>1, <2>3 DEF VisitFits, Holds, Before, Browser!Analysing, Browser!UrlPhases, Browser!DevicePhases
  <2>6. QED
    BY <2>1, <2>3, <2>4, <2>5, VisitMoves
<1>6. CASE Browser!Trip(v) \/ Browser!BrowserCloses(v) \/ Browser!Environment(v)
  BY <1>6, EnvironmentMoves
<1>7. CASE Browser!Reap(v)
  BY <1>7, ReapMoves
<1>8. CASE Browser!Analyse(v)
  BY <1>8, AnalysisMoves
<1>9. CASE Browser!Measure(v)
  BY <1>9, MeasurementMoves
<1>10. QED
  BY <1>2, <1>3, <1>4, <1>5, <1>6, <1>7, <1>8, <1>9

LEMMA ChromiumHolds ==
  ASSUME MaxConcurrent = 1
  PROVE  Browser!AnalyzerSpec => []ChromiumInv
<1>1. Browser!AnalyzerInit => ChromiumInv
  <2> SUFFICES ASSUME Browser!AnalyzerInit PROVE ChromiumInv
    OBVIOUS
  <2>1. /\ visit \in [Visits -> VisitRows] /\ processes = {} /\ hit = {}
        /\ \A v \in Visits : /\ visit[v].phase = "new" /\ visit[v].answer = "none"
                              /\ visit[v].watchdog = "off" /\ ~visit[v].tripped
    BY ServicesAssumption DEF Browser!AnalyzerInit, VisitRows, Before
  <2>2. \A v \in Visits : VisitFits(visit[v])
    BY <2>1 DEF VisitFits
  <2>3. Browser!Holding = {}
    BY <2>1 DEF Browser!Holding, Browser!Phase, Browser!Analysing, Browser!UrlPhases, Browser!DevicePhases
  <2>4. QED
    BY <2>1, <2>2, <2>3 DEF ChromiumInv
<1>2. ChromiumInv /\ [Browser!AnalyzerNext]_(Browser!analyzerVars) => ChromiumInv'
  <2> SUFFICES ASSUME ChromiumInv, [Browser!AnalyzerNext]_(Browser!analyzerVars) PROVE ChromiumInv'
    OBVIOUS
  <2>1. CASE Browser!AnalyzerNext
    BY <2>1, ChromiumStep DEF Browser!AnalyzerNext
  <2>2. CASE UNCHANGED Browser!analyzerVars
    BY <2>2 DEF Browser!analyzerVars, ChromiumInv, Browser!Holding, Browser!Phase
  <2>3. QED
    BY <2>1, <2>2
<1>3. QED
  BY <1>1, <1>2, PTL DEF Browser!AnalyzerSpec

(* One place, and no watchdog without it: the watchdog of an analysis never *)
(* takes the browser of another one, and an analysis that its own watchdog  *)
(* ended is answered by a code the worker tries again, never by a crash     *)
(* (analyzer/app/browser.py).  One place is the default of the code.        *)
THEOREM WatchdogsKeepToThemselves ==
  ASSUME MaxConcurrent = 1
  PROVE  Browser!AnalyzerSpec => []Browser!AnalyzerIsSound
<1>1. ChromiumInv => Browser!AnalyzerIsSound
  BY DEF ChromiumInv, VisitFits, Browser!AnalyzerIsSound
<1>2. Browser!AnalyzerSpec => []ChromiumInv
  BY ChromiumHolds
<1>3. QED
  BY <1>1, <1>2, PTL

-----------------------------------------------------------------------------
(* The page of runs.                                                        *)

(* What a list says of a run that has ended for good is still true, and a   *)
(* list that was read later says it too.                                    *)
ForGood == {"succeeded", "cancelled"}
StillTrue(list, later) == \A r \in ListedRuns : list[r] \in ForGood => later[r] = list[r]
ListsKeepOrder ==
  /\ shown # NoList => StillTrue(shown, life)
  /\ \A m \in polls : m.list # NoList => StillTrue(m.list, life)
  /\ \A m \in polls : m.list # NoList /\ shown # NoList => StillTrue(shown, m.list)
ListInv == RunsList!RunsPageTypeOK /\ RunsList!PollingGoesOn /\ ListsKeepOrder

(* poll sends a request if none is out, and leaves the one that is.         *)
LEMMA PollSends ==
  ASSUME ListInv, RunsList!Poll
  PROVE  /\ polling' /\ polls' # {} /\ \A m, n \in polls' : m = n
         /\ polls' \subseteq [id : Polls, list : RunsList!Lists \cup {NoList}]
         /\ \A m \in polls' : m.list # NoList => m \in polls
<1> USE DEF ListInv, RunsList!RunsPageTypeOK, RunsList!PollingGoesOn
<1>1. CASE polling
  BY <1>1 DEF RunsList!Poll
<1>2. CASE ~polling
  <2>1. polling' /\ polls = {}
    BY <1>2 DEF RunsList!Poll
  <2>2. PICK p \in Polls : polls' = polls \cup {[id |-> p, list |-> NoList]}
    BY <1>2 DEF RunsList!Poll
  <2>3. polls' = {[id |-> p, list |-> NoList]}
    BY <2>1, <2>2
  <2>4. QED
    BY <2>1, <2>3
<1>3. QED
  BY <1>1, <1>2

(* Whoever polls: the page is looked after, and no list is out of order.    *)
LEMMA PollKeeps ==
  ASSUME ListInv, RunsList!Poll, UNCHANGED life, shown' \in {shown, NoList},
         pressed' \in [ListedRuns -> {"none", "retry", "cancel", "accepted", "refused"}],
         open' \in BOOLEAN, hidden' \in BOOLEAN, timer' \in {"none", "active", "idle"}
  PROVE  ListInv'
<1>1. RunsList!RunsPageTypeOK' /\ RunsList!PollingGoesOn'
  BY PollSends DEF ListInv, RunsList!RunsPageTypeOK, RunsList!PollingGoesOn, RunsList!Lists
<1>2. ListsKeepOrder'
  BY PollSends DEF ListInv, ListsKeepOrder, StillTrue
<1>3. QED
  BY <1>1, <1>2 DEF ListInv

(* A request ends: nothing else is out, and the next one is scheduled.      *)
LEMMA PollEnds ==
  ASSUME ListInv, NEW m \in polls, polls' = polls \ {m}, polling' = FALSE,
         NEW list \in RunsList!Lists \cup {NoList}, RunsList!Schedule(list), shown' = list,
         list # NoList => StillTrue(list, life),
         UNCHANGED <<life, open, hidden, pressed>>
  PROVE  ListInv'
<1>1. polls' = {}
  BY DEF ListInv, RunsList!PollingGoesOn
<1>2. QED
  BY <1>1 DEF ListInv, ListsKeepOrder, StillTrue, RunsList!RunsPageTypeOK, RunsList!PollingGoesOn,
     RunsList!Watching, RunsList!Schedule, RunsList!Lists

(* The server answers with what it reads at that moment.                    *)
LEMMA ListIsRead ==
  ASSUME ListInv, NEW m \in polls, RunsList!ListRuns(m)
  PROVE  ListInv'
<1> USE DEF ListInv, RunsList!RunsPageTypeOK, RunsList!PollingGoesOn, RunsList!ListRuns
<1>1. polls = {m} /\ polls' = {[m EXCEPT !.list = life]}
  OBVIOUS
<1>2. [m EXCEPT !.list = life] = [id |-> m.id, list |-> life]
  OBVIOUS
<1>3. RunsList!RunsPageTypeOK' /\ RunsList!PollingGoesOn'
  BY <1>1, <1>2 DEF RunsList!Watching, RunsList!Lists
<1>4. ListsKeepOrder'
  BY <1>1, <1>2 DEF ListsKeepOrder, StillTrue
<1>5. QED
  BY <1>3, <1>4

(* Only the runs move, as RunLife says.                                     *)
LEMMA RunsMove ==
  ASSUME ListInv, life' \in RunsList!Lists,
         \A r \in ListedRuns : life[r] \in ForGood => life'[r] = life[r],
         pressed' \in [ListedRuns -> {"none", "retry", "cancel", "accepted", "refused"}],
         UNCHANGED <<open, hidden, polling, polls, timer, shown>>
  PROVE  ListInv'
<1>1. ListsKeepOrder'
  BY DEF ListInv, ListsKeepOrder, StillTrue
<1>2. QED
  BY <1>1 DEF ListInv, RunsList!RunsPageTypeOK, RunsList!PollingGoesOn, RunsList!Watching, RunsList!Lists

LEMMA ListStep ==
  ASSUME ListInv, [RunsList!RunsPageNext]_RunsList!runsPageVars
  PROVE  ListInv'
<1> USE DEF ListInv, RunsList!RunsPageTypeOK, RunsList!Lists, RunsList!Statuses, RunsList!Server!Active,
        RunsList!Server!Ended, ForGood
<1> HIDE DEF ListInv
<1>1. CASE RunsList!OpenPage
  BY <1>1, PollKeeps DEF RunsList!OpenPage, ListInv
<1>2. CASE RunsList!LeavePage
  BY <1>2 DEF RunsList!LeavePage, ListInv, ListsKeepOrder, RunsList!PollingGoesOn, RunsList!Watching, RunsList!Idle
<1>3. CASE RunsList!Hide
  BY <1>3 DEF RunsList!Hide, ListInv, ListsKeepOrder, RunsList!PollingGoesOn, RunsList!Watching
<1>4. CASE RunsList!Show
  <2>1. CASE open
    BY <1>4, <2>1, PollKeeps DEF RunsList!Show, ListInv
  <2>2. CASE ~open
    BY <1>4, <2>2 DEF RunsList!Show, ListInv, ListsKeepOrder, RunsList!PollingGoesOn, RunsList!Watching
  <2>3. QED
    BY <2>1, <2>2
<1>5. CASE RunsList!TimerFires
  BY <1>5, PollKeeps DEF RunsList!TimerFires, ListInv
<1>6. ASSUME NEW m \in polls, RunsList!ListRuns(m)
      PROVE  ListInv'
  BY <1>6, ListIsRead
<1>7. ASSUME NEW m \in polls, RunsList!ListArrives(m)
      PROVE  ListInv'
  BY <1>7, PollEnds DEF RunsList!ListArrives, ListInv, ListsKeepOrder
<1>8. ASSUME NEW m \in polls, RunsList!ListFails(m)
      PROVE  ListInv'
  BY <1>8, PollEnds DEF RunsList!ListFails, ListInv, ListsKeepOrder
<1>9. ASSUME NEW r \in ListedRuns,
             RunsList!Press(r) \/ RunsList!CancelIsServed(r) \/ RunsList!RetryIsServed(r)
               \/ RunsList!ActionIsRefused(r)
      PROVE  ListInv'
  BY <1>9, RunsMove DEF RunsList!Press, RunsList!CancelIsServed, RunsList!RetryIsServed,
     RunsList!ActionIsRefused, ListInv
<1>10. ASSUME NEW r \in ListedRuns, RunsList!ActionReturns(r)
       PROVE  ListInv'
  <2>1. pressed' \in [ListedRuns -> {"none", "retry", "cancel", "accepted", "refused"}]
    BY <1>10 DEF RunsList!ActionReturns, ListInv
  <2>2. CASE pressed[r] = "accepted"
    BY <1>10, <2>1, <2>2, PollKeeps DEF RunsList!ActionReturns, ListInv
  <2>3. CASE pressed[r] # "accepted"
    BY <1>10, <2>1, <2>3, RunsMove DEF RunsList!ActionReturns, ListInv
  <2>4. QED
    BY <2>2, <2>3
<1>11. CASE RunsList!RunsLive
  BY <1>11, RunsMove DEF RunsList!RunsLive, RunsList!Server!Step, RunsList!Server!Moves, ListInv
<1>12. CASE UNCHANGED RunsList!runsPageVars
  BY <1>12, RunsMove DEF RunsList!runsPageVars, ListInv
<1>13. QED
  BY <1>1, <1>2, <1>3, <1>4, <1>5, <1>6, <1>7, <1>8, <1>9, <1>10, <1>11, <1>12 DEF RunsList!RunsPageNext

LEMMA ListStarts == RunsList!RunsPageInit => ListInv
BY DEF RunsList!RunsPageInit, RunsList!Server!Init, ListInv, RunsList!RunsPageTypeOK, RunsList!Lists,
   RunsList!Statuses, RunsList!PollingGoesOn, RunsList!Watching, ListsKeepOrder, RunsList!Idle

LEMMA ListsHold == RunsList!RunsPageSpec => []ListInv
  BY ListStarts, ListStep, PTL DEF RunsList!RunsPageSpec

(* PollingGoesOn: for any number of runs, a page somebody looks at always   *)
(* has a request out or a timer set, and never two requests.                *)
THEOREM PagesGoOnAsking == RunsList!RunsPageSpec => []RunsList!PollingGoesOn
<1>1. ListInv => RunsList!PollingGoesOn
  BY DEF ListInv
<1>2. QED
  BY <1>1, ListsHold, PTL

(* ShownIsFinal: for any number of runs, no answer makes the page take back *)
(* that a run has succeeded or was cancelled, whatever the workers, other   *)
(* users and lost answers do.                                               *)
THEOREM PagesTakeNothingBack == RunsList!RunsPageSpec => RunsList!ShownIsFinal
<1>1. ASSUME ListInv, [RunsList!RunsPageNext]_RunsList!runsPageVars
      PROVE  shown # NoList /\ shown' # NoList => StillTrue(shown, shown')
  <2>1. ASSUME NEW m \in polls, RunsList!ListArrives(m)
        PROVE  shown # NoList /\ shown' # NoList => StillTrue(shown, shown')
    BY <1>1, <2>1 DEF ListInv, ListsKeepOrder, RunsList!ListArrives
  <2>2. shown' \in {shown, NoList} \/ \E m \in polls : RunsList!ListArrives(m)
    BY <1>1 DEF RunsList!RunsPageNext, RunsList!runsPageVars, RunsList!OpenPage, RunsList!LeavePage,
       RunsList!Hide, RunsList!Show, RunsList!TimerFires, RunsList!ListRuns, RunsList!ListFails,
       RunsList!Press, RunsList!CancelIsServed, RunsList!RetryIsServed, RunsList!ActionIsRefused,
       RunsList!ActionReturns, RunsList!RunsLive
  <2>3. QED
    BY <2>1, <2>2 DEF StillTrue
<1>2. ListInv /\ [RunsList!RunsPageNext]_RunsList!runsPageVars
        => [shown # NoList /\ shown' # NoList =>
              \A r \in ListedRuns : shown[r] \in {"succeeded", "cancelled"} => shown'[r] = shown[r]]_RunsList!runsPageVars
  BY <1>1 DEF StillTrue, ForGood
<1>3. QED
  BY <1>2, ListStarts, ListStep, PTL DEF RunsList!RunsPageSpec, RunsList!ShownIsFinal
-----------------------------------------------------------------------------
(* The jobs as a whole: whichever component runs, every component does what *)
(* it does alone, or nothing.                                               *)
LEMMA JobsAreTheirParts ==
  JobsSpec => /\ Spec /\ HeatmapSpec /\ DesignSpec /\ RetentionSpec
              /\ Container!LauncherSpec /\ Browser!AnalyzerSpec /\ RunsList!RunsPageSpec
<1> USE DEF JobsNext, OnlyAnalysis, OnlyHeatmap, OnlyDesign, OnlyRetention, OnlyContainer,
            OnlyBrowser, OnlyRuns, jobsVars
<1>1. [JobsNext]_jobsVars => [Next]_vars
  OBVIOUS
<1>2. [JobsNext]_jobsVars => [HeatmapNext]_heatmapVars
  OBVIOUS
<1>3. [JobsNext]_jobsVars => [DesignNext]_designVars
  OBVIOUS
<1>4. [JobsNext]_jobsVars => [RetentionNext]_retentionVars
  OBVIOUS
<1>5. [JobsNext]_jobsVars => [Container!LauncherNext]_Container!launcherVars
  BY DEF launcherVars, Container!launcherVars
<1>6. [JobsNext]_jobsVars => [Browser!AnalyzerNext]_(Browser!analyzerVars)
  BY DEF analyzerVars, Browser!analyzerVars
<1>7. [JobsNext]_jobsVars => [RunsList!RunsPageNext]_RunsList!runsPageVars
  BY DEF runsPageVars, RunsList!runsPageVars
<1>8. JobsInit => /\ Init /\ HeatmapInit /\ DesignInit /\ RetentionInit
                  /\ Container!LauncherInit /\ Browser!AnalyzerInit /\ RunsList!RunsPageInit
  BY DEF JobsInit
<1>9. QED
  BY <1>1, <1>2, <1>3, <1>4, <1>5, <1>6, <1>7, <1>8, PTL
     DEF JobsSpec, Spec, HeatmapSpec, DesignSpec, RetentionSpec, Container!LauncherSpec,
         Browser!AnalyzerSpec, RunsList!RunsPageSpec

(* AttemptsStayApart: no attempt of an analysis or a heatmap inherits a     *)
(* delay or stores a result of an earlier one.                              *)
THEOREM JobsStayApart == JobsSpec => []AttemptsStayApart
<1>1. DelayOnlyBetweenAttempts /\ ResultOfLastAttempt => AttemptsStayApart
  BY DEF AttemptsStayApart
<1>2. QED
  BY <1>1, JobsAreTheirParts, DelaysEndWithAttempts, ResultsAreOfLastAttempt, PTL

(* ResultsStay: a finished heatmap stays as it is, no purge takes what a    *)
(* report shows, and no page of runs takes an outcome back.                 *)
THEOREM JobsResultsStay == JobsSpec => ResultsStay
  BY JobsAreTheirParts, FinishedJobsStay, ReportsAreIllustrated, PagesTakeNothingBack, PTL
     DEF ResultsStay

(* ServicesStaySound: the container fails closed, no watchdog hits another  *)
(* analysis when the browser service has one place, and a page of runs goes *)
(* on asking.                                                               *)
THEOREM JobsServicesSound ==
  ASSUME MaxConcurrent = 1
  PROVE  JobsSpec => []ServicesStaySound
<1>1. Container!ContainerFailsClosed /\ Browser!AnalyzerIsSound /\ RunsList!PollingGoesOn
        => ServicesStaySound
  BY DEF ServicesStaySound
<1>2. Browser!AnalyzerSpec => []Browser!AnalyzerIsSound
  BY WatchdogsKeepToThemselves
<1>3. QED
  BY <1>1, <1>2, JobsAreTheirParts, ContainersFailClosed, PagesGoOnAsking, PTL
(* A queued job has an attempt left, and the one image of a job fits.       *)
DesignTypes == DesignTypeOK /\ \A j \in Jobs : job[j].status = "queued" => job[j].attempts < DesignMaxAttempts

LEMMA DesignTypesKept ==
  ASSUME DesignTypes, OneImagePerJob', [DesignNext]_designVars
  PROVE  DesignTypes'
<1> DEFINE Rows == [status : {"none", "queued", "running", "deleted"} \cup Ended,
                    attempts : 0..DesignMaxAttempts, prompt : {"none", "kept", "expired"}]
           Calls == [job : Jobs, attempt : 1..DesignMaxAttempts,
                     phase : {"claimed", "generating", "recover"}]
           Kept == UNCHANGED <<source, images, sourceRead>>
<1>1. /\ job \in [Jobs -> Rows] /\ designCalls \subseteq Calls
      /\ requests \subseteq [job : Jobs, kind : {"cancel", "delete"}]
      /\ source \in {"absent", "usable", "expired", "purged", "deleted"}
      /\ images \in [Jobs -> 0..DesignMaxAttempts] /\ sourceRead \in [Jobs -> BOOLEAN]
      /\ \A j \in Jobs : job[j].status = "queued" => job[j].attempts < DesignMaxAttempts
  BY DEF DesignTypes, DesignTypeOK
<1>2. ASSUME NEW j \in Jobs, NEW row \in Rows, job' = [job EXCEPT ![j] = row],
             row.status = "queued" => row.attempts < DesignMaxAttempts
      PROVE  /\ job' \in [Jobs -> Rows]
             /\ \A k \in Jobs : job'[k].status = "queued" => job'[k].attempts < DesignMaxAttempts
  BY <1>1, <1>2
<1>3. ASSUME /\ job' \in [Jobs -> Rows]
             /\ \A k \in Jobs : job'[k].status = "queued" => job'[k].attempts < DesignMaxAttempts,
             designCalls' \subseteq Calls, sourceRead' \in [Jobs -> BOOLEAN],
             requests' \subseteq [job : Jobs, kind : {"cancel", "delete"}],
             UNCHANGED <<source, images>>
      PROVE  DesignTypes'
  BY <1>1, <1>3 DEF DesignTypes, DesignTypeOK
<1>4. ASSUME NEW j \in Jobs, NEW now \in {"none", "queued", "running", "deleted"} \cup Ended,
             job' = [job EXCEPT ![j].status = now],
             now = "queued" => job[j].attempts < DesignMaxAttempts
      PROVE  /\ job' \in [Jobs -> Rows]
             /\ \A k \in Jobs : job'[k].status = "queued" => job'[k].attempts < DesignMaxAttempts
  <2> DEFINE row == [job[j] EXCEPT !.status = now]
  <2>1. row \in Rows /\ row.status = now /\ row.attempts = job[j].attempts
    BY <1>1
  <2>2. job' = [job EXCEPT ![j] = row]
    BY <1>4
  <2> HIDE DEF row
  <2>3. QED
    BY <1>2, <1>4, <2>1, <2>2
<1>5. ASSUME NEW c \in designCalls, NEW phase \in {"claimed", "generating", "recover"}, MoveCall(c, phase)
      PROVE  designCalls' \subseteq Calls
  BY <1>1, <1>5 DEF MoveCall
<1>6. CASE UNCHANGED job /\ (UploadAsset \/ AssetExpires \/ PurgeAsset \/ DeleteAsset)
  BY <1>1, <1>6 DEF UploadAsset, AssetExpires, PurgeAsset, DeleteAsset, DesignTypes, DesignTypeOK
<1>7. ASSUME NEW j \in Jobs, CreateGenerationJob(j)
      PROVE  DesignTypes'
  <2> DEFINE row == [status |-> "queued", attempts |-> 0, prompt |-> "kept"]
  <2>1. row \in Rows /\ row.attempts < DesignMaxAttempts
    BY DesignAssumption
  <2>2. job' = [job EXCEPT ![j] = row] /\ UNCHANGED <<source, images, sourceRead, designCalls, requests>>
    BY <1>7 DEF CreateGenerationJob
  <2> HIDE DEF row
  <2>3. QED
    BY <1>1, <1>2, <1>3, <2>1, <2>2
<1>8. ASSUME NEW j \in Jobs, NEW kind \in {"cancel", "delete"}, BeginRequest(j, kind)
      PROVE  DesignTypes'
  BY <1>1, <1>3, <1>8 DEF BeginRequest
<1>9. ASSUME NEW j \in Jobs, ClaimDesign(j)
      PROVE  DesignTypes'
  <2> DEFINE row == [status |-> "running", attempts |-> job[j].attempts + 1, prompt |-> job[j].prompt]
             c == [job |-> j, attempt |-> job[j].attempts + 1, phase |-> "claimed"]
  <2>1. job[j].attempts + 1 \in 1..DesignMaxAttempts
    BY <1>1, <1>9, DesignAssumption DEF ClaimDesign
  <2>2. row \in Rows /\ row.status = "running" /\ c \in Calls
    BY <1>1, <2>1
  <2>3. job' = [job EXCEPT ![j] = row] /\ designCalls' = designCalls \cup {c}
        /\ UNCHANGED <<source, images, sourceRead, requests>>
    BY <1>9 DEF ClaimDesign
  <2> HIDE DEF row, c
  <2>4. QED
    BY <1>1, <1>2, <1>3, <2>2, <2>3
<1>10. ASSUME NEW j \in Jobs, ReapDesign(j)
       PROVE  DesignTypes'
  <2> DEFINE now == IF job[j].attempts < DesignMaxAttempts THEN "queued" ELSE "failed"
  <2>1. now \in {"none", "queued", "running", "deleted"} \cup Ended
        /\ (now = "queued" => job[j].attempts < DesignMaxAttempts)
    BY DEF Ended
  <2>2. job' = [job EXCEPT ![j].status = now] /\ UNCHANGED <<source, images, sourceRead, designCalls, requests>>
    BY <1>10 DEF ReapDesign
  <2> HIDE DEF now
  <2>3. QED
    BY <1>1, <1>3, <1>4, <2>1, <2>2
<1>11. ASSUME NEW j \in Jobs, PromptExpires(j) \/ PurgePrompt(j)
       PROVE  DesignTypes'
  <2>1. PICK prompt \in {"none", "expired"} : job' = [job EXCEPT ![j].prompt = prompt]
    BY <1>11 DEF PromptExpires, PurgePrompt
  <2> DEFINE row == [job[j] EXCEPT !.prompt = prompt]
  <2>2. row \in Rows /\ row.status = job[j].status /\ row.attempts = job[j].attempts
    BY <1>1
  <2>3. job' = [job EXCEPT ![j] = row] /\ UNCHANGED <<source, images, sourceRead, designCalls, requests>>
    BY <1>11, <2>1 DEF PromptExpires, PurgePrompt
  <2> HIDE DEF row
  <2>4. QED
    BY <1>1, <1>2, <1>3, <2>2, <2>3
<1>12. ASSUME NEW q \in requests, CommitRequest(q)
       PROVE  DesignTypes'
  <2>1. q.job \in Jobs /\ requests' \subseteq requests
        /\ UNCHANGED <<source, images, sourceRead, designCalls>>
    BY <1>1, <1>12 DEF CommitRequest
  <2>2. CASE Exists(q.job)
    <3> DEFINE now == IF q.kind = "cancel" THEN "cancelled" ELSE "deleted"
    <3>1. job' = [job EXCEPT ![q.job].status = now]
      BY <1>12, <2>2 DEF CommitRequest
    <3>2. now \in {"none", "queued", "running", "deleted"} \cup Ended /\ now # "queued"
      BY DEF Ended
    <3> HIDE DEF now
    <3>3. QED
      BY <1>1, <1>3, <1>4, <2>1, <3>1, <3>2
  <2>3. CASE ~Exists(q.job)
    BY <1>1, <1>3, <1>12, <2>1, <2>3 DEF CommitRequest
  <2>4. QED
    BY <2>2, <2>3
<1>13. ASSUME NEW c \in designCalls, StartGeneration(c)
       PROVE  DesignTypes'
  BY <1>1, <1>3, <1>5, <1>13 DEF StartGeneration, AssetUsable
<1>14. ASSUME NEW c \in designCalls, NEW outcome \in {"succeeded", "failed", "raised"},
              EndGeneration(c, outcome)
       PROVE  DesignTypes'
  <2>1. c.job \in Jobs /\ designCalls' \subseteq Calls /\ sourceRead' \in [Jobs -> BOOLEAN]
        /\ UNCHANGED <<source, requests>>
    BY <1>1, <1>5, <1>14 DEF EndGeneration
  <2>2. /\ job' \in [Jobs -> Rows]
        /\ \A k \in Jobs : job'[k].status = "queued" => job'[k].attempts < DesignMaxAttempts
    <3>1. CASE outcome = "raised"
      BY <1>1, <1>14, <3>1 DEF EndGeneration
    <3>2. CASE outcome # "raised"
      <4>1. outcome \in {"none", "queued", "running", "deleted"} \cup Ended /\ outcome # "queued"
        BY <3>2 DEF Ended
      <4>2. job' = [job EXCEPT ![c.job].status = outcome]
        BY <1>14, <3>2 DEF EndGeneration
      <4>3. QED
        BY <1>4, <2>1, <4>1, <4>2
    <3>3. QED
      BY <3>1, <3>2
  <2>3. images' \in [Jobs -> 0..DesignMaxAttempts]
    <3>1. CASE outcome = "succeeded"
      <4>1. images' = [images EXCEPT ![c.job] = @ + 1]
        BY <1>14, <3>1 DEF EndGeneration
      <4>2. images'[c.job] <= 1 /\ images'[c.job] = images[c.job] + 1
        BY <1>1, <2>1, <4>1 DEF OneImagePerJob
      <4>3. images[c.job] + 1 \in 0..DesignMaxAttempts
        BY <1>1, <2>1, <4>2, DesignAssumption
      <4>4. QED
        BY <1>1, <2>1, <4>1, <4>3
    <3>2. CASE outcome # "succeeded"
      BY <1>1, <1>14, <3>2 DEF EndGeneration
    <3>3. QED
      BY <3>1, <3>2
  <2>4. QED
    BY <1>1, <2>1, <2>2, <2>3 DEF DesignTypes, DesignTypeOK
<1>15. ASSUME NEW c \in designCalls, RecoverDesign(c)
       PROVE  DesignTypes'
  <2>1. c.job \in Jobs /\ designCalls' \subseteq Calls /\ UNCHANGED <<source, images, sourceRead, requests>>
        /\ job' = [job EXCEPT ![c.job].status = "failed"]
    BY <1>1, <1>15 DEF RecoverDesign
  <2>2. QED
    BY <1>1, <1>3, <1>4, <2>1 DEF Ended
<1>16. ASSUME NEW c \in designCalls, DropCall(c)
       PROVE  DesignTypes'
  BY <1>1, <1>3, <1>16 DEF DropCall
<1>17. CASE UNCHANGED designVars
  BY <1>17 DEF designVars, DesignTypes, DesignTypeOK
<1>18. QED
  BY <1>6, <1>7, <1>8, <1>9, <1>10, <1>11, <1>12, <1>13, <1>14, <1>15, <1>16, <1>17
     DEF DesignNext, UploadAsset, AssetExpires, PurgeAsset, DeleteAsset

(* JobsTypeOK, for the bounds of the model and one place in the browser     *)
(* service.                                                                 *)
THEOREM JobsTypeCorrect ==
  ASSUME MaxConcurrent = 1
  PROVE  JobsSpec => []JobsTypeOK
<1>1. DesignInit => DesignTypes
  BY DesignAssumption DEF DesignInit, DesignTypes, DesignTypeOK, NoDesign
<1>2. DesignTypes /\ OneImagePerJob' /\ [DesignNext]_designVars => DesignTypes'
  BY DesignTypesKept
<1>3. DesignSpec => []DesignTypes
  BY <1>1, <1>2, ImagesAreStoredOnce, PTL DEF DesignSpec
<1>4. ChromiumInv => Browser!AnalyzerTypeOK
  BY ServicesAssumption DEF ChromiumInv, VisitRows, VisitFits, Before, Browser!AnalyzerTypeOK, Browser!Phase
<1>5. Browser!AnalyzerSpec => []ChromiumInv
  BY ChromiumHolds
<1>6. /\ TypeOK /\ HeatmapInv /\ DesignTypes /\ RetentionInv /\ ContainerInv
      /\ Browser!AnalyzerTypeOK /\ ListInv
      => JobsTypeOK
  BY DEF HeatmapInv, DesignTypes, RetentionInv, ContainerInv, ListInv, JobsTypeOK
<1>7. QED
  BY <1>3, <1>4, <1>5, <1>6, JobsAreTheirParts, AnalysisTypeCorrect, HeatmapsHold, RetentionHolds,
     ContainersHold, ListsHold, PTL
=============================================================================
