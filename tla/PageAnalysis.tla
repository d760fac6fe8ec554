---------------------------- MODULE PageAnalysis ----------------------------
(***************************************************************************)
(* The analysis jobs of backend/app/services/page_analysis.py: the queue   *)
(* cycle, the reaper, and the restart by retry_run of simulation_worker.py.*)
(*                                                                         *)
(* A worker claims a batch in one transaction and then processes each job  *)
(* in a transaction that keeps the row locked while the analyzer answers,  *)
(* followed by a second one that fails a job still running.  Claims, reaps *)
(* and restarts exclude the processing transaction by that row lock, so    *)
(* each transaction is one step; workers interleave between them.          *)
(* ScreenshotRetention has what happens to the screenshot afterwards.       *)
(***************************************************************************)
EXTENDS Naturals, FiniteSets

CONSTANTS
  Analyses,      \* page_analyses rows
  UrlAnalyses,   \* those with a URL source: the others use a design asset
  MaxAttempts,   \* settings.page_analysis_max_attempts
  MaxRestarts    \* bound: manual retries that restart an analysis

ASSUME UrlAssumption == UrlAnalyses \subseteq Analyses
ASSUME AttemptAssumption == MaxAttempts \in Nat \ {0} /\ MaxRestarts \in Nat

VARIABLES
  status,    \* PageAnalysis.status, "none" before create_analysis
  attempts,  \* PageAnalysis.attempt_count
  fatal,     \* error_code is one that makes the simulation run not retryable
  delayed,   \* next_attempt_at lies in the future
  restarts,  \* restarts so far
  calls      \* _process_claimed_analysis calls a worker still has to make

vars == <<status, attempts, fatal, delayed, restarts, calls>>

(* No job gets more than MaxAttempts attempts between two manual restarts,  *)
(* although the analyzer failure path and the reaper count independently.   *)
TypeOK ==
  /\ status \in [Analyses -> {"none", "queued", "running", "succeeded", "failed"}]
  /\ attempts \in [Analyses -> 0..MaxAttempts]
  /\ fatal \in [Analyses -> BOOLEAN]
  /\ delayed \in [Analyses -> BOOLEAN]
  /\ restarts \in [Analyses -> 0..MaxRestarts]
  /\ calls \subseteq [job : Analyses, phase : {"process", "recover"}]

Init ==
  /\ status = [a \in Analyses |-> "none"]
  /\ attempts = [a \in Analyses |-> 0]
  /\ fatal = [a \in Analyses |-> FALSE]
  /\ delayed = [a \in Analyses |-> FALSE]
  /\ restarts = [a \in Analyses |-> 0]
  /\ calls = {}

-----------------------------------------------------------------------------
CreateAnalysis(a) ==
  /\ status[a] = "none"
  /\ status' = [status EXCEPT ![a] = "queued"]
  /\ UNCHANGED <<attempts, fatal, delayed, restarts, calls>>

(* claim_next_queued: due jobs, SKIP LOCKED.                                *)
Due == {a \in Analyses : status[a] = "queued" /\ ~delayed[a]}

ClaimNextQueued(S) ==
  /\ S # {}
  /\ status' = [a \in Analyses |-> IF a \in S THEN "running" ELSE status[a]]
  /\ attempts' = [a \in Analyses |-> IF a \in S THEN attempts[a] + 1 ELSE attempts[a]]
  /\ fatal' = [a \in Analyses |-> a \notin S /\ fatal[a]]
  /\ calls' = calls \cup [job : S, phase : {"process"}]
  /\ UNCHANGED <<delayed, restarts>>

(* The processing transaction found the job running and committed: the     *)
(* worker goes on to its second session.                                    *)
Processed(a) ==
  /\ [job |-> a, phase |-> "process"] \in calls
  /\ status[a] = "running"
  /\ calls' = (calls \ {[job |-> a, phase |-> "process"]}) \cup {[job |-> a, phase |-> "recover"]}
  /\ UNCHANGED <<attempts, restarts>>

Succeed(a) ==
  /\ Processed(a)
  /\ status' = [status EXCEPT ![a] = "succeeded"]
  /\ UNCHANGED <<fatal, delayed>>

(* A terminal analyzer rejection (with a code), an invalid screenshot, or   *)
(* an unusable design asset (without).                                      *)
FailForGood(a, isFatal) ==
  /\ Processed(a)
  /\ isFatal => a \in UrlAnalyses
  /\ status' = [status EXCEPT ![a] = "failed"]
  /\ fatal' = [fatal EXCEPT ![a] = isFatal]
  /\ UNCHANGED delayed

(* Mutant: one attempt too many.                                            *)
AttemptsRemainInclusive(a) == attempts[a] <= MaxAttempts

AttemptsRemain(a) == attempts[a] < MaxAttempts

(* Mutant: the delay outlives the last attempt.                             *)
FailTransientlyKeepingDelay(a) ==
  /\ Processed(a)
  /\ a \in UrlAnalyses
  /\ status' = [status EXCEPT ![a] = IF AttemptsRemain(a) THEN "queued" ELSE "failed"]
  /\ delayed' = [delayed EXCEPT ![a] = TRUE]
  /\ UNCHANGED fatal

(* _record_analyzer_failure for a timeout, 408, 429 or 5xx: queued again    *)
(* with a delay while attempts remain.                                      *)
FailTransiently(a) ==
  /\ Processed(a)
  /\ a \in UrlAnalyses
  /\ status' = [status EXCEPT ![a] = IF AttemptsRemain(a) THEN "queued" ELSE "failed"]
  /\ delayed' = [delayed EXCEPT ![a] = AttemptsRemain(a)]
  /\ UNCHANGED fatal

(* An unexpected exception rolls the processing transaction back.           *)
Raise(a) == Processed(a) /\ UNCHANGED <<status, fatal, delayed>>

(* Mutant: the second session does not read the status.                     *)
RecoverUnchecked(a) ==
  /\ [job |-> a, phase |-> "recover"] \in calls
  /\ status' = [status EXCEPT ![a] = "failed"]
  /\ calls' = calls \ {[job |-> a, phase |-> "recover"]}
  /\ UNCHANGED <<attempts, fatal, delayed, restarts>>

(* The second session of _process_claimed_analysis.                         *)
Recover(a) ==
  /\ [job |-> a, phase |-> "recover"] \in calls
  /\ status[a] = "running"
  /\ status' = [status EXCEPT ![a] = "failed"]
  /\ calls' = calls \ {[job |-> a, phase |-> "recover"]}
  /\ UNCHANGED <<attempts, fatal, delayed, restarts>>

(* A session that finds the job no longer running returns; a worker that    *)
(* dies never makes the call.                                               *)
EndCall(c) ==
  /\ calls' = calls \ {c}
  /\ UNCHANGED <<status, attempts, fatal, delayed, restarts>>

(* reap_stale_running: jobs whose last update is old.                       *)
ReapStaleRunning(S) ==
  /\ S # {}
  /\ \A a \in S : status[a] = "running"
  /\ status' = [a \in Analyses |->
                  IF a \notin S THEN status[a]
                  ELSE IF AttemptsRemain(a) THEN "queued" ELSE "failed"]
  /\ delayed' = [a \in Analyses |-> a \notin S /\ delayed[a]]
  /\ UNCHANGED <<attempts, fatal, restarts, calls>>

(* retry_run restarts the failed URL analysis of a retryable run.  It       *)
(* leaves next_attempt_at as it is.                                         *)
Restart(a) ==
  /\ status[a] = "failed"
  /\ a \in UrlAnalyses
  /\ ~fatal[a]
  /\ restarts[a] < MaxRestarts
  /\ status' = [status EXCEPT ![a] = "queued"]
  /\ attempts' = [attempts EXCEPT ![a] = 0]
  /\ restarts' = [restarts EXCEPT ![a] = @ + 1]
  /\ UNCHANGED <<fatal, delayed, calls>>

DelayPasses(a) ==
  /\ delayed[a]
  /\ delayed' = [delayed EXCEPT ![a] = FALSE]
  /\ UNCHANGED <<status, attempts, fatal, restarts, calls>>

Process(a) ==
  \/ Succeed(a)
  \/ \E isFatal \in BOOLEAN : FailForGood(a, isFatal)
  \/ FailTransiently(a)
  \/ Raise(a)

Next ==
  \/ \E a \in Analyses :
       CreateAnalysis(a) \/ Process(a) \/ Recover(a) \/ Restart(a) \/ DelayPasses(a)
  \/ \E S \in SUBSET Due : ClaimNextQueued(S)
  \/ \E S \in SUBSET Analyses : ReapStaleRunning(S)
  \/ \E c \in calls : EndCall(c)

Spec == Init /\ [][Next]_vars

(* The crons keep claiming and reaping, and time passes.  Nothing is        *)
(* assumed of the processing itself: every worker may die.                  *)
Fairness ==
  \A a \in Analyses :
    /\ WF_vars(DelayPasses(a))
    /\ WF_vars(\E S \in SUBSET Due : a \in S /\ ClaimNextQueued(S))
    /\ WF_vars(ReapStaleRunning({a}))

FairSpec == Spec /\ Fairness

-----------------------------------------------------------------------------
(* A retry delay exists only for a job that waits for its next attempt: the *)
(* restart, which does not clear next_attempt_at, finds none to inherit.    *)
DelayOnlyBetweenAttempts ==
  \A a \in Analyses : delayed[a] => status[a] = "queued" /\ attempts[a] \in 1..MaxAttempts - 1

(* How a run sees its analysis.                                             *)
OutcomeSeen ==
  [a \in Analyses |->
     IF status[a] \in {"queued", "running"} THEN "pending"
     ELSE IF status[a] = "failed" /\ fatal[a] THEN "rejected" ELSE status[a]]
=============================================================================
