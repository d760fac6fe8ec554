-------------------------- MODULE DesignGeneration --------------------------
(***************************************************************************)
(* The image generation jobs of backend/app/services/design_generation.py  *)
(* and the design assets they read and store (services/design_assets.py),  *)
(* with their routers.                                                     *)
(*                                                                         *)
(* A worker claims in one transaction and then, per job, holds the row     *)
(* lock while the provider draws; a second transaction fails a job still   *)
(* running.  A cancel or delete request reads the job without a lock and   *)
(* writes only what it changes: its two halves are two steps.              *)
(***************************************************************************)
EXTENDS Naturals

CONSTANTS
  Jobs,              \* design_generation_jobs rows
  DesignMaxAttempts  \* settings.design_generation_max_attempts

ASSUME DesignAssumption == DesignMaxAttempts \in Nat \ {0}

VARIABLES
  source,        \* the design asset the jobs start from: its status, data and age
  job,           \* DesignGenerationJob: status, attempt_count, prompt
  images,        \* design assets a job has stored
  sourceRead,    \* the source as a generating worker has read it
  designCalls,   \* _process_claimed_job calls that workers still have to make or finish
  requests       \* cancel and delete requests after their checks

designVars == <<source, job, images, sourceRead, designCalls, requests>>

Ended == {"succeeded", "failed", "cancelled"}
NoDesign == [status |-> "none", attempts |-> 0, prompt |-> "none"]

DesignTypeOK ==
  /\ source \in {"absent", "usable", "expired", "purged", "deleted"}
  /\ job \in [Jobs -> [status : {"none", "queued", "running", "deleted"} \cup Ended,
                       attempts : 0..DesignMaxAttempts, prompt : {"none", "kept", "expired"}]]
  /\ images \in [Jobs -> 0..DesignMaxAttempts]
  /\ sourceRead \in [Jobs -> BOOLEAN]
  /\ designCalls \subseteq [job : Jobs, attempt : 1..DesignMaxAttempts,
                            phase : {"claimed", "generating", "recover"}]
  /\ requests \subseteq [job : Jobs, kind : {"cancel", "delete"}]

DesignInit ==
  /\ source = "absent"
  /\ job = [j \in Jobs |-> NoDesign]
  /\ images = [j \in Jobs |-> 0]
  /\ sourceRead = [j \in Jobs |-> FALSE]
  /\ designCalls = {}
  /\ requests = {}

Exists(j) == job[j].status \notin {"none", "deleted"}
Locked(j) == \E c \in designCalls : c.job = j /\ c.phase = "generating"

-----------------------------------------------------------------------------
(* The asset.                                                               *)

(* upload_design_asset inserts a row only after the whole validation; a     *)
(* refused file leaves none.                                                *)
UploadAsset ==
  /\ source = "absent"
  /\ source' = "usable"
  /\ UNCHANGED <<job, images, sourceRead, designCalls, requests>>

(* ensure_asset_usable, and the same test in create and process.            *)
AssetUsable == source = "usable"

(* expires_at passes: unusable at once, whether purged or not.              *)
AssetExpires ==
  /\ source = "usable"
  /\ source' = "expired"
  /\ UNCHANGED <<job, images, sourceRead, designCalls, requests>>

(* purge_expired_design_assets.                                             *)
PurgeAsset ==
  /\ source = "expired"
  /\ source' = "purged"
  /\ UNCHANGED <<job, images, sourceRead, designCalls, requests>>

(* delete_asset asks only for ownership.                                    *)
DeleteAsset ==
  /\ source \in {"usable", "expired", "purged"}
  /\ source' = "deleted"
  /\ UNCHANGED <<job, images, sourceRead, designCalls, requests>>

-----------------------------------------------------------------------------
(* Requests.                                                                *)

(* create_generation_job, with its checks passed.                           *)
CreateGenerationJob(j) ==
  /\ job[j].status = "none"
  /\ AssetUsable
  /\ job' = [job EXCEPT ![j] = [status |-> "queued", attempts |-> 0, prompt |-> "kept"]]
  /\ UNCHANGED <<source, images, sourceRead, designCalls, requests>>

(* get_owned_job, and the status test of cancel_job.                        *)
BeginRequest(j, kind) ==
  /\ Exists(j)
  /\ kind = "cancel" => job[j].status = "queued"
  /\ requests' = requests \cup {[job |-> j, kind |-> kind]}
  /\ UNCHANGED <<source, job, images, sourceRead, designCalls>>

(* The UPDATE or DELETE waits for the row lock and does not test the status *)
(* again; it fails or does nothing when the row is gone.                    *)
CommitRequest(q) ==
  /\ q \in requests
  /\ ~Locked(q.job)
  /\ requests' = requests \ {q}
  /\ job' = IF ~Exists(q.job) THEN job
            ELSE [job EXCEPT ![q.job].status = IF q.kind = "cancel" THEN "cancelled" ELSE "deleted"]
  /\ UNCHANGED <<source, images, sourceRead, designCalls>>

-----------------------------------------------------------------------------
(* The queue cycle.                                                         *)

ClaimDesign(j) ==
  /\ job[j].status = "queued"
  /\ LET n == job[j].attempts + 1 IN
       /\ job' = [job EXCEPT ![j] = [status |-> "running", attempts |-> n, prompt |-> job[j].prompt]]
       /\ designCalls' = designCalls \cup {[job |-> j, attempt |-> n, phase |-> "claimed"]}
  /\ UNCHANGED <<source, images, sourceRead, requests>>

MoveCall(c, phase) == designCalls' = (designCalls \ {c}) \cup {[c EXCEPT !.phase = phase]}

(* Mutant: the status is not tested under the lock.                         *)
StartGenerationUnchecked(c) ==
  /\ c \in designCalls /\ c.phase = "claimed"
  /\ Exists(c.job)
  /\ ~Locked(c.job)
  /\ MoveCall(c, "generating")
  /\ sourceRead' = [sourceRead EXCEPT ![c.job] = AssetUsable]
  /\ UNCHANGED <<source, job, images, requests>>

(* The first session locks a running job and reads its source.  It holds    *)
(* the lock until it commits.                                               *)
StartGeneration(c) ==
  /\ c \in designCalls /\ c.phase = "claimed"
  /\ job[c.job].status = "running"
  /\ ~Locked(c.job)
  /\ MoveCall(c, "generating")
  /\ sourceRead' = [sourceRead EXCEPT ![c.job] = AssetUsable]
  /\ UNCHANGED <<source, job, images, requests>>

(* process_job up to the commit: without a usable source the provider is    *)
(* not asked; a provider error or an invalid image fails the job; else the  *)
(* image becomes an asset.  An unexpected exception changes nothing.        *)
EndGeneration(c, outcome) ==
  /\ c \in designCalls /\ c.phase = "generating"
  /\ outcome = "succeeded" => sourceRead[c.job]
  /\ MoveCall(c, "recover")
  /\ job' = IF outcome = "raised" THEN job ELSE [job EXCEPT ![c.job].status = outcome]
  /\ images' = IF outcome = "succeeded" THEN [images EXCEPT ![c.job] = @ + 1] ELSE images
  /\ sourceRead' = [sourceRead EXCEPT ![c.job] = FALSE]
  /\ UNCHANGED <<source, requests>>

(* The second session: a job that is running, perhaps for another worker.   *)
RecoverDesign(c) ==
  /\ c \in designCalls /\ c.phase = "recover"
  /\ job[c.job].status = "running"
  /\ ~Locked(c.job)
  /\ job' = [job EXCEPT ![c.job].status = "failed"]
  /\ designCalls' = designCalls \ {c}
  /\ UNCHANGED <<source, images, sourceRead, requests>>

(* A session finds the job no longer running, or the worker dies, which     *)
(* frees the lock.                                                          *)
DropCall(c) ==
  /\ designCalls' = designCalls \ {c}
  /\ sourceRead' = IF c.phase = "generating" THEN [sourceRead EXCEPT ![c.job] = FALSE] ELSE sourceRead
  /\ UNCHANGED <<source, job, images, requests>>

(* reap_stale_running, SKIP LOCKED.                                         *)
ReapDesign(j) ==
  /\ job[j].status = "running"
  /\ ~Locked(j)
  /\ job' = [job EXCEPT ![j].status = IF job[j].attempts < DesignMaxAttempts THEN "queued" ELSE "failed"]
  /\ UNCHANGED <<source, images, sourceRead, designCalls, requests>>

(* expires_at of the job passes, and purge_expired_jobs clears the prompt   *)
(* whatever the status: a queued job is then drawn with an empty one.       *)
PromptExpires(j) ==
  /\ Exists(j) /\ job[j].prompt = "kept"
  /\ job' = [job EXCEPT ![j].prompt = "expired"]
  /\ UNCHANGED <<source, images, sourceRead, designCalls, requests>>

PurgePrompt(j) ==
  /\ Exists(j) /\ job[j].prompt = "expired"
  /\ ~Locked(j)
  /\ job' = [job EXCEPT ![j].prompt = "none"]
  /\ UNCHANGED <<source, images, sourceRead, designCalls, requests>>

-----------------------------------------------------------------------------
(* For the fairness of a provider that answers, or a worker that dies.      *)
EndDrawing(j) ==
  \E c \in designCalls :
    /\ c.job = j /\ c.phase = "generating"
    /\ DropCall(c) \/ \E outcome \in {"succeeded", "failed", "raised"} : EndGeneration(c, outcome)

DesignNext ==
  \/ UploadAsset \/ AssetExpires \/ PurgeAsset \/ DeleteAsset
  \/ \E j \in Jobs :
       \/ CreateGenerationJob(j)
       \/ \E kind \in {"cancel", "delete"} : BeginRequest(j, kind)
       \/ ClaimDesign(j)
       \/ ReapDesign(j)
       \/ PromptExpires(j)
       \/ PurgePrompt(j)
  \/ \E q \in requests : CommitRequest(q)
  \/ \E c \in designCalls :
       \/ StartGeneration(c)
       \/ \E outcome \in {"succeeded", "failed", "raised"} : EndGeneration(c, outcome)
       \/ RecoverDesign(c)
       \/ DropCall(c)

DesignSpec == DesignInit /\ [][DesignNext]_designVars

-----------------------------------------------------------------------------
(* A job stores at most one image, whatever is reaped and claimed again and *)
(* whatever the overlapping requests write, and one that did is not         *)
(* reported as a failure: a late second session or the reaper does not      *)
(* touch it.  A cancel request that saw it queued may                       *)
(* (CancelledIsUnfinished).                                                 *)
OneImagePerJob ==
  \A j \in Jobs : images[j] <= 1 /\ (images[j] = 1 => job[j].status \notin {"queued", "running", "failed"})

(* What the comment on cancel_job promises: only a job whose processing had *)
(* not begun is cancelled.  The request tests an unlocked copy.             *)
CancelledIsUnfinished == \A j \in Jobs : job[j].status = "cancelled" => images[j] = 0
=============================================================================
