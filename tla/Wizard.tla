------------------------------- MODULE Wizard -------------------------------
(* A draft of the test wizard, from its creation to its launch (routers/    *)
(* test_wizard.py, services/test_wizard.py).  Every request locks the       *)
(* draft's row; the design assets and the generation job it names are read  *)
(* without a lock and may vanish between any two reads.  A patch validates  *)
(* and commits in one step here, a launch in five.  The text fields count   *)
(* as filled in and URLs as valid.                                          *)
EXTENDS Naturals, Sequences

CONSTANT Callers     \* concurrent requests on the draft

VARIABLES
  asset,        \* the design assets: absent, usable or gone (deleted, expired, purged)
  generation,   \* the image generation job whose result is the asset "generated"
  draft,        \* the committed row: status and payload
  launching,    \* caller -> its launch transaction
  launches,     \* payloads of the committed launches (history)
  told,         \* launches whose runs some caller was shown (history)
  reported,     \* the project of the draft has a completed report
  removal       \* the request that removes the project, or "removed"

projectVars == <<reported, removal>>
wizardVars == <<asset, generation, draft, launching, launches, told, projectVars>>

Assets == {"upload", "generated"}
Slots == {"current", "new"}
None == "none"
Kinds == {"single", "ab", "accessibility"}
SourcesOf(slot) == {"url", "screenshot"} \cup (IF slot = "new" THEN {"ai_generated"} ELSE {})
Modules == {"network_device_test"}

(* job: new_ai_generation_id is set.                                        *)
NewPayload == [kind |-> "single", source |-> [s \in Slots |-> "url"],
               asset |-> [s \in Slots |-> None], cta |-> [s \in Slots |-> None],
               job |-> FALSE, modules |-> {}]
NoLaunch == [step |-> "idle", payload |-> NewPayload]

WizardInit ==
  /\ asset = [a \in Assets |-> "absent"]
  /\ generation = "running"
  /\ draft = [status |-> "none", payload |-> NewPayload]
  /\ launching = [c \in Callers |-> NoLaunch]
  /\ launches = <<>>
  /\ told = {}
  /\ reported = FALSE
  /\ removal = "idle"

Usable(a) == a \in Assets /\ asset[a] = "usable"

-----------------------------------------------------------------------------
(* What happens to assets and jobs meanwhile.                               *)

Upload ==
  /\ asset["upload"] = "absent"
  /\ asset' = [asset EXCEPT !["upload"] = "usable"]
  /\ UNCHANGED <<generation, draft, launching, launches, told, projectVars>>

GenerationEnds(succeeds) ==
  /\ generation = "running"
  /\ generation' = IF succeeds THEN "succeeded" ELSE "failed"
  /\ asset' = IF succeeds THEN [asset EXCEPT !["generated"] = "usable"] ELSE asset
  /\ UNCHANGED <<draft, launching, launches, told, projectVars>>

AssetGoes(a) ==
  /\ asset[a] = "usable"
  /\ asset' = [asset EXCEPT ![a] = "gone"]
  /\ UNCHANGED <<generation, draft, launching, launches, told, projectVars>>

DeleteJob ==
  /\ generation = "succeeded"
  /\ generation' = "deleted"
  /\ UNCHANGED <<asset, draft, launching, launches, told, projectVars>>

-----------------------------------------------------------------------------
(* Requests on the draft.  Another request of the row lock waits.           *)
RowIsFree == \A c \in Callers : launching[c].step = "idle"

CreateDraft ==
  /\ draft.status = "none"
  /\ draft' = [draft EXCEPT !.status = "draft"]
  /\ UNCHANGED <<asset, generation, launching, launches, told, projectVars>>

DeleteDraft ==
  /\ draft.status = "draft" /\ RowIsFree
  /\ draft' = [draft EXCEPT !.status = "deleted"]
  /\ UNCHANGED <<asset, generation, launching, launches, told, projectVars>>

(* An annotation belongs to the asset of its slot: it goes when the asset   *)
(* changes, unless the same patch brings one.  fields: those it brings.     *)
InvalidatedNever(p, q, fields) == q
Invalidated(p, q, fields) ==
  [q EXCEPT !.cta = [s \in Slots |->
     IF "cta" \notin fields /\ p.asset[s] # q.asset[s] THEN None ELSE q.cta[s]]]

(* The job succeeded, this is its result, and it is still usable.           *)
GenerationOwnsAny(p) == generation = "succeeded" /\ Usable(p.asset["new"])
GenerationOwns(p) == /\ generation = "succeeded"
                     /\ p.asset["new"] = "generated" /\ Usable("generated")

(* What a patch may leave: the inactive slots are checked as well.          *)
Acceptable(q) ==
  /\ ~(q.kind = "accessibility" /\ q.source["current"] = "screenshot")
  /\ \A s \in Slots : q.source[s] = "screenshot" /\ q.asset[s] # None => Usable(q.asset[s])
  /\ q.source["new"] = "ai_generated" /\ q.asset["new"] # None /\ q.job => GenerationOwns(q)

(* An explicit annotation must name the slot's asset of the merged draft.   *)
Annotates(p, s) == p.cta[s] # None => p.cta[s] = p.asset[s] /\ Usable(p.cta[s])

(* merge_payload and the checks, for a patch that turns p into q.           *)
PatchDraft(q, slot, fields) ==
  LET merged == Invalidated(draft.payload, q, fields) IN
  /\ draft.status = "draft" /\ RowIsFree
  /\ Acceptable(merged)
  /\ "cta" \in fields => Annotates(merged, slot)
  /\ draft' = [draft EXCEPT !.payload = merged]
  /\ UNCHANGED <<asset, generation, launching, launches, told, projectVars>>

Patch ==
  LET p == draft.payload IN
  \/ \E kind \in Kinds : PatchDraft([p EXCEPT !.kind = kind], "current", {})
  \/ \E m \in SUBSET Modules : PatchDraft([p EXCEPT !.modules = m], "current", {})
  \/ \E b \in BOOLEAN : PatchDraft([p EXCEPT !.job = b], "new", {})
  \/ \E s \in Slots :
       \/ \E source \in SourcesOf(s) : PatchDraft([p EXCEPT !.source[s] = source], s, {})
       \/ \E a \in Assets \cup {None} :
            \/ PatchDraft([p EXCEPT !.asset[s] = a], s, {"asset"})
            \/ PatchDraft([p EXCEPT !.cta[s] = a], s, {"cta"})
            \/ PatchDraft([p EXCEPT !.asset[s] = a, !.cta[s] = a], s, {"asset", "cta"})

-----------------------------------------------------------------------------
(* Launch.                                                                  *)

Sides(p) == IF p.kind = "ab" THEN Slots ELSE {"current"}
Missing(p) == \E s \in Sides(p) :
  \/ p.source[s] # "url" /\ p.asset[s] = None
  \/ p.source[s] = "ai_generated" /\ ~p.job

(* network_device_test measures live URLs only, on every side.              *)
ModulesFitCurrent(p) == "network_device_test" \in p.modules => p.source["current"] = "url"
ModulesFit(p) == "network_device_test" \in p.modules => \A s \in Sides(p) : p.source[s] = "url"

LaunchGoes(c, step) == launching' = [launching EXCEPT ![c].step = step]

BeginLaunch(c) ==
  LET p == draft.payload IN
  /\ launching[c].step = "idle" /\ RowIsFree
  /\ draft.status = "draft"
  /\ ~Missing(p) /\ ModulesFit(p)
  /\ launching' = [launching EXCEPT ![c] = [step |-> "sources", payload |-> p]]
  /\ UNCHANGED <<asset, generation, draft, launches, told, projectVars>>

(* A launched draft answers with its stored result and does nothing else.   *)
LaunchAgain ==
  /\ draft.status = "launched" /\ RowIsFree
  /\ told' = told \cup {1}
  /\ UNCHANGED <<asset, generation, draft, launching, launches, projectVars>>

RevalidateLaunchSources(c) ==
  LET p == launching[c].payload IN
  /\ launching[c].step = "sources"
  /\ \A s \in Sides(p) : p.source[s] # "url" => Usable(p.asset[s])
  /\ "new" \in Sides(p) /\ p.source["new"] = "ai_generated" => GenerationOwns(p)
  /\ LaunchGoes(c, "annotations")
  /\ UNCHANGED <<asset, generation, draft, launches, told, projectVars>>

(* A stale annotation is dropped with a warning.                            *)
CleanStaleAnnotations(c) ==
  LET cta == launching[c].payload.cta IN
  /\ launching[c].step = "annotations"
  /\ launching' = [launching EXCEPT ![c].step = "create",
       ![c].payload.cta = [s \in Slots |-> IF Usable(cta[s]) THEN cta[s] ELSE None]]
  /\ UNCHANGED <<asset, generation, draft, launches, told, projectVars>>

(* create_analysis of each variant tests its source a second time.          *)
CreateRuns(c) ==
  LET p == launching[c].payload IN
  /\ launching[c].step = "create"
  /\ \A s \in Sides(p) : p.source[s] # "url" => Usable(p.asset[s])
  /\ LaunchGoes(c, "commit")
  /\ UNCHANGED <<asset, generation, draft, launches, told, projectVars>>

CommitLaunch(c, answered) ==
  /\ launching[c].step = "commit"
  /\ draft' = [status |-> "launched", payload |-> launching[c].payload]
  /\ launches' = Append(launches, launching[c].payload)
  /\ told' = IF answered THEN told \cup {Len(launches')} ELSE told
  /\ launching' = [launching EXCEPT ![c] = NoLaunch]
  /\ UNCHANGED <<asset, generation, projectVars>>

(* A failed check, too few chips, a lost connection: nothing is written.    *)
AbandonLaunch(c) ==
  /\ launching[c].step # "idle"
  /\ launching' = [launching EXCEPT ![c] = NoLaunch]
  /\ UNCHANGED <<asset, generation, draft, launches, told, projectVars>>

-----------------------------------------------------------------------------
(* routers/projects.py.                                                     *)

(* A run of the launch ends: its report names the project.                  *)
CompleteReport ==
  /\ launches # <<>> /\ ~reported
  /\ reported' = TRUE
  /\ UNCHANGED <<asset, generation, draft, launching, launches, told, removal>>

(* delete_project reads, without a lock, the reports and then the drafts:   *)
(* what happens between these two reads is as if it came before both.       *)
DeleteProjectReads ==
  /\ removal = "idle" /\ ~reported
  /\ removal' = IF draft.status = "draft" THEN "drafts" ELSE "project"
  /\ UNCHANGED <<asset, generation, draft, launching, launches, told, reported>>

(* It deletes the drafts it has read, by their id: it waits for the lock of *)
(* a launch and does not look at the status again.                          *)
DeleteProjectCommits ==
  /\ removal \in {"drafts", "project"}
  /\ IF removal = "drafts"
     THEN RowIsFree /\ draft' = [draft EXCEPT !.status = "deleted"]
     ELSE UNCHANGED draft
  /\ removal' = "removed"
  /\ UNCHANGED <<asset, generation, launching, launches, told, reported>>

DeleteProjectFails ==
  /\ removal \notin {"idle", "removed"}
  /\ removal' = "idle"
  /\ UNCHANGED <<asset, generation, draft, launching, launches, told, reported>>

WizardNext ==
  \/ Upload \/ DeleteJob
  \/ \E succeeds \in BOOLEAN : GenerationEnds(succeeds)
  \/ \E a \in Assets : AssetGoes(a)
  \/ CreateDraft \/ DeleteDraft \/ Patch \/ LaunchAgain
  \/ \E c \in Callers :
       \/ BeginLaunch(c) \/ RevalidateLaunchSources(c) \/ CleanStaleAnnotations(c)
       \/ CreateRuns(c) \/ AbandonLaunch(c)
       \/ \E answered \in BOOLEAN : CommitLaunch(c, answered)
  \/ CompleteReport
  \/ DeleteProjectReads \/ DeleteProjectCommits \/ DeleteProjectFails

WizardSpec == WizardInit /\ [][WizardNext]_wizardVars

-----------------------------------------------------------------------------
Payloads == [kind : Kinds, source : [Slots -> {"url", "screenshot", "ai_generated"}],
             asset : [Slots -> Assets \cup {None}], cta : [Slots -> Assets \cup {None}],
             job : BOOLEAN, modules : SUBSET Modules]

(* Every variable has its type.                                             *)
WizardTypeOK ==
  /\ asset \in [Assets -> {"absent", "usable", "gone"}]
  /\ generation \in {"running", "succeeded", "failed", "deleted"}
  /\ draft.status \in {"none", "draft", "launched", "deleted"} /\ draft.payload \in Payloads
  /\ \A c \in Callers : launching[c].step \in {"idle", "sources", "annotations", "create", "commit"}
  /\ reported \in BOOLEAN
  /\ removal \in {"idle", "drafts", "project", "removed"}

(* A draft launches once, whoever presses the button how often and whatever *)
(* answer is lost: everybody is shown the same runs, and what was launched  *)
(* is what the draft still says.                                            *)
LaunchesOnce ==
  /\ draft.status = "launched" => launches = <<draft.payload>>
  /\ launches # <<>> => draft.status \in {"launched", "deleted"}
  /\ Len(launches) <= 1 /\ told \subseteq 1..Len(launches)

(* A confirmed call to action lies on the design that its slot shows, in    *)
(* the draft and in what was launched, however often the design changed.    *)
AnnotationsMatch ==
  \A s \in Slots : draft.payload.cta[s] \in {None, draft.payload.asset[s]}

(* Whatever the order of the patches, the launched payload is one that can  *)
(* be tested: a generated side is the result of its job, network tests have *)
(* URLs on all sides, accessibility tests no screenshot.                    *)
LaunchedIsTestable ==
  \A i \in DOMAIN launches :
    LET p == launches[i] IN
    /\ \A s \in Sides(p) :
         /\ p.source[s] = "ai_generated" => p.asset[s] = "generated"
         /\ "network_device_test" \in p.modules => p.source[s] = "url"
    /\ p.kind = "accessibility" => p.source["current"] = "url"

DraftIsSound == LaunchesOnce /\ AnnotationsMatch /\ LaunchedIsTestable

(* What delete_project says of itself: it only clears drafts that have not  *)
(* been launched.  Does not hold: the launch may commit before the DELETE.  *)
LaunchedDraftStays ==
  [][draft.status = "launched" => draft'.status = "launched"]_draft

(* And: a project with a completed report is never removed.  Does not hold: *)
(* the report may be committed after the look at the reports.               *)
ReportedProjectStays ==
  [][reported /\ removal # "removed" => removal' # "removed"]_projectVars

(* Does not hold: a side that was switched back to its URL keeps the asset, *)
(* and the snapshot of its run names both (the comment before               *)
(* input_snapshot says that a URL side has no design_asset_id).             *)
SnapshotNamesOneSource ==
  \A i \in DOMAIN launches : \A s \in Sides(launches[i]) :
    launches[i].source[s] = "url" => launches[i].asset[s] = None
=============================================================================
