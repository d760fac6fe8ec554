----------------------------- MODULE AIReportTab -----------------------------
(***************************************************************************)
(* What a user sees of the AI report: the page of a base report asks once  *)
(* for the pipeline of its run (ReportDetail.tsx), its AI tab polls the    *)
(* status and fetches the report (AiReportTab.tsx).  Both requests are     *)
(* answered by services/ai_pipeline/queries.py, which reads the pipeline   *)
(* and then, in a second statement of the same READ COMMITTED transaction, *)
(* its stages.                                                             *)
(*                                                                         *)
(* An answer takes effect with its last read: what happens on its way back *)
(* might as well happen afterwards.  An answer to a tab that was closed is *)
(* dropped (cancelled), so the page has one status request and one report  *)
(* request at most.  The organization's own run is asked for, and stored   *)
(* outputs can be decoded.                                                 *)
(***************************************************************************)
EXTENDS AIPipelineGroup

VARIABLES
  viewed,   \* the pipeline of the run whose report page this is
  page,     \* ReportDetail: closed, or what its one look at the pipeline gave
  initial,  \* the response it was given
  tab,      \* AiReportTab
  call,     \* the status request under way: "none", sent, or the status it has read
  fetch     \* the report request under way

readerVars == <<viewed, page, initial, tab, call, fetch>>
tabVars == <<vars, readerVars>>

(* What a status response says; "none" is no response.                      *)
Response == [status : PipelineStatuses, done : Nat, expected : Nat]
Unknown == [status |-> "none", done |-> 0, expected |-> 5]
Tab == [open : BOOLEAN, missing : BOOLEAN, failed : BOOLEAN, shown : Response,
        report : {"idle", "loading", "not_ready", "error", "shown"}]
Closed == [open |-> FALSE, missing |-> FALSE, failed |-> FALSE, shown |-> Unknown, report |-> "idle"]

TabTypeOK ==
  /\ viewed \in Pipelines
  /\ page \in {"closed", "loading", "absent", "error", "known"}
  /\ initial \in Response
  /\ tab \in Tab
  /\ call \in PipelineStatuses \cup {"sent"}
  /\ fetch \in {"none", "sent", "succeeded"}

ReaderInit ==
  /\ viewed \in Pipelines
  /\ page = "closed"
  /\ initial = Unknown
  /\ tab = Closed
  /\ call = "none"
  /\ fetch = "none"

TabInit == Init /\ ReaderInit

(* Mutant: every end announces a report.                                    *)
AnnouncedAtEnd(response) == response.status \in TerminalPipeline

(* report_available, and the condition of the effect that fetches.          *)
Announced(response) == response.status = "succeeded"

(* compute_progress_percent.                                                *)
Rounded(done, expected) == (done * 100 + expected \div 2) \div expected
Percent(response) ==
  IF response.status = "succeeded" \/ Rounded(response.done, response.expected) > 100 THEN 100
  ELSE Rounded(response.done, response.expected)

-----------------------------------------------------------------------------
(* The page and the tab.                                                    *)
OpenPage ==
  /\ page = "closed"
  /\ page' = "loading"
  /\ call' = "sent"
  /\ UNCHANGED <<viewed, initial, tab, fetch>>

LeavePage ==
  /\ page # "closed"
  /\ page' = "closed"
  /\ initial' = Unknown
  /\ tab' = Closed /\ call' = "none" /\ fetch' = "none"
  /\ UNCHANGED viewed

(* The tab starts from the page's look, however old that is.                *)
OpenTab ==
  /\ ~tab.open
  /\ page \in {"absent", "error", "known"}
  /\ tab' = [open |-> TRUE, missing |-> page = "absent", failed |-> page # "known",
             shown |-> initial, report |-> IF Announced(initial) THEN "loading" ELSE "idle"]
  /\ fetch' = IF Announced(initial) THEN "sent" ELSE "none"
  /\ UNCHANGED <<viewed, page, initial, call>>

CloseTab ==
  /\ tab.open
  /\ tab' = Closed /\ call' = "none" /\ fetch' = "none"
  /\ UNCHANGED <<viewed, page, initial>>

(* The next poll is planned when the last one was answered, and none after  *)
(* an error or a terminal status.                                           *)
Poll ==
  /\ tab.open
  /\ ~tab.failed
  /\ tab.shown.status \notin TerminalPipeline
  /\ call = "none"
  /\ call' = "sent"
  /\ UNCHANGED <<viewed, page, initial, tab, fetch>>

(* The buttons of the tab: retryStatus while nothing is known, retryReport  *)
(* while the report did not come.  A poll that fails after a status was     *)
(* shown leaves neither.                                                    *)
AskAgain ==
  /\ tab.open
  /\ \/ tab.missing
     \/ tab.failed /\ tab.shown.status = "none"
     \/ Announced(tab.shown) /\ tab.report \in {"not_ready", "error"}
  /\ tab' = [Closed EXCEPT !.open = TRUE]
  /\ UNCHANGED <<viewed, page, initial, call, fetch>>

-----------------------------------------------------------------------------
(* get_ai_pipeline_status.                                                  *)
StatusArrives(response) ==
  /\ call' = "none"
  /\ IF page = "loading"
     THEN page' = "known" /\ initial' = response /\ UNCHANGED <<viewed, tab, fetch>>
     ELSE /\ tab' = [tab EXCEPT !.failed = FALSE, !.shown = response,
                       !.report = IF Announced(response) THEN "loading" ELSE tab.report]
          /\ fetch' = IF Announced(response) THEN "sent" ELSE fetch
          /\ UNCHANGED <<viewed, page, initial>>

StatusFails(code) ==
  /\ call' = "none"
  /\ IF page = "loading"
     THEN page' = (IF code = 404 THEN "absent" ELSE "error") /\ UNCHANGED tab
     ELSE tab' = [tab EXCEPT !.failed = TRUE] /\ UNCHANGED page
  /\ UNCHANGED <<viewed, initial, fetch>>

StatusReadsPipeline ==
  /\ call = "sent"
  /\ IF pipelines[viewed].status = "none" THEN StatusFails(404)
     ELSE call' = pipelines[viewed].status /\ UNCHANGED <<viewed, page, initial, tab, fetch>>

Done(p) == {k \in Kinds : stages[p][k].status = "succeeded"}

(* _get_validated_final_report.                                             *)
ReportStored(p) == stages[p]["uxreport"].status = "succeeded" /\ stages[p]["uxreport"].output

(* _behavior_batch_count.  Personas without a manifest give the same number *)
(* of batches; with neither, a pipeline that has failed is counted by its   *)
(* rows.                                                                    *)
BatchCount(p, personas) ==
  IF stages[p]["batching"].status = "succeeded" \/ personas THEN Cardinality(Batches)
  ELSE Cardinality({k \in Batches : stages[p][k].status # "absent"})
NotIntact(p, personas) ==
  \/ call = "succeeded" /\ ~ReportStored(p)
  \/ call \notin {"failed", "cancelled"} /\ stages[p]["batching"].status # "succeeded" /\ ~personas

StatusReadsStages(personas) ==
  /\ call \notin {"none", "sent"}
  /\ eligible => personas
  /\ IF NotIntact(viewed, personas) THEN StatusFails(500)
     ELSE StatusArrives([status |-> call, done |-> Cardinality(Done(viewed)),
                         expected |-> 5 + BatchCount(viewed, personas)])

(* A request is lost, or the server has another error.                      *)
StatusLost == call # "none" /\ StatusFails(0)

-----------------------------------------------------------------------------
(* get_ai_pipeline_report.                                                  *)
ReportEnds(result) ==
  /\ fetch' = "none"
  /\ tab' = [tab EXCEPT !.report = result]
  /\ UNCHANGED <<viewed, page, initial, call>>

(* Not ready and not available are both a 409 for the tab.                  *)
ReportReadsPipeline ==
  /\ fetch = "sent"
  /\ CASE pipelines[viewed].status = "none" -> ReportEnds("error")
       [] pipelines[viewed].status = "succeeded" ->
            fetch' = "succeeded" /\ UNCHANGED <<viewed, page, initial, tab, call>>
       [] pipelines[viewed].status \in Runnable \cup {"failed", "cancelled"} -> ReportEnds("not_ready")

ReportReadsStages ==
  /\ fetch = "succeeded"
  /\ ReportEnds(IF ReportStored(viewed) THEN "shown" ELSE "error")

ReportLost == fetch # "none" /\ ReportEnds("error")

Reader ==
  \/ OpenPage
  \/ LeavePage
  \/ OpenTab
  \/ CloseTab
  \/ Poll
  \/ AskAgain
  \/ StatusReadsPipeline
  \/ \E personas \in BOOLEAN : StatusReadsStages(personas)
  \/ StatusLost
  \/ ReportReadsPipeline
  \/ ReportReadsStages
  \/ ReportLost

TabNext ==
  \/ Next /\ UNCHANGED readerVars
  \/ Reader /\ UNCHANGED vars

TabSpec == TabInit /\ [][TabNext]_tabVars

-----------------------------------------------------------------------------
(* A report that a status has announced is there whenever it is fetched,    *)
(* and a request that has read a succeeded pipeline finds its report in the *)
(* stages it reads later, whatever workers, retries and settlements do      *)
(* between the two statements: as long as nobody cancels, neither a 409 nor *)
(* an integrity error can come (_get_validated_final_report).               *)
ReportsAreWhole ==
  cancels = 0 =>
    /\ (call = "succeeded" \/ fetch = "succeeded") => ReportStored(viewed)
    /\ Announced(tab.shown) => (tab.report # "not_ready" /\ ReportStored(viewed))

(* The progress that an open tab shows never goes back from one poll to the *)
(* next, also over a manual retry, as long as nobody cancels                *)
(* (compute_progress_percent).                                              *)
NeverDrops ==
  (cancels' = 0 /\ tab.shown.status # "none" /\ tab'.shown.status # "none")
    => Percent(tab.shown) <= Percent(tab'.shown)
ProgressNeverDrops == [][NeverDrops]_tabVars
=============================================================================
