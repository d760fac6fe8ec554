------------------------- MODULE ScreenshotRetention -------------------------
(***************************************************************************)
(* purge_expired_screenshots of backend/app/services/page_analysis.py: the *)
(* cron reads the captures whose short retention has passed, then the      *)
(* reports linked to them, and clears in the same transaction those that   *)
(* no report protects.  Simulation runs commit reports meanwhile.          *)
(***************************************************************************)
CONSTANT Captures    \* page_analyses with a screenshot

VARIABLES
  screenshot,  \* screenshot_data with screenshot_expires_at: none, fresh, expired or purged
  report,      \* the earliest Report of the capture's runs: none, or its retention window;
               \* "late" is inside it, and committed after a purge under way has read
  purge,       \* where the purge session is: idle, or what it has read last
  candidates,  \* its first SELECT
  protected    \* its second SELECT

retentionVars == <<screenshot, report, purge, candidates, protected>>

InWindow(a) == report[a] \in {"inside", "late"}

RetentionTypeOK ==
  /\ screenshot \in [Captures -> {"none", "fresh", "expired", "purged"}]
  /\ report \in [Captures -> {"none", "inside", "late", "outside"}]
  /\ candidates \subseteq Captures
  /\ purge \in {"idle", "candidates", "reports"}
  /\ protected \subseteq candidates

RetentionInit ==
  /\ screenshot = [a \in Captures |-> "none"]
  /\ report = [a \in Captures |-> "none"]
  /\ purge = "idle"
  /\ candidates = {}
  /\ protected = {}

(* process_analysis stores the screenshot with its expiry.                  *)
Capture(a) ==
  /\ screenshot[a] = "none"
  /\ screenshot' = [screenshot EXCEPT ![a] = "fresh"]
  /\ UNCHANGED <<report, purge, candidates, protected>>

TtlPasses(a) ==
  /\ screenshot[a] = "fresh"
  /\ screenshot' = [screenshot EXCEPT ![a] = "expired"]
  /\ UNCHANGED <<report, purge, candidates, protected>>

(* process_run commits the report of a run that uses the capture.           *)
CommitReport(a) ==
  /\ screenshot[a] # "none"
  /\ report[a] = "none"
  /\ report' = [report EXCEPT ![a] = IF purge = "reports" THEN "late" ELSE "inside"]
  /\ UNCHANGED <<screenshot, purge, candidates, protected>>

(* report_linked_screenshot_retention_seconds after the report.  It is      *)
(* longer than the short retention, which a capture starts before a report. *)
WindowPasses(a) ==
  /\ InWindow(a)
  /\ screenshot[a] # "fresh"
  /\ report' = [report EXCEPT ![a] = "outside"]
  /\ UNCHANGED <<screenshot, purge, candidates, protected>>

PurgeReadCandidates ==
  /\ purge = "idle"
  /\ purge' = "candidates"
  /\ candidates' = {a \in Captures : screenshot[a] = "expired"}
  /\ UNCHANGED <<screenshot, report, protected>>

(* Mutant: reports are not looked at.                                       *)
ProtectedNever == {}

Protected == {a \in candidates : InWindow(a)}

PurgeReadReports ==
  /\ purge = "candidates"
  /\ purge' = "reports"
  /\ protected' = Protected
  /\ UNCHANGED <<screenshot, report, candidates>>

PurgeCommit ==
  /\ purge = "reports"
  /\ purge' = "idle"
  /\ screenshot' = [a \in Captures |-> IF a \in candidates \ protected THEN "purged" ELSE screenshot[a]]
  /\ candidates' = {}
  /\ protected' = {}
  /\ report' = [a \in Captures |-> IF report[a] = "late" THEN "inside" ELSE report[a]]

Purge == PurgeReadCandidates \/ PurgeReadReports \/ PurgeCommit

RetentionNext ==
  \/ \E a \in Captures : Capture(a) \/ TtlPasses(a) \/ CommitReport(a) \/ WindowPasses(a)
  \/ PurgeReadCandidates
  \/ PurgeReadReports
  \/ PurgeCommit

RetentionSpec == RetentionInit /\ [][RetentionNext]_retentionVars

-----------------------------------------------------------------------------
(* A purge spares the screenshot of every report inside its window that was *)
(* committed before the purge looked for reports.                           *)
ReportsKeepScreenshots ==
  [][\A a \in Captures :
       report[a] = "inside" => screenshot'[a] = "purged" <=> screenshot[a] = "purged"]_retentionVars

(* The same for every report: a report committed between the second SELECT  *)
(* and the commit of a purge loses its screenshot.                          *)
EveryReportKeepsScreenshot ==
  [][\A a \in Captures :
       InWindow(a) => screenshot'[a] = "purged" <=> screenshot[a] = "purged"]_retentionVars
=============================================================================
