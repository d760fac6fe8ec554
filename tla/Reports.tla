------------------------------- MODULE Reports -------------------------------
(***************************************************************************)
(* The report of a run as backend/app/routers/reports.py puts it together, *)
(* and the page that shows it (ReportDetail.tsx).  A report is not stored  *)
(* as it is shown: a request looks for the other side of the comparison,   *)
(* then for the capture of each section, one READ COMMITTED statement      *)
(* after the other, while runs commit reports and the purge takes          *)
(* screenshots away.  The page then asks for the screenshots it was given  *)
(* links to.                                                               *)
(*                                                                         *)
(* The runs are those of one test, each with a capture of its own, which   *)
(* stands for the run here; a run that has a report has succeeded, both in *)
(* one commit.  The organization's own reports are asked for.  The metrics *)
(* in a report never change and are left out.  An answer takes effect with *)
(* its last read: what happens on its way might as well happen afterwards. *)
(***************************************************************************)
EXTENDS ScreenshotRetention

CONSTANTS
  NewSides,   \* the captures of runs with the role "new"; the others are "existing" or "primary"
  Dom,        \* those whose heatmap has a grid and boxes from the DOM
  Visual,     \* those whose heatmap has cells from the picture (none of them in Dom)
  Mapped      \* those whose run has an AI interaction heatmap

(* A comparison has one side of each kind (_variant_specs).                 *)
OneOfEach ==
  \A a, b \in Captures : a # b /\ Captures = {a, b} => (a \in NewSides <=> b \notin NewSides)

VARIABLES
  reading,    \* the request for a report: what it reads next, and what it has read
  opened,     \* the page of a report
  image,      \* what came of the screenshots the page asked for
  compared    \* the sides that get_comparison gave last: A, then B

readerVars == <<reading, opened, image, compared>>
reportsVars == <<retentionVars, readerVars>>

Sections == {"heat", "cta", "map"}

Idle == [at |-> "idle", of |-> {}, with |-> {}, links |-> {}]
Closed == [at |-> "closed", of |-> {}, with |-> {}, links |-> {}]

(* of is the run of the report, with the other side of its comparison if    *)
(* one was found, links the sections that carry the link of a screenshot.   *)
Response(states) ==
  [at : states, of : SUBSET Captures, with : SUBSET Captures, links : SUBSET (Captures \X Sections)]

ReportsTypeOK ==
  /\ OneOfEach
  /\ reading \in Response({"idle", "sibling", "own"} \cup Sections)
  /\ opened \in Response({"closed", "loading", "error", "shown"})
  /\ image \in [Captures -> {"none", "shown", "broken"}]
  /\ compared \in {<<>>} \cup Captures \X Captures

ReportsInit ==
  /\ RetentionInit
  /\ reading = Idle
  /\ opened = Closed
  /\ image = [a \in Captures |-> "none"]
  /\ compared = <<>>

(* list_reports: only what is committed can be opened.                      *)
Listed(a) == report[a] # "none"

(* Mutant: the short retention counts, although a report prolongs it.       *)
KeptWhileFresh(a) == screenshot[a] = "fresh"

Kept(a) == screenshot[a] \notin {"none", "purged"}

(* What each section of a report can show, and _build_heatmap,              *)
(* _build_cta_overlay and _build_interaction_heatmap: only a heatmap from   *)
(* the DOM does not look whether the picture is there.                      *)
Linkable(a, s) ==
  /\ s = "heat" => a \in Dom \cup Visual
  /\ s = "map" => a \in Mapped

Links(a, s) == Linkable(a, s) /\ (Kept(a) \/ (s = "heat" /\ a \in Dom))

(* _find_ab_sibling_report: the other of exactly two variants, once its run *)
(* has succeeded and has a report.                                          *)
Sibling(a) == {b \in Captures \ {a} : Captures = {a, b} /\ Listed(b)}

-----------------------------------------------------------------------------
(* The page, the downloads of its menu, and the comparison of a test.       *)
Asks(runs) == reading' = [at |-> "sibling", of |-> runs, with |-> {}, links |-> {}]

OpenReport(a) ==
  /\ opened.at = "closed"
  /\ Listed(a)
  /\ opened' = [Closed EXCEPT !.at = "loading", !.of = {a}]
  /\ Asks({a})
  /\ UNCHANGED <<image, compared>>

TryAgain ==
  /\ opened.at = "error"
  /\ opened' = [opened EXCEPT !.at = "loading"]
  /\ Asks(opened.of)
  /\ UNCHANGED <<image, compared>>

(* export.json and export.csv read the report anew.                         *)
Export ==
  /\ opened.at = "shown"
  /\ reading.at = "idle"
  /\ Asks(opened.of)
  /\ UNCHANGED <<opened, image, compared>>

LeaveReport ==
  /\ opened.at # "closed"
  /\ opened' = Closed
  /\ reading' = Idle
  /\ image' = [a \in Captures |-> "none"]
  /\ UNCHANGED compared

(* get_comparison: a run that has succeeded stays so, and the answer is the *)
(* one of its last read.  Side A is the existing design.                    *)
Compare(a, b) ==
  /\ a # b /\ Captures = {a, b}
  /\ a \notin NewSides
  /\ Listed(a) /\ Listed(b)
  /\ compared' = <<a, b>>
  /\ UNCHANGED <<reading, opened, image>>

-----------------------------------------------------------------------------
(* _build_detail_response.                                                  *)
FindSibling ==
  /\ reading.at = "sibling"
  /\ reading' = [reading EXCEPT !.at = "heat", !.with = UNION {Sibling(a) : a \in reading.of}]
  /\ UNCHANGED <<opened, image, compared>>

(* Mutant: the other side is built from the captures of this one.           *)
OwnSubject(response) == response.of

(* The sections of one side, with or without a comparison.                  *)
Subject(response) == IF response.with # {} THEN response.with ELSE response.of

Answer(links) ==
  /\ reading' = Idle
  /\ opened' = IF opened.at = "loading"
               THEN [at |-> "shown", of |-> reading.of, with |-> reading.with, links |-> links]
               ELSE opened
  /\ UNCHANGED <<image, compared>>

(* Each section of the other side, and each of a report without one, looks  *)
(* for the capture itself.                                                  *)
SectionRead(s) == reading.links \cup {l \in Subject(reading) \X {s} : Links(l[1], s)}

ReadSection(s, next) ==
  /\ reading.at = s
  /\ reading' = [reading EXCEPT !.at = next, !.links = SectionRead(s)]
  /\ UNCHANGED <<opened, image, compared>>

ReadMap ==
  IF reading.with # {} THEN ReadSection("map", "own")
  ELSE reading.at = "map" /\ Answer(SectionRead("map"))

(* In a comparison the session still holds the capture that was read for    *)
(* the checksums when the sections of the report itself are built from it.  *)
ReadOwn ==
  /\ reading.at = "own"
  /\ Answer(reading.links \cup {l \in reading.of \X Sections : Links(l[1], l[2])})

RequestFails ==
  /\ reading.at # "idle"
  /\ reading' = Idle
  /\ opened' = IF opened.at = "loading" THEN [opened EXCEPT !.at = "error"] ELSE opened
  /\ UNCHANGED <<image, compared>>

(* The panel of a side is drawn on the picture if its heatmap or else its   *)
(* overlay has a link, the panel of its AI heatmap if that has one.         *)
VisualPanel(a) == <<a, "heat">> \in opened.links \/ <<a, "cta">> \in opened.links

AIPanel(a) == <<a, "map">> \in opened.links

(* get_report_heatmap_screenshot answers 404 when there is nothing left.    *)
ShowImage(a) ==
  /\ opened.at = "shown"
  /\ VisualPanel(a) \/ AIPanel(a)
  /\ image' = [image EXCEPT ![a] = IF Kept(a) THEN "shown" ELSE "broken"]
  /\ UNCHANGED <<reading, opened, compared>>

Visitor ==
  \/ \E a \in Captures : OpenReport(a) \/ ShowImage(a)
  \/ TryAgain
  \/ Export
  \/ LeaveReport
  \/ \E a, b \in Captures : Compare(a, b)
  \/ FindSibling
  \/ ReadSection("heat", "cta")
  \/ ReadSection("cta", "map")
  \/ ReadMap
  \/ ReadOwn
  \/ RequestFails

ReportsNext ==
  \/ RetentionNext /\ UNCHANGED readerVars
  \/ Visitor /\ UNCHANGED retentionVars

ReportsSpec == ReportsInit /\ [][ReportsNext]_reportsVars

-----------------------------------------------------------------------------
(* Mutant: only a primary side is side A.                                   *)
NeverA(a) == FALSE

(* this_is_a, by which the backend compares and the page names the sides.   *)
ThisIsA(a) == a \notin NewSides

(* What a response has read so far.                                         *)
HasRead(response, a, s) ==
  \/ response.at = "cta" /\ a \in Subject(response) /\ s = "heat"
  \/ response.at = "map" /\ a \in Subject(response) /\ s \in {"heat", "cta"}
  \/ response.at = "own" /\ a \in response.with
  \/ response.at = "shown" /\ a \in response.of \cup response.with

(* As long as the purge has spared a capture, every section that was read   *)
(* of it has its link, in a request that is still reading and on the page:  *)
(* reports.py lets no other step take a link away.                          *)
KeptIsLinked(response) ==
  \A a \in Captures : \A s \in Sections :
    HasRead(response, a, s) /\ screenshot[a] # "purged" /\ Linkable(a, s)
      => <<a, s>> \in response.links

(* Sections read later never have more than those read earlier, however     *)
(* the purge runs between their statements: a picture under the AI panel    *)
(* comes with the overlays, and that of the overlays with the heatmap, so   *)
(* the page (heatmap link, else overlay link) never mixes two answers.      *)
LaterLinksLess(response) ==
  \A a \in response.of \cup response.with :
    /\ <<a, "map">> \in response.links => <<a, "cta">> \in response.links
    /\ <<a, "cta">> \in response.links /\ a \in Dom \cup Visual => <<a, "heat">> \in response.links

(* Whichever report of a test is open, its page has on side A the run that  *)
(* get_comparison has there.                                                *)
SidesAgree ==
  \A a \in opened.of : \A b \in opened.with :
    compared # <<>> => compared = IF ThisIsA(a) THEN <<a, b>> ELSE <<b, a>>

(* A picture that is missing on a page was purged.                          *)
BrokenIsPurged == \A a \in Captures : image[a] = "broken" => screenshot[a] = "purged"

(* The report and its page (routers/reports.py, ReportDetail.tsx).          *)
ReportsAreSound ==
  /\ KeptIsLinked(reading) /\ KeptIsLinked(opened)
  /\ LaterLinksLess(reading) /\ LaterLinksLess(opened)
  /\ SidesAgree
  /\ BrokenIsPurged
=============================================================================
