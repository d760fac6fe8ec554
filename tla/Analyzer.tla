------------------------------ MODULE Analyzer ------------------------------
(* The browser service (analyzer/app/browser.py and main.py): one asyncio   *)
(* process, a semaphore around Chromium, and beside every analysis a        *)
(* watchdog task that closes the browser under memory pressure.  A step is  *)
(* what a task does between two awaits.  The page, the container's memory   *)
(* and Chromium are the environment; what a page contains matters only for  *)
(* the way its analysis ends.  A call that is cut off by its client runs on *)
(* to its end, so the client is left out.                                   *)
EXTENDS Naturals, FiniteSets

CONSTANTS
  Visits,          \* requests to the service
  DeviceVisits,    \* those to analyze-device-network
  MaxConcurrent,   \* settings.max_concurrent_analyses
  MaxRedirects,    \* settings.max_redirects
  Profiles         \* profiles of a device and network measurement

VARIABLES
  visit,       \* request -> what its two tasks know
  processes,   \* requests of whose browser a Chromium process is left
  hit          \* requests that lost their browser to another's watchdog (history)

analyzerVars == <<visit, processes, hit>>

UrlPhases == {"loading", "settling", "reading", "capturing", "checking"}
DevicePhases == {"between", "measuring"}
Analysing == UrlPhases \cup DevicePhases

AnalyzerInit ==
  /\ visit = [v \in Visits |->
                [phase |-> "new", answer |-> "none", page |-> "none", watchdog |-> "off",
                 tripped |-> FALSE, oversized |-> FALSE, hung |-> FALSE,
                 redirects |-> 0, skipped |-> FALSE,
                 left |-> IF v \in DeviceVisits THEN Profiles ELSE 0]]
  /\ processes = {}
  /\ hit = {}

Phase(v) == visit[v].phase
OnlyVisit == UNCHANGED <<processes, hit>>

-----------------------------------------------------------------------------
(* From the request to an open browser.                                     *)

(* Token, confirmation, profile names and the address are looked at first.  *)
Receive(v) ==
  /\ Phase(v) = "new"
  /\ \/ visit' = [visit EXCEPT ![v].phase = "waiting"]
     \/ visit' = [visit EXCEPT ![v].phase = "answered", ![v].answer = "rejected"]
  /\ OnlyVisit

Holding == {v \in Visits : Phase(v) \in Analysing \cup {"launching", "closing"}}

(* The semaphore, then the admission by free memory, without an await.      *)
EnterUnlimited(v) ==
  /\ Phase(v) = "waiting"
  /\ \/ visit' = [visit EXCEPT ![v].phase = "launching"]
     \/ visit' = [visit EXCEPT ![v].phase = "answered", ![v].answer = "analyzer_memory_pressure"]
  /\ OnlyVisit
Enter(v) ==
  /\ Phase(v) = "waiting"
  /\ Cardinality(Holding) < MaxConcurrent
  /\ \/ visit' = [visit EXCEPT ![v].phase = "launching"]
     \/ visit' = [visit EXCEPT ![v].phase = "answered", ![v].answer = "analyzer_memory_pressure"]
  /\ OnlyVisit

(* A launch that fails is outside of the try: an unexpected error.          *)
LaunchEnds(v) ==
  /\ Phase(v) = "launching"
  /\ \/ /\ visit' = [visit EXCEPT ![v].phase = IF v \in DeviceVisits THEN "between" ELSE "loading",
                                  ![v].page = "open", ![v].watchdog = "watching"]
        /\ processes' = processes \cup {v}
     \/ /\ visit' = [visit EXCEPT ![v].phase = "answered", ![v].answer = "analyzer_internal_error"]
        /\ UNCHANGED processes
  /\ UNCHANGED hit

-----------------------------------------------------------------------------
(* The watchdog.                                                            *)

Trip(v) ==
  /\ visit[v].watchdog = "watching"
  /\ visit' = [visit EXCEPT ![v].watchdog = "closing", ![v].tripped = TRUE]
  /\ OnlyVisit

(* The pending calls of the analysis fail before close() returns.           *)
BrowserCloses(v) ==
  /\ visit[v].watchdog = "closing"
  /\ visit' = [visit EXCEPT ![v].watchdog = "reaping", ![v].page = "closed"]
  /\ OnlyVisit

(* _kill_chromium_processes kills whatever bears the name.                  *)
Reap(v) ==
  /\ visit[v].watchdog = "reaping"
  /\ visit' = [w \in Visits |->
                 IF w = v THEN [visit[v] EXCEPT !.watchdog = "off"]
                 ELSE IF w \in processes THEN [visit[w] EXCEPT !.page = "closed"] ELSE visit[w]]
  /\ hit' = hit \cup {w \in processes \ {v} : Phase(w) \in Analysing}
  /\ processes' = {}

-----------------------------------------------------------------------------
(* The page, at any moment of the analysis (that a page which is analysed   *)
(* hangs is the total timeout of the analysis).                             *)

(* The route handler counts a document for another host, of an iframe too,  *)
(* and refuses those beyond the limit.  The count stops one above it; that  *)
(* of a measurement is not used.                                            *)
RequestOtherHost(v) ==
  /\ Phase(v) \in UrlPhases /\ visit[v].page = "open"
  /\ visit[v].redirects <= MaxRedirects
  /\ visit' = [visit EXCEPT ![v].redirects = @ + 1]
  /\ OnlyVisit

(* A main document over the limit: the flag, then the context closes.       *)
MainDocumentTooLarge(v) ==
  /\ Phase(v) \in UrlPhases /\ visit[v].page = "open" /\ ~visit[v].oversized
  /\ visit' = [visit EXCEPT ![v].oversized = TRUE]
  /\ OnlyVisit

(* The context closes, or Chromium crashes.                                 *)
PageIsLost(v) ==
  /\ Phase(v) \in Analysing /\ visit[v].page = "open"
  /\ visit' = [visit EXCEPT ![v].page = "closed"]
  /\ OnlyVisit

(* A script of the page keeps the calls into it from returning.             *)
PageHangs(v) ==
  /\ Phase(v) = "measuring" /\ visit[v].page = "open"
  /\ visit' = [visit EXCEPT ![v].hung = TRUE]
  /\ OnlyVisit

-----------------------------------------------------------------------------
(* How an analysis ends.                                                    *)

(* The exception that leaves _run_analysis becomes a code.  A Playwright    *)
(* timeout (of the screenshot) is the one that does not ask for the reason. *)
ReasonAsked(error) == error \notin {"Exception", "PlaywrightTimeoutError"}
CodeOfTypedFirst(v, error) ==
  CASE error = "PlaywrightTimeoutError" -> "analysis_failed"
    [] error \in {"TimeoutError", "PlaywrightError"} /\ visit[v].tripped -> "analyzer_memory_pressure"
    [] error = "TimeoutError" /\ ~visit[v].tripped -> "analyzer_timeout"
    [] error = "PlaywrightError" /\ ~visit[v].tripped -> "browser_crashed"
    [] OTHER -> error
CodeOf(v, error) ==
  CASE error = "Exception" -> "analyzer_internal_error"
    [] error = "PlaywrightTimeoutError" -> "analysis_failed"
    [] ReasonAsked(error) /\ visit[v].tripped -> "analyzer_memory_pressure"
    [] error = "TimeoutError" /\ ~visit[v].tripped -> "analyzer_timeout"
    [] error = "PlaywrightError" /\ ~visit[v].tripped -> "browser_crashed"
    [] OTHER -> error

(* The finally of _guarded_browser: the watchdog is cancelled wherever it   *)
(* is, and the browser closed.                                              *)
LeaveWatched(v, code) ==
  /\ visit' = [visit EXCEPT ![v].phase = "closing", ![v].answer = code]
  /\ OnlyVisit
Leave(v, code) ==
  /\ visit' = [visit EXCEPT ![v].phase = "closing", ![v].answer = code, ![v].watchdog = "off"]
  /\ OnlyVisit

(* A closed browser may leave processes behind.                             *)
CloseBrowser(v) ==
  /\ Phase(v) = "closing"
  /\ visit' = [visit EXCEPT ![v].phase = "answered", ![v].page = "closed"]
  /\ processes' \in {processes, processes \ {v}}
  /\ UNCHANGED hit

-----------------------------------------------------------------------------
(* _run_analysis.                                                           *)

Usable(v) == visit[v].page = "open" /\ ~visit[v].hung
Goto(v, phase) == visit' = [visit EXCEPT ![v].phase = phase] /\ OnlyVisit

(* goto() and the looks at the flag and at the final address.               *)
Load(v) ==
  /\ Phase(v) = "loading"
  /\ \/ Usable(v) /\ ~visit[v].oversized /\ Goto(v, "settling")
     \/ visit[v].oversized /\ Leave(v, CodeOf(v, "response_too_large"))
     \/ ~visit[v].oversized /\ Leave(v, CodeOf(v, "analysis_failed"))

(* The wait for a quiet network and for the dynamic content.                *)
Settle(v) == Phase(v) = "settling" /\ Usable(v) /\ Goto(v, "reading")

(* Read until there is something on the page, a few times at most.          *)
Read(v) ==
  /\ Phase(v) = "reading" /\ Usable(v)
  /\ Goto(v, "capturing") \/ Leave(v, CodeOf(v, "empty_page_snapshot"))

Capture(v) ==
  /\ Phase(v) = "capturing"
  /\ \/ Usable(v) /\ Goto(v, "checking")
     \/ Leave(v, CodeOf(v, "PlaywrightTimeoutError"))

(* The accessibility scan has a time limit and its failure is no failure,   *)
(* the loss of the page included.  A snapshot may turn out to be invalid.   *)
Check(v) ==
  /\ Phase(v) = "checking"
  /\ Leave(v, "ok") \/ Leave(v, CodeOf(v, "Exception"))

(* A call into a page that is gone, or that navigates away, fails; so may   *)
(* those that make the page, before anything of it is requested.            *)
NothingRequested(v) == visit[v].redirects = 0 /\ ~visit[v].oversized
CallFails(v) ==
  /\ \/ Phase(v) \in {"settling", "reading", "capturing"}
     \/ Phase(v) = "loading" /\ NothingRequested(v)
  /\ Leave(v, CodeOf(v, "PlaywrightError"))

TotalTimeout(v) == Phase(v) \in UrlPhases /\ Leave(v, CodeOf(v, "TimeoutError"))

-----------------------------------------------------------------------------
(* analyze_device_network: no limit of time but that of the navigation.     *)

(* Each profile has a page of its own, if the browser is still there.       *)
NextProfile(v) ==
  /\ Phase(v) = "between"
  /\ \/ visit[v].left = 0 /\ Leave(v, "ok")
     \/ /\ visit[v].left > 0 /\ visit[v].tripped
        /\ visit' = [visit EXCEPT ![v].left = @ - 1, ![v].skipped = TRUE] /\ OnlyVisit
     \/ /\ visit[v].left > 0 /\ ~visit[v].tripped
        /\ \E page \in {"open", visit[v].page} :
             visit' = [visit EXCEPT ![v].left = @ - 1, ![v].phase = "measuring",
                                    ![v].page = page, ![v].hung = FALSE]
        /\ OnlyVisit

(* Measured or failed, the profile is among the results; the request fails  *)
(* with an unexpected error only.                                           *)
MeasureEnds(v) ==
  /\ Phase(v) = "measuring"
  /\ visit[v].hung => visit[v].page = "closed"
  /\ \/ Goto(v, "between")
     \/ Usable(v) /\ Leave(v, CodeOf(v, "Exception"))

-----------------------------------------------------------------------------
Analyse(v) ==
  Load(v) \/ Settle(v) \/ Read(v) \/ Capture(v) \/ Check(v) \/ CallFails(v) \/ TotalTimeout(v)
Measure(v) == NextProfile(v) \/ MeasureEnds(v)
Environment(v) ==
  RequestOtherHost(v) \/ MainDocumentTooLarge(v) \/ PageIsLost(v) \/ PageHangs(v)

AnalyzerNext ==
  \E v \in Visits :
    \/ Receive(v) \/ Enter(v) \/ LaunchEnds(v) \/ CloseBrowser(v)
    \/ Trip(v) \/ BrowserCloses(v) \/ Reap(v)
    \/ Analyse(v) \/ Measure(v) \/ Environment(v)

AnalyzerSpec == AnalyzerInit /\ [][AnalyzerNext]_analyzerVars

-----------------------------------------------------------------------------
(* What the worker makes of an answer: _call_analyzer knows two of the      *)
(* codes, every other 502 is the service being unavailable.                 *)
Retried(code) == code \notin {"ok", "rejected", "response_too_large"}

Answers == {"ok", "rejected", "analysis_failed", "response_too_large", "empty_page_snapshot",
  "browser_crashed", "analyzer_memory_pressure", "analyzer_timeout", "analyzer_internal_error"}

(* Every variable has its type, and a watchdog runs only beside an analysis.*)
AnalyzerTypeOK ==
  /\ processes \cup hit \subseteq Visits
  /\ \A v \in Visits :
       /\ Phase(v) \in Analysing \cup {"new", "waiting", "launching", "closing", "answered"}
       /\ visit[v].answer \in Answers \cup {"none"}
       /\ visit[v].watchdog # "off" => Phase(v) \in Analysing
       /\ visit[v].redirects \in 0..MaxRedirects + 1
       /\ visit[v].left \in 0..Profiles

(* The watchdog kills every Chromium of the container, yet no analysis      *)
(* loses its browser to the watchdog of another one; and what it ended is   *)
(* neither taken for a crash of the browser nor lost for good: the worker   *)
(* tries it again.                                                          *)
AnalyzerIsSound ==
  /\ hit = {}
  /\ \A v \in Visits \ DeviceVisits : visit[v].tripped =>
       /\ visit[v].answer # "browser_crashed"
       /\ visit[v].answer \notin {"none", "ok"} => Retried(visit[v].answer)

(* Every request is answered and the semaphore is free again, unless the    *)
(* page of a device measurement hangs: nothing ends that one.               *)
Answered(v) == Phase(v) = "answered"
MeasurementHangs == \E v \in DeviceVisits : visit[v].hung
VisitsEnd == \A v \in Visits : Phase(v) = "waiting" ~> Answered(v) \/ MeasurementHangs

(* Nothing of the browser of an ended analysis is left.  Does not hold: the *)
(* analysis fails as soon as its browser closes and cancels the watchdog    *)
(* before it reaps.                                                         *)
NothingLeft == \A v \in Visits : visit[v].tripped /\ Answered(v) => v \notin processes

(* An analysis ended by the watchdog says so.  Does not hold: the timeout   *)
(* of a screenshot is reported as it is, and an accessibility scan that     *)
(* loses its page is skipped.                                               *)
PressureIsReported ==
  \A v \in Visits \ DeviceVisits :
    visit[v].tripped /\ Answered(v) => visit[v].answer = "analyzer_memory_pressure"

(* A page that is too large is refused for good.  Does not hold: one that   *)
(* the page navigates to after it was loaded looks like a crash.            *)
TooLargeIsTerminal ==
  \A v \in Visits : visit[v].oversized /\ ~visit[v].tripped => visit[v].answer # "browser_crashed"

(* A snapshot reports at most the redirects allowed.  Does not hold:        *)
(* iframes count.                                                           *)
RedirectsWithinLimit ==
  \A v \in Visits \ DeviceVisits : visit[v].answer = "ok" => visit[v].redirects <= MaxRedirects

(* A measurement accounts for every profile.  Does not hold: those skipped  *)
(* under memory pressure appear in a warning only, not in the error rate.   *)
EveryProfileCounts ==
  \A v \in DeviceVisits : visit[v].answer = "ok" => ~visit[v].skipped
=============================================================================
