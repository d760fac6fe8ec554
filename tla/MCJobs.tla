------------------------------- MODULE MCJobs -------------------------------
(* Model-checking instance of the background jobs and their crons (page     *)
(* analysis, interaction heatmap, design generation, screenshot retention), *)
(* of the browser service they call, of the supervisor of the processes     *)
(* they all run in, and of the page that shows the runs.                    *)
(* The components share no state here.  One behaviour runs one of them:     *)
(* part names it, and the others stay in their initial state.               *)
EXTENDS PageAnalysis, InteractionHeatmap, DesignGeneration, ScreenshotRetention

CONSTANTS
  Others, Steps,
  Visits, DeviceVisits, MaxConcurrent, MaxRedirects, Profiles,
  ListedRuns, Polls, NoList

ASSUME ServicesAssumption ==
  /\ Steps \in Nat /\ "frontend" \notin Others
  /\ IsFiniteSet(Visits) /\ MaxRedirects \in Nat /\ Profiles \in Nat

VARIABLES
  part,
  main, child, known, pending, preflight, stopping, signalled, asked, killed, patient, exitCode,
  visit, processes, hit,
  life, open, hidden, polling, polls, timer, shown, pressed

Container == INSTANCE Launcher
Browser == INSTANCE Analyzer
RunsList == INSTANCE RunsPage WITH Runs <- ListedRuns
Outcome == INSTANCE AnalysisOutcome WITH analysis <- OutcomeSeen

launcherVars == <<main, child, known, pending, preflight, stopping, signalled,
  asked, killed, patient, exitCode>>
analyzerVars == <<visit, processes, hit>>
runsPageVars == <<life, open, hidden, polling, polls, timer, shown, pressed>>
jobsVars == <<part, vars, heatmapVars, designVars, retentionVars, launcherVars, analyzerVars,
  runsPageVars>>

JobsInit ==
  /\ part \in {"analysis", "heatmap", "design", "retention", "container", "browser", "runs"}
  /\ Init
  /\ HeatmapInit
  /\ DesignInit
  /\ RetentionInit
  /\ Container!LauncherInit
  /\ Browser!AnalyzerInit
  /\ RunsList!RunsPageInit

(* A step of one component leaves the others alone.                         *)
OnlyAnalysis ==
  /\ part = "analysis"
  /\ UNCHANGED <<part, heatmapVars, designVars, retentionVars, launcherVars, analyzerVars,
    runsPageVars>>
OnlyHeatmap ==
  /\ part = "heatmap"
  /\ UNCHANGED <<part, vars, designVars, retentionVars, launcherVars, analyzerVars,
    runsPageVars>>
OnlyDesign ==
  /\ part = "design"
  /\ UNCHANGED <<part, vars, heatmapVars, retentionVars, launcherVars, analyzerVars,
    runsPageVars>>
OnlyRetention ==
  /\ part = "retention"
  /\ UNCHANGED <<part, vars, heatmapVars, designVars, launcherVars, analyzerVars,
    runsPageVars>>
OnlyContainer ==
  /\ part = "container"
  /\ UNCHANGED <<part, vars, heatmapVars, designVars, retentionVars, analyzerVars,
    runsPageVars>>
OnlyBrowser ==
  /\ part = "browser"
  /\ UNCHANGED <<part, vars, heatmapVars, designVars, retentionVars, launcherVars,
    runsPageVars>>
OnlyRuns ==
  /\ part = "runs"
  /\ UNCHANGED <<part, vars, heatmapVars, designVars, retentionVars, launcherVars,
    analyzerVars>>

JobsNext ==
  \/ OnlyAnalysis /\ Next
  \/ OnlyHeatmap /\ HeatmapNext
  \/ OnlyDesign /\ DesignNext
  \/ OnlyRetention /\ RetentionNext
  \/ OnlyContainer /\ Container!LauncherNext
  \/ OnlyBrowser /\ Browser!AnalyzerNext
  \/ OnlyRuns /\ RunsList!RunsPageNext

(* The crons keep running and time passes.  Of a baseline run its end is    *)
(* assumed (SimulationRuns!RunsTerminate), of an image provider that it     *)
(* answers or the worker dies; of the other workers nothing.  The main      *)
(* thread of the supervisor runs on: a preflight step has a timeout.  A     *)
(* page may take for ever, but not to be closed.  Timers of a page fire,    *)
(* and a server that is asked again and again answers in the end.           *)
JobsFairness ==
  /\ \A a \in Analyses :
       /\ WF_jobsVars(OnlyAnalysis /\ DelayPasses(a))
       /\ WF_jobsVars(OnlyAnalysis /\ (\E S \in SUBSET Due : a \in S /\ ClaimNextQueued(S)))
       /\ WF_jobsVars(OnlyAnalysis /\ ReapStaleRunning({a}))
  /\ \A r \in Runs :
       /\ WF_jobsVars(OnlyHeatmap /\ ClaimRun(r))
       /\ WF_jobsVars(OnlyHeatmap /\ Reap(r))
       /\ WF_jobsVars(OnlyHeatmap /\ (\E o \in Finished : EndBaseline(r, o)))
  /\ WF_jobsVars(OnlyHeatmap /\ Settle)
  /\ \A j \in Jobs :
       /\ WF_jobsVars(OnlyDesign /\ ClaimDesign(j))
       /\ WF_jobsVars(OnlyDesign /\ ReapDesign(j))
       /\ WF_jobsVars(OnlyDesign /\ EndDrawing(j))
  /\ \A a \in Captures : WF_jobsVars(OnlyRetention /\ WindowPasses(a))
  /\ WF_jobsVars(OnlyRetention /\ Purge)
  /\ WF_jobsVars(OnlyContainer /\ Container!MainThread)
  /\ WF_jobsVars(OnlyContainer /\ Container!TimeoutPasses)
  /\ \A v \in Visits :
       /\ WF_jobsVars(OnlyBrowser /\ Browser!Enter(v))
       /\ WF_jobsVars(OnlyBrowser /\ (Browser!LaunchEnds(v) \/ Browser!CloseBrowser(v)))
       /\ WF_jobsVars(OnlyBrowser /\ (Browser!TotalTimeout(v) \/ Browser!Measure(v)))
  /\ WF_jobsVars(OnlyRuns /\ RunsList!TimerFires)
  /\ SF_jobsVars(OnlyRuns /\ (\E m \in polls : RunsList!ListRuns(m)))
  /\ SF_jobsVars(OnlyRuns /\ (\E m \in polls : RunsList!ListArrives(m)))

JobsSpec == JobsInit /\ [][JobsNext]_jobsVars /\ JobsFairness

-----------------------------------------------------------------------------
(* Every analysis settles, whatever workers die, and a run sees it move     *)
(* only as AnalysisOutcome allows: a success is never taken back by a late  *)
(* worker, the reaper or a retry, and a fatal failure is never restarted.   *)
ImplementsOutcome == Outcome!FairSpec

(* Every variable of the component that runs has its type.                  *)
JobsTypeOK ==
  /\ part = "analysis" => TypeOK
  /\ part = "heatmap" => HeatmapTypeOK
  /\ part = "design" => DesignTypeOK
  /\ part = "retention" => RetentionTypeOK
  /\ part = "container" => Container!LauncherTypeOK
  /\ part = "browser" => Browser!AnalyzerTypeOK
  /\ part = "runs" => RunsList!RunsPageTypeOK

(* Attempts of a job stay apart: none inherits a delay or stores a result   *)
(* of an earlier one.                                                       *)
AttemptsStayApart == DelayOnlyBetweenAttempts /\ ResultOfLastAttempt

(* A finished heatmap stays finished, the purge spares the screenshots that *)
(* the reports it has seen still show, and a page takes no outcome back.    *)
ResultsStay == FinishedStays /\ ReportsKeepScreenshots /\ RunsList!ShownIsFinal

(* The container fails closed, its watchdog hits no other analysis, and the *)
(* page of runs goes on asking for them, one request at a time.             *)
ServicesStaySound ==
  /\ part = "container" => Container!ContainerFailsClosed
  /\ part = "browser" => Browser!AnalyzerIsSound
  /\ part = "runs" => RunsList!PollingGoesOn
AskedBeforeKilled == Container!AskedBeforeKilled

(* Nothing stays open: every heatmap charge is spent or released, every     *)
(* generation job ends, every capture is purged once it and its report have *)
(* had their time, every request to the browser service is answered, the    *)
(* container ends when one of its services does, and a page left open shows *)
(* in the end what has become of every run.                                 *)
HeldCharge(i) == i <= Len(reservations) /\ reservations[i] = "reserved"
Open(j) == job[j].status \in {"queued", "running"}
JobsSettle ==
  /\ \A i \in 1..MaxBaselineRetries + 1 : HeldCharge(i) ~> ~HeldCharge(i)
  /\ \A j \in Jobs : Open(j) ~> ~Open(j)
  /\ \A a \in Captures : screenshot[a] = "expired" ~> screenshot[a] = "purged"
  /\ Container!ServicesEndTogether
  /\ Browser!VisitsEnd
  /\ RunsList!PageCatchesUp
=============================================================================
