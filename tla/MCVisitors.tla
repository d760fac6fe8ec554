----------------------------- MODULE MCVisitors -----------------------------
(* Model-checking instance of what a browser does: it keeps a session,      *)
(* runs into login limits, leaves traffic behind, fills in the wizard's     *)
(* page and shows reports.  These share no state here.  One behaviour runs  *)
(* one of them: part names it, and the others stay in their initial state.  *)
EXTENDS Sessions, LoginLimiter, WizardPage, TLC

CONSTANTS
  Users, Campaigns, Retention, SeriesGuard, LastDay, MaxViews, MaxEvents, MaxVisits,
  Captures, NewSides, Dom, Visual, Mapped

VARIABLES
  part,
  day, accounts, events, visitors, visits, attribution, cookies, link, firstSource, cameBy,
  screenshot, report, purge, candidates, protected, reading, opened, image, compared

Traffic == INSTANCE TrafficAnalytics
ReportPage == INSTANCE Reports

(* Accounts are rows; the retention and the longest series are whole days.  *)
ASSUME TrafficAssumption ==
  /\ IsFiniteSet(Users) /\ Traffic!NoUser \notin Users
  /\ Retention \in Nat /\ SeriesGuard \in Nat \ {0} /\ LastDay \in Nat

(* A comparison has one side of each kind.                                  *)
ASSUME ReportsAssumption == ReportPage!OneOfEach

trafficVars == <<day, accounts, events, visitors, visits, attribution, cookies, link, firstSource, cameBy>>
reportVars == <<screenshot, report, purge, candidates, protected, reading, opened, image, compared>>
visitorsVars == <<part, sessionVars, limiterVars, trafficVars, pageVars, reportVars>>

VisitorsInit ==
  /\ part \in {"browser", "limiter", "traffic", "page", "report"}
  /\ SessionsInit
  /\ LimiterInit
  /\ Traffic!TrafficInit
  /\ ReportPage!ReportsInit
  /\ IF part = "page" THEN PageInit ELSE PageOpensNew

(* A step of one component leaves the others alone.                         *)
OnlyBrowser == part = "browser" /\ UNCHANGED <<part, limiterVars, trafficVars, pageVars, reportVars>>
OnlyLimiter == part = "limiter" /\ UNCHANGED <<part, sessionVars, trafficVars, pageVars, reportVars>>
OnlyTraffic == part = "traffic" /\ UNCHANGED <<part, sessionVars, limiterVars, pageVars, reportVars>>
OnlyPage == part = "page" /\ UNCHANGED <<part, sessionVars, limiterVars, trafficVars, reportVars>>
OnlyReport == part = "report" /\ UNCHANGED <<part, sessionVars, limiterVars, trafficVars, pageVars>>

VisitorsNext ==
  \/ OnlyBrowser /\ SessionsNext
  \/ OnlyLimiter /\ LimiterNext
  \/ OnlyTraffic /\ Traffic!TrafficNext
  \/ OnlyPage /\ PageNext
  \/ OnlyReport /\ ReportPage!ReportsNext

VisitorsSpec == VisitorsInit /\ [][VisitorsNext]_visitorsVars

Interchangeable == Permutations(Tabs)

-----------------------------------------------------------------------------
(* Every variable of the component that runs has its type.                  *)
VisitorsTypeOK ==
  /\ part = "browser" => SessionsTypeOK
  /\ part = "limiter" => LimiterTypeOK
  /\ part = "traffic" => Traffic!TrafficTypeOK
  /\ part = "page" => PageTypeOK
  /\ part = "report" => ReportPage!RetentionTypeOK /\ ReportPage!ReportsTypeOK

(* The figures of the traffic add up, and a report shows what is kept of    *)
(* its captures.                                                            *)
FiguresAndReportsHold ==
  /\ part = "traffic" => Traffic!TrafficAddsUp
  /\ part = "report" => ReportPage!ReportsAreSound
=============================================================================
