# Formal model of Synthetix UX

Synthetix UX runs synthetic usability tests. A FastAPI backend (`src/backend/app`,
SQLAlchemy async on PostgreSQL at READ COMMITTED) accepts launches; arq workers
poll the database by cron (`worker.py`) and move rows through state machines; a
separate analyzer service (`src/analyzer/app`) captures pages with Chromium; Redis
carries progress and rate limits; a React frontend (`src/frontend/src`) calls the
API. All coordination between processes goes through PostgreSQL: row locks
(`FOR UPDATE`, often `SKIP LOCKED`), transaction advisory locks and unique keys.
The core worth modelling is what concurrent transactions do to shared rows, and it
is money: who pays for a run, once, and who gets a refund. Around it the project
models the other places where order matters: queues and their reapers, sessions,
counters, the wizard's page, the browser service and the container's supervisor.

Every definition carries, in `PROJECT.json` under `map`, the source lines it
stands for.

## Inventory

| Component | State | Operations | Interacts with | Hard because | Correct when | Module |
|---|---|---|---|---|---|---|
| Chip ledger (`services/chip_ledger.py`) | append-only `chip_ledger_entries`, `chip_reservations` with a status | credit, reserve, consume, release, balance | everything that costs chips, inside the caller's transaction | check-then-insert under an organization lock; idempotency keys; identity map | never overdrawn, every reservation posted once, settled once | `ChipLedger` |
| Entitlements (`services/entitlements.py`) | one row per organization and feature: status, holder, `reserved_until` | get-or-create, reserve, consume, release | launch, retry, group resolution | insert race, expiring holds | one free launch per feature | `SimulationRuns`, `FirstAccess`, `Quotes` |
| Simulation runs (`services/simulation_worker.py`) | `simulation_runs`: status, attempts, cancel flag, reservation ids | claim, process, recover, reap, fail-blocked, cancel, retry, resolve group | ledger, entitlements, page analysis, AI add-ons | workers die, late workers, retry against resolution, shared reservations of A/B launches | runs end; partial success is free; full success is paid once | `SimulationRuns` |
| Launch wizard (`services/test_wizard.py`, `routers/test_wizard.py`, `routers/projects.py`) | drafts | create, patch, delete, launch, delete project | designs, quotes, runs | double click, designs that vanish, failure half way, removal of the project | launches once, as a payload that can be tested | `Wizard` |
| Quotes and pricing (`services/quotes.py`, `services/pricing.py`) | none of its own | price a launch | wizard, entitlements, ledger | free uses contested by launches, several reservations of one launch | what is reserved is the price of what runs | `Quotes` |
| Page analysis (`services/page_analysis.py`) | `page_analyses`: status, attempts, `next_attempt_at`, screenshot | create, claim, process, recover, reap, restart, purge | runs wait for it; retry restarts it | transient failures with delays, two places that count attempts, retention | settles within its attempts; success is final; reports keep their screenshots | `PageAnalysis`, `ScreenshotRetention` |
| AI pipeline (`services/ai_pipeline/`) | pipeline and stage rows, generation, provider pin | initialize, claim stage, persist by compare-and-set, fan out and in, reap, retry and cancel a group, settle | runs (after success), ledger | late provider answers, successors enqueued by concurrent stages, settlement against cancel and retry | each stage's result accepted once; reservation settled once | `AIPipelineGroup` |
| AI report tab (`services/ai_pipeline/queries.py`, `pages/AiReportTab.tsx`, `pages/ReportDetail.tsx`) | what the page and the tab show, two requests | look, poll, fetch, ask again | pipeline and stage rows | each answer is read in two statements while workers, reaper and retries go on | an announced report is there, progress does not drop | `AIReportTab` |
| Content of the AI pipeline (batching, manifest, validation, aggregation) | stage outputs | cut, store, rebuild, validate, add up | persona rows, providers | stages read rows that may have changed; answers may be incomplete | every persona counts once, with its weight | `PersonaBatches` |
| Interaction heatmap (`services/ai_interaction_heatmap/`) | one job per run | claim, reuse, persist, reap, settle | runs, ledger, provider | late answers, settlement that reads in several statements | chips pay for delivered heatmaps only | `InteractionHeatmap` |
| Design generation and assets | job rows, asset rows | create, cancel, delete, claim, draw, reap, purge | wizard, image provider | cancel against drawing, purge against use | one image per job; every job ends | `DesignGeneration` |
| Top-up review (`routers/admin.py`) | request rows | request, approve, reject | ledger | two reviewers, a lost answer | credited at most once, one decision | `TopUps` |
| Auth (`services/auth.py`, `routers/auth.py`, `api/client.ts`) | token chains, reset tokens, cookies, tabs | login, rotate, reuse detection, logout, reset | every request | racing rotations, lost answers, shared cookie jar | an ended session stays ended | `Sessions` |
| Rate limits (`services/rate_limit.py`) | Redis counters and lockouts | count, lock out, expire | login, demo login | INCR and EXPIRE are two commands | limits hold when requests overlap | `LoginLimiter` |
| Traffic analytics (`services/analytics.py`, `routers/analytics.py`) | visitors, visits, events, acquisitions, links | page view, register, event, purge, figures | cookies, sign-up, first project and test | dedup keys, retention, cookies that come and go | figures add up; the first source counts | `TrafficAnalytics` |
| Personas (`services/personas.py`) | none | sample cohorts, reduce them to personas | wizard, runs | rounding, tolerances | counts add up | `Personas` |
| Wizard page (`pages/wizard/`) | form, autosave timer, quote, candidates | edit, autosave, quote, analyse, confirm, launch, reload | the API, unordered | requests in flight after the form has moved on | shows and launches what its form says | `WizardPage` |
| Page of runs (`pages/Simulations.tsx`, `routers/simulations.py`) | the list shown, a timer, a lock, buttons that wait | poll, hide and show, cancel, retry, leave | run rows, workers | a timer, a lock, a hidden tab and lost answers decide together whether anybody asks again | goes on asking, takes no result back | `RunsPage` |
| Analyzer (`src/analyzer/app`) | semaphore, browsers | analyse, measure, watchdog, timeout, reap | page analysis, heatmaps | a watchdog that kills every Chromium of the container | hits only its own analysis; the semaphore comes back | `Analyzer` |
| Container supervisor (`render_free_launcher.py`) | child processes | start, preflight, signals, wait | all services | signals between any two steps | all end together, failures are reported | `Launcher` |
| Worker schedule (`worker.py`) | none | crons | all queues | - | fires for ever | fairness of the modules |
| Reports (`routers/reports.py`, `get_comparison` of `routers/simulations.py`, `pages/ReportDetail.tsx`) | none of its own; what a page shows | list, open, try again, export, show pictures, compare | report rows, captures and their purge | a report is put together in several statements while runs finish and screenshots are purged | links every picture that is kept, never mixes two looks in the wrong order, names the sides as the comparison does | `Reports` |
| Engine (`engine/`), settings, calibration, tenant cleanup | rows without contention, pure scoring | score, render, delete | - | - | - | settings' first access in `FirstAccess`; the rest not modelled |

`PROJECT.json` lists the components with what is and is not modelled, and under
`hazards` the places in the code that are hard to test, each with the properties
that guard it.

## Modules

| Module | Models |
|---|---|
| `ChipAccount` | what the ledger promises: an account that changes by atomic transactions, balances and is never negative |
| `ChipLedger`, `ChipLedger_proofs` | the ledger as concurrent READ COMMITTED transactions, and its theorems |
| `SimulationRuns`, `SimulationRuns_proofs` | runs, launch groups, reservations and the free entitlement, and the theorems about them |
| `RunLife` | the life of runs as readers of committed rows see it |
| `RunsPage` | the page that lists the runs, with its polls and buttons |
| `AnalysisOutcome` | what a run relies on of its page analysis |
| `PageAnalysis` | the analysis queue |
| `ScreenshotRetention` | the purge of the screenshots |
| `Reports` | the report of a run, its page and the comparison of a test, on top of `ScreenshotRetention` |
| `AIPipelineGroup`, `AIPipelineGroup_proofs` | the AI report of one launch group: pipelines, stages, executions, group retry and cancel, settlement; its theorems |
| `AIReportTab` | the status and the report of a pipeline, and the page and the tab that show them; its theorems are in `AIPipelineGroup_proofs` |
| `PersonaBatches` | what the stages of a pipeline hand to each other |
| `InteractionHeatmap` | the heatmap jobs of one launch group and their chips |
| `Jobs_proofs` | the theorems about `PageAnalysis`, one of them that it implements `AnalysisOutcome`, `InteractionHeatmap`, `DesignGeneration`, `ScreenshotRetention`, and, as instances, `Launcher`, `Analyzer` and `RunsPage`; about `MCJobs` |
| `DesignGeneration` | image generation jobs and the design assets they read and store |
| `Quotes` | what a launch costs |
| `FirstAccess` | rows that exist from their first use on |
| `TopUps` | top-up requests and their review |
| `Wizard` | a draft on the server |
| `Accounts_proofs` | the theorems about `FirstAccess`, `Wizard`, `TopUps`, `Quotes`, `Personas` and `PersonaBatches`, and about `MCAccounts` |
| `WizardPage`, `WizardPage_proofs` | one open page of the wizard, and its theorems |
| `Personas` | cohorts and personas |
| `Sessions`, `LoginLimiter` | refresh-token chains with tabs and cookies; fixed windows in Redis |
| `TrafficAnalytics` | visitors, events, acquisitions and figures |
| `Analyzer`, `Launcher` | the browser service; the supervisor of the container |
| `Visitors_proofs` | the theorems about `LoginLimiter`, `Sessions`, and, as instances, `TrafficAnalytics` and `Reports`; about `MCVisitors` |
| `Sums_proofs` | lemmas about sums, products and ranks over finite sets, for the other proofs |
| `MCChipLedger`, `MCSimulationRuns`, `MCAIPipelineGroup` | instances of one module each, with the refinements |
| `MCAIGroups` | a comparison, an instance of `AIPipelineGroup` for a single test, and one of `AIReportTab`, in one run |
| `MCAccounts`, `MCJobs`, `MCVisitors` | several components that share no state, in one run: `part` names the one a behaviour runs |

The modules that share state meet at abstract specifications. `ChipLedger`
implements `ChipAccount`; `SimulationRuns`, `AIPipelineGroup`, `InteractionHeatmap`
and `Quotes` use reservations at that level: settled once, by a transaction.
`PageAnalysis` implements `AnalysisOutcome` including its fairness, and
`SimulationRuns` (which has one `analysis` variable per run, because a launch
creates one analysis row per variant) is checked to be a user of the same
specification. `SimulationRuns` implements `RunLife` as well, and `RunsPage` is a client of
`RunLife`. `AIPipelineGroup` and `InteractionHeatmap` start where
`SimulationRuns` ends, `PersonaBatches` is the data of the stages whose order
`AIPipelineGroup` has, `AIReportTab` reads its rows, `WizardPage` is the client of `Wizard`, and `Analyzer`
gives the answers that `PageAnalysis` takes.

`MCAccounts`, `MCJobs`, `MCVisitors` and `MCAIGroups` put modules side by side, extending
those whose names do not collide and instantiating the others. One component runs in a
behaviour while the others stay in an initial state, so that the state spaces
add up instead of multiplying. The runs check the properties under the names they have
in the modules, which are the names the theorems use.

### ChipLedger

A session runs one transaction at a time. `orgLock` and `rowLock` are the row
locks; `pstatus`, `pposted`, `pcredited` and `delta` are what the session has
flushed and not committed; `view` is the session's identity map. `balance` is
the committed `SUM(amount)`, `posted[k]` the part of it that references
reservation `k`. `reserve_chips` is two actions, because other sessions commit
between its balance check and its insert (they can only add to the balance: the
organization is locked). `Credit`, `ConsumeReservation` and
`ReleaseReservation` are one action each, since the row or organization lock
covers their read and write. Calls that find the key known or the reservation
settled return or raise without a change and have no action. `Rollback` stands for every exception
and for a lost process.

`Preload` is a `session.get(ChipReservation, id)` before a settlement. SQLAlchemy
keeps the attributes of an object that is already in the identity map when a later
`SELECT ... FOR UPDATE` returns its row (unless `populate_existing` is set, which
the repository never does), so `LockReservation` leaves a loaded `view` alone.
`Spec` is the ledger as the simulation worker uses it; `PreloadingSpec` has the
action as well, which is how AI settlement, AI cancel and heatmap settlement use it.

Left out: `expires_at` of a reservation (written, never read), reasons and
reference columns. A reservation is named by its idempotency key.

### SimulationRuns

A transaction whose locks cover all it reads is one step. Two kinds are not and
live in `txns` from their reads to `CommitFinalize`, `CommitRetry` or `Rollback`:

* *finalize*: processing, recovery, reaping, fail-blocked and cancel move the
  rows they hold (`to`) and, for each launch they make terminal, resolve the
  group: take its advisory lock, read all its runs **without row locks**, decide
  (`Resolution`), and settle the reservations at commit.
* *retry*: `retry_run` locks its run, reads each reservation **without a lock**
  (`RetryRun` for the baseline, `RetryReadsAddon` for each add-on), and commits
  with the reservations it found no longer reserved replaced.

Groups, reservation ids and payment are at the level of what the properties tell
apart: prices are in `Quotes`, an insufficient balance is a `Rollback`, and a
reservation is a record of what its idempotency key is made of. A worker that
has claimed runs owes calls (`calls`): the first session of
`_process_claimed_run` (`ProcessRun`), then the second (`RecoverRun`). A worker
may lose any call. The reaper may take any running run, because claimed runs
wait for the earlier ones of their batch without a heartbeat: this covers every
timing. A deadlock that PostgreSQL breaks (advisory locks are taken in row order
by the reaper and the fail-blocked cron, and two retries of a comparison wait for
each other's runs) is the `Rollback` of its victim.

`HoldsExpire` says whether an hour can pass while a hold is open. `StaticRuns`
and `HopelessRuns` are the runs whose source is not a URL, and those of them
that `classify_run_failure` refuses to retry.

### PageAnalysis and ScreenshotRetention

Each transaction of the queue is one step: the row lock is held while the analyzer
answers, and claim, reap and restart exclude it. Workers interleave between
their transactions, die between them (`EndCall`), and come back late with their
second session (`Recover`). `fatal` abstracts `error_code` to whether it makes
the run not retryable, `delayed` abstracts `next_attempt_at` to whether it is in
the future. The purge of screenshots is three steps (two reads and the commit)
between which runs commit reports.

### Reports

Extends `ScreenshotRetention`: the runs of one test commit reports and the purge takes
pictures away while a request for a report reads. `get_report` and both exports do the same
reads, each a READ COMMITTED statement of its own: the other side of the comparison
(`FindSibling`), then the sections of that side, or of the report itself if there is none
(`ReadSection`, `ReadMap`), each of which looks for the capture anew, because nothing keeps
the object alive between them. In a comparison the capture of the report itself is read once,
for the checksums, and stays in the session's identity map for its three sections
(`ReadOwn`). A response is abstracted to its runs and to the sections that carry the link of
a screenshot; the browser asks for the picture later (`ShowImage`), when it may be gone. An
answer takes effect with its last read, as in `AIReportTab`. The metrics of a report never
change and are left out, as are runs from before captures were linked by a key
(`page_analysis_id` is null), the removal of a project, and moving from one report to another
without leaving the page.

### AIPipelineGroup

Starts where `SimulationRuns` ends: all runs of a group succeeded and the launch
left a reservation for the AI report. `pipelines` and `stages` are the rows,
`stages[p][k].output` is whether `validated_output` is stored, which nothing ever
deletes. A stage execution is a member of `leases` between its transactions: its
`attempts` and `generation` are what `ClaimedAIStage` carries and
`_relock_for_persist` compares. The reaper may requeue a stage whose worker
lives on, so several leases of one stage may exist, and a lease may outlive a
cancellation or a manual retry. `current` numbers the charges: 0 is the launch's
reservation, each manual retry makes the next.

What the code does in one transaction under the lock of the stage row is one
step. Three kinds of transactions read without row locks and stay open:

* settlement (`SettlementReads`, `SettlementCommits`): decides from the
  reservation and the pipelines, and settles the reservation it has loaded,
  whatever its status is by then (the stale identity map of `ChipLedger`);
* cancel (`CancelReadsPipelines`, `CancelReadsStages`, `CancelCommits`): writes
  the rows it saw as active without another look at them. It reads the runs before the
  advisory lock and the pipelines after it, so the charge it acts on may be any the
  runs have named so far;
* retry (`RetryReadsRuns` before the advisory lock, `RetryTakesLock`,
  `RetryAIPipelineGroup`): `Flushed` gives what the ORM writes, the columns
  whose value differs from the one read.

Advisory locks exclude only transactions of the same kind (each kind has its own
salt). The initialization that fails for good is three transactions
(`InitializationFails`, `RecordInitializationFailure`,
`ReleaseForPermanentError`) and the worker may die between them. What the
providers answer is success or one of three classes of errors.

`ClaimNextAIStage` is one step although only its stage is locked: its look at the status
of the pipeline and its write of `running` (`worker.py:373`, `:381-382`) are not apart.
What can get in between is named among the observations below; no property is about it.

Left out: provider configuration and execution keys (a changed configuration is
a permanent failure), `PARTIAL` and `SKIPPED` (never assigned), and the branch for
siblings whose reservation ids differ.

### RunLife and RunsPage

`RunLife` has the committed status of every run and the moves it can make; one step may
move several. `SimulationRuns` implements it (`LivesAsSeen`), with the status variable
itself as the refinement mapping: its transactions write when they commit.

`RunsPage` is the effect of `Simulations.tsx`: `polling` is its lock `inFlight`, `timer` the one
timeout, `polls` the requests that are out, each with the answer the server gave when it
read (`ListRuns`, one SELECT) until that arrives (`ListArrives`) or is lost (`ListFails`).
`Schedule` and `Poll` are the functions of the effect, called where the code calls them. The
buttons follow what is shown, not what is; the server decides by what is
(`CancelIsServed`, `RetryIsServed`). `RunsLive` is any other step of `RunLife`. Progress,
filters, results and the wording of errors are left out; `cancel` of a running run only
sets a flag there, which nobody sees.

### AIReportTab

Extends `AIPipelineGroup`: a user looks at one of its pipelines, `viewed`, while everything
else goes on. The page looks at the pipeline once (`initial`), and the tab starts from that
look, however old it is, polls the status until it is terminal or a request fails, and
fetches the report once a status has announced it. A request reads the pipeline
(`StatusReadsPipeline`, `ReportReadsPipeline`) and, in a later statement of the same READ
COMMITTED transaction, the stages (`StatusReadsStages`, `ReportReadsStages`): `call` and
`fetch` hold what the first one saw. A 409, a 404 and an error of the server or the
connection stay apart as far as the tab tells them apart. An answer takes effect with its
last read: that commutes with what the server does until the answer arrives, and the page
drops answers to a tab it has closed. `personas` is whether the personas of the run can be
counted when there is no manifest yet; a group that was found eligible has them.

### InteractionHeatmap

A claim is one transaction. The provider is called outside any, so an answer may
find its job reaped, claimed again or finished. A second run with the same evidence
reuses the first one's result. Settlement reads the runs in one statement and the
reservation and the jobs in later ones. Its stale reservation object is
`ChipLedger`'s `Preload`; baseline runs are reduced to their outcome.

### DesignGeneration

A worker claims in one transaction and then, per job, holds the row lock while the
provider draws; a second transaction fails a job still running. Cancel and delete
read without a lock and write later. Prompts and source assets are purged by age
while jobs wait.

### Quotes

`BuildQuote` gives the parts of a quote, each with its own reservation. A launch
is `Quote` (which takes the row lock of the free use and keeps it) and `Reserve`
(all parts, or a rollback), and `Settle` is the group resolution: success spends
what was reserved for the test and leaves the add-ons to their own settlement,
failure gives all of it back. Retries are in `SimulationRuns`. Requests name a
module at most once.

### Wizard and WizardPage

`Wizard` is the server: every request locks the draft, a patch is one step and a
launch five (begin, sources, annotations, runs, commit), between which the designs
and the image job that the draft names may vanish. The removal of a project reads,
then deletes. `WizardPage` is the browser: a form, the autosave timer, requests in
flight whose order nobody guarantees, quotes and analyses asked for and answered
late, the launch button with its last patch, reloads and lost answers. It has a
single design and one text field; a comparison repeats the same fields. The steps of the
wizard are not state: what belongs to one can be done at any time, and an upload or a
removal may end with the step of the selector left or not (`DesignBecomes`). A launched
draft that is opened again shows its form, whose changes are no longer saved
(`timer = "never"`).

### PersonaBatches and Personas

`Personas` computes with whole numbers of a small unit; the float noise of the code
and the seed both only decide ties, which are open. `PersonaBatches` takes the rows a
launch wrote through the six stages; a hash is what it is computed from, a refused
answer changes nothing, and `EditRow` and `DropRow` change rows by hand, which is
what the rebuild of the batches is there to notice (the program itself only adds
rows).

### Sessions and LoginLimiter

Requests read token rows without a lock and write when they commit; answers carry
cookies into the jar that all tabs share, and may be lost. A lost call either never
reached the server or is lost with its answer: a tab that gives up while the server is at
work, and sends another call meanwhile, is left out. `LoginLimiter` has one step per Redis
command.

### TrafficAnalytics

Rows of visitors, visits, events and acquisitions; `Overview`, `TimeSeries`,
`Funnel`, `TopCampaigns`, `UserLoginStats` and `TrackingLinkStats` are the figures
of the endpoints as functions of the rows.

### Analyzer and Launcher

One asyncio process: a step of `Analyzer` is what a task does between two awaits,
its state what the task of a request and its watchdog know of each other.
`Launcher` is the main thread of the supervisor with a signal handler that runs
between any two of its steps.

## What the runs check

| Run | Instance | Shows | States |
|---|---|---|---|
| `accounts` | ledger: 3 sessions, 3 reservations, 2 credits; 2 top-ups, 3 reviewers; 3 first accesses; 2 callers of a draft; 3 launches; 3 personas in 2 batches | `TypeOK`, `BalanceNonNegative`, `EntriesMatchStatus`, `AccountsTypeOK`, `FirstAccessIsSafe`, `DraftIsSound`, `PopulationAddsUp`, `PaidAsAgreed`, `SettledIsFinal`, `ImplementsAccount`. What an organization does with its account, under concurrent transactions: the ledger never overdraws and implements an atomic account, a top-up is decided once, first accesses cannot collide, a draft launches once and as a payload that can be tested, a launch pays the price of what it runs, personas add up and everybody counts once in the report. | 749 thousand |
| `preloading_settlement` | 2 sessions, `PreloadingSpec` | **violated**: `EntriesMatchStatus`. A session that loaded the reservation without a lock settles it from the stale object: the chips of one reservation are released twice, or after they were consumed. |  |
| `comparison` | one launch of two runs, one of them static, one add-on, 2 attempts, 1 retry each | `TypeOK`, `ChargedOnlyForSuccess`, `NothingLeftReserved`, `SiblingsShareAddons`, `CancelledNeverSucceeds`, `LivesAsSeen`. An A/B comparison with an AI report under claims, lost workers, reaping, cancels and concurrent retries of both runs: partial success never costs chips, nothing stays blocked, and the runs implement `RunLife`. | 904 thousand |
| `single_tests` | two launches of one run, one of them static, 1 attempt, 1 retry each, with fairness | `PaidOnce`, `UsesOutcome`, `RunsTerminate`. Two single-run launches of one organization that compete for the free entitlement: each is paid for exactly once, and every run reaches a terminal status, also after a manual retry. | 80 thousand |
| `double_charge` | a comparison, both runs retried | **violated**: `ChargedOnce`. Both runs of a comparison fail and are retried one after the other: each retry reserves the full baseline price and both are consumed. |  |
| `ai_groups` | two pipelines, one batch each, 1 manual retry, 2 executions; or one pipeline, two batches, 1 cancel, 1 manual retry, 2 executions; or the same with 1 execution, no cancel and a user of the report | `ChargedForReports`, `WorkIsReserved`, `StagesFollowGraph`, `SucceededKept`, `SingleTestHolds` (`StagesFollowGraph` and `NoWorkAfterCancel` of the single test, `ReportsAreWhole` and `ProgressNeverDrops` of the report that is looked at). Chips pay for complete reports only, unfinished work stays reserved, stored results stay, the stage graph stays intact, nothing is produced after a cancellation, and what the report's tab announces is there. | 1.19 million |
| `ai_settles` | one pipeline, one batch, 2 attempts, 1 manual retry, 2 executions, no cancel, with fairness | `TypeOK`, `OneWriterPerStage`, `ChargesSettle`. Two attempts per stage, late executions and a manual retry, no cancel request: no charge stays reserved for ever. | 208 thousand |
| `ai_stuck_retry` | as `ai_settles` with 1 attempt, one execution and a cancel request | **violated**: `ChargesSettle`. A cancel request that overlaps the end of a pipeline leaves a group whose paid manual retry can never run or settle. |  |
| `jobs` | 2 analyses; 2 runs with heatmaps; 1 image job; 2 captures; 3 services; 2 visits; 1 listed run; with fairness | `JobsTypeOK`, `SpentOnlyForHeatmaps`, `AttemptsStayApart`, `OneImagePerJob`, `ServicesStaySound`, `ImplementsOutcome`, `ResultsStay`, `JobsSettle`. The background jobs under lost workers, late answers, reaping, overlapping requests and purges: page analysis implements AnalysisOutcome, heatmap chips pay for delivered heatmaps only, an image job stores at most one image, every job and every charge ends, finished jobs stay and retention spares reports. The container that runs the services ends as a whole, reports a failure unless it was told to end, and starts nothing on an unprepared database; the browser service answers every request, and its memory watchdog neither hits another analysis nor passes for a crash. The page of runs goes on polling through lost answers and hidden tabs, and shows in the end what has become of the runs. | 63 thousand |
| `heatmap_unpaid` | as `jobs` | **violated**: `NoJobForReleasedChips`. One run of a comparison fails and the group's heatmap chips are released: the heatmap of the other run is produced all the same. |  |
| `visitors` | 2 tabs; 3 requests; 1 user, 3 days; 2 images, 2 changes; 1 test of two captures | `VisitorsTypeOK`, `WindowsHold`, `FiguresAndReportsHold` (`TrafficAddsUp` of the traffic, `ReportsAreSound` of the reports), `PageIsSound`, `EndedStaysEnded`. Two tabs, lost answers, expiry and reuse: an ended session never comes back; login limits hold when requests overlap; the traffic figures add up, and acquisitions survive cookies, repeated page views and retention; the wizard's page shows and launches what its form says while autosaves, quotes and analyses come and go; a report links every picture that is kept and has its sides where the comparison has them. | 1.37 million |
| `project_deletion` | one caller | **violated**: `LaunchedDraftStays`. delete_project reads the drafts of a project while one of them is being launched, waits for the launch and deletes the launched draft. |  |

An invariant named after a component (`DraftIsSound`, `TrafficAddsUp`, `ReportsAreSound`,
`PageIsSound`, `PopulationAddsUp`, `PaidAsAgreed`, ...) is a conjunction of the named
parts its module defines, each with its comment.

`PaidOnce` (`PaidInFull` and at most one charge) holds for single runs without expiry; `ChargedOnce` fails for a
comparison, and more configurations show where the others end (see "Further
counterexamples"): together they delimit where the code keeps its promise. The
same holds for `SucceededKept`, `ChargedForReports` and `ChargesSettle`, which need
that no cancel request overlaps the end of the work, and `WorkIsReserved`, which
needs that no two retry requests overlap a whole generation: `MaxRetries = 1`
excludes exactly that.

Each property of a passing run has a mutant: a definition with a plausible
mistake, written just before the one it replaces (`PROJECT.json`, `mutants`),
under which the property fails. A property that is a conjunction has several.

### Bounds, and why they suffice

* Two and three sessions: the ledger's locks are exclusive, so an interference
  needs a holder and a contender, plus one that commits in between. Credits of
  two chips against prices 2, 1, 1 make the balance exactly sufficient,
  insufficient and contested. Three reviewers, accesses or requests for the same
  reason; two callers of the wizard, because a third finds the draft launched.
* `MaxAttempts = 2` (3 in the code) is the smallest value with a first,
  a repeated and an exhausted attempt. `MaxRetries` bounds manual retries, which
  the code does not; the double charge and the race need one per run.
* For the AI report `MaxAttempts` is 2 in the code and in `ai_settles`, the run in
  which an execution may be taken over within its generation; the others use 1
  and reach the same states after a failure sooner. Two batches are what fan-in
  needs, two executions at a time what a takeover needs. One cancel request is
  open at a time because of its advisory lock; a second finds nothing active
  unless a retry came between.
* An A/B launch has two runs in the code, never more. Two launches are what a
  conflict over one entitlement row needs; three of them with four kinds of
  requests and 12 chips (`Funds`) make free uses and chips run out in every order.
* `HopelessRuns` is empty in the runs: such a run is one that no retry touches.
* Heatmaps: two runs, two attempts, one baseline retry. Image jobs: one at a time
  has a row of its own, so one suffices; three attempts as in the code.
* Sessions: two tabs, three tokens (`MaxTokens`), two requests in flight
  (`MaxCalls`): a rotation, a reuse of the old token and one overlapping request.
* Limits: three overlapping requests, limits 2 and 1, no arrival at a counter of 2
  (`MaxCount`).
* Traffic: one user and one campaign, three days with a retention of one, two page
  views and visits, five events (`MaxEvents`): a visitor can come back after it was
  purged. `SeriesGuard` is 3 days for 366.
* The wizard's page: two images, two changes (`MaxEdits`), two patches in flight
  (`MaxFlight`): an older one can overtake.
* Personas: weights in tenths, distributions that divide with and without
  remainders, with ties and off by the tolerance; one or two dimensions; 7, 20 and
  33 personas; at most 6 segments and 3 personas.
* Batches: three personas in batches of two (a full batch and a rest), weights 1 and
  2, one change by hand, one hypothesis, two of the completions.
* Analyzer: one page and one device measurement of two profiles that compete for
  one place; no redirects in the run, since their count only matters to
  `RedirectsWithinLimit`. Container: two services besides nginx, two preflight steps.
* Page of runs: one run, since neither its polls nor its lists mix runs; two requests at
  a time (`Polls`), one more than its lock allows.
* Reports: a test of two captures, one side with a heatmap from the DOM, one with a visual
  heatmap and an AI heatmap. Until the other side has its report, a request finds none, as in a
  test of one. One page and
  one request at a time: requests only read.
* `CHECK_DEADLOCK FALSE` where all runs, jobs or requests may be finished.
* Symmetry: `MCAIGroups` (pipelines, batches), `MCAccounts` (callers) and
  `MCVisitors` (tabs), in runs without liveness properties; the definitions treat
  these values alike.

### Fairness

`worker.py` (lines 403-440) schedules claims, reapers and the fail-blocked job
every few seconds for ever: weak fairness of claiming and, since a row may be
locked again and again, strong fairness of reaping and failing a given run.
`AnalysisSettles` is weakly fair because `PageAnalysis` implements
`AnalysisOutcome!FairSpec` from the crons alone. A transaction that is tried
again and again commits at last (strong fairness of commit): without it every
transaction could be rolled back for ever. Processing is not fair: a worker may
die at every step, and progress comes from the reaper. In `PageAnalysis` only
time, claim and reap are fair. In `AIPipelineGroup` the crons claim, reap,
initialize and settle for ever, a worker ends every lease (by dying at the
latest, which then is the reaper's affair), and the steps that a crash may lose
(the record of a failed initialization, its release, the commit of a settlement)
are strongly fair: lost any number of times, not every time. `UncancelledSpec` is
the same without cancel requests.

`JobsFairness` of `MCJobs`, besides: the crons of heatmaps, image jobs and the
purge; that a baseline run ends (`RunsTerminate` of `SimulationRuns`); that a
worker that draws an image ends or dies; that time passes. The supervisor's main
thread runs on, because every preflight step has a timeout. In the browser service
a launch ends, the total timeout fires and `browser.close()` returns; a page may
take for ever. A timer of the page of runs fires, and requests that are sent again and
again are answered in the end (strong fairness: any of them may be lost). Users, providers
and pages are never fair.

## What is proved

Every theorem holds for all values of the constants under the named `ASSUME`s of its
module; what a theorem needs beyond them is in its statement. The pattern is the same
everywhere: an invariant `Inv` that is inductive, one step per action and under it one
per conjunct the action can disturb, and PTL for the temporal step. What an invariant
adds to the property it proves is the interesting part, and is told here. Each proof
module was tried against mutants of the model, and with none of them does it go through.

**Ledger** (`ChipLedger_proofs`; any sessions, reservations, positive prices and credits).
`LedgerTypeCorrect`; `LedgerNeverOverdrawn` (`BalanceNonNegative`, also for sessions that
preload); `LedgerEntriesMatch` and `LedgerSettledIsFinal` for `Spec`, in which nobody
preloads: the run `preloading_settlement` shows why. `FundsInv` adds that
`balance + delta[s]` is never negative, that only the holder of the organization lock can
owe (`delta[s] < 0`), and that an open `reserve_chips` call is still covered: when
another session commits it does not hold the lock, so it can only raise the balance.
`RowInv` adds that what a session has written to a reservation is backed by the lock
that let it write, and that the object a session holds locked is up to date.
`LedgerImplementsAccount` (`ImplementsAccount`): every commit is one `Transact` of
`ChipAccount`, everything else a stutter. `AccountInv` relates the sums: the balance is the
credits plus the rows of all reservations, a session's `delta` the same of what it has
not committed, and only the holder of the organization lock has uncommitted credits. With
`RowInv`, by which a reservation's rows are `-Cost`, or 0 once it is released or not yet
there, that is the balance `ChipAccount` computes. `KeysAssumption`: finitely many reservations and
credits in one behaviour, as in every database.

**Sums** (`Sums_proofs`). The refinement, the prices and the figures of the traffic add up
over sets with the folds of the community modules, which are recursive functions over
the subsets of a set. The library's induction theorem cannot be instantiated here, but
its well-founded minimum can: the set of subsets for which a claim fails is a set, and has
no minimal member. That gives that such a function exists and is unique (`RunningExists`,
`RunningUnique`), that a fold takes its elements in any order (`SumRemove`), and from there sums of
parts, of changes, of equal terms, and the same for a fold that adds with a LAMBDA (`AddsOnIsSum`).
`PartsAddUp`: the sizes of disjoint parts add up to the size of the whole, and `SumOfParts` the same
for any sum. `ProductOfSums`: a product of sums is the sum, over every choice of one term each, of
the products. `CardinalitiesAreRanks`: in a finite total order the numbers of elements before
are 0, 1, 2 and so on, each once; the position of a persona among the others and the rank of a
segment are that.

**Prices** (`Accounts_proofs`). `LaunchesPaid` (`LaunchesArePaid`), and `AccountsPaidAsAgreed` for
the whole of `PaidAsAgreed`. `PriceInv` adds that what an order holds or has spent fits its
quote in every step of its launch (`OrderFits`), that a quote read before the lock still says of the
free use what the lock will find, or the launch is refused (`QuotesStand`), and that the chips of the
organization are what no order holds (`BoundChips`). `PricingAssumption`: finitely many orders,
prices and persona counts that are natural numbers, finite sets of modules.

**Population** (`Accounts_proofs`). `AccountsPopulationAddsUp` (`PopulationAddsUp`), of two halves.

* `CohortsAlwaysAddUp` (`CohortsAddUp`): the weights of all combinations of buckets add up to the
  product of the distributions' sums (`ProductOfSums`), so that exact shares add up to the persona
  count; what rounding down leaves over is less than one for each combination, so there are
  enough remainders to give one each (`EnoughRemainders`): never two, and never a slice from
  the end. The largest segments are as many as allowed because `LargerThan` is a strict
  total order of the keys (`LargestFirst`), and a segment among them is merged into itself
  (`NearestToItself`), so no weight falls below its count. That needs the sums
  to be the whole, which is a hypothesis inside `CohortsAddUp`: `SampleAddsUp` fails without it.
  `CohortsAssumption`: distributions of whole units, natural persona counts.
* `BatchesAlwaysSound` (`BatchesAreSound`): `BatchesInv` adds that from stage 3 on the manifest is that
  of batches which the code cuts (`ManifestFits`; `CutInto` says what those are), that what
  is queued and answered is about these batches although the rows may have been changed and
  changed back (`QueueFits`, `EstimatesFit`), and that stage 5 is only let in when every batch
  is answered. That two batches share no index (`CutsApart`) is what makes an answer
  unique for its persona (`OneResult`), and with it the completions a partition of the personas,
  over whose weights `SumOfParts` adds up. Note what is not used: the rows stage 5 reads need not be
  those of the manifest, as long as they have the same indexes (`TotalOfTheBatches` does not
  hold). `BatchesAssumption`: positive weights, which the table demands, a positive batch size,
  finitely many kinds of completion.

**The account's types** (`Accounts_proofs`). `AccountsTypeCorrect` (`AccountsTypeOK`), from the invariants of
all components (`AccountsInv`); the draft needs `AroundDraft`, the designs and the project beside it.

**Top-ups** (`Accounts_proofs`). `TopUpsDecidedOnce`, a part of `PaidAsAgreed`: `ReviewInv`
adds that a review that has read its request under the row lock still finds it
pending, and no other review has.

**Runs** (`SimulationRuns_proofs`; any runs, launches, add-ons, workers, attempts and
retries, with or without expiring holds).

* `RunsTypeCorrect`, `CancelIsHonoured` (`CancelledNeverSucceeds`) and `RunsLiveAsSeen`
  (`LivesAsSeen`: the runs implement `RunLife`, initial state and every step) rest on `RowInv`: open transactions hold disjoint rows
  (`DisjointRows`), what each has read of its rows is still true (`StillAsRead`: a run that is
  to succeed is running and not to be cancelled, one that is retried has failed), and a queued
  run has an attempt left.
* `ChargesFollowSuccess` (`ChargedOnlyForSuccess`) rests on `ChargeInv`: reservations
  belong to the launch of the runs that name them, and a transaction that is about to
  consume still finds full success. Resolution reads the siblings without row locks;
  this is where it is shown to be harmless, since success is final.
* `AddonsAreShared` (`SiblingsShareAddons`) and `LaunchesSettle` (`NothingLeftReserved`) rest on
  `SettleInv`: one transaction resolves a launch at a time (`OneResolver`, the advisory
  lock), whoever ends a run resolves its launch (`EndingIsResolved`), a resolution that
  decided to wait is right to (`WaitIsRight`) and one that settles has all there is to
  settle (`DueIsComplete`) unless a retry put a run back, what is reserved is named by a
  run, and what a retry found unpaid is not reserved again. `GroupAssumption` (every launch
  has a run) and `KeyAssumption` (the keys of runs, launches and kinds differ) are how
  the code makes idempotency keys.
* `TestsArePaidOnce` (`PaidOnce`) rests on `PaymentInv`: a transaction settles only runs it
  holds (`SettlesOwn`), no reservation of a launch is younger than the one its run names,
  so that the key a retry makes is new (`NoneYounger`), what was consumed is still named
  (`ConsumedIsNamed`), a run that may yet succeed has its reservations and its free use
  (`Funded`, `FreeUseHeld`), and what a retry has read without a lock still holds when it
  commits (`RetriesStand`). Hypotheses: `SingleTests`, launches of one run, and
  `~HoldsExpire`. Both are needed: `MCRetryRace` has two runs, `MCHoldExpires` lets the hold
  expire, and each violates the property.
* `RunsUseOutcome` (`UsesOutcome`): every step of the runs changes an analysis as
  `AnalysisOutcome` allows, or not at all.

**Page analysis** (`Jobs_proofs`). `AnalysisTypeCorrect` (two places count attempts,
neither exceeds the bound) and `DelaysEndWithAttempts` (`DelayOnlyBetweenAttempts`, in
`AttemptsStayApart`) from the invariant `JobInv`; `AnalysisImplementsOutcome`: `Spec => Outcome!Spec`,
the refinement with every step a step of `AnalysisOutcome` or a stutter. With
`RunsUseOutcome` the two modules meet at a specification that both sides are proved
to respect. The fairness half of `ImplementsOutcome` is checked.

**First accesses** (`Accounts_proofs`). `FirstAccessesAreSafe` (`FirstAccessIsSafe`): `AccessInv`
adds that who has found a row knows one that exists, and that one insert is alone.

**Drafts** (`Accounts_proofs`). `DraftsAreSound` (`DraftIsSound`): `DraftInv` adds that between its
row lock and its commit a launch is alone and the draft is still one (`LockedByLaunch`),
that a launch past its checks of the sources holds a payload that passed them
(`LaunchFits`), and that what has been launched is the one committed launch (`LaunchedOnce`).

**The wizard's page** (`WizardPage_proofs`). `PagesAreSound` (`PageIsSound`): `PageInv` adds that the
quote the page waits for is the one for its form (`QuoteAwaited`), that the candidates
kept are those of the image in the selector (`CandidatesShown`), and, as long as nothing
has got in between a click and its launch, that every message in flight says what was
clicked and that the draft says it too from the acceptance of the last patch on
(`QuietLaunch`). The proof is where the order of autosave, final patch and launch matters:
an autosave still in flight may overtake the final patch and does no harm, since it too
says what was clicked.

**AI pipelines** (`AIPipelineGroup_proofs`; any pipelines, batches, attempts, retries,
cancels and executions).

* `PipelinesTypeCorrect` from `RowInv`, which adds that what an open retry has read is right
  where its flush depends on it (the ORM writes only changed columns, so a stale
  read decides what is written), and that no pipeline begins after a permanent
  initialization error.
* `OneResultPerStage` (`OneWriterPerStage`) from `LeaseInv`: a claim of a generation has a
  number of its own, at most that of the last claim of its stage.
* `PipelinesFollowGraph` (`StagesFollowGraph`) from `GraphInv`, and `CancelledGroupsRest`
  (`NoWorkAfterCancel`, in `SingleTestHolds`), a property of steps.
* `ResultsAreKept` (`SucceededKept`), `ChipsPayForReports` (`ChargedForReports`) and
  `RunningWorkIsReserved` hold for behaviours in which nobody cancels (`[](cancels = 0)`, in
  the theorems): with a cancel request they are false (`MCAICancelRace`, `MCAIRefund`
  and `ai_stuck_retry`). `UncancelledInv` says that stored output and success agree and that
  a retry has read the failure; `MoneyInv` that a group that cannot be initialized never
  runs, and that what a settlement has decided stays right until it commits
  (`DecisionStands`).
* `RunningWorkIsPaid` (`WorkIsReserved`) also needs `MaxRetries <= 1`: with two overlapping
  retries a charge is left behind (`MCAIRetryRace`). What remains true of any number is
  `RunningWorkIsReserved`.
* `AnnouncedReportsAreThere` (`ReportsAreWhole`) and `ShownProgressGrows` (`NeverDrops`), both in
  `SingleTestHolds`, and `TabTypeCorrect`. `TabRunsGroup` says that a behaviour with a reader is
  one of the group, so that its invariants can be cited. They are claims about behaviours
  up to the first cancellation, which the formula itself says (`cancels = 0 => ...`), so the
  invariant of the group they need is `UntilCancelled`, which says the same of
  `UncancelledInv`. `RequestsBelong` says which request may be under way on which page,
  and `ReaderSees` what a reader holds (`Seen`): a pipeline it was told has succeeded still
  has, the successes it was told of are at most those there are now (`DoneGrows`, from
  `SuccessStays`), and it was given the full number of batches unless nothing was done yet.
  `RoundedGrows` and `NothingRounded` are about the rounding of the percentage.

**Heatmaps** (`Jobs_proofs`). `ChipsBuyHeatmaps` (`SpentOnlyForHeatmaps`),
`ResultsAreOfLastAttempt` (in `AttemptsStayApart`) and `FinishedJobsStay` (in `ResultsStay`).
`HeatmapAssumption`: the two limits are natural numbers.

**Services** (`Jobs_proofs`; the modules share no state).

* `ImagesAreStoredOnce` (`OneImagePerJob`): `DesignInv` adds that who draws holds the lock of
  the row, which is still running (`DesignAssumption`: at least one attempt).
* `ContainersFailClosed` (`ContainerFailsClosed`, in `ServicesStaySound`): outside the moment
  between spawning a process and registering it every process is known (`AllKnown`), the
  way to the end goes through signalling and waiting (`WayToTheEnd`), nothing but the
  frontend runs before the preflight is done (`PreflightFirst`). `ServicesAssumption`: the
  preflight steps, the redirects and the profiles of a measurement are numbers, the services
  other than the frontend are others, and there are finitely many analyses.
* `ReportsAreIllustrated` (`ReportsKeepScreenshots`, in `ResultsStay`).
* `WatchdogsKeepToThemselves` (`AnalyzerIsSound`, in `ServicesStaySound`): whoever runs a
  watchdog holds the only place (`ChromiumInv`), so that killing every Chromium kills
  one's own. Hypothesis `MaxConcurrent = 1`: the default of the code
  (`analyzer/app/config.py:69`) and what `render.yaml` sets. It is necessary, not a
  convenience: with the 2 that `docs/security.md:125` gives as the default TLC finds one
  analysis losing its browser to the watchdog of the other.
* `PagesGoOnAsking` (`PollingGoesOn`, in `ServicesStaySound`) and `PagesTakeNothingBack` (`ShownIsFinal`,
  in `ResultsStay`): `ListInv` adds `ListsKeepOrder`: what a list says of a run that has ended for good is still
  true, and a list on its way says it too if the one on the screen does. It needs of the
  server no more than `RunLife`, which `RunsLiveAsSeen` proves of the workers, and of the page
  that one request is out at a time.
* The runs check these in one specification, where `part` names the component a behaviour
  runs. `JobsAreTheirParts` says that such a behaviour is one of the component it names, and
  with it `JobsStayApart` (`AttemptsStayApart`), `JobsResultsStay` (`ResultsStay`),
  `JobsServicesSound` (`ServicesStaySound`) and `JobsTypeCorrect` (`JobsTypeOK`) state the very
  properties of the run. The last two need `MaxConcurrent = 1`. The type of the image jobs
  needs that a queued job has an attempt left (`DesignTypes`).

**Visitors** (`Visitors_proofs`; the modules share no state).

* `LimitsHold` (`WindowsHold`): `LimiterInv` relates the counter to the number of requests
  the window has let through (`GrantsCounted`) and says who owes the TTL and the lockout
  (`Dated`, `Locking`). `LimitAssumption`: finitely many requests, a positive login limit.
* `SessionsStayEnded` (`EndedStaysEnded`, a property of steps): every token names its
  predecessor, which is in the same chain and older (`TokensNamed`), and only a token
  that is alive gets a successor (`OnlyAliveGoOn`).
* `ReportsShowWhatIsKept` (`ReportsAreSound`, in `FiguresAndReportsHold`; captures of a test
  with one side of each kind, `ReportsAssumption`, which `_variant_specs` guarantees): `ReportInv`
  adds `ResponseFits`, which says of the request and of the page that they link nothing they
  have not read. Without it `LaterLinksLess` is not inductive: a link from nowhere under the
  AI panel would stay when the overlays are read from a purged capture. That a section read
  later never has more needs that a purge is for good (`PurgedForGood`), and that a report
  comes after its capture (`CapturedFirst`).
* `FiguresHold` (`TrafficAddsUp`, in `FiguresAndReportsHold`; any users, campaigns, browsers' page
  views, retention and days): `TrafficInv` adds that a visitor that is kept has the touch it first
  came with, a visit that is kept has its visitor, and an account has the first touch of
  the visitor it came by (`RowsFit`); that the visitor and the visit of a page view were seen no
  earlier than the page view (`EventsFit`). The last is why the purge, which deletes
  events, visits and visitors by three different columns, leaves no kept page view without
  its visitor. The daily series is shown to add up by cutting the events by day
  (`PartsAddUp` of `Sums_proofs`), the logins by cutting them by user. `TrafficAssumption`: finitely
  many users, numbers for the limits, and a guard of at least one day.
* `VisitorsFiguresHold` (`FiguresAndReportsHold`) puts both into the specification of the run, by
  `VisitorsAreTheirParts`, and so does `VisitorsTypeCorrect` with the types (`VisitorsTypeOK`).
  What it bounds is not bounded by a guard of its own: an attempt arrives at a counter below
  `MaxCount`, but all that overlap still count, so `CountsBounded` counts them in; a
  request of the wizard's page takes the place of the one before it (`FlightTyped`, for
  `PageTypeCorrect`); and a commit revokes rows that were read when there were fewer.

Proving changed the models where they could not be reasoned about or were wrong:
`CodeOf` of `Analyzer` and `JarAfter` of `Sessions` had a CASE whose guards overlapped, which
TLC reads in order and TLA+ does not; the transactions of some modules are now
written as records in full, and the merge of a patch in `WizardPage` as a function; the
batches of `PersonaBatches` are cut from the personas by position instead of by `SortSeq`, which the
prover cannot open; the assumptions on keys above were implicit.

### Only model-checked

* All liveness: `RunsTerminate`, `ChargesSettle`, `JobsSettle`, the fairness of
  `ImplementsOutcome`. ENABLED and fairness are outside of what the provers do here.

## Disagreements with the code's own documentation

`PROJECT.json`, `findings`, quotes the comments:

1. **Stale settlement** (`preloading_settlement`). A reservation loaded by
   `session.get` and then locked is settled from its stale status: two concurrent
   settlements, or a settlement and a cancel, release the same chips twice. The
   comments promise one ledger result.
2. **Double charge of a retried comparison** (`double_charge`). Both runs fail, both
   are retried: each retry reserves the whole baseline price, and both are consumed.
3. **A paid retry that never runs** (`ai_stuck_retry`). A cancel request that read a
   pipeline as running commits after its last stage succeeded, or after a retry has
   read the pipeline: the retried pipeline is queued with nothing to claim, and its
   new reservation is never settled.
4. **A heatmap nobody pays for** (`heatmap_unpaid`). One run of a comparison fails
   and the group's heatmap chips are released; the claim looks at the other run
   alone and its heatmap is produced all the same.
5. **A launched draft that is deleted** (`project_deletion`). `delete_project` reads
   the drafts before a launch commits and deletes them after it.

### Further counterexamples

These configurations are kept beside the runs; TLC finds each violated within
seconds (`tlc -config <cfg> <module>`):

| Configuration | Module | Violated | What happens |
|---|---|---|---|
| `MCRetryRace` | `MCSimulationRuns` | `PaidInFull` | A retry that reads the shared reservation while the sibling's resolution releases it ends in a comparison nobody pays for (`simulation_worker.py:832`). |
| `MCHoldExpires` | `MCSimulationRuns` | `PaidInFull` | A hold on the free entitlement expires after an hour under a launch that still runs, and another launch takes it (`entitlements.py:115`). |
| `MCAICancelRace` | `MCAIPipelineGroup` | `SucceededKept` | Cancel overwrites a stage that succeeded after it was read as running (`mutations.py:495`; lines 437-438 promise that succeeded stages are kept). |
| `MCAIRefund` | `MCAIPipelineGroup` | `ChargedForReports` | Cancel between the last success and the next settlement cycle gives the chips of a finished report back (`mutations.py:466-474` refuses only once they are consumed). |
| `MCAIRetryRace` | `MCAIPipelineGroup` | `WorkIsReserved` | A retry request that read the reservation id before another retry, and gets the lock after that one failed again, reserves a third time; the second reservation is never settled (`mutations.py:275`, against lines 277-279). |
| `MCLauncherRace` | `MCJobs` | `AskedBeforeKilled` | A signal handled while `start()` spawns services is not sent to those spawned after it (docstring, `render_free_launcher.py:15-16`). |

### Formulas that are not invariants

Kept in the modules with a comment, because each says where a guarantee ends; TLC
refutes them when they are added to the run of their component:

| Formula | Why it fails |
|---|---|
| `InteractionHeatmap!DeliveredIsPaid` | a settlement that read a failed run before its retry releases the chips after both heatmaps are delivered |
| `DesignGeneration!CancelledIsUnfinished` | a cancel decided from an unlocked read is written over a job that has finished |
| `ScreenshotRetention!EveryReportKeepsScreenshot` | a report committed between the purge's look at reports and its commit loses its screenshot |
| `Sessions!TabsKeepLiveToken` | two tabs, or a lost answer, leave a revoked token in the jar: the next refresh signs the user out |
| `TrafficAnalytics!ConversionAtMostOne` | the sign-ups of a link outlive the page views they are divided by |
| `RunsPage!AsksAfterAction` | the poll that follows a button ("aninda tazeleme", an immediate refresh, `Simulations.tsx:518-519`) is dropped while an older request is out, whose answer may say what was before: the page catches up a timer later |
| `Wizard!ReportedProjectStays` | a report committed after the look at the reports does not stop the removal |
| `Wizard!SnapshotNamesOneSource` | a side switched back to its URL keeps its asset |
| `WizardPage!LaunchedAsClicked` | an autosave in flight gets in between the last patch and the launch (comment `TestWizard.tsx:460`) |
| `WizardPage!DraftNamesUsableImage` | the draft names a deleted image while the form names none, and every autosave is refused |
| `Personas!SampleAddsUp` | a sum off by the tolerance moves more personas than there are remainders; a launch refuses such a sample, the initialization of the pipeline checks the total again |
| `PersonaBatches!TotalOfTheBatches` | the last stage reads rows without comparing them with the batches |
| `Analyzer!NothingLeft` | the analysis fails when its browser closes and cancels the watchdog before it has reaped (docstring `browser.py:244-250`) |
| `Analyzer!PressureIsReported`, `Analyzer!TooLargeIsTerminal` | timeouts, skipped scans and crashes hide the cause |
| `Analyzer!RedirectsWithinLimit`, `Analyzer!EveryProfileCounts` | iframes count as redirects; profiles skipped under pressure are not errors |

### Observations met while modelling

Not settled by a run, for whoever maintains the code:

* Two retries of a comparison, and the reaper against the fail-blocked cron, take
  advisory locks in different orders (`simulation_worker.py:371`, `:895`): PostgreSQL
  breaks the deadlock, the loser's transaction is rolled back.
* A free use whose hold has expired is still not offered by a quote, which asks for
  the status `available`: only `reserve_entitlement`, which a launch then does not
  call, would free it. A module key that appears twice in a draft is charged twice.
  A launch quotes again and is not compared with the price that was shown, nor with
  the status of the project.
* A queued image job whose prompt was purged is drawn from an empty prompt.
* A request that dies between INCR and EXPIRE leaves a counter without TTL.
* `first_project` and `first_test` are recorded again once retention has purged their
  keys (`projects.py:135`, `routers/test_wizard.py:340`); the daily series is cut after
  366 days; `total_unique_visitors` ignores the dates and the
  organization, and its filter by source (`routers/analytics.py:449`) looks at `utm_source`
  only, that of the other figures (`:343-349`) at the referrer too. The filter by source is
  not modelled.
* FastAPI drops the cookies set on the injected response when a handler raises
  `HTTPException`; `getMe` at page open never refreshes; a rotation in flight when a
  chain ends adds one more token to it.
* A poll that fails after a status was shown ends the polling (`statusError`), and the panel of a
  pipeline that is still preparing has no button, although the comment at
  `AiReportTab.tsx:172-174` counts on one: the tab stands still until it is opened again.
* The guard of `runAction` (`Simulations.tsx:593`) reads the `pendingActions` of the first
  render, which stay empty: the disabled button is what keeps a second request away.
  Nobody calls `clear_progress`: until its key expires, a run queued again may show the
  percentage of its last attempt.
* A claim that has read a pipeline as queued, while another stage of it is claimed, fails
  and commits, overwrites `failed` with `running` (`worker.py:373-382`): nothing locks the
  pipeline between the read and the flush. Both stages must be queued, as after a manual
  retry.
* The selector forgets an annotation only while it is on the page: an image that replaces
  another after the user has left the second step keeps the old annotation in the form,
  which every following patch sends and the server refuses
  (`ScreenshotCtaSelector.tsx:106-117`) until it is cleared.
* `ManifestRehydrationError` in the prepare and finalize steps is not caught: the
  stage stays running until the reaper takes it. The input hash of the aggregation
  does not cover the personas.
* `DesignAssetUnavailable` and `NotFound` at `create_analysis` are not caught by the
  launch router; a preset update races its archive, and archived presets resolve.
* JSON leaves out undefined fields, so the server keeps a `new_design_asset_id` that
  the page has cleared; a late annotation answer is written into the form for
  whatever image is there; the page shows the label of the old quote while it loads.
* A heatmap from the DOM links its picture without looking whether it is there
  (`reports.py:705-707`): after the purge the page of such a report has a broken image, where the other
  sections say why there is none (`SCREENSHOT_MISSING_REASON`). `loadReport` does not
  cancel its request: of two reports opened one after the other by the browser's history the
  answer that comes last is shown.
* A device measurement has no total timeout; a page that hangs in one keeps the
  semaphore (`VisitsEnd` excepts it). The backend's default analyzer timeout of 30 s
  (`config.py:146`) is shorter than the analyzer's own 150 s, whose comment assumes
  180 s; waiting for the semaphore is not counted. The worker knows two of the
  analyzer's error codes.

## Plan

What is left, in this order:

1. An abstract specification of a reservation's life for `AIPipelineGroup` and
   `InteractionHeatmap`, and the refinement.
2. A comparison in `WizardPage`; calibration runs and persona presets.

## Not modelled

* `engine/`: pure scoring; a run only knows whether it succeeded.
* Prompts, JSON schemas of findings, provider HTTP clients, the metrics and findings in reports and
  the columns of CSV exports, the list of drafts.
* `calibration.py`, persona presets, tenant cleanup, most settings: single-row writes.
* What a page contains and the checks of addresses (`url_safety`): outcomes only.
* Pages of the frontend other than the wizard, the runs and a report with its AI tab: they show what they are given. In the
  wizard, the restart of the selector when a test becomes a comparison, and the button that
  clears an annotation.
* Startup, health checks and dependency probes of the worker.
