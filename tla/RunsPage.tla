------------------------------ MODULE RunsPage ------------------------------
(***************************************************************************)
(* The page of simulation runs, frontend/src/pages/Simulations.tsx, over   *)
(* the requests of backend/app/routers/simulations.py: it polls the list   *)
(* of runs, often while one of them is active, pauses while its tab is     *)
(* hidden, and offers to cancel or retry a run by what it shows.  The runs *)
(* live as RunLife says, which SimulationRuns implements.                  *)
(***************************************************************************)
CONSTANTS
  Runs,
  Polls,   \* bound: requests for the list that may be out at once
  NoList   \* null: no list has arrived yet

VARIABLES
  life,     \* the committed status of every run
  open,     \* the page is mounted
  hidden,   \* document.hidden
  polling,  \* inFlight: the lock of poll
  polls,    \* requests for the list that are out, with the answer the server gave
  timer,    \* none, active (POLL_ACTIVE_MS) or idle (POLL_IDLE_MS)
  shown,    \* runs and latestRuns
  pressed   \* pendingActions, and how far the request of a button is

runsPageVars == <<life, open, hidden, polling, polls, timer, shown, pressed>>

Server == INSTANCE RunLife WITH status <- life
Statuses == {"none"} \cup Server!Active \cup Server!Ended
Lists == [Runs -> Statuses]

RunsPageTypeOK ==
  /\ life \in Lists
  /\ open \in BOOLEAN /\ hidden \in BOOLEAN /\ polling \in BOOLEAN
  /\ polls \subseteq [id : Polls, list : Lists \cup {NoList}]
  /\ timer \in {"none", "active", "idle"}
  /\ shown \in Lists \cup {NoList}
  /\ pressed \in [Runs -> {"none", "retry", "cancel", "accepted", "refused"}]

Idle == [r \in Runs |-> "none"]

RunsPageInit ==
  /\ Server!Init
  /\ open = FALSE /\ hidden = FALSE /\ polling = FALSE
  /\ polls = {} /\ timer = "none" /\ shown = NoList /\ pressed = Idle

-----------------------------------------------------------------------------
(* schedule, in the finally of poll: it pauses while the tab is hidden.     *)
HasActiveRuns(list) == list # NoList /\ \E r \in Runs : list[r] \in Server!Active
Schedule(list) ==
  timer' = IF hidden THEN "none" ELSE IF HasActiveRuns(list) THEN "active" ELSE "idle"

(* Mutant: nothing keeps a second request from starting.                    *)
PollWithoutLock ==
  /\ polling' = TRUE
  /\ polls' \in {polls \cup {[id |-> p, list |-> NoList]} : p \in Polls \ {m.id : m \in polls}}
       \cup {polls}

(* poll: one request at a time.                                             *)
Poll ==
  IF polling THEN UNCHANGED <<polling, polls>>
  ELSE /\ polling' = TRUE
       /\ \E p \in Polls \ {m.id : m \in polls} : polls' = polls \cup {[id |-> p, list |-> NoList]}

(* The effect of the page and its cleanup: what is out when the page is     *)
(* left finds its closure cancelled.                                        *)
OpenPage ==
  /\ ~open
  /\ open' = TRUE
  /\ Poll
  /\ UNCHANGED <<life, hidden, timer, shown, pressed>>

LeavePage ==
  /\ open
  /\ open' = FALSE
  /\ polling' = FALSE
  /\ polls' = {}
  /\ timer' = "none"
  /\ shown' = NoList
  /\ pressed' = Idle
  /\ UNCHANGED <<life, hidden>>

(* handleVisibility.                                                        *)
Hide ==
  /\ ~hidden
  /\ hidden' = TRUE
  /\ timer' = "none"
  /\ UNCHANGED <<life, open, polling, polls, shown, pressed>>

(* Mutant: the tab waits for its timer, which hiding it has cleared.        *)
ShowWithoutPoll ==
  /\ hidden
  /\ hidden' = FALSE
  /\ UNCHANGED <<life, open, polling, polls, timer, shown, pressed>>

Show ==
  /\ hidden
  /\ hidden' = FALSE
  /\ IF open THEN Poll ELSE UNCHANGED <<polling, polls>>
  /\ UNCHANGED <<life, open, timer, shown, pressed>>

TimerFires ==
  /\ timer # "none"
  /\ timer' = "none"
  /\ Poll
  /\ UNCHANGED <<life, open, hidden, shown, pressed>>

(* list_runs: one SELECT.                                                   *)
ListRuns(m) ==
  /\ m.list = NoList
  /\ polls' = (polls \ {m}) \cup {[m EXCEPT !.list = life]}
  /\ UNCHANGED <<life, open, hidden, polling, timer, shown, pressed>>

ListArrives(m) ==
  /\ m.list # NoList
  /\ polls' = polls \ {m}
  /\ polling' = FALSE
  /\ shown' = m.list
  /\ Schedule(m.list)
  /\ UNCHANGED <<life, open, hidden, pressed>>

(* Mutant: only an answer starts the timer again.                           *)
ListFailsUnscheduled(m) ==
  /\ polls' = polls \ {m}
  /\ polling' = FALSE
  /\ UNCHANGED <<life, open, hidden, timer, shown, pressed>>

(* The request or its answer is lost.                                       *)
ListFails(m) ==
  /\ polls' = polls \ {m}
  /\ polling' = FALSE
  /\ Schedule(shown)
  /\ UNCHANGED <<life, open, hidden, shown, pressed>>

-----------------------------------------------------------------------------
(* The buttons of SimulationCard, for runs that may be retried, and         *)
(* runAction: a button is disabled while its request is out.                *)
Press(r) ==
  /\ shown # NoList
  /\ pressed[r] = "none"
  /\ \/ shown[r] \in Server!Active /\ pressed' = [pressed EXCEPT ![r] = "cancel"]
     \/ shown[r] = "failed" /\ pressed' = [pressed EXCEPT ![r] = "retry"]
  /\ UNCHANGED <<life, open, hidden, polling, polls, timer, shown>>

(* cancel_run: a queued run is cancelled, a running one is only flagged,    *)
(* and one that has ended is returned as it is; the answer may be lost.     *)
CancelIsServed(r) ==
  /\ pressed[r] = "cancel"
  /\ life' = IF life[r] = "queued" THEN [life EXCEPT ![r] = "cancelled"] ELSE life
  /\ \E answer \in {"accepted", "refused"} : pressed' = [pressed EXCEPT ![r] = answer]
  /\ UNCHANGED <<open, hidden, polling, polls, timer, shown>>

(* Mutant: the server takes the word of the page for what failed.           *)
RetryIsServedUnchecked(r) ==
  /\ pressed[r] = "retry"
  /\ life' = [life EXCEPT ![r] = "queued"]
  /\ \E answer \in {"accepted", "refused"} : pressed' = [pressed EXCEPT ![r] = answer]
  /\ UNCHANGED <<open, hidden, polling, polls, timer, shown>>

(* retry_run: only of a failed run.                                         *)
RetryIsServed(r) ==
  /\ pressed[r] = "retry"
  /\ life[r] = "failed"
  /\ life' = [life EXCEPT ![r] = "queued"]
  /\ \E answer \in {"accepted", "refused"} : pressed' = [pressed EXCEPT ![r] = answer]
  /\ UNCHANGED <<open, hidden, polling, polls, timer, shown>>

(* 409 or 402, or the request is lost.                                      *)
ActionIsRefused(r) ==
  /\ pressed[r] \in {"retry", "cancel"}
  /\ pressed' = [pressed EXCEPT ![r] = "refused"]
  /\ UNCHANGED <<life, open, hidden, polling, polls, timer, shown>>

(* The rest of runAction: after a success it polls through pollRef.         *)
ActionReturns(r) ==
  /\ pressed[r] \in {"accepted", "refused"}
  /\ pressed' = [pressed EXCEPT ![r] = "none"]
  /\ IF pressed[r] = "accepted" THEN Poll ELSE UNCHANGED <<polling, polls>>
  /\ UNCHANGED <<life, open, hidden, timer, shown>>

(* Workers, crons and other users.                                          *)
RunsLive == Server!Step /\ UNCHANGED <<open, hidden, polling, polls, timer, shown, pressed>>

RunsPageNext ==
  \/ OpenPage \/ LeavePage \/ Hide \/ Show
  \/ TimerFires
  \/ \E m \in polls : ListRuns(m) \/ ListArrives(m) \/ ListFails(m)
  \/ \E r \in Runs :
       Press(r) \/ CancelIsServed(r) \/ RetryIsServed(r) \/ ActionIsRefused(r) \/ ActionReturns(r)
  \/ RunsLive

RunsPageSpec == RunsPageInit /\ [][RunsPageNext]_runsPageVars

-----------------------------------------------------------------------------
Watching == open /\ ~hidden

(* A page somebody looks at never stops polling, through lost answers, tabs *)
(* hidden and shown again and polls that find another one in flight, and    *)
(* never has more than one request for the list out.                        *)
PollingGoesOn ==
  /\ Watching => polling \/ timer # "none"
  /\ polling <=> polls # {}
  /\ \A m, n \in polls : m = n

(* An open page never takes back a success or a cancellation it has shown:  *)
(* answers do not overtake each other.                                      *)
ShownIsFinal ==
  [][shown # NoList /\ shown' # NoList =>
       \A r \in Runs : shown[r] \in {"succeeded", "cancelled"} => shown'[r] = shown[r]]_runsPageVars

(* A page that stays open and visible shows in the end what has become of   *)
(* every run that does not change for ever.                                 *)
PageCatchesUp ==
  \A r \in Runs :
    \/ []<><<life'[r] # life[r]>>_life
    \/ []<>(Watching => shown # NoList /\ shown[r] = life[r])

(* Not a property of the page: once a button was served, the list is asked  *)
(* for again at once.  It is not while an older request is out, whose       *)
(* answer may say what was before: the poll is dropped.                     *)
AsksAfterAction ==
  [][\A r \in Runs : open' /\ pressed[r] = "accepted" /\ pressed'[r] = "none" =>
       \E m \in polls' : m.list = NoList]_runsPageVars
=============================================================================
