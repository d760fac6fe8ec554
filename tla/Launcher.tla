------------------------------ MODULE Launcher ------------------------------
(* The supervisor of the single-container deployment (backend/app/          *)
(* render_free_launcher.py): it opens the public port with nginx, runs the  *)
(* preflight (migrations, then accounts), starts the other services and     *)
(* ends with all of them when one dies or a signal arrives.  Python runs    *)
(* the signal handler between two steps of the main thread.  Spawning a     *)
(* fixed command succeeds; the configuration of the environment is right.   *)
EXTENDS Naturals

CONSTANTS
  Others,       \* backend, worker, analyzer: what starts after the preflight
  Steps         \* steps of the preflight

VARIABLES
  main,         \* what the main thread does next
  child,        \* service -> "absent", "running", "done" (code 0) or "failed"
  known,        \* the services in _children
  pending,      \* services that start() has still to spawn, in any order
  preflight,    \* steps of the preflight that are left
  stopping,     \* _stopping
  signalled,    \* a SIGTERM or SIGINT has arrived (history)
  asked,        \* services that were sent SIGTERM (history)
  killed,       \* services that wait_all killed (history)
  patient,      \* the shutdown timeout has not passed
  exitCode

launcherVars == <<main, child, known, pending, preflight, stopping, signalled,
  asked, killed, patient, exitCode>>

Services == Others \cup {"frontend"}
Ended == {"done", "failed"}
Running == {s \in Services : child[s] = "running"}

LauncherInit ==
  /\ main = "spawn"
  /\ child = [s \in Services |-> "absent"]
  /\ known = {}
  /\ pending = {"frontend"}
  /\ preflight = Steps
  /\ stopping = FALSE
  /\ signalled = FALSE
  /\ asked = {}
  /\ killed = {}
  /\ patient = TRUE
  /\ exitCode = 0

-----------------------------------------------------------------------------
(* Supervisor.                                                              *)

(* The process runs before _children knows it.                              *)
SpawnService(s) ==
  /\ main = "spawn" /\ s \in pending /\ child[s] = "absent"
  /\ child' = [child EXCEPT ![s] = "running"]
  /\ main' = "register"
  /\ UNCHANGED <<known, pending, preflight, stopping, signalled, asked, killed, patient, exitCode>>

Unregistered == {s \in pending : child[s] # "absent"}

RegisterService ==
  /\ main = "register"
  /\ known' = known \cup Unregistered
  /\ pending' = pending \ Unregistered
  /\ main' = IF pending' # {} THEN "spawn" ELSE IF preflight > 0 THEN "preflight" ELSE "watch"
  /\ UNCHANGED <<child, preflight, stopping, signalled, asked, killed, patient, exitCode>>

(* stop(): only the first call does anything.                               *)
ToAsk == IF stopping THEN {} ELSE known \cap Running

(* tini -g hands the signal to the whole process group, and the handler     *)
(* stops the services once more.                                            *)
HandleSignal ==
  /\ main # "ended"
  /\ signalled' = TRUE
  /\ asked' = asked \cup Running
  /\ stopping' = TRUE
  /\ UNCHANGED <<main, child, known, pending, preflight, killed, patient, exitCode>>

(* run(): the flag, then the children, then a pause.                        *)
Watch ==
  /\ main = "watch"
  /\ main' = IF stopping THEN "wait" ELSE "poll"
  /\ UNCHANGED <<child, known, pending, preflight, stopping, signalled, asked, killed, patient, exitCode>>

(* A service is to live for ever: an exit with code 0 is a failure as well. *)
ReportedCodeOf(s) == IF child[s] = "failed" THEN 1 ELSE 0
ExitCodeAsReported(s) == ReportedCodeOf(s)
ExitCode(s) == IF ReportedCodeOf(s) = 0 THEN 1 ELSE ReportedCodeOf(s)

PollOnce ==
  /\ main = "poll"
  /\ \/ \E s \in known : /\ child[s] \in Ended
                         /\ exitCode' = ExitCode(s)
                         /\ main' = "stop"
     \/ /\ known \subseteq Running
        /\ main' = "watch"
        /\ UNCHANGED exitCode
  /\ UNCHANGED <<child, known, pending, preflight, stopping, signalled, asked, killed, patient>>

Stop ==
  /\ main = "stop"
  /\ asked' = asked \cup ToAsk
  /\ stopping' = TRUE
  /\ main' = "wait"
  /\ UNCHANGED <<child, known, pending, preflight, signalled, killed, patient, exitCode>>

(* wait_all: one deadline for all children, then the rest is killed.        *)
WaitAll ==
  \/ /\ known \cap Running = {} /\ main' = "ended"
     /\ UNCHANGED <<child, killed>>
  \/ \E s \in known \cap Running :
       /\ ~patient
       /\ child' = [child EXCEPT ![s] = "failed"]
       /\ killed' = killed \cup {s}
       /\ UNCHANGED main
Wait ==
  /\ main = "wait"
  /\ WaitAll
  /\ UNCHANGED <<known, pending, preflight, stopping, signalled, asked, patient, exitCode>>

TimeoutPasses ==
  /\ main = "wait" /\ patient
  /\ patient' = FALSE
  /\ UNCHANGED <<main, child, known, pending, preflight, stopping, signalled, asked, killed, exitCode>>

-----------------------------------------------------------------------------
(* main().                                                                  *)

(* A step succeeds, or it fails or takes too long: then nothing is started. *)
AfterFailedStepIgnored == IF preflight = 1 THEN "start" ELSE "preflight"
AfterFailedStep == "stop"
PreflightStepEnds(succeeds) ==
  /\ main = "preflight"
  /\ preflight' = IF succeeds THEN preflight - 1 ELSE preflight
  /\ exitCode' = IF succeeds THEN exitCode ELSE 1
  /\ main' = IF ~succeeds THEN AfterFailedStep ELSE IF preflight' = 0 THEN "start" ELSE "preflight"
  /\ UNCHANGED <<child, known, pending, stopping, signalled, asked, killed, patient>>

(* The flag is looked at once before the services are spawned, not between. *)
StartUnlessStopping ==
  /\ main = "start"
  /\ IF stopping
     THEN main' = "wait" /\ UNCHANGED pending
     ELSE main' = "spawn" /\ pending' = Services \ known
  /\ UNCHANGED <<child, known, preflight, stopping, signalled, asked, killed, patient, exitCode>>

(* A service exits by itself or because it was asked to.                    *)
ServiceExits(s, status) ==
  /\ child[s] = "running" /\ main # "ended"
  /\ child' = [child EXCEPT ![s] = status]
  /\ UNCHANGED <<main, known, pending, preflight, stopping, signalled, asked, killed, patient, exitCode>>

MainThread ==
  \/ \E s \in Services : SpawnService(s)
  \/ RegisterService
  \/ \E succeeds \in BOOLEAN : PreflightStepEnds(succeeds)
  \/ StartUnlessStopping \/ Watch \/ PollOnce \/ Stop \/ Wait

LauncherNext ==
  \/ MainThread
  \/ HandleSignal \/ TimeoutPasses
  \/ \E s \in Services, status \in Ended : ServiceExits(s, status)

LauncherSpec == LauncherInit /\ [][LauncherNext]_launcherVars

-----------------------------------------------------------------------------
(* Every variable has its type, and only what runs or ran is known.         *)
LauncherTypeOK ==
  /\ main \in {"spawn", "register", "preflight", "start", "watch", "poll", "stop", "wait", "ended"}
  /\ child \in [Services -> {"absent", "running"} \cup Ended]
  /\ known = {s \in Services : child[s] # "absent"} \ Unregistered
  /\ preflight \in 0..Steps
  /\ asked \cup killed \subseteq Services
  /\ exitCode \in {0, 1}

(* Fail closed: the container ends without a child left behind, it ends     *)
(* well only because it was told to, and no service ever runs on a database *)
(* whose preparation failed.                                                *)
ContainerFailsClosed ==
  /\ main = "ended" => Running = {}
  /\ main = "ended" /\ exitCode = 0 => signalled
  /\ (\E s \in Others : child[s] # "absent") => preflight = 0

(* The death of any service, at whatever moment, ends all of them, so that  *)
(* the platform restarts the container; and so does a signal.               *)
MustEnd == stopping \/ \E s \in Services : child[s] \in Ended
ServicesEndTogether == MustEnd ~> main = "ended"

(* Each child is asked to end before it is killed.  Does not hold: a signal *)
(* that is handled while start() spawns the services is not sent to those   *)
(* spawned after it; they are killed when the timeout has passed.           *)
AskedBeforeKilled == killed \subseteq asked
=============================================================================
