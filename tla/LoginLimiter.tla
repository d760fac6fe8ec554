---------------------------- MODULE LoginLimiter ----------------------------
(* The fixed windows that Redis keeps for one client: failed passwords with *)
(* a lockout, and demo logins with a plain limit (the event ingestion of    *)
(* the analytics counts the same way).  Every Redis command is a step of    *)
(* its own, and the requests of a client overlap.                           *)
EXTENDS Naturals, FiniteSets

CONSTANTS
  Requests,     \* concurrent requests of the client
  LoginLimit,   \* login_rate_limit_max_attempts
  DemoLimit,    \* demo_login_rate_limit_max_attempts
  MaxCount      \* bound: no request arrives at a counter that has reached it

ASSUME LimitAssumption ==
  IsFiniteSet(Requests) /\ LoginLimit \in Nat \ {0} /\ DemoLimit \in Nat /\ MaxCount \in Nat

VARIABLES
  counter,      \* key -> count (0 if the key is gone) and whether it has a TTL
  locked,       \* the lockout key exists
  request,      \* request -> what it is doing
  granted,      \* demo logins granted since their window began (history)
  died          \* a request died between two commands (history; bound: at most one)

limiterVars == <<counter, locked, request, granted, died>>

Keys == {"login", "demo"}
Gone == [count |-> 0, ttl |-> FALSE]
Idle == [key |-> "login", step |-> "idle", count |-> 0]

LimiterInit ==
  /\ counter = [k \in Keys |-> Gone]
  /\ locked = FALSE
  /\ request = [r \in Requests |-> Idle]
  /\ granted = 0
  /\ died = FALSE

Goes(r, step) == request' = [request EXCEPT ![r].step = step]
Ends(r) == request' = [request EXCEPT ![r] = Idle]
Deleted(k) == /\ counter' = [counter EXCEPT ![k] = Gone]
              /\ granted' = IF k = "demo" THEN 0 ELSE granted

(* A locked out client is refused before its password is looked at.         *)
LoginArrives(r) ==
  /\ request[r].step = "idle" /\ ~locked
  /\ counter["login"].count < MaxCount
  /\ \E right \in BOOLEAN : Goes(r, IF right THEN "clear" ELSE "count")
  /\ UNCHANGED <<counter, locked, granted, died>>

DemoLoginArrives(r) ==
  /\ request[r].step = "idle"
  /\ counter["demo"].count < MaxCount
  /\ request' = [request EXCEPT ![r] = [key |-> "demo", step |-> "count", count |-> 0]]
  /\ UNCHANGED <<counter, locked, granted, died>>

(* A mutant: the limit itself is not noticed.                               *)
AttemptVerdictOneMore(key, count) ==
  IF key = "login"
  THEN IF count > LoginLimit THEN "lock" ELSE "refuse"
  ELSE IF count > DemoLimit THEN "refuse" ELSE "grant"

AttemptVerdict(key, count) ==
  IF key = "login"
  THEN IF count >= LoginLimit THEN "lock" ELSE "refuse"
  ELSE IF count > DemoLimit THEN "refuse" ELSE "grant"

(* INCR; the first of a window goes on to EXPIRE.                           *)
Count(r) ==
  LET key == request[r].key
      count == counter[key].count + 1 IN
  /\ request[r].step = "count"
  /\ counter' = [counter EXCEPT ![key].count = count]
  /\ request' = [request EXCEPT ![r] = [key |-> key, count |-> count,
                    step |-> IF count = 1 THEN "expire" ELSE AttemptVerdict(key, count)]]
  /\ UNCHANGED <<locked, granted, died>>

(* EXPIRE does nothing to a key that is gone.                               *)
SetExpiry(r) ==
  LET key == request[r].key IN
  /\ request[r].step = "expire"
  /\ counter' = [counter EXCEPT ![key].ttl = counter[key].count > 0]
  /\ Goes(r, AttemptVerdict(key, request[r].count))
  /\ UNCHANGED <<locked, granted, died>>

LockOut(r) ==
  /\ request[r].step = "lock"
  /\ locked' = TRUE
  /\ Goes(r, "delete")
  /\ UNCHANGED <<counter, granted, died>>

DeleteCounter(r) ==
  /\ request[r].step = "delete"
  /\ Deleted("login")
  /\ Ends(r)
  /\ UNCHANGED <<locked, died>>

(* A right password deletes the counter, then the lockout.                  *)
ClearAttempts(r) ==
  /\ request[r].step = "clear"
  /\ Deleted("login")
  /\ Goes(r, "unlock")
  /\ UNCHANGED <<locked, died>>

ClearLockout(r) ==
  /\ request[r].step = "unlock"
  /\ locked' = FALSE
  /\ Ends(r)
  /\ UNCHANGED <<counter, granted, died>>

Answer(r) ==
  /\ request[r].step \in {"refuse", "grant"}
  /\ Ends(r)
  /\ granted' = IF request[r].step = "grant" THEN granted + 1 ELSE granted
  /\ UNCHANGED <<counter, locked, died>>

(* The windows are minutes long: no request outlives one.                   *)
WindowPasses(k) ==
  /\ counter[k].ttl
  /\ \A r \in Requests : request[r].key = k => request[r].step = "idle"
  /\ Deleted(k)
  /\ UNCHANGED <<locked, request, died>>

LockoutPasses ==
  /\ locked /\ \A r \in Requests : request[r].step = "idle"
  /\ locked' = FALSE
  /\ UNCHANGED <<counter, request, granted, died>>

(* The process or its connection to Redis dies between two commands.        *)
Die(r) ==
  /\ request[r].step # "idle" /\ ~died
  /\ died' = TRUE
  /\ Ends(r)
  /\ UNCHANGED <<counter, locked, granted>>

LimiterNext ==
  \/ \E r \in Requests :
       \/ LoginArrives(r) \/ DemoLoginArrives(r) \/ Count(r) \/ SetExpiry(r) \/ LockOut(r)
       \/ DeleteCounter(r) \/ ClearAttempts(r) \/ ClearLockout(r) \/ Answer(r) \/ Die(r)
  \/ \E k \in Keys : WindowPasses(k)
  \/ LockoutPasses

LimiterSpec == LimiterInit /\ [][LimiterNext]_limiterVars

-----------------------------------------------------------------------------
(* Every variable has its type.                                             *)
LimiterTypeOK ==
  /\ counter \in [Keys -> [count : 0..MaxCount + Cardinality(Requests), ttl : BOOLEAN]]
  /\ locked \in BOOLEAN /\ died \in BOOLEAN
  /\ \A r \in Requests :
       request[r].step \in {"idle", "count", "expire", "lock", "delete", "clear", "unlock", "refuse", "grant"}

Doing(k, steps) == \E r \in Requests : request[r].key = k /\ request[r].step \in steps

(* The counters do what a window is for, however the requests overlap: no   *)
(* more demo logins than the limit in one window; a counter that nobody is  *)
(* about to date or to reset has a TTL, so that no client stays counted for *)
(* ever; and one at the limit is on its way to a lockout.  A request that   *)
(* dies between INCR and EXPIRE leaves a counter without TTL.               *)
WindowsHold ==
  /\ granted <= DemoLimit
  /\ ~died => /\ \A k \in Keys : counter[k].count > 0 /\ ~counter[k].ttl => Doing(k, {"expire"})
              /\ counter["login"].count >= LoginLimit => Doing("login", {"expire", "lock", "delete"})
=============================================================================
