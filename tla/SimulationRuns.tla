--------------------------- MODULE SimulationRuns ---------------------------
(***************************************************************************)
(* The life of simulation runs and the settlement of the launch groups     *)
(* they belong to: backend/app/services/simulation_worker.py, with         *)
(* launch_draft of test_wizard.py and the free entitlement of              *)
(* entitlements.py, as concurrent READ COMMITTED transactions.             *)
(*                                                                         *)
(* A launch creates the runs of a group in one transaction (one run, or    *)
(* the two variants of an A/B comparison).  They share the reservations    *)
(* made at launch: the baseline chips, one reservation per selected add-on *)
(* (AI report, interaction heatmap), and possibly the organization's free  *)
(* entitlement.  The transaction that makes the last run of the group      *)
(* terminal settles all of it.                                             *)
(*                                                                         *)
(* A transaction that waits or decides on what it has read is a record in  *)
(* txns from the read to the Commit or the Rollback; the runs in the       *)
(* domain of its "to" are the rows it holds FOR UPDATE.  A transaction     *)
(* whose reads and writes are covered by its locks is one step.            *)
(*                                                                         *)
(* A reservation is named by what its idempotency key is made of: the      *)
(* launch, or the retried run (for an add-on, the group) and the           *)
(* generation of the reservation it replaces.  ChipLedger models the       *)
(* ledger below reserve, consume and release; an insufficient balance is a *)
(* Rollback here.                                                          *)
(***************************************************************************)
EXTENDS Naturals, FiniteSets

CONSTANTS
  Groups,         \* launch_run_id values
  Runs,           \* simulation runs
  GroupOf,        \* GroupOf[r]: the launch a run belongs to
  StaticRuns,     \* runs on a screenshot or generated design instead of a URL
  HopelessRuns,   \* static runs with the network_device_test module
  Baseline,       \* the kind of reservation every charged launch has
  Addons,         \* separately reserved kinds: AI report, interaction heatmap
  MaxAttempts,    \* MAX_ATTEMPTS of the reaper
  MaxRetries,     \* bound: manual retries per run
  HoldsExpire,    \* may an hour pass while the free entitlement is held?
  NoGroup,        \* the holder of an entitlement nobody holds
  NoReservation   \* a NULL reservation id

ASSUME GroupAssumption ==
  GroupOf \in [Runs -> Groups] /\ \A g \in Groups : \E r \in Runs : GroupOf[r] = g
ASSUME StaticAssumption == HopelessRuns \subseteq StaticRuns /\ StaticRuns \subseteq Runs
ASSUME AttemptsAssumption == MaxAttempts \in Nat \ {0} /\ MaxRetries \in Nat
ASSUME ExpiryAssumption == HoldsExpire \in BOOLEAN
ASSUME KeyAssumption == Groups \cap Runs = {} /\ Baseline \notin Addons

VARIABLES
  status,          \* SimulationRun.status, "none" before the launch
  attempts,        \* SimulationRun.attempt_count
  cancelRequested, \* SimulationRun.cancel_requested
  retries,         \* manual retries so far
  analysis,        \* the outcome of the run's page analysis
  pays,            \* pays[r][kind]: the reservation id columns of the run
  free,            \* runs of the group carry free_entitlement_feature_key
  reserved,        \* committed chip reservations by status
  consumed,
  released,
  entitlement,     \* the entitlement row: status, holder, reserved_until passed
  calls,           \* _process_claimed_run calls a worker still has to make
  txns             \* open transactions

runVars == <<status, attempts, cancelRequested, retries, analysis, pays, free>>
moneyVars == <<reserved, consumed, released, entitlement>>
vars == <<runVars, moneyVars, calls, txns>>

Statuses == {"queued", "running", "succeeded", "failed", "cancelled"}
Terminal == {"succeeded", "failed", "cancelled"}
Kinds == {Baseline} \cup Addons
RunsOf(g) == {r \in Runs : GroupOf[r] = g}

Reservation == [by : Groups \cup Runs, kind : Kinds, gen : Nat]
ASSUME NullAssumption == NoGroup \notin Groups /\ NoReservation \notin Reservation

GroupOfReservation(i) == IF i.by \in Runs THEN GroupOf[i.by] ELSE i.by

Transaction ==
  [op : {"finalize", "retry"},
   to : UNION {[S -> Statuses] : S \in SUBSET Runs},
   resolutions : SUBSET [group : Groups,
                         outcome : {"wait", "consume", "release"},
                         due : SUBSET Reservation],
   unread : SUBSET Addons,
   unpaid : SUBSET Kinds]

(* Only the reaper and the user send a run back: it is claimed at most      *)
(* MaxAttempts times plus once per manual retry.                            *)
TypeOK ==
  /\ status \in [Runs -> Statuses \cup {"none"}]
  /\ \A r \in Runs : attempts[r] \in 0..MaxAttempts + retries[r]
  /\ cancelRequested \in [Runs -> BOOLEAN]
  /\ retries \in [Runs -> 0..MaxRetries]
  /\ analysis \in [Runs -> {"none", "pending", "succeeded", "failed", "rejected"}]
  /\ pays \in [Runs -> [Kinds -> Reservation \cup {NoReservation}]]
  /\ free \in [Groups -> BOOLEAN]
  /\ reserved \subseteq Reservation
  /\ consumed \subseteq Reservation
  /\ released \subseteq Reservation
  /\ entitlement \in [status : {"available", "reserved", "consumed"},
                      holder : Groups \cup {NoGroup}, expired : BOOLEAN]
  /\ calls \subseteq [run : Runs, phase : {"process", "recover"}]
  /\ txns \subseteq Transaction

Available == [status |-> "available", holder |-> NoGroup, expired |-> FALSE]

Init ==
  /\ status = [r \in Runs |-> "none"]
  /\ attempts = [r \in Runs |-> 0]
  /\ cancelRequested = [r \in Runs |-> FALSE]
  /\ retries = [r \in Runs |-> 0]
  /\ analysis = [r \in Runs |-> "none"]
  /\ pays = [r \in Runs |-> [k \in Kinds |-> NoReservation]]
  /\ free = [g \in Groups |-> FALSE]
  /\ reserved = {}
  /\ consumed = {}
  /\ released = {}
  /\ entitlement = Available
  /\ calls = {}
  /\ txns = {}

-----------------------------------------------------------------------------
(* Locks.  Rows of simulation_runs; the advisory lock of a launch group,    *)
(* held by the transaction that resolves it; the entitlement row, held by a *)
(* retry of a free run.                                                     *)
Locked(r) == \E t \in txns : r \in DOMAIN t.to
Unlocked(S) == \A r \in S : ~Locked(r)
GroupLocked(g) == \E t \in txns : \E x \in t.resolutions : x.group = g
EntitlementLocked ==
  \E t \in txns : t.op = "retry" /\ \E r \in DOMAIN t.to : free[GroupOf[r]]

(* reserve_entitlement by a launch: an expired hold counts as available;    *)
(* a hold or a use by the same launch is returned as it is.                 *)
Vacant == entitlement.status = "available" \/ (entitlement.status = "reserved" /\ entitlement.expired)

(* Mutant: holds of other launches are ignored.                             *)
CanReserveEntitlementUnlessConsumed(g) == entitlement.status # "consumed"

CanReserveEntitlement(g) == Vacant \/ entitlement.holder = g
ReserveEntitlement(g) ==
  IF Vacant THEN [status |-> "reserved", holder |-> g, expired |-> FALSE] ELSE entitlement

-----------------------------------------------------------------------------
(* launch_draft: the quote locks the entitlement row and offers it when it  *)
(* is available (an expired hold is not); a launch that is not free, or has *)
(* chip modules, reserves baseline chips; every selected add-on has its own *)
(* reservation.  All runs of the group are created with the same ids.       *)
LaunchDraft(g, isFree, kinds) ==
  /\ \A r \in RunsOf(g) : status[r] = "none"
  /\ ~EntitlementLocked
  /\ isFree => entitlement.status = "available"
  /\ isFree \/ Baseline \in kinds
  /\ LET launched == [k \in kinds |-> [by |-> g, kind |-> k, gen |-> 0]] IN
       /\ reserved' = reserved \cup {launched[k] : k \in kinds}
       /\ pays' = [r \in Runs |->
                     IF GroupOf[r] = g
                     THEN [k \in Kinds |-> IF k \in kinds THEN launched[k] ELSE NoReservation]
                     ELSE pays[r]]
  /\ free' = [free EXCEPT ![g] = isFree]
  /\ entitlement' = IF isFree THEN ReserveEntitlement(g) ELSE entitlement
  /\ status' = [r \in Runs |-> IF GroupOf[r] = g THEN "queued" ELSE status[r]]
  /\ analysis' = [r \in Runs |-> IF GroupOf[r] = g THEN "pending" ELSE analysis[r]]
  /\ UNCHANGED <<attempts, cancelRequested, retries, consumed, released, calls, txns>>

(* page_analysis.py settles the analysis of a run: see PageAnalysis.        *)
(* "rejected" is an analyzer answer that makes the run not retryable; there *)
(* is no analyzer in the analysis of a static source.                       *)
AnalysisSettles(r, outcome) ==
  /\ analysis[r] = "pending"
  /\ outcome = "rejected" => r \notin StaticRuns
  /\ analysis' = [analysis EXCEPT ![r] = outcome]
  /\ UNCHANGED <<status, attempts, cancelRequested, retries, pays, free, moneyVars, calls, txns>>

(* reserved_until passes.                                                   *)
HoldExpires ==
  /\ HoldsExpire
  /\ entitlement.status = "reserved"
  /\ ~entitlement.expired
  /\ entitlement' = [entitlement EXCEPT !.expired = TRUE]
  /\ UNCHANGED <<runVars, reserved, consumed, released, calls, txns>>

-----------------------------------------------------------------------------
(* Mutant: a run settles its group by its own outcome alone.                *)
ResolutionBySelf(g, to) ==
  LET mine == {r \in RunsOf(g) : r \in DOMAIN to /\ to[r] = "succeeded"}
      outcome == IF mine # {} THEN "consume" ELSE "release"
  IN [group |-> g, outcome |-> outcome,
      due |-> {pays[r][k] : r \in RunsOf(g), k \in {Baseline}} \ {NoReservation}]

(* _resolve_launch_group as it reads the group: the transaction sees its    *)
(* own writes "to" and otherwise committed rows, read without row locks.    *)
Resolution(g, to) ==
  LET seen == [r \in RunsOf(g) |-> IF r \in DOMAIN to THEN to[r] ELSE status[r]]
      outcome == IF \E r \in RunsOf(g) : seen[r] \notin Terminal THEN "wait"
                 ELSE IF \A r \in RunsOf(g) : seen[r] = "succeeded" THEN "consume"
                 ELSE "release"
      settled == IF outcome = "wait" THEN {}
                 ELSE IF outcome = "consume" THEN {Baseline} ELSE Kinds
  IN [group |-> g, outcome |-> outcome,
      due |-> {pays[r][k] : r \in RunsOf(g), k \in settled} \ {NoReservation}]

(* Mutant: the group is resolved without its advisory lock.                 *)
FinalizeUnlocked(to) ==
  LET resolved == {GroupOf[r] : r \in {q \in DOMAIN to : to[q] \in Terminal}} IN
  /\ Unlocked(DOMAIN to)
  /\ txns' = txns \cup {[op |-> "finalize", to |-> to,
                         resolutions |-> {Resolution(g, to) : g \in resolved},
                         unread |-> {}, unpaid |-> {}]}

(* A transaction that moves the runs in DOMAIN to, and resolves the groups  *)
(* of those it makes terminal under their advisory locks.                   *)
Finalize(to) ==
  LET resolved == {GroupOf[r] : r \in {q \in DOMAIN to : to[q] \in Terminal}} IN
  /\ Unlocked(DOMAIN to)
  /\ \A g \in resolved : ~GroupLocked(g)
  /\ txns' = txns \cup {[op |-> "finalize", to |-> to,
                         resolutions |-> {Resolution(g, to) : g \in resolved},
                         unread |-> {}, unpaid |-> {}]}

(* What the resolutions of a transaction do to the entitlement: a launch    *)
(* that no longer holds it is refused, and the error is swallowed.          *)
ResolveEntitlement(t) ==
  LET mine == {x \in t.resolutions : /\ x.outcome # "wait"
                                     /\ free[x.group]
                                     /\ entitlement.status = "reserved"
                                     /\ entitlement.holder = x.group}
  IN IF mine = {} THEN entitlement
     ELSE IF \E x \in mine : x.outcome = "consume"
     THEN [entitlement EXCEPT !.status = "consumed", !.expired = FALSE]
     ELSE Available

(* Reservations that are no longer reserved are skipped: release returns or *)
(* raises, consume returns or raises, and the error is swallowed.           *)
CommitFinalize(t) ==
  LET due(outcome) == reserved \cap UNION {x.due : x \in {y \in t.resolutions : y.outcome = outcome}}
  IN
  /\ t.op = "finalize"
  /\ (\E x \in t.resolutions : x.outcome # "wait" /\ free[x.group]) => ~EntitlementLocked
  /\ txns' = txns \ {t}
  /\ status' = [r \in Runs |-> IF r \in DOMAIN t.to THEN t.to[r] ELSE status[r]]
  /\ consumed' = consumed \cup due("consume")
  /\ released' = released \cup due("release")
  /\ reserved' = reserved \ (due("consume") \cup due("release"))
  /\ entitlement' = ResolveEntitlement(t)
  /\ UNCHANGED <<attempts, cancelRequested, retries, analysis, pays, free, calls>>

(* An error, a lost worker, an insufficient balance, or Postgres breaking a *)
(* deadlock: nothing of the transaction remains.                            *)
Rollback(t) ==
  /\ txns' = txns \ {t}
  /\ UNCHANGED <<runVars, moneyVars, calls>>

-----------------------------------------------------------------------------
(* claim_next_queued_runs: queued runs whose analysis succeeded, SKIP       *)
(* LOCKED, committed before the worker processes them one by one.           *)
Claimable == {r \in Runs : status[r] = "queued" /\ analysis[r] = "succeeded" /\ ~Locked(r)}

ClaimNextQueuedRuns(S) ==
  /\ S # {}
  /\ status' = [r \in Runs |-> IF r \in S THEN "running" ELSE status[r]]
  /\ attempts' = [r \in Runs |-> IF r \in S THEN attempts[r] + 1 ELSE attempts[r]]
  /\ calls' = calls \cup [run : S, phase : {"process"}]
  /\ UNCHANGED <<cancelRequested, retries, analysis, pays, free, moneyVars, txns>>

(* Mutant: the cancel request is not read.                                  *)
OutcomesIgnoringCancel(r) == {"succeeded", "failed"}

(* How process_run can end.  A cancel request is honoured at the first      *)
(* checkpoint: the row lock keeps later requests out.                       *)
Outcomes(r) ==
  IF cancelRequested[r] THEN {"cancelled"}
  ELSE IF r \in HopelessRuns THEN {"failed"} ELSE {"succeeded", "failed"}

(* Mutant: the status is not read again under the lock.                     *)
ProcessRunUnchecked(r, outcome) ==
  /\ [run |-> r, phase |-> "process"] \in calls
  /\ outcome \in Outcomes(r)
  /\ Finalize([q \in {r} |-> outcome])
  /\ calls' = (calls \ {[run |-> r, phase |-> "process"]}) \cup {[run |-> r, phase |-> "recover"]}
  /\ UNCHANGED <<runVars, moneyVars>>

(* The first session of _process_claimed_run: the row is locked, a run that *)
(* is no longer running is left alone.                                      *)
ProcessRun(r, outcome) ==
  /\ [run |-> r, phase |-> "process"] \in calls
  /\ status[r] = "running"
  /\ outcome \in Outcomes(r)
  /\ Finalize([q \in {r} |-> outcome])
  /\ calls' = (calls \ {[run |-> r, phase |-> "process"]}) \cup {[run |-> r, phase |-> "recover"]}
  /\ UNCHANGED <<runVars, moneyVars>>

(* The second session of _process_claimed_run: a run that is still running  *)
(* after the first one ended is failed.                                     *)
RecoverRun(r) ==
  /\ [run |-> r, phase |-> "recover"] \in calls
  /\ status[r] = "running"
  /\ Finalize([q \in {r} |-> "failed"])
  /\ calls' = calls \ {[run |-> r, phase |-> "recover"]}
  /\ UNCHANGED <<runVars, moneyVars>>

(* Either session finds the run no longer running and returns.              *)
ReturnFromCall(c) ==
  /\ ~Locked(c.run)
  /\ status[c.run] # "running"
  /\ calls' = calls \ {c}
  /\ UNCHANGED <<runVars, moneyVars, txns>>

(* The worker dies: the call is never made or never finished.               *)
LoseCall(c) ==
  /\ ~Locked(c.run)
  /\ calls' = calls \ {c}
  /\ UNCHANGED <<runVars, moneyVars, txns>>

(* Mutant: one attempt too many.                                            *)
ReapedOnceMore(r) == IF attempts[r] <= MaxAttempts THEN "queued" ELSE "failed"

(* Mutant: an exhausted run is left as it is.                               *)
ReapedUnlessExhausted(r) == IF attempts[r] < MaxAttempts THEN "queued" ELSE "running"

(* reap_stale_running_runs: runs whose last update is old, SKIP LOCKED, in  *)
(* one transaction.  Any running run may be stale: claimed runs wait for    *)
(* the ones before them in the batch.                                       *)
Reaped(r) == IF attempts[r] < MaxAttempts THEN "queued" ELSE "failed"

ReapStaleRunningRuns(S) ==
  /\ S # {}
  /\ \A r \in S : status[r] = "running"
  /\ Finalize([r \in S |-> Reaped(r)])
  /\ UNCHANGED <<runVars, moneyVars, calls>>

(* Mutant: coded failures are overlooked.                                   *)
BlockedByPlainFailure == {r \in Runs : status[r] = "queued" /\ analysis[r] = "failed"}

(* fail_runs_blocked_by_failed_page_analysis, SKIP LOCKED, one transaction. *)
Blocked == {r \in Runs : status[r] = "queued" /\ analysis[r] \in {"failed", "rejected"}}

FailBlockedRuns(S) ==
  /\ S # {}
  /\ S \subseteq Blocked
  /\ Finalize([r \in S |-> "failed"])
  /\ UNCHANGED <<runVars, moneyVars, calls>>

(* cancel_run: a queued run is cancelled, a running one is only flagged; a  *)
(* terminal one is returned as it is.                                       *)
CancelQueuedRun(r) ==
  /\ status[r] = "queued"
  /\ Finalize([q \in {r} |-> "cancelled"])
  /\ UNCHANGED <<runVars, moneyVars, calls>>

CancelRunningRun(r) ==
  /\ status[r] = "running"
  /\ ~Locked(r)
  /\ ~cancelRequested[r]
  /\ cancelRequested' = [cancelRequested EXCEPT ![r] = TRUE]
  /\ UNCHANGED <<status, attempts, retries, analysis, pays, free, moneyVars, calls, txns>>

-----------------------------------------------------------------------------
(* Mutant: any terminal run may be retried.                                 *)
RetryableWhenTerminal(r) == status[r] \in Terminal /\ r \notin HopelessRuns

(* The status check of retry_run and classify_run_failure.                  *)
Retryable(r) == status[r] = "failed" /\ r \notin HopelessRuns /\ analysis[r] # "rejected"

(* Mutant: a released reservation passes for a live one.                    *)
StillReservedOrReleased(r, k) ==
  pays[r][k] = NoReservation \/ pays[r][k] \in reserved \cup released

(* The unlocked session.get of retry_run: is this kind still reserved?      *)
StillReserved(r, k) == pays[r][k] = NoReservation \/ pays[r][k] \in reserved

(* retry_run up to the read of the baseline reservation: the run is locked, *)
(* and so is the entitlement of a free launch.                              *)
RetryRun(r) ==
  /\ ~Locked(r)
  /\ Retryable(r)
  /\ retries[r] < MaxRetries
  /\ free[GroupOf[r]] => ~EntitlementLocked /\ CanReserveEntitlement(GroupOf[r])
  /\ txns' = txns \cup {[op |-> "retry", to |-> [q \in {r} |-> "queued"], resolutions |-> {},
                         unread |-> Addons,
                         unpaid |-> {k \in {Baseline} : ~StillReserved(r, k)}]}
  /\ UNCHANGED <<runVars, moneyVars, calls>>

(* The same for an add-on, read later in the same transaction.              *)
RetryReadsAddon(t, r, k) ==
  /\ t.op = "retry"
  /\ r \in DOMAIN t.to
  /\ k \in t.unread
  /\ txns' = (txns \ {t}) \cup
       {[op |-> "retry", to |-> t.to, resolutions |-> {}, unread |-> t.unread \ {k},
         unpaid |-> IF StillReserved(r, k) THEN t.unpaid ELSE t.unpaid \cup {k}]}
  /\ UNCHANGED <<runVars, moneyVars, calls>>

(* The reservation a retry of r makes for a kind: the baseline key names    *)
(* the run, an add-on key the group, both the reservation they replace.     *)
Successor(r, k) ==
  [by |-> IF k = Baseline THEN r ELSE GroupOf[r], kind |-> k, gen |-> pays[r][k].gen + 1]

(* Mutant: siblings keep the old add-on reservation.                        *)
RenewedIdsOwnRun(t, r) ==
  [pays EXCEPT ![r] = [k \in Kinds |-> IF k \in t.unpaid THEN Successor(r, k) ELSE pays[r][k]]]

(* A new baseline reservation is written to the retried run only, a new     *)
(* add-on reservation to every run of the group.                            *)
RenewedIds(t, r) ==
  [q \in Runs |-> [k \in Kinds |->
     IF k \in t.unpaid /\ (q = r \/ (GroupOf[q] = GroupOf[r] /\ k # Baseline))
     THEN Successor(r, k) ELSE pays[q][k]]]

(* Mutant: any analysis is started again.                                   *)
RestartedAnalysisAlways(r) == [analysis EXCEPT ![r] = "pending"]

(* A URL analysis that failed starts again with the run.                    *)
RestartedAnalysis(r) ==
  IF analysis[r] = "failed" /\ r \notin StaticRuns
  THEN [analysis EXCEPT ![r] = "pending"] ELSE analysis

(* The rest of retry_run and its commit; a new add-on reservation needs the *)
(* row locks of the whole group.                                            *)
CommitRetry(t, r) ==
  LET made == {Successor(r, k) : k \in t.unpaid} IN
  /\ t.op = "retry"
  /\ t.unread = {}
  /\ r \in DOMAIN t.to
  /\ t.unpaid \cap Addons # {} => Unlocked(RunsOf(GroupOf[r]) \ {r})
  /\ txns' = txns \ {t}
  /\ status' = [status EXCEPT ![r] = "queued"]
  /\ cancelRequested' = [cancelRequested EXCEPT ![r] = FALSE]
  /\ retries' = [retries EXCEPT ![r] = @ + 1]
  /\ analysis' = RestartedAnalysis(r)
  /\ reserved' = reserved \cup (made \ (consumed \cup released))
  /\ pays' = RenewedIds(t, r)
  /\ entitlement' = IF free[GroupOf[r]] THEN ReserveEntitlement(GroupOf[r]) ELSE entitlement
  /\ UNCHANGED <<attempts, free, consumed, released, calls>>

-----------------------------------------------------------------------------
Worker ==
  \/ \E S \in SUBSET Claimable : ClaimNextQueuedRuns(S)
  \/ \E r \in Runs :
       \/ \E outcome \in Terminal : ProcessRun(r, outcome)
       \/ RecoverRun(r)
  \/ \E c \in calls : ReturnFromCall(c) \/ LoseCall(c)
  \/ \E S \in SUBSET Runs : ReapStaleRunningRuns(S) \/ FailBlockedRuns(S)

User ==
  \/ \E g \in Groups, isFree \in BOOLEAN, kinds \in SUBSET Kinds : LaunchDraft(g, isFree, kinds)
  \/ \E r \in Runs : CancelQueuedRun(r) \/ CancelRunningRun(r) \/ RetryRun(r)

Database ==
  \E t \in txns :
    \/ CommitFinalize(t)
    \/ \E r \in Runs : CommitRetry(t, r) \/ \E k \in Addons : RetryReadsAddon(t, r, k)
    \/ Rollback(t)

Environment ==
  \/ \E r \in Runs, outcome \in {"succeeded", "failed", "rejected"} : AnalysisSettles(r, outcome)
  \/ HoldExpires

Next == Worker \/ User \/ Database \/ Environment

Spec == Init /\ [][Next]_vars

-----------------------------------------------------------------------------
AllTerminal(g) == \A r \in RunsOf(g) : status[r] \in Terminal
AllSucceeded(g) == \A r \in RunsOf(g) : status[r] = "succeeded"
Quiet(g) == Unlocked(RunsOf(g))

(* Partial success never costs chips: a consumed reservation belongs to a   *)
(* launch all of whose runs succeeded (_resolve_launch_group).              *)
ChargedOnlyForSuccess ==
  \A i \in consumed : AllSucceeded(GroupOfReservation(i))

(* Nothing stays blocked: once every run of a launch is terminal and no     *)
(* transaction works on it, none of its baseline chips are reserved, its    *)
(* add-ons are reserved only for the pipelines that follow full success,    *)
(* and it does not hold the free entitlement.                               *)
NothingLeftReserved ==
  \A g \in Groups : AllTerminal(g) /\ Quiet(g) =>
    /\ \A i \in reserved : GroupOfReservation(i) = g => i.kind # Baseline /\ AllSucceeded(g)
    /\ ~(entitlement.status = "reserved" /\ entitlement.holder = g)

(* A launch that succeeded is paid for: a baseline reservation one of its   *)
(* runs names is consumed, its add-ons are reserved, its free entitlement   *)
(* is used up, and by no other launch.                                      *)
PaidInFull ==
  \A g \in Groups : AllSucceeded(g) /\ Quiet(g) =>
    /\ \A k \in Kinds :
         LET named == {pays[r][k] : r \in RunsOf(g)} \ {NoReservation}
         IN named # {} => named \cap (IF k = Baseline THEN consumed ELSE reserved) # {}
    /\ free[g] => entitlement.status = "consumed" /\ entitlement.holder = g

(* A launch is charged once, however often its runs were retried.           *)
ChargedOnce ==
  \A g \in Groups : Cardinality({i \in consumed : GroupOfReservation(i) = g}) <= 1

(* A single-run launch that succeeded is paid for, and once only, whether   *)
(* its run was retried, reaped or had to compete for the free use.          *)
PaidOnce == PaidInFull /\ ChargedOnce

(* Every run of a launch names the same add-on reservation, through all     *)
(* concurrent retries.                                                      *)
SiblingsShareAddons ==
  \A r, q \in Runs : GroupOf[r] = GroupOf[q] =>
    \A k \in Addons : pays[r][k] = pays[q][k]

(* A run the user asked to cancel never succeeds, whatever happens to the   *)
(* worker between the request and the next checkpoint.                      *)
CancelledNeverSucceeds == \A r \in Runs : cancelRequested[r] => status[r] # "succeeded"

(* Whoever reads committed rows sees every run live as RunLife describes:   *)
(* successes and cancellations are final against late workers, reapers and  *)
(* retries, and nothing succeeds that was not running.                      *)
Life == INSTANCE RunLife
LivesAsSeen == Life!Spec

(* Runs and retries treat their page analyses as AnalysisOutcome promises:  *)
(* a retry starts only a failure that may pass, and nothing else about an   *)
(* analysis changes behind the back of page_analysis.py.                    *)
Outcome == INSTANCE AnalysisOutcome WITH Analyses <- Runs
UsesOutcome == Outcome!Spec

-----------------------------------------------------------------------------
(* The crons of worker.py fire for ever, so a step they keep finding        *)
(* possible is taken.  A transaction may be rolled back any number of       *)
(* times, but not every time: hence strong fairness for commits.            *)
Fairness ==
  /\ WF_vars(\E S \in SUBSET Claimable : ClaimNextQueuedRuns(S))
  /\ \A r \in Runs :
       /\ WF_vars(\E outcome \in {"succeeded", "failed", "rejected"} : AnalysisSettles(r, outcome))
       /\ SF_vars(ReapStaleRunningRuns({r}))
       /\ SF_vars(FailBlockedRuns({r}))
       /\ SF_vars(\E t \in txns : r \in DOMAIN t.to /\ (CommitFinalize(t) \/ CommitRetry(t, r)))
       /\ WF_vars(\E t \in txns, k \in Addons : RetryReadsAddon(t, r, k))

FairSpec == Spec /\ Fairness

(* Every launched run reaches a terminal status, with workers that may die  *)
(* at every step.                                                           *)
RunsTerminate == \A r \in Runs : (status[r] = "queued") ~> (status[r] \in Terminal)
=============================================================================
