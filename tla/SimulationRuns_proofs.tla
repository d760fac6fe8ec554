------------------------ MODULE SimulationRuns_proofs ------------------------
(* Theorems about SimulationRuns, for every set of launches and runs, every *)
(* choice of add-ons and every number of attempts and retries.              *)
EXTENDS SimulationRuns, FiniteSetTheorems, TLAPS

(* Rows: open transactions hold disjoint rows, and what a transaction has   *)
(* read of the rows it holds still is true.                                 *)
DisjointRows ==
  \A t, u \in txns : t # u => DOMAIN t.to \cap DOMAIN u.to = {}
StillAsRead ==
  \A t \in txns : \A r \in DOMAIN t.to :
    /\ t.op = "finalize" =>
         /\ status[r] = "running" \/ (status[r] = "queued" /\ t.to[r] \in {"failed", "cancelled"})
         /\ t.to[r] # "running"
         /\ t.to[r] = "queued" => attempts[r] < MaxAttempts
         /\ t.to[r] = "succeeded" => ~cancelRequested[r]
    /\ t.op = "retry" =>
         /\ DOMAIN t.to = {r} /\ status[r] = "failed" /\ retries[r] < MaxRetries
         /\ \A k \in t.unpaid : pays[r][k] # NoReservation
AttemptsLeft ==
  \A r \in Runs : status[r] \in {"none", "queued"} => attempts[r] < MaxAttempts + retries[r]
RowInv == DisjointRows /\ StillAsRead /\ AttemptsLeft

(* Money: reservations belong to the launch of the runs that name them, and *)
(* a transaction that is about to consume still finds full success.         *)
PaysOwn ==
  \A r \in Runs, k \in Kinds : pays[r][k] # NoReservation =>
    /\ pays[r][k].kind = k
    /\ pays[r][k].by = GroupOf[r] \/ (k = Baseline /\ pays[r][k].by = r)
DuesFollowSuccess ==
  \A t \in txns : \A x \in t.resolutions :
    /\ \A i \in x.due : GroupOfReservation(i) = x.group
    /\ x.outcome = "consume" =>
         \A r \in RunsOf(x.group) :
           status[r] = "succeeded" \/ (r \in DOMAIN t.to /\ t.to[r] = "succeeded")
ChargeInv == ChargedOnlyForSuccess /\ PaysOwn /\ DuesFollowSuccess

(* Settlement: what is reserved is named by a run, one transaction resolves *)
(* a launch at a time, and what it decided is still right when it commits,  *)
(* unless a retry has put a run of the launch back into the queue.          *)
LaunchedTogether ==
  \A r \in Runs : status[r] = "none" => \A k \in Kinds : pays[r][k] = NoReservation
ReservedIsNamed ==
  \A i \in reserved : \E r \in RunsOf(GroupOfReservation(i)) : pays[r][i.kind] = i
HolderIsFree ==
  entitlement.status = "reserved" =>
    /\ entitlement.holder \in Groups /\ free[entitlement.holder]
    /\ \E r \in RunsOf(entitlement.holder) : status[r] # "none"
OneResolver ==
  \A t, u \in txns : t # u =>
    \A x \in t.resolutions, y \in u.resolutions : x.group # y.group
EndingIsResolved ==
  \A t \in txns : \A r \in DOMAIN t.to :
    t.op = "finalize" /\ t.to[r] \in Terminal => \E x \in t.resolutions : x.group = GroupOf[r]
WaitIsRight(t, x) ==
  \E r \in RunsOf(x.group) :
    IF r \in DOMAIN t.to THEN t.to[r] \notin Terminal ELSE status[r] \notin Terminal
DueIsComplete(t, x) ==
  (\A r \in RunsOf(x.group) : r \notin DOMAIN t.to => status[r] \in Terminal) =>
    \A r \in RunsOf(x.group), k \in Kinds :
      (pays[r][k] # NoReservation /\ (x.outcome = "release" \/ k = Baseline)) => pays[r][k] \in x.due
ResolutionsStand ==
  \A t \in txns : \A x \in t.resolutions :
    IF x.outcome = "wait" THEN WaitIsRight(t, x) ELSE DueIsComplete(t, x)
UnpaidIsGone ==
  \A t \in txns : t.op = "retry" =>
    \A r \in DOMAIN t.to, k \in t.unpaid : pays[r][k] \notin reserved
NothingLeft ==
  \A g \in Groups : AllTerminal(g) =>
    /\ \A i \in reserved : GroupOfReservation(i) = g => i.kind # Baseline /\ AllSucceeded(g)
    /\ ~(entitlement.status = "reserved" /\ entitlement.holder = g)
NamesInv ==
  LaunchedTogether /\ SiblingsShareAddons /\ ReservedIsNamed /\ HolderIsFree /\ UnpaidIsGone
ResolverInv == OneResolver /\ EndingIsResolved /\ ResolutionsStand

(* Payment of single tests: a transaction settles nothing but the runs it   *)
(* moves, no reservation is younger than the one its run names, a run that  *)
(* may still succeed has all it needs for that, and what a retry found in   *)
(* place still is.                                                          *)
SingleTests == \A r, q \in Runs : GroupOf[r] = GroupOf[q] => r = q
Settlement(r, outcome) ==
  [group |-> GroupOf[r],
   outcome |-> IF outcome = "succeeded" THEN "consume" ELSE "release",
   due |-> {pays[r][k] : k \in IF outcome = "succeeded" THEN {Baseline} ELSE Kinds} \ {NoReservation}]
SettlesOwn ==
  \A t \in txns : \A x \in t.resolutions :
    \E r \in DOMAIN t.to : t.to[r] \in Terminal /\ x = Settlement(r, t.to[r])
NoneYounger ==
  \A i \in reserved \cup consumed \cup released, r \in Runs : GroupOf[r] = GroupOfReservation(i) =>
    pays[r][i.kind] # NoReservation /\ i.gen <= pays[r][i.kind].gen
ConsumedIsNamed ==
  \A i \in consumed, r \in Runs : GroupOf[r] = GroupOfReservation(i) => i = pays[r][Baseline]
Live(r) == status[r] \in {"queued", "running", "succeeded"}
Funded ==
  \A r \in Runs, k \in Kinds : Live(r) /\ pays[r][k] # NoReservation =>
    pays[r][k] \in IF status[r] = "succeeded" /\ k = Baseline THEN consumed ELSE reserved
FreeUseHeld ==
  /\ ~entitlement.expired
  /\ \A r \in Runs : Live(r) /\ free[GroupOf[r]] =>
       /\ entitlement.holder = GroupOf[r]
       /\ entitlement.status = IF status[r] = "succeeded" THEN "consumed" ELSE "reserved"
  /\ entitlement.status = "consumed" =>
       \E r \in Runs : entitlement.holder = GroupOf[r] /\ status[r] = "succeeded"
FreeRetry(t) == t.op = "retry" /\ \E r \in DOMAIN t.to : free[GroupOf[r]]
RetriesStand ==
  /\ \A t, u \in txns : FreeRetry(t) /\ FreeRetry(u) => t = u
  /\ \A t \in txns : t.op = "retry" => \A r \in DOMAIN t.to :
       /\ free[GroupOf[r]] => CanReserveEntitlement(GroupOf[r])
       /\ \A k \in Kinds \ t.unread : k \in t.unpaid \/ StillReserved(r, k)
PaymentInv ==
  SettlesOwn /\ NoneYounger /\ ConsumedIsNamed /\ Funded /\ FreeUseHeld /\ RetriesStand

-----------------------------------------------------------------------------
(* The steps of the system.  The six operations that end runs open a        *)
(* transaction in the same way.                                             *)
Justified(to) ==
  \A r \in DOMAIN to :
    /\ status[r] = "running" \/ (status[r] = "queued" /\ to[r] \in {"failed", "cancelled"})
    /\ to[r] # "running"
    /\ to[r] = "queued" => attempts[r] < MaxAttempts
    /\ to[r] = "succeeded" => ~cancelRequested[r]
Begins(to) ==
  /\ Finalize(to) /\ Justified(to)
  /\ calls' \subseteq [run : Runs, phase : {"process", "recover"}]
  /\ UNCHANGED <<runVars, moneyVars>>
DropsCall ==
  /\ calls' \subseteq calls
  /\ UNCHANGED <<runVars, moneyVars, txns>>

Maps == UNION {[S -> Statuses] : S \in SUBSET Runs}

LEMMA MapOfOneRun ==
  ASSUME NEW r \in Runs, NEW s \in Statuses
  PROVE  [q \in {r} |-> s] \in Maps
<1>1. {r} \in SUBSET Runs /\ [q \in {r} |-> s] \in [{r} -> Statuses]
  OBVIOUS
<1>2. QED
  BY <1>1 DEF Maps

LEMMA StepsOfSystem ==
  ASSUME TypeOK, Next
  PROVE  \/ \E to \in Maps : Begins(to)
         \/ \E S \in SUBSET Claimable : ClaimNextQueuedRuns(S)
         \/ DropsCall
         \/ \E g \in Groups, isFree \in BOOLEAN, kinds \in SUBSET Kinds : LaunchDraft(g, isFree, kinds)
         \/ \E r \in Runs : CancelRunningRun(r) \/ RetryRun(r)
         \/ \E t \in txns :
              \/ CommitFinalize(t) \/ Rollback(t)
              \/ \E r \in Runs : CommitRetry(t, r) \/ \E k \in Addons : RetryReadsAddon(t, r, k)
         \/ \E r \in Runs, outcome \in {"succeeded", "failed", "rejected"} : AnalysisSettles(r, outcome)
         \/ HoldExpires
<1>1. ASSUME NEW r \in Runs, NEW outcome \in Terminal, ProcessRun(r, outcome)
      PROVE  \E to \in Maps : Begins(to)
  <2> DEFINE to == [q \in {r} |-> outcome]
  <2>1. to \in Maps /\ DOMAIN to = {r} /\ to[r] = outcome
    BY MapOfOneRun DEF Terminal, Statuses
  <2>2. Justified(to)
    BY <1>1, <2>1 DEF ProcessRun, Outcomes, Justified, Terminal
  <2>3. Begins(to)
    BY <1>1, <2>2 DEF ProcessRun, Begins, TypeOK
  <2>4. QED
    BY <2>1, <2>3
<1>2. ASSUME NEW r \in Runs, RecoverRun(r)
      PROVE  \E to \in Maps : Begins(to)
  <2> DEFINE to == [q \in {r} |-> "failed"]
  <2>1. to \in Maps /\ DOMAIN to = {r} /\ to[r] = "failed"
    BY MapOfOneRun DEF Statuses
  <2>2. Justified(to)
    BY <1>2, <2>1 DEF RecoverRun, Justified
  <2>3. Begins(to)
    BY <1>2, <2>2 DEF RecoverRun, Begins, TypeOK
  <2>4. QED
    BY <2>1, <2>3
<1>3. ASSUME NEW S \in SUBSET Runs, ReapStaleRunningRuns(S)
      PROVE  \E to \in Maps : Begins(to)
  <2> DEFINE to == [r \in S |-> Reaped(r)]
  <2>1. to \in Maps /\ DOMAIN to = S
    BY DEF Maps, Statuses, Reaped
  <2>2. Justified(to)
    BY <1>3, <2>1 DEF ReapStaleRunningRuns, Justified, Reaped
  <2>3. Begins(to)
    BY <1>3, <2>2 DEF ReapStaleRunningRuns, Begins, TypeOK
  <2>4. QED
    BY <2>1, <2>3
<1>4. ASSUME NEW S \in SUBSET Runs, FailBlockedRuns(S)
      PROVE  \E to \in Maps : Begins(to)
  <2> DEFINE to == [r \in S |-> "failed"]
  <2>1. to \in Maps /\ DOMAIN to = S
    BY DEF Maps, Statuses
  <2>2. Justified(to)
    BY <1>4, <2>1 DEF FailBlockedRuns, Blocked, Justified
  <2>3. Begins(to)
    BY <1>4, <2>2 DEF FailBlockedRuns, Begins, TypeOK
  <2>4. QED
    BY <2>1, <2>3
<1>5. ASSUME NEW r \in Runs, CancelQueuedRun(r)
      PROVE  \E to \in Maps : Begins(to)
  <2> DEFINE to == [q \in {r} |-> "cancelled"]
  <2>1. to \in Maps /\ DOMAIN to = {r} /\ to[r] = "cancelled"
    BY MapOfOneRun DEF Statuses
  <2>2. Justified(to)
    BY <1>5, <2>1 DEF CancelQueuedRun, Justified
  <2>3. Begins(to)
    BY <1>5, <2>2 DEF CancelQueuedRun, Begins, TypeOK
  <2>4. QED
    BY <2>1, <2>3
<1>6. ASSUME NEW c \in calls, ReturnFromCall(c) \/ LoseCall(c)
      PROVE  DropsCall
  BY <1>6 DEF ReturnFromCall, LoseCall, DropsCall
<1>7. CASE Worker
  BY <1>7, <1>1, <1>2, <1>3, <1>4, <1>6 DEF Worker
<1>8. CASE User
  BY <1>8, <1>5 DEF User
<1>9. CASE Database \/ Environment
  BY <1>9 DEF Database, Environment
<1>10. QED
  BY <1>7, <1>8, <1>9 DEF Next

(* What Finalize adds to the open transactions.                             *)
LEMMA FinalizeAdds ==
  ASSUME TypeOK, NEW to \in Maps, Finalize(to)
  PROVE  \E t \in Transaction :
           /\ txns' = txns \cup {t}
           /\ t.op = "finalize" /\ t.to = to
           /\ DOMAIN to \subseteq Runs /\ to \in [DOMAIN to -> Statuses]
           /\ \A u \in txns : DOMAIN u.to \cap DOMAIN to = {}
           /\ \A x \in t.resolutions : x = Resolution(x.group, to)
           /\ \A x \in t.resolutions : ~GroupLocked(x.group)
           /\ \A g \in Groups : (\E r \in DOMAIN to : to[r] \in Terminal /\ GroupOf[r] = g)
                                   <=> \E x \in t.resolutions : x.group = g
<1> DEFINE resolved == {GroupOf[r] : r \in {q \in DOMAIN to : to[q] \in Terminal}}
           t == [op |-> "finalize", to |-> to, resolutions |-> {Resolution(g, to) : g \in resolved},
                 unread |-> {}, unpaid |-> {}]
<1>1. DOMAIN to \subseteq Runs /\ to \in [DOMAIN to -> Statuses]
  BY DEF Maps
<1>2. resolved \subseteq Groups
  BY <1>1, GroupAssumption
<1>3. ASSUME NEW g \in Groups
      PROVE  Resolution(g, to) \in [group : Groups, outcome : {"wait", "consume", "release"},
                                    due : SUBSET Reservation]
  <2>1. \A S \in SUBSET Kinds :
          {pays[r][k] : r \in RunsOf(g), k \in S} \ {NoReservation} \in SUBSET Reservation
    BY DEF TypeOK, RunsOf
  <2>2. {Baseline} \in SUBSET Kinds /\ Kinds \in SUBSET Kinds /\ {} \in SUBSET Kinds
    BY DEF Kinds
  <2>3. QED
    BY <2>1, <2>2 DEF Resolution
<1>4. \A g \in Groups : Resolution(g, to).group = g
  BY DEF Resolution
<1>5. t \in Transaction
  BY <1>2, <1>3 DEF Transaction, Maps
<1>6. txns' = txns \cup {t} /\ \A g \in resolved : ~GroupLocked(g)
  BY DEF Finalize
<1>7. \A u \in txns : DOMAIN u.to \cap DOMAIN to = {}
  BY DEF Finalize, Unlocked, Locked
<1>8. \A x \in t.resolutions : x.group \in resolved /\ x = Resolution(x.group, to)
  BY <1>2, <1>4
<1>9. \A g \in resolved : \E x \in t.resolutions : x.group = g
  BY <1>2, <1>4
<1>10. \A g \in Groups : (\E r \in DOMAIN to : to[r] \in Terminal /\ GroupOf[r] = g) <=> g \in resolved
  OBVIOUS
<1> HIDE DEF resolved
<1>11. \A g \in Groups : g \in resolved <=> \E x \in t.resolutions : x.group = g
  BY <1>8, <1>9
<1>12. QED
  BY <1>1, <1>5, <1>6, <1>7, <1>8, <1>10, <1>11

LEMMA RowsOfTransaction ==
  ASSUME TypeOK, NEW t \in txns
  PROVE  /\ DOMAIN t.to \subseteq Runs /\ t.to \in [DOMAIN t.to -> Statuses]
         /\ t.resolutions \subseteq [group : Groups, outcome : {"wait", "consume", "release"},
                                     due : SUBSET Reservation]
         /\ t.unread \subseteq Addons /\ t.unpaid \subseteq Kinds
  BY DEF TypeOK, Transaction

(* A retry makes reservations of the same launch, one generation later.     *)
LEMMA SuccessorOf ==
  ASSUME TypeOK, NEW r \in Runs, NEW k \in Kinds, pays[r][k] # NoReservation
  PROVE  /\ Successor(r, k) \in Reservation /\ Successor(r, k).kind = k
         /\ Successor(r, k).by = IF k = Baseline THEN r ELSE GroupOf[r]
         /\ GroupOfReservation(Successor(r, k)) = GroupOf[r]
<1>1. pays[r][k] \in Reservation
  BY DEF TypeOK
<1>2. pays[r][k].gen + 1 \in Nat
  BY <1>1 DEF Reservation
<1>3. GroupOf[r] \in Groups /\ GroupOf[r] \notin Runs
  BY GroupAssumption, KeyAssumption
<1>4. QED
  BY <1>2, <1>3 DEF Successor, Reservation, GroupOfReservation

-----------------------------------------------------------------------------
(* Type correctness and the rows.                                           *)

LEMMA TypeInductive ==
  ASSUME TypeOK, RowInv, Next
  PROVE  TypeOK'
<1>1. ASSUME NEW to \in Maps, Begins(to)
      PROVE  TypeOK'
  <2>1. txns' \subseteq Transaction
    BY <1>1, FinalizeAdds DEF Begins, TypeOK
  <2>2. QED
    BY <1>1, <2>1 DEF Begins, TypeOK, runVars, moneyVars
<1>2. ASSUME NEW S \in SUBSET Claimable, ClaimNextQueuedRuns(S)
      PROVE  TypeOK'
  <2>1. S \subseteq Runs /\ \A r \in S : status[r] = "queued"
    BY DEF Claimable
  <2>2. \A r \in Runs : attempts'[r] \in 0..MaxAttempts + retries'[r]
    BY <1>2, <2>1, AttemptsAssumption DEF ClaimNextQueuedRuns, TypeOK, RowInv, AttemptsLeft
  <2>3. QED
    BY <1>2, <2>1, <2>2 DEF ClaimNextQueuedRuns, TypeOK, moneyVars, Statuses
<1>3. CASE DropsCall
  BY <1>3 DEF DropsCall, TypeOK, runVars, moneyVars
<1>4. ASSUME NEW g \in Groups, NEW isFree \in BOOLEAN, NEW kinds \in SUBSET Kinds,
             LaunchDraft(g, isFree, kinds)
      PROVE  TypeOK'
  <2> DEFINE launched == [k \in kinds |-> [by |-> g, kind |-> k, gen |-> 0]]
  <2>1. \A k \in kinds : launched[k] \in Reservation
    BY DEF Reservation
  <2>2. reserved' \subseteq Reservation
    BY <1>4, <2>1 DEF LaunchDraft, TypeOK
  <2>3. pays' \in [Runs -> [Kinds -> Reservation \cup {NoReservation}]]
    BY <1>4, <2>1 DEF LaunchDraft, TypeOK
  <2>4. entitlement' \in [status : {"available", "reserved", "consumed"},
                          holder : Groups \cup {NoGroup}, expired : BOOLEAN]
    BY <1>4 DEF LaunchDraft, ReserveEntitlement, TypeOK
  <2>5. /\ status' \in [Runs -> Statuses \cup {"none"}]
        /\ analysis' \in [Runs -> {"none", "pending", "succeeded", "failed", "rejected"}]
        /\ free' \in [Groups -> BOOLEAN]
    BY <1>4 DEF LaunchDraft, TypeOK, Statuses
  <2>6. UNCHANGED <<attempts, cancelRequested, retries, consumed, released, calls, txns>>
    BY <1>4 DEF LaunchDraft
  <2>7. QED
    BY <2>2, <2>3, <2>4, <2>5, <2>6 DEF TypeOK
<1>5. ASSUME NEW r \in Runs, CancelRunningRun(r)
      PROVE  TypeOK'
  BY <1>5 DEF CancelRunningRun, TypeOK, moneyVars
<1>6. ASSUME NEW r \in Runs, RetryRun(r)
      PROVE  TypeOK'
  <2>1. [q \in {r} |-> "queued"] \in Maps
    BY MapOfOneRun DEF Statuses
  <2>2. {k \in {Baseline} : ~StillReserved(r, k)} \in SUBSET Kinds
    BY DEF Kinds
  <2> DEFINE u == [op |-> "retry", to |-> [q \in {r} |-> "queued"], resolutions |-> {},
                   unread |-> Addons, unpaid |-> {k \in {Baseline} : ~StillReserved(r, k)}]
  <2>3. u \in Transaction
    BY <2>1, <2>2 DEF Transaction, Maps
  <2>4. txns' = txns \cup {u}
    BY <1>6 DEF RetryRun
  <2>5. txns' \subseteq Transaction
    BY <2>3, <2>4 DEF TypeOK
  <2>6. QED
    BY <1>6, <2>5 DEF RetryRun, TypeOK, runVars, moneyVars
<1>7. ASSUME NEW t \in txns, CommitFinalize(t)
      PROVE  TypeOK'
  <2>1. status' \in [Runs -> Statuses \cup {"none"}]
    BY <1>7, RowsOfTransaction DEF CommitFinalize, TypeOK
  <2>2. entitlement' \in [status : {"available", "reserved", "consumed"},
                          holder : Groups \cup {NoGroup}, expired : BOOLEAN]
    BY <1>7 DEF CommitFinalize, ResolveEntitlement, Available, TypeOK
  <2>3. /\ consumed' \subseteq Reservation /\ released' \subseteq Reservation
        /\ reserved' \subseteq Reservation /\ txns' \subseteq Transaction
    BY <1>7 DEF CommitFinalize, TypeOK
  <2>4. UNCHANGED <<attempts, cancelRequested, retries, analysis, pays, free, calls>>
    BY <1>7 DEF CommitFinalize
  <2>5. QED
    BY <2>1, <2>2, <2>3, <2>4 DEF TypeOK
<1>8. ASSUME NEW t \in txns, Rollback(t)
      PROVE  TypeOK'
  BY <1>8 DEF Rollback, TypeOK, runVars, moneyVars
<1>9. ASSUME NEW t \in txns, NEW r \in Runs, CommitRetry(t, r)
      PROVE  TypeOK'
  <2>1. t.unpaid \subseteq Kinds /\ \A k \in t.unpaid : pays[r][k] # NoReservation
    BY <1>9, RowsOfTransaction DEF CommitRetry, RowInv, StillAsRead
  <2>2. \A k \in t.unpaid : Successor(r, k) \in Reservation
    BY <2>1, SuccessorOf
  <2>3. pays' \in [Runs -> [Kinds -> Reservation \cup {NoReservation}]]
    BY <1>9, <2>2 DEF CommitRetry, RenewedIds, TypeOK
  <2>4. reserved' \subseteq Reservation /\ txns' \subseteq Transaction
    BY <1>9, <2>2 DEF CommitRetry, TypeOK
  <2>5. entitlement' \in [status : {"available", "reserved", "consumed"},
                          holder : Groups \cup {NoGroup}, expired : BOOLEAN]
    BY <1>9, GroupAssumption DEF CommitRetry, ReserveEntitlement, TypeOK
  <2>6. /\ status' \in [Runs -> Statuses \cup {"none"}]
        /\ cancelRequested' \in [Runs -> BOOLEAN]
        /\ analysis' \in [Runs -> {"none", "pending", "succeeded", "failed", "rejected"}]
    BY <1>9 DEF CommitRetry, RestartedAnalysis, TypeOK, Statuses
  <2>7. UNCHANGED <<attempts, free, consumed, released, calls>>
    BY <1>9 DEF CommitRetry
  <2>8. retries' = [retries EXCEPT ![r] = retries[r] + 1] /\ retries[r] + 1 \in 0..MaxRetries
    <3>1. retries[r] < MaxRetries
      BY <1>9 DEF CommitRetry, RowInv, StillAsRead
    <3>2. QED
      BY <1>9, <3>1, AttemptsAssumption DEF CommitRetry, TypeOK
  <2>9. QED
    BY <2>3, <2>4, <2>5, <2>6, <2>7, <2>8, AttemptsAssumption DEF TypeOK
<1>10. ASSUME NEW t \in txns, NEW r \in Runs, NEW k \in Addons, RetryReadsAddon(t, r, k)
       PROVE  TypeOK'
  <2> DEFINE u == [op |-> "retry", to |-> t.to, resolutions |-> {}, unread |-> t.unread \ {k},
                   unpaid |-> IF StillReserved(r, k) THEN t.unpaid ELSE t.unpaid \cup {k}]
  <2>1. u \in Transaction
    BY RowsOfTransaction DEF TypeOK, Transaction, Kinds
  <2>2. txns' = (txns \ {t}) \cup {u}
    BY <1>10 DEF RetryReadsAddon
  <2>3. QED
    BY <1>10, <2>1, <2>2 DEF RetryReadsAddon, TypeOK, runVars, moneyVars
<1>11. ASSUME NEW r \in Runs, NEW outcome \in {"succeeded", "failed", "rejected"},
              AnalysisSettles(r, outcome)
       PROVE  TypeOK'
  BY <1>11 DEF AnalysisSettles, TypeOK, moneyVars
<1>12. CASE HoldExpires
  BY <1>12 DEF HoldExpires, TypeOK, runVars
<1>13. QED
  BY StepsOfSystem, <1>1, <1>2, <1>3, <1>4, <1>5, <1>6, <1>7, <1>8, <1>9, <1>10, <1>11, <1>12

LEMMA RowsInductive ==
  ASSUME TypeOK, RowInv, Next
  PROVE  RowInv'
<1> USE DEF RowInv
<1>1. ASSUME NEW to \in Maps, Begins(to)
      PROVE  RowInv'
  <2>1. PICK t \in Transaction :
          /\ txns' = txns \cup {t}
          /\ t.op = "finalize" /\ t.to = to
          /\ \A u \in txns : DOMAIN u.to \cap DOMAIN to = {}
    BY <1>1, FinalizeAdds DEF Begins
  <2>2. DisjointRows'
    BY <2>1 DEF DisjointRows
  <2>3. StillAsRead'
    BY <1>1, <2>1 DEF StillAsRead, Begins, Justified, runVars
  <2>4. AttemptsLeft'
    BY <1>1 DEF AttemptsLeft, Begins, runVars
  <2>5. QED
    BY <2>2, <2>3, <2>4
<1>2. ASSUME NEW S \in SUBSET Claimable, ClaimNextQueuedRuns(S)
      PROVE  RowInv'
  <2>1. \A t \in txns : \A r \in DOMAIN t.to : r \notin S /\ r \in Runs
    BY RowsOfTransaction DEF Claimable, Locked
  <2>2. StillAsRead'
    BY <1>2, <2>1 DEF StillAsRead, ClaimNextQueuedRuns
  <2>3. DisjointRows' /\ AttemptsLeft'
    BY <1>2 DEF DisjointRows, AttemptsLeft, ClaimNextQueuedRuns
  <2>4. QED
    BY <2>2, <2>3
<1>3. CASE DropsCall
  BY <1>3 DEF DropsCall, DisjointRows, StillAsRead, AttemptsLeft, runVars
<1>4. ASSUME NEW g \in Groups, NEW isFree \in BOOLEAN, NEW kinds \in SUBSET Kinds,
             LaunchDraft(g, isFree, kinds)
      PROVE  RowInv'
  <2>1. \A t \in txns : \A r \in DOMAIN t.to :
          r \in Runs /\ (t.op = "finalize" \/ t.op = "retry" => GroupOf[r] # g)
    BY <1>4, RowsOfTransaction DEF StillAsRead, LaunchDraft, RunsOf
  <2>2. StillAsRead'
    BY <1>4, <2>1 DEF StillAsRead, LaunchDraft
  <2>3. \A r \in Runs : GroupOf[r] = g => attempts[r] < MaxAttempts + retries[r]
    BY <1>4 DEF AttemptsLeft, LaunchDraft, RunsOf
  <2>4. DisjointRows' /\ AttemptsLeft'
    BY <1>4, <2>3 DEF DisjointRows, AttemptsLeft, LaunchDraft
  <2>5. QED
    BY <2>2, <2>4
<1>5. ASSUME NEW r \in Runs, CancelRunningRun(r)
      PROVE  RowInv'
  <2>1. StillAsRead'
    BY <1>5 DEF StillAsRead, CancelRunningRun, Locked
  <2>2. DisjointRows' /\ AttemptsLeft'
    BY <1>5 DEF DisjointRows, AttemptsLeft, CancelRunningRun
  <2>3. QED
    BY <2>1, <2>2
<1>6. ASSUME NEW r \in Runs, RetryRun(r)
      PROVE  RowInv'
  <2> DEFINE u == [op |-> "retry", to |-> [q \in {r} |-> "queued"], resolutions |-> {},
                   unread |-> Addons, unpaid |-> {k \in {Baseline} : ~StillReserved(r, k)}]
  <2>1. txns' = txns \cup {u} /\ UNCHANGED <<runVars, moneyVars, calls>>
        /\ ~Locked(r) /\ status[r] = "failed" /\ retries[r] < MaxRetries
    BY <1>6 DEF RetryRun, Retryable
  <2>2. u.op = "retry" /\ DOMAIN u.to = {r} /\ \A k \in u.unpaid : pays[r][k] # NoReservation
    BY DEF StillReserved
  <2> HIDE DEF u
  <2>3. StillAsRead'
    BY <2>1, <2>2 DEF StillAsRead, runVars
  <2>4. DisjointRows' /\ AttemptsLeft'
    BY <2>1, <2>2 DEF DisjointRows, AttemptsLeft, runVars, Locked
  <2>5. QED
    BY <2>3, <2>4
<1>7. ASSUME NEW t \in txns, CommitFinalize(t)
      PROVE  RowInv'
  <2>1. \A u \in txns' : u \in txns /\ DOMAIN u.to \cap DOMAIN t.to = {} /\ DOMAIN u.to \subseteq Runs
    BY <1>7, RowsOfTransaction DEF CommitFinalize, DisjointRows
  <2>2. StillAsRead'
    BY <1>7, <2>1 DEF StillAsRead, CommitFinalize
  <2>3. DisjointRows'
    BY <1>7 DEF DisjointRows, CommitFinalize
  <2>4. ASSUME NEW r \in DOMAIN t.to, t.to[r] = "queued"
        PROVE  attempts[r] < MaxAttempts + retries[r]
    <3>1. attempts[r] < MaxAttempts /\ attempts[r] \in Nat /\ retries[r] \in Nat
      BY <1>7, <2>4, RowsOfTransaction, AttemptsAssumption DEF StillAsRead, CommitFinalize, TypeOK
    <3>2. QED
      BY <3>1, AttemptsAssumption
  <2>5. AttemptsLeft'
    <3> SUFFICES ASSUME NEW r \in Runs, status'[r] \in {"none", "queued"}
                 PROVE  attempts[r] < MaxAttempts + retries[r]
      BY <1>7 DEF AttemptsLeft, CommitFinalize
    <3>1. CASE r \in DOMAIN t.to
      BY <1>7, <2>4, <3>1, RowsOfTransaction DEF CommitFinalize, Statuses
    <3>2. CASE r \notin DOMAIN t.to
      BY <1>7, <3>2 DEF CommitFinalize, AttemptsLeft
    <3>3. QED
      BY <3>1, <3>2
  <2>6. QED
    BY <2>2, <2>3, <2>5
<1>8. ASSUME NEW t \in txns, Rollback(t)
      PROVE  RowInv'
  BY <1>8 DEF Rollback, DisjointRows, StillAsRead, AttemptsLeft, runVars
<1>9. ASSUME NEW t \in txns, NEW r \in Runs, CommitRetry(t, r)
      PROVE  RowInv'
  <2>1. \A u \in txns' : u \in txns /\ r \notin DOMAIN u.to /\ DOMAIN u.to \subseteq Runs
    BY <1>9, RowsOfTransaction DEF CommitRetry, DisjointRows
  <2>2. t.unpaid \subseteq Kinds /\ \A k \in t.unpaid : pays[r][k] # NoReservation
    BY <1>9, RowsOfTransaction DEF CommitRetry, StillAsRead
  <2>3. \A k \in t.unpaid : Successor(r, k) # NoReservation
    BY <2>2, SuccessorOf, NullAssumption
  <2>4. \A q \in Runs, k \in Kinds : pays[q][k] # NoReservation => pays'[q][k] # NoReservation
    BY <1>9, <2>3 DEF CommitRetry, RenewedIds
  <2>5. StillAsRead'
    <3> SUFFICES ASSUME NEW u \in txns', NEW q \in DOMAIN u.to
                 PROVE  StillAsRead!(u)!(q)'
      BY DEF StillAsRead
    <3>1. QED
      BY <1>9, <2>1, <2>4, RowsOfTransaction DEF StillAsRead, CommitRetry, TypeOK
  <2>6. DisjointRows'
    BY <1>9 DEF DisjointRows, CommitRetry
  <2>7. attempts[r] < MaxAttempts + (retries[r] + 1)
    BY AttemptsAssumption DEF TypeOK
  <2>8. AttemptsLeft'
    BY <1>9, <2>7 DEF AttemptsLeft, CommitRetry, TypeOK
  <2>9. QED
    BY <2>5, <2>6, <2>8
<1>10. ASSUME NEW t \in txns, NEW r \in Runs, NEW k \in Addons, RetryReadsAddon(t, r, k)
       PROVE  RowInv'
  <2> DEFINE u == [op |-> "retry", to |-> t.to, resolutions |-> {}, unread |-> t.unread \ {k},
                   unpaid |-> IF StillReserved(r, k) THEN t.unpaid ELSE t.unpaid \cup {k}]
  <2>1. txns' = (txns \ {t}) \cup {u} /\ UNCHANGED <<runVars, moneyVars, calls>>
        /\ r \in DOMAIN t.to /\ t.op = "retry"
    BY <1>10 DEF RetryReadsAddon
  <2>2. u.op = "retry" /\ u.to = t.to /\ \A l \in u.unpaid : l \in t.unpaid \/ pays[r][l] # NoReservation
    BY DEF StillReserved
  <2> HIDE DEF u
  <2>3. StillAsRead'
    BY <2>1, <2>2 DEF StillAsRead, runVars
  <2>4. DisjointRows' /\ AttemptsLeft'
    BY <2>1, <2>2 DEF DisjointRows, AttemptsLeft, runVars
  <2>5. QED
    BY <2>3, <2>4
<1>11. ASSUME NEW r \in Runs, NEW outcome \in {"succeeded", "failed", "rejected"},
              AnalysisSettles(r, outcome)
       PROVE  RowInv'
  BY <1>11 DEF AnalysisSettles, DisjointRows, StillAsRead, AttemptsLeft
<1>12. CASE HoldExpires
  BY <1>12 DEF HoldExpires, DisjointRows, StillAsRead, AttemptsLeft, runVars
<1>13. QED
  BY StepsOfSystem, <1>1, <1>2, <1>3, <1>4, <1>5, <1>6, <1>7, <1>8, <1>9, <1>10, <1>11, <1>12

LEMMA RowsStay ==
  ASSUME TypeOK, RowInv, UNCHANGED vars
  PROVE  TypeOK' /\ RowInv'
BY DEF TypeOK, RowInv, DisjointRows, StillAsRead, AttemptsLeft, vars, runVars, moneyVars

LEMMA RowsHold == Spec => [](TypeOK /\ RowInv)
<1>1. Init => TypeOK /\ RowInv
  <2> SUFFICES ASSUME Init
               PROVE  TypeOK /\ RowInv
    OBVIOUS
  <2>1. TypeOK
    BY AttemptsAssumption DEF Init, TypeOK, Available
  <2>2. RowInv
    BY AttemptsAssumption DEF Init, RowInv, DisjointRows, StillAsRead, AttemptsLeft
  <2>3. QED
    BY <2>1, <2>2
<1>2. TypeOK /\ RowInv /\ [Next]_vars => (TypeOK /\ RowInv)'
  BY TypeInductive, RowsInductive, RowsStay
<1>3. QED
  BY <1>1, <1>2, PTL DEF Spec

(* Every reachable state is well typed: in particular no run is claimed     *)
(* more than MaxAttempts times, and once more per manual retry, whatever    *)
(* the reaper and dying workers do.                                         *)
THEOREM RunsTypeCorrect == Spec => []TypeOK
BY RowsHold, PTL

-----------------------------------------------------------------------------
(* Outcomes.                                                                *)

(* What a step does to the status of a run and to its cancel request.       *)
KeepsOutcome(r) ==
  /\ status'[r] # status[r] => <<status[r], status'[r]>> \in Life!Moves
  /\ status[r] \in {"succeeded", "cancelled"} => status'[r] = status[r]
  /\ status[r] # "succeeded" /\ status'[r] = "succeeded" => ~cancelRequested'[r]
  /\ status[r] = "succeeded" /\ cancelRequested'[r] => cancelRequested[r]

LEMMA StatusSteps ==
  ASSUME TypeOK, RowInv, Next, NEW r \in Runs
  PROVE  KeepsOutcome(r)
<1> USE DEF KeepsOutcome, Life!Moves, Life!Ended
<1>1. ASSUME NEW to \in Maps, Begins(to)
      PROVE  UNCHANGED <<status, cancelRequested>>
  BY <1>1 DEF Begins, runVars
<1>2. CASE UNCHANGED <<status, cancelRequested>>
  BY <1>2
<1>3. ASSUME NEW S \in SUBSET Claimable, ClaimNextQueuedRuns(S)
      PROVE  KeepsOutcome(r)
  BY <1>3 DEF ClaimNextQueuedRuns, Claimable
<1>4. ASSUME NEW g \in Groups, NEW isFree \in BOOLEAN, NEW kinds \in SUBSET Kinds,
             LaunchDraft(g, isFree, kinds)
      PROVE  KeepsOutcome(r)
  BY <1>4 DEF LaunchDraft, RunsOf
<1>5. ASSUME NEW q \in Runs, CancelRunningRun(q)
      PROVE  KeepsOutcome(r)
  BY <1>5 DEF CancelRunningRun, TypeOK
<1>6. ASSUME NEW t \in txns, CommitFinalize(t)
      PROVE  KeepsOutcome(r)
  <2>1. r \in DOMAIN t.to => t.to[r] \in Statuses
    BY RowsOfTransaction
  <2>2. QED
    BY <1>6, <2>1 DEF CommitFinalize, RowInv, StillAsRead, Statuses
<1>7. ASSUME NEW t \in txns, NEW q \in Runs, CommitRetry(t, q)
      PROVE  KeepsOutcome(r)
  BY <1>7 DEF CommitRetry, RowInv, StillAsRead, TypeOK
<1>8. QED
  BY StepsOfSystem, <1>1, <1>2, <1>3, <1>4, <1>5, <1>6, <1>7
     DEF DropsCall, RetryRun, Rollback, RetryReadsAddon, AnalysisSettles, HoldExpires, runVars

(* A run that was to be cancelled never succeeds: the checkpoint and the    *)
(* request exclude each other by the row lock.                              *)
THEOREM CancelIsHonoured == Spec => []CancelledNeverSucceeds
<1>1. Init => CancelledNeverSucceeds
  BY DEF Init, CancelledNeverSucceeds
<1>2. TypeOK /\ RowInv /\ CancelledNeverSucceeds /\ [Next]_vars => CancelledNeverSucceeds'
  <2> SUFFICES ASSUME TypeOK, RowInv, CancelledNeverSucceeds, [Next]_vars
               PROVE  CancelledNeverSucceeds'
    OBVIOUS
  <2>1. CASE Next
    BY <2>1, StatusSteps DEF CancelledNeverSucceeds, KeepsOutcome
  <2>2. CASE UNCHANGED vars
    BY <2>2 DEF CancelledNeverSucceeds, vars, runVars
  <2>3. QED
    BY <2>1, <2>2
<1>3. QED
  BY <1>1, <1>2, RowsHold, PTL DEF Spec

(* Runs live as RunLife describes: successes and cancellations are final    *)
(* against late workers, reapers and retries, and nothing succeeds that was *)
(* not running (process_run, reap_stale_running_runs, retry_run).           *)
THEOREM RunsLiveAsSeen == Spec => LivesAsSeen
<1>1. Init => Life!Init
  BY DEF Init, Life!Init
<1>2. TypeOK /\ TypeOK' /\ RowInv /\ [Next]_vars => [Life!Step]_status
  <2> SUFFICES ASSUME TypeOK, TypeOK', RowInv, Next
               PROVE  Life!Step
    BY DEF vars, runVars
  <2>1. status' \in [Runs -> {"none"} \cup Life!Active \cup Life!Ended]
    BY DEF TypeOK, Statuses, Life!Active, Life!Ended
  <2>2. QED
    BY <2>1, StatusSteps DEF KeepsOutcome, Life!Step
<1>3. QED
  BY <1>1, <1>2, RowsHold, PTL DEF Spec, LivesAsSeen, Life!Spec

-----------------------------------------------------------------------------
(* Money.                                                                   *)

LEMMA ChargesInductive ==
  ASSUME TypeOK, RowInv, ChargeInv, Next
  PROVE  ChargeInv'
<1> USE DEF ChargeInv
<1>1. ASSUME NEW r \in Runs, status[r] = "succeeded"
      PROVE  status'[r] = "succeeded"
  BY <1>1, StatusSteps DEF KeepsOutcome
<1>2. (UNCHANGED consumed) => ChargedOnlyForSuccess'
  BY <1>1 DEF ChargedOnlyForSuccess, AllSucceeded, RunsOf
<1>3. (UNCHANGED pays) => PaysOwn'
  BY DEF PaysOwn
<1>4. (\A t \in txns' : t \in txns \/ t.resolutions = {}) => DuesFollowSuccess'
  BY <1>1, RowsOfTransaction DEF DuesFollowSuccess, RunsOf
<1>5. ASSUME NEW to \in Maps, Begins(to)
      PROVE  ChargeInv'
  <2>1. PICK t \in Transaction :
          /\ txns' = txns \cup {t}
          /\ t.to = to
          /\ \A x \in t.resolutions : x = Resolution(x.group, to)
    BY <1>5, FinalizeAdds DEF Begins
  <2>2. ASSUME NEW x \in t.resolutions
        PROVE  /\ \A i \in x.due : GroupOfReservation(i) = x.group
               /\ x.outcome = "consume" =>
                    \A r \in RunsOf(x.group) :
                      status[r] = "succeeded" \/ (r \in DOMAIN to /\ to[r] = "succeeded")
    <3>1. x = Resolution(x.group, to)
      BY <2>1
    <3>2. \A i \in x.due : \E r \in RunsOf(x.group), k \in Kinds : i = pays[r][k] /\ i # NoReservation
      BY <3>1 DEF Resolution, Kinds
    <3>3. \A r \in Runs, k \in Kinds : pays[r][k] # NoReservation =>
            GroupOfReservation(pays[r][k]) = GroupOf[r]
      BY GroupAssumption, KeyAssumption DEF PaysOwn, GroupOfReservation
    <3>4. \A i \in x.due : GroupOfReservation(i) = x.group
      BY <3>2, <3>3 DEF RunsOf
    <3>5. x.outcome = "consume" => \A r \in RunsOf(x.group) :
            status[r] = "succeeded" \/ (r \in DOMAIN to /\ to[r] = "succeeded")
      BY <3>1 DEF Resolution
    <3>6. QED
      BY <3>4, <3>5
  <2>3. UNCHANGED <<status, consumed, pays>>
    BY <1>5 DEF Begins, runVars, moneyVars
  <2>4. DuesFollowSuccess'
    BY <2>1, <2>2, <2>3 DEF DuesFollowSuccess
  <2>5. QED
    BY <1>2, <1>3, <2>3, <2>4
<1>6. CASE DropsCall
  BY <1>2, <1>3, <1>4, <1>6 DEF DropsCall, runVars, moneyVars
<1>7. ASSUME NEW S \in SUBSET Claimable, ClaimNextQueuedRuns(S)
      PROVE  ChargeInv'
  BY <1>2, <1>3, <1>4, <1>7 DEF ClaimNextQueuedRuns, moneyVars
<1>8. ASSUME NEW g \in Groups, NEW isFree \in BOOLEAN, NEW kinds \in SUBSET Kinds,
             LaunchDraft(g, isFree, kinds)
      PROVE  ChargeInv'
  <2>1. PaysOwn'
    BY <1>8 DEF LaunchDraft, PaysOwn
  <2>2. QED
    BY <1>2, <1>4, <1>8, <2>1 DEF LaunchDraft
<1>9. ASSUME NEW r \in Runs, CancelRunningRun(r) \/ RetryRun(r)
      PROVE  ChargeInv'
  BY <1>2, <1>3, <1>4, <1>9 DEF CancelRunningRun, RetryRun, runVars, moneyVars
<1>10. ASSUME NEW t \in txns, CommitFinalize(t)
       PROVE  ChargeInv'
  <2>1. ASSUME NEW i \in consumed', i \notin consumed
        PROVE  AllSucceeded(GroupOfReservation(i))'
    <3>1. PICK x \in t.resolutions : x.outcome = "consume" /\ i \in x.due
      BY <1>10, <2>1 DEF CommitFinalize
    <3>2. GroupOfReservation(i) = x.group
      BY <3>1 DEF DuesFollowSuccess
    <3>3. \A r \in RunsOf(x.group) :
            status[r] = "succeeded" \/ (r \in DOMAIN t.to /\ t.to[r] = "succeeded")
      BY <3>1 DEF DuesFollowSuccess
    <3>4. \A r \in RunsOf(x.group) : status'[r] = "succeeded"
      BY <1>1, <1>10, <3>3 DEF CommitFinalize, RunsOf
    <3>5. QED
      BY <3>2, <3>4 DEF AllSucceeded, RunsOf
  <2>2. ASSUME NEW i \in consumed
        PROVE  AllSucceeded(GroupOfReservation(i))'
    BY <1>1 DEF ChargedOnlyForSuccess, AllSucceeded, RunsOf
  <2>3. ChargedOnlyForSuccess'
    BY <2>1, <2>2 DEF ChargedOnlyForSuccess, GroupOfReservation
  <2>4. QED
    BY <1>3, <1>4, <1>10, <2>3 DEF CommitFinalize
<1>11. ASSUME NEW t \in txns, Rollback(t)
       PROVE  ChargeInv'
  BY <1>2, <1>3, <1>4, <1>11 DEF Rollback, runVars, moneyVars
<1>12. ASSUME NEW t \in txns, NEW r \in Runs, CommitRetry(t, r)
       PROVE  ChargeInv'
  <2>1. \A k \in t.unpaid : k \in Kinds /\ pays[r][k] # NoReservation
    BY <1>12, RowsOfTransaction DEF CommitRetry, RowInv, StillAsRead
  <2>2. \A k \in t.unpaid : /\ Successor(r, k).kind = k
                            /\ Successor(r, k).by = IF k = Baseline THEN r ELSE GroupOf[r]
    BY <2>1, SuccessorOf
  <2>3. PaysOwn'
    BY <1>12, <2>2 DEF CommitRetry, RenewedIds, PaysOwn
  <2>4. QED
    BY <1>2, <1>4, <1>12, <2>3 DEF CommitRetry
<1>13. ASSUME NEW t \in txns, NEW r \in Runs, NEW k \in Addons, RetryReadsAddon(t, r, k)
       PROVE  ChargeInv'
  BY <1>2, <1>3, <1>4, <1>13 DEF RetryReadsAddon, runVars, moneyVars
<1>14. ASSUME NEW r \in Runs, NEW outcome \in {"succeeded", "failed", "rejected"},
              AnalysisSettles(r, outcome)
       PROVE  ChargeInv'
  BY <1>2, <1>3, <1>4, <1>14 DEF AnalysisSettles, moneyVars
<1>15. CASE HoldExpires
  BY <1>2, <1>3, <1>4, <1>15 DEF HoldExpires, runVars
<1>16. QED
  BY StepsOfSystem, <1>5, <1>6, <1>7, <1>8, <1>9, <1>10, <1>11, <1>12, <1>13, <1>14, <1>15

LEMMA ChargesHold == Spec => []ChargeInv
<1>1. Init => ChargeInv
  BY DEF Init, ChargeInv, ChargedOnlyForSuccess, PaysOwn, DuesFollowSuccess
<1>2. TypeOK /\ RowInv /\ ChargeInv /\ [Next]_vars => ChargeInv'
  <2> SUFFICES ASSUME TypeOK, RowInv, ChargeInv, [Next]_vars
               PROVE  ChargeInv'
    OBVIOUS
  <2>1. CASE Next
    BY <2>1, ChargesInductive
  <2>2. CASE UNCHANGED vars
    BY <2>2 DEF ChargeInv, ChargedOnlyForSuccess, AllSucceeded, PaysOwn, DuesFollowSuccess,
                vars, runVars, moneyVars
  <2>3. QED
    BY <2>1, <2>2
<1>3. QED
  BY <1>1, <1>2, RowsHold, PTL DEF Spec

(* Partial success never costs chips: whatever overlaps, a reservation is   *)
(* consumed only when every run of its launch has succeeded                 *)
(* (_resolve_launch_group).                                                 *)
THEOREM ChargesFollowSuccess == Spec => []ChargedOnlyForSuccess
<1>1. ChargeInv => ChargedOnlyForSuccess
  BY DEF ChargeInv
<1>2. QED
  BY <1>1, ChargesHold, PTL

-----------------------------------------------------------------------------
(* Reservations, and who names them.                                        *)

LEMMA NamesFrame ==
  ASSUME TypeOK, NamesInv, UNCHANGED <<pays, free>>, reserved' \subseteq reserved,
         \A r \in Runs : status'[r] = "none" => status[r] = "none",
         \A t \in txns' : t \in txns \/ t.op = "finalize",
         entitlement'.status = "reserved" =>
           entitlement.status = "reserved" /\ entitlement'.holder = entitlement.holder
  PROVE  NamesInv'
<1> USE DEF NamesInv
<1>1. LaunchedTogether' /\ SiblingsShareAddons' /\ HolderIsFree'
  BY DEF LaunchedTogether, SiblingsShareAddons, HolderIsFree, RunsOf
<1>2. ReservedIsNamed'
  BY DEF ReservedIsNamed, RunsOf, GroupOfReservation
<1>3. UnpaidIsGone'
  BY DEF UnpaidIsGone
<1>4. QED
  BY <1>1, <1>2, <1>3

LEMMA NamesAtLaunch ==
  ASSUME TypeOK, RowInv, ChargeInv, NamesInv,
         NEW g \in Groups, NEW isFree \in BOOLEAN, NEW kinds \in SUBSET Kinds,
         LaunchDraft(g, isFree, kinds)
  PROVE  NamesInv'
<1> DEFINE launched == [k \in kinds |-> [by |-> g, kind |-> k, gen |-> 0]]
<1>1. /\ reserved' = reserved \cup {launched[k] : k \in kinds}
      /\ \A r \in Runs, k \in Kinds :
           pays'[r][k] = IF GroupOf[r] = g
                         THEN IF k \in kinds THEN launched[k] ELSE NoReservation
                         ELSE pays[r][k]
      /\ \A r \in Runs : status'[r] = IF GroupOf[r] = g THEN "queued" ELSE status[r]
      /\ \A r \in Runs : GroupOf[r] = g => status[r] = "none"
      /\ UNCHANGED txns
  BY DEF LaunchDraft, RunsOf
<1>2. \A k \in kinds : GroupOfReservation(launched[k]) = g /\ launched[k].kind = k
  BY KeyAssumption DEF GroupOfReservation
<1> HIDE DEF launched
<1>3. LaunchedTogether' /\ SiblingsShareAddons'
  BY <1>1 DEF NamesInv, LaunchedTogether, SiblingsShareAddons, Kinds
<1>4. ReservedIsNamed'
  <2>1. PICK r \in Runs : GroupOf[r] = g
    BY GroupAssumption
  <2>2. ASSUME NEW k \in kinds
        PROVE  pays'[r][k] = launched[k]
    BY <1>1, <2>1
  <2>3. ASSUME NEW i \in reserved
        PROVE  \E q \in RunsOf(GroupOfReservation(i)) : pays'[q][i.kind] = i
    <3>1. PICK q \in RunsOf(GroupOfReservation(i)) : pays[q][i.kind] = i
      BY DEF NamesInv, ReservedIsNamed
    <3>2. i \in Reservation /\ i # NoReservation /\ i.kind \in Kinds
      BY NullAssumption DEF TypeOK, Reservation
    <3>3. q \in Runs /\ status[q] # "none"
      BY <3>1, <3>2 DEF NamesInv, LaunchedTogether, RunsOf
    <3>4. QED
      BY <1>1, <3>1, <3>2, <3>3
  <2>4. QED
    BY <1>1, <1>2, <2>1, <2>2, <2>3 DEF ReservedIsNamed, RunsOf, GroupOfReservation
<1>5. HolderIsFree'
  <2>1. CASE isFree
    <3>1. entitlement'.status = "reserved" /\ entitlement'.holder = g /\ free'[g]
      BY <2>1 DEF LaunchDraft, ReserveEntitlement, Vacant, TypeOK
    <3>2. \E r \in RunsOf(g) : status'[r] # "none"
      BY <1>1, GroupAssumption DEF RunsOf
    <3>3. QED
      BY <3>1, <3>2 DEF HolderIsFree, RunsOf
  <2>2. CASE ~isFree
    <3>1. entitlement' = entitlement /\ \A h \in Groups \ {g} : free'[h] = free[h]
      BY <2>2 DEF LaunchDraft, TypeOK
    <3>2. entitlement.status = "reserved" => entitlement.holder # g
      BY <1>1 DEF NamesInv, HolderIsFree, RunsOf
    <3>3. QED
      BY <1>1, <3>1, <3>2 DEF NamesInv, HolderIsFree, RunsOf
  <2>3. QED
    BY <2>1, <2>2
<1>6. UnpaidIsGone'
  <2> SUFFICES ASSUME NEW t \in txns, t.op = "retry", NEW r \in DOMAIN t.to, NEW k \in t.unpaid
               PROVE  pays'[r][k] \notin reserved'
    BY <1>1 DEF UnpaidIsGone
  <2>1. r \in Runs /\ k \in Kinds /\ GroupOf[r] # g /\ pays[r][k] # NoReservation
    BY <1>1, RowsOfTransaction DEF RowInv, StillAsRead
  <2>2. GroupOfReservation(pays[r][k]) = GroupOf[r]
    BY <2>1, GroupAssumption, KeyAssumption DEF ChargeInv, PaysOwn, GroupOfReservation
  <2>3. QED
    BY <1>1, <1>2, <2>1, <2>2 DEF NamesInv, UnpaidIsGone
<1>7. QED
  BY <1>3, <1>4, <1>5, <1>6 DEF NamesInv

(* What a retry has read as no longer reserved is read under locks: nobody  *)
(* else writes it before the commit.                                        *)
LEMMA NamesAtRead ==
  ASSUME TypeOK, NamesInv, NEW t \in txns', NEW r \in Runs, t.op = "retry", DOMAIN t.to = {r},
         UNCHANGED <<runVars, moneyVars>>,
         \A u \in txns' : u \in txns \/ u = t,
         \A k \in t.unpaid : pays[r][k] \notin reserved
  PROVE  NamesInv'
<1>1. LaunchedTogether' /\ SiblingsShareAddons' /\ HolderIsFree'
  BY DEF NamesInv, LaunchedTogether, SiblingsShareAddons, HolderIsFree, RunsOf, runVars, moneyVars
<1>2. ReservedIsNamed'
  BY DEF NamesInv, ReservedIsNamed, RunsOf, GroupOfReservation, runVars, moneyVars
<1>3. UnpaidIsGone'
  BY DEF NamesInv, UnpaidIsGone, runVars, moneyVars
<1>4. QED
  BY <1>1, <1>2, <1>3 DEF NamesInv

LEMMA NamesAtRetry ==
  ASSUME TypeOK, RowInv, ChargeInv, NamesInv, NEW t \in txns, NEW r \in Runs, CommitRetry(t, r)
  PROVE  NamesInv'
<1>1. /\ t.op = "retry" /\ r \in DOMAIN t.to /\ DOMAIN t.to = {r} /\ status[r] = "failed"
      /\ t.unpaid \subseteq Kinds
      /\ \A k \in t.unpaid : pays[r][k] # NoReservation /\ pays[r][k] \notin reserved
      /\ txns' = txns \ {t}
      /\ \A q \in Runs : status'[q] = "none" => status[q] = "none"
      /\ UNCHANGED <<free, consumed, released>>
  BY RowsOfTransaction DEF CommitRetry, RowInv, StillAsRead, NamesInv, UnpaidIsGone, TypeOK
<1>2. \A q \in Runs, k \in Kinds :
        pays'[q][k] = IF k \in t.unpaid /\ (q = r \/ (GroupOf[q] = GroupOf[r] /\ k # Baseline))
                      THEN Successor(r, k) ELSE pays[q][k]
  BY DEF CommitRetry, RenewedIds
<1>3. /\ reserved \subseteq reserved'
      /\ \A i \in reserved' : i \in reserved \/ \E k \in t.unpaid : i = Successor(r, k)
  BY DEF CommitRetry
<1>4. \A k \in t.unpaid :
        /\ Successor(r, k) # NoReservation /\ Successor(r, k).kind = k
        /\ Successor(r, k).by = IF k = Baseline THEN r ELSE GroupOf[r]
        /\ GroupOfReservation(Successor(r, k)) = GroupOf[r]
  BY <1>1, SuccessorOf, NullAssumption
<1>5. LaunchedTogether'
  <2> SUFFICES ASSUME NEW q \in Runs, status'[q] = "none", NEW k \in Kinds
               PROVE  pays'[q][k] = NoReservation
    BY DEF LaunchedTogether
  <2>1. pays[q][k] = NoReservation /\ status[q] = "none" /\ q # r
    BY <1>1 DEF NamesInv, LaunchedTogether
  <2>2. k \in t.unpaid /\ k # Baseline => GroupOf[q] # GroupOf[r]
    BY <1>1, <2>1 DEF NamesInv, SiblingsShareAddons, Kinds
  <2>3. QED
    BY <1>2, <2>1, <2>2
<1>6. SiblingsShareAddons'
  BY <1>2, KeyAssumption DEF NamesInv, SiblingsShareAddons, Kinds
<1>7. ReservedIsNamed'
  <2>1. ASSUME NEW i \in reserved
        PROVE  \E q \in RunsOf(GroupOfReservation(i)) : pays'[q][i.kind] = i
    <3>1. PICK q \in RunsOf(GroupOfReservation(i)) : pays[q][i.kind] = i
      BY DEF NamesInv, ReservedIsNamed
    <3>2. i.kind \in Kinds /\ q \in Runs
      BY DEF TypeOK, Reservation, RunsOf
    <3>3. ASSUME i.kind \in t.unpaid, q = r \/ (GroupOf[q] = GroupOf[r] /\ i.kind # Baseline)
          PROVE  FALSE
      <4>1. pays[q][i.kind] = pays[r][i.kind]
        BY <3>2, <3>3 DEF NamesInv, SiblingsShareAddons, Kinds
      <4>2. QED
        BY <1>1, <3>1, <3>3, <4>1
    <3>4. QED
      BY <1>2, <3>1, <3>2, <3>3
  <2>2. ASSUME NEW k \in t.unpaid
        PROVE  r \in RunsOf(GroupOfReservation(Successor(r, k)))
               /\ pays'[r][k] = Successor(r, k)
    BY <1>1, <1>2, <1>4 DEF RunsOf
  <2>3. ASSUME NEW i \in reserved'
        PROVE  \E q \in RunsOf(GroupOfReservation(i)) : pays'[q][i.kind] = i
    BY <1>3, <1>4, <2>1, <2>2
  <2>4. QED
    BY <2>3 DEF ReservedIsNamed, RunsOf, GroupOfReservation
<1>8. HolderIsFree'
  <2>1. CASE entitlement' = entitlement
    BY <1>1, <2>1 DEF NamesInv, HolderIsFree, RunsOf
  <2>2. CASE entitlement' # entitlement
    <3>1. entitlement'.holder = GroupOf[r] /\ free[GroupOf[r]] /\ GroupOf[r] \in Groups
      BY <2>2, GroupAssumption DEF CommitRetry, ReserveEntitlement
    <3>2. status'[r] # "none"
      BY DEF CommitRetry, TypeOK
    <3>3. QED
      BY <1>1, <3>1, <3>2 DEF HolderIsFree, RunsOf
  <2>3. QED
    BY <2>1, <2>2
<1>9. UnpaidIsGone'
  <2> SUFFICES ASSUME NEW u \in txns, u # t, u.op = "retry", NEW q \in DOMAIN u.to, NEW k \in u.unpaid
               PROVE  pays'[q][k] \notin reserved'
    BY <1>1 DEF UnpaidIsGone
  <2>1. /\ q \in Runs /\ k \in Kinds /\ q # r
        /\ pays[q][k] # NoReservation /\ pays[q][k] \notin reserved
    BY <1>1, RowsOfTransaction DEF RowInv, StillAsRead, DisjointRows, NamesInv, UnpaidIsGone
  <2>2. /\ pays[q][k].kind = k
        /\ pays[q][k].by = GroupOf[q] \/ (k = Baseline /\ pays[q][k].by = q)
    BY <2>1 DEF ChargeInv, PaysOwn
  <2>3. GroupOf[q] = GroupOf[r] => t.unpaid \cap Addons = {}
    BY <2>1 DEF CommitRetry, Unlocked, Locked, RunsOf
  <2>4. pays'[q][k] = pays[q][k]
    BY <1>1, <1>2, <2>1, <2>3 DEF Kinds
  <2>5. ASSUME NEW l \in t.unpaid, pays[q][k] = Successor(r, l)
        PROVE  FALSE
    <3>1. l = k
      BY <1>4, <2>2, <2>5
    <3>2. CASE k = Baseline
      BY <1>4, <2>1, <2>2, <2>5, <3>1, <3>2, GroupAssumption, KeyAssumption
    <3>3. CASE k # Baseline
      <4>1. GroupOf[q] = GroupOf[r]
        BY <1>4, <2>2, <2>5, <3>1, <3>3
      <4>2. QED
        BY <1>1, <2>3, <3>1, <3>3, <4>1 DEF Kinds
    <3>4. QED
      BY <3>2, <3>3
  <2>6. QED
    BY <1>3, <2>1, <2>4, <2>5
<1>10. QED
  BY <1>5, <1>6, <1>7, <1>8, <1>9 DEF NamesInv

LEMMA NamesInductive ==
  ASSUME TypeOK, RowInv, ChargeInv, NamesInv, Next
  PROVE  NamesInv'
<1>1. ASSUME NEW to \in Maps, Begins(to)
      PROVE  NamesInv'
  BY <1>1, FinalizeAdds, NamesFrame DEF Begins, runVars, moneyVars
<1>2. CASE DropsCall
  BY <1>2, NamesFrame DEF DropsCall, runVars, moneyVars
<1>3. ASSUME NEW S \in SUBSET Claimable, ClaimNextQueuedRuns(S)
      PROVE  NamesInv'
  BY <1>3, NamesFrame DEF ClaimNextQueuedRuns, moneyVars
<1>4. ASSUME NEW r \in Runs, CancelRunningRun(r)
      PROVE  NamesInv'
  BY <1>4, NamesFrame DEF CancelRunningRun, moneyVars
<1>5. ASSUME NEW r \in Runs, RetryRun(r)
      PROVE  NamesInv'
  <2> DEFINE u == [op |-> "retry", to |-> [q \in {r} |-> "queued"], resolutions |-> {},
                   unread |-> Addons, unpaid |-> {k \in {Baseline} : ~StillReserved(r, k)}]
  <2>1. txns' = txns \cup {u} /\ UNCHANGED <<runVars, moneyVars>>
    BY <1>5 DEF RetryRun
  <2>2. u.op = "retry" /\ DOMAIN u.to = {r} /\ \A k \in u.unpaid : pays[r][k] \notin reserved
    BY DEF StillReserved
  <2> HIDE DEF u
  <2>3. QED
    BY <2>1, <2>2, NamesAtRead
<1>6. ASSUME NEW t \in txns, CommitFinalize(t)
      PROVE  NamesInv'
  <2>1. entitlement'.status = "reserved" => entitlement' = entitlement
    BY <1>6 DEF CommitFinalize, ResolveEntitlement, Available, TypeOK
  <2>2. \A r \in Runs : status'[r] = "none" => status[r] = "none"
    BY <1>6, RowsOfTransaction DEF CommitFinalize, Statuses
  <2>3. QED
    BY <1>6, <2>1, <2>2, NamesFrame DEF CommitFinalize
<1>7. ASSUME NEW t \in txns, Rollback(t)
      PROVE  NamesInv'
  BY <1>7, NamesFrame DEF Rollback, runVars, moneyVars
<1>8. ASSUME NEW t \in txns, NEW r \in Runs, NEW k \in Addons, RetryReadsAddon(t, r, k)
      PROVE  NamesInv'
  <2> DEFINE u == [op |-> "retry", to |-> t.to, resolutions |-> {}, unread |-> t.unread \ {k},
                   unpaid |-> IF StillReserved(r, k) THEN t.unpaid ELSE t.unpaid \cup {k}]
  <2>1. txns' = (txns \ {t}) \cup {u} /\ UNCHANGED <<runVars, moneyVars>>
        /\ r \in DOMAIN t.to /\ DOMAIN t.to = {r} /\ t.op = "retry"
    BY <1>8 DEF RetryReadsAddon, RowInv, StillAsRead
  <2>2. u.op = "retry" /\ u.to = t.to
        /\ \A l \in u.unpaid : l \in t.unpaid \/ pays[r][l] \notin reserved
    BY DEF StillReserved
  <2> HIDE DEF u
  <2>3. \A l \in u.unpaid : pays[r][l] \notin reserved
    BY <2>1, <2>2 DEF NamesInv, UnpaidIsGone
  <2>4. QED
    BY <2>1, <2>2, <2>3, NamesAtRead
<1>9. ASSUME NEW r \in Runs, NEW outcome \in {"succeeded", "failed", "rejected"},
             AnalysisSettles(r, outcome)
      PROVE  NamesInv'
  BY <1>9, NamesFrame DEF AnalysisSettles, moneyVars
<1>10. CASE HoldExpires
  <2>1. entitlement'.status = entitlement.status /\ entitlement'.holder = entitlement.holder
    BY <1>10 DEF HoldExpires, TypeOK
  <2>2. QED
    BY <1>10, <2>1, NamesFrame DEF HoldExpires, runVars
<1>11. QED
  BY StepsOfSystem, NamesAtLaunch, NamesAtRetry,
     <1>1, <1>2, <1>3, <1>4, <1>5, <1>6, <1>7, <1>8, <1>9, <1>10

-----------------------------------------------------------------------------
(* One transaction at a time resolves a launch.                             *)

LEMMA ResolverFrame ==
  ASSUME TypeOK, ResolverInv, UNCHANGED <<status, pays>>,
         \A t \in txns' : t \in txns \/ (t.resolutions = {} /\ t.op = "retry")
  PROVE  ResolverInv'
BY DEF ResolverInv, OneResolver, EndingIsResolved, ResolutionsStand, WaitIsRight, DueIsComplete,
       RunsOf

LEMMA ResolverAtBegin ==
  ASSUME TypeOK, RowInv, ResolverInv, NEW to \in Maps, Begins(to)
  PROVE  ResolverInv'
<1>1. PICK t \in Transaction :
        /\ txns' = txns \cup {t}
        /\ t.op = "finalize" /\ t.to = to
        /\ DOMAIN to \subseteq Runs
        /\ \A x \in t.resolutions : x = Resolution(x.group, to)
        /\ \A x \in t.resolutions : ~GroupLocked(x.group)
        /\ \A g \in Groups : (\E r \in DOMAIN to : to[r] \in Terminal /\ GroupOf[r] = g)
                                <=> \E x \in t.resolutions : x.group = g
  BY FinalizeAdds DEF Begins
<1>2. UNCHANGED <<status, pays>>
  BY DEF Begins, runVars
<1>3. OneResolver'
  BY <1>1 DEF ResolverInv, OneResolver, GroupLocked
<1>4. EndingIsResolved'
  BY <1>1, GroupAssumption DEF ResolverInv, EndingIsResolved
<1>5. ASSUME NEW x \in t.resolutions
      PROVE  IF x.outcome = "wait" THEN WaitIsRight(t, x) ELSE DueIsComplete(t, x)
  <2> DEFINE g == x.group
             settled == IF x.outcome = "consume" THEN {Baseline} ELSE Kinds
  <2>1. x = Resolution(g, to)
    BY <1>1
  <2>2. x.outcome = "wait" =>
          \E r \in RunsOf(g) : (IF r \in DOMAIN to THEN to[r] ELSE status[r]) \notin Terminal
    BY <2>1 DEF Resolution
  <2>3. x.outcome # "wait" => x.due = {pays[r][k] : r \in RunsOf(g), k \in settled} \ {NoReservation}
    BY <2>1 DEF Resolution
  <2>4. x.outcome \in {"wait", "consume", "release"}
    BY <2>1 DEF Resolution
  <2>5. CASE x.outcome = "wait"
    BY <1>1, <2>2, <2>5 DEF WaitIsRight
  <2>6. CASE x.outcome # "wait"
    <3>1. \A r \in RunsOf(g), k \in settled : pays[r][k] # NoReservation => pays[r][k] \in x.due
      BY <2>3, <2>6
    <3>2. \A k \in Kinds : x.outcome = "release" \/ k = Baseline => k \in settled
      OBVIOUS
    <3>3. QED
      BY <2>6, <3>1, <3>2 DEF DueIsComplete
  <2>7. QED
    BY <2>5, <2>6
<1>6. ResolutionsStand'
  BY <1>1, <1>2, <1>5 DEF ResolverInv, ResolutionsStand, WaitIsRight, DueIsComplete, RunsOf
<1>7. QED
  BY <1>3, <1>4, <1>6 DEF ResolverInv

(* A step that ends runs only if it is the commit of their resolver, and    *)
(* that renames reservations only of launches that it sends back.           *)
LEMMA ResolverKept ==
  ASSUME TypeOK, ResolverInv,
         \A t \in txns' : t \in txns,
         \A t \in txns' : \A x \in t.resolutions : \A r \in RunsOf(x.group) :
           r \notin DOMAIN t.to /\ status'[r] \in Terminal => status[r] \in Terminal,
         \A t \in txns' : \A x \in t.resolutions : \A r \in RunsOf(x.group) :
           \/ pays'[r] = pays[r]
           \/ \E q \in RunsOf(x.group) : q \notin DOMAIN t.to /\ status'[q] \notin Terminal
  PROVE  ResolverInv'
<1>1. OneResolver' /\ EndingIsResolved'
  BY DEF ResolverInv, OneResolver, EndingIsResolved
<1>2. ASSUME NEW t \in txns', NEW x \in t.resolutions, x.outcome = "wait", WaitIsRight(t, x)
      PROVE  WaitIsRight(t, x)'
  BY <1>2 DEF WaitIsRight, RunsOf
<1>3. ASSUME NEW t \in txns', NEW x \in t.resolutions, DueIsComplete(t, x)
      PROVE  DueIsComplete(t, x)'
  <2> SUFFICES ASSUME \A r \in RunsOf(x.group) : r \notin DOMAIN t.to => status'[r] \in Terminal,
                      NEW r \in RunsOf(x.group), NEW k \in Kinds,
                      pays'[r][k] # NoReservation, x.outcome = "release" \/ k = Baseline
               PROVE  pays'[r][k] \in x.due
    BY DEF DueIsComplete, RunsOf
  <2>1. \A q \in RunsOf(x.group) : q \notin DOMAIN t.to => status[q] \in Terminal
    OBVIOUS
  <2>2. pays'[r] = pays[r]
    OBVIOUS
  <2>3. QED
    BY <1>3, <2>1, <2>2 DEF DueIsComplete
<1>4. ResolutionsStand'
  <2> SUFFICES ASSUME NEW t \in txns', NEW x \in t.resolutions
               PROVE  IF x.outcome = "wait" THEN WaitIsRight(t, x)' ELSE DueIsComplete(t, x)'
    BY DEF ResolutionsStand
  <2>1. IF x.outcome = "wait" THEN WaitIsRight(t, x) ELSE DueIsComplete(t, x)
    BY DEF ResolverInv, ResolutionsStand
  <2>2. QED
    BY <1>2, <1>3, <2>1
<1>5. QED
  BY <1>1, <1>4 DEF ResolverInv

LEMMA ResolverInductive ==
  ASSUME TypeOK, RowInv, ResolverInv, Next
  PROVE  ResolverInv'
<1>1. ASSUME NEW S \in SUBSET Claimable, ClaimNextQueuedRuns(S)
      PROVE  ResolverInv'
  <2>1. \A r \in Runs : status'[r] \in Terminal => status[r] \in Terminal
    BY <1>1 DEF ClaimNextQueuedRuns, Terminal
  <2>2. UNCHANGED <<pays, txns>>
    BY <1>1 DEF ClaimNextQueuedRuns
  <2>3. QED
    BY <2>1, <2>2, ResolverKept DEF RunsOf
<1>2. ASSUME NEW g \in Groups, NEW isFree \in BOOLEAN, NEW kinds \in SUBSET Kinds,
             LaunchDraft(g, isFree, kinds)
      PROVE  ResolverInv'
  <2>1. /\ UNCHANGED txns
        /\ \A r \in Runs : GroupOf[r] = g => status[r] = "none" /\ status'[r] = "queued"
        /\ \A r \in Runs : GroupOf[r] # g => status'[r] = status[r] /\ pays'[r] = pays[r]
    BY <1>2 DEF LaunchDraft, RunsOf
  <2>2. \A r \in Runs : status'[r] \in Terminal => status[r] \in Terminal
    BY <2>1 DEF Terminal
  <2>3. ASSUME NEW t \in txns, NEW x \in t.resolutions, NEW r \in RunsOf(x.group)
        PROVE  \/ pays'[r] = pays[r]
               \/ \E q \in RunsOf(x.group) : q \notin DOMAIN t.to /\ status'[q] \notin Terminal
    <3>1. CASE r \in DOMAIN t.to
      BY <2>1, <2>3, <3>1, RowsOfTransaction DEF RowInv, StillAsRead, TypeOK, Transaction, RunsOf
    <3>2. CASE r \notin DOMAIN t.to
      BY <2>1, <2>3, <3>2 DEF RunsOf, Terminal
    <3>3. QED
      BY <3>1, <3>2
  <2>4. QED
    BY <2>1, <2>2, <2>3, ResolverKept DEF RunsOf
<1>3. ASSUME NEW t \in txns, CommitFinalize(t)
      PROVE  ResolverInv'
  <2>1. UNCHANGED pays /\ \A u \in txns' : u \in txns /\ u # t
    BY <1>3 DEF CommitFinalize
  <2>2. ASSUME NEW u \in txns', NEW x \in u.resolutions, NEW r \in RunsOf(x.group),
               status'[r] \in Terminal
        PROVE  status[r] \in Terminal
    <3>1. CASE r \in DOMAIN t.to
      <4>1. t.to[r] \in Terminal /\ t.op = "finalize"
        BY <1>3, <2>2, <3>1 DEF CommitFinalize, RunsOf
      <4>2. PICK y \in t.resolutions : y.group = GroupOf[r]
        BY <3>1, <4>1 DEF ResolverInv, EndingIsResolved
      <4>3. QED
        BY <2>1, <2>2, <4>2 DEF ResolverInv, OneResolver, RunsOf
    <3>2. CASE r \notin DOMAIN t.to
      BY <1>3, <2>2, <3>2 DEF CommitFinalize, RunsOf
    <3>3. QED
      BY <3>1, <3>2
  <2>3. QED
    BY <2>1, <2>2, ResolverKept
<1>4. ASSUME NEW t \in txns, NEW r \in Runs, CommitRetry(t, r)
      PROVE  ResolverInv'
  <2>1. /\ \A u \in txns' : u \in txns /\ r \notin DOMAIN u.to
        /\ status'[r] = "queued" /\ \A q \in Runs \ {r} : status'[q] = status[q]
        /\ \A q \in Runs : GroupOf[q] # GroupOf[r] => pays'[q] = pays[q]
    BY <1>4, RowsOfTransaction DEF CommitRetry, RenewedIds, RowInv, DisjointRows, TypeOK
  <2>2. \A q \in Runs : status'[q] \in Terminal => status[q] \in Terminal
    BY <2>1 DEF Terminal
  <2>3. ASSUME NEW u \in txns', NEW x \in u.resolutions, NEW q \in RunsOf(x.group)
        PROVE  \/ pays'[q] = pays[q]
               \/ \E p \in RunsOf(x.group) : p \notin DOMAIN u.to /\ status'[p] \notin Terminal
    BY <2>1, <2>3 DEF RunsOf, Terminal
  <2>4. QED
    BY <2>1, <2>2, <2>3, ResolverKept DEF RunsOf
<1>5. ASSUME NEW r \in Runs, CancelRunningRun(r) \/ RetryRun(r)
      PROVE  ResolverInv'
  BY <1>5, ResolverFrame DEF CancelRunningRun, RetryRun, runVars
<1>6. ASSUME NEW t \in txns, NEW r \in Runs, NEW k \in Addons, RetryReadsAddon(t, r, k)
      PROVE  ResolverInv'
  BY <1>6, ResolverFrame DEF RetryReadsAddon, runVars
<1>7. ASSUME NEW t \in txns, Rollback(t)
      PROVE  ResolverInv'
  BY <1>7, ResolverFrame DEF Rollback, runVars
<1>8. ASSUME UNCHANGED <<status, pays, txns>>
      PROVE  ResolverInv'
  BY <1>8, ResolverFrame
<1>9. QED
  BY StepsOfSystem, ResolverAtBegin, <1>1, <1>2, <1>3, <1>4, <1>5, <1>6, <1>7, <1>8
     DEF DropsCall, AnalysisSettles, HoldExpires, runVars

-----------------------------------------------------------------------------
(* What a launch that has ended leaves behind.                              *)

LEMMA NothingLeftInductive ==
  ASSUME TypeOK, RowInv, ChargeInv, NamesInv, ResolverInv, NothingLeft, Next
  PROVE  NothingLeft'
<1>1. ASSUME \A r \in Runs : status'[r] \in Terminal => status'[r] = status[r],
             reserved' \subseteq reserved,
             entitlement'.status = "reserved" =>
               entitlement.status = "reserved" /\ entitlement'.holder = entitlement.holder
      PROVE  NothingLeft'
  BY <1>1 DEF NothingLeft, AllTerminal, AllSucceeded, RunsOf, GroupOfReservation, Terminal
<1>2. ASSUME NEW S \in SUBSET Claimable, ClaimNextQueuedRuns(S)
      PROVE  NothingLeft'
  <2>1. \A r \in Runs : status'[r] \in Terminal => status'[r] = status[r]
    BY <1>2 DEF ClaimNextQueuedRuns, Terminal
  <2>2. QED
    BY <1>1, <1>2, <2>1 DEF ClaimNextQueuedRuns, moneyVars
<1>3. ASSUME NEW g \in Groups, NEW isFree \in BOOLEAN, NEW kinds \in SUBSET Kinds,
             LaunchDraft(g, isFree, kinds)
      PROVE  NothingLeft'
  <2>1. /\ \A i \in reserved' : i \in reserved \/ GroupOfReservation(i) = g
        /\ \A r \in Runs : status'[r] = IF GroupOf[r] = g THEN "queued" ELSE status[r]
        /\ entitlement' = entitlement \/ entitlement'.holder = g
    BY <1>3, KeyAssumption DEF LaunchDraft, ReserveEntitlement, GroupOfReservation
  <2>2. ~AllTerminal(g)'
    BY <2>1, GroupAssumption DEF AllTerminal, RunsOf, Terminal
  <2>3. QED
    BY <2>1, <2>2 DEF NothingLeft, AllTerminal, AllSucceeded, RunsOf, GroupOfReservation
<1>4. ASSUME NEW t \in txns, CommitFinalize(t)
      PROVE  NothingLeft'
  <2> SUFFICES ASSUME NEW g \in Groups, AllTerminal(g)'
               PROVE  /\ \A i \in reserved' : GroupOfReservation(i) = g =>
                           i.kind # Baseline /\ AllSucceeded(g)'
                      /\ ~(entitlement'.status = "reserved" /\ entitlement'.holder = g)
    BY DEF NothingLeft, GroupOfReservation
  <2>1. /\ reserved' \subseteq reserved
        /\ t.op = "finalize"
        /\ entitlement'.status = "reserved" => entitlement' = entitlement
        /\ \A r \in Runs : status'[r] = IF r \in DOMAIN t.to THEN t.to[r] ELSE status[r]
    BY <1>4 DEF CommitFinalize, ResolveEntitlement, Available, TypeOK
  <2>2. CASE \A r \in RunsOf(g) : r \notin DOMAIN t.to
    BY <2>1, <2>2 DEF NothingLeft, AllTerminal, AllSucceeded, RunsOf
  <2>3. CASE \E r \in RunsOf(g) : r \in DOMAIN t.to
    <3>1. PICK x \in t.resolutions : x.group = g
      BY <2>1, <2>3 DEF AllTerminal, RunsOf, ResolverInv, EndingIsResolved
    <3>2. x.outcome \in {"wait", "consume", "release"}
      BY RowsOfTransaction
    <3>3. x.outcome # "wait"
      BY <2>1, <3>1 DEF ResolverInv, ResolutionsStand, WaitIsRight, AllTerminal, RunsOf
    <3>4. \A r \in RunsOf(g) : r \notin DOMAIN t.to => status[r] \in Terminal
      BY <2>1 DEF AllTerminal, RunsOf
    <3>5. \A r \in RunsOf(g), k \in Kinds :
            (pays[r][k] # NoReservation /\ (x.outcome = "release" \/ k = Baseline)) => pays[r][k] \in x.due
      BY <3>1, <3>3, <3>4 DEF ResolverInv, ResolutionsStand, DueIsComplete
    <3>6. x.outcome = "consume" => AllSucceeded(g)'
      <4>1. x.outcome = "consume" => \A r \in RunsOf(g) :
              status[r] = "succeeded" \/ (r \in DOMAIN t.to /\ t.to[r] = "succeeded")
        BY <3>1 DEF ChargeInv, DuesFollowSuccess
      <4>2. \A r \in RunsOf(g) : status[r] = "succeeded" => r \notin DOMAIN t.to
        BY <2>1 DEF RowInv, StillAsRead
      <4>3. QED
        BY <2>1, <4>1, <4>2 DEF AllSucceeded, RunsOf
    <3>7. \A i \in x.due : i \notin reserved'
      BY <1>4, <3>2, <3>3 DEF CommitFinalize
    <3>8. ASSUME NEW i \in reserved', GroupOfReservation(i) = g
          PROVE  i.kind # Baseline /\ AllSucceeded(g)'
      <4>1. i \in Reservation /\ i.kind \in Kinds /\ i # NoReservation
        BY <2>1, NullAssumption DEF TypeOK, Reservation
      <4>2. PICK r \in RunsOf(g) : pays[r][i.kind] = i
        BY <2>1, <3>8 DEF NamesInv, ReservedIsNamed
      <4>3. ~(x.outcome = "release" \/ i.kind = Baseline)
        BY <3>5, <3>7, <3>8, <4>1, <4>2
      <4>4. QED
        BY <3>2, <3>3, <3>6, <4>3
    <3>9. ASSUME entitlement'.status = "reserved", entitlement'.holder = g
          PROVE  FALSE
      <4>1. entitlement' = entitlement /\ free[g]
        BY <2>1, <3>9 DEF NamesInv, HolderIsFree
      <4>2. x \in {y \in t.resolutions : /\ y.outcome # "wait" /\ free[y.group]
                                          /\ entitlement.status = "reserved"
                                          /\ entitlement.holder = y.group}
        BY <3>1, <3>3, <3>9, <4>1
      <4>3. QED
        BY <1>4, <3>9, <4>2 DEF CommitFinalize, ResolveEntitlement, Available, TypeOK
    <3>10. QED
      BY <3>8, <3>9
  <2>4. QED
    BY <2>2, <2>3
<1>5. ASSUME NEW t \in txns, NEW r \in Runs, CommitRetry(t, r)
      PROVE  NothingLeft'
  <2>1. \A k \in t.unpaid : GroupOfReservation(Successor(r, k)) = GroupOf[r]
    BY <1>5, RowsOfTransaction, SuccessorOf DEF CommitRetry, RowInv, StillAsRead
  <2>2. \A i \in reserved' : i \in reserved \/ GroupOfReservation(i) = GroupOf[r]
    BY <1>5, <2>1 DEF CommitRetry
  <2>3. entitlement' = entitlement \/ entitlement'.holder = GroupOf[r]
    BY <1>5 DEF CommitRetry, ReserveEntitlement
  <2>4. status'[r] = "queued" /\ \A q \in Runs \ {r} : status'[q] = status[q]
    BY <1>5 DEF CommitRetry, TypeOK
  <2>5. ~AllTerminal(GroupOf[r])'
    BY <2>4 DEF AllTerminal, RunsOf, Terminal
  <2>6. ASSUME NEW g \in Groups, g # GroupOf[r]
        PROVE  /\ AllTerminal(g)' <=> AllTerminal(g)
               /\ AllSucceeded(g)' <=> AllSucceeded(g)
    BY <2>4, <2>6 DEF AllTerminal, AllSucceeded, RunsOf
  <2>7. QED
    BY <2>2, <2>3, <2>5, <2>6 DEF NothingLeft, GroupOfReservation
<1>6. CASE HoldExpires
  <2>1. entitlement'.status = entitlement.status /\ entitlement'.holder = entitlement.holder
    BY <1>6 DEF HoldExpires, TypeOK
  <2>2. QED
    BY <1>1, <1>6, <2>1 DEF HoldExpires, runVars
<1>7. ASSUME UNCHANGED <<status, reserved, entitlement>>
      PROVE  NothingLeft'
  BY <1>1, <1>7
<1>8. QED
  BY StepsOfSystem, <1>2, <1>3, <1>4, <1>5, <1>6, <1>7
     DEF DropsCall, Begins, CancelRunningRun, RetryRun, Rollback, RetryReadsAddon,
         AnalysisSettles, runVars, moneyVars

SettleInv == NamesInv /\ ResolverInv /\ NothingLeft

LEMMA SettlementHolds == Spec => []SettleInv
<1> USE DEF SettleInv
<1>1. Init => SettleInv
  <2> SUFFICES ASSUME Init
               PROVE  SettleInv
    OBVIOUS
  <2>1. NamesInv
    BY DEF Init, Available, NamesInv, LaunchedTogether, SiblingsShareAddons, ReservedIsNamed,
           HolderIsFree, UnpaidIsGone, Kinds
  <2>2. ResolverInv
    BY DEF Init, ResolverInv, OneResolver, EndingIsResolved, ResolutionsStand
  <2>3. NothingLeft
    BY DEF Init, Available, NothingLeft
  <2>4. QED
    BY <2>1, <2>2, <2>3
<1>2. TypeOK /\ RowInv /\ ChargeInv /\ SettleInv /\ [Next]_vars => SettleInv'
  <2> SUFFICES ASSUME TypeOK, RowInv, ChargeInv, SettleInv, [Next]_vars
               PROVE  SettleInv'
    OBVIOUS
  <2>1. CASE Next
    BY <2>1, NamesInductive, ResolverInductive, NothingLeftInductive
  <2>2. CASE UNCHANGED vars
    <3>1. NamesInv'
      BY <2>2, NamesFrame DEF vars, runVars, moneyVars
    <3>2. ResolverInv'
      BY <2>2, ResolverFrame DEF vars, runVars
    <3>3. NothingLeft'
      BY <2>2 DEF NothingLeft, AllTerminal, AllSucceeded, RunsOf, GroupOfReservation,
                  vars, runVars, moneyVars
    <3>4. QED
      BY <3>1, <3>2, <3>3
  <2>3. QED
    BY <2>1, <2>2
<1>3. QED
  BY <1>1, <1>2, RowsHold, ChargesHold, PTL DEF Spec

(* Every run of a launch names the same add-on reservation, through all     *)
(* concurrent retries (retry_run locks the rows of the whole launch before  *)
(* it renews one).                                                          *)
THEOREM AddonsAreShared == Spec => []SiblingsShareAddons
<1>1. SettleInv => SiblingsShareAddons
  BY DEF SettleInv, NamesInv
<1>2. QED
  BY <1>1, SettlementHolds, PTL

(* Nothing stays blocked: a launch all of whose runs have ended holds no    *)
(* chips, except for the add-ons that follow full success, and not the free *)
(* entitlement, whatever settlements and retries overlap                    *)
(* (_resolve_launch_group under the advisory lock of the launch).           *)
THEOREM LaunchesSettle == Spec => []NothingLeftReserved
<1>1. SettleInv => NothingLeftReserved
  BY DEF SettleInv, NothingLeft, NothingLeftReserved
<1>2. QED
  BY <1>1, SettlementHolds, PTL

-----------------------------------------------------------------------------
(* What a launch of one run pays.                                           *)

(* A settlement depends on the reservations its run names, and on no others. *)
LEMMA SettlementStays ==
  ASSUME NEW r, NEW outcome, \A k \in Kinds : pays'[r][k] = pays[r][k]
  PROVE  Settlement(r, outcome)' = Settlement(r, outcome)
<1>1. Baseline \in Kinds
  BY DEF Kinds
<1>2. /\ {pays'[r][k] : k \in {Baseline}} = {pays[r][k] : k \in {Baseline}}
      /\ {pays'[r][k] : k \in Kinds} = {pays[r][k] : k \in Kinds}
  BY <1>1
<1>3. CASE outcome = "succeeded"
  BY <1>2, <1>3 DEF Settlement
<1>4. CASE outcome # "succeeded"
  BY <1>2, <1>4 DEF Settlement, Kinds
<1>5. QED
  BY <1>3, <1>4

LEMMA PaymentFrame ==
  ASSUME TypeOK, PaymentInv, UNCHANGED <<pays, free, moneyVars>>, txns' \subseteq txns,
         \A r \in Runs : status'[r] = status[r] \/ (status[r] = "queued" /\ status'[r] = "running")
  PROVE  PaymentInv'
<1> USE DEF PaymentInv, moneyVars
<1>1. SettlesOwn'
  BY DEF SettlesOwn, Settlement
<1>2. NoneYounger' /\ ConsumedIsNamed'
  BY DEF NoneYounger, ConsumedIsNamed, GroupOfReservation
<1>3. Funded'
  BY DEF Funded, Live
<1>4. FreeUseHeld'
  BY DEF FreeUseHeld, Live
<1>5. RetriesStand'
  BY DEF RetriesStand, FreeRetry, CanReserveEntitlement, Vacant, StillReserved
<1>6. QED
  BY <1>1, <1>2, <1>3, <1>4, <1>5

LEMMA PaymentAtBegin ==
  ASSUME SingleTests, TypeOK, PaymentInv, NEW to \in Maps, Begins(to)
  PROVE  PaymentInv'
<1> USE DEF PaymentInv
<1>1. PICK t \in Transaction :
        /\ txns' = txns \cup {t}
        /\ t.op = "finalize" /\ t.to = to
        /\ DOMAIN to \subseteq Runs
        /\ \A x \in t.resolutions : x = Resolution(x.group, to)
        /\ \A g \in Groups : (\E r \in DOMAIN to : to[r] \in Terminal /\ GroupOf[r] = g)
                                <=> \E x \in t.resolutions : x.group = g
  BY FinalizeAdds DEF Begins
<1>2. UNCHANGED <<status, pays, free, reserved, consumed, released, entitlement>>
  BY DEF Begins, runVars, moneyVars
<1>3. ASSUME NEW r \in DOMAIN to, to[r] \in Terminal
      PROVE  Resolution(GroupOf[r], to) = Settlement(r, to[r])
  <2>1. r \in Runs /\ RunsOf(GroupOf[r]) = {r}
    BY <1>1 DEF SingleTests, RunsOf
  <2>2. \A S : {pays[q][k] : q \in {r}, k \in S} = {pays[r][k] : k \in S}
    OBVIOUS
  <2>3. QED
    BY <1>3, <2>1, <2>2 DEF Resolution, Settlement
<1>4. SettlesOwn'
  <2>1. ASSUME NEW x \in t.resolutions
        PROVE  \E r \in DOMAIN to : to[r] \in Terminal /\ x = Settlement(r, to[r])
    <3>1. x.group \in Groups
      BY <1>1 DEF Transaction
    <3>2. PICK r \in DOMAIN to : to[r] \in Terminal /\ GroupOf[r] = x.group
      BY <1>1, <3>1
    <3>3. QED
      BY <1>1, <1>3, <3>2
  <2>2. QED
    BY <1>1, <1>2, <2>1 DEF SettlesOwn, Settlement
<1>5. NoneYounger' /\ ConsumedIsNamed' /\ Funded' /\ FreeUseHeld'
  BY <1>2 DEF NoneYounger, ConsumedIsNamed, GroupOfReservation, Funded, FreeUseHeld, Live
<1>6. RetriesStand'
  BY <1>1, <1>2 DEF RetriesStand, FreeRetry, CanReserveEntitlement, Vacant, StillReserved
<1>7. QED
  BY <1>4, <1>5, <1>6

LEMMA PaymentAtLaunch ==
  ASSUME SingleTests, TypeOK, RowInv, ChargeInv, NamesInv, PaymentInv,
         NEW g \in Groups, NEW isFree \in BOOLEAN, NEW kinds \in SUBSET Kinds,
         LaunchDraft(g, isFree, kinds)
  PROVE  PaymentInv'
<1> DEFINE launched(k) == [by |-> g, kind |-> k, gen |-> 0]
<1> USE DEF PaymentInv
<1>1. /\ \A r \in Runs : GroupOf[r] = g =>
           /\ status[r] = "none" /\ status'[r] = "queued"
           /\ \A k \in Kinds : pays'[r][k] = IF k \in kinds THEN launched(k) ELSE NoReservation
      /\ \A r \in Runs : GroupOf[r] # g => status'[r] = status[r] /\ pays'[r] = pays[r]
      /\ reserved' = reserved \cup {launched(k) : k \in kinds}
      /\ UNCHANGED <<consumed, released, txns>>
  BY DEF LaunchDraft, RunsOf
<1>2. /\ free' = [free EXCEPT ![g] = isFree]
      /\ entitlement' = IF isFree THEN ReserveEntitlement(g) ELSE entitlement
      /\ isFree => entitlement.status = "available"
      /\ ~EntitlementLocked
  BY DEF LaunchDraft
<1>3. ASSUME NEW t \in txns, NEW r \in DOMAIN t.to
      PROVE  r \in Runs /\ GroupOf[r] # g
  <2>1. r \in Runs /\ t.op \in {"finalize", "retry"}
    BY RowsOfTransaction DEF TypeOK, Transaction
  <2>2. status[r] \in {"queued", "running", "failed"}
    BY <2>1 DEF RowInv, StillAsRead
  <2>3. QED
    BY <1>1, <2>1, <2>2
<1>4. \A h \in Groups : h # g => free'[h] = free[h]
  BY <1>2 DEF TypeOK
<1>5. \A i \in reserved \cup consumed \cup released : GroupOfReservation(i) # g
  <2>1. PICK r \in Runs : GroupOf[r] = g
    BY GroupAssumption
  <2>2. \A i \in reserved \cup consumed \cup released : i.kind \in Kinds
    BY DEF TypeOK, Reservation
  <2>3. \A k \in Kinds : pays[r][k] = NoReservation
    BY <1>1, <2>1 DEF NamesInv, LaunchedTogether
  <2>4. QED
    BY <2>1, <2>2, <2>3 DEF NoneYounger
<1>6. \A k \in Kinds : launched(k).kind = k /\ launched(k).gen = 0 /\ GroupOfReservation(launched(k)) = g
  BY KeyAssumption DEF GroupOfReservation
<1> HIDE DEF launched
<1>7. \A k \in Kinds : launched(k) # NoReservation
  BY NullAssumption DEF launched, Reservation
<1>8. SettlesOwn'
  <2>1. txns' = txns
    BY <1>1
  <2>2. \A t \in txns' : \A r \in DOMAIN t.to : Settlement(r, t.to[r])' = Settlement(r, t.to[r])
    BY <1>1, <1>3, SettlementStays
  <2>3. QED
    BY <2>1, <2>2 DEF SettlesOwn
<1>9. NoneYounger'
  <2>1. ASSUME NEW i \in reserved' \cup consumed' \cup released', NEW r \in Runs,
               GroupOf[r] = GroupOfReservation(i)
        PROVE  pays'[r][i.kind] # NoReservation /\ i.gen <= pays'[r][i.kind].gen
    <3>1. CASE i \in reserved \cup consumed \cup released
      BY <1>1, <1>5, <2>1, <3>1 DEF NoneYounger
    <3>2. CASE i \in {launched(k) : k \in kinds}
      BY <1>1, <1>6, <1>7, <2>1, <3>2
    <3>3. QED
      BY <1>1, <3>1, <3>2
  <2>2. QED
    BY <2>1 DEF NoneYounger, GroupOfReservation
<1>10. ConsumedIsNamed'
  BY <1>1, <1>5 DEF ConsumedIsNamed, GroupOfReservation
<1>11. Funded'
  BY <1>1 DEF Funded, Live
<1>12. FreeUseHeld'
  <2>1. CASE isFree
    <3>1. entitlement' = [status |-> "reserved", holder |-> g, expired |-> FALSE]
      BY <1>2, <2>1 DEF ReserveEntitlement, Vacant
    <3>2. \A r \in Runs : GroupOf[r] # g => ~(Live(r) /\ free[GroupOf[r]])
      BY <1>2, <2>1 DEF FreeUseHeld
    <3>3. QED
      BY <1>1, <1>4, <3>1, <3>2, GroupAssumption DEF FreeUseHeld, Live
  <2>2. CASE ~isFree
    <3>1. ~free'[g] /\ entitlement' = entitlement
      BY <1>2, <2>2 DEF TypeOK
    <3>2. QED
      BY <1>1, <1>4, <3>1, GroupAssumption DEF FreeUseHeld, Live
  <2>3. QED
    BY <2>1, <2>2
<1>13. RetriesStand'
  <2>1. \A t \in txns : ~FreeRetry(t) /\ ~FreeRetry(t)'
    BY <1>2, <1>3, <1>4, GroupAssumption DEF EntitlementLocked, FreeRetry
  <2>2. QED
    BY <1>1, <1>3, <2>1 DEF RetriesStand, FreeRetry, StillReserved
<1>14. QED
  BY <1>8, <1>9, <1>10, <1>11, <1>12, <1>13

LEMMA PaymentAtRetry ==
  ASSUME TypeOK, PaymentInv, NEW r \in Runs, RetryRun(r)
  PROVE  PaymentInv'
<1> USE DEF PaymentInv
<1> DEFINE t == [op |-> "retry", to |-> [q \in {r} |-> "queued"], resolutions |-> {},
                 unread |-> Addons, unpaid |-> {k \in {Baseline} : ~StillReserved(r, k)}]
<1>1. /\ txns' = txns \cup {t}
      /\ UNCHANGED <<status, pays, free, reserved, consumed, released, entitlement>>
      /\ free[GroupOf[r]] => ~EntitlementLocked /\ CanReserveEntitlement(GroupOf[r])
  BY DEF RetryRun, runVars, moneyVars
<1>2. /\ t.op = "retry" /\ DOMAIN t.to = {r} /\ t.resolutions = {} /\ t.unread = Addons
      /\ ~StillReserved(r, Baseline) => Baseline \in t.unpaid
  OBVIOUS
<1> HIDE DEF t
<1>3. SettlesOwn' /\ NoneYounger' /\ ConsumedIsNamed' /\ Funded' /\ FreeUseHeld'
  BY <1>1, <1>2 DEF SettlesOwn, Settlement, NoneYounger, ConsumedIsNamed, GroupOfReservation,
                    Funded, FreeUseHeld, Live
<1>4. FreeRetry(t) => \A u \in txns : ~FreeRetry(u)
  BY <1>1, <1>2 DEF FreeRetry, EntitlementLocked
<1>5. RetriesStand'
  BY <1>1, <1>2, <1>4 DEF RetriesStand, FreeRetry, CanReserveEntitlement, Vacant, StillReserved, Kinds
<1>6. QED
  BY <1>3, <1>5

LEMMA PaymentAtRead ==
  ASSUME TypeOK, RowInv, PaymentInv, NEW t \in txns, NEW r \in Runs, NEW k \in Addons,
         RetryReadsAddon(t, r, k)
  PROVE  PaymentInv'
<1> USE DEF PaymentInv
<1> DEFINE u == [op |-> "retry", to |-> t.to, resolutions |-> {}, unread |-> t.unread \ {k},
                 unpaid |-> IF StillReserved(r, k) THEN t.unpaid ELSE t.unpaid \cup {k}]
<1>1. /\ txns' = (txns \ {t}) \cup {u} /\ t.op = "retry" /\ DOMAIN t.to = {r}
      /\ UNCHANGED <<status, pays, free, reserved, consumed, released, entitlement>>
  BY DEF RetryReadsAddon, runVars, moneyVars, RowInv, StillAsRead
<1>2. /\ u.op = "retry" /\ u.to = t.to /\ u.resolutions = {} /\ u.unread = t.unread \ {k}
      /\ t.unpaid \subseteq u.unpaid
      /\ ~StillReserved(r, k) => k \in u.unpaid
  OBVIOUS
<1> HIDE DEF u
<1>3. SettlesOwn' /\ NoneYounger' /\ ConsumedIsNamed' /\ Funded' /\ FreeUseHeld'
  BY <1>1, <1>2 DEF SettlesOwn, Settlement, NoneYounger, ConsumedIsNamed, GroupOfReservation,
                    Funded, FreeUseHeld, Live
<1>4. RetriesStand'
  <2>1. FreeRetry(u) => FreeRetry(t)
    BY <1>1, <1>2 DEF FreeRetry
  <2>2. QED
    BY <1>1, <1>2, <2>1 DEF RetriesStand, FreeRetry, CanReserveEntitlement, Vacant, StillReserved
<1>5. QED
  BY <1>3, <1>4

(* The reservations a commit settles are those of the runs it ends.         *)
LEMMA DueOfOwnRun ==
  ASSUME TypeOK, ChargeInv, SettlesOwn, NEW t \in txns, NEW x \in t.resolutions
  PROVE  /\ x.outcome \in {"consume", "release"}
         /\ \E r \in DOMAIN t.to :
              /\ r \in Runs /\ x.group = GroupOf[r] /\ t.to[r] \in Terminal
              /\ x.outcome = "consume" <=> t.to[r] = "succeeded"
              /\ \A i \in x.due : \E k \in Kinds :
                   /\ i = pays[r][k] /\ i # NoReservation
                   /\ i.kind = k /\ GroupOfReservation(i) = GroupOf[r]
                   /\ x.outcome = "consume" => k = Baseline
              /\ pays[r][Baseline] # NoReservation => pays[r][Baseline] \in x.due
<1>1. PICK r \in DOMAIN t.to : t.to[r] \in Terminal /\ x = Settlement(r, t.to[r])
  BY DEF SettlesOwn
<1>2. r \in Runs
  BY RowsOfTransaction
<1>3. /\ x.group = GroupOf[r]
      /\ x.outcome = IF t.to[r] = "succeeded" THEN "consume" ELSE "release"
      /\ x.due = {pays[r][k] : k \in IF t.to[r] = "succeeded" THEN {Baseline} ELSE Kinds} \ {NoReservation}
  BY <1>1 DEF Settlement
<1>4. Baseline \in Kinds
  BY DEF Kinds
<1>5. \A k \in Kinds : pays[r][k] # NoReservation => pays[r][k].kind = k
  BY <1>2 DEF ChargeInv, PaysOwn
<1>6. \A i \in x.due : GroupOfReservation(i) = GroupOf[r]
  BY <1>3 DEF ChargeInv, DuesFollowSuccess
<1>7. \A i \in x.due : \E k \in Kinds :
        i = pays[r][k] /\ i # NoReservation /\ (x.outcome = "consume" => k = Baseline)
  BY <1>3, <1>4
<1>8. pays[r][Baseline] # NoReservation => pays[r][Baseline] \in x.due
  BY <1>3, <1>4
<1>9. x.outcome \in {"consume", "release"} /\ (x.outcome = "consume" <=> t.to[r] = "succeeded")
  BY <1>3
<1>10. QED
  BY <1>1, <1>2, <1>3, <1>5, <1>6, <1>7, <1>8, <1>9

LEMMA PaymentAtSettlement ==
  ASSUME SingleTests, TypeOK, RowInv, ChargeInv, ResolverInv, PaymentInv,
         NEW t \in txns, CommitFinalize(t)
  PROVE  PaymentInv'
<1> DEFINE due(outcome) ==
      reserved \cap UNION {x.due : x \in {y \in t.resolutions : y.outcome = outcome}}
<1> USE DEF PaymentInv
<1>1. /\ t.op = "finalize" /\ txns' = txns \ {t}
      /\ \A r \in Runs : status'[r] = IF r \in DOMAIN t.to THEN t.to[r] ELSE status[r]
      /\ consumed' = consumed \cup due("consume")
      /\ released' = released \cup due("release")
      /\ reserved' = reserved \ (due("consume") \cup due("release"))
      /\ UNCHANGED <<pays, free>>
  BY DEF CommitFinalize
<1>2. /\ entitlement' = ResolveEntitlement(t)
      /\ (\E x \in t.resolutions : x.outcome # "wait" /\ free[x.group]) => ~EntitlementLocked
  BY DEF CommitFinalize
<1>3. \A r \in DOMAIN t.to : r \in Runs /\ status[r] \in {"queued", "running"} /\ t.to[r] # "running"
  BY <1>1, RowsOfTransaction DEF RowInv, StillAsRead
<1>4. ASSUME NEW r \in DOMAIN t.to, t.to[r] \in Terminal
      PROVE  \E x \in t.resolutions : /\ x.group = GroupOf[r]
                                      /\ x.outcome = "consume" <=> t.to[r] = "succeeded"
                                      /\ pays[r][Baseline] # NoReservation => pays[r][Baseline] \in x.due
  <2>1. PICK x \in t.resolutions : x.group = GroupOf[r]
    BY <1>1, <1>4 DEF ResolverInv, EndingIsResolved
  <2>2. PICK q \in DOMAIN t.to :
          /\ x.group = GroupOf[q]
          /\ x.outcome = "consume" <=> t.to[q] = "succeeded"
          /\ pays[q][Baseline] # NoReservation => pays[q][Baseline] \in x.due
    BY DueOfOwnRun
  <2>3. q = r
    BY <1>3, <2>1, <2>2 DEF SingleTests
  <2>4. QED
    BY <2>1, <2>2, <2>3
<1>5. ASSUME NEW i, i \in due("consume")
      PROVE  \E r \in DOMAIN t.to : /\ t.to[r] = "succeeded" /\ i = pays[r][Baseline]
                                    /\ i.kind = Baseline /\ GroupOfReservation(i) = GroupOf[r]
  <2>1. PICK x \in t.resolutions : x.outcome = "consume" /\ i \in x.due
    BY <1>5
  <2>2. QED
    BY <2>1, DueOfOwnRun
<1>6. ASSUME NEW i, i \in due("release")
      PROVE  \E r \in DOMAIN t.to : /\ t.to[r] \in {"failed", "cancelled"}
                                    /\ GroupOfReservation(i) = GroupOf[r]
  <2>1. PICK x \in t.resolutions : x.outcome = "release" /\ i \in x.due
    BY <1>6
  <2>2. QED
    BY <2>1, DueOfOwnRun DEF Terminal
<1>7. \A i \in due("consume") \cup due("release") : i \in reserved
  OBVIOUS
<1>8. ASSUME NEW r \in DOMAIN t.to, t.to[r] = "succeeded", pays[r][Baseline] # NoReservation
      PROVE  pays[r][Baseline] \in due("consume")
  <2>1. PICK x \in t.resolutions : x.outcome = "consume" /\ pays[r][Baseline] \in x.due
    BY <1>4, <1>8 DEF Terminal
  <2>2. pays[r][Baseline] \in reserved
    BY <1>3, <1>8 DEF Funded, Live, Kinds
  <2>3. QED
    BY <2>1, <2>2
<1> HIDE DEF due
<1>9. SettlesOwn'
  BY <1>1 DEF SettlesOwn, Settlement
<1>10. NoneYounger'
  <2>1. \A i \in reserved' \cup consumed' \cup released' : i \in reserved \cup consumed \cup released
    BY <1>1, <1>7
  <2>2. QED
    BY <1>1, <2>1 DEF NoneYounger, GroupOfReservation
<1>11. ConsumedIsNamed'
  <2>1. ASSUME NEW i \in consumed', NEW r \in Runs, GroupOf[r] = GroupOfReservation(i)
        PROVE  i = pays[r][Baseline]
    <3>1. CASE i \in consumed
      BY <2>1, <3>1 DEF ConsumedIsNamed
    <3>2. CASE i \in due("consume")
      BY <1>3, <1>5, <2>1, <3>2 DEF SingleTests
    <3>3. QED
      BY <1>1, <3>1, <3>2
  <2>2. QED
    BY <1>1, <2>1 DEF ConsumedIsNamed, GroupOfReservation
<1>12. Funded'
  <2> SUFFICES ASSUME NEW r \in Runs, NEW k \in Kinds, Live(r)', pays[r][k] # NoReservation
               PROVE  pays[r][k] \in IF status'[r] = "succeeded" /\ k = Baseline THEN consumed'
                                     ELSE reserved'
    BY <1>1 DEF Funded
  <2>1. pays[r][k].kind = k /\ GroupOfReservation(pays[r][k]) = GroupOf[r]
    BY GroupAssumption, KeyAssumption DEF ChargeInv, PaysOwn, GroupOfReservation
  <2>2. ASSUME r \notin DOMAIN t.to
        PROVE  pays[r][k] \notin due("consume") \cup due("release")
    BY <1>3, <1>5, <1>6, <2>1, <2>2 DEF SingleTests
  <2>3. CASE r \notin DOMAIN t.to
    <3>1. status'[r] = status[r] /\ Live(r)
      BY <1>1, <2>3 DEF Live
    <3>2. QED
      BY <1>1, <2>2, <2>3, <3>1 DEF Funded
  <2>4. CASE r \in DOMAIN t.to
    <3>1. status'[r] = t.to[r] /\ t.to[r] \in {"queued", "succeeded"} /\ pays[r][k] \in reserved
      BY <1>1, <1>3, <2>4 DEF Funded, Live
    <3>2. pays[r][k] \notin due("release")
      BY <1>3, <1>6, <2>1, <2>4, <3>1 DEF SingleTests
    <3>3. pays[r][k] \in due("consume") => t.to[r] = "succeeded" /\ k = Baseline
      BY <1>3, <1>5, <2>1, <2>4 DEF SingleTests
    <3>4. QED
      BY <1>1, <1>8, <2>4, <3>1, <3>2, <3>3
  <2>5. QED
    BY <2>3, <2>4
<1>13. FreeUseHeld'
  <2> DEFINE mine == {x \in t.resolutions : /\ x.outcome # "wait" /\ free[x.group]
                                            /\ entitlement.status = "reserved"
                                            /\ entitlement.holder = x.group}
  <2>1. entitlement' = IF mine = {} THEN entitlement
                       ELSE IF \E x \in mine : x.outcome = "consume"
                       THEN [entitlement EXCEPT !.status = "consumed", !.expired = FALSE]
                       ELSE Available
    BY <1>2 DEF ResolveEntitlement
  <2>2. \A r \in Runs : status[r] = "succeeded" => status'[r] = "succeeded"
    BY <1>1, <1>3
  <2>3. \A r \in Runs : Live(r)' => Live(r)
    BY <1>1, <1>3 DEF Live
  <2>4. ASSUME mine = {}
        PROVE  \A r \in Runs : Live(r)' /\ free[GroupOf[r]] =>
                 (status'[r] = "succeeded" <=> status[r] = "succeeded")
    <3>1. ASSUME NEW r \in DOMAIN t.to, free[GroupOf[r]], t.to[r] = "succeeded"
          PROVE  FALSE
      <4>1. PICK x \in t.resolutions : x.group = GroupOf[r] /\ x.outcome = "consume"
        BY <1>4, <3>1 DEF Terminal
      <4>2. entitlement.status = "reserved" /\ entitlement.holder = GroupOf[r]
        BY <1>3, <3>1 DEF FreeUseHeld, Live
      <4>3. x \in mine
        BY <3>1, <4>1, <4>2
      <4>4. QED
        BY <2>4, <4>3
    <3>2. QED
      BY <1>1, <1>3, <3>1
  <2>5. CASE mine = {}
    <3>1. entitlement' = entitlement
      BY <2>1, <2>5
    <3>2. QED
      BY <1>1, <2>2, <2>3, <2>4, <2>5, <3>1 DEF FreeUseHeld
  <2>6. ASSUME NEW x \in mine
        PROVE  \E r \in DOMAIN t.to : /\ GroupOf[r] = entitlement.holder
                                      /\ status'[r] = t.to[r] /\ t.to[r] \in Terminal
                                      /\ x.outcome = "consume" <=> t.to[r] = "succeeded"
    <3>1. x \in t.resolutions /\ entitlement.holder = x.group
      OBVIOUS
    <3>2. QED
      BY <1>1, <1>3, <3>1, DueOfOwnRun
  <2>7. \A r \in Runs : Live(r)' /\ free[GroupOf[r]] => entitlement.holder = GroupOf[r]
    BY <2>3 DEF FreeUseHeld
  <2> HIDE DEF mine
  <2>8. CASE \E x \in mine : x.outcome = "consume"
    <3>1. PICK r \in DOMAIN t.to : GroupOf[r] = entitlement.holder /\ status'[r] = "succeeded"
      BY <2>6, <2>8
    <3>2. /\ entitlement'.status = "consumed" /\ entitlement'.holder = entitlement.holder
          /\ ~entitlement'.expired
      BY <2>1, <2>8 DEF TypeOK
    <3>3. QED
      BY <1>1, <1>3, <2>7, <3>1, <3>2 DEF FreeUseHeld, SingleTests
  <2>9. CASE mine # {} /\ \A x \in mine : x.outcome # "consume"
    <3>1. entitlement' = Available
      BY <2>1, <2>9
    <3>2. PICK r \in DOMAIN t.to : /\ GroupOf[r] = entitlement.holder
                                   /\ status'[r] \in Terminal /\ status'[r] # "succeeded"
      BY <2>6, <2>9
    <3>3. \A q \in Runs : ~(Live(q)' /\ free[GroupOf[q]])
      BY <1>3, <2>7, <3>2 DEF SingleTests, Live, Terminal
    <3>4. QED
      BY <1>1, <3>1, <3>3 DEF FreeUseHeld, Available
  <2>10. QED
    BY <2>5, <2>8, <2>9
<1>14. RetriesStand'
  <2>1. ASSUME NEW u \in txns, u.op = "retry", NEW r \in DOMAIN u.to
        PROVE  /\ r \in Runs /\ r \notin DOMAIN t.to
               /\ free[GroupOf[r]] => CanReserveEntitlement(GroupOf[r])'
               /\ \A k \in Kinds \ u.unread : k \in u.unpaid \/ StillReserved(r, k)'
    <3>1. r \in Runs /\ r \notin DOMAIN t.to
      BY <1>1, <2>1, RowsOfTransaction DEF RowInv, DisjointRows
    <3>2. ASSUME free[GroupOf[r]]
          PROVE  entitlement' = entitlement
      <4>1. EntitlementLocked
        BY <2>1, <3>2 DEF EntitlementLocked
      <4>2. QED
        BY <1>2, <4>1 DEF ResolveEntitlement
    <3>3. ASSUME NEW k \in Kinds, pays[r][k] # NoReservation, pays[r][k] \in reserved
          PROVE  pays[r][k] \in reserved'
      <4>1. GroupOfReservation(pays[r][k]) = GroupOf[r]
        BY <3>1, <3>3, GroupAssumption, KeyAssumption DEF ChargeInv, PaysOwn, GroupOfReservation
      <4>2. pays[r][k] \notin due("consume") \cup due("release")
        BY <1>3, <1>5, <1>6, <3>1, <4>1 DEF SingleTests
      <4>3. QED
        BY <1>1, <3>3, <4>2
    <3>4. QED
      BY <1>1, <2>1, <3>1, <3>2, <3>3 DEF RetriesStand, CanReserveEntitlement, Vacant, StillReserved
  <2>2. QED
    BY <1>1, <2>1 DEF RetriesStand, FreeRetry
<1>15. QED
  BY <1>9, <1>10, <1>11, <1>12, <1>13, <1>14

LEMMA PaymentAtRenewal ==
  ASSUME SingleTests, TypeOK, RowInv, ChargeInv, PaymentInv,
         NEW t \in txns, NEW r \in Runs, CommitRetry(t, r)
  PROVE  PaymentInv'
<1> USE DEF PaymentInv
<1>1. /\ t.op = "retry" /\ t.unread = {} /\ r \in DOMAIN t.to /\ txns' = txns \ {t}
      /\ status' = [status EXCEPT ![r] = "queued"]
      /\ UNCHANGED <<free, consumed, released>>
      /\ entitlement' = IF free[GroupOf[r]] THEN ReserveEntitlement(GroupOf[r]) ELSE entitlement
  BY DEF CommitRetry
<1>2. /\ DOMAIN t.to = {r} /\ status[r] = "failed"
      /\ \A k \in t.unpaid : k \in Kinds /\ pays[r][k] # NoReservation
  BY <1>1, RowsOfTransaction DEF RowInv, StillAsRead
<1>3. /\ \A q \in Runs : q # r => status'[q] = status[q] /\ GroupOf[q] # GroupOf[r]
      /\ status'[r] = "queued"
  BY <1>1 DEF SingleTests, TypeOK
<1>4. /\ \A q \in Runs, k \in Kinds : q # r => pays'[q][k] = pays[q][k]
      /\ \A k \in Kinds : pays'[r][k] = IF k \in t.unpaid THEN Successor(r, k) ELSE pays[r][k]
  BY <1>3 DEF CommitRetry, RenewedIds
<1>5. \A k \in t.unpaid :
        /\ Successor(r, k) \in Reservation /\ Successor(r, k).kind = k
        /\ GroupOfReservation(Successor(r, k)) = GroupOf[r]
        /\ Successor(r, k).gen = pays[r][k].gen + 1
  BY <1>2, SuccessorOf DEF Successor
<1>6. \A k \in Kinds : pays[r][k] # NoReservation => pays[r][k].gen \in Nat
  BY DEF TypeOK, Reservation
<1>7. \A i \in reserved \cup consumed \cup released : i \in Reservation /\ i.gen \in Nat /\ i.kind \in Kinds
  BY DEF TypeOK, Reservation
<1>8. reserved' = reserved \cup {Successor(r, k) : k \in t.unpaid}
  <2>1. reserved' = reserved \cup ({Successor(r, k) : k \in t.unpaid} \ (consumed \cup released))
    BY DEF CommitRetry
  <2>2. ASSUME NEW k \in t.unpaid
        PROVE  Successor(r, k) \notin consumed \cup released
    <3>1. Successor(r, k) \in consumed \cup released => Successor(r, k).gen <= pays[r][k].gen
      BY <1>2, <1>5 DEF NoneYounger
    <3>2. QED
      BY <1>2, <1>5, <1>6, <3>1
  <2>3. QED
    BY <2>1, <2>2
<1>9. SettlesOwn'
  <2>1. ASSUME NEW u \in txns', NEW q \in DOMAIN u.to
        PROVE  q \in Runs /\ q # r
    BY <1>1, <2>1, RowsOfTransaction DEF RowInv, DisjointRows
  <2>2. \A u \in txns' : \A q \in DOMAIN u.to : Settlement(q, u.to[q])' = Settlement(q, u.to[q])
    BY <1>4, <2>1, SettlementStays
  <2>3. QED
    BY <1>1, <2>2 DEF SettlesOwn
<1>10. NoneYounger'
  <2>1. ASSUME NEW i \in reserved' \cup consumed' \cup released', NEW q \in Runs,
               GroupOf[q] = GroupOfReservation(i)
        PROVE  pays'[q][i.kind] # NoReservation /\ i.gen <= pays'[q][i.kind].gen
    <3>1. CASE i \in reserved \cup consumed \cup released
      <4>1. i.kind \in Kinds /\ i.gen \in Nat /\ pays[q][i.kind] # NoReservation
            /\ i.gen <= pays[q][i.kind].gen
        BY <1>7, <2>1, <3>1 DEF NoneYounger
      <4>2. CASE q # r \/ i.kind \notin t.unpaid
        BY <1>4, <4>1, <4>2
      <4>3. CASE q = r /\ i.kind \in t.unpaid
        BY <1>4, <1>5, <1>6, <4>1, <4>3, NullAssumption
      <4>4. QED
        BY <4>2, <4>3
    <3>2. CASE i \in {Successor(r, k) : k \in t.unpaid}
      <4>1. PICK k \in t.unpaid : i = Successor(r, k)
        BY <3>2
      <4>2. q = r /\ i.kind = k /\ i \in Reservation /\ pays'[r][k] = i
        BY <1>2, <1>3, <1>4, <1>5, <2>1, <4>1
      <4>3. QED
        BY <4>2, NullAssumption DEF Reservation
    <3>3. QED
      BY <1>1, <1>8, <3>1, <3>2
  <2>2. QED
    BY <2>1 DEF NoneYounger, GroupOfReservation
<1>11. ConsumedIsNamed'
  <2>1. ASSUME NEW i \in consumed
        PROVE  GroupOfReservation(i) # GroupOf[r]
    BY <1>2 DEF ChargeInv, ChargedOnlyForSuccess, AllSucceeded, RunsOf
  <2>2. QED
    BY <1>1, <1>4, <2>1 DEF ConsumedIsNamed, GroupOfReservation, Kinds
<1>12. Funded'
  <2>1. ASSUME NEW k \in Kinds, pays'[r][k] # NoReservation
        PROVE  pays'[r][k] \in reserved'
    <3>1. k \in t.unpaid \/ StillReserved(r, k)
      BY <1>1 DEF RetriesStand
    <3>2. QED
      BY <1>4, <1>8, <2>1, <3>1 DEF StillReserved
  <2>2. QED
    BY <1>1, <1>3, <1>4, <1>8, <2>1 DEF Funded, Live
<1>13. FreeUseHeld'
  <2>1. CASE free[GroupOf[r]]
    <3>1. Vacant \/ entitlement.holder = GroupOf[r]
      BY <1>1, <2>1 DEF RetriesStand, CanReserveEntitlement
    <3>2. ~entitlement.expired /\ entitlement.status \in {"available", "reserved", "consumed"}
      BY DEF FreeUseHeld, TypeOK
    <3>3. entitlement.status = "available" \/ entitlement.holder = GroupOf[r]
      BY <3>1, <3>2 DEF Vacant
    <3>4. entitlement.status = "consumed" => entitlement.holder # GroupOf[r]
      BY <1>2 DEF FreeUseHeld, SingleTests
    <3>5. /\ entitlement'.status = "reserved" /\ entitlement'.holder = GroupOf[r]
          /\ ~entitlement'.expired
      BY <1>1, <2>1, <3>2, <3>3, <3>4 DEF ReserveEntitlement, Vacant
    <3>6. \A q \in Runs : q # r => ~(Live(q) /\ free[GroupOf[q]])
      BY <1>3, <3>3 DEF FreeUseHeld
    <3>7. QED
      BY <1>1, <1>3, <3>5, <3>6 DEF FreeUseHeld, Live
  <2>2. CASE ~free[GroupOf[r]]
    BY <1>1, <1>2, <1>3, <2>2 DEF FreeUseHeld, Live
  <2>3. QED
    BY <2>1, <2>2
<1>14. RetriesStand'
  <2>1. ASSUME NEW u \in txns', u.op = "retry", NEW q \in DOMAIN u.to
        PROVE  /\ q \in Runs /\ q # r /\ u \in txns /\ u # t
               /\ free[GroupOf[q]] => CanReserveEntitlement(GroupOf[q])'
               /\ \A k \in Kinds \ u.unread : k \in u.unpaid \/ StillReserved(q, k)'
    <3>1. q \in Runs /\ q # r /\ u \in txns /\ u # t
      BY <1>1, <2>1, RowsOfTransaction DEF RowInv, DisjointRows
    <3>2. ASSUME free[GroupOf[q]]
          PROVE  entitlement' = entitlement
      <4>1. FreeRetry(u)
        BY <2>1, <3>2 DEF FreeRetry
      <4>2. ~FreeRetry(t)
        BY <3>1, <4>1 DEF RetriesStand
      <4>3. QED
        BY <1>1, <4>2 DEF FreeRetry
    <3>3. QED
      BY <1>4, <1>8, <2>1, <3>1, <3>2 DEF RetriesStand, CanReserveEntitlement, Vacant, StillReserved
  <2>2. QED
    BY <1>1, <2>1 DEF RetriesStand, FreeRetry
<1>15. QED
  BY <1>9, <1>10, <1>11, <1>12, <1>13, <1>14

LEMMA PaymentHolds == ASSUME SingleTests, ~HoldsExpire PROVE Spec => []PaymentInv
<1>1. Init => PaymentInv
  BY DEF Init, Available, PaymentInv, SettlesOwn, NoneYounger, ConsumedIsNamed, Funded, Live,
         FreeUseHeld, RetriesStand
<1>2. TypeOK /\ RowInv /\ ChargeInv /\ SettleInv /\ PaymentInv /\ [Next]_vars => PaymentInv'
  <2> SUFFICES ASSUME TypeOK, RowInv, ChargeInv, SettleInv, PaymentInv, [Next]_vars
               PROVE  PaymentInv'
    OBVIOUS
  <2> USE DEF SettleInv
  <2>1. CASE Next
    <3>1. ASSUME NEW to \in Maps, Begins(to)
          PROVE  PaymentInv'
      BY <3>1, PaymentAtBegin
    <3>2. ASSUME NEW S \in SUBSET Claimable, ClaimNextQueuedRuns(S)
          PROVE  PaymentInv'
      BY <3>2, PaymentFrame DEF ClaimNextQueuedRuns, Claimable
    <3>3. ASSUME NEW g \in Groups, NEW isFree \in BOOLEAN, NEW kinds \in SUBSET Kinds,
                 LaunchDraft(g, isFree, kinds)
          PROVE  PaymentInv'
      BY <3>3, PaymentAtLaunch
    <3>4. ASSUME NEW r \in Runs, RetryRun(r)
          PROVE  PaymentInv'
      BY <3>4, PaymentAtRetry
    <3>5. ASSUME NEW t \in txns, CommitFinalize(t)
          PROVE  PaymentInv'
      BY <3>5, PaymentAtSettlement
    <3>6. ASSUME NEW t \in txns, NEW r \in Runs, CommitRetry(t, r)
          PROVE  PaymentInv'
      BY <3>6, PaymentAtRenewal
    <3>7. ASSUME NEW t \in txns, NEW r \in Runs, NEW k \in Addons, RetryReadsAddon(t, r, k)
          PROVE  PaymentInv'
      BY <3>7, PaymentAtRead
    <3>8. CASE \/ DropsCall
               \/ \E r \in Runs : CancelRunningRun(r)
               \/ \E t \in txns : Rollback(t)
               \/ \E r \in Runs, outcome \in {"succeeded", "failed", "rejected"} : AnalysisSettles(r, outcome)
      BY <3>8, PaymentFrame DEF DropsCall, CancelRunningRun, Rollback, AnalysisSettles, runVars
    <3>9. ~HoldExpires
      BY DEF HoldExpires
    <3>10. QED
      BY <2>1, StepsOfSystem, <3>1, <3>2, <3>3, <3>4, <3>5, <3>6, <3>7, <3>8, <3>9
  <2>2. CASE UNCHANGED vars
    BY <2>2, PaymentFrame DEF vars, runVars
  <2>3. QED
    BY <2>1, <2>2
<1>3. QED
  BY <1>1, <1>2, RowsHold, ChargesHold, SettlementHolds, PTL DEF Spec

(* A test of one run that succeeded is paid for, and once only, however     *)
(* often it was reaped, retried or had to compete for the free use          *)
(* (_resolve_launch_group, retry_run), as long as no hold of the free use   *)
(* expires.                                                                 *)
THEOREM TestsArePaidOnce == ASSUME SingleTests, ~HoldsExpire PROVE Spec => []PaidOnce
<1>1. TypeOK /\ PaymentInv => PaidOnce
  <2> SUFFICES ASSUME TypeOK, PaymentInv, NEW g \in Groups
               PROVE  /\ AllSucceeded(g) =>
                           /\ \A k \in Kinds :
                                LET named == {pays[r][k] : r \in RunsOf(g)} \ {NoReservation}
                                IN named # {} =>
                                     named \cap (IF k = Baseline THEN consumed ELSE reserved) # {}
                           /\ free[g] => entitlement.status = "consumed" /\ entitlement.holder = g
                      /\ Cardinality({i \in consumed : GroupOfReservation(i) = g}) <= 1
    BY DEF PaidOnce, PaidInFull, ChargedOnce
  <2>1. PICK r \in Runs : GroupOf[r] = g
    BY GroupAssumption
  <2>2. RunsOf(g) = {r}
    BY <2>1 DEF RunsOf, SingleTests
  <2>3. ASSUME AllSucceeded(g), NEW k \in Kinds, pays[r][k] # NoReservation
        PROVE  pays[r][k] \in IF k = Baseline THEN consumed ELSE reserved
    BY <2>2, <2>3 DEF AllSucceeded, PaymentInv, Funded, Live
  <2>4. AllSucceeded(g) /\ free[g] => entitlement.status = "consumed" /\ entitlement.holder = g
    BY <2>1, <2>2 DEF AllSucceeded, PaymentInv, FreeUseHeld, Live
  <2>5. Cardinality({i \in consumed : GroupOfReservation(i) = g}) <= 1
    <3>1. \A i \in consumed : GroupOfReservation(i) = g => i = pays[r][Baseline]
      BY <2>1 DEF PaymentInv, ConsumedIsNamed
    <3>2. {i \in consumed : GroupOfReservation(i) = g} \in {{}, {pays[r][Baseline]}}
      BY <3>1
    <3>3. Cardinality({}) = 0 /\ Cardinality({pays[r][Baseline]}) = 1
      BY FS_EmptySet, FS_Singleton
    <3>4. QED
      BY <3>2, <3>3
  <2>6. QED
    BY <2>2, <2>3, <2>4, <2>5
<1>2. QED
  BY <1>1, PaymentHolds, RowsHold, PTL

-----------------------------------------------------------------------------
(* Only launched runs have an analysis, so that a launch finds none to      *)
(* start again.                                                             *)
Unanalysed == \A r \in Runs : status[r] = "none" => analysis[r] = "none"

LEMMA UnanalysedInductive ==
  ASSUME TypeOK, Unanalysed, Next
  PROVE  Unanalysed'
<1> USE DEF TypeOK, Unanalysed
<1>1. ASSUME NEW to \in Maps, Begins(to)
      PROVE  Unanalysed'
  BY <1>1 DEF Begins, runVars
<1>2. ASSUME NEW S \in SUBSET Claimable, ClaimNextQueuedRuns(S)
      PROVE  Unanalysed'
  BY <1>2 DEF ClaimNextQueuedRuns
<1>3. ASSUME NEW g \in Groups, NEW isFree \in BOOLEAN, NEW kinds \in SUBSET Kinds,
             LaunchDraft(g, isFree, kinds)
      PROVE  Unanalysed'
  BY <1>3 DEF LaunchDraft
<1>4. ASSUME NEW r \in Runs, CancelRunningRun(r) \/ RetryRun(r)
      PROVE  Unanalysed'
  BY <1>4 DEF CancelRunningRun, RetryRun, runVars
<1>5. ASSUME NEW t \in txns, CommitFinalize(t)
      PROVE  Unanalysed'
  <2>1. \A r \in Runs : status'[r] = IF r \in DOMAIN t.to THEN t.to[r] ELSE status[r]
    BY <1>5 DEF CommitFinalize
  <2>2. \A r \in DOMAIN t.to : t.to[r] # "none"
    <3>1. t.to \in [DOMAIN t.to -> Statuses]
      BY <1>5, RowsOfTransaction
    <3>2. QED
      BY <3>1 DEF Statuses
  <2>3. analysis' = analysis
    BY <1>5 DEF CommitFinalize
  <2>4. QED
    BY <2>1, <2>2, <2>3
<1>6. ASSUME NEW t \in txns, NEW r \in Runs, CommitRetry(t, r)
      PROVE  Unanalysed'
  BY <1>6 DEF CommitRetry, RestartedAnalysis
<1>7. ASSUME NEW r \in Runs, NEW outcome \in {"succeeded", "failed", "rejected"},
             AnalysisSettles(r, outcome)
      PROVE  Unanalysed'
  BY <1>7 DEF AnalysisSettles
<1>8. ASSUME UNCHANGED <<status, analysis>>
      PROVE  Unanalysed'
  BY <1>8
<1>9. QED
  BY StepsOfSystem, <1>1, <1>2, <1>3, <1>4, <1>5, <1>6, <1>7, <1>8
     DEF DropsCall, Rollback, RetryReadsAddon, HoldExpires, runVars

LEMMA StepsUseMoves ==
  ASSUME TypeOK, Unanalysed, Next, NEW r \in Runs, analysis'[r] # analysis[r]
  PROVE  <<analysis[r], analysis'[r]>> \in Outcome!Moves
<1> USE DEF TypeOK, Outcome!Moves, Outcome!Settled
<1>1. ASSUME NEW g \in Groups, NEW isFree \in BOOLEAN, NEW kinds \in SUBSET Kinds,
             LaunchDraft(g, isFree, kinds)
      PROVE  <<analysis[r], analysis'[r]>> \in Outcome!Moves
  BY <1>1 DEF LaunchDraft, RunsOf, Unanalysed
<1>2. ASSUME NEW t \in txns, NEW q \in Runs, CommitRetry(t, q)
      PROVE  <<analysis[r], analysis'[r]>> \in Outcome!Moves
  BY <1>2 DEF CommitRetry, RestartedAnalysis
<1>3. ASSUME NEW q \in Runs, NEW outcome \in {"succeeded", "failed", "rejected"},
             AnalysisSettles(q, outcome)
      PROVE  <<analysis[r], analysis'[r]>> \in Outcome!Moves
  BY <1>3 DEF AnalysisSettles
<1>4. ASSUME NEW t \in txns, CommitFinalize(t)
      PROVE  FALSE
  BY <1>4 DEF CommitFinalize
<1>5. ASSUME NEW t \in txns, NEW q \in Runs, NEW k \in Addons, RetryReadsAddon(t, q, k)
      PROVE  FALSE
  BY <1>5 DEF RetryReadsAddon, runVars
<1>6. ASSUME \/ DropsCall \/ HoldExpires
             \/ \E to \in Maps : Begins(to)
             \/ \E S \in SUBSET Claimable : ClaimNextQueuedRuns(S)
             \/ \E q \in Runs : CancelRunningRun(q) \/ RetryRun(q)
             \/ \E t \in txns : Rollback(t)
      PROVE  FALSE
  BY <1>6 DEF DropsCall, Begins, ClaimNextQueuedRuns, CancelRunningRun, RetryRun, Rollback,
              HoldExpires, runVars
<1>7. QED
  BY StepsOfSystem, <1>1, <1>2, <1>3, <1>4, <1>5, <1>6

(* Runs touch the outcome of their page analysis only as AnalysisOutcome,   *)
(* which PageAnalysis implements, allows: retry_run starts a failure that   *)
(* may pass, and never a success or a rejection.                            *)
THEOREM RunsUseOutcome == Spec => UsesOutcome
<1>1. Init => Outcome!Init
  BY DEF Init, Outcome!Init
<1>2. Init => Unanalysed
  BY DEF Init, Unanalysed
<1>3. TypeOK /\ Unanalysed /\ [Next]_vars => Unanalysed'
  BY UnanalysedInductive DEF Unanalysed, vars, runVars
<1>4. TypeOK /\ TypeOK' /\ Unanalysed /\ [Next]_vars => [Outcome!Step]_analysis
  <2> SUFFICES ASSUME TypeOK, TypeOK', Unanalysed, Next
               PROVE  Outcome!Step
    BY DEF vars, runVars
  <2>1. analysis' \in [Runs -> {"none", "pending"} \cup Outcome!Settled]
    BY DEF TypeOK, Outcome!Settled
  <2>2. QED
    BY <2>1, StepsUseMoves DEF Outcome!Step
<1>5. QED
  BY <1>1, <1>2, <1>3, <1>4, RunsTypeCorrect, PTL DEF Spec, UsesOutcome, Outcome!Spec
=============================================================================
