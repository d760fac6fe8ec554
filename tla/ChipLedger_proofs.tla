-------------------------- MODULE ChipLedger_proofs --------------------------
(* Theorems about ChipLedger, for every set of sessions, reservations and   *)
(* credits and for every cost.                                              *)
EXTENDS MCChipLedger, Sums_proofs

LEMMA SpecPreloads == Spec => PreloadingSpec
<1>1. [Next]_vars => [NextPreloading]_vars
  BY DEF NextPreloading
<1>2. QED
  BY <1>1, PTL DEF Spec, PreloadingSpec

-----------------------------------------------------------------------------
(* Type correctness.                                                        *)

LEMMA EndTransactionType ==
  ASSUME TypeOK, NEW s \in Sessions, EndTransaction(s)
  PROVE  /\ orgLock' \in Sessions \cup {NoSession}
         /\ rowLock' \in [Reservations -> Sessions \cup {NoSession}]
         /\ call' \in [Sessions -> Reservations \cup {NoCall}]
         /\ view' \in [Sessions -> [Reservations -> Statuses \cup {"unloaded"}]]
         /\ pstatus' \in [Sessions -> [Reservations -> Statuses \cup {"clean"}]]
         /\ pposted' \in [Sessions -> [Reservations -> Int]]
         /\ pcredited' \in [Sessions -> SUBSET Credits]
         /\ delta' \in [Sessions -> Int]
  BY DEF TypeOK, EndTransaction

LEMMA TypeInductive ==
  ASSUME TypeOK, NextPreloading
  PROVE  TypeOK'
<1> SUFFICES ASSUME NEW s \in Sessions, Step(s) \/ \E k \in Reservations : Preload(s, k)
             PROVE  TypeOK'
  BY DEF NextPreloading, Next
<1>1. CASE LockOrganization(s)
  BY <1>1 DEF TypeOK, LockOrganization, committed, pending
<1>2. ASSUME NEW c \in Credits, Credit(s, c)
      PROVE  TypeOK'
  BY <1>2, ValueAssumption DEF TypeOK, Credit, committed, locks
<1>3. ASSUME NEW k \in Reservations, ReserveChipsCheck(s, k)
      PROVE  TypeOK'
  BY <1>3 DEF TypeOK, ReserveChipsCheck, committed, locks
<1>4. ASSUME NEW k \in Reservations, ReserveChipsInsert(s, k)
      PROVE  TypeOK'
  BY <1>4, CostAssumption DEF TypeOK, ReserveChipsInsert, committed, locks, Statuses
<1>5. ASSUME NEW k \in Reservations, Preload(s, k)
      PROVE  TypeOK'
  BY <1>5 DEF TypeOK, Preload, committed, locks
<1>6. ASSUME NEW k \in Reservations, LockReservation(s, k)
      PROVE  TypeOK'
  BY <1>6 DEF TypeOK, LockReservation, committed
<1>7. ASSUME NEW k \in Reservations, ConsumeReservation(s, k)
      PROVE  TypeOK'
  BY <1>7 DEF TypeOK, ConsumeReservation, committed, locks, Statuses
<1>8. ASSUME NEW k \in Reservations, ReleaseReservation(s, k)
      PROVE  TypeOK'
  BY <1>8, CostAssumption DEF TypeOK, ReleaseReservation, committed, locks, Statuses
<1>9. CASE Commit(s)
  <2>1. /\ balance' \in Int
        /\ posted' \in [Reservations -> Int]
        /\ credited' \in SUBSET Credits
    BY <1>9 DEF TypeOK, Commit
  <2>2. status' \in [Reservations -> Statuses]
    BY <1>9 DEF TypeOK, Commit
  <2>3. QED
    BY <1>9, <2>1, <2>2, EndTransactionType DEF TypeOK, Commit
<1>10. CASE Rollback(s)
  BY <1>10, EndTransactionType DEF TypeOK, Rollback, committed
<1>11. QED
  BY <1>1, <1>2, <1>3, <1>4, <1>5, <1>6, <1>7, <1>8, <1>9, <1>10 DEF Step

(* Every reachable state is well typed: TypeOK of ChipLedger.               *)
THEOREM LedgerTypeCorrect == (Spec \/ PreloadingSpec) => []TypeOK
<1>1. Init => TypeOK
  BY DEF Init, TypeOK, Statuses
<1>2. TypeOK /\ [NextPreloading]_vars => TypeOK'
  <2> SUFFICES ASSUME TypeOK, [NextPreloading]_vars
               PROVE  TypeOK'
    OBVIOUS
  <2>1. CASE NextPreloading
    BY <2>1, TypeInductive
  <2>2. CASE UNCHANGED vars
    BY <2>2 DEF TypeOK, vars, committed, locks, pending
  <2>3. QED
    BY <2>1, <2>2
<1>3. QED
  BY <1>1, <1>2, SpecPreloads, PTL DEF PreloadingSpec

-----------------------------------------------------------------------------
(* The balance.                                                             *)

LEMMA FundsInductive ==
  ASSUME TypeOK, FundsInv, NextPreloading
  PROVE  FundsInv'
<1> SUFFICES ASSUME NEW s \in Sessions, Step(s) \/ \E k \in Reservations : Preload(s, k)
             PROVE  FundsInv'
  BY DEF NextPreloading, Next
<1> USE NoSessionAssumption, NoCallAssumption DEF FundsInv
<1>1. CASE LockOrganization(s)
  BY <1>1 DEF TypeOK, LockOrganization, committed, pending
<1>2. ASSUME NEW c \in Credits, Credit(s, c)
      PROVE  FundsInv'
  <2>1. /\ balance' = balance /\ orgLock' = orgLock /\ call' = call
        /\ delta' = [delta EXCEPT ![s] = @ + Value[c]]
        /\ orgLock = s /\ call[s] = NoCall
    BY <1>2 DEF Credit, committed, locks
  <2>2. Value[c] \in Nat
    BY ValueAssumption
  <2>3. QED
    BY <2>1, <2>2 DEF TypeOK
<1>3. ASSUME NEW k \in Reservations, ReserveChipsCheck(s, k)
      PROVE  FundsInv'
  BY <1>3 DEF TypeOK, ReserveChipsCheck, GetChipBalance, committed, locks
<1>4. ASSUME NEW k \in Reservations, ReserveChipsInsert(s, k)
      PROVE  FundsInv'
  <2>1. /\ balance' = balance /\ orgLock' = orgLock
        /\ call' = [call EXCEPT ![s] = NoCall]
        /\ delta' = [delta EXCEPT ![s] = @ - Cost[k]]
        /\ call[s] = k
    BY <1>4 DEF ReserveChipsInsert, committed, locks
  <2>2. Cost[k] \in Nat
    BY CostAssumption
  <2>3. orgLock = s /\ balance + delta[s] >= Cost[k]
    BY <2>1
  <2>4. QED
    BY <2>1, <2>2, <2>3 DEF TypeOK
<1>5. ASSUME NEW k \in Reservations, Preload(s, k)
      PROVE  FundsInv'
  BY <1>5 DEF TypeOK, Preload, committed, locks
<1>6. ASSUME NEW k \in Reservations, LockReservation(s, k)
      PROVE  FundsInv'
  BY <1>6 DEF TypeOK, LockReservation, committed
<1>7. ASSUME NEW k \in Reservations, ConsumeReservation(s, k)
      PROVE  FundsInv'
  BY <1>7 DEF TypeOK, ConsumeReservation, committed, locks
<1>8. ASSUME NEW k \in Reservations, ReleaseReservation(s, k)
      PROVE  FundsInv'
  <2>1. /\ balance' = balance /\ orgLock' = orgLock /\ call' = call
        /\ delta' = [delta EXCEPT ![s] = @ + Cost[k]]
    BY <1>8 DEF ReleaseReservation, committed, locks
  <2>2. Cost[k] \in Nat /\ Cost \in [Reservations -> Nat]
    BY CostAssumption
  <2>3. QED
    BY <2>1, <2>2 DEF TypeOK
<1>9. ASSUME EndTransaction(s), balance' = balance
      PROVE  FundsInv'
  BY <1>9 DEF TypeOK, EndTransaction
<1>10. CASE Commit(s)
  <2>1. /\ balance' = balance + delta[s]
        /\ orgLock' = IF orgLock = s THEN NoSession ELSE orgLock
        /\ call' = [call EXCEPT ![s] = NoCall]
        /\ delta' = [delta EXCEPT ![s] = 0]
    BY <1>10 DEF Commit, EndTransaction
  <2>2. balance' \in Int /\ balance' >= 0
    BY <2>1 DEF TypeOK
  <2>3. ASSUME NEW t \in Sessions
        PROVE  /\ balance' + delta'[t] >= 0
               /\ orgLock' # t => delta'[t] >= 0
               /\ call'[t] # NoCall => orgLock' = t /\ balance' + delta'[t] >= Cost[call'[t]]
    <3>1. CASE t = s
      BY <2>1, <2>2, <3>1 DEF TypeOK
    <3>2. CASE t # s
      <4>1. delta'[t] = delta[t] /\ call'[t] = call[t]
        BY <2>1, <3>2 DEF TypeOK
      <4>2. delta[s] >= 0 \/ delta[t] >= 0
        BY <3>2
      <4>3. call[t] # NoCall => delta[s] >= 0 /\ Cost[call[t]] \in Int
        BY <3>2, CostAssumption DEF TypeOK
      <4>4. QED
        BY <2>1, <3>2, <4>1, <4>2, <4>3 DEF TypeOK
    <3>3. QED
      BY <3>1, <3>2
  <2>4. QED
    BY <2>2, <2>3
<1>11. CASE Rollback(s)
  BY <1>9, <1>11 DEF Rollback, committed
<1>12. QED
  BY <1>1, <1>2, <1>3, <1>4, <1>5, <1>6, <1>7, <1>8, <1>10, <1>11 DEF Step

LEMMA FundsInvariant == PreloadingSpec => []FundsInv
<1>1. Init => FundsInv
  BY DEF Init, FundsInv
<1>2. TypeOK /\ FundsInv /\ [NextPreloading]_vars => FundsInv'
  <2> SUFFICES ASSUME TypeOK, FundsInv, [NextPreloading]_vars
               PROVE  FundsInv'
    OBVIOUS
  <2>1. CASE NextPreloading
    BY <2>1, FundsInductive
  <2>2. CASE UNCHANGED vars
    BY <2>2 DEF FundsInv, vars, committed, locks, pending
  <2>3. QED
    BY <2>1, <2>2
<1>3. QED
  BY <1>1, <1>2, LedgerTypeCorrect, PTL DEF PreloadingSpec

(* No interleaving of transactions overdraws the account: the property      *)
(* BalanceNonNegative of ChipLedger, also when callers preload.             *)
THEOREM LedgerNeverOverdrawn == (Spec \/ PreloadingSpec) => []BalanceNonNegative
<1>1. FundsInv => BalanceNonNegative
  BY DEF FundsInv, BalanceNonNegative
<1>2. QED
  BY <1>1, FundsInvariant, SpecPreloads, PTL

-----------------------------------------------------------------------------
(* The ledger rows of each reservation.  From here on no caller preloads.   *)

LEMMA RowInductive ==
  ASSUME TypeOK, RowInv, NEW s \in Sessions, Step(s)
  PROVE  RowInv'
<1> USE NoSessionAssumption, NoCallAssumption DEF Settled
<1>1. CASE LockOrganization(s)
  BY <1>1 DEF RowInv, RowInvAt, EntriesMatchStatus, TypeOK, LockOrganization, committed, pending
<1>2. ASSUME NEW c \in Credits, Credit(s, c)
      PROVE  RowInv'
  BY <1>2 DEF RowInv, RowInvAt, EntriesMatchStatus, TypeOK, Credit, committed, locks
<1>3. ASSUME NEW k \in Reservations, ReserveChipsCheck(s, k)
      PROVE  RowInv'
  BY <1>3 DEF RowInv, RowInvAt, EntriesMatchStatus, TypeOK, ReserveChipsCheck,
              ReservationExists, committed, locks
<1>4. ASSUME NEW k \in Reservations, ReserveChipsInsert(s, k)
      PROVE  RowInv'
  <2> USE CostAssumption
  <2>1. EntriesMatchStatus'
    BY <1>4 DEF RowInv, EntriesMatchStatus, ReserveChipsInsert, committed
  <2>2. ASSUME NEW t \in Sessions, NEW m \in Reservations
        PROVE  RowInvAt(t, m)'
    <3>1. RowInvAt(t, m) /\ RowInvAt(s, k)
      BY DEF RowInv
    <3>2. CASE t = s /\ m = k
      BY <1>4, <3>1, <3>2 DEF RowInvAt, TypeOK, ReserveChipsInsert, committed, locks
    <3>3. CASE ~(t = s /\ m = k)
      BY <1>4, <3>1, <3>3 DEF RowInvAt, TypeOK, ReserveChipsInsert, committed, locks
    <3>4. QED
      BY <3>2, <3>3
  <2>3. QED
    BY <2>1, <2>2 DEF RowInv
<1>6. ASSUME NEW k \in Reservations, LockReservation(s, k)
      PROVE  RowInv'
  <2>1. EntriesMatchStatus'
    BY <1>6 DEF RowInv, EntriesMatchStatus, LockReservation, committed
  <2>2. ASSUME NEW t \in Sessions, NEW m \in Reservations
        PROVE  RowInvAt(t, m)'
    <3>1. RowInvAt(t, m) /\ RowInvAt(s, k)
      BY DEF RowInv
    <3>2. CASE m = k
      BY <1>6, <3>1, <3>2 DEF RowInvAt, TypeOK, LockReservation, committed, Statuses
    <3>3. CASE m # k
      BY <1>6, <3>1, <3>3 DEF RowInvAt, TypeOK, LockReservation, committed
    <3>4. QED
      BY <3>2, <3>3
  <2>3. QED
    BY <2>1, <2>2 DEF RowInv
<1>7. ASSUME NEW k \in Reservations, ConsumeReservation(s, k) \/ ReleaseReservation(s, k)
      PROVE  RowInv'
  <2> USE CostAssumption
  <2>1. EntriesMatchStatus'
    BY <1>7 DEF RowInv, EntriesMatchStatus, ConsumeReservation, ReleaseReservation, committed
  <2>2. ASSUME NEW t \in Sessions, NEW m \in Reservations
        PROVE  RowInvAt(t, m)'
    <3>1. RowInvAt(t, m) /\ RowInvAt(s, k)
      BY DEF RowInv
    <3>2. CASE t = s /\ m = k
      <4>1. rowLock[k] = s /\ pstatus[s][k] = "clean" /\ status[k] = "reserved" /\ pposted[s][k] = 0
        BY <1>7, <3>1 DEF RowInvAt, ConsumeReservation, ReleaseReservation, TypeOK, Statuses
      <4>2. QED
        BY <1>7, <3>1, <3>2, <4>1 DEF RowInvAt, TypeOK, ConsumeReservation, ReleaseReservation, committed, locks
    <3>3. CASE ~(t = s /\ m = k)
      BY <1>7, <3>1, <3>3 DEF RowInvAt, TypeOK, ConsumeReservation, ReleaseReservation, committed, locks
    <3>4. QED
      BY <3>2, <3>3
  <2>3. QED
    BY <2>1, <2>2 DEF RowInv
<1>8. ASSUME EndTransaction(s), UNCHANGED committed
      PROVE  RowInv'
  <2>1. EntriesMatchStatus'
    BY <1>8 DEF RowInv, EntriesMatchStatus, committed
  <2>2. ASSUME NEW t \in Sessions, NEW m \in Reservations
        PROVE  RowInvAt(t, m)'
    <3>1. RowInvAt(t, m)
      BY DEF RowInv
    <3>2. CASE t = s
      BY <1>8, <3>2 DEF RowInvAt, TypeOK, EndTransaction, committed
    <3>3. CASE t # s
      BY <1>8, <3>1, <3>3 DEF RowInvAt, TypeOK, EndTransaction, committed
    <3>4. QED
      BY <3>2, <3>3
  <2>3. QED
    BY <2>1, <2>2 DEF RowInv
<1>9. CASE Commit(s)
  <2> USE CostAssumption
  <2>1. ASSUME NEW m \in Reservations
        PROVE  posted'[m] = IF status'[m] \in {"reserved", "consumed"} THEN -Cost[m] ELSE 0
    <3>1. RowInvAt(s, m) /\ posted[m] = IF status[m] \in {"reserved", "consumed"} THEN -Cost[m] ELSE 0
      BY DEF RowInv, EntriesMatchStatus
    <3>2. /\ posted'[m] = posted[m] + pposted[s][m]
          /\ status'[m] = IF pstatus[s][m] = "clean" THEN status[m] ELSE pstatus[s][m]
      BY <1>9 DEF Commit
    <3>3. QED
      BY <3>1, <3>2 DEF RowInvAt, TypeOK, Statuses
  <2>2. ASSUME NEW t \in Sessions, NEW m \in Reservations
        PROVE  RowInvAt(t, m)'
    <3>1. RowInvAt(t, m) /\ RowInvAt(s, m)
      BY DEF RowInv
    <3>2. CASE t = s
      BY <1>9, <3>2 DEF RowInvAt, TypeOK, Commit, EndTransaction
    <3>3. CASE t # s
      <4>1. /\ pstatus'[t][m] = pstatus[t][m] /\ pposted'[t][m] = pposted[t][m]
            /\ view'[t][m] = view[t][m] /\ call'[t] = call[t]
            /\ rowLock'[m] = t <=> rowLock[m] = t
            /\ orgLock = t => orgLock' = t
            /\ status'[m] = IF pstatus[s][m] = "clean" THEN status[m] ELSE pstatus[s][m]
        BY <1>9, <3>3 DEF TypeOK, Commit, EndTransaction
      <4>2. pstatus[s][m] # "clean" =>
              /\ pstatus[t][m] = "clean"
              /\ rowLock[m] # t
              /\ call[t] # m
        BY <3>1, <3>3 DEF RowInvAt, TypeOK, Statuses
      <4>3. QED
        BY <3>1, <4>1, <4>2 DEF RowInvAt
    <3>4. QED
      BY <3>2, <3>3
  <2>3. QED
    BY <2>1, <2>2 DEF RowInv, EntriesMatchStatus
<1>10. CASE Rollback(s)
  BY <1>8, <1>10 DEF Rollback
<1>11. QED
  BY <1>1, <1>2, <1>3, <1>4, <1>6, <1>7, <1>9, <1>10 DEF Step

LEMMA RowInvariant == Spec => []RowInv
<1>1. Init => RowInv
  BY NoSessionAssumption, NoCallAssumption DEF Init, RowInv, RowInvAt, EntriesMatchStatus, Settled
<1>2. TypeOK /\ RowInv /\ [Next]_vars => RowInv'
  <2> SUFFICES ASSUME TypeOK, RowInv, [Next]_vars
               PROVE  RowInv'
    OBVIOUS
  <2>1. CASE Next
    BY <2>1, RowInductive DEF Next
  <2>2. CASE UNCHANGED vars
    BY <2>2 DEF RowInv, RowInvAt, EntriesMatchStatus, vars, committed, locks, pending
  <2>3. QED
    BY <2>1, <2>2
<1>3. QED
  BY <1>1, <1>2, LedgerTypeCorrect, PTL DEF Spec

(* Each reservation is debited at most once and refunded at most once: the  *)
(* property EntriesMatchStatus of ChipLedger, when every settlement reads   *)
(* the reservation under its row lock.                                      *)
THEOREM LedgerEntriesMatch == Spec => []EntriesMatchStatus
<1>1. RowInv => EntriesMatchStatus
  BY DEF RowInv
<1>2. QED
  BY <1>1, RowInvariant, PTL

(* Settling is final: the property SettledIsFinal of ChipLedger, under the  *)
(* same condition.                                                          *)
THEOREM LedgerSettledIsFinal == Spec => SettledIsFinal
<1> DEFINE Final == \A k \in Reservations :
                      /\ status[k] \in Settled => status'[k] = status[k]
                      /\ status[k] # "none" => status'[k] # "none"
<1>1. TypeOK /\ RowInv /\ [Next]_vars => [Final]_status
  <2> SUFFICES ASSUME TypeOK, RowInv, [Next]_vars, status' # status
               PROVE  Final
    OBVIOUS
  <2>1. PICK s \in Sessions : Commit(s)
    BY DEF Next, Step, vars, committed, locks, pending, LockOrganization, Credit, ReserveChipsCheck,
           ReserveChipsInsert, LockReservation, ConsumeReservation, ReleaseReservation, Rollback
  <2>2. ASSUME NEW k \in Reservations
        PROVE  /\ status[k] \in Settled => status'[k] = status[k]
               /\ status[k] # "none" => status'[k] # "none"
    <3>1. RowInvAt(s, k)
      BY DEF RowInv
    <3>2. QED
      BY <2>1, <3>1 DEF Commit, RowInvAt, Settled, TypeOK, Statuses
  <2>3. QED
    BY <2>2
<1>2. QED
  BY <1>1, LedgerTypeCorrect, RowInvariant, PTL DEF Spec, SettledIsFinal

-----------------------------------------------------------------------------
(* The account.  AccountInv: the balance is the sum of the rows, what a     *)
(* session has not committed adds up as well, and only the holder of the    *)
(* organization lock has credits that nobody else has.                      *)
AccountInv ==
  /\ balance = Sum(Value, credited) + Sum(posted, Reservations)
  /\ \A s \in Sessions :
       /\ delta[s] = Sum(Value, pcredited[s]) + Sum(pposted[s], Reservations)
       /\ pcredited[s] # {} => orgLock = s
       /\ pcredited[s] \cap credited = {}

LEMMA SumsAreIntegers ==
  ASSUME TypeOK
  PROVE  /\ Sum(Value, credited) \in Int /\ Sum(posted, Reservations) \in Int
         /\ \A s \in Sessions : /\ Sum(Value, pcredited[s]) \in Int
                                /\ Sum(pposted[s], Reservations) \in Int
<1>1. ASSUME NEW C \in SUBSET Credits
      PROVE  Sum(Value, C) \in Int
  BY KeysAssumption, ValueAssumption, FS_Subset, SumType
<1>2. ASSUME NEW f \in [Reservations -> Int]
      PROVE  Sum(f, Reservations) \in Int
  BY KeysAssumption, SumType
<1>3. QED
  BY <1>1, <1>2 DEF TypeOK

LEMMA AccountInductive ==
  ASSUME TypeOK, AccountInv, NEW s \in Sessions, Step(s)
  PROVE  AccountInv'
<1> USE NoSessionAssumption
<1>1. ASSUME UNCHANGED <<balance, posted, credited, pposted, pcredited, delta>>,
             orgLock = NoSession \/ orgLock' = orgLock
      PROVE  AccountInv'
  BY <1>1 DEF AccountInv
<1>2. CASE LockOrganization(s)
  BY <1>1, <1>2 DEF LockOrganization, committed, pending
<1>3. ASSUME NEW c \in Credits, Credit(s, c)
      PROVE  AccountInv'
  <2>1. /\ pcredited' = [pcredited EXCEPT ![s] = pcredited[s] \cup {c}]
        /\ delta' = [delta EXCEPT ![s] = delta[s] + Value[c]]
        /\ UNCHANGED <<balance, posted, credited, pposted, orgLock>>
        /\ orgLock = s /\ c \notin credited /\ c \notin pcredited[s]
    BY <1>3 DEF Credit, committed, locks
  <2>2. Sum(Value, pcredited[s] \cup {c}) = Value[c] + Sum(Value, pcredited[s])
    <3>1. IsFiniteSet(pcredited[s]) /\ \A x \in pcredited[s] \cup {c} : Value[x] \in Int
      BY KeysAssumption, ValueAssumption, FS_Subset DEF TypeOK
    <3>2. QED
      BY <2>1, <3>1, SumAdd
  <2>3. delta[s] + Value[c] = Sum(Value, pcredited[s] \cup {c}) + Sum(pposted[s], Reservations)
    BY <2>2, SumsAreIntegers, ValueAssumption DEF AccountInv
  <2>4. QED
    BY <2>1, <2>3 DEF AccountInv, TypeOK
<1>4. ASSUME NEW k \in Reservations, ReserveChipsCheck(s, k) \/ LockReservation(s, k)
                                   \/ ConsumeReservation(s, k)
      PROVE  AccountInv'
  BY <1>1, <1>4 DEF ReserveChipsCheck, LockReservation, ConsumeReservation, committed, locks
<1>5. ASSUME NEW k \in Reservations, NEW d \in Int,
             pposted' = [pposted EXCEPT ![s][k] = pposted[s][k] + d],
             delta' = [delta EXCEPT ![s] = delta[s] + d],
             UNCHANGED <<balance, posted, credited, pcredited, orgLock>>
      PROVE  AccountInv'
  <2>1. /\ pposted'[s][k] = pposted[s][k] + d
        /\ \A m \in Reservations \ {k} : pposted'[s][m] = pposted[s][m]
        /\ \A m \in Reservations : pposted[s][m] \in Int
    BY <1>5 DEF TypeOK
  <2>2. Sum(pposted'[s], Reservations) = Sum(pposted[s], Reservations) + d
    BY <2>1, KeysAssumption, SumChange
  <2>3. delta[s] + d = Sum(Value, pcredited[s]) + Sum(pposted'[s], Reservations)
    BY <2>2, SumsAreIntegers DEF AccountInv
  <2>4. QED
    BY <1>5, <2>3 DEF AccountInv, TypeOK
<1>6. ASSUME NEW k \in Reservations, ReserveChipsInsert(s, k)
      PROVE  AccountInv'
  <2> DEFINE d == 0 - Cost[k]
  <2>1. d \in Int /\ pposted[s][k] - Cost[k] = pposted[s][k] + d /\ delta[s] - Cost[k] = delta[s] + d
    BY CostAssumption DEF TypeOK
  <2>2. /\ UNCHANGED <<balance, posted, credited, pcredited, orgLock>>
        /\ pposted' = [pposted EXCEPT ![s][k] = pposted[s][k] - Cost[k]]
        /\ delta' = [delta EXCEPT ![s] = delta[s] - Cost[k]]
    BY <1>6 DEF ReserveChipsInsert, committed, locks
  <2> HIDE DEF d
  <2>3. QED
    BY <1>5, <2>1, <2>2
<1>7. ASSUME NEW k \in Reservations, ReleaseReservation(s, k)
      PROVE  AccountInv'
  <2> DEFINE d == Cost[k]
  <2>1. d \in Int /\ pposted[s][k] + Cost[k] = pposted[s][k] + d /\ delta[s] + Cost[k] = delta[s] + d
    BY CostAssumption DEF TypeOK
  <2>2. /\ UNCHANGED <<balance, posted, credited, pcredited, orgLock>>
        /\ pposted' = [pposted EXCEPT ![s][k] = pposted[s][k] + Cost[k]]
        /\ delta' = [delta EXCEPT ![s] = delta[s] + Cost[k]]
    BY <1>7 DEF ReleaseReservation, committed, locks
  <2> HIDE DEF d
  <2>3. QED
    BY <1>5, <2>1, <2>2
<1>8. ASSUME EndTransaction(s), NEW t \in Sessions
      PROVE  /\ delta'[t] = Sum(Value, pcredited'[t]) + Sum(pposted'[t], Reservations)
             /\ pcredited'[t] # {} => orgLock' = t
             /\ t # s => pcredited'[t] = pcredited[t]
             /\ t = s => pcredited'[t] = {}
  <2>1. CASE t = s
    <3>1. delta'[t] = 0 /\ pcredited'[t] = {} /\ pposted'[t] = [k \in Reservations |-> 0]
      BY <1>8, <2>1 DEF EndTransaction, TypeOK
    <3>2. Sum(pposted'[t], Reservations) = 0
      BY <3>1, KeysAssumption, SumZero
    <3>3. QED
      BY <2>1, <3>1, <3>2, SumEmpty
  <2>2. CASE t # s
    BY <1>8, <2>2 DEF EndTransaction, TypeOK, AccountInv
  <2>3. QED
    BY <2>1, <2>2
<1>9. CASE Commit(s)
  <2>1. /\ balance' = balance + delta[s] /\ credited' = credited \cup pcredited[s]
        /\ posted' = [k \in Reservations |-> posted[k] + pposted[s][k]]
        /\ EndTransaction(s)
    BY <1>9 DEF Commit
  <2>2. Sum(posted', Reservations) = Sum(posted, Reservations) + Sum(pposted[s], Reservations)
    BY <2>1, KeysAssumption, SumPlus DEF TypeOK
  <2>3. Sum(Value, credited') = Sum(Value, credited) + Sum(Value, pcredited[s])
    <3>1. IsFiniteSet(credited) /\ IsFiniteSet(pcredited[s])
      BY KeysAssumption, FS_Subset DEF TypeOK
    <3>2. credited \cap pcredited[s] = {}
      BY DEF AccountInv
    <3>3. \A c \in pcredited[s] \cup credited : Value[c] \in Int
      BY ValueAssumption DEF TypeOK
    <3>4. QED
      BY <2>1, <3>1, <3>2, <3>3, SumUnion
  <2>4. balance' = Sum(Value, credited') + Sum(posted', Reservations)
    BY <2>1, <2>2, <2>3, SumsAreIntegers DEF AccountInv
  <2>5. ASSUME NEW t \in Sessions
        PROVE  pcredited'[t] \cap credited' = {}
    <3>1. t # s => pcredited[t] \cap pcredited[s] = {}
      BY DEF AccountInv
    <3>2. pcredited[t] \cap credited = {}
      BY DEF AccountInv
    <3>3. QED
      BY <1>8, <2>1, <3>1, <3>2
  <2>6. QED
    BY <1>8, <2>1, <2>4, <2>5 DEF AccountInv
<1>10. CASE Rollback(s)
  <2>1. EndTransaction(s) /\ UNCHANGED <<balance, posted, credited>>
    BY <1>10 DEF Rollback, committed
  <2>2. ASSUME NEW t \in Sessions
        PROVE  pcredited'[t] \cap credited' = {}
    BY <1>8, <2>1 DEF AccountInv
  <2>3. QED
    BY <1>8, <2>1, <2>2 DEF AccountInv
<1>11. QED
  BY <1>2, <1>3, <1>4, <1>6, <1>7, <1>9, <1>10 DEF Step

LEMMA AccountInvariant == Spec => []AccountInv
<1>1. Init => AccountInv
  <2> SUFFICES ASSUME Init PROVE AccountInv
    OBVIOUS
  <2>1. Sum([k \in Reservations |-> 0], Reservations) = 0
    BY KeysAssumption, SumZero
  <2>2. QED
    BY <2>1, SumEmpty DEF Init, AccountInv
<1>2. TypeOK /\ AccountInv /\ [Next]_vars => AccountInv'
  <2> SUFFICES ASSUME TypeOK, AccountInv, [Next]_vars
               PROVE  AccountInv'
    OBVIOUS
  <2>1. CASE Next
    BY <2>1, AccountInductive DEF Next
  <2>2. CASE UNCHANGED vars
    BY <2>2 DEF AccountInv, vars, committed, locks, pending
  <2>3. QED
    BY <2>1, <2>2
<1>3. QED
  BY <1>1, <1>2, LedgerTypeCorrect, PTL DEF Spec

(* What rows that match the reservations add up to.                         *)
LEMMA HeldAddsUp ==
  ASSUME NEW p \in [Reservations -> Int], NEW st,
         \A k \in Reservations : p[k] = IF st[k] \in {"reserved", "consumed"} THEN -Cost[k] ELSE 0
  PROVE  Sum(p, Reservations) =
           0 - Sum(Cost, {k \in Reservations : st[k] \in {"reserved", "consumed"}})
<1> DEFINE H == {k \in Reservations : st[k] \in {"reserved", "consumed"}}
           R == Reservations \ H
           z == [k \in Reservations |-> 0]
<1>1. IsFiniteSet(H) /\ IsFiniteSet(R)
  BY KeysAssumption, FS_Subset, H \in SUBSET Reservations, R \in SUBSET Reservations
<1>2. Sum(p, R) = 0
  BY <1>1, SumZero
<1>3. Sum(z, H) = Sum(p, H) + Sum(Cost, H)
  <2>1. \A k \in H : p[k] \in Int /\ Cost[k] \in Int /\ z[k] = p[k] + Cost[k]
    BY CostAssumption
  <2> HIDE DEF H, z
  <2>2. QED
    BY <1>1, <2>1, SumPlus
<1>4. Sum(z, H) = 0
  BY <1>1, SumZero
<1>5. Sum(p, H) \in Int /\ Sum(Cost, H) \in Int
  BY <1>1, CostAssumption, SumType
<1>6. Sum(p, H \cup R) = Sum(p, H) + Sum(p, R)
  BY <1>1, SumUnion
<1>7. H \cup R = Reservations
  OBVIOUS
<1>8. Sum(p, Reservations) = 0 - Sum(Cost, H)
  <2> HIDE DEF H, R, z
  <2>1. Sum(p, H) = 0 - Sum(Cost, H)
    BY <1>3, <1>4, <1>5
  <2>2. Sum(p, Reservations) = Sum(p, H) + Sum(p, R)
    BY <1>6, <1>7
  <2>3. QED
    BY <1>2, <1>5, <2>1, <2>2
<1>9. QED
  BY <1>8

(* A commit is one transaction of the account; nothing else shows.          *)
LEMMA StepTransacts ==
  ASSUME TypeOK, TypeOK', FundsInv', RowInv, RowInv', AccountInv', [Next]_vars
  PROVE  [Account!Transact]_(Account!vars)
<1> SUFFICES ASSUME ~UNCHANGED <<balance, status, credited>>
             PROVE  Account!Transact
  BY DEF Account!vars
<1>1. PICK s \in Sessions : Commit(s)
  BY DEF Next, Step, vars, committed, locks, pending, LockOrganization, Credit, ReserveChipsCheck,
         ReserveChipsInsert, LockReservation, ConsumeReservation, ReleaseReservation, Rollback
<1>2. status' \in [Reservations -> Account!Statuses] /\ credited' \in SUBSET Credits
  BY DEF TypeOK, Statuses, Account!Statuses
<1>3. ASSUME NEW k \in Reservations, status'[k] # status[k]
      PROVE  <<status[k], status'[k]>> \in Account!Moves
  <2>1. RowInvAt(s, k)
    BY DEF RowInv
  <2>2. status'[k] = IF pstatus[s][k] = "clean" THEN status[k] ELSE pstatus[s][k]
    BY <1>1 DEF Commit
  <2>3. pstatus[s][k] \in {"clean", "none", "reserved", "consumed", "released"}
    BY DEF TypeOK, Statuses
  <2>4. QED
    BY <1>3, <2>1, <2>2, <2>3 DEF RowInvAt, Settled, Account!Moves
<1>4. credited \subseteq credited'
  BY <1>1 DEF Commit
<1>5. balance' >= 0
  BY DEF FundsInv
<1>6. balance' = Account!Total(Value, credited')
                 - Account!Total(Cost, {k \in Reservations : status'[k] \in {"reserved", "consumed"}})
  <2> DEFINE held == {k \in Reservations : status'[k] \in {"reserved", "consumed"}}
  <2>1. Sum(posted', Reservations) = 0 - Sum(Cost, held)
    <3>1. posted' \in [Reservations -> Int]
      BY DEF TypeOK
    <3>2. \A k \in Reservations :
            posted'[k] = IF status'[k] \in {"reserved", "consumed"} THEN -Cost[k] ELSE 0
      BY DEF RowInv, EntriesMatchStatus
    <3>3. QED
      BY <3>1, <3>2, HeldAddsUp
  <2>2. Sum(Value, credited') \in Int /\ Sum(Cost, held) \in Int
    <3>1. IsFiniteSet(credited') /\ IsFiniteSet(held)
      BY KeysAssumption, FS_Subset, held \in SUBSET Reservations DEF TypeOK
    <3>2. QED
      BY <3>1, CostAssumption, ValueAssumption, SumType DEF TypeOK
  <2>3. balance' = Sum(Value, credited') + Sum(posted', Reservations)
    BY DEF AccountInv
  <2>4. /\ Account!Total(Value, credited') = Sum(Value, credited')
        /\ Account!Total(Cost, held) = Sum(Cost, held)
    BY DEF Account!Total, Account!FoldFunctionOnSet, Account!MapThenFoldSet, Sum, FoldFunctionOnSet, MapThenFoldSet
  <2> HIDE DEF held
  <2>5. balance' = Account!Total(Value, credited') - Account!Total(Cost, held)
    BY <2>1, <2>2, <2>3, <2>4
  <2>6. QED
    BY <2>5 DEF held
<1>7. QED
  BY <1>2, <1>3, <1>4, <1>5, <1>6 DEF Account!Transact

(* The ledger implements the account of ChipAccount: the property           *)
(* ImplementsAccount of MCChipLedger.  Whatever transactions interleave,    *)
(* readers see whole transactions of an account that is never overdrawn and *)
(* in which no chip appears or disappears.                                  *)
THEOREM LedgerImplementsAccount == Spec => ImplementsAccount
<1>1. Init => Account!Init
  BY DEF Init, Account!Init
<1>2. /\ TypeOK /\ FundsInv /\ RowInv /\ AccountInv
      /\ TypeOK' /\ FundsInv' /\ RowInv' /\ AccountInv' /\ [Next]_vars
      => [Account!Transact]_(Account!vars)
  BY StepTransacts
<1>3. Spec => [](TypeOK /\ FundsInv /\ RowInv /\ AccountInv)
  BY LedgerTypeCorrect, FundsInvariant, RowInvariant, AccountInvariant, SpecPreloads, PTL
<1>4. QED
  BY <1>1, <1>2, <1>3, PTL DEF Spec, ImplementsAccount, Account!Spec
=============================================================================
