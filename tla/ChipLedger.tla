----------------------------- MODULE ChipLedger -----------------------------
(***************************************************************************)
(* The Chip ledger of one organization: backend/app/services/              *)
(* chip_ledger.py over the tables chip_ledger_entries and                  *)
(* chip_reservations, as concurrent READ COMMITTED transactions.           *)
(*                                                                         *)
(* A database session runs one transaction at a time.  What it writes      *)
(* stays in its pending variables until Commit; locks are held until the   *)
(* end of the transaction.  Rows are append-only, so the balance           *)
(* SUM(amount) is kept as a running total of the committed rows, and       *)
(* posted[k] is the same sum restricted to the rows that reference         *)
(* reservation k.                                                          *)
(*                                                                         *)
(* Simplifications.  A reservation is named by its idempotency key (the    *)
(* pair organization, key is unique in the schema and every caller passes  *)
(* a key); Cost gives the amount asked for under a key.  expires_at is     *)
(* written and never read by the code, so it is left out.                  *)
(***************************************************************************)
EXTENDS Integers, FiniteSets

CONSTANTS
  Sessions,      \* database sessions working for the organization
  Reservations,  \* idempotency keys of reserve_chips
  Cost,          \* Cost[k]: chips reserved under key k
  Credits,       \* idempotency keys of credit
  Value,         \* Value[c]: chips credited under key c
  NoSession,     \* the holder of a free lock
  NoCall         \* no reserve_chips call between its check and its insert

ASSUME CostAssumption == Cost \in [Reservations -> Nat \ {0}]
ASSUME ValueAssumption == Value \in [Credits -> Nat \ {0}]
ASSUME NoSessionAssumption == NoSession \notin Sessions
ASSUME NoCallAssumption == NoCall \notin Reservations
ASSUME KeysAssumption == IsFiniteSet(Reservations) /\ IsFiniteSet(Credits)

VARIABLES
  balance,   \* committed SUM(chip_ledger_entries.amount)
  posted,    \* the committed sum of the entries that reference each reservation
  status,    \* committed chip_reservations.status, "none" before the insert
  credited,  \* keys of the committed credit entries
  orgLock,   \* holder of the organization row lock
  rowLock,   \* holder of each reservation row lock
  call,      \* the key whose balance check has passed and whose row is not yet inserted
  view,      \* status of a reservation object in the session's identity map
  pstatus,   \* uncommitted status of a reservation, "clean" if not written
  pposted,   \* uncommitted ledger amounts per reservation
  pcredited, \* uncommitted credit entries
  delta      \* sum of all uncommitted ledger amounts of the session

committed == <<balance, posted, status, credited>>
locks == <<orgLock, rowLock>>
pending == <<call, view, pstatus, pposted, pcredited, delta>>
vars == <<committed, locks, pending>>

Statuses == {"none", "reserved", "consumed", "released"}
Settled == {"consumed", "released"}

TypeOK ==
  /\ balance \in Int
  /\ posted \in [Reservations -> Int]
  /\ status \in [Reservations -> Statuses]
  /\ credited \in SUBSET Credits
  /\ orgLock \in Sessions \cup {NoSession}
  /\ rowLock \in [Reservations -> Sessions \cup {NoSession}]
  /\ call \in [Sessions -> Reservations \cup {NoCall}]
  /\ view \in [Sessions -> [Reservations -> Statuses \cup {"unloaded"}]]
  /\ pstatus \in [Sessions -> [Reservations -> Statuses \cup {"clean"}]]
  /\ pposted \in [Sessions -> [Reservations -> Int]]
  /\ pcredited \in [Sessions -> SUBSET Credits]
  /\ delta \in [Sessions -> Int]

Init ==
  /\ balance = 0
  /\ posted = [k \in Reservations |-> 0]
  /\ status = [k \in Reservations |-> "none"]
  /\ credited = {}
  /\ orgLock = NoSession
  /\ rowLock = [k \in Reservations |-> NoSession]
  /\ call = [s \in Sessions |-> NoCall]
  /\ view = [s \in Sessions |-> [k \in Reservations |-> "unloaded"]]
  /\ pstatus = [s \in Sessions |-> [k \in Reservations |-> "clean"]]
  /\ pposted = [s \in Sessions |-> [k \in Reservations |-> 0]]
  /\ pcredited = [s \in Sessions |-> {}]
  /\ delta = [s \in Sessions |-> 0]

-----------------------------------------------------------------------------
(* Mutant: a plain SELECT of the organization.                              *)
LockOrganizationWithoutWait(s) ==
  /\ orgLock' = s
  /\ UNCHANGED <<committed, rowLock, pending>>

(* SELECT organizations ... FOR UPDATE: waits while another session holds   *)
(* the row.                                                                 *)
LockOrganization(s) ==
  /\ orgLock = NoSession
  /\ orgLock' = s
  /\ UNCHANGED <<committed, rowLock, pending>>

(* SUM(amount) as the session sees it: committed rows and its own.          *)
GetChipBalance(s) == balance + delta[s]

(* The lookup by idempotency key under the organization lock.               *)
ReservationExists(s, k) == status[k] # "none" \/ pstatus[s][k] # "clean"

(* Mutant: no lookup by idempotency key.                                    *)
CreditTwice(s, c) ==
  /\ orgLock = s
  /\ call[s] = NoCall
  /\ pcredited' = [pcredited EXCEPT ![s] = @ \cup {c}]
  /\ delta' = [delta EXCEPT ![s] = @ + Value[c]]
  /\ UNCHANGED <<committed, locks, call, view, pstatus, pposted>>

(* credit: an entry under a known key is returned, no second row is added.  *)
Credit(s, c) ==
  /\ orgLock = s
  /\ call[s] = NoCall
  /\ c \notin credited \cup pcredited[s]
  /\ pcredited' = [pcredited EXCEPT ![s] = @ \cup {c}]
  /\ delta' = [delta EXCEPT ![s] = @ + Value[c]]
  /\ UNCHANGED <<committed, locks, call, view, pstatus, pposted>>

(* reserve_chips up to the balance check.  With a known key the existing    *)
(* reservation is returned and nothing changes.                             *)
ReserveChipsCheck(s, k) ==
  /\ orgLock = s
  /\ call[s] = NoCall
  /\ ~ReservationExists(s, k)
  /\ GetChipBalance(s) >= Cost[k]
  /\ call' = [call EXCEPT ![s] = k]
  /\ UNCHANGED <<committed, locks, view, pstatus, pposted, pcredited, delta>>

(* reserve_chips after the check: the reservation row and its -amount       *)
(* ledger row.  Other sessions may have committed since the check.          *)
ReserveChipsInsert(s, k) ==
  /\ call[s] = k
  /\ call' = [call EXCEPT ![s] = NoCall]
  /\ view' = [view EXCEPT ![s][k] = "reserved"]
  /\ pstatus' = [pstatus EXCEPT ![s][k] = "reserved"]
  /\ pposted' = [pposted EXCEPT ![s][k] = @ - Cost[k]]
  /\ delta' = [delta EXCEPT ![s] = @ - Cost[k]]
  /\ UNCHANGED <<committed, locks, pcredited>>

(* session.get(ChipReservation, id) by the caller, without a lock: the      *)
(* object enters the identity map with the status committed at that time.   *)
Preload(s, k) ==
  /\ status[k] # "none"
  /\ view[s][k] = "unloaded"
  /\ view' = [view EXCEPT ![s][k] = status[k]]
  /\ UNCHANGED <<committed, locks, call, pstatus, pposted, pcredited, delta>>

(* _lock_reservation: SELECT ... FOR UPDATE on the row.  An object already  *)
(* in the identity map keeps the attributes it was loaded with.             *)
LockReservation(s, k) ==
  /\ call[s] = NoCall
  /\ status[k] # "none"
  /\ rowLock[k] = NoSession
  /\ rowLock' = [rowLock EXCEPT ![k] = s]
  /\ view' = [view EXCEPT ![s][k] = IF @ = "unloaded" THEN status[k] ELSE @]
  /\ UNCHANGED <<committed, orgLock, call, pstatus, pposted, pcredited, delta>>

(* Mutant: a released reservation can be consumed.                          *)
ConsumeReleasedReservation(s, k) ==
  /\ rowLock[k] = s
  /\ view[s][k] \in {"reserved", "released"}
  /\ view' = [view EXCEPT ![s][k] = "consumed"]
  /\ pstatus' = [pstatus EXCEPT ![s][k] = "consumed"]
  /\ UNCHANGED <<committed, locks, call, pposted, pcredited, delta>>

(* consume_reservation: the balance was debited by the reserve row, so the  *)
(* ledger row carries amount 0.  From "consumed" it returns and from        *)
(* "released" it raises: nothing changes.                                   *)
ConsumeReservation(s, k) ==
  /\ rowLock[k] = s
  /\ view[s][k] = "reserved"
  /\ view' = [view EXCEPT ![s][k] = "consumed"]
  /\ pstatus' = [pstatus EXCEPT ![s][k] = "consumed"]
  /\ UNCHANGED <<committed, locks, call, pposted, pcredited, delta>>

(* Mutant: no status check.                                                 *)
ReleaseReservationTwice(s, k) ==
  /\ rowLock[k] = s
  /\ view' = [view EXCEPT ![s][k] = "released"]
  /\ pstatus' = [pstatus EXCEPT ![s][k] = "released"]
  /\ pposted' = [pposted EXCEPT ![s][k] = @ + Cost[k]]
  /\ delta' = [delta EXCEPT ![s] = @ + Cost[k]]
  /\ UNCHANGED <<committed, locks, call, pcredited>>

(* Mutant: a status outside the enum.                                       *)
ReleaseReservationAsExpired(s, k) ==
  /\ rowLock[k] = s
  /\ view[s][k] = "reserved"
  /\ pstatus' = [pstatus EXCEPT ![s][k] = "expired"]
  /\ UNCHANGED <<committed, locks, call, view, pposted, pcredited, delta>>

(* release_reservation: the amount is posted back.                          *)
ReleaseReservation(s, k) ==
  /\ rowLock[k] = s
  /\ view[s][k] = "reserved"
  /\ view' = [view EXCEPT ![s][k] = "released"]
  /\ pstatus' = [pstatus EXCEPT ![s][k] = "released"]
  /\ pposted' = [pposted EXCEPT ![s][k] = @ + Cost[k]]
  /\ delta' = [delta EXCEPT ![s] = @ + Cost[k]]
  /\ UNCHANGED <<committed, locks, call, pcredited>>

(* The end of a transaction drops its locks and its identity map.           *)
EndTransaction(s) ==
  /\ orgLock' = IF orgLock = s THEN NoSession ELSE orgLock
  /\ rowLock' = [k \in Reservations |-> IF rowLock[k] = s THEN NoSession ELSE rowLock[k]]
  /\ call' = [call EXCEPT ![s] = NoCall]
  /\ view' = [view EXCEPT ![s] = [k \in Reservations |-> "unloaded"]]
  /\ pstatus' = [pstatus EXCEPT ![s] = [k \in Reservations |-> "clean"]]
  /\ pposted' = [pposted EXCEPT ![s] = [k \in Reservations |-> 0]]
  /\ pcredited' = [pcredited EXCEPT ![s] = {}]
  /\ delta' = [delta EXCEPT ![s] = 0]

Commit(s) ==
  /\ call[s] = NoCall
  /\ balance' = balance + delta[s]
  /\ posted' = [k \in Reservations |-> posted[k] + pposted[s][k]]
  /\ status' = [k \in Reservations |->
                  IF pstatus[s][k] = "clean" THEN status[k] ELSE pstatus[s][k]]
  /\ credited' = credited \cup pcredited[s]
  /\ EndTransaction(s)

(* An exception (InsufficientChipBalanceError, an invalid state the caller  *)
(* does not swallow), a crash, or a deadlock victim.                        *)
Rollback(s) ==
  /\ EndTransaction(s)
  /\ UNCHANGED committed

(* One step of one session, when callers load a reservation only to settle  *)
(* it.                                                                      *)
Step(s) ==
  \/ LockOrganization(s)
  \/ \E c \in Credits : Credit(s, c)
  \/ \E k \in Reservations :
       \/ ReserveChipsCheck(s, k)
       \/ ReserveChipsInsert(s, k)
       \/ LockReservation(s, k)
       \/ ConsumeReservation(s, k)
       \/ ReleaseReservation(s, k)
  \/ Commit(s)
  \/ Rollback(s)

Next == \E s \in Sessions : Step(s)

(* The callers in ai_pipeline and ai_interaction_heatmap preload as well.   *)
NextPreloading == Next \/ \E s \in Sessions, k \in Reservations : Preload(s, k)

Spec == Init /\ [][Next]_vars

PreloadingSpec == Init /\ [][NextPreloading]_vars

-----------------------------------------------------------------------------
(* The balance every reader sees is never negative, whatever reservations,  *)
(* credits and releases run concurrently (chip_ledger.py, module            *)
(* docstring: "bakiye asla negatife dusmez").                               *)
BalanceNonNegative == balance >= 0

(* The ledger rows of one reservation add up to exactly what its status     *)
(* says is held or spent: one debit while reserved or consumed, nothing     *)
(* once released (or rolled back).  A second release row, or a release of   *)
(* a consumed reservation, shows up here.                                   *)
EntriesMatchStatus ==
  \A k \in Reservations :
    posted[k] = IF status[k] \in {"reserved", "consumed"} THEN -Cost[k] ELSE 0

(* A settled reservation never changes again, and a reservation never       *)
(* disappears: the early returns of consume_reservation and                 *)
(* release_reservation make settling final.                                 *)
SettledIsFinal ==
  [][\A k \in Reservations :
       /\ status[k] \in Settled => status'[k] = status[k]
       /\ status[k] # "none" => status'[k] # "none"]_status

-----------------------------------------------------------------------------
(* Strengthenings used by the proofs.  FundsInv: only the holder of the     *)
(* organization lock can owe chips, and what it owes was covered when it    *)
(* checked and still is, because everybody else can only add.               *)
FundsInv ==
  /\ balance >= 0
  /\ \A s \in Sessions :
       /\ balance + delta[s] >= 0
       /\ orgLock # s => delta[s] >= 0
       /\ call[s] # NoCall => orgLock = s /\ balance + delta[s] >= Cost[call[s]]

(* RowInv: what a session has written to a reservation is backed by the     *)
(* lock that lets it write, and an object it holds locked is up to date.    *)
RowInvAt(s, k) ==
  /\ pstatus[s][k] = "clean" => pposted[s][k] = 0
  /\ pstatus[s][k] = "reserved" =>
       status[k] = "none" /\ orgLock = s /\ pposted[s][k] = -Cost[k]
  /\ pstatus[s][k] \in Settled =>
       /\ rowLock[k] = s
       /\ status[k] = "reserved"
       /\ pposted[s][k] = IF pstatus[s][k] = "released" THEN Cost[k] ELSE 0
  /\ pstatus[s][k] # "none"
  /\ rowLock[k] = s =>
       /\ status[k] # "none"
       /\ view[s][k] = IF pstatus[s][k] = "clean" THEN status[k] ELSE pstatus[s][k]
  /\ call[s] = k => status[k] = "none" /\ pstatus[s][k] = "clean" /\ orgLock = s
  /\ view[s][k] # "unloaded" => rowLock[k] = s \/ pstatus[s][k] = "reserved"

RowInv ==
  /\ EntriesMatchStatus
  /\ \A s \in Sessions, k \in Reservations : RowInvAt(s, k)
=============================================================================
