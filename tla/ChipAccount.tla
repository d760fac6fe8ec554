---------------------------- MODULE ChipAccount -----------------------------
(***************************************************************************)
(* What chip_ledger.py promises its callers: an account whose balance is   *)
(* the chips credited less the chips held or spent, that changes by whole  *)
(* transactions and never goes below zero.  Locks, sessions and ledger     *)
(* rows are invisible here.                                                *)
(***************************************************************************)
EXTENDS Integers, Functions

CONSTANTS Reservations, Cost, Credits, Value

VARIABLES balance, status, credited

vars == <<balance, status, credited>>

Statuses == {"none", "reserved", "consumed", "released"}

Total(amountOf, S) == FoldFunctionOnSet(+, 0, amountOf, S)

Held == {k \in Reservations : status[k] \in {"reserved", "consumed"}}

Balanced == balance = Total(Value, credited) - Total(Cost, Held)

(* The life of a reservation: reserved once, then settled once.            *)
Moves == {<<"none", "reserved">>, <<"reserved", "consumed">>, <<"reserved", "released">>}

Init ==
  /\ balance = 0
  /\ status = [k \in Reservations |-> "none"]
  /\ credited = {}

(* One committed transaction: any number of reservations move, any number  *)
(* of credits are added, and the account balances again.                   *)
Transact ==
  /\ status' \in [Reservations -> Statuses]
  /\ \A k \in Reservations :
       status'[k] # status[k] => <<status[k], status'[k]>> \in Moves
  /\ credited' \in SUBSET Credits
  /\ credited \subseteq credited'
  /\ balance' = Total(Value, credited')
                  - Total(Cost, {k \in Reservations : status'[k] \in {"reserved", "consumed"}})
  /\ balance' >= 0

Spec == Init /\ [][Transact]_vars
=============================================================================
