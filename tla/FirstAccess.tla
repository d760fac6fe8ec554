---------------------------- MODULE FirstAccess -----------------------------
(* Rows that exist from their first use on: the free entitlement of an      *)
(* organization, read FOR UPDATE, and a settings row, read without a lock.  *)
(* Concurrent sessions select, insert inside a SAVEPOINT and select again.  *)
EXTENDS Naturals

CONSTANTS
  Accesses,     \* concurrent transactions
  Fields        \* columns of the settings row

VARIABLES
  entitlement,  \* committed: "absent", "available", "reserved"
  settingsRow,  \* committed: exists and fields (a value for each column)
  access,       \* session -> what its transaction has done so far
  freeUses,     \* launches committed with the free entitlement (history)
  wanted        \* column -> value of the last committed change (history)

accessVars == <<entitlement, settingsRow, access, freeUses, wanted>>

Default == [f \in Fields |-> 0]
Transaction(key, step) ==
  [key |-> key, step |-> step, new |-> FALSE, seen |-> "available", fields |-> Default]
NoAccess == Transaction("entitlement", "idle")

AccessInit ==
  /\ entitlement = "absent"
  /\ settingsRow = [exists |-> FALSE, fields |-> Default]
  /\ access = [s \in Accesses |-> NoAccess]
  /\ freeUses = 0
  /\ wanted = Default

Exists(key) == IF key = "entitlement" THEN entitlement # "absent" ELSE settingsRow.exists
Holds(s, key) == access[s].key = key /\ access[s].step = "holds"

(* The row lock of SELECT ... FOR UPDATE; session.get takes none.           *)
Free(key) == key = "entitlement" => \A s \in Accesses : ~Holds(s, key)

(* Uncommitted rows of other sessions that an INSERT has to wait for.       *)
Inserting(key) == {s \in Accesses : Holds(s, key) /\ access[s].new}

Got(s, new) ==
  access' = [access EXCEPT ![s] =
    [key |-> access[s].key, step |-> "holds", new |-> new,
     seen |-> IF new THEN "available" ELSE entitlement,
     fields |-> IF new THEN Default ELSE settingsRow.fields]]
Goes(s, step) == access' = [access EXCEPT ![s].step = step]

Begin(s, key) ==
  /\ access[s].step = "idle"
  /\ access' = [access EXCEPT ![s] = Transaction(key, "select")]
  /\ UNCHANGED <<entitlement, settingsRow, freeUses, wanted>>

Select(s) ==
  LET key == access[s].key IN
  /\ access[s].step = "select"
  /\ IF Exists(key) THEN Free(key) /\ Got(s, FALSE) ELSE Goes(s, "insert")
  /\ UNCHANGED <<entitlement, settingsRow, freeUses, wanted>>

(* What a unique violation leads to: the SAVEPOINT is rolled back and the   *)
(* row of the other session is read.                                        *)
AfterConflictUnhandled == "error"
AfterConflict == "reselect"

InsertRow(s) ==
  LET key == access[s].key IN
  /\ access[s].step = "insert" /\ Inserting(key) = {}
  /\ IF Exists(key) THEN Goes(s, AfterConflict) ELSE Got(s, TRUE)
  /\ UNCHANGED <<entitlement, settingsRow, freeUses, wanted>>

Reselect(s) ==
  LET key == access[s].key IN
  /\ access[s].step = "reselect"
  /\ IF Exists(key) THEN Free(key) /\ Got(s, FALSE) ELSE Goes(s, "error")
  /\ UNCHANGED <<entitlement, settingsRow, freeUses, wanted>>

(* A quote only makes the row; a launch also takes a free use it offers.    *)
CommitEntitlement(s, launch) ==
  LET uses == launch /\ access[s].seen = "available" IN
  /\ Holds(s, "entitlement")
  /\ entitlement' = IF uses THEN "reserved" ELSE access[s].seen
  /\ freeUses' = IF uses THEN freeUses + 1 ELSE freeUses
  /\ access' = [access EXCEPT ![s] = NoAccess]
  /\ UNCHANGED <<settingsRow, wanted>>

(* A PATCH writes the columns it changes and no others.                     *)
Changed(s, asked) == {f \in DOMAIN asked : asked[f] # access[s].fields[f]}
CommitSettings(s, asked) ==
  /\ Holds(s, "settings")
  /\ settingsRow' = [exists |-> TRUE,
       fields |-> [f \in Fields |-> IF f \in Changed(s, asked) THEN asked[f] ELSE settingsRow.fields[f]]]
  /\ wanted' = [f \in Fields |-> IF f \in Changed(s, asked) THEN asked[f] ELSE wanted[f]]
  /\ access' = [access EXCEPT ![s] = NoAccess]
  /\ UNCHANGED <<entitlement, freeUses>>

(* An invalid value, a refused launch, a lost connection: all is undone.    *)
Abandon(s) ==
  /\ access[s].step \notin {"idle", "error"}
  /\ access' = [access EXCEPT ![s] = NoAccess]
  /\ UNCHANGED <<entitlement, settingsRow, freeUses, wanted>>

AccessNext ==
  \E s \in Accesses :
    \/ \E key \in {"entitlement", "settings"} : Begin(s, key)
    \/ Select(s) \/ InsertRow(s) \/ Reselect(s) \/ Abandon(s)
    \/ \E launch \in BOOLEAN : CommitEntitlement(s, launch)
    \/ \E S \in SUBSET Fields : \E asked \in [S -> 0..1] : CommitSettings(s, asked)

AccessSpec == AccessInit /\ [][AccessNext]_accessVars

-----------------------------------------------------------------------------
(* Every variable has its type.                                             *)
AccessTypeOK ==
  /\ entitlement \in {"absent", "available", "reserved"}
  /\ settingsRow \in [exists : BOOLEAN, fields : [Fields -> 0..1]]
  /\ access \in [Accesses -> [key : {"entitlement", "settings"}, new : BOOLEAN,
       step : {"idle", "select", "insert", "reselect", "holds", "error"},
       seen : {"absent", "available", "reserved"}, fields : [Fields -> 0..1]]]

(* However many first accesses overlap, nobody sees a unique violation, at  *)
(* most one uncommitted row is about, the free use is given out once, and   *)
(* no saved change of a setting is undone by someone else's.                *)
FirstAccessIsSafe ==
  /\ \A s \in Accesses : access[s].step # "error"
  /\ \A s1, s2 \in Accesses : s1 # s2 /\ access[s1].step = "holds" /\ access[s2].step = "holds" /\ access[s1].new
       => access[s1].key # access[s2].key
  /\ freeUses <= 1 /\ (freeUses = 1 <=> entitlement = "reserved")
  /\ settingsRow.fields = wanted
=============================================================================
