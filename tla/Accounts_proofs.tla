--------------------------- MODULE Accounts_proofs ---------------------------
(* Theorems about what an organization does with its account: FirstAccess,  *)
(* for every set of sessions and columns, Wizard, for every set of          *)
(* concurrent requests on a draft, TopUps, for every set of requests and of *)
(* reviewers, Quotes, for every price list and every set of requests,       *)
(* Personas, for every set of distributions of whole weights, and           *)
(* PersonaBatches, for every size of a batch and every number of edits.     *)
EXTENDS MCAccounts, Sums_proofs, SequenceTheorems

-----------------------------------------------------------------------------
(* The rows of a first access.                                              *)
(* What a transaction that has its row knows: a row it has inserted is      *)
(* nowhere committed, a row it has read is, and the entitlement it has read *)
(* under the row lock is still the committed one.                           *)
KnowsRow(s) ==
  /\ access[s].step = "reselect" => Exists(access[s].key)
  /\ Holds(s, "entitlement") =>
       IF access[s].new THEN entitlement = "absent" /\ access[s].seen = "available"
       ELSE entitlement # "absent" /\ access[s].seen = entitlement
  /\ Holds(s, "settings") => (access[s].new <=> ~settingsRow.exists)

(* One session has the entitlement, one session inserts the settings row.   *)
Alone(s, key) == Holds(s, key) /\ (key = "entitlement" \/ access[s].new)
OneAlone ==
  \A s1, s2 \in Accesses : \A key \in {"entitlement", "settings"} :
    Alone(s1, key) /\ Alone(s2, key) => s1 = s2

UsesCounted ==
  /\ freeUses \in 0..1
  /\ freeUses = 1 <=> entitlement = "reserved"

AccessInv ==
  /\ AccessTypeOK
  /\ \A s \in Accesses : KnowsRow(s) /\ access[s].step # "error"
  /\ OneAlone
  /\ UsesCounted
  /\ settingsRow.fields = wanted

(* SELECT of a row that is there, FOR UPDATE if it is the entitlement.      *)
LEMMA ReadsRow ==
  ASSUME AccessInv, NEW s \in Accesses, Exists(access[s].key), Free(access[s].key),
         Got(s, FALSE), UNCHANGED <<entitlement, settingsRow, freeUses, wanted>>
  PROVE  AccessInv'
<1> USE DEF AccessInv, AccessTypeOK, KnowsRow, OneAlone, Alone, Holds, Exists
<1>1. access' = [access EXCEPT ![s] = [key |-> access[s].key, step |-> "holds", new |-> FALSE,
                                       seen |-> entitlement, fields |-> settingsRow.fields]]
  BY DEF Got
<1>2. access[s].key \in {"entitlement", "settings"}
  OBVIOUS
<1>3. AccessTypeOK'
  BY <1>1
<1>4. \A q \in Accesses : (KnowsRow(q) /\ access[q].step # "error")'
  BY <1>1, <1>2
<1>5. OneAlone'
  BY <1>1, <1>2 DEF Free
<1>6. QED
  BY <1>1, <1>3, <1>4, <1>5 DEF UsesCounted

(* A transaction without a row goes on without one.                         *)
LEMMA Moves ==
  ASSUME AccessInv, NEW s \in Accesses, access[s].step # "holds",
         NEW step \in {"insert", "reselect"}, Goes(s, step),
         step = "reselect" => Exists(access[s].key),
         UNCHANGED <<entitlement, settingsRow, freeUses, wanted>>
  PROVE  AccessInv'
<1> USE DEF AccessInv, AccessTypeOK, KnowsRow, OneAlone, Alone, Holds, Exists
<1>1. AccessTypeOK'
  <2>1. access' = [access EXCEPT ![s] = [access[s] EXCEPT !.step = step]]
    BY DEF Goes
  <2>2. [access[s] EXCEPT !.step = step] =
          [key |-> access[s].key, step |-> step, new |-> access[s].new,
           seen |-> access[s].seen, fields |-> access[s].fields]
    OBVIOUS
  <2>3. QED
    BY <2>1, <2>2
<1>2. /\ \A q \in Accesses : q # s => access'[q] = access[q]
      /\ access'[s].step = step /\ access'[s].key = access[s].key
  BY DEF Goes
<1>3. \A q \in Accesses : (KnowsRow(q) /\ access[q].step # "error")'
  BY <1>2
<1>4. OneAlone'
  BY <1>2
<1>5. QED
  BY <1>1, <1>3, <1>4 DEF UsesCounted

LEMMA AccessInitial == AccessInit => AccessInv
  BY DEF AccessInit, AccessInv, AccessTypeOK, KnowsRow, OneAlone, Alone, Holds, UsesCounted,
         NoAccess, Transaction, Default

LEMMA AccessInductive == AccessInv /\ [AccessNext]_accessVars => AccessInv'
<1> SUFFICES ASSUME AccessInv, [AccessNext]_accessVars
             PROVE  AccessInv'
  OBVIOUS
<1> USE DEF AccessInv, AccessTypeOK, KnowsRow, OneAlone, Alone, Holds, UsesCounted, Exists
<1>1. ASSUME NEW s \in Accesses, NEW key \in {"entitlement", "settings"}, Begin(s, key)
      PROVE  AccessInv'
  BY <1>1 DEF Begin, Transaction, Default
<1>2. ASSUME NEW s \in Accesses, Select(s)
      PROVE  AccessInv'
  <2>1. CASE Exists(access[s].key)
    BY <1>2, <2>1, ReadsRow DEF Select
  <2>2. CASE ~Exists(access[s].key)
    BY <1>2, <2>2, Moves DEF Select
  <2>3. QED
    BY <2>1, <2>2
<1>3. ASSUME NEW s \in Accesses, InsertRow(s)
      PROVE  AccessInv'
  <2>1. CASE Exists(access[s].key)
    BY <1>3, <2>1, Moves DEF InsertRow, AfterConflict
  <2>2. CASE ~Exists(access[s].key)
    <3>1. Got(s, TRUE) /\ Inserting(access[s].key) = {}
      BY <1>3, <2>2 DEF InsertRow
    <3>2. \A q \in Accesses : ~(Holds(q, access[s].key) /\ access[q].new)
      BY <3>1 DEF Inserting
    <3>3. access[s].key \in {"entitlement", "settings"}
      OBVIOUS
    <3>4. \A q \in Accesses : ~Holds(q, access[s].key)
      BY <2>2, <3>2, <3>3
    <3>5. QED
      BY <1>3, <2>2, <3>1, <3>4 DEF InsertRow, Got, Default
  <2>3. QED
    BY <2>1, <2>2
<1>4. ASSUME NEW s \in Accesses, Reselect(s)
      PROVE  AccessInv'
  BY <1>4, ReadsRow DEF Reselect
<1>5. ASSUME NEW s \in Accesses, Abandon(s)
      PROVE  AccessInv'
  BY <1>5 DEF Abandon, NoAccess, Transaction, Default
<1>6. ASSUME NEW s \in Accesses, NEW launch \in BOOLEAN, CommitEntitlement(s, launch)
      PROVE  AccessInv'
  BY <1>6 DEF CommitEntitlement, NoAccess, Transaction, Default
<1>7. ASSUME NEW s \in Accesses, NEW S \in SUBSET Fields, NEW asked \in [S -> 0..1],
             CommitSettings(s, asked)
      PROVE  AccessInv'
  BY <1>7 DEF CommitSettings, Changed, NoAccess, Transaction, Default
<1>8. CASE UNCHANGED accessVars
  BY <1>8 DEF accessVars
<1> HIDE DEF AccessInv
<1>9. QED
  BY <1>1, <1>2, <1>3, <1>4, <1>5, <1>6, <1>7, <1>8 DEF AccessNext

LEMMA AccessHolds == AccessSpec => []AccessInv
  BY AccessInitial, AccessInductive, PTL DEF AccessSpec

(* Every variable has its type.                                             *)
THEOREM AccessTypeCorrect == AccessSpec => []AccessTypeOK
  BY AccessHolds, PTL DEF AccessInv

(* However many first accesses of an organization overlap, nobody sees a    *)
(* unique violation, at most one row is being inserted, the free use is     *)
(* given out once, and no saved change of a setting is undone.              *)
THEOREM FirstAccessesAreSafe == AccessSpec => []FirstAccessIsSafe
<1>1. AccessInv => FirstAccessIsSafe
  BY DEF AccessInv, AccessTypeOK, KnowsRow, OneAlone, Alone, Holds, Exists, UsesCounted,
         FirstAccessIsSafe
<1>2. QED
  BY <1>1, AccessHolds, PTL

-----------------------------------------------------------------------------
(* The draft of the wizard.                                                 *)
(* A payload whose sources are those of their slots.                        *)
WellSourced(p) ==
  /\ \A s \in Slots : p.source[s] \in SourcesOf(s)
  /\ ~(p.kind = "accessibility" /\ p.source["current"] = "screenshot")
Annotated(p) == \A s \in Slots : p.cta[s] \in {None, p.asset[s]}

(* What a launch past the look at its sources knows.                        *)
OwnsGenerated(p) == "new" \in Sides(p) /\ p.source["new"] = "ai_generated" => p.asset["new"] = "generated"
Testable(p) == WellSourced(p) /\ ModulesFit(p) /\ OwnsGenerated(p)

Steps == {"idle", "sources", "annotations", "create", "commit"}

DraftShape ==
  /\ draft \in [status : {"none", "draft", "launched", "deleted"}, payload : Payloads]
  /\ launching \in [Callers -> [step : Steps, payload : Payloads]]

(* The lock of the row: one launch at a time, of a draft that is still one. *)
LockedByLaunch ==
  /\ \A c, d \in Callers : launching[c].step # "idle" /\ launching[d].step # "idle" => c = d
  /\ \A c \in Callers : launching[c].step # "idle" => draft.status = "draft"

LaunchFits ==
  \A c \in Callers :
    LET p == launching[c].payload IN
    launching[c].step # "idle" =>
      /\ WellSourced(p) /\ ModulesFit(p) /\ Annotated(p)
      /\ launching[c].step # "sources" => OwnsGenerated(p)

(* The launches committed so far: none of a draft, one of a launched one.   *)
LaunchedOnce ==
  /\ draft.status \in {"none", "draft"} => launches = <<>>
  /\ draft.status = "launched" => launches = <<draft.payload>>
  /\ \/ launches = <<>> /\ told = {}
     \/ \E p \in Payloads : launches = <<p>> /\ Testable(p) /\ told \subseteq {1}

DraftInv ==
  /\ DraftShape
  /\ WellSourced(draft.payload) /\ Annotated(draft.payload)
  /\ LockedByLaunch
  /\ LaunchFits
  /\ LaunchedOnce

-----------------------------------------------------------------------------
(* A payload with other annotations.                                        *)
LEMMA OtherAnnotations ==
  ASSUME NEW p \in Payloads, NEW f \in [Slots -> Assets \cup {None}],
         NEW q, q = [p EXCEPT !.cta = f]
  PROVE  /\ q \in Payloads
         /\ q.kind = p.kind /\ q.source = p.source /\ q.asset = p.asset /\ q.cta = f
         /\ q.job = p.job /\ q.modules = p.modules
  BY DEF Payloads

LEMMA OtherStep ==
  ASSUME NEW l \in [step : Steps, payload : Payloads], NEW step
  PROVE  [l EXCEPT !.step = step] = [step |-> step, payload |-> l.payload]
  OBVIOUS

(* What a patch that merges into q does.  p: the payload so far.            *)
LEMMA PatchKeeps ==
  ASSUME DraftInv, NEW q \in Payloads, NEW slot \in Slots, NEW fields, PatchDraft(q, slot, fields),
         \A s \in Slots :
           /\ q.source[s] \in SourcesOf(s)
           /\ \/ "cta" \in fields /\ s = slot
              \/ /\ q.cta[s] = draft.payload.cta[s]
                 /\ "cta" \in fields => q.asset[s] = draft.payload.asset[s]
  PROVE  DraftInv'
<1> USE DEF DraftInv
<1> DEFINE p == draft.payload
           cta == [s \in Slots |->
                    IF "cta" \notin fields /\ p.asset[s] # q.asset[s] THEN None ELSE q.cta[s]]
           merged == [q EXCEPT !.cta = cta]
<1>1. cta \in [Slots -> Assets \cup {None}] /\ p \in Payloads
  BY DEF Payloads, DraftShape
<1>2. /\ merged \in Payloads
      /\ merged.kind = q.kind /\ merged.source = q.source /\ merged.asset = q.asset /\ merged.cta = cta
  <2>1. merged = [q EXCEPT !.cta = cta]
    OBVIOUS
  <2> HIDE DEF merged, cta
  <2>2. QED
    BY <1>1, <2>1, OtherAnnotations
<1>3. merged = Invalidated(p, q, fields)
  BY DEF Invalidated
<1>4. /\ draft.status = "draft" /\ RowIsFree /\ Acceptable(merged)
      /\ "cta" \in fields => Annotates(merged, slot)
      /\ draft' = [draft EXCEPT !.payload = merged]
      /\ UNCHANGED <<launching, launches, told>>
  BY <1>3 DEF PatchDraft
<1>5. draft' = [status |-> "draft", payload |-> merged]
  BY <1>4 DEF DraftShape
<1>6. WellSourced(merged)
  BY <1>2, <1>4 DEF WellSourced, Acceptable
<1>7. Annotated(merged)
  <2>1. ASSUME NEW s \in Slots
        PROVE  cta[s] \in {None, q.asset[s]}
    <3>1. CASE "cta" \in fields /\ s = slot
      BY <1>2, <1>4, <3>1 DEF Annotates
    <3>2. CASE /\ q.cta[s] = p.cta[s]
               /\ "cta" \in fields => q.asset[s] = p.asset[s]
      BY <3>2 DEF Annotated
    <3>3. QED
      BY <3>1, <3>2
  <2>2. QED
    BY <1>2, <2>1 DEF Annotated
<1>8. DraftShape'
  BY <1>2, <1>4, <1>5 DEF DraftShape
<1>9. LockedByLaunch' /\ LaunchFits'
  BY <1>4 DEF LockedByLaunch, LaunchFits, RowIsFree
<1>10. LaunchedOnce'
  BY <1>4, <1>5 DEF LaunchedOnce
<1>11. QED
  BY <1>5, <1>6, <1>7, <1>8, <1>9, <1>10

LEMMA PatchStep ==
  ASSUME DraftInv, Patch
  PROVE  DraftInv'
<1> USE DEF DraftInv
<1> DEFINE p == draft.payload
<1>1. p \in Payloads /\ WellSourced(p)
  BY DEF DraftShape
<1> HIDE DEF p, DraftInv
<1>2. ASSUME NEW kind \in Kinds, PatchDraft([p EXCEPT !.kind = kind], "current", {})
      PROVE  DraftInv'
  <2> DEFINE q == [p EXCEPT !.kind = kind]
  <2>1. q \in Payloads /\ q.source = p.source /\ q.cta = p.cta /\ q.asset = p.asset
    BY <1>1 DEF Payloads
  <2> HIDE DEF q
  <2>2. PatchDraft(q, "current", {})
    BY <1>2 DEF q
  <2>3. QED
    BY <1>1, <2>1, <2>2, PatchKeeps DEF p, WellSourced, Slots
<1>3. ASSUME NEW m \in SUBSET Modules, PatchDraft([p EXCEPT !.modules = m], "current", {})
      PROVE  DraftInv'
  <2> DEFINE q == [p EXCEPT !.modules = m]
  <2>1. q \in Payloads /\ q.source = p.source /\ q.cta = p.cta /\ q.asset = p.asset
    BY <1>1 DEF Payloads
  <2> HIDE DEF q
  <2>2. PatchDraft(q, "current", {})
    BY <1>3 DEF q
  <2>3. QED
    BY <1>1, <2>1, <2>2, PatchKeeps DEF p, WellSourced, Slots
<1>4. ASSUME NEW b \in BOOLEAN, PatchDraft([p EXCEPT !.job = b], "new", {})
      PROVE  DraftInv'
  <2> DEFINE q == [p EXCEPT !.job = b]
  <2>1. q \in Payloads /\ q.source = p.source /\ q.cta = p.cta /\ q.asset = p.asset
    BY <1>1 DEF Payloads
  <2> HIDE DEF q
  <2>2. PatchDraft(q, "new", {})
    BY <1>4 DEF q
  <2>3. QED
    BY <1>1, <2>1, <2>2, PatchKeeps DEF p, WellSourced, Slots
<1>5. ASSUME NEW s \in Slots, NEW source \in SourcesOf(s), PatchDraft([p EXCEPT !.source[s] = source], s, {})
      PROVE  DraftInv'
  <2> DEFINE q == [p EXCEPT !.source = [p.source EXCEPT ![s] = source]]
  <2>1. q \in Payloads /\ q.source = [p.source EXCEPT ![s] = source] /\ q.cta = p.cta /\ q.asset = p.asset
    BY <1>1 DEF Payloads, SourcesOf
  <2>2. \A t \in Slots : q.source[t] \in SourcesOf(t)
    BY <1>1, <2>1 DEF Payloads, WellSourced
  <2>3. PatchDraft(q, s, {})
    BY <1>5
  <2> HIDE DEF q
  <2>4. QED
    BY <2>1, <2>2, <2>3, PatchKeeps DEF p
<1>6. ASSUME NEW s \in Slots, NEW a \in Assets \cup {None},
             PatchDraft([p EXCEPT !.asset[s] = a], s, {"asset"})
      PROVE  DraftInv'
  <2> DEFINE q == [p EXCEPT !.asset = [p.asset EXCEPT ![s] = a]]
  <2>1. q \in Payloads /\ q.source = p.source /\ q.cta = p.cta
    BY <1>1 DEF Payloads
  <2>2. PatchDraft(q, s, {"asset"})
    BY <1>6
  <2> HIDE DEF q
  <2>3. QED
    BY <1>1, <2>1, <2>2, PatchKeeps DEF p, WellSourced
<1>7. ASSUME NEW s \in Slots, NEW a \in Assets \cup {None}, PatchDraft([p EXCEPT !.cta[s] = a], s, {"cta"})
      PROVE  DraftInv'
  <2> DEFINE q == [p EXCEPT !.cta = [p.cta EXCEPT ![s] = a]]
  <2>1. /\ q \in Payloads /\ q.source = p.source /\ q.asset = p.asset
        /\ \A t \in Slots : t # s => q.cta[t] = p.cta[t]
    BY <1>1 DEF Payloads
  <2>2. PatchDraft(q, s, {"cta"})
    BY <1>7
  <2> HIDE DEF q
  <2>3. QED
    BY <1>1, <2>1, <2>2, PatchKeeps DEF p, WellSourced
<1>8. ASSUME NEW s \in Slots, NEW a \in Assets \cup {None},
             PatchDraft([p EXCEPT !.asset[s] = a, !.cta[s] = a], s, {"asset", "cta"})
      PROVE  DraftInv'
  <2> DEFINE q == [p EXCEPT !.asset = [p.asset EXCEPT ![s] = a], !.cta = [p.cta EXCEPT ![s] = a]]
  <2>1. /\ q \in Payloads /\ q.source = p.source
        /\ \A t \in Slots : t # s => q.cta[t] = p.cta[t] /\ q.asset[t] = p.asset[t]
    BY <1>1 DEF Payloads
  <2>2. PatchDraft(q, s, {"asset", "cta"})
    BY <1>8
  <2> HIDE DEF q
  <2>3. QED
    BY <1>1, <2>1, <2>2, PatchKeeps DEF p, WellSourced
<1>9. QED
  BY <1>2, <1>3, <1>4, <1>5, <1>6, <1>7, <1>8 DEF Patch, p

-----------------------------------------------------------------------------
(* A launch that has begun moves on.  Its payload keeps all but annotations. *)
LEMMA LaunchMoves ==
  ASSUME DraftInv, NEW c \in Callers, NEW step \in Steps, NEW p \in Payloads,
         launching[c].step # "idle",
         launching' = [launching EXCEPT ![c] = [step |-> step, payload |-> p]],
         UNCHANGED <<draft, launches, told>>,
         step # "idle" => /\ WellSourced(p) /\ ModulesFit(p) /\ Annotated(p)
                          /\ step # "sources" => OwnsGenerated(p)
  PROVE  DraftInv'
<1> USE DEF DraftInv
<1>1. \A d \in Callers : launching'[d] = IF d = c THEN [step |-> step, payload |-> p] ELSE launching[d]
  BY DEF DraftShape
<1>2. DraftShape'
  BY DEF DraftShape
<1>3. LockedByLaunch'
  BY <1>1 DEF LockedByLaunch
<1>4. LaunchFits'
  BY <1>1 DEF LaunchFits
<1>5. LaunchedOnce'
  BY DEF LaunchedOnce
<1>6. QED
  BY <1>2, <1>3, <1>4, <1>5

LEMMA LaunchSteps ==
  ASSUME DraftInv, NEW c \in Callers,
         \/ BeginLaunch(c) \/ RevalidateLaunchSources(c) \/ CleanStaleAnnotations(c)
         \/ CreateRuns(c) \/ AbandonLaunch(c)
  PROVE  DraftInv'
<1> DEFINE p == launching[c].payload
<1>1. /\ launching[c] \in [step : Steps, payload : Payloads] /\ p \in Payloads
      /\ draft.payload \in Payloads /\ NewPayload \in Payloads
  BY DEF DraftInv, DraftShape, Payloads, NewPayload, Slots, Kinds
<1>2. /\ launching[c].step \in {"sources", "annotations", "create"} =>
           WellSourced(p) /\ ModulesFit(p) /\ Annotated(p)
      /\ launching[c].step \in {"annotations", "create"} => OwnsGenerated(p)
  BY DEF DraftInv, LaunchFits
<1>3. ASSUME NEW step, LaunchGoes(c, step)
      PROVE  launching' = [launching EXCEPT ![c] = [step |-> step, payload |-> p]]
  BY <1>1, <1>3, OtherStep DEF LaunchGoes
<1>4. CASE BeginLaunch(c)
  <2>1. /\ RowIsFree /\ draft.status = "draft" /\ ModulesFit(draft.payload)
        /\ launching' = [launching EXCEPT ![c] = [step |-> "sources", payload |-> draft.payload]]
        /\ UNCHANGED <<draft, launches, told>>
    BY <1>4 DEF BeginLaunch
  <2>2. \A d \in Callers :
          launching'[d] = IF d = c THEN [step |-> "sources", payload |-> draft.payload]
                          ELSE launching[d]
    BY <2>1 DEF DraftInv, DraftShape
  <2>3. DraftShape'
    BY <1>1, <2>1 DEF DraftInv, DraftShape, Steps
  <2>4. LockedByLaunch'
    BY <2>1, <2>2 DEF DraftInv, LockedByLaunch, RowIsFree
  <2>5. LaunchFits'
    BY <2>1, <2>2 DEF DraftInv, LaunchFits, RowIsFree
  <2>6. QED
    BY <2>1, <2>3, <2>4, <2>5 DEF DraftInv, LaunchedOnce
<1>5. CASE RevalidateLaunchSources(c)
  <2>1. launching[c].step = "sources" /\ LaunchGoes(c, "annotations") /\ UNCHANGED <<draft, launches, told>>
    BY <1>5 DEF RevalidateLaunchSources
  <2>2. launching' = [launching EXCEPT ![c] = [step |-> "annotations", payload |-> p]]
    BY <1>3, <2>1
  <2>3. OwnsGenerated(p)
    BY <1>5 DEF RevalidateLaunchSources, OwnsGenerated, GenerationOwns
  <2>4. WellSourced(p) /\ ModulesFit(p) /\ Annotated(p)
    BY <1>2, <2>1
  <2>5. QED
    BY <1>1, <2>1, <2>2, <2>3, <2>4, LaunchMoves DEF Steps
<1>6. CASE CleanStaleAnnotations(c)
  <2> DEFINE cta == [s \in Slots |-> IF Usable(p.cta[s]) THEN p.cta[s] ELSE None]
             q == [p EXCEPT !.cta = cta]
  <2>1. cta \in [Slots -> Assets \cup {None}]
    BY DEF Usable
  <2>2. /\ q \in Payloads
        /\ q.kind = p.kind /\ q.source = p.source /\ q.asset = p.asset /\ q.cta = cta /\ q.modules = p.modules
    <3>1. p \in Payloads /\ q = [p EXCEPT !.cta = cta]
      BY <1>1
    <3> HIDE DEF cta, q
    <3>2. QED
      BY <2>1, <3>1, OtherAnnotations
  <2>3. [launching[c] EXCEPT !.step = "create", !.payload.cta = cta] = [step |-> "create", payload |-> q]
    <3>1. ASSUME NEW l \in [step : Steps, payload : Payloads]
          PROVE  [l EXCEPT !.step = "create", !.payload.cta = cta] =
                   [step |-> "create", payload |-> [l.payload EXCEPT !.cta = cta]]
      <4> HIDE DEF cta
      <4>1. [l EXCEPT !.step = "create"] = [step |-> "create", payload |-> l.payload]
        OBVIOUS
      <4>2. [l EXCEPT !.step = "create", !.payload.cta = cta]
              = [[l EXCEPT !.step = "create"] EXCEPT !.payload = [@ EXCEPT !.cta = cta]]
        OBVIOUS
      <4>3. [[step |-> "create", payload |-> l.payload] EXCEPT !.payload = [@ EXCEPT !.cta = cta]]
              = [step |-> "create", payload |-> [l.payload EXCEPT !.cta = cta]]
        OBVIOUS
      <4>4. QED
        BY <4>1, <4>2, <4>3
    <3>2. QED
      BY <1>1, <3>1
  <2>4. /\ launching[c].step = "annotations"
        /\ launching' = [launching EXCEPT ![c] = [step |-> "create", payload |-> q]]
        /\ UNCHANGED <<draft, launches, told>>
    <3>1. /\ launching[c].step = "annotations"
          /\ launching' = [launching EXCEPT
               ![c] = [launching[c] EXCEPT !.step = "create", !.payload.cta = cta]]
          /\ UNCHANGED <<draft, launches, told>>
      BY <1>6 DEF CleanStaleAnnotations
    <3>2. QED
      BY <2>3, <3>1
  <2>5. WellSourced(p) /\ ModulesFit(p) /\ Annotated(p) /\ OwnsGenerated(p)
    BY <1>2, <2>4
  <2>6. WellSourced(q) /\ ModulesFit(q) /\ OwnsGenerated(q)
    BY <2>2, <2>5 DEF WellSourced, ModulesFit, OwnsGenerated, Sides
  <2>7. Annotated(q)
    BY <2>2, <2>5 DEF Annotated
  <2>8. QED
    BY <2>2, <2>4, <2>6, <2>7, LaunchMoves DEF Steps
<1>7. CASE CreateRuns(c)
  <2>1. launching[c].step = "create" /\ LaunchGoes(c, "commit") /\ UNCHANGED <<draft, launches, told>>
    BY <1>7 DEF CreateRuns
  <2>2. launching' = [launching EXCEPT ![c] = [step |-> "commit", payload |-> p]]
    BY <1>3, <2>1
  <2>3. WellSourced(p) /\ ModulesFit(p) /\ Annotated(p) /\ OwnsGenerated(p)
    BY <1>2, <2>1
  <2>4. QED
    BY <1>1, <2>1, <2>2, <2>3, LaunchMoves DEF Steps
<1>8. CASE AbandonLaunch(c)
  BY <1>1, <1>8, LaunchMoves DEF AbandonLaunch, NoLaunch, Steps
<1>9. QED
  BY <1>4, <1>5, <1>6, <1>7, <1>8

LEMMA LaunchCommits ==
  ASSUME DraftInv, NEW c \in Callers, NEW answered \in BOOLEAN, CommitLaunch(c, answered)
  PROVE  DraftInv'
<1> USE DEF DraftInv
<1> DEFINE p == launching[c].payload
<1>1. /\ launching[c].step = "commit" /\ p \in Payloads /\ NoLaunch \in [step : Steps, payload : Payloads]
      /\ draft' = [status |-> "launched", payload |-> p]
      /\ launching' = [launching EXCEPT ![c] = NoLaunch]
  BY DEF CommitLaunch, DraftShape, NoLaunch, NewPayload, Payloads, Slots, Kinds, Steps
<1>2. WellSourced(p) /\ ModulesFit(p) /\ Annotated(p) /\ OwnsGenerated(p)
  BY <1>1 DEF LaunchFits
<1>3. draft.status = "draft" /\ launches = <<>> /\ told = {}
  BY <1>1 DEF LockedByLaunch, LaunchedOnce
<1>4. launches' = <<p>>
  BY <1>3 DEF CommitLaunch
<1>5. told' \subseteq {1}
  BY <1>3, <1>4 DEF CommitLaunch
<1>6. \A d \in Callers : launching'[d].step = "idle"
  BY <1>1 DEF LockedByLaunch, DraftShape, NoLaunch
<1>7. DraftShape'
  BY <1>1 DEF DraftShape
<1>8. LaunchedOnce'
  BY <1>1, <1>2, <1>4, <1>5 DEF LaunchedOnce, Testable
<1>9. QED
  BY <1>1, <1>2, <1>6, <1>7, <1>8 DEF LockedByLaunch, LaunchFits

LEMMA DraftStep == DraftInv /\ [WizardNext]_wizardVars => DraftInv'
<1> SUFFICES ASSUME DraftInv, [WizardNext]_wizardVars
             PROVE  DraftInv'
  OBVIOUS
<1>1. CASE UNCHANGED <<draft, launching, launches, told>>
  BY <1>1 DEF DraftInv, DraftShape, LockedByLaunch, LaunchFits, LaunchedOnce
<1>2. ASSUME NEW end \in {"draft", "deleted"}, draft' = [draft EXCEPT !.status = end],
             end = "draft" => draft.status = "none",
             end = "deleted" => RowIsFree,
             UNCHANGED <<launching, launches, told>>
      PROVE  DraftInv'
  <2>1. draft' = [status |-> end, payload |-> draft.payload]
    BY <1>2 DEF DraftInv, DraftShape
  <2>2. DraftShape'
    BY <1>2, <2>1 DEF DraftInv, DraftShape
  <2>3. LockedByLaunch' /\ LaunchFits'
    BY <1>2, <2>1 DEF DraftInv, LockedByLaunch, LaunchFits, RowIsFree
  <2>4. LaunchedOnce'
    BY <1>2, <2>1 DEF DraftInv, LaunchedOnce
  <2>5. QED
    BY <2>1, <2>2, <2>3, <2>4 DEF DraftInv
<1>3. CASE CreateDraft
  BY <1>2, <1>3 DEF CreateDraft
<1>4. CASE DeleteDraft
  BY <1>2, <1>4 DEF DeleteDraft
<1>5. CASE DeleteProjectCommits
  BY <1>1, <1>2, <1>5 DEF DeleteProjectCommits
<1>6. CASE LaunchAgain
  <2>1. launches = <<draft.payload>> /\ launches # <<>>
    BY <1>6 DEF LaunchAgain, DraftInv, LaunchedOnce
  <2>2. QED
    BY <1>6, <2>1 DEF LaunchAgain, DraftInv, DraftShape, LockedByLaunch, LaunchFits, LaunchedOnce
<1>7. CASE \/ Upload \/ DeleteJob \/ (\E succeeds \in BOOLEAN : GenerationEnds(succeeds))
           \/ (\E a \in Assets : AssetGoes(a))
           \/ CompleteReport \/ DeleteProjectReads \/ DeleteProjectFails
  BY <1>1, <1>7 DEF Upload, DeleteJob, GenerationEnds, AssetGoes, CompleteReport, DeleteProjectReads,
     DeleteProjectFails
<1>8. CASE UNCHANGED wizardVars
  BY <1>1, <1>8 DEF wizardVars
<1>9. QED
  BY <1>3, <1>4, <1>5, <1>6, <1>7, <1>8, PatchStep, LaunchSteps, LaunchCommits DEF WizardNext

LEMMA DraftInitial == WizardInit => DraftInv
<1> SUFFICES ASSUME WizardInit
             PROVE  DraftInv
  OBVIOUS
<1>1. NewPayload \in Payloads /\ WellSourced(NewPayload) /\ Annotated(NewPayload)
  BY DEF NewPayload, Payloads, WellSourced, Annotated, Slots, Kinds, SourcesOf
<1>2. /\ draft = [status |-> "none", payload |-> NewPayload]
      /\ launching = [c \in Callers |-> [step |-> "idle", payload |-> NewPayload]]
      /\ launches = <<>> /\ told = {}
  BY DEF WizardInit, NoLaunch
<1>3. DraftShape
  BY <1>1, <1>2 DEF DraftShape, Steps
<1>4. LockedByLaunch /\ LaunchFits
  BY <1>2 DEF LockedByLaunch, LaunchFits
<1>5. LaunchedOnce
  BY <1>2 DEF LaunchedOnce
<1>6. QED
  BY <1>1, <1>2, <1>3, <1>4, <1>5 DEF DraftInv

LEMMA DraftSound == DraftInv => DraftIsSound
<1> SUFFICES ASSUME DraftInv
             PROVE  DraftIsSound
  OBVIOUS
<1>1. LaunchesOnce
  <2>1. CASE launches = <<>> /\ told = {}
    BY <2>1 DEF DraftInv, LaunchedOnce, LaunchesOnce
  <2>2. ASSUME NEW p \in Payloads, launches = <<p>>, told \subseteq {1}
        PROVE  LaunchesOnce
    <3>1. Len(launches) = 1 /\ 1..1 = {1} /\ launches # <<>>
      BY <2>2
    <3>2. draft.status \in {"launched", "deleted"}
      BY <3>1 DEF DraftInv, DraftShape, LaunchedOnce
    <3>3. draft.status = "launched" => launches = <<draft.payload>>
      BY DEF DraftInv, LaunchedOnce
    <3>4. QED
      BY <2>2, <3>1, <3>2, <3>3 DEF LaunchesOnce
  <2>3. QED
    BY <2>1, <2>2 DEF DraftInv, LaunchedOnce
<1>2. AnnotationsMatch
  BY DEF DraftInv, Annotated, AnnotationsMatch
<1>3. LaunchedIsTestable
  <2>1. ASSUME NEW i \in DOMAIN launches
        PROVE  Testable(launches[i])
    BY <2>1 DEF DraftInv, LaunchedOnce
  <2>2. ASSUME NEW p, Testable(p)
        PROVE  /\ \A s \in Sides(p) :
                    /\ p.source[s] = "ai_generated" => p.asset[s] = "generated"
                    /\ "network_device_test" \in p.modules => p.source[s] = "url"
               /\ p.kind = "accessibility" => p.source["current"] = "url"
    BY <2>2 DEF Testable, WellSourced, ModulesFit, OwnsGenerated, Sides, Slots, SourcesOf
  <2>3. QED
    BY <2>1, <2>2 DEF LaunchedIsTestable
<1>4. QED
  BY <1>1, <1>2, <1>3 DEF DraftIsSound

(* DraftIsSound: whatever patches, uploads, deletions and launches overlap, *)
(* a draft is launched once, with annotations that lie on its designs and   *)
(* sources that fit the test.                                               *)
THEOREM DraftsAreSound == WizardSpec => []DraftIsSound
  BY DraftInitial, DraftStep, DraftSound, PTL DEF WizardSpec

(* The designs, the generation and the project around the draft.            *)
AroundDraft ==
  /\ asset \in [Assets -> {"absent", "usable", "gone"}]
  /\ generation \in {"running", "succeeded", "failed", "deleted"}
  /\ reported \in BOOLEAN
  /\ removal \in {"idle", "drafts", "project", "removed"}

LEMMA AroundDraftInitial == WizardInit => AroundDraft
  BY DEF WizardInit, AroundDraft

LEMMA AroundDraftStep == AroundDraft /\ [WizardNext]_wizardVars => AroundDraft'
<1> SUFFICES ASSUME AroundDraft, [WizardNext]_wizardVars
             PROVE  AroundDraft'
  OBVIOUS
<1>1. CASE UNCHANGED <<asset, generation, projectVars>>
  BY <1>1 DEF AroundDraft, projectVars
<1>2. CASE \/ Upload \/ DeleteJob \/ (\E succeeds \in BOOLEAN : GenerationEnds(succeeds))
           \/ (\E a \in Assets : AssetGoes(a))
  BY <1>2 DEF AroundDraft, projectVars, Upload, DeleteJob, GenerationEnds, AssetGoes
<1>3. CASE CompleteReport \/ DeleteProjectReads \/ DeleteProjectCommits \/ DeleteProjectFails
  BY <1>3 DEF AroundDraft, CompleteReport, DeleteProjectReads, DeleteProjectCommits,
              DeleteProjectFails
<1>4. CASE CreateDraft \/ DeleteDraft \/ Patch \/ LaunchAgain
  BY <1>1, <1>4 DEF CreateDraft, DeleteDraft, Patch, PatchDraft, LaunchAgain
<1>5. ASSUME NEW c \in Callers,
             \/ BeginLaunch(c) \/ RevalidateLaunchSources(c) \/ CleanStaleAnnotations(c)
             \/ CreateRuns(c) \/ AbandonLaunch(c)
             \/ \E answered \in BOOLEAN : CommitLaunch(c, answered)
      PROVE  AroundDraft'
  BY <1>1, <1>5 DEF BeginLaunch, RevalidateLaunchSources, CleanStaleAnnotations, CreateRuns,
                    AbandonLaunch, CommitLaunch
<1>6. CASE UNCHANGED wizardVars
  BY <1>1, <1>6 DEF wizardVars
<1>7. QED
  BY <1>2, <1>3, <1>4, <1>5, <1>6 DEF WizardNext

LEMMA DraftTypes == DraftInv /\ AroundDraft => WizardTypeOK
  BY DEF DraftInv, DraftShape, Steps, AroundDraft, WizardTypeOK

-----------------------------------------------------------------------------
(* The top-ups, for every set of requests and of reviewers.                 *)
Reviews == {TopUp!NoReview} \cup
  [step : {"waits", "decides", "commits"}, request : TopUpRequests, decision : TopUp!Decisions]

ReviewTypeOK == TopUp!TopUpTypeOK /\ review \in [Reviewers -> Reviews]

(* A review that has decided holds the row of its request, alone, and the   *)
(* request is still pending; and what was told of any request is what it is.*)
Deciding(v, q) ==
  review[v].step \in {"decides", "commits"} /\ review[v].request = q
ReviewInv ==
  /\ TopUp!OneDecision
  /\ \A v \in Reviewers, q \in TopUpRequests : Deciding(v, q) =>
       /\ topup[q] = "pending"
       /\ \A w \in Reviewers \ {v} : ~Deciding(w, q)

LEMMA ReviewTypeInductive ==
  ASSUME ReviewTypeOK, TopUp!TopUpNext
  PROVE  ReviewTypeOK'
<1> USE DEF ReviewTypeOK, TopUp!TopUpTypeOK, Reviews, TopUp!Decisions, TopUp!NoReview, TopUp!Calls, TopUp!Goes, TopUp!Ends
<1>1. ASSUME NEW q \in TopUpRequests, TopUp!CreateTopUpRequest(q)
      PROVE  ReviewTypeOK'
  BY <1>1 DEF TopUp!CreateTopUpRequest
<1>2. ASSUME NEW v \in Reviewers, NEW q \in TopUpRequests, NEW d \in TopUp!Decisions,
             TopUp!ReviewTopUpRequest(v, q, d)
      PROVE  ReviewTypeOK'
  BY <1>2 DEF TopUp!ReviewTopUpRequest
<1>3. ASSUME NEW v \in Reviewers, TopUp!LockTopUpRequest(v)
      PROVE  ReviewTypeOK'
  <2> PICK q \in TopUp!Calls(v) :
        /\ review[v].step = "waits"
        /\ IF topup[q] = "pending"
           THEN TopUp!Goes(v, "decides") /\ UNCHANGED topUpTold
           ELSE /\ TopUp!Ends(v)
                /\ topUpTold' = [topUpTold EXCEPT ![q] = @ \cup ({review[v].decision} \cap {topup[q]})]
        /\ UNCHANGED <<topup, topUpCredited>>
    BY <1>3 DEF TopUp!LockTopUpRequest
  <2>1. CASE topup[q] = "pending"
    BY <2>1
  <2>2. CASE topup[q] # "pending"
    BY <2>2
  <2>3. QED
    BY <2>1, <2>2
<1>4. ASSUME NEW v \in Reviewers, TopUp!CreditTopUp(v)
      PROVE  ReviewTypeOK'
  BY <1>4 DEF TopUp!CreditTopUp
<1>5. ASSUME NEW v \in Reviewers, NEW answered \in BOOLEAN, TopUp!CommitReview(v, answered)
      PROVE  ReviewTypeOK'
  <2> PICK q \in TopUp!Calls(v) :
        /\ review[v].step = "commits"
        /\ topup' = [topup EXCEPT ![q] = review[v].decision]
        /\ topUpCredited' = IF review[v].decision = "approved" THEN topUpCredited \cup {q} ELSE topUpCredited
        /\ topUpTold' = IF answered THEN [topUpTold EXCEPT ![q] = @ \cup {review[v].decision}] ELSE topUpTold
        /\ TopUp!Ends(v)
    BY <1>5 DEF TopUp!CommitReview
  <2>1. review[v].decision \in TopUp!Decisions
    OBVIOUS
  <2>2. QED
    BY <2>1
<1>6. ASSUME NEW v \in Reviewers, TopUp!AbandonReview(v)
      PROVE  ReviewTypeOK'
  BY <1>6 DEF TopUp!AbandonReview
<1>7. QED
  BY <1>1, <1>2, <1>3, <1>4, <1>5, <1>6 DEF TopUp!TopUpNext

LEMMA ReviewInitial == TopUp!TopUpInit => ReviewTypeOK /\ ReviewInv
  BY DEF TopUp!TopUpInit, ReviewTypeOK, TopUp!TopUpTypeOK, Reviews, TopUp!NoReview,
         ReviewInv, TopUp!OneDecision, Deciding

LEMMA ReviewStutters ==
  ASSUME ReviewTypeOK, ReviewInv, UNCHANGED TopUp!topUpVars
  PROVE  (ReviewTypeOK /\ ReviewInv)'
BY DEF TopUp!topUpVars, ReviewTypeOK, TopUp!TopUpTypeOK, ReviewInv, TopUp!OneDecision, Deciding

(* Every reachable state of the top-up requests and their reviews is well   *)
(* typed.                                                                   *)
THEOREM TopUpTypeCorrect == TopUp!TopUpSpec => []ReviewTypeOK
<1>1. TopUp!TopUpInit => ReviewTypeOK
  BY DEF TopUp!TopUpInit, ReviewTypeOK, TopUp!TopUpTypeOK, Reviews, TopUp!NoReview
<1>2. ReviewTypeOK /\ [TopUp!TopUpNext]_TopUp!topUpVars => ReviewTypeOK'
  <2> SUFFICES ASSUME ReviewTypeOK, [TopUp!TopUpNext]_TopUp!topUpVars
               PROVE  ReviewTypeOK'
    OBVIOUS
  <2>1. CASE TopUp!TopUpNext
    BY <2>1, ReviewTypeInductive
  <2>2. CASE UNCHANGED TopUp!topUpVars
    BY <2>2 DEF TopUp!topUpVars, ReviewTypeOK, TopUp!TopUpTypeOK
  <2>3. QED
    BY <2>1, <2>2
<1>3. QED
  BY <1>1, <1>2, PTL DEF TopUp!TopUpSpec

LEMMA ReviewInvInductive ==
  ASSUME ReviewTypeOK, ReviewInv, TopUp!TopUpNext
  PROVE  ReviewInv'
<1> USE DEF ReviewTypeOK, TopUp!TopUpTypeOK, Reviews, TopUp!Decisions, TopUp!NoReview
<1> USE DEF ReviewInv, TopUp!OneDecision, Deciding, TopUp!Calls, TopUp!Goes, TopUp!Ends
<1>1. ASSUME NEW q \in TopUpRequests, TopUp!CreateTopUpRequest(q)
      PROVE  ReviewInv'
  BY <1>1 DEF TopUp!CreateTopUpRequest
<1>2. ASSUME NEW v \in Reviewers, NEW q \in TopUpRequests, NEW d \in TopUp!Decisions,
             TopUp!ReviewTopUpRequest(v, q, d)
      PROVE  ReviewInv'
  BY <1>2 DEF TopUp!ReviewTopUpRequest
<1>3. ASSUME NEW v \in Reviewers, TopUp!LockTopUpRequest(v)
      PROVE  ReviewInv'
  BY <1>3 DEF TopUp!LockTopUpRequest, TopUp!RowIsFree, TopUp!Locks
<1>4. ASSUME NEW v \in Reviewers, TopUp!CreditTopUp(v)
      PROVE  ReviewInv'
  BY <1>4 DEF TopUp!CreditTopUp
<1>5. ASSUME NEW v \in Reviewers, NEW answered \in BOOLEAN, TopUp!CommitReview(v, answered)
      PROVE  ReviewInv'
  BY <1>5 DEF TopUp!CommitReview
<1>6. ASSUME NEW v \in Reviewers, TopUp!AbandonReview(v)
      PROVE  ReviewInv'
  BY <1>6 DEF TopUp!AbandonReview
<1>7. QED
  BY <1>1, <1>2, <1>3, <1>4, <1>5, <1>6 DEF TopUp!TopUpNext

(* However many administrators review a request, and however often: its     *)
(* chips are credited if and only if it ends approved, and whoever was told *)
(* that a decision stands was told the one that does (admin.py's review     *)
(* under the row lock).                                                     *)
THEOREM TopUpsDecidedOnce == TopUp!TopUpSpec => []TopUp!OneDecision
<1>1. TopUp!TopUpInit => ReviewInv
  BY DEF TopUp!TopUpInit, ReviewInv, TopUp!OneDecision, Deciding, TopUp!NoReview
<1>2. ReviewTypeOK /\ ReviewInv /\ [TopUp!TopUpNext]_TopUp!topUpVars => ReviewInv'
  <2> SUFFICES ASSUME ReviewTypeOK, ReviewInv, [TopUp!TopUpNext]_TopUp!topUpVars
               PROVE  ReviewInv'
    OBVIOUS
  <2>1. CASE TopUp!TopUpNext
    BY <2>1, ReviewInvInductive
  <2>2. CASE UNCHANGED TopUp!topUpVars
    BY <2>2 DEF TopUp!topUpVars, ReviewInv, TopUp!OneDecision, Deciding
  <2>3. QED
    BY <2>1, <2>2
<1>3. ReviewInv => TopUp!OneDecision
  BY DEF ReviewInv
<1>4. QED
  BY <1>1, <1>2, <1>3, TopUpTypeCorrect, PTL DEF TopUp!TopUpSpec

-----------------------------------------------------------------------------
(* The prices, for every price list and every set of requests.              *)

(* The total of three parts, and the cost of modules, are sums.             *)
LEMMA TotalOfParts ==
  ASSUME NEW parts, \A p \in Prices!Purposes : parts[p] \in Int
  PROVE  Prices!Total(parts) =
           parts["baseline"] + parts["ai_report"] + parts["ai_interaction_heatmap"]
<1>1. Prices!Total(parts) = Sum(parts, Prices!Purposes)
  BY DEF Prices!Total, Prices!MapThenSumSet, Prices!MapThenFoldSet,
         Sum, FoldFunctionOnSet, MapThenFoldSet
<1> DEFINE A == {"ai_interaction_heatmap"}
           B == A \cup {"ai_report"}
           C == B \cup {"baseline"}
<1>2. Prices!Purposes = C
  BY DEF Prices!Purposes, Prices!Addons
<1>3. IsFiniteSet({}) /\ IsFiniteSet(A) /\ IsFiniteSet(B)
  BY FS_EmptySet, FS_AddElement, {} \cup {"ai_interaction_heatmap"} = A
<1>4. parts["baseline"] \in Int /\ parts["ai_report"] \in Int
      /\ parts["ai_interaction_heatmap"] \in Int
  BY <1>2
<1>5. Sum(parts, A) = parts["ai_interaction_heatmap"]
  <2>1. Sum(parts, {} \cup {"ai_interaction_heatmap"}) = parts["ai_interaction_heatmap"] + Sum(parts, {})
    BY <1>3, <1>4, SumAdd
  <2>2. QED
    BY <2>1, <1>4, SumEmpty, {} \cup {"ai_interaction_heatmap"} = A
<1>6. Sum(parts, B) = parts["ai_report"] + parts["ai_interaction_heatmap"]
  <2>1. "ai_report" \notin A /\ \A x \in A \cup {"ai_report"} : parts[x] \in Int
    BY <1>4
  <2>2. Sum(parts, B) = parts["ai_report"] + Sum(parts, A)
    <3> HIDE DEF A
    <3> QED BY <1>3, <2>1, SumAdd
  <2>3. QED
    BY <2>2, <1>5
<1>7. Sum(parts, C) = parts["baseline"] + Sum(parts, B)
  <2>1. "baseline" \notin B /\ \A x \in B \cup {"baseline"} : parts[x] \in Int
    BY <1>4
  <2>2. QED
    <3> HIDE DEF B
    <3> QED BY <1>3, <2>1, SumAdd
<1>8. QED
  BY <1>1, <1>2, <1>4, <1>6, <1>7

LEMMA ModuleCostIs ==
  ASSUME NEW modules
  PROVE  Prices!ModuleCost(modules) = Sum(Config.modules, modules)
BY DEF Prices!ModuleCost, Prices!MapThenSumSet, Prices!MapThenFoldSet,
       Sum, FoldFunctionOnSet, MapThenFoldSet

(* What a launch pays: the test, unless it is free, and its modules.        *)
Parts(request, free) ==
  [p \in Prices!Purposes |->
     IF p = "baseline" THEN Prices!RequiredChips(request, free)
                       ELSE Prices!ModuleCost(request.modules \intersect {p})]
Base(request, free) == IF free THEN 0 ELSE Prices!TestCost(request, FALSE)

LEMMA BaseIsNat ==
  ASSUME NEW r \in Requests, NEW free \in BOOLEAN
  PROVE  /\ Prices!TestCost(r, free) = Base(r, free)
         /\ Base(r, free) \in Nat
<1>1. r.type \in Prices!Types /\ r.personas \in Nat
  BY PricingAssumption
<1>2. r.personas * Config.perPersona \in Nat /\ Config.precheck \in Nat
  BY <1>1, PricingAssumption
<1>3. QED
  BY <1>1, <1>2 DEF Base, Prices!TestCost, Prices!Types

LEMMA ModuleCostIsNat ==
  ASSUME NEW r \in Requests, NEW M \in SUBSET r.modules
  PROVE  IsFiniteSet(M) /\ Prices!ModuleCost(M) \in Nat
<1>1. IsFiniteSet(M) /\ \A m \in M : Config.modules[m] \in Nat
  BY PricingAssumption, FS_Subset
<1>2. QED
  BY <1>1, ModuleCostIs, SumNat

LEMMA PricePartsAddUp ==
  ASSUME NEW r \in Requests, NEW free \in BOOLEAN
  PROVE  /\ Parts(r, free) \in [Prices!Purposes -> Nat]
         /\ Prices!Total(Parts(r, free)) = Base(r, free) + Prices!ModuleCost(r.modules)
<1> DEFINE M == r.modules
           X == M \intersect {"ai_report"}
           Y == M \intersect {"ai_interaction_heatmap"}
           Z == M \ Prices!Addons
           Price(N) == Prices!ModuleCost(N)
<1>1. /\ IsFiniteSet(X) /\ IsFiniteSet(Y) /\ IsFiniteSet(Z)
      /\ Price(X) \in Nat /\ Price(Y) \in Nat /\ Price(Z) \in Nat
  BY ModuleCostIsNat
<1>2. Base(r, free) \in Nat
  BY BaseIsNat
<1>3. /\ Parts(r, free)["baseline"] = Base(r, free) + Price(Z)
      /\ Parts(r, free)["ai_report"] = Price(X)
      /\ Parts(r, free)["ai_interaction_heatmap"] = Price(Y)
  BY BaseIsNat DEF Parts, Prices!RequiredChips, Prices!Purposes, Prices!Addons
<1>4. Parts(r, free) \in [Prices!Purposes -> Nat]
  <2>1. \A p \in Prices!Purposes : p \in {"baseline", "ai_report", "ai_interaction_heatmap"}
    BY DEF Prices!Purposes, Prices!Addons
  <2>2. \A p \in Prices!Purposes : Parts(r, free)[p] \in Nat
    BY <1>1, <1>2, <1>3, <2>1
  <2>3. QED
    BY <2>2 DEF Parts
<1>5. Price(M) = Price(X) + Price(Y) + Price(Z)
  <2>1. \A m \in M : Config.modules[m] \in Int
    BY PricingAssumption
  <2>2. X \cap (Y \cup Z) = {} /\ Y \cap Z = {} /\ IsFiniteSet(Y \cup Z)
        /\ X \cup (Y \cup Z) = M
    BY <1>1, FS_Union DEF Prices!Addons
  <2>3. Sum(Config.modules, Y \cup Z) = Sum(Config.modules, Y) + Sum(Config.modules, Z)
    <3>1. \A m \in Y \cup Z : Config.modules[m] \in Int
      BY <2>1
    <3> HIDE DEF Y, Z
    <3>2. QED
      BY <1>1, <2>2, <3>1, SumUnion
  <2>4. Sum(Config.modules, X \cup (Y \cup Z)) = Sum(Config.modules, X) + Sum(Config.modules, Y \cup Z)
    <3>1. \A m \in X \cup (Y \cup Z) : Config.modules[m] \in Int
      BY <2>1
    <3> HIDE DEF X, Y, Z
    <3>2. QED
      BY <1>1, <2>2, <3>1, SumUnion
  <2>5. QED
    <3>1. /\ Price(X) = Sum(Config.modules, X) /\ Price(Y) = Sum(Config.modules, Y)
          /\ Price(Z) = Sum(Config.modules, Z) /\ Price(M) = Sum(Config.modules, M)
      BY ModuleCostIs
    <3>2. Sum(Config.modules, M) = Price(X) + (Price(Y) + Price(Z))
      BY <3>1, <2>2, <2>3, <2>4
    <3> HIDE DEF X, Y, Z, M, Price
    <3>3. QED
      BY <1>1, <3>1, <3>2
<1>6. Prices!Total(Parts(r, free)) = Base(r, free) + Price(Z) + Price(X) + Price(Y)
  <2>1. \A p \in Prices!Purposes : Parts(r, free)[p] \in Int
    BY <1>4
  <2> HIDE DEF X, Y, Z, Price
  <2>2. QED
    BY <1>3, <2>1, TotalOfParts
<1>7. QED
  <2> HIDE DEF X, Y, Z, Price
  <2>1. Base(r, free) + Price(Z) + Price(X) + Price(Y) = Base(r, free) + Price(M)
    BY <1>1, <1>2, <1>5
  <2>2. QED
    BY <1>4, <1>6, <2>1 DEF Price

(* What an order has at each of its steps.                                  *)
Priced == [Prices!Purposes -> Nat]
OrderRows ==
  [step : Prices!Steps, request : Requests, quote : [free : BOOLEAN, parts : Priced],
   held : Priced, spent : Priced]
FreeUses == [status : {"available", "reserved", "consumed"}, run : SUBSET Orders]
PricesTypeOK ==
  /\ order \in [Orders -> OrderRows]
  /\ freeUse \in [Prices!Types -> FreeUses]
  /\ chips \in Nat

Agreed(o) ==
  /\ o.quote.parts = Parts(o.request, o.quote.free)
  /\ o.quote.free /\ o.request.type = "basic_ux_test" => o.request.personas <= FreePersonas
OrderFits(o) ==
  /\ o.step \in {"new", "draft", "quoted", "failed"} => o.held = Prices!NothingHeld
  /\ o.step \in {"new", "draft", "quoted", "running", "failed"} => o.spent = Prices!NothingHeld
  /\ o.step \in {"quoted", "running", "succeeded"} => Agreed(o)
  /\ o.step = "running" => o.held = o.quote.parts
  /\ o.step = "succeeded" =>
       /\ o.held = [o.quote.parts EXCEPT !["baseline"] = 0]
       /\ o.spent = [Prices!NothingHeld EXCEPT !["baseline"] = o.quote.parts["baseline"]]

(* A quote that is not committed yet holds the row of its free use, and the *)
(* free use it was promised is still there.                                 *)
QuotesStand ==
  \A d \in Orders : order[d].step = "quoted" =>
    /\ \A e \in Orders \ {d} :
         order[e].step = "quoted" => order[e].request.type # order[d].request.type
    /\ order[d].quote.free => freeUse[order[d].request.type].status = "available"

Takers(t) == {d \in Orders : Prices!Taken(d) /\ order[d].quote.free /\ order[d].request.type = t}
FreeUsed(t) ==
  /\ freeUse[t].run = Takers(t)
  /\ freeUse[t].status = "available" <=> Takers(t) = {}
  /\ freeUse[t].status = "consumed" <=> \E d \in Takers(t) : order[d].step = "succeeded"
  /\ \A d, e \in Takers(t) : d = e

Bound(o) == Prices!Total(o.held) + Prices!Total(o.spent)
BoundChips == Sum([d \in Orders |-> Bound(order[d])], Orders)

PriceInv ==
  /\ PricesTypeOK
  /\ \A d \in Orders : OrderFits(order[d])
  /\ QuotesStand
  /\ \A t \in Prices!Types : FreeUsed(t)
  /\ chips + BoundChips = Funds

LEMMA NothingIsPriced ==
  /\ Prices!NothingHeld \in Priced
  /\ Prices!Total(Prices!NothingHeld) = 0
<1>1. Prices!NothingHeld \in Priced
  BY DEF Prices!NothingHeld, Priced
<1>2. \A q \in Prices!Purposes : Prices!NothingHeld[q] = 0
  BY DEF Prices!NothingHeld
<1>3. QED
  BY <1>1, <1>2, TotalOfParts DEF Prices!Purposes, Prices!Addons

LEMMA TotalIsNat ==
  ASSUME NEW parts \in Priced
  PROVE  /\ Prices!Total(parts) \in Nat
         /\ Prices!Total(parts) =
              parts["baseline"] + parts["ai_report"] + parts["ai_interaction_heatmap"]
<1>1. /\ parts["baseline"] \in Nat /\ parts["ai_report"] \in Nat
      /\ parts["ai_interaction_heatmap"] \in Nat
  BY DEF Priced, Prices!Purposes, Prices!Addons
<1>2. \A p \in Prices!Purposes : parts[p] \in Int
  BY DEF Priced
<1>3. QED
  BY <1>1, <1>2, TotalOfParts

LEMMA BoundIsNat ==
  ASSUME NEW o \in OrderRows
  PROVE  Bound(o) \in Nat
<1>1. o.held \in Priced /\ o.spent \in Priced
  BY DEF OrderRows
<1>2. QED
  BY <1>1, TotalIsNat DEF Bound

LEMMA BoundOfFitting ==
  ASSUME NEW o \in OrderRows, OrderFits(o)
  PROVE  /\ o.step \in {"new", "draft", "quoted", "failed"} => Bound(o) = 0
         /\ o.step = "running" => Bound(o) = Prices!Total(o.quote.parts)
         /\ o.step = "succeeded" => Bound(o) = Prices!Total(o.quote.parts)
<1>1. o.quote.parts \in Priced
  BY DEF OrderRows
<1>2. CASE o.step \in {"new", "draft", "quoted", "failed"}
  BY <1>2, NothingIsPriced DEF Bound, OrderFits
<1>3. CASE o.step = "running"
  BY <1>1, <1>3, NothingIsPriced, TotalIsNat DEF Bound, OrderFits
<1>4. CASE o.step = "succeeded"
  <2> DEFINE parts == o.quote.parts
             b == parts["baseline"]
             h == [parts EXCEPT !["baseline"] = 0]
             s == [Prices!NothingHeld EXCEPT !["baseline"] = b]
  <2>1. o.held = h /\ o.spent = s
    BY <1>4 DEF OrderFits
  <2>2. b \in Nat /\ parts["ai_report"] \in Nat /\ parts["ai_interaction_heatmap"] \in Nat
    BY <1>1 DEF Priced, Prices!Purposes, Prices!Addons
  <2>3. h \in Priced /\ s \in Priced
    BY <1>1, <2>2, NothingIsPriced DEF Priced
  <2>4. /\ h["baseline"] = 0 /\ h["ai_report"] = parts["ai_report"]
        /\ h["ai_interaction_heatmap"] = parts["ai_interaction_heatmap"]
        /\ s["baseline"] = b /\ s["ai_report"] = 0 /\ s["ai_interaction_heatmap"] = 0
    BY <1>1 DEF Priced, Prices!Purposes, Prices!Addons, Prices!NothingHeld
  <2> HIDE DEF h, s
  <2>5. Prices!Total(h) = parts["ai_report"] + parts["ai_interaction_heatmap"]
        /\ Prices!Total(s) = b
    BY <2>2, <2>3, <2>4, TotalIsNat
  <2>6. Prices!Total(parts) = b + parts["ai_report"] + parts["ai_interaction_heatmap"]
    BY <1>1, TotalIsNat
  <2>7. QED
    BY <1>4, <2>1, <2>2, <2>5, <2>6 DEF Bound
<1>5. QED
  BY <1>2, <1>3, <1>4

(* A step changes one order, and the balance by as much as it binds.        *)
LEMMA BoundMoves ==
  ASSUME NEW f \in [Orders -> OrderRows], NEW d \in Orders, NEW o \in OrderRows
  PROVE  Sum([e \in Orders |-> Bound([f EXCEPT ![d] = o][e])], Orders)
           = Sum([e \in Orders |-> Bound(f[e])], Orders) + (Bound(o) - Bound(f[d]))
<1> DEFINE g == [e \in Orders |-> Bound(f[e])]
           h == [e \in Orders |-> Bound([f EXCEPT ![d] = o][e])]
           n == Bound(o) - Bound(f[d])
<1>1. IsFiniteSet(Orders)
  BY PricingAssumption
<1>2. Bound(o) \in Nat /\ \A e \in Orders : Bound(f[e]) \in Nat
  BY BoundIsNat
<1>3. /\ n \in Int /\ \A e \in Orders : g[e] \in Int
      /\ h[d] = g[d] + n
      /\ \A e \in Orders \ {d} : h[e] = g[e]
  BY <1>2
<1> HIDE DEF g, h, n
<1>4. Sum(h, Orders) = Sum(g, Orders) + n
  BY <1>1, <1>3, SumChange
<1>5. QED
  BY <1>4 DEF g, h, n

(* What a step that gives d the row o has to show.                          *)
LEMMA OrderMoves ==
  ASSUME PriceInv, NEW d \in Orders, NEW o \in OrderRows,
         order' = [order EXCEPT ![d] = o],
         OrderFits(o),
         freeUse' \in [Prices!Types -> FreeUses],
         chips' \in Nat,
         chips' + Bound(o) = chips + Bound(order[d]),
         QuotesStand',
         \A t \in Prices!Types : FreeUsed(t)'
  PROVE  PriceInv'
<1> DEFINE g == [e \in Orders |-> Bound(order[e])]
           h == [e \in Orders |-> Bound([order EXCEPT ![d] = o][e])]
<1>1. order \in [Orders -> OrderRows] /\ order[d] \in OrderRows
  BY DEF PriceInv, PricesTypeOK
<1>2. PricesTypeOK'
  BY <1>1 DEF PriceInv, PricesTypeOK
<1>3. \A e \in Orders : OrderFits(order'[e])
  BY <1>1 DEF PriceInv
<1>4. Sum(h, Orders) = Sum(g, Orders) + (Bound(o) - Bound(order[d]))
  BY <1>1, BoundMoves
<1>5. BoundChips = Sum(g, Orders) /\ BoundChips' = Sum(h, Orders)
  BY DEF BoundChips
<1>6. chips \in Nat /\ Bound(o) \in Nat /\ Bound(order[d]) \in Nat /\ Sum(g, Orders) \in Int
  <2>1. \A e \in Orders : g[e] \in Int
    BY <1>1, BoundIsNat
  <2>2. IsFiniteSet(Orders)
    BY PricingAssumption
  <2> HIDE DEF g
  <2>3. QED
    BY <1>1, <2>1, <2>2, SumType, BoundIsNat DEF PriceInv, PricesTypeOK
<1>7. chips + Sum(g, Orders) = Funds
  BY <1>5 DEF PriceInv
<1> HIDE DEF g, h
<1>8. chips' + BoundChips' = Funds
  BY <1>4, <1>5, <1>6, <1>7
<1>9. QED
  BY <1>2, <1>3, <1>8 DEF PriceInv

LEMMA DrawStep ==
  ASSUME PriceInv, NEW d \in Orders, NEW r \in Requests, Prices!Draw(d, r)
  PROVE  PriceInv'
<1> DEFINE o == [order[d] EXCEPT !.step = "draft", !.request = r]
<1>1. order[d] \in OrderRows /\ OrderFits(order[d]) /\ order[d].step = "new"
      /\ order \in [Orders -> OrderRows]
  BY DEF PriceInv, PricesTypeOK, Prices!Draw
<1>2. order' = [order EXCEPT ![d] = o] /\ UNCHANGED <<freeUse, chips>>
  BY <1>1 DEF Prices!Draw
<1>3. o \in OrderRows /\ o.step = "draft" /\ o.held = order[d].held /\ o.spent = order[d].spent
  BY <1>1 DEF OrderRows, Prices!Steps
<1>4. OrderFits(o)
  BY <1>1, <1>3 DEF OrderFits
<1>5. Bound(o) = Bound(order[d]) /\ Bound(o) \in Nat
  BY <1>3, BoundIsNat DEF Bound
<1> HIDE DEF o
<1>6. QuotesStand'
  BY <1>1, <1>2, <1>3 DEF PriceInv, QuotesStand
<1>7. ASSUME NEW t \in Prices!Types
      PROVE  FreeUsed(t)'
  <2>1. Takers(t)' = Takers(t)
    BY <1>1, <1>2, <1>3 DEF Takers, Prices!Taken
  <2>2. \A e \in Takers(t) : order'[e] = order[e]
    BY <1>1, <1>2 DEF Takers, Prices!Taken
  <2>3. QED
    BY <1>2, <2>1, <2>2 DEF PriceInv, FreeUsed
<1>8. QED
  BY <1>2, <1>3, <1>4, <1>5, <1>6, <1>7, OrderMoves DEF PriceInv, PricesTypeOK

LEMMA QuoteStep ==
  ASSUME PriceInv, NEW d \in Orders, Prices!Quote(d)
  PROVE  PriceInv'
<1> DEFINE r == order[d].request
           quote == Prices!BuildQuote(r)
           o == [order[d] EXCEPT !.step = "quoted", !.quote = quote]
<1>1. order[d] \in OrderRows /\ OrderFits(order[d]) /\ order[d].step = "draft"
      /\ order \in [Orders -> OrderRows] /\ r \in Requests
  BY DEF PriceInv, PricesTypeOK, Prices!Quote, OrderRows
<1>2. order' = [order EXCEPT ![d] = o] /\ UNCHANGED <<freeUse, chips>>
      /\ Prices!Unlocked(d, r.type)
  BY <1>1 DEF Prices!Quote
<1>3. /\ quote.free = Prices!FreeApplicable(r, freeUse[r.type].status = "available")
      /\ quote.free \in BOOLEAN
      /\ quote.parts = Parts(r, quote.free)
      /\ quote = [free |-> quote.free, parts |-> quote.parts]
  BY Zenon DEF Prices!BuildQuote, Parts, Prices!FreeApplicable
<1>4. quote.parts \in Priced
  BY <1>1, <1>3, PricePartsAddUp DEF Priced
<1>5. quote \in [free : BOOLEAN, parts : Priced]
  <2> HIDE DEF quote
  <2> QED BY <1>3, <1>4
<1> HIDE DEF quote
<1>6. o \in OrderRows /\ o.step = "quoted" /\ o.held = order[d].held /\ o.spent = order[d].spent
      /\ o.quote = quote /\ o.request = r
  BY <1>1, <1>5 DEF OrderRows, Prices!Steps
<1>7. quote.free => freeUse[r.type].status = "available"
      /\ (r.type = "basic_ux_test" => r.personas <= FreePersonas)
  BY <1>3 DEF Prices!FreeApplicable
<1> HIDE DEF o
<1>8. OrderFits(o)
  BY <1>1, <1>3, <1>6, <1>7 DEF OrderFits, Agreed
<1>9. Bound(o) = Bound(order[d]) /\ Bound(o) \in Nat
  BY <1>6, BoundIsNat DEF Bound
<1>10. QuotesStand'
  BY <1>1, <1>2, <1>6, <1>7 DEF PriceInv, QuotesStand, Prices!Unlocked
<1>11. ASSUME NEW t \in Prices!Types
       PROVE  FreeUsed(t)'
  <2>1. Takers(t)' = Takers(t)
    BY <1>1, <1>2, <1>6 DEF Takers, Prices!Taken
  <2>2. \A e \in Takers(t) : order'[e] = order[e]
    BY <1>1, <1>2 DEF Takers, Prices!Taken
  <2>3. QED
    BY <1>2, <2>1, <2>2 DEF PriceInv, FreeUsed
<1>12. QED
  BY <1>2, <1>6, <1>8, <1>9, <1>10, <1>11, OrderMoves DEF PriceInv, PricesTypeOK

LEMMA ReserveStep ==
  ASSUME PriceInv, NEW d \in Orders, Prices!Reserve(d)
  PROVE  PriceInv'
<1> DEFINE q == order[d].quote
           r == order[d].request
           paid == [order[d] EXCEPT !.step = "running", !.held = q.parts]
           back == [order[d] EXCEPT !.step = "draft", !.quote = Prices!NewOrder.quote]
<1>1. order[d] \in OrderRows /\ OrderFits(order[d]) /\ order[d].step = "quoted"
      /\ order \in [Orders -> OrderRows]
      /\ q \in [free : BOOLEAN, parts : Priced] /\ r \in Requests /\ r.type \in Prices!Types
      /\ freeUse \in [Prices!Types -> FreeUses] /\ chips \in Nat
  BY PricingAssumption DEF PriceInv, PricesTypeOK, Prices!Reserve, OrderRows
<1>2. Prices!Total(q.parts) \in Nat /\ q.parts \in Priced
  BY <1>1, TotalIsNat
<1>3. Bound(order[d]) = 0
  BY <1>1, BoundOfFitting
<1>4. CASE /\ Prices!Total(q.parts) <= chips
           /\ chips' = chips - Prices!Total(q.parts)
           /\ freeUse' = IF q.free
                 THEN [freeUse EXCEPT ![r.type] = [status |-> "reserved", run |-> {d}]]
                 ELSE freeUse
           /\ order' = [order EXCEPT ![d] = paid]
  <2>1. paid \in OrderRows /\ paid.step = "running" /\ paid.held = q.parts /\ paid.quote = q
        /\ paid.request = r /\ paid.spent = order[d].spent
    BY <1>1 DEF OrderRows, Prices!Steps
  <2> HIDE DEF paid
  <2>2. OrderFits(paid)
    BY <1>1, <2>1 DEF OrderFits, Agreed
  <2>3. Bound(paid) = Prices!Total(q.parts)
    BY <2>1, <2>2, BoundOfFitting
  <2>4. chips' \in Nat /\ chips' + Bound(paid) = chips + Bound(order[d])
    BY <1>1, <1>2, <1>3, <1>4, <2>3
  <2>5. freeUse' \in [Prices!Types -> FreeUses]
    BY <1>1, <1>4 DEF FreeUses
  <2>6. QuotesStand'
    BY <1>1, <1>4, <2>1 DEF PriceInv, QuotesStand
  <2>7. ASSUME NEW t \in Prices!Types
        PROVE  FreeUsed(t)'
    <3>1. CASE q.free /\ t = r.type
      <4>1. Takers(t) = {}
        BY <1>1, <3>1 DEF PriceInv, QuotesStand, FreeUsed
      <4>2. Takers(t)' = {d}
        BY <1>1, <1>4, <2>1, <3>1, <4>1 DEF Takers, Prices!Taken
      <4>3. freeUse'[t] = [status |-> "reserved", run |-> {d}] /\ order'[d].step = "running"
        BY <1>1, <1>4, <2>1, <3>1
      <4>4. QED
        BY <4>2, <4>3 DEF FreeUsed
    <3>2. CASE ~(q.free /\ t = r.type)
      <4>1. Takers(t)' = Takers(t) /\ d \notin Takers(t)
        BY <1>1, <1>4, <2>1, <3>2 DEF Takers, Prices!Taken
      <4>2. freeUse'[t] = freeUse[t] /\ \A e \in Takers(t) : order'[e] = order[e]
        BY <1>1, <1>4, <3>2, <4>1 DEF Takers
      <4>3. QED
        BY <4>1, <4>2 DEF PriceInv, FreeUsed
    <3>3. QED
      BY <3>1, <3>2
  <2>8. QED
    BY <1>4, <2>1, <2>2, <2>4, <2>5, <2>6, <2>7, OrderMoves
<1>5. CASE /\ order' = [order EXCEPT ![d] = back]
           /\ UNCHANGED <<freeUse, chips>>
  <2>1. Prices!NewOrder.quote \in [free : BOOLEAN, parts : Priced]
    BY NothingIsPriced DEF Prices!NewOrder
  <2>2. back \in OrderRows /\ back.step = "draft" /\ back.held = order[d].held
        /\ back.spent = order[d].spent
    BY <1>1, <2>1 DEF OrderRows, Prices!Steps
  <2> HIDE DEF back
  <2>3. OrderFits(back)
    BY <1>1, <2>2 DEF OrderFits
  <2>4. Bound(back) = Bound(order[d]) /\ Bound(back) \in Nat
    BY <2>2, BoundIsNat DEF Bound
  <2>5. QuotesStand'
    BY <1>1, <1>5, <2>2 DEF PriceInv, QuotesStand
  <2>6. ASSUME NEW t \in Prices!Types
        PROVE  FreeUsed(t)'
    <3>1. Takers(t)' = Takers(t)
      BY <1>1, <1>5, <2>2 DEF Takers, Prices!Taken
    <3>2. \A e \in Takers(t) : order'[e] = order[e]
      BY <1>1, <1>5 DEF Takers, Prices!Taken
    <3>3. QED
      BY <1>5, <3>1, <3>2 DEF PriceInv, FreeUsed
  <2>7. QED
    BY <1>1, <1>5, <2>2, <2>3, <2>4, <2>5, <2>6, OrderMoves DEF PriceInv, PricesTypeOK
<1>6. QED
  BY <1>1, <1>4, <1>5 DEF Prices!Reserve, Prices!ToReserve

LEMMA SettleStep ==
  ASSUME PriceInv, NEW d \in Orders, NEW outcome \in {"succeeded", "failed"},
         Prices!Settle(d, outcome)
  PROVE  PriceInv'
<1> DEFINE q == order[d].quote
           r == order[d].request
           held == order[d].held
           done == [order[d] EXCEPT !.step = "succeeded", !.held["baseline"] = 0,
                                    !.spent["baseline"] = held["baseline"]]
           lost == [order[d] EXCEPT !.step = "failed", !.held = Prices!NothingHeld]
<1>1. order[d] \in OrderRows /\ OrderFits(order[d]) /\ order[d].step = "running"
      /\ order \in [Orders -> OrderRows]
      /\ q \in [free : BOOLEAN, parts : Priced] /\ r \in Requests /\ r.type \in Prices!Types
      /\ held \in Priced /\ order[d].spent \in Priced
      /\ freeUse \in [Prices!Types -> FreeUses] /\ chips \in Nat
  BY PricingAssumption DEF PriceInv, PricesTypeOK, Prices!Settle, OrderRows
<1>2. /\ Prices!Total(q.parts) \in Nat /\ q.parts \in Priced
      /\ held = q.parts /\ order[d].spent = Prices!NothingHeld
      /\ Bound(order[d]) = Prices!Total(q.parts)
  BY <1>1, TotalIsNat, BoundOfFitting DEF OrderFits
<1>3. q.free => d \in Takers(r.type) /\ Takers(r.type) = {d}
  BY <1>1 DEF PriceInv, FreeUsed, Takers, Prices!Taken
<1>4. q.free => Prices!Unlocked(d, r.type)
  BY DEF Prices!Settle
<1>5. CASE /\ outcome = "succeeded"
           /\ freeUse' = IF q.free THEN [freeUse EXCEPT ![r.type].status = "consumed"] ELSE freeUse
           /\ order' = [order EXCEPT ![d] = done]
           /\ UNCHANGED chips
  <2>1. /\ [held EXCEPT !["baseline"] = 0] \in Priced
        /\ [order[d].spent EXCEPT !["baseline"] = held["baseline"]] \in Priced
    BY <1>1 DEF Priced, Prices!Purposes
  <2>2. done \in OrderRows /\ done.step = "succeeded" /\ done.quote = q /\ done.request = r
        /\ done.held = [q.parts EXCEPT !["baseline"] = 0]
        /\ done.spent = [Prices!NothingHeld EXCEPT !["baseline"] = q.parts["baseline"]]
    BY <1>1, <1>2, <2>1 DEF OrderRows, Prices!Steps
  <2> HIDE DEF done
  <2>3. OrderFits(done)
    BY <1>1, <2>2 DEF OrderFits, Agreed
  <2>4. Bound(done) = Bound(order[d]) /\ Bound(done) \in Nat
    BY <1>2, <2>2, <2>3, BoundOfFitting
  <2>5. freeUse' \in [Prices!Types -> FreeUses]
    BY <1>1, <1>5 DEF FreeUses
  <2>6. QuotesStand'
    BY <1>1, <1>4, <1>5, <2>2 DEF PriceInv, QuotesStand, Prices!Unlocked
  <2>7. ASSUME NEW t \in Prices!Types
        PROVE  FreeUsed(t)'
    <3>1. Takers(t)' = Takers(t)
      BY <1>1, <1>5, <2>2 DEF Takers, Prices!Taken
    <3>2. CASE q.free /\ t = r.type
      <4>1. /\ freeUse'[t].run = freeUse[t].run /\ freeUse'[t].status = "consumed"
            /\ order'[d].step = "succeeded"
        BY <1>1, <1>5, <2>2, <3>2 DEF FreeUses
      <4>2. Takers(t) = {d}
        BY <1>3, <3>2
      <4>3. QED
        BY <3>1, <4>1, <4>2 DEF PriceInv, FreeUsed
    <3>3. CASE ~(q.free /\ t = r.type)
      <4>1. d \notin Takers(t)
        BY <1>1, <3>3 DEF Takers
      <4>2. freeUse'[t] = freeUse[t] /\ \A e \in Takers(t) : order'[e] = order[e]
        BY <1>1, <1>5, <3>3, <4>1 DEF Takers
      <4>3. QED
        BY <3>1, <4>2 DEF PriceInv, FreeUsed
    <3>4. QED
      BY <3>2, <3>3
  <2>8. QED
    BY <1>1, <1>5, <2>2, <2>3, <2>4, <2>5, <2>6, <2>7, OrderMoves
<1>6. CASE /\ outcome = "failed"
           /\ freeUse' = IF q.free
                 THEN [freeUse EXCEPT ![r.type] = [status |-> "available", run |-> {}]]
                 ELSE freeUse
           /\ chips' = chips + Prices!Total(held)
           /\ order' = [order EXCEPT ![d] = lost]
  <2>1. lost \in OrderRows /\ lost.step = "failed" /\ lost.held = Prices!NothingHeld
        /\ lost.spent = Prices!NothingHeld
    BY <1>1, <1>2, NothingIsPriced DEF OrderRows, Prices!Steps
  <2> HIDE DEF lost
  <2>2. OrderFits(lost)
    BY <2>1 DEF OrderFits
  <2>3. Bound(lost) = 0
    BY <2>1, <2>2, BoundOfFitting
  <2>4. chips' \in Nat /\ chips' + Bound(lost) = chips + Bound(order[d])
    BY <1>1, <1>2, <1>6, <2>3
  <2>5. freeUse' \in [Prices!Types -> FreeUses]
    BY <1>1, <1>6 DEF FreeUses
  <2>6. QuotesStand'
    BY <1>1, <1>4, <1>6, <2>1 DEF PriceInv, QuotesStand, Prices!Unlocked
  <2>7. ASSUME NEW t \in Prices!Types
        PROVE  FreeUsed(t)'
    <3>1. CASE q.free /\ t = r.type
      <4>1. Takers(t)' = {}
        BY <1>1, <1>3, <1>6, <2>1, <3>1 DEF Takers, Prices!Taken
      <4>2. freeUse'[t] = [status |-> "available", run |-> {}]
        BY <1>1, <1>6, <3>1
      <4>3. QED
        BY <4>1, <4>2 DEF FreeUsed
    <3>2. CASE ~(q.free /\ t = r.type)
      <4>1. d \notin Takers(t) /\ Takers(t)' = Takers(t)
        BY <1>1, <1>6, <2>1, <3>2 DEF Takers, Prices!Taken
      <4>2. freeUse'[t] = freeUse[t] /\ \A e \in Takers(t) : order'[e] = order[e]
        BY <1>1, <1>6, <3>2, <4>1 DEF Takers
      <4>3. QED
        BY <4>1, <4>2 DEF PriceInv, FreeUsed
    <3>3. QED
      BY <3>1, <3>2
  <2>8. QED
    BY <1>6, <2>1, <2>2, <2>4, <2>5, <2>6, <2>7, OrderMoves
<1>7. QED
  BY <1>1, <1>5, <1>6 DEF Prices!Settle

LEMMA PriceInvInductive == PriceInv /\ [Prices!QuotesNext]_Prices!quoteVars => PriceInv'
<1> SUFFICES ASSUME PriceInv, [Prices!QuotesNext]_Prices!quoteVars
             PROVE  PriceInv'
  OBVIOUS
<1>1. CASE Prices!QuotesNext
  BY <1>1, DrawStep, QuoteStep, ReserveStep, SettleStep DEF Prices!QuotesNext
<1>2. CASE UNCHANGED Prices!quoteVars
  <2>1. order' = order /\ freeUse' = freeUse /\ chips' = chips
    BY <1>2 DEF Prices!quoteVars
  <2>2. PricesTypeOK' /\ QuotesStand' /\ BoundChips' = BoundChips
        /\ \A d \in Orders : OrderFits(order'[d])
    BY <2>1 DEF PriceInv, PricesTypeOK, QuotesStand, BoundChips
  <2>3. ASSUME NEW t \in Prices!Types PROVE FreeUsed(t)'
    BY <2>1 DEF PriceInv, FreeUsed, Takers, Prices!Taken
  <2>4. QED
    BY <2>1, <2>2, <2>3 DEF PriceInv
<1>3. QED
  BY <1>1, <1>2

LEMMA PriceInvInitial == Prices!QuotesInit => PriceInv
<1> SUFFICES ASSUME Prices!QuotesInit
             PROVE  PriceInv
  OBVIOUS
<1> DEFINE h == [d \in Orders |-> Bound(order[d])]
<1>1. Prices!NewOrder \in OrderRows /\ Prices!NewOrder.step = "new"
      /\ Prices!NewOrder.held = Prices!NothingHeld /\ Prices!NewOrder.spent = Prices!NothingHeld
  BY NothingIsPriced, PricingAssumption DEF Prices!NewOrder, OrderRows, Prices!Steps
<1>2. \A d \in Orders : order[d] = Prices!NewOrder
  BY DEF Prices!QuotesInit
<1>3. PricesTypeOK
  BY <1>1, PricingAssumption DEF Prices!QuotesInit, PricesTypeOK, FreeUses
<1>4. OrderFits(Prices!NewOrder)
  BY <1>1 DEF OrderFits
<1>5. \A d \in Orders : h[d] = 0
  BY <1>1, <1>2, <1>4, BoundOfFitting
<1>6. BoundChips = 0
  <2>1. BoundChips = Sum(h, Orders)
    BY DEF BoundChips
  <2>2. QED
    <3> HIDE DEF h
    <3> QED BY <1>5, <2>1, SumZero, PricingAssumption
<1>7. QuotesStand
  BY <1>1, <1>2 DEF QuotesStand
<1>8. ASSUME NEW t \in Prices!Types PROVE FreeUsed(t)
  <2>1. Takers(t) = {}
    BY <1>1, <1>2 DEF Takers, Prices!Taken
  <2>2. QED
    BY <2>1 DEF FreeUsed, Prices!QuotesInit
<1>9. QED
  BY <1>2, <1>3, <1>4, <1>6, <1>7, <1>8, PricingAssumption DEF PriceInv, Prices!QuotesInit

(* The sum of the promise is the sum of the invariant.                      *)
LEMMA WorthIsBound ==
  ASSUME NEW f \in [Orders -> OrderRows]
  PROVE  Prices!MapThenSumSet(
             LAMBDA d : Prices!Total(f[d].held) + Prices!Total(f[d].spent), Orders)
           = Sum([d \in Orders |-> Bound(f[d])], Orders)
<1> DEFINE h == [d \in Orders |-> Bound(f[d])]
           g == CHOOSE g : g = [s \in SUBSET Orders |->
                  IF s = {} THEN 0
                  ELSE (Prices!Total(f[Taken(s)].held) + Prices!Total(f[Taken(s)].spent))
                         + g[s \ {Taken(s)}]]
<1>1. Prices!MapThenSumSet(
             LAMBDA d : Prices!Total(f[d].held) + Prices!Total(f[d].spent), Orders)
        = g[Orders]
  BY DEF Prices!MapThenSumSet, Prices!MapThenFoldSet, Taken
<1>2. IsFiniteSet(Orders)
  BY PricingAssumption
<1>3. \A s \in SUBSET Orders : s # {} =>
        h[Taken(s)] = Prices!Total(f[Taken(s)].held) + Prices!Total(f[Taken(s)].spent)
  BY TakenOut DEF Bound
<1>4. \A k : Running(k, h, Orders) <=>
        k = [s \in SUBSET Orders |->
               IF s = {} THEN 0
               ELSE (Prices!Total(f[Taken(s)].held) + Prices!Total(f[Taken(s)].spent))
                      + k[s \ {Taken(s)}]]
  <2> HIDE DEF h
  <2> QED BY <1>3 DEF Running
<1>5. Running(g, h, Orders)
  <2>1. PICK k : Running(k, h, Orders)
    BY <1>2, RunningExists
  <2> HIDE DEF h
  <2>2. QED
    BY <1>4, <2>1
<1>6. Sum(h, Orders) = g[Orders]
  <2> HIDE DEF g, h
  <2> QED BY <1>2, <1>5, SumIsRunning
<1>7. QED
  BY <1>1, <1>6

LEMMA PricesArePaid == PriceInv => Prices!LaunchesArePaid /\ Prices!QuotesTypeOK
<1> SUFFICES ASSUME PriceInv
             PROVE  Prices!LaunchesArePaid /\ Prices!QuotesTypeOK
  OBVIOUS
<1>1. \A d \in Orders : order[d] \in OrderRows /\ OrderFits(order[d])
  BY DEF PriceInv, PricesTypeOK
<1>2. Prices!PriceIsPaidOnce
  <2> SUFFICES ASSUME NEW d \in Orders, Prices!Taken(d)
               PROVE  LET o == order[d] IN
      /\ Prices!Total(o.held) + Prices!Total(o.spent) =
           (IF o.quote.free THEN 0 ELSE Prices!TestCost(o.request, FALSE))
             + Prices!ModuleCost(o.request.modules)
      /\ o.quote.free /\ o.request.type = "basic_ux_test" => o.request.personas <= FreePersonas
    BY DEF Prices!PriceIsPaidOnce
  <2> DEFINE o == order[d]
  <2>1. o \in OrderRows /\ OrderFits(o) /\ o.step \in {"running", "succeeded"}
        /\ o.request \in Requests /\ o.quote.free \in BOOLEAN
    BY <1>1 DEF Prices!Taken, OrderRows
  <2>2. Agreed(o) /\ Bound(o) = Prices!Total(o.quote.parts)
    BY <2>1, BoundOfFitting DEF OrderFits
  <2>3. Prices!Total(o.quote.parts)
          = Base(o.request, o.quote.free) + Prices!ModuleCost(o.request.modules)
    BY <2>1, <2>2, PricePartsAddUp DEF Agreed
  <2>4. QED
    BY <2>2, <2>3 DEF Bound, Base, Agreed
<1>3. Prices!FreeOnce
  BY DEF PriceInv, FreeUsed, Takers, Prices!FreeOnce
<1>4. order \in [Orders -> OrderRows]
  BY DEF PriceInv, PricesTypeOK
<1>5. Prices!ChipsAreConserved
  BY <1>4, WorthIsBound DEF PriceInv, BoundChips, Prices!ChipsAreConserved
<1>6. chips \in 0 .. Funds
  <2> DEFINE h == [d \in Orders |-> Bound(order[d])]
  <2>1. \A d \in Orders : h[d] \in Nat
    BY <1>1, BoundIsNat
  <2>2. BoundChips = Sum(h, Orders)
    BY DEF BoundChips
  <2>3. BoundChips \in Nat
    <3> HIDE DEF h
    <3> QED BY <2>1, <2>2, SumNat, PricingAssumption
  <2>4. QED
    BY <2>3, PricingAssumption DEF PriceInv, PricesTypeOK
<1>7. Prices!QuotesTypeOK
  BY <1>1, <1>6 DEF PriceInv, PricesTypeOK, FreeUses, OrderRows, Prices!QuotesTypeOK
<1>8. QED
  BY <1>2, <1>3, <1>5, <1>7 DEF Prices!LaunchesArePaid

(* Whatever launches overlap: each pays the whole price list for what it    *)
(* runs, once; a free use is given to one launch at a time and taken from   *)
(* the test alone; and no chip is made or lost (services/wizard.py's quote  *)
(* and launch, and the settlement of its runs).                             *)
THEOREM LaunchesPaid == Prices!QuotesSpec => []Prices!LaunchesArePaid
<1>1. QED
  BY PriceInvInitial, PriceInvInductive, PricesArePaid, PTL DEF Prices!QuotesSpec

-----------------------------------------------------------------------------
(* Cohorts and personas.                                                    *)
LEMMA CohortsCount == \A S : Cohorts!Cardinality(S) = Cardinality(S)
  BY DEF Cohorts!Cardinality, Cardinality

LEMMA TotalIsSum ==
  ASSUME NEW f
  PROVE  Cohorts!Total(f) = Sum(f, DOMAIN f)
BY DEF Cohorts!Total, Cohorts!FoldFunction, Cohorts!FoldFunctionOnSet, Cohorts!MapThenFoldSet,
       Sum, FoldFunctionOnSet, MapThenFoldSet

LEMMA WeightsAreProducts ==
  ASSUME NEW d, NEW c
  PROVE  /\ Cohorts!ComboWeight(d, c) = Chosen(d, DOMAIN d, c)
         /\ Cohorts!WholeOf(d) = Product([i \in DOMAIN d |-> Whole], DOMAIN d)
BY DEF Cohorts!ComboWeight, Cohorts!WholeOf, Cohorts!FoldFunction, Cohorts!FoldFunctionOnSet,
       Cohorts!MapThenFoldSet, Chosen, Product, FoldFunctionOnSet, MapThenFoldSet

(* What a user may enter: distributions over some dimensions, each valid.   *)
Entered(d) ==
  /\ \E n \in Nat : d \in [1..n -> Dimensions]
  /\ \A i \in DOMAIN d : Cohorts!ValidDimension(d[i])
Buckets(d) == [i \in DOMAIN d |-> 1..Len(d[i])]
AnyBucket(d) == 1..Cohorts!Max({Len(d[i]) : i \in DOMAIN d} \cup {1})

LEMMA EnteredWeights ==
  ASSUME NEW d, Entered(d), NEW i \in DOMAIN d
  PROVE  /\ d[i] \in Seq(Int) /\ Len(d[i]) \in Nat /\ DOMAIN d[i] = 1..Len(d[i])
         /\ \A b \in 1..Len(d[i]) : d[i][b] \in Nat \ {0}
<1>1. d[i] \in Seq(Int)
  BY CohortsAssumption DEF Entered
<1>2. Len(d[i]) \in Nat /\ DOMAIN d[i] = 1..Len(d[i]) /\ \A b \in 1..Len(d[i]) : d[i][b] \in Int
  BY <1>1
<1>3. \A b \in DOMAIN d[i] : d[i][b] > 0
  BY DEF Entered, Cohorts!ValidDimension
<1>4. QED
  BY <1>1, <1>2, <1>3

LEMMA CombinationsAreChoices ==
  ASSUME NEW d, Entered(d)
  PROVE  /\ IsFiniteSet(DOMAIN d)
         /\ Cohorts!Combinations(d) = Choices(Buckets(d), AnyBucket(d), DOMAIN d)
         /\ Factors(d, Buckets(d), AnyBucket(d), DOMAIN d)
<1>1. PICK n \in Nat : d \in [1..n -> Dimensions]
  BY DEF Entered
<1>2. IsFiniteSet(DOMAIN d)
  BY <1>1, FS_Interval
<1> DEFINE L == [i \in DOMAIN d |-> Len(d[i])]
           S == {Len(d[i]) : i \in DOMAIN d} \cup {1}
<1>3. \A i \in DOMAIN d : Len(d[i]) \in Nat
  BY EnteredWeights
<1>4. IsFiniteSet(S)
  <2>1. {Len(d[i]) : i \in DOMAIN d} = {L[i] : i \in DOMAIN d}
    OBVIOUS
  <2>2. IsFiniteSet({L[i] : i \in DOMAIN d})
    <3> HIDE DEF L
    <3> QED BY <1>2, FiniteImage
  <2>3. QED
    BY <2>1, <2>2, FS_AddElement
<1>5. PICK m \in S : \A k \in S : m >= k
  <2>1. S \subseteq Int /\ S # {}
    BY <1>3
  <2> HIDE DEF S
  <2>2. QED
    BY <1>4, <2>1, GreatestOf
<1> DEFINE top == Cohorts!Max(S)
<1>6. top \in Int /\ \A i \in DOMAIN d : Len(d[i]) <= top
  <2>1. top \in S /\ \A k \in S : top >= k
    <3> HIDE DEF S
    <3> QED BY <1>5 DEF Cohorts!Max
  <2> HIDE DEF top
  <2>2. QED
    BY <1>3, <2>1
<1>7. Factors(d, Buckets(d), AnyBucket(d), DOMAIN d)
  <2> SUFFICES ASSUME NEW i \in DOMAIN d
               PROVE  /\ IsFiniteSet(1..Len(d[i])) /\ 1..Len(d[i]) \subseteq 1..top
                      /\ \A b \in 1..Len(d[i]) : d[i][b] \in Int
    BY DEF Factors, Buckets, AnyBucket
  <2> HIDE DEF top
  <2>1. IsFiniteSet(1..Len(d[i]))
    BY <1>3, FS_Interval
  <2>2. 1..Len(d[i]) \subseteq 1..top
    BY <1>3, <1>6
  <2>3. QED
    BY <2>1, <2>2, EnteredWeights
<1>8. Cohorts!Combinations(d) = Choices(Buckets(d), AnyBucket(d), DOMAIN d)
  <2>1. ASSUME NEW c \in [DOMAIN d -> 1..top]
        PROVE  (\A i \in DOMAIN d : c[i] <= Len(d[i])) <=> (\A i \in DOMAIN d : c[i] \in 1..Len(d[i]))
    <3> HIDE DEF top
    <3> QED BY <1>3, <1>6
  <2>2. Cohorts!Combinations(d) =
          {c \in [DOMAIN d -> 1..top] : \A i \in DOMAIN d : c[i] <= Len(d[i])}
    BY DEF Cohorts!Combinations
  <2>3. Choices(Buckets(d), AnyBucket(d), DOMAIN d) =
          {c \in [DOMAIN d -> 1..top] : \A i \in DOMAIN d : c[i] \in 1..Len(d[i])}
    BY DEF Choices, Buckets, AnyBucket
  <2> HIDE DEF top
  <2>4. QED
    BY <2>1, <2>2, <2>3
<1>9. QED
  BY <1>2, <1>7, <1>8

(* A combination weighs something, and all of them weigh as much as the     *)
(* dimensions make of the whole.                                            *)
LEMMA WeightsOfCombinations ==
  ASSUME NEW d, Entered(d)
  PROVE  /\ IsFiniteSet(Cohorts!Combinations(d))
         /\ Cohorts!WholeOf(d) \in Nat \ {0}
         /\ \A c \in Cohorts!Combinations(d) : Cohorts!ComboWeight(d, c) \in Nat \ {0}
         /\ (\A i \in DOMAIN d : Cohorts!Total(d[i]) = Whole) =>
              Sum([c \in Cohorts!Combinations(d) |-> Cohorts!ComboWeight(d, c)],
                  Cohorts!Combinations(d)) = Cohorts!WholeOf(d)
<1> DEFINE D == DOMAIN d
           B == Buckets(d)
           M == AnyBucket(d)
           C == Choices(B, M, D)
           w == [c \in C |-> Cohorts!ComboWeight(d, c)]
           t == [i \in D |-> Sum(d[i], B[i])]
           u == [i \in D |-> Whole]
<1>1. IsFiniteSet(D) /\ Cohorts!Combinations(d) = C /\ Factors(d, B, M, D)
  BY CombinationsAreChoices
<1>2. \A c \in C : w[c] = Chosen(d, D, c)
  BY WeightsAreProducts
<1>3. \A i \in D : t[i] = Sum(d[i], B[i])
  OBVIOUS
<1>4. IsFiniteSet(C) /\ Sum(w, C) = Product(t, D)
  <2> HIDE DEF w, t, B, M, D
  <2> QED BY <1>1, <1>2, <1>3, ProductOfSums
<1>5. Cohorts!WholeOf(d) = Product(u, D)
  BY WeightsAreProducts
<1>6. \A i \in D : u[i] \in Nat \ {0}
  BY CohortsAssumption
<1>7. Cohorts!WholeOf(d) \in Nat \ {0}
  <2> HIDE DEF u, D
  <2> QED BY <1>1, <1>5, <1>6, ProductPositive
<1>8. ASSUME NEW c \in C
      PROVE  Cohorts!ComboWeight(d, c) \in Nat \ {0}
  <2> DEFINE f == [i \in D |-> d[i][c[i]]]
  <2>1. \A i \in D : c[i] \in 1..Len(d[i])
    BY DEF Choices, Buckets
  <2>2. \A i \in D : f[i] \in Nat \ {0}
    BY <2>1, EnteredWeights
  <2>3. Cohorts!ComboWeight(d, c) = Product(f, D)
    BY WeightsAreProducts DEF Chosen
  <2> HIDE DEF f, D
  <2>4. QED
    BY <1>1, <2>2, <2>3, ProductPositive
<1>9. ASSUME \A i \in D : Cohorts!Total(d[i]) = Whole
      PROVE  Sum(w, C) = Cohorts!WholeOf(d)
  <2>1. ASSUME NEW i \in D
        PROVE  t[i] \in Int /\ t[i] = u[i]
    <3>1. B[i] = DOMAIN d[i]
      BY EnteredWeights DEF Buckets
    <3>2. Sum(d[i], B[i]) = Whole
      BY <1>9, <3>1, TotalIsSum
    <3>3. QED
      BY <3>2, CohortsAssumption
  <2> HIDE DEF t, u, D
  <2>2. Product(t, D) = Product(u, D)
    BY <1>1, <2>1, ProductEqual
  <2>3. QED
    BY <1>4, <1>5, <2>2
<1>10. QED
  <2> HIDE DEF C, D
  <2>1. Sum([c \in C |-> Cohorts!ComboWeight(d, c)], C) = Sum(w, C)
    OBVIOUS
  <2>2. QED
    BY <1>1, <1>4, <1>7, <1>8, <1>9, <2>1 DEF D


(* Dividing a whole number of shares.                                       *)
LEMMA Division ==
  ASSUME NEW a \in Nat, NEW b \in Nat \ {0}
  PROVE  /\ a \div b \in Nat /\ a % b \in Nat /\ a % b <= b - 1
         /\ a = b * (a \div b) + (a % b)
<1>1. a \div b \in Int /\ a \div b >= 0
  OBVIOUS
<1>2. a % b \in 0..b - 1
  OBVIOUS
<1>3. \A i, j \in Int : j > 0 => i = j * (i \div j) + (i % j)
  BY ONLY SMT
<1>4. a \in Int /\ b \in Int /\ b > 0
  OBVIOUS
<1>5. a = b * (a \div b) + (a % b)
  BY ONLY <1>3, <1>4, Zenon
<1>6. QED
  BY <1>1, <1>2, <1>5

(* Equal shares and remainders below one share: no more remainders are      *)
(* needed than there are.                                                   *)
LEMMA EnoughRemainders ==
  ASSUME NEW w \in Nat \ {0}, NEW total \in Nat, NEW base \in Nat, NEW rest \in Nat, NEW n \in Nat,
         w * total = w * base + rest, rest <= (w - 1) * n
  PROVE  total - base \in 0..n
<1>1. w * (total - base) = rest
  <2>1. \A i, j, k \in Int : i * (j - k) = i * j - i * k
    BY ONLY SMT
  <2>2. w * total \in Int /\ w * base \in Int
    OBVIOUS
  <2>3. w * (total - base) = w * total - w * base
    BY <2>1
  <2>4. QED
    BY <2>2, <2>3
<1>2. total - base >= 0
  <2>1. \A i, k \in Int : i > 0 /\ i * k >= 0 => k >= 0
    BY ONLY SMT
  <2>2. QED
    BY <1>1, <2>1
<1>3. total - base <= n
  <2>1. \A i, k, m \in Int : i > 0 /\ m >= 0 /\ i * k <= (i - 1) * m => k <= m
    <3> SUFFICES ASSUME NEW i \in Int, NEW k \in Int, NEW m \in Int, i > 0, m >= 0, k > m
                 PROVE  i * k > (i - 1) * m
      OBVIOUS
    <3>1. i * k >= i * m + i
      <4>1. \A a, b \in Int : a > 0 /\ b > 0 => a * b >= a
        BY ONLY SMT
      <4>2. i * (k - m) >= i
        BY <4>1
      <4>3. i * (k - m) = i * k - i * m
        OBVIOUS
      <4>4. i * k \in Int /\ i * m \in Int
        OBVIOUS
      <4>5. QED
        BY <4>2, <4>3, <4>4
    <3>2. (i - 1) * m = i * m - m
      OBVIOUS
    <3>3. i * k \in Int /\ i * m \in Int
      OBVIOUS
    <3>4. QED
      BY <3>1, <3>2, <3>3
  <2>2. w * (total - base) <= (w - 1) * n
    BY <1>1
  <2>3. QED
    BY <2>1, <2>2
<1>4. QED
  BY <1>2, <1>3

(* What _allocate_counts gives, whatever the seed.                          *)
Allocation(d, total, counts) ==
  LET C == Cohorts!Combinations(d) IN
  /\ counts \in [C -> Nat]
  /\ \A c \in C : counts[c] * Cohorts!WholeOf(d) - total * Cohorts!ComboWeight(d, c)
                    \in -Cohorts!WholeOf(d)..Cohorts!WholeOf(d)
  /\ (\A i \in DOMAIN d : Cohorts!Total(d[i]) = Whole) => Sum(counts, C) = total

LEMMA AllocatedCountsFit ==
  ASSUME NEW d, Entered(d), NEW total \in Nat, NEW counts \in Cohorts!AllocatedCounts(d, total)
  PROVE  Allocation(d, total, counts)
<1> DEFINE C == Cohorts!Combinations(d)
           W == Cohorts!WholeOf(d)
           w == [c \in C |-> Cohorts!ComboWeight(d, c)]
           raw == [c \in C |-> total * Cohorts!ComboWeight(d, c)]
           base == [c \in C |-> raw[c] \div W]
           rest == [c \in C |-> raw[c] % W]
           left == total - Cohorts!Total(base)
<1>1. PICK S \in Cohorts!Winners(rest, left) :
        counts = [c \in C |-> base[c] + (IF c \in S THEN 1 ELSE 0)]
  BY DEF Cohorts!AllocatedCounts
<1>2. /\ S \subseteq C
      /\ Cardinality(S) = Cohorts!SliceLength(left, Cardinality(C))
  <2>1. DOMAIN rest = C
    OBVIOUS
  <2> HIDE DEF rest, left, C
  <2>2. S \in Cohorts!kSubset(Cohorts!SliceLength(left, Cohorts!Cardinality(DOMAIN rest)), DOMAIN rest)
    BY <1>1 DEF Cohorts!Winners
  <2>3. S \in Cohorts!kSubset(Cohorts!SliceLength(left, Cardinality(C)), C)
    BY ONLY <2>1, <2>2, CohortsCount, Zenon
  <2>4. QED
    BY <2>3, CohortsCount DEF Cohorts!kSubset
<1>3. IsFiniteSet(C) /\ W \in Nat \ {0}
  BY WeightsOfCombinations
<1>4. \A c \in C : w[c] \in Nat
  BY WeightsOfCombinations
<1>5. ASSUME NEW c \in C
      PROVE  /\ raw[c] = total * w[c] /\ raw[c] \in Nat
             /\ base[c] \in Nat /\ rest[c] \in Nat /\ rest[c] <= W - 1
             /\ raw[c] = W * base[c] + rest[c]
  <2>1. raw[c] = total * w[c] /\ w[c] \in Nat
    BY <1>4
  <2>2. raw[c] \in Nat
    <3>1. \A i, j \in Nat : i * j \in Nat
      BY ONLY SMT
    <3> HIDE DEF raw, w
    <3>2. QED
      BY <2>1, <3>1
  <2>3. base[c] = raw[c] \div W /\ rest[c] = raw[c] % W
    OBVIOUS
  <2> HIDE DEF raw, W, base, rest
  <2>4. QED
    BY <1>3, <2>1, <2>2, <2>3, Division
<1>6. Cohorts!Total(base) = Sum(base, C)
  BY TotalIsSum
<1> DEFINE one == [c \in C |-> IF c \in S THEN 1 ELSE 0]
<1>7. \A c \in C : one[c] \in {0, 1} /\ counts[c] = base[c] + one[c]
  BY <1>1
<1>8. counts \in [C -> Nat]
  <2>1. counts = [c \in C |-> base[c] + one[c]]
    BY <1>1
  <2> HIDE DEF base, one, C
  <2>2. QED
    BY <1>5, <1>7, <2>1
<1>9. ASSUME NEW c \in C
      PROVE  counts[c] * W - total * Cohorts!ComboWeight(d, c) \in -W..W
  <2>1. total * Cohorts!ComboWeight(d, c) = raw[c]
    OBVIOUS
  <2> HIDE DEF raw, W, base, rest, one, C, w
  <2>2. raw[c] = W * base[c] + rest[c] /\ counts[c] = base[c] + one[c] /\ one[c] \in {0, 1}
    BY <1>5, <1>7
  <2>3. base[c] \in Nat /\ rest[c] \in 0..W - 1 /\ W \in Nat
    BY <1>3, <1>5
  <2>4. \A b, v, r \in Int : /\ (b + 0) * v - (v * b + r) = 0 - r
                             /\ (b + 1) * v - (v * b + r) = v - r
    BY ONLY SMT
  <2>5. counts[c] * W - raw[c] \in {0 - rest[c], W - rest[c]}
    BY <2>2, <2>3, <2>4
  <2>6. QED
    BY <2>1, <2>3, <2>5
<1>10. ASSUME \A i \in DOMAIN d : Cohorts!Total(d[i]) = Whole
       PROVE  Sum(counts, C) = total
  <2>1. Sum(w, C) = W
    BY <1>10, WeightsOfCombinations
  <2> DEFINE wbase == [c \in C |-> W * base[c]]
             most == [c \in C |-> W - 1]
             B == Sum(base, C)
             R == Sum(rest, C)
             n == Cardinality(C)
  <2>2. \A c \in C : wbase[c] = W * base[c] /\ most[c] = W - 1
    OBVIOUS
  <2>3. \A c \in C : wbase[c] \in Int
    BY <1>3, <1>5
  <2> HIDE DEF raw, W, base, rest, one, C, w, wbase, most, left
  <2>4. Sum(raw, C) = total * W
    <3>1. total \in Int /\ \A c \in C : w[c] \in Int /\ raw[c] = total * w[c]
      BY <1>4, <1>5
    <3>2. Sum(raw, C) = total * Sum(w, C)
      BY ONLY <1>3, <3>1, SumTimes
    <3>3. QED
      BY <2>1, <3>2
  <2>5. Sum(raw, C) = Sum(wbase, C) + R
    <3>1. \A c \in C : wbase[c] \in Int /\ rest[c] \in Int /\ raw[c] = wbase[c] + rest[c]
      BY <1>5, <2>2, <2>3
    <3>2. QED
      BY ONLY <1>3, <3>1, SumPlus
  <2>6. Sum(wbase, C) = W * B
    <3>1. W \in Int /\ \A c \in C : base[c] \in Int /\ wbase[c] = W * base[c]
      BY <1>3, <1>5, <2>2
    <3>2. QED
      BY ONLY <1>3, <3>1, SumTimes
  <2>7. B \in Nat /\ R \in Nat /\ n \in Nat
    <3>1. \A c \in C : base[c] \in Nat /\ rest[c] \in Nat
      BY <1>5
    <3>2. QED
      BY <1>3, <3>1, SumNat, FS_CardinalityType
  <2>8. R <= (W - 1) * n
    <3>1. \A c \in C : rest[c] \in Int /\ most[c] \in Int /\ rest[c] <= most[c]
      BY <1>3, <1>5, <2>2
    <3>2. R <= Sum(most, C)
      BY ONLY <1>3, <3>1, SumAtMost
    <3>3. W - 1 \in Int /\ \A c \in C : most[c] = W - 1
      BY <1>3, <2>2
    <3>4. Sum(most, C) = (W - 1) * n
      BY ONLY <1>3, <3>3, SumConstant
    <3>5. QED
      BY <3>2, <3>4
  <2>9. W * total = W * B + R
    <3>1. total * W = W * total
      BY <1>3
    <3>2. QED
      BY <2>4, <2>5, <2>6, <3>1
  <2>10. total - B \in 0..n
    BY ONLY <1>3, <2>7, <2>8, <2>9, total \in Nat, EnoughRemainders
  <2>11. left = total - B
    BY <1>6 DEF left
  <2>12. Cohorts!SliceLength(left, n) = left
    <3>1. left \in 0..n
      BY <2>10, <2>11
    <3>2. Cohorts!Min({left, n}) = left
      BY <2>7, <3>1 DEF Cohorts!Min
    <3>3. QED
      BY <3>1, <3>2 DEF Cohorts!SliceLength
  <2>13. Sum(one, C) = left
    <3>1. (\A c \in C : one[c] \in Int) /\ (\A c \in C \ S : one[c] = 0) /\ (\A c \in S : one[c] = 1)
      BY <1>2, <1>7 DEF one
    <3>2. Sum(one, C) = Sum(one, S)
      BY <1>2, <1>3, <3>1, SumOverPart
    <3>3. IsFiniteSet(S)
      BY <1>2, <1>3, FS_Subset
    <3>4. Sum(one, S) = 1 * Cardinality(S)
      BY <3>1, <3>3, SumConstant
    <3>5. Cardinality(S) = left
      BY <1>2, <2>12
    <3>6. Cardinality(S) \in Nat
      BY <3>3, FS_CardinalityType
    <3>7. QED
      BY <3>2, <3>4, <3>5, <3>6
  <2>14. Sum(counts, C) = B + Sum(one, C)
    <3>1. \A c \in C : base[c] \in Int /\ one[c] \in Int /\ counts[c] = base[c] + one[c]
      BY <1>5, <1>7
    <3>2. QED
      BY ONLY <1>3, <3>1, SumPlus
  <2>15. QED
    BY <2>7, <2>11, <2>13, <2>14
<1>11. QED
  <2> HIDE DEF C, W
  <2> QED BY <1>8, <1>9, <1>10 DEF Allocation, C, W


(* The order of the segment keys.                                           *)
LEMMA KeysOrdered ==
  ASSUME NEW n \in Nat, NEW c \in [1..n -> Int], NEW e \in [1..n -> Int]
  PROVE  /\ ~Cohorts!KeyBefore(c, c)
         /\ c # e => Cohorts!KeyBefore(c, e) \/ Cohorts!KeyBefore(e, c)
         /\ \A g \in [1..n -> Int] :
              Cohorts!KeyBefore(c, e) /\ Cohorts!KeyBefore(e, g) => Cohorts!KeyBefore(c, g)
<1>1. ~Cohorts!KeyBefore(c, c)
  BY DEF Cohorts!KeyBefore
<1>2. ASSUME c # e
      PROVE  Cohorts!KeyBefore(c, e) \/ Cohorts!KeyBefore(e, c)
  <2> DEFINE S == {i \in 1..n : c[i] # e[i]}
  <2>1. S \in SUBSET Nat /\ S # {}
    BY <1>2
  <2>2. PICK i \in S : \A k \in S : i <= k
    <3> HIDE DEF S
    <3> QED BY <2>1, LeastOf
  <2>3. \A j \in 1..i - 1 : c[j] = e[j] /\ e[j] = c[j]
    BY <2>2
  <2>4. c[i] < e[i] \/ e[i] < c[i]
    BY <2>2
  <2>5. QED
    BY <2>2, <2>3, <2>4 DEF Cohorts!KeyBefore
<1>3. ASSUME NEW g \in [1..n -> Int], Cohorts!KeyBefore(c, e), Cohorts!KeyBefore(e, g)
      PROVE  Cohorts!KeyBefore(c, g)
  <2>1. PICK i \in 1..n : c[i] < e[i] /\ \A j \in 1..i - 1 : c[j] = e[j]
    BY <1>3 DEF Cohorts!KeyBefore
  <2>2. PICK k \in 1..n : e[k] < g[k] /\ \A j \in 1..k - 1 : e[j] = g[j]
    BY <1>3 DEF Cohorts!KeyBefore
  <2>3. CASE i < k
    <3>1. c[i] < g[i] /\ \A j \in 1..i - 1 : c[j] = g[j]
      BY <2>1, <2>2, <2>3
    <3>2. QED
      BY <3>1 DEF Cohorts!KeyBefore
  <2>4. CASE k < i
    <3>1. c[k] < g[k] /\ \A j \in 1..k - 1 : c[j] = g[j]
      BY <2>1, <2>2, <2>4
    <3>2. QED
      BY <3>1 DEF Cohorts!KeyBefore
  <2>5. CASE i = k
    <3>1. c[k] < g[k] /\ \A j \in 1..k - 1 : c[j] = g[j]
      BY <2>1, <2>2, <2>5
    <3>2. QED
      BY <3>1 DEF Cohorts!KeyBefore
  <2>6. QED
    BY <2>3, <2>4, <2>5
<1>4. QED
  BY <1>1, <1>2, <1>3

(* Segments with their counts: keys of some length, finitely many, none of  *)
(* them empty.                                                              *)
Segments(counts) ==
  /\ IsFiniteSet(DOMAIN counts)
  /\ \E n \in Nat : DOMAIN counts \subseteq [1..n -> Int]
  /\ counts \in [DOMAIN counts -> Nat \ {0}]

LEMMA LargestFirst ==
  ASSUME NEW counts, Segments(counts)
  PROVE  StrictTotal([c \in DOMAIN counts |->
                        {e \in DOMAIN counts : Cohorts!LargerThan(counts, e, c)}], DOMAIN counts)
<1> DEFINE K == DOMAIN counts
           L(e, c) == Cohorts!LargerThan(counts, e, c)
<1>1. PICK n \in Nat : K \subseteq [1..n -> Int]
  BY DEF Segments
<1>2. \A c \in K : counts[c] \in Nat
  BY DEF Segments
<1>3. \A c \in K : ~L(c, c)
  BY <1>1, <1>2, KeysOrdered DEF Cohorts!LargerThan
<1>4. \A c, e \in K : c # e => L(c, e) \/ L(e, c)
  <2> SUFFICES ASSUME NEW c \in K, NEW e \in K, c # e PROVE L(c, e) \/ L(e, c)
    OBVIOUS
  <2>1. c \in [1..n -> Int] /\ e \in [1..n -> Int]
    BY <1>1
  <2>2. Cohorts!KeyBefore(c, e) \/ Cohorts!KeyBefore(e, c)
    BY <2>1, KeysOrdered
  <2>3. counts[c] > counts[e] \/ counts[e] > counts[c] \/ (counts[c] = counts[e] /\ counts[e] = counts[c])
    BY <1>2
  <2>4. QED
    BY <2>2, <2>3 DEF Cohorts!LargerThan
<1>5. \A c, e, g \in K : L(c, e) /\ L(e, g) => L(c, g)
  <2> SUFFICES ASSUME NEW c \in K, NEW e \in K, NEW g \in K, L(c, e), L(e, g) PROVE L(c, g)
    OBVIOUS
  <2>1. c \in [1..n -> Int] /\ e \in [1..n -> Int] /\ g \in [1..n -> Int]
    BY <1>1
  <2>2. Cohorts!KeyBefore(c, e) /\ Cohorts!KeyBefore(e, g) => Cohorts!KeyBefore(c, g)
    BY <2>1, KeysOrdered
  <2>3. counts[c] \in Nat /\ counts[e] \in Nat /\ counts[g] \in Nat
    BY <1>2
  <2>4. /\ counts[c] > counts[e] \/ (counts[c] = counts[e] /\ Cohorts!KeyBefore(c, e))
        /\ counts[e] > counts[g] \/ (counts[e] = counts[g] /\ Cohorts!KeyBefore(e, g))
    BY DEF Cohorts!LargerThan
  <2>5. counts[c] > counts[g] \/ (counts[c] = counts[g] /\ Cohorts!KeyBefore(c, g))
    BY <2>2, <2>3, <2>4
  <2>6. QED
    BY <2>5 DEF Cohorts!LargerThan
<1> HIDE DEF L
<1>6. StrictTotal([c \in K |-> {e \in K : L(e, c)}], K)
  BY <1>3, <1>4, <1>5 DEF StrictTotal
<1>7. QED
  BY <1>6 DEF L

LEMMA RepresentativesRanked ==
  ASSUME NEW counts, Segments(counts)
  PROVE  /\ Cohorts!Representatives(counts) \subseteq DOMAIN counts
         /\ Cardinality(Cohorts!Representatives(counts)) =
              Cohorts!Min({MaxPersonas, Cardinality(DOMAIN counts)})
         /\ \A r \in Cohorts!Representatives(counts),
               c \in DOMAIN counts \ Cohorts!Representatives(counts) : counts[c] <= counts[r]
<1> DEFINE K == DOMAIN counts
           p == [c \in K |-> {e \in K : Cohorts!LargerThan(counts, e, c)}]
           r == [c \in K |-> Cardinality(p[c])]
           R == Cohorts!Representatives(counts)
<1>1. StrictTotal(p, K) /\ IsFiniteSet(K)
  BY LargestFirst DEF Segments
<1>2. R = {c \in K : r[c] < MaxPersonas}
  <2>1. R = {c \in K : Cohorts!Cardinality({e \in K : Cohorts!LargerThan(counts, e, c)}) < MaxPersonas}
    BY DEF Cohorts!Representatives
  <2>2. \A c \in K : r[c] = Cohorts!Cardinality({e \in K : Cohorts!LargerThan(counts, e, c)})
    BY CohortsCount
  <2> HIDE DEF r
  <2>3. QED
    BY <2>1, <2>2
<1>3. IsRanks(r, K)
  <2>1. IsRanks([c \in K |-> Cardinality(p[c])], K)
    <3> HIDE DEF p, K
    <3> QED BY <1>1, CardinalitiesAreRanks
  <2>2. QED
    BY <2>1
<1>4. Cardinality(R) = IF MaxPersonas <= Cardinality(K) THEN MaxPersonas ELSE Cardinality(K)
  <2>1. MaxPersonas \in Nat
    BY CohortsAssumption
  <2> HIDE DEF r, K, R
  <2>2. QED
    BY <1>1, <1>2, <1>3, <2>1, RankedBelow
<1>5. Cohorts!Min({MaxPersonas, Cardinality(K)}) =
        IF MaxPersonas <= Cardinality(K) THEN MaxPersonas ELSE Cardinality(K)
  <2>1. MaxPersonas \in Nat /\ Cardinality(K) \in Nat
    BY <1>1, CohortsAssumption, FS_CardinalityType
  <2> HIDE DEF K
  <2>2. QED
    BY <2>1 DEF Cohorts!Min
<1>6. ASSUME NEW q \in R, NEW c \in K \ R
      PROVE  counts[c] <= counts[q]
  <2>1. q \in K /\ r[q] < MaxPersonas /\ ~(r[c] < MaxPersonas)
    <3> HIDE DEF r, K, R
    <3> QED BY <1>2, <1>6
  <2>2. counts[c] \in Nat /\ counts[q] \in Nat
    BY <2>1 DEF Segments
  <2>3. CASE counts[c] > counts[q]
    <3>1. c \in p[q]
      BY <2>1, <2>3 DEF Cohorts!LargerThan
    <3>2. Cardinality(p[c]) < Cardinality(p[q])
      <4> HIDE DEF p, K, R
      <4> QED BY <1>1, <2>1, <3>1, LowerRank
    <3>3. r[c] < r[q]
      BY <2>1, <3>2
    <3>4. r[c] \in Int /\ r[q] \in Int /\ MaxPersonas \in Int
      <4>1. r \in [K -> 0..Cardinality(K) - 1]
        BY <1>3 DEF IsRanks
      <4> HIDE DEF r
      <4>2. QED
        BY <2>1, <4>1, CohortsAssumption
    <3>5. QED
      <4> HIDE DEF r
      <4> QED BY <2>1, <3>3, <3>4
  <2>4. QED
    BY <2>2, <2>3
<1>7. R \subseteq K
  <2> HIDE DEF r
  <2> QED BY <1>2
<1>8. QED
  BY <1>4, <1>5, <1>6, <1>7

(* A segment that represents others represents itself.                      *)
LEMMA NearestToItself ==
  ASSUME NEW counts, Segments(counts), NEW r \in Cohorts!Representatives(counts)
  PROVE  Cohorts!Nearest(r, Cohorts!Representatives(counts)) = r
<1> DEFINE R == Cohorts!Representatives(counts)
<1>1. PICK n \in Nat : DOMAIN counts \subseteq [1..n -> Int]
  BY DEF Segments
<1>2. R \subseteq [1..n -> Int]
  BY <1>1, RepresentativesRanked
<1>3. Cohorts!Distance(r, r) = 0
  <2>1. {i \in DOMAIN r : r[i] # r[i]} = {}
    OBVIOUS
  <2>2. QED
    BY <2>1, CohortsCount, FS_EmptySet DEF Cohorts!Distance
<1>4. ASSUME NEW q \in R, q # r
      PROVE  Cohorts!Distance(r, q) > 0
  <2> DEFINE D == {i \in DOMAIN r : r[i] # q[i]}
  <2>1. r \in [1..n -> Int] /\ q \in [1..n -> Int]
    BY <1>2
  <2>2. D # {} /\ D \subseteq 1..n
    <3>1. \E i \in 1..n : r[i] # q[i]
      BY <1>4, <2>1
    <3>2. DOMAIN r = 1..n
      BY <2>1
    <3>3. QED
      BY <3>1, <3>2
  <2>3. IsFiniteSet(D)
    <3>1. IsFiniteSet(1..n)
      BY FS_Interval
    <3> HIDE DEF D
    <3>2. QED
      BY <2>2, <3>1, FS_Subset
  <2>4. Cohorts!Distance(r, q) = Cardinality(D)
    BY CohortsCount DEF Cohorts!Distance
  <2> HIDE DEF D
  <2>5. Cardinality(D) \in Nat /\ Cardinality(D) # 0
    BY <2>2, <2>3, FS_CardinalityType, FS_EmptySet
  <2>6. QED
    BY <2>4, <2>5
<1> DEFINE Near(s) == \A q \in R \ {s} :
             \/ Cohorts!Distance(r, s) < Cohorts!Distance(r, q)
             \/ (Cohorts!Distance(r, s) = Cohorts!Distance(r, q) /\ Cohorts!KeyBefore(s, q))
<1>5. Near(r)
  BY <1>3, <1>4
<1>6. \A s \in R : s # r => ~Near(s)
  <2> SUFFICES ASSUME NEW s \in R, s # r, Near(s) PROVE FALSE
    OBVIOUS
  <2>1. Cohorts!Distance(r, s) < 0 \/ Cohorts!Distance(r, s) = 0
    BY <1>3
  <2>2. Cohorts!Distance(r, s) > 0
    BY <1>4
  <2>3. Cohorts!Distance(r, s) \in Int
    <3>1. r \in [1..n -> Int]
      BY <1>2
    <3>2. IsFiniteSet({i \in DOMAIN r : r[i] # s[i]})
      BY <3>1, FS_Interval, FS_Subset
    <3>3. QED
      BY <3>2, CohortsCount, FS_CardinalityType DEF Cohorts!Distance
  <2>4. QED
    BY <2>1, <2>2, <2>3
<1>7. Cohorts!Nearest(r, R) = CHOOSE s \in R : Near(s)
  BY DEF Cohorts!Nearest
<1>8. QED
  <2> HIDE DEF Near, R
  <2> QED BY <1>5, <1>6, <1>7 DEF R

LEMMA PersonasStandForSegments ==
  ASSUME NEW counts, Segments(counts)
  PROVE  LET weights == Cohorts!Weights(counts) IN
         /\ DOMAIN weights = Cohorts!Representatives(counts)
         /\ \A r \in DOMAIN weights : counts[r] <= weights[r]
<1> DEFINE R == Cohorts!Representatives(counts)
           weights == Cohorts!Weights(counts)
           Group(r) == {c \in DOMAIN counts : Cohorts!Nearest(c, R) = r}
<1>1. DOMAIN weights = R /\ \A r \in R : weights[r] = Cohorts!Total(Cohorts!Restrict(counts, Group(r)))
  BY DEF Cohorts!Weights
<1>2. ASSUME NEW r \in R
      PROVE  counts[r] <= weights[r]
  <2> DEFINE G == Group(r)
             f == [c \in G |-> counts[c]]
  <2>1. weights[r] = Sum(f, G)
    <3>1. Cohorts!Restrict(counts, G) = f /\ DOMAIN f = G
      BY DEF Cohorts!Restrict
    <3> HIDE DEF f, G
    <3>2. Cohorts!Total(f) = Sum(f, G)
      BY <3>1, TotalIsSum
    <3>3. weights[r] = Cohorts!Total(Cohorts!Restrict(counts, G))
      BY <1>1 DEF G
    <3>4. QED
      BY <3>1, <3>2, <3>3
  <2>2. r \in G
    BY NearestToItself, RepresentativesRanked
  <2>3. \A c \in G : f[c] \in Nat /\ f[c] \in Int
    BY DEF Segments
  <2>4. IsFiniteSet(G)
    BY FS_Subset DEF Segments
  <2>5. f[r] = counts[r]
    BY <2>2
  <2> HIDE DEF f, G
  <2>6. Sum(f, G) = f[r] + Sum(f, G \ {r})
    BY <2>2, <2>3, <2>4, SumRemove
  <2>7. IsFiniteSet(G \ {r}) /\ \A c \in G \ {r} : f[c] \in Nat
    BY <2>3, <2>4, FS_RemoveElement
  <2>8. Sum(f, G \ {r}) \in Nat
    BY <2>7, SumNat
  <2>9. f[r] \in Nat
    BY <2>2, <2>3
  <2>10. QED
    BY <2>1, <2>5, <2>6, <2>8, <2>9
<1>3. QED
  BY <1>1, <1>2


(* What the sampler and the projection have made of a distribution.         *)
Sampled ==
  /\ Entered(distribution) /\ sample.total \in PersonaCounts
  /\ \E counts \in Cohorts!AllocatedCounts(distribution, sample.total) :
       sample = [total |-> sample.total, segments |-> Cohorts!Populated(counts)]
CohortsInv ==
  /\ \E n \in Nat : distribution \in [1..n -> Dimensions]
  /\ \/ sample = Cohorts!NoSample /\ projection = Cohorts!NoProjection
     \/ sample # Cohorts!NoSample /\ Sampled
  /\ \/ projection.status \in {"none", "refused"}
     \/ /\ projection.status = "stored"
        /\ projection.weights = Cohorts!Weights(sample.segments)
        /\ Cohorts!Total(projection.weights) = sample.total

(* Empty segments are left out, and nothing else changes.                   *)
LEMMA PopulatedSegments ==
  ASSUME NEW d, Entered(d), NEW total \in Nat, NEW counts, Allocation(d, total, counts)
  PROVE  LET segments == Cohorts!Populated(counts) IN
         /\ Segments(segments)
         /\ \A c \in DOMAIN segments : c \in DOMAIN counts /\ segments[c] = counts[c]
         /\ Cohorts!Total(segments) = Sum(counts, DOMAIN counts)
<1> DEFINE C == Cohorts!Combinations(d)
           K == {c \in C : counts[c] > 0}
           segments == Cohorts!Populated(counts)
<1>1. counts \in [C -> Nat] /\ IsFiniteSet(C) /\ DOMAIN counts = C
  BY WeightsOfCombinations DEF Allocation
<1>2. segments = [c \in K |-> counts[c]]
  BY <1>1 DEF Cohorts!Populated, Cohorts!Restrict
<1>3. K \subseteq C /\ IsFiniteSet(K)
  BY <1>1, FS_Subset
<1>4. \E n \in Nat : C \subseteq [1..n -> Int]
  <2>1. PICK n \in Nat : DOMAIN d = 1..n
    BY DEF Entered
  <2>2. C \subseteq [1..n -> Nat]
    <3>1. C = Choices(Buckets(d), AnyBucket(d), DOMAIN d)
      BY CombinationsAreChoices
    <3>2. ASSUME NEW c \in C
          PROVE  c \in [1..n -> Nat]
      <4>1. /\ c = [i \in 1..n |-> c[i]]
            /\ \A i \in 1..n : c[i] \in 1..Len(d[i])
        <5> HIDE DEF C
        <5> QED BY <2>1, <3>1, <3>2 DEF Choices, Buckets
      <4>2. \A i \in 1..n : c[i] \in Nat
        BY <2>1, <4>1, EnteredWeights
      <4>3. QED
        BY <4>1, <4>2
    <3>3. QED
      BY <3>2
  <2>3. C \subseteq [1..n -> Int]
    <3>1. [1..n -> Nat] \subseteq [1..n -> Int]
      OBVIOUS
    <3> HIDE DEF C
    <3>2. QED
      BY <2>2, <3>1
  <2>4. QED
    BY <2>3
<1> HIDE DEF C
<1>5. /\ DOMAIN segments = K
      /\ \A c \in K : segments[c] = counts[c] /\ segments[c] \in Nat \ {0} /\ c \in C
  BY <1>1, <1>2
<1>6. Segments(segments)
  <2>1. segments \in [K -> Nat \ {0}]
    <3>1. \A c \in K : counts[c] \in Nat \ {0}
      BY <1>1
    <3>2. QED
      BY <1>2, <3>1
  <2>2. \E n \in Nat : K \subseteq [1..n -> Int]
    BY <1>3, <1>4
  <2> HIDE DEF segments, K
  <2>3. QED
    BY <1>3, <1>5, <2>1, <2>2 DEF Segments
<1>7. Cohorts!Total(segments) = Sum(counts, C)
  <2>1. Cohorts!Total(segments) = Sum(segments, K)
    BY <1>5, TotalIsSum
  <2>2. \A c \in K : counts[c] \in Int /\ counts[c] = segments[c]
    BY <1>1, <1>5
  <2>3. (\A c \in C : counts[c] \in Int) /\ (\A c \in C \ K : counts[c] = 0)
    BY <1>1
  <2> HIDE DEF segments, K
  <2>4. Sum(counts, K) = Sum(segments, K)
    BY <1>3, <2>2, SumEqual
  <2>5. Sum(counts, C) = Sum(counts, K)
    BY <1>1, <1>3, <2>3, SumOverPart
  <2>6. QED
    BY <2>1, <2>4, <2>5
<1>8. QED
  <2> HIDE DEF segments, K
  <2> QED BY <1>1, <1>5, <1>6, <1>7 DEF segments

LEMMA SampledFits ==
  ASSUME Sampled
  PROVE  LET counts == sample.segments IN
         /\ Segments(counts)
         /\ sample.total \in Nat
         /\ \A c \in DOMAIN counts :
              counts[c] * Cohorts!WholeOf(distribution)
                - sample.total * Cohorts!ComboWeight(distribution, c)
                \in -Cohorts!WholeOf(distribution)..Cohorts!WholeOf(distribution)
         /\ (\A i \in DOMAIN distribution : Cohorts!Total(distribution[i]) = Whole) =>
              Cohorts!Total(counts) = sample.total
<1>1. /\ Entered(distribution) /\ sample.total \in Nat
  BY CohortsAssumption DEF Sampled
<1>2. PICK counts \in Cohorts!AllocatedCounts(distribution, sample.total) :
        sample = [total |-> sample.total, segments |-> Cohorts!Populated(counts)]
  BY DEF Sampled
<1>3. Allocation(distribution, sample.total, counts)
  BY <1>1, AllocatedCountsFit
<1>4. sample.segments = Cohorts!Populated(counts)
  BY <1>2
<1> DEFINE segments == Cohorts!Populated(counts)
<1>5. /\ Segments(segments)
      /\ \A c \in DOMAIN segments : c \in DOMAIN counts /\ segments[c] = counts[c]
      /\ Cohorts!Total(segments) = Sum(counts, DOMAIN counts)
  BY <1>1, <1>3, PopulatedSegments
<1> HIDE DEF segments
<1>6. DOMAIN counts = Cohorts!Combinations(distribution)
  BY <1>3 DEF Allocation
<1>7. \A c \in DOMAIN segments :
        segments[c] * Cohorts!WholeOf(distribution)
          - sample.total * Cohorts!ComboWeight(distribution, c)
          \in -Cohorts!WholeOf(distribution)..Cohorts!WholeOf(distribution)
  BY <1>3, <1>5, <1>6 DEF Allocation
<1>8. (\A i \in DOMAIN distribution : Cohorts!Total(distribution[i]) = Whole) =>
        Cohorts!Total(segments) = sample.total
  BY <1>3, <1>5, <1>6 DEF Allocation
<1>9. sample.segments = segments
  BY <1>4 DEF segments
<1>10. QED
  BY <1>1, <1>5, <1>7, <1>8, <1>9

LEMMA CohortsInitial == Cohorts!PersonasInit => CohortsInv
<1> SUFFICES ASSUME Cohorts!PersonasInit PROVE CohortsInv
  OBVIOUS
<1>1. distribution \in [1..0 -> Dimensions]
  BY DEF Cohorts!PersonasInit
<1>2. QED
  BY <1>1 DEF CohortsInv, Cohorts!PersonasInit, Cohorts!NoProjection

LEMMA CohortsInductive ==
  CohortsInv /\ [Cohorts!PersonasNext]_(Cohorts!personaVars) => CohortsInv'
<1> SUFFICES ASSUME CohortsInv, [Cohorts!PersonasNext]_(Cohorts!personaVars)
             PROVE  CohortsInv'
  OBVIOUS
<1>1. ASSUME NEW n \in 0..MaxDimensions, NEW d \in [1..n -> Dimensions], NEW total \in PersonaCounts,
             Cohorts!SampleCohorts(d, total)
      PROVE  CohortsInv'
  <2>1. n \in Nat
    OBVIOUS
  <2>2. PICK counts \in Cohorts!AllocatedCounts(d, total) :
          sample' = [total |-> total, segments |-> Cohorts!Populated(counts)]
    BY <1>1 DEF Cohorts!SampleCohorts
  <2>3. distribution' = d /\ projection' = projection /\ sample = Cohorts!NoSample
    BY <1>1 DEF Cohorts!SampleCohorts
  <2>4. projection = Cohorts!NoProjection /\ projection.status = "none"
    BY <2>3 DEF CohortsInv, Cohorts!NoProjection
  <2>5. Entered(d)
    BY <1>1, <2>1 DEF Cohorts!SampleCohorts, Entered
  <2>6. sample'.total = total
    BY <2>2
  <2>7. Sampled'
    BY <2>2, <2>3, <2>5, <2>6 DEF Sampled
  <2>8. \E m \in Nat : distribution' \in [1..m -> Dimensions]
    BY <2>1, <2>3
  <2>9. projection' = Cohorts!NoProjection /\ projection'.status = "none"
    BY <2>3, <2>4
  <2>10. QED
    BY <2>7, <2>8, <2>9 DEF CohortsInv, Cohorts!NoSample, Cohorts!NoProjection
<1>2. CASE Cohorts!BuildRepresentativePersonas
  <2> DEFINE weights == Cohorts!Weights(sample.segments)
  <2>1. /\ sample # Cohorts!NoSample
        /\ projection' = IF Cohorts!Refused(weights, sample.total)
                         THEN [status |-> "refused", weights |-> <<>>]
                         ELSE [status |-> "stored", weights |-> weights]
        /\ UNCHANGED <<distribution, sample>>
    BY <1>2 DEF Cohorts!BuildRepresentativePersonas
  <2>2. Sampled /\ Sampled'
    BY <2>1 DEF CohortsInv, Sampled
  <2>3. \/ projection'.status = "refused"
        \/ /\ projection'.status = "stored" /\ projection'.weights = weights
           /\ Cohorts!Total(weights) = sample.total
    BY <2>1 DEF Cohorts!Refused
  <2> HIDE DEF weights
  <2>4. QED
    BY <2>1, <2>2, <2>3 DEF CohortsInv, weights
<1>3. CASE UNCHANGED Cohorts!personaVars
  BY <1>3 DEF CohortsInv, Sampled, Cohorts!personaVars
<1>4. QED
  BY <1>1, <1>2, <1>3 DEF Cohorts!PersonasNext

LEMMA CohortsSound == CohortsInv => Cohorts!CohortsAddUp /\ Cohorts!PersonasTypeOK
<1> SUFFICES ASSUME CohortsInv PROVE Cohorts!CohortsAddUp /\ Cohorts!PersonasTypeOK
  OBVIOUS
<1> DEFINE counts == sample.segments
           weights == projection.weights
<1>1. CASE sample = Cohorts!NoSample /\ projection = Cohorts!NoProjection
  <2>1. /\ sample.total = 0 /\ counts = <<>> /\ projection.status = "none"
    BY <1>1 DEF Cohorts!NoSample, Cohorts!NoProjection
  <2>2. Cohorts!Total(counts) = 0
    <3>1. Cohorts!Total(<<>>) = Sum(<<>>, DOMAIN <<>>)
      BY TotalIsSum
    <3>2. DOMAIN <<>> = {}
      OBVIOUS
    <3>3. QED
      BY <2>1, <3>1, <3>2, SumEmpty
  <2>3. \A i \in DOMAIN distribution : distribution[i] \in Dimensions
    BY DEF CohortsInv
  <2>4. QED
    BY <2>1, <2>2, <2>3 DEF Cohorts!CohortsAddUp, Cohorts!SampleAddsUp, Cohorts!PersonasTypeOK
<1>2. CASE Sampled
  <2>1. /\ Segments(counts)
        /\ sample.total \in Nat
        /\ \A c \in DOMAIN counts :
              counts[c] * Cohorts!WholeOf(distribution)
                - sample.total * Cohorts!ComboWeight(distribution, c)
                \in -Cohorts!WholeOf(distribution)..Cohorts!WholeOf(distribution)
        /\ (\A i \in DOMAIN distribution : Cohorts!Total(distribution[i]) = Whole) =>
              Cohorts!Total(counts) = sample.total
    BY <1>2, SampledFits
  <2>2. ASSUME projection.status = "stored"
        PROVE  /\ Cohorts!Total(weights) = sample.total
               /\ Cohorts!Cardinality(DOMAIN weights) =
                    Cohorts!Min({MaxPersonas, Cohorts!Cardinality(DOMAIN counts)})
               /\ \A r \in DOMAIN weights, c \in DOMAIN counts \ DOMAIN weights :
                    counts[c] <= counts[r] /\ counts[r] <= weights[r]
    <3>1. weights = Cohorts!Weights(counts) /\ Cohorts!Total(weights) = sample.total
      BY <2>2 DEF CohortsInv
    <3> HIDE DEF weights, counts
    <3>2. /\ DOMAIN weights = Cohorts!Representatives(counts)
          /\ \A r \in DOMAIN weights : counts[r] <= weights[r]
      BY <2>1, <3>1, PersonasStandForSegments
    <3>3. /\ Cardinality(DOMAIN weights) = Cohorts!Min({MaxPersonas, Cardinality(DOMAIN counts)})
          /\ \A r \in DOMAIN weights, c \in DOMAIN counts \ DOMAIN weights : counts[c] <= counts[r]
      BY <2>1, <3>2, RepresentativesRanked
    <3>4. Cohorts!Cardinality(DOMAIN weights) =
            Cohorts!Min({MaxPersonas, Cohorts!Cardinality(DOMAIN counts)})
      BY <3>3, CohortsCount
    <3>5. QED
      BY <3>1, <3>2, <3>3, <3>4
  <2>3. Cohorts!CohortsAddUp
    <3>1. (\A i \in DOMAIN distribution : Cohorts!Total(distribution[i]) = Whole) =>
            Cohorts!SampleAddsUp
      BY <2>1 DEF Cohorts!SampleAddsUp
    <3>2. QED
      BY <2>1, <2>2, <3>1 DEF Cohorts!CohortsAddUp
  <2>4. Cohorts!PersonasTypeOK
    <3>1. \A i \in DOMAIN distribution : distribution[i] \in Dimensions
      BY DEF CohortsInv
    <3>2. \A c \in DOMAIN counts : counts[c] \in Nat \ {0}
      BY <2>1 DEF Segments
    <3>3. sample.total \in PersonaCounts /\ projection.status \in {"none", "refused", "stored"}
      BY <1>2 DEF CohortsInv, Sampled
    <3>4. QED
      BY <3>1, <3>2, <3>3 DEF Cohorts!PersonasTypeOK
  <2>5. QED
    BY <2>3, <2>4
<1>3. QED
  BY <1>1, <1>2 DEF CohortsInv

(* For every set of distributions of whole weights and every seed: when the *)
(* weights make up the whole, the segments have the persona count that was  *)
(* asked for, each within one of its exact share; and the personas of a     *)
(* launch are as many as allowed, have that count, and stand for the        *)
(* largest segments (services/personas.py).                                 *)
THEOREM CohortsAlwaysAddUp == Cohorts!PersonasSpec => []Cohorts!CohortsAddUp
<1>1. QED
  BY CohortsInitial, CohortsInductive, CohortsSound, PTL DEF Cohorts!PersonasSpec

-----------------------------------------------------------------------------
(* Batches of personas.                                                     *)
LEMMA BatchesCount == \A S : Batches!Cardinality(S) = Cardinality(S)
  BY DEF Batches!Cardinality, Cardinality

Weighed(P) == [c \in P |-> c.weight]

LEMMA WeightIsSum ==
  ASSUME NEW P, IsFiniteSet(P), NEW S \in SUBSET P
  PROVE  Batches!TotalWeight(S) = Sum(Weighed(P), S)
<1> DEFINE w == Weighed(P)
           g == CHOOSE g : g = [s \in SUBSET S |->
                  IF s = {} THEN 0 ELSE Taken(s).weight + g[s \ {Taken(s)}]]
<1>1. Batches!TotalWeight(S) = g[S]
  BY DEF Batches!TotalWeight, Batches!MapThenSumSet, Batches!MapThenFoldSet, Taken
<1>2. IsFiniteSet(S)
  BY FS_Subset
<1>3. \A s \in SUBSET S : s # {} => w[Taken(s)] = Taken(s).weight
  BY TakenOut DEF Weighed
<1>4. \A k : Running(k, w, S) <=>
        k = [s \in SUBSET S |-> IF s = {} THEN 0 ELSE Taken(s).weight + k[s \ {Taken(s)}]]
  <2> HIDE DEF w
  <2> QED BY <1>3 DEF Running
<1>5. Running(g, w, S)
  <2>1. PICK k : Running(k, w, S)
    BY <1>2, RunningExists
  <2> HIDE DEF w
  <2>2. QED
    BY <1>4, <2>1
<1>6. Sum(w, S) = g[S]
  <2> HIDE DEF g, w
  <2> QED BY <1>2, <1>5, SumIsRunning
<1>7. QED
  BY <1>1, <1>6

(* What the rows of a run make, and what the batching accepts of it.        *)
Personas(P) == IsFiniteSet(P) /\ P \subseteq Batches!Persona
Batched(P) == Personas(P) /\ Batches!Batchable(P)

LEMMA WeightOfPart ==
  ASSUME NEW P, Personas(P), NEW S \in SUBSET P
  PROVE  /\ Batches!TotalWeight(S) \in Nat
         /\ Batches!TotalWeight(S) <= Batches!TotalWeight(P)
         /\ S # {} => Batches!TotalWeight(S) > 0
<1> DEFINE w == Weighed(P)
<1>1. \A c \in P : w[c] \in Nat \ {0}
  BY BatchesAssumption DEF Personas, Weighed, Batches!Persona
<1>2. IsFiniteSet(P) /\ IsFiniteSet(S) /\ IsFiniteSet(P \ S)
  BY FS_Subset DEF Personas
<1>3. Batches!TotalWeight(S) = Sum(w, S) /\ Batches!TotalWeight(P) = Sum(w, P)
  BY <1>2, WeightIsSum
<1> HIDE DEF w
<1>4. Sum(w, S) \in Nat /\ Sum(w, P \ S) \in Nat
  <2>1. \A c \in S : w[c] \in Nat
    BY <1>1
  <2>2. \A c \in P \ S : w[c] \in Nat
    BY <1>1
  <2>3. QED
    BY <1>2, <2>1, <2>2, SumNat
<1>5. Sum(w, P) = Sum(w, S) + Sum(w, P \ S)
  <2>1. \A c \in (P \ S) \cup S : w[c] \in Int
    BY <1>1
  <2>2. S \cap (P \ S) = {} /\ S \cup (P \ S) = P
    OBVIOUS
  <2>3. Sum(w, S \cup (P \ S)) = Sum(w, S) + Sum(w, P \ S)
    BY <1>2, <2>1, <2>2, SumUnion
  <2>4. QED
    BY <2>2, <2>3
<1>6. ASSUME S # {} PROVE Sum(w, S) > 0
  <2>1. PICK c \in S : TRUE
    BY <1>6
  <2>2. \A e \in S : w[e] \in Int
    BY <1>1
  <2>3. Sum(w, S) = w[c] + Sum(w, S \ {c})
    BY <1>2, <2>2, SumRemove
  <2>4. Sum(w, S \ {c}) \in Nat
    <3>1. IsFiniteSet(S \ {c}) /\ \A e \in S \ {c} : w[e] \in Nat
      BY <1>1, <1>2, FS_Subset
    <3>2. QED
      BY <3>1, SumNat
  <2>5. w[c] \in Nat \ {0}
    BY <1>1
  <2>6. QED
    BY <2>3, <2>4, <2>5
<1>7. QED
  BY <1>3, <1>4, <1>5, <1>6

(* The personas of P in the order of their indexes.                         *)
Earlier(P) == [c \in P |-> {d \in P : d.index < c.index}]
Canonical(P) ==
  [n \in 1..Batches!Cardinality(P) |->
     CHOOSE c \in P : Batches!Cardinality({d \in P : d.index < c.index}) = n - 1]
InOrder(s) ==
  \A i, j \in DOMAIN s : i < j => s[i].index < s[j].index /\ s[i].id # s[j].id

LEMMA CanonicalInOrder ==
  ASSUME NEW P, Batched(P)
  PROVE  /\ Cardinality(P) \in Nat \ {0}
         /\ Canonical(P) \in [1..Cardinality(P) -> P]
         /\ InOrder(Canonical(P))
<1> DEFINE N == Cardinality(P)
           p == Earlier(P)
           can == Canonical(P)
           rank == [c \in P |-> Cardinality(p[c])]
<1>1. IsFiniteSet(P) /\ P # {} /\ \A c \in P : c.index \in Int
  BY DEF Batched, Personas, Batches!Batchable, Batches!Persona
<1>2. \A c, d \in P : c # d => c.index # d.index /\ c.id # d.id
  BY DEF Batched, Batches!Batchable
<1>3. N \in Nat \ {0}
  BY <1>1, FS_CardinalityType, FS_EmptySet
<1>4. \A c \in P : p[c] = {d \in P : d.index < c.index}
  BY DEF Earlier
<1>5. StrictTotal(p, P)
  BY <1>1, <1>2, <1>4 DEF StrictTotal
<1>6. IsRanks(rank, P)
  BY <1>1, <1>5, CardinalitiesAreRanks
<1>7. \A c \in P : rank[c] = Cardinality(p[c])
  OBVIOUS
<1>8. \A n \in 1..N : \E c \in P : Batches!Cardinality({d \in P : d.index < c.index}) = n - 1
  <2> SUFFICES ASSUME NEW n \in 1..N
               PROVE  \E c \in P : Cardinality({d \in P : d.index < c.index}) = n - 1
    BY BatchesCount
  <2> HIDE DEF p, can, rank, N
  <2>1. n - 1 \in 0..N - 1
    BY <1>3
  <2>2. PICK c \in P : rank[c] = n - 1
    BY <1>6, <2>1 DEF IsRanks, N
  <2>3. QED
    BY <1>4, <1>7, <2>2
<1> DEFINE Nth(n) == CHOOSE c \in P : Batches!Cardinality({d \in P : d.index < c.index}) = n - 1
<1>9. can = [n \in 1..N |-> Nth(n)]
  BY BatchesCount DEF Canonical
<1>10. \A n \in 1..N : Nth(n) \in P /\ Cardinality(p[Nth(n)]) = n - 1
  <2> SUFFICES ASSUME NEW n \in 1..N
               PROVE  Nth(n) \in P /\ Cardinality(p[Nth(n)]) = n - 1
    OBVIOUS
  <2>1. Nth(n) \in P /\ Batches!Cardinality({d \in P : d.index < Nth(n).index}) = n - 1
    BY <1>8
  <2> HIDE DEF Nth, p, N
  <2>2. QED
    BY <1>4, <2>1, BatchesCount
<1>11. can \in [1..N -> P] /\ \A n \in 1..N : can[n] \in P /\ Cardinality(p[can[n]]) = n - 1
  <2> HIDE DEF Nth, p, can, N
  <2> QED BY <1>9, <1>10
<1> HIDE DEF p, can, rank, N
<1>12. can \in [1..N -> P] /\ DOMAIN can = 1..N
  BY <1>11
<1>13. InOrder(can)
  <2> SUFFICES ASSUME NEW i \in 1..N, NEW j \in 1..N, i < j
               PROVE  can[i].index < can[j].index /\ can[i].id # can[j].id
    BY <1>12 DEF InOrder
  <2> DEFINE c == can[i]
             d == can[j]
  <2>1. c \in P /\ d \in P /\ Cardinality(p[c]) = i - 1 /\ Cardinality(p[d]) = j - 1
    BY <1>11
  <2> HIDE DEF c, d
  <2>2. c # d
    BY <2>1, <1>3
  <2>3. d \notin p[c]
    <3>1. d \in p[c] => Cardinality(p[d]) < Cardinality(p[c])
      BY <1>1, <1>5, <2>1, LowerRank
    <3>2. QED
      BY <2>1, <3>1, <1>3
  <2>4. ~(d.index < c.index)
    BY <1>4, <2>1, <2>3
  <2>5. QED
    BY <1>1, <1>2, <2>1, <2>2, <2>4 DEF c, d
<1>14. QED
  BY <1>3, <1>12, <1>13 DEF N, can

(* The batches of P: where they start in the canonical order, and what is   *)
(* true of any sequence of batches that the code cuts.                      *)
CutAt(can, n) ==
  SubSeq(can, (n - 1) * BatchSize + 1, Batches!Min({n * BatchSize, Len(can)}))
CutInto(b, m) ==
  /\ m \in Nat /\ DOMAIN b = 1..m /\ Len(b) = m
  /\ \A n \in 1..m :
       /\ b[n] \in Seq(Batches!Persona) /\ Len(b[n]) \in 1..BatchSize
       /\ n < m => Len(b[n]) = BatchSize
  /\ \A k, n \in 1..m : \A i \in 1..Len(b[k]), j \in 1..Len(b[n]) :
       k < n \/ (k = n /\ i < j) => b[k][i].index < b[n][j].index /\ b[k][i].id # b[n][j].id
WellCut(b) == \E m : CutInto(b, m)

LEMMA LesserOf ==
  ASSUME NEW a \in Int, NEW b \in Int
  PROVE  Batches!Min({a, b}) = IF a <= b THEN a ELSE b
<1> DEFINE m == IF a <= b THEN a ELSE b
<1>1. m \in {a, b} /\ \A y \in {a, b} : m <= y
  OBVIOUS
<1>2. \A x \in {a, b} : (\A y \in {a, b} : x <= y) => x = m
  OBVIOUS
<1>3. QED
  BY <1>1, <1>2 DEF Batches!Min

(* Where batches begin and end.                                             *)
LEMMA Ends ==
  ASSUME NEW N \in Nat \ {0}, NEW B \in Nat \ {0}
  PROVE  LET m == (N + B - 1) \div B IN
         /\ m \in Nat
         /\ \A n \in 1..m : (n - 1) * B \in Nat /\ (n - 1) * B < N
                             /\ n * B = (n - 1) * B + B /\ (n < m => n * B < N)
         /\ \A k, n \in 1..m : k < n => k * B <= (n - 1) * B
<1> DEFINE x == N + B - 1
           m == x \div B
           r == (x % B)
<1>1. x \in Nat /\ x = (B * m) + r /\ r \in 0..B - 1 /\ m \in Int
  BY SMT
<1>2. m \in Nat
  <2> DEFINE q == m
  <2>1. q \in Int /\ r \in Int /\ r < B /\ (B * q) + r \in Nat
    BY <1>1
  <2> HIDE DEF m, r, x, q
  <2>2. \A b, z, s \in Int : b > 0 /\ s < b /\ (b * z) + s >= 0 => z >= 0
    BY ONLY SMT
  <2>3. q >= 0
    BY <2>1, <2>2
  <2>4. QED
    BY <2>1, <2>3 DEF q
<1>3. B * m <= N + B - 1
  BY <1>1
<1> HIDE DEF m, r
<1>4. \A a, b, c \in Int : a <= b /\ c > 0 => a * c <= b * c
  BY ONLY SMT
<1>5. \A a, c \in Int : a * c \in Int /\ (a - 1) * c = a * c - c /\ c * a = a * c
  BY ONLY SMT
<1>6. ASSUME NEW n \in 1..m
      PROVE  (n - 1) * B \in Nat /\ (n - 1) * B < N
              /\ n * B = (n - 1) * B + B /\ (n < m => n * B < N)
  <2>1. n \in Int /\ m \in Int /\ B \in Int /\ 0 <= n - 1 /\ n - 1 <= m - 1
    BY <1>2
  <2>2. (n - 1) * B <= (m - 1) * B /\ 0 * B <= (n - 1) * B
    BY <1>4, <2>1
  <2>3. (m - 1) * B = m * B - B /\ m * B = B * m /\ (n - 1) * B = n * B - B
        /\ m * B \in Int /\ n * B \in Int
    BY <1>5, <2>1
  <2>4. (m - 1) * B < N
    BY <1>3, <2>3
  <2>5. n < m => n * B <= (m - 1) * B
    BY <1>4, <2>1
  <2>6. QED
    BY <2>2, <2>3, <2>4, <2>5
<1>7. \A k, n \in 1..m : k < n => k * B <= (n - 1) * B
  <2> SUFFICES ASSUME NEW k \in 1..m, NEW n \in 1..m, k < n PROVE k * B <= (n - 1) * B
    OBVIOUS
  <2>1. k \in Int /\ n - 1 \in Int /\ k <= n - 1 /\ B \in Int
    BY <1>2
  <2>2. QED
    BY <1>4, <2>1
<1>8. QED
  BY <1>2, <1>6, <1>7 DEF m

LEMMA CutInOrder ==
  ASSUME NEW P, Batched(P)
  PROVE  WellCut(Batches!BuildPersonaBatches(P))
<1> DEFINE N == Cardinality(P)
           can == Canonical(P)
           m == (N + BatchSize - 1) \div BatchSize
           b == Batches!BuildPersonaBatches(P)
<1>1. N \in Nat \ {0} /\ can \in [1..N -> P] /\ InOrder(can)
  BY CanonicalInOrder
<1>2. can \in Seq(P) /\ Len(can) = N
  <2> HIDE DEF can, N
  <2> QED BY <1>1
<1>3. can = [n \in 1..Batches!Cardinality(P) |->
               CHOOSE c \in P : Batches!Cardinality({d \in P : d.index < c.index}) = n - 1]
  BY DEF Canonical
<1>4. b = [n \in 1..m |-> CutAt(can, n)]
  <2>1. b = [n \in 1..((Len(can) + BatchSize - 1) \div BatchSize) |-> CutAt(can, n)]
    BY <1>3 DEF Batches!BuildPersonaBatches, CutAt
  <2>2. QED
    BY <1>2, <2>1
<1>5. BatchSize \in Nat \ {0}
  BY BatchesAssumption
<1>6. /\ m \in Nat
      /\ \A n \in 1..m : (n - 1) * BatchSize \in Nat /\ (n - 1) * BatchSize < N
                          /\ n * BatchSize = (n - 1) * BatchSize + BatchSize
                          /\ (n < m => n * BatchSize < N)
      /\ \A k, n \in 1..m : k < n => k * BatchSize <= (n - 1) * BatchSize
  BY <1>1, <1>5, Ends
<1>7. \A c \in P : c \in Batches!Persona
  BY DEF Batched, Personas
<1> HIDE DEF m, can, N, b
<1>8. DOMAIN b = 1..m /\ Len(b) = m /\ \A n \in 1..m : b[n] = CutAt(can, n)
  BY <1>4, <1>6
<1>9. ASSUME NEW n \in 1..m
      PROVE  /\ b[n] \in Seq(P) /\ Len(b[n]) \in 1..BatchSize
             /\ n < m => Len(b[n]) = BatchSize
             /\ (n - 1) * BatchSize + Len(b[n]) <= N
             /\ \A i \in 1..Len(b[n]) : b[n][i] = can[(n - 1) * BatchSize + i]
  <2> DEFINE from == (n - 1) * BatchSize
             to == Batches!Min({n * BatchSize, Len(can)})
  <2>1. from \in Nat /\ from < N /\ n * BatchSize = from + BatchSize /\ (n < m => n * BatchSize < N)
    BY <1>6
  <2>2. to = IF n * BatchSize <= N THEN n * BatchSize ELSE N
    BY <1>1, <1>2, <1>5, <2>1, LesserOf
  <2>3. b[n] = SubSeq(can, from + 1, to)
    BY <1>8 DEF CutAt
  <2> HIDE DEF from, to
  <2>4. /\ to \in Nat /\ from + 1 <= to /\ to <= N /\ to - from \in 1..BatchSize
        /\ n < m => to = from + BatchSize
    BY <1>1, <1>5, <2>1, <2>2
  <2>5. \A i \in from + 1 .. to : can[i] \in P
    BY <1>1, <2>1, <2>4
  <2>6. /\ SubSeq(can, from + 1, to) \in Seq(P)
        /\ Len(SubSeq(can, from + 1, to)) = IF from + 1 <= to THEN to - (from + 1) + 1 ELSE 0
        /\ \A i \in 1 .. to - (from + 1) + 1 :
             SubSeq(can, from + 1, to)[i] = can[from + 1 + i - 1]
    <3>1. from + 1 \in Int /\ to \in Int
      BY <2>1, <2>4
    <3>2. QED
      BY <2>5, <3>1, SubSeqProperties
  <2>7. to - (from + 1) + 1 = to - from /\ \A i \in Int : from + 1 + i - 1 = from + i
    BY <2>1, <2>4
  <2>8. b[n] \in Seq(P) /\ Len(b[n]) = to - from /\ \A i \in 1..to - from : b[n][i] = can[from + i]
    <3>1. \A i \in 1..to - from : i \in Int /\ i \in 1..to - (from + 1) + 1
      BY <2>7
    <3>2. QED
      BY <2>3, <2>4, <2>6, <2>7, <3>1
  <2>9. from + Len(b[n]) <= N /\ (n < m => Len(b[n]) = BatchSize) /\ Len(b[n]) \in 1..BatchSize
    BY <2>1, <2>4, <2>8, <1>1, <1>5
  <2>10. QED
    BY <2>8, <2>9 DEF from
<1>10. ASSUME NEW k \in 1..m, NEW n \in 1..m,
              NEW i \in 1..Len(b[k]), NEW j \in 1..Len(b[n]), k < n \/ (k = n /\ i < j)
       PROVE  b[k][i].index < b[n][j].index /\ b[k][i].id # b[n][j].id
  <2> DEFINE u == (k - 1) * BatchSize + i
             v == (n - 1) * BatchSize + j
  <2>1. b[k][i] = can[u] /\ b[n][j] = can[v]
    BY <1>9
  <2>2. /\ Len(b[k]) \in 1..BatchSize /\ Len(b[n]) \in 1..BatchSize
        /\ (k - 1) * BatchSize + Len(b[k]) <= N /\ (n - 1) * BatchSize + Len(b[n]) <= N
    BY <1>9
  <2>3. (k - 1) * BatchSize \in Nat /\ (n - 1) * BatchSize \in Nat
        /\ k * BatchSize = (k - 1) * BatchSize + BatchSize
        /\ (k < n => k * BatchSize <= (n - 1) * BatchSize)
    BY <1>6
  <2>4. u \in 1..N /\ v \in 1..N /\ u < v
    <3> DEFINE s == (k - 1) * BatchSize
               t == (n - 1) * BatchSize
    <3>1. s \in Nat /\ t \in Nat /\ (k < n => s + BatchSize <= t) /\ (k = n => s = t)
      BY <2>3
    <3>2. s + Len(b[k]) <= N /\ t + Len(b[n]) <= N /\ u = s + i /\ v = t + j
      BY <2>2
    <3> HIDE DEF s, t, u, v
    <3>3. i \in Nat \ {0} /\ j \in Nat \ {0} /\ i <= Len(b[k]) /\ j <= Len(b[n])
          /\ Len(b[k]) \in Nat /\ Len(b[n]) \in Nat /\ Len(b[k]) <= BatchSize
      BY <2>2, <1>5
    <3>4. QED
      BY <3>1, <3>2, <3>3, <1>1, <1>5, <1>10
  <2>5. DOMAIN can = 1..N
    BY <1>1
  <2> HIDE DEF u, v
  <2>6. QED
    BY <1>1, <2>1, <2>4, <2>5 DEF InOrder
<1>11. \A n \in 1..m : b[n] \in Seq(Batches!Persona)
  <2> SUFFICES ASSUME NEW n \in 1..m PROVE b[n] \in Seq(Batches!Persona)
    OBVIOUS
  <2>1. b[n] \in Seq(P) /\ P \subseteq Batches!Persona
    BY <1>7, <1>9
  <2>2. QED
    BY <2>1, SeqMonotonic
<1>12. CutInto(b, m)
  BY <1>6, <1>8, <1>9, <1>10, <1>11 DEF CutInto
<1>13. QED
  BY <1>12 DEF b, WellCut

(* Rows as they are written or edited; their contexts are personas.         *)
RowsTypeOK ==
  /\ DOMAIN rows \subseteq 1..(Launched + 1)
  /\ \A p \in DOMAIN rows :
       rows[p].index \in 0..Launched /\ rows[p].weight \in RowWeights
         /\ rows[p].attributes \in Batches!Attributes

(* A stage that has run has left what the stages before it were asked for:  *)
(* the manifest is that of batches which the code cuts, the queue and the   *)
(* answers are about those batches, and every batch is answered before the  *)
(* answers are added up.                                                    *)
ManifestFits ==
  IF pipeline \in {"launch", "none", "failed", "batching"}
  THEN manifest = Batches!NoManifest
  ELSE \E b : WellCut(b) /\ manifest = Batches!Manifest(b)
QueueFits ==
  /\ pipeline \in {"launch", "none", "failed", "batching", "scenario"} =>
       DOMAIN queued = {} /\ DOMAIN estimates = {}
  /\ DOMAIN queued \subseteq DOMAIN manifest.outputHash
  /\ \A n \in DOMAIN queued : queued[n] = manifest.outputHash[n].personas
AnswersTo(e, batch) ==
  /\ e.asked = batch
  /\ DOMAIN e.results = Batches!Indexes(Batches!Range(batch))
  /\ \A i \in DOMAIN e.results : e.results[i].completion \in Completions
EstimatesFit ==
  /\ DOMAIN estimates \subseteq DOMAIN queued
  /\ \A n \in DOMAIN estimates : AnswersTo(estimates[n], manifest.outputHash[n].personas)
  /\ pipeline \in {"aggregation", "report", "succeeded"} =>
       DOMAIN estimates = DOMAIN manifest.outputHash
BucketsOf(a) == Batches!FoldFunction(+, 0, a.buckets)
Counted(a) ==
  /\ a.total \in Nat \ {0}
  /\ BucketsOf(a) = a.total
  /\ \A h \in DOMAIN a.issues : a.issues[h] \in 1..a.total
  /\ DOMAIN a.issues \subseteq hypotheses
AggregationFits ==
  /\ IF pipeline \in {"report", "succeeded"} THEN Counted(aggregation)
     ELSE aggregation = Batches!NoAggregation
  /\ IF pipeline = "succeeded" THEN affected \in 0..aggregation.total ELSE affected = 0

BatchesInv ==
  /\ RowsTypeOK /\ edits \in 0..MaxEdits /\ hypotheses \subseteq Hypotheses
  /\ pipeline \in {"launch", "none", "failed", "batching", "scenario", "behavior",
                   "aggregation", "report", "succeeded"}
  /\ ManifestFits /\ QueueFits /\ EstimatesFit /\ AggregationFits

ManifestIs(made, b, m) ==
  /\ DOMAIN made.outputHash = 1..m /\ DOMAIN made.batches = 1..m /\ Len(made.batches) = m
  /\ \A n \in 1..m :
       /\ made.outputHash[n].personas = b[n]
       /\ made.batches[n].batchHash.personas = b[n]
       /\ made.batches[n].weight = Batches!TotalWeight(Batches!Range(b[n]))
  /\ made.total = Batches!TotalWeight(UNION {Batches!Range(b[n]) : n \in 1..m})

LEMMA ManifestOf ==
  ASSUME NEW b, NEW m, CutInto(b, m)
  PROVE  ManifestIs(Batches!Manifest(b), b, m)
<1>1. m \in Nat /\ DOMAIN b = 1..m
  BY DEF CutInto
<1>2. QED
  BY <1>1 DEF ManifestIs, Batches!Manifest, Batches!OutputHash, Batches!BatchHash

(* No index is in two places.                                               *)
LEMMA CutsApart ==
  ASSUME NEW b, NEW m, CutInto(b, m), NEW k \in 1..m, NEW n \in 1..m,
         NEW c \in Batches!Range(b[k]), NEW d \in Batches!Range(b[n]), c.index = d.index
  PROVE  k = n /\ c = d
<1>1. /\ m \in Nat /\ b[k] \in Seq(Batches!Persona) /\ b[n] \in Seq(Batches!Persona)
      /\ \A u, v \in 1..m : \A i \in 1..Len(b[u]), j \in 1..Len(b[v]) :
           u < v \/ (u = v /\ i < j) => b[u][i].index < b[v][j].index
  BY DEF CutInto
<1>2. PICK i \in 1..Len(b[k]) : c = b[k][i]
  BY <1>1, LenProperties DEF Batches!Range
<1>3. PICK j \in 1..Len(b[n]) : d = b[n][j]
  BY <1>1, LenProperties DEF Batches!Range
<1>4. Len(b[k]) \in Nat /\ Len(b[n]) \in Nat
  BY <1>1, LenProperties
<1>5. c \in Batches!Persona /\ d \in Batches!Persona
  BY <1>1, <1>2, <1>3, ElementOfSeq
<1>6. c.index \in Int /\ d.index \in Int
  BY <1>5 DEF Batches!Persona
<1>7. ~(c.index < d.index) /\ ~(d.index < c.index)
  BY <1>6
<1>8. ~(k < n \/ (k = n /\ i < j)) /\ ~(n < k \/ (n = k /\ j < i))
  BY <1>1, <1>2, <1>3, <1>7
<1>9. k = n /\ i = j
  BY <1>1, <1>4, <1>8
<1>10. QED
  BY <1>2, <1>3, <1>9

LEMMA CutPersonas ==
  ASSUME NEW b, NEW m, CutInto(b, m), NEW n \in 1..m
  PROVE  IsFiniteSet(Batches!Range(b[n])) /\ Batches!Range(b[n]) \subseteq Batches!Persona
<1> DEFINE s == b[n]
<1>1. s \in Seq(Batches!Persona)
  BY DEF CutInto
<1> HIDE DEF s
<1>2. Len(s) \in Nat /\ DOMAIN s = 1..Len(s) /\ \A i \in 1..Len(s) : s[i] \in Batches!Persona
  BY <1>1, LenProperties, ElementOfSeq
<1>3. Batches!Range(s) = {s[i] : i \in 1..Len(s)}
  BY <1>2 DEF Batches!Range
<1>4. IsFiniteSet({s[i] : i \in 1..Len(s)})
  <2> DEFINE I == 1..Len(s)
  <2>1. IsFiniteSet(I)
    BY <1>2, FS_Interval
  <2> HIDE DEF I
  <2>2. IsFiniteSet({s[i] : i \in I})
    BY <2>1, FiniteImage
  <2>3. QED
    BY <2>2 DEF I
<1>5. Batches!Range(s) \subseteq Batches!Persona
  BY <1>2, <1>3
<1>6. QED
  BY <1>3, <1>4, <1>5 DEF s

LEMMA BatchWeights ==
  ASSUME NEW D, IsFiniteSet(D)
  PROVE  Batches!MapThenSumSet(LAMBDA n : manifest.batches[n].weight, D)
           = Sum([n \in D |-> manifest.batches[n].weight], D)
<1> DEFINE w == [n \in D |-> manifest.batches[n].weight]
           g == CHOOSE g : g = [s \in SUBSET D |->
                  IF s = {} THEN 0 ELSE manifest.batches[Taken(s)].weight + g[s \ {Taken(s)}]]
<1>1. Batches!MapThenSumSet(LAMBDA n : manifest.batches[n].weight, D) = g[D]
  BY DEF Batches!MapThenSumSet, Batches!MapThenFoldSet, Taken
<1>2. \A s \in SUBSET D : s # {} => w[Taken(s)] = manifest.batches[Taken(s)].weight
  BY TakenOut
<1>3. \A k : Running(k, w, D) <=>
        k = [s \in SUBSET D |->
               IF s = {} THEN 0 ELSE manifest.batches[Taken(s)].weight + k[s \ {Taken(s)}]]
  <2> HIDE DEF w
  <2> QED BY <1>2 DEF Running
<1>4. Running(g, w, D)
  <2>1. PICK k : Running(k, w, D)
    BY RunningExists
  <2> HIDE DEF w
  <2>2. QED
    BY <1>3, <2>1
<1>5. Sum(w, D) = g[D]
  <2> HIDE DEF g, w
  <2> QED BY <1>4, SumIsRunning
<1>6. QED
  BY <1>1, <1>5

(* The weights of the batches add up to that of all their personas.         *)
LEMMA ManifestTotal ==
  ASSUME NEW b, NEW m, CutInto(b, m), manifest = Batches!Manifest(b)
  PROVE  manifest.total = Batches!MapThenSumSet(LAMBDA n : manifest.batches[n].weight, 1..m)
<1> DEFINE D == 1..m
           P == [n \in D |-> Batches!Range(b[n])]
           E == UNION {P[n] : n \in D}
           h == [n \in D |-> manifest.batches[n].weight]
           w == Weighed(E)
<1>1. IsFiniteSet(D)
  BY FS_Interval DEF CutInto
<1>2. \A n \in D : IsFiniteSet(P[n]) /\ P[n] \subseteq Batches!Persona
  BY CutPersonas
<1>3. \A n \in D : P[n] = Batches!Range(b[n])
  OBVIOUS
<1>4. manifest.total = Batches!TotalWeight(E)
  <2>1. E = UNION {Batches!Range(b[n]) : n \in 1..m}
    OBVIOUS
  <2>2. QED
    BY <2>1, ManifestOf DEF ManifestIs
<1>5. \A n \in D : h[n] = Batches!TotalWeight(P[n])
  <2>1. \A n \in D : manifest.batches[n].weight = Batches!TotalWeight(Batches!Range(b[n]))
    <3>1. ManifestIs(manifest, b, m)
      BY ManifestOf
    <3> HIDE DEF P, h, E, w
    <3>2. QED
      BY <3>1 DEF ManifestIs
  <2>2. \A n \in D : h[n] = manifest.batches[n].weight
    OBVIOUS
  <2> HIDE DEF P, h, D
  <2>3. QED
    BY <1>3, <2>1, <2>2
<1> HIDE DEF P, h
<1>6. IsFiniteSet(E)
  <2>1. IsFiniteSet({P[n] : n \in D})
    BY <1>1, FiniteImage
  <2>2. \A T \in {P[n] : n \in D} : IsFiniteSet(T)
    BY <1>2
  <2>3. QED
    BY <2>1, <2>2, FS_UNION
<1>7. \A c, d \in D : c # d => P[c] \cap P[d] = {}
  <2> SUFFICES ASSUME NEW c \in D, NEW d \in D, NEW x, x \in P[c], x \in P[d] PROVE c = d
    OBVIOUS
  <2>1. x \in Batches!Range(b[c]) /\ x \in Batches!Range(b[d])
    BY <1>3
  <2>2. QED
    BY <2>1, CutsApart
<1>8. \A n \in D : P[n] \in SUBSET E
  OBVIOUS
<1>9. \A n \in D : h[n] = Sum(w, P[n])
  BY <1>5, <1>6, <1>8, WeightIsSum
<1>10. Batches!TotalWeight(E) = Sum(w, E)
  BY <1>6, WeightIsSum
<1>11. \A c \in E : w[c] \in Int
  <2>1. \A c \in E : c.weight \in RowWeights
    BY <1>2 DEF Batches!Persona
  <2>2. \A c \in E : w[c] = c.weight
    BY DEF Weighed
  <2> HIDE DEF E, w
  <2>3. RowWeights \subseteq Int
    BY BatchesAssumption
  <2>4. QED
    BY <2>1, <2>2, <2>3
<1>12. \A n \in D : P[n] \subseteq E
  BY <1>8
<1>13. \A c \in E : \E n \in D : c \in P[n]
  OBVIOUS
<1>14. Sum(h, D) = Sum(w, E)
  <2> HIDE DEF D, E, w
  <2> QED BY <1>1, <1>6, <1>7, <1>9, <1>11, <1>12, <1>13, SumOfParts
<1>15. Batches!MapThenSumSet(LAMBDA n : manifest.batches[n].weight, D) = Sum(h, D)
  BY <1>1, BatchWeights DEF h
<1>16. QED
  BY <1>4, <1>10, <1>14, <1>15

LEMMA ManifestPartitions == ManifestFits => Batches!BatchesPartition
<1> SUFFICES ASSUME ManifestFits PROVE Batches!BatchesPartition
  OBVIOUS
<1> DEFINE batches == [n \in DOMAIN manifest.outputHash |-> manifest.outputHash[n].personas]
<1>1. CASE manifest = Batches!NoManifest
  <2>1. DOMAIN manifest.outputHash = {} /\ manifest.total = 0
    BY <1>1 DEF Batches!NoManifest
  <2>2. DOMAIN batches = {}
    BY <2>1
  <2>3. Batches!MapThenSumSet(LAMBDA n : manifest.batches[n].weight, DOMAIN batches) = 0
    <3>1. IsFiniteSet({})
      BY FS_EmptySet
    <3>2. QED
      BY <2>2, <3>1, BatchWeights, SumEmpty
  <2>4. QED
    BY <2>1, <2>2, <2>3 DEF Batches!BatchesPartition
<1>2. CASE \E b : WellCut(b) /\ manifest = Batches!Manifest(b)
  <2>1. PICK b, m : CutInto(b, m) /\ manifest = Batches!Manifest(b)
    BY <1>2 DEF WellCut
  <2>2. DOMAIN manifest.outputHash = 1..m /\ \A n \in 1..m : manifest.outputHash[n].personas = b[n]
    <3>1. ManifestIs(manifest, b, m)
      BY <2>1, ManifestOf
    <3>2. QED
      BY <3>1 DEF ManifestIs
  <2>3. DOMAIN batches = 1..m /\ \A n \in 1..m : batches[n] = b[n]
    BY <2>2
  <2>4. Len(batches) = m /\ m \in Nat
    BY <2>1, <2>2 DEF CutInto
  <2>5. manifest.total
          = Batches!MapThenSumSet(LAMBDA n : manifest.batches[n].weight, DOMAIN batches)
    BY <2>1, <2>3, ManifestTotal
  <2> HIDE DEF batches
  <2>6. \A n \in 1..m : DOMAIN b[n] = 1..Len(b[n])
    BY <2>1, LenProperties DEF CutInto
  <2>7. \A k, n \in 1..m : \A i \in DOMAIN b[k], j \in DOMAIN b[n] :
          k < n \/ (k = n /\ i < j) => b[k][i].index < b[n][j].index /\ b[k][i].id # b[n][j].id
    BY <2>1, <2>6 DEF CutInto
  <2>8. \A n \in 1..m : (n < m => Len(b[n]) = BatchSize) /\ Len(b[n]) \in 1..BatchSize
    BY <2>1 DEF CutInto
  <2>9. \A k, n \in DOMAIN batches : \A i \in DOMAIN batches[k], j \in DOMAIN batches[n] :
          k < n \/ (k = n /\ i < j) =>
            batches[k][i].index < batches[n][j].index /\ batches[k][i].id # batches[n][j].id
    BY <2>3, <2>7
  <2>10. \A n \in DOMAIN batches :
           (n < Len(batches) => Len(batches[n]) = BatchSize) /\ Len(batches[n]) \in 1..BatchSize
    BY <2>3, <2>4, <2>8
  <2>11. QED
    BY <2>5, <2>9, <2>10 DEF Batches!BatchesPartition, batches
<1>3. QED
  BY <1>1, <1>2 DEF ManifestFits

LEMMA ContextsArePersonas == RowsTypeOK => Personas(Batches!Contexts)
<1> SUFFICES ASSUME RowsTypeOK PROVE Personas(Batches!Contexts)
  OBVIOUS
<1> DEFINE D == DOMAIN rows
           m == [p \in D |-> [id |-> p, index |-> rows[p].index, weight |-> rows[p].weight,
                              attributes |-> rows[p].attributes]]
<1>1. IsFiniteSet(D)
  <2>1. IsFiniteSet(1..(Launched + 1))
    BY FS_Interval, BatchesAssumption
  <2>2. QED
    BY <2>1, FS_Subset DEF RowsTypeOK
<1>2. Batches!Contexts = {m[p] : p \in D}
  BY DEF Batches!Contexts
<1>3. \A p \in D : m[p] \in Batches!Persona
  BY DEF RowsTypeOK, Batches!Persona
<1> HIDE DEF m, D
<1>4. IsFiniteSet({m[p] : p \in D})
  BY <1>1, FiniteImage
<1>5. QED
  BY <1>2, <1>3, <1>4 DEF Personas

(* No persona has two results.                                              *)
LEMMA OneResult ==
  ASSUME ManifestFits, QueueFits, EstimatesFit, pipeline = "aggregation"
  PROVE  \A r, s \in Batches!Results :
           /\ r.index = s.index => r = s
           /\ r.result.completion \in Completions
<1>1. PICK b, m : CutInto(b, m) /\ manifest = Batches!Manifest(b)
  BY DEF ManifestFits, WellCut
<1>2. ManifestIs(manifest, b, m)
  BY <1>1, ManifestOf
<1>3. DOMAIN estimates \subseteq 1..m
  BY <1>2 DEF ManifestIs, EstimatesFit, QueueFits
<1>4. \A n \in DOMAIN estimates : AnswersTo(estimates[n], b[n])
  BY <1>2, <1>3 DEF ManifestIs, EstimatesFit
<1>5. ASSUME NEW r \in Batches!Results
      PROVE  \E n \in DOMAIN estimates : \E i \in DOMAIN estimates[n].results :
               /\ r = [index |-> i, result |-> estimates[n].results[i]]
               /\ \E c \in Batches!Range(b[n]) : c.index = i
               /\ estimates[n].results[i].completion \in Completions
  <2>1. PICK n \in DOMAIN estimates : \E i \in DOMAIN estimates[n].results :
               r = [index |-> i, result |-> estimates[n].results[i]]
    BY DEF Batches!Results
  <2>2. PICK i \in DOMAIN estimates[n].results :
               r = [index |-> i, result |-> estimates[n].results[i]]
    BY <2>1
  <2>3. i \in Batches!Indexes(Batches!Range(b[n])) /\ estimates[n].results[i].completion \in Completions
    BY <1>4 DEF AnswersTo
  <2>4. PICK c \in Batches!Range(b[n]) : c.index = i
    BY <2>3 DEF Batches!Indexes
  <2>5. QED
    BY <2>2, <2>3, <2>4
<1>6. ASSUME NEW r \in Batches!Results, NEW s \in Batches!Results, r.index = s.index
      PROVE  r = s
  <2>1. PICK n \in DOMAIN estimates : \E i \in DOMAIN estimates[n].results :
               /\ r = [index |-> i, result |-> estimates[n].results[i]]
               /\ \E c \in Batches!Range(b[n]) : c.index = i
    BY <1>5
  <2>2. PICK k \in DOMAIN estimates : \E j \in DOMAIN estimates[k].results :
               /\ s = [index |-> j, result |-> estimates[k].results[j]]
               /\ \E d \in Batches!Range(b[k]) : d.index = j
    BY <1>5
  <2>3. r = [index |-> r.index, result |-> estimates[n].results[r.index]]
        /\ s = [index |-> s.index, result |-> estimates[k].results[s.index]]
    BY <2>1, <2>2
  <2>4. n = k
    <3>1. PICK c \in Batches!Range(b[n]) : c.index = r.index
      BY <2>1
    <3>2. PICK d \in Batches!Range(b[k]) : d.index = s.index
      BY <2>2
    <3>3. n \in 1..m /\ k \in 1..m /\ c.index = d.index
      BY <1>3, <1>6, <3>1, <3>2
    <3>4. QED
      BY <1>1, <3>3, CutsApart
  <2>5. QED
    BY <1>6, <2>3, <2>4
<1>7. QED
  BY <1>5, <1>6

(* The personas that some results are about.                                *)
About(P, results) == {c \in P : c.index \in {r.index : r \in results}}
WithCompletion(k) == {r \in Batches!Results : r.result.completion = k}
Naming(h) == {r \in Batches!Results : h \in r.result.hypotheses}

LEMMA AggregateCounts ==
  ASSUME RowsTypeOK, ManifestFits, QueueFits, EstimatesFit, Batches!Aggregate
  PROVE  Counted(aggregation')
<1> DEFINE P == Batches!Contexts
           total == Batches!TotalWeight(P)
           buckets == [k \in Completions |-> Batches!UsersOf(P, WithCompletion(k))]
           issues == [h \in {g \in hypotheses : Batches!Names(g)} |-> Batches!UsersOf(P, Naming(h))]
           share == [k \in Completions |-> About(P, WithCompletion(k))]
           w == Weighed(P)
<1>1. /\ pipeline = "aggregation" /\ P # {}
      /\ {r.index : r \in Batches!Results} = Batches!Indexes(P)
      /\ aggregation' = [total |-> total, buckets |-> buckets, issues |-> issues]
  BY DEF Batches!Aggregate, Batches!OneResultEach, WithCompletion, Naming
<1>2. Personas(P) /\ IsFiniteSet(P)
  BY ContextsArePersonas DEF Personas
<1>3. \A r, s \in Batches!Results :
        (r.index = s.index => r = s) /\ r.result.completion \in Completions
  BY <1>1, OneResult
<1>4. \A results : Batches!UsersOf(P, results) = Batches!TotalWeight(About(P, results))
  BY DEF Batches!UsersOf, About
<1>5. \A results : About(P, results) \in SUBSET P
  BY DEF About
<1>6. total \in Nat \ {0}
  <2> HIDE DEF P
  <2>1. P \in SUBSET P
    OBVIOUS
  <2>2. QED
    BY <1>1, <1>2, <2>1, WeightOfPart
<1>7. \A k \in Completions : share[k] = About(P, WithCompletion(k))
  OBVIOUS
<1>8. \A k \in Completions : buckets[k] = Batches!TotalWeight(share[k])
  BY <1>4
<1>9. \A h \in DOMAIN issues :
        issues[h] = Batches!TotalWeight(About(P, Naming(h))) /\ h \in hypotheses /\ Batches!Names(h)
  BY <1>4
<1>10. DOMAIN buckets = Completions /\ DOMAIN issues \subseteq hypotheses
  OBVIOUS
<1>11. BucketsOf(aggregation') = Sum(buckets, Completions)
  <2>1. \A a : BucketsOf(a) = Sum(a.buckets, DOMAIN a.buckets)
    BY DEF BucketsOf, Batches!FoldFunction, Batches!FoldFunctionOnSet, Batches!MapThenFoldSet,
           Sum, FoldFunctionOnSet, MapThenFoldSet
  <2>2. aggregation'.buckets = buckets
    BY <1>1
  <2> HIDE DEF buckets
  <2>3. QED
    BY <1>10, <2>1, <2>2
<1> HIDE DEF P, share, buckets, issues, w, total
<1>12. \A k \in Completions : buckets[k] = Sum(w, share[k])
  <2>1. \A S \in SUBSET P : Batches!TotalWeight(S) = Sum(w, S)
    BY <1>2, WeightIsSum DEF w
  <2>2. QED
    BY <1>5, <1>7, <1>8, <2>1
<1>13. total = Sum(w, P)
  BY <1>2, WeightIsSum DEF w, total
<1>14. \A c \in P : \E k \in Completions : c \in share[k]
  <2> SUFFICES ASSUME NEW c \in P PROVE \E k \in Completions : c \in share[k]
    OBVIOUS
  <2>1. PICK r \in Batches!Results : r.index = c.index
    BY <1>1 DEF Batches!Indexes
  <2>2. r.result.completion \in Completions /\ r \in WithCompletion(r.result.completion)
    BY <1>3 DEF WithCompletion
  <2>3. c \in About(P, WithCompletion(r.result.completion))
    BY <2>1, <2>2 DEF About
  <2>4. QED
    BY <1>7, <2>2, <2>3
<1>15. \A k, l \in Completions : k # l => share[k] \cap share[l] = {}
  <2> SUFFICES ASSUME NEW k \in Completions, NEW l \in Completions,
                      NEW c, c \in share[k], c \in share[l]
               PROVE  k = l
    OBVIOUS
  <2>1. PICK r \in WithCompletion(k) : r.index = c.index
    BY <1>7 DEF About
  <2>2. PICK s \in WithCompletion(l) : s.index = c.index
    BY <1>7 DEF About
  <2>3. QED
    BY <1>3, <2>1, <2>2 DEF WithCompletion
<1>16. \A c \in P : w[c] \in Int
  <2>1. \A c \in P : c.weight \in RowWeights
    BY <1>2 DEF Personas, Batches!Persona
  <2>2. \A c \in P : w[c] = c.weight
    BY DEF w, Weighed
  <2>3. RowWeights \subseteq Int
    BY BatchesAssumption
  <2>4. QED
    BY <2>1, <2>2, <2>3
<1>17. Sum(buckets, Completions) = Sum(w, P)
  <2>1. IsFiniteSet(Completions) /\ \A k \in Completions : share[k] \subseteq P
    BY <1>5, <1>7, BatchesAssumption
  <2>2. QED
    BY <1>2, <1>12, <1>14, <1>15, <1>16, <2>1, SumOfParts
<1>18. \A h \in DOMAIN issues : issues[h] \in 1..total
  <2> SUFFICES ASSUME NEW h \in DOMAIN issues PROVE issues[h] \in 1..total
    OBVIOUS
  <2>1. PICK r \in Batches!Results : h \in r.result.hypotheses
    BY <1>9 DEF Batches!Names
  <2>2. PICK c \in P : c.index = r.index
    BY <1>1 DEF Batches!Indexes
  <2>3. c \in About(P, Naming(h))
    BY <2>1, <2>2 DEF About, Naming
  <2> DEFINE S == About(P, Naming(h))
  <2>4. S \in SUBSET P /\ S # {}
    BY <1>5, <2>3
  <2> HIDE DEF S
  <2>5. /\ Batches!TotalWeight(S) \in Nat /\ Batches!TotalWeight(S) > 0
        /\ Batches!TotalWeight(S) <= Batches!TotalWeight(P)
    BY <1>2, <2>4, WeightOfPart
  <2>6. issues[h] = Batches!TotalWeight(S) /\ total \in Nat /\ total = Batches!TotalWeight(P)
    BY <1>6, <1>9 DEF S, total
  <2>7. QED
    BY <2>5, <2>6
<1>19. QED
  BY <1>1, <1>6, <1>10, <1>11, <1>13, <1>17, <1>18 DEF Counted

LEMMA BatchesInitial == Batches!BatchesInit => BatchesInv
<1> SUFFICES ASSUME Batches!BatchesInit PROVE BatchesInv
  OBVIOUS
<1>1. /\ rows = <<>> /\ edits = 0 /\ pipeline = "launch" /\ manifest = Batches!NoManifest
      /\ hypotheses = {} /\ queued = <<>> /\ estimates = [n \in {} |-> <<>>]
      /\ aggregation = Batches!NoAggregation /\ affected = 0
  BY DEF Batches!BatchesInit
<1>2. DOMAIN rows = {} /\ DOMAIN queued = {} /\ DOMAIN estimates = {}
  BY <1>1
<1>3. RowsTypeOK
  BY <1>2 DEF RowsTypeOK
<1>4. ManifestFits /\ QueueFits /\ EstimatesFit /\ AggregationFits
  BY <1>1, <1>2 DEF ManifestFits, QueueFits, EstimatesFit, AggregationFits
<1>5. edits \in 0..MaxEdits
  BY <1>1, BatchesAssumption
<1>6. QED
  BY <1>1, <1>3, <1>4, <1>5 DEF BatchesInv

(* What a change of the rows leaves alone.                                  *)
LEMMA RowsApart ==
  ASSUME BatchesInv, RowsTypeOK', edits' \in 0..MaxEdits,
         UNCHANGED <<pipeline, manifest, hypotheses, queued, estimates, aggregation, affected>>
  PROVE  BatchesInv'
BY DEF BatchesInv, ManifestFits, QueueFits, EstimatesFit, AggregationFits, Counted

LEMMA RowsAreEdited ==
  ASSUME BatchesInv, Batches!EditRow \/ Batches!DropRow
  PROVE  BatchesInv'
<1>1. /\ edits' \in 0..MaxEdits
      /\ UNCHANGED <<pipeline, manifest, hypotheses, queued, estimates, aggregation, affected>>
  BY BatchesAssumption DEF BatchesInv, Batches!EditRow, Batches!DropRow
<1>2. RowsTypeOK
  BY DEF BatchesInv
<1>3. CASE Batches!EditRow
  <2>1. PICK p \in 1..(Launched + 1), i \in 0..Launched, w \in RowWeights, a \in Batches!Attributes :
          rows' = [q \in DOMAIN rows \cup {p} |->
                     IF q = p THEN [index |-> i, weight |-> w, attributes |-> a] ELSE rows[q]]
    BY <1>3 DEF Batches!EditRow
  <2>2. RowsTypeOK'
    BY <1>2, <2>1 DEF RowsTypeOK
  <2>3. QED
    BY <1>1, <2>2, RowsApart
<1>4. CASE Batches!DropRow
  <2>1. PICK p \in DOMAIN rows : rows' = [q \in DOMAIN rows \ {p} |-> rows[q]]
    BY <1>4 DEF Batches!DropRow
  <2>2. RowsTypeOK'
    BY <1>2, <2>1 DEF RowsTypeOK
  <2>3. QED
    BY <1>1, <2>2, RowsApart
<1>5. QED
  BY <1>3, <1>4

LEMMA StagesRun ==
  ASSUME BatchesInv, UNCHANGED <<rows, edits>>,
         \/ Batches!Initialize \/ Batches!PrepareBatches
         \/ \E answer \in SUBSET Hypotheses : Batches!InterpretScenario(answer)
  PROVE  BatchesInv'
<1>1. RowsTypeOK' /\ edits' \in 0..MaxEdits
  BY DEF BatchesInv, RowsTypeOK
<1>2. CASE Batches!Initialize
  <2>1. /\ pipeline = "none" /\ pipeline' \in {"batching", "failed"}
        /\ UNCHANGED <<manifest, hypotheses, queued, estimates, aggregation, affected>>
    BY <1>2 DEF Batches!Initialize
  <2>2. QED
    BY <1>1, <2>1 DEF BatchesInv, ManifestFits, QueueFits, EstimatesFit, AggregationFits
<1>3. CASE Batches!PrepareBatches
  <2> DEFINE b == Batches!BuildPersonaBatches(Batches!Contexts)
  <2>1. /\ pipeline = "batching" /\ Batches!Batchable(Batches!Contexts)
        /\ manifest' = Batches!Manifest(b) /\ pipeline' = "scenario"
        /\ UNCHANGED <<hypotheses, queued, estimates, aggregation, affected>>
    BY <1>3 DEF Batches!PrepareBatches
  <2>2. WellCut(b)
    BY <2>1, ContextsArePersonas, CutInOrder DEF BatchesInv, Batched
  <2> HIDE DEF b
  <2>3. ManifestFits'
    BY <2>1, <2>2 DEF ManifestFits
  <2>4. DOMAIN queued = {} /\ DOMAIN estimates = {}
    BY <2>1 DEF BatchesInv, QueueFits
  <2>5. QueueFits' /\ EstimatesFit' /\ AggregationFits'
    BY <2>1, <2>4 DEF BatchesInv, QueueFits, EstimatesFit, AggregationFits
  <2>6. QED
    BY <1>1, <2>1, <2>3, <2>5 DEF BatchesInv
<1>4. CASE \E answer \in SUBSET Hypotheses : Batches!InterpretScenario(answer)
  <2> DEFINE b == Batches!BuildPersonaBatches(Batches!Contexts)
  <2>1. /\ pipeline = "scenario" /\ Batches!OutputHash(b) = manifest.outputHash
        /\ hypotheses' \subseteq Hypotheses /\ queued' = b /\ pipeline' = "behavior"
        /\ UNCHANGED <<manifest, estimates, aggregation, affected>>
    BY <1>4 DEF Batches!InterpretScenario, Batches!Rehydratable, Batches!SameHashes
  <2> HIDE DEF b
  <2>2. DOMAIN estimates = {}
    BY <2>1 DEF BatchesInv, QueueFits
  <2>3. DOMAIN b = DOMAIN manifest.outputHash
        /\ \A n \in DOMAIN b : b[n] = manifest.outputHash[n].personas
    BY <2>1 DEF Batches!OutputHash, Batches!BatchHash
  <2>4. QueueFits' /\ EstimatesFit'
    BY <2>1, <2>2, <2>3 DEF QueueFits, EstimatesFit
  <2>5. ManifestFits' /\ AggregationFits'
    BY <2>1 DEF BatchesInv, ManifestFits, AggregationFits
  <2>6. QED
    BY <1>1, <2>1, <2>4, <2>5 DEF BatchesInv
<1>5. QED
  BY <1>2, <1>3, <1>4

LEMMA BatchIsAsked ==
  ASSUME BatchesInv, NEW n \in DOMAIN queued,
         NEW S, NEW results \in [S -> Batches!Answers], Batches!EstimateBehavior(n, results)
  PROVE  BatchesInv'
<1> DEFINE batch == Batches!BuildPersonaBatches(Batches!Contexts)[n]
<1>1. /\ pipeline = "behavior" /\ n \in DOMAIN queued \ DOMAIN estimates
      /\ Batches!ValidBehavior(batch, results) /\ batch = queued[n]
      /\ estimates' = [k \in DOMAIN estimates \cup {n} |->
                     IF k = n THEN [asked |-> batch, results |-> results] ELSE estimates[k]]
      /\ pipeline' = IF Batches!Cardinality(DOMAIN estimates') < Len(manifest.batches)
                     THEN "behavior" ELSE "aggregation"
      /\ UNCHANGED <<rows, edits, manifest, hypotheses, queued, aggregation, affected>>
  BY DEF Batches!EstimateBehavior
<1>2. DOMAIN results = Batches!Indexes(Batches!Range(batch))
      /\ \A i \in DOMAIN results : results[i].completion \in Completions
  BY <1>1 DEF Batches!ValidBehavior, Batches!Answers
<1> HIDE DEF batch
<1>3. /\ RowsTypeOK' /\ edits' \in 0..MaxEdits /\ hypotheses' \subseteq Hypotheses
      /\ pipeline' \in {"behavior", "aggregation"}
  BY <1>1 DEF BatchesInv, RowsTypeOK
<1>4. ManifestFits' /\ AggregationFits' /\ QueueFits'
  BY <1>1, <1>3 DEF BatchesInv, ManifestFits, AggregationFits, QueueFits
<1>5. DOMAIN estimates' = DOMAIN estimates \cup {n} /\ DOMAIN estimates' \subseteq DOMAIN queued
  BY <1>1 DEF BatchesInv, EstimatesFit
<1>6. ASSUME NEW k \in DOMAIN estimates'
      PROVE  AnswersTo(estimates'[k], manifest.outputHash[k].personas)
  <2>1. CASE k = n
    <3>1. estimates'[k] = [asked |-> batch, results |-> results]
      BY <1>1, <1>5, <2>1
    <3>2. batch = manifest.outputHash[k].personas
      BY <1>1, <2>1 DEF BatchesInv, QueueFits
    <3>3. QED
      BY <1>2, <3>1, <3>2 DEF AnswersTo
  <2>2. CASE k # n
    <3>1. k \in DOMAIN estimates /\ estimates'[k] = estimates[k]
      BY <1>1, <1>5, <2>2
    <3>2. QED
      BY <3>1 DEF BatchesInv, EstimatesFit
  <2>3. QED
    BY <2>1, <2>2
<1>7. ASSUME pipeline' = "aggregation"
      PROVE  DOMAIN estimates' = DOMAIN manifest.outputHash
  <2>1. PICK b, m : CutInto(b, m) /\ manifest = Batches!Manifest(b)
    BY <1>1 DEF BatchesInv, ManifestFits, WellCut
  <2>2. ManifestIs(manifest, b, m)
    BY <2>1, ManifestOf
  <2>3. DOMAIN manifest.outputHash = 1..m /\ Len(manifest.batches) = m /\ m \in Nat
    BY <2>1, <2>2 DEF ManifestIs, CutInto
  <2>4. DOMAIN estimates' \subseteq 1..m
    BY <1>5, <2>3 DEF BatchesInv, QueueFits
  <2>5. IsFiniteSet(1..m) /\ Cardinality(1..m) = m
    BY <2>3, FS_Interval
  <2>6. IsFiniteSet(DOMAIN estimates') /\ Cardinality(DOMAIN estimates') <= m
        /\ Cardinality(DOMAIN estimates') \in Nat
    BY <2>4, <2>5, FS_Subset, FS_CardinalityType
  <2>7. ~(Cardinality(DOMAIN estimates') < m)
    BY <1>1, <1>7, <2>3, BatchesCount
  <2>8. Cardinality(DOMAIN estimates') = Cardinality(1..m)
    BY <2>3, <2>5, <2>6, <2>7
  <2>9. QED
    BY <2>3, <2>4, <2>5, <2>8, FS_Subset
<1>8. EstimatesFit'
  BY <1>1, <1>3, <1>5, <1>6, <1>7 DEF EstimatesFit
<1>9. QED
  BY <1>3, <1>4, <1>8 DEF BatchesInv

LEMMA BatchesInductive ==
  BatchesInv /\ [Batches!BatchesNext]_(Batches!batchVars) => BatchesInv'
<1> SUFFICES ASSUME BatchesInv, [Batches!BatchesNext]_(Batches!batchVars)
             PROVE  BatchesInv'
  OBVIOUS
<1>1. CASE \E weights \in [1..Launched -> RowWeights] : Batches!LaunchRows(weights)
  <2>1. PICK weights \in [1..Launched -> RowWeights] : Batches!LaunchRows(weights)
    BY <1>1
  <2>2. /\ pipeline = "launch" /\ pipeline' = "none"
        /\ rows' = [p \in 1..Launched |->
                      [index |-> p - 1, weight |-> weights[p], attributes |-> "written"]]
        /\ UNCHANGED <<edits, manifest, hypotheses, queued, estimates, aggregation, affected>>
    BY <2>1 DEF Batches!LaunchRows
  <2>3. RowsTypeOK'
    <3>1. \A p \in 1..Launched : p \in 1..(Launched + 1) /\ p - 1 \in 0..Launched
      BY BatchesAssumption
    <3>2. QED
      BY <2>2, <3>1 DEF RowsTypeOK, Batches!Attributes
  <2>4. QED
    BY <2>2, <2>3 DEF BatchesInv, ManifestFits, QueueFits, EstimatesFit, AggregationFits
<1>2. CASE \/ Batches!Initialize \/ Batches!PrepareBatches
           \/ \E answer \in SUBSET Hypotheses : Batches!InterpretScenario(answer)
  <2>1. UNCHANGED <<rows, edits>>
    BY <1>2 DEF Batches!Initialize, Batches!PrepareBatches, Batches!InterpretScenario
  <2>2. QED
    BY <1>2, <2>1, StagesRun
<1>3. CASE \E n \in DOMAIN queued, S \in SUBSET (0..(Launched - 1)) :
             \E results \in [S -> Batches!Answers] : Batches!EstimateBehavior(n, results)
  BY <1>3, BatchIsAsked
<1>4. CASE Batches!Aggregate
  <2>1. Counted(aggregation')
    BY <1>4, AggregateCounts DEF BatchesInv
  <2>2. /\ pipeline = "aggregation" /\ pipeline' = "report"
        /\ UNCHANGED <<rows, edits, manifest, hypotheses, queued, estimates, affected>>
    BY <1>4 DEF Batches!Aggregate
  <2>3. Counted(aggregation)'
    BY <2>1, <2>2 DEF Counted
  <2>4. AggregationFits'
    BY <2>2, <2>3 DEF BatchesInv, AggregationFits
  <2>5. ManifestFits' /\ QueueFits' /\ EstimatesFit' /\ RowsTypeOK'
    BY <2>2 DEF BatchesInv, ManifestFits, QueueFits, EstimatesFit, RowsTypeOK
  <2>6. QED
    BY <2>2, <2>4, <2>5 DEF BatchesInv
<1>5. CASE \E users \in 0..(Expected + 1) : Batches!WriteReport(users)
  <2>1. PICK users \in 0..(Expected + 1) : Batches!WriteReport(users)
    BY <1>5
  <2>2. /\ pipeline = "report" /\ pipeline' = "succeeded" /\ users <= aggregation.total
        /\ affected' = users
        /\ UNCHANGED <<rows, edits, manifest, hypotheses, queued, estimates, aggregation>>
    BY <2>1 DEF Batches!WriteReport, Batches!ValidReport
  <2>3. Counted(aggregation)
    BY <2>2 DEF BatchesInv, AggregationFits
  <2>4. affected' \in 0..aggregation.total
    BY <2>2, <2>3, BatchesAssumption DEF Counted
  <2>5. Counted(aggregation)'
    BY <2>2, <2>3 DEF Counted
  <2>6. AggregationFits'
    BY <2>2, <2>4, <2>5 DEF AggregationFits
  <2>7. ManifestFits' /\ QueueFits' /\ EstimatesFit' /\ RowsTypeOK'
    BY <2>2 DEF BatchesInv, ManifestFits, QueueFits, EstimatesFit, RowsTypeOK
  <2>8. QED
    BY <2>2, <2>6, <2>7 DEF BatchesInv
<1>6. CASE UNCHANGED Batches!batchVars
  <2>1. RowsTypeOK' /\ edits' \in 0..MaxEdits
    BY <1>6 DEF BatchesInv, RowsTypeOK, Batches!batchVars
  <2>2. QED
    BY <1>6, <2>1, RowsApart DEF Batches!batchVars
<1>7. QED
  BY <1>1, <1>2, <1>3, <1>4, <1>5, <1>6, RowsAreEdited DEF Batches!BatchesNext

LEMMA BatchesSound == BatchesInv => Batches!BatchesAreSound /\ Batches!BatchesTypeOK
<1> SUFFICES ASSUME BatchesInv PROVE Batches!BatchesAreSound /\ Batches!BatchesTypeOK
  OBVIOUS
<1>1. Batches!BatchesPartition
  BY ManifestPartitions DEF BatchesInv
<1>2. Batches!AskedAboutTheBatches
  BY DEF BatchesInv, QueueFits, EstimatesFit, AnswersTo, Batches!AskedAboutTheBatches
<1>3. Batches!EverybodyCountsOnce
  <2> SUFFICES ASSUME pipeline \in {"report", "succeeded"}
               PROVE  /\ aggregation.total > 0
                      /\ Batches!FoldFunction(+, 0, aggregation.buckets) = aggregation.total
                      /\ \A h \in DOMAIN aggregation.issues :
                           aggregation.issues[h] \in 1..aggregation.total
                      /\ DOMAIN aggregation.issues \subseteq hypotheses
                      /\ DOMAIN estimates = DOMAIN manifest.outputHash
                      /\ affected <= aggregation.total
    BY DEF Batches!EverybodyCountsOnce
  <2>1. Counted(aggregation)
    BY DEF BatchesInv, AggregationFits
  <2>2. DOMAIN estimates = DOMAIN manifest.outputHash
    BY DEF BatchesInv, EstimatesFit
  <2>3. affected <= aggregation.total
    BY <2>1 DEF BatchesInv, AggregationFits, Counted
  <2>4. aggregation.total > 0
    BY <2>1 DEF Counted
  <2>5. QED
    BY <2>1, <2>2, <2>3, <2>4 DEF Counted, BucketsOf
<1>4. \A n \in DOMAIN manifest.batches :
        manifest.batches[n].batchHash.personas \in Seq(Batches!Persona) \ {<<>>}
  <2>1. CASE manifest = Batches!NoManifest
    BY <2>1 DEF Batches!NoManifest
  <2>2. CASE \E b : WellCut(b) /\ manifest = Batches!Manifest(b)
    <3>1. PICK b, m : CutInto(b, m) /\ manifest = Batches!Manifest(b)
      BY <2>2 DEF WellCut
    <3>2. ManifestIs(manifest, b, m)
      BY <3>1, ManifestOf
    <3>3. \A n \in 1..m : b[n] \in Seq(Batches!Persona) /\ b[n] # <<>>
      <4>1. \A n \in 1..m : b[n] \in Seq(Batches!Persona) /\ Len(b[n]) \in 1..BatchSize
        BY <3>1 DEF CutInto
      <4>2. Len(<<>>) = 0 /\ 0 \notin 1..BatchSize
        OBVIOUS
      <4>3. QED
        BY <4>1, <4>2
    <3>4. QED
      BY <3>2, <3>3 DEF ManifestIs
  <2>3. QED
    BY <2>1, <2>2 DEF BatchesInv, ManifestFits
<1>5. aggregation.total \in Nat /\ affected \in Nat
  <2>1. aggregation.total \in Nat
    BY DEF BatchesInv, AggregationFits, Counted, Batches!NoAggregation
  <2>2. QED
    BY <2>1 DEF BatchesInv, AggregationFits
<1>6. {rows[p].weight : p \in DOMAIN rows} \subseteq RowWeights
  BY DEF BatchesInv, RowsTypeOK
<1>7. DOMAIN estimates \subseteq DOMAIN queued
  BY DEF BatchesInv, EstimatesFit
<1>8. Batches!BatchesTypeOK
  BY <1>4, <1>5, <1>6, <1>7 DEF BatchesInv, Batches!BatchesTypeOK
<1>9. QED
  BY <1>1, <1>2, <1>3, <1>8 DEF Batches!BatchesAreSound

(* Whatever rows are changed, added or removed by hand between two stages:  *)
(* stage 2 puts every persona into one batch, in order; the provider is     *)
(* asked about those batches; and everybody counts once in what stage 5     *)
(* adds up (services/ai_pipeline: batching, persistence, validation and     *)
(* aggregation).                                                            *)
THEOREM BatchesAlwaysSound == Batches!BatchesSpec => []Batches!BatchesAreSound
<1>1. QED
  BY BatchesInitial, BatchesInductive, BatchesSound, PTL DEF Batches!BatchesSpec

-----------------------------------------------------------------------------
(* The account as a whole: one of its components runs.                      *)
AccountsInv ==
  /\ part = "topUp" => ReviewTypeOK /\ ReviewInv
  /\ part = "access" => AccessInv
  /\ part = "draft" => DraftInv /\ AroundDraft
  /\ part = "cohorts" => CohortsInv
  /\ part = "batches" => BatchesInv
  /\ part = "quotes" => PriceInv

LEMMA AccountsInitial == AccountsInit => AccountsInv
  BY PriceInvInitial, ReviewInitial, AccessInitial, DraftInitial, AroundDraftInitial,
     CohortsInitial, BatchesInitial DEF AccountsInit, AccountsInv

LEMMA AccountsInductive == AccountsInv /\ [AccountsNext]_accountsVars => AccountsInv'
<1> SUFFICES ASSUME AccountsInv, [AccountsNext]_accountsVars
             PROVE  AccountsInv'
  OBVIOUS
<1>1. CASE OnlyTopUp /\ TopUp!TopUpNext
  BY <1>1, ReviewTypeInductive, ReviewInvInductive DEF AccountsInv, OnlyTopUp
<1>2. CASE OnlyQuotes /\ Prices!QuotesNext
  BY <1>2, PriceInvInductive DEF AccountsInv, OnlyQuotes
<1>3. CASE OnlyAccess /\ AccessNext
  BY <1>3, AccessInductive DEF AccountsInv, OnlyAccess
<1>4. CASE OnlyDraft /\ WizardNext
  BY <1>4, DraftStep, AroundDraftStep DEF AccountsInv, OnlyDraft
<1>5. CASE OnlyCohorts /\ Cohorts!PersonasNext
  BY <1>5, CohortsInductive DEF AccountsInv, OnlyCohorts
<1>6. CASE OnlyBatches /\ Batches!BatchesNext
  BY <1>6, BatchesInductive DEF AccountsInv, OnlyBatches
<1>7. CASE OnlyLedger /\ Next
  BY <1>7 DEF AccountsInv, OnlyLedger
<1>8. CASE UNCHANGED accountsVars
  <2>1. /\ part' = part
        /\ UNCHANGED TopUp!topUpVars /\ UNCHANGED Prices!quoteVars
        /\ UNCHANGED accessVars /\ UNCHANGED wizardVars
        /\ UNCHANGED Cohorts!personaVars /\ UNCHANGED Batches!batchVars
    BY <1>8 DEF accountsVars, topUpVars, quoteVars, cohortVars, batchVars, TopUp!topUpVars,
                Prices!quoteVars, Cohorts!personaVars, Batches!batchVars
  <2>2. part = "topUp" => (ReviewTypeOK /\ ReviewInv)'
    BY <2>1, ReviewStutters DEF AccountsInv
  <2>3. QED
    BY <2>1, <2>2, PriceInvInductive, AccessInductive, DraftStep, AroundDraftStep,
       CohortsInductive, BatchesInductive DEF AccountsInv
<1>9. QED
  BY <1>1, <1>2, <1>3, <1>4, <1>5, <1>6, <1>7, <1>8 DEF AccountsNext

LEMMA AccountsHold == AccountsSpec => []AccountsInv
  BY AccountsInitial, AccountsInductive, PTL DEF AccountsSpec

(* Every variable of the component that runs has its type.                  *)
THEOREM AccountsTypeCorrect == AccountsSpec => []AccountsTypeOK
<1>1. AccountsInv => AccountsTypeOK
  BY DraftTypes, CohortsSound, BatchesSound, PricesArePaid
     DEF AccountsInv, AccountsTypeOK, ReviewTypeOK, AccessInv
<1>2. QED
  BY <1>1, AccountsHold, PTL

(* PaidAsAgreed: top-ups are decided once and launches are paid, when an    *)
(* organization does either.                                                *)
THEOREM AccountsPaidAsAgreed == AccountsSpec => []PaidAsAgreed
<1>1. AccountsInv => PaidAsAgreed
  BY PricesArePaid DEF AccountsInv, PaidAsAgreed, ReviewInv
<1>2. QED
  BY <1>1, AccountsHold, PTL

(* PopulationAddsUp: segments, personas, batches and what is added up of    *)
(* them account for everybody, when an organization makes either.           *)
THEOREM AccountsPopulationAddsUp == AccountsSpec => []PopulationAddsUp
<1>1. AccountsInv => PopulationAddsUp
  BY CohortsSound, BatchesSound DEF AccountsInv, PopulationAddsUp
<1>2. QED
  BY <1>1, AccountsHold, PTL
=============================================================================
