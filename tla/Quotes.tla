------------------------------- MODULE Quotes -------------------------------
(* What a launch costs: the quote of a test with its modules, and launches  *)
(* that quote, reserve and settle while others compete for the free uses    *)
(* and the chips of one organization.                                       *)
EXTENDS Integers, FiniteSetsExt

CONSTANTS
  Orders,        \* drafts to launch
  Requests,      \* what a draft may ask for: [type, personas, modules]
  Config,        \* the PricingConfig in force
  FreePersonas,  \* FREE_BASIC_UX_TEST_PERSONA_LIMIT
  Funds          \* chips at the start

VARIABLES
  freeUse,  \* test type -> its entitlement: status, and the launch that has it
  chips,    \* the balance
  order     \* draft -> its request, its quote, what it holds and has spent

quoteVars == <<freeUse, chips, order>>

Types == {"basic_ux_test", "accessibility_precheck"}
Addons == {"ai_report", "ai_interaction_heatmap"}
Purposes == {"baseline"} \union Addons
Steps == {"new", "draft", "quoted", "running", "succeeded", "failed"}

NothingHeld == [p \in Purposes |-> 0]
NewOrder == [step |-> "new", request |-> CHOOSE r \in Requests : TRUE,
             quote |-> [free |-> FALSE, parts |-> NothingHeld],
             held |-> NothingHeld, spent |-> NothingHeld]

QuotesInit ==
  /\ freeUse = [t \in Types |-> [status |-> "available", run |-> {}]]
  /\ chips = Funds
  /\ order = [d \in Orders |-> NewOrder]

Total(parts) == MapThenSumSet(LAMBDA p : parts[p], Purposes)

-----------------------------------------------------------------------------
(* The quote.                                                               *)
FreeApplicableAnySize(request, available) == available
FreeApplicable(request, available) ==
  /\ available
  /\ request.type = "basic_ux_test" => request.personas <= FreePersonas

TestCost(request, free) ==
  CASE free -> 0
    [] ~free /\ request.type = "basic_ux_test" -> request.personas * Config.perPersona
    [] ~free /\ request.type = "accessibility_precheck" -> Config.precheck

ModuleCost(modules) == MapThenSumSet(LAMBDA m : Config.modules[m], modules)

(* The add-ons have parts of their own.                                     *)
RequiredChipsAndAddons(request, free) == TestCost(request, free) + ModuleCost(request.modules)
RequiredChips(request, free) == TestCost(request, free) + ModuleCost(request.modules \ Addons)

BuildQuote(request) ==
  LET free == FreeApplicable(request, freeUse[request.type].status = "available")
  IN [free |-> free,
      parts |-> [p \in Purposes |->
                   IF p = "baseline" THEN RequiredChips(request, free)
                                     ELSE ModuleCost(request.modules \intersect {p})]]

-----------------------------------------------------------------------------
(* A draft gets its request.                                                *)
Draw(d, request) ==
  /\ order[d].step = "new"
  /\ order' = [order EXCEPT ![d].step = "draft", ![d].request = request]
  /\ UNCHANGED <<freeUse, chips>>

(* SELECT ... FOR UPDATE: the transaction that quotes keeps the row of its  *)
(* test type until it ends.                                                 *)
Unlocked(d, type) ==
  \A e \in Orders \ {d} : order[e].step = "quoted" => order[e].request.type # type

(* The first half of a launch.                                              *)
Quote(d) ==
  /\ order[d].step = "draft"
  /\ Unlocked(d, order[d].request.type)
  /\ order' = [order EXCEPT ![d].step = "quoted", ![d].quote = BuildQuote(order[d].request)]
  /\ UNCHANGED <<freeUse, chips>>

(* The free use covers the test only; the rest of the quote is reserved.    *)
ToReserveUnlessFree(quote) == IF quote.free THEN [quote.parts EXCEPT !["baseline"] = 0] ELSE quote.parts
ToReserve(quote) == quote.parts

(* The second half: all reservations, or a rollback if one does not fit.    *)
Reserve(d) ==
  LET o == order[d]  parts == ToReserve(o.quote) IN
  /\ o.step = "quoted"
  /\ \/ /\ Total(parts) <= chips
        /\ chips' = chips - Total(parts)
        /\ freeUse' = IF o.quote.free
                        THEN [freeUse EXCEPT ![o.request.type] = [status |-> "reserved", run |-> {d}]]
                        ELSE freeUse
        /\ order' = [order EXCEPT ![d].step = "running", ![d].held = parts]
     \/ /\ Total(parts) > chips
        /\ order' = [order EXCEPT ![d].step = "draft", ![d].quote = NewOrder.quote]
        /\ UNCHANGED <<freeUse, chips>>

(* The runs of the launch have ended: all well, and what was reserved for   *)
(* the test is spent, while add-ons wait for their own settlement; or not,  *)
(* and everything is given back.                                            *)
Settle(d, outcome) ==
  LET o == order[d]  type == o.request.type IN
  /\ o.step = "running"
  /\ o.quote.free => Unlocked(d, type)
  /\ \/ /\ outcome = "succeeded"
        /\ freeUse' = IF o.quote.free THEN [freeUse EXCEPT ![type].status = "consumed"] ELSE freeUse
        /\ order' = [order EXCEPT ![d].step = outcome, ![d].held["baseline"] = 0,
                                  ![d].spent["baseline"] = o.held["baseline"]]
        /\ UNCHANGED chips
     \/ /\ outcome = "failed"
        /\ freeUse' = IF o.quote.free
                        THEN [freeUse EXCEPT ![type] = [status |-> "available", run |-> {}]]
                        ELSE freeUse
        /\ chips' = chips + Total(o.held)
        /\ order' = [order EXCEPT ![d].step = outcome, ![d].held = NothingHeld]

QuotesNext == \E d \in Orders :
  \/ \E request \in Requests : Draw(d, request)
  \/ Quote(d)
  \/ Reserve(d)
  \/ \E outcome \in {"succeeded", "failed"} : Settle(d, outcome)

QuotesSpec == QuotesInit /\ [][QuotesNext]_quoteVars

-----------------------------------------------------------------------------
QuotesTypeOK ==
  /\ freeUse \in [Types -> [status : {"available", "reserved", "consumed"}, run : SUBSET Orders]]
  /\ chips \in 0 .. Funds
  /\ \A d \in Orders : order[d].step \in Steps /\ order[d].request \in Requests

Taken(d) == order[d].step \in {"running", "succeeded"}

(* A launch pays the whole price list for what it runs, in one reservation  *)
(* or another and nothing twice; a free use takes off the test alone, and   *)
(* only from launches it is meant for.                                      *)
PriceIsPaidOnce ==
  \A d \in Orders : Taken(d) =>
    LET o == order[d] IN
    /\ Total(o.held) + Total(o.spent) =
         (IF o.quote.free THEN 0 ELSE TestCost(o.request, FALSE)) + ModuleCost(o.request.modules)
    /\ o.quote.free /\ o.request.type = "basic_ux_test" => o.request.personas <= FreePersonas

(* A free use is given to one launch at a time, and to none after one has   *)
(* succeeded with it; it is taken if and only if such a launch exists.      *)
FreeOnce ==
  \A t \in Types :
    LET takers == {d \in Orders : Taken(d) /\ order[d].quote.free /\ order[d].request.type = t} IN
    /\ takers = freeUse[t].run
    /\ freeUse[t].status = "consumed" <=> \E d \in takers : order[d].step = "succeeded"
    /\ \A d, e \in takers : d = e

(* Chips are neither made nor lost: what is not in the balance is held or   *)
(* spent by some launch, also after a refusal half-way.                     *)
ChipsAreConserved ==
  chips + MapThenSumSet(LAMBDA d : Total(order[d].held) + Total(order[d].spent), Orders) = Funds

LaunchesArePaid == PriceIsPaidOnce /\ FreeOnce /\ ChipsAreConserved
=============================================================================
