----------------------------- MODULE MCAccounts -----------------------------
(* Model-checking instance of what an organization does with its account:   *)
(* the chip ledger, top-ups, first accesses, drafts, quotes, personas and   *)
(* the batches an AI pipeline makes of them.  They share no state here.     *)
(* One behaviour runs one of them: part names it, and the others stay in    *)
(* their initial state.                                                     *)
EXTENDS MCChipLedger, FirstAccess, Wizard

CONSTANTS
  TopUpRequests, Reviewers,
  Dimensions, MaxDimensions, PersonaCounts, Whole, Tolerance, MaxSegments, MaxPersonas,
  Launched, RowWeights, Expected, BatchSize, MaxPersonaRows, Hypotheses, Completions, MaxEdits,
  Orders, Requests, Config, FreePersonas, Funds

VARIABLES
  part,
  topup, topUpCredited, review, topUpTold,
  distribution, sample, projection,
  rows, edits, pipeline, manifest, hypotheses, queued, estimates, aggregation, affected,
  freeUse, chips, order

TopUp == INSTANCE TopUps WITH credited <- topUpCredited, told <- topUpTold
Cohorts == INSTANCE Personas
Batches == INSTANCE PersonaBatches
Prices == INSTANCE Quotes

(* Prices are whole numbers of chips, and none is negative (PricingConfig); *)
(* a request is for one of the tests and some of the modules.               *)
ASSUME PricingAssumption ==
  /\ IsFiniteSet(Orders) /\ Funds \in Nat
  /\ Config.perPersona \in Nat /\ Config.precheck \in Nat
  /\ Requests # {}
  /\ \A r \in Requests :
       /\ r.type \in Prices!Types /\ r.personas \in Nat
       /\ IsFiniteSet(r.modules) /\ \A m \in r.modules : Config.modules[m] \in Nat

(* Weights are whole numbers of units.                                      *)
ASSUME CohortsAssumption ==
  /\ Dimensions \subseteq Seq(Int)
  /\ Whole \in Nat \ {0}
  /\ PersonaCounts \subseteq Nat
  /\ MaxPersonas \in Nat \ {0}

(* Every row stands for users (a CHECK of the table), and every batch has   *)
(* one.                                                                     *)
ASSUME BatchesAssumption ==
  /\ Launched \in Nat
  /\ RowWeights \subseteq Nat \ {0}
  /\ BatchSize \in Nat \ {0}
  /\ Expected \in Nat
  /\ MaxEdits \in Nat
  /\ IsFiniteSet(Completions)

topUpVars == <<topup, topUpCredited, review, topUpTold>>
cohortVars == <<distribution, sample, projection>>
batchVars == <<rows, edits, pipeline, manifest, hypotheses, queued, estimates,
               aggregation, affected>>
quoteVars == <<freeUse, chips, order>>
accountsVars == <<part, vars, topUpVars, accessVars, wizardVars, cohortVars, batchVars,
                  quoteVars>>

AccountsInit ==
  /\ part \in {"ledger", "topUp", "access", "draft", "cohorts", "batches", "quotes"}
  /\ Init
  /\ TopUp!TopUpInit
  /\ AccessInit
  /\ WizardInit
  /\ Cohorts!PersonasInit
  /\ Batches!BatchesInit
  /\ Prices!QuotesInit

(* A step of one component leaves the others alone.                         *)
OnlyLedger ==
  /\ part = "ledger"
  /\ UNCHANGED <<part, topUpVars, accessVars, wizardVars, cohortVars, batchVars, quoteVars>>
OnlyTopUp ==
  /\ part = "topUp"
  /\ UNCHANGED <<part, vars, accessVars, wizardVars, cohortVars, batchVars, quoteVars>>
OnlyAccess ==
  /\ part = "access"
  /\ UNCHANGED <<part, vars, topUpVars, wizardVars, cohortVars, batchVars, quoteVars>>
OnlyDraft ==
  /\ part = "draft"
  /\ UNCHANGED <<part, vars, topUpVars, accessVars, cohortVars, batchVars, quoteVars>>
OnlyCohorts ==
  /\ part = "cohorts"
  /\ UNCHANGED <<part, vars, topUpVars, accessVars, wizardVars, batchVars, quoteVars>>
OnlyBatches ==
  /\ part = "batches"
  /\ UNCHANGED <<part, vars, topUpVars, accessVars, wizardVars, cohortVars, quoteVars>>
OnlyQuotes ==
  /\ part = "quotes"
  /\ UNCHANGED <<part, vars, topUpVars, accessVars, wizardVars, cohortVars, batchVars>>

AccountsNext ==
  \/ OnlyLedger /\ Next
  \/ OnlyTopUp /\ TopUp!TopUpNext
  \/ OnlyAccess /\ AccessNext
  \/ OnlyDraft /\ WizardNext
  \/ OnlyCohorts /\ Cohorts!PersonasNext
  \/ OnlyBatches /\ Batches!BatchesNext
  \/ OnlyQuotes /\ Prices!QuotesNext

AccountsSpec == AccountsInit /\ [][AccountsNext]_accountsVars

Interchangeable == Permutations(Callers)

(* Distributions whose weights, in tenths, divide with and without          *)
(* remainders, with ties, or are off by the tolerance.                      *)
MCDimensions == {<<10>>, <<5, 5>>, <<7, 3>>, <<3, 3, 3>>, <<4, 4, 3>>, <<6, 2, 2>>, <<9>>, <<11>>}

(* Tests within and beyond the free limit, with modules of every kind.      *)
MCRequests ==
  {[type |-> "basic_ux_test", personas |-> 1, modules |-> {}],
   [type |-> "basic_ux_test", personas |-> 2, modules |-> {"network_device_test", "ai_report"}],
   [type |-> "basic_ux_test", personas |-> 3, modules |-> {"ai_interaction_heatmap"}],
   [type |-> "accessibility_precheck", personas |-> 1, modules |-> {"ai_report", "ai_interaction_heatmap"}]}
MCConfig ==
  [perPersona |-> 1, precheck |-> 3,
   modules |-> [network_device_test |-> 4, ai_report |-> 5, ai_interaction_heatmap |-> 2]]

-----------------------------------------------------------------------------
(* Every variable of the component that runs has its type; for the ledger   *)
(* that is TypeOK.                                                          *)
AccountsTypeOK ==
  /\ part = "topUp" => TopUp!TopUpTypeOK
  /\ part = "access" => AccessTypeOK
  /\ part = "draft" => WizardTypeOK
  /\ part = "cohorts" => Cohorts!PersonasTypeOK
  /\ part = "batches" => Batches!BatchesTypeOK
  /\ part = "quotes" => Prices!QuotesTypeOK

PaidAsAgreed ==
  /\ part = "topUp" => TopUp!OneDecision
  /\ part = "quotes" => Prices!LaunchesArePaid
PopulationAddsUp ==
  /\ part = "cohorts" => Cohorts!CohortsAddUp
  /\ part = "batches" => Batches!BatchesAreSound
=============================================================================
