--------------------------- MODULE PersonaBatches ---------------------------
(* What the stages of an AI pipeline hand to each other (services/          *)
(* ai_pipeline: batching, persistence, validation, aggregation): stage 2    *)
(* cuts the personas of a run into batches and stores a manifest without    *)
(* their attributes; stages 3 and 4 rebuild the batches from the persona    *)
(* rows and ask a provider about each; stage 5 adds the answers up; stage 6 *)
(* asks for a report.  When the stages run, how often they are tried and    *)
(* who may write them is AIPipelineGroup's: a refused answer or a failed    *)
(* rebuild changes nothing here.  The rows are append-only in the program;  *)
(* the rebuild exists for rows that changed all the same, so up to MaxEdits *)
(* changes of a row by hand are part of the model.  A hash is what it is    *)
(* computed from.                                                           *)
EXTENDS Integers, Sequences, FiniteSets, FiniteSetsExt, Functions

CONSTANTS
  Launched,       \* personas the launch wrote
  RowWeights,        \* population_weight
  Expected,       \* persona_count of the run
  BatchSize,      \* DEFAULT_PERSONA_BATCH_SIZE
  MaxPersonaRows, \* MAX_PERSONAS_PER_PIPELINE
  Hypotheses,     \* friction hypotheses that an answer may name
  Completions,    \* LikelyCompletion
  MaxEdits        \* bound: rows changed by hand

VARIABLES
  rows,         \* persona row -> index, weight, attributes
  edits,        \* rows changed by hand so far
  pipeline,     \* the stage that the pipeline waits for
  manifest,     \* output of stage 2
  hypotheses,   \* output of stage 3
  queued,       \* batch -> the batch in the input hash of its stage
  estimates,    \* batch -> the batch it was asked about, and the results
  aggregation,  \* output of stage 5
  affected      \* output of stage 6: the users its finding affects

batchVars == <<rows, edits, pipeline, manifest, hypotheses, queued, estimates,
               aggregation, affected>>

NoManifest == [batches |-> <<>>, outputHash |-> <<>>, total |-> 0]
NoAggregation == [total |-> 0, buckets |-> [c \in Completions |-> 0],
                  issues |-> [h \in {} |-> 0]]

Attributes == {"written", "edited"}
BatchesInit ==
  /\ rows = <<>>
  /\ edits = 0
  /\ pipeline = "launch"
  /\ manifest = NoManifest
  /\ hypotheses = {}
  /\ queued = <<>>
  /\ estimates = [n \in {} |-> <<>>]
  /\ aggregation = NoAggregation
  /\ affected = 0

-----------------------------------------------------------------------------
(* persona_context_from_row for every row of the run.                       *)
Contexts == {[id |-> p, index |-> rows[p].index, weight |-> rows[p].weight,
              attributes |-> rows[p].attributes] : p \in DOMAIN rows}
TotalWeight(personas) == MapThenSumSet(LAMBDA c : c.weight, personas)

(* build_persona_batches: in the order of the indexes, cut every BatchSize. *)
Batchable(personas) ==
  /\ personas # {} /\ Cardinality(personas) <= MaxPersonaRows
  /\ \A c, d \in personas : c # d => c.index # d.index /\ c.id # d.id
BuildPersonaBatches(personas) ==
  LET Before(c) == {d \in personas : d.index < c.index}
      canonical == [n \in 1..Cardinality(personas) |->
                      CHOOSE c \in personas : Cardinality(Before(c)) = n - 1]
      batchCount == (Len(canonical) + BatchSize - 1) \div BatchSize IN
  [n \in 1..batchCount |->
     SubSeq(canonical, (n - 1) * BatchSize + 1, Min({n * BatchSize, Len(canonical)}))]

(* compute_batch_hash and persona_batches_output_hash: what goes into them.  *)
BatchHash(n, batch) ==
  [number |-> n, personas |-> batch, weight |-> TotalWeight(Range(batch))]
OutputHash(batches) == [n \in DOMAIN batches |-> BatchHash(n, batches[n])]

(* build_stage2_manifest: who is in a batch and with which weight, and two  *)
(* hashes; no attributes.                                                   *)
Entry(c) == [id |-> c.id, index |-> c.index, weight |-> c.weight]
Manifest(batches) ==
  [batches |-> [n \in DOMAIN batches |->
                  [entries |-> {Entry(c) : c \in Range(batches[n])},
                   batchHash |-> BatchHash(n, batches[n]),
                   weight |-> TotalWeight(Range(batches[n]))]],
   outputHash |-> OutputHash(batches),
   total |-> TotalWeight(UNION {Range(batches[n]) : n \in DOMAIN batches})]

(* rehydrate_persona_batches succeeds: the rows are the ones referenced,    *)
(* with their index and weight, and the rebuilt batches have the hashes.    *)
Referenced == UNION {manifest.batches[n].entries : n \in DOMAIN manifest.batches}
SameReferences == {Entry(c) : c \in Contexts} = Referenced
SameHashes(batches) ==
  /\ Len(batches) = Len(manifest.batches)
  /\ \A n \in DOMAIN batches : BatchHash(n, batches[n]) = manifest.batches[n].batchHash
  /\ OutputHash(batches) = manifest.outputHash
RehydratableByReference == SameReferences /\ Batchable(Contexts)
Rehydratable ==
  SameReferences /\ Batchable(Contexts) /\ SameHashes(BuildPersonaBatches(Contexts))

-----------------------------------------------------------------------------
(* _persona_rows_from_projection, at the launch: indexes from 0, weights as *)
(* the projection left them, which need not add up to persona_count.        *)
LaunchRows(weights) ==
  /\ pipeline = "launch"
  /\ rows' = [p \in 1..Launched |->
                [index |-> p - 1, weight |-> weights[p], attributes |-> "written"]]
  /\ pipeline' = "none"
  /\ UNCHANGED <<edits, manifest, hypotheses, queued, estimates, aggregation, affected>>

(* initialize_ai_pipeline, or record_initialization_failure when            *)
(* _validate_persona_set refuses the rows.                                  *)
ValidPersonaSet == Batchable(Contexts) /\ TotalWeight(Contexts) = Expected
Initialize ==
  /\ pipeline = "none"
  /\ pipeline' = IF ValidPersonaSet THEN "batching" ELSE "failed"
  /\ UNCHANGED <<rows, edits, manifest, hypotheses, queued, estimates, aggregation, affected>>

(* Stage 2.                                                                 *)
PrepareBatches ==
  /\ pipeline = "batching" /\ Batchable(Contexts)
  /\ manifest' = Manifest(BuildPersonaBatches(Contexts))
  /\ pipeline' = "scenario"
  /\ UNCHANGED <<rows, edits, hypotheses, queued, estimates, aggregation, affected>>

(* Stage 3: the provider names hypotheses; its success queues one stage per *)
(* batch, whose input hash holds the rebuilt batch.                         *)
InterpretScenario(answer) ==
  /\ pipeline = "scenario" /\ Rehydratable
  /\ hypotheses' = answer
  /\ queued' = BuildPersonaBatches(Contexts)
  /\ pipeline' = "behavior"
  /\ UNCHANGED <<rows, edits, manifest, estimates, aggregation, affected>>

(* validate_persona_behavior_batch: a result for every persona of the       *)
(* batch and for no other one, naming only known hypotheses.                *)
Indexes(personas) == {c.index : c \in personas}
ValidBehaviorOrLess(batch, results) ==
  \A i \in DOMAIN results : results[i].hypotheses \subseteq hypotheses
ValidBehavior(batch, results) ==
  /\ DOMAIN results = Indexes(Range(batch))
  /\ \A i \in DOMAIN results : results[i].hypotheses \subseteq hypotheses

(* Stage 4 of one batch: rebuild it, ask about it, validate the answer; the *)
(* write checks that the input hash is the one it was queued with.  The     *)
(* last batch lets stage 5 in.                                              *)
EstimateBehavior(n, results) ==
  LET batch == BuildPersonaBatches(Contexts)[n] IN
  /\ pipeline = "behavior" /\ n \in DOMAIN queued \ DOMAIN estimates
  /\ Rehydratable
  /\ ValidBehavior(batch, results)
  /\ batch = queued[n]
  /\ estimates' = [m \in DOMAIN estimates \cup {n} |->
                     IF m = n THEN [asked |-> batch, results |-> results] ELSE estimates[m]]
  /\ pipeline' = IF Cardinality(DOMAIN estimates') < Len(manifest.batches)
                 THEN "behavior" ELSE "aggregation"
  /\ UNCHANGED <<rows, edits, manifest, hypotheses, queued, aggregation, affected>>

(* aggregate_persona_behavior, over the rows as they are now: one result    *)
(* per persona, added up by completion and by hypothesis.                   *)
Results == UNION {{[index |-> i, result |-> estimates[n].results[i]] :
                     i \in DOMAIN estimates[n].results} : n \in DOMAIN estimates}
NoForeignResult(personas) == {r.index : r \in Results} \subseteq Indexes(personas)
OneResultEach(personas) == {r.index : r \in Results} = Indexes(personas)
UsersOf(personas, results) ==
  TotalWeight({c \in personas : c.index \in {r.index : r \in results}})
Names(h) == \E r \in Results : h \in r.result.hypotheses
Aggregate ==
  /\ pipeline = "aggregation"
  /\ Contexts # {} /\ OneResultEach(Contexts)
  /\ \A r \in Results : r.result.hypotheses \subseteq hypotheses
  /\ aggregation' =
       [total |-> TotalWeight(Contexts),
        buckets |-> [c \in Completions |->
                       UsersOf(Contexts, {r \in Results : r.result.completion = c})],
        issues |-> [h \in {g \in hypotheses : Names(g)} |->
                      UsersOf(Contexts, {r \in Results : h \in r.result.hypotheses})]]
  /\ pipeline' = "report"
  /\ UNCHANGED <<rows, edits, manifest, hypotheses, queued, estimates, affected>>

(* validate_ux_report: no finding affects more users than there are.        *)
ValidReport(users) == users <= aggregation.total
WriteReport(users) ==
  /\ pipeline = "report" /\ ValidReport(users)
  /\ affected' = users
  /\ pipeline' = "succeeded"
  /\ UNCHANGED <<rows, edits, manifest, hypotheses, queued, estimates, aggregation>>

-----------------------------------------------------------------------------
(* A row is added or changed by hand, never to an index that another row    *)
(* has nor to a weight of nothing (the table forbids both), or removed.     *)
EditRow ==
  /\ pipeline # "launch" /\ edits < MaxEdits /\ edits' = edits + 1
  /\ \E p \in 1..(Launched + 1), i \in 0..Launched, w \in RowWeights, a \in Attributes :
       /\ \A q \in DOMAIN rows \ {p} : rows[q].index # i
       /\ rows' = [q \in DOMAIN rows \cup {p} |->
                     IF q = p THEN [index |-> i, weight |-> w, attributes |-> a] ELSE rows[q]]
  /\ UNCHANGED <<pipeline, manifest, hypotheses, queued, estimates, aggregation, affected>>
DropRow ==
  /\ pipeline # "launch" /\ edits < MaxEdits /\ edits' = edits + 1
  /\ \E p \in DOMAIN rows : rows' = [q \in DOMAIN rows \ {p} |-> rows[q]]
  /\ UNCHANGED <<pipeline, manifest, hypotheses, queued, estimates, aggregation, affected>>

Answers == [completion : Completions, hypotheses : SUBSET Hypotheses]
BatchesNext ==
  \/ \E weights \in [1..Launched -> RowWeights] : LaunchRows(weights)
  \/ Initialize \/ PrepareBatches \/ Aggregate \/ EditRow \/ DropRow
  \/ \E answer \in SUBSET Hypotheses : InterpretScenario(answer)
  \/ \E n \in DOMAIN queued, S \in SUBSET (0..(Launched - 1)) :
       \E results \in [S -> Answers] : EstimateBehavior(n, results)
  \/ \E users \in 0..(Expected + 1) : WriteReport(users)

BatchesSpec == BatchesInit /\ [][BatchesNext]_batchVars

-----------------------------------------------------------------------------
Persona == [id : 1..(Launched + 1), index : 0..Launched, weight : RowWeights,
            attributes : Attributes]

(* Every output has its type; a batch in it is a sequence of personas.      *)
BatchesTypeOK ==
  /\ {rows[p].weight : p \in DOMAIN rows} \subseteq RowWeights /\ edits \in 0..MaxEdits
  /\ pipeline \in {"launch", "none", "failed", "batching", "scenario", "behavior",
                   "aggregation", "report", "succeeded"}
  /\ \A n \in DOMAIN manifest.batches :
       manifest.batches[n].batchHash.personas \in Seq(Persona) \ {<<>>}
  /\ hypotheses \subseteq Hypotheses
  /\ DOMAIN estimates \subseteq DOMAIN queued
  /\ aggregation.total \in Nat /\ affected \in Nat

(* Stage 2 puts every persona into one batch, in the order of the indexes,  *)
(* fills every batch but the last, and the weights add up.                  *)
BatchesPartition ==
  LET batches == [n \in DOMAIN manifest.outputHash |-> manifest.outputHash[n].personas] IN
  /\ \A m, n \in DOMAIN batches : \A i \in DOMAIN batches[m], j \in DOMAIN batches[n] :
       m < n \/ (m = n /\ i < j) =>
         batches[m][i].index < batches[n][j].index /\ batches[m][i].id # batches[n][j].id
  /\ \A n \in DOMAIN batches : n < Len(batches) => Len(batches[n]) = BatchSize
  /\ \A n \in DOMAIN batches : Len(batches[n]) \in 1..BatchSize
  /\ manifest.total = MapThenSumSet(LAMBDA n : manifest.batches[n].weight, DOMAIN batches)

(* What the provider is asked about in stage 4 is the batch that stage 2    *)
(* cut, attributes included, although those were read again and whatever    *)
(* was changed in between; and each of its personas has one result.         *)
AskedAboutTheBatches ==
  \A n \in DOMAIN estimates :
    /\ n \in DOMAIN manifest.outputHash
    /\ estimates[n].asked = manifest.outputHash[n].personas
    /\ DOMAIN estimates[n].results = Indexes(Range(manifest.outputHash[n].personas))

(* Stage 5 counts every persona once, so that its buckets add up to its     *)
(* total; no hypothesis and no finding affects more users than there are;   *)
(* every hypothesis it reports is one that the scenario has.                *)
EverybodyCountsOnce ==
  pipeline \in {"report", "succeeded"} =>
    /\ aggregation.total > 0
    /\ FoldFunction(+, 0, aggregation.buckets) = aggregation.total
    /\ \A h \in DOMAIN aggregation.issues : aggregation.issues[h] \in 1..aggregation.total
    /\ DOMAIN aggregation.issues \subseteq hypotheses
    /\ DOMAIN estimates = DOMAIN manifest.outputHash
    /\ affected <= aggregation.total

BatchesAreSound == BatchesPartition /\ AskedAboutTheBatches /\ EverybodyCountsOnce

(* Not an invariant: stage 5 reads the rows without rebuilding the batches, *)
(* so a weight changed after stage 4 changes the total.                     *)
TotalOfTheBatches == pipeline \in {"report", "succeeded"} => aggregation.total = manifest.total
=============================================================================
