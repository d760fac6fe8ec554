------------------------------ MODULE Personas ------------------------------
(* Cohorts and personas (services/personas.py): a distribution is split     *)
(* into segments by the largest remainder, and the segments are reduced to  *)
(* at most MaxPersonas representatives.  Weights are whole numbers of some  *)
(* small unit; the float noise of the code only decides ties, and ties are  *)
(* open here because the shuffle of the seed decides them too.              *)
EXTENDS Integers, Sequences, FiniteSets, FiniteSetsExt, Functions

CONSTANTS
  Dimensions,     \* the distributions of one dimension that users enter
  MaxDimensions,  \* bound: dimensions of a distribution
  PersonaCounts,  \* persona_count
  Whole,          \* 100 percent, in units
  Tolerance,      \* WEIGHT_SUM_TOLERANCE, in units
  MaxSegments,    \* MAX_SEGMENTS
  MaxPersonas     \* MAX_REPRESENTATIVE_PERSONAS

VARIABLES
  distribution,   \* dimension -> bucket -> weight
  sample,         \* sample_cohorts: total_count and the count of every segment
  projection      \* what build_representative_personas made of it

personaVars == <<distribution, sample, projection>>

NoSample == [total |-> 0, segments |-> <<>>]
NoProjection == [status |-> "none", weights |-> <<>>]

PersonasInit ==
  /\ distribution = <<>>
  /\ sample = NoSample
  /\ projection = NoProjection

Total(f) == FoldFunction(+, 0, f)

-----------------------------------------------------------------------------
(* _validate_buckets: every weight is positive and they make up the whole,  *)
(* nearly.                                                                  *)
ValidDimension(weights) ==
  /\ weights # <<>> /\ \A i \in DOMAIN weights : weights[i] > 0
  /\ Total(weights) - Whole \in -Tolerance..Tolerance

(* A segment takes a bucket of every dimension.                             *)
Combinations(d) == {c \in [DOMAIN d -> 1..Max({Len(d[i]) : i \in DOMAIN d} \cup {1})] :
                      \A i \in DOMAIN d : c[i] <= Len(d[i])}
ComboWeight(d, c) == FoldFunction(LAMBDA x, y : x * y, 1, [i \in DOMAIN d |-> d[i][c[i]]])
WholeOf(d) == FoldFunction(LAMBDA x, y : x * y, 1, [i \in DOMAIN d |-> Whole])

(* The segments that get one more: the first ones in the order of their     *)
(* remainders.  A negative number drops as many from the end of the order,  *)
(* as a Python slice does.                                                  *)
SliceLength(remaining, length) ==
  IF remaining >= 0 THEN Min({remaining, length}) ELSE Max({length + remaining, 0})
WinnersNone(remainder, remaining) == {{}}
Winners(remainder, remaining) ==
  LET combos == DOMAIN remainder
      length == SliceLength(remaining, Cardinality(combos)) IN
  {S \in kSubset(length, combos) : \A c \in S, e \in combos \ S : remainder[c] >= remainder[e]}

(* _allocate_counts: all results that some seed leads to.                   *)
AllocatedCounts(d, total) ==
  LET raw == [c \in Combinations(d) |-> total * ComboWeight(d, c)]
      base == [c \in DOMAIN raw |-> raw[c] \div WholeOf(d)]
      remainder == [c \in DOMAIN raw |-> raw[c] % WholeOf(d)] IN
  {[c \in DOMAIN raw |-> base[c] + (IF c \in S THEN 1 ELSE 0)] :
     S \in Winners(remainder, total - Total(base))}

(* A mutant: empty segments are kept.                                      *)
PopulatedOrNot(counts) == counts

Populated(counts) == Restrict(counts, {c \in DOMAIN counts : counts[c] > 0})

(* Without dimensions there is one segment of everybody, as there is one    *)
(* combination of none.                                                     *)
SampleCohorts(d, total) ==
  /\ sample = NoSample
  /\ \A i \in DOMAIN d : ValidDimension(d[i])
  /\ Cardinality(Combinations(d)) <= MaxSegments
  /\ distribution' = d
  /\ \E counts \in AllocatedCounts(d, total) :
       sample' = [total |-> total, segments |-> Populated(counts)]
  /\ UNCHANGED projection

-----------------------------------------------------------------------------
(* build_representative_personas.  Segment keys are taken to be in the      *)
(* order of their buckets.                                                  *)
KeyBefore(c, e) == \E i \in DOMAIN c : c[i] < e[i] /\ (\A j \in 1..i - 1 : c[j] = e[j])
Distance(c, e) == Cardinality({i \in DOMAIN c : c[i] # e[i]})

LargerThan(counts, c, e) ==
  counts[c] > counts[e] \/ (counts[c] = counts[e] /\ KeyBefore(c, e))
Representatives(counts) ==
  {c \in DOMAIN counts : Cardinality({e \in DOMAIN counts : LargerThan(counts, e, c)}) < MaxPersonas}
Nearest(c, representatives) ==
  CHOOSE r \in representatives : \A q \in representatives \ {r} :
    \/ Distance(c, r) < Distance(c, q)
    \/ (Distance(c, r) = Distance(c, q) /\ KeyBefore(r, q))
Weights(counts) ==
  LET representatives == Representatives(counts) IN
  [r \in representatives |->
     Total(Restrict(counts, {c \in DOMAIN counts : Nearest(c, representatives) = r}))]

(* A sum that is not the total fails the launch (or the preview keeps it).  *)
Refused(weights, total) == Total(weights) # total
BuildRepresentativePersonas ==
  LET weights == Weights(sample.segments) IN
  /\ sample # NoSample /\ projection = NoProjection
  /\ projection' = IF Refused(weights, sample.total)
                   THEN [status |-> "refused", weights |-> <<>>]
                   ELSE [status |-> "stored", weights |-> weights]
  /\ UNCHANGED <<distribution, sample>>

PersonasNext ==
  \/ \E n \in 0..MaxDimensions : \E d \in [1..n -> Dimensions], total \in PersonaCounts :
       SampleCohorts(d, total)
  \/ BuildRepresentativePersonas

PersonasSpec == PersonasInit /\ [][PersonasNext]_personaVars

-----------------------------------------------------------------------------
(* Every variable has its type.                                             *)
PersonasTypeOK ==
  /\ \A i \in DOMAIN distribution : distribution[i] \in Dimensions
  /\ sample.total \in {0} \cup PersonaCounts
  /\ \A c \in DOMAIN sample.segments : sample.segments[c] \in Nat \ {0}
  /\ projection.status \in {"none", "refused", "stored"}

(* What the sampler promises: the segments add up to the personas asked     *)
(* for, whatever the seed.  Does not hold for every valid distribution: a   *)
(* sum off by the tolerance moves more personas than there are remainders.  *)
SampleAddsUp == Total(sample.segments) = sample.total

(* What does hold: weights that make up the whole give counts that add up,  *)
(* each within one of its exact share; and the personas of a launch are     *)
(* never more than allowed, add up to its persona_count, and stand for      *)
(* whole segments, the largest among them, by a merge that no seed changes. *)
CohortsAddUp ==
  LET counts == sample.segments
      weights == projection.weights IN
  /\ (\A i \in DOMAIN distribution : Total(distribution[i]) = Whole) =>
       /\ SampleAddsUp
       /\ \A c \in DOMAIN counts :
            counts[c] * WholeOf(distribution) - sample.total * ComboWeight(distribution, c)
              \in -WholeOf(distribution)..WholeOf(distribution)
  /\ projection.status = "stored" =>
       /\ Total(weights) = sample.total
       /\ Cardinality(DOMAIN weights) = Min({MaxPersonas, Cardinality(DOMAIN counts)})
       /\ \A r \in DOMAIN weights, c \in DOMAIN counts \ DOMAIN weights :
            counts[c] <= counts[r] /\ counts[r] <= weights[r]
=============================================================================
