------------------------------ MODULE Percentiles ------------------------------
(***************************************************************************)
(* The percentile algorithms of internal/gasanalyzer (util.go, type.go and *)
(* the two Percentiles functions of analyzer.go): from weighted tips to    *)
(* one priority fee per level.                                             *)
(*                                                                         *)
(* The float weights are integers in a unit small enough, and the targets  *)
(* percentages: rounding of floating point is not modelled, truncation to  *)
(* integers is.  Sequences start at 1, so the index of a target is one     *)
(* more than its constant P20, P40, ... in the code.                       *)
(***************************************************************************)
EXTENDS BaseFee, Sequences, SequencesExt

CONSTANTS DefaultFees, DefaultCutoff    \* defaultValue

Levels == {"market", "fast", "urgent"}

ASSUME PercentilesAssumption ==
    /\ DefaultFees \in [Levels -> 0 .. MaxUint]
    /\ DefaultFees["market"] <= DefaultFees["fast"]
    /\ DefaultFees["fast"] <= DefaultFees["urgent"]
    /\ DefaultCutoff \in 0 .. MaxUint

GasAnalysisTargets == <<20, 40, 45, 50, 55, 60, 65, 70, 75, 80, 85, 90, 95>>

(* For every level: the weight of each target in its fee.                  *)
PredictionGroups ==
    [market |-> <<<<2, 1>>, <<3, 1>>, <<4, 4>>, <<5, 1>>, <<6, 1>>>>,
     fast   |-> <<<<7, 1>>, <<8, 5>>, <<9, 10>>, <<10, 5>>, <<11, 1>>>>,
     urgent |-> <<<<11, 1>>, <<12, 3>>, <<13, 1>>>>]

(* The sum of the first i numbers, for every i.                            *)
RunningSums(f) ==
    LET sum[i \in 0 .. Len(f)] == IF i = 0 THEN 0 ELSE sum[i - 1] + f[i]
    IN sum

Total(f) == RunningSums(f)[Len(f)]

Weights(poolData) == [i \in DOMAIN poolData |-> poolData[i].Weight]

totalWeight(poolData) == Total(Weights(poolData))

Reached(cumulative, target, total) == 100 * cumulative >= target * total

TargetsReached(cumulative, total) ==
    Cardinality({k \in DOMAIN GasAnalysisTargets : Reached(cumulative, GasAnalysisTargets[k], total)})

(* The results up to a target that have no value yet get this tip.         *)
Fill(results, target, tip) == results \o [k \in 1 .. target - Len(results) |-> tip]

(* The results after each iteration of the loop over the sorted tips.      *)
FilledBy(poolData) ==
    LET cumulative == RunningSums(Weights(poolData))
        total == totalWeight(poolData)
        results[i \in 0 .. Len(poolData)] ==
            IF i = 0 THEN <<>>
            ELSE Fill(results[i - 1], TargetsReached(cumulative[i], total), poolData[i].Tip)
    IN results

(* The last tip serves the targets that are left.                          *)
calculateWeightedPercentiles(poolData) ==
    IF totalWeight(poolData) = 0 THEN <<>>
    ELSE Fill(FilledBy(poolData)[Len(poolData)], Len(GasAnalysisTargets), Last(poolData).Tip)

(* The weighted mean of a group, over the targets there are, truncated.    *)
calculateWeightedValue(values, group) ==
    LET weights == [i \in DOMAIN group |-> IF group[i][1] <= Len(values) THEN group[i][2] ELSE 0]
        parts == [i \in DOMAIN group |-> IF weights[i] = 0 THEN 0 ELSE values[group[i][1]] * weights[i]]
        weight == Total(weights)
    IN IF weight = 0 THEN 0 ELSE Total(parts) \div weight

buildPrediction(percentiles) ==
    [level \in Levels |-> calculateWeightedValue(percentiles, PredictionGroups[level])]

(* Mutant of Twice: the overflow check is forgotten.                       *)
TwiceWrapping(p95) == (2 * p95) % (MaxUint + 1)

(* Twice the tip, or the largest number where that overflows.              *)
Twice(p95) ==
    LET upperBound == (2 * p95) % (MaxUint + 1)
    IN IF upperBound < p95 THEN MaxUint ELSE upperBound

calculateOuterBound(poolData) ==
    LET cumulative == RunningSums(Weights(poolData))
        total == totalWeight(poolData)
        reaching == {i \in DOMAIN poolData : Reached(cumulative[i], 95, total)}
        p95 == IF total = 0 \/ reaching = {} THEN 0 ELSE poolData[Min(reaching)].Tip
        upperBound == IF p95 = 0 THEN 0 ELSE Twice(p95)
    IN [Count |-> IF p95 = 0 THEN 0
                  ELSE Cardinality({i \in DOMAIN poolData : poolData[i].Tip > upperBound}),
        UpperBound |-> upperBound]

(* The place of the i-th tip in increasing order.  Equal tips keep their   *)
(* order here; slices.SortFunc may give them any.                          *)
Rank(poolData, i) ==
    Cardinality({j \in DOMAIN poolData :
        \/ poolData[j].Tip < poolData[i].Tip
        \/ poolData[j].Tip = poolData[i].Tip /\ j <= i})

(* Mutant of SortedByTip: the tips stay in the order they came in.         *)
UnsortedByTip(poolData) == poolData

SortedByTip(poolData) ==
    LET rank == [i \in DOMAIN poolData |-> Rank(poolData, i)]
    IN [r \in DOMAIN poolData |-> poolData[CHOOSE i \in DOMAIN poolData : rank[i] = r]]

(* The tips beyond the bound are replaced by it.                           *)
Capped(sorted) ==
    LET outer == calculateOuterBound(sorted)
    IN [i \in DOMAIN sorted |->
           IF i > Len(sorted) - outer.Count THEN [sorted[i] EXCEPT !.Tip = outer.UpperBound] ELSE sorted[i]]

PendingPercentiles(poolData) ==
    IF poolData = <<>> THEN DefaultFees
    ELSE buildPrediction(calculateWeightedPercentiles(Capped(SortedByTip(poolData))))

(* The fees, and the 20th percentile as the cutoff.                        *)
BlockPercentiles(poolData) ==
    LET percentiles == calculateWeightedPercentiles(SortedByTip(poolData))
    IN IF poolData = <<>> THEN [Fees |-> DefaultFees, Cutoff |-> DefaultCutoff]
       ELSE [Fees |-> buildPrediction(percentiles), Cutoff |-> percentiles[1]]

=============================================================================
