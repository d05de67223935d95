------------------------------ MODULE LoadCases ------------------------------
(***************************************************************************)
(* What an iteration makes of the results of its load cases: the ratios of *)
(* measured values to their limits, the verdict, the worst ratio, the      *)
(* sensitivity they are combined into and the adaptive weights.            *)
(*                                                                         *)
(*   a case    [weight, sigma : limit or None, disps : Seq([node, limit])] *)
(*   a result  [sigma, disps : [nodes found -> value], raw : field]        *)
(*                                                                         *)
(* Ratios and weights are percentages.                                     *)
(***************************************************************************)
EXTENDS VolumeControl, Functions

CONSTANTS
  None,       \* no limit, no ratio, nothing saved
  NaN,        \* the value of a node that the results do not hold
  FilterRows  \* [Elements -> [Elements -> percentage]]: the spatial filter

(***************************************************************************)
(* Verdict and worst ratio.                                                *)
(***************************************************************************)
Within(value, limit) == limit = None \/ (value # NaN /\ value <= limit)

(* One row for each displacement constraint of a case.                     *)
Breakdown(case, res) ==
  [i \in DOMAIN case.disps |->
     LET c     == case.disps[i]
         value == IF c.node \in DOMAIN res.disps THEN res.disps[c.node] ELSE NaN
     IN  [value |-> value, limit |-> c.limit, within |-> Within(value, c.limit)]]

Ratio(value, limit) == IF value = NaN THEN NaN ELSE (Percent * value) \div limit

(* The limits of a case in the order they are read; 0 is the stress.       *)
Limited(case) ==
  (IF case.sigma = None THEN {} ELSE {0})
    \cup {i \in DOMAIN case.disps : case.disps[i].limit # None}

Ratios(case, res) ==
  [k \in Limited(case) |->
     IF k = 0 THEN Ratio(res.sigma, case.sigma)
     ELSE Ratio(Breakdown(case, res)[k].value, Breakdown(case, res)[k].limit)]

(* The maximum as Python takes it: nothing compares with NaN, so a NaN in  *)
(* front stays and any other is passed over.                               *)
Largest(first, ratios) == IF first = NaN THEN NaN ELSE Max(ratios \ {NaN})

CaseViolation(case, res) ==
  IF Limited(case) = {} THEN None
  ELSE Largest(Ratios(case, res)[Min(Limited(case))], Range(Ratios(case, res)))

WorstViolation(cases, results) ==
  LET held  == {i \in DOMAIN cases : Limited(cases[i]) # {}}
      front == Min(held)
  IN  IF held = {} THEN 0
      ELSE Largest(Ratios(cases[front], results[front])[Min(Limited(cases[front]))],
                   UNION {Range(Ratios(cases[i], results[i])) : i \in held})

CaseFeasible(case, res) ==
  /\ Within(res.sigma, case.sigma)
  /\ \A i \in DOMAIN case.disps : Breakdown(case, res)[i].within
AllFeasible(cases, results) == \A i \in DOMAIN cases : CaseFeasible(cases[i], results[i])

(* No stress and no energy anywhere: the model carried no load.            *)
IsNullSolve(res) == res.sigma = 0 /\ \A e \in Elements : res.raw[e] = 0

(***************************************************************************)
(* Sensitivity.                                                            *)
(***************************************************************************)
Total(f) == MapThenSumSet(LAMBDA i : f[i], DOMAIN f)
Peak(raw) == Max({raw[e] : e \in Elements})

(* Each case is scaled by its own peak; a single one is left alone.        *)
Combined(raws, weights) ==
  IF Len(raws) = 1 THEN raws[1]
  ELSE [e \in Elements |->
          Total([i \in DOMAIN raws |->
                   (weights[i] * raws[i][e])
                     \div (IF Peak(raws[i]) > 0 THEN Peak(raws[i]) ELSE 1)])]

(* Filtered, then averaged with the iteration before.                      *)
BlendHistory(share, raw, before) ==
  LET filtered == [e \in Elements |->
                     Total([n \in Elements |-> FilterRows[e][n] * raw[n]]) \div Percent]
  IN  IF before = None THEN filtered
      ELSE [e \in Elements |-> (share * filtered[e] + (Percent - share) * before[e]) \div Percent]

(***************************************************************************)
(* Adaptive weights (p.push a whole exponent, p.bound the clamp).          *)
(***************************************************************************)
Base(p) == [i \in DOMAIN p.cases |-> p.cases[i].weight]
Signal(v) == v \notin {None, NaN, Inf} /\ v > 0
Power(x, n) == LET power[k \in 0..n] == IF k = 0 THEN 1 ELSE x * power[k - 1] IN power[n]

(* A mutant: weights that nothing clamps.                                   *)
BalancedUnclamped(p, w, vs) ==
  LET known == {i \in DOMAIN vs : Signal(vs[i])}
      sum   == Total([i \in known |-> vs[i]])
  IN  IF Cardinality(known) < 2 THEN w
      ELSE [i \in DOMAIN w |->
              IF i \in known THEN (w[i] * Power(vs[i] * Cardinality(known), p.push)) \div Power(sum, p.push)
              ELSE w[i]]

(* Towards equal utilisation, with the sum kept and then the clamp.        *)
Balanced(p, w, vs) ==
  LET base   == Base(p)
      known  == {i \in DOMAIN vs : Signal(vs[i])}
      sum    == Total([i \in known |-> vs[i]])
      pushed == [i \in DOMAIN w |->
                   IF i \in known
                   THEN (w[i] * Power(vs[i] * Cardinality(known), p.push)) \div Power(sum, p.push)
                   ELSE w[i]]
      scaled == IF Total(pushed) = 0 THEN pushed
                ELSE [i \in DOMAIN w |-> (pushed[i] * Total(base)) \div Total(pushed)]
  IN  IF Cardinality(known) < 2 THEN w
      ELSE [i \in DOMAIN w |->
              Min({base[i] * p.bound, Max({base[i] \div p.bound, scaled[i]})})]

(* No controller for a single case, or when it is switched off.            *)
Adapts(p) == p.adaptive /\ Len(p.cases) >= 2
FirstWeights(p) == IF Adapts(p) THEN Base(p) ELSE None

(* Weights of another number of cases are ignored.                         *)
RestoredWeights(p, saved) ==
  IF ~Adapts(p) \/ saved = None \/ DOMAIN saved # DOMAIN p.cases
  THEN FirstWeights(p) ELSE saved

(***************************************************************************)
(* Volume fell although the target it was updated for asked for growth:    *)
(* pair is the volume and the target of the update before, or None.        *)
(***************************************************************************)
GrowStall(count, pair, V) ==
  IF pair = None THEN 0
  ELSE IF pair.target > pair.vol * Scale /\ V < pair.vol THEN count + 1 ELSE 0
=============================================================================
