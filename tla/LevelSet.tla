------------------------------ MODULE LevelSet ------------------------------
(***************************************************************************)
(* The nodal level set: a value per node, alive where an element's nodes   *)
(* have no negative mean.  Values are whole units, the band is +-p.band of *)
(* them, speeds are percentages of unit speed, quotients are rounded down. *)
(***************************************************************************)
EXTENDS VolumeControl

ResyncPasses == 8
RdeIterations == 12   \* enough for the instances' contraction to settle
SmoothShare == 2      \* a smoothing pass goes 1/SmoothShare of the way

Nodes == UNION {NodesOf[e] : e \in Elements}
At(n) == {e \in Elements : n \in NodesOf[e]}
Beside == Computed([n \in Nodes |-> (UNION {NodesOf[e] : e \in At(n)}) \ {n}])

Clamped(v, band) == Max({-band, Min({v, band})})
InBand(phi, band) == Computed([n \in Nodes |-> Clamped(phi[n], band)])

ElementSum(phi, e) == MapThenSumSet(LAMBDA n : phi[n], NodesOf[e])
PhiAlive(phi) == {e \in Elements : ElementSum(phi, e) >= 0}
ElementsAlive(p, phi) == PhiAlive(phi) \cup p.protected

(* The volume-weighted mean of the elements at a node.                     *)
Scatter(vals) ==
  Computed([n \in Nodes |-> MapThenSumSet(LAMBDA e : Vol[e] * vals[e], At(n))
                              \div VolumeOf(At(n))])

(* The mean over a node's neighbours; alone, its own value.  A pass goes   *)
(* half the way; both keep a uniform shift uniform.                        *)
Around(phi, n) ==
  LET b == Beside[n]
  IN  IF b = {} THEN [sum |-> phi[n], of |-> 1]
      ELSE [sum |-> MapThenSumSet(LAMBDA k : phi[k], b), of |-> Cardinality(b)]

Smooth(phi, passes) ==
  LET pass[i \in 0..passes] ==
        IF i = 0 THEN phi
        ELSE LET v == pass[i - 1]
             IN  Computed([n \in Nodes |->
                   LET a == Around(v, n)
                   IN  (v[n] * a.of + a.sum) \div (SmoothShare * a.of)])
  IN  pass[passes]

(* The implicit reaction-diffusion step, by its fixed-point iteration.     *)
RdeStep(p, phi, velocity) ==
  LET c == p.diffusion
      rhs == Computed([n \in Nodes |-> phi[n] + (p.dt * velocity[n]) \div Percent])
      settle[i \in 0..RdeIterations] ==
        IF i = 0 THEN rhs
        ELSE LET v == settle[i - 1]
             IN  Computed([n \in Nodes |->
                   LET a == Around(v, n)
                   IN  (rhs[n] * a.of + c * a.sum) \div (a.of * (1 + c))])
  IN  IF c <= 0 THEN rhs ELSE settle[RdeIterations]

(* The first field of a process: the living by their rank of energy in the *)
(* upper half of the band, the void by theirs in the lower; ties share a   *)
(* rank.                                                                   *)
RankShare(S, field, e, span) ==
  LET below == Cardinality({f \in S : field[f] < field[e]})
      equal == Cardinality({f \in S : field[f] = field[e]})
  IN  (span * (2 * below + equal + 1)) \div (2 * (Cardinality(S) + 1))

Spread0(p, alive, field) ==
  [e \in Elements |->
     IF e \in alive THEN RankShare(alive, field, e, p.band)
     ELSE RankShare(Elements \ alive, field, e, p.band) - p.band]

InitPhi(p, alive, field) ==
  InBand(Smooth(Scatter(Spread0(p, alive, field)), p.passes), p.band)

(* Elements alive in the field but not in the mask are lowered until they  *)
(* threshold dead (their nodes by their own mean and a hair, the deepest   *)
(* push at a shared node), in at most ResyncPasses passes; their volume is *)
(* refunded.                                                               *)
StalePhi(p, phi, alive) == PhiAlive(phi) \ (alive \cup p.protected)

Lowered(p, phi, stale) ==
  LET Push(e) == ElementSum(phi, e) \div Cardinality(NodesOf[e]) + 1
  IN  Computed([n \in Nodes |->
         Max({-p.band, phi[n] - Max({0} \cup {Push(e) : e \in stale \cap At(n)})})])

ResyncedPhi(p, phi, alive) ==
  LET pass[i \in 0..ResyncPasses] ==
        IF i = 0 THEN phi
        ELSE LET v == pass[i - 1]
                 stale == StalePhi(p, v, alive)
             IN  IF stale = {} THEN v ELSE Lowered(p, v, stale)
  IN  pass[ResyncPasses]

(* The 99th percentile of at most a hundred magnitudes lies between the    *)
(* two greatest.                                                           *)
Percentile99(S, field) ==
  LET top    == CHOOSE e \in S : \A f \in S : field[f] <= field[e]
      second == Max({field[f] : f \in S \ {top}})
      n      == Cardinality(S)
  IN  IF n = 1 THEN field[top]
      ELSE second + ((Percent - (n - 1)) * (field[top] - second)) \div Percent

SpeedScale(p, alive, field) ==
  LET actionable == alive \ p.protected
      pool == IF actionable = {} THEN Elements ELSE actionable
      tops == <<Percentile99(pool, field), Max({field[e] : e \in pool}),
                Max({field[e] : e \in Elements})>>
  IN  IF tops[1] > 0 THEN tops[1] ELSE IF tops[2] > 0 THEN tops[2] ELSE tops[3]

(* The nodal speed: energy over the scale, within unit speed, less the     *)
(* nucleation term that lets low energy sink.                              *)
Velocity(p, alive, field) ==
  LET scale == SpeedScale(p, alive, field)
      vn == Scatter([e \in Elements |-> Percent * field[e]])
      speed == [n \in Nodes |-> IF scale > 0 THEN Clamped(vn[n] \div scale, Percent)
                                ELSE vn[n]]
  IN  Computed([n \in Nodes |->
         speed[n] - (p.nucleation * (Percent - speed[n])) \div Percent])

Evolved(p, phi, alive, field) ==
  LET velocity == Velocity(p, alive, field)
  IN  IF p.rule = "rde" THEN RdeStep(p, phi, velocity)
      ELSE Smooth(Computed([n \in Nodes |-> phi[n] + (p.dt * velocity[n]) \div Percent]),
                  p.passes)

(* The level by which the evolved field is lowered to meet the budget.     *)
AtLevel(p, base, tau) == InBand([n \in Nodes |-> base[n] - tau], p.band)

LevelKept(p, base, tau) == VolumeOf(PhiAlive(AtLevel(p, base, tau)) \ p.protected)

LowLevel(p, base) == Min({base[n] : n \in Nodes}) - p.band - 1
HighLevel(p, base) == Max({base[n] : n \in Nodes}) + p.band + 1

Levels(p, base, budget) ==
  IF p.protected = Elements THEN {Max({base[n] : n \in Nodes}) + 1}
  ELSE Bisected([tau \in LowLevel(p, base)..HighLevel(p, base) |-> LevelKept(p, base, tau)],
                budget)
=============================================================================
