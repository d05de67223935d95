---------------------------- MODULE VolumeControl ----------------------------
(***************************************************************************)
(* The volume target of the next design: the constraint gate and the       *)
(* multipoint controller.  Volumes of designs are whole units; a target is *)
(* in units of 1/Scale; utilisation (value over limit) and the knobs are   *)
(* percentages.  A knob record has the fields mode, er, goal, gain, floor, *)
(* cap, damp, window and aim.                                              *)
(***************************************************************************)
EXTENDS DesignMesh, Sequences, TLC

Scale == 10000          \* a target's resolution: one percent of one percent
Percent == 100
Inf == 1000000          \* the utilisation reported for a diverged solve

Feasible(v) == v <= Percent
Goal(k) == k.goal * V0 * Percent

(* A volume changed by a percentage of k's evolution rate.                 *)
Stepped(k, V, share) == V * (Scale + k.er * share)

BackOffShare(k, v) ==
  IF k.gain = 0 THEN Percent
  ELSE Max({k.floor, Min({(k.gain * (v - Percent)) \div Percent, k.cap})})

ShrinkShare(k, v) ==
  IF k.damp < Percent /\ v > k.damp
  THEN (Percent * (Percent - v)) \div (Percent - k.damp)
  ELSE Percent

(* The verdict and the utilisation come separately: a limit whose value is *)
(* missing makes a design infeasible without a ratio of its own.           *)
GateTarget(k, V, feasible, v) ==
  IF feasible THEN Max({Goal(k), Stepped(k, V, -ShrinkShare(k, v))})
  ELSE Min({V0 * Scale, Stepped(k, V, BackOffShare(k, v))})

(* The last points the fit looks at: pairs of volume and utilisation.      *)
Recent(points, n) ==
  SubSeq(points, Max({1, Len(points) - n + 1}), Len(points))

SumOver(points, f(_)) == MapThenSumSet(LAMBDA i : f(points[i]), DOMAIN points)

(* The least-squares line through the points, as integer sums; the line is *)
(* usable when there is spread in volume and utilisation falls with it.    *)
Spread(ps) == Len(ps) * SumOver(ps, LAMBDA p : p[1] * p[1])
              - SumOver(ps, LAMBDA p : p[1]) * SumOver(ps, LAMBDA p : p[1])
Slope(ps) == Len(ps) * SumOver(ps, LAMBDA p : p[1] * p[2])
             - SumOver(ps, LAMBDA p : p[1]) * SumOver(ps, LAMBDA p : p[2])
Usable(ps) == Len(ps) >= 2 /\ Spread(ps) > 0 /\ Slope(ps) < 0

(* Where the line crosses the utilisation aimed at.                        *)
BoundaryTarget(ps, aim) ==
  LET excess == SumOver(ps, LAMBDA p : p[2]) - aim * Len(ps)
      shift  == (excess * Spread(ps) * Scale) \div (-Slope(ps))
  IN  (SumOver(ps, LAMBDA p : p[1]) * Scale + shift) \div Len(ps)

MultipointTarget(k, ps, V, feasible, v) ==
  LET lo      == Stepped(k, V, -Percent)
      hi      == Stepped(k, V, k.cap)
      fitted  == Min({Max({BoundaryTarget(ps, k.aim), lo}), hi})
      backoff == IF feasible THEN fitted
                 ELSE Max({fitted, Stepped(k, V, k.floor)})
  IN  Max({Goal(k), Min({V0 * Scale, backoff})})

NextTarget(k, points, V, feasible, v) ==
  LET ps == Recent(points, Max({2, k.window}))
  IN  IF k.mode = "multipoint" /\ Usable(ps)
      THEN MultipointTarget(k, ps, V, feasible, v)
      ELSE GateTarget(k, V, feasible, v)

(* A finished iteration's point joins the history; a diverged one's never  *)
(* does.  Only the points a fit of this window can look at are kept here:  *)
(* the code keeps them all and takes the window when it fits, so a resume  *)
(* with a longer window would see older ones.                              *)
Recorded(k, points, V, v) ==
  IF k.mode = "multipoint"
  THEN Recent(Append(points, <<V, v>>), Max({2, k.window}))
  ELSE points

(* The function f itself, all of whose values TLC computes at once.        *)
Computed(f) == CHOOSE g \in {f} : g = f

(* A knob (setpoint, multiplier, level) and the volume kept at each of its*)
(* rungs; more of it means less volume.  Bisection returns a rung within   *)
(* the budget whose neighbour below is not, or an end of the ladder.       *)
Bisected(kept, budget) ==
  LET lo == Min(DOMAIN kept)
      hi == Max(DOMAIN kept)
      Fits(r) == kept[r] * Scale <= budget
  IN  CASE budget <= 0                        -> {hi}
        [] budget > 0 /\ Fits(lo)             -> {lo}
        [] budget > 0 /\ ~Fits(lo) /\ ~Fits(hi) -> {hi}
        [] OTHER -> {r \in lo + 1..hi : Fits(r) /\ ~Fits(r - 1)}
=============================================================================
