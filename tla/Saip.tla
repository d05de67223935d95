-------------------------------- MODULE Saip --------------------------------
(***************************************************************************)
(* Sequential approximate integer programming: at most K flips, ranked by  *)
(* their reduced gain at a volume multiplier that bisection chooses; the   *)
(* flips of the last iteration lower an element's priority (damping) and,  *)
(* when they went back and forth, the gain it is credited with.  Factors   *)
(* are percentages; multipliers are in units of 1/Fineness.                *)
(***************************************************************************)
EXTENDS VolumeControl

Fineness == 2

(* Flips between three successive masks: the update's own, and what was    *)
(* taken or put back before the next update.                               *)
Flip(from, to, e) == (IF e \in to THEN 1 ELSE 0) - (IF e \in from THEN 1 ELSE 0)

JustFlipped(in, out, alive) ==
  {e \in Elements : Flip(in, out, e) # 0 \/ Flip(out, alive, e) # 0}

(* A mutant: the sign of the earlier direction is lost.                    *)
SwungOnward(in, out, alive, dir, e) ==
  LET own == Flip(in, out, e)
      post == Flip(out, alive, e)
  IN  \/ own # 0 /\ post # 0
      \/ own # 0 /\ dir[e] = own
      \/ own = 0 /\ post # 0 /\ dir[e] = post

Swung(in, out, alive, dir, e) ==
  LET own == Flip(in, out, e)
      post == Flip(out, alive, e)
  IN  \/ own # 0 /\ post # 0
      \/ own # 0 /\ dir[e] = -own
      \/ own = 0 /\ post # 0 /\ dir[e] = -post

(* The conservatism factors after those flips, and each element's last     *)
(* direction: none when it did not flip.                                   *)
Tightened(p, t, in, out, alive, dir) ==
  Computed([e \in Elements |->
     LET gamma == IF Swung(in, out, alive, dir, e) THEN p.tight ELSE p.relax
     IN  Max({p.tMin, Min({Percent, (t[e] * gamma) \div Percent})})])

LastFlips(in, out, alive) ==
  [e \in Elements |-> IF Flip(out, alive, e) # 0 THEN Flip(out, alive, e)
                      ELSE Flip(in, out, e)]

(* Removing costs more, and adding gains less, where flips swung.          *)
Credited(t, field, alive) ==
  Computed([e \in Elements |->
     IF e \in alive THEN (field[e] * Percent * Percent) \div t[e] ELSE field[e] * t[e]])

(* Reduced gains at a multiplier, for a field in percent.                  *)
Gains(alive, field, rung) ==
  Computed([e \in Elements |->
     LET g == Fineness * field[e] - rung * Vol[e] * Percent
     IN  IF e \in alive THEN -g ELSE g])

(* The flips at a multiplier: candidates gain something; of more than K,   *)
(* those of highest damped gain, equal ones by their number.               *)
FlipsAt(p, alive, field, damped, K, rung) ==
  LET gain == Gains(alive, field, rung)
      cand == {e \in Elements \ p.protected : gain[e] > 0}
      priority == Computed([e \in Elements |->
                     gain[e] * (IF e \in damped THEN p.damping ELSE Percent)])
      Ahead(e) == {f \in cand : \/ priority[f] > priority[e]
                                \/ priority[f] = priority[e] /\ f < e}
  IN  {e \in cand : Cardinality(Ahead(e)) < K}

Toggled(alive, F) == (alive \ F) \cup (F \ alive)

FlipsKept(p, alive, field, damped, K, rung) ==
  VolumeOf(Toggled(alive, FlipsAt(p, alive, field, damped, K, rung)) \ p.protected)

(* Twice the greatest value density of what may go, and one.               *)
HighMultiplier(p, field) ==
  LET free == Elements \ p.protected
  IN  IF free = {} THEN Fineness
      ELSE Fineness * (2 * Max({field[e] \div (Vol[e] * Percent) + 1 : e \in free}) + 1)

Multipliers(p, alive, field, damped, K, budget) ==
  Bisected([r \in 0..HighMultiplier(p, field) |-> FlipsKept(p, alive, field, damped, K, r)],
           budget)

FlipCap(p) == Max({1, (p.flips * Cardinality(Elements)) \div Percent})
=============================================================================
