--------------------------------- MODULE Hca ---------------------------------
(***************************************************************************)
(* The hybrid cellular automaton: a virtual density per element, driven    *)
(* towards a uniform energy, thresholded to the mask.  Densities, gains    *)
(* and move limits are percentages; energies are whole numbers.            *)
(***************************************************************************)
EXTENDS VolumeControl

XMin == 1            \* a dead element keeps a little density
AliveAt == 50
BelowAlive == AliveAt - 1
Fine == 2            \* setpoints are in units of 1/Fine of an energy

Clip(v, lo, hi) == Max({lo, Min({v, hi})})
TopOf(field) == Max({field[e] : e \in Elements})

(* The first field seen by a process: the mask at full density.            *)
DensityOf(alive) == [e \in Elements |-> IF e \in alive THEN Percent ELSE XMin]

DensityAlive(x) == {e \in Elements : x[e] >= AliveAt}

(* Alive in the density but taken out of the mask by what follows the      *)
(* update: pushed just below the threshold, its volume refunded.           *)
StaleDensity(p, x, alive) == DensityAlive(x) \ (alive \cup p.protected)
ResyncedDensity(p, x, alive) ==
  LET stale == StaleDensity(p, x, alive)
  IN  Computed([e \in Elements |-> IF e \in stale THEN BelowAlive ELSE x[e]])

(* The running blend with the process's earlier fields.                    *)
Blended(p, before, field) ==
  IF p.weight = Percent THEN field
  ELSE Computed([e \in Elements |->
          (p.weight * field[e] + (Percent - p.weight) * before[e]) \div Percent])

(* The setpoints the bisection walks: from almost none of the energy, over *)
(* the rungs between, to vastly more than there is.                        *)
HighSetpoint(field) == 4 * Fine * TopOf(field) + 1

Drive(p, energy, rung, high) ==
  CASE rung = 0    -> IF energy > 0 THEN p.move ELSE -Min({p.kp, p.move})
    [] rung = high -> -Min({p.kp, p.move})
    [] OTHER       -> Clip((p.kp * (Fine * energy - rung)) \div rung, -p.move, p.move)

(* One step of the controller towards a setpoint.                          *)
Controlled(p, x, field, rung) ==
  LET high == HighSetpoint(field)
  IN  Computed([e \in Elements |->
                  Clip(x[e] + Drive(p, field[e], rung, high), XMin, Percent)])

DensityKept(p, x, field, rung) ==
  VolumeOf(DensityAlive(Controlled(p, x, field, rung)) \ p.protected)

Setpoints(p, x, field, budget) ==
  Bisected([r \in 0..HighSetpoint(field) |-> DensityKept(p, x, field, r)], budget)

Pinned(p, x) == [e \in Elements |-> IF e \in p.protected THEN Percent ELSE x[e]]
=============================================================================
