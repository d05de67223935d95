----------------------------- MODULE FieldUpdate -----------------------------
(***************************************************************************)
(* The optimisers that remember more than the mask: HCA's densities, the   *)
(* level set, SAIP's flips.  The loop shapes and clears the mask they      *)
(* return, so memory and mask drift apart; the checkpoint carries density  *)
(* and level set but not HCA's blended field nor SAIP's flips.  What a     *)
(* solve measures is a choice.                                             *)
(***************************************************************************)
EXTENDS Hca, Saip, LevelSet, Manufacturing

CONSTANTS
  Plans,         \* configurations a run folder is started or resumed with
  Fields,        \* energies a solve may give
  Utilisations,  \* worst utilisations a solve may measure, in percent
  None,          \* nothing remembered, or no energies yet
  MaxIterations  \* bound: iterations of a folder's life

ASSUME FieldAssumption ==
  /\ \A S \in SUBSET Elements : S # None
  /\ None \notin [Elements -> Int] /\ None \notin [Nodes -> Int]
  /\ Fields \subseteq [Elements -> Int]
  /\ Utilisations \subseteq Int
  /\ MaxIterations \in Nat
  /\ \A p \in Plans :
       /\ {p.kp, p.move, p.weight, p.dt, p.nucleation, p.diffusion} \subseteq Int
       /\ {p.er, p.goal, p.gain, p.floor, p.cap, p.damp, p.flips, p.damping} \subseteq Int
       /\ {p.band, p.passes} \subseteq Nat
       /\ p.alg \in {"hca", "saip", "levelset"}
       /\ p.protected \subseteq Elements
       /\ p.protected \subseteq p.anchor
       /\ p.protected \cap p.candidate = {}
       /\ p.blocked \subseteq p.candidate

VARIABLES
  plan,    \* the configuration of the present process
  alive,   \* the mask the next solve will solve
  mem,     \* what the optimiser remembers
  sens,    \* the last finished iteration's energies, or none
  it,      \* absolute iteration
  last,    \* what the last step did
  swung    \* elements whose state changed back and forth (history)

vars == <<plan, alive, mem, sens, it, last, swung>>

NoMemory == [x |-> None, blend |-> None, phi |-> None, in |-> None, out |-> None,
             t |-> None, dir |-> None]
Idle(what) == [step |-> what, target |-> 0, raw |-> {}, more |-> {}, idle |-> TRUE]

(* What an update returns: the memory after it, the design before islands  *)
(* are dropped, and the design at the next rung (or there is none).        *)
Result(memory, raw, more) == [mem |-> memory, raw |-> raw, more |-> more, idle |-> FALSE]
Unchanged(memory, p, living) ==
  [mem |-> memory, raw |-> living \cup p.protected, more |-> {}, idle |-> TRUE]

Free(p, target) == target - VolumeOf(p.protected) * Scale

-----------------------------------------------------------------------------
(* A mutant: densities the mask has dropped stay alive and uncompensated.  *)
HcaUpdatesUnsynced(p, m, living, field, target) ==
  LET x0 == IF m.x = None THEN DensityOf(living) ELSE m.x
      energy == IF m.blend = None THEN field ELSE Blended(p, m.blend, field)
      kept == [m EXCEPT !.x = x0, !.blend = energy]
  IN  IF TopOf(energy) <= 0 THEN {Unchanged(kept, p, living)}
      ELSE {LET x1 == Pinned(p, Controlled(p, x0, energy, r))
            IN  Result([kept EXCEPT !.x = x1], DensityAlive(x1) \cup p.protected,
                       IF r = 0 THEN {}
                       ELSE DensityAlive(Controlled(p, x0, energy, r - 1)) \cup p.protected) :
              r \in Setpoints(p, x0, energy, Free(p, target))}

HcaUpdates(p, m, living, field, target) ==
  LET first  == m.x = None
      x0     == IF first THEN DensityOf(living) ELSE ResyncedDensity(p, m.x, living)
      refund == IF first THEN 0 ELSE VolumeOf(StaleDensity(p, m.x, living))
      energy == IF m.blend = None THEN field ELSE Blended(p, m.blend, field)
      kept   == [m EXCEPT !.x = x0, !.blend = energy]
  IN  IF TopOf(energy) <= 0 THEN {Unchanged(kept, p, living)}
      ELSE {LET x1 == Pinned(p, Controlled(p, x0, energy, r))
            IN  Result([kept EXCEPT !.x = x1], DensityAlive(x1) \cup p.protected,
                       IF r = 0 THEN {}
                       ELSE DensityAlive(Controlled(p, x0, energy, r - 1)) \cup p.protected) :
              r \in Setpoints(p, x0, energy, Free(p, target) + refund * Scale)}

LevelSetUpdates(p, m, living, field, target) ==
  LET first  == m.phi = None
      phi0   == IF first THEN InitPhi(p, living, field) ELSE ResyncedPhi(p, m.phi, living)
      refund == IF first THEN 0 ELSE VolumeOf(StalePhi(p, m.phi, living))
      base   == Evolved(p, phi0, living, field)
  IN  {LET phi1 == AtLevel(p, base, tau)
       IN  Result([m EXCEPT !.phi = phi1], ElementsAlive(p, phi1),
                  IF tau = LowLevel(p, base) \/ p.protected = Elements THEN {}
                  ELSE ElementsAlive(p, AtLevel(p, base, tau - 1))) :
         tau \in Levels(p, base, Free(p, target) + refund * Scale)}

(* SAIP advances its asymptotes before it overwrites the flip memory.      *)
Remembered(p, m, living) ==
  LET t0 == IF m.t = None THEN [e \in Elements |-> Percent] ELSE m.t
      known == m.in # None
  IN  IF ~p.scip THEN [m EXCEPT !.in = living]
      ELSE [m EXCEPT !.in = living,
              !.t = IF known THEN Tightened(p, t0, m.in, m.out, living, m.dir) ELSE t0,
              !.dir = IF known THEN LastFlips(m.in, m.out, living)
                      ELSE [e \in Elements |-> 0]]

Changed(m, living) == IF m.in = None THEN {} ELSE JustFlipped(m.in, m.out, living)

(* The energies its linear problem is posed with, in percent.              *)
Priced(p, m, living, field) ==
  IF p.scip THEN Credited(Remembered(p, m, living).t, field, living)
  ELSE [e \in Elements |-> field[e] * Percent]

SaipUpdates(p, m, living, field, target) ==
  LET damped == Changed(m, living)
      kept   == Remembered(p, m, living)
      energy == Priced(p, m, living, field)
      Left(F)  == Toggled(living, F) \cup p.protected
      At1(r)   == FlipsAt(p, living, energy, damped, FlipCap(p), r)
      Out(res) == [res EXCEPT !.mem.out = KeepConnected(res.raw, p.anchor)]
  IN  IF TopOf(field) <= 0 THEN {Out(Unchanged(kept, p, living))}
      ELSE {Out(Result(kept, Left(At1(r)), IF r = 0 THEN {} ELSE Left(At1(r - 1)))) :
              r \in Multipliers(p, living, energy, damped, FlipCap(p), Free(p, target))}

UpdateResults(p, m, living, field, target) ==
  CASE p.alg = "hca"      -> HcaUpdates(p, m, living, field, target)
    [] p.alg = "saip"     -> SaipUpdates(p, m, living, field, target)
    [] p.alg = "levelset" -> LevelSetUpdates(p, m, living, field, target)

-----------------------------------------------------------------------------
(* The history of swings: an element changed in this iteration that had    *)
(* changed in it before, or in the one just before it.                     *)
Swings(m, moved, living) ==
  IF m.in = None THEN {}
  ELSE {e \in Changed(m, living) :
          \/ e \in moved
          \/ Flip(m.in, m.out, e) # 0 /\ Flip(m.out, living, e) # 0}

Init ==
  /\ plan \in Plans
  /\ alive = Elements \ plan.candidate
  /\ mem = NoMemory
  /\ sens = None
  /\ it = 0
  /\ last = Idle("start")
  /\ swung = [now |-> {}, back |-> {}, ever |-> {}]

(* One update with a field and a target, and what is done to its design.   *)
UpdateWith(field, target, what) ==
  /\ \E res \in UpdateResults(plan, mem, alive, field, target) :
       /\ mem' = res.mem
       /\ LET design == KeepConnected(res.raw, plan.anchor)
          IN  alive' = HeldVoid(plan, IF what = "updated" THEN Shaped(plan, design, field)
                                      ELSE design)
       /\ last' = [step |-> what, target |-> target, raw |-> res.raw,
                   more |-> res.more, idle |-> res.idle]
  /\ swung' = LET back == Swings(mem, swung.now, alive)
              IN  [now |-> Changed(mem, alive), back |-> back,
                   ever |-> swung.ever \cup back]
  /\ it' = it + 1
  /\ UNCHANGED plan

Iterate(v, field) ==
  /\ UpdateWith(field, GateTarget(plan, VolumeOf(alive), Feasible(v), v), "updated")
  /\ sens' = field

(* A diverged iteration adds material back by the last known field, with   *)
(* neither shaping nor a second island removal.                            *)
Diverge ==
  \/ /\ sens # None
     /\ UpdateWith(sens, GateTarget(plan, VolumeOf(alive), FALSE, Inf), "recovered")
     /\ UNCHANGED sens
  \/ /\ sens = None
     /\ it' = it + 1
     /\ UNCHANGED <<plan, alive, mem, sens, last, swung>>

(* A new process: before the first checkpoint it starts over; after it     *)
(* density and level set come back if its optimiser carries one, and the   *)
(* rest is forgotten.                                                      *)
RestoredAsSaved(p) == [NoMemory EXCEPT !.x = mem.x, !.phi = mem.phi]   \* a mutant

Restored(p) ==
  [NoMemory EXCEPT !.x   = IF p.alg = "hca" THEN mem.x ELSE None,
                   !.phi = IF p.alg = "levelset" THEN mem.phi ELSE None]

Resume(p) ==
  /\ plan' = p
  /\ alive' = HeldVoid(p, IF it = 0 THEN Elements \ p.candidate ELSE alive)
  /\ mem' = Restored(p)
  /\ last' = Idle("resumed")
  /\ swung' = [now |-> {}, back |-> {}, ever |-> {}]
  /\ UNCHANGED <<sens, it>>

Next ==
  \/ /\ it < MaxIterations
     /\ \E v \in Utilisations, field \in Fields : Iterate(v, field)
  \/ it < MaxIterations /\ Diverge
  \/ \E p \in Plans : Resume(p)

Spec == Init /\ [][Next]_vars

-----------------------------------------------------------------------------
(* Every design an update makes has its protected elements and, with       *)
(* nothing held void, nothing but what hangs together with an anchor.      *)
DesignsAreSound ==
  last.step \in {"updated", "recovered"} =>
    /\ plan.protected \subseteq alive
    /\ plan.blocked = {} => alive = KeepConnected(alive, plan.anchor)

(* Memory is well formed, and belongs to the present optimiser alone: a    *)
(* nodal field never lands in HCA's densities nor the reverse              *)
(* (status.py:264); an update leaves the field in its band (levelset.py:54;*)
(* one that a resume with a narrower band restores need not lie in it);    *)
(* designs are sound.                                                      *)
TypeOK ==
  /\ plan \in Plans /\ alive \subseteq Elements /\ DesignsAreSound
  /\ sens \in Fields \cup {None} /\ it \in 0..MaxIterations
  /\ mem.x # None => plan.alg = "hca" /\ mem.x \in [Elements -> XMin..Percent]
  /\ mem.phi # None => plan.alg = "levelset" /\ mem.phi \in [Nodes -> Int]
  /\ mem.phi # None /\ last.step \in {"updated", "recovered"} =>
       mem.phi \in [Nodes -> -plan.band..plan.band]
  /\ mem.in # None => plan.alg = "saip" /\ mem.in \subseteq Elements
                      /\ mem.out \subseteq Elements
  /\ mem.t # None => mem.t \in [Elements -> plan.tMin..Percent]
                     /\ mem.dir \in [Elements -> {-1, 0, 1}]

(* What the mask lost since the optimiser last returned a design: to       *)
(* manufacturing, islands and the held region.                             *)
Taken(p, before, returned) == VolumeOf(returned \ (before \cup p.protected))

(* Field and last design go together but in a process that was resumed, or *)
(* whose last update found no energy: these have another mask than theirs. *)
Returned ==
  \/ plan.alg = "saip"
  \/ last.step = "start"
  \/ last.step \in {"updated", "recovered"} /\ ~last.idle

(* No rung removes more: HCA has lowered every density by all its step     *)
(* allows, SAIP has spent its flips on removals, the level set has sunk.   *)
RemovedAllItCould(p, before, x, returned) ==
  LET kept == returned \ p.protected
  IN  CASE p.alg = "hca" ->
             \A e \in kept : IF x = None THEN e \in before
                             ELSE x[e] - Min({p.kp, p.move}) >= AliveAt
        [] p.alg = "saip" ->
             kept \subseteq before /\ (kept = {} \/ Cardinality(before \ returned) = FlipCap(p))
        [] p.alg = "levelset" -> kept = {}

(* Of a design and its neighbour on the ladder.                            *)
LargestThatFits(p, before, x, budget, raw, more) ==
  LET kept == VolumeOf(raw \ p.protected) * Scale
      next == VolumeOf(more \ p.protected) * Scale
  IN  /\ kept <= budget \/ RemovedAllItCould(p, before, x, raw)
      /\ kept <= budget /\ budget > 0 /\ more # {} => next > budget

Refunded == IF plan.alg = "saip" THEN 0 ELSE Taken(plan, alive, last.raw)

(* An update keeps the largest removable volume on its ladder that fits    *)
(* the target and what was taken since its last design, so that what is    *)
(* taken is neither charged to living material nor refunded twice; it      *)
(* stays above only when no rung removes more (hca.py:217, levelset.py:62).*)
BudgetIsMet ==
  [][ last'.step = "updated" /\ ~last'.idle /\ Returned =>
        LargestThatFits(plan, alive, mem.x, Free(plan, last'.target) + Refunded * Scale,
                        last'.raw, last'.more) ]_vars

(* A flip is credited less than its energy only for an element that has    *)
(* swung, changed back within one iteration or in the next, and always for *)
(* one that just did; a return much later is not held against it           *)
(* (saip.py:59).                                                           *)
ConservatismIsEarned ==
  mem.t # None =>
    \A e \in Elements : /\ mem.t[e] < Percent => e \in swung.ever
                        /\ e \in swung.back => mem.t[e] < Percent
=============================================================================
