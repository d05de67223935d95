---------------------------- MODULE DesignUpdate ----------------------------
(***************************************************************************)
(* The design over the iterations of a run: which elements are alive, how  *)
(* the next target volume is chosen, and what the optimiser (BESO or TOBS),*)
(* the manufacturing constraints, the island removal and the held-void     *)
(* region make of it.  What a solve measures is a choice: the worst        *)
(* utilisation, and the sensitivity of every element after filtering and   *)
(* history averaging.  Stopping is left to RunLoop.                        *)
(***************************************************************************)
EXTENDS VolumeControl, DesignAudit

CONSTANTS
  Plans,         \* configurations a run folder is started or resumed with
  Fields,        \* sensitivities a solve may give: elements to numbers
  Utilisations,  \* worst utilisations a solve may measure, in percent
  NoField        \* no sensitivity yet

ASSUME DesignAssumption ==
  /\ NoField \notin Fields
  /\ Fields \subseteq [Elements -> Int]
  /\ Utilisations \subseteq Nat
  /\ \A p \in Plans :
       /\ p.er \in Nat \ {0}
       /\ p.damp \in 1..Percent
       /\ p.window \in Nat \ {0, 1}
       /\ {p.goal, p.eps, p.flips} \subseteq Nat
       /\ p.maxAdd \in Int
       /\ {p.opts.minLayers, p.opts.maxLayers} \subseteq Nat
       /\ p.protected \subseteq Elements
       /\ p.candidate \subseteq Elements
       /\ p.protected \subseteq p.anchor
       /\ p.protected \cap p.candidate = {}
       /\ p.blocked \subseteq p.candidate

VARIABLES
  plan,     \* the configuration of the current process
  alive,    \* the living elements: what the next solve will solve
  sens,     \* the last finished iteration's sensitivity
  points,   \* the multipoint controller's history
  last      \* what the last step did, and the utilisation it measured

vars == <<plan, alive, sens, points, last>>

Did(what, v) == [step |-> what, util |-> v]

-----------------------------------------------------------------------------
(* The prefixes of pool, taken from the highest rank down, that fill       *)
(* budget; equal ranks are taken in any order.                             *)
TopWithin(pool, rank, budget) ==
  {T \in SUBSET pool :
     LET rest == pool \ T
         Next1 == {u \in rest : \A w \in rest : rank[w] <= rank[u]}
     IN  /\ \A t \in T, u \in rest : rank[t] >= rank[u]
         /\ VolumeOf(T) * Scale <= budget
         /\ rest # {} =>
              \E u \in Next1 : VolumeOf(T \cup {u}) * Scale > budget}

(* BESO: protected elements stay, the best of the others fill what is left *)
(* of the target, and what would come back to life is capped.              *)
(* A mutant: all elements compete for the target, then the protected ones  *)
(* are forced back.                                                        *)
RankedThenForced(p, rank, target) ==
  {p.protected \cup T : T \in TopWithin(Elements, rank, target)}

Ranked(p, rank, target) ==
  LET budget == Max({0, target - VolumeOf(p.protected) * Scale})
  IN  {p.protected \cup T : T \in TopWithin(Elements \ p.protected, rank, budget)}

(* A mutant: the cap also holds back protected elements.                   *)
AddCappedAll(p, living, rank, cand) ==
  LET newly == cand \ living
      cap   == p.maxAdd * V0 * Percent
  IN  IF VolumeOf(newly) * Scale > cap /\ cap >= 0
      THEN {(cand \ newly) \cup T : T \in TopWithin(newly, rank, cap)}
      ELSE {cand}

AddCapped(p, living, rank, cand) ==
  LET newly == cand \ living
      cap   == p.maxAdd * V0 * Percent
  IN  IF VolumeOf(newly) * Scale > cap /\ cap >= 0
      THEN {(cand \ newly) \cup T \cup p.protected : T \in TopWithin(newly, rank, cap)}
      ELSE {cand}

BesoUpdates(p, living, rank, target) ==
  UNION {AddCapped(p, living, rank, c) : c \in Ranked(p, rank, target)}

(* TOBS: the flips of unprotected elements, at most K, that bring the      *)
(* volume change into a band, with the largest gain in sensitivity.        *)
MoveLimit(p) == Max({1, (p.flips * Cardinality(Elements)) \div Percent})

Opposite(rank) == [e \in Elements |-> -rank[e]]
Reach(C) == VolumeOf(C) * Scale

Slack(p, C) == Max({p.eps * V0 * Percent, Max({Vol[e] : e \in C}) * Scale})

VolumeBands(p, living, rank, dV) ==
  LET eps == p.eps * V0 * Percent
      rem == living \ p.protected
      add == Elements \ (living \cup p.protected)
  IN  CASE dV < 0 /\ rem = {} -> {<<-eps, 0>>}
        [] dV < 0 /\ rem # {} ->
             {LET t == Min({-dV, Reach(C)}) IN <<-t - Slack(p, C), -t>> :
                C \in TopK(rem, Opposite(rank), MoveLimit(p))}
        [] dV > 0 /\ add = {} -> {<<0, eps>>}
        [] dV > 0 /\ add # {} ->
             {LET t == Min({dV, Reach(C)}) IN <<t, t + Slack(p, C)>> :
                C \in TopK(add, rank, MoveLimit(p))}
        [] dV = 0 -> {<<-eps, eps>>}

Flipped(living, F) == (living \ F) \cup (F \ living)

FeasibleFlips(p, living, band) ==
  {F \in SUBSET (Elements \ p.protected) :
     LET change == (VolumeOf(F \ living) - VolumeOf(F \cap living)) * Scale
     IN  /\ Cardinality(F) <= MoveLimit(p)
         /\ band[1] <= change /\ change <= band[2]}

Gained(living, rank, F) ==
  MapThenSumSet(LAMBDA e : IF e \in living THEN -rank[e] ELSE rank[e], F)

BestFlips(p, living, rank, band) ==
  LET ok == FeasibleFlips(p, living, band)
  IN  IF ok = {} THEN {{}}
      ELSE {F \in ok : \A G \in ok : Gained(living, rank, G) <= Gained(living, rank, F)}

TobsBands(p, living, rank, target) ==
  VolumeBands(p, living, rank, target - VolumeOf(living) * Scale)

TobsUpdates(p, living, rank, target) ==
  UNION {{Flipped(living, F) \cup p.protected : F \in BestFlips(p, living, rank, band)} :
           band \in TobsBands(p, living, rank, target)}

(* An optimiser's update ends by dropping the islands.                     *)
Updates(p, living, rank, target) ==
  {KeepConnected(c, p.anchor) :
     c \in IF p.alg = "beso" THEN BesoUpdates(p, living, rank, target)
                             ELSE TobsUpdates(p, living, rank, target)}

-----------------------------------------------------------------------------
Init ==
  /\ plan \in Plans
  /\ alive = Elements \ plan.candidate
  /\ sens = NoField
  /\ points = <<>>
  /\ last = Did("start", 0)

(* The field that ranks an update: the iteration's own, biased towards the *)
(* overstressed region when that is configured and a limit is violated.    *)
Rankings(p, field, v) == IF p.bias /\ ~Feasible(v) THEN Fields ELSE {field}

(* A solved iteration: record the point, choose the target, update.        *)
Iterate(v, field) ==
  LET measured == Recorded(plan, points, VolumeOf(alive), v)
      target   == NextTarget(plan, measured, VolumeOf(alive), Feasible(v), v)
  IN  \E rank \in Rankings(plan, field, v) :
        \E design \in Updates(plan, alive, rank, target) :
          /\ alive' = HeldVoid(plan, Shaped(plan, design, field))
          /\ sens' = field
          /\ points' = measured
          /\ last' = Did("updated", v)
          /\ UNCHANGED plan

(* A diverged iteration: with a sensitivity from before, material is added *)
(* back by the same update; without one the design stays.                  *)
Recover ==
  /\ sens # NoField
  /\ \E design \in Updates(plan, alive, sens,
                            NextTarget(plan, points, VolumeOf(alive), FALSE, Inf)) :
       alive' = HeldVoid(plan, design)
  /\ last' = Did("recovered", Inf)

DivergeRecords ==   \* a mutant: the diverged solve becomes a point
  /\ Recover
  /\ points' = Recorded(plan, points, VolumeOf(alive), Inf)
  /\ UNCHANGED <<plan, sens>>

Diverge ==
  \/ Recover /\ UNCHANGED <<plan, sens, points>>
  \/ /\ sens = NoField
     /\ last' = Did("kept", Inf)
     /\ UNCHANGED <<plan, alive, sens, points>>

(* The run is resumed, possibly with an edited configuration.  Before the  *)
(* first checkpoint it starts over; after it the mask comes back with the  *)
(* held region cleared, and the controller's history if both processes     *)
(* have a controller.                                                      *)
Restored(p) == IF last.step = "start" THEN Elements \ p.candidate ELSE alive

ResumeWith(p, mask) ==
  /\ plan' = p
  /\ alive' = mask
  /\ points' = IF p.mode = "multipoint" THEN Recent(points, Max({2, p.window}))
                                        ELSE <<>>
  /\ last' = Did(IF last.step = "start" THEN "start" ELSE "resumed", 0)
  /\ UNCHANGED sens

ResumeAsSaved(p) == ResumeWith(p, Restored(p))   \* a mutant

Resume(p) == ResumeWith(p, HeldVoid(p, Restored(p)))

Next ==
  \/ \E v \in Utilisations, field \in Fields : Iterate(v, field)
  \/ Diverge
  \/ \E p \in Plans : Resume(p)

Spec == Init /\ [][Next]_vars

-----------------------------------------------------------------------------
DesignOK ==
  /\ plan \in Plans
  /\ alive \subseteq Elements
  /\ sens \in Fields \cup {NoField}

(* Masks hold elements, and the controller's history only points that were *)
(* measured: a diverged solve's infinite utilisation would make the fit    *)
(* unusable for a whole window (controller.py:69).                         *)
TypeOK ==
  /\ DesignOK
  /\ points \in Seq((0..V0) \X Utilisations)
  /\ last.step \in {"start", "updated", "recovered", "kept", "resumed"}
  /\ last.util \in Utilisations \cup {0, Inf}

(* The present design came out of an update under the present plan.        *)
Fresh == last.step \in {"updated", "recovered"}

(* Protected elements are in every design an update makes, whatever was    *)
(* alive before it: also when they were frozen only on a resume, when the  *)
(* add-back cap is spent, and after island removal (beso.py:248).          *)
ProtectedStay == Fresh => plan.protected \subseteq alive

(* No solve ever has material in the held-void region: not from the        *)
(* optimiser, a mirror, a recovery, nor a checkpoint of a run that did not *)
(* hold that region void (loop.py:1315).                                   *)
HeldVoidStaysVoid == alive \cap plan.blocked = {}

(* With nothing held void, every element of an updated design hangs        *)
(* together with a living anchor element, also after the manufacturing     *)
(* constraints have cut into it (loop.py:1665).                            *)
NoFloatingIslands ==
  Fresh /\ plan.blocked = {} => alive = KeepConnected(alive, plan.anchor)

(* Constraints that put material back: the update no longer decides.       *)
Regrown(p) == p.opts.mirror \/ p.opts.extrude

(* Under the gate a feasible iteration whose removal is not damped to      *)
(* nothing loses volume, down to the goal or to the protected volume: the  *)
(* optimisation cannot stall on protected elements that rank low           *)
(* (beso.py:252).                                                          *)
ShrinksWhileFeasible ==
  [][ LET floor == Max({Goal(plan), VolumeOf(plan.protected) * Scale})
          v     == last'.util
      IN  /\ last'.step = "updated" /\ plan.mode = "gate" /\ ~Regrown(plan)
          /\ Feasible(v) /\ ShrinkShare(plan, v) > 0
          /\ plan.protected \subseteq alive
          /\ VolumeOf(alive) * Scale > floor
          => VolumeOf(alive') < VolumeOf(alive) ]_vars

(* Island removal takes a column, a prism, a chain of support or a mirrored*)
(* part whole, or leaves it whole, where what belongs together touches.  It*)
(* need not: the code bins and pairs centroids, a column may run across a  *)
(* hole in the mesh, and a cone is three spacings deep                     *)
(* (manufacturing.py:274, 358).                                            *)
ColumnsTouch == \A c \in Columns : \A i \in 2..Len(c) : c[i - 1] \in Adjacency[c[i]]
PrismsTouch  == \A p \in Prisms : \A S \in SUBSET p :
                  S # {} /\ p \cap Neighbours(S) \subseteq S => S = p
ConesTouch   == \A e \in Elements : Cone[e] \subseteq Adjacency[e]
MirrorTouches == \A e, f \in Elements : f \in Adjacency[e] => Mirror[f] \in Adjacency[Mirror[e]]

(* The constraints whose result may not survive: those that a later one,   *)
(* island removal, a protected element that returns at the end (and, below *)
(* all the rest, lowers the plate the overhang was judged from:            *)
(* manufacturing.py:131), the held region or the setting itself can undo.  *)
IsMirrored(S) == \A e \in S : Mirror[e] \in S
Cut(p) == p.opts.draw # "off" \/ p.opts.extrude
Directional(p) == Cut(p) \/ p.opts.overhang
Excused(p) ==
  LET kept == p.protected # {}
      void == p.blocked # {}
  IN  {c \in {"min_member", "max_member", "symmetry", "draw", "extrusion", "overhang"} :
         CASE c = "min_member" -> \/ kept \/ void \/ p.opts.maxLayers > 0
                                  \/ p.opts.mirror \/ Directional(p)
                                  \/ p.opts.minLayers > Cardinality(Elements)
           [] c = "max_member" -> kept \/ Regrown(p)
           [] c = "symmetry"   -> \/ Directional(p) \/ ~MirrorTouches
                                  \/ \E S \in {p.protected, p.anchor, p.blocked} : ~IsMirrored(S)
           [] c = "draw"       -> \/ kept \/ void \/ p.opts.extrude \/ p.opts.overhang
                                  \/ ~ColumnsTouch
           [] c = "extrusion"  -> kept \/ void \/ p.opts.overhang \/ ~PrismsTouch
           [] c = "overhang"   -> void \/ (kept /\ Cut(p)) \/ ~ConesTouch}

(* The independent audit measures no violation of a constraint that nothing*)
(* after it can undo: what the constraints enforce, with shielding, carving*)
(* and islands removed afterwards, is what the audit asks for              *)
(* (mfg_verify.py:434).  The sanity audit finds a load path for what is    *)
(* left, and the two, one by erosion and one by granulometry, agree on     *)
(* what is too thin.                                                       *)
AuditsAccept ==
  last.step = "updated" /\ alive # {} =>
    LET sanity(n) == Sanity(alive, Elements, plan.anchor, n, {})
    IN  /\ Failed(alive, plan.protected, plan.opts) \subseteq Excused(plan)
        /\ plan.blocked = {} => sanity(1).ok
        /\ \A n \in 1..2 : n <= Cardinality(Elements) =>
             (sanity(n).thin = {} <=> ThinnestMember(alive) >= n)
        /\ sanity(1).cavity \subseteq sanity(1).exposed
=============================================================================
