------------------------ MODULE DesignUpdate_proofs ------------------------
(***************************************************************************)
(* Proofs about the design update, for any mesh, any configurations and    *)
(* any sensitivities: what island removal keeps, and that protected        *)
(* elements, held-void regions and connectivity survive every step.        *)
(***************************************************************************)
EXTENDS DesignUpdate, Mesh_proofs, SequenceTheorems

(* Whatever the ranking and the target, an optimiser's result is what      *)
(* island removal leaves of a mask that holds the protected elements.      *)
LEMMA UpdateHoldsProtected ==
  ASSUME NEW p, NEW living, NEW rank, NEW target,
         NEW design \in Updates(p, living, rank, target)
  PROVE  \E c : p.protected \subseteq c /\ design = KeepConnected(c, p.anchor)
<1>1. CASE p.alg = "beso"
  <2>1. PICK c \in BesoUpdates(p, living, rank, target) :
          design = KeepConnected(c, p.anchor)
    BY <1>1 DEF Updates
  <2>2. PICK r \in Ranked(p, rank, target) : c \in AddCapped(p, living, rank, r)
    BY <2>1 DEF BesoUpdates
  <2>3. p.protected \subseteq r
    BY <2>2 DEF Ranked
  <2>4. p.protected \subseteq c
    BY <2>2, <2>3 DEF AddCapped
  <2> QED
    BY <2>1, <2>4
<1>2. CASE p.alg # "beso"
  <2>1. PICK c \in TobsUpdates(p, living, rank, target) :
          design = KeepConnected(c, p.anchor)
    BY <1>2 DEF Updates
  <2>2. p.protected \subseteq c
    BY <2>1 DEF TobsUpdates
  <2> QED
    BY <2>1, <2>2
<1> QED
  BY <1>1, <1>2

LEMMA PlansFit == \A p \in Plans : PlanFits(p)
  BY DesignAssumption DEF PlanFits

-----------------------------------------------------------------------------
(* The inductive invariant: a design made by an update is sound, and every *)
(* design, made or restored, keeps the held region void.                   *)
DesignInv ==
  /\ DesignOK
  /\ last \in [step : {"start", "updated", "recovered", "kept", "resumed"},
               util : {0, Inf} \cup Utilisations]
  /\ alive \cap plan.blocked = {}
  /\ Fresh => Sound(plan, alive)

LEMMA InitDesign == Init => DesignInv
<1> SUFFICES ASSUME Init PROVE DesignInv
  OBVIOUS
<1>1. /\ plan \in Plans /\ alive = Elements \ plan.candidate
      /\ sens = NoField /\ last = Did("start", 0)
  BY Zenon DEF Init
<1>2. plan.blocked \subseteq plan.candidate
  BY <1>1, DesignAssumption
<1> QED
  BY <1>1, <1>2 DEF DesignInv, DesignOK, Did, Fresh

(* An update, solved or recovered, makes a sound design.                   *)
LEMMA IterateDesign ==
  ASSUME DesignInv, NEW v \in Utilisations, NEW field \in Fields,
         Iterate(v, field)
  PROVE  DesignInv'
<1>1. PICK rank, target, design :
        /\ design \in Updates(plan, alive, rank, target)
        /\ alive' = HeldVoid(plan, Shaped(plan, design, field))
  BY DEF Iterate
<1>2. Sound(plan, alive')
  BY <1>1, PlansFit, UpdateHoldsProtected, ShapedHoldsProtected, HeldIsSound
     DEF DesignInv, DesignOK
<1>3. plan' = plan /\ sens' = field /\ last' = Did("updated", v)
  BY DEF Iterate
<1> QED
  BY <1>2, <1>3 DEF DesignInv, DesignOK, Sound, Did

LEMMA RecoverDesign ==
  ASSUME DesignInv, Recover, UNCHANGED <<plan, sens, points>>
  PROVE  DesignInv'
<1>1. PICK target, design :
        /\ design \in Updates(plan, alive, sens, target)
        /\ alive' = HeldVoid(plan, design)
  BY DEF Recover
<1>2. Sound(plan, alive')
  BY <1>1, PlansFit, UpdateHoldsProtected, HeldIsSound DEF DesignInv, DesignOK
<1>3. plan' = plan /\ sens' = sens /\ last' = Did("recovered", Inf)
  BY DEF Recover
<1> QED
  BY <1>2, <1>3 DEF DesignInv, DesignOK, Sound, Did

LEMMA ResumeDesign ==
  ASSUME DesignInv, NEW p \in Plans, Resume(p)
  PROVE  DesignInv'
<1>1. Restored(p) \subseteq Elements
  BY DEF Restored, DesignInv, DesignOK
<1>2. /\ plan' = p /\ sens' = sens
      /\ alive' = Restored(p) \ p.blocked
      /\ last' = Did(IF last.step = "start" THEN "start" ELSE "resumed", 0)
  BY Zenon DEF Resume, ResumeWith, HeldVoid
<1>3. last'.step \notin {"updated", "recovered"}
  BY <1>2 DEF Did
<1> QED
  BY <1>1, <1>2, <1>3 DEF DesignInv, DesignOK, Did, Fresh

LEMMA NextDesign == DesignInv /\ [Next]_vars => DesignInv'
<1> SUFFICES ASSUME DesignInv, [Next]_vars PROVE DesignInv'
  OBVIOUS
<1>1. CASE \E v \in Utilisations, field \in Fields : Iterate(v, field)
  BY <1>1, IterateDesign
<1>2. CASE Recover /\ UNCHANGED <<plan, sens, points>>
  BY <1>2, RecoverDesign
<1>3. CASE last' = Did("kept", Inf) /\ UNCHANGED <<plan, alive, sens, points>>
  BY <1>3 DEF DesignInv, DesignOK, Did, Fresh
<1>4. CASE \E p \in Plans : Resume(p)
  BY <1>4, ResumeDesign
<1>5. CASE UNCHANGED vars
  BY <1>5 DEF vars, DesignInv, DesignOK, Fresh
<1> QED
  BY <1>1, <1>2, <1>3, <1>4, <1>5 DEF Next, Diverge

(* The invariant holds in every state: for any mesh, configurations,       *)
(* sensitivities, resumes and divergences (loop.py:1633).                  *)
THEOREM DesignInvariant == Spec => []DesignInv
  BY InitDesign, NextDesign, PTL DEF Spec

(* Protected elements are in every design an update makes (beso.py:248).   *)
THEOREM ProtectedAlwaysStay == Spec => []ProtectedStay
<1>1. DesignInv => ProtectedStay
  BY DEF DesignInv, ProtectedStay, Sound
<1> QED
  BY <1>1, DesignInvariant, PTL

(* No design, made or restored, has material in the held-void region       *)
(* (loop.py:1315).                                                         *)
THEOREM HeldVoidAlways == Spec => []HeldVoidStaysVoid
<1>1. DesignInv => HeldVoidStaysVoid
  BY DEF DesignInv, HeldVoidStaysVoid
<1> QED
  BY <1>1, DesignInvariant, PTL

(* With nothing held void, no updated design has an island (loop.py:1665). *)
THEOREM NeverFloatingIslands == Spec => []NoFloatingIslands
<1>1. DesignInv => NoFloatingIslands
  BY DEF DesignInv, NoFloatingIslands, Sound
<1> QED
  BY <1>1, DesignInvariant, PTL

-----------------------------------------------------------------------------
(* The controller's history only ever holds measured points.               *)
Points == Seq((0..V0) \X Utilisations)

LEMMA RecentPoints ==
  ASSUME NEW ps \in Points, NEW n \in Nat \ {0}
  PROVE  Recent(ps, n) \in Points
<1> DEFINE m == Max({1, Len(ps) - n + 1})
<1>1. Len(ps) \in Nat
  BY DEF Points
<1>2. m \in Nat \ {0}
  BY <1>1, TwoExtremes
<1>3. \A i \in m..Len(ps) : ps[i] \in (0..V0) \X Utilisations
  BY <1>1, <1>2, ElementOfSeq DEF Points
<1> HIDE DEF m
<1>4. SubSeq(ps, m, Len(ps)) \in Points
  BY <1>1, <1>2, <1>3, SubSeqProperties DEF Points
<1> QED
  BY <1>4 DEF Recent, m

LEMMA WindowIsPositive ==
  ASSUME NEW p \in Plans
  PROVE  Max({2, p.window}) \in Nat \ {0}
<1>1. p.window \in Nat \ {0, 1}
  BY DesignAssumption
<1> QED
  BY <1>1, TwoExtremes

LEMMA NextPoints ==
  ASSUME DesignInv, points \in Points, [Next]_vars
  PROVE  points' \in Points
<1>1. ASSUME NEW v \in Utilisations, NEW field \in Fields, Iterate(v, field)
      PROVE  points' \in Points
  <2>1. points' = Recorded(plan, points, VolumeOf(alive), v)
    BY <1>1 DEF Iterate
  <2>2. <<VolumeOf(alive), v>> \in (0..V0) \X Utilisations
    BY WholeVolume DEF DesignInv, DesignOK
  <2>3. Append(points, <<VolumeOf(alive), v>>) \in Points
    BY <2>2, AppendProperties DEF Points
  <2>4. Recent(Append(points, <<VolumeOf(alive), v>>), Max({2, plan.window})) \in Points
    BY <2>3, RecentPoints, WindowIsPositive DEF DesignInv, DesignOK
  <2> QED
    BY <2>1, <2>4 DEF Recorded
<1>2. ASSUME NEW p \in Plans, Resume(p) PROVE points' \in Points
  <2>1. points' = IF p.mode = "multipoint" THEN Recent(points, Max({2, p.window}))
                                           ELSE <<>>
    BY <1>2 DEF Resume, ResumeWith
  <2>2. <<>> \in Points
    BY DEF Points
  <2> QED
    BY <2>1, <2>2, RecentPoints, WindowIsPositive
<1>3. CASE Diverge \/ UNCHANGED vars
  BY <1>3 DEF Diverge, vars
<1> QED
  BY <1>1, <1>2, <1>3 DEF Next

(* The masks, the sensitivities and the controller's history are what the  *)
(* code takes them for: only measured points enter the fit                 *)
(* (controller.py:69).                                                     *)
THEOREM DesignTypes == Spec => []TypeOK
<1> DEFINE Inv == DesignInv /\ points \in Points
<1>1. Init => Inv
  <2>1. Init => points = <<>>
    BY DEF Init
  <2>2. <<>> \in Points
    BY DEF Points
  <2> QED
    BY <2>1, <2>2, InitDesign
<1>2. Inv /\ [Next]_vars => Inv'
  <2>1. Points' = Points
    BY DEF Points
  <2> QED
    BY <2>1, NextDesign, NextPoints
<1>3. Inv => TypeOK
  BY DEF DesignInv, TypeOK, Points
<1> QED
  BY <1>1, <1>2, <1>3, PTL DEF Spec
-----------------------------------------------------------------------------
(* A feasible iteration shrinks.  The gate's target lies below the present *)
(* volume, by a nonzero share of a nonzero evolution rate.                 *)
LEMMA LessTimes ==
  ASSUME NEW V \in Nat \ {0}, NEW m \in Nat \ {0}
  PROVE  V * (Scale + -m) < V * Scale
<1>1. V * m \in Nat \ {0}
  OBVIOUS
<1>2. V * (Scale + -m) = V * Scale - V * m
  BY DEF Scale
<1>3. V * Scale \in Nat
  BY DEF Scale
<1> QED
  BY <1>1, <1>2, <1>3

LEMMA ShareType ==
  ASSUME NEW p \in Plans, NEW v \in Nat
  PROVE  ShrinkShare(p, v) \in Int
<1>1. p.damp \in 1..Percent
  BY DesignAssumption
<1>2. CASE p.damp < Percent
  <2>1. Percent - p.damp \in Nat \ {0} /\ Percent * (Percent - v) \in Int
    BY <1>1, <1>2 DEF Percent
  <2>2. ASSUME NEW n \in Int, NEW d \in Nat \ {0} PROVE n \div d \in Int
    OBVIOUS
  <2>3. (Percent * (Percent - v)) \div (Percent - p.damp) \in Int
    BY <2>1, <2>2
  <2> QED
    BY <2>3 DEF ShrinkShare, Percent
<1>3. CASE ~(p.damp < Percent)
  BY <1>3 DEF ShrinkShare, Percent
<1> QED
  BY <1>2, <1>3

LEMMA TargetShrinks ==
  ASSUME NEW p \in Plans, p.mode = "gate", NEW v \in Nat, Feasible(v),
         ShrinkShare(p, v) > 0, NEW V \in Nat, V * Scale > Goal(p), NEW ps
  PROVE  /\ NextTarget(p, ps, V, Feasible(v), v) \in Int
         /\ NextTarget(p, ps, V, Feasible(v), v) < V * Scale
<1> DEFINE share == ShrinkShare(p, v)
           m == p.er * share
<1>1. share \in Nat \ {0} /\ p.er \in Nat \ {0} /\ p.goal \in Nat
  BY ShareType, DesignAssumption
<1>2. Goal(p) \in Nat
  BY <1>1, WholeVolume DEF Goal, Percent
<1>3. V \in Nat \ {0}
  BY <1>2 DEF Scale
<1>4. m \in Nat \ {0}
  <2> HIDE DEF share
  <2> QED
    BY <1>1
<1>5. p.er * (-share) = -m
  <2> HIDE DEF share
  <2> QED
    BY <1>1
<1>6. NextTarget(p, ps, V, Feasible(v), v) = Max({Goal(p), V * (Scale + -m)})
  <2>1. NextTarget(p, ps, V, Feasible(v), v) = GateTarget(p, V, Feasible(v), v)
    BY DEF NextTarget
  <2>2. GateTarget(p, V, Feasible(v), v) = Max({Goal(p), Stepped(p, V, -share)})
    BY DEF GateTarget
  <2>3. Stepped(p, V, -share) = V * (Scale + -m)
    <3> HIDE DEF share, m
    <3> QED
      BY <1>5 DEF Stepped
  <2> QED
    BY <2>1, <2>2, <2>3
<1> HIDE DEF m
<1>7. V * (Scale + -m) \in Int /\ V * (Scale + -m) < V * Scale
  BY <1>3, <1>4, LessTimes DEF Scale
<1>8. Max({Goal(p), V * (Scale + -m)}) \in {Goal(p), V * (Scale + -m)}
  BY <1>2, <1>7, TwoExtremes
<1> DEFINE low == V * (Scale + -m)
           high == V * Scale
<1>9. low \in Int /\ high \in Int /\ low < high
  BY <1>3, <1>7 DEF Scale
<1>10. Goal(p) \in Int /\ Goal(p) < high
  BY <1>2, <1>9
<1>11. NextTarget(p, ps, V, Feasible(v), v) \in {Goal(p), low}
  BY <1>6, <1>8
<1> HIDE DEF low, high
<1>12. /\ NextTarget(p, ps, V, Feasible(v), v) \in Int
       /\ NextTarget(p, ps, V, Feasible(v), v) < high
  BY <1>9, <1>10, <1>11
<1> QED
  BY <1>12 DEF high

LEMMA VolumeType == \A S \in SUBSET Elements : VolumeOf(S) \in Nat
  BY WholeVolume

(* BESO fills no more than the target, or than the protected elements.     *)
LEMMA BesoShrinks ==
  ASSUME NEW p \in Plans, NEW living \in SUBSET Elements, NEW rank,
         NEW target \in Int, target < VolumeOf(living) * Scale,
         VolumeOf(p.protected) < VolumeOf(living),
         NEW c \in BesoUpdates(p, living, rank, target)
  PROVE  /\ c \in SUBSET Elements /\ p.protected \subseteq c
         /\ VolumeOf(c) < VolumeOf(living)
<1>1. PICK r \in Ranked(p, rank, target) : c \in AddCapped(p, living, rank, r)
  BY DEF BesoUpdates
<1> DEFINE prot == p.protected
           budget == Max({0, target - VolumeOf(prot) * Scale})
<1>2. PICK T \in TopWithin(Elements \ prot, rank, budget) : r = prot \cup T
  BY <1>1 DEF Ranked
<1>3. T \subseteq Elements \ prot /\ VolumeOf(T) * Scale <= budget
  BY <1>2 DEF TopWithin
<1>4. prot \subseteq Elements
  BY DesignAssumption
<1>5. VolumeOf(r) = VolumeOf(prot) + VolumeOf(T)
  <2>1. prot \in SUBSET Elements /\ T \in SUBSET Elements /\ prot \cap T = {}
    BY <1>3, <1>4
  <2> QED
    BY <1>2, <2>1, VolumeAdds
<1>6. VolumeOf(r) < VolumeOf(living)
  <2>1. VolumeOf(prot) \in Nat /\ VolumeOf(T) \in Nat /\ VolumeOf(living) \in Nat
    BY <1>3, <1>4, VolumeType
  <2>2. target - VolumeOf(prot) * Scale \in Int
    BY <2>1 DEF Scale
  <2>3. budget = 0 \/ budget = target - VolumeOf(prot) * Scale
    BY <2>2, TwoExtremes
  <2> HIDE DEF budget, prot
  <2>4. VolumeOf(prot) < VolumeOf(living)
    BY DEF prot
  <2> QED
    BY <1>3, <1>5, <2>1, <2>3, <2>4 DEF Scale
<1>7. prot \subseteq c /\ c \subseteq r
  <2> DEFINE newly == r \ living
             cap == p.maxAdd * V0 * Percent
  <2>1. \/ c = r
        \/ \E U \in TopWithin(newly, rank, cap) : c = (r \ newly) \cup U \cup prot
    BY <1>1 DEF AddCapped
  <2>2. \A U \in TopWithin(newly, rank, cap) : U \subseteq r
    BY DEF TopWithin
  <2> HIDE DEF newly
  <2> QED
    BY <1>2, <2>1, <2>2
<1>8. r \in SUBSET Elements
  BY <1>2, <1>3, <1>4
<1>9. VolumeOf(c) <= VolumeOf(r)
  BY <1>7, <1>8, VolumeIsMonotone
<1> QED
  BY <1>6, <1>7, <1>8, <1>9, VolumeType

(* The width of a TOBS band covers the largest of the elements it ranks.   *)
LEMMA SlackCovers ==
  ASSUME NEW p \in Plans, NEW C \in SUBSET Elements, C # {}
  PROVE  Slack(p, C) \in Int /\ \A e \in C : Vol[e] * Scale <= Slack(p, C)
<1> DEFINE W == {Vol[e] : e \in C}
           small == p.eps * V0 * Percent
           large == Max(W) * Scale
<1>1. IsFiniteSet(W)
  <2> DEFINE f == [x \in C |-> Vol[x]]
  <2>1. IsFiniteSet(C)
    BY MeshAssumption, FS_Subset
  <2>2. f \in Surjection(C, W)
    BY DEF Surjection
  <2> QED
    BY <2>1, <2>2, FS_Surjection
<1>2. W # {} /\ \A w \in W : w \in Int
  <2>1. \A e \in C : Vol[e] \in Int
    BY MeshAssumption
  <2> QED
    BY <2>1
<1>3. Max(W) \in W /\ \A w \in W : Max(W) >= w
  <2> HIDE DEF W
  <2> QED
    BY <1>1, <1>2, FiniteExtremes
<1>4. small \in Int
  BY DesignAssumption, WholeVolume DEF Percent
<1>5. Max(W) \in Int
  BY <1>2, <1>3
<1> HIDE DEF W
<1>6. large \in Int
  BY <1>5 DEF Scale
<1>7. Slack(p, C) = IF small >= large THEN small ELSE large
  <2>1. Slack(p, C) = Max({small, large})
    BY DEF Slack, W
  <2> HIDE DEF small, large
  <2> QED
    BY <1>4, <1>6, <2>1, TwoExtremes
<1>8. ASSUME NEW e \in C PROVE Vol[e] * Scale <= large
  <2>1. Vol[e] \in W /\ Vol[e] \in Int
    BY MeshAssumption DEF W
  <2> QED
    BY <1>3, <1>5, <2>1 DEF Scale
<1>9. \A e \in C : Vol[e] * Scale \in Int
  BY MeshAssumption DEF Scale
<1> HIDE DEF small, large
<1> QED
  BY <1>4, <1>6, <1>7, <1>8, <1>9

(* TOBS: among the elements it may remove there is a part whose volume is  *)
(* enough, yet less than the largest of them more than enough.             *)
LEMMA PartInBand ==
  ASSUME NEW p \in Plans, NEW C \in SUBSET Elements, C # {},
         NEW t \in Nat \ {0}, t <= Reach(C)
  PROVE  \E D \in SUBSET C : t <= Reach(D) /\ Reach(D) <= t + Slack(p, C)
<1> DEFINE F == {D \in SUBSET C : t <= Reach(D)}
<1>1. IsFiniteSet(C) /\ C \in F /\ F \in SUBSET (SUBSET C)
  BY MeshAssumption, FS_Subset
<1>2. PICK D \in F : \A U \in F : U \subseteq D => U = D
  <2> HIDE DEF F
  <2> QED
    BY <1>1, LeastSubset
<1>3. D \in SUBSET C /\ D \in SUBSET Elements /\ t <= Reach(D)
  BY <1>2
<1>4. PICK e \in D : TRUE
  <2>1. ASSUME D = {} PROVE FALSE
    <3>1. VolumeOf(D) = 0
      BY <1>3, <2>1, VolumeFacts
    <3> QED
      BY <1>3, <3>1 DEF Reach, Scale
  <2> QED
    BY <2>1
<1>5. Reach(D \ {e}) < t
  <2> DEFINE U == D \ {e}
  <2>1. U \subseteq D /\ U # D /\ U \in SUBSET C /\ U \in SUBSET Elements
    BY <1>3, <1>4
  <2>2. U \notin F
    <3> HIDE DEF F
    <3> QED
      BY <1>2, <2>1
  <2>3. ~(t <= Reach(U))
    BY <2>1, <2>2
  <2>4. Reach(U) \in Int
    BY <2>1, VolumeType DEF Reach, Scale
  <2> QED
    BY <2>3, <2>4
<1>6. e \in Elements /\ Vol[e] \in Nat
  BY <1>3, <1>4, MeshAssumption
<1>7. Reach(D) = Vol[e] * Scale + Reach(D \ {e})
  <2>1. VolumeOf(D) = Vol[e] + VolumeOf(D \ {e})
    BY <1>3, <1>4, VolumeFacts
  <2>2. VolumeOf(D \ {e}) \in Nat
    BY <1>3, VolumeType
  <2> QED
    BY <1>6, <2>1, <2>2 DEF Reach, Scale
<1>8. Slack(p, C) \in Int /\ Vol[e] * Scale <= Slack(p, C)
  BY <1>3, <1>4, SlackCovers
<1>9. Reach(D \ {e}) \in Int
  BY <1>3, VolumeType DEF Reach, Scale
<1> HIDE DEF F
<1>10. Reach(D) <= t + Slack(p, C)
  BY <1>5, <1>6, <1>7, <1>8, <1>9 DEF Scale
<1> QED
  BY <1>3, <1>10
LEMMA LimitIsPositive ==
  ASSUME NEW p \in Plans
  PROVE  MoveLimit(p) \in Nat \ {0}
<1>1. p.flips \in Nat /\ Cardinality(Elements) \in Nat
  BY DesignAssumption, MeshAssumption, FS_CardinalityType
<1>2. (p.flips * Cardinality(Elements)) \div Percent \in Int
  BY <1>1 DEF Percent
<1> QED
  BY <1>2, TwoExtremes DEF MoveLimit

(* TOBS may always remove such a part, so the flips it picks shrink too.   *)
LEMMA RemovalBand ==
  ASSUME NEW p \in Plans, NEW rem \in SUBSET Elements, rem # {}, NEW rank,
         NEW C \in TopK(rem, rank, MoveLimit(p))
  PROVE  /\ C \in SUBSET rem /\ C # {} /\ IsFiniteSet(C)
         /\ Cardinality(C) \in Nat /\ Cardinality(C) <= MoveLimit(p)
         /\ Reach(C) \in Nat \ {0}
<1>1. C \in SUBSET rem /\ Cardinality(C) = Min({MoveLimit(p), Cardinality(rem)})
  BY DEF TopK
<1>2. IsFiniteSet(rem) /\ IsFiniteSet(C) /\ C \in SUBSET Elements
  BY <1>1, MeshAssumption, FS_Subset
<1>3. Cardinality(rem) \in Nat \ {0}
  BY <1>2, FS_CardinalityType, FS_EmptySet
<1>4. Cardinality(C) \in Nat \ {0} /\ Cardinality(C) <= MoveLimit(p)
  <2> DEFINE K == MoveLimit(p)
             R == Cardinality(rem)
  <2>1. K \in Nat \ {0} /\ R \in Nat \ {0} /\ Cardinality(C) = Min({K, R})
    BY <1>1, <1>3, LimitIsPositive
  <2> HIDE DEF K, R
  <2>2. Cardinality(C) = IF K <= R THEN K ELSE R
    BY <2>1, TwoExtremes
  <2> QED
    BY <2>1, <2>2 DEF K
<1>5. C # {}
  BY <1>4, FS_EmptySet
<1>6. VolumeOf(C) \in Nat \ {0}
  BY <1>2, <1>5, VolumeIsPositive
<1> QED
  BY <1>1, <1>2, <1>4, <1>5, <1>6 DEF Reach, Scale

LEMMA ChosenFlips ==
  ASSUME NEW p \in Plans, NEW living \in SUBSET Elements, NEW rank,
         NEW dV \in Int, dV < 0, living \ p.protected # {},
         NEW band \in VolumeBands(p, living, rank, dV),
         NEW F \in BestFlips(p, living, rank, band)
  PROVE  /\ F \in SUBSET (Elements \ p.protected)
         /\ (VolumeOf(F \ living) - VolumeOf(F \cap living)) * Scale < 0
<1> DEFINE rem == living \ p.protected
           t(C) == Min({-dV, Reach(C)})
           change(G) == (VolumeOf(G \ living) - VolumeOf(G \cap living)) * Scale
<1>1. PICK C \in TopK(rem, Opposite(rank), MoveLimit(p)) :
        band = <<-t(C) - Slack(p, C), -t(C)>>
  <2> DEFINE K == MoveLimit(p)
  <2>1. VolumeBands(p, living, rank, dV)
          = {<<-t(C) - Slack(p, C), -t(C)>> : C \in TopK(rem, Opposite(rank), K)}
    <3>1. dV < 0 /\ rem # {} /\ ~(dV > 0) /\ ~(dV = 0)
      OBVIOUS
    <3> QED
      BY Zenon, <3>1 DEF VolumeBands
  <2> HIDE DEF t, rem, K
  <2>2. PICK C \in TopK(rem, Opposite(rank), K) :
          band = <<-t(C) - Slack(p, C), -t(C)>>
    BY <2>1
  <2> QED
    BY <2>2 DEF K
<1>2. /\ C \in SUBSET rem /\ C # {} /\ IsFiniteSet(C)
      /\ Cardinality(C) \in Nat /\ Cardinality(C) <= MoveLimit(p)
      /\ Reach(C) \in Nat \ {0}
  <2>1. rem \in SUBSET Elements /\ rem # {}
    OBVIOUS
  <2> HIDE DEF rem
  <2> QED
    BY <1>1, <2>1, RemovalBand
<1>3. t(C) \in Nat \ {0} /\ t(C) <= Reach(C)
  <2> DEFINE n == -dV
             m == Reach(C)
  <2>1. n \in Int /\ n > 0 /\ m \in Int /\ m > 0 /\ t(C) = Min({n, m})
    BY <1>2
  <2> HIDE DEF n, m, t
  <2>2. t(C) = IF n <= m THEN n ELSE m
    BY <2>1, TwoExtremes
  <2>3. t(C) \in Nat \ {0} /\ t(C) <= m
    BY <2>1, <2>2
  <2> QED
    BY <2>3 DEF m
<1>4. band[1] = -t(C) - Slack(p, C) /\ band[2] = -t(C)
  BY <1>1
<1> HIDE DEF t
<1>5. PICK D \in SUBSET C : t(C) <= Reach(D) /\ Reach(D) <= t(C) + Slack(p, C)
  <2>1. C \in SUBSET Elements
    BY <1>2
  <2> QED
    BY <1>2, <1>3, <2>1, PartInBand
<1>6. D \in FeasibleFlips(p, living, band)
  <2>1. D \in SUBSET (Elements \ p.protected) /\ D \ living = {} /\ D \cap living = D
    BY <1>2
  <2>2. VolumeOf({}) = 0 /\ VolumeOf(D) \in Nat
    BY <2>1, VolumeFacts, VolumeType
  <2>3. change(D) = -Reach(D) /\ Reach(D) \in Int
    <3>1. change(D) = (0 - VolumeOf(D)) * Scale
      BY <2>1, <2>2
    <3> QED
      BY <2>2, <3>1 DEF Reach, Scale
  <2>4. Cardinality(D) <= MoveLimit(p)
    BY <1>2, FS_Subset, FS_CardinalityType, LimitIsPositive
  <2>5. Slack(p, C) \in Int
    <3>1. C \in SUBSET Elements
      BY <1>2
    <3> QED
      BY <1>2, <3>1, SlackCovers
  <2> HIDE DEF change
  <2>6. band[1] <= change(D) /\ change(D) <= band[2]
    BY <1>3, <1>4, <1>5, <2>3, <2>5
  <2> QED
    BY <2>1, <2>4, <2>6 DEF FeasibleFlips, change
<1>7. F \in FeasibleFlips(p, living, band)
  BY <1>6 DEF BestFlips
<1>8. F \in SUBSET (Elements \ p.protected) /\ change(F) <= band[2]
  BY <1>7 DEF FeasibleFlips
<1>9. change(F) \in Int
  <2>1. F \ living \in SUBSET Elements /\ F \cap living \in SUBSET Elements
    BY <1>8
  <2> QED
    BY <2>1, VolumeType DEF Scale
<1> HIDE DEF change
<1>10. change(F) < 0
  BY <1>3, <1>4, <1>8, <1>9
<1> QED
  BY <1>8, <1>10 DEF change

LEMMA TobsShrinks ==
  ASSUME NEW p \in Plans, NEW living \in SUBSET Elements, NEW rank,
         NEW target \in Int, target < VolumeOf(living) * Scale,
         VolumeOf(p.protected) < VolumeOf(living), p.protected \subseteq living,
         NEW c \in TobsUpdates(p, living, rank, target)
  PROVE  /\ c \in SUBSET Elements /\ p.protected \subseteq c
         /\ VolumeOf(c) < VolumeOf(living)
<1> DEFINE dV == target - VolumeOf(living) * Scale
<1>1. PICK band \in VolumeBands(p, living, rank, dV) :
        \E F \in BestFlips(p, living, rank, band) : c = Flipped(living, F) \cup p.protected
  BY DEF TobsUpdates, TobsBands
<1>2. PICK F \in BestFlips(p, living, rank, band) : c = Flipped(living, F) \cup p.protected
  BY <1>1
<1>3. dV \in Int /\ dV < 0
  BY VolumeType DEF Scale
<1>4. living \ p.protected # {}
  <2>1. ASSUME living \ p.protected = {} PROVE FALSE
    <3>1. living = p.protected
      BY <2>1
    <3> QED
      BY <3>1, VolumeType
  <2> QED
    BY <2>1
<1> HIDE DEF dV
<1>5. /\ F \in SUBSET (Elements \ p.protected)
      /\ (VolumeOf(F \ living) - VolumeOf(F \cap living)) * Scale < 0
  BY <1>1, <1>2, <1>3, <1>4, ChosenFlips
<1> DEFINE stays == living \ F
           gone == F \cap living
           back == F \ living
<1>6. /\ {stays, gone, back} \subseteq SUBSET Elements
      /\ stays \cap gone = {} /\ stays \cup gone = living
      /\ stays \cap back = {} /\ stays \cup back = c
  BY <1>2, <1>5 DEF Flipped
<1>7. VolumeOf(back) < VolumeOf(gone)
  <2>1. VolumeOf(back) \in Nat /\ VolumeOf(gone) \in Nat
    BY <1>6, VolumeType
  <2> HIDE DEF back, gone
  <2>2. (VolumeOf(back) - VolumeOf(gone)) * Scale < 0
    BY <1>5 DEF back, gone
  <2> QED
    BY <2>1, <2>2 DEF Scale
<1> HIDE DEF stays, gone, back
<1>8. /\ VolumeOf(living) = VolumeOf(stays) + VolumeOf(gone)
      /\ VolumeOf(c) = VolumeOf(stays) + VolumeOf(back)
  BY <1>6, VolumeAdds
<1>9. VolumeOf(c) < VolumeOf(living)
  <2>1. VolumeOf(stays) \in Nat /\ VolumeOf(gone) \in Nat /\ VolumeOf(back) \in Nat
    BY <1>6, VolumeType
  <2> QED
    BY <1>7, <1>8, <2>1
<1> QED
  BY <1>2, <1>6, <1>9

(* Under the gate a feasible, undamped iteration loses volume, down to the *)
(* goal or to the protected volume, for any mesh, ranking and constraints  *)
(* that do not put material back: it cannot stall on protected elements    *)
(* that rank low (beso.py:252), nor on a band TOBS cannot hit.             *)
THEOREM FeasibleAlwaysShrinks == Spec => ShrinksWhileFeasible
<1> DEFINE floor == Max({Goal(plan), VolumeOf(plan.protected) * Scale})
           Shrinks == LET v == last'.util
                      IN  /\ last'.step = "updated" /\ plan.mode = "gate" /\ ~Regrown(plan)
                          /\ Feasible(v) /\ ShrinkShare(plan, v) > 0
                          /\ plan.protected \subseteq alive
                          /\ VolumeOf(alive) * Scale > floor
                          => VolumeOf(alive') < VolumeOf(alive)
<1>1. ASSUME DesignInv, NEW v \in Utilisations, NEW field \in Fields, Iterate(v, field),
             plan.mode = "gate", ~Regrown(plan), Feasible(v), ShrinkShare(plan, v) > 0,
             plan.protected \subseteq alive, VolumeOf(alive) * Scale > floor
      PROVE  VolumeOf(alive') < VolumeOf(alive)
  <2> DEFINE V == VolumeOf(alive)
             target == NextTarget(plan, Recorded(plan, points, V, v), V, Feasible(v), v)
  <2>1. /\ plan \in Plans /\ alive \in SUBSET Elements /\ v \in Nat
        /\ plan.protected \in SUBSET Elements /\ field \in [Elements -> Int]
    BY <1>1, DesignAssumption DEF DesignInv, DesignOK
  <2>2. V \in Nat /\ VolumeOf(plan.protected) \in Nat
    BY <2>1, VolumeType
  <2>3. V * Scale > Goal(plan) /\ V > VolumeOf(plan.protected)
    <3>1. plan.goal \in Nat /\ V0 \in Nat
      BY <2>1, DesignAssumption, WholeVolume
    <3>2. Goal(plan) \in Int
      BY <3>1 DEF Goal, Percent
    <3> DEFINE held == VolumeOf(plan.protected) * Scale
    <3>3. held \in Int
      BY <2>2 DEF Scale
    <3>4. floor = IF Goal(plan) >= held THEN Goal(plan) ELSE held
      BY <3>2, <3>3, TwoExtremes
    <3> DEFINE now == V * Scale
    <3>5. now \in Int /\ now > floor
      BY <1>1, <2>2 DEF Scale
    <3> HIDE DEF floor, held, now
    <3>6. now > Goal(plan) /\ now > held
      BY <3>2, <3>3, <3>4, <3>5
    <3> QED
      BY <2>2, <3>6 DEF now, held, Scale
  <2>4. target \in Int /\ target < V * Scale
    BY <1>1, <2>1, <2>2, <2>3, TargetShrinks
  <2>5. PICK rank, design :
          /\ design \in Updates(plan, alive, rank, target)
          /\ alive' = HeldVoid(plan, Shaped(plan, design, field))
    BY <1>1 DEF Iterate
  <2> HIDE DEF target
  <2>6. PICK c : /\ c \in SUBSET Elements /\ plan.protected \subseteq c
                 /\ VolumeOf(c) < V /\ design = KeepConnected(c, plan.anchor)
    <3>1. CASE plan.alg = "beso"
      <4>1. PICK c \in BesoUpdates(plan, alive, rank, target) :
              design = KeepConnected(c, plan.anchor)
        BY <2>5, <3>1 DEF Updates
      <4> QED
        BY <2>1, <2>3, <2>4, <4>1, BesoShrinks
    <3>2. CASE plan.alg # "beso"
      <4>1. PICK c \in TobsUpdates(plan, alive, rank, target) :
              design = KeepConnected(c, plan.anchor)
        BY <2>5, <3>2 DEF Updates
      <4> QED
        BY <1>1, <2>1, <2>3, <2>4, <4>1, TobsShrinks
    <3> QED
      BY <3>1, <3>2
  <2>7. design \in SUBSET Elements /\ design \subseteq c
    BY <2>6, KeepOnlyRemoves
  <2>8. alive' \subseteq c
    <3>1. alive' \subseteq design \cup plan.protected
      BY <1>1, <2>1, <2>5, <2>7, ShapedOnlyRemoves DEF Regrown
    <3> QED
      BY <2>6, <2>7, <3>1
  <2>9. VolumeOf(alive') <= VolumeOf(c) /\ VolumeOf(alive') \in Nat /\ VolumeOf(c) \in Nat
    BY <2>6, <2>8, VolumeIsMonotone
  <2> QED
    BY <2>2, <2>6, <2>9
<1>2. DesignInv /\ [Next]_vars => [Shrinks]_vars
  <2> SUFFICES ASSUME DesignInv, Next PROVE Shrinks
    BY DEF vars
  <2>1. CASE \E v \in Utilisations, field \in Fields : Iterate(v, field)
    <3>1. PICK v \in Utilisations, field \in Fields : Iterate(v, field)
      BY <2>1
    <3>2. last'.util = v
      BY <3>1 DEF Iterate, Did
    <3> QED
      BY <1>1, <3>1, <3>2
  <2>2. CASE Diverge \/ \E p \in Plans : Resume(p)
    <3>1. last' \in {Did("recovered", Inf), Did("kept", Inf), Did("start", 0),
                     Did("resumed", 0)}
      <4>1. CASE Diverge
        BY Zenon, <4>1 DEF Diverge, Recover
      <4>2. CASE \E p \in Plans : Resume(p)
        <5>1. last' = Did(IF last.step = "start" THEN "start" ELSE "resumed", 0)
          BY Zenon, <4>2 DEF Resume, ResumeWith
        <5> QED
          BY <5>1
      <4> QED
        BY <2>2, <4>1, <4>2
    <3>2. last'.step # "updated"
      BY <3>1 DEF Did
    <3> QED
      BY <3>2
  <2> QED
    BY <2>1, <2>2 DEF Next
<1> QED
  BY <1>2, DesignInvariant, PTL DEF Spec, ShrinksWhileFeasible

-----------------------------------------------------------------------------
(* Reach on the mesh: neighbours, hops, and what erosion leaves.           *)

(* Touching is symmetric, and every element touches itself.                *)
LEMMA Touches ==
  /\ \A e \in Elements : Adjacency[e] \subseteq Elements /\ e \in Adjacency[e]
  /\ \A e, f \in Elements : f \in Adjacency[e] <=> e \in Adjacency[f]
  BY MeshAssumption DEF Adjacency

(* The neighbours of a mask: the mask and what touches it.                 *)
LEMMA NeighboursOf ==
  ASSUME NEW S \in SUBSET Elements
  PROVE  /\ Neighbours(S) \in SUBSET Elements /\ S \subseteq Neighbours(S)
         /\ \A e \in Elements : e \in Neighbours(S) <=> \E t \in S : e \in Adjacency[t]
  BY Touches DEF Neighbours

(* A larger mask has more neighbours.                                      *)
LEMMA NeighboursGrow ==
  ASSUME NEW S \in SUBSET Elements, NEW T \in SUBSET Elements, S \subseteq T
  PROVE  Neighbours(S) \subseteq Neighbours(T)
  BY DEF Neighbours

(* Two runs of the same recursion agree.                                   *)
LEMMA IteratesAgree ==
  ASSUME NEW D, NEW base, NEW step, NEW n \in Nat, NEW m \in 0..n,
         NEW f, NEW g, Iterates(f, D, base, step, n), Iterates(g, D, base, step, m)
  PROVE  f[m] = g[m]
<1> DEFINE Bad == {i \in 0..m : f[i] # g[i]}
<1> SUFFICES ASSUME Bad # {} PROVE FALSE
  OBVIOUS
<1>1. PICK i \in Bad : \A k \in Bad : i <= k
  <2>1. Bad \in SUBSET Nat
    OBVIOUS
  <2> HIDE DEF Bad
  <2> QED
    BY <2>1, FirstNumber
<1>2. i \in 0..m /\ f[i] # g[i] /\ i # 0
  BY <1>1 DEF Iterates
<1>3. i - 1 \in 0..m /\ i - 1 \notin Bad /\ i \in 1..m /\ i \in 1..n
  BY <1>1, <1>2
<1>4. f[i - 1] = g[i - 1]
  BY <1>3
<1> QED
  BY <1>2, <1>3, <1>4 DEF Iterates

Masks == SUBSET Elements
Spreading == [S \in Masks |-> Neighbours(S)]
Wearing == [S \in Masks |-> {x \in S : Neighbours({x}) \subseteq S}]

(* Spreading and wearing off are steps on masks.                           *)
LEMMA StepsOfMasks == Spreading \in [Masks -> Masks] /\ Wearing \in [Masks -> Masks]
  BY NeighboursOf DEF Spreading, Wearing, Masks

(* A function that takes the steps is the repetition.                      *)
LEMMA IteratesAre ==
  ASSUME NEW D, NEW base \in D, NEW step \in [D -> D], NEW n \in Nat, NEW r,
         r[0] = base, \A i \in 1..n : r[i - 1] \in D => r[i] = step[r[i - 1]]
  PROVE  \E f : Iterates(f, D, base, step, n) /\ r[n] = f[n]
<1>1. PICK f : Iterates(f, D, base, step, n)
  BY IteratesExist
<1> DEFINE Bad == {i \in 0..n : f[i] # r[i]}
<1>2. Bad = {}
  <2> SUFFICES ASSUME Bad # {} PROVE FALSE
    OBVIOUS
  <2>1. PICK i \in Bad : \A k \in Bad : i <= k
    <3>1. Bad \in SUBSET Nat
      OBVIOUS
    <3> HIDE DEF Bad
    <3> QED
      BY <3>1, FirstNumber
  <2>2. i \in 0..n /\ f[i] # r[i] /\ i # 0
    BY <1>1, <2>1 DEF Iterates
  <2>3. i - 1 \in 0..n /\ i - 1 \notin Bad /\ i \in 1..n
    BY <2>1, <2>2
  <2>4. f[i - 1] = r[i - 1] /\ f[i - 1] \in D /\ f[i] = step[f[i - 1]]
    BY <1>1, <2>3 DEF Iterates
  <2> QED
    BY <2>2, <2>3, <2>4
<1> QED
  BY <1>1, <1>2

(* Hops are the repetition of spreading ...                                *)
LEMMA HopsIterate ==
  ASSUME NEW S \in SUBSET Elements, NEW n \in Nat
  PROVE  \E f : Iterates(f, Masks, S, Spreading, n) /\ Hops(S, n) = f[n]
<1> DEFINE Is(r) == r = [i \in 0..n |-> IF i = 0 THEN S
                                        ELSE r[i - 1] \cup Neighbours(r[i - 1])]
           reach == CHOOSE r : Is(r)
<1>1. ASSUME NEW T \in Masks PROVE Spreading[T] = T \cup Neighbours(T)
  BY <1>1, NeighboursOf DEF Spreading, Masks
<1>2. PICK f : Iterates(f, Masks, S, Spreading, n)
  <2>1. S \in Masks
    BY DEF Masks
  <2> QED
    BY <2>1, StepsOfMasks, IteratesExist
<1>3. Is(f)
  <2>1. f \in [0..n -> Masks] /\ f[0] = S
    BY <1>2 DEF Iterates
  <2>2. ASSUME NEW i \in 0..n, i # 0 PROVE f[i] = f[i - 1] \cup Neighbours(f[i - 1])
    <3>1. i \in 1..n /\ i - 1 \in 0..n
      BY <2>2
    <3> QED
      BY <1>1, <1>2, <2>1, <3>1 DEF Iterates
  <2>3. f = [i \in 0..n |-> f[i]]
    BY <2>1
  <2> QED
    BY <2>1, <2>2, <2>3
<1>4. Is(reach)
  <2> HIDE DEF Is
  <2> QED
    BY <1>3
<1>5. Hops(S, n) = reach[n]
  BY DEF Hops
<1> HIDE DEF reach
<1>6. reach[0] = S
  BY <1>4
<1>7. ASSUME NEW i \in 1..n, reach[i - 1] \in Masks PROVE reach[i] = Spreading[reach[i - 1]]
  <2>1. i \in 0..n /\ i # 0
    OBVIOUS
  <2>2. reach[i] = reach[i - 1] \cup Neighbours(reach[i - 1])
    BY <1>4, <2>1
  <2> QED
    BY <1>1, <1>7, <2>2
<1>8. S \in Masks
  BY DEF Masks
<1> HIDE DEF Is
<1>9. \E g : Iterates(g, Masks, S, Spreading, n) /\ reach[n] = g[n]
  <2>1. \A i \in 1..n : reach[i - 1] \in Masks => reach[i] = Spreading[reach[i - 1]]
    BY <1>7
  <2>2. Spreading \in [Masks -> Masks]
    BY StepsOfMasks
  <2> QED
    BY <1>6, <1>8, <2>1, <2>2, IteratesAre
<1> QED
  BY <1>5, <1>9

(* ... one hop at a time.                                                  *)
LEMMA OneHop ==
  ASSUME NEW S \in SUBSET Elements, NEW n \in Nat
  PROVE  /\ Hops(S, n) \in SUBSET Elements /\ Hops(S, 0) = S
         /\ Hops(S, n + 1) = Neighbours(Hops(S, n))
<1>1. PICK f : Iterates(f, Masks, S, Spreading, n) /\ Hops(S, n) = f[n]
  BY HopsIterate
<1>2. PICK g : Iterates(g, Masks, S, Spreading, n + 1) /\ Hops(S, n + 1) = g[n + 1]
  <2>1. n + 1 \in Nat
    OBVIOUS
  <2> QED
    BY <2>1, HopsIterate
<1>3. PICK h : Iterates(h, Masks, S, Spreading, 0) /\ Hops(S, 0) = h[0]
  BY HopsIterate
<1>4. Iterates(g, Masks, S, Spreading, n + 1) /\ n + 1 \in Nat /\ n \in 0..n + 1
  BY <1>2
<1>5. g[n] = f[n]
  BY <1>1, <1>4, IteratesAgree
<1>6. g[n + 1] = Spreading[g[n]] /\ f[n] \in Masks
  <2>1. n + 1 \in 1..n + 1 /\ (n + 1) - 1 = n /\ n \in 0..n
    OBVIOUS
  <2> QED
    BY <1>1, <1>2, <2>1 DEF Iterates
<1> QED
  BY <1>1, <1>2, <1>3, <1>5, <1>6 DEF Iterates, Spreading, Masks

(* The audit's erosion is the repetition of wearing off ...                *)
LEMMA ErodedIterates ==
  ASSUME NEW S \in SUBSET Elements, NEW n \in Nat
  PROVE  \E f : Iterates(f, Masks, S, Wearing, n) /\ Eroded(S, n) = f[n]
<1> DEFINE Worn(left) == {x \in left : Neighbours({x}) \subseteq left}
           Is(r) == r = [i \in 0..n |-> IF i = 0 THEN S ELSE Worn(r[i - 1])]
           e == CHOOSE r : Is(r)
<1>1. ASSUME NEW T \in Masks PROVE Wearing[T] = Worn(T)
  BY <1>1 DEF Wearing
<1>2. PICK f : Iterates(f, Masks, S, Wearing, n)
  <2>1. S \in Masks
    BY DEF Masks
  <2> QED
    BY <2>1, StepsOfMasks, IteratesExist
<1> HIDE DEF Worn
<1>3. Is(f)
  <2>1. f \in [0..n -> Masks] /\ f[0] = S
    BY <1>2 DEF Iterates
  <2>2. ASSUME NEW i \in 0..n, i # 0 PROVE f[i] = Worn(f[i - 1])
    <3>1. i \in 1..n /\ i - 1 \in 0..n
      BY <2>2
    <3> QED
      BY <1>1, <1>2, <2>1, <3>1 DEF Iterates
  <2>3. f = [i \in 0..n |-> f[i]]
    BY <2>1
  <2> QED
    BY <2>1, <2>2, <2>3
<1>4. Is(e)
  <2> HIDE DEF Is
  <2> QED
    BY <1>3
<1>5. Eroded(S, n) = e[n]
  BY DEF Eroded, Worn
<1> HIDE DEF e
<1>6. e[0] = S
  BY <1>4
<1>7. ASSUME NEW i \in 1..n, e[i - 1] \in Masks PROVE e[i] = Wearing[e[i - 1]]
  <2>1. i \in 0..n /\ i # 0
    OBVIOUS
  <2>2. e[i] = Worn(e[i - 1])
    BY <1>4, <2>1
  <2> QED
    BY <1>1, <1>7, <2>2
<1>8. S \in Masks
  BY DEF Masks
<1> HIDE DEF Is
<1>9. \E g : Iterates(g, Masks, S, Wearing, n) /\ e[n] = g[n]
  <2>1. \A i \in 1..n : e[i - 1] \in Masks => e[i] = Wearing[e[i - 1]]
    BY <1>7
  <2>2. Wearing \in [Masks -> Masks]
    BY StepsOfMasks
  <2> QED
    BY <1>6, <1>8, <2>1, <2>2, IteratesAre
<1> QED
  BY <1>5, <1>9

(* ... one layer at a time.                                                *)
LEMMA OneLayer ==
  ASSUME NEW S \in SUBSET Elements, NEW n \in Nat
  PROVE  /\ Eroded(S, n) \in SUBSET Elements /\ Eroded(S, 0) = S
         /\ Eroded(S, n + 1) = {x \in Eroded(S, n) : Neighbours({x}) \subseteq Eroded(S, n)}
<1>1. PICK f : Iterates(f, Masks, S, Wearing, n) /\ Eroded(S, n) = f[n]
  BY ErodedIterates
<1>2. PICK g : Iterates(g, Masks, S, Wearing, n + 1) /\ Eroded(S, n + 1) = g[n + 1]
  <2>1. n + 1 \in Nat
    OBVIOUS
  <2> QED
    BY <2>1, ErodedIterates
<1>3. PICK h : Iterates(h, Masks, S, Wearing, 0) /\ Eroded(S, 0) = h[0]
  BY ErodedIterates
<1>4. Iterates(g, Masks, S, Wearing, n + 1) /\ n + 1 \in Nat /\ n \in 0..n + 1
  BY <1>2
<1>5. g[n] = f[n]
  BY <1>1, <1>4, IteratesAgree
<1>6. g[n + 1] = Wearing[g[n]] /\ f[n] \in Masks
  <2>1. n + 1 \in 1..n + 1 /\ (n + 1) - 1 = n /\ n \in 0..n
    OBVIOUS
  <2> QED
    BY <1>1, <1>2, <2>1 DEF Iterates
<1>7. Wearing[f[n]] = {x \in f[n] : Neighbours({x}) \subseteq f[n]}
  BY <1>6 DEF Wearing
<1>8. h[0] = S /\ f[n] \in SUBSET Elements
  BY <1>3, <1>6 DEF Iterates, Masks
<1>9. Eroded(S, n + 1) = Wearing[f[n]]
  BY <1>2, <1>5, <1>6
<1> QED
  BY <1>1, <1>3, <1>7, <1>8, <1>9

(* The constraint's opening, with nothing protected, is the audit's.       *)
LEMMA OpenIsOpened ==
  ASSUME NEW S \in SUBSET Elements, NEW n \in Nat
  PROVE  Open(S, n, {}) = Opened(S, n)
<1> DEFINE Erode(a) == (a \ Neighbours(Elements \ (a \cup {}))) \cup {}
           Is(r) == r = [i \in 0..n |-> IF i = 0 THEN S ELSE Erode(r[i - 1])]
           eroded == CHOOSE r : Is(r)
<1>1. ASSUME NEW T \in Masks PROVE Wearing[T] = Erode(T)
  <2>1. ASSUME NEW x \in T
        PROVE  Neighbours({x}) \subseteq T <=> x \notin Neighbours(Elements \ T)
    <3>1. x \in Elements /\ {x} \in SUBSET Elements /\ Elements \ T \in SUBSET Elements
      BY <1>1 DEF Masks
    <3>2. \A y \in Elements : y \in Neighbours({x}) <=> y \in Adjacency[x]
      BY <3>1, NeighboursOf
    <3>3. x \in Neighbours(Elements \ T) <=> \E y \in Elements \ T : x \in Adjacency[y]
      BY <3>1, NeighboursOf
    <3>4. Neighbours({x}) \subseteq Elements
      BY <3>1, NeighboursOf
    <3> QED
      BY <3>1, <3>2, <3>3, <3>4, Touches
  <2> QED
    BY <1>1, <2>1 DEF Wearing
<1>2. PICK f : Iterates(f, Masks, S, Wearing, n) /\ Eroded(S, n) = f[n]
  BY ErodedIterates
<1> HIDE DEF Erode
<1>3. Is(f)
  <2>1. f \in [0..n -> Masks] /\ f[0] = S
    BY <1>2 DEF Iterates
  <2>2. ASSUME NEW i \in 0..n, i # 0 PROVE f[i] = Erode(f[i - 1])
    <3>1. i \in 1..n /\ i - 1 \in 0..n
      BY <2>2
    <3> QED
      BY <1>1, <1>2, <2>1, <3>1 DEF Iterates
  <2>3. f = [i \in 0..n |-> f[i]]
    BY <2>1
  <2> QED
    BY <2>1, <2>2, <2>3
<1>4. Is(eroded)
  <2> HIDE DEF Is
  <2> QED
    BY <1>3
<1>5. Open(S, n, {}) = (S \cap Hops(eroded[n], n)) \cup {}
  BY DEF Open, Erode
<1> HIDE DEF eroded
<1>6. eroded[0] = S
  BY <1>4
<1>7. ASSUME NEW i \in 1..n, eroded[i - 1] \in Masks
      PROVE  eroded[i] = Wearing[eroded[i - 1]]
  <2>1. i \in 0..n /\ i # 0
    OBVIOUS
  <2>2. eroded[i] = Erode(eroded[i - 1])
    BY <1>4, <2>1
  <2> QED
    BY <1>1, <1>7, <2>2
<1>8. S \in Masks
  BY DEF Masks
<1> HIDE DEF Is
<1>9. PICK g : Iterates(g, Masks, S, Wearing, n) /\ eroded[n] = g[n]
  <2>1. \A i \in 1..n : eroded[i - 1] \in Masks => eroded[i] = Wearing[eroded[i - 1]]
    BY <1>7
  <2>2. Wearing \in [Masks -> Masks]
    BY StepsOfMasks
  <2> QED
    BY <1>6, <1>8, <2>1, <2>2, IteratesAre
<1>10. g[n] = f[n]
  <2>1. n \in 0..n
    OBVIOUS
  <2> QED
    BY <1>2, <1>9, <2>1, IteratesAgree
<1> QED
  BY <1>2, <1>5, <1>9, <1>10 DEF Opened

-----------------------------------------------------------------------------
(* A larger set reaches further.                                           *)
LEMMA HopsGrow ==
  ASSUME NEW S \in SUBSET Elements, NEW T \in SUBSET Elements, S \subseteq T, NEW n \in Nat
  PROVE  Hops(S, n) \subseteq Hops(T, n)
<1> DEFINE Bad == {i \in Nat : ~(Hops(S, i) \subseteq Hops(T, i))}
<1> SUFFICES ASSUME Bad # {} PROVE FALSE
  OBVIOUS
<1>1. PICK i \in Bad : \A k \in Bad : i <= k
  <2>1. Bad \in SUBSET Nat
    OBVIOUS
  <2> HIDE DEF Bad
  <2> QED
    BY <2>1, FirstNumber
<1>2. i # 0
  BY <1>1, OneHop
<1>3. i - 1 \in Nat /\ (i - 1) + 1 = i /\ Hops(S, i - 1) \subseteq Hops(T, i - 1)
  <2>1. i - 1 \in Nat /\ i - 1 < i
    BY <1>1, <1>2
  <2> QED
    BY <1>1, <2>1
<1>4. /\ Hops(S, i - 1) \in SUBSET Elements /\ Hops(T, i - 1) \in SUBSET Elements
      /\ Hops(S, i) = Neighbours(Hops(S, i - 1)) /\ Hops(T, i) = Neighbours(Hops(T, i - 1))
  <2>1. /\ Hops(S, i - 1) \in SUBSET Elements
        /\ Hops(S, (i - 1) + 1) = Neighbours(Hops(S, i - 1))
    BY <1>3, OneHop
  <2>2. /\ Hops(T, i - 1) \in SUBSET Elements
        /\ Hops(T, (i - 1) + 1) = Neighbours(Hops(T, i - 1))
    BY <1>3, OneHop
  <2> QED
    BY <1>3, <2>1, <2>2
<1> QED
  BY <1>1, <1>3, <1>4, NeighboursGrow

(* The first hop may be taken first.                                       *)
LEMMA HopsFromNeighbours ==
  ASSUME NEW S \in SUBSET Elements, NEW n \in Nat
  PROVE  Hops(S, n + 1) = Hops(Neighbours(S), n)
<1> DEFINE Bad == {i \in Nat : Hops(S, i + 1) # Hops(Neighbours(S), i)}
<1> SUFFICES ASSUME Bad # {} PROVE FALSE
  OBVIOUS
<1>1. PICK i \in Bad : \A k \in Bad : i <= k
  <2>1. Bad \in SUBSET Nat
    OBVIOUS
  <2> HIDE DEF Bad
  <2> QED
    BY <2>1, FirstNumber
<1>2. Neighbours(S) \in SUBSET Elements
  BY NeighboursOf
<1>3. i # 0
  <2>1. Hops(S, 0 + 1) = Neighbours(Hops(S, 0)) /\ Hops(S, 0) = S
    BY OneHop
  <2>2. Hops(Neighbours(S), 0) = Neighbours(S)
    BY <1>2, OneHop
  <2> QED
    BY <1>1, <2>1, <2>2
<1>4. i - 1 \in Nat /\ (i - 1) + 1 = i /\ Hops(S, i) = Hops(Neighbours(S), i - 1)
  <2>1. i - 1 \in Nat /\ i - 1 < i /\ (i - 1) + 1 = i
    BY <1>1, <1>3
  <2> QED
    BY <1>1, <2>1
<1>5. Hops(S, i + 1) = Neighbours(Hops(S, i))
  BY <1>1, OneHop
<1>6. Hops(Neighbours(S), i) = Neighbours(Hops(Neighbours(S), i - 1))
  <2>1. Hops(Neighbours(S), (i - 1) + 1) = Neighbours(Hops(Neighbours(S), i - 1))
    BY <1>2, <1>4, OneHop
  <2> QED
    BY <1>4, <2>1
<1> QED
  BY <1>1, <1>4, <1>5, <1>6

(* Erosion and reach are adjoint: what is left of a mask reaches no further*)
(* than the mask ...                                                       *)
LEMMA ReachOfEroded ==
  ASSUME NEW S \in SUBSET Elements, NEW n \in Nat
  PROVE  Hops(Eroded(S, n), n) \subseteq S
<1> DEFINE Bad == {i \in Nat : ~(Hops(Eroded(S, i), i) \subseteq S)}
<1> SUFFICES ASSUME Bad # {} PROVE FALSE
  OBVIOUS
<1>1. PICK i \in Bad : \A k \in Bad : i <= k
  <2>1. Bad \in SUBSET Nat
    OBVIOUS
  <2> HIDE DEF Bad
  <2> QED
    BY <2>1, FirstNumber
<1>2. i # 0
  BY <1>1, OneHop, OneLayer
<1>3. i - 1 \in Nat /\ (i - 1) + 1 = i /\ Hops(Eroded(S, i - 1), i - 1) \subseteq S
  <2>1. i - 1 \in Nat /\ i - 1 < i /\ (i - 1) + 1 = i
    BY <1>1, <1>2
  <2> QED
    BY <1>1, <2>1
<1>4. /\ Eroded(S, i - 1) \in SUBSET Elements /\ Eroded(S, i) \in SUBSET Elements
      /\ \A x \in Eroded(S, i) : Neighbours({x}) \subseteq Eroded(S, i - 1)
  BY <1>3, OneLayer
<1>5. Neighbours(Eroded(S, i)) \subseteq Eroded(S, i - 1)
  BY <1>4 DEF Neighbours
<1>6. Neighbours(Eroded(S, i)) \in SUBSET Elements
  BY <1>4, <1>5
<1>7. Hops(Eroded(S, i), i) = Hops(Neighbours(Eroded(S, i)), i - 1)
  BY <1>3, <1>4, HopsFromNeighbours
<1>8. Hops(Neighbours(Eroded(S, i)), i - 1) \subseteq Hops(Eroded(S, i - 1), i - 1)
  BY <1>3, <1>4, <1>5, <1>6, HopsGrow
<1> QED
  BY <1>1, <1>3, <1>7, <1>8

(* ... and whatever reaches no further than the mask is left of it.        *)
LEMMA ErodedHolds ==
  ASSUME NEW S \in SUBSET Elements, NEW n \in Nat,
         NEW X \in SUBSET Elements, Hops(X, n) \subseteq S
  PROVE  X \subseteq Eroded(S, n)
<1> DEFINE Bad == {i \in Nat : \E Y \in SUBSET Elements :
                                  Hops(Y, i) \subseteq S /\ ~(Y \subseteq Eroded(S, i))}
<1> SUFFICES ASSUME Bad # {} PROVE FALSE
  OBVIOUS
<1>1. PICK i \in Bad : \A k \in Bad : i <= k
  <2>1. Bad \in SUBSET Nat
    OBVIOUS
  <2> HIDE DEF Bad
  <2> QED
    BY <2>1, FirstNumber
<1>2. PICK Y \in SUBSET Elements : Hops(Y, i) \subseteq S /\ ~(Y \subseteq Eroded(S, i))
  BY <1>1
<1>3. i # 0
  BY <1>2, OneHop, OneLayer
<1>4. i - 1 \in Nat /\ (i - 1) + 1 = i /\ i - 1 \notin Bad
  <2>1. i - 1 \in Nat /\ ~(i <= i - 1) /\ (i - 1) + 1 = i
    BY <1>1, <1>3
  <2> HIDE DEF Bad
  <2> QED
    BY <1>1, <2>1
<1>5. /\ Neighbours(Y) \in SUBSET Elements /\ Y \subseteq Neighbours(Y)
      /\ Hops(Neighbours(Y), i - 1) \subseteq S
  BY <1>2, <1>4, NeighboursOf, HopsFromNeighbours
<1>6. Neighbours(Y) \subseteq Eroded(S, i - 1)
  BY <1>4, <1>5
<1>7. \A x \in Y : Neighbours({x}) \subseteq Neighbours(Y)
  BY DEF Neighbours
<1>8. Eroded(S, i) = {x \in Eroded(S, i - 1) : Neighbours({x}) \subseteq Eroded(S, i - 1)}
  BY <1>4, OneLayer
<1> QED
  BY <1>2, <1>5, <1>6, <1>7, <1>8

(* The clip to the mask takes nothing away: opening is erosion, then reach.*)
LEMMA OpenedIsReach ==
  ASSUME NEW S \in SUBSET Elements, NEW n \in Nat
  PROVE  Opened(S, n) = Hops(Eroded(S, n), n) /\ Opened(S, n) \subseteq S
  BY ReachOfEroded DEF Opened

(* Opening by more layers opens more.                                      *)
LEMMA OpenedShrinks ==
  ASSUME NEW S \in SUBSET Elements, NEW m \in Nat, NEW n \in 0..m
  PROVE  Opened(S, m) \subseteq Opened(S, n)
<1> DEFINE Bad == {i \in Nat : i >= n /\ ~(Opened(S, i) \subseteq Opened(S, n))}
<1> SUFFICES ASSUME Bad # {} PROVE FALSE
  OBVIOUS
<1>1. PICK i \in Bad : \A k \in Bad : i <= k
  <2>1. Bad \in SUBSET Nat
    OBVIOUS
  <2> HIDE DEF Bad
  <2> QED
    BY <2>1, FirstNumber
<1>2. i - 1 \in Nat /\ (i - 1) + 1 = i /\ Opened(S, i - 1) \subseteq Opened(S, n)
  <2>1. i \in Nat /\ i >= n /\ i # n
    BY <1>1
  <2>2. i - 1 \in Nat /\ i - 1 >= n /\ (i - 1) + 1 = i /\ ~(i <= i - 1)
    BY <2>1
  <2> QED
    BY <1>1, <2>2
<1>3. /\ Eroded(S, i - 1) \in SUBSET Elements /\ Eroded(S, i) \in SUBSET Elements
      /\ \A x \in Eroded(S, i) : Neighbours({x}) \subseteq Eroded(S, i - 1)
  BY <1>2, OneLayer
<1>4. Neighbours(Eroded(S, i)) \subseteq Eroded(S, i - 1)
  BY <1>3 DEF Neighbours
<1>5. Hops(Eroded(S, i), i) = Hops(Neighbours(Eroded(S, i)), i - 1)
  BY <1>2, <1>3, HopsFromNeighbours
<1>6. Neighbours(Eroded(S, i)) \in SUBSET Elements
  BY <1>3, <1>4
<1>7. Hops(Neighbours(Eroded(S, i)), i - 1) \subseteq Hops(Eroded(S, i - 1), i - 1)
  BY <1>2, <1>3, <1>4, <1>6, HopsGrow
<1>8. Opened(S, i) \subseteq Opened(S, i - 1)
  BY <1>1, <1>2, <1>5, <1>7, OpenedIsReach
<1> QED
  BY <1>1, <1>2, <1>8

(* Of an opened mask, what hangs together with the seeds is open: each of  *)
(* the pieces it is made of lies on one side.                              *)
LEMMA KeptStaysOpen ==
  ASSUME NEW S \in SUBSET Elements, NEW n \in Nat, NEW seeds
  PROVE  LET A == KeepConnected(Opened(S, n), seeds) IN A \subseteq Opened(A, n)
<1> DEFINE B == Opened(S, n)
           X == Eroded(S, n)
           A == KeepConnected(B, seeds)
<1>1. X \in SUBSET Elements /\ B = Hops(X, n) /\ B \in SUBSET Elements
  BY OneLayer, OpenedIsReach
<1>2. A \subseteq B
  BY KeepOnlyRemoves
<1> HIDE DEF X, B
<1>3. ASSUME NEW e \in B, NEW t \in A, e \in Adjacency[t] \/ t \in Adjacency[e]
      PROVE  e \in A
  <2>1. e \in B \cap Elements /\ e \in Adjacency[t]
    BY <1>1, <1>2, <1>3, Touches
  <2> QED
    BY <2>1, KeepIsClosed
<1> HIDE DEF A
<1> DEFINE C == X \cap A
           Bad == {i \in Nat : i <= n /\ ~(/\ Hops(X, i) \subseteq B
                                           /\ Hops(X, i) \cap A \subseteq Hops(C, i)
                                           /\ Hops(C, i) \subseteq A)}
<1>4. C \in SUBSET Elements
  BY <1>1
<1>5. ASSUME NEW i \in Nat, i <= n PROVE Hops(X, i) \subseteq B
  <2> DEFINE Out == {k \in Nat : i <= k /\ k <= n /\ ~(Hops(X, i) \subseteq Hops(X, k))}
  <2>1. Out = {}
    <3> SUFFICES ASSUME Out # {} PROVE FALSE
      OBVIOUS
    <3>1. PICK k \in Out : \A j \in Out : k <= j
      <4>1. Out \in SUBSET Nat
        OBVIOUS
      <4> HIDE DEF Out
      <4> QED
        BY <4>1, FirstNumber
    <3>2. k \in Nat /\ i <= k /\ k # i /\ k <= n
      BY <3>1
    <3>3. k - 1 \in Nat /\ (k - 1) + 1 = k /\ i <= k - 1 /\ k - 1 <= n /\ ~(k <= k - 1)
      BY <1>5, <3>2
    <3>4. Hops(X, i) \subseteq Hops(X, k - 1)
      BY <3>1, <3>3
    <3>5. Hops(X, k) = Neighbours(Hops(X, k - 1)) /\ Hops(X, k - 1) \in SUBSET Elements
      BY <1>1, <3>3, OneHop
    <3>6. Hops(X, k - 1) \subseteq Hops(X, k)
      BY <3>5, NeighboursOf
    <3> QED
      BY <3>1, <3>4, <3>6
  <2>2. n \notin Out /\ n <= n
    BY <2>1
  <2> QED
    BY <1>1, <1>5, <2>2
<1>6. Bad = {}
  <2> SUFFICES ASSUME Bad # {} PROVE FALSE
    OBVIOUS
  <2>1. PICK i \in Bad : \A k \in Bad : i <= k
    <3>1. Bad \in SUBSET Nat
      OBVIOUS
    <3> HIDE DEF Bad
    <3> QED
      BY <3>1, FirstNumber
  <2>2. i # 0
    <3>1. Hops(X, 0) = X /\ Hops(C, 0) = C
      BY <1>1, <1>4, OneHop
    <3> QED
      BY <1>5, <2>1, <3>1
  <2>3. i - 1 \in Nat /\ (i - 1) + 1 = i /\ i - 1 <= n /\ ~(i <= i - 1)
    BY <2>1, <2>2
  <2>4. /\ Hops(X, i - 1) \cap A \subseteq Hops(C, i - 1)
        /\ Hops(C, i - 1) \subseteq A
    BY <2>1, <2>3
  <2>5. Hops(X, i - 1) \subseteq B /\ Hops(X, i) \subseteq B
    BY <1>5, <2>1, <2>3
  <2>6. /\ Hops(X, i - 1) \in SUBSET Elements /\ Hops(X, i) = Neighbours(Hops(X, i - 1))
        /\ Hops(C, i - 1) \in SUBSET Elements /\ Hops(C, i) = Neighbours(Hops(C, i - 1))
    <3> HIDE DEF C
    <3>1. /\ Hops(X, i - 1) \in SUBSET Elements
          /\ Hops(X, (i - 1) + 1) = Neighbours(Hops(X, i - 1))
      BY <1>1, <2>3, OneHop
    <3>2. /\ Hops(C, i - 1) \in SUBSET Elements
          /\ Hops(C, (i - 1) + 1) = Neighbours(Hops(C, i - 1))
      BY <1>4, <2>3, OneHop
    <3> QED
      BY <2>3, <3>1, <3>2
  <2> DEFINE near == Hops(X, i - 1)
             part == Hops(C, i - 1)
  <2>7. /\ \A e \in Elements : e \in Neighbours(near) <=> \E t \in near : e \in Adjacency[t]
        /\ \A e \in Elements : e \in Neighbours(part) <=> \E t \in part : e \in Adjacency[t]
    <3>1. near \in SUBSET Elements /\ part \in SUBSET Elements
      BY <2>6
    <3> HIDE DEF near, part
    <3> QED
      BY <3>1, NeighboursOf
  <2>8. ASSUME NEW e \in Hops(X, i) \cap A PROVE e \in Hops(C, i)
    <3>1. e \in Elements
      BY <1>1, <1>2
    <3>2. PICK y \in Hops(X, i - 1) : e \in Adjacency[y]
      BY <2>6, <2>8, <2>7, <3>1
    <3>3. y \in A
      BY <1>3, <2>5, <2>8, <3>2
    <3> QED
      BY <2>4, <2>6, <2>7, <3>1, <3>2, <3>3
  <2>9. ASSUME NEW e \in Hops(C, i) PROVE e \in A
    <3>1. C \subseteq X /\ i \in Nat
      BY <2>1
    <3>2. e \in B
      BY <1>1, <1>4, <2>5, <2>9, <3>1, HopsGrow
    <3>3. e \in Elements
      BY <1>1, <3>2
    <3>4. PICK y \in Hops(C, i - 1) : e \in Adjacency[y]
      BY <2>6, <2>9, <2>7, <3>3
    <3> QED
      BY <1>3, <2>4, <3>2, <3>4
  <2> QED
    BY <2>1, <2>5, <2>8, <2>9
<1>7. Hops(X, n) \cap A \subseteq Hops(C, n) /\ Hops(C, n) \subseteq A
  <2>1. n \notin Bad
    BY <1>6
  <2> HIDE DEF C
  <2> QED
    BY <2>1
<1>8. A \in SUBSET Elements
  BY <1>1, <1>2
<1>9. C \subseteq Eroded(A, n) /\ Eroded(A, n) \in SUBSET Elements
  BY <1>4, <1>7, <1>8, ErodedHolds, OneLayer
<1>10. Hops(C, n) \subseteq Hops(Eroded(A, n), n)
  BY <1>4, <1>9, HopsGrow
<1>11. A \subseteq Opened(A, n)
  BY <1>1, <1>2, <1>7, <1>8, <1>10, OpenedIsReach
<1> QED
  BY <1>11 DEF A, B

(* The granulometry: all members of a nonempty mask have n layers exactly  *)
(* when opening it by n layers takes nothing away.                         *)
LEMMA SizesAre ==
  ASSUME NEW S \in SUBSET Elements, S # {}, NEW n \in 1..Cardinality(Elements)
  PROVE  /\ ThinnestMember(S) \in Int
         /\ ThinnestMember(S) >= n <=> S \subseteq Opened(S, n)
<1> DEFINE cap == Cardinality(Elements)
           IsStop(m) == /\ m = cap + 1 \/ Opened(S, m) = {}
                        /\ \A k \in 1..m - 1 : Opened(S, k) # {}
           stop == CHOOSE m \in 1..cap + 1 : IsStop(m)
           Sizes(e) == {0} \cup {m \in 1..stop - 1 : e \in Opened(S, m)}
<1>1. cap \in Nat /\ n \in 1..cap
  BY MeshAssumption, FS_CardinalityType
<1> HIDE DEF cap
<1>2. stop \in 1..cap + 1 /\ IsStop(stop)
  <2> DEFINE Ends == {m \in 1..cap + 1 : m = cap + 1 \/ Opened(S, m) = {}}
  <2>1. Ends \in SUBSET Nat /\ cap + 1 \in Ends
    BY <1>1
  <2>2. PICK m \in Ends : \A k \in Ends : m <= k
    <3> HIDE DEF Ends
    <3> QED
      BY <2>1, FirstNumber
  <2>3. \A k \in 1..m - 1 : Opened(S, k) # {}
    <3> SUFFICES ASSUME NEW k \in 1..m - 1, Opened(S, k) = {} PROVE FALSE
      OBVIOUS
    <3>1. k \in 1..cap + 1 /\ ~(m <= k)
      BY <1>1, <2>2
    <3> QED
      BY <2>2, <3>1
  <2>4. m \in 1..cap + 1 /\ IsStop(m)
    BY <2>2, <2>3
  <2> HIDE DEF IsStop
  <2> QED
    BY <2>4
<1>3. \A e \in S : MemberSize(S, e) = Max(Sizes(e))
  BY DEF MemberSize, cap
<1> HIDE DEF stop
<1>4. stop \in Nat /\ n \in Nat
  BY <1>1, <1>2
<1>5. ASSUME NEW e \in S
      PROVE  /\ MemberSize(S, e) \in Sizes(e) /\ MemberSize(S, e) \in Nat
             /\ \A m \in Sizes(e) : MemberSize(S, e) >= m
  <2>1. Sizes(e) \subseteq 0..stop /\ 0 \in Sizes(e)
    BY <1>4
  <2>2. IsFiniteSet(0..stop)
    BY <1>4, FS_Interval
  <2>3. \A m \in Sizes(e) : m \in Int
    BY <2>1, <1>4
  <2> HIDE DEF Sizes
  <2>4. IsFiniteSet(Sizes(e))
    BY <2>1, <2>2, FS_Subset
  <2>5. Max(Sizes(e)) \in Sizes(e) /\ \A m \in Sizes(e) : Max(Sizes(e)) >= m
    BY <2>1, <2>3, <2>4, FiniteExtremes
  <2> QED
    BY <1>3, <2>1, <2>5
<1>6. (\A e \in S : MemberSize(S, e) >= n) <=> S \subseteq Opened(S, n)
  <2>1. ASSUME S \subseteq Opened(S, n), NEW e \in S PROVE MemberSize(S, e) >= n
    <3>1. n < stop
      <4> SUFFICES ASSUME stop <= n PROVE FALSE
        BY <1>4
      <4>1. stop \in 0..n /\ stop # cap + 1
        BY <1>1, <1>4
      <4>2. Opened(S, stop) = {} /\ Opened(S, n) \subseteq Opened(S, stop)
        BY <1>2, <1>4, <4>1, OpenedShrinks
      <4> QED
        BY <2>1, <4>2
    <3>2. n \in Sizes(e)
      BY <1>1, <1>4, <2>1, <3>1
    <3> QED
      BY <1>5, <3>2
  <2>2. ASSUME NEW e \in S, MemberSize(S, e) >= n PROVE e \in Opened(S, n)
    <3> DEFINE m == MemberSize(S, e)
    <3>1. m \in Sizes(e) /\ m \in Nat /\ m >= n /\ n >= 1
      BY <1>1, <1>5, <2>2
    <3> HIDE DEF m
    <3>2. e \in Opened(S, m) /\ n \in 0..m
      BY <1>4, <3>1
    <3> QED
      BY <3>1, <3>2, OpenedShrinks
  <2> QED
    BY <2>1, <2>2
<1>7. /\ ThinnestMember(S) \in Int
      /\ ThinnestMember(S) >= n <=> \A e \in S : MemberSize(S, e) >= n
  <2> DEFINE w == [e \in S |-> MemberSize(S, e)]
             T == {w[e] : e \in S}
  <2>1. IsFiniteSet(S) /\ \A e \in S : w[e] \in Int
    <3>1. IsFiniteSet(S)
      BY MeshAssumption, FS_Subset
    <3>2. \A e \in S : MemberSize(S, e) \in Int
      BY <1>5
    <3> QED
      BY <3>1, <3>2
  <2>2. IsFiniteSet(T) /\ T # {} /\ \A x \in T : x \in Int
    BY <2>1, ImageIsFinite
  <2>3. T = {MemberSize(S, e) : e \in S}
    OBVIOUS
  <2>4. ThinnestMember(S) = Min(T)
    BY <2>3 DEF ThinnestMember
  <2>5. \A x \in T : \E e \in S : x = MemberSize(S, e)
    OBVIOUS
  <2>6. \A e \in S : MemberSize(S, e) \in T
    OBVIOUS
  <2> HIDE DEF T
  <2>7. Min(T) \in T /\ \A x \in T : Min(T) <= x
    BY <2>2, FiniteExtremes
  <2> QED
    BY <1>4, <1>5, <2>2, <2>4, <2>5, <2>6, <2>7
<1> QED
  BY <1>6, <1>7

(* What lies within reach of the void is no thicker than that.             *)
LEMMA NoneTooThick ==
  ASSUME NEW S \in SUBSET Elements, NEW n \in Nat \ {0},
         S \subseteq Hops(Elements \ S, n)
  PROVE  ThickestMember(S) \in Int /\ ThickestMember(S) <= n
<1> DEFINE cap == Cardinality(Elements)
           near(e) == {k \in 1..cap : e \in Hops(Elements \ S, k)}
<1>1. cap \in Nat
  BY MeshAssumption, FS_CardinalityType
<1> HIDE DEF cap
<1>2. ASSUME NEW e \in S PROVE Depth(S, e) \in Int /\ Depth(S, e) <= n
  <2>1. Depth(S, e) = IF near(e) = {} THEN cap ELSE Min(near(e))
    BY DEF Depth, cap
  <2>2. near(e) \subseteq 1..cap /\ IsFiniteSet(1..cap)
    BY <1>1, FS_Interval
  <2>3. IsFiniteSet(near(e)) /\ \A k \in near(e) : k \in Int /\ k <= cap
    BY <1>1, <2>2, FS_Subset
  <2>4. n <= cap => n \in near(e)
    BY <1>1, <1>2
  <2> HIDE DEF near
  <2>5. near(e) # {} => /\ Min(near(e)) \in near(e)
                       /\ \A k \in near(e) : Min(near(e)) <= k
    BY <2>3, FiniteExtremes
  <2> QED
    BY <1>1, <2>1, <2>3, <2>4, <2>5
<1>3. CASE S = {}
  BY <1>3 DEF ThickestMember
<1>4. CASE S # {}
  <2> DEFINE w == [e \in S |-> Depth(S, e)]
             T == {w[e] : e \in S}
  <2>1. IsFiniteSet(S) /\ \A e \in S : w[e] \in Int
    BY <1>2, MeshAssumption, FS_Subset
  <2>2. IsFiniteSet(T) /\ T # {} /\ \A x \in T : x \in Int /\ x <= n
    BY <1>2, <1>4, <2>1, ImageIsFinite
  <2>3. T = {Depth(S, e) : e \in S}
    OBVIOUS
  <2>4. ThickestMember(S) = Max(T)
    BY <1>4, <2>3 DEF ThickestMember
  <2> HIDE DEF T
  <2>5. Max(T) \in T
    BY <2>2, FiniteExtremes
  <2> QED
    BY <2>2, <2>4, <2>5
<1> QED
  BY <1>3, <1>4

-----------------------------------------------------------------------------
(* What each constraint establishes, and what island removal leaves of it. *)

(* What touches something kept is kept.                                    *)
LEMMA KeptTouching ==
  ASSUME NEW S \in SUBSET Elements, NEW seeds, NEW t \in KeepConnected(S, seeds),
         NEW e \in S, e \in Adjacency[t] \/ t \in Adjacency[e]
  PROVE  e \in KeepConnected(S, seeds)
<1>1. t \in Elements /\ e \in S \cap Elements
  BY KeepOnlyRemoves
<1>2. e \in Adjacency[t]
  BY <1>1, Touches
<1> QED
  BY <1>1, <1>2, KeepIsClosed

(* A mirrored mask stays so.                                               *)
LEMMA KeptStaysMirrored ==
  ASSUME MirrorTouches, NEW S \in SUBSET Elements, IsMirrored(S), NEW seeds, IsMirrored(seeds)
  PROVE  IsMirrored(KeepConnected(S, seeds))
<1> SUFFICES ASSUME NEW e \in KeepConnected(S, seeds),
                    NEW T \in ClosedAround(S, seeds)
             PROVE  Mirror[e] \in T
  <2>1. \A e \in KeepConnected(S, seeds) : Mirror[e] \in S \cap Elements
    BY KeepOnlyRemoves DEF IsMirrored
  <2> QED
    BY <2>1 DEF IsMirrored, KeepConnected
<1> DEFINE U == {x \in S : Mirror[x] \in T}
<1>1. T \subseteq S /\ \A x \in S : x \in seeds \cup Neighbours(T) => x \in T
  BY DEF ClosedAround
<1>2. ASSUME NEW x \in S, x \in seeds \cup Neighbours(U) PROVE x \in U
  <2>1. Mirror[x] \in S
    BY DEF IsMirrored
  <2>2. CASE x \in seeds
    BY <1>1, <2>1, <2>2 DEF IsMirrored
  <2>3. CASE x \in Neighbours(U)
    <3>1. PICK u \in U : x \in Adjacency[u]
      BY <2>3 DEF Neighbours
    <3>2. Mirror[x] \in Adjacency[Mirror[u]] /\ Mirror[u] \in T
      BY <3>1 DEF MirrorTouches
    <3>3. Mirror[x] \in Neighbours(T)
      BY <3>2 DEF Neighbours
    <3> QED
      BY <1>1, <2>1, <3>3
  <2> QED
    BY <1>2, <2>2, <2>3
<1>3. U \in ClosedAround(S, seeds)
  BY <1>2 DEF ClosedAround
<1> QED
  BY <1>3 DEF KeepConnected

(* A symmetrized mask is mirrored.                                         *)
LEMMA SymmetrizedIsMirrored ==
  ASSUME NEW S \in SUBSET Elements
  PROVE  IsMirrored(Symmetrize(S)) /\ Symmetrize(S) \in SUBSET Elements
  BY GeometryAssumption DEF Symmetrize, IsMirrored

(* The columns of a drawn mask: one run each, at the foot if the die is    *)
(* single-sided.                                                           *)
DrawnFrom(S, twoSided, col, lo, hi) ==
  /\ lo \in Nat \ {0} /\ hi \in Nat /\ (twoSided \/ lo = 1)
  /\ \A i \in DOMAIN col : col[i] \in S <=> i \in lo..hi

LEMMA DrawnColumn ==
  ASSUME NEW S \in SUBSET Elements, NEW twoSided \in BOOLEAN, NEW col \in Columns
  PROVE  \E lo, hi : DrawnFrom(Draw(S, twoSided), twoSided, col, lo, hi)
<1>1. /\ col \in Seq(Elements) /\ DOMAIN col = 1..Len(col) /\ Len(col) \in Nat
      /\ \A c \in Columns : DOMAIN c = 1..Len(c) /\ Len(c) \in Nat
  BY GeometryAssumption, LenProperties
<1>2. ASSUME NEW c \in Columns, NEW x \in Drawn(c, S, twoSided)
      PROVE  \E j \in DOMAIN c : x = c[j]
  <2>1. CASE twoSided
    <3>1. CASE Runs(c, S) = {}
      BY <1>2, <2>1, <3>1 DEF Drawn
    <3>2. CASE Runs(c, S) # {}
      <4>1. PICK r : r = LargestRun(c, S)
        OBVIOUS
      <4>2. r \in Runs(c, S)
        BY <3>2, <4>1, GeometryAssumption, LargestRunExists
      <4>3. r[1] \in DOMAIN c /\ r[2] \in DOMAIN c
        BY <4>2 DEF Runs
      <4>4. PICK j \in r[1]..r[2] : x = c[j]
        BY <1>2, <2>1, <3>2, <4>1 DEF Drawn
      <4> QED
        BY <1>1, <4>3, <4>4
    <3> QED
      BY <3>1, <3>2
  <2>2. CASE ~twoSided
    BY <1>2, <2>2 DEF Drawn
  <2> QED
    BY <2>1, <2>2
<1>3. ASSUME NEW i \in DOMAIN col
      PROVE  col[i] \in Draw(S, twoSided) <=> col[i] \in Drawn(col, S, twoSided)
  <2>1. ASSUME col[i] \in Draw(S, twoSided) PROVE col[i] \in Drawn(col, S, twoSided)
    <3>1. PICK c \in Columns : col[i] \in Drawn(c, S, twoSided)
      BY <2>1 DEF Draw
    <3>2. PICK j \in DOMAIN c : col[i] = c[j]
      BY <1>2, <3>1
    <3>3. col = c
      BY <3>2, GeometryAssumption
    <3> QED
      BY <3>1, <3>3
  <2> QED
    BY <2>1 DEF Draw
<1>4. \A i, j \in DOMAIN col : col[i] = col[j] => i = j
  BY GeometryAssumption
<1>5. CASE twoSided
  <2>1. CASE Runs(col, S) = {}
    <3>1. Drawn(col, S, twoSided) = {}
      BY <1>5, <2>1 DEF Drawn
    <3>2. \A i \in DOMAIN col : col[i] \in Draw(S, twoSided) <=> i \in 1..0
      BY <1>3, <3>1
    <3>3. \E lo, hi : DrawnFrom(Draw(S, twoSided), twoSided, col, lo, hi)
      <4>1. 1 \in Nat \ {0} /\ 0 \in Nat
        OBVIOUS
      <4> DEFINE lo == 1
                 hi == 0
      <4>2. lo \in Nat \ {0} /\ hi \in Nat /\ lo = 1
        BY <4>1
      <4>3. \A i \in DOMAIN col : col[i] \in Draw(S, twoSided) <=> i \in lo..hi
        BY <3>2
      <4> HIDE DEF lo, hi
      <4> QED
        BY <4>2, <4>3 DEF DrawnFrom
    <3> QED
      BY <3>3
  <2>2. CASE Runs(col, S) # {}
    <3>1. PICK r : r = LargestRun(col, S)
      OBVIOUS
    <3>2. r \in Runs(col, S)
      BY <1>1, <2>2, <3>1, LargestRunExists
    <3>3. r[1] \in 1..Len(col) /\ r[2] \in 1..Len(col)
      BY <1>1, <3>2 DEF Runs
    <3>4. Drawn(col, S, twoSided) = {col[i] : i \in r[1]..r[2]}
      BY <1>5, <2>2, <3>1 DEF Drawn
    <3>5. r[1]..r[2] \subseteq DOMAIN col
      BY <1>1, <3>3
    <3>6. \A i \in DOMAIN col : col[i] \in Drawn(col, S, twoSided) <=> i \in r[1]..r[2]
      BY <1>4, <3>4, <3>5
    <3>7. \A i \in DOMAIN col : col[i] \in Draw(S, twoSided) <=> i \in r[1]..r[2]
      BY <1>3, <3>6
    <3>8. r[1] \in Nat \ {0} /\ r[2] \in Nat
      BY <1>1, <3>3
    <3>9. DrawnFrom(Draw(S, twoSided), twoSided, col, r[1], r[2])
      BY <1>5, <3>7, <3>8 DEF DrawnFrom
    <3> QED
      BY <3>9
  <2> QED
    BY <2>1, <2>2
<1>6. CASE ~twoSided
  <2> DEFINE Foot == {j \in DOMAIN col : \A h \in 1..j : col[h] \in S}
             Gaps == {j \in 1..Len(col) + 1 : j = Len(col) + 1 \/ col[j] \notin S}
  <2>1. Gaps \in SUBSET Nat /\ Len(col) + 1 \in Gaps
    BY <1>1
  <2>2. PICK g \in Gaps : \A k \in Gaps : g <= k
    <3> HIDE DEF Gaps
    <3> QED
      BY <2>1, FirstNumber
  <2>3. ASSUME NEW j \in DOMAIN col PROVE j \in Foot <=> j \in 1..g - 1
    <3>1. ASSUME j \in 1..g - 1, NEW h \in 1..j PROVE col[h] \in S
      <4>1. h \in 1..Len(col) + 1 /\ ~(g <= h)
        BY <1>1, <2>2, <2>3, <3>1
      <4> QED
        BY <1>1, <2>2, <4>1
    <3>2. ASSUME j \in Foot, j \notin 1..g - 1 PROVE FALSE
      <4>1. g \in 1..j /\ g # Len(col) + 1
        BY <1>1, <2>2, <2>3, <3>2
      <4> QED
        BY <2>2, <3>2, <4>1
    <3> QED
      BY <2>3, <3>1, <3>2
  <2>4. Drawn(col, S, twoSided) = {col[i] : i \in Foot}
    BY <1>6 DEF Drawn
  <2>5. Foot \subseteq DOMAIN col
    OBVIOUS
  <2> HIDE DEF Foot
  <2>6. \A i \in DOMAIN col : col[i] \in Drawn(col, S, twoSided) <=> i \in Foot
    BY <1>4, <2>4, <2>5
  <2>7. g - 1 \in Nat
    BY <1>1, <2>2
  <2>8. DrawnFrom(Draw(S, twoSided), twoSided, col, 1, g - 1)
    BY <1>3, <2>3, <2>6, <2>7 DEF DrawnFrom
  <2> QED
    BY <2>8
<1> QED
  BY <1>5, <1>6

(* Island removal leaves no undercut in what was drawn.                    *)
LEMMA KeptHasNoUndercut ==
  ASSUME ColumnsTouch, NEW S \in SUBSET Elements, NEW twoSided \in BOOLEAN, NEW seeds
  PROVE  Undercut(KeepConnected(Draw(S, twoSided), seeds), twoSided) = {}
<1> DEFINE M == Draw(S, twoSided)
           A == KeepConnected(M, seeds)
<1>1. M \in SUBSET Elements /\ A \subseteq M
  BY DrawOnlyRemoves, KeepOnlyRemoves
<1>2. ASSUME NEW t \in A, NEW e \in M, e \in Adjacency[t] PROVE e \in A
  BY <1>1, <1>2, KeptTouching
<1> HIDE DEF A
<1> SUFFICES ASSUME NEW col \in Columns
             PROVE  /\ twoSided => ~(Cardinality(RunStarts(col, A)) > 1)
                    /\ ~twoSided => RunStarts(col, A) \ {1} = {}
  BY DEF Undercut, A
<1>3. PICK lo, hi : DrawnFrom(M, twoSided, col, lo, hi)
  BY DrawnColumn
<1>4. DOMAIN col = 1..Len(col) /\ Len(col) \in Nat
  BY GeometryAssumption, LenProperties
<1> HIDE DEF M
<1>5. ASSUME NEW i \in RunStarts(col, A) PROVE i = lo
  <2>1. i \in 1..Len(col) /\ col[i] \in A /\ (i = 1 \/ col[i - 1] \notin A)
    BY <1>4 DEF RunStarts
  <2>2. i \in lo..hi /\ lo \in Nat \ {0} /\ hi \in Nat
    BY <1>1, <1>3, <1>4, <2>1 DEF DrawnFrom
  <2> SUFFICES ASSUME i # lo PROVE FALSE
    OBVIOUS
  <2>3. i - 1 \in lo..hi /\ i - 1 \in 1..Len(col) /\ i \in 2..Len(col)
    BY <2>1, <2>2
  <2>4. col[i - 1] \in M
    BY <1>3, <1>4, <2>3 DEF DrawnFrom
  <2>5. col[i - 1] \in Adjacency[col[i]]
    BY <2>3 DEF ColumnsTouch
  <2> QED
    BY <1>2, <2>1, <2>3, <2>4, <2>5
<1>6. Cardinality(RunStarts(col, A)) <= 1
  <2>1. Cardinality({lo}) = 1 /\ IsFiniteSet({lo}) /\ RunStarts(col, A) \subseteq {lo}
    BY <1>5, FS_Singleton
  <2>2. /\ Cardinality(RunStarts(col, A)) <= Cardinality({lo})
    BY <2>1, FS_Subset
  <2> QED
    BY <2>1, <2>2
<1>7. Cardinality(RunStarts(col, A)) \in Nat
  <2>1. RunStarts(col, A) \subseteq {lo} /\ IsFiniteSet({lo})
    BY <1>5, FS_Singleton
  <2> QED
    BY <2>1, FS_Subset, FS_CardinalityType
<1>8. ~twoSided => lo = 1
  BY <1>3 DEF DrawnFrom
<1> QED
  BY <1>5, <1>6, <1>7, <1>8

(* Nor does it split a prism.                                              *)
LEMMA KeptHasWholePrisms ==
  ASSUME PrismsTouch, NEW S, NEW seeds
  PROVE  Uneven(KeepConnected(Extrude(S), seeds)) = {}
<1> DEFINE M == Extrude(S)
           A == KeepConnected(M, seeds)
<1>1. M \in SUBSET Elements /\ A \subseteq M
  <2>1. \A p \in Prisms : p \subseteq Elements
    BY GeometryAssumption
  <2>2. M \in SUBSET Elements
    BY <2>1 DEF Extrude
  <2> QED
    BY <2>2, KeepOnlyRemoves
<1>2. ASSUME NEW t \in A, NEW e \in M, e \in Adjacency[t] PROVE e \in A
  BY <1>1, <1>2, KeptTouching
<1>3. ASSUME NEW p \in Prisms, p \cap M # {} PROVE p \subseteq M
  <2>1. PICK x \in p \cap M : TRUE
    BY <1>3
  <2>2. PICK q \in Prisms : x \in q /\ q \subseteq M
    BY <2>1 DEF Extrude
  <2> QED
    BY <2>1, <2>2, GeometryAssumption
<1> HIDE DEF M
<1> HIDE DEF A
<1>4. ASSUME NEW p \in Prisms, p \cap A # {} PROVE p \subseteq A
  <2>1. p \subseteq M
    BY <1>1, <1>3, <1>4
  <2> DEFINE T == p \cap A
  <2>2. p \cap Neighbours(T) \subseteq T
    BY <1>2, <2>1 DEF Neighbours
  <2>3. T = p
    BY <1>4, <2>2 DEF PrismsTouch
  <2> QED
    BY <2>3
<1> QED
  BY <1>4 DEF Uneven, A, M

(* What has self-support: supported by its own rule, however the chains of *)
(* support run.                                                            *)
LEMMA SupportIsSupported ==
  ASSUME NEW S \in SUBSET Elements, NEW prot
  PROVE  LET plate == Min({Height[e] : e \in IF S = {} THEN Elements ELSE S})
             R     == SelfSupport(S, prot)
         IN  /\ R \subseteq S /\ S \cap prot \subseteq R
             /\ \A e \in R : e \in prot \/ Height[e] <= plate + 1 \/ Cone[e] \cap R # {}
<1> DEFINE plate == Min({Height[e] : e \in IF S = {} THEN Elements ELSE S})
           Held(e, U) == e \in prot \/ Height[e] <= plate + 1 \/ Cone[e] \cap U # {}
           Is(s) == s = [e \in Elements |-> /\ e \in S
                                            /\ \/ e \in prot
                                               \/ Height[e] <= plate + 1
                                               \/ \E below \in Cone[e] : s[below]]
           supported == CHOOSE s : Is(s)
           Closed == {U \in SUBSET S : \A e \in S : Held(e, U) => e \in U}
           R == {e \in S : \A U \in Closed : e \in U}
           Least == [e \in Elements |-> e \in R]
<1>1. ASSUME NEW e \in Elements PROVE Cone[e] \subseteq Elements
  BY GeometryAssumption
<1> HIDE DEF plate
<1>2. R \in Closed
  OBVIOUS
<1>3. ASSUME NEW e \in R PROVE Held(e, R)
  <2> SUFFICES ASSUME ~Held(e, R) PROVE FALSE
    OBVIOUS
  <2>1. R \ {e} \in Closed
    <3>1. ASSUME NEW f \in S, Held(f, R \ {e}) PROVE f \in R \ {e}
      <4>1. Held(f, R)
        BY <3>1
      <4> QED
        BY <1>2, <4>1
    <3> QED
      BY <3>1
  <2> QED
    BY <2>1
<1>4. \A e \in Elements : e \in R <=> e \in S /\ Held(e, R)
  BY <1>2, <1>3
<1> HIDE DEF R
<1>5. Is(Least)
  <2>1. ASSUME NEW e \in Elements
        PROVE  (e \in R) = (/\ e \in S
                            /\ \/ e \in prot
                               \/ Height[e] <= plate + 1
                               \/ \E below \in Cone[e] : Least[below])
    <3>1. (\E below \in Cone[e] : Least[below]) <=> Cone[e] \cap R # {}
      BY <1>1
    <3>2. Held(e, R) <=> \/ e \in prot
                         \/ Height[e] <= plate + 1
                         \/ \E below \in Cone[e] : Least[below]
      BY <3>1
    <3>3. e \in R <=> e \in S /\ Held(e, R)
      BY <1>4
    <3> DEFINE Rests == \/ e \in prot
                        \/ Height[e] <= plate + 1
                        \/ \E below \in Cone[e] : Least[below]
    <3>4. e \in R <=> e \in S /\ Rests
      BY <3>2, <3>3
    <3> HIDE DEF Rests
    <3>5. (e \in R) = (e \in S /\ Rests)
      BY <3>4
    <3> QED
      BY <3>5 DEF Rests
  <2> HIDE DEF R
  <2>2. Least = [e \in Elements |-> e \in R]
    OBVIOUS
  <2> QED
    BY <2>1, Zenon
<1>6. Is(supported)
  <2> HIDE DEF Is
  <2> QED
    BY <1>5
<1>7. SelfSupport(S, prot) = {e \in S : supported[e]}
  BY DEF SelfSupport, plate
<1> HIDE DEF supported
<1>8. \A e \in Elements : supported[e] <=> /\ e \in S
                                           /\ \/ e \in prot
                                              \/ Height[e] <= plate + 1
                                              \/ \E below \in Cone[e] : supported[below]
  BY <1>6
<1> DEFINE Q == {e \in S : supported[e]}
<1>9. ASSUME NEW e \in Q PROVE Held(e, Q)
  <2>1. e \in Elements /\ Cone[e] \subseteq Elements
    BY <1>1
  <2>2. \A below \in Cone[e] : supported[below] => below \in Q
    BY <1>8, <2>1
  <2> QED
    BY <1>8, <2>1, <2>2
<1>10. S \cap prot \subseteq Q
  BY <1>8
<1> QED
  BY <1>7, <1>9, <1>10 DEF plate

(* What overhangs nothing overhangs nothing without its islands.           *)
LEMMA KeptHasSupport ==
  ASSUME ConesTouch, NEW S \in SUBSET Elements, NEW prot \in SUBSET Elements, prot \subseteq S,
         NEW seeds
  PROVE  LET A == KeepConnected(SelfSupport(S, prot) \cup prot, seeds)
         IN  A # {} => Unsupported(A, prot) = {}
<1> DEFINE M == SelfSupport(S, prot) \cup prot
           A == KeepConnected(M, seeds)
           plate == Min({Height[e] : e \in IF S = {} THEN Elements ELSE S})
           foot == Min({Height[e] : e \in A})
<1>1. /\ M = SelfSupport(S, prot) /\ M \subseteq S
      /\ \A e \in M : e \in prot \/ Height[e] <= plate + 1 \/ Cone[e] \cap M # {}
  <2> DEFINE R == SelfSupport(S, prot)
  <2>1. /\ R \subseteq S /\ S \cap prot \subseteq R
        /\ \A e \in R : e \in prot \/ Height[e] <= plate + 1 \/ Cone[e] \cap R # {}
    BY SupportIsSupported
  <2> HIDE DEF R, plate
  <2>2. R \cup prot = R
    BY <2>1
  <2>3. M = R
    BY <2>2 DEF R
  <2> QED
    BY <2>1, <2>3 DEF R
<1>2. M \in SUBSET Elements /\ A \subseteq M
  BY <1>1, KeepOnlyRemoves
<1>3. ASSUME NEW t \in A, NEW e \in M, e \in Adjacency[t] PROVE e \in A
  BY <1>2, <1>3, KeptTouching
<1> HIDE DEF A, M
<1> SUFFICES ASSUME A # {}, NEW e \in A, e \notin prot, Height[e] > foot + 1,
                    Cone[e] \cap A = {}
             PROVE  FALSE
  BY DEF Unsupported, A, M
<1>4. S # {} /\ e \in S /\ e \in M /\ e \in Elements
  BY <1>1, <1>2
<1>5. plate \in Int /\ foot \in Int /\ plate <= foot /\ Height[e] \in Int
  <2>1. IsFiniteSet(S) /\ IsFiniteSet(A) /\ A \subseteq S
    BY <1>1, <1>2, MeshAssumption, FS_Subset
  <2>2. \A x \in S : Height[x] \in Int
    BY GeometryAssumption
  <2>3. plate \in Int /\ \A x \in S : plate <= Height[x]
    BY <1>4, <2>1, <2>2, ExtremesOfValues
  <2>4. \E x \in A : foot = Height[x]
    <3> DEFINE T == {Height[x] : x \in A}
    <3>1. IsFiniteSet(T) /\ T # {} /\ \A y \in T : y \in Int
      BY <2>1, <2>2, ImageIsFinite
    <3>2. Min(T) \in T
      <4> HIDE DEF T
      <4> QED
        BY <3>1, FiniteExtremes
    <3> QED
      BY <3>2
  <2> HIDE DEF plate, foot
  <2> QED
    BY <1>4, <2>1, <2>2, <2>3, <2>4
<1> HIDE DEF plate, foot
<1>6. Cone[e] \cap M # {}
  BY <1>1, <1>4, <1>5
<1>7. PICK below \in Cone[e] \cap M : below \in Adjacency[e]
  BY <1>4, <1>6 DEF ConesTouch
<1> QED
  BY <1>3, <1>7

-----------------------------------------------------------------------------
(* The constraints one after the other: the size filters take away, and    *)
(* never a protected element; the later ones start from a mask of elements.*)
Mirrored(S, prot, rank, opts) ==
  IF opts.mirror THEN Symmetrize(Sized(S, prot, rank, opts)) ELSE Sized(S, prot, rank, opts)

LEMMA SizedWithin ==
  ASSUME NEW rank \in [Elements -> Int], NEW S \in SUBSET Elements,
         NEW prot \in SUBSET S, NEW opts
  PROVE  /\ Sized(S, prot, rank, opts) \subseteq S
         /\ prot \subseteq Sized(S, prot, rank, opts)
         /\ Mirrored(S, prot, rank, opts) \in SUBSET Elements
         /\ prot \subseteq Mirrored(S, prot, rank, opts)
<1> DEFINE opened == IF opts.minLayers > 0 THEN Open(S, opts.minLayers, prot) ELSE S
           sized == Sized(S, prot, rank, opts)
<1>1. opened \subseteq S /\ prot \subseteq opened
  BY DEF Open
<1>2. sized = IF opts.maxLayers > 0 THEN MaxMember(opened, opts.maxLayers, prot, rank)
              ELSE opened
  BY DEF Sized
<1> HIDE DEF opened, sized
<1>3. sized \subseteq S /\ prot \subseteq sized
  BY <1>1, <1>2, MaxMemberThins
<1>4. sized \subseteq Symmetrize(sized) /\ Symmetrize(sized) \in SUBSET Elements
  BY <1>3, SymmetrizedIsMirrored DEF Symmetrize
<1> QED
  BY <1>3, <1>4 DEF Mirrored, sized

(* The directional constraints add nothing but what extrusion fills.       *)
LEMMA DirectedWithin ==
  ASSUME NEW S \in SUBSET Elements, NEW prot, NEW opts
  PROVE  LET drawn    == IF opts.draw = "off" THEN S ELSE Draw(S, opts.draw = "two-sided")
             extruded == IF opts.extrude THEN Extrude(drawn) ELSE drawn
         IN  /\ drawn \in SUBSET Elements /\ extruded \in SUBSET Elements
             /\ ~opts.extrude => Directed(S, prot, opts) \subseteq S
<1> DEFINE drawn == IF opts.draw = "off" THEN S ELSE Draw(S, opts.draw = "two-sided")
           extruded == IF opts.extrude THEN Extrude(drawn) ELSE drawn
<1>1. drawn \subseteq S
  BY DrawOnlyRemoves
<1> HIDE DEF drawn
<1>2. Extrude(drawn) \in SUBSET Elements
  BY GeometryAssumption DEF Extrude
<1>3. extruded \in SUBSET Elements /\ (~opts.extrude => extruded \subseteq S)
  BY <1>1, <1>2
<1>4. Directed(S, prot, opts) = IF opts.overhang THEN SelfSupport(extruded, prot) ELSE extruded
  BY DEF Directed, drawn
<1> HIDE DEF extruded
<1>5. SelfSupport(extruded, prot) \subseteq extruded
  BY DEF SelfSupport
<1>6. ~opts.extrude => Directed(S, prot, opts) \subseteq S
  BY <1>3, <1>4, <1>5
<1> QED
  BY <1>1, <1>3, <1>6 DEF extruded, drawn

(* What the audit asks for, one constraint at a time, of the design that   *)
(* is left when the islands are gone.                                      *)
Made(S, prot, rank, opts, seeds) == KeepConnected(Manufactured(S, prot, rank, opts), seeds)

(* Minimum member size, alone: no member is thinner.                       *)
LEMMA MembersAreThick ==
  ASSUME NEW rank, NEW S \in SUBSET Elements, NEW opts, NEW seeds,
         opts.minLayers \in 1..Cardinality(Elements), ~(opts.maxLayers > 0), ~opts.mirror,
         opts.draw = "off", ~opts.extrude, ~opts.overhang,
         Made(S, {}, rank, opts, seeds) # {}
  PROVE  /\ ThinnestMember(Made(S, {}, rank, opts, seeds)) \in Int
         /\ ThinnestMember(Made(S, {}, rank, opts, seeds)) >= opts.minLayers
<1> DEFINE n == opts.minLayers
           A == Made(S, {}, rank, opts, seeds)
<1>1. n \in Nat /\ n > 0
  BY MeshAssumption, FS_CardinalityType
<1>2. Manufactured(S, {}, rank, opts) = Open(S, n, {})
  BY <1>1 DEF Manufactured, Directed, Sized
<1>3. A = KeepConnected(Opened(S, n), seeds)
  BY <1>1, <1>2, OpenIsOpened DEF Made
<1>4. A \in SUBSET Elements
  BY <1>3, KeepOnlyRemoves
<1>5. A \subseteq Opened(A, n)
  BY <1>1, <1>3, KeptStaysOpen
<1> QED
  BY <1>4, <1>5, SizesAre

(* Maximum member size, with nothing that adds material: what is left of   *)
(* the design, and of any part of it, is no thicker.                       *)
LEMMA MembersAreThin ==
  ASSUME NEW rank \in [Elements -> Int], NEW S \in SUBSET Elements, NEW opts, NEW seeds,
         opts.maxLayers \in Nat \ {0}, ~opts.mirror, ~opts.extrude,
         NEW A \in SUBSET Made(S, {}, rank, opts, seeds)
  PROVE  ThickestMember(A) \in Int /\ ThickestMember(A) <= opts.maxLayers
<1> DEFINE n == opts.maxLayers
           opened == IF opts.minLayers > 0 THEN Open(S, opts.minLayers, {}) ELSE S
           M == MaxMember(opened, n, {}, rank)
<1>1. opened \in SUBSET Elements
  BY DEF Open
<1>2. Sized(S, {}, rank, opts) = M
  BY DEF Sized
<1> HIDE DEF opened
<1>3. M \in SUBSET Elements /\ OverLimit(M, n, {}) = {}
  BY <1>1, MaxMemberThins
<1>4. Manufactured(S, {}, rank, opts) = Directed(M, {}, opts)
  BY <1>2 DEF Manufactured
<1> HIDE DEF M
<1>5. A \subseteq M
  BY <1>3, <1>4, DirectedWithin, KeepOnlyRemoves DEF Made
<1>6. M \subseteq Hops(Elements \ M, n)
  BY <1>3 DEF OverLimit
<1>7. Hops(Elements \ M, n) \subseteq Hops(Elements \ A, n)
  BY <1>5, HopsGrow
<1> QED
  BY <1>3, <1>5, <1>6, <1>7, NoneTooThick

(* Symmetry, with no directional constraint after it and protected         *)
(* elements, anchors and the held region mirrored themselves.              *)
LEMMA PartIsSymmetric ==
  ASSUME MirrorTouches, NEW rank \in [Elements -> Int], NEW S \in SUBSET Elements,
         NEW prot \in SUBSET S, NEW opts, NEW seeds, NEW void,
         opts.mirror, opts.draw = "off", ~opts.extrude, ~opts.overhang,
         IsMirrored(prot), IsMirrored(seeds), IsMirrored(void)
  PROVE  Asymmetric(Made(S, prot, rank, opts, seeds) \ void) = {}
<1> DEFINE sized == Sized(S, prot, rank, opts)
           M == Symmetrize(sized) \cup prot
           K == KeepConnected(M, seeds)
           A == K \ void
<1>1. Made(S, prot, rank, opts, seeds) = K
  BY DEF Made, Manufactured, Directed
<1>2. sized \in SUBSET Elements
  BY SizedWithin
<1> HIDE DEF sized
<1>3. M \in SUBSET Elements /\ IsMirrored(M)
  BY <1>2, SymmetrizedIsMirrored DEF IsMirrored
<1> HIDE DEF M
<1>4. IsMirrored(K) /\ K \subseteq Elements
  BY <1>3, KeptStaysMirrored, KeepOnlyRemoves
<1> HIDE DEF K
<1>5. \A e \in Elements : Mirror[Mirror[e]] = e /\ Mirror[e] \in Elements
  BY GeometryAssumption
<1>6. ASSUME NEW e \in A PROVE Mirror[e] \in A
  <2>1. Mirror[e] \in K
    BY <1>4 DEF IsMirrored
  <2>2. Mirror[e] \in void => e \in void
    BY <1>4, <1>5 DEF IsMirrored
  <2> QED
    BY <2>1, <2>2
<1>7. \A e \in Elements : Mirror[e] \in A => e \in A
  BY <1>5, <1>6
<1>8. \A e \in Elements : e \in A <=> Mirror[e] \in A
  BY <1>6, <1>7
<1> HIDE DEF A
<1>9. Asymmetric(A) = {}
  BY <1>8 DEF Asymmetric
<1> QED
  BY <1>1, <1>9 DEF A

(* Casting, as the last constraint: no undercut.                           *)
LEMMA PartIsDrawn ==
  ASSUME ColumnsTouch, NEW rank \in [Elements -> Int], NEW S \in SUBSET Elements,
         NEW opts, NEW seeds, opts.draw # "off", ~opts.extrude, ~opts.overhang
  PROVE  Undercut(Made(S, {}, rank, opts, seeds), opts.draw = "two-sided") = {}
<1> DEFINE M == Mirrored(S, {}, rank, opts)
           two == opts.draw = "two-sided"
<1>1. M \in SUBSET Elements
  BY SizedWithin
<1>2. Manufactured(S, {}, rank, opts) = Draw(M, two)
  BY DEF Manufactured, Directed, Mirrored
<1>3. two \in BOOLEAN
  OBVIOUS
<1> HIDE DEF M, two
<1>4. Undercut(Made(S, {}, rank, opts, seeds), two) = {}
  BY <1>1, <1>2, <1>3, KeptHasNoUndercut DEF Made
<1> QED
  BY <1>4 DEF two

(* Extrusion, as the last constraint: no prism is split.                   *)
LEMMA PartIsExtruded ==
  ASSUME PrismsTouch, NEW rank, NEW S, NEW opts, NEW seeds, opts.extrude, ~opts.overhang
  PROVE  Uneven(Made(S, {}, rank, opts, seeds)) = {}
<1>1. \E drawn : Manufactured(S, {}, rank, opts) = Extrude(drawn)
  BY DEF Manufactured, Directed
<1> QED
  BY <1>1, KeptHasWholePrisms DEF Made

(* Overhang, where the protected elements are in the mask it judges.       *)
LEMMA PartIsSupported ==
  ASSUME ConesTouch, NEW rank \in [Elements -> Int], NEW S \in SUBSET Elements,
         NEW prot \in SUBSET S, NEW opts, NEW seeds, opts.overhang,
         prot = {} \/ ~(opts.draw # "off" \/ opts.extrude),
         Made(S, prot, rank, opts, seeds) # {}
  PROVE  Unsupported(Made(S, prot, rank, opts, seeds), prot) = {}
<1> DEFINE M == Mirrored(S, prot, rank, opts)
           drawn == IF opts.draw = "off" THEN M ELSE Draw(M, opts.draw = "two-sided")
           X == IF opts.extrude THEN Extrude(drawn) ELSE drawn
<1>1. M \in SUBSET Elements /\ prot \subseteq M
  BY SizedWithin
<1>2. Manufactured(S, prot, rank, opts) = SelfSupport(X, prot) \cup prot
  BY DEF Manufactured, Directed, Mirrored
<1> HIDE DEF M
<1>3. X \in SUBSET Elements
  BY <1>1, DirectedWithin
<1>4. prot \subseteq X
  BY <1>1
<1> HIDE DEF X
<1> QED
  BY <1>2, <1>3, <1>4, KeptHasSupport DEF Made

-----------------------------------------------------------------------------
(* The audits of an updated design.                                        *)
Updated(p, S) ==
  \E design \in SUBSET Elements, field \in Fields :
    p.protected \subseteq design /\ S = HeldVoid(p, Shaped(p, design, field))

(* The manufacturing audit fails nothing that it should not.               *)
LEMMA UpdatedFails ==
  ASSUME NEW p \in Plans, NEW A, Updated(p, A), A # {}
  PROVE  Failed(A, p.protected, p.opts) \subseteq Excused(p)
<1> DEFINE prot == p.protected
           opts == p.opts
           void == p.blocked
           asked == {"min_member", "max_member", "symmetry", "draw", "extrusion", "overhang"}
<1>1. PICK design \in SUBSET Elements, field \in Fields :
        prot \subseteq design /\ A = Shaped(p, design, field) \ void
  BY DEF Updated, HeldVoid
<1>2. /\ field \in [Elements -> Int]
      /\ opts.minLayers \in Nat /\ opts.maxLayers \in Nat
      /\ Cardinality(Elements) \in Nat
  BY DesignAssumption, MeshAssumption, FS_CardinalityType
<1> DEFINE K == Made(design, prot, field, opts, p.anchor)
<1> HIDE DEF prot, opts, void
<1>3. SUFFICES ASSUME Active(opts) PROVE Failed(A, prot, opts) \subseteq Excused(p)
  <2>1. ~Active(opts) => Failed(A, prot, opts) = {}
    BY DEF Failed, Active
  <2> QED
    BY <1>3, <2>1 DEF prot, opts
<1>4. A = K \ void
  BY <1>1, <1>3 DEF Shaped, Made, prot, opts
<1>5. void = {} => A = K
  BY <1>4
<1>6. A \subseteq K /\ K \subseteq Elements
  BY <1>4, KeepOnlyRemoves DEF Made
<1> SUFFICES ASSUME NEW c \in Failed(A, prot, opts), c \notin Excused(p) PROVE FALSE
  OBVIOUS
<1>7. c \in asked
  BY DEF Failed
<1>8. CASE c = "min_member"
  <2>1. opts.minLayers > 0 /\ ThinnestMember(A) < opts.minLayers
    BY <1>8 DEF Failed
  <2>2. /\ prot = {} /\ void = {} /\ ~(opts.maxLayers > 0) /\ ~opts.mirror
        /\ opts.draw = "off" /\ ~opts.extrude /\ ~opts.overhang
        /\ ~(opts.minLayers > Cardinality(Elements))
    BY <1>8 DEF Excused, Directional, Cut, prot, void, opts
  <2>3. ThinnestMember(A) \in Int /\ ThinnestMember(A) >= opts.minLayers
    <3>1. opts.minLayers \in 1..Cardinality(Elements)
      BY <1>2, <2>1, <2>2
    <3> QED
      BY <1>5, <2>2, <3>1, MembersAreThick
  <2> QED
    BY <1>2, <2>1, <2>3
<1>9. CASE c = "max_member"
  <2>1. opts.maxLayers > 0 /\ ThickestMember(A) > opts.maxLayers
    BY <1>9 DEF Failed
  <2>2. prot = {} /\ ~opts.mirror /\ ~opts.extrude
    BY <1>9 DEF Excused, Regrown, prot, opts
  <2>3. ThickestMember(A) \in Int /\ ThickestMember(A) <= opts.maxLayers
    BY <1>2, <1>6, <2>1, <2>2, MembersAreThin
  <2> QED
    BY <1>2, <2>1, <2>3
<1>10. CASE c = "symmetry"
  <2>1. opts.mirror /\ Asymmetric(A) # {}
    BY <1>10 DEF Failed
  <2>2. /\ opts.draw = "off" /\ ~opts.extrude /\ ~opts.overhang
        /\ IsMirrored(prot) /\ IsMirrored(p.anchor) /\ IsMirrored(void)
        /\ MirrorTouches
    BY <1>10 DEF Excused, Directional, Cut, prot, void, opts
  <2> QED
    BY <1>1, <1>2, <1>4, <2>1, <2>2, PartIsSymmetric
<1>11. CASE c = "draw"
  <2>1. opts.draw # "off" /\ Undercut(A, opts.draw = "two-sided") # {}
    BY <1>11 DEF Failed
  <2>2. prot = {} /\ void = {} /\ ~opts.extrude /\ ~opts.overhang /\ ColumnsTouch
    BY <1>11 DEF Excused, prot, void, opts
  <2> QED
    BY <1>2, <1>5, <2>1, <2>2, PartIsDrawn
<1>12. CASE c = "extrusion"
  <2>1. opts.extrude /\ Uneven(A) # {}
    BY <1>12 DEF Failed
  <2>2. prot = {} /\ void = {} /\ ~opts.overhang /\ PrismsTouch
    BY <1>12 DEF Excused, prot, void, opts
  <2> QED
    BY <1>5, <2>1, <2>2, PartIsExtruded
<1>13. CASE c = "overhang"
  <2>1. opts.overhang /\ Unsupported(A, prot) # {}
    BY <1>13 DEF Failed
  <2>2. void = {} /\ (prot = {} \/ ~(opts.draw # "off" \/ opts.extrude)) /\ ConesTouch
    BY <1>13 DEF Excused, Cut, prot, void, opts
  <2> QED
    BY <1>1, <1>2, <1>5, <2>1, <2>2, PartIsSupported
<1> QED
  BY <1>7, <1>8, <1>9, <1>10, <1>11, <1>12, <1>13

(* An element taken out of solid bulk lays its own faces bare.             *)
LEMMA CavitiesAreExposed ==
  ASSUME NEW A
  PROVE  CavityFaces(A, Elements) \subseteq NewlyExposed(A, Elements)
<1> SUFFICES ASSUME NEW e \in Sealed(A, Elements), NEW face \in FacesOf[e]
             PROVE  face \in NewlyExposed(A, Elements)
  BY DEF CavityFaces
<1>1. e \in Elements \ A /\ face \in Interior /\ Owners(face) \ {e} \subseteq A
  BY DEF Sealed
<1>2. Cardinality(Owners(face)) = 2 /\ e \in Owners(face)
  BY <1>1 DEF Interior, Owners
<1>3. Owners(face) # {e}
  <2>1. Cardinality({e}) = 1
    BY FS_Singleton
  <2> QED
    BY <1>2, <2>1
<1>4. Owners(face) \cap A # {}
  BY <1>1, <1>2, <1>3
<1> QED
  BY <1>1, <1>2, <1>4 DEF NewlyExposed

(* The sanity audit and the granulometry agree on what is too thin.        *)
LEMMA SanityAccepts ==
  ASSUME NEW A \in SUBSET Elements, A # {}, NEW anchor, NEW n \in 1..2,
         n <= Cardinality(Elements)
  PROVE  Sanity(A, Elements, anchor, n, {}).thin = {} <=> ThinnestMember(A) >= n
<1>1. n \in 1..Cardinality(Elements) /\ n > 0
  BY MeshAssumption, FS_CardinalityType
<1>2. Max({1, n}) = n
  BY TwoExtremes
<1>3. Sanity(A, Elements, anchor, n, {}).thin = A \ Opened(A, n)
  BY <1>1, <1>2 DEF Sanity, Thin
<1> QED
  BY <1>1, <1>3, SizesAre

(* Every design an update made came out of the constraints.                *)
AuditInv == last.step = "updated" => Updated(plan, alive)

(* An update is the only step that claims one.                             *)
LEMMA NextAudited == DesignInv /\ AuditInv /\ [Next]_vars => AuditInv'
<1> SUFFICES ASSUME DesignInv, AuditInv, [Next]_vars PROVE AuditInv'
  OBVIOUS
<1>1. ASSUME NEW v \in Utilisations, NEW field \in Fields, Iterate(v, field)
      PROVE  Updated(plan', alive')
  <2>1. PICK rank, target, design :
          /\ design \in Updates(plan, alive, rank, target)
          /\ alive' = HeldVoid(plan, Shaped(plan, design, field))
    BY <1>1 DEF Iterate
  <2>2. PICK c : plan.protected \subseteq c /\ design = KeepConnected(c, plan.anchor)
    BY <2>1, UpdateHoldsProtected
  <2>3. plan.protected \subseteq Elements /\ plan.protected \subseteq plan.anchor
    BY DesignAssumption DEF DesignInv, DesignOK
  <2>4. design \in SUBSET Elements /\ plan.protected \subseteq design
    BY <2>2, <2>3, KeepOnlyRemoves, KeepHoldsSeeds
  <2>5. plan' = plan
    BY <1>1 DEF Iterate
  <2> QED
    BY <2>1, <2>4, <2>5 DEF Updated
<1>2. CASE Diverge \/ \E p \in Plans : Resume(p)
  <2>1. last' \in {Did("recovered", Inf), Did("kept", Inf), Did("start", 0),
                   Did("resumed", 0)}
    <3>1. CASE Diverge
      BY Zenon, <3>1 DEF Diverge, Recover
    <3>2. CASE \E p \in Plans : Resume(p)
      <4>1. last' = Did(IF last.step = "start" THEN "start" ELSE "resumed", 0)
        BY Zenon, <3>2 DEF Resume, ResumeWith
      <4> QED
        BY <4>1
    <3> QED
      BY <1>2, <3>1, <3>2
  <2>2. last'.step # "updated"
    BY <2>1 DEF Did
  <2> QED
    BY <2>2 DEF AuditInv
<1>3. CASE UNCHANGED vars
  BY <1>3 DEF vars, AuditInv, Updated
<1> QED
  BY <1>1, <1>2, <1>3 DEF Next, AuditInv

(* Both audits accept every updated design, for any mesh, configurations   *)
(* and sensitivities: of the constraints that nothing after them can undo  *)
(* none is measured as violated, and the granulometry and the erosion of   *)
(* the two audits agree on what is too thin (mfg_verify.py:434).           *)
THEOREM AuditsAlwaysAccept == Spec => []AuditsAccept
<1>1. Init => AuditInv
  <2>1. Init => last = Did("start", 0)
    BY DEF Init
  <2> QED
    BY <2>1 DEF AuditInv, Did
<1>2. DesignInv /\ AuditInv => AuditsAccept
  <2> SUFFICES ASSUME DesignInv, AuditInv, last.step = "updated", alive # {}
               PROVE  AuditsAccept
    BY DEF AuditsAccept
  <2>1. plan \in Plans /\ alive \in SUBSET Elements /\ Updated(plan, alive)
    BY DEF DesignInv, DesignOK, AuditInv
  <2>2. Failed(alive, plan.protected, plan.opts) \subseteq Excused(plan)
    BY <2>1, UpdatedFails
  <2>3. plan.blocked = {} => Sanity(alive, Elements, plan.anchor, 1, {}).ok
    BY DEF DesignInv, Fresh, Sound, Sanity, Disconnected
  <2>4. \A n \in 1..2 : n <= Cardinality(Elements) =>
          (Sanity(alive, Elements, plan.anchor, n, {}).thin = {} <=> ThinnestMember(alive) >= n)
    BY <2>1, SanityAccepts
  <2>5. Sanity(alive, Elements, plan.anchor, 1, {}).cavity
          \subseteq Sanity(alive, Elements, plan.anchor, 1, {}).exposed
    BY CavitiesAreExposed DEF Sanity
  <2> QED
    BY <2>2, <2>3, <2>4, <2>5 DEF AuditsAccept
<1> QED
  BY <1>1, <1>2, InitDesign, NextDesign, NextAudited, PTL DEF Spec
=============================================================================
