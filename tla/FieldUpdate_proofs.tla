------------------------- MODULE FieldUpdate_proofs -------------------------
(***************************************************************************)
(* Proofs about the optimisers that remember more than the mask, for any   *)
(* mesh, configurations and energies: their memories are well formed and   *)
(* their designs sound, SAIP's conservatism is earned, and every update    *)
(* keeps the largest volume that fits its target.                          *)
(***************************************************************************)
EXTENDS FieldUpdate, Mesh_proofs

(* What SAIP's asymptotes take their knobs for: a swing lowers the factor, *)
(* anything else does not, and its floor lies below one.  The defaults are *)
(* 0.7, 1.2 and 0.1; the validator does not look at them.                  *)
Asymptotes ==
  \A p \in Plans : /\ p.tight \in 0..Percent - 1
                   /\ p.relax \in Nat /\ p.relax >= Percent
                   /\ p.tMin \in 1..Percent - 1

-----------------------------------------------------------------------------
(* One step of a conservatism factor.                                      *)
LEMMA ShareStep ==
  ASSUME NEW x \in 0..Percent, NEW g \in Nat
  PROVE  /\ (x * g) \div Percent \in Nat
         /\ g < Percent => (x * g) \div Percent < Percent
         /\ g >= Percent => (x * g) \div Percent >= x
<1> DEFINE m == x * g
           q == m \div Percent
<1>1. x \in Nat /\ m \in Nat
  BY DEF Percent
<1>2. q \in Nat /\ m >= q * Percent /\ m < (q + 1) * Percent
  <2> HIDE DEF m
  <2> QED
    BY <1>1 DEF Percent
<1>3. g < Percent => m < Percent * Percent
  <2>1. ASSUME g < Percent PROVE x * g <= Percent * g
    BY <1>1 DEF Percent
  <2> QED
    BY <2>1, <1>1 DEF Percent
<1>4. g >= Percent => m >= x * Percent
  BY <1>1 DEF Percent
<1> HIDE DEF m, q
<1>5. g < Percent => q < Percent
  BY <1>1, <1>2, <1>3 DEF Percent
<1>6. g >= Percent => q >= x
  BY <1>1, <1>2, <1>4 DEF Percent
<1> QED
  BY <1>2, <1>5, <1>6 DEF m, q

LEMMA ClipStep ==
  ASSUME NEW lo \in Int, NEW hi \in Int, lo <= hi, NEW q \in Int
  PROVE  /\ Max({lo, Min({hi, q})}) \in lo..hi
         /\ lo < hi /\ q < hi => Max({lo, Min({hi, q})}) < hi
         /\ Max({lo, Min({hi, q})}) < hi => q < hi
<1> DEFINE least == Min({hi, q})
<1>1. least = IF hi <= q THEN hi ELSE q
  BY TwoExtremes
<1> HIDE DEF least
<1>2. Max({lo, least}) = IF lo >= least THEN lo ELSE least
  BY <1>1, TwoExtremes
<1>3. /\ Max({lo, least}) \in lo..hi
      /\ lo < hi /\ q < hi => Max({lo, least}) < hi
      /\ Max({lo, least}) < hi => q < hi
  BY <1>1, <1>2
<1> QED
  BY <1>3 DEF least

(* A mask's flips have a sign, and the mask tells it.                      *)
LEMMA FlipSigns ==
  ASSUME NEW a, NEW b, NEW e
  PROVE  /\ Flip(a, b, e) \in {-1, 0, 1}
         /\ Flip(a, b, e) = 1 <=> e \in b /\ e \notin a
         /\ Flip(a, b, e) = -1 <=> e \in a /\ e \notin b
  BY DEF Flip

(* What the asymptotes keep: the factors, and as directions the last flips *)
(* of the mask the last update was given.                                  *)
Directs(t, dir, in, moved, p) ==
  /\ t \in [Elements -> p.tMin..Percent]
  /\ dir \in [Elements -> {-1, 0, 1}]
  /\ \A e \in Elements : /\ dir[e] # 0 <=> e \in moved
                         /\ dir[e] = 1 => e \in in
                         /\ dir[e] = -1 => e \notin in

(* Then a swing in terms of directions is one in terms of what happened.   *)
LEMMA SwingsAgree ==
  ASSUME NEW p, NEW m, NEW moved, NEW living, m.in # None,
         Directs(m.t, m.dir, m.in, moved, p), NEW e \in Elements
  PROVE  Swung(m.in, m.out, living, m.dir, e) <=> e \in Swings(m, moved, living)
<1> DEFINE own == Flip(m.in, m.out, e)
           post == Flip(m.out, living, e)
<1>1. /\ own \in {-1, 0, 1} /\ post \in {-1, 0, 1}
      /\ own = 1 => e \notin m.in
      /\ own = -1 => e \in m.in
      /\ own = 0 /\ post = 1 => e \notin m.in
      /\ own = 0 /\ post = -1 => e \in m.in
  BY DEF Flip
<1>2. e \in Swings(m, moved, living)
        <=> (own # 0 \/ post # 0) /\ (e \in moved \/ (own # 0 /\ post # 0))
  BY DEF Swings, Changed, JustFlipped
<1>3. Swung(m.in, m.out, living, m.dir, e)
        <=> \/ own # 0 /\ post # 0
            \/ own # 0 /\ m.dir[e] = -own
            \/ own = 0 /\ post # 0 /\ m.dir[e] = -post
  BY DEF Swung
<1>4. /\ m.dir[e] \in {-1, 0, 1}
      /\ m.dir[e] # 0 <=> e \in moved
      /\ m.dir[e] = 1 => e \in m.in
      /\ m.dir[e] = -1 => e \notin m.in
  BY DEF Directs
<1> HIDE DEF own, post
<1> QED
  BY <1>1, <1>2, <1>3, <1>4

LEMMA TightenedAt ==
  ASSUME Asymptotes, NEW p \in Plans, NEW t \in [Elements -> p.tMin..Percent],
         NEW in, NEW out, NEW living, NEW dir
  PROVE  /\ Tightened(p, t, in, out, living, dir) \in [Elements -> p.tMin..Percent]
         /\ \A e \in Elements :
              LET y == Tightened(p, t, in, out, living, dir)[e]
                  swings == Swung(in, out, living, dir, e)
              IN  /\ swings => y < Percent
                  /\ ~swings /\ y < Percent => t[e] < Percent
<1> DEFINE T == Tightened(p, t, in, out, living, dir)
           gamma(e) == IF Swung(in, out, living, dir, e) THEN p.tight ELSE p.relax
<1>1. T = [e \in Elements |-> Max({p.tMin, Min({Percent, (t[e] * gamma(e)) \div Percent})})]
  BY ComputedIsItself DEF Tightened
<1>2. /\ p.tight \in Nat /\ p.tight < Percent
      /\ p.relax \in Nat /\ p.relax >= Percent
      /\ p.tMin \in 1..Percent - 1
  BY DEF Asymptotes, Percent
<1>3. ASSUME NEW e \in Elements
      PROVE  /\ T[e] \in p.tMin..Percent
             /\ Swung(in, out, living, dir, e) => T[e] < Percent
             /\ ~Swung(in, out, living, dir, e) /\ T[e] < Percent => t[e] < Percent
  <2>1. gamma(e) \in Nat
    BY <1>2
  <2>2. T[e] = Max({p.tMin, Min({Percent, (t[e] * gamma(e)) \div Percent})})
    BY <1>1
  <2>3. t[e] \in p.tMin..Percent
    OBVIOUS
  <2> DEFINE q == (t[e] * gamma(e)) \div Percent
  <2> HIDE DEF T, gamma
  <2>4. /\ q \in Nat
        /\ gamma(e) < Percent => q < Percent
        /\ gamma(e) >= Percent => q >= t[e]
    BY <1>2, <2>1, <2>3, ShareStep
  <2> HIDE DEF q
  <2>5. /\ T[e] \in p.tMin..Percent
        /\ gamma(e) < Percent => T[e] < Percent
        /\ gamma(e) >= Percent /\ T[e] < Percent => t[e] < Percent
    <3>1. T[e] = Max({p.tMin, Min({Percent, q})})
      BY <2>2 DEF q
    <3>2. /\ T[e] \in p.tMin..Percent
          /\ q < Percent => T[e] < Percent
          /\ T[e] < Percent => q < Percent
      <4>1. p.tMin \in Int /\ Percent \in Int /\ p.tMin < Percent /\ q \in Int
        BY <1>2, <2>4 DEF Percent
      <4> QED
        BY <3>1, <4>1, ClipStep
    <3> QED
      BY <2>3, <2>4, <3>2 DEF Percent
  <2>6. /\ Swung(in, out, living, dir, e) => gamma(e) = p.tight
        /\ ~Swung(in, out, living, dir, e) => gamma(e) = p.relax
    BY DEF gamma
  <2> QED
    BY <1>2, <2>5, <2>6
<1>4. T \in [Elements -> p.tMin..Percent]
  <2>1. T = [e \in Elements |-> T[e]]
    BY <1>1
  <2> HIDE DEF T
  <2> QED
    BY <1>3, <2>1
<1> QED
  BY <1>3, <1>4

-----------------------------------------------------------------------------
(* What an update makes of the memory.                                     *)
MemoryShape(m) ==
  m = [x |-> m.x, blend |-> m.blend, phi |-> m.phi, in |-> m.in, out |-> m.out,
       t |-> m.t, dir |-> m.dir]

LEMMA OtherMemory ==
  ASSUME NEW p, NEW m, MemoryShape(m), NEW living, NEW field, NEW target,
         NEW res \in HcaUpdates(p, m, living, field, target)
                       \cup LevelSetUpdates(p, m, living, field, target)
  PROVE  MemoryShape(res.mem) /\ res.mem.t = m.t /\ res.mem.in = m.in
<1>1. CASE res \in HcaUpdates(p, m, living, field, target)
  <2>1. \E a, b : res.mem = [m EXCEPT !.x = a, !.blend = b]
    <3> DEFINE first  == m.x = None
               x0     == IF first THEN DensityOf(living)
                         ELSE ResyncedDensity(p, m.x, living)
               energy == IF m.blend = None THEN field ELSE Blended(p, m.blend, field)
               kept   == [m EXCEPT !.x = x0, !.blend = energy]
    <3>1. CASE res = Unchanged(kept, p, living)
      BY <3>1 DEF Unchanged
    <3>2. CASE res # Unchanged(kept, p, living)
      <4>1. PICK r, raw, more :
              res = Result([kept EXCEPT !.x = Pinned(p, Controlled(p, x0, energy, r))],
                           raw, more)
        BY <1>1, <3>2 DEF HcaUpdates
      <4>2. res.mem = [kept EXCEPT !.x = Pinned(p, Controlled(p, x0, energy, r))]
        BY <4>1 DEF Result
      <4> HIDE DEF energy, x0
      <4>3. res.mem = [m EXCEPT !.x = Pinned(p, Controlled(p, x0, energy, r)),
                                !.blend = energy]
        BY <4>2 DEF MemoryShape
      <4> QED
        BY <4>3
    <3> QED
      BY <3>1, <3>2
  <2> QED
    BY <2>1 DEF MemoryShape
<1>2. CASE res \in LevelSetUpdates(p, m, living, field, target)
  <2>1. \E a : res.mem = [m EXCEPT !.phi = a]
    <3>1. PICK a, raw, more : res = Result([m EXCEPT !.phi = a], raw, more)
      BY Zenon, <1>2 DEF LevelSetUpdates
    <3> QED
      BY <3>1 DEF Result
  <2> QED
    BY <2>1 DEF MemoryShape
<1> QED
  BY <1>1, <1>2

LEMMA RememberedShape ==
  ASSUME NEW p, NEW m, MemoryShape(m), NEW living
  PROVE  LET k == Remembered(p, m, living)
             t0 == IF m.t = None THEN [e \in Elements |-> Percent] ELSE m.t
         IN  /\ MemoryShape(k) /\ k.in = living
             /\ k.x = m.x /\ k.blend = m.blend /\ k.phi = m.phi
             /\ ~p.scip => k.t = m.t
             /\ p.scip /\ m.in = None => k.t = t0 /\ k.dir = [e \in Elements |-> 0]
             /\ p.scip /\ m.in # None =>
                  /\ k.t = Tightened(p, t0, m.in, m.out, living, m.dir)
                  /\ k.dir = LastFlips(m.in, m.out, living)
<1> DEFINE t0 == IF m.t = None THEN [e \in Elements |-> Percent] ELSE m.t
           known == m.in # None
           t1 == IF known THEN Tightened(p, t0, m.in, m.out, living, m.dir) ELSE t0
           d1 == IF known THEN LastFlips(m.in, m.out, living) ELSE [e \in Elements |-> 0]
           k == Remembered(p, m, living)
<1>1. k = IF ~p.scip THEN [m EXCEPT !.in = living]
          ELSE [m EXCEPT !.in = living, !.t = t1, !.dir = d1]
  BY DEF Remembered
<1> HIDE DEF t1, d1, k
<1>2. /\ MemoryShape(k) /\ k.in = living
      /\ ~p.scip => k.t = m.t
      /\ p.scip => k.t = t1 /\ k.dir = d1
  BY <1>1 DEF MemoryShape
<1>3. k.x = m.x /\ k.blend = m.blend /\ k.phi = m.phi
  BY <1>1 DEF MemoryShape
<1> QED
  BY <1>2, <1>3 DEF k, t1, d1

LEMMA SaipMemory ==
  ASSUME NEW p, NEW m, MemoryShape(m), NEW living, NEW field, NEW target,
         NEW res \in SaipUpdates(p, m, living, field, target)
  PROVE  LET k == Remembered(p, m, living)
         IN  /\ MemoryShape(res.mem)
             /\ res.mem.in = k.in /\ res.mem.t = k.t /\ res.mem.dir = k.dir
             /\ res.mem.x = m.x /\ res.mem.blend = m.blend /\ res.mem.phi = m.phi
             /\ res.mem.out \subseteq Elements
<1> DEFINE k == Remembered(p, m, living)
<1>1. MemoryShape(k)
  BY RememberedShape
<1>2. k.x = m.x /\ k.blend = m.blend /\ k.phi = m.phi
  BY RememberedShape
<1> HIDE DEF k
<1>3. PICK r, raw, more, idle :
        /\ r = [mem |-> k, raw |-> raw, more |-> more, idle |-> idle]
        /\ res = [r EXCEPT !.mem.out = KeepConnected(r.raw, p.anchor)]
  BY DEF SaipUpdates, Unchanged, Result, k
<1> DEFINE out == KeepConnected(r.raw, p.anchor)
<1>4. out \subseteq Elements
  BY KeepOnlyRemoves
<1> HIDE DEF out
<1>5. res.mem = [k EXCEPT !.out = out]
  BY <1>3 DEF out
<1>6. /\ MemoryShape(res.mem) /\ res.mem.out = out
      /\ res.mem.in = k.in /\ res.mem.t = k.t /\ res.mem.dir = k.dir
  BY <1>1, <1>5 DEF MemoryShape
<1>7. res.mem.x = k.x /\ res.mem.blend = k.blend /\ res.mem.phi = k.phi
  BY <1>1, <1>5 DEF MemoryShape
<1> QED
  BY <1>2, <1>4, <1>6, <1>7 DEF k

-----------------------------------------------------------------------------
(* The inductive invariant: SAIP has asymptotes exactly when it is told to *)
(* and knows a last mask, and their directions say which elements changed  *)
(* in the last iteration, and how.                                         *)
EarnInv ==
  /\ plan \in Plans
  /\ alive \in SUBSET Elements
  /\ MemoryShape(mem)
  /\ mem.t # None <=> plan.alg = "saip" /\ plan.scip /\ mem.in # None
  /\ mem.t # None => Directs(mem.t, mem.dir, mem.in, swung.now, plan)
  /\ ConservatismIsEarned

LEMMA InitEarn == Init => EarnInv
<1> SUFFICES ASSUME Init PROVE EarnInv
  OBVIOUS
<1>1. plan \in Plans /\ alive = Elements \ plan.candidate /\ mem = NoMemory
  BY DEF Init
<1>2. MemoryShape(mem) /\ mem.t = None /\ mem.in = None
  BY <1>1 DEF NoMemory, MemoryShape
<1> QED
  BY <1>1, <1>2 DEF EarnInv, ConservatismIsEarned

LEMMA LastFlipsDirect ==
  ASSUME NEW in, NEW out, NEW living, NEW e \in Elements
  PROVE  LET d == LastFlips(in, out, living)[e]
         IN  /\ d \in {-1, 0, 1}
             /\ d # 0 <=> e \in JustFlipped(in, out, living)
             /\ d = 1 => e \in living
             /\ d = -1 => e \notin living
<1>1. LastFlips(in, out, living)[e]
        = IF Flip(out, living, e) # 0 THEN Flip(out, living, e) ELSE Flip(in, out, e)
  BY DEF LastFlips
<1>2. e \in JustFlipped(in, out, living)
        <=> Flip(in, out, e) # 0 \/ Flip(out, living, e) # 0
  BY DEF JustFlipped
<1> QED
  BY <1>1, <1>2 DEF Flip

(* The asymptotes after an update.                                         *)
LEMMA AsymptotesAfter ==
  ASSUME Asymptotes, EarnInv, plan.alg = "saip", plan.scip,
         NEW k, k = Remembered(plan, mem, alive), NEW back,
         back = Swings(mem, swung.now, alive)
  PROVE  /\ Directs(k.t, k.dir, k.in, Changed(mem, alive), plan)
         /\ \A e \in Elements : /\ k.t[e] < Percent => e \in swung.ever \cup back
                                /\ e \in back => k.t[e] < Percent
<1>1. MemoryShape(mem) /\ plan \in Plans /\ (mem.t # None <=> mem.in # None)
  BY DEF EarnInv
<1>2. k.in = alive
  BY <1>1, RememberedShape
<1>3. CASE mem.in = None
  <2>1. /\ k.t = [e \in Elements |-> Percent] /\ k.dir = [e \in Elements |-> 0]
        /\ Changed(mem, alive) = {} /\ back = {}
    BY <1>1, <1>3, RememberedShape DEF Changed, Swings
  <2>2. Percent \in plan.tMin..Percent
    BY <1>1 DEF Asymptotes, Percent
  <2> QED
    BY <1>2, <2>1, <2>2 DEF Directs, Percent
<1>4. CASE mem.in # None
  <2>1. /\ k.t = Tightened(plan, mem.t, mem.in, mem.out, alive, mem.dir)
        /\ k.dir = LastFlips(mem.in, mem.out, alive)
    BY <1>1, <1>4, RememberedShape
  <2>2. /\ Directs(mem.t, mem.dir, mem.in, swung.now, plan)
        /\ \A e \in Elements : mem.t[e] < Percent => e \in swung.ever
    BY <1>1, <1>4 DEF EarnInv, ConservatismIsEarned
  <2>3. mem.t \in [Elements -> plan.tMin..Percent]
    BY <2>2 DEF Directs
  <2>4. \A e \in Elements :
          Swung(mem.in, mem.out, alive, mem.dir, e) <=> e \in back
    BY <1>4, <2>2, SwingsAgree
  <2>5. /\ k.t \in [Elements -> plan.tMin..Percent]
        /\ \A e \in Elements : /\ e \in back => k.t[e] < Percent
                               /\ e \notin back /\ k.t[e] < Percent => mem.t[e] < Percent
    BY <1>1, <2>1, <2>3, <2>4, TightenedAt
  <2>6. Changed(mem, alive) = JustFlipped(mem.in, mem.out, alive)
    BY <1>4 DEF Changed
  <2>7. k.dir \in [Elements -> {-1, 0, 1}]
    BY <2>1, LastFlipsDirect DEF LastFlips
  <2>8. Directs(k.t, k.dir, k.in, Changed(mem, alive), plan)
    BY <1>2, <2>1, <2>5, <2>6, <2>7, LastFlipsDirect DEF Directs
  <2> QED
    BY <2>2, <2>5, <2>8
<1> QED
  BY <1>3, <1>4

LEMMA UpdateEarns ==
  ASSUME Asymptotes, EarnInv, NEW field, NEW target, NEW what,
         UpdateWith(field, target, what)
  PROVE  EarnInv'
<1> DEFINE back == Swings(mem, swung.now, alive)
           k == Remembered(plan, mem, alive)
<1>1. PICK res \in UpdateResults(plan, mem, alive, field, target) :
        /\ mem' = res.mem
        /\ alive' = HeldVoid(plan, IF what = "updated"
                                   THEN Shaped(plan, KeepConnected(res.raw, plan.anchor), field)
                                   ELSE KeepConnected(res.raw, plan.anchor))
  BY DEF UpdateWith
<1>2. /\ swung' = [now |-> Changed(mem, alive), back |-> back, ever |-> swung.ever \cup back]
      /\ plan' = plan
  BY DEF UpdateWith
<1>3. /\ plan \in Plans /\ MemoryShape(mem) /\ alive \in SUBSET Elements /\ alive # None
      /\ plan.alg \in {"hca", "saip", "levelset"} /\ PlanFits(plan)
  BY FieldAssumption DEF EarnInv, PlanFits
<1>4. alive' \in SUBSET Elements
  <2>1. HeldVoid(plan, KeepConnected(res.raw, plan.anchor)) \in SUBSET Elements
    BY KeepOnlyRemoves DEF HeldVoid
  <2>2. \A S : HeldVoid(plan, Shaped(plan, KeepConnected(S, plan.anchor), field))
               \in SUBSET Elements
    BY KeepOnlyRemoves DEF HeldVoid, Shaped
  <2> QED
    BY <1>1, <2>1, <2>2
<1>5. CASE plan.alg # "saip"
  <2>1. MemoryShape(mem') /\ mem'.t = mem.t
    BY <1>1, <1>3, <1>5, OtherMemory DEF UpdateResults
  <2>2. mem'.t = None
    BY <1>5, <2>1 DEF EarnInv
  <2> QED
    BY <1>2, <1>3, <1>4, <1>5, <2>1, <2>2 DEF EarnInv, ConservatismIsEarned
<1>6. CASE plan.alg = "saip"
  <2>1. /\ MemoryShape(mem') /\ mem'.in = k.in /\ mem'.t = k.t /\ mem'.dir = k.dir
    <3>1. res \in SaipUpdates(plan, mem, alive, field, target)
      BY <1>1, <1>6 DEF UpdateResults
    <3> QED
      BY <1>1, <1>3, <3>1, SaipMemory
  <2>2. k.in = alive
    BY <1>3, RememberedShape
  <2>3. CASE ~plan.scip
    <3>1. mem'.t = None
      BY <1>3, <2>1, <2>3, RememberedShape DEF EarnInv
    <3> QED
      BY <1>2, <1>3, <1>4, <2>1, <2>3, <3>1 DEF EarnInv, ConservatismIsEarned
  <2>4. CASE plan.scip
    <3>1. /\ Directs(k.t, k.dir, k.in, Changed(mem, alive), plan)
          /\ \A e \in Elements : /\ k.t[e] < Percent => e \in swung.ever \cup back
                                 /\ e \in back => k.t[e] < Percent
      BY <1>6, <2>4, AsymptotesAfter
    <3>2. k.t # None
      <4>1. plan.tMin..Percent \subseteq Int
        BY <1>3 DEF Asymptotes, Percent
      <4>2. k.t \in [Elements -> Int]
        BY <3>1, <4>1 DEF Directs
      <4> QED
        BY <4>2, FieldAssumption
    <3> QED
      BY <1>2, <1>3, <1>4, <1>6, <2>1, <2>2, <2>4, <3>1, <3>2
         DEF EarnInv, ConservatismIsEarned
  <2> QED
    BY <2>3, <2>4
<1> QED
  BY <1>5, <1>6

LEMMA NextEarn == Asymptotes /\ EarnInv /\ [Next]_vars => EarnInv'
<1> SUFFICES ASSUME Asymptotes, EarnInv, [Next]_vars PROVE EarnInv'
  OBVIOUS
<1>1. CASE \E v \in Utilisations, field \in Fields : Iterate(v, field)
  BY <1>1, UpdateEarns DEF Iterate
<1>2. CASE Diverge
  <2>1. CASE UNCHANGED <<plan, alive, mem, sens, last, swung>>
    BY <2>1 DEF EarnInv, ConservatismIsEarned
  <2>2. CASE ~UNCHANGED <<plan, alive, mem, sens, last, swung>>
    BY <1>2, <2>2, UpdateEarns DEF Diverge
  <2> QED
    BY <2>1, <2>2
<1>3. ASSUME NEW p \in Plans, Resume(p) PROVE EarnInv'
  <2>1. /\ plan' = p /\ mem' = Restored(p)
        /\ alive' = HeldVoid(p, IF it = 0 THEN Elements \ p.candidate ELSE alive)
    BY <1>3 DEF Resume
  <2>2. MemoryShape(mem') /\ mem'.t = None /\ mem'.in = None
    BY <2>1 DEF Restored, NoMemory, MemoryShape
  <2>3. alive' \in SUBSET Elements
    BY <2>1 DEF HeldVoid, EarnInv
  <2> QED
    BY <2>1, <2>2, <2>3 DEF EarnInv, ConservatismIsEarned
<1>4. CASE UNCHANGED vars
  BY <1>4 DEF vars, EarnInv, ConservatismIsEarned
<1> QED
  BY <1>1, <1>2, <1>3, <1>4 DEF Next

-----------------------------------------------------------------------------
(* Designs: the island removal of an update's own design is of a set that  *)
(* holds what is protected, whatever the optimiser.                        *)
LEMMA ResultsHoldProtected ==
  ASSUME NEW p \in Plans, NEW m, NEW living, NEW field, NEW target,
         NEW res \in UpdateResults(p, m, living, field, target)
  PROVE  p.protected \subseteq res.raw
<1>1. p.alg \in {"hca", "saip", "levelset"}
  BY FieldAssumption
<1>2. CASE p.alg = "hca"
  <2>1. \E a, S, more : res = Result(a, S \cup p.protected, more) \/ res = Unchanged(a, p, S)
    BY Zenon, <1>2 DEF UpdateResults, HcaUpdates
  <2> QED
    BY <2>1 DEF Result, Unchanged
<1>3. CASE p.alg = "levelset"
  <2>1. \E a, phi, more : res = Result(a, ElementsAlive(p, phi), more)
    BY Zenon, <1>3 DEF UpdateResults, LevelSetUpdates
  <2> QED
    BY <2>1 DEF Result, ElementsAlive
<1>4. CASE p.alg = "saip"
  <2> DEFINE kept == Remembered(p, m, living)
             Out(r) == [r EXCEPT !.mem.out = KeepConnected(r.raw, p.anchor)]
  <2>1. \E S, more, idle :
          res = Out([mem |-> kept, raw |-> S \cup p.protected, more |-> more, idle |-> idle])
    <3>1. CASE TopOf(field) <= 0
      <4>1. res = Out(Unchanged(kept, p, living))
        BY <1>4, <3>1 DEF UpdateResults, SaipUpdates
      <4> QED
        BY <4>1 DEF Unchanged
    <3>2. CASE ~(TopOf(field) <= 0)
      <4> DEFINE damped == Changed(m, living)
                 energy == Priced(p, m, living, field)
                 Left(r) == Toggled(living, FlipsAt(p, living, energy, damped, FlipCap(p), r))
                              \cup p.protected
      <4>1. res \in {Out(Result(kept, Left(r), IF r = 0 THEN {} ELSE Left(r - 1))) :
                       r \in Multipliers(p, living, energy, damped, FlipCap(p),
                                         Free(p, target))}
        BY <1>4, <3>2 DEF UpdateResults, SaipUpdates
      <4>2. PICK r : res = Out(Result(kept, Left(r), IF r = 0 THEN {} ELSE Left(r - 1)))
        BY <4>1
      <4> QED
        BY <4>2 DEF Result
    <3> QED
      BY <3>1, <3>2
  <2> HIDE DEF kept
  <2>2. PICK S, more, idle :
          res = Out([mem |-> kept, raw |-> S \cup p.protected, more |-> more, idle |-> idle])
    BY <2>1
  <2>3. res.raw = S \cup p.protected
    BY <2>2
  <2> QED
    BY <2>3
<1> QED
  BY <1>1, <1>2, <1>3, <1>4

LEMMA UpdateIsSound ==
  ASSUME plan \in Plans, NEW field, NEW target, NEW what, UpdateWith(field, target, what)
  PROVE  Sound(plan, alive')
<1>1. PICK res \in UpdateResults(plan, mem, alive, field, target) :
        alive' = HeldVoid(plan, IF what = "updated"
                                THEN Shaped(plan, KeepConnected(res.raw, plan.anchor), field)
                                ELSE KeepConnected(res.raw, plan.anchor))
  BY DEF UpdateWith
<1> DEFINE design == KeepConnected(res.raw, plan.anchor)
<1>2. PlanFits(plan)
  BY FieldAssumption DEF PlanFits
<1>3. \E c : plan.protected \subseteq c /\ design = KeepConnected(c, plan.anchor)
  BY ResultsHoldProtected
<1>4. CASE what = "updated"
  <2>1. \E c : plan.protected \subseteq c
                /\ Shaped(plan, design, field) = KeepConnected(c, plan.anchor)
    BY <1>3, ShapedHoldsProtected
  <2> QED
    BY <1>1, <1>2, <1>4, <2>1, HeldIsSound
<1>5. CASE what # "updated"
  BY <1>1, <1>2, <1>3, <1>5, HeldIsSound
<1> QED
  BY <1>4, <1>5

-----------------------------------------------------------------------------
(* The memory of HCA: densities between a dead element's and full.         *)
IsDensity(x) == x \in [Elements -> XMin..Percent]

LEMMA Clipped ==
  ASSUME NEW v \in Int, NEW lo \in Int, NEW hi \in Int
  PROVE  Clip(v, lo, hi) \in Int /\ (lo <= hi => Clip(v, lo, hi) \in lo..hi)
<1> DEFINE least == Min({v, hi})
<1>1. least = IF v <= hi THEN v ELSE hi
  BY TwoExtremes
<1> HIDE DEF least
<1>2. Max({lo, least}) = IF lo >= least THEN lo ELSE least
  BY <1>1, TwoExtremes
<1>3. Clip(v, lo, hi) = Max({lo, least})
  BY DEF Clip, least
<1> QED
  BY <1>1, <1>2, <1>3

LEMMA TopIsInteger ==
  ASSUME NEW field \in [Elements -> Int], Elements # {}
  PROVE  TopOf(field) \in Int
  BY MeshAssumption, ExtremesOfValues DEF TopOf

LEMMA DriveIsInteger ==
  ASSUME NEW p \in Plans, NEW energy \in Int, NEW high \in Nat, NEW rung \in 0..high
  PROVE  Drive(p, energy, rung, high) \in Int
<1>1. p.move \in Int /\ p.kp \in Int
  BY FieldAssumption
<1>2. Min({p.kp, p.move}) \in Int
  BY <1>1, TwoExtremes
<1>3. CASE rung = 0 \/ rung = high
  BY <1>1, <1>2, <1>3 DEF Drive
<1>4. CASE rung # 0 /\ rung # high
  <2> DEFINE a == p.kp * (Fine * energy - rung)
  <2>1. a \in Int /\ rung \in Nat \ {0}
    BY <1>1, <1>4 DEF Fine
  <2>2. Drive(p, energy, rung, high) = Clip(a \div rung, -p.move, p.move)
    BY <1>4 DEF Drive
  <2> HIDE DEF a
  <2>3. a \div rung \in Int
    BY <2>1
  <2> DEFINE lo == -p.move
             b == a \div rung
  <2>4. lo \in Int
    BY <1>1
  <2>5. Drive(p, energy, rung, high) = Clip(b, lo, p.move) /\ b \in Int
    BY <2>2, <2>3
  <2> HIDE DEF lo, b
  <2> QED
    BY <1>1, <2>4, <2>5, Clipped
<1> QED
  BY <1>3, <1>4

LEMMA ControlledIsDensity ==
  ASSUME NEW p \in Plans, NEW x, IsDensity(x), NEW field \in [Elements -> Int],
         HighSetpoint(field) \in Nat, NEW rung \in 0..HighSetpoint(field)
  PROVE  IsDensity(Controlled(p, x, field, rung))
<1> DEFINE C == Controlled(p, x, field, rung)
           high == HighSetpoint(field)
           step(e) == Drive(p, field[e], rung, high)
<1>1. C = [e \in Elements |-> Clip(x[e] + step(e), XMin, Percent)]
  BY ComputedIsItself DEF Controlled
<1>2. ASSUME NEW e \in Elements PROVE Clip(x[e] + step(e), XMin, Percent) \in XMin..Percent
  <2>1. step(e) \in Int
    <3> HIDE DEF high
    <3>1. field[e] \in Int /\ high \in Nat /\ rung \in 0..high
      BY DEF high
    <3> QED
      BY <3>1, DriveIsInteger
  <2>2. x[e] \in Int
    BY DEF IsDensity, XMin, Percent
  <2> HIDE DEF step
  <2> DEFINE y == x[e] + step(e)
  <2>3. y \in Int
    BY <2>1, <2>2
  <2>4. XMin \in Int /\ Percent \in Int /\ XMin <= Percent
    BY DEF XMin, Percent
  <2> HIDE DEF y
  <2>5. Clip(y, XMin, Percent) \in XMin..Percent
    BY <2>3, <2>4, Clipped
  <2> QED
    BY <2>5 DEF y
<1> QED
  BY <1>1, <1>2 DEF IsDensity

LEMMA ResyncedIsDensity ==
  ASSUME NEW p, NEW x, IsDensity(x), NEW living
  PROVE  IsDensity(ResyncedDensity(p, x, living))
<1>1. BelowAlive \in XMin..Percent
  BY DEF BelowAlive, AliveAt, XMin, Percent
<1> DEFINE stale == StaleDensity(p, x, living)
<1>2. ResyncedDensity(p, x, living)
        = [e \in Elements |-> IF e \in stale THEN BelowAlive ELSE x[e]]
  BY ComputedIsItself DEF ResyncedDensity
<1> HIDE DEF stale
<1> QED
  BY <1>1, <1>2 DEF IsDensity

LEMMA BlendedIsField ==
  ASSUME NEW p \in Plans, NEW before \in [Elements -> Int], NEW field \in [Elements -> Int]
  PROVE  Blended(p, before, field) \in [Elements -> Int]
<1>1. p.weight \in Int
  BY FieldAssumption
<1>2. CASE p.weight = Percent
  BY <1>2 DEF Blended
<1>3. CASE p.weight # Percent
  <2> DEFINE sum(e) == p.weight * field[e] + (Percent - p.weight) * before[e]
  <2>1. Blended(p, before, field) = [e \in Elements |-> sum(e) \div Percent]
    BY <1>3, ComputedIsItself DEF Blended
  <2>2. \A e \in Elements : sum(e) \in Int
    BY <1>1 DEF Percent
  <2> HIDE DEF sum
  <2>3. \A e \in Elements : sum(e) \div Percent \in Int
    BY <2>2 DEF Percent
  <2> QED
    BY <2>1, <2>3
<1> QED
  BY <1>2, <1>3

(* What the optimisers may remember under a configuration.  A level set is *)
(* a whole number for each node.                                           *)
NodeField == [Nodes -> Int]

MemoryOK(p, m) ==
  /\ MemoryShape(m)
  /\ m.x # None => p.alg = "hca" /\ IsDensity(m.x)
  /\ m.blend # None => p.alg = "hca" /\ m.blend \in [Elements -> Int]
  /\ m.phi # None => p.alg = "levelset" /\ m.phi \in NodeField
  /\ m.in # None => p.alg = "saip" /\ m.in \subseteq Elements /\ m.out \subseteq Elements

LEMMA HcaMemory ==
  ASSUME NEW p \in Plans, p.alg = "hca", NEW m, MemoryOK(p, m), NEW living,
         NEW field \in [Elements -> Int], NEW target,
         NEW res \in HcaUpdates(p, m, living, field, target)
  PROVE  /\ MemoryOK(p, res.mem)
         /\ ~res.idle => /\ IsDensity(res.mem.x)
                         /\ res.raw = DensityAlive(res.mem.x) \cup p.protected
<1> DEFINE first  == m.x = None
           x0     == IF first THEN DensityOf(living) ELSE ResyncedDensity(p, m.x, living)
           refund == IF first THEN 0 ELSE VolumeOf(StaleDensity(p, m.x, living))
           energy == IF m.blend = None THEN field ELSE Blended(p, m.blend, field)
           kept   == [m EXCEPT !.x = x0, !.blend = energy]
           budget == Free(p, target) + refund * Scale
<1>1. IsDensity(x0)
  <2>1. IsDensity(DensityOf(living))
    BY DEF IsDensity, DensityOf, XMin, Percent
  <2> QED
    BY <2>1, ResyncedIsDensity DEF MemoryOK
<1>2. energy \in [Elements -> Int]
  BY BlendedIsField DEF MemoryOK
<1>3. \/ res = Unchanged(kept, p, living)
      \/ /\ ~(TopOf(energy) <= 0)
         /\ \E r \in Setpoints(p, x0, energy, budget) : \E more :
              LET x1 == Pinned(p, Controlled(p, x0, energy, r))
              IN  res = Result([kept EXCEPT !.x = x1], DensityAlive(x1) \cup p.protected, more)
  BY DEF HcaUpdates
<1> HIDE DEF x0, energy, budget
<1>4. MemoryOK(p, kept)
  <2>0. MemoryShape(m) /\ kept = [m EXCEPT !.x = x0, !.blend = energy]
    BY DEF MemoryOK
  <2> HIDE DEF kept
  <2>1. /\ MemoryShape(kept) /\ kept.x = x0 /\ kept.blend = energy
        /\ kept.phi = m.phi /\ kept.in = m.in /\ kept.out = m.out
    BY <2>0 DEF MemoryShape
  <2> QED
    BY <1>1, <1>2, <2>1 DEF MemoryOK
<1>5. CASE res = Unchanged(kept, p, living)
  BY <1>4, <1>5 DEF Unchanged
<1>6. ASSUME ~(TopOf(energy) <= 0), NEW r \in Setpoints(p, x0, energy, budget),
             NEW more,
             LET x1 == Pinned(p, Controlled(p, x0, energy, r))
             IN  res = Result([kept EXCEPT !.x = x1], DensityAlive(x1) \cup p.protected, more)
      PROVE  /\ MemoryOK(p, res.mem) /\ IsDensity(res.mem.x)
             /\ res.raw = DensityAlive(res.mem.x) \cup p.protected
  <2> DEFINE y == Pinned(p, Controlled(p, x0, energy, r))
  <2>1. IsDensity(y)
    <3>1. CASE Elements = {}
      BY <3>1 DEF IsDensity, Pinned
    <3>2. CASE Elements # {}
      <4>1. HighSetpoint(energy) \in Nat
        BY <1>2, <1>6, <3>2, TopIsInteger DEF HighSetpoint, Fine
      <4>2. r \in 0..HighSetpoint(energy)
        <5> DEFINE high == HighSetpoint(energy)
                   ladder == [q \in 0..high |-> DensityKept(p, x0, energy, q)]
        <5>1. r \in Bisected(ladder, budget)
          BY <1>6 DEF Setpoints
        <5>2. DOMAIN ladder = 0..high /\ high \in Int /\ 0 <= high
          BY <4>1
        <5> HIDE DEF high, ladder
        <5>3. r \in 0..high
          BY <5>1, <5>2, BisectedIsRung
        <5> QED
          BY <5>3 DEF high
      <4>3. IsDensity(Controlled(p, x0, energy, r))
        BY <1>1, <1>2, <4>1, <4>2, ControlledIsDensity
      <4> QED
        BY <4>3 DEF IsDensity, Pinned, XMin, Percent
    <3> QED
      BY <3>1, <3>2
  <2> HIDE DEF y
  <2>2. res.mem = [kept EXCEPT !.x = y] /\ res.raw = DensityAlive(y) \cup p.protected
    BY <1>6 DEF Result, y
  <2> HIDE DEF kept
  <2>3. MemoryOK(p, [kept EXCEPT !.x = y]) /\ res.mem.x = y
    BY <1>4, <2>1, <2>2 DEF MemoryOK, MemoryShape
  <2> QED
    BY <2>1, <2>2, <2>3
<1> QED
  BY <1>3, <1>5, <1>6

-----------------------------------------------------------------------------
(* The memory of the level set.                                            *)
LEMMA NodesAreFinite ==
  /\ IsFiniteSet(Nodes)
  /\ \A n \in Nodes : /\ At(n) \in SUBSET Elements /\ At(n) # {}
                       /\ Beside[n] \in SUBSET Nodes /\ IsFiniteSet(Beside[n])
  /\ \A e \in Elements : NodesOf[e] \in SUBSET Nodes /\ NodesOf[e] # {}
  /\ Elements # {} => Nodes # {}
<1>1. IsFiniteSet(Nodes)
  <2> DEFINE Corners == {NodesOf[e] : e \in Elements}
  <2>1. IsFiniteSet(Corners) /\ \A T \in Corners : IsFiniteSet(T)
    BY MeshAssumption, ImageIsFinite
  <2> HIDE DEF Corners
  <2>2. IsFiniteSet(UNION Corners)
    BY <2>1, FS_UNION
  <2> QED
    BY <2>2 DEF Nodes, Corners
<1>2. \A e \in Elements : NodesOf[e] \in SUBSET Nodes /\ NodesOf[e] # {}
  BY MeshAssumption DEF Nodes
<1>3. ASSUME NEW n \in Nodes
      PROVE  /\ At(n) \in SUBSET Elements /\ At(n) # {}
             /\ Beside[n] \in SUBSET Nodes /\ IsFiniteSet(Beside[n])
  <2>1. At(n) \in SUBSET Elements /\ At(n) # {}
    BY DEF At, Nodes
  <2>2. Beside[n] = (UNION {NodesOf[e] : e \in At(n)}) \ {n}
    BY ComputedIsItself DEF Beside
  <2>3. Beside[n] \in SUBSET Nodes
    BY <1>2, <2>1, <2>2
  <2> QED
    BY <1>1, <2>1, <2>3, FS_Subset
<1>4. Elements # {} => Nodes # {}
  BY <1>2
<1> QED
  BY <1>1, <1>2, <1>3, <1>4

LEMMA AroundIsNumber ==
  ASSUME NEW phi \in NodeField, NEW n \in Nodes
  PROVE  /\ Around(phi, n).sum \in Int
         /\ Around(phi, n).of \in Nat /\ Around(phi, n).of > 0
<1> DEFINE b == Beside[n]
<1>1. b \in SUBSET Nodes /\ IsFiniteSet(b)
  BY NodesAreFinite
<1>2. CASE b = {}
  BY <1>2 DEF Around, NodeField
<1>3. CASE b # {}
  <2>1. Around(phi, n) = [sum |-> SumAt(phi, b), of |-> Cardinality(b)]
    BY <1>3 DEF Around, SumAt
  <2>2. \A k \in b : phi[k] \in Int
    BY <1>1 DEF NodeField
  <2> HIDE DEF b
  <2>3. SumAt(phi, b) \in Int
    BY <1>1, <2>2, SumType
  <2>4. Cardinality(b) \in Nat /\ Cardinality(b) # 0
    BY <1>1, <1>3, FS_CardinalityType, FS_EmptySet
  <2> QED
    BY <2>1, <2>3, <2>4
<1> QED
  BY <1>2, <1>3

(* A pass of the smoothing, and all of them.                               *)
OnePass(v) ==
  Computed([n \in Nodes |->
     LET a == Around(v, n)
     IN  (v[n] * a.of + a.sum) \div (SmoothShare * a.of)])

LEMMA OnePassIsField ==
  ASSUME NEW v \in NodeField
  PROVE  OnePass(v) \in NodeField
<1> DEFINE value(n) == (v[n] * Around(v, n).of + Around(v, n).sum)
                         \div (SmoothShare * Around(v, n).of)
<1>1. OnePass(v) = [n \in Nodes |-> value(n)]
  BY ComputedIsItself DEF OnePass
<1>2. ASSUME NEW n \in Nodes PROVE value(n) \in Int
  <2> DEFINE k == Around(v, n).of
             sum == Around(v, n).sum
             num == v[n] * k + sum
             den == SmoothShare * k
  <2>1. k \in Nat /\ k > 0 /\ sum \in Int /\ v[n] \in Int
    BY AroundIsNumber DEF NodeField
  <2> HIDE DEF k, sum
  <2>2. num \in Int /\ den \in Nat /\ den > 0
    BY <2>1 DEF SmoothShare
  <2> HIDE DEF num, den
  <2>3. num \div den \in Int
    BY <2>2
  <2> QED
    BY <2>3 DEF num, den, k, sum
<1> HIDE DEF value
<1> QED
  BY <1>1, <1>2 DEF NodeField

LEMMA SmoothIsField ==
  ASSUME NEW phi \in NodeField, NEW passes \in Nat
  PROVE  Smooth(phi, passes) \in NodeField
<1> DEFINE Is(f) == f = [i \in 0..passes |-> IF i = 0 THEN phi ELSE OnePass(f[i - 1])]
           step == [v \in NodeField |-> OnePass(v)]
<1>1. Smooth(phi, passes) = (CHOOSE f : Is(f))[passes]
  BY DEF Smooth, OnePass
<1>2. step \in [NodeField -> NodeField]
  BY OnePassIsField
<1>3. \E f : Is(f)
  <2>1. PICK f : Iterates(f, NodeField, phi, step, passes)
    <3> HIDE DEF step
    <3> QED
      BY <1>2, IteratesExist
  <2>2. ASSUME NEW i \in 0..passes
        PROVE  f[i] = IF i = 0 THEN phi ELSE OnePass(f[i - 1])
    <3>1. CASE i = 0
      BY <2>1, <3>1 DEF Iterates
    <3>2. CASE i # 0
      <4>1. i \in 1..passes /\ i - 1 \in 0..passes
        BY <3>2
      <4>2. f[i - 1] \in NodeField /\ f[i] = step[f[i - 1]]
        BY <2>1, <4>1 DEF Iterates
      <4> QED
        BY <3>2, <4>2
    <3> QED
      BY <3>1, <3>2
  <2>3. f = [i \in 0..passes |-> f[i]]
    BY <2>1 DEF Iterates
  <2> QED
    BY <2>2, <2>3
<1> DEFINE f == CHOOSE g : Is(g)
<1>4. Is(f)
  BY <1>3
<1> HIDE DEF f
<1>5. f[0] = phi /\ \A i \in 1..passes : f[i] = OnePass(f[i - 1])
  BY <1>4
<1>6. f[passes] \in NodeField
  BY <1>5, OnePassIsField, IteratesKeep
<1> QED
  BY <1>1, <1>6 DEF f

(* A pass of the reaction-diffusion step's iteration, and all of them.     *)
SettlePass(rhs, c, v) ==
  Computed([n \in Nodes |->
     LET a == Around(v, n)
     IN  (rhs[n] * a.of + c * a.sum) \div (a.of * (1 + c))])

LEMMA SettlePassIsField ==
  ASSUME NEW rhs \in NodeField, NEW c \in Nat, NEW v \in NodeField
  PROVE  SettlePass(rhs, c, v) \in NodeField
<1> DEFINE value(n) == (rhs[n] * Around(v, n).of + c * Around(v, n).sum)
                         \div (Around(v, n).of * (1 + c))
<1>1. SettlePass(rhs, c, v) = [n \in Nodes |-> value(n)]
  BY ComputedIsItself DEF SettlePass
<1>2. ASSUME NEW n \in Nodes PROVE value(n) \in Int
  <2> DEFINE k == Around(v, n).of
             sum == Around(v, n).sum
             num == rhs[n] * k + c * sum
             den == k * (1 + c)
  <2>1. k \in Nat /\ k > 0 /\ sum \in Int /\ rhs[n] \in Int
    BY AroundIsNumber DEF NodeField
  <2> HIDE DEF k, sum
  <2>2. num \in Int
    BY <2>1
  <2>3. den \in Nat /\ den > 0
    <3>1. k * (1 + c) = k + k * c /\ k * c \in Nat
      BY <2>1
    <3> QED
      BY <2>1, <3>1
  <2> HIDE DEF num, den
  <2>4. num \div den \in Int
    BY <2>2, <2>3
  <2> QED
    BY <2>4 DEF num, den, k, sum
<1> HIDE DEF value
<1> QED
  BY <1>1, <1>2 DEF NodeField

LEMMA RdeStepIsField ==
  ASSUME NEW p \in Plans, NEW phi \in NodeField, NEW velocity \in NodeField
  PROVE  RdeStep(p, phi, velocity) \in NodeField
<1> DEFINE c == p.diffusion
           rhs == Computed([n \in Nodes |-> phi[n] + (p.dt * velocity[n]) \div Percent])
<1>1. c \in Int
  BY FieldAssumption
<1>2. rhs \in NodeField
  <2> DEFINE rise(n) == (p.dt * velocity[n]) \div Percent
  <2>1. rhs = [n \in Nodes |-> phi[n] + rise(n)]
    BY ComputedIsItself
  <2>2. ASSUME NEW n \in Nodes PROVE phi[n] \in Int /\ rise(n) \in Int
    <3>1. p.dt * velocity[n] \in Int
      BY FieldAssumption DEF NodeField
    <3>2. phi[n] \in Int
      BY DEF NodeField
    <3> QED
      BY <3>1, <3>2 DEF Percent
  <2> HIDE DEF rise
  <2> QED
    BY <2>1, <2>2 DEF NodeField
<1>3. CASE c <= 0
  BY <1>2, <1>3 DEF RdeStep
<1>4. CASE ~(c <= 0)
  <2> DEFINE Is(f) == f = [i \in 0..RdeIterations |->
                             IF i = 0 THEN rhs ELSE SettlePass(rhs, c, f[i - 1])]
             step == [v \in NodeField |-> SettlePass(rhs, c, v)]
  <2>1. RdeStep(p, phi, velocity) = (CHOOSE f : Is(f))[RdeIterations]
    BY <1>4 DEF RdeStep, SettlePass
  <2> HIDE DEF rhs, c
  <2>2. c \in Nat /\ RdeIterations \in Nat
    BY <1>1, <1>4 DEF RdeIterations
  <2>3. step \in [NodeField -> NodeField]
    BY <1>2, <2>2, SettlePassIsField
  <2>4. \E f : Is(f)
    <3>1. PICK f : Iterates(f, NodeField, rhs, step, RdeIterations)
      <4> HIDE DEF step
      <4> QED
        BY <1>2, <2>2, <2>3, IteratesExist
    <3>2. ASSUME NEW i \in 0..RdeIterations
          PROVE  f[i] = IF i = 0 THEN rhs ELSE SettlePass(rhs, c, f[i - 1])
      <4>1. CASE i = 0
        BY <3>1, <4>1 DEF Iterates
      <4>2. CASE i # 0
        <5>1. i \in 1..RdeIterations /\ i - 1 \in 0..RdeIterations
          BY <2>2, <4>2
        <5>2. f[i - 1] \in NodeField /\ f[i] = step[f[i - 1]]
          BY <3>1, <5>1 DEF Iterates
        <5> QED
          BY <4>2, <5>2
      <4> QED
        BY <4>1, <4>2
    <3>3. f = [i \in 0..RdeIterations |-> f[i]]
      BY <3>1 DEF Iterates
    <3> QED
      BY <3>2, <3>3
  <2> DEFINE f == CHOOSE g : Is(g)
  <2>5. Is(f)
    BY <2>4
  <2> HIDE DEF f
  <2>6. f[0] = rhs /\ \A i \in 1..RdeIterations : f[i] = SettlePass(rhs, c, f[i - 1])
    BY <2>2, <2>5
  <2>7. f[RdeIterations] \in NodeField
    BY <1>2, <2>2, <2>6, SettlePassIsField, IteratesKeep
  <2> QED
    BY <2>1, <2>7 DEF f
<1> QED
  BY <1>3, <1>4

(* Weighted sums of an element field at a node.                            *)
Weighted(vals, S) == MapThenSumSet(LAMBDA e : Vol[e] * vals[e], S)

LEMMA WeightedSum ==
  ASSUME NEW S, IsFiniteSet(S), NEW vals, \A e \in S : Vol[e] * vals[e] \in Int
  PROVE  Weighted(vals, S) \in Int
<1> DEFINE w == [e \in S |-> Vol[e] * vals[e]]
           Is(g) == g = [s \in SUBSET S |->
                           IF s = {} THEN 0
                           ELSE Vol[One(s)] * vals[One(s)] + g[s \ {One(s)}]]
           fixed == CHOOSE g : Is(g)
<1>1. Weighted(vals, S) = fixed[S]
  BY DEF Weighted, MapThenSumSet, MapThenFoldSet, One
<1>2. PICK g : IsSum(g, w, S) /\ SumAt(w, S) = g[S]
  BY SumIsSum
<1>3. \A s \in SUBSET S : s # {} => w[One(s)] = Vol[One(s)] * vals[One(s)]
  BY OneIsMember
<1> HIDE DEF w
<1>4. \A h : Is(h) <=> IsSum(h, w, S)
  BY <1>3 DEF IsSum
<1>5. IsSum(fixed, w, S)
  <2>1. \E h : Is(h)
    BY <1>2, <1>4
  <2>2. Is(fixed)
    BY <2>1
  <2> HIDE DEF fixed
  <2> QED
    BY <1>4, <2>2
<1>6. fixed[S] = g[S]
  <2> HIDE DEF fixed
  <2> QED
    BY <1>2, <1>5, SumIsUnique
<1>7. SumAt(w, S) \in Int
  BY SumType DEF w
<1> QED
  BY <1>1, <1>2, <1>6, <1>7

LEMMA ScatterIsField ==
  ASSUME NEW vals \in [Elements -> Int]
  PROVE  Scatter(vals) \in NodeField
<1> DEFINE sum(n) == Weighted(vals, At(n))
<1>1. Scatter(vals) = [n \in Nodes |-> sum(n) \div VolumeOf(At(n))]
  BY ComputedIsItself DEF Scatter, Weighted
<1>2. ASSUME NEW n \in Nodes PROVE sum(n) \div VolumeOf(At(n)) \in Int
  <2>1. At(n) \in SUBSET Elements /\ At(n) # {} /\ IsFiniteSet(At(n))
    BY NodesAreFinite, MeshAssumption, FS_Subset
  <2>2. ASSUME NEW e \in At(n) PROVE Vol[e] * vals[e] \in Int
    <3>1. e \in Elements
      BY <2>1
    <3>2. Vol[e] \in Nat
      BY <3>1, MeshAssumption
    <3>3. vals[e] \in Int
      BY <3>1
    <3> QED
      BY <3>2, <3>3
  <2>3. sum(n) \in Int
    BY <2>1, <2>2, WeightedSum
  <2>4. VolumeOf(At(n)) \in Nat \ {0}
    BY <2>1, VolumeIsPositive
  <2> HIDE DEF sum
  <2> QED
    BY <2>3, <2>4
<1> HIDE DEF sum
<1> QED
  BY <1>1, <1>2 DEF NodeField

(* The band.                                                               *)
LEMMA ClampedIsInBand ==
  ASSUME NEW v \in Int, NEW band \in Nat
  PROVE  Clamped(v, band) \in -band..band
<1> DEFINE lo == -band
<1>1. lo \in Int /\ lo <= band
  OBVIOUS
<1>2. Clamped(v, band) = Clip(v, lo, band)
  BY DEF Clamped, Clip
<1> HIDE DEF lo
<1>3. Clip(v, lo, band) \in lo..band
  BY <1>1, Clipped
<1> QED
  BY <1>2, <1>3 DEF lo

LEMMA InBandIsBand ==
  ASSUME NEW phi, \A n \in Nodes : phi[n] \in Int, NEW band \in Nat
  PROVE  InBand(phi, band) \in [Nodes -> -band..band]
<1>1. InBand(phi, band) = [n \in Nodes |-> Clamped(phi[n], band)]
  BY ComputedIsItself DEF InBand
<1>2. \A n \in Nodes : Clamped(phi[n], band) \in -band..band
  BY ClampedIsInBand
<1> QED
  BY <1>1, <1>2

LEMMA BandIsField ==
  ASSUME NEW band \in Nat, NEW phi \in [Nodes -> -band..band]
  PROVE  phi \in NodeField
<1>1. -band..band \subseteq Int
  OBVIOUS
<1> QED
  BY <1>1 DEF NodeField

(* The first level set, from the ranks of the energies.                    *)
LEMMA RankIsInteger ==
  ASSUME NEW S \in SUBSET Elements, NEW field, NEW e, NEW span \in Int
  PROVE  RankShare(S, field, e, span) \in Int
<1> DEFINE Below == {f \in S : field[f] < field[e]}
           Equal == {f \in S : field[f] = field[e]}
           num == span * (2 * Cardinality(Below) + Cardinality(Equal) + 1)
           den == 2 * (Cardinality(S) + 1)
<1>1. IsFiniteSet(S) /\ IsFiniteSet(Below) /\ IsFiniteSet(Equal)
  <2>1. IsFiniteSet(S) /\ Below \in SUBSET S /\ Equal \in SUBSET S
    BY MeshAssumption, FS_Subset
  <2> HIDE DEF Below, Equal
  <2> QED
    BY <2>1, FS_Subset
<1>2. RankShare(S, field, e, span) = num \div den
  BY DEF RankShare
<1> HIDE DEF Below, Equal
<1>3. Cardinality(S) \in Nat /\ Cardinality(Below) \in Nat /\ Cardinality(Equal) \in Nat
  BY <1>1, FS_CardinalityType
<1>4. num \in Int /\ den \in Nat /\ den > 0
  BY <1>3
<1> HIDE DEF num, den
<1> QED
  BY <1>2, <1>4

LEMMA InitPhiIsField ==
  ASSUME NEW p \in Plans, NEW living \in SUBSET Elements, NEW field
  PROVE  InitPhi(p, living, field) \in NodeField
<1>1. p.band \in Nat /\ p.passes \in Nat
  BY FieldAssumption
<1>2. Spread0(p, living, field) \in [Elements -> Int]
  <2>1. ASSUME NEW e \in Elements
        PROVE  /\ RankShare(living, field, e, p.band) \in Int
               /\ RankShare(Elements \ living, field, e, p.band) - p.band \in Int
    <3>1. Elements \ living \in SUBSET Elements /\ p.band \in Int
      BY <1>1
    <3>2. /\ RankShare(living, field, e, p.band) \in Int
          /\ RankShare(Elements \ living, field, e, p.band) \in Int
      BY <3>1, RankIsInteger
    <3> QED
      BY <3>1, <3>2
  <2> QED
    BY <2>1 DEF Spread0
<1>3. Smooth(Scatter(Spread0(p, living, field)), p.passes) \in NodeField
  BY <1>1, <1>2, ScatterIsField, SmoothIsField
<1>4. InitPhi(p, living, field) \in [Nodes -> -p.band..p.band]
  BY <1>1, <1>3, InBandIsBand DEF InitPhi, NodeField
<1> QED
  BY <1>1, <1>4, BandIsField

(* What has gone from the mask is lowered.                                 *)
LEMMA LoweredIsField ==
  ASSUME NEW p \in Plans, NEW phi \in NodeField, NEW stale
  PROVE  Lowered(p, phi, stale) \in NodeField
<1> DEFINE push == [e \in Elements |-> ElementSum(phi, e) \div Cardinality(NodesOf[e]) + 1]
           Pushes(n) == {0} \cup {push[e] : e \in stale \cap At(n)}
           value(n) == Max({-p.band, phi[n] - Max(Pushes(n))})
<1>1. p.band \in Nat
  BY FieldAssumption
<1>2. ASSUME NEW e \in Elements PROVE push[e] \in Int
  <2>1. IsFiniteSet(NodesOf[e]) /\ NodesOf[e] # {} /\ NodesOf[e] \in SUBSET Nodes
    BY MeshAssumption, NodesAreFinite
  <2>2. \A n \in NodesOf[e] : phi[n] \in Int
    BY <2>1 DEF NodeField
  <2>3. ElementSum(phi, e) \in Int
    <3>1. ElementSum(phi, e) = SumAt(phi, NodesOf[e])
      BY DEF ElementSum, SumAt
    <3>2. SumAt(phi, NodesOf[e]) \in Int
      BY <2>1, <2>2, SumType
    <3> QED
      BY <3>1, <3>2
  <2>4. Cardinality(NodesOf[e]) \in Nat /\ Cardinality(NodesOf[e]) # 0
    BY <2>1, FS_CardinalityType, FS_EmptySet
  <2> QED
    BY <2>3, <2>4
<1>3. Lowered(p, phi, stale) = [n \in Nodes |-> value(n)]
  <2>1. \A n \in Nodes :
          {push[e] : e \in stale \cap At(n)}
            = {ElementSum(phi, e) \div Cardinality(NodesOf[e]) + 1 : e \in stale \cap At(n)}
    BY DEF At
  <2>2. Lowered(p, phi, stale)
          = [n \in Nodes |-> Max({-p.band, phi[n] -
               Max({0} \cup {ElementSum(phi, e) \div Cardinality(NodesOf[e]) + 1 :
                               e \in stale \cap At(n)})})]
    BY ComputedIsItself DEF Lowered
  <2> HIDE DEF push
  <2> QED
    BY <2>1, <2>2
<1>4. ASSUME NEW n \in Nodes PROVE value(n) \in Int
  <2>1. IsFiniteSet(stale \cap At(n)) /\ stale \cap At(n) \subseteq Elements
    BY MeshAssumption, FS_Subset DEF At
  <2> HIDE DEF push
  <2>2. IsFiniteSet({push[e] : e \in stale \cap At(n)})
    BY <2>1, ImageIsFinite
  <2>3. IsFiniteSet(Pushes(n)) /\ Pushes(n) # {} /\ \A x \in Pushes(n) : x \in Int
    <3>1. IsFiniteSet(Pushes(n))
      <4>1. IsFiniteSet({0})
        BY FS_Singleton
      <4> QED
        BY <2>2, <4>1, FS_Union
    <3>2. \A x \in Pushes(n) : x \in Int
      BY <1>2, <2>1
    <3> QED
      BY <3>1, <3>2
  <2> DEFINE most == Max(Pushes(n))
             rest == phi[n] - most
             lo == -p.band
  <2> HIDE DEF Pushes
  <2>4. most \in Int
    BY <2>3, FiniteExtremes
  <2>5. rest \in Int /\ lo \in Int
    BY <1>1, <2>4 DEF NodeField
  <2>6. Max({lo, rest}) \in Int
    <3> HIDE DEF lo, rest
    <3> QED
      BY <2>5, TwoExtremes
  <2> QED
    BY <2>6
<1> HIDE DEF value
<1> QED
  BY <1>3, <1>4 DEF NodeField

LEMMA ResyncedIsField ==
  ASSUME NEW p \in Plans, NEW phi \in NodeField, NEW living
  PROVE  ResyncedPhi(p, phi, living) \in NodeField
<1> DEFINE Pass(v) == LET stale == StalePhi(p, v, living)
                       IN  IF stale = {} THEN v ELSE Lowered(p, v, stale)
           Is(f) == f = [i \in 0..ResyncPasses |-> IF i = 0 THEN phi ELSE Pass(f[i - 1])]
           step == [v \in NodeField |-> Pass(v)]
<1>1. ResyncedPhi(p, phi, living) = (CHOOSE f : Is(f))[ResyncPasses]
  BY DEF ResyncedPhi
<1>2. \A v \in NodeField : Pass(v) \in NodeField
  BY LoweredIsField
<1> HIDE DEF Pass
<1>3. step \in [NodeField -> NodeField] /\ ResyncPasses \in Nat
  BY <1>2 DEF ResyncPasses
<1>4. \E f : Is(f)
  <2>1. PICK f : Iterates(f, NodeField, phi, step, ResyncPasses)
    <3> HIDE DEF step
    <3> QED
      BY <1>3, IteratesExist
  <2>2. ASSUME NEW i \in 0..ResyncPasses
        PROVE  f[i] = IF i = 0 THEN phi ELSE Pass(f[i - 1])
    <3>1. CASE i = 0
      BY <2>1, <3>1 DEF Iterates
    <3>2. CASE i # 0
      <4>1. i \in 1..ResyncPasses /\ i - 1 \in 0..ResyncPasses
        BY <1>3, <3>2
      <4>2. f[i - 1] \in NodeField /\ f[i] = step[f[i - 1]]
        BY <2>1, <4>1 DEF Iterates
      <4> QED
        BY <3>2, <4>2
    <3> QED
      BY <3>1, <3>2
  <2>3. f = [i \in 0..ResyncPasses |-> f[i]]
    BY <2>1 DEF Iterates
  <2> QED
    BY <2>2, <2>3
<1> DEFINE f == CHOOSE g : Is(g)
<1>5. Is(f)
  BY <1>4
<1> HIDE DEF f
<1>6. f[0] = phi /\ \A i \in 1..ResyncPasses : f[i] = Pass(f[i - 1])
  BY <1>3, <1>5
<1>7. f[ResyncPasses] \in NodeField
  BY <1>2, <1>3, <1>6, IteratesKeep
<1> QED
  BY <1>1, <1>7 DEF f

(* The speed of the level set.                                             *)
LEMMA PercentileIsInteger ==
  ASSUME NEW S \in SUBSET Elements, S # {}, NEW field \in [Elements -> Int]
  PROVE  Percentile99(S, field) \in Int
<1> DEFINE top    == CHOOSE e \in S : \A f \in S : field[f] <= field[e]
           rest   == S \ {top}
           second == Max({field[f] : f \in rest})
           n      == Cardinality(S)
<1>1. IsFiniteSet(S) /\ \A e \in S : field[e] \in Int
  BY MeshAssumption, FS_Subset
<1>2. top \in S
  <2> DEFINE T == {field[e] : e \in S}
  <2>1. IsFiniteSet(T) /\ T # {} /\ \A y \in T : y \in Int
    BY <1>1, ImageIsFinite
  <2>2. \A e \in S : field[e] \in T
    OBVIOUS
  <2>3. \A y \in T : \E e \in S : y = field[e]
    OBVIOUS
  <2> HIDE DEF T
  <2>4. Max(T) \in T /\ \A y \in T : Max(T) >= y
    BY <2>1, FiniteExtremes
  <2>5. PICK e \in S : Max(T) = field[e]
    BY <2>3, <2>4
  <2>6. \A f \in S : field[f] <= field[e]
    BY <1>1, <2>2, <2>4, <2>5
  <2> QED
    BY <2>6
<1>3. n \in Nat /\ field[top] \in Int
  BY <1>1, <1>2, FS_CardinalityType
<1>4. Percentile99(S, field)
        = IF n = 1 THEN field[top]
          ELSE second + ((Percent - (n - 1)) * (field[top] - second)) \div Percent
  BY DEF Percentile99
<1> HIDE DEF top
<1>5. CASE n = 1
  BY <1>3, <1>4, <1>5
<1>6. CASE n # 1
  <2>1. rest # {} /\ IsFiniteSet(rest) /\ \A f \in rest : field[f] \in Int
    <3>1. S # {top}
      BY <1>1, <1>6, FS_Singleton
    <3> QED
      BY <1>1, <1>2, <3>1, FS_Subset
  <2> HIDE DEF rest, n
  <2>2. second \in Int
    BY <2>1, ExtremesOfValues
  <2> HIDE DEF second
  <2> DEFINE m == (Percent - (n - 1)) * (field[top] - second)
  <2>3. m \in Int
    BY <1>3, <2>2 DEF Percent
  <2> HIDE DEF m
  <2>4. second + m \div Percent \in Int
    BY <2>2, <2>3 DEF Percent
  <2> QED
    BY <1>4, <1>6, <2>4 DEF m
<1> QED
  BY <1>5, <1>6

LEMMA SpeedScaleIsInteger ==
  ASSUME NEW p, NEW living \in SUBSET Elements, Elements # {}, NEW field \in [Elements -> Int]
  PROVE  SpeedScale(p, living, field) \in Int
<1> DEFINE actionable == living \ p.protected
           pool == IF actionable = {} THEN Elements ELSE actionable
<1>1. pool \in SUBSET Elements /\ pool # {} /\ IsFiniteSet(pool)
  BY MeshAssumption, FS_Subset
<1>2. SpeedScale(p, living, field)
        = LET tops == <<Percentile99(pool, field), Max({field[e] : e \in pool}),
                        Max({field[e] : e \in Elements})>>
          IN  IF tops[1] > 0 THEN tops[1] ELSE IF tops[2] > 0 THEN tops[2] ELSE tops[3]
  BY DEF SpeedScale
<1> HIDE DEF pool
<1>3. Percentile99(pool, field) \in Int
  BY <1>1, PercentileIsInteger
<1>4. \A e \in pool : field[e] \in Int
  BY <1>1
<1>5. Max({field[e] : e \in pool}) \in Int
  BY <1>1, <1>4, ExtremesOfValues
<1>6. Max({field[e] : e \in Elements}) \in Int
  BY MeshAssumption, ExtremesOfValues
<1> QED
  BY <1>2, <1>3, <1>5, <1>6

LEMMA VelocityIsField ==
  ASSUME NEW p \in Plans, NEW living \in SUBSET Elements, Elements # {},
         NEW field \in [Elements -> Int]
  PROVE  Velocity(p, living, field) \in NodeField
<1> DEFINE scale == SpeedScale(p, living, field)
           vn == Scatter([e \in Elements |-> Percent * field[e]])
           speed(n) == IF scale > 0 THEN Clamped(vn[n] \div scale, Percent) ELSE vn[n]
           value(n) == speed(n) - (p.nucleation * (Percent - speed(n))) \div Percent
<1>1. Velocity(p, living, field) = [n \in Nodes |-> value(n)]
  BY ComputedIsItself DEF Velocity
<1>2. scale \in Int
  BY SpeedScaleIsInteger
<1>3. vn \in NodeField
  <2>1. [e \in Elements |-> Percent * field[e]] \in [Elements -> Int]
    BY DEF Percent
  <2> QED
    BY <2>1, ScatterIsField
<1> HIDE DEF scale, vn
<1>4. ASSUME NEW n \in Nodes PROVE value(n) \in Int
  <2>1. vn[n] \in Int
    BY <1>3 DEF NodeField
  <2>2. speed(n) \in Int
    <3>1. CASE scale > 0
      <4>1. vn[n] \div scale \in Int
        BY <1>2, <2>1, <3>1
      <4>2. Percent \in Nat /\ -Percent..Percent \subseteq Int
        BY DEF Percent
      <4>3. Clamped(vn[n] \div scale, Percent) \in -Percent..Percent
        BY <4>1, <4>2, ClampedIsInBand
      <4> QED
        BY <3>1, <4>2, <4>3
    <3>2. CASE ~(scale > 0)
      BY <2>1, <3>2
    <3> QED
      BY <3>1, <3>2
  <2> DEFINE num == p.nucleation * (Percent - speed(n))
  <2> HIDE DEF speed
  <2>3. num \in Int
    BY <2>2, FieldAssumption DEF Percent
  <2> HIDE DEF num
  <2>4. speed(n) - num \div Percent \in Int
    BY <2>2, <2>3 DEF Percent
  <2> QED
    BY <2>4 DEF num
<1> HIDE DEF value
<1> QED
  BY <1>1, <1>4 DEF NodeField

LEMMA EvolvedIsField ==
  ASSUME NEW p \in Plans, NEW phi \in NodeField, NEW living \in SUBSET Elements,
         Elements # {}, NEW field \in [Elements -> Int]
  PROVE  Evolved(p, phi, living, field) \in NodeField
<1> DEFINE velocity == Velocity(p, living, field)
           rise(n) == (p.dt * velocity[n]) \div Percent
           moved == Computed([n \in Nodes |-> phi[n] + rise(n)])
<1>1. velocity \in NodeField
  BY VelocityIsField
<1> HIDE DEF velocity
<1>2. moved \in NodeField
  <2>1. moved = [n \in Nodes |-> phi[n] + rise(n)]
    BY ComputedIsItself
  <2>2. ASSUME NEW n \in Nodes PROVE phi[n] + rise(n) \in Int
    <3>1. p.dt * velocity[n] \in Int /\ phi[n] \in Int
      BY <1>1, FieldAssumption DEF NodeField
    <3> QED
      BY <3>1 DEF Percent
  <2> HIDE DEF rise, moved
  <2> QED
    BY <2>1, <2>2 DEF NodeField
<1>3. Evolved(p, phi, living, field)
        = IF p.rule = "rde" THEN RdeStep(p, phi, velocity) ELSE Smooth(moved, p.passes)
  BY DEF Evolved, velocity
<1> HIDE DEF moved
<1>4. RdeStep(p, phi, velocity) \in NodeField
  BY <1>1, RdeStepIsField
<1>5. Smooth(moved, p.passes) \in NodeField
  BY <1>2, SmoothIsField, FieldAssumption
<1> QED
  BY <1>3, <1>4, <1>5

LEMMA LevelEnds ==
  ASSUME NEW p \in Plans, NEW base \in NodeField, Elements # {}
  PROVE  /\ LowLevel(p, base) \in Int /\ HighLevel(p, base) \in Int
         /\ LowLevel(p, base) <= HighLevel(p, base)
         /\ Max({base[n] : n \in Nodes}) \in Int
<1> DEFINE lowest == Min({base[n] : n \in Nodes})
           highest == Max({base[n] : n \in Nodes})
<1>1. /\ lowest \in Int /\ highest \in Int
      /\ \A n \in Nodes : lowest <= base[n] /\ base[n] <= highest
  BY NodesAreFinite, ExtremesOfValues DEF NodeField
<1>2. PICK n \in Nodes : TRUE
  BY NodesAreFinite
<1>3. base[n] \in Int /\ lowest <= base[n] /\ base[n] <= highest
  BY <1>1 DEF NodeField
<1>4. p.band \in Nat
  BY FieldAssumption
<1>5. LowLevel(p, base) = lowest - p.band - 1 /\ HighLevel(p, base) = highest + p.band + 1
  BY DEF LowLevel, HighLevel
<1>6. highest \in Int
  BY <1>1
<1> HIDE DEF lowest, highest
<1>7. lowest \in Int /\ lowest <= highest
  BY <1>1, <1>3
<1> QED
  BY <1>4, <1>5, <1>6, <1>7 DEF highest

LEMMA LevelIsInteger ==
  ASSUME NEW p \in Plans, NEW base \in NodeField, Elements # {}, NEW budget,
         NEW tau \in Levels(p, base, budget)
  PROVE  tau \in Int
<1> DEFINE lo == LowLevel(p, base)
           hi == HighLevel(p, base)
           ladder == [t \in lo..hi |-> LevelKept(p, base, t)]
<1>1. lo \in Int /\ hi \in Int /\ lo <= hi /\ Max({base[n] : n \in Nodes}) \in Int
  BY LevelEnds
<1>2. CASE p.protected = Elements
  <2>1. tau = Max({base[n] : n \in Nodes}) + 1
    BY <1>2 DEF Levels
  <2> QED
    BY <1>1, <2>1
<1>3. CASE p.protected # Elements
  <2>1. tau \in Bisected(ladder, budget)
    BY <1>3 DEF Levels
  <2>2. DOMAIN ladder = lo..hi
    OBVIOUS
  <2> HIDE DEF ladder, lo, hi
  <2> QED
    BY <1>1, <2>1, <2>2, BisectedIsRung
<1> QED
  BY <1>2, <1>3

LEMMA LevelSetMemory ==
  ASSUME NEW p \in Plans, p.alg = "levelset", NEW m, MemoryOK(p, m),
         NEW living \in SUBSET Elements, NEW field \in [Elements -> Int], NEW target,
         NEW res \in LevelSetUpdates(p, m, living, field, target)
  PROVE  /\ MemoryOK(p, res.mem) /\ res.mem.phi \in [Nodes -> -p.band..p.band]
         /\ res.mem.phi \in NodeField /\ res.raw = ElementsAlive(p, res.mem.phi)
<1> DEFINE first  == m.phi = None
           phi0   == IF first THEN InitPhi(p, living, field) ELSE ResyncedPhi(p, m.phi, living)
           refund == IF first THEN 0 ELSE VolumeOf(StalePhi(p, m.phi, living))
           base   == Evolved(p, phi0, living, field)
           budget == Free(p, target) + refund * Scale
<1>1. p.band \in Nat
  BY FieldAssumption
<1>2. phi0 \in NodeField
  <2>1. CASE first
    BY <2>1, InitPhiIsField
  <2>2. CASE ~first
    <3>1. m.phi \in NodeField
      BY <2>2 DEF MemoryOK
    <3> QED
      BY <2>2, <3>1, ResyncedIsField
  <2> QED
    BY <2>1, <2>2
<1>3. \E tau \in Levels(p, base, budget) : \E more :
        LET y == AtLevel(p, base, tau)
        IN  res = Result([m EXCEPT !.phi = y], ElementsAlive(p, y), more)
  BY DEF LevelSetUpdates
<1>4. PICK tau \in Levels(p, base, budget) :
        \E more : LET y == AtLevel(p, base, tau)
                  IN  res = Result([m EXCEPT !.phi = y], ElementsAlive(p, y), more)
  BY <1>3
<1> DEFINE phi1 == AtLevel(p, base, tau)
<1>5. phi1 \in [Nodes -> -p.band..p.band]
  <2> DEFINE low == [n \in Nodes |-> base[n] - tau]
  <2>1. phi1 = InBand(low, p.band)
    BY DEF AtLevel
  <2>2. CASE Elements = {}
    <3>1. Nodes = {}
      BY <2>2 DEF Nodes
    <3> HIDE DEF low
    <3> QED
      BY <1>1, <2>1, <3>1, InBandIsBand
  <2>3. CASE Elements # {}
    <3>1. base \in NodeField
      <4> HIDE DEF phi0
      <4> QED
        BY <1>2, <2>3, EvolvedIsField
    <3> HIDE DEF base, budget
    <3>2. tau \in Int
      BY <1>4, <2>3, <3>1, LevelIsInteger
    <3>3. \A n \in Nodes : low[n] \in Int
      BY <3>1, <3>2 DEF NodeField
    <3> HIDE DEF low
    <3> QED
      BY <1>1, <2>1, <3>3, InBandIsBand
  <2> QED
    BY <2>2, <2>3
<1> HIDE DEF phi1, base, budget
<1>6. res.mem = [m EXCEPT !.phi = phi1] /\ res.raw = ElementsAlive(p, phi1)
  BY <1>4 DEF Result, phi1
<1>7. MemoryShape(m)
  BY DEF MemoryOK
<1>8. /\ MemoryShape(res.mem) /\ res.mem.phi = phi1 /\ res.mem.x = m.x
      /\ res.mem.blend = m.blend /\ res.mem.in = m.in /\ res.mem.out = m.out
  BY <1>6, <1>7 DEF MemoryShape
<1>9. phi1 \in NodeField
  BY <1>1, <1>5, BandIsField
<1> QED
  BY <1>5, <1>6, <1>8, <1>9 DEF MemoryOK

LEMMA SaipMemoryOK ==
  ASSUME NEW p \in Plans, p.alg = "saip", NEW m, MemoryOK(p, m),
         NEW living \in SUBSET Elements, NEW field, NEW target,
         NEW res \in SaipUpdates(p, m, living, field, target)
  PROVE  MemoryOK(p, res.mem)
<1>1. MemoryShape(m) /\ m.x = None /\ m.blend = None /\ m.phi = None
  BY DEF MemoryOK
<1>2. Remembered(p, m, living).in = living
  BY <1>1, RememberedShape
<1>3. /\ MemoryShape(res.mem) /\ res.mem.in = living
      /\ res.mem.x = None /\ res.mem.blend = None /\ res.mem.phi = None
      /\ res.mem.out \subseteq Elements
  BY <1>1, <1>2, SaipMemory
<1> QED
  BY <1>3 DEF MemoryOK

-----------------------------------------------------------------------------
(* Types.                                                                  *)
InItsBand ==
  mem.phi # None /\ last.step \in {"updated", "recovered"} =>
    mem.phi \in [Nodes -> -plan.band..plan.band]

FieldInv ==
  /\ EarnInv
  /\ MemoryOK(plan, mem)
  /\ DesignsAreSound
  /\ InItsBand
  /\ sens \in Fields \cup {None}
  /\ it \in 0..MaxIterations

LEMMA InitField == Init => FieldInv
<1> SUFFICES ASSUME Init PROVE FieldInv
  OBVIOUS
<1>1. EarnInv
  BY InitEarn
<1>2. /\ plan \in Plans /\ mem = NoMemory /\ sens = None /\ it = 0
      /\ last = Idle("start")
  BY DEF Init
<1>3. MemoryOK(plan, mem)
  BY <1>2 DEF NoMemory, MemoryOK, MemoryShape
<1>4. DesignsAreSound /\ InItsBand
  BY <1>2 DEF DesignsAreSound, InItsBand, Idle
<1> QED
  BY <1>1, <1>2, <1>3, <1>4, FieldAssumption DEF FieldInv

LEMMA UpdateKeepsField ==
  ASSUME Asymptotes, FieldInv, NEW field \in [Elements -> Int], NEW target, NEW what,
         UpdateWith(field, target, what), it < MaxIterations,
         sens' \in Fields \cup {None}
  PROVE  FieldInv'
<1>1. PICK res \in UpdateResults(plan, mem, alive, field, target) : mem' = res.mem
  BY DEF UpdateWith
<1>2. plan' = plan /\ it' = it + 1
  BY DEF UpdateWith
<1>3. EarnInv /\ plan \in Plans /\ alive \in SUBSET Elements /\ MemoryOK(plan, mem)
  BY DEF FieldInv, EarnInv
<1>4. EarnInv'
  BY <1>3, UpdateEarns
<1>5. MemoryOK(plan, mem') /\ (mem'.phi # None => mem'.phi \in [Nodes -> -plan.band..plan.band])
  <2>1. plan.alg \in {"hca", "saip", "levelset"}
    BY <1>3, FieldAssumption
  <2>2. CASE plan.alg = "hca"
    <3>1. MemoryOK(plan, mem')
      BY <1>1, <1>3, <2>2, HcaMemory DEF UpdateResults
    <3> QED
      BY <2>2, <3>1 DEF MemoryOK
  <2>3. CASE plan.alg = "levelset"
    BY <1>1, <1>3, <2>3, LevelSetMemory DEF UpdateResults
  <2>4. CASE plan.alg = "saip"
    <3>1. MemoryOK(plan, mem')
      BY <1>1, <1>3, <2>4, SaipMemoryOK DEF UpdateResults
    <3> QED
      BY <2>4, <3>1 DEF MemoryOK
  <2> QED
    BY <2>1, <2>2, <2>3, <2>4
<1>6. DesignsAreSound'
  <2>1. Sound(plan, alive')
    BY <1>3, UpdateIsSound
  <2> QED
    BY <1>2, <2>1 DEF Sound, DesignsAreSound
<1>7. it' \in 0..MaxIterations
  BY <1>2, FieldAssumption DEF FieldInv
<1>8. InItsBand'
  BY <1>2, <1>5 DEF InItsBand
<1> QED
  BY <1>2, <1>4, <1>5, <1>6, <1>7, <1>8 DEF FieldInv, MemoryOK, MemoryShape, IsDensity

LEMMA NextField == Asymptotes /\ FieldInv /\ [Next]_vars => FieldInv'
<1> SUFFICES ASSUME Asymptotes, FieldInv, [Next]_vars PROVE FieldInv'
  OBVIOUS
<1>1. EarnInv'
  BY NextEarn DEF FieldInv
<1>2. ASSUME NEW v \in Utilisations, NEW field \in Fields, it < MaxIterations,
             Iterate(v, field)
      PROVE  FieldInv'
  <2>1. field \in [Elements -> Int] /\ sens' \in Fields \cup {None}
    BY <1>2, FieldAssumption DEF Iterate
  <2> QED
    BY <1>2, <2>1, UpdateKeepsField DEF Iterate
<1>3. CASE it < MaxIterations /\ Diverge
  <2>1. CASE sens # None
    <3>1. sens \in [Elements -> Int] /\ sens' \in Fields \cup {None}
      BY <1>3, <2>1, FieldAssumption DEF FieldInv, Diverge
    <3> QED
      BY <1>3, <2>1, <3>1, UpdateKeepsField DEF Diverge
  <2>2. CASE sens = None
    <3>1. /\ it' = it + 1 /\ plan' = plan /\ alive' = alive /\ mem' = mem /\ sens' = sens
          /\ last' = last
      BY <1>3, <2>2 DEF Diverge
    <3>2. it' \in 0..MaxIterations
      BY <1>3, <3>1, FieldAssumption DEF FieldInv
    <3>3. MemoryOK(plan, mem)' /\ DesignsAreSound' /\ InItsBand' /\ sens' \in Fields \cup {None}
      BY <3>1 DEF FieldInv, MemoryOK, MemoryShape, IsDensity, DesignsAreSound, InItsBand
    <3> QED
      BY <1>1, <3>2, <3>3 DEF FieldInv
  <2> QED
    BY <2>1, <2>2
<1>4. ASSUME NEW p \in Plans, Resume(p) PROVE FieldInv'
  <2>1. /\ plan' = p /\ mem' = Restored(p) /\ last' = Idle("resumed")
        /\ sens' = sens /\ it' = it
    BY <1>4 DEF Resume
  <2>2. MemoryOK(p, Restored(p))
    <3> DEFINE x == IF p.alg = "hca" THEN mem.x ELSE None
               phi == IF p.alg = "levelset" THEN mem.phi ELSE None
    <3>1. Restored(p) = [NoMemory EXCEPT !.x = x, !.phi = phi]
      BY DEF Restored
    <3>2. x # None => p.alg = "hca" /\ IsDensity(x)
      BY DEF FieldInv, MemoryOK
    <3>3. phi # None => p.alg = "levelset" /\ phi \in NodeField
      BY DEF FieldInv, MemoryOK
    <3> HIDE DEF x, phi
    <3>4. Restored(p) = [x |-> x, blend |-> None, phi |-> phi, in |-> None, out |-> None,
                         t |-> None, dir |-> None]
      BY <3>1 DEF NoMemory
    <3> QED
      BY <3>2, <3>3, <3>4 DEF MemoryOK, MemoryShape
  <2>3. DesignsAreSound' /\ InItsBand'
    BY <2>1 DEF DesignsAreSound, InItsBand, Idle
  <2> QED
    BY <1>1, <2>1, <2>2, <2>3 DEF FieldInv, MemoryOK, MemoryShape, IsDensity
<1>5. CASE UNCHANGED vars
  BY <1>1, <1>5 DEF vars, FieldInv, MemoryOK, MemoryShape, IsDensity, DesignsAreSound, InItsBand
<1> QED
  BY <1>2, <1>3, <1>4, <1>5 DEF Next

(* An optimiser's memory is well formed and its own, and every design an   *)
(* update makes has its protected elements and, with nothing held void,    *)
(* nothing but what hangs together with an anchor.                         *)
THEOREM FieldTypes ==
  ASSUME Asymptotes
  PROVE  Spec => []TypeOK
<1>1. FieldInv => TypeOK
  BY DEF FieldInv, EarnInv, Directs, MemoryOK, IsDensity, NodeField, InItsBand, TypeOK
<1> QED
  BY <1>1, InitField, NextField, PTL DEF Spec

(* A flip is credited less than its energy only for an element that has    *)
(* swung, and always for one that just did, for any mesh, energies,        *)
(* manufacturing constraints, divergences and resumes: the sign test the   *)
(* code makes with the stored directions is the history of the masks       *)
(* (saip.py:59).                                                           *)
THEOREM ConservatismAlwaysEarned ==
  ASSUME Asymptotes
  PROVE  Spec => []ConservatismIsEarned
<1>1. EarnInv => ConservatismIsEarned
  BY DEF EarnInv
<1> QED
  BY <1>1, InitEarn, NextEarn, PTL DEF Spec

-----------------------------------------------------------------------------
(* What HCA and the level set take their knobs for, and energies are       *)
(* energies; the validator does not look at these knobs.                   *)
Drives ==
  /\ \A p \in Plans : p.kp \in Nat /\ p.move \in Nat /\ p.band > 0
  /\ Fields \subseteq [Elements -> Nat]

(* What bisection ends at: a rung that fits or the high end, and if the    *)
(* former, one whose neighbour below does not fit.                         *)
LEMMA BisectedMeets ==
  ASSUME NEW lo \in Int, NEW hi \in Int, lo <= hi, NEW kept, DOMAIN kept = lo..hi,
         \A q \in lo..hi : kept[q] \in Int,
         NEW budget \in Int, NEW r \in Bisected(kept, budget)
  PROVE  /\ r \in lo..hi
         /\ kept[r] * Scale <= budget \/ r = hi
         /\ kept[r] * Scale <= budget /\ budget > 0 /\ r # lo
              => r - 1 \in lo..hi /\ kept[r - 1] * Scale > budget
<1> DEFINE Fits(q) == kept[q] * Scale <= budget
<1>1. Min(DOMAIN kept) = lo /\ Max(DOMAIN kept) = hi
  BY LadderEnds
<1>2. r \in lo..hi
  BY BisectedIsRung
<1>3. r \in CASE budget <= 0                          -> {hi}
              [] budget > 0 /\ Fits(lo)              -> {lo}
              [] budget > 0 /\ ~Fits(lo) /\ ~Fits(hi) -> {hi}
              [] OTHER -> {q \in lo + 1..hi : Fits(q) /\ ~Fits(q - 1)}
  BY <1>1 DEF Bisected
<1>4. Fits(r) \/ r = hi
  <2> HIDE DEF Fits
  <2> QED
    BY <1>3
<1>5. Fits(r) /\ budget > 0 /\ r # lo => r \in lo + 1..hi /\ ~Fits(r - 1)
  <2> HIDE DEF Fits
  <2> QED
    BY <1>3
<1>6. ASSUME r \in lo + 1..hi, ~Fits(r - 1)
      PROVE  r - 1 \in lo..hi /\ kept[r - 1] * Scale > budget
  <2>1. r - 1 \in lo..hi
    BY <1>6
  <2> DEFINE q == r - 1
  <2>2. kept[q] \in Int
    BY <2>1
  <2> HIDE DEF q
  <2>3. ~(kept[q] * Scale <= budget) => kept[q] * Scale > budget
    BY <2>2 DEF Scale
  <2> QED
    BY <1>6, <2>1, <2>3 DEF q
<1> QED
  BY <1>2, <1>4, <1>5, <1>6

(* A ladder of designs, each with a volume to spare: what the rung that    *)
(* bisection ends at and the one below it say of the design.               *)
LEMMA LadderIsMet ==
  ASSUME NEW p, NEW before, NEW x, NEW lo \in Int, NEW hi \in Int, lo <= hi,
         NEW kept, DOMAIN kept = lo..hi, \A q \in lo..hi : kept[q] \in Int,
         NEW budget \in Int, NEW r \in Bisected(kept, budget), NEW raw, NEW more,
         VolumeOf(raw \ p.protected) = kept[r],
         r = lo => more = {},
         r # lo /\ r - 1 \in lo..hi => VolumeOf(more \ p.protected) = kept[r - 1],
         r = hi => RemovedAllItCould(p, before, x, raw)
  PROVE  LargestThatFits(p, before, x, budget, raw, more)
<1>1. /\ kept[r] * Scale <= budget \/ r = hi
      /\ kept[r] * Scale <= budget /\ budget > 0 /\ r # lo
           => r - 1 \in lo..hi /\ kept[r - 1] * Scale > budget
  BY BisectedMeets
<1> QED
  BY <1>1 DEF LargestThatFits

LEMMA FreeIsInteger ==
  ASSUME NEW p \in Plans, NEW target \in Int, NEW S \in SUBSET Elements
  PROVE  /\ Free(p, target) \in Int
         /\ Free(p, target) + VolumeOf(S) * Scale \in Int
         /\ Free(p, target) + 0 * Scale = Free(p, target)
<1>1. VolumeOf(p.protected) \in Int /\ VolumeOf(S) \in Int
  BY FieldAssumption, VolumeFacts
<1> QED
  BY <1>1 DEF Free, Scale

(* HCA.                                                                    *)
LEMMA LeastOfTwo ==
  ASSUME NEW a \in Nat, NEW b \in Nat
  PROVE  Min({a, b}) \in Nat
<1>1. Min({a, b}) = IF a <= b THEN a ELSE b
  BY TwoExtremes
<1> QED
  BY <1>1

LEMMA FullSetpointDims ==
  ASSUME Drives, NEW p \in Plans, NEW x, IsDensity(x), NEW field \in [Elements -> Int],
         Elements # {}, TopOf(field) > 0, NEW e \in Elements,
         Controlled(p, x, field, HighSetpoint(field))[e] >= AliveAt
  PROVE  x[e] - Min({p.kp, p.move}) >= AliveAt
<1> DEFINE high == HighSetpoint(field)
           m == Min({p.kp, p.move})
           y == x[e] + (-m)
<1>1. TopOf(field) \in Int
  BY TopIsInteger
<1>2. high \in Nat /\ high # 0
  BY <1>1 DEF HighSetpoint, Fine
<1>3. Drive(p, field[e], high, high) = -m
  BY <1>2 DEF Drive
<1>4. Controlled(p, x, field, high)[e] = Clip(y, XMin, Percent)
  <2>1. Controlled(p, x, field, high)
          = [f \in Elements |-> Clip(x[f] + Drive(p, field[f], high, high), XMin, Percent)]
    BY ComputedIsItself DEF Controlled
  <2> HIDE DEF m, high
  <2> QED
    BY <1>3, <2>1
<1>5. m \in Int
  <2>1. p.kp \in Nat /\ p.move \in Nat
    BY DEF Drives
  <2> QED
    BY <2>1, LeastOfTwo
<1>6. x[e] \in Int
  BY DEF IsDensity, XMin, Percent
<1> HIDE DEF m
<1>7. y \in Int
  BY <1>5, <1>6
<1>8. Clip(y, XMin, Percent) >= AliveAt => y >= AliveAt
  <2> HIDE DEF y
  <2> DEFINE least == Min({y, Percent})
  <2>1. least = IF y <= Percent THEN y ELSE Percent
    BY <1>7, TwoExtremes DEF Percent
  <2> HIDE DEF least
  <2>2. Max({XMin, least}) = IF XMin >= least THEN XMin ELSE least
    BY <1>7, <2>1, TwoExtremes DEF XMin, Percent
  <2>3. Clip(y, XMin, Percent) = Max({XMin, least})
    BY DEF Clip, least
  <2> QED
    BY <1>7, <2>1, <2>2, <2>3 DEF XMin, AliveAt, Percent
<1> QED
  BY <1>4, <1>5, <1>6, <1>8 DEF m, AliveAt

LEMMA HcaMeets ==
  ASSUME Drives, NEW p \in Plans, p.alg = "hca", NEW m, MemoryOK(p, m),
         NEW living \in SUBSET Elements, NEW field \in [Elements -> Int],
         NEW target \in Int, NEW refund,
         refund = IF m.x = None THEN 0 ELSE VolumeOf(StaleDensity(p, m.x, living)),
         NEW res \in HcaUpdates(p, m, living, field, target), ~res.idle
  PROVE  LargestThatFits(p, living, m.x, Free(p, target) + refund * Scale, res.raw, res.more)
<1> DEFINE first  == m.x = None
           x0     == IF first THEN DensityOf(living) ELSE ResyncedDensity(p, m.x, living)
           energy == IF m.blend = None THEN field ELSE Blended(p, m.blend, field)
           kept   == [m EXCEPT !.x = x0, !.blend = energy]
           budget == Free(p, target) + refund * Scale
           At1(r) == Controlled(p, x0, energy, r)
           high   == HighSetpoint(energy)
           ladder == [q \in 0..high |-> DensityKept(p, x0, energy, q)]
<1>1. IsDensity(x0)
  <2>1. IsDensity(DensityOf(living))
    BY DEF IsDensity, DensityOf, XMin, Percent
  <2> QED
    BY <2>1, ResyncedIsDensity DEF MemoryOK
<1>2. energy \in [Elements -> Int]
  BY BlendedIsField DEF MemoryOK
<1>3. \/ res = Unchanged(kept, p, living)
      \/ /\ ~(TopOf(energy) <= 0)
         /\ \E r \in Setpoints(p, x0, energy, budget) :
              res = LET x1 == Pinned(p, At1(r))
                    IN  Result([kept EXCEPT !.x = x1], DensityAlive(x1) \cup p.protected,
                               IF r = 0 THEN {} ELSE DensityAlive(At1(r - 1)) \cup p.protected)
  BY DEF HcaUpdates
<1> HIDE DEF energy, budget, kept, x0
<1>4. ~(TopOf(energy) <= 0)
  BY <1>3 DEF Unchanged
<1>5. PICK r \in Setpoints(p, x0, energy, budget) :
        /\ res.raw = DensityAlive(Pinned(p, At1(r))) \cup p.protected
        /\ res.more = IF r = 0 THEN {} ELSE DensityAlive(At1(r - 1)) \cup p.protected
  <2>1. res # Unchanged(kept, p, living)
    BY DEF Unchanged
  <2>2. PICK r \in Setpoints(p, x0, energy, budget) :
          res = Result([kept EXCEPT !.x = Pinned(p, At1(r))],
                       DensityAlive(Pinned(p, At1(r))) \cup p.protected,
                       IF r = 0 THEN {} ELSE DensityAlive(At1(r - 1)) \cup p.protected)
    BY <1>3, <2>1
  <2>3. /\ res.raw = DensityAlive(Pinned(p, At1(r))) \cup p.protected
        /\ res.more = IF r = 0 THEN {} ELSE DensityAlive(At1(r - 1)) \cup p.protected
    BY <2>2 DEF Result
  <2> QED
    BY <2>3
<1>6. res.raw \ p.protected = DensityAlive(At1(r)) \ p.protected
  BY <1>5 DEF DensityAlive, Pinned
<1>7. CASE Elements = {}
  <2>1. res.raw = {} /\ res.more = {}
    <3>1. p.protected = {}
      BY <1>7, FieldAssumption
    <3> QED
      BY <1>5, <1>7, <3>1 DEF DensityAlive
  <2> QED
    BY <2>1 DEF LargestThatFits, RemovedAllItCould
<1>8. CASE Elements # {}
  <2>1. TopOf(energy) \in Int
    BY <1>2, <1>8, TopIsInteger
  <2>2. TopOf(energy) > 0 /\ high \in Nat
    BY <1>4, <2>1 DEF HighSetpoint, Fine
  <2>3. r \in Bisected(ladder, budget)
    BY <1>5 DEF Setpoints
  <2>4. \A q \in 0..high : ladder[q] = VolumeOf(DensityAlive(At1(q)) \ p.protected)
    BY DEF DensityKept
  <2>5. \A q \in 0..high : ladder[q] \in Int
    BY <2>4, VolumeFacts DEF DensityAlive
  <2>6. budget \in Int
    <3>1. ~first => StaleDensity(p, m.x, living) \in SUBSET Elements
      BY DEF StaleDensity, DensityAlive
    <3>2. refund = 0 \/ \E S \in SUBSET Elements : refund = VolumeOf(S)
      BY <3>1
    <3> QED
      BY <3>2, FreeIsInteger DEF budget
  <2>7. r \in 0..high
    <3>1. DOMAIN ladder = 0..high /\ 0 <= high
      BY <2>2
    <3> HIDE DEF ladder, high
    <3> QED
      BY <2>2, <2>3, <3>1, BisectedIsRung
  <2>8. VolumeOf(res.raw \ p.protected) = ladder[r]
    BY <1>6, <2>4, <2>7
  <2>9. r # 0 /\ r - 1 \in 0..high => VolumeOf(res.more \ p.protected) = ladder[r - 1]
    <3>1. r # 0 => res.more \ p.protected = DensityAlive(At1(r - 1)) \ p.protected
      BY <1>5
    <3> QED
      BY <2>4, <3>1
  <2>10. r = high => RemovedAllItCould(p, living, m.x, res.raw)
    <3> SUFFICES ASSUME r = high, NEW e \in res.raw \ p.protected
                 PROVE  IF first THEN e \in living
                        ELSE m.x[e] - Min({p.kp, p.move}) >= AliveAt
      BY DEF RemovedAllItCould
    <3>1. e \in Elements /\ At1(high)[e] >= AliveAt /\ e \notin p.protected
      BY <1>6 DEF DensityAlive
    <3>2. x0[e] - Min({p.kp, p.move}) >= AliveAt
      BY <1>1, <1>2, <1>8, <2>2, <3>1, FullSetpointDims
    <3> DEFINE d == Min({p.kp, p.move})
    <3>3. d \in Nat
      <4>1. p.kp \in Nat /\ p.move \in Nat
        BY DEF Drives
      <4> QED
        BY <4>1, LeastOfTwo
    <3>4. CASE first
      <4>1. x0[e] = IF e \in living THEN Percent ELSE XMin
        BY <3>1, <3>4 DEF x0, DensityOf
      <4> HIDE DEF d
      <4> QED
        BY <3>2, <3>3, <3>4, <4>1 DEF XMin, AliveAt, d
    <3>5. CASE ~first
      <4> DEFINE stale == StaleDensity(p, m.x, living)
      <4>1. x0 = [f \in Elements |-> IF f \in stale THEN BelowAlive ELSE m.x[f]]
        BY <3>5, ComputedIsItself DEF x0, ResyncedDensity
      <4>2. x0[e] = BelowAlive \/ x0[e] = m.x[e]
        BY <3>1, <4>1
      <4> HIDE DEF d
      <4>3. x0[e] # BelowAlive
        BY <3>2, <3>3 DEF BelowAlive, AliveAt, d
      <4> QED
        BY <3>2, <3>5, <4>2, <4>3
    <3> QED
      BY <3>4, <3>5
  <2>11. r = 0 => res.more = {}
    BY <1>5
  <2>12. DOMAIN ladder = 0..high /\ 0 \in Int /\ high \in Int /\ 0 <= high
    BY <2>2
  <2> HIDE DEF ladder, high
  <2>13. LargestThatFits(p, living, m.x, budget, res.raw, res.more)
    BY <2>3, <2>5, <2>6, <2>8, <2>9, <2>10, <2>11, <2>12, LadderIsMet
  <2> QED
    BY <2>13 DEF budget
<1> QED
  BY <1>7, <1>8
(* The level set.                                                          *)
LEMMA SumIsNegative ==
  ASSUME NEW S, IsFiniteSet(S), S # {}, NEW w, \A e \in S : w[e] \in Int /\ w[e] < 0
  PROVE  SumAt(w, S) \in Int /\ SumAt(w, S) < 0
<1> DEFINE F == {T \in SUBSET S : T # {} /\ ~(SumAt(w, T) < 0)}
<1>0. \A T \in SUBSET S : IsFiniteSet(T) /\ SumAt(w, T) \in Int
  <2> SUFFICES ASSUME NEW T \in SUBSET S PROVE IsFiniteSet(T) /\ SumAt(w, T) \in Int
    OBVIOUS
  <2>1. IsFiniteSet(T) /\ \A e \in T : w[e] \in Int
    BY FS_Subset
  <2> QED
    BY <2>1, SumType
<1>1. F \in SUBSET (SUBSET S)
  OBVIOUS
<1>2. ASSUME F # {} PROVE FALSE
  <2>1. PICK T \in F : \A U \in F : U \subseteq T => U = T
    <3> HIDE DEF F
    <3> QED
      BY <1>1, <1>2, LeastSubset
  <2>2. T \in SUBSET S /\ T # {} /\ ~(SumAt(w, T) < 0)
    BY <2>1
  <2> DEFINE U == T \ {One(T)}
  <2>3. One(T) \in T /\ w[One(T)] \in Int /\ w[One(T)] < 0
    BY <2>2, OneIsMember
  <2>4. SumAt(w, T) = w[One(T)] + SumAt(w, U)
    BY <1>0, <2>2, SumStep
  <2>5. U \in SUBSET S /\ U # T /\ U \subseteq T
    BY <2>2, <2>3
  <2>6. U = {} \/ SumAt(w, U) < 0
    BY <2>1, <2>5
  <2>7. U = {} => SumAt(w, U) = 0
    BY <1>0, <2>5, SumStep
  <2>8. SumAt(w, U) \in Int /\ SumAt(w, U) <= 0
    BY <1>0, <2>5, <2>6, <2>7
  <2> HIDE DEF U
  <2> QED
    BY <2>2, <2>3, <2>4, <2>8
<1>3. S \notin F
  BY <1>2
<1> QED
  BY <1>0, <1>3

LEMMA FullLevelDrowns ==
  ASSUME Drives, NEW p \in Plans, NEW base \in NodeField, Elements # {}
  PROVE  PhiAlive(AtLevel(p, base, HighLevel(p, base))) = {}
<1> DEFINE tau  == HighLevel(p, base)
           low  == [n \in Nodes |-> base[n] - tau]
           phi  == AtLevel(p, base, tau)
           band == p.band
           lo   == -band
           highest == Max({base[n] : n \in Nodes})
<1>1. band \in Nat /\ band > 0
  BY FieldAssumption DEF Drives
<1>2. highest \in Int /\ \A n \in Nodes : base[n] \in Int /\ base[n] <= highest
  BY NodesAreFinite, ExtremesOfValues DEF NodeField
<1>3. phi = [n \in Nodes |-> Clamped(low[n], band)]
  BY ComputedIsItself DEF AtLevel, InBand
<1>4. tau = highest + band + 1
  BY DEF HighLevel
<1> HIDE DEF highest, tau, band
<1>5. ASSUME NEW n \in Nodes PROVE phi[n] \in Int /\ phi[n] < 0
  <2> DEFINE v == low[n]
  <2>1. v \in Int /\ v <= lo /\ lo \in Int /\ lo < 0
    <3>1. v = base[n] - tau
      OBVIOUS
    <3> HIDE DEF v, low
    <3> QED
      BY <1>1, <1>2, <1>4, <3>1
  <2>2. phi[n] = Max({lo, Min({v, band})})
    BY <1>3 DEF Clamped
  <2> HIDE DEF v, low, phi
  <2> DEFINE least == Min({v, band})
  <2>3. least = v
    <3>1. least = IF v <= band THEN v ELSE band
      BY <1>1, <2>1, TwoExtremes
    <3>2. v <= band
      BY <1>1, <2>1
    <3> QED
      BY <3>1, <3>2
  <2> HIDE DEF least, lo
  <2>4. Max({lo, least}) = IF lo >= least THEN lo ELSE least
    BY <2>1, <2>3, TwoExtremes
  <2> QED
    BY <2>1, <2>2, <2>3, <2>4 DEF least
<1> HIDE DEF phi, low
<1>6. ASSUME NEW e \in Elements PROVE ~(ElementSum(phi, e) >= 0)
  <2>1. IsFiniteSet(NodesOf[e]) /\ NodesOf[e] # {} /\ NodesOf[e] \in SUBSET Nodes
    BY MeshAssumption, NodesAreFinite
  <2>2. SumAt(phi, NodesOf[e]) \in Int /\ SumAt(phi, NodesOf[e]) < 0
    BY <1>5, <2>1, SumIsNegative
  <2> QED
    BY <2>2 DEF ElementSum, SumAt
<1> QED
  BY <1>6 DEF PhiAlive, phi, tau

LEMMA LevelSetMeets ==
  ASSUME Drives, NEW p \in Plans, p.alg = "levelset", NEW m, MemoryOK(p, m),
         NEW living \in SUBSET Elements, NEW field \in [Elements -> Int],
         NEW target \in Int, NEW refund, NEW x,
         refund = IF m.phi = None THEN 0 ELSE VolumeOf(StalePhi(p, m.phi, living)),
         NEW res \in LevelSetUpdates(p, m, living, field, target)
  PROVE  LargestThatFits(p, living, x, Free(p, target) + refund * Scale, res.raw, res.more)
<1> DEFINE first  == m.phi = None
           phi0   == IF first THEN InitPhi(p, living, field) ELSE ResyncedPhi(p, m.phi, living)
           base   == Evolved(p, phi0, living, field)
           budget == Free(p, target) + refund * Scale
           lo     == LowLevel(p, base)
           hi     == HighLevel(p, base)
           Above(t) == PhiAlive(AtLevel(p, base, t)) \ p.protected
           ladder == [t \in lo..hi |-> LevelKept(p, base, t)]
<1>1. PICK tau \in Levels(p, base, budget) :
        /\ res.raw = ElementsAlive(p, AtLevel(p, base, tau))
        /\ res.more = IF tau = lo \/ p.protected = Elements THEN {}
                      ELSE ElementsAlive(p, AtLevel(p, base, tau - 1))
  <2>1. PICK tau \in Levels(p, base, budget) :
          res = Result([m EXCEPT !.phi = AtLevel(p, base, tau)],
                       ElementsAlive(p, AtLevel(p, base, tau)),
                       IF tau = lo \/ p.protected = Elements THEN {}
                       ELSE ElementsAlive(p, AtLevel(p, base, tau - 1)))
    BY DEF LevelSetUpdates
  <2> HIDE DEF base, budget, lo
  <2> QED
    BY <2>1 DEF Result
<1>2. res.raw \ p.protected = Above(tau)
  BY <1>1 DEF ElementsAlive
<1>3. p.alg = "levelset" /\ RemovedAllItCould(p, living, x, res.raw) = (Above(tau) = {})
  BY <1>2 DEF RemovedAllItCould
<1>4. CASE p.protected = Elements
  <2>1. Above(tau) = {} /\ res.more = {}
    BY <1>1, <1>4 DEF PhiAlive
  <2> QED
    BY <1>3, <2>1 DEF LargestThatFits
<1>5. CASE p.protected # Elements
  <2>1. Elements # {}
    BY <1>5, FieldAssumption
  <2>2. phi0 \in NodeField
    <3>1. CASE first
      BY <3>1, InitPhiIsField
    <3>2. CASE ~first
      <4>1. m.phi \in NodeField
        BY <3>2 DEF MemoryOK
      <4> QED
        BY <3>2, <4>1, ResyncedIsField
    <3> QED
      BY <3>1, <3>2
  <2>3. base \in NodeField
    <3> HIDE DEF phi0
    <3> QED
      BY <2>1, <2>2, EvolvedIsField
  <2> HIDE DEF base
  <2>4. tau \in Bisected(ladder, budget)
    BY <1>1, <1>5 DEF Levels
  <2>5. lo \in Int /\ hi \in Int /\ lo <= hi
    BY <2>1, <2>3, LevelEnds
  <2>6. budget \in Int
    <3>1. ~first => StalePhi(p, m.phi, living) \in SUBSET Elements
      BY DEF StalePhi, PhiAlive
    <3>2. refund = 0 \/ \E S \in SUBSET Elements : refund = VolumeOf(S)
      BY <3>1
    <3> QED
      BY <3>2, FreeIsInteger DEF budget
  <2>7. \A t \in lo..hi : ladder[t] = VolumeOf(Above(t)) /\ ladder[t] \in Int
    <3>1. \A t : Above(t) \in SUBSET Elements
      BY DEF PhiAlive
    <3> QED
      BY <3>1, VolumeFacts DEF LevelKept
  <2>8. DOMAIN ladder = lo..hi
    OBVIOUS
  <2>9. tau \in lo..hi
    <3> HIDE DEF ladder, lo, hi
    <3> QED
      BY <2>4, <2>5, <2>8, BisectedIsRung
  <2>10. VolumeOf(res.raw \ p.protected) = ladder[tau]
    BY <1>2, <2>7, <2>9
  <2>11. tau = lo => res.more = {}
    BY <1>1
  <2>12. tau # lo /\ tau - 1 \in lo..hi => VolumeOf(res.more \ p.protected) = ladder[tau - 1]
    <3>1. tau # lo => res.more \ p.protected = Above(tau - 1)
      BY <1>1, <1>5 DEF ElementsAlive
    <3> QED
      BY <2>7, <3>1
  <2>13. tau = hi => RemovedAllItCould(p, living, x, res.raw)
    BY <1>3, <2>1, <2>3, FullLevelDrowns
  <2> HIDE DEF ladder, lo, hi, budget
  <2>14. LargestThatFits(p, living, x, budget, res.raw, res.more)
    BY <2>4, <2>5, <2>6, <2>7, <2>8, <2>10, <2>11, <2>12, <2>13, LadderIsMet
  <2> QED
    BY <2>14 DEF budget
<1> QED
  BY <1>4, <1>5
(* SAIP: a ranking, ties by number, has a first and a last element; those  *)
(* with fewer than K ahead of them are K, or all.                          *)
Beats(pr, f, e) ==
  \/ pr[f] > pr[e]
  \/ pr[f] = pr[e] /\ f < e

Foremost(S, pr, K) == {e \in S : Cardinality({f \in S : Beats(pr, f, e)}) < K}

LEMMA RankingEnds ==
  ASSUME NEW S \in SUBSET Elements, S # {}, NEW pr, \A e \in S : pr[e] \in Int
  PROVE  /\ \E e \in S : \A f \in S : ~Beats(pr, f, e)
         /\ \E e \in S : \A f \in S \ {e} : Beats(pr, f, e)
<1> DEFINE T == {pr[e] : e \in S}
           Level(v) == {e \in S : pr[e] = v}
<1>1. IsFiniteSet(S) /\ \A e \in S : e \in Int
  <2>1. IsFiniteSet(S)
    BY MeshAssumption, FS_Subset
  <2> QED
    BY <2>1, MeshAssumption
<1>2. IsFiniteSet(T) /\ T # {} /\ \A v \in T : v \in Int
  BY <1>1, ImageIsFinite
<1>3. /\ Max(T) \in T /\ \A v \in T : Max(T) >= v
      /\ Min(T) \in T /\ \A v \in T : Min(T) <= v
  <2> HIDE DEF T
  <2> QED
    BY <1>2, FiniteExtremes
<1>4. ASSUME NEW v \in T
      PROVE  LET L == Level(v)
             IN  /\ Max(L) \in L /\ \A e \in L : Max(L) >= e
                 /\ Min(L) \in L /\ \A e \in L : Min(L) <= e
  <2>1. Level(v) # {} /\ Level(v) \in SUBSET S
    OBVIOUS
  <2>2. IsFiniteSet(Level(v)) /\ \A e \in Level(v) : e \in Int
    BY <1>1, <2>1, FS_Subset
  <2> HIDE DEF Level
  <2> QED
    BY <2>1, <2>2, FiniteExtremes
<1>5. \E e \in S : \A f \in S : ~Beats(pr, f, e)
  <2> DEFINE v == Max(T)
             e == Min(Level(v))
  <2>1. e \in Level(v) /\ \A f \in Level(v) : e <= f
    BY <1>3, <1>4
  <2>2. e \in S /\ pr[e] = v
    BY <2>1
  <2>3. \A f \in S : pr[f] \in Int /\ f \in Int /\ v >= pr[f] /\ (pr[f] = v => e <= f)
    BY <1>1, <1>3, <2>1
  <2>4. v \in Int /\ e \in Int
    BY <1>1, <1>2, <1>3, <2>2
  <2> HIDE DEF v, e
  <2> QED
    BY <2>2, <2>3, <2>4 DEF Beats
<1>6. \E e \in S : \A f \in S \ {e} : Beats(pr, f, e)
  <2> DEFINE v == Min(T)
             e == Max(Level(v))
  <2>1. e \in Level(v) /\ \A f \in Level(v) : e >= f
    BY <1>3, <1>4
  <2>2. e \in S /\ pr[e] = v
    BY <2>1
  <2>3. \A f \in S : pr[f] \in Int /\ f \in Int /\ v <= pr[f] /\ (pr[f] = v => e >= f)
    BY <1>1, <1>3, <2>1
  <2>4. v \in Int /\ e \in Int
    BY <1>1, <1>2, <1>3, <2>2
  <2> HIDE DEF v, e
  <2> QED
    BY <2>2, <2>3, <2>4 DEF Beats
<1> QED
  BY <1>5, <1>6

LEMMA FlipsFillTheCap ==
  ASSUME NEW S \in SUBSET Elements, NEW pr, \A e \in S : pr[e] \in Int, NEW K \in Nat
  PROVE  Foremost(S, pr, K) = S \/ Cardinality(Foremost(S, pr, K)) = K
<1> DEFINE Ahead(e) == {f \in S : Beats(pr, f, e)}
           F == {e \in S : Cardinality(Ahead(e)) < K}
           Rest == S \ F
<1>1. \A R \in SUBSET S : IsFiniteSet(R) /\ Cardinality(R) \in Nat
  <2>1. IsFiniteSet(S)
    BY MeshAssumption, FS_Subset
  <2> QED
    BY <2>1, FS_Subset, FS_CardinalityType
<1>2. \A e \in S : Ahead(e) \in SUBSET S
  OBVIOUS
<1>3. \A e, f \in S : e # f => Beats(pr, e, f) \/ Beats(pr, f, e)
  <2>1. \A e \in S : e \in Int
    BY MeshAssumption
  <2> QED
    BY <2>1 DEF Beats
<1>4. \A e, f, g \in S : Beats(pr, g, f) /\ Beats(pr, f, e) => Beats(pr, g, e)
  <2>1. \A e \in S : e \in Int
    BY MeshAssumption
  <2> QED
    BY <2>1 DEF Beats
<1>5. \A e \in S : ~Beats(pr, e, e)
  <2>1. \A e \in S : e \in Int
    BY MeshAssumption
  <2> QED
    BY <2>1 DEF Beats
<1>6. \A R \in SUBSET S : R # {} =>
         /\ \E e \in R : \A f \in R : ~Beats(pr, f, e)
         /\ \E e \in R : \A f \in R \ {e} : Beats(pr, f, e)
  <2> SUFFICES ASSUME NEW R \in SUBSET S, R # {}
               PROVE  /\ \E e \in R : \A f \in R : ~Beats(pr, f, e)
                      /\ \E e \in R : \A f \in R \ {e} : Beats(pr, f, e)
    OBVIOUS
  <2>1. R \in SUBSET Elements /\ \A e \in R : pr[e] \in Int
    OBVIOUS
  <2> QED
    BY <2>1, RankingEnds
<1>7. ASSUME F # S PROVE Cardinality(F) = K
  <2>1. PICK e \in Rest : \A f \in Rest : ~Beats(pr, f, e)
    <3>1. Rest \in SUBSET S /\ Rest # {}
      BY <1>7
    <3> HIDE DEF Rest
    <3> QED
      BY <1>6, <3>1
  <2>2. e \in S /\ ~(Cardinality(Ahead(e)) < K)
    BY <2>1
  <2>3. F \in SUBSET S /\ F \cap Rest = {}
    OBVIOUS
  <2>4. Ahead(e) \subseteq F
    BY <2>1
  <2>5. Cardinality(Ahead(e)) \in Nat /\ Cardinality(F) \in Nat
    BY <1>1, <1>2, <2>2, <2>3
  <2>6. Cardinality(Ahead(e)) <= Cardinality(F)
    BY <1>1, <2>3, <2>4, FS_Subset
  <2>7. Cardinality(F) >= K
    <3> HIDE DEF Ahead, F
    <3> QED
      BY <2>2, <2>5, <2>6
  <2>8. ASSUME F # {} PROVE Cardinality(F) <= K
    <3>1. PICK g \in F : \A f \in F \ {g} : Beats(pr, f, g)
      <4> HIDE DEF F
      <4> QED
        BY <1>6, <2>3, <2>8
    <3>2. g \in S /\ Cardinality(Ahead(g)) < K /\ Cardinality(Ahead(g)) \in Nat
      BY <1>1, <1>2, <3>1
    <3>3. F \ {g} \subseteq Ahead(g)
      BY <2>3, <3>1
    <3>4. Cardinality(F \ {g}) <= Cardinality(Ahead(g))
      BY <1>1, <1>2, <3>2, <3>3, FS_Subset
    <3>5. Cardinality(F \ {g}) = Cardinality(F) - 1
      <4> HIDE DEF F
      <4> QED
        BY <1>1, <2>3, <3>1, FS_RemoveElement
    <3> HIDE DEF Ahead, F
    <3> QED
      BY <2>5, <3>2, <3>4, <3>5
  <2>9. F = {} => Cardinality(F) = 0
    BY FS_EmptySet
  <2> HIDE DEF F, Ahead
  <2> QED
    BY <2>5, <2>7, <2>8, <2>9
<1> QED
  BY <1>7 DEF Foremost
(* At the high multiplier every living element wants out, no dead one in.  *)
LEMMA QuotientAbove ==
  ASSUME NEW a \in Nat, NEW c \in Nat \ {0}
  PROVE  a \div c \in Nat /\ a < (a \div c + 1) * c
  OBVIOUS

LEMMA PriceOutweighs ==
  ASSUME NEW a \in Nat, NEW c \in Nat \ {0}, NEW q \in Int, a < q * c, q >= 1,
         NEW M \in Int, M >= q
  PROVE  2 * a - (2 * (2 * M + 1)) * c < 0
<1>1. (2 * M + 1) * c >= q * c
  <2>1. 2 * M + 1 - q \in Nat
    OBVIOUS
  <2>2. (2 * M + 1 - q) * c >= 0
    BY <2>1
  <2>3. (2 * M + 1 - q) * c = (2 * M + 1) * c - q * c
    OBVIOUS
  <2> QED
    BY <2>2, <2>3
<1>2. (2 * (2 * M + 1)) * c = 2 * ((2 * M + 1) * c)
  OBVIOUS
<1> DEFINE u == (2 * M + 1) * c
           w == q * c
<1>3. u \in Int /\ w \in Int
  OBVIOUS
<1> HIDE DEF u, w
<1>4. 2 * a - 2 * u < 0
  BY <1>1, <1>3 DEF u, w
<1> QED
  BY <1>2, <1>4 DEF u

LEMMA HighMultiplierPrices ==
  ASSUME NEW p \in Plans, NEW energy \in [Elements -> Nat], NEW living \in SUBSET Elements
  PROVE  LET h == HighMultiplier(p, energy)
         IN  /\ h \in Nat
             /\ \A e \in Elements \ p.protected :
                  Gains(living, energy, h)[e] > 0 <=> e \in living
<1> DEFINE free == Elements \ p.protected
           h == HighMultiplier(p, energy)
           worth == [e \in Elements |-> energy[e] \div (Vol[e] * Percent) + 1]
           M == Max({energy[e] \div (Vol[e] * Percent) + 1 : e \in free})
<1>1. CASE free = {}
  <2>1. h = 2
    BY <1>1 DEF HighMultiplier, Fineness
  <2> QED
    BY <1>1, <2>1
<1>2. CASE free # {}
  <2>1. h = 2 * (2 * M + 1)
    BY <1>2 DEF HighMultiplier, Fineness
  <2>2. \A e \in free : /\ Vol[e] * Percent \in Nat \ {0} /\ energy[e] \in Nat
                         /\ worth[e] \in Int /\ worth[e] >= 1
                         /\ energy[e] < worth[e] * (Vol[e] * Percent)
    <3> SUFFICES ASSUME NEW e \in free
                 PROVE  /\ Vol[e] * Percent \in Nat \ {0} /\ energy[e] \in Nat
                        /\ worth[e] \in Int /\ worth[e] >= 1
                        /\ energy[e] < worth[e] * (Vol[e] * Percent)
      OBVIOUS
    <3> DEFINE a == energy[e]
               c == Vol[e] * Percent
    <3>1. a \in Nat /\ c \in Nat \ {0}
      BY MeshAssumption DEF Percent
    <3>2. worth[e] = a \div c + 1
      OBVIOUS
    <3> HIDE DEF a, c
    <3>3. a \div c \in Nat /\ a < (a \div c + 1) * c
      BY <3>1, QuotientAbove
    <3>4. a < worth[e] * c /\ worth[e] \in Int /\ worth[e] >= 1
      BY <3>2, <3>3
    <3> QED
      BY <3>1, <3>4 DEF a, c
  <2>3. M \in Int /\ \A e \in free : worth[e] <= M
    <3>1. {energy[e] \div (Vol[e] * Percent) + 1 : e \in free} = {worth[e] : e \in free}
      OBVIOUS
    <3>2. IsFiniteSet(free)
      BY MeshAssumption, FS_Subset
    <3>3. \A e \in free : worth[e] \in Int
      BY <2>2
    <3> HIDE DEF worth, free
    <3>4. Max({worth[e] : e \in free}) \in Int
      BY <1>2, <3>2, <3>3, ExtremesOfValues
    <3>5. \A e \in free : worth[e] <= Max({worth[f] : f \in free})
      BY <1>2, <3>2, <3>3, ExtremesOfValues
    <3> QED
      BY <3>1, <3>4, <3>5
  <2>4. h \in Nat
    <3>1. PICK e \in free : TRUE
      BY <1>2
    <3>2. worth[e] \in Int /\ worth[e] >= 1 /\ worth[e] <= M /\ M \in Int
      BY <2>2, <2>3
    <3> HIDE DEF worth, M, h
    <3> QED
      BY <2>1, <3>2
  <2>5. ASSUME NEW e \in free
        PROVE  Gains(living, energy, h)[e] > 0 <=> e \in living
    <3> DEFINE c == Vol[e] * Percent
               g == Fineness * energy[e] - h * Vol[e] * Percent
    <3>1. Gains(living, energy, h)[e] = IF e \in living THEN -g ELSE g
      BY ComputedIsItself DEF Gains
    <3>2. h * Vol[e] * Percent = h * c
      BY <2>4, MeshAssumption DEF Percent
    <3>3. g = 2 * energy[e] - (2 * (2 * M + 1)) * c
      BY <2>1, <3>2 DEF Fineness
    <3>4. 2 * energy[e] - (2 * (2 * M + 1)) * c < 0
      <4>1. energy[e] \in Nat /\ c \in Nat \ {0} /\ worth[e] \in Int /\ worth[e] >= 1
            /\ energy[e] < worth[e] * c /\ M \in Int /\ M >= worth[e]
        BY <2>2, <2>3
      <4> HIDE DEF c, M, worth
      <4> QED
        BY <4>1, PriceOutweighs
    <3>5. g \in Int
      <4>1. energy[e] \in Nat /\ Vol[e] \in Nat
        BY MeshAssumption
      <4> HIDE DEF h
      <4> QED
        BY <2>4, <4>1 DEF Fineness, Percent
    <3> HIDE DEF g
    <3> QED
      BY <3>1, <3>3, <3>4, <3>5
  <2> QED
    BY <2>4, <2>5
<1> QED
  BY <1>1, <1>2
LEMMA PricedIsEnergy ==
  ASSUME Asymptotes, EarnInv, plan.alg = "saip", NEW field \in [Elements -> Nat]
  PROVE  Priced(plan, mem, alive, field) \in [Elements -> Nat]
<1>1. CASE plan.scip
  <2> DEFINE t == Remembered(plan, mem, alive).t
  <2>1. t \in [Elements -> plan.tMin..Percent] /\ plan.tMin \in 1..Percent - 1
    BY <1>1, AsymptotesAfter DEF Directs, Asymptotes, EarnInv
  <2>2. Priced(plan, mem, alive, field)
          = [e \in Elements |-> IF e \in alive THEN (field[e] * Percent * Percent) \div t[e]
                                ELSE field[e] * t[e]]
    BY <1>1, ComputedIsItself DEF Priced, Credited
  <2> HIDE DEF t
  <2>3. ASSUME NEW e \in Elements
        PROVE  (field[e] * Percent * Percent) \div t[e] \in Nat /\ field[e] * t[e] \in Nat
    <3> DEFINE a == field[e] * Percent * Percent
    <3>1. t[e] \in Nat \ {0} /\ field[e] \in Nat
      BY <2>1 DEF Percent
    <3>2. a \in Nat
      BY <3>1 DEF Percent
    <3> HIDE DEF a
    <3>3. a \div t[e] \in Nat
      BY <3>1, <3>2, QuotientAbove
    <3> QED
      BY <3>1, <3>3 DEF a
  <2> QED
    BY <2>2, <2>3
<1>2. CASE ~plan.scip
  BY <1>2 DEF Priced, Percent
<1> QED
  BY <1>1, <1>2

LEMMA SaipMeets ==
  ASSUME Asymptotes, EarnInv, plan.alg = "saip", NEW field \in [Elements -> Nat],
         NEW target \in Int, NEW x,
         NEW res \in SaipUpdates(plan, mem, alive, field, target), ~res.idle
  PROVE  LargestThatFits(plan, alive, x, Free(plan, target), res.raw, res.more)
<1> DEFINE p      == plan
           damped == Changed(mem, alive)
           k      == Remembered(p, mem, alive)
           energy == Priced(p, mem, alive, field)
           K      == FlipCap(p)
           At1(r) == FlipsAt(p, alive, energy, damped, K, r)
           Left(r) == Toggled(alive, At1(r)) \cup p.protected
           hi     == HighMultiplier(p, energy)
           budget == Free(p, target)
           ladder == [r \in 0..hi |-> FlipsKept(p, alive, energy, damped, K, r)]
           Out(r) == [r EXCEPT !.mem.out = KeepConnected(r.raw, p.anchor)]
<1>1. p \in Plans /\ alive \in SUBSET Elements
  BY DEF EarnInv
<1>2. energy \in [Elements -> Nat]
  BY PricedIsEnergy
<1>3. PICK r \in Multipliers(p, alive, energy, damped, K, budget) :
        res.raw = Left(r) /\ res.more = IF r = 0 THEN {} ELSE Left(r - 1)
  <2>1. \/ res = Out(Unchanged(k, p, alive))
        \/ \E r \in Multipliers(p, alive, energy, damped, K, budget) :
             res = Out(Result(k, Left(r), IF r = 0 THEN {} ELSE Left(r - 1)))
    BY DEF SaipUpdates
  <2> HIDE DEF k, energy, damped, K, budget
  <2>2. res # Out(Unchanged(k, p, alive))
    BY DEF Unchanged
  <2>3. PICK r \in Multipliers(p, alive, energy, damped, K, budget) :
          res = Out(Result(k, Left(r), IF r = 0 THEN {} ELSE Left(r - 1)))
    BY <2>1, <2>2
  <2>4. res.raw = Left(r) /\ res.more = IF r = 0 THEN {} ELSE Left(r - 1)
    BY <2>3 DEF Result
  <2> QED
    BY <2>4
<1>4. hi \in Nat /\ \A e \in Elements \ p.protected :
        Gains(alive, energy, hi)[e] > 0 <=> e \in alive
  <2> HIDE DEF energy
  <2> QED
    BY <1>1, <1>2, HighMultiplierPrices
<1>5. r \in Bisected(ladder, budget)
  BY <1>3 DEF Multipliers
<1>6. \A q : At1(q) \in SUBSET Elements /\ Left(q) \ p.protected \in SUBSET Elements
  BY <1>1 DEF FlipsAt, Toggled
<1>7. \A q \in 0..hi : ladder[q] = VolumeOf(Left(q) \ p.protected)
  <2>1. \A q : Left(q) \ p.protected = Toggled(alive, At1(q)) \ p.protected
    OBVIOUS
  <2> HIDE DEF energy, damped, K, hi
  <2> QED
    BY <2>1 DEF FlipsKept
<1>8. \A q \in 0..hi : ladder[q] \in Int
  <2> HIDE DEF ladder, Left
  <2> QED
    BY <1>6, <1>7, VolumeFacts
<1>9. r = hi => RemovedAllItCould(p, alive, x, res.raw)
  <2> SUFFICES ASSUME r = hi PROVE RemovedAllItCould(p, alive, x, res.raw)
    OBVIOUS
  <2> DEFINE gain == Gains(alive, energy, hi)
             cand == {e \in Elements \ p.protected : gain[e] > 0}
             pr == [e \in Elements |->
                      gain[e] * (IF e \in damped THEN p.damping ELSE Percent)]
             F == Foremost(cand, pr, K)
  <2>1. cand = alive \ p.protected
    BY <1>1, <1>4
  <2>2. At1(hi) = F
    <3> HIDE DEF energy, damped, K, hi
    <3> QED
      BY ComputedIsItself DEF FlipsAt, Foremost, Beats
  <2>3. cand \in SUBSET Elements /\ \A e \in cand : pr[e] \in Int
    <3>1. \A e \in Elements : gain[e] \in Int
      <4> HIDE DEF energy, hi
      <4>1. gain = [e \in Elements |->
                      LET g == Fineness * energy[e] - hi * Vol[e] * Percent
                      IN  IF e \in alive THEN -g ELSE g]
        BY ComputedIsItself DEF Gains
      <4>2. \A e \in Elements : energy[e] \in Nat /\ Vol[e] \in Nat
        BY <1>2, MeshAssumption
      <4>3. \A e \in Elements : Fineness * energy[e] - hi * Vol[e] * Percent \in Int
        BY <1>4, <4>2 DEF Fineness, Percent
      <4> QED
        BY <4>1, <4>3
    <3>2. p.damping \in Int
      BY <1>1, FieldAssumption
    <3> HIDE DEF gain, damped
    <3> QED
      BY <3>1, <3>2 DEF Percent
  <2>4. K \in Nat
    <3> DEFINE share == (p.flips * Cardinality(Elements)) \div Percent
    <3>1. p.flips \in Int /\ Cardinality(Elements) \in Nat
      BY <1>1, FieldAssumption, MeshAssumption, FS_CardinalityType
    <3>2. share \in Int
      BY <3>1 DEF Percent
    <3>3. K = Max({1, share})
      BY DEF FlipCap
    <3> HIDE DEF share
    <3> QED
      BY <3>2, <3>3, TwoExtremes
  <2>5. F = cand \/ Cardinality(F) = K
    <3> HIDE DEF cand, pr, K
    <3> QED
      BY <2>3, <2>4, FlipsFillTheCap
  <2>6. F \subseteq cand
    BY DEF Foremost
  <2>7. res.raw = (alive \ F) \cup p.protected
    <3> HIDE DEF F, cand
    <3> QED
      BY <1>3, <2>1, <2>2, <2>6 DEF Toggled
  <2> HIDE DEF F, cand, K
  <2>8. res.raw \ p.protected = cand \ F /\ alive \ res.raw = F
    BY <2>1, <2>6, <2>7
  <2> QED
    BY <2>1, <2>5, <2>8 DEF RemovedAllItCould, K
<1>10. budget \in Int
  BY <1>1, FreeIsInteger
<1>11. r = 0 => res.more = {}
  BY <1>3
<1>12. DOMAIN ladder = 0..hi /\ 0 \in Int /\ hi \in Int /\ 0 <= hi
  BY <1>4
<1>13. r \in 0..hi
  <2> HIDE DEF ladder, hi
  <2> QED
    BY <1>5, <1>12, BisectedIsRung
<1>14. VolumeOf(res.raw \ p.protected) = ladder[r]
  <2> HIDE DEF ladder, Left
  <2> QED
    BY <1>3, <1>7, <1>13
<1>15. r # 0 /\ r - 1 \in 0..hi => VolumeOf(res.more \ p.protected) = ladder[r - 1]
  <2> HIDE DEF ladder, Left
  <2> QED
    BY <1>3, <1>7
<1> HIDE DEF ladder, hi, budget, Left
<1> QED
  BY <1>5, <1>8, <1>9, <1>10, <1>11, <1>12, <1>14, <1>15, LadderIsMet DEF budget

(* The target of an iteration is a whole number.                           *)
LEMMA TargetIsInteger ==
  ASSUME NEW p \in Plans, NEW V \in Int, NEW feasible, NEW v \in Int
  PROVE  GateTarget(p, V, feasible, v) \in Int
<1>1. /\ p.er \in Int /\ p.goal \in Int /\ p.gain \in Int /\ p.floor \in Int
      /\ p.cap \in Int /\ p.damp \in Int /\ V0 \in Int
  BY FieldAssumption, WholeVolume
<1>2. \A share \in Int : Stepped(p, V, share) \in Int
  BY <1>1 DEF Stepped, Scale
<1>3. Goal(p) \in Int
  BY <1>1 DEF Goal, Percent
<1>4. BackOffShare(p, v) \in Int
  <2> DEFINE a == (p.gain * (v - Percent)) \div Percent
             least == Min({a, p.cap})
  <2>1. a \in Int
    BY <1>1 DEF Percent
  <2> HIDE DEF a
  <2>2. least \in Int
    BY <1>1, <2>1, TwoExtremes
  <2>3. BackOffShare(p, v) = IF p.gain = 0 THEN Percent ELSE Max({p.floor, least})
    BY DEF BackOffShare, a
  <2> HIDE DEF least
  <2>4. Max({p.floor, least}) \in Int
    BY <1>1, <2>2, TwoExtremes
  <2> QED
    BY <2>3, <2>4 DEF Percent
<1>5. ShrinkShare(p, v) \in Int
  <2>1. p.damp < Percent => (Percent * (Percent - v)) \div (Percent - p.damp) \in Int
    <3> DEFINE a == Percent * (Percent - v)
               c == Percent - p.damp
    <3>1. a \in Int /\ (p.damp < Percent => c \in Nat \ {0})
      BY <1>1 DEF Percent
    <3> HIDE DEF a, c
    <3> QED
      BY <3>1 DEF a, c
  <2> QED
    BY <1>1, <2>1 DEF ShrinkShare, Percent
<1> DEFINE down == -ShrinkShare(p, v)
           shrunk == Stepped(p, V, down)
           grown == Stepped(p, V, BackOffShare(p, v))
           full == V0 * Scale
<1>6. shrunk \in Int /\ grown \in Int /\ full \in Int
  <2>1. down \in Int
    BY <1>5
  <2> HIDE DEF down
  <2> QED
    BY <1>1, <1>2, <1>4, <2>1 DEF Scale
<1>7. GateTarget(p, V, feasible, v)
        = IF feasible THEN Max({Goal(p), shrunk}) ELSE Min({full, grown})
  BY DEF GateTarget
<1> HIDE DEF shrunk, grown, full
<1>8. Max({Goal(p), shrunk}) \in Int /\ Min({full, grown}) \in Int
  BY <1>3, <1>6, TwoExtremes
<1> QED
  BY <1>7, <1>8
-----------------------------------------------------------------------------
(* The field of an optimiser that returned a design is that design's, so   *)
(* that what the mask has lost of it is what the field must be told.       *)
ReturnInv ==
  /\ last.step = "start" => mem = NoMemory /\ last.raw = {}
  /\ last.step = "updated" => sens # None
  /\ last.step \in {"updated", "recovered"} /\ ~last.idle =>
       /\ plan.alg = "hca" =>
            mem.x # None /\ last.raw = DensityAlive(mem.x) \cup plan.protected
       /\ plan.alg = "levelset" =>
            mem.phi # None /\ last.raw = ElementsAlive(plan, mem.phi)

BudgetInv == FieldInv /\ ReturnInv

LEMMA InitBudget == Init => BudgetInv
<1> SUFFICES ASSUME Init PROVE BudgetInv
  OBVIOUS
<1>1. FieldInv
  BY InitField
<1>2. mem = NoMemory /\ last = Idle("start")
  BY DEF Init
<1> QED
  BY <1>1, <1>2 DEF BudgetInv, ReturnInv, Idle

LEMMA UpdateReturns ==
  ASSUME FieldInv, NEW field \in [Elements -> Int], NEW target,
         NEW what \in {"updated", "recovered"}, UpdateWith(field, target, what),
         sens' # None
  PROVE  ReturnInv'
<1>1. PICK res \in UpdateResults(plan, mem, alive, field, target) :
        /\ mem' = res.mem
        /\ last' = [step |-> what, target |-> target, raw |-> res.raw,
                    more |-> res.more, idle |-> res.idle]
  BY DEF UpdateWith
<1>2. plan' = plan /\ plan \in Plans /\ alive \in SUBSET Elements /\ MemoryOK(plan, mem)
  BY DEF UpdateWith, FieldInv, EarnInv
<1>3. last'.step = what /\ last'.raw = res.raw /\ last'.idle = res.idle
  BY <1>1
<1>4. ASSUME plan.alg = "hca", ~res.idle
      PROVE  mem'.x # None /\ res.raw = DensityAlive(mem'.x) \cup plan.protected
  <2>1. IsDensity(mem'.x) /\ res.raw = DensityAlive(mem'.x) \cup plan.protected
    BY <1>1, <1>2, <1>4, HcaMemory DEF UpdateResults
  <2>2. XMin..Percent \subseteq Int
    OBVIOUS
  <2> QED
    BY <2>1, <2>2, FieldAssumption DEF IsDensity
<1>5. ASSUME plan.alg = "levelset"
      PROVE  mem'.phi # None /\ res.raw = ElementsAlive(plan, mem'.phi)
  <2>1. mem'.phi \in NodeField /\ res.raw = ElementsAlive(plan, mem'.phi)
    BY <1>1, <1>2, <1>5, LevelSetMemory DEF UpdateResults
  <2> QED
    BY <2>1, FieldAssumption DEF NodeField
<1> QED
  BY <1>2, <1>3, <1>4, <1>5 DEF ReturnInv

LEMMA ReturnStays ==
  ASSUME ReturnInv, UNCHANGED <<plan, mem, last, sens>>
  PROVE  ReturnInv'
  BY DEF ReturnInv

LEMMA NextBudget == Asymptotes /\ BudgetInv /\ [Next]_vars => BudgetInv'
<1> SUFFICES ASSUME Asymptotes, BudgetInv, [Next]_vars PROVE BudgetInv'
  OBVIOUS
<1>1. FieldInv /\ FieldInv'
  BY NextField DEF BudgetInv
<1>2. \A field \in Fields : field \in [Elements -> Int] /\ field # None
  BY FieldAssumption
<1>3. ASSUME NEW v \in Utilisations, NEW field \in Fields, Iterate(v, field)
      PROVE  ReturnInv'
  BY <1>1, <1>2, <1>3, UpdateReturns DEF Iterate
<1>4. ASSUME Diverge PROVE ReturnInv'
  <2>1. CASE sens # None
    <3>1. sens \in [Elements -> Int] /\ sens' = sens
      BY <1>1, <1>2, <1>4, <2>1 DEF FieldInv, Diverge
    <3>2. PICK target : UpdateWith(sens, target, "recovered")
      BY <1>4, <2>1 DEF Diverge
    <3> QED
      BY <1>1, <2>1, <3>1, <3>2, UpdateReturns
  <2>2. CASE sens = None
    <3>1. plan' = plan /\ mem' = mem /\ last' = last /\ sens' = sens
      BY <1>4, <2>2 DEF Diverge
    <3> QED
      BY <3>1, ReturnStays DEF BudgetInv
  <2> QED
    BY <2>1, <2>2
<1>5. ASSUME NEW p \in Plans, Resume(p) PROVE ReturnInv'
  BY <1>5 DEF Resume, ReturnInv, Idle
<1>6. ASSUME UNCHANGED vars PROVE ReturnInv'
  BY <1>6, ReturnStays DEF vars, BudgetInv
<1> QED
  BY <1>1, <1>3, <1>4, <1>5, <1>6 DEF Next, BudgetInv

LEMMA IterationMeets ==
  ASSUME Asymptotes, Drives, BudgetInv, NEW v \in Utilisations, NEW field \in Fields,
         Iterate(v, field), ~last'.idle, Returned
  PROVE  LargestThatFits(plan, alive, mem.x, Free(plan, last'.target) + Refunded * Scale,
                         last'.raw, last'.more)
<1> DEFINE target == GateTarget(plan, VolumeOf(alive), Feasible(v), v)
<1>1. PICK res \in UpdateResults(plan, mem, alive, field, target) :
        last' = [step |-> "updated", target |-> target, raw |-> res.raw,
                 more |-> res.more, idle |-> res.idle]
  BY DEF Iterate, UpdateWith
<1>2. /\ plan \in Plans /\ alive \in SUBSET Elements /\ MemoryOK(plan, mem) /\ EarnInv
      /\ ReturnInv
  BY DEF BudgetInv, FieldInv, EarnInv
<1>3. field \in [Elements -> Nat] /\ field \in [Elements -> Int]
  BY FieldAssumption DEF Drives
<1>4. target \in Int
  BY <1>2, TargetIsInteger, VolumeFacts, FieldAssumption
<1> HIDE DEF target
<1>5. /\ last'.target = target /\ last'.raw = res.raw /\ last'.more = res.more
      /\ last'.idle = res.idle
  BY <1>1
<1>6. VolumeOf({}) = 0
  BY VolumeFacts
<1>7. CASE plan.alg = "hca"
  <2> DEFINE stale == StaleDensity(plan, mem.x, alive)
  <2>1. Refunded = IF mem.x = None THEN 0 ELSE VolumeOf(stale)
    <3>1. Refunded = VolumeOf(last.raw \ (alive \cup plan.protected))
      BY <1>7 DEF Refunded, Taken
    <3>2. CASE last.step = "start"
      BY <1>2, <1>6, <3>1, <3>2 DEF ReturnInv, NoMemory
    <3>3. CASE last.step \in {"updated", "recovered"} /\ ~last.idle
      <4>1. mem.x # None /\ last.raw = DensityAlive(mem.x) \cup plan.protected
        BY <1>2, <1>7, <3>3 DEF ReturnInv
      <4>2. last.raw \ (alive \cup plan.protected) = stale
        BY <4>1 DEF StaleDensity
      <4> QED
        BY <3>1, <4>1, <4>2
    <3> QED
      BY <1>7, <3>2, <3>3 DEF Returned
  <2>2. res \in HcaUpdates(plan, mem, alive, field, target)
    BY <1>7 DEF UpdateResults
  <2> HIDE DEF stale
  <2> QED
    BY <1>2, <1>3, <1>4, <1>5, <1>7, <2>1, <2>2, HcaMeets DEF stale
<1>8. CASE plan.alg = "levelset"
  <2> DEFINE stale == StalePhi(plan, mem.phi, alive)
  <2>1. Refunded = IF mem.phi = None THEN 0 ELSE VolumeOf(stale)
    <3>1. Refunded = VolumeOf(last.raw \ (alive \cup plan.protected))
      BY <1>8 DEF Refunded, Taken
    <3>2. CASE last.step = "start"
      BY <1>2, <1>6, <3>1, <3>2 DEF ReturnInv, NoMemory
    <3>3. CASE last.step \in {"updated", "recovered"} /\ ~last.idle
      <4>1. mem.phi # None /\ last.raw = ElementsAlive(plan, mem.phi)
        BY <1>2, <1>8, <3>3 DEF ReturnInv
      <4>2. last.raw \ (alive \cup plan.protected) = stale
        BY <4>1 DEF StalePhi, ElementsAlive
      <4> QED
        BY <3>1, <4>1, <4>2
    <3> QED
      BY <1>8, <3>2, <3>3 DEF Returned
  <2>2. res \in LevelSetUpdates(plan, mem, alive, field, target)
    BY <1>8 DEF UpdateResults
  <2> HIDE DEF stale
  <2> QED
    BY <1>2, <1>3, <1>4, <1>5, <1>8, <2>1, <2>2, LevelSetMeets DEF stale
<1>9. CASE plan.alg = "saip"
  <2>1. Free(plan, target) + Refunded * Scale = Free(plan, target)
    <3>1. Refunded = 0
      BY <1>9 DEF Refunded
    <3>2. Free(plan, target) + 0 * Scale = Free(plan, target)
      BY <1>2, <1>4, FreeIsInteger
    <3> QED
      BY <3>1, <3>2
  <2>2. res \in SaipUpdates(plan, mem, alive, field, target)
    BY <1>9 DEF UpdateResults
  <2> QED
    BY <1>2, <1>3, <1>4, <1>5, <1>9, <2>1, <2>2, SaipMeets
<1>10. plan.alg \in {"hca", "saip", "levelset"}
  BY <1>2, FieldAssumption
<1> QED
  BY <1>7, <1>8, <1>9, <1>10

(* Every update of HCA, SAIP and the level set keeps the largest removable *)
(* volume on its ladder that fits the target and what was taken since its  *)
(* last design, or has removed all it could: for any mesh, energies,       *)
(* shaping, divergences and resumes (hca.py:217, levelset.py:62).          *)
THEOREM BudgetAlwaysMet ==
  ASSUME Asymptotes, Drives
  PROVE  Spec => BudgetIsMet
<1> DEFINE Meets == last'.step = "updated" /\ ~last'.idle /\ Returned =>
             LargestThatFits(plan, alive, mem.x, Free(plan, last'.target) + Refunded * Scale,
                             last'.raw, last'.more)
<1>1. BudgetInv /\ [Next]_vars => [Meets]_vars
  <2> SUFFICES ASSUME BudgetInv, Next, last'.step = "updated", ~last'.idle, Returned
               PROVE  LargestThatFits(plan, alive, mem.x,
                        Free(plan, last'.target) + Refunded * Scale, last'.raw, last'.more)
    OBVIOUS
  <2>1. CASE Diverge
    <3>1. CASE sens # None
      <4>1. PICK target : UpdateWith(sens, target, "recovered")
        BY <2>1, <3>1 DEF Diverge
      <4>2. last'.step = "recovered"
        BY <4>1 DEF UpdateWith
      <4> QED
        BY <4>2
    <3>2. CASE sens = None
      BY <2>1, <3>2 DEF Diverge, BudgetInv, ReturnInv
    <3> QED
      BY <3>1, <3>2
  <2>2. ASSUME NEW p \in Plans, Resume(p) PROVE FALSE
    BY <2>2 DEF Resume, Idle
  <2> QED
    BY <2>1, <2>2, IterationMeets DEF Next
<1> HIDE DEF Meets
<1>2. Spec => [][Meets]_vars
  BY <1>1, InitBudget, NextBudget, PTL DEF Spec
<1> QED
  BY <1>2 DEF BudgetIsMet, Meets
=============================================================================
