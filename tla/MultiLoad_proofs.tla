--------------------------- MODULE MultiLoad_proofs ---------------------------
(***************************************************************************)
(* Proofs about the numbers a run carries from iteration to iteration, for *)
(* any configurations, any results of the solves and any number of         *)
(* iterations.  That each is carried over as the record says is about what *)
(* is applied, when, and to what; that the controllers can compute with    *)
(* them is about what the results of a case are worth.                     *)
(***************************************************************************)
EXTENDS MultiLoad, Mesh_proofs

(* What is not there is told apart from every function and every record.   *)
NoneIsNoFunction == None # [x \in DOMAIN None |-> None[x]]

-----------------------------------------------------------------------------
(* Sequences whose elements are of no particular set.                      *)
IsSeq(s) == \E S : s \in Seq(S)

LEMMA AppendedSeq ==
  ASSUME NEW s, IsSeq(s), NEW e
  PROVE  /\ IsSeq(Append(s, e))
         /\ Len(s) \in Nat /\ Len(Append(s, e)) = Len(s) + 1
         /\ \A i \in 1..Len(s) : Append(s, e)[i] = s[i]
         /\ Append(s, e)[Len(s) + 1] = e
<1>1. PICK S : s \in Seq(S)
  BY DEF IsSeq
<1>2. s \in Seq(S \cup {e})
  BY <1>1, SeqMonotonic
<1>3. Append(s, e) \in Seq(S \cup {e})
  BY <1>2, AppendProperties
<1> QED
  BY <1>2, <1>3, AppendProperties DEF IsSeq

(* The last entry replaced: the length and every other entry stay.         *)
Retagged(s, e) == [s EXCEPT ![Len(s)] = e]

LEMMA RetaggedSeq ==
  ASSUME NEW s, IsSeq(s), NEW e, Len(s) >= 1
  PROVE  /\ IsSeq(Retagged(s, e)) /\ Len(Retagged(s, e)) = Len(s)
         /\ \A i \in 1..Len(s) - 1 : Retagged(s, e)[i] = s[i]
         /\ Retagged(s, e)[Len(s)] = e
<1>1. PICK S : s \in Seq(S)
  BY DEF IsSeq
<1>2. s \in Seq(S \cup {e}) /\ Len(s) \in Nat
  BY <1>1, SeqMonotonic, LenProperties
<1>3. [s EXCEPT ![Len(s)] = e] \in Seq(S \cup {e})
  BY <1>2, ExceptSeq
<1> QED
  BY <1>2, <1>3, ExceptSeq DEF IsSeq, Retagged

LEMMA CutSeq ==
  ASSUME NEW s, IsSeq(s), NEW n \in 0..Len(s)
  PROVE  /\ IsSeq(SubSeq(s, 1, n)) /\ Len(SubSeq(s, 1, n)) = n
         /\ \A i \in 1..n : SubSeq(s, 1, n)[i] = s[i]
<1>1. PICK S : s \in Seq(S)
  BY DEF IsSeq
<1>2. SubSeq(s, 1, n) \in Seq(S) /\ Len(SubSeq(s, 1, n)) = n
  BY <1>1, SubSeqProperties, LenProperties
<1> QED
  BY <1>1, <1>2, SubSeqProperties, LenProperties DEF IsSeq

LEMMA SeqLength ==
  ASSUME NEW s, IsSeq(s)
  PROVE  Len(s) \in Nat /\ DOMAIN s = 1..Len(s)
BY LenProperties DEF IsSeq

LEMMA EmptyIsSeq == IsSeq(<<>>) /\ Len(<<>>) = 0
<1>1. <<>> \in Seq({})
  OBVIOUS
<1> QED
  BY <1>1 DEF IsSeq

-----------------------------------------------------------------------------
(* The record played again.                                                *)

(* A nonempty set of naturals has a least element.                         *)
LEMMA FirstNatural ==
  ASSUME NEW S \in SUBSET Nat, S # {}
  PROVE  \E n \in S : \A m \in S : n <= m
<1> DEFINE Less == {p \in Nat \X Nat : p[1] < p[2]}
<1>1. IsWellFoundedOn(Less, Nat)
  BY NatLessThanWellFounded DEF OpToRel
<1>2. PICK n \in S : \A m \in S : <<m, n>> \notin Less
  <2> HIDE DEF Less
  <2> QED
    BY <1>1, WFMin
<1>3. ASSUME NEW m \in S PROVE n <= m
  <2>1. <<m, n>> \notin Less /\ m \in Nat /\ n \in Nat
    BY <1>2
  <2>2. m < n => <<m, n>> \in Less
    BY <2>1
  <2> QED
    BY <2>1, <2>2
<1> QED
  BY <1>3

(* r is the first n iterations of the record, played one after another.    *)
Plays(record, n, r) ==
  r = [i \in 0..n |-> IF i = 0 THEN Fresh ELSE PlayedOn(record[i], r[i - 1])]

LEMMA PlaysExists ==
  ASSUME NEW record, NEW n \in Nat
  PROVE  \E r : Plays(record, n, r)
<1> DEFINE Bad == {m \in Nat : ~\E r : Plays(record, m, r)}
<1> SUFFICES ASSUME Bad # {} PROVE FALSE
  OBVIOUS
<1>1. PICK m \in Bad : \A k \in Bad : m <= k
  <2>1. Bad \in SUBSET Nat
    OBVIOUS
  <2> HIDE DEF Bad
  <2> QED
    BY <2>1, FirstNatural
<1>2. m \in Nat /\ ~\E r : Plays(record, m, r)
  BY <1>1
<1>3. m # 0
  <2> DEFINE r == [i \in 0..0 |-> Fresh]
  <2>1. r = [i \in 0..0 |-> IF i = 0 THEN Fresh ELSE PlayedOn(record[i], r[i - 1])]
    OBVIOUS
  <2>2. Plays(record, 0, r)
    BY <2>1 DEF Plays
  <2> QED
    BY <1>2, <2>2
<1>4. m - 1 \in Nat /\ m - 1 \notin Bad
  BY <1>1, <1>2, <1>3
<1>5. PICK r : Plays(record, m - 1, r)
  BY <1>4
<1> DEFINE q == [i \in 0..m |-> IF i = m THEN PlayedOn(record[m], r[m - 1]) ELSE r[i]]
<1>6. ASSUME NEW i \in 0..m
      PROVE  q[i] = IF i = 0 THEN Fresh ELSE PlayedOn(record[i], q[i - 1])
  <2>1. \A j \in 0..m - 1 : r[j] = IF j = 0 THEN Fresh ELSE PlayedOn(record[j], r[j - 1])
    BY <1>5 DEF Plays
  <2>2. CASE i = m
    BY <1>2, <1>3, <2>2
  <2>3. CASE i # m
    BY <1>2, <1>3, <2>1, <2>3
  <2> QED
    BY <2>2, <2>3
<1>7. q = [i \in 0..m |-> IF i = 0 THEN Fresh ELSE PlayedOn(record[i], q[i - 1])]
  <2>1. q = [i \in 0..m |-> q[i]]
    OBVIOUS
  <2> HIDE DEF q
  <2> QED
    BY <1>6, <2>1
<1> QED
  BY <1>2, <1>7 DEF Plays

(* One iteration of the record after another, from nothing.                *)
LEMMA ReplaySteps ==
  ASSUME NEW record, Len(record) \in Nat
  PROVE  /\ Replay(record)[0] = Fresh
         /\ \A i \in 1..Len(record) :
              Replay(record)[i] = PlayedOn(record[i], Replay(record)[i - 1])
<1>1. \E r : Plays(record, Len(record), r)
  BY PlaysExists
<1>2. Replay(record) = CHOOSE r : Plays(record, Len(record), r)
  BY Zenon DEF Replay, Plays
<1>3. Plays(record, Len(record), Replay(record))
  BY <1>1, <1>2
<1> DEFINE r == Replay(record)
<1>4. r = [i \in 0..Len(record) |->
             IF i = 0 THEN Fresh ELSE PlayedOn(record[i], r[i - 1])]
  BY <1>3 DEF Plays
<1> HIDE DEF r
<1>5. r[0] = Fresh /\ \A i \in 1..Len(record) : r[i] = PlayedOn(record[i], r[i - 1])
  BY <1>4
<1> QED
  BY <1>5 DEF r

(* What an iteration leaves depends on it and on those before it.          *)
LEMMA SamePast ==
  ASSUME NEW one, NEW other, Len(one) \in Nat, Len(other) \in Nat,
         NEW n \in Nat, n <= Len(one), n <= Len(other),
         \A i \in 1..n : one[i] = other[i]
  PROVE  \A i \in 0..n : Replay(one)[i] = Replay(other)[i]
<1> DEFINE Bad == {i \in 0..n : Replay(one)[i] # Replay(other)[i]}
<1> SUFFICES ASSUME Bad # {} PROVE FALSE
  OBVIOUS
<1>1. PICK m \in Bad : \A k \in Bad : m <= k
  <2>1. Bad \in SUBSET Nat
    OBVIOUS
  <2> HIDE DEF Bad
  <2> QED
    BY <2>1, FirstNatural
<1>2. m \in 0..n /\ Replay(one)[m] # Replay(other)[m]
  BY <1>1
<1>3. m # 0
  BY <1>2, ReplaySteps
<1>4. m - 1 \in 0..n /\ m - 1 \notin Bad /\ m \in 1..n
  BY <1>1, <1>2, <1>3
<1>5. Replay(one)[m - 1] = Replay(other)[m - 1]
  BY <1>4
<1>6. /\ Replay(one)[m] = PlayedOn(one[m], Replay(one)[m - 1])
      /\ Replay(other)[m] = PlayedOn(other[m], Replay(other)[m - 1])
  BY <1>4, ReplaySteps
<1>7. one[m] = other[m]
  BY <1>4
<1> QED
  BY <1>2, <1>5, <1>6, <1>7

-----------------------------------------------------------------------------
(* The weights.                                                            *)

(* w is one weight for each case of p, or None when p adapts none.         *)
Fitting(p, w) ==
  /\ w = None <=> ~Adapts(p)
  /\ w # None => DOMAIN w = DOMAIN p.cases

LEMMA FunctionIsSomething ==
  ASSUME NoneIsNoFunction, NEW f, f = [x \in DOMAIN f |-> f[x]]
  PROVE  f # None
BY DEF NoneIsNoFunction

LEMMA RestoredFits ==
  ASSUME NoneIsNoFunction, NEW p, NEW saved
  PROVE  Fitting(p, RestoredWeights(p, saved))
<1>1. Base(p) # None /\ DOMAIN Base(p) = DOMAIN p.cases
  <2>1. Base(p) = [i \in DOMAIN Base(p) |-> Base(p)[i]] /\ DOMAIN Base(p) = DOMAIN p.cases
    BY DEF Base
  <2> QED
    BY <2>1, FunctionIsSomething
<1> QED
  BY <1>1 DEF Fitting, RestoredWeights, FirstWeights

LEMMA FittingIsKept ==
  ASSUME NEW p, NEW w, Fitting(p, w)
  PROVE  RestoredWeights(p, w) = w
BY DEF Fitting, RestoredWeights, FirstWeights

LEMMA BalancedFits ==
  ASSUME NoneIsNoFunction, NEW p, NEW w, NEW vs, Fitting(p, w), w # None
  PROVE  Fitting(p, Balanced(p, w, vs))
<1> DEFINE b == Balanced(p, w, vs)
<1>1. b = w \/ \E h : b = [i \in DOMAIN w |-> h[i]]
  <2> DEFINE Known == {i \in DOMAIN vs : Signal(vs[i])}
  <2>1. CASE Cardinality(Known) < 2
    BY <2>1 DEF Balanced
  <2>2. CASE ~(Cardinality(Known) < 2)
    <3>1. b = [i \in DOMAIN w |-> b[i]]
      BY <2>2 DEF Balanced
    <3> QED
      BY <3>1
  <2> QED
    BY <2>1, <2>2
<1> HIDE DEF b
<1>2. b # None /\ DOMAIN b = DOMAIN w
  <2>1. CASE b = w
    BY <2>1
  <2>2. ASSUME NEW h, b = [i \in DOMAIN w |-> h[i]] PROVE b # None /\ DOMAIN b = DOMAIN w
    <3>1. DOMAIN b = DOMAIN w /\ b = [i \in DOMAIN b |-> b[i]]
      BY <2>2
    <3> QED
      BY <3>1, FunctionIsSomething
  <2> QED
    BY <1>1, <2>1, <2>2
<1>3. Fitting(p, b)
  BY <1>2 DEF Fitting
<1> QED
  BY <1>3 DEF b

(* What playing an iteration leaves is of the plan it ran with.            *)
LEMMA PlayedFits ==
  ASSUME NoneIsNoFunction, NEW entry, NEW was
  PROVE  Fitting(entry.plan, PlayedOn(entry, was).weights)
<1> DEFINE w == RestoredWeights(entry.plan, was.weights)
<1>1. Fitting(entry.plan, w)
  BY RestoredFits
<1>2. PlayedOn(entry, was).weights =
        IF w # None /\ entry.kind # "diverged"
        THEN Balanced(entry.plan, w, entry.seen.vs) ELSE w
  BY DEF PlayedOn
<1> HIDE DEF w
<1> QED
  BY <1>1, <1>2, BalancedFits

-----------------------------------------------------------------------------
(* The record grows by one entry, has its last one tagged, or is cut.      *)

LEMMA ReplayAppended ==
  ASSUME NEW record, IsSeq(record), NEW e
  PROVE  /\ \A i \in 0..Len(record) : Replay(Append(record, e))[i] = Replay(record)[i]
         /\ Replay(Append(record, e))[Len(record) + 1] = PlayedOn(e, Replay(record)[Len(record)])
<1> DEFINE n == Len(record)
           t == Append(record, e)
<1>1. n \in Nat /\ Len(t) = n + 1 /\ t[n + 1] = e /\ \A i \in 1..n : t[i] = record[i]
  BY AppendedSeq
<1> HIDE DEF t, n
<1>2. \A i \in 0..n : Replay(t)[i] = Replay(record)[i]
  BY <1>1, SamePast DEF n
<1>3. Replay(t)[n + 1] = PlayedOn(t[n + 1], Replay(t)[n])
  <2>1. n + 1 \in 1..Len(t) /\ (n + 1) - 1 = n /\ Len(t) \in Nat
    BY <1>1
  <2> QED
    BY <2>1, ReplaySteps
<1> QED
  BY <1>1, <1>2, <1>3 DEF n, t

LEMMA ReplayRetagged ==
  ASSUME NEW record, IsSeq(record), NEW e, Len(record) >= 1
  PROVE  /\ \A i \in 0..Len(record) - 1 : Replay(Retagged(record, e))[i] = Replay(record)[i]
         /\ Replay(Retagged(record, e))[Len(record)]
              = PlayedOn(e, Replay(record)[Len(record) - 1])
<1> DEFINE n == Len(record)
           t == Retagged(record, e)
<1>1. /\ n \in Nat /\ n >= 1 /\ n = Len(record) /\ Len(t) = n /\ t[n] = e
      /\ \A i \in 1..n - 1 : t[i] = record[i]
  BY RetaggedSeq, SeqLength
<1> HIDE DEF t, n
<1>2. \A i \in 0..n - 1 : Replay(t)[i] = Replay(record)[i]
  <2>1. n - 1 \in Nat /\ n - 1 <= n
    BY <1>1
  <2> QED
    BY <1>1, <2>1, SamePast
<1>3. Replay(t)[n] = PlayedOn(t[n], Replay(t)[n - 1])
  <2>1. n \in 1..Len(t) /\ Len(t) \in Nat
    BY <1>1
  <2> QED
    BY <2>1, ReplaySteps
<1>4. Replay(t)[n] = PlayedOn(e, Replay(record)[n - 1])
  <2>1. n - 1 \in 0..n - 1
    BY <1>1
  <2> QED
    BY <1>1, <1>2, <1>3, <2>1
<1> QED
  BY <1>2, <1>4 DEF n, t

LEMMA ReplayCut ==
  ASSUME NEW record, IsSeq(record), NEW n \in 0..Len(record)
  PROVE  Replay(SubSeq(record, 1, n))[n] = Replay(record)[n]
<1> DEFINE t == SubSeq(record, 1, n)
<1>1. Len(t) = n /\ (\A i \in 1..n : t[i] = record[i]) /\ Len(record) \in Nat
  BY CutSeq, SeqLength
<1> HIDE DEF t
<1>2. Replay(t)[n] = Replay(record)[n]
  BY <1>1, SamePast
<1> QED
  BY <1>2 DEF t

-----------------------------------------------------------------------------
(* The inductive invariant.  The process, the checkpoint and the record    *)
(* have the fields the code gives them.                                    *)
ProcessShape(m) ==
  m = [phase |-> m.phase, it |-> m.it, vol |-> m.vol, sens |-> m.sens,
       points |-> m.points, weights |-> m.weights, field |-> m.field,
       vfs |-> m.vfs, pair |-> m.pair, stall |-> m.stall, seen |-> m.seen]
EntryShape(e) ==
  e = [plan |-> e.plan, kind |-> e.kind, vol |-> e.vol, target |-> e.target,
       seen |-> e.seen, raws |-> e.raws]
Shapes ==
  /\ ProcessShape(proc) /\ IsSeq(proc.vfs) /\ IsSeq(log)
  /\ \A i \in 1..Len(log) : EntryShape(log[i])

(* The record holds the iterations up to the checkpoint, and the one that  *)
(* is measured and not yet checkpointed.                                   *)
Counted ==
  /\ proc.it \in Nat /\ proc.phase \in {"solving", "measured", "ended"}
  /\ ckpt # None => ckpt.it \in 0..Len(log)
  /\ proc.phase = "solving" => Len(log) = proc.it
  /\ proc.phase = "measured" => Len(log) = proc.it + 1
  /\ proc.phase # "ended" => proc.it = IF ckpt = None THEN 0 ELSE ckpt.it

(* The checkpoint, a process about to solve and a process that has         *)
(* measured hold what the record gives: before it is measured again, the   *)
(* weights fit the plan of the present process, which a resume may change. *)
Earned(c) ==
  LET r == Replay(log)[c.it]
  IN  c.weights = r.weights /\ c.sens = r.sens /\ c.points = r.points
CheckpointEarned == ckpt # None => Earned(ckpt)

Kept(p, points) == IF p.mode = "multipoint" THEN points ELSE <<>>
SolvingEarned ==
  proc.phase = "solving" =>
    LET r == Replay(log)[Len(log)]
    IN  /\ proc.weights = RestoredWeights(plan, r.weights)
        /\ proc.sens = r.sens
        /\ proc.points = Kept(plan, r.points)
LastIsMeasured(e) ==
  e.kind = "measured" /\ e.plan = plan /\ e.vol = proc.vol /\ e.seen = proc.seen
MeasuredEarned ==
  proc.phase = "measured" =>
    LET n == Len(log)
    IN  /\ proc.weights = Replay(log)[n].weights
        /\ proc.field = Replay(log)[n].sens
        /\ proc.points = Kept(plan, Replay(log)[n - 1].points)
        /\ LastIsMeasured(log[n])

(* k is the number of the last iterations that were outrun, without a gap. *)
IsStreak(k) ==
  LET n == Len(log)
  IN  /\ k \in 0..Len(proc.vfs)
      /\ \A i \in n - k + 1..n : Outrun(i)
      /\ k = Len(proc.vfs) \/ ~Outrun(n - k)

(* The pair kept for the next iteration is of the last update, if that is  *)
(* the last entry of the record and of this process.                       *)
StallCounts ==
  LET n == Len(log)
  IN  /\ Len(proc.vfs) <= n
      /\ proc.phase = "measured" => Len(proc.vfs) >= 1 /\ IsStreak(proc.stall)
      /\ proc.phase = "solving" =>
           IF proc.pair = None
           THEN Len(proc.vfs) = 0 \/ log[n].kind = "diverged"
           ELSE /\ Len(proc.vfs) >= 1 /\ IsStreak(proc.stall)
                /\ log[n].kind = "updated"
                /\ proc.pair.vol = log[n].vol /\ proc.pair.target = log[n].target

CarryInv ==
  Shapes /\ Counted /\ CheckpointEarned /\ SolvingEarned /\ MeasuredEarned /\ StallCounts

(* The count of a streak is the maximum the property names.                *)
LEMMA StreakIsLongest ==
  ASSUME CarryInv, NEW k, IsStreak(k)
  PROVE  k = Max({j \in 0..Len(proc.vfs) : \A i \in Len(log) - j + 1..Len(log) : Outrun(i)})
<1> DEFINE n == Len(log)
           v == Len(proc.vfs)
           Streaks == {j \in 0..v : \A i \in n - j + 1..n : Outrun(i)}
<1>1. n \in Nat /\ v \in Nat
  BY SeqLength DEF CarryInv, Shapes
<1>2. k \in 0..v /\ (\A i \in n - k + 1..n : Outrun(i)) /\ (k = v \/ ~Outrun(n - k))
  BY DEF IsStreak
<1> HIDE DEF n, v
<1>3. k \in Streaks /\ \A j \in Streaks : j <= k
  <2>1. k \in Streaks
    BY <1>2
  <2>2. ASSUME NEW j \in Streaks, ~(j <= k) PROVE FALSE
    <3>1. j \in 0..v /\ \A i \in n - j + 1..n : Outrun(i)
      BY <2>2
    <3>2. j > k /\ k # v /\ n - k \in n - j + 1..n
      BY <1>1, <1>2, <2>2, <3>1
    <3> QED
      BY <1>2, <3>1, <3>2
  <2> QED
    BY <2>1, <2>2
<1>4. \A x \in Streaks : (\A j \in Streaks : x >= j) => x = k
  <2>1. \A x \in Streaks : x \in Int
    BY <1>1
  <2> HIDE DEF Streaks
  <2> QED
    BY <1>3, <2>1
<1>5. k = Max(Streaks)
  <2>1. \A j \in Streaks : k >= j
    <3>1. \A j \in Streaks : j \in Int
      BY <1>1
    <3> HIDE DEF Streaks
    <3> QED
      BY <1>3, <3>1
  <2> HIDE DEF Streaks
  <2> QED
    BY <1>3, <1>4, <2>1 DEF Max
<1> QED
  BY <1>5 DEF n, v

-----------------------------------------------------------------------------
(* The steps, one lemma for each kind.                                     *)

LEMMA NothingSolvedKeeps ==
  ASSUME CarryInv, proc' = [proc EXCEPT !.phase = "ended"], ckpt' = ckpt, log' = log
  PROVE  CarryInv'
<1>1. /\ proc'.phase = "ended" /\ proc'.it = proc.it /\ proc'.vfs = proc.vfs
      /\ ProcessShape(proc')
  BY DEF CarryInv, Shapes, ProcessShape
<1>2. Shapes'
  BY <1>1 DEF CarryInv, Shapes
<1>3. Counted'
  BY <1>1 DEF CarryInv, Counted
<1>4. CheckpointEarned'
  BY DEF CarryInv, CheckpointEarned, Earned
<1>5. SolvingEarned' /\ MeasuredEarned'
  BY <1>1 DEF SolvingEarned, MeasuredEarned
<1>6. StallCounts'
  BY <1>1 DEF CarryInv, StallCounts
<1> QED
  BY <1>2, <1>3, <1>4, <1>5, <1>6 DEF CarryInv

(* A measured iteration: the next entry of the record.                     *)
LEMMA MeasureKeeps ==
  ASSUME NoneIsNoFunction, CarryInv, NEW results, Measure(results)
  PROVE  CarryInv'
<1> DEFINE n == Len(log)
           v == Len(proc.vfs)
           e == Entry("measured", results)
           w == IF proc.weights = None THEN Base(plan) ELSE proc.weights
           was == Replay(log)[n]
<1>1. /\ e.kind = "measured" /\ e.plan = plan /\ e.vol = proc.vol /\ EntryShape(e)
  BY DEF Entry, EntryShape
<1>2. /\ proc.phase = "solving" /\ plan' = plan /\ ckpt' = ckpt /\ log' = Append(log, e)
      /\ proc' = [proc EXCEPT
           !.phase = "measured", !.seen = e.seen,
           !.weights = IF @ = None THEN None ELSE Balanced(plan, @, e.seen.vs),
           !.vfs = Append(@, proc.vol),
           !.stall = GrowStall(@, proc.pair, proc.vol),
           !.field = BlendHistory(plan.share, Combined(e.raws, w), proc.sens)]
  BY DEF Measure, Solving
<1> HIDE DEF e, w
<1>3. /\ ProcessShape(proc') /\ proc'.phase = "measured" /\ proc'.it = proc.it
      /\ proc'.vol = proc.vol /\ proc'.seen = e.seen /\ proc'.points = proc.points
      /\ proc'.vfs = Append(proc.vfs, proc.vol)
  BY <1>2 DEF CarryInv, Shapes, ProcessShape
<1>4. /\ proc'.weights = IF proc.weights = None THEN None
                         ELSE Balanced(plan, proc.weights, e.seen.vs)
      /\ proc'.field = BlendHistory(plan.share, Combined(e.raws, w), proc.sens)
      /\ proc'.stall = GrowStall(proc.stall, proc.pair, proc.vol)
  BY <1>2 DEF CarryInv, Shapes, ProcessShape
<1>5. /\ n \in Nat /\ IsSeq(log') /\ Len(log') = n + 1 /\ log'[n + 1] = e
      /\ \A i \in 1..n : log'[i] = log[i]
  BY <1>2, AppendedSeq DEF CarryInv, Shapes
<1>6. v \in Nat /\ IsSeq(proc'.vfs) /\ Len(proc'.vfs) = v + 1
  BY <1>3, AppendedSeq DEF CarryInv, Shapes
<1>7. /\ \A i \in 0..n : Replay(log')[i] = Replay(log)[i]
      /\ Replay(log')[n + 1] = PlayedOn(e, was)
  BY <1>2, ReplayAppended DEF CarryInv, Shapes
<1> HIDE DEF n, v
<1>8. Shapes'
  <2>1. \A i \in 1..n : EntryShape(log[i])
    BY DEF CarryInv, Shapes, n
  <2>2. ASSUME NEW i \in 1..n + 1 PROVE EntryShape(log'[i])
    BY <1>1, <1>5, <2>1
  <2> QED
    BY <1>3, <1>5, <1>6, <2>2 DEF Shapes
<1>9. Counted'
  <2>1. /\ proc.it \in Nat /\ proc.it = n /\ (ckpt # None => ckpt.it \in 0..n)
        /\ proc.it = IF ckpt = None THEN 0 ELSE ckpt.it
    BY <1>2 DEF CarryInv, Counted, n
  <2> QED
    BY <1>2, <1>3, <1>5, <2>1 DEF Counted
<1>10. CheckpointEarned'
  <2>1. ckpt # None => ckpt.it \in 0..n /\ Earned(ckpt)
    BY DEF CarryInv, Counted, CheckpointEarned, n
  <2> QED
    BY <1>2, <1>7, <2>1 DEF CheckpointEarned, Earned
<1>11. SolvingEarned'
  BY <1>3 DEF SolvingEarned
<1>12. MeasuredEarned'
  <2>1. /\ proc.weights = RestoredWeights(plan, was.weights) /\ proc.sens = was.sens
        /\ proc.points = Kept(plan, was.points)
    BY <1>2 DEF CarryInv, SolvingEarned, n
  <2> HIDE DEF was
  <2>2. proc'.weights = PlayedOn(e, was).weights
    BY <1>1, <1>4, <2>1 DEF PlayedOn
  <2>3. proc'.field = PlayedOn(e, was).sens
    BY <1>1, <1>4, <2>1 DEF PlayedOn, w
  <2>4. proc'.points = Kept(plan, Replay(log')[(n + 1) - 1].points)
    BY <1>3, <1>5, <1>7, <2>1 DEF was
  <2> QED
    BY <1>1, <1>2, <1>3, <1>5, <1>7, <2>2, <2>3, <2>4 DEF MeasuredEarned, LastIsMeasured
<1>13. StallCounts'
  <2>1. v <= n
    BY DEF CarryInv, StallCounts, n, v
  <2>2. ASSUME NEW i \in 1..n PROVE Outrun(i)' <=> Outrun(i)
    <3>1. i - 1 \in 1..n \/ i = 1
      BY <1>5
    <3>2. (n + 1) - (v + 1) = n - v
      BY <1>5, <1>6
    <3>3. i > n - v + 1 => i - 1 \in 1..n
      BY <1>5, <1>6, <2>1
    <3> QED
      BY <1>5, <1>6, <3>2, <3>3 DEF Outrun, n, v
  <2>3. PICK m \in Nat : m = n + 1
    BY <1>5
  <2>4. Outrun(m)' <=>
          /\ v >= 1 /\ log[n].kind = "updated"
          /\ log[n].target > log[n].vol * Scale /\ proc.vol < log[n].vol
    <3>1. (m > (n + 1) - (v + 1) + 1) <=> v >= 1
      BY <1>5, <1>6, <2>3
    <3>2. m - 1 = n /\ (v >= 1 => n \in 1..n)
      BY <1>5, <1>6, <2>1, <2>3
    <3>3. v >= 1 => log'[n] = log[n]
      BY <1>5, <3>2
    <3>4. log'[m].kind = "measured" /\ log'[m].vol = proc.vol
      BY <1>1, <1>5, <2>3
    <3>5. Outrun(m)' <=>
            /\ v >= 1 /\ log'[n].kind = "updated"
            /\ log'[n].target > log'[n].vol * Scale /\ proc.vol < log'[n].vol
      BY <1>5, <1>6, <3>1, <3>2, <3>4 DEF Outrun
    <3> QED
      BY <3>3, <3>5
  <2>5. (IsStreak(proc.stall))'
    <3>1. proc'.stall = 0 /\ ~Outrun(m)' => (IsStreak(proc.stall))'
      BY <1>5, <1>6, <2>3 DEF IsStreak
    <3>2. CASE proc.pair = None
      <4>1. proc'.stall = 0
        BY <1>4, <3>2 DEF GrowStall
      <4>2. v = 0 \/ log[n].kind = "diverged"
        BY <1>2, <3>2 DEF CarryInv, StallCounts, n, v
      <4>3. ~Outrun(m)'
        BY <1>6, <2>4, <4>2
      <4> QED
        BY <3>1, <4>1, <4>3
    <3>3. CASE proc.pair # None
      <4>1. /\ v >= 1 /\ IsStreak(proc.stall) /\ log[n].kind = "updated"
            /\ proc.pair.vol = log[n].vol /\ proc.pair.target = log[n].target
        BY <1>2, <3>3 DEF CarryInv, StallCounts, n, v
      <4>2. PICK k \in 0..v : k = proc.stall
        BY <4>1 DEF IsStreak, v
      <4>3. (\A i \in n - k + 1..n : Outrun(i)) /\ (k = v \/ ~Outrun(n - k))
        BY <4>1, <4>2 DEF IsStreak, n, v
      <4>4. proc'.stall = IF Outrun(m)' THEN k + 1 ELSE 0
        BY <1>4, <2>4, <3>3, <4>1, <4>2 DEF GrowStall
      <4>5. CASE Outrun(m)'
        <5>1. \A i \in m - k..m : Outrun(i)'
          <6>1. ASSUME NEW i \in m - k..m PROVE Outrun(i)'
            <7>1. i = m \/ (i \in n - k + 1..n /\ i \in 1..n)
              BY <1>5, <1>6, <2>1, <2>3, <4>2
            <7> QED
              BY <2>2, <4>3, <4>5, <7>1
          <6> QED
            BY <6>1
        <5>2. k = v \/ ~Outrun(m - (k + 1))'
          <6>1. ASSUME k # v PROVE ~Outrun(m - (k + 1))'
            <7>1. m - (k + 1) = n - k /\ m - (k + 1) \in 1..n
              <8>1. /\ n \in Nat /\ v \in Nat /\ v <= n /\ m = n + 1
                    /\ k \in Nat /\ k <= v /\ k # v
                BY <1>5, <1>6, <2>1, <2>3, <4>2, <6>1
              <8> HIDE DEF n, v
              <8> QED
                BY <8>1
            <7>2. PICK i \in 1..n : i = m - (k + 1)
              BY <7>1
            <7> QED
              BY <2>2, <4>3, <6>1, <7>1, <7>2
          <6> QED
            BY <6>1
        <5>3. k + 1 \in 0..v + 1 /\ m - (k + 1) + 1 = m - k
          BY <1>6, <2>3, <4>2
        <5> QED
          BY <1>5, <1>6, <2>3, <4>4, <4>5, <5>1, <5>2, <5>3 DEF IsStreak
      <4> QED
        BY <3>1, <4>4, <4>5
    <3> QED
      BY <3>2, <3>3
  <2> QED
    BY <1>3, <1>5, <1>6, <2>1, <2>5 DEF StallCounts
<1> QED
  BY <1>8, <1>9, <1>10, <1>11, <1>12, <1>13 DEF CarryInv

(* Tagging the measured iteration changes what it is followed by, not what *)
(* it measured.                                                            *)
LEMMA TaggedEntry ==
  ASSUME CarryInv, proc.phase = "measured", NEW kind, NEW target, kind # "diverged",
         NEW record, record = Tagged(kind, target)
  PROVE  LET n == Len(log)
         IN  /\ n \in Nat /\ n >= 1 /\ IsSeq(record) /\ Len(record) = n
             /\ \A i \in 1..n - 1 : record[i] = log[i]
             /\ EntryShape(record[n])
             /\ record[n].kind = kind /\ record[n].target = target
             /\ record[n].plan = plan /\ record[n].vol = proc.vol
             /\ record[n].seen = proc.seen
             /\ \A i \in 0..n - 1 : Replay(record)[i] = Replay(log)[i]
             /\ Replay(record)[n] = PlayedOn(record[n], Replay(log)[n - 1])
             /\ Replay(record)[n].weights = Replay(log)[n].weights
             /\ Replay(record)[n].sens = Replay(log)[n].sens
<1> DEFINE n == Len(log)
           e == [log[n] EXCEPT !.kind = kind, !.target = target]
           was == Replay(log)[n - 1]
<1>1. n \in Nat /\ n >= 1 /\ IsSeq(log) /\ n \in 1..n /\ DOMAIN log = 1..n
  <2>1. n \in Nat /\ DOMAIN log = 1..n /\ IsSeq(log)
    BY SeqLength DEF CarryInv, Shapes
  <2>2. n = proc.it + 1 /\ proc.it \in Nat
    BY DEF CarryInv, Counted
  <2> QED
    BY <2>1, <2>2
<1>2. EntryShape(log[n]) /\ LastIsMeasured(log[n])
  BY <1>1 DEF CarryInv, Shapes, MeasuredEarned
<1> HIDE DEF n
<1>3. /\ EntryShape(e) /\ e.kind = kind /\ e.target = target
      /\ e.plan = log[n].plan /\ e.vol = log[n].vol
      /\ e.seen = log[n].seen /\ e.raws = log[n].raws
  <2>1. PICK d : d = [log[n] EXCEPT !.kind = kind, !.target = target]
    OBVIOUS
  <2>2. EntryShape(d) /\ d.kind = kind /\ d.target = target /\ d.plan = log[n].plan
        /\ d.vol = log[n].vol /\ d.seen = log[n].seen /\ d.raws = log[n].raws
    BY <1>2, <2>1 DEF EntryShape
  <2> QED
    BY <2>1, <2>2
<1>4. record = Retagged(log, e)
  BY DEF Tagged, Retagged, n, e
<1> HIDE DEF e
<1>5. /\ IsSeq(record) /\ Len(record) = n /\ record[n] = e
      /\ \A i \in 1..n - 1 : record[i] = log[i]
  BY <1>1, <1>4, RetaggedSeq DEF n
<1>6. /\ \A i \in 0..n - 1 : Replay(record)[i] = Replay(log)[i]
      /\ Replay(record)[n] = PlayedOn(e, was)
  BY <1>1, <1>4, ReplayRetagged DEF n
<1>7. Replay(log)[n] = PlayedOn(log[n], was)
  BY <1>1, ReplaySteps
<1>8. /\ PlayedOn(e, was).weights = PlayedOn(log[n], was).weights
      /\ PlayedOn(e, was).sens = PlayedOn(log[n], was).sens
  <2> HIDE DEF was
  <2>1. log[n].kind # "diverged" /\ e.kind # "diverged"
    BY <1>2, <1>3 DEF LastIsMeasured
  <2> QED
    BY <1>3, <2>1 DEF PlayedOn
<1> HIDE DEF was
<1> QED
  BY <1>1, <1>2, <1>3, <1>5, <1>6, <1>7, <1>8 DEF LastIsMeasured, was, n

(* What playing a measured iteration leaves of the points.                 *)
LEMMA PointsPlayed ==
  ASSUME NEW e, NEW was
  PROVE  PlayedOn(e, was).points =
           Kept(e.plan, IF e.kind = "updated" /\ e.seen.v \notin {NaN, Inf}
                        THEN Append(was.points, <<e.vol, e.seen.v>>) ELSE was.points)
BY DEF PlayedOn, Kept

LEMMA ConvergeKeeps ==
  ASSUME CarryInv, Converge
  PROVE  CarryInv'
<1> DEFINE n == Len(log)
<1>1. /\ proc.phase = "measured" /\ plan' = plan /\ log' = Tagged("converged", 0)
      /\ proc' = [proc EXCEPT !.phase = "ended"] /\ ckpt' = Saved(proc, proc.field)
  BY DEF Converge
<1>2. /\ ProcessShape(proc') /\ proc'.phase = "ended" /\ proc'.it = proc.it
      /\ proc'.vfs = proc.vfs
  BY <1>1 DEF CarryInv, Shapes, ProcessShape
<1>3. /\ ckpt'.it = proc.it + 1 /\ ckpt'.weights = proc.weights /\ ckpt'.sens = proc.field
      /\ ckpt'.points = proc.points
  BY <1>1 DEF Saved
<1>4. /\ n \in Nat /\ n >= 1 /\ IsSeq(log') /\ Len(log') = n
      /\ \A i \in 1..n - 1 : log'[i] = log[i]
      /\ EntryShape(log'[n]) /\ log'[n].kind = "converged" /\ log'[n].plan = plan
      /\ Replay(log')[n] = PlayedOn(log'[n], Replay(log)[n - 1])
      /\ Replay(log')[n].weights = Replay(log)[n].weights
      /\ Replay(log')[n].sens = Replay(log)[n].sens
  <2>1. PICK record : record = log'
    OBVIOUS
  <2> QED
    BY <1>1, <2>1, TaggedEntry
<1>5. proc.it \in Nat /\ n = proc.it + 1
  BY <1>1 DEF CarryInv, Counted
<1>6. Shapes'
  <2>1. \A i \in 1..n - 1 : EntryShape(log[i])
    BY <1>4 DEF CarryInv, Shapes
  <2>2. ASSUME NEW i \in 1..n PROVE EntryShape(log'[i])
    BY <1>4, <2>1
  <2>3. IsSeq(proc.vfs)
    BY DEF CarryInv, Shapes
  <2> QED
    BY <1>2, <1>4, <2>2, <2>3 DEF Shapes
<1>7. Counted'
  BY <1>2, <1>3, <1>4, <1>5 DEF Counted
<1>8. CheckpointEarned'
  <2>1. /\ proc.weights = Replay(log)[n].weights /\ proc.field = Replay(log)[n].sens
        /\ proc.points = Kept(plan, Replay(log)[n - 1].points)
    BY <1>1 DEF CarryInv, MeasuredEarned
  <2>2. Replay(log')[n].points = proc.points
    <3>1. PICK e, was : e = log'[n] /\ was = Replay(log)[n - 1]
      OBVIOUS
    <3>2. PlayedOn(e, was).points = Kept(e.plan, was.points)
      <4>1. e.kind # "updated"
        BY <1>4, <3>1
      <4> QED
        BY <4>1, PointsPlayed
    <3> QED
      BY <1>4, <2>1, <3>1, <3>2
  <2>3. ckpt'.it = n
    BY <1>3, <1>5
  <2> QED
    BY <1>3, <1>4, <2>1, <2>2, <2>3 DEF CheckpointEarned, Earned
<1>9. SolvingEarned' /\ MeasuredEarned'
  BY <1>2 DEF SolvingEarned, MeasuredEarned
<1>10. StallCounts'
  BY <1>2, <1>4 DEF CarryInv, StallCounts
<1> QED
  BY <1>6, <1>7, <1>8, <1>9, <1>10 DEF CarryInv

LEMMA AdvanceKeeps ==
  ASSUME NoneIsNoFunction, CarryInv, NEW vol, Advance(vol)
  PROVE  CarryInv'
<1> DEFINE n == Len(log)
           was == Replay(log)[n - 1]
           points == WithPoint(proc.points, proc.vol, proc.seen.v)
           target == NextTarget(plan, points, proc.vol, proc.seen.feasible,
                                Understood(proc.seen.v))
           after == [proc EXCEPT !.vol = vol, !.points = points]
           pair == [vol |-> proc.vol, target |-> target]
<1>1. /\ proc.phase = "measured" /\ plan' = plan /\ log' = Tagged("updated", target)
      /\ ckpt' = Saved(after, proc.field)
      /\ proc' = [after EXCEPT !.phase = "solving", !.it = @ + 1, !.sens = proc.field,
                               !.field = None, !.pair = pair]
  BY DEF Advance
<1>2. pair # None /\ pair.vol = proc.vol /\ pair.target = target
  <2>1. pair = [x \in DOMAIN pair |-> pair[x]]
    OBVIOUS
  <2> HIDE DEF target
  <2>2. pair.vol = proc.vol /\ pair.target = target
    OBVIOUS
  <2> HIDE DEF pair
  <2> QED
    BY <2>1, <2>2, FunctionIsSomething
<1> HIDE DEF pair, target, points
<1>3. PICK m : m = after
  OBVIOUS
<1>4. /\ ProcessShape(m) /\ m.it = proc.it /\ m.weights = proc.weights /\ m.points = points
      /\ m.vfs = proc.vfs /\ m.stall = proc.stall
  BY <1>3 DEF CarryInv, Shapes, ProcessShape
<1>5. /\ ProcessShape(proc') /\ proc'.phase = "solving" /\ proc'.it = proc.it + 1
      /\ proc'.sens = proc.field /\ proc'.weights = proc.weights /\ proc'.points = points
      /\ proc'.vfs = proc.vfs /\ proc'.pair = pair /\ proc'.stall = proc.stall
  <2>1. proc' = [m EXCEPT !.phase = "solving", !.it = @ + 1, !.sens = proc.field,
                          !.field = None, !.pair = pair]
    BY <1>1, <1>3
  <2> HIDE DEF after
  <2> QED
    BY <1>4, <2>1 DEF ProcessShape
<1>6. /\ ckpt'.it = proc.it + 1 /\ ckpt'.weights = proc.weights /\ ckpt'.sens = proc.field
      /\ ckpt'.points = points
  BY <1>1, <1>3, <1>4 DEF Saved
<1> HIDE DEF after
<1>7. /\ n \in Nat /\ n >= 1 /\ IsSeq(log') /\ Len(log') = n
      /\ \A i \in 1..n - 1 : log'[i] = log[i]
      /\ EntryShape(log'[n]) /\ log'[n].kind = "updated" /\ log'[n].target = target
      /\ log'[n].plan = plan /\ log'[n].vol = proc.vol /\ log'[n].seen = proc.seen
      /\ Replay(log')[n] = PlayedOn(log'[n], was)
      /\ Replay(log')[n].weights = Replay(log)[n].weights
      /\ Replay(log')[n].sens = Replay(log)[n].sens
  <2>1. PICK record : record = log'
    OBVIOUS
  <2> QED
    BY <1>1, <2>1, TaggedEntry
<1>8. proc.it \in Nat /\ n = proc.it + 1
  BY <1>1 DEF CarryInv, Counted
<1>9. /\ proc.weights = Replay(log)[n].weights /\ proc.field = Replay(log)[n].sens
      /\ proc.points = Kept(plan, was.points) /\ LastIsMeasured(log[n])
  BY <1>1 DEF CarryInv, MeasuredEarned
<1>10. points = Replay(log')[n].points /\ points = Kept(plan, Replay(log')[n].points)
  <2>1. PICK e, past : e = log'[n] /\ past = was
    OBVIOUS
  <2> HIDE DEF was
  <2>2. points = Kept(plan, IF proc.seen.v \notin {NaN, Inf}
                            THEN Append(past.points, <<proc.vol, proc.seen.v>>)
                            ELSE past.points)
    BY <1>9, <2>1 DEF WithPoint, Kept, points
  <2>3. PlayedOn(e, past).points = points
    BY <1>7, <2>1, <2>2, PointsPlayed
  <2> QED
    BY <1>7, <2>1, <2>2, <2>3 DEF Kept
<1> HIDE DEF was
<1>11. Shapes'
  <2>1. IsSeq(proc.vfs) /\ \A i \in 1..n - 1 : EntryShape(log[i])
    BY <1>7 DEF CarryInv, Shapes
  <2>2. ASSUME NEW i \in 1..n PROVE EntryShape(log'[i])
    BY <1>7, <2>1
  <2> QED
    BY <1>5, <1>7, <2>1, <2>2 DEF Shapes
<1>12. Counted'
  <2>1. ckpt' # None
    <3>1. ckpt' = [x \in DOMAIN ckpt' |-> ckpt'[x]]
      BY <1>1 DEF Saved
    <3> QED
      BY <3>1, FunctionIsSomething
  <2> QED
    BY <1>5, <1>6, <1>7, <1>8, <2>1 DEF Counted
<1>13. CheckpointEarned'
  <2>1. ckpt'.it = n
    BY <1>6, <1>8
  <2> QED
    BY <1>6, <1>7, <1>9, <1>10, <2>1 DEF CheckpointEarned, Earned
<1>14. SolvingEarned'
  <2>1. Replay(log')[n].weights = RestoredWeights(plan, Replay(log')[n].weights)
    <3>1. Fitting(plan, Replay(log')[n].weights)
      BY <1>7, PlayedFits
    <3> QED
      BY <3>1, FittingIsKept
  <2> QED
    BY <1>1, <1>5, <1>7, <1>9, <1>10, <2>1 DEF SolvingEarned
<1>15. MeasuredEarned'
  BY <1>5 DEF MeasuredEarned
<1>16. StallCounts'
  <2>1. Len(proc.vfs) <= n /\ Len(proc.vfs) >= 1 /\ IsStreak(proc.stall)
    BY <1>1 DEF CarryInv, StallCounts
  <2>2. ASSUME NEW i \in 1..n PROVE Outrun(i)' <=> Outrun(i)
    <3>1. Len(proc.vfs) \in Nat
      BY SeqLength DEF CarryInv, Shapes
    <3>2. i > n - Len(proc.vfs) + 1 => i - 1 \in 1..n - 1
      <4>1. i > n - Len(proc.vfs) + 1 => i # 1
        <5>1. PICK l \in Nat, v \in Nat : l = n /\ v = Len(proc.vfs)
          BY <1>7, <3>1
        <5>2. v <= l
          BY <2>1, <5>1
        <5>3. ~(1 > l - v + 1)
          BY <5>2
        <5> QED
          BY <5>1, <5>3
      <4>2. i # 1 => i - 1 \in 1..n - 1
        BY <1>7
      <4> QED
        BY <4>1, <4>2
    <3>3. (i = n \/ log'[i] = log[i]) /\ log[n].kind # "diverged" /\ log[n].vol = proc.vol
      BY <1>7, <1>9 DEF LastIsMeasured
    <3>4. log'[i].vol = log[i].vol /\ (log'[i].kind # "diverged" <=> log[i].kind # "diverged")
      BY <1>7, <3>3
    <3> QED
      BY <1>5, <1>7, <3>2, <3>4 DEF Outrun
  <2>3. PICK k : k = proc.stall
    OBVIOUS
  <2>4. /\ k \in 0..Len(proc.vfs) /\ (\A i \in n - k + 1..n : Outrun(i))
        /\ k = Len(proc.vfs) \/ ~Outrun(n - k)
    BY <2>1, <2>3 DEF IsStreak
  <2>5. Len(proc.vfs) \in Nat
    BY SeqLength DEF CarryInv, Shapes
  <2>6. \A i \in n - k + 1..n : Outrun(i)'
    BY <1>7, <2>1, <2>2, <2>4, <2>5
  <2>7. PICK j \in Int : j = n - k
    BY <1>7, <2>4, <2>5
  <2>8. k = Len(proc.vfs) \/ ~Outrun(j)'
    BY <1>7, <2>1, <2>2, <2>4, <2>5, <2>7
  <2>9. (IsStreak(proc.stall))'
    BY <1>5, <1>7, <2>3, <2>4, <2>6, <2>7, <2>8 DEF IsStreak
  <2> QED
    BY <1>2, <1>5, <1>7, <2>1, <2>9 DEF StallCounts
<1> QED
  BY <1>11, <1>12, <1>13, <1>14, <1>15, <1>16 DEF CarryInv

LEMMA DivergeKeeps ==
  ASSUME NoneIsNoFunction, CarryInv, NEW vol, Diverge(vol)
  PROVE  CarryInv'
<1> DEFINE n == Len(log)
           e == Entry("diverged", <<>>)
           was == Replay(log)[n]
           after == [proc EXCEPT !.vol = vol]
<1>1. e.kind = "diverged" /\ e.plan = plan /\ EntryShape(e)
  BY DEF Entry, EntryShape
<1> HIDE DEF e
<1>2. /\ proc.phase = "solving" /\ plan' = plan /\ log' = Append(log, e)
      /\ ckpt' = Saved(after, proc.sens)
      /\ proc' = [after EXCEPT !.it = @ + 1, !.pair = None, !.vfs = Append(@, proc.vol)]
  BY DEF Diverge, Solving, e
<1>3. PICK m : m = after
  OBVIOUS
<1>4. /\ ProcessShape(m) /\ m.it = proc.it /\ m.weights = proc.weights
      /\ m.points = proc.points /\ m.vfs = proc.vfs /\ m.phase = proc.phase
      /\ m.sens = proc.sens
  BY <1>3 DEF CarryInv, Shapes, ProcessShape
<1>5. /\ ProcessShape(proc') /\ proc'.phase = "solving" /\ proc'.it = proc.it + 1
      /\ proc'.sens = proc.sens /\ proc'.weights = proc.weights
      /\ proc'.points = proc.points /\ proc'.vfs = Append(proc.vfs, proc.vol)
      /\ proc'.pair = None
  <2>1. proc' = [m EXCEPT !.it = @ + 1, !.pair = None, !.vfs = Append(@, proc.vol)]
    BY <1>2, <1>3
  <2> HIDE DEF after
  <2> QED
    BY <1>2, <1>4, <2>1 DEF ProcessShape
<1>6. /\ ckpt'.it = proc.it + 1 /\ ckpt'.weights = proc.weights /\ ckpt'.sens = proc.sens
      /\ ckpt'.points = proc.points /\ ckpt' # None
  <2>1. ckpt' = Saved(m, proc.sens)
    BY <1>2, <1>3
  <2> HIDE DEF after
  <2>2. ckpt' = [x \in DOMAIN ckpt' |-> ckpt'[x]]
    BY <2>1 DEF Saved
  <2>3. ckpt' # None
    BY <2>2, FunctionIsSomething
  <2> QED
    BY <1>4, <2>1, <2>3 DEF Saved
<1> HIDE DEF after
<1>7. /\ n \in Nat /\ IsSeq(log') /\ Len(log') = n + 1 /\ log'[n + 1] = e
      /\ \A i \in 1..n : log'[i] = log[i]
  BY <1>2, AppendedSeq DEF CarryInv, Shapes
<1>8. /\ Len(proc.vfs) \in Nat /\ IsSeq(proc'.vfs)
      /\ Len(proc'.vfs) = Len(proc.vfs) + 1
  BY <1>5, AppendedSeq DEF CarryInv, Shapes
<1>9. Replay(log')[n + 1] = PlayedOn(e, was)
  BY <1>2, ReplayAppended DEF CarryInv, Shapes
<1>10. proc.it \in Nat /\ n = proc.it
  BY <1>2 DEF CarryInv, Counted
<1>11. /\ proc.weights = RestoredWeights(plan, was.weights) /\ proc.sens = was.sens
       /\ proc.points = Kept(plan, was.points)
  BY <1>2 DEF CarryInv, SolvingEarned
<1>12. /\ proc.weights = Replay(log')[n + 1].weights /\ proc.sens = Replay(log')[n + 1].sens
       /\ proc.points = Replay(log')[n + 1].points
       /\ proc.points = Kept(plan, Replay(log')[n + 1].points)
  <2>1. PICK past : past = was
    OBVIOUS
  <2> HIDE DEF was
  <2>2. /\ PlayedOn(e, past).weights = proc.weights /\ PlayedOn(e, past).sens = proc.sens
    BY <1>1, <1>11, <2>1 DEF PlayedOn
  <2>3. PlayedOn(e, past).points = proc.points
    BY <1>1, <1>11, <2>1, PointsPlayed
  <2>4. proc.points = Kept(plan, proc.points)
    BY <1>11 DEF Kept
  <2> QED
    BY <1>9, <2>1, <2>2, <2>3, <2>4
<1> HIDE DEF was
<1>13. Shapes'
  <2>1. \A i \in 1..n : EntryShape(log[i])
    BY DEF CarryInv, Shapes
  <2>2. ASSUME NEW i \in 1..n + 1 PROVE EntryShape(log'[i])
    BY <1>1, <1>7, <2>1
  <2> QED
    BY <1>5, <1>7, <1>8, <2>2 DEF Shapes
<1>14. Counted'
  BY <1>5, <1>6, <1>7, <1>10 DEF Counted
<1>15. CheckpointEarned'
  <2>1. ckpt'.it = n + 1
    BY <1>6, <1>10
  <2> QED
    BY <1>6, <1>12, <2>1 DEF CheckpointEarned, Earned
<1>16. SolvingEarned'
  <2>1. Replay(log')[n + 1].weights = RestoredWeights(plan, Replay(log')[n + 1].weights)
    <3>1. Fitting(plan, Replay(log')[n + 1].weights)
      BY <1>1, <1>9, PlayedFits
    <3> QED
      BY <3>1, FittingIsKept
  <2> QED
    BY <1>2, <1>5, <1>7, <1>12, <2>1 DEF SolvingEarned
<1>17. MeasuredEarned'
  BY <1>5 DEF MeasuredEarned
<1>18. StallCounts'
  <2>1. Len(proc.vfs) <= n
    BY DEF CarryInv, StallCounts
  <2> QED
    BY <1>1, <1>5, <1>7, <1>8, <2>1 DEF StallCounts
<1> QED
  BY <1>13, <1>14, <1>15, <1>16, <1>17, <1>18 DEF CarryInv

(* A resume plays on from the checkpoint, under the plan it is given.      *)
LEMMA ResumeKeeps ==
  ASSUME CarryInv, NEW p, Resume(p)
  PROVE  CarryInv'
<1> DEFINE saved == IF ckpt = None THEN Nothing ELSE ckpt
           k == saved.it
<1>1. plan' = p /\ proc' = Started(p, saved) /\ log' = SubSeq(log, 1, k) /\ ckpt' = ckpt
  BY DEF Resume
<1>2. IsSeq(log) /\ Len(log) \in Nat /\ k \in 0..Len(log)
  <2>1. IsSeq(log) /\ Len(log) \in Nat
    BY SeqLength DEF CarryInv, Shapes
  <2>2. ckpt = None => k = 0
    BY DEF Nothing
  <2>3. ckpt # None => k \in 0..Len(log)
    BY DEF CarryInv, Counted
  <2> QED
    BY <2>1, <2>2, <2>3
<1>3. /\ IsSeq(log') /\ Len(log') = k /\ \A i \in 1..k : log'[i] = log[i]
  BY <1>1, <1>2, CutSeq
<1>4. Earned(saved)'
  <2>1. saved' = saved /\ k' = k
    BY <1>1
  <2>2. Replay(log')[k] = Replay(log)[k]
    BY <1>1, <1>2, ReplayCut
  <2>3. CASE ckpt = None
    <3>1. Replay(log)[0] = Fresh
      BY <1>2, ReplaySteps
    <3> QED
      BY <2>1, <2>2, <2>3, <3>1 DEF Earned, Nothing, Fresh
  <2>4. CASE ckpt # None
    <3>1. Earned(ckpt)
      BY <2>4 DEF CarryInv, CheckpointEarned
    <3> QED
      BY <2>1, <2>2, <2>4, <3>1 DEF Earned
  <2> QED
    BY <2>3, <2>4
<1>5. PICK s : s = saved
  OBVIOUS
<1>6. /\ s.it = k /\ s.weights = Replay(log')[k].weights
      /\ s.sens = Replay(log')[k].sens /\ s.points = Replay(log')[k].points
  <2>1. saved' = saved
    BY <1>1
  <2> QED
    BY <1>4, <1>5, <2>1 DEF Earned
<1>7. /\ ProcessShape(proc') /\ proc'.phase = "solving" /\ proc'.it = s.it
      /\ proc'.weights = RestoredWeights(p, s.weights) /\ proc'.sens = s.sens
      /\ proc'.points = Kept(p, s.points) /\ proc'.vfs = <<>> /\ proc'.pair = None
  <2>1. proc' = Started(p, s)
    BY <1>1, <1>5
  <2> HIDE DEF saved
  <2> QED
    BY <2>1 DEF Started, ProcessShape, Kept
<1>8. Shapes'
  <2>1. \A i \in 1..Len(log) : EntryShape(log[i])
    BY DEF CarryInv, Shapes
  <2>2. ASSUME NEW i \in 1..k PROVE EntryShape(log'[i])
    BY <1>2, <1>3, <2>1
  <2> QED
    BY <1>3, <1>7, <2>2, EmptyIsSeq DEF Shapes
<1>9. Counted'
  <2>1. k = IF ckpt = None THEN 0 ELSE ckpt.it
    BY DEF Nothing
  <2> HIDE DEF k
  <2> QED
    BY <1>1, <1>2, <1>3, <1>6, <1>7, <2>1 DEF Counted
<1>10. CheckpointEarned'
  BY <1>1, <1>4 DEF CheckpointEarned
<1>11. SolvingEarned'
  <2> HIDE DEF k
  <2> QED
    BY <1>1, <1>3, <1>6, <1>7 DEF SolvingEarned
<1>12. MeasuredEarned'
  BY <1>7 DEF MeasuredEarned
<1>13. StallCounts'
  <2> HIDE DEF k
  <2> QED
    BY <1>2, <1>3, <1>7, EmptyIsSeq DEF StallCounts
<1> QED
  BY <1>8, <1>9, <1>10, <1>11, <1>12, <1>13 DEF CarryInv

LEMMA CarryStarts ==
  ASSUME Init
  PROVE  CarryInv
<1>1. proc = Started(plan, Nothing) /\ ckpt = None /\ log = <<>>
  BY DEF Init
<1>2. /\ ProcessShape(proc) /\ proc.phase = "solving" /\ proc.it = 0 /\ proc.vfs = <<>>
      /\ proc.weights = RestoredWeights(plan, None) /\ proc.sens = None
      /\ proc.points = <<>> /\ proc.pair = None
  BY <1>1 DEF Started, Nothing, ProcessShape
<1>3. IsSeq(log) /\ Len(log) = 0
  BY <1>1, EmptyIsSeq
<1>4. Replay(log)[0] = Fresh
  BY <1>3, ReplaySteps
<1>5. Shapes
  BY <1>2, <1>3, EmptyIsSeq DEF Shapes
<1>6. Counted
  BY <1>1, <1>2, <1>3 DEF Counted
<1>7. SolvingEarned
  BY <1>2, <1>3, <1>4 DEF SolvingEarned, Fresh, Kept
<1>8. CheckpointEarned /\ MeasuredEarned
  BY <1>1, <1>2 DEF CheckpointEarned, MeasuredEarned
<1>9. StallCounts
  BY <1>2, <1>3, EmptyIsSeq DEF StallCounts
<1> QED
  BY <1>5, <1>6, <1>7, <1>8, <1>9 DEF CarryInv

LEMMA CarrySteps ==
  ASSUME NoneIsNoFunction, CarryInv, [Next]_vars
  PROVE  CarryInv'
<1>1. ASSUME NEW results \in Solves, Measure(results) PROVE CarryInv'
  BY <1>1, MeasureKeeps
<1>2. ASSUME NEW results \in Solves, NullSolve(results) PROVE CarryInv'
  BY <1>2, NothingSolvedKeeps DEF NullSolve
<1>3. CASE Converge
  BY <1>3, ConvergeKeeps
<1>4. ASSUME NEW vol \in NextVolumes, Advance(vol) PROVE CarryInv'
  BY <1>4, AdvanceKeeps
<1>5. ASSUME NEW vol \in NextVolumes \cup {proc.vol}, Diverge(vol) PROVE CarryInv'
  BY <1>5, DivergeKeeps
<1>6. CASE Ends
  BY <1>6, NothingSolvedKeeps DEF Ends
<1>7. ASSUME NEW p \in Plans, Resume(p) PROVE CarryInv'
  BY <1>7, ResumeKeeps
<1>8. CASE UNCHANGED vars
  <2>1. plan' = plan /\ proc' = proc /\ ckpt' = ckpt /\ log' = log
    BY <1>8 DEF vars
  <2>2. Shapes' /\ Counted' /\ CheckpointEarned' /\ SolvingEarned' /\ MeasuredEarned'
    BY <2>1 DEF CarryInv, Shapes, Counted, CheckpointEarned, Earned, SolvingEarned,
                MeasuredEarned, LastIsMeasured
  <2>3. \A i : Outrun(i)' <=> Outrun(i)
    BY <2>1 DEF Outrun
  <2>4. StallCounts'
    BY <2>1, <2>3 DEF CarryInv, StallCounts, IsStreak
  <2> QED
    BY <2>2, <2>4 DEF CarryInv
<1> QED
  BY <1>1, <1>2, <1>3, <1>4, <1>5, <1>6, <1>7, <1>8 DEF Next

LEMMA CarryInvEarned ==
  ASSUME CarryInv
  PROVE  CarriedIsEarned
<1>1. ckpt # None =>
        LET r == Replay(log)[ckpt.it]
        IN  ckpt.weights = r.weights /\ ckpt.sens = r.sens /\ ckpt.points = r.points
  BY DEF CarryInv, CheckpointEarned, Earned
<1>2. ASSUME proc.phase = "measured"
      PROVE  /\ proc.weights = Replay(log)[Len(log)].weights
             /\ proc.field = Replay(log)[Len(log)].sens
             /\ proc.stall = Max({k \in 0..Len(proc.vfs) :
                                    \A i \in Len(log) - k + 1..Len(log) : Outrun(i)})
  <2>1. IsStreak(proc.stall)
    BY <1>2 DEF CarryInv, StallCounts
  <2> QED
    BY <1>2, <2>1, StreakIsLongest DEF CarryInv, MeasuredEarned
<1> QED
  BY <1>1, <1>2 DEF CarriedIsEarned

(***************************************************************************)
(* Every finished iteration counts once and in its order, for any load     *)
(* cases and any results: whatever a run went through - solves that        *)
(* diverge, convergence, a crash after a measurement, a resume with other  *)
(* load cases, another control or without adaptive weights - its           *)
(* checkpoint and its process hold the weights, the blended sensitivity    *)
(* and the points that playing its record again gives, and the stall       *)
(* counter (loop.py:1554) the last unbroken iterations that were outrun.   *)
(***************************************************************************)
THEOREM CarriedAlwaysEarned ==
  ASSUME NoneIsNoFunction
  PROVE  Spec => []CarriedIsEarned
<1>1. Init => CarryInv
  BY CarryStarts
<1>2. CarryInv /\ [Next]_vars => CarryInv'
  BY CarrySteps
<1>3. CarryInv => CarriedIsEarned
  BY CarryInvEarned
<1> QED
  BY <1>1, <1>2, <1>3, PTL DEF Spec

-----------------------------------------------------------------------------
(* What results are worth: sums, powers, weights and ratios are numbers.   *)
LEMMA SumIsNatural ==
  ASSUME NEW S, IsFiniteSet(S), NEW w, \A e \in S : w[e] \in Nat
  PROVE  SumAt(w, S) \in Nat /\ \A a \in S : w[a] <= SumAt(w, S)
<1> DEFINE F == {T \in SUBSET S : SumAt(w, T) \notin Nat}
<1>1. F \in SUBSET (SUBSET S)
  OBVIOUS
<1>2. ASSUME F # {} PROVE FALSE
  <2>1. PICK T \in F : \A U \in F : U \subseteq T => U = T
    <3> HIDE DEF F
    <3> QED
      BY <1>1, <1>2, LeastSubset
  <2>2. IsFiniteSet(T)
    BY <2>1, FS_Subset
  <2>3. T # {}
    <3>1. T = {} => SumAt(w, T) = 0
      BY <2>2, SumStep
    <3> QED
      BY <2>1, <3>1
  <2>4. One(T) \in T
    BY <2>3, OneIsMember
  <2>5. SumAt(w, T \ {One(T)}) \in Nat /\ w[One(T)] \in Nat
    BY <2>1, <2>4
  <2>6. SumAt(w, T) = w[One(T)] + SumAt(w, T \ {One(T)})
    BY <2>2, <2>3, SumStep
  <2> QED
    BY <2>1, <2>5, <2>6
<1>3. \A T \in SUBSET S : SumAt(w, T) \in Nat
  BY <1>2
<1>4. ASSUME NEW a \in S PROVE w[a] <= SumAt(w, S)
  <2>1. SumAt(w, S) = w[a] + SumAt(w, S \ {a})
    BY SumRemoves
  <2>2. SumAt(w, S \ {a}) \in Nat /\ w[a] \in Nat
    BY <1>3
  <2> QED
    BY <2>1, <2>2
<1> QED
  BY <1>3, <1>4

LEMMA TotalIsNatural ==
  ASSUME NEW D, IsFiniteSet(D), NEW f \in [D -> Nat]
  PROVE  Total(f) \in Nat /\ \A a \in D : f[a] <= Total(f)
<1>1. Total(f) = SumAt(f, D)
  BY DEF Total, SumAt
<1> QED
  BY <1>1, SumIsNatural

LEMMA PowerIsNatural ==
  ASSUME NEW x \in Nat, NEW n \in Nat
  PROVE  Power(x, n) \in Nat /\ (x > 0 => Power(x, n) > 0)
<1> DEFINE step == [v \in Nat |-> x * v]
           Is(g) == g = [k \in 0..n |-> IF k = 0 THEN 1 ELSE x * g[k - 1]]
           power == CHOOSE g : Is(g)
<1>1. PICK f : Iterates(f, Nat, 1, step, n)
  <2>1. step \in [Nat -> Nat] /\ 1 \in Nat
    OBVIOUS
  <2> HIDE DEF step
  <2> QED
    BY <2>1, IteratesExist
<1>2. Is(f)
  <2>1. /\ f \in [0..n -> Nat] /\ f[0] = 1
        /\ \A k \in 1..n : f[k] = step[f[k - 1]]
    BY <1>1 DEF Iterates
  <2>2. ASSUME NEW k \in 1..n PROVE f[k] = x * f[k - 1]
    <3>1. f[k - 1] \in Nat
      BY <2>1
    <3> QED
      BY <2>1, <3>1
  <2>3. ASSUME NEW k \in 0..n PROVE f[k] = IF k = 0 THEN 1 ELSE x * f[k - 1]
    BY <2>1, <2>2
  <2> QED
    BY <2>1, <2>3
<1>3. Is(power)
  <2> HIDE DEF Is
  <2> QED
    BY <1>2
<1>4. Power(x, n) = power[n]
  BY DEF Power
<1> HIDE DEF power
<1>5. power[0] = 1 /\ \A k \in 1..n : power[k] = x * power[k - 1]
  <2>1. \A k \in 0..n : power[k] = IF k = 0 THEN 1 ELSE x * power[k - 1]
    BY <1>3
  <2>2. 0 \in 0..n /\ \A k \in 1..n : k \in 0..n /\ k # 0
    OBVIOUS
  <2> QED
    BY <2>1, <2>2
<1>6. power[n] \in Nat
  <2>1. power[0] \in Nat /\ \A k \in 1..n : power[k - 1] \in Nat => power[k] \in Nat
    BY <1>5
  <2> QED
    BY <2>1, IteratesKeep
<1>7. ASSUME x > 0 PROVE power[n] \in Nat \ {0}
  <2>1. /\ power[0] \in Nat \ {0}
        /\ \A k \in 1..n : power[k - 1] \in Nat \ {0} => power[k] \in Nat \ {0}
    BY <1>5, <1>7
  <2> QED
    BY <2>1, IteratesKeep
<1> QED
  BY <1>4, <1>6, <1>7

(* A clamp between two bounds in order.                                    *)
LEMMA ClampIsBetween ==
  ASSUME NEW lo \in Int, NEW hi \in Int, lo <= hi, NEW v \in Int
  PROVE  Min({hi, Max({lo, v})}) \in lo..hi
<1> DEFINE m == Max({lo, v})
<1>1. m = IF lo >= v THEN lo ELSE v
  BY TwoExtremes
<1>2. m \in Int /\ m >= lo
  BY <1>1
<1> HIDE DEF m
<1>3. Min({hi, m}) = IF hi <= m THEN hi ELSE m
  BY <1>2, TwoExtremes
<1>4. Min({hi, m}) \in lo..hi
  BY <1>2, <1>3
<1> QED
  BY <1>4 DEF m

SomeValue(v) == v \in Int \cup {NaN}
Worth(w) == w = None \/ \E D : w \in [D -> Nat]
Split(p, w) == w \in [DOMAIN p.cases -> Nat]
InBounds(p, w) ==
  \A i \in DOMAIN p.cases : w[i] \in Base(p)[i] \div p.bound..Base(p)[i] * p.bound

LEMMA BaseIsSplit ==
  ASSUME NEW p \in Plans
  PROVE  /\ Split(p, Base(p)) /\ IsFiniteSet(DOMAIN p.cases)
         /\ \A i \in DOMAIN p.cases :
              LET b == Base(p)[i]
              IN  /\ b \div p.bound \in Nat /\ b * p.bound \in Nat
                  /\ b \div p.bound <= b * p.bound
<1>1. /\ p.bound \in Nat \ {0} /\ DOMAIN p.cases = 1..Len(p.cases) /\ Len(p.cases) \in Nat
      /\ \A i \in DOMAIN p.cases : p.cases[i].weight \in Nat
  BY MultiLoadAssumption
<1>2. Split(p, Base(p))
  BY <1>1 DEF Split, Base
<1>3. IsFiniteSet(DOMAIN p.cases)
  BY <1>1, FS_Interval
<1>4. ASSUME NEW b \in Nat
      PROVE  /\ b \div p.bound \in Nat /\ b * p.bound \in Nat
             /\ b \div p.bound <= b * p.bound
  <2> DEFINE k == p.bound
  <2>1. k \in Nat /\ k >= 1
    BY <1>1
  <2> HIDE DEF k
  <2>2. b \div k \in Nat /\ b * k \in Nat
    BY <2>1
  <2>3. b <= b * k
    BY <2>1
  <2>4. b \div k <= b
    BY <2>1
  <2>5. b \div k <= b * k
    BY <2>2, <2>3, <2>4
  <2> QED
    BY <2>2, <2>5 DEF k
<1>5. \A i \in DOMAIN p.cases : Base(p)[i] \in Nat
  BY <1>2 DEF Split
<1> QED
  BY <1>2, <1>3, <1>4, <1>5

(* However the cases are used, a step of the weights ends within the bound. *)
LEMMA BalancedIsBounded ==
  ASSUME NEW p \in Plans, NEW w, Split(p, w), NEW vs, DOMAIN vs = DOMAIN p.cases,
         \A i \in DOMAIN vs : vs[i] = None \/ SomeValue(vs[i])
  PROVE  /\ Split(p, Balanced(p, w, vs))
         /\ Cardinality({i \in DOMAIN vs : Signal(vs[i])}) >= 2
              => InBounds(p, Balanced(p, w, vs))
<1> DEFINE D == DOMAIN p.cases
           known == {i \in DOMAIN vs : Signal(vs[i])}
           card == Cardinality(known)
           seen == [i \in known |-> vs[i]]
           sum == Total(seen)
           pushed == [i \in DOMAIN w |->
                        IF i \in known
                        THEN (w[i] * Power(vs[i] * card, p.push)) \div Power(sum, p.push)
                        ELSE w[i]]
           scaled == IF Total(pushed) = 0 THEN pushed
                     ELSE [i \in DOMAIN w |-> (pushed[i] * Total(Base(p))) \div Total(pushed)]
           base == Base(p)
           b == [i \in DOMAIN w |->
                   Min({base[i] * p.bound, Max({base[i] \div p.bound, scaled[i]})})]
<1>1. /\ w \in [D -> Nat] /\ DOMAIN w = D /\ IsFiniteSet(D) /\ known \subseteq D
      /\ p.push \in Nat /\ base \in [D -> Nat]
  BY BaseIsSplit, MultiLoadAssumption DEF Split
<1>2. IsFiniteSet(known) /\ card \in Nat
  BY <1>1, FS_Subset, FS_CardinalityType
<1>3. \A i \in known : vs[i] \in Nat \ {0}
  BY MultiLoadAssumption DEF Signal, SomeValue
<1>4. Balanced(p, w, vs) = IF card < 2 THEN w ELSE b
  BY DEF Balanced
<1>5. CASE card < 2
  BY <1>2, <1>4, <1>5
<1>6. CASE ~(card < 2)
  <2>1. seen \in [known -> Nat]
    BY <1>3
  <2>2. sum \in Nat /\ \A i \in known : seen[i] <= sum
    <3> HIDE DEF seen, known
    <3> QED
      BY <1>2, <2>1, TotalIsNatural
  <2>3. \A i \in known : vs[i] <= sum /\ sum > 0
    BY <1>3, <2>2
  <2> HIDE DEF sum, seen
  <2>4. ASSUME NEW i \in D PROVE pushed[i] \in Nat
    <3>1. CASE i \in known
      <4>1. vs[i] * card \in Nat
        BY <1>2, <1>3, <3>1
      <4>2. Power(vs[i] * card, p.push) \in Nat
        BY <1>1, <4>1, PowerIsNatural
      <4>3. Power(sum, p.push) \in Nat /\ Power(sum, p.push) > 0
        BY <1>1, <2>2, <2>3, <3>1, PowerIsNatural
      <4>4. w[i] \in Nat
        BY <1>1
      <4> DEFINE a == Power(vs[i] * card, p.push)
                 c == Power(sum, p.push)
      <4>5. pushed[i] = (w[i] * a) \div c
        BY <1>1, <3>1
      <4> HIDE DEF a, c, pushed
      <4>6. a \in Nat /\ c \in Nat /\ c > 0
        BY <4>2, <4>3 DEF a, c
      <4>7. w[i] * a \in Nat
        BY <4>4, <4>6
      <4> QED
        BY <4>5, <4>6, <4>7
    <3>2. CASE i \notin known
      BY <1>1, <3>2
    <3> QED
      BY <3>1, <3>2
  <2>5. pushed \in [D -> Nat]
    BY <1>1, <2>4
  <2> HIDE DEF pushed
  <2>6. Total(pushed) \in Nat /\ Total(base) \in Nat
    BY <1>1, <2>5, TotalIsNatural
  <2>7. ASSUME NEW i \in D PROVE scaled[i] \in Nat
    <3>1. CASE Total(pushed) = 0
      BY <2>5, <3>1
    <3>2. CASE Total(pushed) # 0
      <4> DEFINE t == Total(pushed)
                 u == Total(base)
      <4>1. scaled[i] = (pushed[i] * u) \div t
        BY <1>1, <3>2
      <4>2. t \in Nat \ {0} /\ u \in Nat /\ pushed[i] \in Nat
        BY <2>5, <2>6, <3>2
      <4> HIDE DEF t, u, scaled
      <4>3. pushed[i] * u \in Nat
        BY <4>2
      <4> QED
        BY <4>1, <4>2, <4>3
    <3> QED
      BY <3>1, <3>2
  <2> HIDE DEF scaled
  <2>8. ASSUME NEW i \in D
        PROVE  b[i] \in base[i] \div p.bound..base[i] * p.bound /\ b[i] \in Nat
    <3> DEFINE lo == base[i] \div p.bound
               hi == base[i] * p.bound
    <3>1. lo \in Nat /\ hi \in Nat /\ lo <= hi
      BY BaseIsSplit
    <3>2. b[i] = Min({hi, Max({lo, scaled[i]})})
      BY <1>1
    <3> HIDE DEF b, lo, hi
    <3>3. b[i] \in lo..hi
      BY <2>7, <3>1, <3>2, ClampIsBetween
    <3> QED
      BY <3>1, <3>3 DEF lo, hi
  <2>9. DOMAIN b = D /\ b = [i \in D |-> b[i]]
    BY <1>1
  <2>10. Balanced(p, w, vs) = b
    BY <1>4, <1>6
  <2> HIDE DEF b
  <2> QED
    BY <2>8, <2>9, <2>10 DEF Split, InBounds
<1> QED
  BY <1>5, <1>6

-----------------------------------------------------------------------------
(* Ratios.                                                                 *)
LEMMA RatioIsValue ==
  ASSUME NEW value, value = NaN \/ value \in Nat, NEW limit \in Nat \ {0}
  PROVE  /\ SomeValue(Ratio(value, limit))
         /\ Within(value, limit) => Ratio(value, limit) \in 0..Percent
<1>1. CASE value = NaN
  BY <1>1, MultiLoadAssumption DEF Ratio, SomeValue, Within
<1>2. CASE value # NaN
  <2>1. value \in Nat /\ Ratio(value, limit) = (Percent * value) \div limit
    BY <1>2 DEF Ratio
  <2>2. (Percent * value) \div limit \in Nat
    BY <2>1 DEF Percent
  <2>3. ASSUME value <= limit PROVE (Percent * value) \div limit <= Percent
    BY <2>1, <2>3 DEF Percent
  <2>4. Within(value, limit) => value <= limit
    BY MultiLoadAssumption DEF Within
  <2> QED
    BY <2>1, <2>2, <2>3, <2>4 DEF SomeValue, Percent
<1> QED
  BY <1>1, <1>2

SomeResult(res) ==
  res.sigma \in Nat /\ \A n \in DOMAIN res.disps : res.disps[n] \in Nat

LEMMA RatiosAreValues ==
  ASSUME NEW p \in Plans, NEW i \in DOMAIN p.cases, NEW res, SomeResult(res)
  PROVE  LET case == p.cases[i]
         IN  /\ Limited(case) \in SUBSET Nat /\ IsFiniteSet(Limited(case))
             /\ DOMAIN Ratios(case, res) = Limited(case)
             /\ \A k \in Limited(case) :
                  /\ SomeValue(Ratios(case, res)[k])
                  /\ CaseFeasible(case, res) => Ratios(case, res)[k] \in 0..Percent
<1> DEFINE case == p.cases[i]
<1>1. /\ case.sigma # None => case.sigma \in Nat \ {0}
      /\ DOMAIN case.disps = 1..Len(case.disps) /\ Len(case.disps) \in Nat
      /\ \A k \in DOMAIN case.disps :
           case.disps[k].limit # None => case.disps[k].limit \in Nat \ {0}
  BY MultiLoadAssumption
<1> HIDE DEF case
<1>2. Limited(case) \in SUBSET (0..Len(case.disps))
  BY <1>1 DEF Limited
<1>3. Limited(case) \in SUBSET Nat /\ IsFiniteSet(Limited(case))
  <2>1. IsFiniteSet(0..Len(case.disps)) /\ 0..Len(case.disps) \in SUBSET Nat
    BY <1>1, FS_Interval
  <2> QED
    BY <1>2, <2>1, FS_Subset
<1>4. DOMAIN Ratios(case, res) = Limited(case)
  BY DEF Ratios
<1>5. ASSUME NEW k \in Limited(case)
      PROVE  /\ SomeValue(Ratios(case, res)[k])
             /\ CaseFeasible(case, res) => Ratios(case, res)[k] \in 0..Percent
  <2>1. CASE k = 0
    <3>1. case.sigma # None /\ case.sigma \in Nat \ {0}
      BY <1>1, <2>1 DEF Limited
    <3>2. Ratios(case, res)[k] = Ratio(res.sigma, case.sigma)
      BY <2>1 DEF Ratios
    <3>3. res.sigma \in Nat /\ (CaseFeasible(case, res) => Within(res.sigma, case.sigma))
      BY DEF SomeResult, CaseFeasible
    <3> QED
      BY <3>1, <3>2, <3>3, RatioIsValue
  <2>2. CASE k # 0
    <3> DEFINE row == Breakdown(case, res)[k]
    <3>1. /\ k \in DOMAIN case.disps /\ case.disps[k].limit # None
          /\ case.disps[k].limit \in Nat \ {0}
      BY <1>1, <2>2 DEF Limited
    <3>2. /\ row.limit = case.disps[k].limit
          /\ row.value = NaN \/ row.value \in Nat
          /\ row.within = Within(row.value, row.limit)
      BY <3>1 DEF Breakdown, SomeResult
    <3>3. Ratios(case, res)[k] = Ratio(row.value, row.limit)
      BY <2>2 DEF Ratios
    <3>4. CaseFeasible(case, res) => row.within
      BY <3>1 DEF CaseFeasible
    <3> HIDE DEF row
    <3> QED
      BY <3>1, <3>2, <3>3, <3>4, RatioIsValue
  <2> QED
    BY <2>1, <2>2
<1> QED
  BY <1>3, <1>4, <1>5 DEF case

LEMMA LargestIsOne ==
  ASSUME NEW R, IsFiniteSet(R), \A r \in R : SomeValue(r), NEW first \in R
  PROVE  Largest(first, R) \in R
<1>1. CASE first = NaN
  BY <1>1 DEF Largest
<1>2. CASE first # NaN
  <2> DEFINE S == R \ {NaN}
  <2>1. IsFiniteSet(S) /\ first \in S /\ \A x \in S : x \in Int
    BY <1>2, FS_Subset DEF SomeValue
  <2>2. Max(S) \in S
    <3> HIDE DEF S
    <3> QED
      BY <2>1, FiniteExtremes
  <2> QED
    BY <1>2, <2>2 DEF Largest
<1> QED
  BY <1>1, <1>2

(* The values of a case, one of which heads the list.                      *)
LEMMA FrontIsOne ==
  ASSUME NEW p \in Plans, NEW i \in DOMAIN p.cases, NEW res, SomeResult(res),
         Limited(p.cases[i]) # {}
  PROVE  LET f == Ratios(p.cases[i], res)
         IN  /\ IsFiniteSet(Range(f)) /\ f[Min(Limited(p.cases[i]))] \in Range(f)
             /\ \A r \in Range(f) :
                  /\ SomeValue(r)
                  /\ CaseFeasible(p.cases[i], res) => r \in 0..Percent
<1> DEFINE case == p.cases[i]
           f == Ratios(case, res)
           D == Limited(case)
<1>1. /\ D \in SUBSET Nat /\ IsFiniteSet(D) /\ DOMAIN f = D
      /\ \A k \in D : /\ SomeValue(f[k])
                      /\ CaseFeasible(case, res) => f[k] \in 0..Percent
  BY RatiosAreValues
<1>2. D # {}
  OBVIOUS
<1> HIDE DEF f, D, case
<1>3. Min(D) \in D
  <2>1. \A x \in D : x \in Int
    BY <1>1
  <2> QED
    BY <1>1, <1>2, <2>1, FiniteExtremes
<1>4. Range(f) = {f[k] : k \in D}
  BY <1>1 DEF Range
<1>5. IsFiniteSet(Range(f))
  <2>1. IsFiniteSet({f[k] : k \in D})
    BY <1>1, ImageIsFinite
  <2> QED
    BY <1>4, <2>1
<1>6. f[Min(D)] \in Range(f)
  BY <1>3, <1>4
<1>7. \A r \in Range(f) : /\ SomeValue(r)
                          /\ CaseFeasible(case, res) => r \in 0..Percent
  BY <1>1, <1>4
<1> QED
  BY <1>5, <1>6, <1>7 DEF f, D, case

LEMMA ViolationIsValue ==
  ASSUME NEW p \in Plans, NEW i \in DOMAIN p.cases, NEW res, SomeResult(res)
  PROVE  LET v == CaseViolation(p.cases[i], res) IN v = None \/ SomeValue(v)
<1> DEFINE f == Ratios(p.cases[i], res)
           first == f[Min(Limited(p.cases[i]))]
<1>1. CASE Limited(p.cases[i]) = {}
  BY <1>1 DEF CaseViolation
<1>2. CASE Limited(p.cases[i]) # {}
  <2>1. IsFiniteSet(Range(f)) /\ first \in Range(f) /\ \A r \in Range(f) : SomeValue(r)
    BY <1>2, FrontIsOne
  <2>2. CaseViolation(p.cases[i], res) = Largest(first, Range(f))
    BY <1>2 DEF CaseViolation
  <2> HIDE DEF f, first
  <2> QED
    BY <2>1, <2>2, LargestIsOne
<1> QED
  BY <1>1, <1>2

(* The worst ratio is a number or NaN; that of a feasible design is a      *)
(* number within the limit.                                                *)
LEMMA WorstIsValue ==
  ASSUME NEW p \in Plans, NEW results, \A i \in DOMAIN p.cases : SomeResult(results[i])
  PROVE  LET v == WorstViolation(p.cases, results)
         IN  /\ SomeValue(v)
             /\ AllFeasible(p.cases, results) => v \in 0..Percent
<1> DEFINE cases == p.cases
           held == {i \in DOMAIN cases : Limited(cases[i]) # {}}
           front == Min(held)
           Of(i) == Ratios(cases[i], results[i])
           first == Of(front)[Min(Limited(cases[front]))]
           Lots == {Range(Of(i)) : i \in held}
           All == UNION Lots
<1>1. DOMAIN cases \in SUBSET Nat /\ IsFiniteSet(DOMAIN cases)
  <2>1. DOMAIN cases = 1..Len(cases) /\ Len(cases) \in Nat
    BY MultiLoadAssumption
  <2> QED
    BY <2>1, FS_Interval
<1>2. CASE held = {}
  <2>1. WorstViolation(cases, results) = 0
    BY <1>2 DEF WorstViolation
  <2> QED
    BY <2>1 DEF SomeValue, Percent
<1>3. CASE held # {}
  <2>1. IsFiniteSet(held) /\ held \in SUBSET Nat
    BY <1>1, FS_Subset
  <2>2. front \in held
    <3>1. \A x \in held : x \in Int
      BY <2>1
    <3> HIDE DEF held
    <3> QED
      BY <1>3, <2>1, <3>1, FiniteExtremes
  <2>3. ASSUME NEW i \in held
        PROVE  /\ IsFiniteSet(Range(Of(i))) /\ Of(i)[Min(Limited(cases[i]))] \in Range(Of(i))
               /\ \A r \in Range(Of(i)) :
                    /\ SomeValue(r)
                    /\ AllFeasible(cases, results) => r \in 0..Percent
    <3>1. i \in DOMAIN p.cases /\ Limited(p.cases[i]) # {} /\ SomeResult(results[i])
      OBVIOUS
    <3>2. AllFeasible(cases, results) => CaseFeasible(cases[i], results[i])
      BY <3>1 DEF AllFeasible
    <3> QED
      BY <3>1, <3>2, FrontIsOne
  <2>4. IsFiniteSet(All)
    <3>1. IsFiniteSet(Lots)
      <4> DEFINE lot == [i \in held |-> Range(Of(i))]
      <4>1. Lots = {lot[i] : i \in held}
        OBVIOUS
      <4> HIDE DEF lot, Lots, held
      <4> QED
        BY <2>1, <4>1, ImageIsFinite
    <3>2. \A T \in Lots : IsFiniteSet(T)
      BY <2>3
    <3> HIDE DEF Lots
    <3> QED
      BY <3>1, <3>2, FS_UNION
  <2>5. first \in All
    BY <2>2, <2>3
  <2>6. \A r \in All : SomeValue(r) /\ (AllFeasible(cases, results) => r \in 0..Percent)
    BY <2>3
  <2>7. WorstViolation(cases, results) = Largest(first, All)
    BY <1>3 DEF WorstViolation
  <2> HIDE DEF All, first
  <2>8. Largest(first, All) \in All
    BY <2>4, <2>5, <2>6, LargestIsOne
  <2> QED
    BY <2>6, <2>7, <2>8
<1> QED
  BY <1>2, <1>3

-----------------------------------------------------------------------------
(* The carried numbers stay numbers.                                       *)
FinitePoints(ps) ==
  IsSeq(ps) /\ \A i \in 1..Len(ps) : ps[i][2] \notin {None, NaN, Inf}
Signals(vs) == Cardinality({i \in DOMAIN vs : Signal(vs[i])})

NumbersInv ==
  /\ plan \in Plans /\ proc.phase \in {"solving", "measured", "ended"}
  /\ proc.it \in 0..MaxIterations /\ proc.vol \in 0..V0
  /\ Fitting(plan, proc.weights) /\ Worth(proc.weights)
  /\ FinitePoints(proc.points)
  /\ proc.phase = "measured" =>
       /\ proc.it < MaxIterations /\ SomeValue(proc.seen.v)
       /\ proc.seen.feasible => proc.seen.v \in 0..Percent
       /\ Adapts(plan) /\ Signals(proc.seen.vs) >= 2 => InBounds(plan, proc.weights)
  /\ ckpt # None =>
       /\ ckpt.it \in 0..MaxIterations /\ ckpt.vol \in 0..V0
       /\ FinitePoints(ckpt.points) /\ Worth(ckpt.weights)

(* The invariant of the record says what a process is made of.             *)
LEMMA ProcessIsRecord ==
  ASSUME CarryInv
  PROVE  ProcessShape(proc)
BY DEF CarryInv, Shapes

LEMMA VolumesInRange ==
  /\ V0 \in Nat /\ MaxIterations \in Nat
  /\ \A v \in NextVolumes : v \in 0..V0
BY WholeVolume, MultiLoadAssumption

LEMMA FittingIsSplit ==
  ASSUME NEW p, NEW w, Fitting(p, w), Worth(w), w # None
  PROVE  Split(p, w)
BY DEF Fitting, Worth, Split

LEMMA RestoredIsWorth ==
  ASSUME NEW p \in Plans, NEW saved, Worth(saved)
  PROVE  Worth(RestoredWeights(p, saved))
<1>1. Worth(Base(p))
  BY BaseIsSplit DEF Split, Worth
<1> QED
  BY <1>1 DEF RestoredWeights, FirstWeights, Worth

LEMMA StartedHasNumbers ==
  ASSUME NoneIsNoFunction, NEW p \in Plans, NEW saved,
         plan' = p, proc' = Started(p, saved),
         saved.it \in 0..MaxIterations, saved.vol \in 0..V0,
         FinitePoints(saved.points), Worth(saved.weights),
         ckpt' # None =>
           /\ ckpt'.it \in 0..MaxIterations /\ ckpt'.vol \in 0..V0
           /\ FinitePoints(ckpt'.points) /\ Worth(ckpt'.weights)
  PROVE  NumbersInv'
<1>1. /\ proc'.phase = "solving" /\ proc'.it = saved.it /\ proc'.vol = saved.vol
      /\ proc'.weights = RestoredWeights(p, saved.weights)
      /\ proc'.points = IF p.mode = "multipoint" THEN saved.points ELSE <<>>
  BY DEF Started
<1>2. Fitting(p, proc'.weights) /\ Worth(proc'.weights)
  BY <1>1, RestoredFits, RestoredIsWorth
<1>3. FinitePoints(proc'.points)
  BY <1>1, EmptyIsSeq DEF FinitePoints
<1> QED
  BY <1>1, <1>2, <1>3 DEF NumbersInv

LEMMA MeasureHasNumbers ==
  ASSUME NoneIsNoFunction, CarryInv, NumbersInv, NEW results \in Solves, Measure(results)
  PROVE  NumbersInv'
<1> DEFINE entry == Entry("measured", results)
           w == proc.weights
           cases == plan.cases
<1>1. /\ Solving /\ Len(results) = Len(cases) /\ plan' = plan /\ ckpt' = ckpt
      /\ ProcessShape(proc) /\ plan \in Plans
  BY ProcessIsRecord DEF Measure, NumbersInv
<1>2. /\ proc'.phase = "measured" /\ proc'.it = proc.it /\ proc'.vol = proc.vol
      /\ proc'.points = proc.points /\ proc'.seen = entry.seen
      /\ proc'.weights = IF w = None THEN None ELSE Balanced(plan, w, entry.seen.vs)
  BY <1>1 DEF Measure, ProcessShape
<1>3. /\ DOMAIN cases = 1..Len(cases) /\ Len(cases) \in Nat \ {0}
      /\ DOMAIN results = 1..Len(results) /\ \A i \in DOMAIN results : SomeResult(results[i])
  BY <1>1, MultiLoadAssumption DEF SomeResult
<1>4. /\ entry.seen.feasible = AllFeasible(cases, results)
      /\ entry.seen.v = WorstViolation(cases, results)
      /\ entry.seen.vs = [i \in DOMAIN results |-> CaseViolation(cases[i], results[i])]
  BY DEF Entry
<1> HIDE DEF entry
<1>5. CASE DOMAIN results = DOMAIN cases
  <2>1. \A i \in DOMAIN cases : SomeResult(results[i])
    BY <1>3, <1>5
  <2>2. /\ SomeValue(entry.seen.v)
        /\ entry.seen.feasible => entry.seen.v \in 0..Percent
    BY <1>1, <1>4, <2>1, WorstIsValue
  <2>3. /\ DOMAIN entry.seen.vs = DOMAIN cases
        /\ \A i \in DOMAIN entry.seen.vs :
             entry.seen.vs[i] = None \/ SomeValue(entry.seen.vs[i])
    BY <1>1, <1>4, <1>5, <2>1, ViolationIsValue
  <2>4. Fitting(plan, w) /\ Worth(w) /\ FinitePoints(proc.points)
    BY DEF NumbersInv
  <2>5. CASE w = None
    <3>1. proc'.weights = None /\ ~Adapts(plan)
      BY <1>2, <2>4, <2>5 DEF Fitting
    <3>2. Fitting(plan, proc'.weights) /\ Worth(proc'.weights)
      BY <2>4, <2>5, <3>1
    <3> QED
      BY <1>1, <1>2, <2>2, <2>4, <3>1, <3>2 DEF NumbersInv, Solving
  <2>6. CASE w # None
    <3>1. Split(plan, w)
      BY <2>4, <2>6, FittingIsSplit
    <3> DEFINE b == Balanced(plan, w, entry.seen.vs)
    <3>2. Split(plan, b) /\ (Signals(entry.seen.vs) >= 2 => InBounds(plan, b))
      BY <1>1, <2>3, <3>1, BalancedIsBounded DEF Signals
    <3>3. Fitting(plan, b)
      BY <2>4, <2>6, BalancedFits
    <3>4. proc'.weights = b
      BY <1>2, <2>6
    <3> HIDE DEF b
    <3>5. Worth(b)
      BY <3>2 DEF Split, Worth
    <3> QED
      BY <1>1, <1>2, <2>2, <2>4, <3>2, <3>3, <3>4, <3>5 DEF NumbersInv, Solving
  <2> QED
    BY <2>5, <2>6
<1> QED
  BY <1>1, <1>3, <1>5

LEMMA EndHasNumbers ==
  ASSUME CarryInv, NumbersInv, plan' = plan, ckpt' = ckpt,
         proc' = [proc EXCEPT !.phase = "ended"]
  PROVE  NumbersInv'
<1>1. /\ proc'.phase = "ended" /\ proc'.it = proc.it /\ proc'.vol = proc.vol
      /\ proc'.weights = proc.weights /\ proc'.points = proc.points
  BY ProcessIsRecord DEF ProcessShape
<1> QED
  BY <1>1 DEF NumbersInv

LEMMA ConvergeHasNumbers ==
  ASSUME CarryInv, NumbersInv, Converge
  PROVE  NumbersInv'
<1>1. /\ proc.phase = "measured" /\ plan' = plan
      /\ proc' = [proc EXCEPT !.phase = "ended"] /\ ckpt' = Saved(proc, proc.field)
  BY DEF Converge
<1>2. /\ proc'.phase = "ended" /\ proc'.it = proc.it /\ proc'.vol = proc.vol
      /\ proc'.weights = proc.weights /\ proc'.points = proc.points
  BY <1>1, ProcessIsRecord DEF ProcessShape
<1>3. /\ ckpt'.it = proc.it + 1 /\ ckpt'.vol = proc.vol /\ ckpt'.points = proc.points
      /\ ckpt'.weights = proc.weights
  BY <1>1 DEF Saved
<1>4. proc.it + 1 \in 0..MaxIterations
  BY <1>1, VolumesInRange DEF NumbersInv
<1> QED
  BY <1>1, <1>2, <1>3, <1>4 DEF NumbersInv

LEMMA PointIsFinite ==
  ASSUME NEW ps, FinitePoints(ps), NEW V, NEW v, SomeValue(v)
  PROVE  FinitePoints(WithPoint(ps, V, v))
<1>1. CASE WithPoint(ps, V, v) = ps
  BY <1>1
<1>2. CASE WithPoint(ps, V, v) # ps
  <2> DEFINE q == <<V, v>>
             qs == Append(ps, q)
  <2>1. v \notin {NaN, Inf} /\ WithPoint(ps, V, v) = qs
    BY <1>2 DEF WithPoint
  <2>2. v \notin {None, NaN, Inf} /\ q[2] = v
    BY <2>1, MultiLoadAssumption DEF SomeValue
  <2>3. /\ IsSeq(qs) /\ Len(ps) \in Nat /\ Len(qs) = Len(ps) + 1
        /\ \A i \in 1..Len(ps) : qs[i] = ps[i]
        /\ qs[Len(ps) + 1] = q
    BY AppendedSeq DEF FinitePoints
  <2> HIDE DEF q, qs
  <2>4. ASSUME NEW i \in 1..Len(qs) PROVE qs[i][2] \notin {None, NaN, Inf}
    <3>1. CASE i = Len(ps) + 1
      BY <2>2, <2>3, <3>1
    <3>2. CASE i # Len(ps) + 1
      <4>1. i \in 1..Len(ps)
        BY <2>3, <3>2
      <4> QED
        BY <2>3, <4>1 DEF FinitePoints
    <3> QED
      BY <3>1, <3>2
  <2> QED
    BY <2>1, <2>3, <2>4 DEF FinitePoints
<1> QED
  BY <1>1, <1>2

LEMMA AdvanceHasNumbers ==
  ASSUME CarryInv, NumbersInv, NEW vol \in NextVolumes, Advance(vol)
  PROVE  NumbersInv'
<1> DEFINE points == WithPoint(proc.points, proc.vol, proc.seen.v)
           target == NextTarget(plan, points, proc.vol, proc.seen.feasible,
                                Understood(proc.seen.v))
           after  == [proc EXCEPT !.vol = vol, !.points = points]
<1>1. /\ proc.phase = "measured" /\ plan' = plan /\ ckpt' = Saved(after, proc.field)
      /\ proc' = [after EXCEPT !.phase = "solving", !.it = @ + 1, !.sens = proc.field,
                    !.field = None, !.pair = [vol |-> proc.vol, target |-> target]]
  BY DEF Advance
<1>2. FinitePoints(points)
  BY <1>1, PointIsFinite DEF NumbersInv
<1> HIDE DEF points, target
<1>3. /\ after.it = proc.it /\ after.vol = vol /\ after.points = points
      /\ after.weights = proc.weights /\ ProcessShape(after)
  <2>1. ProcessShape(proc)
    BY ProcessIsRecord
  <2> DEFINE moved == [proc EXCEPT !.vol = vol]
  <2>2. /\ moved.it = proc.it /\ moved.vol = vol
        /\ moved.weights = proc.weights /\ ProcessShape(moved)
    BY <2>1 DEF ProcessShape
  <2>3. after = [moved EXCEPT !.points = points]
    OBVIOUS
  <2> HIDE DEF moved, after
  <2> QED
    BY <2>2, <2>3 DEF ProcessShape
<1> HIDE DEF after
<1>4. /\ proc'.phase = "solving" /\ proc'.it = proc.it + 1 /\ proc'.vol = vol
      /\ proc'.points = points /\ proc'.weights = proc.weights
  BY <1>1, <1>3 DEF ProcessShape
<1>5. /\ ckpt'.it = proc.it + 1 /\ ckpt'.vol = vol /\ ckpt'.points = points
      /\ ckpt'.weights = proc.weights
  BY <1>1, <1>3 DEF Saved
<1>6. proc.it + 1 \in 0..MaxIterations /\ vol \in 0..V0
  BY <1>1, VolumesInRange DEF NumbersInv
<1> QED
  BY <1>1, <1>2, <1>4, <1>5, <1>6 DEF NumbersInv

LEMMA DivergeHasNumbers ==
  ASSUME CarryInv, NumbersInv, NEW vol \in NextVolumes \cup {proc.vol}, Diverge(vol)
  PROVE  NumbersInv'
<1> DEFINE after == [proc EXCEPT !.vol = vol]
<1>1. /\ proc.phase = "solving" /\ proc.it < MaxIterations /\ plan' = plan
      /\ ckpt' = Saved(after, proc.sens)
      /\ proc' = [after EXCEPT !.it = @ + 1, !.pair = None, !.vfs = Append(@, proc.vol)]
  BY DEF Diverge, Solving
<1>2. /\ after.it = proc.it /\ after.vol = vol /\ after.points = proc.points
      /\ after.weights = proc.weights /\ after.phase = "solving" /\ ProcessShape(after)
  BY <1>1, ProcessIsRecord DEF ProcessShape
<1> HIDE DEF after
<1>3. /\ proc'.phase = "solving" /\ proc'.it = proc.it + 1 /\ proc'.vol = vol
      /\ proc'.points = proc.points /\ proc'.weights = proc.weights
  BY <1>1, <1>2 DEF ProcessShape
<1>4. /\ ckpt'.it = proc.it + 1 /\ ckpt'.vol = vol /\ ckpt'.points = proc.points
      /\ ckpt'.weights = proc.weights
  BY <1>1, <1>2 DEF Saved
<1>5. proc.it + 1 \in 0..MaxIterations /\ vol \in 0..V0
  BY <1>1, VolumesInRange DEF NumbersInv
<1> QED
  BY <1>1, <1>3, <1>4, <1>5 DEF NumbersInv

LEMMA NothingHasNumbers ==
  /\ Nothing.it \in 0..MaxIterations /\ Nothing.vol \in 0..V0
  /\ FinitePoints(Nothing.points) /\ Worth(Nothing.weights)
<1>1. FinitePoints(<<>>)
  BY EmptyIsSeq DEF FinitePoints
<1> QED
  BY <1>1, VolumesInRange DEF Nothing, Worth

LEMMA ResumeHasNumbers ==
  ASSUME NoneIsNoFunction, NumbersInv, NEW p \in Plans, Resume(p)
  PROVE  NumbersInv'
<1> DEFINE saved == IF ckpt = None THEN Nothing ELSE ckpt
<1>1. plan' = p /\ proc' = Started(p, saved) /\ ckpt' = ckpt
  BY DEF Resume
<1>2. /\ saved.it \in 0..MaxIterations /\ saved.vol \in 0..V0
      /\ FinitePoints(saved.points) /\ Worth(saved.weights)
  BY NothingHasNumbers DEF NumbersInv
<1>3. ckpt # None =>
        /\ ckpt.it \in 0..MaxIterations /\ ckpt.vol \in 0..V0
        /\ FinitePoints(ckpt.points) /\ Worth(ckpt.weights)
  BY DEF NumbersInv
<1> HIDE DEF saved
<1> QED
  BY <1>1, <1>2, <1>3, StartedHasNumbers

LEMMA InitHasNumbers ==
  ASSUME Init
  PROVE  NoneIsNoFunction => NumbersInv
<1> SUFFICES ASSUME NoneIsNoFunction PROVE NumbersInv
  OBVIOUS
<1>1. plan \in Plans /\ proc = Started(plan, Nothing) /\ ckpt = None
  BY DEF Init
<1>2. /\ proc.phase = "solving" /\ proc.it = 0 /\ proc.vol = V0
      /\ proc.weights = RestoredWeights(plan, None)
      /\ proc.points = IF plan.mode = "multipoint" THEN <<>> ELSE <<>>
  BY <1>1 DEF Started, Nothing
<1>3. Fitting(plan, proc.weights) /\ Worth(proc.weights)
  <2>1. Worth(None)
    BY DEF Worth
  <2> QED
    BY <1>1, <1>2, <2>1, RestoredFits, RestoredIsWorth
<1>4. FinitePoints(proc.points)
  BY <1>2, EmptyIsSeq DEF FinitePoints
<1> QED
  BY <1>1, <1>2, <1>3, <1>4, VolumesInRange DEF NumbersInv

LEMMA NextHasNumbers ==
  ASSUME NoneIsNoFunction, CarryInv, NumbersInv, [Next]_vars
  PROVE  NumbersInv'
<1>1. ASSUME NEW results \in Solves, Measure(results) PROVE NumbersInv'
  BY <1>1, MeasureHasNumbers
<1>2. ASSUME NEW results \in Solves, NullSolve(results) PROVE NumbersInv'
  BY <1>2, EndHasNumbers DEF NullSolve
<1>3. CASE Converge
  BY <1>3, ConvergeHasNumbers
<1>4. ASSUME NEW vol \in NextVolumes, Advance(vol) PROVE NumbersInv'
  BY <1>4, AdvanceHasNumbers
<1>5. ASSUME NEW vol \in NextVolumes \cup {proc.vol}, Diverge(vol) PROVE NumbersInv'
  BY <1>5, DivergeHasNumbers
<1>6. CASE Ends
  BY <1>6, EndHasNumbers DEF Ends
<1>7. ASSUME NEW p \in Plans, Resume(p) PROVE NumbersInv'
  BY <1>7, ResumeHasNumbers
<1>8. CASE UNCHANGED vars
  BY <1>8 DEF vars, NumbersInv
<1> QED
  BY <1>1, <1>2, <1>3, <1>4, <1>5, <1>6, <1>7, <1>8 DEF Next

(* The invariant says what the property says.                              *)
LEMMA NumbersAreTyped ==
  ASSUME NumbersInv
  PROVE  TypeOK
<1>1. \A i \in DOMAIN proc.points : proc.points[i][2] \notin {None, NaN, Inf}
  BY SeqLength DEF NumbersInv, FinitePoints
<1>2. proc.phase = "measured" /\ proc.seen.feasible =>
        proc.seen.v # NaN /\ proc.seen.v <= Percent
  <2> SUFFICES ASSUME proc.phase = "measured", proc.seen.feasible
               PROVE  proc.seen.v # NaN /\ proc.seen.v <= Percent
    OBVIOUS
  <2>1. proc.seen.v \in 0..Percent
    BY DEF NumbersInv
  <2>2. NaN \notin Int
    BY MultiLoadAssumption
  <2>3. proc.seen.v \in Int /\ proc.seen.v <= Percent
    BY <2>1 DEF Percent
  <2> QED
    BY <2>2, <2>3
<1> QED
  BY <1>1, <1>2 DEF NumbersInv, TypeOK, Fitting, Signals, InBounds

(* The controllers always hold what they can compute with, whatever is     *)
(* measured, missing or infinite, and whatever process wrote the           *)
(* checkpoint a run resumes from: one weight for each case of the plan,    *)
(* within the bound of its configured one once two cases gave a signal;    *)
(* only finite ratios among the points of the fit; and a feasible design   *)
(* has a worst ratio of at most 1 (loop.py:737).                           *)
THEOREM NumbersAlwaysTyped ==
  ASSUME NoneIsNoFunction
  PROVE  Spec => []TypeOK
<1>1. Init => CarryInv /\ NumbersInv
  BY CarryStarts, InitHasNumbers
<1>2. (CarryInv /\ NumbersInv) /\ [Next]_vars => (CarryInv /\ NumbersInv)'
  BY CarrySteps, NextHasNumbers
<1>3. CarryInv /\ NumbersInv => TypeOK
  BY NumbersAreTyped
<1> QED
  BY <1>1, <1>2, <1>3, PTL DEF Spec
=============================================================================
