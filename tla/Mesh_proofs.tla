----------------------------- MODULE Mesh_proofs -----------------------------
(***************************************************************************)
(* Lemmas about meshes, volumes and manufacturing constraints, which the   *)
(* proofs about the design updates rest on.                                *)
(***************************************************************************)
EXTENDS VolumeControl, Manufacturing, FiniteSetTheorems, SequenceTheorems, TLAPS

(* Among subsets of a finite set there is a least: one that properly       *)
(* contains no other.                                                      *)
LEMMA LeastSubset ==
  ASSUME NEW S, IsFiniteSet(S), NEW F \in SUBSET (SUBSET S), F # {}
  PROVE  \E T \in F : \A U \in F : U \subseteq T => U = T
<1> DEFINE Less == StrictSubsetOrdering(S)
<1>1. IsWellFoundedOn(Less, SUBSET S)
  BY FS_StrictSubsetOrderingWellFounded, FS_FiniteSubsetsOfFinite
<1>2. PICK T \in F : \A U \in F : <<U, T>> \notin Less
  <2> HIDE DEF Less
  <2> QED
    BY <1>1, WFMin
<1>3. ASSUME NEW U \in F, U \subseteq T PROVE U = T
  BY <1>2, <1>3 DEF StrictSubsetOrdering
<1> QED
  BY <1>3

-----------------------------------------------------------------------------
(* Sums over finite sets.                                                  *)

SumAt(w, S) == MapThenSumSet(LAMBDA e : w[e], S)

One(s) == CHOOSE x \in s : TRUE
IsSum(g, w, S) ==
  g = [s \in SUBSET S |-> IF s = {} THEN 0 ELSE w[One(s)] + g[s \ {One(s)}]]

LEMMA OneIsMember == \A s : s # {} => One(s) \in s
  BY DEF One

LEMMA SumUnfolds ==
  ASSUME NEW S, NEW w, NEW g, IsSum(g, w, S), NEW s \in SUBSET S
  PROVE  g[s] = IF s = {} THEN 0 ELSE w[One(s)] + g[s \ {One(s)}]
  BY DEF IsSum

(* There is one such function, whatever part of it is looked at.           *)
LEMMA SumIsUnique ==
  ASSUME NEW S, IsFiniteSet(S), NEW T \in SUBSET S, NEW w, NEW g, NEW h,
         IsSum(g, w, S), IsSum(h, w, T), NEW t \in SUBSET T
  PROVE  g[t] = h[t]
<1> DEFINE F == {s \in SUBSET T : g[s] # h[s]}
<1>1. F \in SUBSET (SUBSET T) /\ IsFiniteSet(T)
  BY FS_Subset
<1>2. ASSUME F # {} PROVE FALSE
  <2>1. PICK s \in F : \A U \in F : U \subseteq s => U = s
    <3> HIDE DEF F
    <3> QED
      BY <1>1, <1>2, LeastSubset
  <2>2. s # {}
    BY <2>1, SumUnfolds
  <2>3. One(s) \in s
    BY <2>2, OneIsMember
  <2>4. s \ {One(s)} \notin F
    BY <2>1, <2>3
  <2>5. g[s \ {One(s)}] = h[s \ {One(s)}]
    BY <2>1, <2>4
  <2>6. s \in SUBSET S /\ s \in SUBSET T
    BY <2>1
  <2> QED
    BY <2>1, <2>2, <2>5, <2>6, SumUnfolds
<1> QED
  BY <1>2

LEMMA SumExists ==
  ASSUME NEW S, IsFiniteSet(S), NEW w
  PROVE  \E g : IsSum(g, w, S)
<1> DEFINE F == {T \in SUBSET S : ~(\E g : IsSum(g, w, T))}
<1>1. ASSUME F # {} PROVE FALSE
  <2>1. PICK T \in F : \A U \in F : U \subseteq T => U = T
    <3>1. F \in SUBSET (SUBSET S)
      OBVIOUS
    <3> HIDE DEF F
    <3> QED
      BY <1>1, <3>1, LeastSubset
  <2> DEFINE Of(U) == CHOOSE g : IsSum(g, w, U)
             Less(s) == s \ {One(s)}
             G == [s \in SUBSET T |-> IF s = {} THEN 0 ELSE w[One(s)] + Of(Less(s))[Less(s)]]
  <2>2. ASSUME NEW s \in SUBSET T, s # {}
        PROVE  Less(s) \in SUBSET s /\ Less(s) # T /\ IsSum(Of(Less(s)), w, Less(s))
    <3>1. One(s) \in s
      BY <2>2, OneIsMember
    <3>2. Less(s) \in SUBSET s /\ Less(s) # T
      BY <3>1
    <3>3. Less(s) \notin F
      BY <2>1, <3>2
    <3>4. \E g : IsSum(g, w, Less(s))
      BY <3>2, <3>3
    <3> QED
      BY <3>2, <3>4
  <2>4. ASSUME NEW s \in SUBSET T, s # {}
        PROVE  G[s] = w[One(s)] + G[Less(s)]
    <3>1. G[s] = w[One(s)] + Of(Less(s))[Less(s)]
      BY <2>4
    <3>2. Less(s) \in SUBSET T /\ IsSum(Of(Less(s)), w, Less(s))
      BY <2>2, <2>4
    <3> DEFINE r == Less(s)
    <3>3. Of(r)[r] = G[r]
      <4>1. CASE r = {}
        <5>1. Of(r)[r] = 0
          BY <3>2, <4>1, SumUnfolds
        <5> QED
          BY <4>1, <5>1
      <4>2. CASE r # {}
        <5>1. Less(r) \in SUBSET r /\ IsSum(Of(Less(r)), w, Less(r))
          BY <2>2, <3>2, <4>2
        <5>2. Of(r)[r] = w[One(r)] + Of(r)[Less(r)]
          <6> DEFINE h == Of(r)
          <6>1. IsSum(h, w, r) /\ r \in SUBSET r
            BY <3>2
          <6> HIDE DEF h
          <6>2. h[r] = w[One(r)] + h[r \ {One(r)}]
            <7> HIDE DEF r
            <7> QED
              BY <4>2, <6>1, SumUnfolds
          <6> QED
            BY <6>2 DEF h
        <5>3. IsFiniteSet(r)
          BY <3>2, FS_Subset
        <5>4. Of(r)[Less(r)] = Of(Less(r))[Less(r)]
          <6> HIDE DEF Of, Less
          <6> QED
            BY <3>2, <5>1, <5>3, SumIsUnique
        <5>5. G[r] = w[One(r)] + Of(Less(r))[Less(r)]
          BY <3>2, <4>2
        <5> QED
          BY <5>2, <5>4, <5>5
      <4> QED
        BY <4>1, <4>2
    <3> QED
      BY <3>1, <3>3
  <2>5. \A s \in SUBSET T : G[s] = IF s = {} THEN 0 ELSE w[One(s)] + G[s \ {One(s)}]
    <3>1. ASSUME NEW s \in SUBSET T, s = {} PROVE G[s] = 0
      BY <3>1
    <3> HIDE DEF G
    <3> QED
      BY <2>4, <3>1
  <2>6. G = [s \in SUBSET T |-> IF s = {} THEN 0 ELSE w[One(s)] + G[s \ {One(s)}]]
    <3>1. G = [s \in SUBSET T |-> G[s]]
      OBVIOUS
    <3> HIDE DEF G
    <3> QED
      BY <2>5, <3>1
  <2>7. IsSum(G, w, T)
    BY <2>6 DEF IsSum
  <2> QED
    BY <2>1, <2>7
<1>2. S \notin F
  BY <1>1
<1> QED
  BY <1>2

LEMMA SumIsSum ==
  ASSUME NEW S, IsFiniteSet(S), NEW w
  PROVE  \E g : IsSum(g, w, S) /\ SumAt(w, S) = g[S]
<1> DEFINE it == CHOOSE g : IsSum(g, w, S)
<1>1. SumAt(w, S) = it[S]
  BY DEF SumAt, MapThenSumSet, MapThenFoldSet, One, IsSum
<1>2. IsSum(it, w, S)
  BY SumExists
<1> QED
  BY <1>1, <1>2

(* The sum taken one element at a time, in the order of the choice ...     *)
LEMMA SumStep ==
  ASSUME NEW S, IsFiniteSet(S), NEW w
  PROVE  SumAt(w, S) = IF S = {} THEN 0 ELSE w[One(S)] + SumAt(w, S \ {One(S)})
<1>1. PICK g : IsSum(g, w, S) /\ SumAt(w, S) = g[S]
  BY SumIsSum
<1>2. CASE S = {}
  BY <1>1, <1>2, SumUnfolds
<1>3. CASE S # {}
  <2> DEFINE T == S \ {One(S)}
  <2>1. T \in SUBSET S /\ IsFiniteSet(T)
    BY FS_Subset
  <2>2. PICK h : IsSum(h, w, T) /\ SumAt(w, T) = h[T]
    BY <2>1, SumIsSum
  <2>3. g[T] = h[T]
    <3> HIDE DEF T
    <3> QED
      BY <1>1, <2>1, <2>2, SumIsUnique
  <2>4. g[S] = w[One(S)] + g[T]
    BY <1>1, <1>3, SumUnfolds
  <2> QED
    BY <1>1, <1>3, <2>2, <2>3, <2>4
<1> QED
  BY <1>2, <1>3

LEMMA SumType ==
  ASSUME NEW S, IsFiniteSet(S), NEW w, \A e \in S : w[e] \in Int
  PROVE  SumAt(w, S) \in Int
<1> DEFINE F == {T \in SUBSET S : SumAt(w, T) \notin Int}
<1>1. F \in SUBSET (SUBSET S)
  OBVIOUS
<1>2. ASSUME F # {} PROVE FALSE
  <2>1. PICK T \in F : \A U \in F : U \subseteq T => U = T
    <3> HIDE DEF F
    <3> QED
      BY <1>1, <1>2, LeastSubset
  <2>2. IsFiniteSet(T)
    BY <2>1, FS_Subset
  <2>3. T # {}
    <3>1. T = {} => SumAt(w, T) = 0
      BY <2>2, SumStep
    <3> QED
      BY <2>1, <3>1
  <2>4. One(T) \in T
    BY <2>3, OneIsMember
  <2>5. SumAt(w, T \ {One(T)}) \in Int
    BY <2>1, <2>4
  <2>6. w[One(T)] \in Int
    BY <2>1, <2>4
  <2>7. SumAt(w, T) = w[One(T)] + SumAt(w, T \ {One(T)})
    BY <2>2, <2>3, SumStep
  <2> QED
    BY <2>1, <2>5, <2>6, <2>7
<1> QED
  BY <1>2

(* ... and in any order.                                                   *)
LEMMA SumRemoves ==
  ASSUME NEW S, IsFiniteSet(S), NEW w, \A e \in S : w[e] \in Int, NEW a \in S
  PROVE  SumAt(w, S) = w[a] + SumAt(w, S \ {a})
<1> DEFINE F == {T \in SUBSET S : \E b \in T : SumAt(w, T) # w[b] + SumAt(w, T \ {b})}
<1>1. F \in SUBSET (SUBSET S)
  OBVIOUS
<1>2. ASSUME F # {} PROVE FALSE
  <2>1. PICK T \in F : \A U \in F : U \subseteq T => U = T
    <3> HIDE DEF F
    <3> QED
      BY <1>1, <1>2, LeastSubset
  <2>2. PICK b \in T : SumAt(w, T) # w[b] + SumAt(w, T \ {b})
    BY <2>1
  <2> DEFINE c == One(T)
  <2>3. c \in T
    BY <2>2, OneIsMember
  <2>4. IsFiniteSet(T) /\ IsFiniteSet(T \ {b}) /\ IsFiniteSet(T \ {c})
    BY <2>1, FS_Subset
  <2>5. SumAt(w, T) = w[c] + SumAt(w, T \ {c})
    BY <2>2, <2>4, SumStep
  <2>6. b # c
    BY <2>2, <2>5
  <2>7. T \ {c} \notin F /\ T \ {b} \notin F
    BY <2>1, <2>2, <2>3
  <2>8. SumAt(w, T \ {c}) = w[b] + SumAt(w, (T \ {c}) \ {b})
    BY <2>1, <2>2, <2>6, <2>7
  <2>9. SumAt(w, T \ {b}) = w[c] + SumAt(w, (T \ {b}) \ {c})
    BY <2>1, <2>3, <2>6, <2>7
  <2>10. (T \ {c}) \ {b} = (T \ {b}) \ {c}
    OBVIOUS
  <2> DEFINE x == SumAt(w, (T \ {c}) \ {b})
  <2>11. w[b] \in Int /\ w[c] \in Int /\ x \in Int
    <3>1. IsFiniteSet((T \ {c}) \ {b})
      BY <2>4, FS_Subset
    <3> QED
      BY <2>1, <2>2, <2>3, <3>1, SumType
  <2>12. SumAt(w, T) = w[c] + (w[b] + x) /\ SumAt(w, T \ {b}) = w[c] + x
    BY <2>5, <2>8, <2>9, <2>10
  <2> HIDE DEF c, x
  <2>13. SumAt(w, T) = w[b] + SumAt(w, T \ {b})
    BY <2>11, <2>12
  <2> QED
    BY <2>2, <2>13
<1>3. S \notin F
  BY <1>2
<1> QED
  BY <1>3

-----------------------------------------------------------------------------
(* Volumes.                                                                *)

LEMMA VolumeIsSum ==
  ASSUME NEW S \in SUBSET Elements
  PROVE  VolumeOf(S) = SumAt(Vol, S)
  BY DEF VolumeOf, Volumes, SumAt

LEMMA VolumeFacts ==
  ASSUME NEW S \in SUBSET Elements
  PROVE  /\ IsFiniteSet(S)
         /\ VolumeOf(S) \in Int
         /\ S = {} => VolumeOf(S) = 0
         /\ \A e \in S : VolumeOf(S) = Vol[e] + VolumeOf(S \ {e})
<1>1. IsFiniteSet(S) /\ \A e \in S : Vol[e] \in Int
  <2>1. IsFiniteSet(S)
    BY MeshAssumption, FS_Subset
  <2>2. \A e \in S : Vol[e] \in Int
    BY MeshAssumption
  <2> QED
    BY <2>1, <2>2
<1>2. SumAt(Vol, S) \in Int
  BY <1>1, SumType
<1>3. S = {} => SumAt(Vol, S) = 0
  BY <1>1, SumStep
<1>4. ASSUME NEW e \in S PROVE SumAt(Vol, S) = Vol[e] + SumAt(Vol, S \ {e})
  BY <1>1, SumRemoves
<1> QED
  BY <1>1, <1>2, <1>3, <1>4, VolumeIsSum

(* Volumes of disjoint masks add up, and no part outweighs the whole.      *)
LEMMA VolumeAdds ==
  ASSUME NEW S \in SUBSET Elements, NEW T \in SUBSET Elements, S \cap T = {}
  PROVE  VolumeOf(S \cup T) = VolumeOf(S) + VolumeOf(T)
<1> DEFINE F == {U \in SUBSET T : VolumeOf(S \cup U) # VolumeOf(S) + VolumeOf(U)}
<1>1. F \in SUBSET (SUBSET T) /\ IsFiniteSet(T)
  BY VolumeFacts
<1>2. ASSUME F # {} PROVE FALSE
  <2>1. PICK U \in F : \A W \in F : W \subseteq U => W = U
    <3> HIDE DEF F
    <3> QED
      BY <1>1, <1>2, LeastSubset
  <2>2. U \in SUBSET Elements /\ S \cup U \in SUBSET Elements /\ U \cap S = {}
    BY <2>1
  <2>3. CASE U = {}
    <3>1. S \cup U = S /\ VolumeOf(U) = 0 /\ VolumeOf(S) \in Int
      BY <2>2, <2>3, VolumeFacts
    <3>2. VolumeOf(S \cup U) = VolumeOf(S) + VolumeOf(U)
      BY <3>1
    <3> QED
      BY <2>1, <3>2
  <2>4. CASE U # {}
    <3>1. PICK e : e \in U
      BY <2>4
    <3> DEFINE W == U \ {e}
    <3>2. W \in SUBSET Elements /\ W \notin F /\ (S \cup U) \ {e} = S \cup W
      BY <2>1, <2>2, <3>1
    <3>3. VolumeOf(S \cup W) = VolumeOf(S) + VolumeOf(W)
      BY <2>1, <3>2
    <3>4. VolumeOf(U) = Vol[e] + VolumeOf(W)
      BY <2>2, <3>1, VolumeFacts
    <3>5. VolumeOf(S \cup U) = Vol[e] + VolumeOf(S \cup W)
      BY <2>2, <3>1, <3>2, VolumeFacts
    <3>6. Vol[e] \in Int /\ VolumeOf(S) \in Int /\ VolumeOf(W) \in Int
      BY <2>2, <3>1, <3>2, MeshAssumption, VolumeFacts
    <3> HIDE DEF W
    <3>7. VolumeOf(S \cup U) = VolumeOf(S) + VolumeOf(U)
      BY <3>3, <3>4, <3>5, <3>6
    <3> QED
      BY <2>1, <3>7
  <2> QED
    BY <2>3, <2>4
<1>3. T \notin F
  BY <1>2
<1> QED
  BY <1>3

LEMMA VolumeIsPositive ==
  ASSUME NEW S \in SUBSET Elements, S # {}
  PROVE  VolumeOf(S) \in Nat \ {0}
<1> DEFINE F == {U \in SUBSET S : U # {} /\ VolumeOf(U) \notin Nat \ {0}}
<1>1. F \in SUBSET (SUBSET S) /\ IsFiniteSet(S)
  BY VolumeFacts
<1>2. ASSUME F # {} PROVE FALSE
  <2>1. PICK U \in F : \A W \in F : W \subseteq U => W = U
    <3> HIDE DEF F
    <3> QED
      BY <1>1, <1>2, LeastSubset
  <2>2. PICK e : e \in U
    BY <2>1
  <2> DEFINE W == U \ {e}
  <2>3. W \in SUBSET Elements /\ W \notin F /\ U \in SUBSET Elements /\ e \in Elements
    BY <2>1, <2>2
  <2>4. VolumeOf(U) = Vol[e] + VolumeOf(W)
    BY <2>2, <2>3, VolumeFacts
  <2>5. VolumeOf(W) \in Nat
    <3>1. W = {} => VolumeOf(W) = 0
      BY <2>3, VolumeFacts
    <3> QED
      BY <2>1, <2>3, <3>1
  <2>6. Vol[e] \in Nat \ {0}
    BY <2>3, MeshAssumption
  <2> HIDE DEF W
  <2>7. VolumeOf(U) \in Nat \ {0}
    BY <2>4, <2>5, <2>6
  <2> QED
    BY <2>1, <2>7
<1>3. S \notin F
  BY <1>2
<1> QED
  BY <1>3

LEMMA VolumeIsMonotone ==
  ASSUME NEW T \in SUBSET Elements, NEW S \in SUBSET T
  PROVE  /\ VolumeOf(S) \in Nat /\ VolumeOf(T) \in Nat
         /\ VolumeOf(S) <= VolumeOf(T)
         /\ S # T => VolumeOf(S) < VolumeOf(T)
<1> DEFINE R == T \ S
<1>1. S \in SUBSET Elements /\ R \in SUBSET Elements /\ S \cap R = {} /\ S \cup R = T
  OBVIOUS
<1>2. VolumeOf(T) = VolumeOf(S) + VolumeOf(R)
  BY <1>1, VolumeAdds
<1>3. S # T => R # {}
  OBVIOUS
<1>4. \A U \in SUBSET Elements : /\ VolumeOf(U) \in Nat
                                 /\ U # {} => VolumeOf(U) > 0
  BY VolumeFacts, VolumeIsPositive
<1>5. VolumeOf(S) \in Nat /\ VolumeOf(R) \in Nat /\ (S # T => VolumeOf(R) > 0)
  BY <1>1, <1>3, <1>4
<1> HIDE DEF R
<1> QED
  BY <1>2, <1>5

LEMMA WholeVolume ==
  /\ V0 \in Nat
  /\ \A S \in SUBSET Elements : VolumeOf(S) \in 0..V0
<1>1. ASSUME NEW S \in SUBSET Elements PROVE VolumeOf(S) \in 0..V0 /\ V0 \in Nat
  <2>1. Elements \in SUBSET Elements /\ S \in SUBSET Elements
    OBVIOUS
  <2>2. VolumeOf(S) \in Nat /\ V0 \in Nat /\ VolumeOf(S) <= V0
    BY <2>1, VolumeIsMonotone DEF V0
  <2> QED
    BY <2>2
<1> QED
  BY <1>1

-----------------------------------------------------------------------------
(* Extremes and evaluation helpers.                                        *)

LEMMA TwoExtremes ==
  ASSUME NEW a \in Int, NEW b \in Int
  PROVE  /\ Max({a, b}) = IF a >= b THEN a ELSE b
         /\ Min({a, b}) = IF a <= b THEN a ELSE b
<1>1. \E x \in {a, b} : \A y \in {a, b} : x >= y
  OBVIOUS
<1>2. Max({a, b}) \in {a, b} /\ \A y \in {a, b} : Max({a, b}) >= y
  BY <1>1 DEF Max
<1>3. \E x \in {a, b} : \A y \in {a, b} : x <= y
  OBVIOUS
<1>4. Min({a, b}) \in {a, b} /\ \A y \in {a, b} : Min({a, b}) <= y
  BY <1>3 DEF Min
<1>5. Max({a, b}) = IF a >= b THEN a ELSE b
  BY <1>2
<1> QED
  BY <1>4, <1>5

LEMMA FiniteExtremes ==
  ASSUME NEW S, \A x \in S : x \in Int, IsFiniteSet(S), S # {}
  PROVE  /\ Max(S) \in S /\ \A y \in S : Max(S) >= y
         /\ Min(S) \in S /\ \A y \in S : Min(S) <= y
<1> DEFINE HasMax(T) == \E x \in T : \A y \in T : x >= y
           HasMin(T) == \E x \in T : \A y \in T : x <= y
           F == {T \in SUBSET S : T # {} /\ ~(HasMax(T) /\ HasMin(T))}
<1>1. F \in SUBSET (SUBSET S)
  OBVIOUS
<1>2. ASSUME F # {} PROVE FALSE
  <2>1. PICK T \in F : \A U \in F : U \subseteq T => U = T
    <3> HIDE DEF F
    <3> QED
      BY <1>1, <1>2, LeastSubset
  <2>2. PICK e \in T : e \in Int
    BY <2>1
  <2> DEFINE U == T \ {e}
  <2>3. U = {} \/ (HasMax(U) /\ HasMin(U))
    <3>1. U \notin F /\ U \in SUBSET S
      BY <2>1, <2>2
    <3> QED
      BY <3>1
  <2>4. T = U \cup {e} /\ U \in SUBSET Int
    BY <2>1, <2>2
  <2>5. HasMax(T)
    <3>1. CASE U = {}
      BY <2>2, <2>4, <3>1
    <3>2. CASE U # {}
      <4>1. PICK x \in U : x \in Int /\ \A y \in U : x >= y
        BY <2>3, <2>4, <3>2
      <4> DEFINE m == IF e >= x THEN e ELSE x
      <4>2. m \in T /\ m \in Int /\ m >= e /\ m >= x
        BY <2>2, <2>4, <4>1
      <4> HIDE DEF m
      <4>3. ASSUME NEW y \in T PROVE m >= y
        <5>1. y = e \/ (y \in U /\ y \in Int /\ x >= y)
          BY <2>4, <4>1
        <5> QED
          BY <4>1, <4>2, <5>1
      <4> QED
        BY <4>2, <4>3
    <3> QED
      BY <3>1, <3>2
  <2>6. HasMin(T)
    <3>1. CASE U = {}
      BY <2>2, <2>4, <3>1
    <3>2. CASE U # {}
      <4>1. PICK x \in U : x \in Int /\ \A y \in U : x <= y
        BY <2>3, <2>4, <3>2
      <4> DEFINE m == IF e <= x THEN e ELSE x
      <4>2. m \in T /\ m \in Int /\ m <= e /\ m <= x
        BY <2>2, <2>4, <4>1
      <4> HIDE DEF m
      <4>3. ASSUME NEW y \in T PROVE m <= y
        <5>1. y = e \/ (y \in U /\ y \in Int /\ x <= y)
          BY <2>4, <4>1
        <5> QED
          BY <4>1, <4>2, <5>1
      <4> QED
        BY <4>2, <4>3
    <3> QED
      BY <3>1, <3>2
  <2> QED
    BY <2>1, <2>5, <2>6
<1>3. HasMax(S) /\ HasMin(S)
  BY <1>2
<1> QED
  BY <1>3 DEF Max, Min

(* A finite set's values under a function: finitely many, with extremes.   *)
LEMMA ImageIsFinite ==
  ASSUME NEW S, IsFiniteSet(S), NEW w
  PROVE  IsFiniteSet({w[x] : x \in S})
<1> DEFINE g == [x \in S |-> w[x]]
           T == {w[x] : x \in S}
<1>1. g \in Surjection(S, T)
  BY DEF Surjection
<1> QED
  BY <1>1, FS_Surjection

LEMMA ExtremesOfValues ==
  ASSUME NEW S, IsFiniteSet(S), S # {}, NEW w, \A x \in S : w[x] \in Int
  PROVE  LET T == {w[x] : x \in S}
         IN  /\ Max(T) \in Int /\ \A x \in S : w[x] <= Max(T)
             /\ Min(T) \in Int /\ \A x \in S : Min(T) <= w[x]
<1> DEFINE T == {w[x] : x \in S}
<1>1. IsFiniteSet(T) /\ T # {} /\ \A y \in T : y \in Int
  BY ImageIsFinite
<1>2. \A x \in S : w[x] \in T
  OBVIOUS
<1> HIDE DEF T
<1>3. /\ Max(T) \in T /\ \A y \in T : Max(T) >= y
      /\ Min(T) \in T /\ \A y \in T : Min(T) <= y
  BY <1>1, FiniteExtremes
<1>4. /\ Max(T) \in Int /\ \A x \in S : w[x] <= Max(T)
      /\ Min(T) \in Int /\ \A x \in S : Min(T) <= w[x]
  BY <1>1, <1>2, <1>3
<1> QED
  BY <1>4 DEF T

(* Bisection returns rungs of its ladder.                                  *)
LEMMA LadderEnds ==
  ASSUME NEW lo \in Int, NEW hi \in Int, lo <= hi
  PROVE  Min(lo..hi) = lo /\ Max(lo..hi) = hi
<1>1. IsFiniteSet(lo..hi) /\ lo..hi # {} /\ \A x \in lo..hi : x \in Int
  <2>1. lo \in lo..hi
    OBVIOUS
  <2>2. IsFiniteSet(lo..hi)
    BY FS_Interval
  <2> QED
    BY <2>1, <2>2
<1>2. /\ Max(lo..hi) \in lo..hi /\ \A y \in lo..hi : Max(lo..hi) >= y
      /\ Min(lo..hi) \in lo..hi /\ \A y \in lo..hi : Min(lo..hi) <= y
  BY <1>1, FiniteExtremes
<1>3. lo \in lo..hi /\ hi \in lo..hi
  OBVIOUS
<1> QED
  BY <1>2, <1>3

LEMMA BisectedIsRung ==
  ASSUME NEW lo \in Int, NEW hi \in Int, lo <= hi, NEW kept, DOMAIN kept = lo..hi,
         NEW budget, NEW r \in Bisected(kept, budget)
  PROVE  r \in lo..hi
<1>1. Min(DOMAIN kept) = lo /\ Max(DOMAIN kept) = hi
  BY LadderEnds
<1>2. r = lo \/ r = hi \/ r \in lo + 1..hi
  BY <1>1 DEF Bisected
<1> QED
  BY <1>2

(* A nonempty set of naturals has a least element.                         *)
LEMMA FirstNumber ==
  ASSUME NEW S \in SUBSET Nat, S # {}
  PROVE  \E n \in S : \A m \in S : n <= m
<1> DEFINE Less == {p \in Nat \X Nat : p[1] < p[2]}
<1>1. IsWellFoundedOn(Less, Nat)
  BY NatLessThanWellFounded DEF OpToRel
<1>2. PICK n \in S : \A m \in S : <<m, n>> \notin Less
  <2> HIDE DEF Less
  <2> QED
    BY <1>1, WFMin
<1>3. ASSUME NEW m \in S PROVE n <= m
  <2>1. <<m, n>> \notin Less /\ m \in Nat /\ n \in Nat
    BY <1>2
  <2>2. m < n => <<m, n>> \in Less
    BY <2>1
  <2> QED
    BY <2>1, <2>2
<1> QED
  BY <1>3

(* A function repeated: what its repetition gives and keeps.               *)
Iterates(f, D, base, step, n) ==
  /\ f \in [0..n -> D] /\ f[0] = base
  /\ \A i \in 1..n : f[i] = step[f[i - 1]]

LEMMA IteratesExist ==
  ASSUME NEW D, NEW base \in D, NEW step \in [D -> D], NEW n \in Nat
  PROVE  \E f : Iterates(f, D, base, step, n)
<1> DEFINE Good(m, f) == /\ f \in [0..m -> D] /\ f[0] = base
                         /\ \A i \in 1..m : f[i] = step[f[i - 1]]
           Bad == {m \in Nat : ~\E f : Good(m, f)}
<1> SUFFICES ASSUME Bad # {} PROVE FALSE
  BY DEF Iterates
<1>1. PICK m \in Bad : \A k \in Bad : m <= k
  <2>1. Bad \in SUBSET Nat
    OBVIOUS
  <2> HIDE DEF Bad
  <2> QED
    BY <2>1, FirstNumber
<1>2. m \in Nat /\ ~\E f : Good(m, f)
  BY <1>1
<1>3. m # 0
  <2> DEFINE one == [i \in 0..0 |-> base]
  <2>1. one \in [0..0 -> D] /\ one[0] = base /\ 1..0 = {}
    OBVIOUS
  <2>2. Good(0, one)
    BY <2>1
  <2> HIDE DEF Good
  <2> QED
    BY <1>2, <2>2
<1>4. m - 1 \in Nat /\ m - 1 \notin Bad
  <2>1. m - 1 \in Nat /\ ~(m <= m - 1)
    BY <1>2, <1>3
  <2> HIDE DEF Bad
  <2> QED
    BY <1>1, <2>1
<1>5. PICK f : Good(m - 1, f)
  BY <1>4
<1> DEFINE g == [i \in 0..m |-> IF i = m THEN step[f[m - 1]] ELSE f[i]]
<1>6. f[m - 1] \in D /\ step[f[m - 1]] \in D
  BY <1>4, <1>5
<1>7. g \in [0..m -> D] /\ g[0] = base
  BY <1>2, <1>3, <1>5, <1>6
<1>8. ASSUME NEW i \in 1..m PROVE g[i] = step[g[i - 1]]
  <2>1. CASE i = m
    BY <1>2, <1>3, <2>1
  <2>2. CASE i # m
    BY <1>2, <1>3, <1>5, <2>2
  <2> QED
    BY <2>1, <2>2
<1> QED
  BY <1>2, <1>7, <1>8

LEMMA IteratesKeep ==
  ASSUME NEW D, NEW n \in Nat, NEW f, f[0] \in D,
         \A i \in 1..n : f[i - 1] \in D => f[i] \in D
  PROVE  f[n] \in D
<1> DEFINE Bad == {m \in 0..n : f[m] \notin D}
<1> SUFFICES ASSUME Bad # {} PROVE FALSE
  OBVIOUS
<1>1. PICK m \in Bad : \A k \in Bad : m <= k
  <2>1. Bad \in SUBSET Nat
    OBVIOUS
  <2> HIDE DEF Bad
  <2> QED
    BY <2>1, FirstNumber
<1>2. m \in 0..n /\ f[m] \notin D /\ m # 0
  BY <1>1
<1>3. m - 1 \in 0..n /\ m - 1 \notin Bad
  <2>1. m - 1 \in 0..n /\ m - 1 < m
    BY <1>2
  <2> QED
    BY <1>1, <2>1
<1>4. f[m - 1] \in D /\ m \in 1..n
  BY <1>2, <1>3
<1> QED
  BY <1>2, <1>4

LEMMA ComputedIsItself == \A f : Computed(f) = f
  BY DEF Computed

-----------------------------------------------------------------------------
(* Island removal.                                                         *)

(* Island removal only removes.                                            *)
LEMMA KeepOnlyRemoves ==
  ASSUME NEW S, NEW seeds
  PROVE  KeepConnected(S, seeds) \subseteq S \cap Elements
  BY DEF KeepConnected

(* A living seed is never an island.                                       *)
LEMMA KeepHoldsSeeds ==
  ASSUME NEW S, NEW seeds
  PROVE  S \cap Elements \cap seeds \subseteq KeepConnected(S, seeds)
  BY DEF KeepConnected, ClosedAround

(* The living neighbours of what is kept are kept.                         *)
LEMMA KeepIsClosed ==
  ASSUME NEW S, NEW seeds, NEW e \in S \cap Elements,
         NEW t \in KeepConnected(S, seeds), e \in Adjacency[t]
  PROVE  e \in KeepConnected(S, seeds)
<1>1. SUFFICES ASSUME NEW T \in ClosedAround(S, seeds)
               PROVE  e \in T
  BY DEF KeepConnected
<1>2. t \in T
  BY DEF KeepConnected
<1>3. e \in Neighbours(T)
  BY <1>2 DEF Neighbours
<1> QED
  BY <1>3 DEF ClosedAround

(* Removing the islands a second time removes nothing.                     *)
LEMMA KeepIdempotent ==
  ASSUME NEW S, NEW seeds
  PROVE  KeepConnected(KeepConnected(S, seeds), seeds) = KeepConnected(S, seeds)
<1> DEFINE K == KeepConnected(S, seeds)
<1>1. K \subseteq S \cap Elements
  BY KeepOnlyRemoves
<1>2. ASSUME NEW T \in ClosedAround(K, seeds)
      PROVE  T \in ClosedAround(S, seeds)
  <2>1. T \subseteq K
    BY <1>2 DEF ClosedAround
  <2>2. ASSUME NEW e \in S \cap Elements, e \in seeds
        PROVE  e \in T
    <3>1. e \in K
      BY <2>2, KeepHoldsSeeds
    <3> QED
      BY <3>1, <2>2, <1>1, <1>2 DEF ClosedAround
  <2>3. ASSUME NEW e \in S \cap Elements, e \in Neighbours(T)
        PROVE  e \in T
    <3>1. PICK t \in T : e \in Adjacency[t]
      BY <2>3 DEF Neighbours
    <3>2. e \in K
      BY <2>1, <3>1, KeepIsClosed
    <3> QED
      BY <3>2, <2>3, <1>1, <1>2 DEF ClosedAround
  <2> QED
    BY <2>1, <2>2, <2>3, <1>1 DEF ClosedAround
<1>3. K \subseteq KeepConnected(K, seeds)
  <2>1. ASSUME NEW e \in K, NEW T \in ClosedAround(K, seeds)
        PROVE  e \in T
    BY <1>2, <2>1 DEF KeepConnected
  <2> QED
    BY <2>1, <1>1 DEF KeepConnected
<1>4. KeepConnected(K, seeds) \subseteq K
  BY KeepOnlyRemoves
<1> QED
  BY <1>3, <1>4

(* The same holds once the manufacturing constraints have been applied.    *)
LEMMA ShapedHoldsProtected ==
  ASSUME NEW p, NEW design, NEW field,
         \E c : p.protected \subseteq c /\ design = KeepConnected(c, p.anchor)
  PROVE  \E c : p.protected \subseteq c
                /\ Shaped(p, design, field) = KeepConnected(c, p.anchor)
<1>1. CASE Active(p.opts)
  <2> DEFINE m == Manufactured(design, p.protected, field, p.opts)
  <2>1. p.protected \subseteq m
    BY DEF Manufactured
  <2>2. Shaped(p, design, field) = KeepConnected(m, p.anchor)
    BY <1>1 DEF Shaped
  <2> QED
    BY <2>1, <2>2
<1>2. CASE ~Active(p.opts)
  BY <1>2 DEF Shaped
<1> QED
  BY <1>1, <1>2

-----------------------------------------------------------------------------
(* What the manufacturing constraints may do.  Two of them are recursions  *)
(* on masks of the form below; they have a solution, the least one.        *)
MaskRecursion(f, S, More, next, base) ==
  f = [a \in SUBSET S |-> base[a] \cup (IF a \in More THEN f[next[a]] ELSE {})]

LEMMA MaskRecursionExists ==
  ASSUME NEW S, NEW More, NEW next \in [SUBSET S -> SUBSET S],
         NEW base \in [SUBSET S -> SUBSET S]
  PROVE  \E f : MaskRecursion(f, S, More, next, base)
<1> DEFINE Step(g) == [a \in SUBSET S |->
                         base[a] \cup (IF a \in More THEN g[next[a]] ELSE {})]
           Closed == {g \in [SUBSET S -> SUBSET S] :
                        \A a \in SUBSET S : Step(g)[a] \subseteq g[a]}
           f == [a \in SUBSET S |-> {x \in S : \A g \in Closed : x \in g[a]}]
<1>1. /\ f \in [SUBSET S -> SUBSET S]
      /\ Step(f) \in [SUBSET S -> SUBSET S]
  OBVIOUS
<1>2. ASSUME NEW a \in SUBSET S PROVE Step(f)[a] \subseteq f[a]
  <2>1. ASSUME NEW x \in Step(f)[a], NEW g \in Closed PROVE x \in g[a]
    <3>1. CASE x \in base[a]
      BY <3>1
    <3>2. CASE x \notin base[a]
      <4>1. a \in More /\ x \in f[next[a]]
        BY <2>1, <3>2
      <4>2. x \in g[next[a]]
        BY <4>1
      <4>3. x \in Step(g)[a]
        BY <4>1, <4>2
      <4> QED
        BY <4>3
    <3> QED
      BY <3>1, <3>2
  <2>2. Step(f)[a] \subseteq S
    BY <1>1
  <2> QED
    BY <2>1, <2>2
<1>3. Step(f) \in Closed
  <2>1. ASSUME NEW a \in SUBSET S PROVE Step(Step(f))[a] \subseteq Step(f)[a]
    <3>1. next[a] \in SUBSET S
      OBVIOUS
    <3>2. Step(f)[next[a]] \subseteq f[next[a]]
      BY <1>2, <3>1
    <3> QED
      BY <3>1, <3>2
  <2> QED
    BY <1>1, <2>1
<1>4. ASSUME NEW a \in SUBSET S PROVE f[a] \subseteq Step(f)[a]
  BY <1>3
<1>5. \A a \in SUBSET S : f[a] = Step(f)[a]
  BY <1>2, <1>4
<1>6. f = Step(f)
  <2>1. f = [a \in SUBSET S |-> f[a]] /\ Step(f) = [a \in SUBSET S |-> Step(f)[a]]
    OBVIOUS
  <2> QED
    BY <1>5, <2>1
<1> QED
  BY <1>6 DEF MaskRecursion

(* A finite set has a first element of every total, transitive order.      *)
LEMMA FirstElement ==
  ASSUME NEW S, IsFiniteSet(S), S # {}, NEW R,
         \A x, y \in S : x = y \/ <<x, y>> \in R \/ <<y, x>> \in R,
         \A x, y, z \in S : <<x, y>> \in R /\ <<y, z>> \in R => <<x, z>> \in R
  PROVE  \E x \in S : \A y \in S \ {x} : <<x, y>> \in R
<1> DEFINE HasFirst(T) == \E x \in T : \A y \in T \ {x} : <<x, y>> \in R
           F == {T \in SUBSET S : T # {} /\ ~HasFirst(T)}
<1>1. F \in SUBSET (SUBSET S)
  OBVIOUS
<1>2. ASSUME F # {} PROVE FALSE
  <2>1. PICK T \in F : \A U \in F : U \subseteq T => U = T
    <3> HIDE DEF F
    <3> QED
      BY <1>1, <1>2, LeastSubset
  <2>2. PICK e \in T : TRUE
    BY <2>1
  <2> DEFINE U == T \ {e}
  <2>3. U = {} \/ HasFirst(U)
    <3>1. U \subseteq T /\ U # T /\ U \in SUBSET S
      BY <2>1, <2>2
    <3>2. U \notin F
      <4> HIDE DEF F
      <4> QED
        BY <2>1, <3>1
    <3> QED
      BY <3>1, <3>2
  <2>4. T = U \cup {e} /\ T \subseteq S
    BY <2>1, <2>2
  <2>5. CASE U = {}
    BY <2>4, <2>5, <2>1
  <2>6. CASE U # {}
    <3>1. PICK x \in U : \A y \in U \ {x} : <<x, y>> \in R
      BY <2>3, <2>6
    <3>2. <<e, x>> \in R \/ <<x, e>> \in R
      BY <2>4, <3>1
    <3>3. CASE <<x, e>> \in R
      BY <2>1, <2>4, <3>1, <3>3
    <3>4. CASE <<e, x>> \in R
      <4>1. \A y \in U : <<e, y>> \in R
        BY <2>4, <3>1, <3>4
      <4> QED
        BY <2>1, <2>4, <4>1
    <3> QED
      BY <3>2, <3>3, <3>4
  <2> QED
    BY <2>5, <2>6
<1>3. S \notin F
  BY <1>2
<1> QED
  BY <1>3

(* A pass that finds anything too deep carves at least one such element,   *)
(* and nothing else.                                                       *)
CarveOrder(sens) == {q \in Elements \X Elements :
  sens[q[1]] < sens[q[2]] \/ (sens[q[1]] = sens[q[2]] /\ q[1] < q[2])}
FirstCarved(todo, sens) ==
  CHOOSE x \in todo : \A y \in todo \ {x} :
    sens[x] < sens[y] \/ (sens[x] = sens[y] /\ x < y)

LEMMA FirstIsCarved ==
  ASSUME NEW sens \in [Elements -> Int], NEW todo \in SUBSET Elements, todo # {}
  PROVE  FirstCarved(todo, sens) \in todo
<1> DEFINE R == CarveOrder(sens)
<1>1. IsFiniteSet(todo)
  BY MeshAssumption, FS_Subset
<1>2. \A x \in Elements : x \in Int /\ sens[x] \in Int
  BY MeshAssumption
<1>3. \A x, y \in todo : x = y \/ <<x, y>> \in R \/ <<y, x>> \in R
  BY <1>2 DEF CarveOrder
<1>4. \A x, y, z \in todo : <<x, y>> \in R /\ <<y, z>> \in R => <<x, z>> \in R
  BY <1>2 DEF CarveOrder
<1>5. PICK x \in todo : \A y \in todo \ {x} : <<x, y>> \in R
  <2> HIDE DEF R
  <2> QED
    BY <1>1, <1>3, <1>4, FirstElement
<1>6. \A y \in todo \ {x} : sens[x] < sens[y] \/ (sens[x] = sens[y] /\ x < y)
  BY <1>5 DEF CarveOrder
<1> QED
  BY <1>6 DEF FirstCarved

LEMMA CarvesSomething ==
  ASSUME NEW sens \in [Elements -> Int], NEW over \in SUBSET Elements, over # {}
  PROVE  /\ \E e \in over : e \in Carved(over, sens)
         /\ Carved(over, sens) \subseteq over
<1> DEFINE Is(c) == c = [todo \in SUBSET over |->
                           IF todo = {} THEN {}
                           ELSE LET e == FirstCarved(todo, sens)
                                IN  {e} \cup c[todo \ Neighbours({e})]]
           base == [todo \in SUBSET over |->
                      IF todo = {} THEN {} ELSE {FirstCarved(todo, sens)}]
           next == [todo \in SUBSET over |->
                      todo \ Neighbours({FirstCarved(todo, sens)})]
           More == (SUBSET over) \ {{}}
<1>1. \E c : Is(c)
  <2>1. \A todo \in SUBSET over : todo # {} => FirstCarved(todo, sens) \in todo
    BY FirstIsCarved
  <2>2. base \in [SUBSET over -> SUBSET over]
    BY <2>1
  <2>3. next \in [SUBSET over -> SUBSET over]
    OBVIOUS
  <2>4. PICK c : MaskRecursion(c, over, More, next, base)
    <3> HIDE DEF base, next, More
    <3> QED
      BY <2>2, <2>3, MaskRecursionExists
  <2> DEFINE Was(a) == base[a] \cup (IF a \in More THEN c[next[a]] ELSE {})
             Now(a) == IF a = {} THEN {}
                       ELSE {FirstCarved(a, sens)}
                            \cup c[a \ Neighbours({FirstCarved(a, sens)})]
  <2>5. ASSUME NEW a \in SUBSET over PROVE Was(a) = Now(a)
    <3>1. CASE a = {}
      BY <3>1
    <3>2. CASE a # {}
      <4>1. a \in More
        BY <3>2
      <4>2. /\ base[a] = {FirstCarved(a, sens)}
            /\ next[a] = a \ Neighbours({FirstCarved(a, sens)})
        BY <3>2
      <4> QED
        BY <3>2, <4>1, <4>2
    <3> QED
      BY <3>1, <3>2
  <2>6. c = [a \in SUBSET over |-> Was(a)]
    BY <2>4 DEF MaskRecursion
  <2>7. c = [a \in SUBSET over |-> Now(a)]
    <3> HIDE DEF Was, Now
    <3> QED
      BY <2>5, <2>6
  <2>8. Is(c)
    BY <2>7
  <2> QED
    BY <2>8
<1> DEFINE carve == CHOOSE c : Is(c)
<1>2. Is(carve)
  <2> HIDE DEF Is
  <2> QED
    BY <1>1
<1>3. Carved(over, sens) = carve[over]
  BY DEF Carved, FirstCarved
<1> HIDE DEF carve
<1>4. FirstCarved(over, sens) \in carve[over]
  BY <1>2
<1> DEFINE F == {a \in SUBSET over : ~(carve[a] \subseteq a)}
<1>5. ASSUME F # {} PROVE FALSE
  <2>1. F \in SUBSET (SUBSET over) /\ IsFiniteSet(over)
    BY MeshAssumption, FS_Subset
  <2>2. PICK a \in F : \A b \in F : b \subseteq a => b = a
    <3> HIDE DEF F
    <3> QED
      BY <1>5, <2>1, LeastSubset
  <2>3. a \in SUBSET over /\ ~(carve[a] \subseteq a)
    BY <2>2
  <2>4. a # {} /\ a \in SUBSET Elements
    BY <1>2, <2>3
  <2> DEFINE x == FirstCarved(a, sens)
             b == a \ Neighbours({x})
  <2>5. x \in a
    BY <2>4, FirstIsCarved
  <2> HIDE DEF x
  <2>6. carve[a] = {x} \cup carve[b]
    <3> HIDE DEF b, F
    <3> QED
      BY <1>2, <2>3, <2>4 DEF b, x
  <2>7. x \in Neighbours({x})
    BY <2>4, <2>5, MeshAssumption DEF Neighbours, Adjacency
  <2>8. b \subseteq a /\ b # a /\ b \in SUBSET over
    BY <2>3, <2>5, <2>7
  <2>9. b \notin F
    <3> HIDE DEF F, b
    <3> QED
      BY <2>2, <2>8
  <2>10. carve[b] \subseteq b
    BY <2>8, <2>9
  <2> QED
    BY <2>3, <2>5, <2>6, <2>8, <2>10
<1>6. carve[over] \subseteq over
  BY <1>5
<1> QED
  BY <1>3, <1>4, <1>6, FirstIsCarved

(* Maximum member size only carves what is not protected, and terminates:  *)
(* nothing in its result is too deep.                                      *)
LEMMA MaxMemberThins ==
  ASSUME NEW sens \in [Elements -> Int], NEW alive \in SUBSET Elements,
         NEW layers, NEW prot
  PROVE  LET M == MaxMember(alive, layers, prot, sens)
         IN  /\ M \subseteq alive /\ alive \cap prot \subseteq M
             /\ OverLimit(M, layers, prot) = {}
<1> DEFINE over(a) == OverLimit(a, layers, prot)
           Is(t) == t = [a \in SUBSET alive |->
                           IF over(a) = {} THEN a ELSE t[a \ Carved(over(a), sens)]]
           base == [a \in SUBSET alive |-> IF over(a) = {} THEN a ELSE {}]
           next == [a \in SUBSET alive |-> a \ Carved(over(a), sens)]
           More == {a \in SUBSET alive : over(a) # {}}
<1>1. \E t : Is(t)
  <2>1. base \in [SUBSET alive -> SUBSET alive] /\ next \in [SUBSET alive -> SUBSET alive]
    OBVIOUS
  <2>2. PICK t : MaskRecursion(t, alive, More, next, base)
    <3> HIDE DEF base, next, More
    <3> QED
      BY <2>1, MaskRecursionExists
  <2> DEFINE Was(a) == base[a] \cup (IF a \in More THEN t[next[a]] ELSE {})
             Now(a) == IF over(a) = {} THEN a ELSE t[a \ Carved(over(a), sens)]
  <2>3. ASSUME NEW a \in SUBSET alive PROVE Was(a) = Now(a)
    <3> HIDE DEF over
    <3>1. CASE over(a) = {}
      <4>1. a \notin More /\ base[a] = a
        BY <3>1
      <4> QED
        BY <3>1, <4>1
    <3>2. CASE over(a) # {}
      <4>1. a \in More /\ base[a] = {} /\ next[a] = a \ Carved(over(a), sens)
        BY <3>2
      <4> QED
        BY <3>2, <4>1
    <3> QED
      BY <3>1, <3>2
  <2>4. t = [a \in SUBSET alive |-> Was(a)]
    BY <2>2 DEF MaskRecursion
  <2>5. t = [a \in SUBSET alive |-> Now(a)]
    <3> HIDE DEF Was, Now
    <3> QED
      BY <2>3, <2>4
  <2>6. Is(t)
    BY <2>5
  <2> QED
    BY <2>6
<1> DEFINE thin == CHOOSE t : Is(t)
<1>2. Is(thin)
  <2> HIDE DEF Is
  <2> QED
    BY <1>1
<1>3. MaxMember(alive, layers, prot, sens) = thin[alive]
  BY DEF MaxMember
<1>4. ASSUME NEW a \in SUBSET alive
      PROVE  thin[a] = IF over(a) = {} THEN a ELSE thin[a \ Carved(over(a), sens)]
  <2> HIDE DEF thin, over
  <2> QED
    BY <1>2
<1> DEFINE Thinned(m, a) == m \subseteq a /\ a \cap prot \subseteq m /\ over(m) = {}
           F == {a \in SUBSET alive : ~Thinned(thin[a], a)}
<1> HIDE DEF thin
<1>5. F \in SUBSET (SUBSET alive) /\ IsFiniteSet(alive)
  BY MeshAssumption, FS_Subset
<1>6. ASSUME F # {} PROVE FALSE
  <2>1. PICK a \in F : \A b \in F : b \subseteq a => b = a
    <3> HIDE DEF F
    <3> QED
      BY <1>5, <1>6, LeastSubset
  <2>2. a \in SUBSET alive /\ ~Thinned(thin[a], a)
    BY <2>1
  <2>3. over(a) # {}
    <3> HIDE DEF over
    <3> QED
      BY <1>4, <2>2
  <2> DEFINE b == a \ Carved(over(a), sens)
  <2>4. thin[a] = thin[b]
    BY <1>4, <2>2, <2>3
  <2>5. over(a) \subseteq a \ prot
    BY DEF OverLimit
  <2>6. /\ \E e \in over(a) : e \in Carved(over(a), sens)
        /\ Carved(over(a), sens) \subseteq over(a)
    <3>1. over(a) \in SUBSET Elements
      BY <2>2, <2>5
    <3> QED
      BY <2>3, <3>1, CarvesSomething
  <2>7. b \subseteq a /\ b # a /\ b \in SUBSET alive /\ a \cap prot \subseteq b
    BY <2>2, <2>5, <2>6
  <2>8. b \notin F
    <3> HIDE DEF F, b
    <3> QED
      BY <2>1, <2>7
  <2>9. Thinned(thin[b], b)
    BY <2>7, <2>8
  <2> HIDE DEF over, b
  <2> QED
    BY <2>2, <2>4, <2>7, <2>9
<1>7. alive \notin F
  BY <1>6
<1> QED
  BY <1>3, <1>7

(* Of the solid runs of a column there is a longest, lowest one.           *)
RunOrder == {q \in (Nat \X Nat) \X (Nat \X Nat) :
  \/ q[2][2] - q[2][1] < q[1][2] - q[1][1]
  \/ q[2][2] - q[2][1] = q[1][2] - q[1][1] /\ q[2][1] > q[1][1]}

LEMMA LargestRunExists ==
  ASSUME NEW alive, NEW col \in Seq(Elements), Runs(col, alive) # {}
  PROVE  LargestRun(col, alive) \in Runs(col, alive)
<1> DEFINE S == Runs(col, alive)
           Better(r, q) == \/ q[2] - q[1] < r[2] - r[1]
                           \/ q[2] - q[1] = r[2] - r[1] /\ q[1] >= r[1]
<1>1. DOMAIN col = 1..Len(col) /\ Len(col) \in Nat
  BY LenProperties
<1>2. S \subseteq (DOMAIN col) \X (DOMAIN col) /\ S \subseteq Nat \X Nat /\ S # {}
  BY <1>1 DEF Runs
<1>3. IsFiniteSet(S)
  <2>1. IsFiniteSet(DOMAIN col)
    BY <1>1, FS_Interval
  <2>2. IsFiniteSet((DOMAIN col) \X (DOMAIN col))
    BY <2>1, FS_Product
  <2> QED
    BY <1>2, <2>2, FS_Subset
<1>4. ASSUME NEW x \in Nat \X Nat, NEW y \in Nat \X Nat
      PROVE  /\ x[1] \in Nat /\ x[2] \in Nat /\ (x = y <=> x[1] = y[1] /\ x[2] = y[2])
             /\ <<x, y>> \in RunOrder
                  <=> \/ y[2] - y[1] < x[2] - x[1]
                      \/ y[2] - y[1] = x[2] - x[1] /\ y[1] > x[1]
  BY DEF RunOrder
<1>5. /\ \A x, y \in S : x = y \/ <<x, y>> \in RunOrder \/ <<y, x>> \in RunOrder
      /\ \A x, y, z \in S :
           <<x, y>> \in RunOrder /\ <<y, z>> \in RunOrder => <<x, z>> \in RunOrder
  <2> HIDE DEF S
  <2>1. ASSUME NEW x \in S, NEW y \in S
        PROVE  x = y \/ <<x, y>> \in RunOrder \/ <<y, x>> \in RunOrder
    <3>1. x \in Nat \X Nat /\ y \in Nat \X Nat
      BY <1>2
    <3> QED
      BY <1>4, <3>1
  <2>2. ASSUME NEW x \in S, NEW y \in S, NEW z \in S,
               <<x, y>> \in RunOrder, <<y, z>> \in RunOrder
        PROVE  <<x, z>> \in RunOrder
    <3>1. x \in Nat \X Nat /\ y \in Nat \X Nat /\ z \in Nat \X Nat
      BY <1>2
    <3> QED
      BY <1>4, <2>2, <3>1
  <2> QED
    BY <2>1, <2>2
<1>6. PICK r \in S : \A q \in S \ {r} : <<r, q>> \in RunOrder
  <2> HIDE DEF S
  <2> QED
    BY <1>2, <1>3, <1>5, FirstElement
<1>7. \A q \in S : Better(r, q)
  <2>1. ASSUME NEW q \in S PROVE Better(r, q)
    <3>1. q \in Nat \X Nat /\ r \in Nat \X Nat
      BY <1>2, <1>6
    <3>2. CASE q = r
      BY <3>1, <3>2
    <3>3. CASE q # r
      <4>1. <<r, q>> \in RunOrder
        BY <1>6, <3>3
      <4> QED
        BY <3>1, <4>1 DEF RunOrder
    <3> QED
      BY <3>2, <3>3
  <2> QED
    BY <2>1
<1>8. \E s \in S : \A q \in S : Better(s, q)
  BY <1>6, <1>7
<1> QED
  BY <1>8 DEF LargestRun

LEMMA DrawOnlyRemoves ==
  ASSUME NEW alive, NEW twoSided
  PROVE  Draw(alive, twoSided) \subseteq alive
<1>1. ASSUME NEW col \in Columns PROVE Drawn(col, alive, twoSided) \subseteq alive
  <2>1. col \in Seq(Elements) /\ DOMAIN col = 1..Len(col) /\ Len(col) \in Nat
    BY GeometryAssumption, LenProperties
  <2>2. CASE twoSided
    <3>1. CASE Runs(col, alive) = {}
      BY <2>2, <3>1 DEF Drawn
    <3>2. CASE Runs(col, alive) # {}
      <4>1. LargestRun(col, alive) \in Runs(col, alive)
        BY <2>1, <3>2, LargestRunExists
      <4>2. PICK r : r = LargestRun(col, alive)
        OBVIOUS
      <4>3. \A i \in r[1]..r[2] : col[i] \in alive
        BY <4>1, <4>2 DEF Runs
      <4>4. Drawn(col, alive, twoSided) = {col[i] : i \in r[1]..r[2]}
        BY <2>2, <3>2, <4>2 DEF Drawn
      <4> QED
        BY <4>3, <4>4
    <3> QED
      BY <3>1, <3>2
  <2>3. CASE ~twoSided
    <3>1. Drawn(col, alive, twoSided)
            = {col[i] : i \in {j \in DOMAIN col : \A h \in 1..j : col[h] \in alive}}
      BY <2>3 DEF Drawn
    <3>2. \A j \in DOMAIN col : j \in 1..j
      BY <2>1
    <3> QED
      BY <3>1, <3>2
  <2> QED
    BY <2>2, <2>3
<1> QED
  BY <1>1 DEF Draw

(* Without a mirror and an extrusion, the constraints only take material   *)
(* away, but for the protected elements.                                   *)
LEMMA ManufacturedOnlyRemoves ==
  ASSUME NEW sens \in [Elements -> Int], NEW alive \in SUBSET Elements,
         NEW prot \in SUBSET Elements, NEW opts, ~opts.mirror, ~opts.extrude
  PROVE  Manufactured(alive, prot, sens, opts) \subseteq alive \cup prot
<1> DEFINE sized == Sized(alive, prot, sens, opts)
           drawn == IF opts.draw = "off" THEN sized
                    ELSE Draw(sized, opts.draw = "two-sided")
<1>1. sized \subseteq alive \cup prot
  <2> DEFINE opened == IF opts.minLayers > 0 THEN Open(alive, opts.minLayers, prot)
                       ELSE alive
  <2>1. opened \subseteq alive \cup prot
    <3>1. Open(alive, opts.minLayers, prot) \subseteq alive \cup prot
      BY DEF Open
    <3> QED
      BY <3>1
  <2>2. opened \in SUBSET Elements
    BY <2>1
  <2> HIDE DEF opened
  <2>3. MaxMember(opened, opts.maxLayers, prot, sens) \subseteq opened
    BY <2>2, MaxMemberThins
  <2> USE DEF opened
  <2> QED
    BY <2>1, <2>3 DEF Sized
<1> HIDE DEF sized
<1>2. drawn \subseteq sized
  BY DrawOnlyRemoves
<1> HIDE DEF drawn
<1>3. SelfSupport(drawn, prot) \subseteq drawn
  BY DEF SelfSupport
<1>4. Directed(sized, prot, opts) = IF opts.overhang THEN SelfSupport(drawn, prot)
                                                     ELSE drawn
  BY DEF Directed, drawn
<1>5. Manufactured(alive, prot, sens, opts) = Directed(sized, prot, opts) \cup prot
  BY DEF Manufactured, sized
<1> QED
  BY <1>1, <1>2, <1>3, <1>4, <1>5

LEMMA ShapedOnlyRemoves ==
  ASSUME NEW p, p.protected \in SUBSET Elements, ~p.opts.mirror, ~p.opts.extrude,
         NEW field \in [Elements -> Int], NEW design \in SUBSET Elements
  PROVE  HeldVoid(p, Shaped(p, design, field)) \subseteq design \cup p.protected
<1>1. Manufactured(design, p.protected, field, p.opts) \subseteq design \cup p.protected
  BY ManufacturedOnlyRemoves
<1> QED
  BY <1>1, KeepOnlyRemoves DEF Shaped, HeldVoid

-----------------------------------------------------------------------------
(* What a configuration must fit, and what is claimed of a design made     *)
(* under it once the held region is cleared.                               *)
PlanFits(p) ==
  /\ p.protected \subseteq Elements
  /\ p.protected \subseteq p.anchor
  /\ p.protected \cap p.candidate = {}
  /\ p.blocked \subseteq p.candidate

Sound(p, S) ==
  /\ S \subseteq Elements
  /\ p.protected \subseteq S
  /\ S \cap p.blocked = {}
  /\ p.blocked = {} => S = KeepConnected(S, p.anchor)

LEMMA HeldIsSound ==
  ASSUME NEW p, PlanFits(p), NEW design,
         \E c : p.protected \subseteq c /\ design = KeepConnected(c, p.anchor)
  PROVE  Sound(p, HeldVoid(p, design))
<1>1. PICK c : p.protected \subseteq c /\ design = KeepConnected(c, p.anchor)
  OBVIOUS
<1>2. /\ p.protected \subseteq Elements
      /\ p.protected \subseteq p.anchor
      /\ p.protected \cap p.blocked = {}
  BY DEF PlanFits
<1>3. p.protected \subseteq design
  BY <1>1, <1>2, KeepHoldsSeeds
<1>4. design \subseteq Elements
  BY <1>1, KeepOnlyRemoves
<1>5. p.blocked = {} => HeldVoid(p, design) = KeepConnected(HeldVoid(p, design), p.anchor)
  <2>1. KeepConnected(design, p.anchor) = design
    BY <1>1, KeepIdempotent
  <2>2. p.blocked = {} => HeldVoid(p, design) = design
    BY DEF HeldVoid
  <2> QED
    BY <2>1, <2>2
<1> QED
  BY <1>2, <1>3, <1>4, <1>5 DEF Sound, HeldVoid
=============================================================================
