--------------------------- MODULE Workbench_proofs ---------------------------
(***************************************************************************)
(* Proofs about the bench, for any decks, files, regions and settings that *)
(* the assumptions of Workbench describe, and any number of directories    *)
(* and clicks.                                                             *)
(***************************************************************************)
EXTENDS Workbench, FiniteSetTheorems, SequenceTheorems, TLAPS

-----------------------------------------------------------------------------
(* Sets of numbers.                                                        *)

LEMMA FirstNumber ==
  ASSUME NEW S \in SUBSET Nat, S # {}
  PROVE  \E n \in S : \A m \in S : n <= m
<1> DEFINE Less == {p \in Nat \X Nat : p[1] < p[2]}
<1>1. IsWellFoundedOn(Less, Nat)
  BY NatLessThanWellFounded DEF OpToRel
<1>2. PICK n \in S : \A m \in S : <<m, n>> \notin Less
  <2> HIDE DEF Less
  <2> QED
    BY <1>1, WFMin
<1>3. ASSUME NEW m \in S PROVE n <= m
  <2>1. <<m, n>> \notin Less /\ m \in Nat /\ n \in Nat
    BY <1>2
  <2>2. m < n => <<m, n>> \in Less
    BY <2>1
  <2> QED
    BY <2>1, <2>2
<1> QED
  BY <1>3

(* Among subsets of a finite set there is a least: one that properly       *)
(* contains no other.                                                      *)
LEMMA LeastOfSubsets ==
  ASSUME NEW S, IsFiniteSet(S), NEW F \in SUBSET (SUBSET S), F # {}
  PROVE  \E T \in F : \A U \in F : U \subseteq T => U = T
<1> DEFINE Less == StrictSubsetOrdering(S)
<1>1. IsWellFoundedOn(Less, SUBSET S)
  BY FS_StrictSubsetOrderingWellFounded, FS_FiniteSubsetsOfFinite
<1>2. PICK T \in F : \A U \in F : <<U, T>> \notin Less
  <2> HIDE DEF Less
  <2> QED
    BY <1>1, WFMin
<1>3. ASSUME NEW U \in F, U \subseteq T PROVE U = T
  BY <1>2, <1>3 DEF StrictSubsetOrdering
<1> QED
  BY <1>3

LEMMA Image ==
  ASSUME NEW S, IsFiniteSet(S), NEW f
  PROVE  IsFiniteSet({f[x] : x \in S})
<1> DEFINE g == [x \in S |-> f[x]]
           T == {f[x] : x \in S}
<1>1. g \in Surjection(S, T)
  BY DEF Surjection
<1> QED
  BY <1>1, FS_Surjection

LEMMA Extremes ==
  ASSUME NEW S, \A x \in S : x \in Int, IsFiniteSet(S), S # {}
  PROVE  /\ Max(S) \in S /\ \A y \in S : Max(S) >= y
         /\ Min(S) \in S /\ \A y \in S : Min(S) <= y
<1> DEFINE HasMax(T) == \E x \in T : \A y \in T : x >= y
           HasMin(T) == \E x \in T : \A y \in T : x <= y
           F == {T \in SUBSET S : T # {} /\ ~(HasMax(T) /\ HasMin(T))}
<1>1. F \in SUBSET (SUBSET S)
  OBVIOUS
<1>2. ASSUME F # {} PROVE FALSE
  <2>1. PICK T \in F : \A U \in F : U \subseteq T => U = T
    <3> HIDE DEF F
    <3> QED
      BY <1>1, <1>2, LeastOfSubsets
  <2>2. PICK e \in T : e \in Int
    BY <2>1
  <2> DEFINE U == T \ {e}
  <2>3. U = {} \/ (HasMax(U) /\ HasMin(U))
    <3>1. U \notin F /\ U \in SUBSET S
      BY <2>1, <2>2
    <3> QED
      BY <3>1
  <2>4. T = U \cup {e} /\ U \in SUBSET Int
    BY <2>1, <2>2
  <2>5. HasMax(T)
    <3>1. CASE U = {}
      BY <2>2, <2>4, <3>1
    <3>2. CASE U # {}
      <4>1. PICK x \in U : x \in Int /\ \A y \in U : x >= y
        BY <2>3, <2>4, <3>2
      <4> DEFINE m == IF e >= x THEN e ELSE x
      <4>2. m \in T /\ m \in Int /\ m >= e /\ m >= x
        BY <2>2, <2>4, <4>1
      <4> HIDE DEF m
      <4>3. ASSUME NEW y \in T PROVE m >= y
        <5>1. y = e \/ (y \in U /\ y \in Int /\ x >= y)
          BY <2>4, <4>1
        <5> QED
          BY <4>1, <4>2, <5>1
      <4> QED
        BY <4>2, <4>3
    <3> QED
      BY <3>1, <3>2
  <2>6. HasMin(T)
    <3>1. CASE U = {}
      BY <2>2, <2>4, <3>1
    <3>2. CASE U # {}
      <4>1. PICK x \in U : x \in Int /\ \A y \in U : x <= y
        BY <2>3, <2>4, <3>2
      <4> DEFINE m == IF e <= x THEN e ELSE x
      <4>2. m \in T /\ m \in Int /\ m <= e /\ m <= x
        BY <2>2, <2>4, <4>1
      <4> HIDE DEF m
      <4>3. ASSUME NEW y \in T PROVE m <= y
        <5>1. y = e \/ (y \in U /\ y \in Int /\ x <= y)
          BY <2>4, <4>1
        <5> QED
          BY <4>1, <4>2, <5>1
      <4> QED
        BY <4>2, <4>3
    <3> QED
      BY <3>1, <3>2
  <2> QED
    BY <2>1, <2>5, <2>6
<1>3. HasMax(S) /\ HasMin(S)
  BY <1>2
<1> QED
  BY <1>3 DEF Max, Min

-----------------------------------------------------------------------------
(* The tables of the page.                                                 *)

(* A list of regions is a sequence, and the rows of its main table are.    *)
LEMMA RegionsAreSeq ==
  ASSUME NEW boxes, AreRegions(boxes)
  PROVE  /\ Len(boxes) \in Nat /\ DOMAIN boxes = 1..Len(boxes)
         /\ boxes = [i \in 1..Len(boxes) |-> boxes[i]]
         /\ \A i \in 1..Len(boxes) : IsRegion(boxes[i])
<1>1. PICK S : boxes \in Seq(S)
  BY DEF AreRegions
<1> QED
  BY <1>1 DEF AreRegions

(* Every row of a list of regions is complete, and becomes a region.       *)
LEMMA EveryRowIsKept ==
  ASSUME NEW boxes, AreRegions(boxes)
  PROVE  GrowthBoxesFromRecords(RecordsFromGrowthBoxes(boxes))
           = [i \in 1..Len(boxes) |-> BoxOfRow(RowOfBox(boxes[i]))]
<1> DEFINE rows == RecordsFromGrowthBoxes(boxes)
           n    == Len(boxes)
           IsKept(f) == f = [i \in 0..Len(rows) |->
                               IF i = 0 THEN <<>>
                               ELSE IF IsComplete(rows[i]) THEN Append(f[i - 1], BoxOfRow(rows[i]))
                               ELSE f[i - 1]]
           g == [i \in 0..n |-> [j \in 1..i |-> BoxOfRow(rows[j])]]
<1>1. n \in Nat /\ DOMAIN boxes = 1..n /\ \A i \in 1..n : IsRegion(boxes[i])
  BY RegionsAreSeq
<1>2. rows = [i \in 1..n |-> RowOfBox(boxes[i])]
  BY <1>1 DEF RecordsFromGrowthBoxes
<1>3. Len(rows) = n
  <2>1. rows \in Seq({RowOfBox(boxes[i]) : i \in 1..n})
    BY <1>1, <1>2
  <2> QED
    BY <1>1, <1>2, <2>1
<1>4. \A i \in 1..n : IsComplete(rows[i])
  BY <1>1, <1>2 DEF IsRegion
<1>5. g[0] = <<>>
  BY <1>1
<1>6. ASSUME NEW i \in 1..n PROVE g[i] = Append(g[i - 1], BoxOfRow(rows[i]))
  <2>1. PICK k \in Nat : k = i - 1 /\ i = k + 1 /\ k \in 0..n
    BY <1>1
  <2>2. g[k] = [j \in 1..k |-> BoxOfRow(rows[j])]
    BY <2>1
  <2>3. g[i] = [j \in 1..k + 1 |-> BoxOfRow(rows[j])]
    BY <2>1
  <2> DEFINE V == {BoxOfRow(rows[j]) : j \in 1..k + 1}
  <2>4. g[k] \in Seq(V) /\ Len(g[k]) = k
    BY <2>1, <2>2
  <2> QED
    BY <2>1, <2>2, <2>3, <2>4
<1>7. IsKept(g)
  BY <1>1, <1>3, <1>4, <1>5, <1>6
<1>8. ASSUME NEW f, IsKept(f) PROVE f = g
  <2> HIDE DEF g, rows
  <2>1. f[0] = <<>>
    BY <1>1, <1>3, <1>8
  <2>2. ASSUME NEW k \in 1..n PROVE f[k] = Append(f[k - 1], BoxOfRow(rows[k]))
    <3>1. k \in 0..Len(rows) /\ k # 0 /\ IsComplete(rows[k])
      BY <1>1, <1>3, <1>4
    <3>2. f[k] = IF k = 0 THEN <<>>
                 ELSE IF IsComplete(rows[k]) THEN Append(f[k - 1], BoxOfRow(rows[k]))
                 ELSE f[k - 1]
      BY <1>8, <3>1, Zenon
    <3> QED
      BY <3>1, <3>2
  <2>3. ASSUME NEW i \in 0..n, f[i] # g[i] PROVE FALSE
    <3> DEFINE Bad == {k \in 0..n : f[k] # g[k]}
    <3>1. Bad \in SUBSET Nat /\ Bad # {}
      BY <1>1, <2>3
    <3>2. PICK k \in Bad : \A m \in Bad : k <= m
      <4> HIDE DEF Bad
      <4> QED
        BY <3>1, FirstNumber
    <3>3. k # 0
      BY <1>5, <2>1, <3>2
    <3>4. k \in 1..n /\ k - 1 \in 0..n /\ f[k - 1] = g[k - 1]
      BY <1>1, <3>2, <3>3
    <3> QED
      BY <1>6, <2>2, <3>2, <3>4
  <2>4. f = [i \in 0..n |-> f[i]]
    BY <1>3, <1>8
  <2> QED
    BY <2>3, <2>4 DEF g
<1>9. GrowthBoxesFromRecords(rows) = (CHOOSE f : IsKept(f))[Len(rows)]
  BY Zenon DEF GrowthBoxesFromRecords
<1>10. (CHOOSE f : IsKept(f)) = g
  <2> HIDE DEF IsKept, g
  <2> QED
    BY <1>7, <1>8
<1>11. g[n] = [i \in 1..n |-> BoxOfRow(RowOfBox(boxes[i]))]
  BY <1>1, <1>2
<1> HIDE DEF g, rows, IsKept
<1> QED
  BY <1>3, <1>9, <1>10, <1>11 DEF rows

Plain(b) == BoxOfRow(RowOfBox(b))
FramedAs(b, x) == [b EXCEPT !.frame = x]
Spanning(b, xs) == [b EXCEPT !.points = xs]

(* A row of the main table says neither frame nor points.                  *)
LEMMA PlainBox ==
  ASSUME NEW b
  PROVE  /\ Plain(b).name = b.name /\ Plain(b).shape = b.shape
         /\ Plain(b) = FramedAs(Plain(b), 0)
         /\ \A x : /\ FramedAs(Plain(b), x).name = b.name /\ FramedAs(Plain(b), x).shape = b.shape
                  /\ FramedAs(Plain(b), x) = Spanning(FramedAs(Plain(b), x), {})
<1>0. PICK p : p = BoxOfRow(RowOfBox(b))
  OBVIOUS
<1>1. PICK row : row = RowOfBox(b)
  OBVIOUS
<1>2. row.name = b.name /\ row.shape = b.shape
  BY <1>1 DEF RowOfBox
<1>3. p = [name |-> p.name, shape |-> p.shape, forbid |-> p.forbid, carve |-> p.carve,
           lo |-> p.lo, hi |-> p.hi, frame |-> 0, points |-> {}, ref |-> p.ref,
           parts |-> p.parts, clearance |-> p.clearance]
      /\ p.name = row.name /\ p.shape = row.shape
  BY <1>0, <1>1 DEF BoxOfRow
<1>4. p = [p EXCEPT !.frame = 0]
  BY <1>3
<1>5. ASSUME NEW x, NEW q, q = [p EXCEPT !.frame = x]
      PROVE  /\ q.name = p.name /\ q.shape = p.shape
             /\ q = [q EXCEPT !.points = {}]
  <2>1. q = [name |-> p.name, shape |-> p.shape, forbid |-> p.forbid, carve |-> p.carve,
             lo |-> p.lo, hi |-> p.hi, frame |-> x, points |-> {}, ref |-> p.ref,
             parts |-> p.parts, clearance |-> p.clearance]
    BY <1>3, <1>5
  <2> QED
    BY <2>1
<1> QED
  BY <1>0, <1>2, <1>3, <1>4, <1>5 DEF FramedAs, Plain, Spanning

(* The tables that show a list of regions named apart say that list.       *)
LEMMA TablesShowRegions ==
  ASSUME NEW boxes, AreRegions(boxes)
  PROVE  BoxesOf(TablesOf(boxes)) = boxes
<1> DEFINE n      == Len(boxes)
           plain  == [i \in 1..n |-> Plain(boxes[i])]
           frames == RecordsFromFrames(boxes)
           points == RecordsFromPoints(boxes)
           framed == ApplyFrameRecords(plain, frames)
<1>1. n \in Nat /\ DOMAIN boxes = 1..n /\ boxes = [i \in 1..n |-> boxes[i]]
      /\ \A i \in 1..n : IsRegion(boxes[i])
  BY RegionsAreSeq
<1>2. \A i, j \in 1..n : boxes[i].name = boxes[j].name => i = j
  BY <1>1 DEF AreRegions
<1>3. BoxesOf(TablesOf(boxes)) = IF plain = <<>> THEN <<>> ELSE ApplyPointRecords(framed, points)
  BY EveryRowIsKept DEF BoxesOf, TablesOf, Plain
<1>4. ASSUME NEW i \in 1..n
      PROVE  framed[i] = [plain[i] EXCEPT !.frame = boxes[i].frame]
  <2>1. plain[i].name = boxes[i].name /\ plain[i].shape = boxes[i].shape
        /\ plain[i] = [plain[i] EXCEPT !.frame = 0]
    BY PlainBox DEF FramedAs
  <2>2. CASE boxes[i].shape = "box"
    <3>1. DOMAIN frames = {j \in 1..n : boxes[j].shape = "box"}
          /\ \A j \in DOMAIN frames :
               frames[j].name = boxes[j].name /\ frames[j].frame = boxes[j].frame
      BY <1>1 DEF RecordsFromFrames
    <3> HIDE DEF frames
    <3> DEFINE same == {k \in DOMAIN frames : frames[k].name = boxes[i].name}
    <3>2. same = {i}
      BY <1>2, <2>2, <3>1
    <3>3. Max(same) = i
      <4>1. i \in Int
        OBVIOUS
      <4> QED
        BY <3>2, <4>1 DEF Max
    <3> HIDE DEF plain, same
    <3>4. frames[Max(same)].frame = boxes[i].frame
      BY <2>2, <3>1, <3>3
    <3>5. i \in DOMAIN plain /\ \E k \in DOMAIN frames : frames[k].name = plain[i].name
      BY <2>1, <3>2 DEF plain, same
    <3>6. framed[i] = [plain[i] EXCEPT !.frame = frames[Max(same)].frame]
      BY <2>1, <2>2, <3>5 DEF ApplyFrameRecords, same
    <3> QED
      BY <3>4, <3>6
  <2>3. CASE boxes[i].shape # "box"
    <3>1. boxes[i].frame = 0
      BY <1>1, <2>3 DEF IsRegion
    <3> QED
      BY <2>1, <2>3, <3>1 DEF ApplyFrameRecords
  <2> QED
    BY <2>2, <2>3
<1>5. DOMAIN framed = 1..n
  BY DEF ApplyFrameRecords
<1>6. ASSUME NEW i \in 1..n
      PROVE  ApplyPointRecords(framed, points)[i]
               = Spanning(framed[i], boxes[i].points)
  <2>1. framed[i].name = boxes[i].name /\ framed[i].shape = boxes[i].shape
        /\ framed[i] = Spanning(framed[i], {})
    <3> HIDE DEF framed
    <3>1. plain[i] = Plain(boxes[i])
      OBVIOUS
    <3> HIDE DEF plain
    <3>2. framed[i] = FramedAs(plain[i], boxes[i].frame)
      BY <1>4 DEF FramedAs
    <3> QED
      BY <3>1, <3>2, PlainBox
  <2> HIDE DEF framed
  <2>2. CASE boxes[i].shape = "hull"
    <3>1. points = UNION {PointRows(boxes[j]) : j \in {k \in 1..n : boxes[k].shape = "hull"}}
      BY <1>1 DEF RecordsFromPoints, Range
    <3>2. \A j \in 1..n : \A r \in PointRows(boxes[j]) : r.name = boxes[j].name
      BY DEF PointRows
    <3> DEFINE mine == {r \in points : r.name = boxes[i].name}
    <3>3. mine = PointRows(boxes[i])
      BY <1>2, <2>2, <3>1, <3>2
    <3>4. boxes[i].points \in SUBSET Int
      BY <1>1 DEF IsRegion
    <3>5. {r.x : r \in {q \in PointRows(boxes[i]) : q.x # None}} = boxes[i].points
      <4>1. CASE boxes[i].points = {}
        BY <4>1 DEF PointRows
      <4>2. CASE boxes[i].points # {}
        <5>1. PointRows(boxes[i]) = {[name |-> boxes[i].name, x |-> x] : x \in boxes[i].points}
          BY <4>2 DEF PointRows
        <5>2. \A x \in boxes[i].points : x # None
          BY <3>4, NoneAssumption
        <5>3. \A r \in PointRows(boxes[i]) : r.x \in boxes[i].points
          BY <5>1
        <5>4. ASSUME NEW x \in boxes[i].points
              PROVE  \E r \in PointRows(boxes[i]) : r.x # None /\ r.x = x
          <6>1. [name |-> boxes[i].name, x |-> x] \in PointRows(boxes[i])
            BY <5>1
          <6> QED
            BY <5>2, <6>1
        <5> QED
          BY <5>3, <5>4
      <4> QED
        BY <4>1, <4>2
    <3>6. \E r \in points : r.name = framed[i].name
      <4>1. PointRows(boxes[i]) # {}
        BY DEF PointRows
      <4> QED
        BY <2>1, <3>3, <4>1
    <3>7. {r.x : r \in {q \in points : q.name = framed[i].name /\ q.x # None}} = boxes[i].points
      BY <2>1, <3>3, <3>5
    <3> QED
      BY <1>5, <2>1, <2>2, <3>6, <3>7 DEF ApplyPointRecords, Spanning
  <2>3. CASE boxes[i].shape # "hull"
    <3>1. boxes[i].points = {}
      BY <1>1, <2>3 DEF IsRegion
    <3> QED
      BY <1>5, <2>1, <2>3, <3>1 DEF ApplyPointRecords, Spanning
  <2> QED
    BY <2>2, <2>3
<1>7. ASSUME NEW i \in 1..n
      PROVE  ApplyPointRecords(framed, points)[i] = boxes[i]
  <2>1. boxes[i] = [Plain(boxes[i]) EXCEPT !.frame = boxes[i].frame,
                                                       !.points = boxes[i].points]
    BY <1>1 DEF IsRegion, Plain
  <2> QED
    BY <1>4, <1>6, <2>1 DEF Spanning
<1>8. ApplyPointRecords(framed, points)
        = [i \in 1..n |-> ApplyPointRecords(framed, points)[i]]
  BY <1>5 DEF ApplyPointRecords
<1>9. CASE plain = <<>>
  <2>1. DOMAIN plain = {} /\ DOMAIN plain = 1..n
    BY <1>9
  <2>2. n = 0
    BY <1>1, <2>1
  <2>3. boxes = <<>>
    BY <1>1, <2>2
  <2> QED
    BY <1>3, <1>9, <2>3
<1>10. CASE plain # <<>>
  BY <1>1, <1>3, <1>7, <1>8, <1>10
<1> QED
  BY <1>9, <1>10

-----------------------------------------------------------------------------
(* Space: what regions and decks cover is a finite set of places.          *)

Places(S) == S \in SUBSET Int /\ IsFiniteSet(S)

LEMMA BoundedPlaces ==
  ASSUME NEW lo \in Int, NEW hi \in Int, NEW S \in SUBSET (lo..hi)
  PROVE  Places(S)
<1>1. IsFiniteSet(lo..hi)
  BY FS_Interval
<1>2. S \in SUBSET Int
  OBVIOUS
<1> QED
  BY <1>1, <1>2, FS_Subset DEF Places

LEMMA PlacesHaveExtremes ==
  ASSUME NEW S, Places(S), S # {}
  PROVE  /\ Min(S) \in S /\ Max(S) \in S /\ Min(S) \in Int /\ Max(S) \in Int
         /\ \A x \in S : Min(S) <= x /\ x <= Max(S)
<1>1. \A x \in S : x \in Int
  BY DEF Places
<1>2. /\ Max(S) \in S /\ \A y \in S : Max(S) >= y
      /\ Min(S) \in S /\ \A y \in S : Min(S) <= y
  BY <1>1, Extremes DEF Places
<1> QED
  BY <1>1, <1>2

(* The nodes of a deck, or of a geometry deck, lie at places.              *)
HasNodes(d) == d.nodes \in SUBSET [id : Int, x : Int] /\ IsFiniteSet(d.nodes)
Spots(d) == {r.x : r \in d.nodes}

LEMMA DecksHaveNodes ==
  /\ \A d : IsDeck(d) => HasNodes(d)
  /\ \A g : IsGeometry(g) => HasNodes(g)
  BY DEF IsDeck, IsGeometry, HasNodes

LEMMA SpotsArePlaces ==
  ASSUME NEW d, HasNodes(d)
  PROVE  Places(Spots(d))
<1> DEFINE f == [r \in d.nodes |-> r.x]
<1>1. Spots(d) = {f[r] : r \in d.nodes}
  BY DEF Spots
<1>2. IsFiniteSet({f[r] : r \in d.nodes})
  <2> HIDE DEF f
  <2> QED
    BY Image DEF HasNodes
<1> QED
  BY <1>1, <1>2 DEF HasNodes, Places, Spots

LEMMA RowOfNode ==
  ASSUME NEW d, HasNodes(d), NEW n \in NodeIds(d)
  PROVE  RowOf(d, n) \in d.nodes /\ RowOf(d, n).x \in Spots(d)
<1>1. PICK r \in d.nodes : r.id = n
  BY DEF NodeIds
<1>2. n \in Int /\ \A s \in d.nodes : s.id \in Int
  BY <1>1 DEF HasNodes
<1>3. r.id >= n /\ \A s \in d.nodes : s.id >= n => r.id <= s.id
  BY <1>1, <1>2
<1>4. RowOf(d, n) \in d.nodes
  BY <1>1, <1>3 DEF RowOf
<1> QED
  BY <1>4 DEF Spots

LEMMA NodesArePlaced ==
  ASSUME NEW d, HasNodes(d), NEW nodes \in SUBSET NodeIds(d)
  PROVE  CoordsOf(d, nodes) \in SUBSET Spots(d)
  BY RowOfNode DEF CoordsOf

LEMMA CellsArePlaced ==
  ASSUME NEW d, HasNodes(d), NEW c, c.ends \in SUBSET NodeIds(d)
  PROVE  /\ Coords(d, c) \in SUBSET Spots(d) /\ Places(Coords(d, c))
         /\ c.ends # {} => Coords(d, c) # {}
<1>1. Coords(d, c) \in SUBSET Spots(d)
  BY RowOfNode DEF Coords
<1>2. Places(Coords(d, c))
  BY <1>1, SpotsArePlaces, FS_Subset DEF Places
<1> QED
  BY <1>1, <1>2 DEF Coords

(* The space of a solid region lies within the nodes of its deck.          *)
LEMMA SolidPlaces ==
  ASSUME NEW g, IsGeometry(g), NEW parts, HasSolids(g, parts), NEW dist \in Int
  PROVE  /\ Places(Occupied(g, parts))
         /\ Places(Within(CoordsOf(g, NodesUnder(PartCells(g, parts))), dist))
<1> DEFINE cells == PartCells(g, parts)
           X     == Spots(g)
<1>1. HasNodes(g) /\ cells # {} /\ NodesUnder(cells) \in SUBSET NodeIds(g)
  BY DecksHaveNodes DEF HasSolids
<1>2. \A c \in cells : c.ends # {} /\ c.ends \in SUBSET NodeIds(g)
  BY <1>1 DEF PartCells, IsGeometry, NodesUnder
<1>3. \A c \in cells : Coords(g, c) \in SUBSET X /\ Places(Coords(g, c)) /\ Coords(g, c) # {}
  BY <1>1, <1>2, CellsArePlaced
<1>4. Places(X) /\ X # {}
  BY <1>1, <1>3, SpotsArePlaces
<1>5. PICK lo \in Int, hi \in Int : \A x \in X : x \in Int /\ lo <= x /\ x <= hi
  BY <1>4, PlacesHaveExtremes DEF Places
<1> HIDE DEF X, cells
<1>6. ASSUME NEW c \in cells
      PROVE  Min(Coords(g, c))..Max(Coords(g, c)) \in SUBSET (lo..hi)
  <2>1. Min(Coords(g, c)) \in Coords(g, c) /\ Max(Coords(g, c)) \in Coords(g, c)
    BY <1>3, PlacesHaveExtremes
  <2>2. PICK a \in X, b \in X : a = Min(Coords(g, c)) /\ b = Max(Coords(g, c))
    BY <1>3, <2>1
  <2>3. a \in Int /\ b \in Int /\ lo <= a /\ b <= hi
    BY <1>5
  <2>4. a..b \in SUBSET (lo..hi)
    BY <2>3
  <2> QED
    BY <2>2, <2>4
<1>7. Occupied(g, parts) \in SUBSET (lo..hi)
  BY <1>6 DEF Occupied, cells
<1>8. CoordsOf(g, NodesUnder(cells)) \in SUBSET X
  BY <1>1, NodesArePlaced DEF X
<1>9. Within(CoordsOf(g, NodesUnder(cells)), dist) \in SUBSET ((lo - dist)..(hi + dist))
  BY <1>5, <1>8 DEF Within
<1>10. lo - dist \in Int /\ hi + dist \in Int
  OBVIOUS
<1> QED
  BY <1>7, <1>9, <1>10, BoundedPlaces DEF cells

LEMMA CardPlaces ==
  ASSUME NEW d, IsDeck(d), NEW id \in DOMAIN d.cards
  PROVE  Places(Box(d, id))
<1> DEFINE card  == d.cards[id]
           shift == IF card.skew \in DOMAIN d.skews THEN d.skews[card.skew] ELSE 0
<1>1. card.lo \in Int /\ card.hi \in Int /\ shift \in Int
  BY DEF IsDeck
<1>2. Box(d, id) = (card.lo + shift)..(card.hi + shift)
  BY DEF Box
<1> HIDE DEF card, shift
<1>3. card.lo + shift \in Int /\ card.hi + shift \in Int
  BY <1>1
<1> QED
  BY <1>2, <1>3, BoundedPlaces

GeometryFiles(files) == \A n \in DOMAIN files : IsGeometry(files[n])

LEMMA SpaceIsPlaces ==
  ASSUME NEW d, IsDeck(d), NEW files, GeometryFiles(files),
         NEW r, IsRegion(r), Resolvable(d, r, files)
  PROVE  Places(Space(d, r, files))
<1>1. r.lo \in Int /\ r.hi \in Int /\ r.frame \in Int /\ r.clearance \in Int
      /\ Places(r.points)
  BY DEF IsRegion, Places
<1>2. CASE r.shape = "deck"
  <2> DEFINE g == files[r.ref]
  <2>1. IsGeometry(g) /\ HasSolids(g, r.parts)
    BY <1>2 DEF Resolvable, GeometryFiles
  <2>2. /\ Places(Occupied(g, r.parts))
        /\ Places(Within(CoordsOf(g, NodesUnder(PartCells(g, r.parts))), r.clearance))
    BY <1>1, <2>1, SolidPlaces
  <2>3. Space(d, r, files) = Occupied(g, r.parts)
          \cup (IF r.clearance > 0
                THEN Within(CoordsOf(g, NodesUnder(PartCells(g, r.parts))), r.clearance)
                ELSE {})
    BY <1>2 DEF Space
  <2>4. ASSUME NEW A, NEW B, Places(A), Places(B) PROVE Places(A \cup B) /\ Places(A \cup {})
    BY <2>4, FS_Union DEF Places
  <2> HIDE DEF g
  <2> QED
    BY <2>2, <2>3, <2>4
<1>3. CASE r.shape = "card"
  <2>1. Space(d, r, files) = Box(d, r.ref) /\ r.ref \in DOMAIN d.cards
    BY <1>3 DEF Space, Resolvable
  <2> QED
    BY <2>1, CardPlaces
<1>4. CASE r.shape = "hull"
  <2>1. Space(d, r, files) = Min(r.points)..Max(r.points) /\ r.points # {}
    BY <1>4 DEF Space, Resolvable
  <2> QED
    BY <1>1, <2>1, PlacesHaveExtremes, BoundedPlaces
<1>5. CASE r.shape \notin {"deck", "card", "hull"}
  <2>1. Space(d, r, files) = (r.lo + r.frame)..(r.hi + r.frame)
    BY <1>5 DEF Space
  <2>2. r.lo + r.frame \in Int /\ r.hi + r.frame \in Int
    BY <1>1
  <2> QED
    BY <2>1, <2>2, BoundedPlaces
<1> QED
  BY <1>2, <1>3, <1>4, <1>5


LEMMA RegionsArePlaces ==
  ASSUME NEW d, IsDeck(d), NEW files, GeometryFiles(files), NEW regions, IsFiniteSet(regions),
         \A r \in regions : IsRegion(r) /\ Resolvable(d, r, files)
  PROVE  Places(InRegions(d, regions, files))
<1> DEFINE f == [r \in regions |-> Space(d, r, files)]
           spaces == {f[r] : r \in regions}
<1>1. \A r \in regions : Places(f[r])
  BY SpaceIsPlaces
<1>2. InRegions(d, regions, files) = UNION spaces
  BY DEF InRegions
<1> HIDE DEF f
<1>3. IsFiniteSet(spaces) /\ \A T \in spaces : Places(T)
  BY <1>1, Image
<1>4. IsFiniteSet(UNION spaces)
  BY <1>3, FS_UNION DEF Places
<1> QED
  BY <1>2, <1>3, <1>4 DEF Places

-----------------------------------------------------------------------------
(* What PREPARE adds to a deck.                                            *)

(* The part and the regions that PREPARE was not refused for.              *)
Preparable(d, m, files) ==
  /\ IsDeck(d) /\ GeometryFiles(files) /\ AreRegions(m.regions)
  /\ \A r \in Regions(m) : Resolvable(d, r, files)
  /\ SurfaceKnown(d)
  /\ Kept(d, m, files) # {}

LEMMA RegionsAreFinite ==
  ASSUME NEW m, AreRegions(m.regions)
  PROVE  /\ IsFiniteSet(Regions(m)) /\ \A r \in Regions(m) : IsRegion(r)
<1>1. Len(m.regions) \in Nat /\ DOMAIN m.regions = 1..Len(m.regions)
      /\ \A i \in 1..Len(m.regions) : IsRegion(m.regions[i])
  BY RegionsAreSeq
<1>2. IsFiniteSet({m.regions[i] : i \in 1..Len(m.regions)})
  <2>1. IsFiniteSet(1..Len(m.regions))
    BY <1>1, FS_Interval
  <2> QED
    BY <2>1, Image
<1> QED
  BY <1>1, <1>2 DEF Regions

LEMMA SurfaceIsPlaced ==
  ASSUME NEW d, IsDeck(d), SurfaceKnown(d)
  PROVE  Places(SurfaceCoords(d))
<1>1. HasNodes(d) /\ SurfaceCoords(d) \in SUBSET Spots(d)
  BY DecksHaveNodes, RowOfNode DEF SurfaceCoords, SurfaceKnown
<1>2. Places(Spots(d))
  BY <1>1, SpotsArePlaces
<1> QED
  BY <1>1, <1>2, FS_Subset DEF Places

(* The cells kept are finitely many pairs of places, an edge apart.        *)
LEMMA KeptCells ==
  ASSUME NEW d, NEW m, NEW files, Preparable(d, m, files)
  PROVE  /\ IsFiniteSet(Kept(d, m, files))
         /\ \A t \in Kept(d, m, files) : \E x \in Int : t = {x, x + Edge}
<1> DEFINE positive == Positive(Regions(m))
           space    == InRegions(d, positive, files)
           surface  == SurfaceCoords(d)
           domain   == surface \cup RegionBounds(d, positive, files)
           first    == Min(surface)
           points   == {x \in (Min(domain) - Edge)..(Max(domain) + Edge) : (x - first) % Edge = 0}
           starts   == {p \in points : p + Edge \in points}
           cell     == [x \in starts |-> {x, x + Edge}]
<1>1. Places(space)
  <2>1. IsFiniteSet(positive)
    BY RegionsAreFinite, FS_Subset DEF Preparable, Positive
  <2>2. \A r \in positive : IsRegion(r) /\ Resolvable(d, r, files)
    BY RegionsAreFinite DEF Preparable, Positive
  <2> QED
    BY <2>1, <2>2, RegionsArePlaces DEF Preparable
<1>2. space # {}
  BY DEF Preparable, Kept
<1>3. Places(domain) /\ domain # {}
  <2>1. Min(space) \in Int /\ Max(space) \in Int /\ Min(space) <= Max(space)
    BY <1>1, <1>2, PlacesHaveExtremes
  <2>2. RegionBounds(d, positive, files) = Min(space)..Max(space)
    BY DEF RegionBounds
  <2>3. PICK a \in Int, b \in Int : a <= b /\ RegionBounds(d, positive, files) = a..b
    <3> HIDE DEF space, positive
    <3> QED
      BY <2>1, <2>2
  <2>4. Places(surface)
    BY SurfaceIsPlaced DEF Preparable
  <2>5. Places(a..b) /\ a \in a..b
    <3>1. IsFiniteSet(a..b) /\ a..b \in SUBSET Int
      BY FS_Interval
    <3> QED
      BY <2>3, <3>1 DEF Places
  <2> QED
    BY <2>3, <2>4, <2>5, FS_Union DEF Places
<1>4. Kept(d, m, files) \in SUBSET {cell[x] : x \in starts}
  <2>1. Backend(d, positive, files) = {{x, x + Edge} : x \in starts}
    BY DEF Backend
  <2> QED
    BY <2>1 DEF Kept
<1>5. PICK lo, hi \in Int : lo = Min(domain) - Edge /\ hi = Max(domain) + Edge
  <2> HIDE DEF domain
  <2>1. Min(domain) \in Int /\ Max(domain) \in Int
    BY <1>3, PlacesHaveExtremes
  <2> QED
    BY <2>1, EdgeAssumption
<1>6. starts \in SUBSET (lo..hi)
  BY <1>5
<1>7. Places(starts)
  BY <1>6, BoundedPlaces
<1>8. \A x \in starts : x \in Int /\ cell[x] = {x, x + Edge}
  BY <1>7 DEF Places
<1> HIDE DEF starts, cell
<1>9. IsFiniteSet({cell[x] : x \in starts})
  BY <1>7, Image DEF Places
<1>10. IsFiniteSet(Kept(d, m, files))
  BY <1>4, <1>9, FS_Subset
<1> QED
  BY <1>4, <1>8, <1>10


LEMMA PairIsPlaces ==
  ASSUME NEW a \in Int, NEW b \in Int
  PROVE  Max({a, b}) \in Int /\ Max({a, b}) >= a /\ Max({a, b}) >= b
<1>1. IsFiniteSet({a}) /\ {a, b} = {a} \cup {b}
  BY FS_Singleton
<1>2. Places({a, b}) /\ {a, b} # {}
  BY <1>1, FS_AddElement DEF Places
<1> QED
  BY <1>2, PlacesHaveExtremes

(* Allocated ids are above what there is, and told apart.                  *)
LEMMA AllocatedIds ==
  ASSUME NEW places, Places(places), NEW top \in Int, NEW least \in Int
  PROVE  LET ids == AllocateIds(places, top, least)
         IN  /\ \A x \in places : ids[x] \in Int /\ ids[x] > top /\ ids[x] >= least
             /\ \A x, y \in places : ids[x] = ids[y] => x = y
<1> DEFINE start == Max({top + 1, least})
           before(x) == {y \in places : y < x}
           ids == AllocateIds(places, top, least)
<1>1. start \in Int /\ start > top /\ start >= least
  <2>1. top + 1 \in Int
    OBVIOUS
  <2>2. Max({top + 1, least}) \in Int /\ Max({top + 1, least}) >= top + 1
        /\ Max({top + 1, least}) >= least
    BY <2>1, PairIsPlaces
  <2> QED
    BY <2>2
<1>2. \A x \in places : ids[x] = start + Cardinality(before(x))
  BY DEF AllocateIds
<1>3. \A x \in places : IsFiniteSet(before(x)) /\ Cardinality(before(x)) \in Nat
  BY FS_Subset, FS_CardinalityType DEF Places
<1>4. ASSUME NEW x \in places, NEW y \in places, x < y
      PROVE  Cardinality(before(x)) # Cardinality(before(y))
  <2>1. x \in Int /\ y \in Int /\ \A z \in places : z \in Int
    BY DEF Places
  <2>2. before(x) \in SUBSET before(y) /\ x \in before(y) /\ x \notin before(x)
    <3>1. \A z \in Int : z < x => z < y
      BY <1>4, <2>1
    <3>2. before(x) \in SUBSET before(y)
      BY <2>1, <3>1
    <3>3. ~(x < x)
      BY <2>1
    <3> QED
      BY <1>4, <3>2, <3>3
  <2> HIDE DEF before
  <2> QED
    BY <1>3, <2>2, FS_Subset
<1> HIDE DEF start, before, ids
<1>5. ASSUME NEW x \in places, NEW y \in places, ids[x] = ids[y] PROVE x = y
  <2>1. x \in Int /\ y \in Int
    BY DEF Places
  <2>2. Cardinality(before(x)) = Cardinality(before(y))
    BY <1>1, <1>2, <1>3, <1>5
  <2> QED
    BY <1>4, <2>1, <2>2
<1>6. ASSUME NEW x \in places PROVE ids[x] \in Int /\ ids[x] > top /\ ids[x] >= least
  BY <1>1, <1>2, <1>3
<1> QED
  BY <1>5, <1>6 DEF ids

(* The decks of the load cases.                                            *)
AreDecks(decks) ==
  \E n \in Nat \ {0} : DOMAIN decks = 1..n /\ \A k \in 1..n : IsDeck(decks[k])

LEMMA NodeIdsArePlaces ==
  ASSUME NEW d, HasNodes(d)
  PROVE  Places(NodeIds(d))
<1> DEFINE f == [r \in d.nodes |-> r.id]
<1>1. NodeIds(d) = {f[r] : r \in d.nodes}
  BY DEF NodeIds
<1>2. IsFiniteSet({f[r] : r \in d.nodes})
  <2> HIDE DEF f
  <2> QED
    BY Image DEF HasNodes
<1> QED
  BY <1>1, <1>2 DEF HasNodes, Places, NodeIds

LEMMA TopOfNodes ==
  ASSUME NEW d, IsDeck(d)
  PROVE  /\ MaxNodeId(d) \in Int
         /\ \A n \in NodeIds(d) \cup d.later : n \in Int /\ n <= MaxNodeId(d)
<1> DEFINE ids == {0} \cup NodeIds(d) \cup d.later
<1>1. Places(NodeIds(d))
  BY DecksHaveNodes, NodeIdsArePlaces
<1>2. Places({0} \cup NodeIds(d))
  <2>1. {0} \cup NodeIds(d) = NodeIds(d) \cup {0}
    OBVIOUS
  <2> QED
    BY <1>1, <2>1, FS_AddElement DEF Places
<1>3. Places(ids) /\ 0 \in ids
  BY <1>2, FS_Union DEF Places, IsDeck
<1>4. Max(ids) \in Int /\ \A n \in ids : n \in Int /\ n <= Max(ids)
  <2> HIDE DEF ids
  <2> QED
    BY <1>3, PlacesHaveExtremes DEF Places
<1> QED
  BY <1>4 DEF MaxNodeId

LEMMA TopOfElements ==
  ASSUME NEW d, IsDeck(d)
  PROVE  MaxElemId(d) \in Nat \ {0}
<1> DEFINE f == [c \in d.cells |-> c.id]
<1>1. ElemIds(d) = {f[c] : c \in d.cells} /\ ElemIds(d) # {}
  BY DEF ElemIds, IsDeck
<1>2. IsFiniteSet({f[c] : c \in d.cells})
  <2> HIDE DEF f
  <2> QED
    BY Image DEF IsDeck
<1>3. Places(ElemIds(d))
  <2>1. ElemIds(d) \in SUBSET Int
    BY DEF IsDeck
  <2> HIDE DEF f
  <2> QED
    BY <1>1, <1>2, <2>1 DEF Places
<1>4. Max(ElemIds(d)) \in ElemIds(d)
  BY <1>1, <1>3, PlacesHaveExtremes
<1> QED
  BY <1>4 DEF MaxElemId, IsDeck

LEMMA TopsOfDecks ==
  ASSUME NEW decks, AreDecks(decks)
  PROVE  /\ TopNodeId(decks) \in Int /\ TopElemId(decks) \in Nat \ {0}
         /\ \A k \in DOMAIN decks : \A n \in NodeIds(decks[k]) \cup decks[k].later :
              n \in Int /\ n <= TopNodeId(decks)
<1>1. PICK n \in Nat \ {0} : DOMAIN decks = 1..n /\ \A k \in 1..n : IsDeck(decks[k])
  BY DEF AreDecks
<1> DEFINE f == [k \in 1..n |-> MaxNodeId(decks[k])]
           g == [k \in 1..n |-> MaxElemId(decks[k])]
<1>2. \A k \in 1..n : f[k] = MaxNodeId(decks[k]) /\ g[k] = MaxElemId(decks[k])
  OBVIOUS
<1>3. TopNodeId(decks) = Max({f[k] : k \in 1..n}) /\ TopElemId(decks) = Max({g[k] : k \in 1..n})
  BY <1>1 DEF TopNodeId, TopElemId
<1> HIDE DEF f, g
<1>4. IsFiniteSet(1..n) /\ 1 \in 1..n
  BY FS_Interval
<1>5. Places({f[k] : k \in 1..n}) /\ f[1] \in {f[k] : k \in 1..n}
  BY <1>1, <1>2, <1>4, Image, TopOfNodes DEF Places
<1>6. Places({g[k] : k \in 1..n}) /\ g[1] \in {g[k] : k \in 1..n}
  <2>1. \A k \in 1..n : g[k] \in Int
    BY <1>1, <1>2, TopOfElements
  <2> QED
    BY <1>4, <2>1, Image DEF Places
<1>7. TopNodeId(decks) \in Int /\ \A k \in 1..n : f[k] <= TopNodeId(decks)
  BY <1>3, <1>5, PlacesHaveExtremes
<1>8. TopElemId(decks) \in Nat \ {0}
  <2>1. TopElemId(decks) \in {g[k] : k \in 1..n}
    BY <1>3, <1>6, PlacesHaveExtremes
  <2> QED
    BY <1>1, <1>2, <2>1, TopOfElements
<1>9. ASSUME NEW k \in 1..n, NEW i \in NodeIds(decks[k]) \cup decks[k].later
      PROVE  i \in Int /\ i <= TopNodeId(decks)
  <2>1. f[k] \in Int /\ i \in Int /\ i <= f[k] /\ f[k] <= TopNodeId(decks)
    BY <1>1, <1>2, <1>7, TopOfNodes
  <2> QED
    BY <1>7, <2>1
<1> QED
  BY <1>1, <1>7, <1>8, <1>9

LEMMA CellPlaces ==
  ASSUME NEW x \in Int
  PROVE  Places({x, x + Edge}) /\ {x, x + Edge} # {}
<1>1. x + Edge \in Int
  BY EdgeAssumption
<1>2. PICK y \in Int : y = x + Edge
  BY <1>1
<1>3. IsFiniteSet({x} \cup {y})
  BY FS_Singleton, FS_AddElement
<1>4. {x, x + Edge} = {x} \cup {y}
  BY <1>2
<1>5. {x} \cup {y} \in SUBSET Int /\ {x} \cup {y} # {}
  OBVIOUS
<1> QED
  BY <1>3, <1>4, <1>5 DEF Places

LEMMA KeptPlaces ==
  ASSUME NEW d, NEW m, NEW files, Preparable(d, m, files)
  PROVE  /\ Places(UNION Kept(d, m, files))
         /\ Places({Min(t) : t \in Kept(d, m, files)})
<1> DEFINE kept == Kept(d, m, files)
           f == [t \in kept |-> Min(t)]
<1>1. IsFiniteSet(kept) /\ \A t \in kept : \E x \in Int : t = {x, x + Edge}
  BY KeptCells
<1>2. \A t \in kept : Places(t) /\ t # {}
  BY <1>1, CellPlaces
<1>3. IsFiniteSet(UNION kept)
  BY <1>1, <1>2, FS_UNION DEF Places
<1>4. Places(UNION kept)
  BY <1>2, <1>3 DEF Places
<1>5. \A t \in kept : f[t] \in Int
  BY <1>2, PlacesHaveExtremes
<1>6. {Min(t) : t \in kept} = {f[t] : t \in kept}
  OBVIOUS
<1> HIDE DEF f
<1>7. Places({f[t] : t \in kept})
  BY <1>1, <1>5, Image DEF Places
<1> QED
  BY <1>4, <1>6, <1>7

(* What is new has ids above those of every deck, told apart.              *)
LEMMA GrowthIsNew ==
  ASSUME NEW decks, AreDecks(decks), NEW m, NEW files, Preparable(decks[1], m, files)
  PROVE  LET growth == Growth(decks, m, files)
         IN  /\ growth.nodes \in SUBSET [id : Int, x : Int] /\ IsFiniteSet(growth.nodes)
             /\ \A r \in growth.nodes : r.id > TopNodeId(decks)
             /\ \A r, s \in growth.nodes : r.id = s.id => r = s
             /\ IsFiniteSet(growth.cells)
             /\ \A c \in growth.cells : c.id \in Nat \ {0}
<1> DEFINE part  == decks[1]
           kept  == Kept(part, m, files)
           fresh == (UNION kept) \ SurfaceCoords(part)
           least == {Min(t) : t \in kept}
           node  == AllocateIds(fresh, TopNodeId(decks), DesignNodeMin)
           elem  == AllocateIds(least, TopElemId(decks), 0)
           surface(x) == CHOOSE n \in SurfaceNodes(part.cells) : RowOf(part, n).x = x
           idOf(x) == IF x \in fresh THEN node[x] ELSE surface(x)
           row   == [x \in fresh |-> [id |-> node[x], x |-> x]]
           cell  == [t \in kept |-> [id |-> elem[Min(t)], ends |-> {idOf(x) : x \in t}]]
           growth == Growth(decks, m, files)
<1>1. Places(fresh) /\ Places(least) /\ IsFiniteSet(kept)
  <2>1. Places(UNION kept) /\ Places(least) /\ IsFiniteSet(kept)
    BY KeptPlaces, KeptCells
  <2>2. fresh \in SUBSET UNION kept
    OBVIOUS
  <2> HIDE DEF kept, fresh, least
  <2> QED
    BY <2>1, <2>2, FS_Subset DEF Places
<1>2. TopNodeId(decks) \in Int /\ TopElemId(decks) \in Nat \ {0}
  BY TopsOfDecks
<1>3. /\ \A x \in fresh : node[x] \in Int /\ node[x] > TopNodeId(decks)
      /\ \A x, y \in fresh : node[x] = node[y] => x = y
  <2> HIDE DEF fresh
  <2> QED
    BY <1>1, <1>2, DesignNodeMinAssumption, AllocatedIds
<1>4. \A x \in least : elem[x] \in Int /\ elem[x] > TopElemId(decks)
  <2> HIDE DEF least
  <2> QED
    BY <1>1, <1>2, AllocatedIds
<1>5. growth.nodes = {row[x] : x \in fresh} /\ growth.cells = {cell[t] : t \in kept}
  BY DEF Growth
<1>6. \A x \in fresh : row[x] = [id |-> node[x], x |-> x]
                       /\ row[x].id = node[x] /\ row[x].x = x
  OBVIOUS
<1>7. \A t \in kept : cell[t].id = elem[Min(t)] /\ Min(t) \in least
  OBVIOUS
<1> HIDE DEF row, cell, fresh, least, kept, node, elem, growth
<1>8. IsFiniteSet(growth.nodes) /\ IsFiniteSet(growth.cells)
  BY <1>1, <1>5, Image DEF Places
<1>9. growth.nodes \in SUBSET [id : Int, x : Int]
  <2>1. ASSUME NEW x \in fresh PROVE row[x] \in [id : Int, x : Int]
    <3>1. x \in Int /\ node[x] \in Int
      BY <1>1, <1>3 DEF Places
    <3>2. [id |-> node[x], x |-> x] \in [id : Int, x : Int]
      BY <3>1
    <3> QED
      BY <1>6, <3>2
  <2> QED
    BY <1>5, <2>1
<1>10. ASSUME NEW r \in growth.nodes PROVE r.id > TopNodeId(decks)
  <2>1. PICK x \in fresh : r = row[x]
    BY <1>5
  <2> QED
    BY <1>3, <1>6, <2>1
<1>11. ASSUME NEW r \in growth.nodes, NEW s \in growth.nodes, r.id = s.id PROVE r = s
  <2>1. PICK x \in fresh, y \in fresh : r = row[x] /\ s = row[y]
    BY <1>5
  <2>2. node[x] = node[y]
    <3>1. row[x].id = node[x] /\ row[y].id = node[y]
      BY <1>6
    <3> QED
      BY <1>11, <2>1, <3>1
  <2> QED
    BY <1>3, <2>1, <2>2
<1>12. ASSUME NEW c \in growth.cells PROVE c.id \in Nat \ {0}
  <2>1. PICK t \in kept : c = cell[t]
    BY <1>5
  <2>2. c.id \in Int /\ c.id > TopElemId(decks)
    BY <1>4, <1>7, <2>1
  <2> QED
    BY <1>2, <2>2
<1> QED
  BY <1>8, <1>9, <1>10, <1>11, <1>12 DEF growth

(* No node id is declared twice: each has one row, in the first block.     *)
LEMMA DeclaredOnce ==
  ASSUME NEW d, HasNodes(d)
  PROVE  DeclaredTwice(d) = {} <=>
           /\ \A r \in d.nodes : r.id \notin d.later
           /\ \A r, s \in d.nodes : r.id = s.id => r = s
<1> DEFINE rowsOf(n) == {r \in d.nodes : r.id = n}
<1>1. ASSUME NEW n PROVE IsFiniteSet(rowsOf(n)) /\ Cardinality(rowsOf(n)) \in Nat
  BY FS_Subset, FS_CardinalityType DEF HasNodes
<1>2. ASSUME NEW n \in NodeIds(d)
      PROVE  ~(Cardinality(rowsOf(n)) > 1) <=> \A r, s \in rowsOf(n) : r = s
  <2>1. PICK q : q \in rowsOf(n)
    BY DEF NodeIds
  <2> HIDE DEF rowsOf
  <2>2. Cardinality(rowsOf(n)) # 0
    BY <1>1, <2>1, FS_EmptySet
  <2>3. ASSUME \A r, s \in rowsOf(n) : r = s PROVE ~(Cardinality(rowsOf(n)) > 1)
    <3>1. rowsOf(n) = {q}
      BY <2>1, <2>3
    <3>2. Cardinality({q}) = 1
      BY FS_Singleton
    <3> QED
      BY <3>1, <3>2
  <2>4. ASSUME ~(Cardinality(rowsOf(n)) > 1) PROVE \A r, s \in rowsOf(n) : r = s
    <3>1. Cardinality(rowsOf(n)) = 1
      BY <1>1, <2>2, <2>4
    <3>2. PICK x : rowsOf(n) = {x}
      BY <1>1, <3>1, FS_Singleton
    <3> QED
      BY <3>2
  <2> QED
    BY <2>3, <2>4
<1>3. DeclaredTwice(d) = {n \in NodeIds(d) : n \in d.later \/ Cardinality(rowsOf(n)) > 1}
  BY DEF DeclaredTwice
<1>4. \A r \in d.nodes : r.id \in NodeIds(d) /\ r \in rowsOf(r.id)
  BY DEF NodeIds
<1>5. \A n \in NodeIds(d) : \E r \in d.nodes : r.id = n
  BY DEF NodeIds
<1>6. ASSUME DeclaredTwice(d) = {}
      PROVE  /\ \A r \in d.nodes : r.id \notin d.later
             /\ \A r, s \in d.nodes : r.id = s.id => r = s
  <2>1. \A n \in NodeIds(d) : n \notin d.later /\ ~(Cardinality(rowsOf(n)) > 1)
    <3> HIDE DEF rowsOf
    <3> QED
      BY <1>3, <1>6
  <2>2. ASSUME NEW r \in d.nodes, NEW s \in d.nodes, r.id = s.id PROVE r = s
    <3>1. r.id \in NodeIds(d) /\ r \in rowsOf(r.id) /\ s \in rowsOf(r.id)
      BY <1>4, <2>2
    <3> HIDE DEF rowsOf
    <3> QED
      BY <1>2, <2>1, <3>1
  <2> QED
    BY <1>4, <2>1, <2>2
<1>7. ASSUME \A r \in d.nodes : r.id \notin d.later,
             \A r, s \in d.nodes : r.id = s.id => r = s
      PROVE  DeclaredTwice(d) = {}
  <2>1. ASSUME NEW n \in NodeIds(d) PROVE n \notin d.later /\ ~(Cardinality(rowsOf(n)) > 1)
    <3>1. n \notin d.later
      BY <1>5, <1>7
    <3>2. \A r, s \in rowsOf(n) : r = s
      BY <1>7
    <3> HIDE DEF rowsOf
    <3> QED
      BY <1>2, <3>1, <3>2
  <2> HIDE DEF rowsOf
  <2> QED
    BY <1>3, <2>1
<1> QED
  BY <1>6, <1>7

(* Extending a deck changes its nodes and its cells only.                  *)
LEMMA ExtendedFields ==
  ASSUME NEW d, IsDeck(d), NEW nodes, NEW cells, NEW e, e = Extended(d, nodes, cells)
  PROVE  /\ e.nodes = d.nodes \cup nodes /\ e.later = d.later
         /\ e.cells = d.cells \cup cells
         /\ e.groups = d.groups /\ e.cards = d.cards /\ e.skews = d.skews
         /\ e = [nodes |-> e.nodes, later |-> e.later, cells |-> e.cells, groups |-> e.groups,
                 cards |-> e.cards, skews |-> e.skews]
<1>1. d = [nodes |-> d.nodes, later |-> d.later, cells |-> d.cells, groups |-> d.groups,
           cards |-> d.cards, skews |-> d.skews]
  BY DEF IsDeck
<1>2. PICK f : f = [d EXCEPT !.nodes = d.nodes \cup nodes]
  OBVIOUS
<1>3. f = [nodes |-> d.nodes \cup nodes, later |-> d.later, cells |-> d.cells,
           groups |-> d.groups, cards |-> d.cards, skews |-> d.skews]
  BY <1>1, <1>2
<1>4. e = [f EXCEPT !.cells = d.cells \cup cells]
  BY <1>2 DEF Extended
<1>5. e = [nodes |-> d.nodes \cup nodes, later |-> d.later, cells |-> d.cells \cup cells,
           groups |-> d.groups, cards |-> d.cards, skews |-> d.skews]
  BY <1>3, <1>4
<1> QED
  BY <1>5

(* The deck extended by what is new is a deck.                             *)
LEMMA ExtendedIsDeck ==
  ASSUME NEW decks, AreDecks(decks), NEW m, NEW files, Preparable(decks[1], m, files),
         NEW k \in DOMAIN decks
  PROVE  IsDeck(Extended(decks[k], Growth(decks, m, files).nodes, Growth(decks, m, files).cells))
<1> DEFINE d == decks[k]
           growth == Growth(decks, m, files)
           e == Extended(d, growth.nodes, growth.cells)
<1>1. IsDeck(d)
  BY DEF AreDecks
<1>2. /\ growth.nodes \in SUBSET [id : Int, x : Int] /\ IsFiniteSet(growth.nodes)
      /\ \A r \in growth.nodes : r.id > TopNodeId(decks)
      /\ \A r, s \in growth.nodes : r.id = s.id => r = s
      /\ IsFiniteSet(growth.cells)
      /\ \A c \in growth.cells : c.id \in Nat \ {0}
  BY GrowthIsNew
<1>3. TopNodeId(decks) \in Int
      /\ \A n \in NodeIds(d) \cup d.later : n \in Int /\ n <= TopNodeId(decks)
  BY TopsOfDecks
<1> HIDE DEF d, growth
<1>4. /\ e.nodes = d.nodes \cup growth.nodes /\ e.later = d.later
      /\ e.cells = d.cells \cup growth.cells /\ e.cards = d.cards /\ e.skews = d.skews
      /\ e = [nodes |-> e.nodes, later |-> e.later, cells |-> e.cells, groups |-> e.groups,
              cards |-> e.cards, skews |-> e.skews]
  BY <1>1, ExtendedFields
<1> HIDE DEF e
<1>5. HasNodes(e)
  <2>1. d.nodes \in SUBSET [id : Int, x : Int] /\ IsFiniteSet(d.nodes)
    BY <1>1 DEF IsDeck
  <2>2. IsFiniteSet(d.nodes \cup growth.nodes)
    BY <1>2, <2>1, FS_Union
  <2> QED
    BY <1>2, <1>4, <2>1, <2>2 DEF HasNodes
<1>6. ElemIds(e) \in SUBSET (Nat \ {0}) /\ IsFiniteSet(e.cells) /\ e.cells # {}
  <2>1. \A c \in d.cells : c.id \in Nat \ {0}
    BY <1>1 DEF IsDeck, ElemIds
  <2>2. IsFiniteSet(e.cells) /\ e.cells # {}
    <3>1. IsFiniteSet(d.cells) /\ d.cells # {}
      BY <1>1 DEF IsDeck
    <3>2. IsFiniteSet(d.cells \cup growth.cells)
      BY <1>2, <3>1, FS_Union
    <3> QED
      BY <1>4, <3>1, <3>2
  <2> QED
    BY <1>2, <1>4, <2>1, <2>2 DEF ElemIds
<1>7. DeclaredTwice(e) = {}
  <2>1. HasNodes(d) /\ DeclaredTwice(d) = {}
    BY <1>1, DecksHaveNodes DEF IsDeck
  <2>2. /\ \A r \in d.nodes : r.id \notin d.later
        /\ \A r, s \in d.nodes : r.id = s.id => r = s
    BY <2>1, DeclaredOnce
  <2>3. \A r \in d.nodes : r.id \in Int /\ r.id <= TopNodeId(decks)
    BY <1>3 DEF NodeIds
  <2>4. \A r \in growth.nodes : r.id \in Int /\ r.id > TopNodeId(decks)
    BY <1>2
  <2>5. \A r \in d.nodes : \A s \in growth.nodes : r.id # s.id
    BY <1>3, <2>3, <2>4
  <2>6. \A r \in growth.nodes : r.id \notin d.later
    BY <1>3, <2>4
  <2>7. \A r \in e.nodes : r.id \notin e.later
    BY <1>4, <2>2, <2>6
  <2>8. \A r, s \in e.nodes : r.id = s.id => r = s
    BY <1>2, <1>4, <2>2, <2>5
  <2> QED
    BY <1>5, <2>7, <2>8, DeclaredOnce
<1>8. /\ e.nodes \in SUBSET [id : Int, x : Int] /\ IsFiniteSet(e.nodes)
      /\ e.later \in SUBSET Int /\ IsFiniteSet(e.later)
      /\ \A id \in DOMAIN e.cards : e.cards[id].lo \in Int /\ e.cards[id].hi \in Int
      /\ \A id \in DOMAIN e.skews : e.skews[id] \in Int
  BY <1>1, <1>4, <1>5 DEF IsDeck, HasNodes
<1>9. IsDeck(e)
  BY <1>4, <1>6, <1>7, <1>8 DEF IsDeck
<1> QED
  BY <1>9 DEF e, growth, d

-----------------------------------------------------------------------------
(* A finished PREPARE.                                                     *)

(* The folders keep the geometry decks of the first one: two that hold     *)
(* what a model refers to give it the same regions.                        *)
Agree(m, f, g) ==
  \A n \in Referenced(m) : n \in DOMAIN f /\ n \in DOMAIN g /\ f[n] = g[n]

LEMMA SameSpaces ==
  ASSUME NEW m, NEW f, NEW g, Agree(m, f, g), NEW d
  PROVE  /\ \A r \in Regions(m) : /\ Resolvable(d, r, f) <=> Resolvable(d, r, g)
                                  /\ Space(d, r, f) = Space(d, r, g)
         /\ KeepOutResolves(m, f) <=> KeepOutResolves(m, g)
         /\ KeepOutSpace(m, f) = KeepOutSpace(m, g)
<1>1. ASSUME NEW r \in Regions(m)
      PROVE  /\ Resolvable(d, r, f) <=> Resolvable(d, r, g)
             /\ Space(d, r, f) = Space(d, r, g)
  <2>1. CASE r.shape = "deck"
    <3>1. r.ref \in DOMAIN f /\ r.ref \in DOMAIN g /\ f[r.ref] = g[r.ref]
      BY <2>1 DEF Agree, Referenced
    <3> QED
      BY <2>1, <3>1 DEF Resolvable, Space
  <2>2. CASE r.shape # "deck"
    BY <2>2 DEF Resolvable, Space
  <2> QED
    BY <2>1, <2>2
<1>2. m.keepOut # None =>
        m.keepOut \in DOMAIN f /\ m.keepOut \in DOMAIN g /\ f[m.keepOut] = g[m.keepOut]
  BY DEF Agree, Referenced
<1> QED
  BY <1>1, <1>2 DEF KeepOutResolves, KeepOutSpace

LEMMA SameRegions ==
  ASSUME NEW m, NEW f, NEW g, Agree(m, f, g), NEW d,
         NEW regions, regions \in SUBSET Regions(m)
  PROVE  InRegions(d, regions, f) = InRegions(d, regions, g)
<1>1. \A r \in regions : Space(d, r, f) = Space(d, r, g)
  BY SameSpaces
<1> QED
  BY <1>1 DEF InRegions

LEMMA SameKept ==
  ASSUME NEW m, NEW f, NEW g, Agree(m, f, g), NEW d
  PROVE  Kept(d, m, f) = Kept(d, m, g)
<1> DEFINE positive == Positive(Regions(m))
           negative == Negative(Regions(m))
<1>1. positive \in SUBSET Regions(m) /\ negative \in SUBSET Regions(m)
  BY DEF Positive, Negative
<1>2. /\ InRegions(d, positive, f) = InRegions(d, positive, g)
      /\ InRegions(d, negative, f) = InRegions(d, negative, g)
      /\ KeepOutSpace(m, f) = KeepOutSpace(m, g)
  BY <1>1, SameRegions, SameSpaces
<1>3. Backend(d, positive, f) = Backend(d, positive, g)
  <2>1. RegionBounds(d, positive, f) = RegionBounds(d, positive, g)
    BY <1>2 DEF RegionBounds
  <2> QED
    BY <2>1 DEF Backend
<1> QED
  BY <1>2, <1>3 DEF Kept

LEMMA SameGrowth ==
  ASSUME NEW m, NEW f, NEW g, Agree(m, f, g), NEW decks
  PROVE  Growth(decks, m, f) = Growth(decks, m, g)
<1>1. Kept(decks[1], m, f) = Kept(decks[1], m, g)
  BY SameKept
<1> QED
  BY <1>1 DEF Growth

LEMMA SameGuards ==
  ASSUME NEW m, NEW f, NEW g, Agree(m, f, g), NEW d
  PROVE  /\ Candidates(d, m, f) = Candidates(d, m, g)
         /\ GuardsPass(d, m, f) <=> GuardsPass(d, m, g)
<1>1. ActiveRegions(m) \in SUBSET Regions(m)
  BY DEF ActiveRegions
<1>2. \A r \in ActiveRegions(m) : /\ Resolvable(d, r, f) <=> Resolvable(d, r, g)
                                  /\ Space(d, r, f) = Space(d, r, g)
                                  /\ RegionCandidates(d, r, m, f) = RegionCandidates(d, r, m, g)
  BY <1>1, SameSpaces DEF RegionCandidates
<1>3. /\ KeepOutResolves(m, f) <=> KeepOutResolves(m, g)
      /\ KeepOutSpace(m, f) = KeepOutSpace(m, g)
  BY SameSpaces
<1>4. RegionsResolve(d, m, f) <=> RegionsResolve(d, m, g)
  BY <1>2, <1>3 DEF RegionsResolve
<1>5. /\ Candidates(d, m, f) = Candidates(d, m, g)
      /\ EmptyRegions(d, m, f) = EmptyRegions(d, m, g)
  BY <1>2 DEF Candidates, EmptyRegions, Positive
<1>6. ForbiddenSpace(d, m, f) = ForbiddenSpace(d, m, g)
  <2>1. UNION {Space(d, r, f) : r \in Negative(ActiveRegions(m))}
          = UNION {Space(d, r, g) : r \in Negative(ActiveRegions(m))}
    BY <1>2 DEF Negative
  <2> QED
    BY <1>3, <2>1 DEF ForbiddenSpace
<1>7. /\ HeldVoid(d, m, f) = HeldVoid(d, m, g)
      /\ Growable(d, m, f) = Growable(d, m, g)
  BY <1>5, <1>6 DEF HeldVoid, Growable
<1>8. Unpinnable(d, m, f) = Unpinnable(d, m, g) /\ Unreachable(d, m, f) = Unreachable(d, m, g)
  BY <1>5, <1>7 DEF Unpinnable, Unreachable
<1> QED
  BY <1>4, <1>5, <1>8 DEF GuardsPass

(* The model with another boundary has the same regions.                   *)
Bounded(m, b) == [m EXCEPT !.bound = b]

LEMMA BoundedModel ==
  ASSUME NEW m, IsModel(m), NEW b
  PROVE  /\ Bounded(m, b).bound = b /\ Bounded(m, b).enabled = m.enabled
         /\ Regions(Bounded(m, b)) = Regions(m)
         /\ Referenced(Bounded(m, b)) = Referenced(m)
         /\ \A f, g : Agree(m, f, g) => Agree(Bounded(m, b), f, g)
<1>1. PICK n : n = Bounded(m, b)
  OBVIOUS
<1>2. n = [dir |-> m.dir, enabled |-> m.enabled, regions |-> m.regions, bound |-> b,
           keepOut |-> m.keepOut, keepOutParts |-> m.keepOutParts,
           keepOutClearance |-> m.keepOutClearance, bcGroup |-> m.bcGroup,
           freezeGroups |-> m.freezeGroups, excludeGroups |-> m.excludeGroups]
  BY <1>1 DEF Bounded, IsModel
<1>3. n.bound = b /\ n.enabled = m.enabled /\ n.regions = m.regions /\ n.keepOut = m.keepOut
  BY <1>2
<1>4. Regions(n) = Regions(m)
  BY <1>3 DEF Regions
<1>5. Referenced(n) = Referenced(m)
  BY <1>3, <1>4 DEF Referenced
<1> QED
  BY <1>1, <1>3, <1>4, <1>5 DEF Agree

LEMMA SameRefused ==
  ASSUME NEW m, IsModel(m), NEW f, NEW g, Agree(m, f, g), NEW decks
  PROVE  Refused(decks, m, f) <=> Refused(decks, m, g)
<1> DEFINE growth(h) == Growth(decks, m, h)
           guards(h) == GuardsPass(Extended(decks[1], growth(h).nodes, growth(h).cells),
                                   RecordedModel(decks, m), h)
<1>1. \A r \in Regions(m) : Resolvable(decks[1], r, f) <=> Resolvable(decks[1], r, g)
  BY SameSpaces
<1>2. KeepOutResolves(m, f) <=> KeepOutResolves(m, g)
  BY SameSpaces
<1>3. Kept(decks[1], m, f) = Kept(decks[1], m, g)
  BY SameKept
<1>4. guards(f) <=> guards(g)
  <2>1. growth(f) = growth(g)
    BY SameGrowth
  <2>2. Agree(RecordedModel(decks, m), f, g)
    BY BoundedModel DEF RecordedModel, Bounded
  <2> QED
    BY <2>1, <2>2, SameGuards
<1> QED
  BY <1>1, <1>2, <1>3, <1>4 DEF Refused

(***************************************************************************)
(* None is told apart from decks, as a model value is from functions.      *)
(***************************************************************************)
NoneIsNoFunction == None # [x \in DOMAIN None |-> None[x]]

LEMMA DeckIsSomething ==
  ASSUME NoneIsNoFunction, NEW d, IsDeck(d)
  PROVE  d # None
<1>1. d = [nodes |-> d.nodes, later |-> d.later, cells |-> d.cells, groups |-> d.groups,
           cards |-> d.cards, skews |-> d.skews]
  BY DEF IsDeck
<1>2. d = [x \in DOMAIN d |-> d[x]]
  BY <1>1
<1> QED
  BY <1>2 DEF NoneIsNoFunction

(* A node that is declared once is found in its row.                       *)
LEMMA RowIs ==
  ASSUME NEW d, IsDeck(d), NEW r \in d.nodes
  PROVE  RowOf(d, r.id) = r /\ r.id \in NodeIds(d)
<1>1. HasNodes(d) /\ DeclaredTwice(d) = {}
  BY DecksHaveNodes DEF IsDeck
<1>2. \A q, s \in d.nodes : q.id = s.id => q = s
  BY <1>1, DeclaredOnce
<1>3. \A s \in d.nodes : s.id \in Int
  BY <1>1 DEF HasNodes
<1> DEFINE First(q) == q.id >= r.id /\ \A s \in d.nodes : s.id >= r.id => q.id <= s.id
<1>4. First(r)
  BY <1>3
<1>5. ASSUME NEW q \in d.nodes, First(q) PROVE q = r
  <2>1. q.id >= r.id /\ q.id <= r.id
    BY <1>3, <1>5
  <2>2. q.id = r.id
    BY <1>3, <2>1
  <2> QED
    BY <1>2, <2>2
<1>6. RowOf(d, r.id) = CHOOSE q \in d.nodes : First(q)
  BY DEF RowOf
<1>7. (CHOOSE q \in d.nodes : First(q)) = r
  <2> HIDE DEF First
  <2> QED
    BY <1>4, <1>5
<1> QED
  BY <1>6, <1>7 DEF NodeIds

LEMMA RowStays ==
  ASSUME NEW d, IsDeck(d), NEW e, IsDeck(e), d.nodes \in SUBSET e.nodes, NEW n \in NodeIds(d)
  PROVE  RowOf(e, n) = RowOf(d, n) /\ n \in NodeIds(e)
<1>1. PICK r \in d.nodes : r.id = n
  BY DEF NodeIds
<1>2. RowOf(d, r.id) = r
  BY RowIs
<1>3. RowOf(e, r.id) = r /\ r.id \in NodeIds(e)
  <2>1. r \in e.nodes
    OBVIOUS
  <2> QED
    BY <2>1, RowIs
<1> QED
  BY <1>1, <1>2, <1>3

LEMMA TopElements ==
  ASSUME NEW decks, AreDecks(decks), NEW c \in decks[1].cells
  PROVE  c.id \in Int /\ c.id <= TopElemId(decks)
<1>1. PICK n \in Nat \ {0} : DOMAIN decks = 1..n /\ \A k \in 1..n : IsDeck(decks[k])
  BY DEF AreDecks
<1> DEFINE g == [k \in 1..n |-> MaxElemId(decks[k])]
           f == [q \in decks[1].cells |-> q.id]
<1>2. 1 \in 1..n /\ IsFiniteSet(1..n) /\ IsDeck(decks[1])
  BY <1>1, FS_Interval
<1>3. TopElemId(decks) = Max({g[k] : k \in 1..n})
  BY <1>1 DEF TopElemId
<1>4. \A k \in 1..n : g[k] \in Int
  BY <1>1, TopOfElements
<1>5. ElemIds(decks[1]) = {f[q] : q \in decks[1].cells}
  BY DEF ElemIds
<1>6. g[1] = Max(ElemIds(decks[1])) /\ c.id \in ElemIds(decks[1])
  BY <1>2 DEF MaxElemId, ElemIds
<1>7. ElemIds(decks[1]) \in SUBSET Int /\ IsFiniteSet(decks[1].cells)
  BY <1>2 DEF IsDeck
<1> HIDE DEF f, g
<1>8. Places(ElemIds(decks[1]))
  BY <1>5, <1>7, Image DEF Places
<1>9. c.id \in Int /\ c.id <= g[1]
  BY <1>6, <1>7, <1>8, PlacesHaveExtremes
<1>10. Places({g[k] : k \in 1..n}) /\ g[1] \in {g[k] : k \in 1..n}
  BY <1>2, <1>4, Image DEF Places
<1>11. g[1] <= TopElemId(decks) /\ TopElemId(decks) \in Int /\ g[1] \in Int
  BY <1>2, <1>3, <1>4, <1>10, PlacesHaveExtremes
<1> QED
  BY <1>9, <1>11

(* Each new cell covers one of those kept: its nodes are new ones, or the  *)
(* surface nodes that lie there.                                           *)
Covers(part, new, c, t, ids) ==
  /\ c.ends = {ids[x] : x \in t}
  /\ \A x \in t : \/ [id |-> ids[x], x |-> x] \in new.nodes
                  \/ ids[x] \in SurfaceNodes(part.cells) /\ RowOf(part, ids[x]).x = x

LEMMA GrowthCovers ==
  ASSUME NEW decks, AreDecks(decks), NEW m, NEW files, Preparable(decks[1], m, files),
         NEW c \in Growth(decks, m, files).cells
  PROVE  /\ c.id \in Int /\ c.id > TopElemId(decks)
         /\ \E t \in Kept(decks[1], m, files) : \E ids :
              Covers(decks[1], Growth(decks, m, files), c, t, ids)
<1> DEFINE part  == decks[1]
           kept  == Kept(part, m, files)
           fresh == (UNION kept) \ SurfaceCoords(part)
           least == {Min(t) : t \in kept}
           node  == AllocateIds(fresh, TopNodeId(decks), DesignNodeMin)
           elem  == AllocateIds(least, TopElemId(decks), 0)
           surface(x) == CHOOSE n \in SurfaceNodes(part.cells) : RowOf(part, n).x = x
           idOf(x) == IF x \in fresh THEN node[x] ELSE surface(x)
           growth == Growth(decks, m, files)
<1>1. growth.nodes = {[id |-> node[x], x |-> x] : x \in fresh}
      /\ growth.cells = {[id |-> elem[Min(t)], ends |-> {idOf(x) : x \in t}] : t \in kept}
  BY DEF Growth
<1>2. PICK t \in kept : c = [id |-> elem[Min(t)], ends |-> {idOf(x) : x \in t}]
  BY <1>1
<1>3. \A x \in least : elem[x] \in Int /\ elem[x] > TopElemId(decks)
  <2>1. Places(least) /\ TopElemId(decks) \in Nat \ {0}
    BY KeptPlaces, TopsOfDecks
  <2> HIDE DEF least
  <2> QED
    BY <2>1, AllocatedIds
<1>4. PICK ids : ids = [x \in t |-> idOf(x)]
  OBVIOUS
<1>5. c.ends = {ids[x] : x \in t} /\ c.id = elem[Min(t)] /\ Min(t) \in least
  BY <1>2, <1>4
<1>6. ASSUME NEW x \in t
      PROVE  \/ [id |-> ids[x], x |-> x] \in growth.nodes
             \/ ids[x] \in SurfaceNodes(part.cells) /\ RowOf(part, ids[x]).x = x
  <2>1. CASE x \in fresh
    <3>1. ids[x] = node[x]
      BY <1>4, <2>1
    <3> QED
      BY <1>1, <2>1, <3>1
  <2>2. CASE x \notin fresh
    <3>1. x \in UNION kept
      BY <1>2
    <3>2. x \in SurfaceCoords(part)
      BY <2>2, <3>1
    <3>3. \E n \in SurfaceNodes(part.cells) : RowOf(part, n).x = x
      BY <3>2 DEF SurfaceCoords
    <3>4. surface(x) \in SurfaceNodes(part.cells) /\ RowOf(part, surface(x)).x = x
      BY <3>3
    <3>5. ids[x] = surface(x)
      BY <1>4, <2>2
    <3> QED
      BY <3>4, <3>5
  <2> QED
    BY <2>1, <2>2
<1>7. c.id \in Int /\ c.id > TopElemId(decks)
  BY <1>3, <1>5
<1>8. Covers(part, growth, c, t, ids)
  BY <1>5, <1>6 DEF Covers
<1> QED
  BY <1>7, <1>8

(* The extended deck of one load case.                                     *)
Grown(source, m, files, k) ==
  Extended(source[k], Growth(source, m, files).nodes, Growth(source, m, files).cells)

LEMMA GrownFields ==
  ASSUME NEW decks, AreDecks(decks), NEW m, NEW files, Preparable(decks[1], m, files),
         NEW k \in DOMAIN decks, NEW e, e = Grown(decks, m, files, k)
  PROVE  /\ IsDeck(decks[k]) /\ IsDeck(e)
         /\ e.nodes = decks[k].nodes \cup Growth(decks, m, files).nodes
         /\ e.cells = decks[k].cells \cup Growth(decks, m, files).cells
         /\ e.cards = decks[k].cards /\ e.skews = decks[k].skews
<1>1. IsDeck(decks[k])
  BY DEF AreDecks
<1>2. IsDeck(e)
  BY ExtendedIsDeck DEF Grown
<1> QED
  BY <1>1, <1>2, ExtendedFields DEF Grown

(* On one mesh a new cell has its nodes in every extended deck, at the     *)
(* places of the cell that was kept.                                       *)
LiesAt(e, c, t, at) ==
  /\ c.ends \in SUBSET NodeIds(e) /\ Coords(e, c) = t
  /\ \A n \in c.ends : RowOf(e, n).x = at[n]

LEMMA NewCellsLie ==
  ASSUME NEW decks, AreDecks(decks), OneMesh(decks), NEW m, NEW files,
         Preparable(decks[1], m, files),
         NEW c \in Growth(decks, m, files).cells
  PROVE  \E t \in Kept(decks[1], m, files) : \E at :
           \A k \in DOMAIN decks : LiesAt(Grown(decks, m, files, k), c, t, at)
<1> DEFINE new == Growth(decks, m, files)
<1>1. PICK t \in Kept(decks[1], m, files) : \E ids : Covers(decks[1], new, c, t, ids)
  BY GrowthCovers
<1>2. PICK ids : Covers(decks[1], new, c, t, ids)
  BY <1>1
<1>3. /\ c.ends = {ids[x] : x \in t}
      /\ \A x \in t : \/ [id |-> ids[x], x |-> x] \in new.nodes
                      \/ /\ ids[x] \in SurfaceNodes(decks[1].cells)
                         /\ RowOf(decks[1], ids[x]).x = x
  BY <1>2 DEF Covers
<1>4. ASSUME NEW k \in DOMAIN decks, NEW x \in t
      PROVE  LET e == Grown(decks, m, files, k)
             IN  ids[x] \in NodeIds(e) /\ RowOf(e, ids[x]).x = x
  <2>1. PICK e : e = Grown(decks, m, files, k)
    OBVIOUS
  <2>2. /\ IsDeck(decks[k]) /\ IsDeck(e)
        /\ e.nodes = decks[k].nodes \cup Growth(decks, m, files).nodes
    BY <2>1, GrownFields
  <2>3. CASE [id |-> ids[x], x |-> x] \in Growth(decks, m, files).nodes
    <3>1. PICK r : r = [id |-> ids[x], x |-> x]
      OBVIOUS
    <3>2. r \in e.nodes /\ r.id = ids[x] /\ r.x = x
      BY <2>2, <2>3, <3>1
    <3>3. RowOf(e, r.id) = r /\ r.id \in NodeIds(e)
      BY <2>2, <3>2, RowIs
    <3> QED
      BY <2>1, <3>2, <3>3
  <2>4. CASE ids[x] \in SurfaceNodes(decks[1].cells) /\ RowOf(decks[1], ids[x]).x = x
    <3>1. ids[x] \in NodesUnder(decks[1].cells)
      BY <2>4 DEF SurfaceNodes
    <3>2. ids[x] \in NodeIds(decks[k]) /\ RowOf(decks[k], ids[x]).x = x
      BY <2>4, <3>1 DEF OneMesh
    <3>3. RowOf(e, ids[x]) = RowOf(decks[k], ids[x]) /\ ids[x] \in NodeIds(e)
      BY <2>2, <3>2, RowStays
    <3> QED
      BY <2>1, <3>2, <3>3
  <2> QED
    BY <1>3, <2>3, <2>4
<1>5. ASSUME NEW n \in c.ends PROVE \E x \in t : ids[x] = n
  BY <1>3
<1> DEFINE at == [n \in c.ends |-> CHOOSE x \in t : ids[x] = n]
<1>6. \A n \in c.ends : at[n] \in t /\ ids[at[n]] = n
  BY <1>5
<1> HIDE DEF at
<1>7. ASSUME NEW k \in DOMAIN decks
      PROVE  LiesAt(Grown(decks, m, files, k), c, t, at)
  <2>1. PICK e : e = Grown(decks, m, files, k)
    OBVIOUS
  <2>2. \A x \in t : ids[x] \in NodeIds(e) /\ RowOf(e, ids[x]).x = x
    BY <1>4, <2>1
  <2>3. \A n \in c.ends : RowOf(e, n).x = at[n] /\ n \in NodeIds(e)
    BY <1>6, <2>2
  <2>4. Coords(e, c) = t
    <3>1. \A x \in t : ids[x] \in c.ends /\ RowOf(e, ids[x]).x = x
      BY <1>3, <2>2
    <3> QED
      BY <1>6, <2>3, <3>1 DEF Coords
  <2> QED
    BY <2>1, <2>3, <2>4 DEF LiesAt
<1> QED
  BY <1>7

(* Decks on one mesh, extended alike, are on one mesh.                     *)
LEMMA GrownOnOneMesh ==
  ASSUME NoneIsNoFunction,
         NEW decks, AreDecks(decks), OneMesh(decks), NEW m, NEW files,
         Preparable(decks[1], m, files),
         NEW grown, grown = [k \in DOMAIN decks |-> Grown(decks, m, files, k)]
  PROVE  OneMesh(grown)
<1>1. 1 \in DOMAIN decks
  BY DEF AreDecks
<1>2. PICK new : new = Growth(decks, m, files)
  OBVIOUS
<1>3. ASSUME NEW k \in DOMAIN decks
      PROVE  /\ IsDeck(decks[k]) /\ IsDeck(grown[k]) /\ grown[k] = Grown(decks, m, files, k)
             /\ grown[k].nodes = decks[k].nodes \cup new.nodes
             /\ grown[k].cells = decks[k].cells \cup new.cells
  <2>1. PICK e : e = Grown(decks, m, files, k)
    OBVIOUS
  <2>2. grown[k] = e
    BY <2>1
  <2> QED
    BY <1>2, <2>1, <2>2, GrownFields
<1>4. ASSUME NEW k \in DOMAIN decks PROVE grown[k].cells = grown[1].cells
  <2>1. decks[k].cells = decks[1].cells
    BY DEF OneMesh
  <2> QED
    BY <1>1, <1>3, <2>1
<1>5. ASSUME NEW k \in DOMAIN decks, NEW n \in NodesUnder(grown[1].cells)
      PROVE  n \in NodeIds(grown[k]) /\ RowOf(grown[k], n).x = RowOf(grown[1], n).x
  <2>1. PICK c \in grown[1].cells : n \in c.ends
    BY DEF NodesUnder
  <2>2. CASE c \in decks[1].cells
    <3>1. n \in NodesUnder(decks[1].cells)
      BY <2>1, <2>2 DEF NodesUnder
    <3>2. /\ n \in NodeIds(decks[k]) /\ n \in NodeIds(decks[1])
          /\ RowOf(decks[k], n).x = RowOf(decks[1], n).x
      BY <1>1, <3>1 DEF OneMesh
    <3>3. RowOf(grown[k], n) = RowOf(decks[k], n) /\ n \in NodeIds(grown[k])
      <4>1. decks[k].nodes \in SUBSET grown[k].nodes
        BY <1>3
      <4> QED
        BY <1>3, <3>2, <4>1, RowStays
    <3>4. RowOf(grown[1], n) = RowOf(decks[1], n)
      <4>1. decks[1].nodes \in SUBSET grown[1].nodes /\ IsDeck(decks[1]) /\ IsDeck(grown[1])
        BY <1>1, <1>3
      <4> QED
        BY <3>2, <4>1, RowStays
    <3> QED
      BY <3>2, <3>3, <3>4
  <2>3. CASE c \in new.cells
    <3>1. PICK t, at : \A j \in DOMAIN decks : LiesAt(Grown(decks, m, files, j), c, t, at)
      BY <1>2, <2>3, NewCellsLie
    <3>2. LiesAt(grown[k], c, t, at) /\ LiesAt(grown[1], c, t, at)
      BY <1>1, <1>3, <3>1
    <3> QED
      BY <2>1, <3>2 DEF LiesAt
  <2> QED
    BY <1>1, <1>3, <2>1, <2>2, <2>3
<1>6. \A k \in DOMAIN decks : grown[k] # None
  BY <1>3, DeckIsSomething
<1> QED
  BY <1>4, <1>5, <1>6 DEF OneMesh

(* With the recorded boundary the new cells all start void, and of the     *)
(* part only what the regions carve does.                                  *)
LEMMA GrownPart ==
  ASSUME NEW decks, AreDecks(decks), OneMesh(decks), NEW m, IsModel(m), m.enabled, NEW files,
         Preparable(decks[1], m, files), NEW e, e = Grown(decks, m, files, 1),
         NEW n, n = Bounded(m, TopElemId(decks))
  PROVE  e.cells \ Candidates(e, n, files) = decks[1].cells \ Carved(decks[1], m, files)
<1> DEFINE part == decks[1]
           new  == Growth(decks, m, files).cells
           top  == TopElemId(decks)
<1>1. 1 \in DOMAIN decks
  BY DEF AreDecks
<1>2. /\ IsDeck(part) /\ IsDeck(e) /\ part.nodes \in SUBSET e.nodes
      /\ e.cells = part.cells \cup new /\ e.cards = part.cards /\ e.skews = part.skews
  BY <1>1, GrownFields
<1>3. top \in Nat \ {0} /\ top # None
  BY TopsOfDecks, NoneAssumption
<1>4. n.bound = top /\ ActiveRegions(n) = Regions(m)
  BY BoundedModel DEF ActiveRegions
<1> HIDE DEF new, top, part
<1>5. ASSUME NEW r \in Regions(m) PROVE Space(e, r, files) = Space(part, r, files)
  <2>1. Box(e, r.ref) = Box(part, r.ref)
    BY <1>2 DEF Box
  <2> QED
    BY <2>1 DEF Space
<1>6. ASSUME NEW c \in part.cells PROVE Centroid(e, c) = Centroid(part, c)
  <2>1. ASSUME NEW k \in c.ends PROVE RowOf(e, k) = RowOf(part, k)
    <3>1. k \in NodeIds(part)
      BY <1>1, <2>1 DEF OneMesh, NodesUnder, part
    <3> QED
      BY <1>2, <3>1, RowStays
  <2>2. Coords(e, c) = Coords(part, c)
    BY <2>1 DEF Coords
  <2> QED
    BY <2>2 DEF Centroid
<1>7. ASSUME NEW c
      PROVE  c \in Candidates(e, n, files) <=>
               \E r \in Positive(Regions(m)) : /\ c \in e.cells
                                               /\ Centroid(e, c) \in Space(part, r, files)
                                               /\ ~r.carve => c.id > top
  <2>1. ASSUME NEW r \in Positive(Regions(m))
        PROVE  c \in RegionCandidates(e, r, n, files) <=>
                 /\ c \in e.cells /\ Centroid(e, c) \in Space(part, r, files)
                 /\ ~r.carve => c.id > top
    <3>1. Space(e, r, files) = Space(part, r, files)
      BY <1>5, <2>1 DEF Positive
    <3>2. Spares(r, n) <=> ~r.carve
      BY <1>3, <1>4 DEF Spares
    <3> QED
      BY <1>4, <3>1, <3>2 DEF RegionCandidates, InSpace
  <2>2. c \in Candidates(e, n, files) <=>
          \E r \in Positive(Regions(m)) : c \in RegionCandidates(e, r, n, files)
    BY <1>4 DEF Candidates
  <2> QED
    BY <2>1, <2>2
<1>8. ASSUME NEW c \in new PROVE c \in Candidates(e, n, files)
  <2>1. c.id > top
    BY <1>8, GrowthCovers DEF new, top, part
  <2>2. PICK t \in Kept(part, m, files) : \E at : LiesAt(e, c, t, at)
    <3>1. \E t \in Kept(part, m, files) : \E at :
            \A k \in DOMAIN decks : LiesAt(Grown(decks, m, files, k), c, t, at)
      BY <1>8, NewCellsLie DEF new, part
    <3> QED
      BY <1>1, <3>1
  <2>3. Centroid(e, c) = Middle(t)
    BY <2>2 DEF LiesAt, Centroid, Middle
  <2>4. PICK r \in Positive(Regions(m)) : Middle(t) \in Space(part, r, files)
    BY DEF Kept, InRegions
  <2> QED
    BY <1>2, <1>7, <2>1, <2>3, <2>4
<1>9. ASSUME NEW c \in part.cells
      PROVE  c \in Candidates(e, n, files) <=> c \in Carved(part, m, files)
  <2>1. ~(c.id > top)
    BY <1>3, <1>9, TopElements DEF part, top
  <2>2. c \in Candidates(e, n, files) <=>
          \E r \in Positive(Regions(m)) : r.carve /\ Centroid(part, c) \in Space(part, r, files)
    BY <1>2, <1>6, <1>7, <2>1
  <2>3. c \in Carved(part, m, files) <=>
          \E r \in Positive(Regions(m)) : r.carve /\ Centroid(part, c) \in Space(part, r, files)
    BY DEF Carved, InSpace
  <2> QED
    BY <2>2, <2>3
<1> QED
  BY <1>2, <1>8, <1>9 DEF part

-----------------------------------------------------------------------------
(* Configurations: what is loaded, shown and saved.                        *)

CaseRows == [stem : CaseStems, weight : Int, sigma : Int \cup {None},
             node : Int \cup {None}, limit : Int \cup {None},
             disps : SUBSET [node : Int \cup {None}, limit : Int \cup {None}]]

LEMMA FoldedRow ==
  ASSUME NEW row \in CaseRows
  PROVE  /\ FoldedCase(row) \in CaseRows
         /\ FoldedCase(row).node = None /\ FoldedCase(row).limit = None
         /\ row.node = None /\ row.limit = None => FoldedCase(row) = row
<1>1. row = [stem |-> row.stem, weight |-> row.weight, sigma |-> row.sigma,
             node |-> row.node, limit |-> row.limit, disps |-> row.disps]
      /\ row.stem \in CaseStems /\ row.weight \in Int /\ row.sigma \in Int \cup {None}
      /\ row.node \in Int \cup {None} /\ row.limit \in Int \cup {None}
      /\ row.disps \in SUBSET [node : Int \cup {None}, limit : Int \cup {None}]
  BY DEF CaseRows
<1> DEFINE old == [node |-> row.node, limit |-> row.limit]
           disps == IF row.disps = {} /\ row.node # None THEN {old} ELSE row.disps
<1>2. FoldedCase(row) = [stem |-> row.stem, weight |-> row.weight, sigma |-> row.sigma,
                         node |-> None, limit |-> None, disps |-> disps]
  <2>1. PICK some : some = disps
    OBVIOUS
  <2>2. FoldedCase(row) = [[[row EXCEPT !.disps = some] EXCEPT !.node = None] EXCEPT !.limit = None]
    BY <2>1 DEF FoldedCase
  <2>3. PICK f : f = [row EXCEPT !.disps = some]
    OBVIOUS
  <2>4. f = [stem |-> row.stem, weight |-> row.weight, sigma |-> row.sigma,
             node |-> row.node, limit |-> row.limit, disps |-> some]
    BY <1>1, <2>3
  <2>5. PICK g : g = [f EXCEPT !.node = None]
    OBVIOUS
  <2>6. g = [stem |-> row.stem, weight |-> row.weight, sigma |-> row.sigma,
             node |-> None, limit |-> row.limit, disps |-> some]
    BY <2>4, <2>5
  <2>7. FoldedCase(row) = [g EXCEPT !.limit = None]
    BY <2>2, <2>3, <2>5
  <2> HIDE DEF disps
  <2> QED
    BY <2>1, <2>6, <2>7
<1>3. old \in [node : Int \cup {None}, limit : Int \cup {None}]
  BY <1>1
<1>4. disps \in SUBSET [node : Int \cup {None}, limit : Int \cup {None}]
  BY <1>1, <1>3
<1>5. row.node = None => disps = row.disps
  OBVIOUS
<1> HIDE DEF disps
<1>6. FoldedCase(row) \in CaseRows
  BY <1>1, <1>2, <1>4 DEF CaseRows
<1> QED
  BY <1>1, <1>2, <1>5, <1>6

LEMMA RowsAreSeq ==
  ASSUME NEW rows, AreRows(rows, CaseStems)
  PROVE  /\ Len(rows) \in Nat /\ DOMAIN rows = 1..Len(rows)
         /\ rows = [i \in 1..Len(rows) |-> rows[i]]
         /\ \A i \in 1..Len(rows) : rows[i] \in CaseRows
<1>1. rows \in Seq(CaseRows)
  BY DEF AreRows, CaseRows
<1> QED
  BY <1>1

LEMMA FoldedRows ==
  ASSUME NEW rows, AreRows(rows, CaseStems), NEW cases,
         cases = [i \in DOMAIN rows |-> FoldedCase(rows[i])]
  PROVE  /\ AreRows(cases, CaseStems) /\ Folded(cases)
         /\ Folded(rows) => cases = rows
<1>1. Len(rows) \in Nat /\ DOMAIN rows = 1..Len(rows)
      /\ rows = [i \in 1..Len(rows) |-> rows[i]]
      /\ \A i \in 1..Len(rows) : rows[i] \in CaseRows
  BY RowsAreSeq
<1>2. cases = [i \in 1..Len(rows) |-> FoldedCase(rows[i])]
      /\ \A i \in 1..Len(rows) : cases[i] \in CaseRows
  BY <1>1, FoldedRow
<1>3. cases \in Seq(CaseRows)
  BY <1>1, <1>2
<1>4. Folded(cases)
  BY <1>1, <1>2, FoldedRow DEF Folded
<1>5. ASSUME Folded(rows) PROVE cases = rows
  <2>1. \A i \in 1..Len(rows) : FoldedCase(rows[i]) = rows[i]
    BY <1>1, <1>5, FoldedRow DEF Folded
  <2> QED
    BY <1>1, <1>2, <2>1
<1> QED
  BY <1>3, <1>4, <1>5 DEF AreRows, CaseRows

(* A configuration in memory.                                              *)
IsConfig(cfg) ==
  /\ cfg = [model |-> cfg.model, optimizer |-> cfg.optimizer, knobs |-> cfg.knobs,
            run |-> cfg.run, cases |-> cfg.cases]
  /\ IsModel(cfg.model)
  /\ AreRows(cfg.cases, CaseStems) /\ Folded(cfg.cases) /\ AreSlots(cfg.run.slots)

LEMMA LoadedIsConfig ==
  ASSUME NEW raw, IsFile(raw)
  PROVE  IsConfig(Loaded(raw)) /\ Loaded(raw).model = raw.model
<1>1. AreRows(MigratedRows(raw), CaseStems)
  <2>1. CASE raw.rows # <<>>
    BY <2>1 DEF MigratedRows, IsFile
  <2>2. CASE raw.rows = <<>> /\ raw.legacy = None
    BY <2>2 DEF MigratedRows, AreRows
  <2>3. CASE raw.rows = <<>> /\ raw.legacy # None
    <3> DEFINE row == [stem |-> raw.legacy.stem, weight |-> 100, sigma |-> raw.legacy.sigma,
                       node |-> raw.legacy.node, limit |-> raw.legacy.limit, disps |-> {}]
    <3>1. raw.legacy.stem \in CaseStems /\ raw.legacy.node \in Int \cup {None}
          /\ raw.legacy.sigma \in Int \cup {None} /\ raw.legacy.limit \in Int \cup {None}
      BY <2>3 DEF IsFile
    <3>2. row \in CaseRows
      BY <3>1 DEF CaseRows
    <3>3. MigratedRows(raw) = <<row>>
      BY <2>3 DEF MigratedRows
    <3> HIDE DEF row
    <3> QED
      BY <3>2, <3>3 DEF AreRows, CaseRows
  <2> QED
    BY <2>1, <2>2, <2>3
<1>2. PICK cases : cases = [i \in DOMAIN MigratedRows(raw) |-> FoldedCase(MigratedRows(raw)[i])]
  OBVIOUS
<1>3. AreRows(cases, CaseStems) /\ Folded(cases)
  BY <1>1, <1>2, FoldedRows
<1>4. Loaded(raw) = [model |-> raw.model, optimizer |-> raw.optimizer, knobs |-> raw.knobs,
                     run |-> raw.run, cases |-> cases]
  BY <1>2 DEF Loaded
<1>5. IsModel(raw.model) /\ AreSlots(raw.run.slots)
  BY DEF IsFile
<1> QED
  BY <1>3, <1>4, <1>5 DEF IsConfig

(* What Save writes is loaded as it was.                                   *)
LEMMA SavedLoads ==
  ASSUME NEW cfg, IsConfig(cfg)
  PROVE  /\ IsFile(ToYaml(cfg)) /\ Loaded(ToYaml(cfg)) = cfg
         /\ ToYaml(cfg).model = cfg.model
<1> DEFINE raw == ToYaml(cfg)
<1>1. /\ raw.model = cfg.model /\ raw.optimizer = cfg.optimizer /\ raw.knobs = cfg.knobs
      /\ raw.run = cfg.run /\ raw.rows = cfg.cases /\ raw.legacy = None
      /\ raw = [model |-> raw.model, optimizer |-> raw.optimizer, knobs |-> raw.knobs,
                run |-> raw.run, rows |-> raw.rows, legacy |-> raw.legacy,
                unknown |-> raw.unknown]
  BY DEF ToYaml
<1> HIDE DEF raw
<1>2. IsFile(raw)
  BY <1>1 DEF IsFile, IsConfig
<1>3. MigratedRows(raw) = cfg.cases
  BY <1>1 DEF MigratedRows
<1>4. PICK cases : cases = [i \in DOMAIN cfg.cases |-> FoldedCase(cfg.cases[i])]
  OBVIOUS
<1>5. cases = cfg.cases
  BY <1>4, FoldedRows DEF IsConfig
<1>6. Loaded(raw) = [model |-> cfg.model, optimizer |-> cfg.optimizer, knobs |-> cfg.knobs,
                     run |-> cfg.run, cases |-> cfg.cases]
  BY <1>1, <1>3, <1>4, <1>5 DEF Loaded
<1>7. Loaded(raw) = cfg
  BY <1>6 DEF IsConfig
<1> QED
  BY <1>1, <1>2, <1>7 DEF raw

(* The page: what it keeps, and the lists its tables say.                  *)
FormOK(f) ==
  /\ f = [tables |-> f.tables, dir |-> f.dir, filledDir |-> f.filledDir,
          settings |-> f.settings, widget |-> f.widget, seed |-> f.seed, stash |-> f.stash,
          saved |-> f.saved, lost |-> f.lost]
  /\ AreRegions(BoxesOf(f.tables)) /\ AreSettings(f.settings)
  /\ f.dir \in Dirs /\ f.widget \in Nat /\ f.seed \in Nat \cup {None}
  /\ f.stash \in (Nat \ {0}) \cup {None}
  /\ f.saved \in BOOLEAN /\ f.lost \in BOOLEAN

(* A page that has just been run: its fields follow the file.              *)
Settled(f, raw) ==
  /\ f.filledDir = raw.model.dir
  /\ ShowsBoundary(f, raw) =>
       /\ f.stash = None
       /\ f.seed = IF raw.model.bound = None THEN 0 ELSE raw.model.bound
  /\ ~ShowsBoundary(f, raw) /\ ~f.lost => f.seed = None /\ f.stash = None

(* The model that the page writes back.                                    *)
ShownModel(f, raw) ==
  [raw.model EXCEPT
     !.dir = f.dir,
     !.regions = IF raw.model.enabled THEN BoxesOf(f.tables) ELSE raw.model.regions,
     !.bound = IF ~ShowsBoundary(f, raw) THEN raw.model.bound
               ELSE IF f.widget = 0 THEN None ELSE f.widget]


(* The page after the next run of it.                                      *)
LEMMA RenderedPage ==
  ASSUME NEW f, FormOK(f), NEW raw, IsModel(raw.model), NEW g, g = Rendered(f, raw)
  PROVE  /\ FormOK(g) /\ Settled(g, raw)
         /\ g.tables = f.tables /\ g.settings = f.settings /\ g.saved = f.saved
         /\ g.dir = IF f.filledDir = raw.model.dir THEN f.dir ELSE raw.model.dir
         /\ ShowsBoundary(g, raw) = ShowsBoundary(f, raw)
         /\ ShowsBoundary(f, raw) => g.lost = f.lost
         /\ ShowsBoundary(f, raw) /\ f.stash # None => g.widget = f.stash
         /\ ShowsBoundary(f, raw) /\ f.stash = None =>
              LET bound == IF raw.model.bound = None THEN 0 ELSE raw.model.bound
              IN  g.widget = IF f.seed = bound THEN f.widget ELSE bound
         /\ f.lost \/ (~ShowsBoundary(f, raw) /\ (f.seed # None \/ f.stash # None)) => g.lost
<1> DEFINE bound  == IF raw.model.bound = None THEN 0 ELSE raw.model.bound
           leaves == f.seed # None \/ f.stash # None
<1>1. PICK dir : dir = IF f.filledDir = raw.model.dir THEN f.dir ELSE raw.model.dir
  OBVIOUS
<1>2. f = [tables |-> f.tables, dir |-> f.dir, filledDir |-> f.filledDir,
           settings |-> f.settings, widget |-> f.widget, seed |-> f.seed, stash |-> f.stash,
           saved |-> f.saved, lost |-> f.lost]
  BY DEF FormOK
<1>3. PICK filled : filled = [tables |-> f.tables, dir |-> dir, filledDir |-> raw.model.dir,
                              settings |-> f.settings, widget |-> f.widget, seed |-> f.seed,
                              stash |-> f.stash, saved |-> f.saved, lost |-> f.lost]
  OBVIOUS
<1>4. filled = IF f.filledDir = raw.model.dir THEN f
               ELSE [f EXCEPT !.filledDir = raw.model.dir, !.dir = raw.model.dir]
  <2>1. CASE f.filledDir = raw.model.dir
    BY <1>1, <1>2, <1>3, <2>1
  <2>2. CASE f.filledDir # raw.model.dir
    <3>1. PICK h : h = [f EXCEPT !.filledDir = raw.model.dir]
      OBVIOUS
    <3>2. h = [tables |-> f.tables, dir |-> f.dir, filledDir |-> raw.model.dir,
               settings |-> f.settings, widget |-> f.widget, seed |-> f.seed,
               stash |-> f.stash, saved |-> f.saved, lost |-> f.lost]
      BY <1>2, <3>1
    <3>3. [h EXCEPT !.dir = raw.model.dir] = filled
      BY <1>1, <1>3, <2>2, <3>2
    <3> QED
      BY <2>2, <3>1, <3>3
  <2> QED
    BY <2>1, <2>2
<1>5. PICK widget, seed :
        /\ widget = IF f.seed = bound THEN f.widget ELSE bound
        /\ seed = bound
  OBVIOUS
<1>6. PICK seeded : seeded = [tables |-> f.tables, dir |-> dir, filledDir |-> raw.model.dir,
                              settings |-> f.settings, widget |-> widget, seed |-> seed,
                              stash |-> f.stash, saved |-> f.saved, lost |-> f.lost]
  OBVIOUS
<1>7. seeded = IF f.seed = bound THEN filled
               ELSE [filled EXCEPT !.seed = bound, !.widget = bound]
  <2>1. CASE f.seed = bound
    BY <1>3, <1>5, <1>6, <2>1
  <2>2. CASE f.seed # bound
    <3>1. PICK h : h = [filled EXCEPT !.seed = seed]
      OBVIOUS
    <3>2. h = [tables |-> f.tables, dir |-> dir, filledDir |-> raw.model.dir,
               settings |-> f.settings, widget |-> f.widget, seed |-> seed,
               stash |-> f.stash, saved |-> f.saved, lost |-> f.lost]
      BY <1>3, <3>1
    <3>3. [h EXCEPT !.widget = widget] = seeded
      BY <1>6, <3>2
    <3> QED
      BY <1>5, <2>2, <3>1, <3>3
  <2> QED
    BY <2>1, <2>2
<1>8. g = IF ~ShowsBoundary(f, raw) THEN [filled EXCEPT !.widget = 0, !.lost = @ \/ leaves]
          ELSE IF f.stash = None THEN seeded
          ELSE [seeded EXCEPT !.widget = f.stash, !.stash = None]
  BY <1>4, <1>7, Zenon DEF Rendered
<1>9. bound \in Nat /\ raw.model.dir \in Dirs /\ None \notin Nat
  BY NoneAssumption DEF IsModel
<1>10. ASSUME NEW w, NEW s, NEW p, NEW l,
              g = [tables |-> f.tables, dir |-> dir, filledDir |-> raw.model.dir,
                   settings |-> f.settings, widget |-> w, seed |-> s,
                   stash |-> p, saved |-> f.saved, lost |-> l],
              w \in Nat, s \in Nat \cup {None}, p \in (Nat \ {0}) \cup {None}, l \in BOOLEAN
       PROVE  /\ FormOK(g) /\ ShowsBoundary(g, raw) = ShowsBoundary(f, raw)
              /\ g.tables = f.tables /\ g.settings = f.settings /\ g.saved = f.saved
              /\ g.dir = dir /\ g.filledDir = raw.model.dir
              /\ g.widget = w /\ g.seed = s /\ g.stash = p /\ g.lost = l
  <2>1. /\ g.tables = f.tables /\ g.settings = f.settings /\ g.saved = f.saved
        /\ g.dir = dir /\ g.filledDir = raw.model.dir
        /\ g.widget = w /\ g.seed = s /\ g.stash = p /\ g.lost = l
        /\ g = [tables |-> g.tables, dir |-> g.dir, filledDir |-> g.filledDir,
                settings |-> g.settings, widget |-> g.widget, seed |-> g.seed,
                stash |-> g.stash, saved |-> g.saved, lost |-> g.lost]
    BY <1>10
  <2>2. dir \in Dirs
    BY <1>1, <1>9 DEF FormOK
  <2>3. ShowsBoundary(g, raw) = ShowsBoundary(f, raw)
    BY <2>1 DEF ShowsBoundary
  <2>4. FormOK(g)
    BY <1>10, <2>1, <2>2 DEF FormOK
  <2> QED
    BY <2>1, <2>3, <2>4
<1> HIDE DEF bound, leaves
<1>11. CASE ~ShowsBoundary(f, raw)
  <2>1. PICK l : l = (f.lost \/ leaves)
    OBVIOUS
  <2>2. l \in BOOLEAN
    BY <2>1 DEF FormOK, leaves
  <2>3. PICK h : h = [filled EXCEPT !.widget = 0]
    OBVIOUS
  <2>4. h = [tables |-> f.tables, dir |-> dir, filledDir |-> raw.model.dir,
             settings |-> f.settings, widget |-> 0, seed |-> f.seed,
             stash |-> f.stash, saved |-> f.saved, lost |-> f.lost]
    BY <1>3, <2>3
  <2>5. g = [h EXCEPT !.lost = @ \/ leaves]
    BY <1>8, <1>11, <2>3
  <2>6. g = [tables |-> f.tables, dir |-> dir, filledDir |-> raw.model.dir,
             settings |-> f.settings, widget |-> 0, seed |-> f.seed,
             stash |-> f.stash, saved |-> f.saved, lost |-> l]
    BY <2>1, <2>4, <2>5
  <2>7. /\ FormOK(g) /\ ShowsBoundary(g, raw) = ShowsBoundary(f, raw)
        /\ g.tables = f.tables /\ g.settings = f.settings /\ g.saved = f.saved
        /\ g.dir = dir /\ g.filledDir = raw.model.dir
        /\ g.seed = f.seed /\ g.stash = f.stash /\ g.lost = l
    BY <1>10, <2>2, <2>6 DEF FormOK
  <2>8. Settled(g, raw)
    BY <1>11, <2>1, <2>7 DEF Settled, leaves
  <2> QED
    BY <1>1, <1>11, <2>1, <2>7, <2>8 DEF leaves
<1>12. CASE ShowsBoundary(f, raw) /\ f.stash = None
  <2>1. g = seeded
    BY <1>8, <1>12
  <2>2. widget \in Nat /\ seed \in Nat
    BY <1>5, <1>9 DEF FormOK
  <2>3. /\ FormOK(g) /\ ShowsBoundary(g, raw) = ShowsBoundary(f, raw)
        /\ g.tables = f.tables /\ g.settings = f.settings /\ g.saved = f.saved
        /\ g.dir = dir /\ g.filledDir = raw.model.dir
        /\ g.widget = widget /\ g.seed = seed /\ g.stash = f.stash /\ g.lost = f.lost
    BY <1>6, <1>10, <2>1, <2>2 DEF FormOK
  <2>4. Settled(g, raw)
    BY <1>5, <1>12, <2>3 DEF Settled, bound
  <2> QED
    BY <1>1, <1>5, <1>12, <2>3, <2>4 DEF bound
<1>13. CASE ShowsBoundary(f, raw) /\ f.stash # None
  <2>1. PICK h : h = [seeded EXCEPT !.widget = f.stash]
    OBVIOUS
  <2>2. h = [tables |-> f.tables, dir |-> dir, filledDir |-> raw.model.dir,
             settings |-> f.settings, widget |-> f.stash, seed |-> seed,
             stash |-> f.stash, saved |-> f.saved, lost |-> f.lost]
    BY <1>6, <2>1
  <2>3. g = [h EXCEPT !.stash = None]
    BY <1>8, <1>13, <2>1
  <2>4. g = [tables |-> f.tables, dir |-> dir, filledDir |-> raw.model.dir,
             settings |-> f.settings, widget |-> f.stash, seed |-> seed,
             stash |-> None, saved |-> f.saved, lost |-> f.lost]
    BY <2>2, <2>3
  <2>5. f.stash \in Nat /\ seed \in Nat
    BY <1>5, <1>9, <1>13 DEF FormOK
  <2>6. /\ FormOK(g) /\ ShowsBoundary(g, raw) = ShowsBoundary(f, raw)
        /\ g.tables = f.tables /\ g.settings = f.settings /\ g.saved = f.saved
        /\ g.dir = dir /\ g.filledDir = raw.model.dir
        /\ g.widget = f.stash /\ g.seed = seed /\ g.stash = None /\ g.lost = f.lost
    BY <1>10, <2>4, <2>5 DEF FormOK
  <2>7. Settled(g, raw)
    BY <1>5, <1>13, <2>6 DEF Settled, bound
  <2> QED
    BY <1>1, <1>13, <2>6, <2>7
<1> QED
  BY <1>11, <1>12, <1>13


(* What the page writes back is a configuration: the file's model with the *)
(* fields of the page, and the settings of the page.                       *)
LEMMA ShownModelIsModel ==
  ASSUME NEW f, FormOK(f), NEW raw, IsModel(raw.model)
  PROVE  /\ IsModel(ShownModel(f, raw))
         /\ ShownModel(f, raw).dir = f.dir /\ ShownModel(f, raw).enabled = raw.model.enabled
<1> DEFINE m == raw.model
<1>1. PICK dir, regions, bound :
        /\ dir = f.dir
        /\ regions = IF m.enabled THEN BoxesOf(f.tables) ELSE m.regions
        /\ bound = IF ~ShowsBoundary(f, raw) THEN m.bound
                   ELSE IF f.widget = 0 THEN None ELSE f.widget
  OBVIOUS
<1>2. dir \in Dirs /\ AreRegions(regions) /\ bound \in (Nat \ {0}) \cup {None}
  <2>1. dir \in Dirs
    BY <1>1 DEF FormOK
  <2>2. AreRegions(regions)
    BY <1>1 DEF FormOK, IsModel
  <2>3. f.widget \in Nat /\ m.bound \in (Nat \ {0}) \cup {None}
    BY DEF FormOK, IsModel
  <2>4. bound \in (Nat \ {0}) \cup {None}
    BY <1>1, <2>3
  <2> QED
    BY <2>1, <2>2, <2>4
<1>3. m = [dir |-> m.dir, enabled |-> m.enabled, regions |-> m.regions, bound |-> m.bound,
           keepOut |-> m.keepOut, keepOutParts |-> m.keepOutParts,
           keepOutClearance |-> m.keepOutClearance, bcGroup |-> m.bcGroup,
           freezeGroups |-> m.freezeGroups, excludeGroups |-> m.excludeGroups]
      /\ m.enabled \in BOOLEAN
  BY DEF IsModel
<1>4. PICK n : n = ShownModel(f, raw)
  OBVIOUS
<1>5. n = [[[m EXCEPT !.dir = dir] EXCEPT !.regions = regions] EXCEPT !.bound = bound]
  BY <1>1, <1>4 DEF ShownModel
<1> HIDE DEF m
<1>6. n = [dir |-> dir, enabled |-> m.enabled, regions |-> regions, bound |-> bound,
           keepOut |-> m.keepOut, keepOutParts |-> m.keepOutParts,
           keepOutClearance |-> m.keepOutClearance, bcGroup |-> m.bcGroup,
           freezeGroups |-> m.freezeGroups, excludeGroups |-> m.excludeGroups]
  <2>1. PICK h : h = [m EXCEPT !.dir = dir]
    OBVIOUS
  <2>2. h = [dir |-> dir, enabled |-> m.enabled, regions |-> m.regions, bound |-> m.bound,
             keepOut |-> m.keepOut, keepOutParts |-> m.keepOutParts,
             keepOutClearance |-> m.keepOutClearance, bcGroup |-> m.bcGroup,
             freezeGroups |-> m.freezeGroups, excludeGroups |-> m.excludeGroups]
    BY <1>3, <2>1
  <2>3. PICK k : k = [h EXCEPT !.regions = regions]
    OBVIOUS
  <2>4. k = [dir |-> dir, enabled |-> m.enabled, regions |-> regions, bound |-> m.bound,
             keepOut |-> m.keepOut, keepOutParts |-> m.keepOutParts,
             keepOutClearance |-> m.keepOutClearance, bcGroup |-> m.bcGroup,
             freezeGroups |-> m.freezeGroups, excludeGroups |-> m.excludeGroups]
    BY <2>2, <2>3
  <2>5. n = [k EXCEPT !.bound = bound]
    BY <1>5, <2>1, <2>3
  <2> QED
    BY <2>4, <2>5
<1>7. IsModel(n) /\ n.dir = dir /\ n.enabled = m.enabled
  BY <1>2, <1>3, <1>6 DEF IsModel
<1> QED
  BY <1>1, <1>4, <1>7 DEF m

LEMMA OnScreenIs ==
  ASSUME NEW f, FormOK(f), NEW raw, IsFile(raw)
  PROVE  /\ OnScreen(f, raw) = [model |-> ShownModel(f, raw), optimizer |-> f.settings.optimizer,
                                knobs |-> f.settings.knobs, run |-> f.settings.run,
                                cases |-> f.settings.cases]
         /\ IsConfig(OnScreen(f, raw))
<1>1. PICK cfg : cfg = Loaded(raw)
  OBVIOUS
<1>2. cfg = [model |-> raw.model, optimizer |-> cfg.optimizer, knobs |-> cfg.knobs,
             run |-> cfg.run, cases |-> cfg.cases]
  BY <1>1 DEF Loaded
<1>3. PICK m : m = ShownModel(f, raw)
  OBVIOUS
<1>4. cfg.model = raw.model
  BY <1>2
<1>5. PICK shown : shown = [cfg EXCEPT !.model = m]
  OBVIOUS
<1>6. shown = [model |-> m, optimizer |-> cfg.optimizer, knobs |-> cfg.knobs,
               run |-> cfg.run, cases |-> cfg.cases]
  BY <1>2, <1>5
<1>7. OnScreen(f, raw) = With(f.settings, shown)
  BY <1>1, <1>3, <1>4, <1>5 DEF OnScreen, ShownModel
<1>8. PICK s : s = f.settings
  OBVIOUS
<1>9. With(s, shown) = [model |-> m, optimizer |-> s.optimizer, knobs |-> s.knobs,
                        run |-> s.run, cases |-> s.cases]
  <2>1. PICK a : a = [shown EXCEPT !.optimizer = s.optimizer]
    OBVIOUS
  <2>2. a = [model |-> m, optimizer |-> s.optimizer, knobs |-> cfg.knobs,
             run |-> cfg.run, cases |-> cfg.cases]
    BY <1>6, <2>1
  <2>3. PICK b : b = [a EXCEPT !.knobs = s.knobs]
    OBVIOUS
  <2>4. b = [model |-> m, optimizer |-> s.optimizer, knobs |-> s.knobs,
             run |-> cfg.run, cases |-> cfg.cases]
    BY <2>2, <2>3
  <2>5. PICK c : c = [b EXCEPT !.run = s.run]
    OBVIOUS
  <2>6. c = [model |-> m, optimizer |-> s.optimizer, knobs |-> s.knobs,
             run |-> s.run, cases |-> cfg.cases]
    BY <2>4, <2>5
  <2>7. With(s, shown) = [c EXCEPT !.cases = s.cases]
    BY <2>1, <2>3, <2>5 DEF With
  <2> QED
    BY <2>6, <2>7
<1>10. PICK config : config = OnScreen(f, raw)
  OBVIOUS
<1>11. config = [model |-> m, optimizer |-> s.optimizer, knobs |-> s.knobs,
                 run |-> s.run, cases |-> s.cases]
  BY <1>7, <1>8, <1>9, <1>10
<1>12. IsModel(m) /\ AreSettings(s)
  BY <1>3, <1>8, ShownModelIsModel DEF IsFile, FormOK
<1>13. IsConfig(config)
  BY <1>11, <1>12 DEF IsConfig, AreSettings
<1> QED
  BY <1>3, <1>8, <1>10, <1>11, <1>13

(* What makes no difference to the model on the page makes none to what    *)
(* the page writes back.                                                   *)
LEMMA SameScreen ==
  ASSUME NEW f, NEW g, FormOK(f), FormOK(g), NEW raw, NEW new, IsFile(raw), IsFile(new),
         ShownModel(f, raw) = ShownModel(g, new), f.settings = g.settings
  PROVE  OnScreen(f, raw) = OnScreen(g, new)
  BY OnScreenIs

(***************************************************************************)
(* The invariant.  The boundary a page that has been run writes back: the  *)
(* file's while the field is off the page, else the field's.               *)
(***************************************************************************)
BoundOf(raw) == IF raw.model.bound = None THEN 0 ELSE raw.model.bound
PageBound(f, raw) == IF f.seed = None THEN raw.model.bound
                     ELSE IF f.widget = 0 THEN None ELSE f.widget

(* The model a page writes back, by what it keeps in the session alone.    *)
Page(m, dir, tables, bound) ==
  [m EXCEPT !.dir = dir, !.regions = IF m.enabled THEN BoxesOf(tables) ELSE m.regions,
            !.bound = bound]

(* A page that has been run shows what its session keeps.                  *)
LEMMA SettledShows ==
  ASSUME NEW f, FormOK(f), NEW raw, IsModel(raw.model), Settled(f, raw), ~f.lost
  PROVE  /\ ShownModel(f, raw) = Page(raw.model, f.dir, f.tables, PageBound(f, raw))
         /\ f.stash = None /\ f.seed \in {None, BoundOf(raw)}
         /\ f.filledDir = raw.model.dir
         /\ ShowsBoundary(f, raw) <=> f.seed # None
<1>1. BoundOf(raw) # None
  BY NoneAssumption DEF BoundOf, IsModel
<1>2. ShowsBoundary(f, raw) \in BOOLEAN
  BY DEF ShowsBoundary, IsModel
<1>3. CASE ShowsBoundary(f, raw)
  BY <1>1, <1>3 DEF Settled, BoundOf, PageBound, Page, ShownModel
<1>4. CASE ~ShowsBoundary(f, raw)
  BY <1>1, <1>4 DEF Settled, BoundOf, PageBound, Page, ShownModel
<1> QED
  BY <1>2, <1>3, <1>4

(* The next run of a page keeps what its session kept, unless it takes the *)
(* boundary field off the page.                                            *)
LEMMA RunAgain ==
  ASSUME NEW f, FormOK(f), NEW raw, IsModel(raw.model),
         f.filledDir = raw.model.dir, f.stash = None, f.seed \in {None, BoundOf(raw)},
         NEW g, g = Rendered(f, raw), ~g.lost
  PROVE  ShownModel(g, raw) = Page(raw.model, f.dir, f.tables, PageBound(f, raw))
<1>1. /\ FormOK(g) /\ g.tables = f.tables /\ g.dir = f.dir
      /\ ShowsBoundary(g, raw) = ShowsBoundary(f, raw)
      /\ ShowsBoundary(f, raw) => g.widget = IF f.seed = BoundOf(raw) THEN f.widget ELSE BoundOf(raw)
      /\ ~ShowsBoundary(f, raw) => f.seed = None
  BY RenderedPage DEF BoundOf
<1>2. PICK bound : bound = IF ~ShowsBoundary(g, raw) THEN raw.model.bound
                           ELSE IF g.widget = 0 THEN None ELSE g.widget
  OBVIOUS
<1>3. ShownModel(g, raw) = Page(raw.model, f.dir, f.tables, bound)
  BY <1>1, <1>2 DEF ShownModel, Page
<1>4. raw.model.bound \in (Nat \ {0}) \cup {None} /\ ShowsBoundary(f, raw) \in BOOLEAN
  BY DEF IsModel, ShowsBoundary
<1>5. bound = PageBound(f, raw)
  <2>1. CASE ~ShowsBoundary(f, raw)
    BY <1>1, <1>2, <2>1 DEF PageBound
  <2>2. CASE ShowsBoundary(f, raw) /\ f.seed = None
    <3>1. BoundOf(raw) # None
      BY <1>4, NoneAssumption DEF BoundOf
    <3>2. g.widget = BoundOf(raw)
      BY <1>1, <2>2, <3>1
    <3> QED
      BY <1>1, <1>2, <1>4, <2>2, <3>2 DEF PageBound, BoundOf
  <2>3. CASE ShowsBoundary(f, raw) /\ f.seed = BoundOf(raw) /\ f.seed # None
    BY <1>1, <1>2, <2>3 DEF PageBound
  <2> QED
    BY <1>4, <2>1, <2>2, <2>3
<1> QED
  BY <1>3, <1>5

(* A page that a button has put a boundary aside for shows that.           *)
LEMMA RunWithStash ==
  ASSUME NEW f, FormOK(f), NEW raw, IsModel(raw.model), f.stash # None,
         NEW g, g = Rendered(f, raw), ~g.lost
  PROVE  ShownModel(g, raw) = Page(raw.model, g.dir, f.tables, f.stash)
<1>1. /\ g.tables = f.tables /\ ShowsBoundary(g, raw) = ShowsBoundary(f, raw)
      /\ ShowsBoundary(f, raw) => g.widget = f.stash
      /\ ~ShowsBoundary(f, raw) => g.lost
  BY RenderedPage
<1>2. ShowsBoundary(g, raw) /\ g.widget = f.stash
  BY <1>1 DEF ShowsBoundary
<1>3. f.stash # 0
  BY NoneAssumption DEF FormOK
<1> QED
  BY <1>1, <1>2, <1>3 DEF ShownModel, Page

(* A model with these fields, and the rest as m has it.                    *)
ModelWith(m, d, r, b) ==
  [dir |-> d, enabled |-> m.enabled, regions |-> r, bound |-> b,
   keepOut |-> m.keepOut, keepOutParts |-> m.keepOutParts,
   keepOutClearance |-> m.keepOutClearance, bcGroup |-> m.bcGroup,
   freezeGroups |-> m.freezeGroups, excludeGroups |-> m.excludeGroups]

LEMMA PageIs ==
  ASSUME NEW m, IsModel(m), NEW d, NEW t, NEW b, NEW r,
         r = IF m.enabled THEN BoxesOf(t) ELSE m.regions
  PROVE  Page(m, d, t, b) = ModelWith(m, d, r, b)
<1>1. Page(m, d, t, b) = [[[m EXCEPT !.dir = d] EXCEPT !.regions = r] EXCEPT !.bound = b]
  BY DEF Page
<1>2. PICK h : h = [m EXCEPT !.dir = d]
  OBVIOUS
<1>3. h = ModelWith(m, d, m.regions, m.bound)
  BY <1>2 DEF IsModel, ModelWith
<1>4. PICK k : k = [h EXCEPT !.regions = r]
  OBVIOUS
<1>5. k = ModelWith(m, d, r, m.bound)
  BY <1>3, <1>4 DEF ModelWith
<1>6. [k EXCEPT !.bound = b] = ModelWith(m, d, r, b)
  BY <1>5 DEF ModelWith
<1> QED
  BY <1>1, <1>2, <1>4, <1>6

(* Setting one field of the model of a configuration.                      *)
LEMMA PageFields ==
  ASSUME NEW m, IsModel(m)
  PROVE  \A dir, tables, bound :
           /\ \A d : [Page(m, dir, tables, bound) EXCEPT !.dir = d] = Page(m, d, tables, bound)
           /\ \A b : [Page(m, dir, tables, bound) EXCEPT !.bound = b] = Page(m, dir, tables, b)
           /\ \A t : m.enabled => [Page(m, dir, tables, bound) EXCEPT !.regions = BoxesOf(t)]
                                    = Page(m, dir, t, bound)
<1>1. TAKE dir, tables, bound
<1>2. PICK p, r : /\ p = Page(m, dir, tables, bound)
                  /\ r = IF m.enabled THEN BoxesOf(tables) ELSE m.regions
  OBVIOUS
<1>3. p = ModelWith(m, dir, r, bound)
  BY <1>2, PageIs
<1>4. ASSUME NEW d PROVE [p EXCEPT !.dir = d] = Page(m, d, tables, bound)
  <2>1. [p EXCEPT !.dir = d] = ModelWith(m, d, r, bound)
    BY <1>3 DEF ModelWith
  <2> QED
    BY <1>2, <2>1, PageIs
<1>5. ASSUME NEW b PROVE [p EXCEPT !.bound = b] = Page(m, dir, tables, b)
  <2>1. [p EXCEPT !.bound = b] = ModelWith(m, dir, r, b)
    BY <1>3 DEF ModelWith
  <2> QED
    BY <1>2, <2>1, PageIs
<1>6. ASSUME NEW t, m.enabled PROVE [p EXCEPT !.regions = BoxesOf(t)] = Page(m, dir, t, bound)
  <2>1. PICK s : s = BoxesOf(t)
    OBVIOUS
  <2>2. [p EXCEPT !.regions = s] = ModelWith(m, dir, s, bound)
    BY <1>3 DEF ModelWith
  <2>3. Page(m, dir, t, bound) = ModelWith(m, dir, s, bound)
    BY <1>6, <2>1, PageIs
  <2> QED
    BY <2>1, <2>2, <2>3
<1> QED
  BY <1>2, <1>4, <1>5, <1>6

(* What the Use button writes into the file makes no difference to a page  *)
(* that shows its own directory and boundary.                              *)
UsedModel(m, e, c) == [[m EXCEPT !.dir = e] EXCEPT !.bound = c]
LEMMA PageOver ==
  ASSUME NEW m, IsModel(m), m.enabled, NEW e \in Dirs, NEW c \in Nat \ {0},
         NEW n, n = UsedModel(m, e, c)
  PROVE  /\ IsModel(n) /\ n.enabled /\ n.dir = e /\ n.bound = c
         /\ \A d, t, b : Page(n, d, t, b) = Page(m, d, t, b)
<1>1. PICK h : h = [m EXCEPT !.dir = e]
  OBVIOUS
<1>2. h = ModelWith(m, e, m.regions, m.bound)
  BY <1>1 DEF IsModel, ModelWith
<1>3. n = [h EXCEPT !.bound = c]
  BY <1>1 DEF UsedModel
<1>4. n = ModelWith(m, e, m.regions, c)
  BY <1>2, <1>3 DEF ModelWith
<1>5. /\ n.dir = e /\ n.enabled = m.enabled /\ n.regions = m.regions /\ n.bound = c
      /\ n.keepOut = m.keepOut /\ n.keepOutParts = m.keepOutParts
      /\ n.keepOutClearance = m.keepOutClearance /\ n.bcGroup = m.bcGroup
      /\ n.freezeGroups = m.freezeGroups /\ n.excludeGroups = m.excludeGroups
      /\ n = ModelWith(n, n.dir, n.regions, n.bound)
  BY <1>4 DEF ModelWith
<1>6. IsModel(n)
  BY <1>5 DEF IsModel, ModelWith
<1>7. ASSUME NEW d, NEW t, NEW b PROVE Page(n, d, t, b) = Page(m, d, t, b)
  <2>1. PICK r : r = BoxesOf(t)
    OBVIOUS
  <2>2. Page(m, d, t, b) = ModelWith(m, d, r, b)
    BY <2>1, PageIs
  <2>3. n.enabled
    BY <1>5
  <2>4. Page(n, d, t, b) = ModelWith(n, d, r, b)
    BY <1>6, <2>1, <2>3, PageIs
  <2> QED
    BY <1>5, <2>2, <2>4 DEF ModelWith
<1> QED
  BY <1>5, <1>6, <1>7

(* A configuration with this model and these settings.                     *)
Screen(m, s) == [model |-> m, optimizer |-> s.optimizer, knobs |-> s.knobs,
                 run |-> s.run, cases |-> s.cases]

LEMMA ScreenFields ==
  \A cfg, m, s : cfg = Screen(m, s) =>
    /\ \A d : [cfg EXCEPT !.model.dir = d] = Screen([m EXCEPT !.dir = d], s)
    /\ \A r : [cfg EXCEPT !.model.regions = r] = Screen([m EXCEPT !.regions = r], s)
    /\ \A b : [cfg EXCEPT !.model.bound = b] = Screen([m EXCEPT !.bound = b], s)
    /\ \A t : With(t, cfg) = Screen(m, t)
<1>1. TAKE cfg, m, s
<1>2. HAVE cfg = Screen(m, s)
<1>3. cfg = [model |-> m, optimizer |-> s.optimizer, knobs |-> s.knobs,
             run |-> s.run, cases |-> s.cases]
  BY <1>2 DEF Screen
<1>4. ASSUME NEW n PROVE [cfg EXCEPT !.model = n] = Screen(n, s)
  BY <1>3 DEF Screen
<1>5. cfg.model = m
  BY <1>3
<1>6. ASSUME NEW d PROVE [cfg EXCEPT !.model.dir = d] = Screen([m EXCEPT !.dir = d], s)
  BY <1>4, <1>5
<1>7. ASSUME NEW r PROVE [cfg EXCEPT !.model.regions = r] = Screen([m EXCEPT !.regions = r], s)
  BY <1>4, <1>5
<1>8. ASSUME NEW b PROVE [cfg EXCEPT !.model.bound = b] = Screen([m EXCEPT !.bound = b], s)
  BY <1>4, <1>5
<1>9. ASSUME NEW t PROVE With(t, cfg) = Screen(m, t)
  <2>1. PICK a : a = [cfg EXCEPT !.optimizer = t.optimizer]
    OBVIOUS
  <2>2. a = [model |-> m, optimizer |-> t.optimizer, knobs |-> s.knobs,
             run |-> s.run, cases |-> s.cases]
    BY <1>3, <2>1
  <2>3. PICK b : b = [a EXCEPT !.knobs = t.knobs]
    OBVIOUS
  <2>4. b = [model |-> m, optimizer |-> t.optimizer, knobs |-> t.knobs,
             run |-> s.run, cases |-> s.cases]
    BY <2>2, <2>3
  <2>5. PICK c : c = [b EXCEPT !.run = t.run]
    OBVIOUS
  <2>6. c = [model |-> m, optimizer |-> t.optimizer, knobs |-> t.knobs,
             run |-> t.run, cases |-> s.cases]
    BY <2>4, <2>5
  <2>7. With(t, cfg) = [c EXCEPT !.cases = t.cases]
    BY <2>1, <2>3, <2>5 DEF With
  <2> QED
    BY <2>6, <2>7 DEF Screen
<1> QED
  BY <1>6, <1>7, <1>8, <1>9

FoldersOK(folders) ==
  folders = [d \in Dirs |-> folders[d]] /\ \A d \in Dirs : IsFolder(folders[d])

(* While no boundary has been lost with its field, the configuration on    *)
(* the screen is the one the user has in mind, and after Save the file's.  *)
MeantOK(f, raw, mind) ==
  ~f.lost => mind = OnScreen(f, raw) /\ (f.saved => Loaded(raw) = mind)
PageOK(f, raw, mind) ==
  IsFile(raw) /\ FormOK(f) /\ Settled(f, raw) /\ MeantOK(f, raw, mind)

(* The page as it opens.                                                   *)
LEMMA OpensSound ==
  ASSUME NEW raw, IsFile(raw), NEW f, f = Opened(raw)
  PROVE  PageOK(f, raw, Loaded(raw))
<1>1. PICK cfg, s : /\ cfg = Loaded(raw)
                    /\ s = [optimizer |-> cfg.optimizer, knobs |-> cfg.knobs,
                            run |-> cfg.run, cases |-> cfg.cases]
  OBVIOUS
<1>2. IsConfig(cfg) /\ cfg.model = raw.model /\ IsModel(raw.model)
  BY <1>1, LoadedIsConfig DEF IsFile
<1>3. PICK t : t = TablesOf(raw.model.regions)
  OBVIOUS
<1>4. BoxesOf(t) = raw.model.regions /\ AreRegions(BoxesOf(t))
  BY <1>2, <1>3, TablesShowRegions DEF IsModel
<1>5. PICK e : e = [tables |-> t, dir |-> raw.model.dir, filledDir |-> raw.model.dir,
                    settings |-> s, widget |-> 0, seed |-> None, stash |-> None,
                    saved |-> FALSE, lost |-> FALSE]
  OBVIOUS
<1>6. f = Rendered(e, raw)
  BY <1>1, <1>2, <1>3, <1>5 DEF Opened
<1>7. AreSettings(s)
  BY <1>1, <1>2 DEF IsConfig, AreSettings
<1>8. FormOK(e)
  <2>1. raw.model.dir \in Dirs
    BY <1>2 DEF IsModel
  <2> QED
    BY <1>4, <1>5, <1>7, <2>1 DEF FormOK
<1>9. FormOK(f) /\ Settled(f, raw) /\ f.settings = s /\ f.saved = FALSE
  BY <1>2, <1>5, <1>6, <1>8, RenderedPage
<1>10. ASSUME ~f.lost PROVE OnScreen(f, raw) = cfg
  <2>1. ShownModel(f, raw) = Page(raw.model, raw.model.dir, t, raw.model.bound)
    BY <1>2, <1>5, <1>6, <1>8, <1>10, RunAgain DEF PageBound
  <2>2. Page(raw.model, raw.model.dir, t, raw.model.bound) = raw.model
    BY <1>2, <1>4 DEF Page, IsModel
  <2>3. OnScreen(f, raw) = [model |-> raw.model, optimizer |-> s.optimizer, knobs |-> s.knobs,
                            run |-> s.run, cases |-> s.cases]
    BY <1>9, <2>1, <2>2, OnScreenIs
  <2> QED
    BY <1>1, <1>2, <2>3 DEF IsConfig
<1> QED
  BY <1>1, <1>9, <1>10 DEF PageOK, MeantOK

(* One more run of the page, after an edit f of it that leaves what it     *)
(* remembers of the file: what it shows before and after.                  *)
LEMMA PageStep ==
  ASSUME NEW old, NEW raw, NEW mind, PageOK(old, raw, mind),
         NEW f, FormOK(f), f.filledDir = old.filledDir, f.seed = old.seed, f.stash = old.stash,
         f.lost = old.lost, NEW g, g = Rendered(f, raw)
  PROVE  /\ FormOK(g) /\ Settled(g, raw) /\ g.saved = f.saved
         /\ ~g.lost =>
              /\ ~old.lost
              /\ mind = Screen(Page(raw.model, old.dir, old.tables, PageBound(old, raw)),
                               old.settings)
              /\ OnScreen(g, raw) = Screen(Page(raw.model, f.dir, f.tables, PageBound(f, raw)),
                                           f.settings)
<1>1. IsModel(raw.model)
  BY DEF PageOK, IsFile
<1>2. /\ FormOK(g) /\ Settled(g, raw) /\ g.saved = f.saved /\ g.settings = f.settings
      /\ f.lost => g.lost
  BY <1>1, RenderedPage
<1>3. ASSUME ~g.lost
      PROVE  /\ ~old.lost
             /\ mind = Screen(Page(raw.model, old.dir, old.tables, PageBound(old, raw)),
                              old.settings)
             /\ OnScreen(g, raw) = Screen(Page(raw.model, f.dir, f.tables, PageBound(f, raw)),
                                          f.settings)
  <2>1. ~old.lost
    BY <1>2, <1>3
  <2>2. /\ ShownModel(old, raw) = Page(raw.model, old.dir, old.tables, PageBound(old, raw))
        /\ old.stash = None /\ old.seed \in {None, BoundOf(raw)}
        /\ old.filledDir = raw.model.dir
    BY <1>1, <2>1, SettledShows DEF PageOK
  <2>3. mind = Screen(ShownModel(old, raw), old.settings)
    BY <2>1, OnScreenIs DEF PageOK, MeantOK, Screen
  <2>4. ShownModel(g, raw) = Page(raw.model, f.dir, f.tables, PageBound(f, raw))
    BY <1>1, <1>3, <2>2, RunAgain
  <2>5. OnScreen(g, raw) = Screen(ShownModel(g, raw), f.settings)
    BY <1>2, OnScreenIs DEF PageOK, Screen
  <2> QED
    BY <2>1, <2>2, <2>3, <2>4, <2>5
<1> QED
  BY <1>2, <1>3

(* The file and the disk as seen from the page are not touched by it, nor  *)
(* is the page by what it does not do.                                     *)
LEMMA RunOnly ==
  ASSUME NEW old, NEW raw, NEW mind, PageOK(old, raw, mind), NEW g, g = Rendered(old, raw)
  PROVE  PageOK(g, raw, mind)
<1>1. FormOK(old) /\ IsFile(raw)
  BY DEF PageOK
<1>2. /\ FormOK(g) /\ Settled(g, raw) /\ g.saved = old.saved
      /\ ~g.lost => ~old.lost /\ mind = OnScreen(g, raw)
  BY <1>1, PageStep
<1> QED
  BY <1>1, <1>2 DEF PageOK, MeantOK


(* The page f as an edit of the page old leaves it, but for what is edited.*)
SamePage(f, old) ==
  /\ f.filledDir = old.filledDir /\ f.seed = old.seed /\ f.lost = old.lost

Unsaved(f) == [f EXCEPT !.saved = FALSE]
LEMMA UnsavedIs ==
  ASSUME NEW f, FormOK(f)
  PROVE  /\ FormOK(Unsaved(f)) /\ SamePage(Unsaved(f), f) /\ ~Unsaved(f).saved
         /\ Unsaved(f).tables = f.tables /\ Unsaved(f).dir = f.dir
         /\ Unsaved(f).settings = f.settings /\ Unsaved(f).widget = f.widget
         /\ Unsaved(f).stash = f.stash
<1>1. PICK no : no = FALSE
  OBVIOUS
<1>2. PICK g : g = [f EXCEPT !.saved = no]
  OBVIOUS
<1>3. Unsaved(f) = g
  BY <1>1, <1>2, Zenon DEF Unsaved
<1>4. g = [tables |-> f.tables, dir |-> f.dir, filledDir |-> f.filledDir,
           settings |-> f.settings, widget |-> f.widget, seed |-> f.seed, stash |-> f.stash,
           saved |-> no, lost |-> f.lost]
  BY <1>2 DEF FormOK
<1>5. /\ g.tables = f.tables /\ g.dir = f.dir /\ g.filledDir = f.filledDir
      /\ g.settings = f.settings /\ g.widget = f.widget /\ g.seed = f.seed
      /\ g.stash = f.stash /\ g.saved = no /\ g.lost = f.lost
      /\ g = [tables |-> g.tables, dir |-> g.dir, filledDir |-> g.filledDir,
              settings |-> g.settings, widget |-> g.widget, seed |-> g.seed,
              stash |-> g.stash, saved |-> g.saved, lost |-> g.lost]
  BY <1>4
<1>6. FormOK(g) /\ ~g.saved
  BY <1>1, <1>5 DEF FormOK
<1> QED
  BY <1>3, <1>5, <1>6 DEF SamePage

(* An edit: the page changes one field, and the user's mind changes alike. *)
LEMMA EditSound ==
  ASSUME NEW old, NEW raw, NEW mind, PageOK(old, raw, mind),
         NEW f, FormOK(f), SamePage(f, old), f.stash = old.stash, ~f.saved, NEW g, g = Rendered(f, raw), NEW now,
         mind = Screen(Page(raw.model, old.dir, old.tables, PageBound(old, raw)), old.settings)
           => now = Screen(Page(raw.model, f.dir, f.tables, PageBound(f, raw)), f.settings)
  PROVE  PageOK(g, raw, now)
<1>1. /\ FormOK(g) /\ Settled(g, raw) /\ ~g.saved
      /\ ~g.lost =>
           /\ mind = Screen(Page(raw.model, old.dir, old.tables, PageBound(old, raw)),
                            old.settings)
           /\ OnScreen(g, raw) = Screen(Page(raw.model, f.dir, f.tables, PageBound(f, raw)),
                                        f.settings)
  BY PageStep DEF SamePage
<1>2. IsFile(raw)
  BY DEF PageOK
<1> QED
  BY <1>1, <1>2 DEF PageOK, MeantOK

LEMMA EditRegionsSound ==
  ASSUME PageOK(form, file, meant), EditRegions
  PROVE  PageOK(form', file', meant')
<1>1. PICK boxes \in Layouts :
        /\ form' = Rendered(Unsaved([form EXCEPT !.tables = TablesOf(boxes)]), file)
        /\ meant' = [meant EXCEPT !.model.regions = boxes]
        /\ file' = file /\ file.model.enabled
  BY DEF EditRegions, Edited, Untouched, Growing, Unsaved
<1>2. PICK t, h : t = TablesOf(boxes) /\ h = [form EXCEPT !.tables = t]
  OBVIOUS
<1>3. BoxesOf(t) = boxes /\ AreRegions(BoxesOf(t))
  BY <1>2, ChoiceAssumption, TablesShowRegions
<1>4. FormOK(form) /\ IsModel(file.model)
  BY DEF PageOK, IsFile
<1>5. /\ FormOK(h) /\ SamePage(h, form) /\ h.tables = t /\ h.dir = form.dir
      /\ h.settings = form.settings /\ h.widget = form.widget /\ h.stash = form.stash
  <2>1. h = [tables |-> t, dir |-> form.dir, filledDir |-> form.filledDir,
             settings |-> form.settings, widget |-> form.widget, seed |-> form.seed,
             stash |-> form.stash, saved |-> form.saved, lost |-> form.lost]
    BY <1>2, <1>4 DEF FormOK
  <2> QED
    BY <1>3, <1>4, <2>1 DEF FormOK, SamePage
<1>6. PICK f : f = Unsaved(h)
  OBVIOUS
<1>7. /\ FormOK(f) /\ SamePage(f, form) /\ ~f.saved
      /\ f.tables = t /\ f.dir = form.dir /\ f.settings = form.settings
      /\ f.widget = form.widget /\ f.stash = form.stash
  BY <1>5, <1>6, UnsavedIs DEF SamePage
<1>8. form' = Rendered(f, file)
  BY <1>1, <1>2, <1>6
<1>9. PICK b, d, x, t0 : /\ b = PageBound(form, file) /\ d = form.dir
                         /\ x = form.settings /\ t0 = form.tables
  OBVIOUS
<1>10. b = PageBound(f, file) /\ d = f.dir /\ x = f.settings
  BY <1>7, <1>9 DEF PageBound, SamePage
<1>11. ASSUME meant = Screen(Page(file.model, d, t0, b), x)
       PROVE  meant' = Screen(Page(file.model, d, t, b), x)
  <2>1. meant' = Screen([Page(file.model, d, t0, b) EXCEPT !.regions = BoxesOf(t)], x)
    BY <1>1, <1>3, <1>11, ScreenFields
  <2>2. [Page(file.model, d, t0, b) EXCEPT !.regions = BoxesOf(t)] = Page(file.model, d, t, b)
    BY <1>1, <1>4, PageFields
  <2> QED
    BY <2>1, <2>2
<1>12. PageOK(form', file, meant')
  BY <1>7, <1>8, <1>9, <1>10, <1>11, EditSound
<1> QED
  BY <1>1, <1>12

LEMMA EditDirSound ==
  ASSUME PageOK(form, file, meant), EditDir
  PROVE  PageOK(form', file', meant')
<1>1. PICK dir \in TypedDirs :
        /\ form' = Rendered(Unsaved([form EXCEPT !.dir = dir]), file)
        /\ meant' = [meant EXCEPT !.model.dir = dir]
        /\ file' = file
  BY DEF EditDir, Edited, Untouched, Unsaved
<1>2. PICK h : h = [form EXCEPT !.dir = dir]
  OBVIOUS
<1>3. dir \in Dirs
  BY TypedAssumption DEF Dirs
<1>4. FormOK(form) /\ IsModel(file.model)
  BY DEF PageOK, IsFile
<1>5. /\ FormOK(h) /\ SamePage(h, form) /\ h.tables = form.tables /\ h.dir = dir
      /\ h.settings = form.settings /\ h.widget = form.widget /\ h.stash = form.stash
  <2>1. h = [tables |-> form.tables, dir |-> dir, filledDir |-> form.filledDir,
             settings |-> form.settings, widget |-> form.widget, seed |-> form.seed,
             stash |-> form.stash, saved |-> form.saved, lost |-> form.lost]
    BY <1>2, <1>4 DEF FormOK
  <2> QED
    BY <1>3, <1>4, <2>1 DEF FormOK, SamePage
<1>6. PICK f : f = Unsaved(h)
  OBVIOUS
<1>7. /\ FormOK(f) /\ SamePage(f, form) /\ ~f.saved
      /\ f.tables = form.tables /\ f.dir = dir /\ f.settings = form.settings
      /\ f.widget = form.widget /\ f.stash = form.stash
  BY <1>5, <1>6, UnsavedIs DEF SamePage
<1>8. form' = Rendered(f, file)
  BY <1>1, <1>2, <1>6
<1>9. PICK b, d, x, t : /\ b = PageBound(form, file) /\ d = form.dir
                        /\ x = form.settings /\ t = form.tables
  OBVIOUS
<1>10. b = PageBound(f, file) /\ t = f.tables /\ x = f.settings
  BY <1>7, <1>9 DEF PageBound, SamePage
<1>11. ASSUME meant = Screen(Page(file.model, d, t, b), x)
       PROVE  meant' = Screen(Page(file.model, dir, t, b), x)
  <2>1. meant' = Screen([Page(file.model, d, t, b) EXCEPT !.dir = dir], x)
    BY <1>1, <1>11, ScreenFields
  <2>2. [Page(file.model, d, t, b) EXCEPT !.dir = dir] = Page(file.model, dir, t, b)
    BY <1>4, PageFields
  <2> QED
    BY <2>1, <2>2
<1>12. PageOK(form', file, meant')
  BY <1>7, <1>8, <1>9, <1>10, <1>11, EditSound
<1> QED
  BY <1>1, <1>12

LEMMA EditSettingsSound ==
  ASSUME PageOK(form, file, meant), EditSettings
  PROVE  PageOK(form', file', meant')
<1>1. PICK s \in Settings :
        /\ form' = Rendered(Unsaved([form EXCEPT !.settings = s]), file)
        /\ meant' = With(s, meant)
        /\ file' = file
  BY DEF EditSettings, Edited, Untouched, Unsaved
<1>2. PICK h : h = [form EXCEPT !.settings = s]
  OBVIOUS
<1>3. AreSettings(s)
  BY ChoiceAssumption
<1>4. FormOK(form) /\ IsModel(file.model)
  BY DEF PageOK, IsFile
<1>5. /\ FormOK(h) /\ SamePage(h, form) /\ h.tables = form.tables /\ h.dir = form.dir
      /\ h.settings = s /\ h.widget = form.widget /\ h.stash = form.stash
  <2>1. h = [tables |-> form.tables, dir |-> form.dir, filledDir |-> form.filledDir,
             settings |-> s, widget |-> form.widget, seed |-> form.seed,
             stash |-> form.stash, saved |-> form.saved, lost |-> form.lost]
    BY <1>2, <1>4 DEF FormOK
  <2> QED
    BY <1>3, <1>4, <2>1 DEF FormOK, SamePage
<1>6. PICK f : f = Unsaved(h)
  OBVIOUS
<1>7. /\ FormOK(f) /\ SamePage(f, form) /\ ~f.saved
      /\ f.tables = form.tables /\ f.dir = form.dir /\ f.settings = s
      /\ f.widget = form.widget /\ f.stash = form.stash
  BY <1>5, <1>6, UnsavedIs DEF SamePage
<1>8. form' = Rendered(f, file)
  BY <1>1, <1>2, <1>6
<1>9. PICK b, d, x, t : /\ b = PageBound(form, file) /\ d = form.dir
                        /\ x = form.settings /\ t = form.tables
  OBVIOUS
<1>10. b = PageBound(f, file) /\ t = f.tables /\ d = f.dir
  BY <1>7, <1>9 DEF PageBound, SamePage
<1>11. ASSUME meant = Screen(Page(file.model, d, t, b), x)
       PROVE  meant' = Screen(Page(file.model, d, t, b), s)
  BY <1>1, <1>11, ScreenFields
<1>12. PageOK(form', file, meant')
  BY <1>7, <1>8, <1>9, <1>10, <1>11, EditSound
<1> QED
  BY <1>1, <1>12

(* The boundary can be typed only while its field is on the page, where it *)
(* is the boundary that Save writes.                                       *)
LEMMA TypeBoundarySound ==
  ASSUME PageOK(form, file, meant), TypeBoundary
  PROVE  PageOK(form', file', meant')
<1>1. PICK w \in Boundaries :
        /\ form' = Rendered(Unsaved([form EXCEPT !.widget = w]), file)
        /\ meant' = [meant EXCEPT !.model.bound = IF w = 0 THEN None ELSE w]
        /\ file' = file /\ ShowsBoundary(form, file)
  BY DEF TypeBoundary, Edited, Untouched, Unsaved
<1>2. PICK h : h = [form EXCEPT !.widget = w]
  OBVIOUS
<1>3. w \in Nat
  BY TypedAssumption
<1>4. FormOK(form) /\ IsModel(file.model)
  BY DEF PageOK, IsFile
<1>5. /\ FormOK(h) /\ SamePage(h, form) /\ h.tables = form.tables /\ h.dir = form.dir
      /\ h.settings = form.settings /\ h.widget = w /\ h.stash = form.stash
  <2>1. h = [tables |-> form.tables, dir |-> form.dir, filledDir |-> form.filledDir,
             settings |-> form.settings, widget |-> w, seed |-> form.seed,
             stash |-> form.stash, saved |-> form.saved, lost |-> form.lost]
    BY <1>2, <1>4 DEF FormOK
  <2> QED
    BY <1>3, <1>4, <2>1 DEF FormOK, SamePage
<1>6. PICK f : f = Unsaved(h)
  OBVIOUS
<1>7. /\ FormOK(f) /\ SamePage(f, form) /\ ~f.saved
      /\ f.tables = form.tables /\ f.dir = form.dir /\ f.settings = form.settings
      /\ f.widget = w /\ f.stash = form.stash
  BY <1>5, <1>6, UnsavedIs DEF SamePage
<1>8. form' = Rendered(f, file)
  BY <1>1, <1>2, <1>6
<1>9. PICK b, d, x, t : /\ b = PageBound(form, file) /\ d = form.dir
                        /\ x = form.settings /\ t = form.tables
  OBVIOUS
<1>10. PICK now : now = IF w = 0 THEN None ELSE w
  OBVIOUS
<1>11. now = PageBound(f, file) /\ d = f.dir /\ t = f.tables /\ x = f.settings
  <2>1. form.seed # None
    BY <1>1, <1>4, NoneAssumption DEF PageOK, Settled, IsModel
  <2> QED
    BY <1>7, <1>9, <1>10, <2>1 DEF PageBound, SamePage
<1>12. ASSUME meant = Screen(Page(file.model, d, t, b), x)
       PROVE  meant' = Screen(Page(file.model, d, t, now), x)
  <2>1. meant' = Screen([Page(file.model, d, t, b) EXCEPT !.bound = now], x)
    BY <1>1, <1>10, <1>12, ScreenFields
  <2>2. [Page(file.model, d, t, b) EXCEPT !.bound = now] = Page(file.model, d, t, now)
    BY <1>4, PageFields
  <2> QED
    BY <2>1, <2>2
<1>13. PageOK(form', file, meant')
  BY <1>7, <1>8, <1>9, <1>11, <1>12, EditSound
<1> QED
  BY <1>1, <1>13

SavedPage(f) == [f EXCEPT !.saved = TRUE]
LEMMA SavedPageIs ==
  ASSUME NEW f, FormOK(f)
  PROVE  /\ FormOK(SavedPage(f)) /\ SamePage(SavedPage(f), f)
         /\ SavedPage(f).tables = f.tables /\ SavedPage(f).dir = f.dir
         /\ SavedPage(f).settings = f.settings /\ SavedPage(f).widget = f.widget
         /\ SavedPage(f).stash = f.stash
<1>1. PICK yes : yes = TRUE
  OBVIOUS
<1>2. PICK g : g = [f EXCEPT !.saved = yes]
  OBVIOUS
<1>3. SavedPage(f) = g
  BY <1>1, <1>2, Zenon DEF SavedPage
<1>4. g = [tables |-> f.tables, dir |-> f.dir, filledDir |-> f.filledDir,
           settings |-> f.settings, widget |-> f.widget, seed |-> f.seed, stash |-> f.stash,
           saved |-> yes, lost |-> f.lost]
  BY <1>2 DEF FormOK
<1>5. /\ g.tables = f.tables /\ g.dir = f.dir /\ g.filledDir = f.filledDir
      /\ g.settings = f.settings /\ g.widget = f.widget /\ g.seed = f.seed
      /\ g.stash = f.stash /\ g.saved = yes /\ g.lost = f.lost
      /\ g = [tables |-> g.tables, dir |-> g.dir, filledDir |-> g.filledDir,
              settings |-> g.settings, widget |-> g.widget, seed |-> g.seed,
              stash |-> g.stash, saved |-> g.saved, lost |-> g.lost]
  BY <1>4
<1>6. FormOK(g)
  BY <1>1, <1>5 DEF FormOK
<1> QED
  BY <1>3, <1>5, <1>6 DEF SamePage

(* Save writes what is on the screen, and the next run of the page shows   *)
(* the same: the field that is filled again from the file had its value    *)
(* from there.                                                             *)
LEMMA SaveSound ==
  ASSUME NEW old, NEW raw, NEW mind, PageOK(old, raw, mind),
         NEW new, new = ToYaml(OnScreen(old, raw)), NEW g, g = Rendered(SavedPage(old), new)
  PROVE  PageOK(g, new, mind)
<1>1. FormOK(old) /\ IsFile(raw) /\ IsModel(raw.model)
  BY DEF PageOK, IsFile
<1>2. PICK m : m = ShownModel(old, raw)
  OBVIOUS
<1>3. IsModel(m) /\ m.dir = old.dir /\ m.enabled = raw.model.enabled
  BY <1>1, <1>2, ShownModelIsModel
<1>4. IsFile(new) /\ Loaded(new) = OnScreen(old, raw) /\ new.model = m
  <2>1. IsConfig(OnScreen(old, raw)) /\ OnScreen(old, raw).model = m
    BY <1>1, <1>2, OnScreenIs
  <2> QED
    BY <2>1, SavedLoads
<1>5. PICK f : f = SavedPage(old)
  OBVIOUS
<1>6. /\ FormOK(f) /\ SamePage(f, old) /\ f.tables = old.tables /\ f.dir = old.dir
      /\ f.settings = old.settings /\ f.widget = old.widget /\ f.stash = old.stash
  BY <1>1, <1>5, SavedPageIs
<1>7. g = Rendered(f, new)
  BY <1>5
<1>8. /\ FormOK(g) /\ Settled(g, new) /\ g.tables = old.tables /\ g.settings = old.settings
      /\ g.dir = old.dir /\ (f.lost => g.lost)
      /\ ShowsBoundary(g, new) = ShowsBoundary(f, new)
      /\ ShowsBoundary(f, new) /\ f.stash = None =>
           g.widget = IF f.seed = BoundOf(new) THEN f.widget ELSE BoundOf(new)
  BY <1>3, <1>4, <1>6, <1>7, RenderedPage DEF BoundOf
<1>9. ShowsBoundary(g, new) = ShowsBoundary(old, raw)
  BY <1>3, <1>4, <1>8 DEF ShowsBoundary
<1>10. ASSUME ~g.lost PROVE mind = OnScreen(g, new) /\ Loaded(new) = mind
  <2>1. ~old.lost /\ mind = OnScreen(old, raw)
    BY <1>6, <1>8, <1>10 DEF PageOK, MeantOK, SamePage
  <2>2. m.regions = IF m.enabled THEN BoxesOf(old.tables) ELSE m.regions
    BY <1>1, <1>2, <1>3 DEF ShownModel, IsModel
  <2>3. m.bound = IF ShowsBoundary(g, new) THEN IF g.widget = 0 THEN None ELSE g.widget
                  ELSE m.bound
    <3>1. CASE ShowsBoundary(old, raw)
      <4>1. m.bound = IF old.widget = 0 THEN None ELSE old.widget
        BY <1>1, <1>2, <3>1 DEF ShownModel, IsModel
      <4>2. old.widget \in Nat /\ old.stash = None
        BY <1>1, <3>1 DEF FormOK, PageOK, Settled
      <4>3. BoundOf(new) = old.widget
        BY <1>4, <4>1, <4>2, NoneAssumption DEF BoundOf
      <4>4. g.widget = old.widget
        BY <1>6, <1>8, <1>9, <3>1, <4>2, <4>3
      <4> QED
        BY <1>9, <3>1, <4>1, <4>4
    <3>2. CASE ~ShowsBoundary(old, raw)
      BY <1>9, <3>2
    <3> QED
      BY <3>1, <3>2
  <2>4. ShownModel(g, new) = m
    <3>1. PICK bound, regions :
            /\ regions = IF m.enabled THEN BoxesOf(g.tables) ELSE m.regions
            /\ bound = IF ~ShowsBoundary(g, new) THEN m.bound
                       ELSE IF g.widget = 0 THEN None ELSE g.widget
      OBVIOUS
    <3>2. ShownModel(g, new) = [[[m EXCEPT !.dir = m.dir] EXCEPT !.regions = regions]
                                  EXCEPT !.bound = bound]
      BY <1>3, <1>4, <1>8, <3>1 DEF ShownModel
    <3>3. PICK h : h = [m EXCEPT !.dir = m.dir]
      OBVIOUS
    <3>4. h = m
      BY <1>3, <3>3 DEF IsModel
    <3>5. [m EXCEPT !.regions = m.regions] = m /\ [m EXCEPT !.bound = m.bound] = m
      BY <1>3 DEF IsModel
    <3>6. regions = m.regions
      BY <1>8, <2>2, <3>1
    <3>7. bound = m.bound
      BY <2>3, <3>1
    <3> QED
      BY <3>2, <3>3, <3>4, <3>5, <3>6, <3>7
  <2>5. OnScreen(g, new) = OnScreen(old, raw)
    BY <1>1, <1>2, <1>4, <1>8, <2>4, SameScreen
  <2> QED
    BY <1>4, <2>1, <2>5
<1> QED
  BY <1>4, <1>8, <1>10 DEF PageOK, MeantOK

(* A button that puts a boundary aside for the field.                      *)
LEMMA StashSound ==
  ASSUME NEW old, NEW raw, NEW mind, PageOK(old, raw, mind), NEW p \in Nat \ {0},
         NEW f, f = Unsaved([old EXCEPT !.stash = p]), NEW new, IsFile(new),
         NEW g, g = Rendered(f, new), NEW now,
         mind = Screen(Page(raw.model, old.dir, old.tables, PageBound(old, raw)), old.settings)
           => now = Screen(Page(new.model, g.dir, old.tables, p), old.settings)
  PROVE  PageOK(g, new, now)
<1>1. FormOK(old) /\ IsModel(raw.model) /\ IsModel(new.model) /\ IsFile(raw)
  BY DEF PageOK, IsFile
<1>2. PICK h : h = [old EXCEPT !.stash = p]
  OBVIOUS
<1>3. /\ FormOK(h) /\ SamePage(h, old) /\ h.tables = old.tables /\ h.dir = old.dir
      /\ h.settings = old.settings /\ h.widget = old.widget /\ h.stash = p
  <2>1. h = [tables |-> old.tables, dir |-> old.dir, filledDir |-> old.filledDir,
             settings |-> old.settings, widget |-> old.widget, seed |-> old.seed,
             stash |-> p, saved |-> old.saved, lost |-> old.lost]
    BY <1>1, <1>2 DEF FormOK
  <2> QED
    BY <1>1, <2>1 DEF FormOK, SamePage
<1>4. /\ FormOK(f) /\ SamePage(f, old) /\ ~f.saved
      /\ f.tables = old.tables /\ f.settings = old.settings /\ f.stash = p
  BY <1>2, <1>3, UnsavedIs DEF SamePage
<1>5. f.stash # None
  BY <1>4, NoneAssumption
<1>6. /\ FormOK(g) /\ Settled(g, new) /\ ~g.saved /\ g.settings = old.settings
      /\ (f.lost => g.lost)
  BY <1>1, <1>4, RenderedPage
<1>7. ASSUME ~g.lost PROVE now = OnScreen(g, new)
  <2>1. ~old.lost
    BY <1>4, <1>6, <1>7 DEF SamePage
  <2>2. mind = Screen(ShownModel(old, raw), old.settings)
    BY <1>1, <2>1, OnScreenIs DEF PageOK, MeantOK, Screen
  <2>3. ShownModel(old, raw) = Page(raw.model, old.dir, old.tables, PageBound(old, raw))
    BY <1>1, <2>1, SettledShows DEF PageOK
  <2>4. ShownModel(g, new) = Page(new.model, g.dir, old.tables, p)
    BY <1>1, <1>4, <1>5, <1>7, RunWithStash
  <2>5. OnScreen(g, new) = Screen(ShownModel(g, new), old.settings)
    BY <1>6, OnScreenIs DEF Screen
  <2> QED
    BY <2>2, <2>3, <2>4, <2>5
<1> QED
  BY <1>6, <1>7 DEF PageOK, MeantOK

(***************************************************************************)
(* The PREPARE children, the queue entry and the run.                      *)
(***************************************************************************)
PlanOK(plan) ==
  /\ plan.bound \in Nat \ {0} /\ IsConfig(plan.cfg)
  /\ \E n \in Nat \ {0} : /\ DOMAIN plan.decks = 1..n /\ DOMAIN plan.cfg.cases = 1..n
                         /\ Len(plan.decks) = n
                         /\ \A k \in 1..n : IsDeck(plan.decks[k])

PrepOK(p) ==
  /\ p = [pid |-> p.pid, config |-> p.config, report |-> p.report]
  /\ p.pid \in BOOLEAN
  /\ p.report = None \/ p.report = Torn \/ p.report.bound \in Nat \ {0}

(* A child works on the configuration frozen for it; from the moment it    *)
(* writes it has a plan of decks that a solver reads.                      *)
ChildOK(d, c, p) ==
  /\ c = [phase |-> c.phase, plan |-> c.plan, next |-> c.next]
  /\ c.phase \in {"none", "load", "write", "copy", "report", "exit"}
  /\ c.phase # "none" => IsConfig(p.config) /\ p.config.model.dir = d
  /\ c.phase \in {"write", "copy", "report"} => PlanOK(c.plan)
  /\ c.phase = "write" => c.next \in DOMAIN c.plan.decks

ChildrenOK(preps, children) ==
  /\ preps = [d \in Sources |-> preps[d]] /\ children = [d \in Sources |-> children[d]]
  /\ \A d \in Sources : PrepOK(preps[d]) /\ ChildOK(d, children[d], preps[d])

QueuedOK(entry) == entry = None \/ IsFile(entry)

(* The guards leave no node of a rigid part under growable elements alone, *)
(* and the deck pins the design nodes that no living element holds.        *)
PinnedFrom(r) ==
  OneMesh(r.decks) =>
    \A i \in DOMAIN r.first : \A n \in NodesUnder(r.decks[1].cells) :
      \/ n \in NodesUnder(r.first[i].deck.cells) \cup r.first[i].deck.pinned \cup r.noPin
      \/ n < DesignNodeMin /\ n \in NodesUnder(r.held)

RunOK(r) ==
  \/ r = None
  \/ r.state = "refused"
  \/ /\ r.state = "started" /\ Runnable(r.cfg) /\ PinnedFrom(r)
     /\ \A i \in DOMAIN r.first :
          r.cfg.knobs.sensitivity = "tdsa" => r.first[i].engine.tensors = 1

BenchInv ==
  /\ FoldersOK(disk) /\ PageOK(form, file, meant) /\ QueuedOK(queued)
  /\ ChildrenOK(prep, child) /\ RunOK(run)
  /\ clicks \in 0..MaxClicks

LEMMA NoFolderIsFolder == IsFolder(NoFolder)
<1>1. \A n \in DOMAIN NoFolder.files : FALSE
  BY DEF NoFolder
<1> QED
  BY <1>1 DEF IsFolder, NoFolder

LEMMA BenchStarts == Init => BenchInv
<1> SUFFICES ASSUME Init PROVE BenchInv
  OBVIOUS
<1>1. FoldersOK(disk)
  <2>1. PICK folder \in FirstFolders : disk = [d \in Dirs |-> IF d = 0 THEN folder ELSE NoFolder]
    BY DEF Init
  <2>2. IsFolder(folder)
    BY FirstAssumption
  <2> QED
    BY <2>1, <2>2, NoFolderIsFolder DEF FoldersOK
<1>2. PageOK(form, file, meant)
  BY FirstAssumption, OpensSound DEF Init
<1>3. ChildrenOK(prep, child)
  <2>1. PrepOK(NoPrep)
    BY DEF PrepOK, NoPrep
  <2>2. \A d : ChildOK(d, NoChild, NoPrep)
    BY DEF ChildOK, NoChild
  <2> QED
    BY <2>1, <2>2 DEF Init, ChildrenOK
<1>4. clicks \in 0..MaxClicks
  BY BoundsAssumption DEF Init
<1> QED
  BY <1>1, <1>2, <1>3, <1>4 DEF Init, BenchInv, QueuedOK, RunOK

LEMMA ClickCounts ==
  ASSUME clicks \in 0..MaxClicks, Click
  PROVE  clicks' \in 0..MaxClicks
  BY BoundsAssumption DEF Click

LEMMA PageEdits ==
  ASSUME BenchInv, EditRegions \/ EditDir \/ EditSettings \/ TypeBoundary
  PROVE  BenchInv'
<1>1. PageOK(form, file, meant) /\ clicks \in 0..MaxClicks
  BY DEF BenchInv
<1>2. PageOK(form', file', meant')
  BY <1>1, EditRegionsSound, EditDirSound, EditSettingsSound, TypeBoundarySound
<1>3. Click /\ Untouched
  BY DEF EditRegions, EditDir, EditSettings, TypeBoundary
<1>4. clicks' \in 0..MaxClicks
  BY <1>1, <1>3, ClickCounts
<1> QED
  BY <1>2, <1>3, <1>4 DEF BenchInv, Untouched

LEMMA SaveKeeps ==
  ASSUME BenchInv, Save
  PROVE  BenchInv'
<1>1. PageOK(form, file, meant) /\ clicks \in 0..MaxClicks
  BY DEF BenchInv
<1>2. form' = Rendered(SavedPage(form), file')
  BY DEF Save, SavedPage
<1>3. PageOK(form', file', meant')
  BY <1>1, <1>2, SaveSound DEF Save
<1>4. clicks' \in 0..MaxClicks
  BY <1>1, ClickCounts DEF Save
<1> QED
  BY <1>3, <1>4 DEF BenchInv, Save

LEMMA AddKeeps ==
  ASSUME BenchInv, Add
  PROVE  BenchInv'
<1>1. PageOK(form, file, meant) /\ clicks \in 0..MaxClicks
  BY DEF BenchInv
<1>2. form' = Rendered(SavedPage(form), file')
  BY DEF Add, SavedPage
<1>3. PageOK(form', file', meant')
  BY <1>1, <1>2, SaveSound DEF Add
<1>4. QueuedOK(queued')
  BY <1>3 DEF Add, PageOK, QueuedOK
<1>5. clicks' \in 0..MaxClicks
  BY <1>1, ClickCounts DEF Add
<1> QED
  BY <1>3, <1>4, <1>5 DEF BenchInv, Add

LEMMA AddFromDiskKeeps ==
  ASSUME BenchInv, AddFromDisk
  PROVE  BenchInv'
<1>1. PageOK(form, file, meant) /\ clicks \in 0..MaxClicks
  BY DEF BenchInv
<1>2. PageOK(form', file', meant')
  BY <1>1, RunOnly DEF AddFromDisk
<1>3. QueuedOK(queued')
  BY <1>1 DEF AddFromDisk, PageOK, QueuedOK
<1>4. clicks' \in 0..MaxClicks
  BY <1>1, ClickCounts DEF AddFromDisk
<1> QED
  BY <1>2, <1>3, <1>4 DEF BenchInv, AddFromDisk

(* The decks of a configuration, as a reader of the disk finds them.       *)
LEMMA DecksOnDisk ==
  ASSUME FoldersOK(disk), NEW cfg, IsConfig(cfg)
  PROVE  /\ Len(cfg.cases) \in Nat /\ DOMAIN cfg.cases = 1..Len(cfg.cases)
         /\ cfg.cases # <<>> <=> Len(cfg.cases) > 0
         /\ DOMAIN Decks(cfg) = DOMAIN cfg.cases
         /\ \A i \in DOMAIN cfg.cases :
              /\ cfg.cases[i] \in CaseRows
              /\ Decks(cfg)[i] = disk[cfg.model.dir].starters[cfg.cases[i].stem]
              /\ Decks(cfg)[i] = None \/ IsDeck(Decks(cfg)[i])
<1>1. /\ Len(cfg.cases) \in Nat /\ DOMAIN cfg.cases = 1..Len(cfg.cases)
      /\ cfg.cases = [i \in 1..Len(cfg.cases) |-> cfg.cases[i]]
      /\ \A i \in 1..Len(cfg.cases) : cfg.cases[i] \in CaseRows
  BY RowsAreSeq DEF IsConfig
<1>2. cfg.cases # <<>> <=> Len(cfg.cases) > 0
  <2>1. cfg.cases \in Seq(CaseRows)
    BY DEF IsConfig, AreRows, CaseRows
  <2> QED
    BY <2>1
<1>3. IsFolder(disk[cfg.model.dir])
  BY DEF FoldersOK, IsConfig, IsModel
<1>4. \A i \in DOMAIN cfg.cases : cfg.cases[i].stem \in CaseStems
  BY <1>1 DEF CaseRows
<1> QED
  BY <1>1, <1>2, <1>3, <1>4 DEF Decks, IsFolder

LEMMA PreviewKeeps ==
  ASSUME BenchInv, PreviewRegions
  PROVE  BenchInv'
<1>1. PageOK(form, file, meant) /\ FoldersOK(disk) /\ clicks \in 0..MaxClicks
      /\ FormOK(form) /\ IsFile(file) /\ IsModel(file.model)
  BY DEF BenchInv, PageOK, IsFile
<1>2. PICK cfg : cfg = OnScreen(form, file)
  OBVIOUS
<1>3. PICK top : top = MaxElemId(Decks(cfg)[1])
  OBVIOUS
<1>4. /\ Click /\ Untouched /\ cfg.cases # <<>> /\ Decks(cfg)[1] # None
      /\ form' = Rendered(Unsaved([form EXCEPT !.stash = top]), file)
      /\ meant' = [meant EXCEPT !.model.bound = top]
  BY <1>2, <1>3 DEF PreviewRegions, Unsaved
<1>5. top \in Nat \ {0}
  <2>1. IsConfig(cfg)
    BY <1>1, <1>2, OnScreenIs
  <2>2. 1 \in DOMAIN cfg.cases
    BY <1>1, <1>4, <2>1, DecksOnDisk
  <2>3. IsDeck(Decks(cfg)[1])
    BY <1>1, <1>4, <2>1, <2>2, DecksOnDisk
  <2> QED
    BY <1>3, <2>3, TopOfElements
<1>6. PICK f : f = Unsaved([form EXCEPT !.stash = top])
  OBVIOUS
<1>7. PICK d, t, x, b : /\ d = form.dir /\ t = form.tables /\ x = form.settings
                        /\ b = PageBound(form, file)
  OBVIOUS
<1>8. form'.dir = d
  <2>1. PICK h : h = [form EXCEPT !.stash = top]
    OBVIOUS
  <2>2. h = [tables |-> form.tables, dir |-> form.dir, filledDir |-> form.filledDir,
             settings |-> form.settings, widget |-> form.widget, seed |-> form.seed,
             stash |-> top, saved |-> form.saved, lost |-> form.lost]
    BY <1>1, <2>1 DEF FormOK
  <2>3. FormOK(h) /\ h.dir = d /\ h.filledDir = form.filledDir
    BY <1>1, <1>5, <1>7, <2>2 DEF FormOK
  <2>4. FormOK(f) /\ f.dir = d /\ f.filledDir = file.model.dir
    BY <1>1, <1>6, <2>1, <2>3, UnsavedIs DEF SamePage, PageOK, Settled
  <2> QED
    BY <1>1, <1>4, <1>6, <2>4, RenderedPage
<1>9. ASSUME meant = Screen(Page(file.model, d, t, b), x)
      PROVE  meant' = Screen(Page(file.model, d, t, top), x)
  <2>1. PICK m : m = Page(file.model, d, t, b)
    OBVIOUS
  <2>2. meant' = [meant EXCEPT !.model.bound = top] /\ meant = Screen(m, x)
    BY <1>4, <1>9, <2>1
  <2>3. meant' = Screen([m EXCEPT !.bound = top], x)
    BY <2>2, ScreenFields
  <2>4. [m EXCEPT !.bound = top] = Page(file.model, d, t, top)
    BY <1>1, <2>1, PageFields
  <2> QED
    BY <2>3, <2>4
<1>10. PageOK(form', file, meant')
  BY <1>1, <1>4, <1>5, <1>6, <1>7, <1>8, <1>9, StashSound
<1>11. clicks' \in 0..MaxClicks
  BY <1>1, <1>4, ClickCounts
<1> QED
  BY <1>4, <1>10, <1>11 DEF BenchInv, Untouched

LEMMA OneChild ==
  ASSUME NEW preps, NEW children, ChildrenOK(preps, children), NEW d \in Sources,
         NEW p, PrepOK(p), NEW c, ChildOK(d, c, p)
  PROVE  /\ ChildrenOK([preps EXCEPT ![d] = p], [children EXCEPT ![d] = c])
         /\ p = preps[d] => ChildrenOK(preps, [children EXCEPT ![d] = c])
<1>1. \A e \in Sources : /\ [preps EXCEPT ![d] = p][e] = IF e = d THEN p ELSE preps[e]
                         /\ [children EXCEPT ![d] = c][e] = IF e = d THEN c ELSE children[e]
  BY DEF ChildrenOK
<1>2. \A e \in Sources : PrepOK(preps[e]) /\ ChildOK(e, children[e], preps[e])
  BY DEF ChildrenOK
<1>3. /\ [preps EXCEPT ![d] = p] = [e \in Sources |-> [preps EXCEPT ![d] = p][e]]
      /\ [children EXCEPT ![d] = c] = [e \in Sources |-> [children EXCEPT ![d] = c][e]]
      /\ preps = [e \in Sources |-> preps[e]]
  BY DEF ChildrenOK
<1>4. \A e \in Sources : /\ PrepOK([preps EXCEPT ![d] = p][e])
                         /\ ChildOK(e, [children EXCEPT ![d] = c][e], [preps EXCEPT ![d] = p][e])
  BY <1>1, <1>2
<1>5. p = preps[d] => \A e \in Sources : ChildOK(e, [children EXCEPT ![d] = c][e], preps[e])
  BY <1>1, <1>2
<1> QED
  BY <1>2, <1>3, <1>4, <1>5 DEF ChildrenOK

LEMMA IdleChild ==
  /\ \A d, p : ChildOK(d, NoChild, p)
  /\ \A d, p : IsConfig(p.config) /\ p.config.model.dir = d
                 => ChildOK(d, [NoChild EXCEPT !.phase = "load"], p)
<1>1. \A d, p : ChildOK(d, NoChild, p)
  BY DEF ChildOK, NoChild
<1>2. [NoChild EXCEPT !.phase = "load"] = [phase |-> "load", plan |-> None, next |-> 0]
  BY DEF NoChild
<1>3. PICK c : c = [NoChild EXCEPT !.phase = "load"]
  OBVIOUS
<1>4. \A d, p : IsConfig(p.config) /\ p.config.model.dir = d => ChildOK(d, c, p)
  BY <1>2, <1>3 DEF ChildOK
<1> QED
  BY <1>1, <1>3, <1>4

LEMMA GenerateKeeps ==
  ASSUME BenchInv, Generate
  PROVE  BenchInv'
<1>1. PageOK(form, file, meant) /\ ChildrenOK(prep, child) /\ clicks \in 0..MaxClicks
  BY DEF BenchInv
<1>2. PICK cfg, d : cfg = OnScreen(form, file) /\ d = cfg.model.dir
  OBVIOUS
<1>3. PICK p, c : /\ p = [pid |-> TRUE, config |-> cfg, report |-> None]
                  /\ c = [NoChild EXCEPT !.phase = "load"]
  OBVIOUS
<1>4. /\ Click /\ d \in Sources /\ prep' = [prep EXCEPT ![d] = p]
      /\ child' = [child EXCEPT ![d] = c]
      /\ form' = Rendered(form, file) /\ UNCHANGED <<disk, file, queued, run, meant>>
  BY <1>2, <1>3, Zenon DEF Generate
<1>5. IsConfig(cfg)
  BY <1>1, <1>2, OnScreenIs DEF PageOK
<1>6. PrepOK(p) /\ ChildOK(d, c, p)
  BY <1>2, <1>3, <1>5, IdleChild DEF PrepOK
<1>7. ChildrenOK(prep', child')
  BY <1>1, <1>4, <1>6, OneChild
<1>8. PageOK(form', file', meant')
  BY <1>1, <1>4, RunOnly
<1>9. clicks' \in 0..MaxClicks
  BY <1>1, <1>4, ClickCounts
<1> QED
  BY <1>4, <1>7, <1>8, <1>9 DEF BenchInv

(* A finished PREPARE has recorded the boundary: an element of the deck.   *)
LEMMA DoneIsRecorded ==
  ASSUME NEW d \in Sources, PrepOK(prep[d]), Done(d)
  PROVE  prep[d].report.bound \in Nat \ {0}
<1>1. prep[d].report # Torn
  BY DEF Done, StatusOf
<1>2. prep[d].report # None
  BY DEF Done, StatusOf
<1> QED
  BY <1>1, <1>2 DEF PrepOK

LEMMA UseKeeps ==
  ASSUME BenchInv, Use
  PROVE  BenchInv'
<1>1. PageOK(form, file, meant) /\ ChildrenOK(prep, child) /\ clicks \in 0..MaxClicks
      /\ IsFile(file) /\ IsModel(file.model)
  BY DEF BenchInv, PageOK, IsFile
<1>2. PICK d, e, top : /\ d = form.dir /\ e = d + 1 /\ top = prep[d].report.bound
  OBVIOUS
<1>3. /\ Click /\ file.model.enabled /\ d \in Sources /\ Done(d)
      /\ file' = [file EXCEPT !.model.dir = e, !.model.bound = top]
      /\ form' = Rendered(Unsaved([form EXCEPT !.stash = top]), file')
      /\ meant' = [meant EXCEPT !.model.dir = form'.dir, !.model.bound = top]
      /\ UNCHANGED <<disk, prep, child, queued, run>>
  BY <1>2, Zenon DEF Use, Growing, Unsaved
<1>4. top \in Nat \ {0}
  BY <1>1, <1>2, <1>3, DoneIsRecorded DEF ChildrenOK
<1>5. e \in Dirs
  BY <1>2, <1>3, BoundsAssumption DEF Dirs, Sources
<1>6. PICK m, n : m = file.model /\ n = [[m EXCEPT !.dir = e] EXCEPT !.bound = top]
  OBVIOUS
<1>7. IsModel(n) /\ \A dir, t, b : Page(n, dir, t, b) = Page(m, dir, t, b)
  <2>1. IsModel(m) /\ m.enabled
    BY <1>1, <1>3, <1>6
  <2>2. n = UsedModel(m, e, top)
    BY <1>6 DEF UsedModel
  <2> QED
    BY <1>4, <1>5, <2>1, <2>2, PageOver
<1>8. IsFile(file') /\ file'.model = n
  <2>1. file' = [file EXCEPT !.model = n]
    <3>1. PICK h : h = [file EXCEPT !.model.dir = e]
      OBVIOUS
    <3>2. file' = [h EXCEPT !.model.bound = top]
      BY <1>3, <3>1
    <3>3. PICK k : k = [m EXCEPT !.dir = e]
      OBVIOUS
    <3>4. h = [model |-> k, optimizer |-> file.optimizer, knobs |-> file.knobs,
               run |-> file.run, rows |-> file.rows, legacy |-> file.legacy,
               unknown |-> file.unknown]
      BY <1>1, <1>6, <3>1, <3>3 DEF IsFile
    <3>5. h.model = k
      BY <3>4
    <3>6. n = [k EXCEPT !.bound = top]
      BY <1>6, <3>3
    <3>7. file' = [h EXCEPT !.model = n]
      BY <3>2, <3>5, <3>6
    <3>8. [h EXCEPT !.model = n] =
            [model |-> n, optimizer |-> file.optimizer, knobs |-> file.knobs,
             run |-> file.run, rows |-> file.rows, legacy |-> file.legacy,
             unknown |-> file.unknown]
      BY <3>4
    <3>9. [file EXCEPT !.model = n] =
            [model |-> n, optimizer |-> file.optimizer, knobs |-> file.knobs,
             run |-> file.run, rows |-> file.rows, legacy |-> file.legacy,
             unknown |-> file.unknown]
      BY <1>1 DEF IsFile
    <3> QED
      BY <3>7, <3>8, <3>9
  <2>2. PICK new : new = file'
    OBVIOUS
  <2>3. new = [model |-> n, optimizer |-> file.optimizer, knobs |-> file.knobs,
               run |-> file.run, rows |-> file.rows, legacy |-> file.legacy,
               unknown |-> file.unknown]
    BY <1>1, <2>1, <2>2 DEF IsFile
  <2>4. IsFile(new) /\ new.model = n
    BY <1>1, <1>7, <2>3 DEF IsFile
  <2> QED
    BY <2>2, <2>4
<1>9. PICK dir, t, x, b, shown : /\ dir = form.dir /\ t = form.tables /\ x = form.settings
                                 /\ b = PageBound(form, file) /\ shown = form'.dir
  OBVIOUS
<1>10. ASSUME meant = Screen(Page(m, dir, t, b), x)
       PROVE  meant' = Screen(Page(n, shown, t, top), x)
  <2>1. PICK before, between : before = Page(m, dir, t, b) /\ between = Page(m, shown, t, b)
    OBVIOUS
  <2>2. PICK half : half = [meant EXCEPT !.model.dir = shown]
    OBVIOUS
  <2>3. meant' = [half EXCEPT !.model.bound = top]
    BY <1>3, <1>9, <2>2
  <2>4. half = Screen([before EXCEPT !.dir = shown], x)
    BY <1>10, <2>1, <2>2, ScreenFields
  <2>5. [before EXCEPT !.dir = shown] = between
    BY <1>1, <1>6, <2>1, PageFields
  <2>6. half = Screen(between, x)
    BY <2>4, <2>5
  <2>7. meant' = Screen([between EXCEPT !.bound = top], x)
    BY <2>3, <2>6, ScreenFields
  <2>8. [between EXCEPT !.bound = top] = Page(m, shown, t, top)
    BY <1>1, <1>6, <2>1, PageFields
  <2> QED
    BY <1>7, <2>7, <2>8
<1>11. PageOK(form', file', meant')
  <2>1. PICK f : f = Unsaved([form EXCEPT !.stash = top])
    OBVIOUS
  <2>2. form' = Rendered(f, file')
    BY <1>3, <2>1
  <2> QED
    BY <1>1, <1>4, <1>6, <1>8, <1>9, <1>10, <2>1, <2>2, StashSound
<1>12. clicks' \in 0..MaxClicks
  BY <1>1, <1>3, ClickCounts
<1> QED
  BY <1>3, <1>11, <1>12 DEF BenchInv

(* Killed, a child leaves its scratch folder, perhaps with half a report.  *)
LEMMA KilledKeeps ==
  ASSUME ChildrenOK(prep, child), NEW d \in Sources, Killed(d)
  PROVE  ChildrenOK(prep', child')
<1>1. PrepOK(prep[d]) /\ ChildOK(d, NoChild, prep[d])
  BY IdleChild DEF ChildrenOK
<1>2. child' = [child EXCEPT ![d] = NoChild]
  BY DEF Killed
<1>3. CASE prep' = prep
  BY <1>1, <1>2, <1>3, OneChild
<1>4. CASE prep' = [prep EXCEPT ![d].report = Torn]
  <2>1. PICK p : p = [prep[d] EXCEPT !.report = Torn]
    OBVIOUS
  <2>2. p = [pid |-> prep[d].pid, config |-> prep[d].config, report |-> Torn]
    BY <1>1, <2>1 DEF PrepOK
  <2>3. PrepOK(p) /\ ChildOK(d, NoChild, p)
    BY <1>1, <2>2, IdleChild DEF PrepOK
  <2>4. prep' = [prep EXCEPT ![d] = p]
    BY <1>4, <2>1
  <2> QED
    BY <1>2, <2>3, <2>4, OneChild
<1> QED
  BY <1>3, <1>4 DEF Killed

LEMMA CancelKeeps ==
  ASSUME BenchInv, Cancel
  PROVE  BenchInv'
<1>1. PageOK(form, file, meant) /\ ChildrenOK(prep, child) /\ clicks \in 0..MaxClicks
  BY DEF BenchInv
<1>2. PICK d : d = form.dir
  OBVIOUS
<1>3. /\ Click /\ d \in Sources /\ Killed(d) /\ form' = Rendered(form, file)
      /\ UNCHANGED <<disk, file, queued, run, meant>>
  BY <1>2 DEF Cancel, Killed
<1>4. ChildrenOK(prep', child')
  BY <1>1, <1>3, KilledKeeps
<1>5. PageOK(form', file', meant')
  BY <1>1, <1>3, RunOnly
<1>6. clicks' \in 0..MaxClicks
  BY <1>1, <1>3, ClickCounts
<1> QED
  BY <1>3, <1>4, <1>5, <1>6 DEF BenchInv

LEMMA ChildCrashesKeeps ==
  ASSUME BenchInv, NEW d \in Sources, ChildCrashes(d)
  PROVE  BenchInv'
<1>1. ChildrenOK(prep', child')
  BY KilledKeeps DEF BenchInv, ChildCrashes
<1> QED
  BY <1>1 DEF BenchInv, ChildCrashes, Killed

(* Decks that are not refused can be extended.                             *)
LEMMA NotRefused ==
  ASSUME NEW decks, AreDecks(decks), NEW m, AreRegions(m.regions), NEW files,
         GeometryFiles(files), ~Refused(decks, m, files)
  PROVE  Preparable(decks[1], m, files)
<1>1. IsDeck(decks[1])
  BY DEF AreDecks
<1>2. /\ \A r \in Regions(m) : Resolvable(decks[1], r, files)
      /\ SurfaceKnown(decks[1]) /\ Kept(decks[1], m, files) # {}
  BY DEF Refused
<1> QED
  BY <1>1, <1>2 DEF Preparable

LEMMA LoadedDecks ==
  ASSUME FoldersOK(disk), NEW cfg, IsConfig(cfg),
         NEW decks, decks = Decks(cfg), NEW files, ~Refused(decks, cfg.model, files)
  PROVE  /\ AreDecks(decks) /\ DOMAIN decks = DOMAIN cfg.cases
         /\ \A i, j \in DOMAIN decks : cfg.cases[i].stem = cfg.cases[j].stem => decks[i] = decks[j]
<1>1. PICK n : n = Len(cfg.cases)
  OBVIOUS
<1>2. /\ n \in Nat /\ DOMAIN cfg.cases = 1..n /\ DOMAIN decks = 1..n
      /\ \A i \in 1..n : decks[i] = None \/ IsDeck(decks[i])
      /\ \A i \in 1..n : decks[i] = disk[cfg.model.dir].starters[cfg.cases[i].stem]
      /\ decks = [i \in 1..n |-> decks[i]]
  <2>1. decks = [i \in DOMAIN cfg.cases |-> decks[i]]
    BY DEF Decks
  <2> QED
    BY <1>1, <2>1, DecksOnDisk
<1>3. SharesMesh(decks)
  BY DEF Refused
<1>4. n # 0
  <2>1. SUFFICES ASSUME n = 0 PROVE FALSE
    OBVIOUS
  <2>2. decks = <<>>
    BY <1>2, <2>1
  <2> QED
    BY <1>3, <2>2 DEF SharesMesh
<1>5. n \in Nat \ {0} /\ \A i \in 1..n : IsDeck(decks[i])
  BY <1>2, <1>3, <1>4 DEF SharesMesh
<1> QED
  BY <1>2, <1>5 DEF AreDecks

(* The geometry decks a configuration refers to are there, or PREPARE is   *)
(* refused.                                                                *)
LEMMA LoadedFiles ==
  ASSUME NEW decks, NEW m, NEW f, ~Refused(decks, m, f), NEW g,
         \A n \in DOMAIN f : n \in DOMAIN g /\ f[n] = g[n]
  PROVE  Agree(m, f, g)
<1>1. (\A r \in Regions(m) : Resolvable(decks[1], r, f)) /\ KeepOutResolves(m, f)
  BY DEF Refused
<1>2. ASSUME NEW r \in Regions(m), r.shape = "deck" PROVE r.ref \in DOMAIN f
  BY <1>1, <1>2 DEF Resolvable
<1>3. m.keepOut # None => m.keepOut \in DOMAIN f
  BY <1>1 DEF KeepOutResolves
<1>4. Referenced(m) \in SUBSET DOMAIN f
  BY <1>2, <1>3 DEF Referenced
<1> QED
  BY <1>4 DEF Agree

(* What is not refused can be prepared.                                    *)
LEMMA LoadsPlan ==
  ASSUME FoldersOK(disk), NEW d \in Sources, NEW cfg, IsConfig(cfg), cfg.model.dir = d,
         NEW decks, decks = Decks(cfg), ~Refused(decks, cfg.model, disk[d].files)
  PROVE  PlanOK(Prepared(d, cfg, decks))
<1>1. PICK files, m : files = disk[d].files /\ m = cfg.model
  OBVIOUS
<1>2. AreDecks(decks) /\ DOMAIN decks = DOMAIN cfg.cases
  BY LoadedDecks
<1>3. PICK n \in Nat \ {0} : DOMAIN decks = 1..n /\ \A k \in 1..n : IsDeck(decks[k])
  BY <1>2 DEF AreDecks
<1>4. Preparable(decks[1], m, files)
  <2>1. GeometryFiles(files)
    <3>1. d \in Dirs
      BY BoundsAssumption DEF Dirs, Sources
    <3> QED
      BY <1>1, <3>1 DEF GeometryFiles, FoldersOK, IsFolder
  <2>2. AreRegions(m.regions)
    BY <1>1 DEF IsConfig, IsModel
  <2> QED
    BY <1>1, <1>2, <2>1, <2>2, NotRefused
<1>5. PICK growth : growth = Growth(decks, m, files)
  OBVIOUS
<1>6. \A i \in 1..n : IsDeck(Extended(decks[i], growth.nodes, growth.cells))
  BY <1>2, <1>3, <1>4, <1>5, ExtendedIsDeck
<1>7. PICK extended : extended = [i \in 1..n |-> Extended(decks[i], growth.nodes, growth.cells)]
  OBVIOUS
<1>8. DOMAIN extended = 1..n /\ Len(extended) = n /\ \A i \in 1..n : IsDeck(extended[i])
  BY <1>6, <1>7
<1>9. PICK plan : plan = Prepared(d, cfg, decks)
  OBVIOUS
<1>10. plan.bound = TopElemId(decks) /\ plan.cfg = cfg /\ plan.decks = extended
  BY <1>1, <1>3, <1>5, <1>7, <1>9 DEF Prepared
<1>11. plan.bound \in Nat \ {0}
  BY <1>2, <1>10, TopsOfDecks
<1>12. PlanOK(plan)
  BY <1>2, <1>3, <1>8, <1>10, <1>11 DEF PlanOK
<1> QED
  BY <1>9, <1>12

LEMMA ChildLoadsKeeps ==
  ASSUME BenchInv, NEW d \in Sources, ChildLoads(d)
  PROVE  BenchInv'
<1>1. ChildrenOK(prep, child) /\ FoldersOK(disk)
  BY DEF BenchInv
<1>2. PrepOK(prep[d]) /\ ChildOK(d, child[d], prep[d])
  BY <1>1 DEF ChildrenOK
<1>3. PICK cfg, decks : cfg = prep[d].config /\ decks = Decks(cfg)
  OBVIOUS
<1>4. PICK c : c = IF Refused(decks, cfg.model, disk[d].files) THEN NoChild
                   ELSE [phase |-> "write", plan |-> Prepared(d, cfg, decks), next |-> 1]
  OBVIOUS
<1>5. /\ child[d].phase = "load" /\ child' = [child EXCEPT ![d] = c]
      /\ Unchosen /\ UNCHANGED <<disk, prep>>
  BY <1>3, <1>4, Zenon DEF ChildLoads
<1>6. IsConfig(cfg) /\ cfg.model.dir = d
  BY <1>2, <1>3, <1>5 DEF ChildOK
<1>7. ChildOK(d, c, prep[d])
  <2>1. CASE Refused(decks, cfg.model, disk[d].files)
    BY <1>4, <2>1, IdleChild
  <2>2. CASE ~Refused(decks, cfg.model, disk[d].files)
    <3>1. PICK plan : plan = Prepared(d, cfg, decks)
      OBVIOUS
    <3>2. PlanOK(plan)
      BY <1>1, <1>3, <1>6, <2>2, <3>1, LoadsPlan
    <3>3. c = [phase |-> "write", plan |-> plan, next |-> 1]
      BY <1>4, <2>2, <3>1
    <3>4. 1 \in DOMAIN plan.decks
      BY <3>2 DEF PlanOK
    <3> QED
      BY <1>3, <1>6, <3>2, <3>3, <3>4 DEF ChildOK
  <2> QED
    BY <2>1, <2>2
<1>8. ChildrenOK(prep', child')
  BY <1>1, <1>2, <1>5, <1>7, OneChild
<1> QED
  BY <1>5, <1>8 DEF BenchInv, Unchosen

(* A folder with one starter and one engine more.                          *)
LEMMA FolderWith ==
  ASSUME NEW folder, IsFolder(folder), NEW s \in CaseStems, NEW deck, IsDeck(deck),
         NEW engine, engine = None \/ IsEngine(engine),
         NEW starters, starters = [folder.starters EXCEPT ![s] = deck],
         NEW engines, engines = [folder.engines EXCEPT ![s] = engine]
  PROVE  IsFolder([starters |-> starters, engines |-> engines, files |-> folder.files])
<1>1. /\ DOMAIN starters = CaseStems /\ DOMAIN engines = CaseStems
      /\ \A t \in CaseStems : starters[t] = IF t = s THEN deck ELSE folder.starters[t]
      /\ \A t \in CaseStems : engines[t] = IF t = s THEN engine ELSE folder.engines[t]
  BY DEF IsFolder
<1>2. PICK g : g = [starters |-> starters, engines |-> engines, files |-> folder.files]
  OBVIOUS
<1>3. g.starters = starters /\ g.engines = engines /\ g.files = folder.files
  BY <1>2
<1>4. \A t \in CaseStems : starters[t] = None \/ IsDeck(starters[t])
  BY <1>1 DEF IsFolder
<1>5. \A t \in CaseStems : engines[t] = None \/ IsEngine(engines[t])
  BY <1>1 DEF IsFolder
<1>6. \A n \in DOMAIN folder.files : IsGeometry(folder.files[n])
  BY DEF IsFolder
<1>7. IsFolder(g)
  BY <1>1, <1>2, <1>3, <1>4, <1>5, <1>6 DEF IsFolder
<1> QED
  BY <1>2, <1>7

(* A child's write, as one folder and one child that change.               *)
WithCase(folder, s, deck, engine) ==
  [starters |-> [folder.starters EXCEPT ![s] = deck],
   engines |-> [folder.engines EXCEPT ![s] = engine], files |-> folder.files]

LEMMA WritesAre ==
  ASSUME BenchInv, NEW d \in Sources, ChildWrites(d), NEW plan, plan = child[d].plan,
         NEW k, k = child[d].next, NEW s, s = plan.cfg.cases[k].stem
  PROVE  /\ PlanOK(plan) /\ k \in DOMAIN plan.decks /\ s \in CaseStems
         /\ \E engine :
              /\ engine = None \/ IsEngine(engine)
              /\ disk' = [x \in Dirs |-> IF x = d + 1
                                         THEN WithCase(disk[d + 1], s, plan.decks[k], engine)
                                         ELSE disk[x]]
         /\ child' = [child EXCEPT ![d] =
                        [phase |-> IF k < Len(plan.decks) THEN "write" ELSE "copy",
                         plan |-> plan, next |-> k + 1]]
<1>1. ChildrenOK(prep, child) /\ FoldersOK(disk)
  BY DEF BenchInv
<1>2. PrepOK(prep[d]) /\ ChildOK(d, child[d], prep[d])
  BY <1>1 DEF ChildrenOK
<1>3. PICK e : e = d + 1
  OBVIOUS
<1>4. child[d].phase = "write"
  BY DEF ChildWrites
<1>5. /\ disk' = [disk EXCEPT ![e].starters[s] = plan.decks[k],
                            ![e].engines[s] = IF disk[d].engines[s] = None THEN @
                                              ELSE disk[d].engines[s]]
      /\ child' = [child EXCEPT ![d].next = @ + 1,
                                ![d].phase = IF k < Len(plan.decks) THEN @ ELSE "copy"]
  BY <1>3, Zenon DEF ChildWrites
<1>6. PlanOK(plan) /\ k \in DOMAIN plan.decks
  BY <1>2, <1>4 DEF ChildOK
<1>7. s \in CaseStems
  <2>1. PICK n \in Nat \ {0} : DOMAIN plan.decks = 1..n /\ DOMAIN plan.cfg.cases = 1..n
    BY <1>6 DEF PlanOK
  <2>2. plan.cfg.cases[k] \in CaseRows
    BY <1>6, <2>1, RowsAreSeq DEF PlanOK, IsConfig
  <2> QED
    BY <2>2 DEF CaseRows
<1>8. d \in Dirs /\ e \in Dirs
  BY <1>3, BoundsAssumption DEF Dirs, Sources
<1>9. PICK folder : folder = disk[e]
  OBVIOUS
<1>10. PICK engine : engine = IF disk[d].engines[s] = None THEN folder.engines[s]
                              ELSE disk[d].engines[s]
  OBVIOUS
<1>11. IsFolder(folder) /\ (engine = None \/ IsEngine(engine))
  <2>1. IsFolder(disk[d]) /\ IsFolder(folder)
    BY <1>1, <1>8, <1>9 DEF FoldersOK
  <2> QED
    BY <1>7, <1>10, <2>1 DEF IsFolder
<1>12. disk' = [x \in Dirs |-> IF x = e THEN WithCase(folder, s, plan.decks[k], engine)
                               ELSE disk[x]]
  <2>1. PICK starters, engines : /\ starters = [folder.starters EXCEPT ![s] = plan.decks[k]]
                                 /\ engines = [folder.engines EXCEPT ![s] = engine]
    OBVIOUS
  <2>2. PICK new : new = [starters |-> starters, engines |-> engines, files |-> folder.files]
    OBVIOUS
  <2>3. PICK g : g = [folder EXCEPT !.starters = starters]
    OBVIOUS
  <2>4. g = [starters |-> starters, engines |-> folder.engines, files |-> folder.files]
    BY <1>11, <2>3 DEF IsFolder
  <2>5. PICK h : h = [disk EXCEPT ![e].starters[s] = plan.decks[k]]
    OBVIOUS
  <2>6. h = [disk EXCEPT ![e] = g]
    BY <1>9, <2>1, <2>3, <2>5
  <2>7. h = [x \in Dirs |-> IF x = e THEN g ELSE disk[x]]
    BY <1>1, <1>8, <2>6 DEF FoldersOK
  <2>8. h[e] = g
    BY <1>8, <2>7
  <2>9. disk' = [h EXCEPT ![e].engines[s] = engine]
    <3>1. h[e].engines[s] = folder.engines[s]
      BY <2>4, <2>8
    <3> QED
      BY <1>5, <1>10, <2>5, <3>1
  <2>10. disk' = [h EXCEPT ![e] = [g EXCEPT !.engines = engines]]
    <3>1. g.engines = folder.engines
      BY <2>4
    <3> QED
      BY <2>1, <2>8, <2>9, <3>1
  <2>11. [g EXCEPT !.engines = engines] = new
    BY <2>2, <2>4
  <2>12. disk' = [x \in Dirs |-> IF x = e THEN new ELSE disk[x]]
    BY <1>8, <2>7, <2>10, <2>11
  <2> QED
    BY <2>1, <2>2, <2>12 DEF WithCase
<1>13. PICK c : c = [phase |-> IF k < Len(plan.decks) THEN "write" ELSE "copy",
                     plan |-> plan, next |-> k + 1]
  OBVIOUS
<1>14. child' = [child EXCEPT ![d] = c]
  <2>1. PICK old : old = child[d]
    OBVIOUS
  <2>2. old = [phase |-> "write", plan |-> plan, next |-> k]
    BY <1>2, <1>4, <2>1 DEF ChildOK
  <2>3. PICK g : g = [old EXCEPT !.next = k + 1]
    OBVIOUS
  <2>4. g = [phase |-> "write", plan |-> plan, next |-> k + 1]
    BY <2>2, <2>3
  <2>5. PICK h : h = [child EXCEPT ![d].next = @ + 1]
    OBVIOUS
  <2>6. h = [child EXCEPT ![d] = g]
    BY <2>1, <2>3, <2>5
  <2>7. h[d] = g
    BY <1>1, <2>6 DEF ChildrenOK
  <2>8. PICK p : p = IF k < Len(plan.decks) THEN h[d].phase ELSE "copy"
    OBVIOUS
  <2>9. child' = [h EXCEPT ![d].phase = p]
    BY <1>5, <2>5, <2>8
  <2>10. child' = [h EXCEPT ![d] = [g EXCEPT !.phase = p]]
    BY <2>7, <2>9
  <2>11. [g EXCEPT !.phase = p] = c
    BY <1>13, <2>4, <2>7, <2>8
  <2>12. child' = [h EXCEPT ![d] = c]
    BY <2>10, <2>11
  <2> QED
    BY <1>1, <2>6, <2>12 DEF ChildrenOK
<1>15. disk' = [x \in Dirs |-> IF x = d + 1 THEN WithCase(disk[d + 1], s, plan.decks[k], engine)
                               ELSE disk[x]]
  BY <1>3, <1>9, <1>12
<1> QED
  BY <1>6, <1>7, <1>11, <1>13, <1>14, <1>15

LEMMA ChildWritesKeeps ==
  ASSUME BenchInv, NEW d \in Sources, ChildWrites(d)
  PROVE  BenchInv'
<1>1. ChildrenOK(prep, child) /\ FoldersOK(disk)
  BY DEF BenchInv
<1>2. PrepOK(prep[d]) /\ ChildOK(d, child[d], prep[d])
  BY <1>1 DEF ChildrenOK
<1>3. PICK plan, k, s : /\ plan = child[d].plan /\ k = child[d].next
                        /\ s = plan.cfg.cases[k].stem
  OBVIOUS
<1>4. child[d].phase = "write" /\ Unchosen /\ UNCHANGED prep
  BY DEF ChildWrites
<1>5. PICK c : c = [phase |-> IF k < Len(plan.decks) THEN "write" ELSE "copy",
                    plan |-> plan, next |-> k + 1]
  OBVIOUS
<1>6. PlanOK(plan) /\ k \in DOMAIN plan.decks /\ s \in CaseStems /\ child' = [child EXCEPT ![d] = c]
  BY <1>3, <1>5, WritesAre
<1>7. PICK engine : /\ engine = None \/ IsEngine(engine)
                    /\ disk' = [x \in Dirs |-> IF x = d + 1
                                               THEN WithCase(disk[d + 1], s, plan.decks[k], engine)
                                               ELSE disk[x]]
  BY <1>3, WritesAre
<1>8. PICK n \in Nat \ {0} : /\ DOMAIN plan.decks = 1..n /\ Len(plan.decks) = n
                             /\ \A i \in 1..n : IsDeck(plan.decks[i])
  BY <1>6 DEF PlanOK
<1>9. FoldersOK(disk')
  <2>1. d + 1 \in Dirs
    BY BoundsAssumption DEF Dirs, Sources
  <2>2. IsFolder(disk[d + 1]) /\ IsDeck(plan.decks[k])
    BY <1>1, <1>6, <1>8, <2>1 DEF FoldersOK
  <2>3. IsFolder(WithCase(disk[d + 1], s, plan.decks[k], engine))
    BY <1>6, <1>7, <2>2, FolderWith DEF WithCase
  <2>4. \A x \in Dirs : IsFolder(disk'[x])
    BY <1>1, <1>7, <2>3 DEF FoldersOK
  <2> QED
    BY <1>7, <2>4 DEF FoldersOK
<1>10. ChildOK(d, c, prep[d])
  <2>1. IsConfig(prep[d].config) /\ prep[d].config.model.dir = d
    BY <1>2, <1>4 DEF ChildOK
  <2>2. k < n => k + 1 \in 1..n
    BY <1>6, <1>8
  <2>3. c.plan = plan /\ c.next = k + 1 /\ c.phase \in {"write", "copy"}
        /\ (c.phase = "write" => k < n)
        /\ c = [phase |-> c.phase, plan |-> c.plan, next |-> c.next]
    BY <1>5, <1>8
  <2> QED
    BY <1>6, <1>8, <2>1, <2>2, <2>3 DEF ChildOK
<1>11. ChildrenOK(prep', child')
  BY <1>1, <1>2, <1>4, <1>6, <1>10, OneChild
<1> QED
  BY <1>4, <1>9, <1>11 DEF BenchInv, Unchosen

(* Copies of geometry decks are geometry decks.                            *)
LEMMA ChildCopiesKeeps ==
  ASSUME BenchInv, NEW d \in Sources, ChildCopies(d)
  PROVE  BenchInv'
<1>1. ChildrenOK(prep, child) /\ FoldersOK(disk)
  BY DEF BenchInv
<1>2. PrepOK(prep[d]) /\ ChildOK(d, child[d], prep[d])
  BY <1>1 DEF ChildrenOK
<1>3. PICK e, folder, names, copied :
        /\ e = d + 1 /\ folder = disk[e]
        /\ names = Referenced(child[d].plan.cfg.model) \cap DOMAIN disk[d].files
        /\ copied = [n \in names \cup DOMAIN folder.files |->
                       IF n \in names THEN disk[d].files[n] ELSE folder.files[n]]
  OBVIOUS
<1>4. /\ child[d].phase = "copy" /\ disk' = [disk EXCEPT ![e].files = copied]
      /\ child' = [child EXCEPT ![d].phase = "report"] /\ Unchosen /\ UNCHANGED prep
  BY <1>3 DEF ChildCopies
<1>5. d \in Dirs /\ e \in Dirs
  BY <1>3, BoundsAssumption DEF Dirs, Sources
<1>6. FoldersOK(disk')
  <2>1. IsFolder(disk[d]) /\ IsFolder(folder)
    BY <1>1, <1>3, <1>5 DEF FoldersOK
  <2>2. \A n \in DOMAIN copied : IsGeometry(copied[n])
    BY <1>3, <2>1 DEF IsFolder
  <2>3. PICK new : new = [folder EXCEPT !.files = copied]
    OBVIOUS
  <2>4. new = [starters |-> folder.starters, engines |-> folder.engines, files |-> copied]
    BY <2>1, <2>3 DEF IsFolder
  <2>5. IsFolder(new)
    BY <2>1, <2>2, <2>4 DEF IsFolder
  <2>6. disk' = [x \in Dirs |-> IF x = e THEN new ELSE disk[x]]
    BY <1>1, <1>3, <1>4, <1>5, <2>3 DEF FoldersOK
  <2>7. \A x \in Dirs : IsFolder(disk'[x])
    BY <1>1, <2>5, <2>6 DEF FoldersOK
  <2> QED
    BY <2>6, <2>7 DEF FoldersOK
<1>7. PICK c : c = [child[d] EXCEPT !.phase = "report"]
  OBVIOUS
<1>8. c = [phase |-> "report", plan |-> child[d].plan, next |-> child[d].next]
  BY <1>2, <1>7 DEF ChildOK
<1>9. ChildOK(d, c, prep[d])
  BY <1>2, <1>4, <1>8 DEF ChildOK
<1>10. child' = [child EXCEPT ![d] = c]
  BY <1>4, <1>7
<1>11. ChildrenOK(prep, child')
  BY <1>1, <1>2, <1>9, <1>10, OneChild
<1> QED
  BY <1>4, <1>6, <1>11 DEF BenchInv, Unchosen

LEMMA ChildReportsKeeps ==
  ASSUME BenchInv, NEW d \in Sources, ChildReports(d)
  PROVE  BenchInv'
<1>1. ChildrenOK(prep, child)
  BY DEF BenchInv
<1>2. PrepOK(prep[d]) /\ ChildOK(d, child[d], prep[d])
  BY <1>1 DEF ChildrenOK
<1>3. PICK report : report = [bound |-> child[d].plan.bound, cfg |-> child[d].plan.cfg,
                              source |-> child[d].plan.source]
  OBVIOUS
<1>4. PICK p, c : /\ p = [prep[d] EXCEPT !.report = report]
                  /\ c = [child[d] EXCEPT !.phase = "exit"]
  OBVIOUS
<1>5. /\ child[d].phase = "report" /\ prep' = [prep EXCEPT ![d].report = report]
      /\ child' = [child EXCEPT ![d].phase = "exit"] /\ Unchosen /\ UNCHANGED disk
  BY <1>3 DEF ChildReports
<1>6. prep' = [prep EXCEPT ![d] = p] /\ child' = [child EXCEPT ![d] = c]
  BY <1>4, <1>5
<1>7. report.bound \in Nat \ {0}
  BY <1>2, <1>3, <1>5 DEF ChildOK, PlanOK
<1>8. p = [pid |-> prep[d].pid, config |-> prep[d].config, report |-> report]
      /\ c = [phase |-> "exit", plan |-> child[d].plan, next |-> child[d].next]
  BY <1>2, <1>4 DEF PrepOK, ChildOK
<1>9. PrepOK(p)
  BY <1>2, <1>7, <1>8 DEF PrepOK
<1>10. ChildOK(d, c, p)
  BY <1>2, <1>5, <1>8 DEF ChildOK
<1>11. ChildrenOK(prep', child')
  BY <1>1, <1>6, <1>9, <1>10, OneChild
<1> QED
  BY <1>5, <1>11 DEF BenchInv, Unchosen

LEMMA ChildExitsKeeps ==
  ASSUME BenchInv, NEW d \in Sources, ChildExits(d)
  PROVE  BenchInv'
<1>1. ChildrenOK(prep, child)
  BY DEF BenchInv
<1>2. PrepOK(prep[d]) /\ ChildOK(d, NoChild, prep[d])
  BY <1>1, IdleChild DEF ChildrenOK
<1>3. ChildrenOK(prep', child')
  BY <1>1, <1>2, OneChild DEF ChildExits
<1> QED
  BY <1>3 DEF BenchInv, ChildExits, Unchosen

LEMMA SomeRows ==
  ASSUME NEW S, NEW s \in Seq(S), s # <<>>
  PROVE  Len(s) > 0
  OBVIOUS

(* What validation lets through is runnable: each error it looks for is    *)
(* one of the conditions.                                                  *)
LEMMA CheckedIsRunnable ==
  ASSUME NEW raw, IsFile(raw), NEW at, CheckConfig(raw, at) = {}
  PROVE  /\ Runnable(Loaded(raw))
         /\ \A i \in DOMAIN Loaded(raw).cases : Loaded(raw).cases[i].stem \in at.engines
<1>1. PICK cfg : cfg = Loaded(raw)
  OBVIOUS
<1>2. IsConfig(cfg)
  BY <1>1, LoadedIsConfig
<1>3. /\ DeckErrors(cfg, at) = {} /\ RunErrors(cfg, at) = {} /\ KnobErrors(cfg.knobs) = {}
      /\ CaseErrors(cfg) = {} /\ cfg.optimizer \in Optimizers
  BY <1>1 DEF CheckConfig, Flagged
<1>4. cfg.knobs.sensitivity \in Sensitivities /\ cfg.knobs.target \in 1..100
  BY <1>3 DEF KnobErrors, Flagged
<1>5. PICK n : n = Len(cfg.cases)
  OBVIOUS
<1>6. /\ n \in Nat /\ DOMAIN cfg.cases = 1..n /\ \A i \in 1..n : cfg.cases[i] \in CaseRows
      /\ cfg.cases \in Seq(CaseRows)
  BY <1>2, <1>5, RowsAreSeq DEF IsConfig, AreRows, CaseRows
<1>7. n > 0
  <2>1. cfg.cases # <<>>
    BY <1>3 DEF DeckErrors, Flagged
  <2>2. Len(cfg.cases) > 0
    <3>1. cfg.cases \in Seq(CaseRows)
      BY <1>6
    <3> QED
      BY <2>1, <3>1, SomeRows
  <2> QED
    BY <1>5, <2>2
<1>8. \A i \in 1..n : /\ ~(cfg.cases[i].weight < 0)
                      /\ ~(cfg.cases[i].sigma # None /\ cfg.cases[i].sigma <= 0)
                      /\ \A q \in cfg.cases[i].disps : ~(q.limit # None /\ q.limit <= 0)
  <2>1. PICK cases : cases = {cfg.cases[i] : i \in DOMAIN cfg.cases}
    OBVIOUS
  <2>2. \A c \in cases : /\ ~(c.weight < 0) /\ ~(c.sigma # None /\ c.sigma <= 0)
                         /\ \A q \in c.disps : ~(q.limit # None /\ q.limit <= 0)
    BY <1>3, <2>1 DEF CaseErrors, Flagged
  <2> QED
    BY <1>6, <2>1, <2>2
<1>9. \E i \in 1..n : ~(cfg.cases[i].weight <= 0)
  <2>1. PICK cases : cases = {cfg.cases[i] : i \in DOMAIN cfg.cases}
    OBVIOUS
  <2>2. cases # {}
    <3>1. 1 \in DOMAIN cfg.cases
      BY <1>6, <1>7
    <3>2. cfg.cases[1] \in cases
      BY <2>1, <3>1
    <3> QED
      BY <3>2
  <2>3. \E c \in cases : ~(c.weight <= 0)
    BY <1>3, <2>1, <2>2 DEF CaseErrors, Flagged
  <2> QED
    BY <1>6, <2>1, <2>3
<1>10. \A i \in 1..n : /\ cfg.cases[i].weight \in Int /\ cfg.cases[i].sigma \in Int \cup {None}
                       /\ \A q \in cfg.cases[i].disps : q.limit \in Int \cup {None}
  BY <1>6 DEF CaseRows
<1>11. \A i \in DOMAIN cfg.run.slots : cfg.run.slots[i].np > 0 /\ cfg.run.slots[i].nt > 0
  <2>1. \A i \in DOMAIN cfg.run.slots : ~(cfg.run.slots[i].np < 1 \/ cfg.run.slots[i].nt < 1)
    BY <1>3 DEF RunErrors, Flagged
  <2>2. \A i \in DOMAIN cfg.run.slots : cfg.run.slots[i].np \in Int /\ cfg.run.slots[i].nt \in Int
    BY <1>2 DEF IsConfig, AreSlots
  <2> QED
    BY <2>1, <2>2
<1>12. Runnable(cfg)
  <2>1. \A i \in DOMAIN cfg.cases : cfg.cases[i].weight >= 0 /\ cfg.cases[i].sigma # 0
    BY <1>6, <1>8, <1>10, NoneAssumption
  <2>2. \E i \in DOMAIN cfg.cases : cfg.cases[i].weight > 0
    BY <1>6, <1>9, <1>10
  <2>3. \A i \in DOMAIN cfg.cases : \A q \in cfg.cases[i].disps : q.limit # 0
    BY <1>6, <1>8, <1>10, NoneAssumption
  <2> QED
    BY <1>3, <1>4, <1>11, <2>1, <2>2, <2>3 DEF Runnable
<1>13. \A i \in DOMAIN cfg.cases : cfg.cases[i].stem \in at.engines
  <2>1. Stems(cfg) \ {None} \subseteq at.engines /\ None \notin Stems(cfg)
    BY <1>3 DEF DeckErrors, Flagged
  <2> QED
    BY <2>1 DEF Stems
<1> QED
  BY <1>1, <1>12, <1>13

(* A deck that has an engine is started with one stress tensor request.    *)
LEMMA OneTensor ==
  ASSUME NEW engine, IsEngine(engine), NEW animDt
  PROVE  PreparedEngine(engine, animDt, TRUE).tensors = 1
<1>1. PICK dt, n : /\ dt = IF animDt = None \/ engine.animDt = None THEN engine.animDt ELSE animDt
                   /\ n = IF TRUE /\ engine.tensors = 0 THEN 1 ELSE engine.tensors
  OBVIOUS
<1>2. n = 1
  BY <1>1 DEF IsEngine
<1>3. PICK thin : thin = [engine EXCEPT !.animDt = dt]
  OBVIOUS
<1>4. thin = [animDt |-> dt, tensors |-> engine.tensors]
  BY <1>3 DEF IsEngine
<1>5. PICK e : e = [thin EXCEPT !.tensors = n]
  OBVIOUS
<1>6. e.tensors = n
  BY <1>4, <1>5
<1>7. PreparedEngine(engine, animDt, TRUE) = e
  BY <1>1, <1>3, <1>4, <1>5 DEF PreparedEngine
<1> QED
  BY <1>2, <1>6, <1>7

(* A run that starts has a pin for what its void leaves loose.             *)
LEMMA StartedPinned ==
  ASSUME FoldersOK(disk), NEW cfg, IsConfig(cfg), NEW files, files = disk[cfg.model.dir].files,
         GuardsPass(Decks(cfg)[1], cfg.model, files), NEW r, r = Started(cfg)
  PROVE  PinnedFrom(r)
<1> DEFINE decks  == Decks(cfg)
           void   == Candidates(decks[1], cfg.model, files)
           alive0 == {c.id : c \in decks[1].cells \ void}
<1>1. /\ r.decks = decks /\ r.noPin = NoPin(cfg)
      /\ r.held = HeldVoid(decks[1], cfg.model, files)
      /\ DOMAIN r.first = DOMAIN decks
  BY DEF Started
<1>2. ASSUME NEW i \in DOMAIN decks
      PROVE  /\ r.first[i].deck.cells = Alive(decks[i], alive0)
             /\ r.first[i].deck.pinned = FreeNodes(decks[i], alive0, r.noPin)
  <2>1. r.first[i].deck = Written(decks[i], alive0, r.noPin)
    BY DEF Started
  <2> QED
    BY <2>1 DEF Written
<1> HIDE DEF decks
<1> SUFFICES ASSUME OneMesh(decks), NEW i \in DOMAIN decks, NEW n \in NodesUnder(decks[1].cells),
                    n \notin NodesUnder(r.first[i].deck.cells) \cup r.noPin,
                    n \notin r.first[i].deck.pinned
             PROVE  n < DesignNodeMin /\ n \in NodesUnder(r.held)
  BY <1>1 DEF PinnedFrom
<1>3. decks[i] # None /\ decks[i].cells = decks[1].cells /\ n \in NodeIds(decks[i])
  BY DEF OneMesh
<1>4. n \in Int
  <2>1. IsDeck(decks[i])
    BY <1>3, DecksOnDisk DEF decks
  <2> QED
    BY <1>3, <2>1, TopOfNodes
<1>5. n \notin NodesUnder(Alive(decks[i], alive0)) /\ n \notin r.noPin
  BY <1>2
<1>6. ~(n >= DesignNodeMin)
  <2>1. n \in NodesUnder(decks[i].cells)
    BY <1>3
  <2> QED
    BY <1>2, <1>3, <1>5, <2>1 DEF FreeNodes
<1>7. PICK c \in decks[1].cells : n \in c.ends
  BY DEF NodesUnder
<1>8. c \in void
  <2>1. c \in decks[i].cells
    BY <1>3
  <2>2. c.id \notin alive0
    BY <1>5, <1>7, <2>1 DEF NodesUnder, Alive
  <2> QED
    BY <2>2
<1>9. c \notin Growable(decks[1], cfg.model, files)
  <2>1. n \notin Unpinnable(decks[1], cfg.model, files)
    BY DEF GuardsPass, decks
  <2>2. n < DesignNodeMin
    BY <1>4, <1>6, DesignNodeMinAssumption
  <2> QED
    BY <1>7, <2>1, <2>2 DEF Unpinnable, NodesUnder
<1>10. c \in r.held
  BY <1>1, <1>8, <1>9 DEF Growable
<1> QED
  BY <1>4, <1>6, <1>7, <1>10, DesignNodeMinAssumption DEF NodesUnder

(* Every start of the run is one of a snapshot that was validated again.   *)
LEMMA StartRunKeeps ==
  ASSUME BenchInv, StartRun
  PROVE  BenchInv'
<1>1. FoldersOK(disk) /\ QueuedOK(queued)
  BY DEF BenchInv
<1>2. /\ queued # None /\ IsFile(queued)
      /\ run' = IF CanStart(queued) THEN Started(Loaded(queued)) ELSE [state |-> "refused"]
  BY <1>1 DEF StartRun, QueuedOK
<1>3. PICK raw : raw = queued
  OBVIOUS
<1>4. RunOK(run')
  <2>1. CASE ~CanStart(raw)
    <3>1. run' = [state |-> "refused"]
      BY <1>2, <1>3, <2>1
    <3> QED
      BY <3>1 DEF RunOK
  <2>2. CASE CanStart(raw)
    <3>1. PICK cfg : cfg = Loaded(raw)
      OBVIOUS
    <3>2. IsConfig(cfg) /\ IsFile(raw)
      BY <1>2, <1>3, <3>1, LoadedIsConfig
    <3>3. CheckConfig(raw, At(cfg)) = {}
      BY <2>2, <3>1 DEF CanStart
    <3>4. /\ Runnable(cfg)
          /\ \A i \in DOMAIN cfg.cases : cfg.cases[i].stem \in At(cfg).engines
      BY <3>1, <3>2, <3>3, CheckedIsRunnable
    <3>5. PICK engines : engines = disk[cfg.model.dir].engines
      OBVIOUS
    <3>6. At(cfg).engines = {s \in CaseStems : engines[s] # None}
      BY <3>5 DEF At, Present
    <3>7. \A s \in CaseStems : engines[s] = None \/ IsEngine(engines[s])
      BY <1>1, <3>2, <3>5 DEF FoldersOK, IsFolder, IsConfig, IsModel
    <3>8. \A i \in DOMAIN cfg.cases : IsEngine(engines[cfg.cases[i].stem])
      BY <3>4, <3>6, <3>7
    <3>9. PICK r : r = Started(cfg)
      OBVIOUS
    <3>10. r.state = "started" /\ r.cfg = cfg
      BY <3>9 DEF Started
    <3>11. DOMAIN r.first = DOMAIN cfg.cases
      BY <3>9 DEF Started, Decks
    <3>12. \A i \in DOMAIN cfg.cases :
             r.first[i].engine = PreparedEngine(engines[cfg.cases[i].stem], cfg.run.animDt,
                                                cfg.knobs.sensitivity = "tdsa")
      BY <3>5, <3>9 DEF Started, Decks
    <3>13. ASSUME cfg.knobs.sensitivity = "tdsa", NEW i \in DOMAIN cfg.cases
           PROVE  r.first[i].engine.tensors = 1
      <4>1. PICK tdsa : tdsa = (cfg.knobs.sensitivity = "tdsa")
        OBVIOUS
      <4>2. tdsa = TRUE
        BY <3>13, <4>1
      <4>3. r.first[i].engine = PreparedEngine(engines[cfg.cases[i].stem], cfg.run.animDt, TRUE)
        BY <3>12, <4>1, <4>2
      <4> QED
        BY <3>8, <4>3, OneTensor
    <3>14. run' = r
      BY <1>2, <1>3, <2>2, <3>1, <3>9
    <3>15. PinnedFrom(r)
      <4>1. GuardsPass(Decks(cfg)[1], cfg.model, disk[cfg.model.dir].files)
        BY <2>2, <3>1 DEF CanStart
      <4> QED
        BY <1>1, <3>2, <3>9, <4>1, StartedPinned
    <3>16. RunOK(r)
      BY <3>4, <3>10, <3>11, <3>13, <3>15 DEF RunOK
    <3> QED
      BY <3>14, <3>16
  <2> QED
    BY <2>1, <2>2
<1> QED
  BY <1>4 DEF BenchInv, StartRun

(***************************************************************************)
(* Every step.                                                             *)
(***************************************************************************)
LEMMA BenchNext == BenchInv /\ [Next]_vars => BenchInv'
<1> SUFFICES ASSUME BenchInv, [Next]_vars PROVE BenchInv'
  OBVIOUS
<1>1. CASE EditRegions \/ EditDir \/ EditSettings \/ TypeBoundary
  BY <1>1, PageEdits
<1>2. CASE Save
  BY <1>2, SaveKeeps
<1>3. CASE Add
  BY <1>3, AddKeeps
<1>4. CASE AddFromDisk
  BY <1>4, AddFromDiskKeeps
<1>5. CASE PreviewRegions
  BY <1>5, PreviewKeeps
<1>6. CASE Generate
  BY <1>6, GenerateKeeps
<1>7. CASE Cancel
  BY <1>7, CancelKeeps
<1>8. CASE Use
  BY <1>8, UseKeeps
<1>9. ASSUME NEW d \in Sources, ChildLoads(d) PROVE BenchInv'
  BY <1>9, ChildLoadsKeeps
<1>10. ASSUME NEW d \in Sources, ChildWrites(d) PROVE BenchInv'
  BY <1>10, ChildWritesKeeps
<1>11. ASSUME NEW d \in Sources, ChildCopies(d) PROVE BenchInv'
  BY <1>11, ChildCopiesKeeps
<1>12. ASSUME NEW d \in Sources, ChildReports(d) PROVE BenchInv'
  BY <1>12, ChildReportsKeeps
<1>13. ASSUME NEW d \in Sources, ChildExits(d) PROVE BenchInv'
  BY <1>13, ChildExitsKeeps
<1>14. ASSUME NEW d \in Sources, ChildCrashes(d) PROVE BenchInv'
  BY <1>14, ChildCrashesKeeps
<1>15. CASE StartRun
  BY <1>15, StartRunKeeps
<1>16. CASE UNCHANGED vars
  BY <1>16 DEF BenchInv, vars
<1> QED
  BY <1>1, <1>2, <1>3, <1>4, <1>5, <1>6, <1>7, <1>8, <1>9, <1>10, <1>11, <1>12, <1>13,
     <1>14, <1>15, <1>16 DEF Next

(***************************************************************************)
(* The invariant of the PREPARE children.  What one has loaded: the decks  *)
(* and the geometry it was not refused for, as directory 0 has it.         *)
(***************************************************************************)
LoadedOK(folders, d, source, cfg) ==
  /\ AreDecks(source) /\ DOMAIN source = DOMAIN cfg.cases
  /\ \A i, j \in DOMAIN source : cfg.cases[i].stem = cfg.cases[j].stem => source[i] = source[j]
  /\ IsConfig(cfg) /\ cfg.model.enabled
  /\ Agree(cfg.model, folders[d].files, folders[0].files)
  /\ ~Refused(source, cfg.model, folders[0].files)

(* The starters of some of the cases are written.                          *)
Holds(folders, d, source, cfg, some) ==
  \A i \in some :
    folders[d + 1].starters[cfg.cases[i].stem] = Grown(source, cfg.model, folders[0].files, i)

PlanMade(folders, d, plan) ==
  /\ LoadedOK(folders, d, plan.source, plan.cfg)
  /\ plan.bound = TopElemId(plan.source)
  /\ plan.decks = [i \in DOMAIN plan.source |->
                     Grown(plan.source, plan.cfg.model, folders[0].files, i)]

(* A report is true of the folders for as long as it can be read.          *)
ReportMade(folders, d, report) ==
  /\ LoadedOK(folders, d, report.source, report.cfg)
  /\ report.bound = TopElemId(report.source)
  /\ Holds(folders, d, report.source, report.cfg, DOMAIN report.source)
  /\ Agree(report.cfg.model, folders[d + 1].files, folders[0].files)

Recorded(p) == p.report # None /\ p.report # Torn

MadeOK(folders, d, p, c) ==
  /\ c.phase = "load" => p.config.model.enabled
  /\ c.phase \in {"load", "write", "copy", "report"} => p.report = None
  /\ c.phase \in {"write", "copy", "report"} => PlanMade(folders, d, c.plan)
  /\ c.phase = "write" => Holds(folders, d, c.plan.source, c.plan.cfg, 1..(c.next - 1))
  /\ c.phase \in {"copy", "report"} =>
       Holds(folders, d, c.plan.source, c.plan.cfg, DOMAIN c.plan.source)
  /\ c.phase = "report" => Agree(c.plan.cfg.model, folders[d + 1].files, folders[0].files)
  /\ Recorded(p) => ReportMade(folders, d, p.report)

(* Geometry decks are those of directory 0, wherever they were copied to.  *)
Copies(folders) ==
  \A d \in Dirs : \A n \in DOMAIN folders[d].files :
    n \in DOMAIN folders[0].files /\ folders[d].files[n] = folders[0].files[n]

PrepareInv == Copies(disk) /\ \A d \in Sources : MadeOK(disk, d, prep[d], child[d])

(* A step of another directory's child adds geometry decks at most.        *)
Adds(folders, after, d) ==
  \A n \in DOMAIN folders[d].files :
    n \in DOMAIN after[d].files /\ after[d].files[n] = folders[d].files[n]

LEMMA OthersKeep ==
  ASSUME NEW folders, NEW after, NEW d, NEW p, NEW c, MadeOK(folders, d, p, c),
         after[0].files = folders[0].files, after[d + 1].starters = folders[d + 1].starters,
         Adds(folders, after, d), Adds(folders, after, d + 1)
  PROVE  MadeOK(after, d, p, c)
<1>1. ASSUME NEW m, NEW x \in {d, d + 1}, Agree(m, folders[x].files, folders[0].files)
      PROVE  Agree(m, after[x].files, after[0].files)
  BY <1>1 DEF Agree, Adds
<1>2. \A source, cfg : LoadedOK(folders, d, source, cfg) => LoadedOK(after, d, source, cfg)
  BY <1>1 DEF LoadedOK
<1>3. \A source, cfg, some : Holds(folders, d, source, cfg, some)
                               => Holds(after, d, source, cfg, some)
  BY DEF Holds
<1>4. \A plan : PlanMade(folders, d, plan) => PlanMade(after, d, plan)
  BY <1>2 DEF PlanMade
<1>5. \A report : ReportMade(folders, d, report) => ReportMade(after, d, report)
  BY <1>1, <1>2, <1>3 DEF ReportMade
<1> QED
  BY <1>1, <1>3, <1>4, <1>5 DEF MadeOK

LEMMA NoneMade ==
  ASSUME NEW folders, NEW d, NEW p, Recorded(p) => ReportMade(folders, d, p.report)
  PROVE  MadeOK(folders, d, p, NoChild)
<1>1. NoChild.phase = "none"
  BY DEF NoChild
<1> QED
  BY <1>1 DEF MadeOK

LEMMA PrepareStarts == Init => PrepareInv
<1> SUFFICES ASSUME Init PROVE PrepareInv
  OBVIOUS
<1>1. PICK folder \in FirstFolders : disk = [d \in Dirs |-> IF d = 0 THEN folder ELSE NoFolder]
  BY DEF Init
<1>2. 0 \in Dirs
  BY BoundsAssumption DEF Dirs
<1>3. Copies(disk)
  <2>1. DOMAIN NoFolder.files = {}
    BY DEF NoFolder
  <2> QED
    BY <1>1, <1>2, <2>1 DEF Copies
<1>4. ASSUME NEW d \in Sources PROVE MadeOK(disk, d, prep[d], child[d])
  <2>1. prep[d] = NoPrep /\ child[d] = NoChild
    BY DEF Init
  <2>2. ~Recorded(NoPrep)
    BY DEF Recorded, NoPrep
  <2> QED
    BY <2>1, <2>2, NoneMade
<1> QED
  BY <1>3, <1>4 DEF PrepareInv

(* One directory's child and scratch folder change, the disk does not.     *)
LEMMA OneMade ==
  ASSUME PrepareInv, NEW d \in Sources, NEW p, NEW c, MadeOK(disk, d, p, c),
         \A e \in Sources \ {d} : prep'[e] = prep[e] /\ child'[e] = child[e],
         prep'[d] = p, child'[d] = c, UNCHANGED disk
  PROVE  PrepareInv'
<1>1. Copies(disk)'
  BY DEF PrepareInv
<1>2. ASSUME NEW e \in Sources PROVE MadeOK(disk', e, prep'[e], child'[e])
  BY DEF PrepareInv
<1> QED
  BY <1>1, <1>2 DEF PrepareInv

LEMMA GenerateMakes ==
  ASSUME BenchInv, PrepareInv, Generate
  PROVE  PrepareInv'
<1>1. PageOK(form, file, meant) /\ ChildrenOK(prep, child)
  BY DEF BenchInv
<1>2. PICK cfg, d : cfg = OnScreen(form, file) /\ d = cfg.model.dir
  OBVIOUS
<1>3. PICK p, c : /\ p = [pid |-> TRUE, config |-> cfg, report |-> None]
                  /\ c = [NoChild EXCEPT !.phase = "load"]
  OBVIOUS
<1>4. /\ d \in Sources /\ prep' = [prep EXCEPT ![d] = p] /\ file.model.enabled
      /\ child' = [child EXCEPT ![d] = c] /\ UNCHANGED disk
  BY <1>2, <1>3, Zenon DEF Generate, Growing
<1>5. cfg.model.enabled
  <2>1. cfg.model = ShownModel(form, file)
    BY <1>1, <1>2, OnScreenIs DEF PageOK
  <2> QED
    BY <1>1, <1>4, <2>1, ShownModelIsModel DEF PageOK, IsFile
<1>6. c.phase = "load"
  BY <1>3 DEF NoChild
<1>7. MadeOK(disk, d, p, c)
  BY <1>3, <1>5, <1>6 DEF MadeOK, Recorded
<1>8. \A e \in Sources \ {d} : prep'[e] = prep[e] /\ child'[e] = child[e]
  BY <1>1, <1>4 DEF ChildrenOK
<1>9. prep'[d] = p /\ child'[d] = c
  BY <1>1, <1>4 DEF ChildrenOK
<1> QED
  BY <1>4, <1>7, <1>8, <1>9, OneMade

(* Killed, a child leaves no report, half of one or the one there was.     *)
LEMMA KilledMakes ==
  ASSUME BenchInv, PrepareInv, NEW d \in Sources, Killed(d)
  PROVE  PrepareInv'
<1>1. ChildrenOK(prep, child)
  BY DEF BenchInv
<1>2. child' = [child EXCEPT ![d] = NoChild] /\ UNCHANGED disk
      /\ (prep' = prep \/ prep' = [prep EXCEPT ![d].report = Torn])
  BY DEF Killed
<1>3. \A e \in Sources \ {d} : prep'[e] = prep[e] /\ child'[e] = child[e]
  BY <1>1, <1>2 DEF ChildrenOK
<1>4. child'[d] = NoChild
  BY <1>1, <1>2 DEF ChildrenOK
<1>5. Recorded(prep'[d]) => ReportMade(disk, d, prep'[d].report)
  <2>1. CASE prep' = prep
    BY <2>1 DEF PrepareInv, MadeOK
  <2>2. CASE prep' = [prep EXCEPT ![d].report = Torn]
    <3>1. prep'[d].report = Torn
      BY <1>1, <2>2 DEF ChildrenOK, PrepOK
    <3> QED
      BY <3>1 DEF Recorded
  <2> QED
    BY <1>2, <2>1, <2>2
<1>6. MadeOK(disk, d, prep'[d], NoChild)
  BY <1>5, NoneMade
<1> QED
  BY <1>2, <1>3, <1>4, <1>6, OneMade

LEMMA ChildExitsMakes ==
  ASSUME BenchInv, PrepareInv, NEW d \in Sources, ChildExits(d)
  PROVE  PrepareInv'
<1>1. ChildrenOK(prep, child)
  BY DEF BenchInv
<1>2. child' = [child EXCEPT ![d] = NoChild] /\ UNCHANGED <<disk, prep>>
  BY DEF ChildExits
<1>3. \A e \in Sources \ {d} : prep'[e] = prep[e] /\ child'[e] = child[e]
  BY <1>1, <1>2 DEF ChildrenOK
<1>4. child'[d] = NoChild /\ prep'[d] = prep[d]
  BY <1>1, <1>2 DEF ChildrenOK
<1>5. MadeOK(disk, d, prep[d], NoChild)
  BY NoneMade DEF PrepareInv, MadeOK
<1> QED
  BY <1>2, <1>3, <1>4, <1>5, OneMade

(* The report says what the plan was.                                      *)
LEMMA ChildReportsMakes ==
  ASSUME BenchInv, PrepareInv, NEW d \in Sources, ChildReports(d)
  PROVE  PrepareInv'
<1>1. ChildrenOK(prep, child)
  BY DEF BenchInv
<1>2. PrepOK(prep[d]) /\ ChildOK(d, child[d], prep[d])
  BY <1>1 DEF ChildrenOK
<1>3. PICK plan : plan = child[d].plan
  OBVIOUS
<1>4. PICK report : report = [bound |-> plan.bound, cfg |-> plan.cfg, source |-> plan.source]
  OBVIOUS
<1>5. PICK p, c : /\ p = [prep[d] EXCEPT !.report = report]
                  /\ c = [child[d] EXCEPT !.phase = "exit"]
  OBVIOUS
<1>6. /\ child[d].phase = "report" /\ prep' = [prep EXCEPT ![d] = p]
      /\ child' = [child EXCEPT ![d] = c] /\ UNCHANGED disk
  BY <1>3, <1>4, <1>5 DEF ChildReports
<1>7. p.report = report /\ c.phase = "exit"
  BY <1>2, <1>5 DEF PrepOK, ChildOK
<1>8. ReportMade(disk, d, report)
  <2>1. report.bound = plan.bound /\ report.cfg = plan.cfg /\ report.source = plan.source
    BY <1>4
  <2>2. /\ PlanMade(disk, d, plan) /\ Holds(disk, d, plan.source, plan.cfg, DOMAIN plan.source)
        /\ Agree(plan.cfg.model, disk[d + 1].files, disk[0].files)
    BY <1>3, <1>6 DEF PrepareInv, MadeOK
  <2> QED
    BY <2>1, <2>2 DEF ReportMade, PlanMade
<1>9. MadeOK(disk, d, p, c)
  BY <1>7, <1>8 DEF MadeOK
<1>10. \A e \in Sources \ {d} : prep'[e] = prep[e] /\ child'[e] = child[e]
  BY <1>1, <1>6 DEF ChildrenOK
<1>11. prep'[d] = p /\ child'[d] = c
  BY <1>1, <1>6 DEF ChildrenOK
<1> QED
  BY <1>6, <1>9, <1>10, <1>11, OneMade

LEMMA ChildLoadsMakes ==
  ASSUME BenchInv, PrepareInv, NEW d \in Sources, ChildLoads(d)
  PROVE  PrepareInv'
<1>1. ChildrenOK(prep, child) /\ FoldersOK(disk)
  BY DEF BenchInv
<1>2. PrepOK(prep[d]) /\ ChildOK(d, child[d], prep[d]) /\ MadeOK(disk, d, prep[d], child[d])
  BY <1>1 DEF ChildrenOK, PrepareInv
<1>3. PICK cfg, decks, here, files : /\ cfg = prep[d].config /\ decks = Decks(cfg)
                                     /\ here = disk[d].files /\ files = disk[0].files
  OBVIOUS
<1>4. PICK c : c = IF Refused(decks, cfg.model, here) THEN NoChild
                   ELSE [phase |-> "write", plan |-> Prepared(d, cfg, decks), next |-> 1]
  OBVIOUS
<1>5. /\ child[d].phase = "load" /\ child' = [child EXCEPT ![d] = c]
      /\ UNCHANGED <<disk, prep>>
  BY <1>3, <1>4, Zenon DEF ChildLoads
<1>6. IsConfig(cfg) /\ cfg.model.dir = d /\ cfg.model.enabled /\ prep[d].report = None
  BY <1>2, <1>3, <1>5 DEF ChildOK, MadeOK
<1>7. MadeOK(disk, d, prep[d], c)
  <2>1. CASE Refused(decks, cfg.model, here)
    BY <1>2, <1>4, <2>1, NoneMade DEF MadeOK
  <2>2. CASE ~Refused(decks, cfg.model, here)
    <3>1. PICK plan : plan = Prepared(d, cfg, decks)
      OBVIOUS
    <3>2. c.phase = "write" /\ c.plan = plan /\ c.next = 1
      BY <1>4, <2>2, <3>1
    <3>3. /\ AreDecks(decks) /\ DOMAIN decks = DOMAIN cfg.cases
          /\ \A i, j \in DOMAIN decks :
               cfg.cases[i].stem = cfg.cases[j].stem => decks[i] = decks[j]
      BY <1>1, <1>3, <1>6, <2>2, LoadedDecks
    <3>4. Agree(cfg.model, here, files)
      <4>1. d \in Dirs
        BY BoundsAssumption DEF Dirs, Sources
      <4>2. \A n \in DOMAIN here : n \in DOMAIN files /\ here[n] = files[n]
        BY <1>3, <4>1 DEF PrepareInv, Copies
      <4> QED
        BY <2>2, <4>2, LoadedFiles
    <3>5. IsModel(cfg.model)
      BY <1>6 DEF IsConfig
    <3>6. /\ ~Refused(decks, cfg.model, files)
          /\ Growth(decks, cfg.model, here) = Growth(decks, cfg.model, files)
      BY <2>2, <3>4, <3>5, SameRefused, SameGrowth
    <3>7. /\ plan.source = decks /\ plan.bound = TopElemId(decks) /\ plan.cfg = cfg
          /\ plan.decks = [i \in DOMAIN decks |-> Grown(decks, cfg.model, files, i)]
      BY <1>3, <3>1, <3>6 DEF Prepared, Grown
    <3>8. LoadedOK(disk, d, decks, cfg)
      BY <1>3, <1>6, <3>3, <3>4, <3>6 DEF LoadedOK
    <3>9. PlanMade(disk, d, plan)
      BY <1>3, <3>7, <3>8 DEF PlanMade
    <3>10. Holds(disk, d, plan.source, plan.cfg, 1..(c.next - 1))
      <4>1. 1..(c.next - 1) = {}
        BY <3>2
      <4> QED
        BY <4>1 DEF Holds
    <3> QED
      BY <1>6, <3>2, <3>9, <3>10 DEF MadeOK, Recorded
  <2> QED
    BY <2>1, <2>2
<1>8. \A e \in Sources \ {d} : prep'[e] = prep[e] /\ child'[e] = child[e]
  BY <1>1, <1>5 DEF ChildrenOK
<1>9. prep'[d] = prep[d] /\ child'[d] = c
  BY <1>1, <1>5 DEF ChildrenOK
<1> QED
  BY <1>5, <1>7, <1>8, <1>9, OneMade

(* One folder changes, with the child that writes to it: the other         *)
(* children see geometry decks added at most.                              *)
LEMMA OneWrites ==
  ASSUME PrepareInv, NEW d \in Sources, NEW c, NEW folder, UNCHANGED prep,
         \A e \in Dirs : disk'[e] = IF e = d + 1 THEN folder ELSE disk[e],
         \A e \in Sources : child'[e] = IF e = d THEN c ELSE child[e],
         \A n \in DOMAIN disk[d + 1].files :
           n \in DOMAIN folder.files /\ folder.files[n] = disk[d + 1].files[n],
         \A n \in DOMAIN folder.files :
           n \in DOMAIN disk[0].files /\ folder.files[n] = disk[0].files[n],
         MadeOK(disk', d, prep[d], c)
  PROVE  PrepareInv'
<1>1. d \in Int /\ 0 \in Dirs /\ d \in Dirs /\ d + 1 \in Dirs /\ d + 1 # 0
  BY BoundsAssumption DEF Dirs, Sources
<1>2. disk'[0] = disk[0]
  BY <1>1
<1>3. \A e \in Dirs : Adds(disk, disk', e)
  BY <1>1 DEF Adds
<1>4. Copies(disk)'
  BY <1>2 DEF PrepareInv, Copies
<1>5. ASSUME NEW e \in Sources \ {d} PROVE MadeOK(disk', e, prep[e], child[e])
  <2>1. e \in Dirs /\ e + 1 \in Dirs /\ e + 1 # d + 1
    BY <1>1, BoundsAssumption DEF Dirs, Sources
  <2>2. disk'[e + 1] = disk[e + 1]
    BY <2>1
  <2>3. MadeOK(disk, e, prep[e], child[e])
    BY DEF PrepareInv
  <2>4. Adds(disk, disk', e) /\ Adds(disk, disk', e + 1)
    BY <1>3, <2>1
  <2> QED
    BY <1>2, <2>2, <2>3, <2>4, OthersKeep
<1>6. \A e \in Sources : MadeOK(disk', e, prep'[e], child'[e])
  BY <1>5
<1> QED
  BY <1>4, <1>6 DEF PrepareInv

(* A starter that is written again for another case of the same stem is    *)
(* the same.                                                               *)
LEMMA ChildWritesMakes ==
  ASSUME BenchInv, PrepareInv, NEW d \in Sources, ChildWrites(d)
  PROVE  PrepareInv'
<1>1. ChildrenOK(prep, child) /\ FoldersOK(disk)
  BY DEF BenchInv
<1>2. child[d].phase = "write" /\ UNCHANGED prep
  BY DEF ChildWrites
<1>3. PICK plan, k, s : /\ plan = child[d].plan /\ k = child[d].next
                        /\ s = plan.cfg.cases[k].stem
  OBVIOUS
<1>4. PICK c : c = [phase |-> IF k < Len(plan.decks) THEN "write" ELSE "copy",
                    plan |-> plan, next |-> k + 1]
  OBVIOUS
<1>5. PlanOK(plan) /\ k \in DOMAIN plan.decks /\ s \in CaseStems /\ child' = [child EXCEPT ![d] = c]
  BY <1>3, <1>4, WritesAre
<1>6. PICK engine : disk' = [x \in Dirs |-> IF x = d + 1
                                            THEN WithCase(disk[d + 1], s, plan.decks[k], engine)
                                            ELSE disk[x]]
  BY <1>3, WritesAre
<1>7. PICK folder : folder = WithCase(disk[d + 1], s, plan.decks[k], engine)
  OBVIOUS
<1>8. d \in Dirs /\ d + 1 \in Dirs /\ 0 \in Dirs /\ d + 1 # 0 /\ d # d + 1
  BY BoundsAssumption DEF Dirs, Sources
<1>9. /\ folder.files = disk[d + 1].files
      /\ \A t \in CaseStems :
           folder.starters[t] = IF t = s THEN plan.decks[k] ELSE disk[d + 1].starters[t]
  BY <1>1, <1>5, <1>7, <1>8 DEF WithCase, FoldersOK, IsFolder
<1>10. \A x \in Dirs : disk'[x] = IF x = d + 1 THEN folder ELSE disk[x]
  BY <1>6, <1>7
<1>11. /\ PlanMade(disk, d, plan) /\ prep[d].report = None
       /\ Holds(disk, d, plan.source, plan.cfg, 1..(k - 1))
  BY <1>2, <1>3 DEF PrepareInv, MadeOK
<1>12. PICK source, cfg, files : source = plan.source /\ cfg = plan.cfg /\ files = disk[0].files
  OBVIOUS
<1>13. PICK n \in Nat \ {0} : /\ DOMAIN plan.decks = 1..n /\ DOMAIN cfg.cases = 1..n
                              /\ Len(plan.decks) = n
  BY <1>5, <1>12 DEF PlanOK
<1>14. k \in 1..n /\ DOMAIN source = 1..n
  BY <1>5, <1>11, <1>12, <1>13 DEF PlanMade, LoadedOK
<1>15. disk'[0] = disk[0] /\ disk'[d] = disk[d] /\ disk'[d + 1] = folder
  BY <1>8, <1>10
<1>16. PlanMade(disk', d, plan)
  BY <1>11, <1>15 DEF PlanMade, LoadedOK
<1>17. Holds(disk', d, source, cfg, 1..k)
  <2> SUFFICES ASSUME NEW i \in 1..k
               PROVE  folder.starters[cfg.cases[i].stem] = Grown(source, cfg.model, files, i)
    BY <1>12, <1>15 DEF Holds
  <2>1. i \in 1..n /\ cfg.cases[i].stem \in CaseStems
    <3>1. i \in 1..n
      BY <1>14
    <3>2. cfg.cases[i] \in CaseRows
      BY <1>5, <1>12, <1>13, <3>1, RowsAreSeq DEF PlanOK, IsConfig
    <3> QED
      BY <3>1, <3>2 DEF CaseRows
  <2>2. CASE cfg.cases[i].stem = s
    <3>1. source[i] = source[k]
      BY <1>3, <1>11, <1>12, <1>14, <2>1, <2>2 DEF PlanMade, LoadedOK
    <3>2. plan.decks[k] = Grown(source, cfg.model, files, k)
      BY <1>11, <1>12, <1>14 DEF PlanMade
    <3> QED
      BY <1>9, <2>1, <2>2, <3>1, <3>2 DEF Grown
  <2>3. CASE cfg.cases[i].stem # s
    <3>1. i # k
      BY <1>3, <1>12, <2>3
    <3>2. i \in 1..(k - 1)
      BY <1>14, <3>1
    <3> QED
      BY <1>9, <1>11, <1>12, <2>1, <2>3, <3>2 DEF Holds
  <2> QED
    BY <2>2, <2>3
<1>18. MadeOK(disk', d, prep[d], c)
  <2>1. c.plan = plan /\ c.next = k + 1 /\ c.phase = IF k < n THEN "write" ELSE "copy"
    BY <1>4, <1>13
  <2>2. CASE k < n
    <3>1. 1..(c.next - 1) = 1..k
      BY <1>14, <2>1
    <3> QED
      BY <1>11, <1>12, <1>16, <1>17, <2>1, <2>2, <3>1 DEF MadeOK, Recorded
  <2>3. CASE ~(k < n)
    <3>1. k = n
      BY <1>14, <2>3
    <3> QED
      BY <1>11, <1>12, <1>14, <1>16, <1>17, <2>1, <2>3, <3>1 DEF MadeOK, Recorded
  <2> QED
    BY <2>2, <2>3
<1>19. \A e \in Sources : child'[e] = IF e = d THEN c ELSE child[e]
  BY <1>1, <1>5 DEF ChildrenOK
<1>20. \A q \in DOMAIN disk[d + 1].files :
         q \in DOMAIN disk[0].files /\ disk[d + 1].files[q] = disk[0].files[q]
  BY <1>8 DEF PrepareInv, Copies
<1> QED
  BY <1>2, <1>9, <1>10, <1>18, <1>19, <1>20, OneWrites

LEMMA ChildCopiesMakes ==
  ASSUME BenchInv, PrepareInv, NEW d \in Sources, ChildCopies(d)
  PROVE  PrepareInv'
<1>1. ChildrenOK(prep, child) /\ FoldersOK(disk)
  BY DEF BenchInv
<1>2. PrepOK(prep[d]) /\ ChildOK(d, child[d], prep[d])
  BY <1>1 DEF ChildrenOK
<1>3. PICK plan, here, there, names, copied :
        /\ plan = child[d].plan /\ here = disk[d].files /\ there = disk[d + 1].files
        /\ names = Referenced(plan.cfg.model) \cap DOMAIN here
        /\ copied = [n \in names \cup DOMAIN there |-> IF n \in names THEN here[n] ELSE there[n]]
  OBVIOUS
<1>4. /\ child[d].phase = "copy" /\ disk' = [disk EXCEPT ![d + 1].files = copied]
      /\ child' = [child EXCEPT ![d].phase = "report"] /\ UNCHANGED prep
  BY <1>3 DEF ChildCopies
<1>5. d \in Dirs /\ d + 1 \in Dirs /\ 0 \in Dirs /\ d + 1 # 0 /\ d # d + 1
  BY BoundsAssumption DEF Dirs, Sources
<1>6. PICK folder, c : /\ folder = [disk[d + 1] EXCEPT !.files = copied]
                       /\ c = [child[d] EXCEPT !.phase = "report"]
  OBVIOUS
<1>7. folder.files = copied /\ folder.starters = disk[d + 1].starters
      /\ c.phase = "report" /\ c.plan = plan
  BY <1>1, <1>2, <1>3, <1>5, <1>6 DEF FoldersOK, IsFolder, ChildOK
<1>8. /\ \A x \in Dirs : disk'[x] = IF x = d + 1 THEN folder ELSE disk[x]
      /\ \A e \in Sources : child'[e] = IF e = d THEN c ELSE child[e]
  BY <1>1, <1>4, <1>5, <1>6 DEF FoldersOK, ChildrenOK
<1>9. /\ PlanMade(disk, d, plan) /\ prep[d].report = None
      /\ Holds(disk, d, plan.source, plan.cfg, DOMAIN plan.source)
  BY <1>3, <1>4 DEF PrepareInv, MadeOK
<1>10. PICK files : files = disk[0].files
  OBVIOUS
<1>11. /\ \A n \in DOMAIN here : n \in DOMAIN files /\ here[n] = files[n]
       /\ \A n \in DOMAIN there : n \in DOMAIN files /\ there[n] = files[n]
  BY <1>3, <1>5, <1>10 DEF PrepareInv, Copies
<1>12. /\ \A n \in DOMAIN there : n \in DOMAIN copied /\ copied[n] = there[n]
       /\ \A n \in DOMAIN copied : n \in DOMAIN files /\ copied[n] = files[n]
       /\ \A n \in names : n \in DOMAIN copied
  BY <1>3, <1>11
<1>13. Agree(plan.cfg.model, copied, files)
  <2>1. Agree(plan.cfg.model, here, files)
    BY <1>3, <1>9, <1>10 DEF PlanMade, LoadedOK
  <2>2. \A n \in Referenced(plan.cfg.model) : n \in names
    BY <1>3, <2>1 DEF Agree
  <2> QED
    BY <1>12, <2>2 DEF Agree
<1>14. disk'[0] = disk[0] /\ disk'[d] = disk[d] /\ disk'[d + 1] = folder
  BY <1>5, <1>8
<1>15. PlanMade(disk', d, plan)
  BY <1>9, <1>14 DEF PlanMade, LoadedOK
<1>16. Holds(disk', d, plan.source, plan.cfg, DOMAIN plan.source)
  BY <1>7, <1>9, <1>14 DEF Holds
<1>17. MadeOK(disk', d, prep[d], c)
  BY <1>7, <1>9, <1>10, <1>13, <1>14, <1>15, <1>16 DEF MadeOK, Recorded
<1>18. /\ \A n \in DOMAIN disk[d + 1].files :
            n \in DOMAIN folder.files /\ folder.files[n] = disk[d + 1].files[n]
       /\ \A n \in DOMAIN folder.files :
            n \in DOMAIN disk[0].files /\ folder.files[n] = disk[0].files[n]
  BY <1>3, <1>7, <1>10, <1>12
<1>19. UNCHANGED prep
  BY <1>4
<1> QED
  BY <1>8, <1>17, <1>18, <1>19, OneWrites

LEMMA PrepareNext == BenchInv /\ PrepareInv /\ [Next]_vars => PrepareInv'
<1> SUFFICES ASSUME BenchInv, PrepareInv, [Next]_vars PROVE PrepareInv'
  OBVIOUS
<1>1. ASSUME UNCHANGED <<disk, prep, child>> PROVE PrepareInv'
  BY <1>1 DEF PrepareInv
<1>2. CASE EditRegions \/ EditDir \/ EditSettings \/ TypeBoundary
  BY <1>1, <1>2 DEF EditRegions, EditDir, EditSettings, TypeBoundary, Untouched
<1>3. CASE Save \/ Add \/ AddFromDisk \/ PreviewRegions \/ Use \/ StartRun
  BY <1>1, <1>3 DEF Save, Add, AddFromDisk, PreviewRegions, Untouched, Use, StartRun
<1>4. CASE Generate
  BY <1>4, GenerateMakes
<1>5. CASE Cancel
  <2>1. form.dir \in Sources /\ Killed(form.dir)
    BY <1>5 DEF Cancel
  <2> QED
    BY <2>1, KilledMakes
<1>6. ASSUME NEW d \in Sources, ChildLoads(d) PROVE PrepareInv'
  BY <1>6, ChildLoadsMakes
<1>7. ASSUME NEW d \in Sources, ChildWrites(d) PROVE PrepareInv'
  BY <1>7, ChildWritesMakes
<1>8. ASSUME NEW d \in Sources, ChildCopies(d) PROVE PrepareInv'
  BY <1>8, ChildCopiesMakes
<1>9. ASSUME NEW d \in Sources, ChildReports(d) PROVE PrepareInv'
  BY <1>9, ChildReportsMakes
<1>10. ASSUME NEW d \in Sources, ChildExits(d) PROVE PrepareInv'
  BY <1>10, ChildExitsMakes
<1>11. ASSUME NEW d \in Sources, ChildCrashes(d) PROVE PrepareInv'
  BY <1>11, KilledMakes DEF ChildCrashes
<1>12. CASE UNCHANGED vars
  BY <1>1, <1>12 DEF vars
<1> QED
  BY <1>2, <1>3, <1>4, <1>5, <1>6, <1>7, <1>8, <1>9, <1>10, <1>11, <1>12 DEF Next

(* A report that was true of the folders when it was written shows a part  *)
(* that a run starts with.                                                 *)
LEMMA ReportShowsPart ==
  ASSUME NoneIsNoFunction, BenchInv, Copies(disk), NEW d \in Sources,
         NEW report, ReportMade(disk, d, report), OneMesh(report.source)
  PROVE  LET part   == report.source[1]
             decks  == DecksIn(d + 1, report.cfg)
             m      == [report.cfg.model EXCEPT !.bound = report.bound]
             files  == disk[d + 1].files
         IN  /\ OneMesh(decks)
             /\ GuardsPass(decks[1], m, files)
             /\ decks[1].cells \ Candidates(decks[1], m, files)
                  = part.cells \ Carved(part, m, disk[d].files)
<1> DEFINE source == report.source
           model  == report.cfg.model
           m      == Bounded(model, report.bound)
           files  == disk[0].files
           here   == disk[d].files
           there  == disk[d + 1].files
           decks  == DecksIn(d + 1, report.cfg)
<1>1. /\ AreDecks(source) /\ DOMAIN source = DOMAIN report.cfg.cases
      /\ IsModel(model) /\ model.enabled /\ AreRegions(model.regions)
      /\ Agree(model, here, files) /\ Agree(model, there, files)
      /\ ~Refused(source, model, files) /\ report.bound = TopElemId(source)
      /\ Holds(disk, d, source, report.cfg, DOMAIN source)
  BY DEF ReportMade, LoadedOK, IsConfig, IsModel
<1>2. GeometryFiles(files)
  <2>1. 0 \in Dirs
    BY BoundsAssumption DEF Dirs
  <2> QED
    BY <2>1 DEF BenchInv, FoldersOK, IsFolder, GeometryFiles
<1>3. Preparable(source[1], model, files)
  BY <1>1, <1>2, NotRefused
<1>4. decks = [k \in DOMAIN source |-> Grown(source, model, files, k)]
  BY <1>1 DEF DecksIn, Holds
<1>5. 1 \in DOMAIN source
  BY <1>1 DEF AreDecks
<1>6. decks[1] = Grown(source, model, files, 1)
  <2> HIDE DEF decks
  <2> QED
    BY <1>4, <1>5
<1>7. OneMesh(decks)
  BY <1>1, <1>3, <1>4, GrownOnOneMesh
<1>8. Agree(m, here, files) /\ Agree(m, there, files) /\ Regions(m) = Regions(model)
  BY <1>1, BoundedModel
<1> HIDE DEF decks, source, model, files, here, there, m
<1>9. GuardsPass(decks[1], m, there)
  <2>1. GuardsPass(Grown(source, model, files, 1), RecordedModel(source, model), files)
    BY <1>1 DEF Refused, Grown
  <2>2. RecordedModel(source, model) = m
    BY <1>1 DEF RecordedModel, Bounded, m
  <2> QED
    BY <1>6, <1>8, <2>1, <2>2, SameGuards
<1>10. decks[1].cells \ Candidates(decks[1], m, files)
         = source[1].cells \ Carved(source[1], model, files)
  BY <1>1, <1>3, <1>6, <1>7, GrownPart DEF m, source
<1>11. Candidates(decks[1], m, files) = Candidates(decks[1], m, there)
  BY <1>8, SameGuards
<1>12. Carved(source[1], model, files) = Carved(source[1], m, here)
  <2>1. \A r \in Regions(model) : Space(source[1], r, files) = Space(source[1], r, here)
    BY <1>1, SameSpaces
  <2> QED
    BY <1>8, <2>1 DEF Carved, Positive
<1>13. /\ OneMesh(decks) /\ GuardsPass(decks[1], m, there)
       /\ decks[1].cells \ Candidates(decks[1], m, there)
            = source[1].cells \ Carved(source[1], m, here)
  BY <1>7, <1>9, <1>10, <1>11, <1>12
<1> QED
  BY <1>13 DEF decks, source, model, here, there, m, Bounded

(* The invariant of the bench: the folders hold decks a solver reads, the  *)
(* page follows the file and shows what the user has in mind, each PREPARE *)
(* has the configuration and the decks it was planned for, and a run was   *)
(* started from a snapshot that passed validation.                         *)
THEOREM BenchInvariant == Spec => []BenchInv
  BY BenchStarts, BenchNext, PTL DEF Spec

(* The folders never hold a starter that declares a node twice, whatever   *)
(* the dashboard and the PREPARE children (growthmesh.py:702) make of them,*)
(* and every variable keeps its type.                                      *)
THEOREM BenchTypes == Spec => []TypeOK
<1>1. BenchInv => TypeOK
  <2> SUFFICES ASSUME BenchInv PROVE TypeOK
    OBVIOUS
  <2>1. FoldersOK(disk) /\ PageOK(form, file, meant) /\ ChildrenOK(prep, child) /\ RunOK(run)
        /\ clicks \in 0..MaxClicks
    BY DEF BenchInv
  <2>2. \A d \in Dirs : \A s \in CaseStems :
          disk[d].starters[s] # None => DeclaredTwice(disk[d].starters[s]) = {}
    BY <2>1 DEF FoldersOK, IsFolder, IsDeck
  <2>3. /\ file.model.dir \in Dirs /\ form.dir \in Dirs
        /\ form.widget \in Nat /\ form.stash \in Nat \cup {None}
        /\ form.seed \in Nat \cup {None}
        /\ form.saved \in BOOLEAN /\ form.lost \in BOOLEAN
    BY <2>1 DEF PageOK, IsFile, IsModel, FormOK
  <2>4. \A d \in Sources :
          /\ child[d].phase \in {"none", "load", "write", "copy", "report", "exit"}
          /\ Running(d) => prep[d].config.model.dir = d
          /\ prep[d].pid \in BOOLEAN
    BY <2>1 DEF ChildrenOK, ChildOK, PrepOK, Running
  <2>5. run = None \/ run.state \in {"refused", "started"}
    BY <2>1 DEF RunOK
  <2> QED
    BY <2>1, <2>2, <2>3, <2>4, <2>5 DEF TypeOK
<1> QED
  BY <1>1, BenchInvariant, PTL

(* After Save the file says what the user entered or was told a button had *)
(* filled in, for every layout of regions, every boundary and every order  *)
(* of edits, buttons and PREPAREs, as long as the boundary's field has not *)
(* been hidden (app.py:1463).                                              *)
THEOREM SavedAlwaysMeant == Spec => []SavedIsMeant
<1>1. BenchInv => SavedIsMeant
  BY DEF BenchInv, PageOK, MeantOK, SavedIsMeant
<1> QED
  BY <1>1, BenchInvariant, PTL

(* A run that starts can be run to its first update, by whatever way its   *)
(* snapshot came to the queue: it is validated once more where it starts   *)
(* (run.py:79), against the folder as it is then.                          *)
THEOREM AcceptedAlwaysRunnable == Spec => []AcceptedIsRunnable
<1>1. BenchInv => AcceptedIsRunnable
  BY DEF BenchInv, RunOK, AcceptedIsRunnable
<1> QED
  BY <1>1, BenchInvariant, PTL

(* What a PREPARE has loaded, planned, written, copied and reported stays  *)
(* what the folders hold: the invariant under the next theorem.            *)
THEOREM PrepareInvariant == Spec => []PrepareInv
<1>1. Init => BenchInv /\ PrepareInv
  BY BenchStarts, PrepareStarts
<1>2. BenchInv /\ PrepareInv /\ [Next]_vars => BenchInv' /\ PrepareInv'
  BY BenchNext, PrepareNext
<1> QED
  BY <1>1, <1>2, PTL DEF Spec

(* A PREPARE that the panel shows as finished starts a run whole           *)
(* (growthmesh.py:742): every case on one mesh, the guards passed, and in  *)
(* iteration 0 the part as it was less what the regions carve, for all     *)
(* decks, regions, geometry and orders of generating, cancelling, crashing *)
(* and generating again.                                                   *)
THEOREM DoneAlwaysStartsWhole ==
  ASSUME NoneIsNoFunction PROVE Spec => []DoneStartsWhole
<1>1. ASSUME BenchInv, PrepareInv PROVE DoneStartsWhole
  <2> SUFFICES ASSUME NEW d \in Sources, Done(d), OneMesh(prep[d].report.source)
               PROVE  LET report == prep[d].report
                          part   == report.source[1]
                          decks  == DecksIn(d + 1, report.cfg)
                          m      == [report.cfg.model EXCEPT !.bound = report.bound]
                          files  == disk[d + 1].files
                      IN  /\ OneMesh(decks)
                          /\ GuardsPass(decks[1], m, files)
                          /\ decks[1].cells \ Candidates(decks[1], m, files)
                               = part.cells \ Carved(part, m, disk[d].files)
    BY DEF DoneStartsWhole
  <2>1. Recorded(prep[d])
    BY DEF Done, StatusOf, Recorded
  <2>2. ReportMade(disk, d, prep[d].report) /\ Copies(disk)
    BY <1>1, <2>1 DEF PrepareInv, MadeOK
  <2> QED
    BY <1>1, <2>2, ReportShowsPart
<1> QED
  BY <1>1, BenchInvariant, PrepareInvariant, PTL

(* In the decks of iteration 0 every node of the mesh is held: by a living *)
(* element, by a pin, by the deck's own support, or it is a rigid node of  *)
(* a candidate held void, which the guard exempts (loop.py:448).           *)
THEOREM AlwaysStartsPinned == Spec => []StartsPinned
<1>1. BenchInv => StartsPinned
  BY DEF BenchInv, RunOK, PinnedFrom, StartsPinned
<1> QED
  BY <1>1, BenchInvariant, PTL
=============================================================================
