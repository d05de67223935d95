----------------------------- MODULE GrowthMesh -----------------------------
(***************************************************************************)
(* The PREPARE step: candidate elements for the growth regions, generated  *)
(* on the surface nodes of the part, and the extended decks they go into.  *)
(* The decks are a sequence, one for each load case, the first the primary *)
(* one.  TetGen is external: it keeps the surface nodes and fills the      *)
(* domain with cells of one edge length.                                   *)
(***************************************************************************)
EXTENDS GrowthRegions

CONSTANT Edge   \* the edge length of the generated cells

ASSUME EdgeAssumption == Edge \in Nat \ {0}

(***************************************************************************)
(* The part and its surface.                                               *)
(***************************************************************************)
SurfaceKnown(d) == SurfaceNodes(d.cells) \subseteq NodeIds(d)
SurfaceCoords(d) == {RowOf(d, n).x : n \in SurfaceNodes(d.cells)}
Coincident(d) == Cardinality(SurfaceCoords(d)) < Cardinality(SurfaceNodes(d.cells))
PartSpace(d) == UNION {Min(Coords(d, c))..Max(Coords(d, c)) : c \in d.cells}

InRegions(d, regions, files) == UNION {Space(d, r, files) : r \in regions}
RegionBounds(d, regions, files) ==
  LET space == InRegions(d, regions, files) IN Min(space)..Max(space)

(* The cells of the backend: the domain is the part and the regions, with  *)
(* a margin around them.                                                   *)
Backend(d, regions, files) ==
  LET domain == SurfaceCoords(d) \cup RegionBounds(d, regions, files)
      first  == Min(SurfaceCoords(d))
      points == {x \in (Min(domain) - Edge)..(Max(domain) + Edge) : (x - first) % Edge = 0}
  IN  {{x, x + Edge} : x \in {p \in points : p + Edge \in points}}

Middle(ends) == (Min(ends) + Max(ends)) \div 2

(* What is kept of them: in a positive region, outside the part, and not   *)
(* where growth is forbidden.                                              *)
InsidePart(d, x) == x \in PartSpace(d)
Kept(d, m, files) ==
  LET positive == Positive(Regions(m))
      negative == Negative(Regions(m))
      forbidden == KeepOutSpace(m, files) \cup InRegions(d, negative, files)
  IN  {t \in Backend(d, positive, files) :
         /\ Middle(t) \in InRegions(d, positive, files)
         /\ ~InsidePart(d, Middle(t))
         /\ Middle(t) \notin forbidden}

(***************************************************************************)
(* Ids of what is new, above those of every deck.                          *)
(***************************************************************************)
(* Consecutive ids for what is new, in the order of where it lies.         *)
AllocateIds(places, existingMax, minimum) ==
  LET start == Max({existingMax + 1, minimum})
  IN  [x \in places |-> start + Cardinality({y \in places : y < x})]

TopNodeIdOfPrimary(decks) == Max(NodeIds(decks[1]))
TopNodeId(decks) == Max({MaxNodeId(decks[k]) : k \in DOMAIN decks})
TopElemId(decks) == Max({MaxElemId(decks[k]) : k \in DOMAIN decks})

(* The nodes and elements that extend the decks: a vertex on a surface     *)
(* node is that node.                                                      *)
Growth(decks, m, files) ==
  LET part  == decks[1]
      kept  == Kept(part, m, files)
      fresh == (UNION kept) \ SurfaceCoords(part)
      node  == AllocateIds(fresh, TopNodeId(decks), DesignNodeMin)
      elem  == AllocateIds({Min(t) : t \in kept}, TopElemId(decks), 0)
      surface(x) == CHOOSE n \in SurfaceNodes(part.cells) : RowOf(part, n).x = x
      idOf(x) == IF x \in fresh THEN node[x] ELSE surface(x)
  IN  [nodes |-> {[id |-> node[x], x |-> x] : x \in fresh},
       cells |-> {[id |-> elem[Min(t)], ends |-> {idOf(x) : x \in t}] : t \in kept}]

(***************************************************************************)
(* One PREPARE up to the writes: decks is what it loaded, None where there *)
(* is no starter.  Decks share a mesh if they hold the same element ids;   *)
(* the code also wants them in the same order, which the model has not.    *)
(***************************************************************************)
SharesMesh(decks) ==
  /\ decks # <<>>
  /\ \A k \in DOMAIN decks : decks[k] # None
  /\ \A k \in DOMAIN decks : ElemIds(decks[k]) = ElemIds(decks[1])

(* The model as the run will have it once the boundary is recorded.        *)
RecordedModel(decks, m) == [m EXCEPT !.bound = TopElemId(decks)]

Refused(decks, m, files) ==
  \/ m.regions = <<>>
  \/ ~SharesMesh(decks)
  \/ \E r \in Regions(m) : ~Resolvable(decks[1], r, files)
  \/ Positive(Regions(m)) = {}
  \/ ~KeepOutResolves(m, files)
  \/ ~SurfaceKnown(decks[1])
  \/ Coincident(decks[1])
  \/ Kept(decks[1], m, files) = {}
  \/ LET growth == Growth(decks, m, files)
     IN  ~GuardsPass(Extended(decks[1], growth.nodes, growth.cells),
                     RecordedModel(decks, m), files)

(* The geometry decks that go with the configuration.                      *)
Referenced(m) == {r.ref : r \in {q \in Regions(m) : q.shape = "deck"}}
                   \cup (IF m.keepOut = None THEN {} ELSE {m.keepOut})
=============================================================================
