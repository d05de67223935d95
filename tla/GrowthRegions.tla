--------------------------- MODULE GrowthRegions ----------------------------
(***************************************************************************)
(* Growth regions: where material may be added to the part or must not be, *)
(* which elements of a deck they make start void, and the guards of a run  *)
(* start.  A region is an interval (with an optional local frame, a shift),*)
(* a /BOX card of the starter deck, the hull of a list of points or the    *)
(* solid parts of another deck:                                            *)
(*                                                                         *)
(*   [name, shape : {"box", "card", "hull", "deck"}, lo, hi, frame, points,*)
(*    ref, parts, clearance, forbid : BOOLEAN, carve : BOOLEAN]            *)
(*                                                                         *)
(* A geometry deck, for such a region or for the keep-out, is              *)
(* [nodes : SUBSET [id, x], parts : [part -> SUBSET cells]].               *)
(***************************************************************************)
EXTENDS StarterDeck, Sequences

(***************************************************************************)
(* Solid geometry of the parts of another deck.                            *)
(***************************************************************************)
PartCells(g, parts) ==
  UNION {g.parts[p] : p \in DOMAIN g.parts \cap (IF parts = {} THEN DOMAIN g.parts ELSE parts)}

HasSolids(g, parts) ==
  PartCells(g, parts) # {} /\ NodesUnder(PartCells(g, parts)) \subseteq NodeIds(g)

Occupied(g, parts) ==
  UNION {Min(Coords(g, c))..Max(Coords(g, c)) : c \in PartCells(g, parts)}
Within(xs, dist) == UNION {(x - dist)..(x + dist) : x \in xs}
CoordsOf(g, nodes) == {RowOf(g, n).x : n \in nodes}

(* Space the neighbour parts forbid: their volume, widened around their    *)
(* nodes by a positive clearance, or less a band under their surface by a  *)
(* negative one.                                                           *)
BlockedSpace(g, parts, clearance) ==
  LET volume == Occupied(g, parts)
      nodes  == CoordsOf(g, NodesUnder(PartCells(g, parts)))
      skin   == CoordsOf(g, SurfaceNodes(PartCells(g, parts)))
  IN  IF clearance >= 0 THEN volume \cup (IF clearance > 0 THEN Within(nodes, clearance) ELSE {})
      ELSE volume \ Within(skin, -clearance)

IsGeometry(g) ==
  /\ g.nodes \in SUBSET [id : Int, x : Int] /\ IsFiniteSet(g.nodes)
  /\ \A p \in DOMAIN g.parts : \A c \in g.parts[p] : c.ends # {}

(***************************************************************************)
(* Resolving the configured regions against a deck and the geometry decks  *)
(* (files: name -> deck) of the case directory.                            *)
(***************************************************************************)
Resolvable(d, r, files) ==
  CASE r.shape = "deck" -> r.ref \in DOMAIN files /\ HasSolids(files[r.ref], r.parts)
    [] r.shape = "card" -> r.ref \in DOMAIN d.cards
    [] r.shape = "hull" -> r.points # {}
    [] OTHER -> TRUE

Space(d, r, files) ==
  CASE r.shape = "deck" ->
         Occupied(files[r.ref], r.parts)
           \cup (IF r.clearance > 0
                 THEN Within(CoordsOf(files[r.ref], NodesUnder(PartCells(files[r.ref], r.parts))),
                             r.clearance)
                 ELSE {})
    [] r.shape = "card" -> Box(d, r.ref)
    [] r.shape = "hull" -> Min(r.points)..Max(r.points)
    [] OTHER -> (r.lo + r.frame)..(r.hi + r.frame)

InSpace(d, space) == {c \in d.cells : Centroid(d, c) \in space}

(* The regions in effect, in the model m of a configuration.               *)
Regions(m) == {m.regions[i] : i \in DOMAIN m.regions}
ActiveRegions(m) == IF m.enabled THEN Regions(m) ELSE {}
Positive(regions) == {r \in regions : ~r.forbid}
Negative(regions) == {r \in regions : r.forbid}

KeepOutResolves(m, files) ==
  m.keepOut = None \/ (m.keepOut \in DOMAIN files /\ HasSolids(files[m.keepOut], m.keepOutParts))
KeepOutSpace(m, files) ==
  IF m.keepOut = None THEN {}
  ELSE BlockedSpace(files[m.keepOut], m.keepOutParts, m.keepOutClearance)

RegionsResolve(d, m, files) ==
  /\ \A r \in ActiveRegions(m) : Resolvable(d, r, files)
  /\ ActiveRegions(m) # {} => KeepOutResolves(m, files)

(* No material may be added here: neighbour parts and negative regions.    *)
ForbiddenSpace(d, m, files) ==
  KeepOutSpace(m, files) \cup UNION {Space(d, r, files) : r \in Negative(ActiveRegions(m))}

(***************************************************************************)
(* The elements that start void, and the guards on them.                   *)
(***************************************************************************)
(* With carve off, elements up to the recorded boundary are the original   *)
(* part and stay; without a boundary nothing is known to be original.      *)
NoBoundary(r, m) == ~r.carve /\ m.bound = None
Spares(r, m) == ~r.carve /\ m.bound # None
RegionCandidates(d, r, m, files) ==
  {c \in InSpace(d, Space(d, r, files)) : Spares(r, m) => c.id > m.bound}

Candidates(d, m, files) ==
  UNION {RegionCandidates(d, r, m, files) : r \in Positive(ActiveRegions(m))}
HeldVoid(d, m, files) ==
  IF ActiveRegions(m) = {} THEN {}
  ELSE Candidates(d, m, files) \cap InSpace(d, ForbiddenSpace(d, m, files))
Growable(d, m, files) == Candidates(d, m, files) \ HeldVoid(d, m, files)

(* Errors that end a run, or a PREPARE, before any solve.                  *)
EmptyRegions(d, m, files) ==
  {r \in Positive(ActiveRegions(m)) : RegionCandidates(d, r, m, files) = {}}
UnpinnableOfExpansion(d, m, files) ==
  {n \in NodesUnder({c \in Growable(d, m, files) : m.bound # None => c.id > m.bound}) :
     n < DesignNodeMin}
Unpinnable(d, m, files) ==
  {n \in NodesUnder(Growable(d, m, files)) : n < DesignNodeMin}
Unreachable(d, m, files) ==
  LET start == d.cells \ Candidates(d, m, files)
  IN  Growable(d, m, files)
        \ KeepConnectedCells(d.cells \ HeldVoid(d, m, files), start)

GuardsPass(d, m, files) ==
  /\ RegionsResolve(d, m, files)
  /\ EmptyRegions(d, m, files) = {}
  /\ Unpinnable(d, m, files) = {}
  /\ Unreachable(d, m, files) = {}
=============================================================================
