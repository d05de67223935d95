---------------------------- MODULE StarterDeck -----------------------------
(***************************************************************************)
(* A Radioss starter deck as the optimiser reads and rewrites it: the     *)
(* first /NODE block, the ids of every later one, the design part's       *)
(* elements, the /GRNOD/NODE groups and the /BOX cards.  Space is a line: *)
(* a node has a coordinate, an element spans its two end nodes.           *)
(*                                                                         *)
(*   [nodes : SUBSET [id, x], later : SUBSET Nat,                          *)
(*    cells : SUBSET [id, ends], groups : [id -> nodes],                   *)
(*    cards : [id -> interval], skews : [id -> shift]]                     *)
(***************************************************************************)
EXTENDS Integers, FiniteSets, FiniteSetsExt

CONSTANTS
  DesignNodeMin,   \* design nodes have this id or a higher one
  None             \* "not given"

ASSUME DesignNodeMinAssumption == DesignNodeMin \in Nat
ASSUME NoneAssumption == None \notin Int

NodeIds(d) == {r.id : r \in d.nodes}
ElemIds(d) == {c.id : c \in d.cells}
Alive(d, ids) == {c \in d.cells : c.id \in ids}
NodesUnder(cells) == UNION {c.ends : c \in cells}

(* The highest node id of all the /NODE blocks, 0 for none.                *)
MaxNodeId(d) == Max({0} \cup NodeIds(d) \cup d.later)
MaxElemId(d) == Max(ElemIds(d))

(* A group that the deck does not have has no nodes.                       *)
GroupNodes(d, g) == IF g \in DOMAIN d.groups THEN d.groups[g] ELSE {}

(* The configured groups that select nothing: run start refuses them.      *)
MistypedGroups(d, model) ==
  {g \in {model.bcGroup} \cup model.freezeGroups \cup model.excludeGroups :
     GroupNodes(d, g) = {}}

ProtectNodes(d, model, includeBc) ==
  (IF includeBc THEN GroupNodes(d, model.bcGroup) ELSE {})
    \cup UNION {GroupNodes(d, g) : g \in model.freezeGroups}
StressExcludeNodes(d, model) == UNION {GroupNodes(d, g) : g \in model.excludeGroups}

(* The interval a /BOX card stands for: its skew, where the deck has it,   *)
(* shifts it.                                                              *)
Box(d, id) ==
  LET card == d.cards[id]
      shift == IF card.skew \in DOMAIN d.skews THEN d.skews[card.skew] ELSE 0
  IN  (card.lo + shift)..(card.hi + shift)

(***************************************************************************)
(* The mesh of a deck.                                                     *)
(***************************************************************************)
(* A node id is looked up in the sorted ids of the first block: an id that *)
(* is not there gets the row of the next higher one.                       *)
RowOf(d, n) == CHOOSE r \in d.nodes :
                 r.id >= n /\ \A s \in d.nodes : s.id >= n => r.id <= s.id
Coords(d, c) == {RowOf(d, n).x : n \in c.ends}
Centroid(d, c) == (Min(Coords(d, c)) + Max(Coords(d, c))) \div 2

Touching(cells, nodes) == {c \in cells : c.ends \cap nodes # {}}

(* Cells joined to a seed by shared nodes, through cells only.             *)
KeepConnectedCells(cells, seeds) ==
  LET reach[i \in 0..Cardinality(cells)] ==
        IF i = 0 THEN seeds \cap cells
        ELSE Touching(cells, NodesUnder(reach[i - 1]))
  IN  reach[Cardinality(cells)]

(* The cells around the seed nodes, and around the design nodes within     *)
(* reach of a rigid node, widened by layers.                               *)
ProtectedCells(d, nodes, contact, layers) ==
  LET rigid == {r \in d.nodes : r.id < DesignNodeMin}
      near  == {r.id : r \in {s \in d.nodes \ rigid :
                  \E q \in rigid : Max({s.x - q.x, q.x - s.x}) <= contact}}
      seeds == (nodes \cap NodeIds(d)) \cup (IF contact > 0 THEN near ELSE {})
      hop[i \in 0..layers] == IF i = 0 THEN Touching(d.cells, seeds)
                              ELSE Touching(d.cells, NodesUnder(hop[i - 1]))
  IN  hop[layers]

(* Nodes on faces that exactly one element has: on a line, the ends that   *)
(* no two elements share.                                                  *)
SurfaceNodes(cells) ==
  {n \in NodesUnder(cells) : Cardinality({c \in cells : n \in c.ends}) = 1}

(***************************************************************************)
(* Writing decks.                                                          *)
(***************************************************************************)
(* New nodes at the end of the first /NODE block, new elements at the end  *)
(* of the design block.                                                    *)
Extended(d, newNodes, newCells) ==
  [d EXCEPT !.nodes = @ \cup newNodes, !.cells = @ \cup newCells]

(* Design nodes of the mesh that no living element holds, but for those    *)
(* that are held already.                                                  *)
FreeNodes(d, alive, noPin) ==
  {n \in NodeIds(d) \cap NodesUnder(d.cells) : n >= DesignNodeMin}
    \ (NodesUnder(Alive(d, alive)) \cup noPin)

(* The deck of one solve: the living elements, the free nodes pinned.      *)
Written(d, alive, noPin) ==
  [cells |-> Alive(d, alive), nodes |-> d.nodes, pinned |-> FreeNodes(d, alive, noPin)]

(* The engine deck of a solve: fewer animation states, and the stress      *)
(* tensor requested at most once.                                          *)
PreparedEngine(engine, animDt, tensor) ==
  [engine EXCEPT !.animDt = IF animDt = None \/ @ = None THEN @ ELSE animDt,
                 !.tensors = IF tensor /\ @ = 0 THEN 1 ELSE @]

IsEngine(engine) ==
  /\ engine = [animDt |-> engine.animDt, tensors |-> engine.tensors]
  /\ engine.tensors \in {0, 1}

(* What the solver rejects: a node id declared twice.                      *)
DeclaredTwice(d) ==
  {n \in NodeIds(d) : n \in d.later \/ Cardinality({r \in d.nodes : r.id = n}) > 1}

(* A deck with elements that the solver does not reject.                   *)
IsDeck(d) ==
  /\ d = [nodes |-> d.nodes, later |-> d.later, cells |-> d.cells, groups |-> d.groups,
          cards |-> d.cards, skews |-> d.skews]
  /\ d.nodes \in SUBSET [id : Int, x : Int] /\ IsFiniteSet(d.nodes)
  /\ d.later \in SUBSET Int /\ IsFiniteSet(d.later)
  /\ ElemIds(d) \in SUBSET (Nat \ {0}) /\ IsFiniteSet(d.cells) /\ d.cells # {}
  /\ \A id \in DOMAIN d.cards : d.cards[id].lo \in Int /\ d.cards[id].hi \in Int
  /\ \A id \in DOMAIN d.skews : d.skews[id] \in Int
  /\ DeclaredTwice(d) = {}
=============================================================================
