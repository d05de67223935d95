----------------------------- MODULE MCWorkbench -----------------------------
(* Model-checking instance of Workbench: a part of two elements on a line, *)
(* its right end on a rigid node, and two load cases whose decks hold      *)
(* different nodes of other parts.                                         *)
EXTENDS Workbench

Two == {"one", "two"}

(* Coordinates 0, 2, 4; node 50 is rigid (below DesignNodeMin).            *)
PartDeck ==
  [nodes |-> {[id |-> 101, x |-> 0], [id |-> 102, x |-> 2], [id |-> 50, x |-> 4]},
   later |-> {}, cells |-> {[id |-> 11, ends |-> {101, 102}], [id |-> 12, ends |-> {102, 50}]},
   groups |-> [bc |-> {101}, face |-> {102}],
   cards |-> <<[lo |-> -1, hi |-> 1, skew |-> "left"]>>, skews |-> [left |-> -2]]
OtherCase == [PartDeck EXCEPT !.later = {103, 104}]
OtherMesh == [PartDeck EXCEPT !.cells = {c \in @ : c.id = 11}]
Engine == [animDt |-> 1, tensors |-> 0]

(* A neighbour whose part 1 lies left of the part, part 2 over it.         *)
Neighbour ==
  [nodes |-> {[id |-> 1, x |-> -4], [id |-> 2, x |-> -2], [id |-> 3, x |-> 0]},
   parts |-> <<{[id |-> 1, ends |-> {1, 2}]}, {[id |-> 2, ends |-> {2, 3}]}>>]

Folder(two) ==
  [starters |-> [one |-> PartDeck, two |-> two],
   engines |-> [one |-> Engine, two |-> [Engine EXCEPT !.tensors = 1]],
   files |-> [neighbour |-> Neighbour]]
Folders == {Folder(OtherCase), Folder(OtherMesh)}
OneFolder == {Folder(OtherCase)}

(* Regions.                                                                *)
Region ==
  [name |-> "a", shape |-> "box", lo |-> -3, hi |-> 0, frame |-> 0, points |-> {},
   ref |-> None, parts |-> {}, clearance |-> 0, forbid |-> FALSE, carve |-> FALSE]
Plain    == [Region EXCEPT !.lo = 0, !.hi = 0]
Slanted  == [Region EXCEPT !.lo = -2, !.hi = 2, !.frame = -2]
Carving  == [Region EXCEPT !.name = "c", !.lo = 1, !.hi = 1, !.carve = TRUE]
CarveEnd == [Region EXCEPT !.name = "c", !.lo = 3, !.hi = 3, !.carve = TRUE]
OnCard   == [Plain EXCEPT !.shape = "card", !.ref = 1]
OnHull   == [Plain EXCEPT !.name = "h", !.shape = "hull", !.points = {-3, -1}]
LongHull == [OnHull EXCEPT !.points = {-5, -1}]
OnDeck   == [Plain EXCEPT !.name = "d", !.shape = "deck", !.ref = "neighbour",
                          !.parts = {2}, !.clearance = 1]
Negate   == [Region EXCEPT !.name = "n", !.lo = -3, !.hi = -3, !.forbid = TRUE]

SomeLayouts == {<<Slanted, Carving>>, <<Carving, Negate>>, <<OnHull, Negate>>, <<OnCard, CarveEnd>>, <<OnDeck>>}

NoChoice == {}

(* Configurations.                                                         *)
FreeModel ==
  [dir |-> 0, enabled |-> TRUE, regions |-> <<Region>>, bound |-> None,
   keepOut |-> None, keepOutParts |-> {}, keepOutClearance |-> 0,
   bcGroup |-> "bc", freezeGroups |-> {"face"}, excludeGroups |-> {}]
KeepOut == [FreeModel EXCEPT !.regions = <<OnCard>>, !.keepOut = "neighbour",
                             !.keepOutParts = {1}, !.keepOutClearance = -1]
CutOff == [FreeModel EXCEPT !.regions = <<LongHull, Negate>>]

Knobs ==
  [target |-> 50, rate |-> 2, radius |-> 0, gain |-> 0, cap |-> 2, floor |-> 0,
   damping |-> 100, sensitivity |-> "energy", mode |-> "gate", window |-> 2,
   utilization |-> 100, radiusStart |-> 0, radiusIters |-> 1, radiusSteps |-> 2,
   flipLimit |-> 10, protectBc |-> TRUE, contact |-> 0, layers |-> 1]
RunBlock == [slots |-> <<[np |-> 1, nt |-> 2]>>, maxWallHours |-> 0, divergeFailAfter |-> 1,
             divergeMaxCycles |-> 0, animDt |-> 5]
Case(stem) == [stem |-> stem, weight |-> 100, sigma |-> 200, node |-> None, limit |-> None,
               disps |-> {[node |-> 102, limit |-> 1]}]
Both == <<Case("one"), Case("two")>>

Usual == [optimizer |-> "beso", knobs |-> Knobs, run |-> RunBlock, cases |-> Both]
Tensor == [Usual EXCEPT !.optimizer = "hca", !.knobs.sensitivity = "tdsa"]
Weightless == [Usual EXCEPT !.cases = [i \in 1..2 |-> [Both[i] EXCEPT !.weight = 0]]]
Mistyped == [Usual EXCEPT !.knobs.sensitivity = "stress", !.run.slots = <<[np |-> 0, nt |-> 2]>>]
SomeSettings == {Usual, Tensor, Weightless}

FileOf(model, s) ==
  [model |-> model, optimizer |-> s.optimizer, knobs |-> s.knobs, run |-> s.run,
   rows |-> s.cases, legacy |-> None, unknown |-> {}]
Legacy == [FileOf([FreeModel EXCEPT !.bound = 12], Usual) EXCEPT
             !.rows = <<>>, !.legacy = [stem |-> "one", node |-> 102, sigma |-> 200, limit |-> 1]]
Files ==
  {FileOf(KeepOut, Usual), FileOf([FreeModel EXCEPT !.bound = 12], Usual),
   FileOf([FreeModel EXCEPT !.enabled = FALSE], Mistyped), Legacy,
   [FileOf(CutOff, Usual) EXCEPT !.unknown = {"targt"}]}
UsualFile == {FileOf(FreeModel, Usual)}
=============================================================================
