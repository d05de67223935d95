---------------------------- MODULE RegionTable -----------------------------
(***************************************************************************)
(* The growth regions on the screen.  The dashboard shows them in three    *)
(* tables: a main one with a row for each region, one with the frame of    *)
(* each box, one with the points of each hull.  The last two find their    *)
(* region by its NAME.                                                      *)
(***************************************************************************)
EXTENDS GrowthRegions, Functions

(***************************************************************************)
(* From the configuration to the tables.                                   *)
(***************************************************************************)
RowOfBox(b) ==
  [name |-> b.name, shape |-> b.shape, forbid |-> b.forbid, carve |-> b.carve,
   lo |-> IF b.shape = "box" THEN b.lo ELSE None,
   hi |-> IF b.shape = "box" THEN b.hi ELSE None,
   ref |-> IF b.shape \in {"card", "deck"} THEN b.ref ELSE None,
   parts |-> IF b.shape = "deck" THEN b.parts ELSE {},
   clearance |-> IF b.shape = "deck" THEN b.clearance ELSE None]
RecordsFromGrowthBoxes(boxes) == [i \in DOMAIN boxes |-> RowOfBox(boxes[i])]

(* A row for each box, here numbered as the box is.                        *)
RecordsFromFrames(boxes) ==
  [i \in {j \in DOMAIN boxes : boxes[j].shape = "box"} |->
     [name |-> boxes[i].name, frame |-> boxes[i].frame]]

(* A hull without points has one blank row, ready to fill in.  The order   *)
(* of the points makes no difference to the hull.                          *)
PointRows(b) == {[name |-> b.name, x |-> x] : x \in IF b.points = {} THEN {None} ELSE b.points}
RecordsFromPoints(boxes) ==
  UNION {PointRows(b) : b \in {q \in Range(boxes) : q.shape = "hull"}}

(***************************************************************************)
(* And back.                                                                *)
(***************************************************************************)
(* A row that lacks what its shape needs is no region.                     *)
IsComplete(row) ==
  CASE row.shape = "box" -> row.lo # None /\ row.hi # None
    [] row.shape \in {"card", "deck"} -> row.ref # None
    [] OTHER -> row.shape = "hull"
BoxOfRow(row) ==
  [name |-> row.name, shape |-> row.shape, forbid |-> row.forbid, carve |-> row.carve,
   lo |-> IF row.shape = "box" THEN row.lo ELSE 0, hi |-> IF row.shape = "box" THEN row.hi ELSE 0,
   frame |-> 0, points |-> {}, ref |-> row.ref, parts |-> row.parts,
   clearance |-> IF row.clearance = None THEN 0 ELSE row.clearance]
GrowthBoxesFromRecords(rows) ==
  LET boxes[i \in 0..Len(rows)] ==
        IF i = 0 THEN <<>>
        ELSE IF IsComplete(rows[i]) THEN Append(boxes[i - 1], BoxOfRow(rows[i]))
        ELSE boxes[i - 1]
  IN  boxes[Len(rows)]

(* The last row of a name is the frame of every box of that name.          *)
ApplyFrameRecords(boxes, rows) ==
  LET frameOf(name) == rows[Max({i \in DOMAIN rows : rows[i].name = name})].frame
      named(b) == \E i \in DOMAIN rows : rows[i].name = b.name
  IN  [i \in DOMAIN boxes |->
         IF boxes[i].shape = "box" /\ named(boxes[i])
         THEN [boxes[i] EXCEPT !.frame = frameOf(boxes[i].name)] ELSE boxes[i]]

(* The points of a hull are those of all the rows of its name.             *)
ApplyPointRecords(boxes, rows) ==
  LET pointsOf(name) == {r.x : r \in {q \in rows : q.name = name /\ q.x # None}}
      named(b) == \E r \in rows : r.name = b.name
  IN  [i \in DOMAIN boxes |->
         IF boxes[i].shape = "hull" /\ named(boxes[i])
         THEN [boxes[i] EXCEPT !.points = pointsOf(boxes[i].name)] ELSE boxes[i]]

(* The three tables that show a list of regions, and the list they say.    *)
TablesOf(boxes) ==
  [rows |-> RecordsFromGrowthBoxes(boxes), frames |-> RecordsFromFrames(boxes),
   points |-> RecordsFromPoints(boxes)]
BoxesOf(tables) ==
  LET boxes == GrowthBoxesFromRecords(tables.rows)
  IN  IF boxes = <<>> THEN <<>>
      ELSE ApplyPointRecords(ApplyFrameRecords(boxes, tables.frames), tables.points)

(* A region as its shape has it: the fields of other shapes are left alone.*)
IsRegion(b) ==
  /\ b.lo \in Int /\ b.hi \in Int /\ b.frame \in Int /\ b.clearance \in Int
  /\ b.points \in SUBSET Int /\ IsFiniteSet(b.points)
  /\ b.shape # "box" => b.frame = 0
  /\ b.shape # "hull" => b.points = {}
  /\ IsComplete(RowOfBox(b))
  /\ b = [BoxOfRow(RowOfBox(b)) EXCEPT !.frame = b.frame, !.points = b.points]

(* Regions named apart, as the tables need them.                           *)
AreRegions(boxes) ==
  /\ boxes \in Seq(Range(boxes))
  /\ \A i \in DOMAIN boxes : IsRegion(boxes[i])
  /\ \A i, j \in DOMAIN boxes : boxes[i].name = boxes[j].name => i = j
=============================================================================
