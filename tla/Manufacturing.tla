---------------------------- MODULE Manufacturing ----------------------------
(***************************************************************************)
(* The manufacturing constraints: what they do to a mask, one after the    *)
(* other.  The geometry they read from the centroids is given: the mirror  *)
(* partner of each element (itself, when it has none), the columns along   *)
(* the draw direction from the bottom up, the prisms along the extrusion   *)
(* axis, and, for the build direction, heights in element spacings and the *)
(* elements strictly below each one within its downward cone.  Columns and *)
(* prisms are bins: an element is in one of them, once.                    *)
(***************************************************************************)
EXTENDS DesignMesh, Sequences

CONSTANTS Mirror, Columns, Prisms, Height, Cone

ASSUME GeometryAssumption ==
  /\ Mirror \in [Elements -> Elements]
  /\ \A e \in Elements : Mirror[Mirror[e]] = e
  /\ Columns \subseteq Seq(Elements)
  /\ \A c, d \in Columns : \A i \in DOMAIN c, j \in DOMAIN d : c[i] = d[j] => c = d /\ i = j
  /\ Prisms \subseteq SUBSET Elements
  /\ \A p, q \in Prisms : p \cap q # {} => p = q
  /\ Height \in [Elements -> Nat]
  /\ Cone \in [Elements -> SUBSET Elements]
  /\ \A e \in Elements : \A below \in Cone[e] : Height[below] < Height[e]

(* Minimum member size: erode, then dilate, then clip to what was alive.   *)
Open(alive, layers, prot) ==
  LET Erode(a) == (a \ Neighbours(Elements \ (a \cup prot))) \cup prot
      eroded[i \in 0..layers] == IF i = 0 THEN alive ELSE Erode(eroded[i - 1])
  IN  (alive \cap Hops(eroded[layers], layers)) \cup prot

(* Living, unprotected elements too deep inside a lump.                    *)
OverLimit(alive, layers, prot) ==
  (alive \ prot) \ Hops(Elements \ alive, layers)

(* The elements one pass carves: the least useful first, each one keeping  *)
(* its neighbours for this pass.                                           *)
Carved(over, sens) ==
  LET Before(e, f) == sens[e] < sens[f] \/ (sens[e] = sens[f] /\ e < f)
      carve[todo \in SUBSET over] ==
        IF todo = {} THEN {}
        ELSE LET e == CHOOSE x \in todo : \A y \in todo \ {x} : Before(x, y)
             IN  {e} \cup carve[todo \ Neighbours({e})]
  IN  carve[over]

(* Maximum member size: carve until nothing is too deep.                   *)
MaxMember(alive, layers, prot, sens) ==
  LET thin[a \in SUBSET alive] ==
        LET over == OverLimit(a, layers, prot)
        IN  IF over = {} THEN a ELSE thin[a \ Carved(over, sens)]
  IN  thin[alive]

(* Symmetry: an element lives when it or its mirror partner does.          *)
Symmetrize(alive) == alive \cup {Mirror[e] : e \in alive}

(* The runs of living elements in a column, as pairs of positions.         *)
Runs(col, alive) ==
  {r \in (DOMAIN col) \X (DOMAIN col) :
     r[1] <= r[2] /\ \A i \in r[1]..r[2] : col[i] \in alive}

LargestRun(col, alive) ==
  CHOOSE r \in Runs(col, alive) :
    \A q \in Runs(col, alive) :
      \/ q[2] - q[1] < r[2] - r[1]
      \/ q[2] - q[1] = r[2] - r[1] /\ q[1] >= r[1]

(* Casting: single-sided keeps the solid foot of each column, two-sided    *)
(* its longest run.                                                        *)
Drawn(col, alive, twoSided) ==
  IF twoSided
  THEN IF Runs(col, alive) = {} THEN {}
       ELSE LET r == LargestRun(col, alive) IN {col[i] : i \in r[1]..r[2]}
  ELSE {col[i] : i \in {j \in DOMAIN col : \A h \in 1..j : col[h] \in alive}}

Draw(alive, twoSided) == UNION {Drawn(col, alive, twoSided) : col \in Columns}

(* Extrusion: a prism is solid when at least half of it is.                *)
Extrude(alive) ==
  UNION {p \in Prisms : 2 * Cardinality(p \cap alive) >= Cardinality(p)}

(* Overhang: what stands on the lowest layer of the design, is protected,  *)
(* or rests on something supported in its downward cone.                   *)
SelfSupport(alive, prot) ==
  LET plate == Min({Height[e] : e \in IF alive = {} THEN Elements ELSE alive})
      supported[e \in Elements] ==
        /\ e \in alive
        /\ \/ e \in prot
           \/ Height[e] <= plate + 1
           \/ \E below \in Cone[e] : supported[below]
  IN  {e \in alive : supported[e]}

(* An opts record has the fields minLayers, maxLayers, mirror, draw,       *)
(* extrude and overhang; the constraints apply when one of them is on.     *)
Active(opts) ==
  \/ opts.minLayers > 0
  \/ opts.maxLayers > 0
  \/ opts.mirror
  \/ opts.draw # "off"
  \/ opts.extrude
  \/ opts.overhang

(* Every enabled constraint in its order: sizes, mirror, directions; the   *)
(* protected elements return at the end.                                   *)
Sized(alive, prot, sens, opts) ==
  LET opened == IF opts.minLayers > 0 THEN Open(alive, opts.minLayers, prot)
                ELSE alive
  IN  IF opts.maxLayers > 0 THEN MaxMember(opened, opts.maxLayers, prot, sens)
      ELSE opened

Directed(alive, prot, opts) ==
  LET drawn    == IF opts.draw = "off" THEN alive
                  ELSE Draw(alive, opts.draw = "two-sided")
      extruded == IF opts.extrude THEN Extrude(drawn) ELSE drawn
  IN  IF opts.overhang THEN SelfSupport(extruded, prot) ELSE extruded

(* A mutant: the mirror before the size filters.                           *)
MirroredFirst(alive, prot, sens, opts) ==
  LET mirrored == IF opts.mirror THEN Symmetrize(alive) ELSE alive
  IN  Directed(Sized(mirrored, prot, sens, opts), prot, opts) \cup prot

Manufactured(alive, prot, sens, opts) ==
  LET sized    == Sized(alive, prot, sens, opts)
      mirrored == IF opts.mirror THEN Symmetrize(sized) ELSE sized
  IN  Directed(mirrored, prot, opts) \cup prot

(* The manufacturing constraints, when one is enabled, and the islands     *)
(* they may have made; then the held-void region is cleared.               *)
ShapedWithIslands(p, design, field) ==   \* a mutant: no second removal
  IF Active(p.opts) THEN Manufactured(design, p.protected, field, p.opts)
  ELSE design

Shaped(p, design, field) ==
  IF Active(p.opts)
  THEN KeepConnected(Manufactured(design, p.protected, field, p.opts), p.anchor)
  ELSE design

HeldVoid(p, design) == design \ p.blocked
=============================================================================
