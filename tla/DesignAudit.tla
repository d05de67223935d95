----------------------------- MODULE DesignAudit -----------------------------
(***************************************************************************)
(* The two audits that look at a design after the fact: the manufacturing  *)
(* audit measures the final design against the constraints it was shaped   *)
(* by, with measurements of its own, and the sanity audit looks at every   *)
(* updated mask before it is solved.  Neither changes anything.            *)
(***************************************************************************)
EXTENDS Manufacturing

CONSTANT FacesOf   \* the faces of each element; two elements may share one

(* Eroded and dilated as measured: protected elements shield nothing.      *)
Eroded(a, n) ==
  LET e[i \in 0..n] ==
        IF i = 0 THEN a
        ELSE LET left == e[i - 1] IN {x \in left : Neighbours({x}) \subseteq left}
  IN  e[n]
Opened(a, n) == a \cap Hops(Eroded(a, n), n)

(* Granulometry: an element's member size is the most layers it survives   *)
(* being opened by, up to the number of elements.                          *)
MemberSize(alive, e) ==
  LET cap == Cardinality(Elements)
      stop == CHOOSE n \in 1..cap + 1 :
                /\ n = cap + 1 \/ Opened(alive, n) = {}
                /\ \A k \in 1..n - 1 : Opened(alive, k) # {}
  IN  Max({0} \cup {n \in 1..stop - 1 : e \in Opened(alive, n)})

ThinnestMember(alive) ==
  IF alive = {} THEN 0 ELSE Min({MemberSize(alive, e) : e \in alive})

(* The hops from a living element to the nearest void; none at all counts  *)
(* as the number of elements.                                              *)
Depth(alive, e) ==
  LET cap == Cardinality(Elements)
      near == {k \in 1..cap : e \in Hops(Elements \ alive, k)}
  IN  IF near = {} THEN cap ELSE Min(near)

ThickestMember(alive) ==
  IF alive = {} THEN 0 ELSE Max({Depth(alive, e) : e \in alive})

(* Paired elements of which only one lives.                                *)
Asymmetric(alive) == {e \in Elements : (e \in alive) # (Mirror[e] \in alive)}

(* Columns whose living elements are not one run, from the base up if the  *)
(* die is single-sided; prisms that are neither solid nor void.            *)
RunStarts(col, alive) ==
  {i \in DOMAIN col : col[i] \in alive /\ (i = 1 \/ col[i - 1] \notin alive)}
Undercut(alive, twoSided) ==
  {col \in Columns :
     IF twoSided THEN Cardinality(RunStarts(col, alive)) > 1
     ELSE RunStarts(col, alive) \ {1} # {}}
Uneven(alive) == {p \in Prisms : p \cap alive # {} /\ ~(p \subseteq alive)}

(* Elements above the plate with nothing alive below in their cone, whether*)
(* or not that is supported itself.                                        *)
Unsupported(alive, prot) ==
  LET plate == Min({Height[e] : e \in alive})
  IN  {e \in alive \ prot : Height[e] > plate + 1 /\ Cone[e] \cap alive = {}}

(* The audit of a design: the configured constraints that it fails.        *)
Failed(alive, prot, opts) ==
  {c \in {"min_member", "max_member", "symmetry", "draw", "extrusion", "overhang"} :
     CASE c = "min_member" -> opts.minLayers > 0 /\ ThinnestMember(alive) < opts.minLayers
       [] c = "max_member" -> opts.maxLayers > 0 /\ ThickestMember(alive) > opts.maxLayers
       [] c = "symmetry"   -> opts.mirror /\ Asymmetric(alive) # {}
       [] c = "draw"       -> opts.draw # "off" /\ Undercut(alive, opts.draw = "two-sided") # {}
       [] c = "extrusion"  -> opts.extrude /\ Uneven(alive) # {}
       [] c = "overhang"   -> opts.overhang /\ Unsupported(alive, prot) # {}}

-----------------------------------------------------------------------------
(* The sanity audit: living elements without a load path; those in members *)
(* thinner than the layers asked for; faces laid bare by this update; and  *)
(* faces of single elements taken out of solid bulk.                       *)
Disconnected(alive, anchor) == alive \ KeepConnected(alive, anchor)

Thin(alive, layers, prot) ==
  IF layers <= 0 THEN {} ELSE alive \ (Opened(alive, layers) \cup prot)

Faces == UNION {FacesOf[e] : e \in Elements}
Owners(face) == {e \in Elements : face \in FacesOf[e]}
Interior == {face \in Faces : Cardinality(Owners(face)) = 2}

NewlyExposed(alive, before) ==
  {face \in Interior : /\ Owners(face) \cap alive # {}
                       /\ Owners(face) \cap (before \ alive) # {}}

Sealed(alive, before) ==
  {e \in before \ alive : \A face \in FacesOf[e] :
     face \in Interior /\ Owners(face) \ {e} \subseteq alive}
CavityFaces(alive, before) == UNION {FacesOf[e] : e \in Sealed(alive, before)}

(* The audit's report; severe is what clears its ok flag.                  *)
Sanity(alive, before, anchor, layers, prot) ==
  [ok |-> Disconnected(alive, anchor) = {},
   thin |-> Thin(alive, Max({1, layers}), prot),
   exposed |-> NewlyExposed(alive, before),
   cavity |-> CavityFaces(alive, before)]
=============================================================================
