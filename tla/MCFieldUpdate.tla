---------------------------- MODULE MCFieldUpdate ----------------------------
(* Model-checking instance of FieldUpdate: a strip of four elements, the   *)
(* last one deeper than the others.                                        *)
EXTENDS FieldUpdate

Four == 1..4
Strip == [e \in Four |-> {e, e + 1}]
StripVolumes == <<2, 1, 1, 2>>
StripMirror == [e \in Four |-> 5 - e]

StripFields == {<<4, 3, 2, 1>>, <<2, 0, 3, 3>>, <<0, 0, 0, 0>>}

NoShaping == [minLayers |-> 0, maxLayers |-> 0, mirror |-> FALSE, draw |-> "off",
              extrude |-> FALSE, overhang |-> FALSE]
Base ==
  [alg |-> "hca", er |-> 25, goal |-> 40, gain |-> 0, floor |-> 25, cap |-> 200,
   damp |-> 100, protected |-> {1}, anchor |-> {1}, candidate |-> {},
   blocked |-> {}, opts |-> NoShaping,
   kp |-> 100, move |-> 100, weight |-> 100,
   flips |-> 50, damping |-> 50, scip |-> FALSE, tight |-> 70, relax |-> 150, tMin |-> 40,
   band |-> 12, dt |-> 6, nucleation |-> 20, rule |-> "classic", diffusion |-> 1,
   passes |-> 1]

StripPlans == {
  (* HCA as configured by default, with a held region.                     *)
  [Base EXCEPT !.candidate = {4}, !.blocked = {4}],
  (* A damped HCA that blends its fields, on a symmetric part.             *)
  [Base EXCEPT !.kp = 60, !.move = 40, !.weight = 50, !.protected = {1, 4},
               !.anchor = {1, 4}, !.opts.mirror = TRUE],
  (* SAIP with damping; SAIP with asymptotes and a growth region.          *)
  [Base EXCEPT !.alg = "saip", !.opts.maxLayers = 1],
  [Base EXCEPT !.alg = "saip", !.scip = TRUE, !.damping = 100, !.candidate = {3}],
  (* The level set, classic and by reaction-diffusion in a narrower band.  *)
  [Base EXCEPT !.alg = "levelset", !.opts.minLayers = 1],
  [Base EXCEPT !.alg = "levelset", !.rule = "rde", !.band = 8, !.protected = {}, !.candidate = {4},
               !.blocked = {4}] }

NothingBelow == [e \in Four |-> {}]
LowAndHigh == {70, 130}
=============================================================================
