--------------------------- MODULE MCDesignUpdate ---------------------------
(* Model-checking instance of DesignUpdate: two columns of three tall      *)
(* elements, numbered from the bottom up, column by column.                *)
EXTENDS DesignUpdate

Six == 1..6
ColumnOf(e) == (e - 1) \div 3
RowOf(e)    == (e - 1) % 3
Corners == [e \in Six |-> {<<x, y>> : x \in ColumnOf(e)..ColumnOf(e) + 1,
                                      y \in RowOf(e)..RowOf(e) + 1}]
Edges == [e \in Six |->
            {<<"left", ColumnOf(e), RowOf(e)>>, <<"left", ColumnOf(e) + 1, RowOf(e)>>,
             <<"low", ColumnOf(e), RowOf(e)>>, <<"low", ColumnOf(e), RowOf(e) + 1>>}]
UnitVolumes == <<2, 1, 2, 3, 1, 2>>

OtherColumn  == [e \in Six |-> IF e > 3 THEN e - 3 ELSE e + 3]
DrawColumns  == {<<1, 2, 3>>, <<4, 5, 6>>}
AcrossPrisms == {{1, 4}, {2, 5}, {3, 6}}
TallHeight   == [e \in Six |-> 2 * RowOf(e)]
BelowIn      == [e \in Six |-> {b \in Six : RowOf(b) = RowOf(e) - 1}]

(* Rising with the index; the top first, with ties; the middle row last.   *)
SomeFields == {<<1, 2, 3, 4, 5, 6>>, <<1, 2, 3, 1, 2, 3>>, <<6, 1, 3, 2, 1, 4>>}

NoShaping == [minLayers |-> 0, maxLayers |-> 0, mirror |-> FALSE, draw |-> "off",
              extrude |-> FALSE, overhang |-> FALSE]
Base ==
  [alg |-> "beso", mode |-> "gate", er |-> 25, goal |-> 40, gain |-> 0,
   floor |-> 25, cap |-> 200, damp |-> 100, window |-> 2, aim |-> 95,
   maxAdd |-> 20, flips |-> 34, eps |-> 2, bias |-> FALSE,
   protected |-> {1}, anchor |-> {1}, candidate |-> {}, blocked |-> {},
   opts |-> NoShaping]

AllPlans == {
  (* proportional gate with damping; growth region; deletable supports.    *)
  [Base EXCEPT !.gain = 100, !.damp = 80, !.bias = TRUE, !.protected = {},
               !.candidate = {5, 6}],
  (* a held-void region and a protected element ranked low.                *)
  [Base EXCEPT !.protected = {1, 3}, !.anchor = {1, 3}, !.candidate = {6},
               !.blocked = {6}, !.maxAdd = 10],
  (* TOBS under the multipoint controller.                                 *)
  [Base EXCEPT !.alg = "tobs", !.mode = "multipoint"],
  (* TOBS with a die pulled upwards, thin members, and deletable supports  *)
  (* at the top.                                                           *)
  [Base EXCEPT !.alg = "tobs", !.protected = {}, !.anchor = {3}, !.opts.maxLayers = 1, !.opts.draw = "one-sided"],
  (* a symmetric part without slivers or lumps.                            *)
  [Base EXCEPT !.protected = {1, 4}, !.anchor = {1, 4}, !.opts.minLayers = 1,
               !.opts.maxLayers = 1, !.opts.mirror = TRUE],
  (* nothing but a minimum member size.                                    *)
  [Base EXCEPT !.protected = {}, !.anchor = {1, 6}, !.opts.minLayers = 1],
  (* every directional constraint at once.                                 *)
  [Base EXCEPT !.opts.draw = "two-sided", !.opts.extrude = TRUE,
               !.opts.overhang = TRUE],
  (* printed: nothing hangs over.                                          *)
  [Base EXCEPT !.opts.overhang = TRUE] }

LowAndHigh == {70, 90, 130}
=============================================================================
