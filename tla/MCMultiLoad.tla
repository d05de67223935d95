----------------------------- MODULE MCMultiLoad -----------------------------
(* Model-checking instance of MultiLoad: a part of two elements, two load  *)
(* cases that strain one more than the other, and limits on the stress and *)
(* on nodes 7 and 8; node 9 is only watched.                               *)
EXTENDS MultiLoad

Two == 1..2
Joined == [e \in Two |-> {e, e + 1}]
Threes == <<3, 3>>
Blur == <<<<75, 25>>, <<25, 75>>>>

Pull == [weight |-> 200, sigma |-> 200, disps |-> <<[node |-> 7, limit |-> 10]>>]
Push == [weight |-> 100, sigma |-> None,
         disps |-> <<[node |-> 8, limit |-> 20], [node |-> 9, limit |-> None]>>]

Knobs ==
  [cases |-> <<Pull, Push>>, adaptive |-> TRUE, push |-> 1, bound |-> 2, share |-> 50,
   mode |-> "multipoint", er |-> 20, goal |-> 50, gain |-> 0, floor |-> 25, cap |-> 200,
   damp |-> 100, window |-> 2, aim |-> 95, steady |-> 2]

SomePlans == {
  Knobs,
  (* a sharper split under the gate, content with one steady volume.       *)
  [Knobs EXCEPT !.mode = "gate", !.push = 2, !.gain = 100, !.steady = 1],
  (* one load case, where the first ratio may be missing.                  *)
  [Knobs EXCEPT !.cases = <<Push>>] }

Result(sigma, near, far, raw) ==
  [sigma |-> sigma, disps |-> (7 :> near @@ 8 :> far @@ 9 :> 1), raw |-> raw]
Easy  == Result(100, 5, 10, <<4, 1>>)
Hard  == Result(300, 8, 10, <<8, 2>>)
Slack == Result(100, 5, 40, <<1, 2>>)
Blind == [sigma |-> 50, disps |-> (7 :> 5), raw |-> <<1, 3>>]
Dead  == Result(0, 0, 0, <<0, 0>>)

SomeSolves == {<<Easy, Easy>>, <<Hard, Easy>>, <<Easy, Slack>>, <<Easy, Blind>>, <<Hard, Dead>>,
               <<Easy>>, <<Blind>>}
ThreeOrFour == {3, 4}
=============================================================================
