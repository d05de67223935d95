---------------------------- MODULE MCSolverPool ----------------------------
(* Model-checking instance of SolverPool: the dispatch settings in use.    *)
EXTENDS SolverPool

Setting(conc, slotted, docker, soft, hard) ==
  [conc |-> conc, slotted |-> slotted, docker |-> docker, soft |-> soft, hard |-> hard]

(* Sequential in docker, with the longest watch; a pool of two threads,    *)
(* native; two slots in docker.                                            *)
AllPlans == {Setting(1, FALSE, TRUE, 0, 3), Setting(2, FALSE, FALSE, 0, 2),
             Setting(2, TRUE, TRUE, 1, 2)}

AllFaults == {"exception"}
=============================================================================
