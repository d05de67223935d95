------------------------------ MODULE MultiLoad ------------------------------
(***************************************************************************)
(* The numbers a run carries from iteration to iteration: the blended      *)
(* sensitivity, the multipoint controller's points, the adaptive weights   *)
(* and the stall counter.  Each is stepped at a place of its own in the    *)
(* iteration; a diverged solve, convergence, a crash and a resume with     *)
(* other load cases each leave some of them out.  What a solve gives, and  *)
(* the volume an update makes of its target, are choices.                  *)
(***************************************************************************)
EXTENDS LoadCases

CONSTANTS
  Plans,         \* configurations a run folder is started or resumed with
  Solves,        \* results a solve may give, as many as a plan has cases
  NextVolumes,   \* volumes an update may make
  MaxIterations  \* bound: absolute iterations

ASSUME MultiLoadAssumption ==
  /\ NextVolumes \subseteq 0..V0 /\ MaxIterations \in Nat
  /\ None \notin Int /\ NaN \notin Int
  /\ \A p \in Plans :
       /\ Len(p.cases) \in Nat \ {0} /\ DOMAIN p.cases = 1..Len(p.cases)
       /\ p.bound \in Nat \ {0} /\ p.push \in Nat
       /\ \A i \in DOMAIN p.cases :
            LET case == p.cases[i]
            IN  /\ case.weight \in Nat
                /\ case.sigma # None => case.sigma \in Nat \ {0}
                /\ DOMAIN case.disps = 1..Len(case.disps) /\ Len(case.disps) \in Nat
                /\ \A k \in DOMAIN case.disps :
                     case.disps[k].limit # None => case.disps[k].limit \in Nat \ {0}
  /\ \A results \in Solves :
       /\ DOMAIN results = 1..Len(results)
       /\ \A i \in DOMAIN results :
            /\ results[i].sigma \in Nat
            /\ \A n \in DOMAIN results[i].disps : results[i].disps[n] \in Nat

VARIABLES
  plan,   \* the configuration of the present process
  proc,   \* what the process carries
  ckpt,   \* the checkpoint, None before the first
  log     \* ghost: the finished iterations the design descends from

vars == <<plan, proc, ckpt, log>>

NotSeen == [feasible |-> TRUE, v |-> 0, vs |-> <<>>]

(* A mutant: the configured split comes back with every resume.            *)
StartedAnew(p, saved) ==
  [phase |-> "solving", it |-> saved.it, vol |-> saved.vol, sens |-> saved.sens,
   points  |-> IF p.mode = "multipoint" THEN saved.points ELSE <<>>,
   weights |-> FirstWeights(p),
   field |-> None, vfs |-> <<>>, pair |-> None, stall |-> 0, seen |-> NotSeen]

(* A process at its first iteration.                                       *)
Started(p, saved) ==
  [phase |-> "solving", it |-> saved.it, vol |-> saved.vol, sens |-> saved.sens,
   points  |-> IF p.mode = "multipoint" THEN saved.points ELSE <<>>,
   weights |-> RestoredWeights(p, saved.weights),
   field |-> None, vfs |-> <<>>, pair |-> None, stall |-> 0, seen |-> NotSeen]
Nothing == [it |-> 0, vol |-> V0, sens |-> None, points |-> <<>>, weights |-> None]

Init ==
  /\ plan \in Plans
  /\ proc = Started(plan, Nothing)
  /\ ckpt = None
  /\ log = <<>>

Solving == proc.phase = "solving" /\ proc.it < MaxIterations

Saved(after, sens) ==
  [it |-> after.it + 1, vol |-> after.vol, sens |-> sens, points |-> after.points,
   weights |-> after.weights]

Entry(kind, results) ==
  [plan |-> plan, kind |-> kind, vol |-> proc.vol, target |-> 0,
   seen |-> IF kind = "diverged" THEN NotSeen
            ELSE [feasible |-> AllFeasible(plan.cases, results),
                  v  |-> WorstViolation(plan.cases, results),
                  vs |-> [i \in DOMAIN results |-> CaseViolation(plan.cases[i], results[i])]],
   raws |-> IF kind = "diverged" THEN <<>> ELSE [i \in DOMAIN results |-> results[i].raw]]
Tagged(kind, target) ==
  [log EXCEPT ![Len(log)] = [@ EXCEPT !.kind = kind, !.target = target]]

(* A solved iteration up to the test of convergence: the cases are         *)
(* combined with the weights before these are stepped.                     *)
Measure(results) ==
  LET entry   == Entry("measured", results)
      weights == IF proc.weights = None THEN Base(plan) ELSE proc.weights
  IN  /\ Solving /\ Len(results) = Len(plan.cases)
      /\ ~\E i \in DOMAIN results : IsNullSolve(results[i])
      /\ log' = Append(log, entry)
      /\ proc' = [proc EXCEPT
           !.phase = "measured", !.seen = entry.seen,
           !.weights = IF @ = None THEN None ELSE Balanced(plan, @, entry.seen.vs),
           !.vfs = Append(@, proc.vol),
           !.stall = GrowStall(@, proc.pair, proc.vol),
           !.field = BlendHistory(plan.share, Combined(entry.raws, weights), proc.sens)]
      /\ UNCHANGED <<plan, ckpt>>

(* A model that carried no load ends the run.                              *)
NullSolve(results) ==
  /\ Solving /\ Len(results) = Len(plan.cases)
  /\ \E i \in DOMAIN results : IsNullSolve(results[i])
  /\ proc' = [proc EXCEPT !.phase = "ended"]
  /\ UNCHANGED <<plan, ckpt, log>>

(* Feasible, a full window of volumes, at the goal and steady.             *)
Converged ==
  LET n == Len(proc.vfs)
  IN  /\ proc.seen.feasible /\ n >= plan.steady
      /\ proc.vol * Scale <= Goal(plan)
      /\ \A i \in n - plan.steady + 1..n : proc.vfs[i] = proc.vol

Converge ==
  /\ proc.phase = "measured" /\ Converged
  /\ ckpt' = Saved(proc, proc.field)
  /\ log' = Tagged("converged", 0)
  /\ proc' = [proc EXCEPT !.phase = "ended"]
  /\ UNCHANGED plan

(* A point is recorded when there is a controller and a ratio to record.   *)
WithPoint(points, V, v) ==
  IF plan.mode = "multipoint" /\ v \notin {NaN, Inf} THEN Append(points, <<V, v>>) ELSE points

(* Python's clamp of a NaN to [floor, cap] is the floor, as that of a ratio *)
(* below the limit is.                                                     *)
Understood(v) == IF v = NaN THEN 0 ELSE v

(* The target, the update and the checkpoint of the next design.           *)
Advance(vol) ==
  LET v      == proc.seen.v
      points == WithPoint(proc.points, proc.vol, v)
      target == NextTarget(plan, points, proc.vol, proc.seen.feasible, Understood(v))
      after  == [proc EXCEPT !.vol = vol, !.points = points]
  IN  /\ proc.phase = "measured" /\ ~Converged
      /\ ckpt' = Saved(after, proc.field)
      /\ log' = Tagged("updated", target)
      /\ proc' = [after EXCEPT !.phase = "solving", !.it = @ + 1, !.sens = proc.field,
                               !.field = None, !.pair = [vol |-> proc.vol, target |-> target]]
      /\ UNCHANGED plan

(* A solve that does not converge is infeasible, not measured: only the    *)
(* design may change.                                                      *)
Diverge(vol) ==
  /\ Solving
  /\ proc.sens = None => vol = proc.vol
  /\ LET after == [proc EXCEPT !.vol = vol]
     IN  /\ ckpt' = Saved(after, proc.sens)
         /\ proc' = [after EXCEPT !.it = @ + 1, !.pair = None, !.vfs = Append(@, proc.vol)]
  /\ log' = Append(log, Entry("diverged", <<>>))
  /\ UNCHANGED plan

Ends ==
  /\ proc.phase # "ended"
  /\ proc' = [proc EXCEPT !.phase = "ended"]
  /\ UNCHANGED <<plan, ckpt, log>>

(* The next process continues from the checkpoint; what was measured after *)
(* it is measured again.                                                   *)
Resume(p) ==
  /\ proc.phase = "ended"
  /\ plan' = p
  /\ LET saved == IF ckpt = None THEN Nothing ELSE ckpt
     IN  /\ proc' = Started(p, saved)
         /\ log' = SubSeq(log, 1, saved.it)
  /\ UNCHANGED ckpt

Next ==
  \/ \E results \in Solves : Measure(results) \/ NullSolve(results)
  \/ Converge
  \/ \E vol \in NextVolumes : Advance(vol)
  \/ \E vol \in NextVolumes \cup {proc.vol} : Diverge(vol)
  \/ Ends
  \/ \E p \in Plans : Resume(p)

Spec == Init /\ [][Next]_vars

(***************************************************************************)
(* Properties.                                                             *)
(***************************************************************************)
(* The controllers hold what they can compute with: one weight for each    *)
(* case and, once stepped, none starved or run away, and no point without  *)
(* a finite ratio, which would make the fit unusable (controller.py:69).   *)
(* A feasible design has a ratio of at most 1 (loop.py:737); the converse  *)
(* fails when a value is missing.                                          *)
TypeOK ==
  /\ plan \in Plans /\ proc.phase \in {"solving", "measured", "ended"}
  /\ proc.it \in 0..MaxIterations /\ proc.vol \in 0..V0
  /\ proc.weights = None <=> ~Adapts(plan)
  /\ proc.weights # None => DOMAIN proc.weights = DOMAIN plan.cases
  /\ \A i \in DOMAIN proc.points : proc.points[i][2] \notin {None, NaN, Inf}
  /\ proc.phase = "measured" /\ proc.seen.feasible =>
       proc.seen.v # NaN /\ proc.seen.v <= Percent
  /\ proc.phase = "measured" /\ Adapts(plan)
       /\ Cardinality({i \in DOMAIN proc.seen.vs : Signal(proc.seen.vs[i])}) >= 2
     => \A i \in DOMAIN plan.cases :
          proc.weights[i] \in Base(plan)[i] \div plan.bound..Base(plan)[i] * plan.bound

(* The record played again: what each finished iteration adds to what was   *)
(* carried before it, under the configuration it ran with.                 *)
Fresh == [weights |-> None, sens |-> None, points |-> <<>>]

PlayedOn(entry, was) ==
  LET p       == entry.plan
      solved  == entry.kind # "diverged"
      weights == RestoredWeights(p, was.weights)
  IN  [weights |-> IF weights # None /\ solved THEN Balanced(p, weights, entry.seen.vs)
                   ELSE weights,
       sens    |-> IF solved
                   THEN BlendHistory(p.share,
                          Combined(entry.raws, IF weights = None THEN Base(p) ELSE weights),
                          was.sens)
                   ELSE was.sens,
       points  |-> IF p.mode # "multipoint" THEN <<>>
                   ELSE IF entry.kind = "updated" /\ entry.seen.v \notin {NaN, Inf}
                   THEN Append(was.points, <<entry.vol, entry.seen.v>>)
                   ELSE was.points]

Replay(record) ==
  LET r[i \in 0..Len(record)] ==
        IF i = 0 THEN Fresh ELSE PlayedOn(record[i], r[i - 1])
  IN  r

(* Iteration i lost volume although the update before it, in this process  *)
(* and not a recovery, was asked for growth.                               *)
Outrun(i) ==
  /\ i > Len(log) - Len(proc.vfs) + 1 /\ log[i].kind # "diverged"
  /\ log[i - 1].kind = "updated" /\ log[i - 1].target > log[i - 1].vol * Scale
  /\ log[i].vol < log[i - 1].vol

(* Every finished iteration counts once and in its order, whatever crashed,*)
(* diverged, converged or was resumed with other cases in between: what    *)
(* the checkpoint holds, and what a process goes on with, is what playing  *)
(* the record again gives; and the stall counter counts the last unbroken  *)
(* iterations that were outrun (loop.py:111, controller.py:220).           *)
CarriedIsEarned ==
  LET n == Len(log)
  IN  /\ ckpt # None =>
           LET r == Replay(log)[ckpt.it]
           IN  ckpt.weights = r.weights /\ ckpt.sens = r.sens /\ ckpt.points = r.points
      /\ proc.phase = "measured" =>
           /\ proc.weights = Replay(log)[n].weights
           /\ proc.field = Replay(log)[n].sens
           /\ proc.stall = Max({k \in 0..Len(proc.vfs) :
                                  \A i \in n - k + 1..n : Outrun(i)})
=============================================================================
