------------------------------- MODULE RunLoop -------------------------------
(***************************************************************************)
(* One run folder and the successive optimisation processes that work in   *)
(* it (run_optimization and its entry point): fresh runs, resumes, stop    *)
(* requests, crashes, and the files by which a later process continues     *)
(* what an earlier one began.  RunQueue sees a run from outside; this      *)
(* module is the inside of the process it launches.                        *)
(*                                                                         *)
(* A design is named by the fresh run it descends from (origin), the       *)
(* number of updates made to it since (age) and its volume; what the       *)
(* solver says of it is a choice.  One step is the work between two writes *)
(* to the folder, since a crash is noticed by what the folder holds.       *)
(***************************************************************************)
EXTENDS Integers, Sequences, FiniteSets

CONSTANTS
  MaxLaunches,       \* bound: processes started in the folder
  MaxIters,          \* bound: the iteration limits a config may set
  Volumes,           \* volume fractions, coarse
  Target,            \* target_volume_fraction
  Window,            \* convergence_window
  DivergeFailAfter,  \* run.diverge_fail_after
  Archiving,         \* the settings of archive_iterations in use
  None,
  Faults             \* what may go wrong besides the solves

(* "crash": the process is killed, or the machine stops, at any step;      *)
(* "error": a step raises (a full disk, a failing update);                 *)
(* "interrupt": the process is interrupted from its terminal.              *)
ASSUME LoopAssumption ==
  /\ MaxLaunches \in Nat /\ MaxIters \in Nat
  /\ Volumes \subseteq Nat /\ Target \in Nat
  /\ Window \in Nat \ {0} /\ DivergeFailAfter \in Nat \ {0}
  /\ Archiving \subseteq BOOLEAN /\ None \notin Nat
  /\ Faults \subseteq {"crash", "error", "interrupt"}

VARIABLES
  launches,    \* processes started so far; the latest one's pid
  proc,        \* the live process: program counter and locals
  asked,       \* history variable: Stop was pressed while this process ran
  stop_flag, pidfile, status,        \* stop.flag, run.pid, status.json
  history, checkpoint, archive,      \* history.csv, checkpoint.npz, iter_NNNN/
  solve_dir,   \* the design whose deck and results solve/ holds
  d3plot       \* what the latest process converted, for which row, from where

vars == <<launches, proc, asked, stop_flag, pidfile, status, history,
          checkpoint, archive, solve_dir, d3plot>>

-----------------------------------------------------------------------------
Limits  == 0 .. MaxIters
Designs == [origin : 1 .. MaxLaunches, age : Nat, vf : Volumes]
Rows    == [it : Limits, design : Designs, feasible : BOOLEAN]
States  == {"running", "converged", "stopped", "failed"}
Empty   == <<>>

LoopPcs == {"top", "solving", "solved", "decide", "recover"}
Pcs     == {"none", "begin", "reset", "claim", "setup"} \cup LoopPcs
           \cup {"final", "post", "exit", "stamp"}

Live      == proc.pc # "none"
IsRunning == Live /\ pidfile = launches
FullVolume(v) == \A u \in Volumes : u <= v

Last(s) == s[Len(s)]
NRows   == Len(history)
Row(i)  == history[i]
RowNumbers == 1 .. NRows
(* The row the report and the d3plot conversion headline: the feasible one *)
(* with the highest iteration, the earliest of equals, else the last row.  *)
IsReported(row) ==
  IF \E i \in RowNumbers : Row(i).feasible
    THEN \E i \in RowNumbers :
           /\ row = Row(i) /\ row.feasible
           /\ \A j \in RowNumbers : Row(j).feasible =>
                Row(j).it < row.it \/ (Row(j).it = row.it /\ i <= j)
    ELSE row = Row(NRows)

(* _converged: feasible, a full window, at the target, and steady.         *)
Converged ==
  LET vfs == proc.vfs IN
  /\ proc.feasible
  /\ Len(vfs) >= Window
  /\ Last(vfs) <= Target
  /\ \A i \in (Len(vfs) - Window + 1) .. Len(vfs) : vfs[i] = Last(vfs)

(* The volumes this process has gone through, with the present one.        *)
Noted == Append(proc.vfs, proc.design.vf)

-----------------------------------------------------------------------------
(* Fault variants: what a plausible slip would make of an action below.    *)

KeepsStaleHistory ==                  \* a fresh run does not clear history
  /\ proc.pc = "reset"
  /\ proc' = [proc EXCEPT !.pc = "claim"]
  /\ UNCHANGED <<launches, asked, stop_flag, pidfile, status, history,
                 checkpoint, archive, solve_dir, d3plot>>

SetupDropsFlag(d) ==                  \* the stale flag is dropped too late
  /\ proc.pc = "setup"
  /\ stop_flag' = FALSE
  /\ status' = "running"
  /\ proc' = IF proc.resume
       THEN [proc EXCEPT !.pc = "top", !.it = checkpoint.it,
                         !.design = checkpoint.design, !.sens = checkpoint.sens]
       ELSE [proc EXCEPT !.pc = "top", !.design = d]
  /\ FullVolume(d.vf) /\ d.age = 0 /\ d.origin = launches
  /\ UNCHANGED <<launches, asked, pidfile, history, checkpoint, archive,
                 solve_dir, d3plot>>

SetupRestartsCount(d) ==              \* a resume counts from zero again
  /\ proc.pc = "setup"
  /\ d.origin = launches /\ d.age = 0 /\ FullVolume(d.vf)
  /\ status' = "running"
  /\ proc' = IF proc.resume
       THEN [proc EXCEPT !.pc = "top", !.design = checkpoint.design,
                         !.sens = checkpoint.sens]
       ELSE [proc EXCEPT !.pc = "top", !.design = d]
  /\ UNCHANGED <<launches, asked, stop_flag, pidfile, history, checkpoint,
                 archive, solve_dir, d3plot>>

UpdateKeepsOldMask(v) ==              \* the checkpoint holds the old mask
  /\ proc.pc = "decide" /\ ~Converged
  /\ proc' = [proc EXCEPT !.pc = "top", !.it = @ + 1, !.sens = TRUE,
                          !.design.age = @ + 1, !.design.vf = v]
  /\ checkpoint' = [it |-> proc.it + 1, design |-> proc.design, sens |-> TRUE]
  /\ UNCHANGED <<launches, asked, stop_flag, pidfile, status, history,
                 archive, solve_dir, d3plot>>

UpdateSkipsAhead(v) ==                \* the checkpoint is one ahead
  /\ proc.pc = "decide" /\ ~Converged
  /\ proc' = [proc EXCEPT !.pc = "top", !.it = @ + 1, !.sens = TRUE,
                          !.design.age = @ + 1, !.design.vf = v]
  /\ checkpoint' = [it |-> proc.it + 2, design |-> proc'.design, sens |-> TRUE]
  /\ UNCHANGED <<launches, asked, stop_flag, pidfile, status, history,
                 archive, solve_dir, d3plot>>

DivergesOnceTooOften ==               \* off by one in the watchdog's limit
  /\ proc.pc = "solving"
  /\ proc.diverged < DivergeFailAfter
  /\ history' = Append(history, [it |-> proc.it, design |-> proc.design,
                                 feasible |-> FALSE])
  /\ proc' = [proc EXCEPT !.pc = "recover", !.feasible = FALSE, !.diverged = @ + 1,
                          !.vfs = Noted]
  /\ UNCHANGED <<launches, asked, stop_flag, pidfile, status, checkpoint,
                 archive, solve_dir, d3plot>>

LimitReachedExactly ==                \* an iteration beyond the limit
  /\ proc.pc = "top" /\ proc.it = proc.limit
  /\ proc' = [proc EXCEPT !.pc = "final", !.state = "converged"]
  /\ UNCHANGED <<launches, asked, stop_flag, pidfile, status, history,
                 checkpoint, archive, solve_dir, d3plot>>

FinalKeepsRunning ==                  \* no "running" -> "stopped"
  /\ proc.pc = "final"
  /\ status' = proc.state
  /\ proc' = [proc EXCEPT !.pc = "post"]
  /\ UNCHANGED <<launches, asked, stop_flag, pidfile, history, checkpoint,
                 archive, solve_dir, d3plot>>

-----------------------------------------------------------------------------
NoProcess ==
  [pc |-> "none", resume |-> FALSE, limit |-> 0, keep |-> FALSE, it |-> 0,
   design |-> None, sens |-> FALSE, feasible |-> FALSE, vfs |-> Empty,
   diverged |-> 0, state |-> "running", raised |-> FALSE]

Init ==
  /\ launches = 0
  /\ proc = NoProcess
  /\ asked = FALSE
  /\ stop_flag = FALSE /\ pidfile = None /\ status = None
  /\ history = Empty /\ checkpoint = None
  /\ archive = [i \in Limits |-> None]
  /\ solve_dir = None /\ d3plot = None

-----------------------------------------------------------------------------
(* Start-up, in the order of the code.                                     *)

(* `python -m oropt.run [--resume]` with a config that sets an iteration   *)
(* limit and whether every iteration is archived.                          *)
Launch(resume, limit, keep) ==
  /\ ~Live /\ launches < MaxLaunches
  /\ launches' = launches + 1
  /\ asked' = FALSE
  /\ proc' = [NoProcess EXCEPT !.pc = "begin", !.resume = resume,
                               !.limit = limit, !.keep = keep]
  /\ d3plot' = None
  /\ UNCHANGED <<stop_flag, pidfile, status, history, checkpoint, archive,
                 solve_dir>>

(* A resume without a checkpoint is downgraded to a fresh run; a stop      *)
(* request meant for an earlier process is dropped.                        *)
Begin ==
  LET resume == proc.resume /\ checkpoint # None IN
  /\ proc.pc = "begin"
  /\ stop_flag' = FALSE
  /\ proc' = [proc EXCEPT !.resume = resume,
                          !.pc = IF resume THEN "claim" ELSE "reset"]
  /\ UNCHANGED <<launches, asked, pidfile, status, history, checkpoint,
                 archive, solve_dir, d3plot>>

(* _reset_stale_outputs: the history goes, archives and checkpoint stay.   *)
ResetStaleOutputs ==
  /\ proc.pc = "reset"
  /\ history' = Empty
  /\ proc' = [proc EXCEPT !.pc = "claim"]
  /\ UNCHANGED <<launches, asked, stop_flag, pidfile, status, checkpoint,
                 archive, solve_dir, d3plot>>

Claim ==
  /\ proc.pc = "claim"
  /\ pidfile' = launches
  /\ proc' = [proc EXCEPT !.pc = "setup"]
  /\ UNCHANGED <<launches, asked, stop_flag, status, history, checkpoint,
                 archive, solve_dir, d3plot>>

(* main()'s handler: a failed status, and the claim is given up.           *)
MarkFailed ==
  /\ status' = "failed"
  /\ pidfile' = None
  /\ proc' = NoProcess
  /\ UNCHANGED <<launches, asked, stop_flag, history, checkpoint, archive,
                 solve_dir, d3plot>>

(* A missing deck, a mistyped group id, a checkpoint of another mesh.      *)
SetupFails == proc.pc = "setup" /\ MarkFailed

(* d is the initial design, everything alive.                              *)
Setup(d) ==
  /\ proc.pc = "setup"
  /\ d.origin = launches /\ d.age = 0 /\ FullVolume(d.vf)
  /\ status' = "running"
  /\ proc' = IF proc.resume
       THEN [proc EXCEPT !.pc = "top", !.it = checkpoint.it,
                         !.design = checkpoint.design, !.sens = checkpoint.sens]
       ELSE [proc EXCEPT !.pc = "top", !.design = d]
  /\ UNCHANGED <<launches, asked, stop_flag, pidfile, history, checkpoint,
                 archive, solve_dir, d3plot>>

-----------------------------------------------------------------------------
(* The iterations.                                                         *)

Leave(s) ==
  /\ proc' = [proc EXCEPT !.pc = "final", !.state = s]
  /\ UNCHANGED <<launches, asked, stop_flag, pidfile, status, history,
                 checkpoint, archive, solve_dir, d3plot>>

LimitReached == proc.pc = "top" /\ proc.it >= proc.limit /\ Leave("converged")
HeedStop     == proc.pc = "top" /\ proc.it < proc.limit /\ stop_flag /\ Leave("stopped")
OutOfBudget  == proc.pc = "top" /\ proc.it < proc.limit /\ ~stop_flag /\ Leave("stopped")

(* The solve directory is wiped and this design's deck is written.         *)
BeginSolve ==
  /\ proc.pc = "top" /\ proc.it < proc.limit /\ ~stop_flag
  /\ solve_dir' = proc.design
  /\ proc' = [proc EXCEPT !.pc = "solving"]
  /\ UNCHANGED <<launches, asked, stop_flag, pidfile, status, history,
                 checkpoint, archive, d3plot>>

(* A solver error, a null solve, or too many divergences in a row.         *)
SolveFails == proc.pc = "solving" /\ Leave("failed")

Record(feasible) ==
  history' = Append(history, [it |-> proc.it, design |-> proc.design,
                              feasible |-> feasible])

(* The watchdog killed a diverging solve: infeasible, carry on.            *)
SolveDiverges ==
  /\ proc.pc = "solving"
  /\ proc.diverged + 1 < DivergeFailAfter
  /\ Record(FALSE)
  /\ proc' = [proc EXCEPT !.pc = "recover", !.feasible = FALSE, !.diverged = @ + 1,
                          !.vfs = Noted]
  /\ UNCHANGED <<launches, asked, stop_flag, pidfile, status, checkpoint,
                 archive, solve_dir, d3plot>>

DivergesTooOften ==
  proc.pc = "solving" /\ proc.diverged + 1 >= DivergeFailAfter /\ Leave("failed")

SolveSucceeds(feasible) ==
  /\ proc.pc = "solving"
  /\ Record(feasible)
  /\ proc' = [proc EXCEPT !.pc = "solved", !.feasible = feasible, !.diverged = 0,
                          !.vfs = Noted]
  /\ UNCHANGED <<launches, asked, stop_flag, pidfile, status, checkpoint,
                 archive, solve_dir, d3plot>>

ArchiveIteration ==
  /\ proc.pc = "solved"
  /\ archive' = IF proc.keep THEN [archive EXCEPT ![proc.it] = solve_dir] ELSE archive
  /\ proc' = [proc EXCEPT !.pc = "decide"]
  /\ UNCHANGED <<launches, asked, stop_flag, pidfile, status, history,
                 checkpoint, solve_dir, d3plot>>

(* Converged: the checkpoint holds the design just solved.                 *)
Converge ==
  /\ proc.pc = "decide" /\ Converged
  /\ status' = "converged"
  /\ checkpoint' = [it |-> proc.it + 1, design |-> proc.design, sens |-> TRUE]
  /\ proc' = [proc EXCEPT !.pc = "final", !.state = "converged", !.sens = TRUE]
  /\ UNCHANGED <<launches, asked, stop_flag, pidfile, history, archive,
                 solve_dir, d3plot>>

(* The next design, of volume v, and the checkpoint that holds it.         *)
Advance(design, sens) ==
  /\ proc' = [proc EXCEPT !.pc = "top", !.it = @ + 1, !.design = design, !.sens = sens]
  /\ checkpoint' = [it |-> proc.it + 1, design |-> design, sens |-> sens]
  /\ UNCHANGED <<launches, asked, stop_flag, pidfile, status, history,
                 archive, solve_dir, d3plot>>

Updated(v) == [origin |-> proc.design.origin, age |-> proc.design.age + 1, vf |-> v]

UpdateDesign(v) == proc.pc = "decide" /\ ~Converged /\ Advance(Updated(v), TRUE)

(* After a divergence the last sensitivity re-grows material; without one  *)
(* the design stays.                                                       *)
Recover(v) ==
  /\ proc.pc = "recover"
  /\ IF proc.sens THEN Advance(Updated(v), TRUE) ELSE Advance(proc.design, FALSE)

(* An exception inside the loop runs the finally block first.  main()      *)
(* handles an error, and does not see a KeyboardInterrupt.                 *)
LoopRaises(kind) ==
  /\ kind \in Faults
  /\ proc.pc \in LoopPcs
  /\ proc' = [proc EXCEPT !.pc = "final", !.raised = (kind = "error")]
  /\ UNCHANGED <<launches, asked, stop_flag, pidfile, status, history,
                 checkpoint, archive, solve_dir, d3plot>>

-----------------------------------------------------------------------------
(* The finally block and the exit.                                         *)

PublishFinal ==
  /\ proc.pc = "final"
  /\ status' = IF proc.state = "running" THEN "stopped" ELSE proc.state
  /\ proc' = [proc EXCEPT !.pc = "post"]
  /\ UNCHANGED <<launches, asked, stop_flag, pidfile, history, checkpoint,
                 archive, solve_dir, d3plot>>

(* The reported iteration's archived animation, else what solve/ holds.    *)
Conversion(row) ==
  IF archive[row.it] # None
    THEN [row |-> row, shown |-> archive[row.it], archived |-> TRUE]
    ELSE [row |-> row, shown |-> solve_dir, archived |-> FALSE]

ConvertFinal ==
  /\ proc.pc = "post"
  /\ d3plot' \in
       IF NRows = 0
         THEN {[row |-> None, shown |-> solve_dir, archived |-> FALSE]}
         ELSE {Conversion(Row(i)) : i \in {j \in RowNumbers : IsReported(Row(j))}}
  /\ proc' = [proc EXCEPT !.pc = "exit"]
  /\ UNCHANGED <<launches, asked, stop_flag, pidfile, status, history,
                 checkpoint, archive, solve_dir>>

(* The finally block ends by giving the folder up: after an error main()   *)
(* has still to stamp its failed status on it.                             *)
Exit ==
  /\ proc.pc = "exit" /\ ~proc.raised
  /\ pidfile' = None
  /\ proc' = NoProcess
  /\ UNCHANGED <<launches, asked, stop_flag, status, history, checkpoint,
                 archive, solve_dir, d3plot>>

LetGo ==
  /\ proc.pc = "exit" /\ proc.raised
  /\ pidfile' = None
  /\ proc' = [proc EXCEPT !.pc = "stamp"]
  /\ UNCHANGED <<launches, asked, stop_flag, status, history, checkpoint,
                 archive, solve_dir, d3plot>>

Abort == proc.pc = "stamp" /\ MarkFailed

-----------------------------------------------------------------------------
(* Stop acts on the folder whose run one rendering of the page saw live;   *)
(* the press may come when that run is over or a new one is starting.      *)
RequestStop ==
  /\ ~stop_flag /\ launches > 0
  /\ stop_flag' = TRUE
  /\ asked' = IsRunning
  /\ UNCHANGED <<launches, proc, pidfile, status, history, checkpoint, archive,
                 solve_dir, d3plot>>

Crash ==
  /\ "crash" \in Faults
  /\ Live
  /\ proc' = NoProcess
  /\ UNCHANGED <<launches, asked, stop_flag, pidfile, status, history,
                 checkpoint, archive, solve_dir, d3plot>>

Iterate ==
  \/ LimitReached \/ HeedStop \/ OutOfBudget \/ BeginSolve
  \/ SolveFails \/ SolveDiverges \/ DivergesTooOften
  \/ \E f \in BOOLEAN : SolveSucceeds(f)
  \/ ArchiveIteration \/ Converge
  \/ \E v \in Volumes : UpdateDesign(v) \/ Recover(v)

Finish == PublishFinal \/ ConvertFinal \/ Exit \/ LetGo \/ Abort

Start ==
  \/ Begin \/ ResetStaleOutputs \/ Claim \/ SetupFails
  \/ \E v \in Volumes : Setup([origin |-> launches, age |-> 0, vf |-> v])

Raise == \E kind \in {"error", "interrupt"} : LoopRaises(kind)

ProcessStep == Start \/ Iterate \/ Raise \/ Finish

Next ==
  \/ \E resume \in BOOLEAN, limit \in Limits, keep \in Archiving : Launch(resume, limit, keep)
  \/ ProcessStep \/ RequestStop \/ Crash

Spec == Init /\ [][Next]_vars

(* A solve has a hard timeout, and every other step is the process's own;  *)
(* no exception is counted on to end a run.                                *)
FairSpec == Spec /\ WF_vars(Start \/ Iterate \/ Finish)

-----------------------------------------------------------------------------
VolumeLists == Seq(Volumes)
Histories   == Seq(Rows)
Processes ==
  [pc : Pcs, resume : BOOLEAN, limit : Limits, keep : BOOLEAN, it : Limits,
   design : Designs \cup {None}, sens : BOOLEAN, feasible : BOOLEAN,
   vfs : VolumeLists, diverged : 0 .. (DivergeFailAfter - 1), state : States,
   raised : BOOLEAN]
Checkpoints == [it : Limits, design : Designs, sens : BOOLEAN]

ProcessOK ==
  /\ launches \in 0 .. MaxLaunches
  /\ proc \in Processes
  /\ Live => launches > 0
  /\ proc.pc \in LoopPcs => proc.design \in Designs
  /\ asked \in BOOLEAN
FolderOK ==
  /\ stop_flag \in BOOLEAN
  /\ pidfile \in (1 .. MaxLaunches) \cup {None}
  /\ status \in States \cup {None}
  /\ history \in Histories
  /\ checkpoint \in Checkpoints \cup {None}
  /\ solve_dir \in Designs \cup {None}
ArchiveOK ==
  /\ archive \in [Limits -> Designs \cup {None}]
  /\ d3plot = None \/ (/\ d3plot.row \in Rows \cup {None}
                      /\ d3plot.shown \in Designs \cup {None})
TypeOK == ProcessOK /\ FolderOK /\ ArchiveOK

OwnRow(i, d) == Row(i).design.origin = d.origin

(* An iteration that is solved again, after a crash between its history    *)
(* row and its checkpoint, solves the very same design: no resume perturbs *)
(* the run it continues (save_checkpoint's contract).                      *)
ResumesAgree ==
  \A i, j \in RowNumbers :
    Row(i).it = Row(j).it /\ Row(i).design.origin = Row(j).design.origin
      => Row(i).design = Row(j).design

(* The checkpoint of the run the history belongs to never runs ahead of    *)
(* that history: every iteration a resume will not solve again has a row.  *)
CheckpointIsCovered ==
  checkpoint # None /\ NRows > 0 /\ Row(1).design.origin = checkpoint.design.origin
    /\ Row(1).it = 0
    => \A n \in 0 .. (checkpoint.it - 1) : \E i \in RowNumbers : Row(i).it = n

(* Among the rows of one run, in the order they were written, an iteration *)
(* number repeats or goes up by one; it never skips and never falls back.  *)
HistoryHasNoGaps ==
  \A i \in RowNumbers \ {1} :
    Row(i).design.origin = Row(i - 1).design.origin
      => Row(i).it \in {Row(i - 1).it, Row(i - 1).it + 1}

(* A fresh run reports only its own iterations (_reset_stale_outputs).     *)
FreshHistoryIsOwn ==
  proc.pc \in LoopPcs /\ ~proc.resume =>
    \A i \in RowNumbers : Row(i).design.origin = launches

(* A stop pressed while the run is live is not lost to its start-up, and   *)
(* no solve begins after it.                                               *)
StopIsHeeded ==
  [][asked /\ Live =>
       /\ stop_flag'
       /\ proc'.pc = "solving" => proc.pc = "solving"]_vars

(* A process that ends by itself or is interrupted in its loop leaves a    *)
(* terminal status, "failed" if it raised, and gives its claim of the      *)
(* folder up: the two things the queue runner goes by.                     *)
EndsOnRecord ==
  [][(Live /\ proc'.pc = "none" /\ ~Crash)
       => /\ status' \in States \ {"running"}
          /\ proc.raised => status' = "failed"
          /\ pidfile' = None]_vars

(* Every process that is started ends.                                     *)
EveryRunEnds == Live ~> ~Live

(* What makes these inductive.  Where a continuation of design d at        *)
(* iteration n would go on from, the rows of d's run end at n or just      *)
(* before it, a row of n describes d, and nothing below n is missing from  *)
(* a history that begins with that run.                                    *)
Continues(n, d) ==
  /\ \A i \in RowNumbers :
       OwnRow(i, d) => Row(i).it <= n /\ (Row(i).it = n => Row(i).design = d)
  /\ NRows > 0 /\ OwnRow(NRows, d) =>
       n \in {Row(NRows).it, Row(NRows).it + 1}
  /\ NRows > 0 /\ OwnRow(1, d) /\ Row(1).it = 0 =>
       \A m \in 0 .. (n - 1) : \E i \in RowNumbers : Row(i).it = m

(* The checkpoint can always be continued, and a live run is such a        *)
(* continuation, of its own checkpoint if there is one; once the present   *)
(* iteration is in the history its row is the last one.                    *)
CheckpointContinues ==
  checkpoint # None => Continues(checkpoint.it, checkpoint.design)
LoopContinues ==
  proc.pc \in LoopPcs =>
    /\ Continues(proc.it, proc.design)
    /\ checkpoint # None /\ checkpoint.design.origin = proc.design.origin =>
         checkpoint.it = proc.it /\ checkpoint.design = proc.design
    /\ proc.pc \in {"solving", "solved", "decide", "recover"} => proc.it < proc.limit
    /\ proc.pc \in {"solved", "decide", "recover"} =>
         /\ NRows > 0
         /\ Row(NRows).it = proc.it /\ Row(NRows).design = proc.design

(* Runs are named by the launch that began them, and a fresh run is new to *)
(* the folder until it has set up.                                         *)
OriginsAreLaunched ==
  /\ \A i \in RowNumbers : Row(i).design.origin <= launches
  /\ checkpoint # None => checkpoint.design.origin <= launches
  /\ proc.pc \in LoopPcs => proc.design.origin <= launches
FreshIsNew ==
  /\ proc.pc \in {"begin", "reset", "claim", "setup"} =>
       /\ proc.it = 0
       /\ checkpoint # None => checkpoint.design.origin < launches
       /\ \A i \in RowNumbers : Row(i).design.origin < launches
  /\ proc.pc = "reset" => ~proc.resume
  /\ proc.pc \in {"claim", "setup"} => IF proc.resume THEN checkpoint # None
                                                      ELSE NRows = 0
  /\ proc.pc \in LoopPcs /\ ~proc.resume => proc.design.origin = launches

(* A stop that was asked for is in the folder, and the process that was    *)
(* seen live is past dropping it; a process past its loop has said how it  *)
(* ended.                                                                  *)
StopIsKept ==
  /\ pidfile # None => pidfile <= launches
  /\ pidfile = launches => proc.pc \notin {"begin", "reset", "claim"}
  /\ asked /\ Live => stop_flag /\ proc.pc \notin {"begin", "reset", "claim"}
EndIsPublished == proc.pc \in {"post", "exit"} => status \in States \ {"running"}

LoopInv ==
  /\ TypeOK /\ ResumesAgree /\ HistoryHasNoGaps
  /\ CheckpointContinues /\ LoopContinues
  /\ OriginsAreLaunched /\ FreshIsNew /\ FreshHistoryIsOwn
  /\ StopIsKept /\ EndIsPublished

(* One run per history: the selection of the last feasible design can      *)
(* never "pick the OLD run's design".                                      *)
HistoryIsOneRun ==
  \A i, j \in RowNumbers : Row(i).design.origin = Row(j).design.origin
=============================================================================
