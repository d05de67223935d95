------------------------------ MODULE RunQueue ------------------------------
(***************************************************************************)
(* The run queue of the oropt dashboard: the queue file that the GUI and   *)
(* the detached runner both rewrite under one lock, the runner processes,  *)
(* the optimisation runs they (or the GUI's Resume button) launch, and the *)
(* pid and status files through which these processes see one another.     *)
(*                                                                         *)
(* Every read-modify-write of the queue file (queue_store.mutate) is one   *)
(* action: the file lock serialises it, the kernel frees the lock when its *)
(* holder dies, and the file is replaced atomically.  Everything done      *)
(* outside the lock (the busy check, the launch, the wait, reading the     *)
(* status) is a step of its own.                                           *)
(***************************************************************************)
EXTENDS Integers, FiniteSets

CONSTANTS
  Ids,          \* queue entries that can ever be enqueued (uuid of an entry)
  Bases,        \* run folders the configs resolve to
  MaxVariants,  \* bound: suffixes _2, _3, ... a folder name can be given
  Runners,      \* runner processes that can ever be spawned (their pids)
  Runs,         \* optimisation processes that can ever be spawned (pids)
  Sessions,     \* browser sessions of the dashboard
  None,         \* no pid, no entry
  Faults        \* what besides the plain use of the queue may happen

(* "runner death": a runner process may be killed or fail at any step;     *)
(* "resume": the GUI's Resume button launches runs beside the queue;       *)
(* "force kill": the GUI's Force kill button is used;                      *)
(* "config loss": config snapshots are deleted from the case directory.    *)
ASSUME ConstantsAssumption ==
  /\ MaxVariants \in Nat
  /\ IsFiniteSet(Ids)
  /\ None \notin Ids \cup Runners \cup Runs
  /\ Faults \subseteq {"runner death", "resume", "force kill", "config loss"}

VARIABLES
  state, folder, rank, \* QueueEntry.state, .work_dir and its place in the list
  paused, runner_pid,  \* the two flags of the queue file
  configs,             \* entries whose frozen config snapshot still exists
  runner,              \* runner processes: program counter and locals
  run,                 \* optimisation processes: program counter and arguments
  pidfile, status,     \* run.pid and status.json of each run folder
  checkpoint,          \* run folders that hold a checkpoint.npz
  session              \* what each browser session is in the middle of

file  == <<state, folder, rank, paused, runner_pid>>
disk  == <<pidfile, status, checkpoint>>
vars  == <<file, configs, runner, run, disk, session>>

-----------------------------------------------------------------------------
(* A run folder is a base name and the number of its suffix: <<b, 1>> is   *)
(* the folder the config names, <<b, 2>> the same with _2 appended.        *)
Folders == Bases \X (1 .. MaxVariants)
Base(b) == <<b, 1>>

Active   == {"pending", "running"}
Finished == {"done", "failed", "skipped"}
Queued   == Active \cup Finished
EntryStates == Queued \cup {"new", "removed"}

(* Of a status file the queue tells apart: "failed", the other terminal    *)
(* states ("ended": converged or stopped), and no terminal state ("none":  *)
(* no file, or "running").                                                 *)
RunStates  == {"none", "ended", "failed"}

(* What a process last wrote there itself: "none" before it wrote anything.*)
Written    == RunStates \cup {"running"}

LivePcs    == {"boot", "setup", "loop", "post", "abort", "stamp"}
RunPcs     == LivePcs \cup {"unborn", "exited", "killed"}
OwnerPcs   == {"reconcile", "next", "busy", "spawn", "wait", "mark", "release"}
HoldingPcs == {"busy", "spawn", "wait", "mark"}   \* an entry is in hand
RunnerPcs  == OwnerPcs \cup {"unborn", "boot", "exited", "dead"}

Live(p)        == run[p].pc \in LivePcs
RunnerAlive(r) == runner[r].pc \in OwnerPcs \cup {"boot"}
InQueue(e)     == state[e] \in Queued

(* pid_alive(read_pid(work)): the only way one process sees another's run. *)
IsRunning(d) == pidfile[d] # None /\ Live(pidfile[d])

(* Some runner process the queue file names is alive (the GUI's            *)
(* runner_alive, and the test a starting runner makes).                    *)
QueueOwned == runner_pid # None /\ RunnerAlive(runner_pid)

(* e is the first entry, in queue order, that still waits to run.          *)
IsNextPending(e) ==
  /\ state[e] = "pending"
  /\ \A x \in Ids : state[x] = "pending" => rank[e] <= rank[x]

(* The exit code of a dead process: zero after a loop that ended without   *)
(* failing, nonzero if it failed, raised, was rejected or was killed.      *)
ExitedWithZero(p) == run[p].pc = "exited" /\ run[p].wrote = "ended"

(* What the runner makes of a run that is over: the status file of its     *)
(* folder first, whoever wrote it, and the exit code only if that file     *)
(* says nothing terminal.                                                  *)
Classify(d, zero) ==
  IF status[d] = "ended" \/ (status[d] # "failed" /\ zero) THEN "done" ELSE "failed"

(* The locals of a runner that holds no entry.                             *)
NoLocals == [pc |-> "next", entry |-> None, work |-> None, child |-> None,
             verdict |-> None]

-----------------------------------------------------------------------------
(* Fault variants: what a plausible slip would make of an operator defined *)
(* below.  No specification uses them; a property of this module that one  *)
(* of them breaks is a property the code has to work for.                  *)

TakenByPending == {folder[e] : e \in {x \in Ids : state[x] = "pending"}}

ClaimSingletonBlind(r) ==              \* no look at the recorded pid
  /\ runner[r].pc = "boot"
  /\ runner' = [runner EXCEPT ![r].pc = "reconcile"]
  /\ runner_pid' = r
  /\ UNCHANGED <<state, folder, rank, paused, configs, run, disk, session>>

ReconcileRequeues(r) ==                \* puts interrupted entries back
  /\ runner[r].pc = "reconcile"
  /\ state' = [e \in Ids |-> IF state[e] = "running" /\ ~IsRunning(folder[e])
                               THEN "pending" ELSE state[e]]
  /\ runner' = [runner EXCEPT ![r].pc = "next"]
  /\ UNCHANGED <<folder, rank, paused, runner_pid, configs, run, disk, session>>

ReconcileAll(r) ==                     \* no test for the running state
  /\ runner[r].pc = "reconcile"
  /\ state' = [e \in Ids |-> IF state[e] \in Queued \ {"pending"} /\ ~IsRunning(folder[e])
                               THEN "failed" ELSE state[e]]
  /\ runner' = [runner EXCEPT ![r].pc = "next"]
  /\ UNCHANGED <<folder, rank, paused, runner_pid, configs, run, disk, session>>

ClaimWithoutFolder(r, e) ==            \* the claim returns no work dir
  /\ runner[r].pc = "next"
  /\ ~paused
  /\ IsNextPending(e)
  /\ e \in configs
  /\ state' = [state EXCEPT ![e] = "running"]
  /\ runner' = [runner EXCEPT ![r].pc = "busy", ![r].entry = e]
  /\ UNCHANGED <<folder, rank, paused, runner_pid, configs, run, disk, session>>

SkipStops(r, e) ==                     \* a skipped entry ends the drain
  /\ runner[r].pc = "next"
  /\ ~paused
  /\ IsNextPending(e)
  /\ e \notin configs
  /\ state' = [state EXCEPT ![e] = "skipped"]
  /\ runner' = [runner EXCEPT ![r].pc = "release"]
  /\ UNCHANGED <<folder, rank, paused, runner_pid, configs, run, disk, session>>

MarkForgets(r) ==                      \* the outcome is not recorded
  /\ runner[r].pc = "mark"
  /\ runner' = [runner EXCEPT ![r] = NoLocals]
  /\ UNCHANGED <<file, configs, run, disk, session>>

RunRejectedSilently(p) ==              \* exit code 2 without a failed status
  /\ run[p].pc = "boot"
  /\ run' = [run EXCEPT ![p].pc = "exited", ![p].folder = None, ![p].wrote = "failed"]
  /\ UNCHANGED <<file, configs, runner, disk, session>>

-----------------------------------------------------------------------------
(* The folder a new entry gets: the first variant of its config's folder   *)
(* that no other pending or running entry has reserved.                    *)
Taken == {folder[e] : e \in {x \in Ids : state[x] \in Active}}
IsUniqueFolder(b, k) ==
  /\ <<b, k>> \notin Taken
  /\ \A j \in 1 .. MaxVariants : j < k => <<b, j>> \in Taken

Init ==
  /\ state = [e \in Ids |-> "new"]
  /\ folder = [e \in Ids |-> None]
  /\ rank = [e \in Ids |-> 0]
  /\ paused = FALSE
  /\ runner_pid = None
  /\ configs = {}
  /\ runner = [r \in Runners |->
                 [NoLocals EXCEPT !.pc = "unborn"]]
  /\ run = [p \in Runs |->
              [pc |-> "unborn", folder |-> None, entry |-> None,
               wrote |-> "none"]]
  /\ pidfile = [d \in Folders |-> None]
  /\ status = [d \in Folders |-> "none"]
  /\ checkpoint = {}
  /\ session = [s \in Sessions |-> [pc |-> "idle", folder |-> None]]

-----------------------------------------------------------------------------
(* Queue membership, edited from the GUI.                                  *)

(* Add: freeze a config snapshot and append an entry that reserves a run   *)
(* folder of its own.                                                      *)
Add(e, b, k) ==
  /\ state[e] = "new"
  /\ IsUniqueFolder(b, k)
  /\ state' = [state EXCEPT ![e] = "pending"]
  /\ folder' = [folder EXCEPT ![e] = <<b, k>>]
  /\ rank' = [rank EXCEPT ![e] = 1 + Cardinality({x \in Ids : state[x] # "new"})]
  /\ configs' = configs \cup {e}
  /\ UNCHANGED <<paused, runner_pid, runner, run, disk, session>>

(* Remove, Clear finished and Clear all drop entries from the file; Remove *)
(* takes any entry, a running one too.                                     *)
Drop(gone) ==
  /\ gone # {}
  /\ state' = [e \in Ids |-> IF e \in gone THEN "removed" ELSE state[e]]
  /\ folder' = [e \in Ids |-> IF e \in gone THEN None ELSE folder[e]]
  /\ rank' = [e \in Ids |-> IF e \in gone THEN 0 ELSE rank[e]]
  /\ UNCHANGED <<paused, runner_pid, configs, runner, run, disk, session>>

Remove(e)     == InQueue(e) /\ Drop({e})
ClearFinished == Drop({e \in Ids : state[e] \in Finished})
ClearAll      == Drop({e \in Ids : InQueue(e) /\ state[e] # "running"})

(* Move: exchange an entry with its neighbour in the list.                 *)
Move(e, x) ==
  /\ InQueue(e) /\ InQueue(x)
  /\ rank[e] < rank[x]
  /\ \A y \in Ids : InQueue(y) => ~(rank[e] < rank[y] /\ rank[y] < rank[x])
  /\ rank' = [rank EXCEPT ![e] = rank[x], ![x] = rank[e]]
  /\ UNCHANGED <<state, folder, paused, runner_pid, configs, runner, run, disk, session>>

(* A snapshot file is deleted from the case directory by hand.             *)
DeleteConfig(e) ==
  /\ "config loss" \in Faults
  /\ e \in configs
  /\ state[e] \in Active            \* bound: nobody reads the snapshot later
  /\ configs' = configs \ {e}
  /\ UNCHANGED <<file, runner, run, disk, session>>

-----------------------------------------------------------------------------
(* Queue control from the GUI.  A button is offered by what one rendering  *)
(* of the page saw and acts later: seeing and acting are separate steps.   *)

ClickStart(s) ==
  /\ session[s].pc = "idle"
  /\ ~QueueOwned
  /\ \E e \in Ids : state[e] = "pending"
  /\ \E r \in Runners : runner[r].pc = "unborn"       \* bound: processes
  /\ session' = [session EXCEPT ![s].pc = "unpause"]
  /\ UNCHANGED <<file, configs, runner, run, disk>>

Unpause(s) ==
  /\ session[s].pc = "unpause"
  /\ paused' = FALSE
  /\ session' = [session EXCEPT ![s].pc = "spawn"]
  /\ UNCHANGED <<state, folder, rank, runner_pid, configs, runner, run, disk>>

SpawnRunner(s) ==
  /\ session[s].pc = "spawn"
  /\ \E r \in Runners :
       /\ runner[r].pc = "unborn"
       /\ runner' = [runner EXCEPT ![r].pc = "boot"]
  /\ session' = [session EXCEPT ![s].pc = "idle"]
  /\ UNCHANGED <<file, configs, run, disk>>

Pause(s) ==
  /\ session[s].pc = "idle"
  /\ QueueOwned /\ ~paused
  /\ paused' = TRUE
  /\ UNCHANGED <<state, folder, rank, runner_pid, configs, runner, run, disk, session>>

(* find_active_run: the selected config's folder, or that of a running     *)
(* entry, has a live pid.                                                  *)
ActiveRun(d) ==
  \/ IsRunning(d)
  \/ \E e \in Ids : state[e] = "running" /\ IsRunning(folder[e])

ClickResume(s, b) ==
  /\ "resume" \in Faults
  /\ session[s].pc = "idle"
  /\ ~ActiveRun(Base(b))
  /\ Base(b) \in checkpoint
  /\ session' = [session EXCEPT ![s] = [pc |-> "resume", folder |-> Base(b)]]
  /\ UNCHANGED <<file, configs, runner, run, disk>>

(* Popen of `python -m oropt.run`: a new process, told its folder.         *)
Launch(p, d, e) ==
  /\ run[p].pc = "unborn"
  /\ run' = [run EXCEPT ![p].pc = "boot", ![p].folder = d, ![p].entry = e]

LaunchResume(s) ==
  /\ session[s].pc = "resume"
  /\ \E p \in Runs : Launch(p, session[s].folder, None)
  /\ session' = [session EXCEPT ![s] = [pc |-> "idle", folder |-> None]]
  /\ UNCHANGED <<file, configs, runner, disk>>

(* Force kill: SIGTERM to the pid in the folder of whatever run is live.   *)
Kill(d) ==
  /\ "force kill" \in Faults
  /\ IsRunning(d)
  /\ run' = [run EXCEPT ![pidfile[d]].pc = "killed", ![pidfile[d]].folder = None]
  /\ UNCHANGED <<file, configs, runner, disk, session>>

-----------------------------------------------------------------------------
(* The runner process.                                                     *)

ClaimSingleton(r) ==
  /\ runner[r].pc = "boot"
  /\ IF QueueOwned
       THEN /\ runner' = [runner EXCEPT ![r].pc = "exited"]
            /\ UNCHANGED runner_pid
       ELSE /\ runner' = [runner EXCEPT ![r].pc = "reconcile"]
            /\ runner_pid' = r
  /\ UNCHANGED <<state, folder, rank, paused, configs, run, disk, session>>

(* Entries an earlier runner left running: classified if their folder has  *)
(* no live pid, left running otherwise.                                    *)
Reconcile(r) ==
  /\ runner[r].pc = "reconcile"
  /\ state' = [e \in Ids |-> IF state[e] = "running" /\ ~IsRunning(folder[e])
                               THEN Classify(folder[e], FALSE)
                               ELSE state[e]]
  /\ runner' = [runner EXCEPT ![r].pc = "next"]
  /\ UNCHANGED <<folder, rank, paused, runner_pid, configs, run, disk, session>>

(* claim() of _process_next: the head pending entry, under the lock.       *)
Claim(r, e) ==
  /\ runner[r].pc = "next"
  /\ ~paused
  /\ IsNextPending(e)
  /\ e \in configs
  /\ state' = [state EXCEPT ![e] = "running"]
  /\ runner' = [runner EXCEPT ![r].pc = "busy", ![r].entry = e,
                              ![r].work = folder[e]]
  /\ UNCHANGED <<folder, rank, paused, runner_pid, configs, run, disk, session>>

Skip(r, e) ==
  /\ runner[r].pc = "next"
  /\ ~paused
  /\ IsNextPending(e)
  /\ e \notin configs
  /\ state' = [state EXCEPT ![e] = "skipped"]
  /\ UNCHANGED <<folder, rank, paused, runner_pid, configs, runner, run, disk, session>>

Drained(r) ==
  /\ runner[r].pc = "next"
  /\ paused \/ \A e \in Ids : state[e] # "pending"
  /\ runner' = [runner EXCEPT ![r].pc = "release"]
  /\ UNCHANGED <<file, configs, run, disk, session>>

(* The poll of the claimed entry's folder finds it free.                   *)
FindFree(r) ==
  /\ runner[r].pc = "busy"
  /\ ~IsRunning(runner[r].work)
  /\ runner' = [runner EXCEPT ![r].pc = "spawn"]
  /\ UNCHANGED <<file, configs, run, disk, session>>

LaunchEntry(r) ==
  /\ runner[r].pc = "spawn"
  /\ \E p \in Runs :
       /\ Launch(p, runner[r].work, runner[r].entry)
       /\ runner' = [runner EXCEPT ![r].pc = "wait", ![r].child = p]
  /\ UNCHANGED <<file, configs, disk, session>>

(* proc.wait() returns and the run is classified from its folder.          *)
Reap(r) ==
  LET p == runner[r].child IN
  /\ runner[r].pc = "wait"
  /\ ~Live(p)
  /\ runner' = [runner EXCEPT ![r].pc = "mark",
                              ![r].verdict = Classify(runner[r].work, ExitedWithZero(p))]
  /\ UNCHANGED <<file, configs, run, disk, session>>

(* mark(): a no-op if the entry was removed meanwhile.                     *)
Mark(r) ==
  LET e == runner[r].entry IN
  /\ runner[r].pc = "mark"
  /\ state' = [state EXCEPT ![e] = IF InQueue(e) THEN runner[r].verdict ELSE @]
  /\ runner' = [runner EXCEPT ![r] = NoLocals]
  /\ UNCHANGED <<folder, rank, paused, runner_pid, configs, run, disk, session>>

Release(r) ==
  /\ runner[r].pc = "release"
  /\ runner_pid' = IF runner_pid = r THEN None ELSE runner_pid
  /\ runner' = [runner EXCEPT ![r].pc = "exited"]
  /\ UNCHANGED <<state, folder, rank, paused, configs, run, disk, session>>

(* The runner is killed, its machine's memory runs out, or its queue lock  *)
(* times out: the queue file keeps its pid, a run it launched goes on.     *)
RunnerDies(r) ==
  /\ "runner death" \in Faults
  /\ RunnerAlive(r)
  /\ runner' = [runner EXCEPT ![r] = [NoLocals EXCEPT !.pc = "dead"]]
  /\ UNCHANGED <<file, configs, run, disk, session>>

-----------------------------------------------------------------------------
(* The optimisation run, as far as other processes can tell.               *)

(* The config file is gone: an exception before anything is written.       *)
RunUnreadable(p) ==
  /\ run[p].pc = "boot"
  /\ run[p].entry # None /\ run[p].entry \notin configs
  /\ run' = [run EXCEPT ![p].pc = "exited", ![p].folder = None]
  /\ UNCHANGED <<file, configs, runner, disk, session>>

(* _mark_failed: stamp a failed status and drop the folder's pid file,     *)
(* whoever's it is.                                                        *)
MarkFailed(p) ==
  LET d == run[p].folder IN
  /\ run' = [run EXCEPT ![p].pc = "exited", ![p].folder = None,
                        ![p].wrote = "failed"]
  /\ status' = [status EXCEPT ![d] = "failed"]
  /\ pidfile' = [pidfile EXCEPT ![d] = None]
  /\ UNCHANGED <<file, configs, runner, checkpoint, session>>

HasConfig(p) == run[p].entry # None => run[p].entry \in configs

RunRejected(p) == run[p].pc = "boot" /\ HasConfig(p) /\ MarkFailed(p)

(* The run claims its folder, whatever run.pid held.                       *)
RunWritesPid(p) ==
  /\ run[p].pc = "boot" /\ HasConfig(p)
  /\ pidfile' = [pidfile EXCEPT ![run[p].folder] = p]
  /\ run' = [run EXCEPT ![p].pc = "setup"]
  /\ UNCHANGED <<file, configs, runner, status, checkpoint, session>>

RunSetupFails(p) == run[p].pc = "setup" /\ MarkFailed(p)

RunStarts(p) ==
  /\ run[p].pc = "setup"
  /\ status' = [status EXCEPT ![run[p].folder] = "none"]
  /\ run' = [run EXCEPT ![p].pc = "loop", ![p].wrote = "running"]
  /\ UNCHANGED <<file, configs, runner, pidfile, checkpoint, session>>

RunCheckpoints(p) ==
  /\ "resume" \in Faults            \* bound: nothing else looks at a checkpoint
  /\ run[p].pc = "loop"
  /\ run[p].folder \notin checkpoint
  /\ checkpoint' = checkpoint \cup {run[p].folder}
  /\ UNCHANGED <<file, configs, runner, run, pidfile, status, session>>

(* The loop ends and publishes its terminal state; post-processing follows *)
(* with the pid file still in place.                                       *)
RunEnds(p, s) ==
  /\ run[p].pc = "loop"
  /\ status' = [status EXCEPT ![run[p].folder] = s]
  /\ run' = [run EXCEPT ![p].pc = "post", ![p].wrote = s]
  /\ UNCHANGED <<file, configs, runner, pidfile, checkpoint, session>>

(* An exception leaves the loop: the finally block publishes "stopped",    *)
(* post-processes and gives the folder up, and only then main() stamps     *)
(* "failed" on it.                                                         *)
RunRaises(p) ==
  /\ run[p].pc = "loop"
  /\ status' = [status EXCEPT ![run[p].folder] = "ended"]
  /\ run' = [run EXCEPT ![p].pc = "abort", ![p].wrote = "ended"]
  /\ UNCHANGED <<file, configs, runner, pidfile, checkpoint, session>>

RunLetsGo(p) ==
  /\ run[p].pc = "abort"
  /\ pidfile' = [pidfile EXCEPT ![run[p].folder] = None]
  /\ run' = [run EXCEPT ![p].pc = "stamp"]
  /\ UNCHANGED <<file, configs, runner, status, checkpoint, session>>

RunAborts(p) == run[p].pc = "stamp" /\ MarkFailed(p)

RunExits(p) ==
  /\ run[p].pc = "post"
  /\ pidfile' = [pidfile EXCEPT ![run[p].folder] = None]
  /\ run' = [run EXCEPT ![p].pc = "exited", ![p].folder = None]
  /\ UNCHANGED <<file, configs, runner, status, checkpoint, session>>

-----------------------------------------------------------------------------
GuiStep ==
  \/ \E e \in Ids, b \in Bases, k \in 1 .. MaxVariants : Add(e, b, k)
  \/ \E e \in Ids : Remove(e) \/ DeleteConfig(e)
  \/ ClearFinished \/ ClearAll
  \/ \E e, x \in Ids : Move(e, x)
  \/ \E s \in Sessions :
       \/ ClickStart(s) \/ Unpause(s) \/ SpawnRunner(s) \/ Pause(s)
       \/ LaunchResume(s)
       \/ \E b \in Bases : ClickResume(s, b)
  \/ \E d \in Folders : Kill(d)

RunnerStep(r) ==
  \/ ClaimSingleton(r) \/ Reconcile(r) \/ Drained(r) \/ FindFree(r)
  \/ LaunchEntry(r) \/ Reap(r) \/ Mark(r) \/ Release(r)
  \/ \E e \in Ids : Claim(r, e) \/ Skip(r, e)

RunStep(p) ==
  \/ RunUnreadable(p) \/ RunRejected(p) \/ RunWritesPid(p) \/ RunSetupFails(p)
  \/ RunStarts(p) \/ RunCheckpoints(p) \/ RunRaises(p) \/ RunLetsGo(p)
  \/ RunAborts(p) \/ RunExits(p)
  \/ \E s \in {"ended", "failed"} : RunEnds(p, s)

Next ==
  \/ GuiStep
  \/ \E r \in Runners : RunnerStep(r) \/ RunnerDies(r)
  \/ \E p \in Runs : RunStep(p)

Spec == Init /\ [][Next]_vars

(* The operating system schedules a live runner and a live run; a solve    *)
(* has a hard timeout and the loop an iteration limit, so a run ends; a    *)
(* click handler that has begun runs to its end.  Users are under no       *)
(* obligation to press anything.                                           *)
RunProgress(p) == RunStep(p) /\ run'[p].pc # run[p].pc
Fairness ==
  /\ \A r \in Runners : WF_vars(RunnerStep(r))
  /\ \A p \in Runs : WF_vars(RunProgress(p))
  /\ \A s \in Sessions : WF_vars(Unpause(s) \/ SpawnRunner(s))

FairSpec == Spec /\ Fairness

-----------------------------------------------------------------------------
FileTypeOK ==
  /\ state \in [Ids -> EntryStates]
  /\ folder \in [Ids -> Folders \cup {None}]
  /\ \A e \in Ids : InQueue(e) => folder[e] \in Folders
  /\ rank \in [Ids -> Nat]
  /\ paused \in BOOLEAN
  /\ runner_pid \in Runners \cup {None}
  /\ configs \subseteq Ids

RunnerLocals == [pc : RunnerPcs, entry : Ids \cup {None}, work : Folders \cup {None},
                 child : Runs \cup {None}, verdict : {"done", "failed", None}]
LocalsFit(v) ==
  /\ v.pc \in HoldingPcs => v.entry \in Ids /\ v.work \in Folders
  /\ v.pc = "wait" => v.child \in Runs
  /\ v.pc = "mark" => v.verdict \in {"done", "failed"}
RunnerTypeOK ==
  /\ runner \in [Runners -> RunnerLocals]
  /\ \A r \in Runners : LocalsFit(runner[r])

RunTypeOK ==
  /\ run \in [Runs -> [pc : RunPcs, folder : Folders \cup {None},
                      entry : Ids \cup {None}, wrote : Written]]
  /\ \A p \in Runs : Live(p) => run[p].folder \in Folders
  /\ \A p \in Runs : run[p].pc = "unborn" => run[p].entry = None

DiskTypeOK ==
  /\ pidfile \in [Folders -> Runs \cup {None}]
  /\ status \in [Folders -> RunStates]
  /\ checkpoint \subseteq Folders

SessionTypeOK ==
  /\ session \in [Sessions -> [pc : {"idle", "unpause", "spawn", "resume"},
                              folder : Folders \cup {None}]]
  /\ \A s \in Sessions : session[s].pc = "resume" => session[s].folder \in Folders

TypeOK ==
  FileTypeOK /\ RunnerTypeOK /\ RunTypeOK /\ DiskTypeOK /\ SessionTypeOK

(* However often Start is pressed and however runners die, at most one     *)
(* live runner has got past the singleton claim (_claim_singleton).        *)
SingleRunner ==
  \A r, q \in Runners :
    runner[r].pc \in OwnerPcs /\ runner[q].pc \in OwnerPcs => r = q

(* An entry is launched at most once, whatever crashes, restarts, removals *)
(* and reorderings happen between its claim and its end.                   *)
LaunchedOnce ==
  \A p, q \in Runs :
    run[p].entry # None /\ run[p].entry = run[q].entry => p = q

(* What makes the two inductive.  The file names the one owner; an entry   *)
(* in a runner's hands is running or was removed; a run exists only for an *)
(* entry that was claimed and whose runner is past launching it.           *)
OwnerIsRecorded ==
  \A r \in Runners : runner[r].pc \in OwnerPcs => runner_pid = r
ClaimIsHeld ==
  \A r \in Runners :
    runner[r].pc \in HoldingPcs => state[runner[r].entry] \in {"running", "removed"}
LaunchFollowsClaim ==
  \A p \in Runs : run[p].entry # None =>
    /\ state[run[p].entry] \notin {"new", "pending"}
    /\ \A r \in Runners :
         runner[r].pc \in {"busy", "spawn"} => runner[r].entry # run[p].entry

QueueInv ==
  TypeOK /\ OwnerIsRecorded /\ ClaimIsHeld /\ LaunchFollowsClaim /\ LaunchedOnce

(* Two entries still to finish never share a run folder (add's suffixing), *)
(* so neither overwrites the other's status and results.                   *)
FoldersReserved ==
  \A e, x \in Ids :
    state[e] \in Active /\ state[x] \in Active /\ folder[e] = folder[x] => e = x

(* A finished entry keeps its outcome until it is removed: neither a later *)
(* runner's reconciliation nor a late mark() rewrites it.                  *)
FinishedIsFinal ==
  [][\A e \in Ids : state[e] \in Finished => state'[e] \in {state[e], "removed"}]_vars

(* The runner "runs them strictly one at a time ... so only one solver     *)
(* process is ever live".                                                  *)
OneSolver == \A p, q \in Runs : Live(p) /\ Live(q) => p = q

(* An entry the queue shows as running is in the hands of a live runner.   *)
RunningIsTracked ==
  \A e \in Ids : state[e] = "running" =>
    \E r \in Runners : runner[r].entry = e /\ runner[r].pc \in HoldingPcs

(* What makes them inductive while runners live and nobody uses Resume: a  *)
(* live run is one its runner is waiting for.                              *)
RunsAreAwaited ==
  \A p \in Runs : Live(p) =>
    \E r \in Runners : runner[r].pc = "wait" /\ runner[r].child = p
                       /\ run[p].entry = runner[r].entry
NobodyResumes == \A s \in Sessions : session[s].pc # "resume"
SerialInv == QueueInv /\ RunsAreAwaited /\ RunningIsTracked /\ NobodyResumes

(* An entry is shown as done by a status its own run wrote, not by one     *)
(* that an earlier run of the same folder left there for classify().       *)
DoneIsItsOwn ==
  \A e \in Ids : state[e] = "done" =>
    \E p \in Runs : run[p].entry = e /\ run[p].wrote # "none"

(* A run that reported failure (rejected config, failed setup, an error in *)
(* the loop) is never shown as done, even where an earlier run of the same *)
(* folder left a successful status (the comment in run.main).              *)
FailureIsShown ==
  \A p \in Runs :
    run[p].wrote = "failed" /\ run[p].pc = "exited" /\ run[p].entry # None
      => state[run[p].entry] # "done"

(* While a live runner has not yet taken its last look at the queue, every *)
(* pending entry gets out of it, unless the queue is paused meanwhile.     *)
RunnerDrains ==
  \A e \in Ids :
    (state[e] = "pending" /\ \E r \in Runners : runner[r].pc \in OwnerPcs \ {"release"})
      ~> (state[e] # "pending" \/ paused)

(* A live runner ends up with its claimed entry's outcome in the queue:    *)
(* nothing stays "running" for ever.                                       *)
RunningEnds == \A e \in Ids : state[e] = "running" ~> state[e] # "running"

(* The abstract serial queue this implements while runners live and the    *)
(* GUI's Resume is not used beside it: see SerialQueue.                    *)
Launched(e)  == \E p \in Runs : run[p].entry = e
Executing(e) == \E p \in Runs : run[p].entry = e /\ Live(p)
Claimed(e)   == \E r \in Runners : runner[r].entry = e /\ runner[r].pc \in {"busy", "spawn"}
JobOf(e) ==
  IF Executing(e) THEN "busy"
  ELSE IF Launched(e) THEN "over"
  ELSE IF state[e] = "new" THEN "absent"
  ELSE IF state[e] \in Active \/ Claimed(e) THEN "waiting" ELSE "over"

Serial == INSTANCE SerialQueue WITH Jobs <- Ids, job <- [e \in Ids |-> JobOf(e)]
SerialSpec == Serial!Spec
=============================================================================
