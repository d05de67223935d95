# Verification of oropt

`oropt` optimises the shape of a part by repeatedly solving it with OpenRadioss:
it writes a deck for the elements that are alive, solves every load case, turns
the results into a sensitivity per element, and decides which elements live on.
A run takes hours to days, works in a folder of its own, is resumed after a
crash, and is started by hand, by a Resume button, or by a queue that several
browser sessions edit.

The modules here describe that machinery in TLA+. TLC checks them on small
instances; TLAPS proves the results that matter most for every value of the
constants. `PROJECT.json` holds the index: which lines each definition stands
for, every run, the mutants that show each property can fail, and the list of
hazards the properties answer.

1. The system and its parts
2. The modules and the code
3. The runs: what is checked, on which instances, and why these are enough
4. Fairness
5. What is proved, and how
6. Where code and documentation disagree
7. What is only model-checked, and what is not modelled
8. The plan

## 1. The system and its parts

| part | state it keeps | operations | what makes it correct |
|---|---|---|---|
| run queue (`gui/queue_store.py`, `queue_runner.py`) | `queue.json` under a lock: entries with state, folder and order, `paused`, `runner_pid`; a frozen config per entry | add, remove, move, clear, pause, start (GUI); claim, skip, mark, reconcile, release (runner) | one runner; an entry is launched at most once; folders are not shared; outcomes are true and final; the queue drains |
| run-control (`gui/runstate.py`, `status.py`, `run.py`) | `run.pid`, `status.json`, `stop.flag` of a folder | launch, resume, stop, force kill, is-running, classify | a pid in the file is the live run; a status belongs to the run it is read for |
| optimisation run (`loop.py`) | mask, sensitivity, iteration; `history.csv`, `checkpoint.npz`, `iter_NNNN/`, `solve/` | start or resume, solve, record, archive, update, checkpoint, converge, recover, stop, finish | a resume continues the very run it claims to; history, checkpoint and archives agree; a stop is heeded; every end is recorded |
| solver pool and watchdog (`loop.py`, `runner.py`) | slots, worker threads, child processes, containers, diverge counts, clocks | dispatch cases, starter, engine, poll, judge, kill, extract, collect | the results have the sequential shape; the load is capped; no solver outlives its verdict; healthy solves survive, hopeless ones end |
| volume control and load cases (`controller.py`, `beso.py`, verdicts in `loop.py`) | points (volume, utilisation), adaptive weights, blended sensitivity, volumes, stall counter | judge, combine, blend, step the weights, record, next target, converged? | every finished iteration counts once, over crashes and resumes; back off while violated, shrink while feasible; the fit is never spoilt |
| design update (`beso.py`, `tobs.py`, `mesh.py`, update in `loop.py`) | the set of living elements, the last sensitivity | rank, cap add-back, flip, drop islands, clear the held region, recover | protected elements stay, held regions stay void, no floating islands, volume follows the target |
| field optimisers (`hca.py`, `saip.py`, `levelset.py`) | densities, a nodal level set, the flips of two iterations | step, bisect, threshold, resynchronise with the mask | memory follows the mask; the target is met from what is removable; a resume carries what it says |
| manufacturing constraints (`manufacturing.py`) | none (pure) | member sizes, mirror, draw, prism, overhang | what is asked for holds of the design that is solved |
| audits (`mfg_verify.py`, `sanity.py`) | none (pure) | re-measure a design | the audits accept what the update produces |
| growth PREPARE (`gui/growthprep.py`, `growthmesh.py`) | pid, frozen config, report and deck files in a case directory | start, poll, cancel, generate cells, write decks, report | decks offered as done are whole, on one mesh, and start the part as it was |
| configuration (`config.py`, `validate.py`) | the YAML file, frozen snapshots | read (migrate, fold), write, check | what is saved is what was entered; what is accepted can be run |
| decks and keep-out (`deck.py`, `keepout.py`, growth regions in `mesh.py`, `loop.py`) | starter and engine files | read, select, extend, write with pins, prepare the engine | ids are declared once; no node of the mesh is left free |
| dashboard (`gui/app.py`, `gui/boxes.py`, other widgets) | session state: tables, fields, values put aside | buttons, edits, views | see queue, configuration and PREPARE |
| results and fast mode (`results.py`, `fastmode.py`) | none | parse, rewrite | text formats |
| density optimisers (`simp.py`, `mfse.py`, `tdsa.py`) | density or series coefficients | update | floating-point numerics |
| post-processing (`report.py`, `animate.py`, `smoothing.py`, `d3plot.py`) | none | report, convert | headline the right iteration |

How they interact. The GUI and the runner share only the queue file, read and
rewritten under one file lock. The runner launches a run as a detached process
and learns about it through `run.pid` and `status.json`; the GUI learns about
both in the same way, from files it polls. The configuration file is edited
through the page, which is rendered anew at every click and keeps parts of what
was entered in its session; PREPARE and the queue work on frozen copies. PREPARE
is a child process of the page that writes extended decks into a sub-folder;
"Use" points the file at them. A run validates its snapshot again, reads the
decks, and dispatches its load cases to worker threads, each of which drives a
child process (on the docker backend a client, with a container that is a
process of its own). Results become a verdict, a ratio and a sensitivity; these
a target and a design; the optimiser returns a mask, and the loop shapes it,
drops islands and clears regions behind the optimiser's back. A resume knows of
the earlier process only what its folder holds.

What is hard to test. Any of these processes can be killed between any two
file operations, and what it started lives on. Tests of liveness ("is a run in
this folder?") and the actions that follow from them are separate steps. Files
of earlier runs in a folder look like those of the present one. The update's
post-passes each undo part of what the previous one established, and the field
optimisers' memories drift from the mask they belong to. The numbers an
iteration carries are stepped at different places of it and saved together. One
region is edited in three tables; one number is written by a file, a preview, a
button and the user. The list is in `PROJECT.json` under "hazards", each at its
line.

## 2. The modules and the code

**RunQueue** (`queue_runner.py`, `gui/queue_store.py`, `gui/runstate.py`,
`status.py`, `run.py`, the run-control buttons of `gui/app.py`). One variable per
field of an entry (`state`, `folder`, `rank`), `paused`, `runner_pid`; `runner`
and `run` hold the program counter and locals of every process that can ever be
spawned; `pidfile`, `status`, `checkpoint` are the files of each folder. Each
`mutate` of the queue file is one action, because the lock serialises it, the
kernel frees the lock when its holder dies, and the file is replaced atomically.
Whatever the code does outside the lock is an action of its own: the busy check
(`FindFree`), the spawn (`LaunchEntry`), the wait (`Reap`), reading the status.
`Start` is two steps of a session (unpause; look for a runner and spawn one), and
`Resume` is two (the decision; the launch). A run is seen from outside: rejected
before it claims the folder, failing in set-up, in the loop, ending, raising,
giving its folder up, exiting. A status file is abstracted to what `classify`
tells apart; `wrote` is what a process itself last wrote there.

**SerialQueue** is what the queue promises: jobs are submitted, each is run at
most once, never two at a time, and one that has not begun can be withdrawn.
`RunQueue` implements it under the mapping `JobOf`.

**RunLoop** (`loop.run_optimization`, `run.py`) is the inside of such a run: one
folder and the successive processes in it. One step is the work between two
writes to the folder, because a crash is noticed by what the folder holds. A
design is named by the fresh run it descends from, the updates made to it since,
and its volume, so that "the same design" and "another run's design" can be told
apart without modelling a mesh. What a solve says is a choice: feasible or not,
diverged, failed. The finally block, the two handlers of `main`, the downgrade of
a resume without checkpoint, and the stale files a fresh run clears and keeps are
as in the code.

**SolverPool** (`loop._solve_cases`, `_solve_case`, `runner.run_solver`,
`_run_engine`, `DivergenceMonitor`) is one iteration's solves. `pc` is where each
case's worker is; `client` and `container` are the solver's processes; `watch`
holds the locals of `_run_engine`. The three ways of dispatching (in turn, thread
pool, fixed slots) are the cases of `CanStart`; leaving the pool waits for every
case it was given, then raises or cuts off at the first failure. Time is counted
in polls. The console log is watched by a second monitor of the same kind, which
is left out.

**DesignMesh, VolumeControl, Manufacturing, DesignUpdate** (`mesh.py`,
`controller.py`, `manufacturing.py`, `beso.py`, `tobs.py`, the update in
`loop.py`) are the design over the iterations. A mask is a set of elements.
Volumes are whole units, targets are multiples of 1/`Scale` of a unit, and the
knobs are percentages, so that the code's comparisons of floats become exact
comparisons of integers; a fit is computed by the integer sums of least squares.
Where the code sorts with ties, every order of the ties is a choice. TOBS's
integer program is given by what it is asked for (at most K flips, a volume band,
largest gain) and may return any optimum. A step of `DesignUpdate` is one whole
iteration: record the point, choose the target, update, shape (`Shaped`: the
constraints in their order and the second island removal), clear the held region
(`HeldVoid`). `Diverge` is the recovery and `Resume` the restart with another
configuration. The constants give the geometry (neighbours, mirror partners,
draw columns, prisms, support cones), which the code computes from centroids.

**DesignAudit** (`mfg_verify.py`, `sanity.py`) has the two audits as operators on
masks, by their own formulas: member sizes by opening and closing, symmetry,
undercuts, prism and overhang residuals; disconnected and thin members, exposed
faces, sealed cavities. `DesignUpdate.AuditsAccept` says the first accepts
what the update makes.

**Hca, Saip, LevelSet, FieldUpdate** (`hca.py`, `saip.py`, `levelset.py`) are the
optimisers that remember more than a mask. Densities, speeds, gains and
multipliers are scaled integers; the bisections of `setpoint`, multiplier and
level are `Bisected`, which gives the crossing the loop of halvings ends at.
`FieldUpdate` runs one of them inside the loop: `Iterate` and `Diverge` are the
whole iteration with shaping and the held region, `Restored` is what a
checkpoint carries over a resume (the densities and the level set, if the new
optimiser is of the kind and the length fits) and what it does not (HCA's
blended field, SAIP's flips).

**LoadCases, MultiLoad** (`loop.py`, `beso.py`, `controller.py`, `status.py`) are
what an iteration makes of its results. `LoadCases` has the verdicts, the ratios
(with the maximum as Python takes it of NaN), the combined and blended
sensitivity, the weights' step with renormalisation and clamp, and the stall
counter. `MultiLoad` is the order in which they are stepped: `Measure` combines
with the weights before it steps them, `Converge` saves without recording a
point, `Advance` records and saves, `Diverge` touches the design only, `Ends` is
a crash, a failure or the limit, and `Resume` starts a process from the
checkpoint under any configuration. The ghost `log` is the iterations the design
descends from.

**StarterDeck, GrowthRegions, GrowthMesh, RunConfig, RegionTable, Workbench**
(`deck.py`, `keepout.py`, `growthmesh.py`, `gui/growthprep.py`, `config.py`,
`validate.py`, `gui/boxes.py`, `gui/app.py`, the set-up in `loop.py`) are the way
from the screen to the first decks of a run. Space is a line and an element is an
interval between two nodes, which keeps inside, outside, surface, overlap and
adjacency. `StarterDeck` reads, extends and writes a deck (dead elements leave
it, nodes without a living element are pinned); `GrowthRegions` says which
elements start void, which are held void, and the guards of a run start;
`GrowthMesh` generates cells and ids; TetGen is external and given by what it is
asked for. `RunConfig` reads and writes the file and validates it; `RegionTable`
takes regions to three tables and back by name. `Workbench` puts these together:
its actions are the edits and buttons of the page, the steps of a PREPARE child
(load and check everything, write one case after another, copy the geometry,
report, exit; crash or be killed in between), and the start of the run. The
ghost `meant` is what the user entered or was told.

Definitions that a comment calls a mutant stand for a plausible slip in the code;
only the mutants listed in `PROJECT.json` use them.

## 3. The runs

Every bound is a constant or is named in a `.cfg` or MC module. Deadlock is not
checked where the system may rightly stop: a queue with all processes spent, a
folder whose launches are used up, an iteration that has returned, a page whose
clicks are used up.

| run | instance | question and answer |
|---|---|---|
| `queue_faults` | 2 entries, 1 base name with 2 variants, 2 runners, 2 runs, 1 session; runners die anywhere, Resume and Force kill are used | one owner, no second launch of an entry, no shared folder, no rewritten outcome: hold |
| `queue_serial` | the same without runner deaths and Resume; configs may vanish | failures shown as failures, running entries tracked, the queue implements `SerialQueue`, it drains, nothing runs for ever: hold |
| `queue_orphan` | runner deaths | `OneSolver` is violated |
| `queue_stale` | Force kill | `DoneIsItsOwn` is violated: an entry is done by a status that an earlier run left |
| `loop_faults` | 3 processes, limits 0..2, 2 volume levels, window 2; crash, error and interrupt at any step | resumes agree, history without gaps, own rows only, checkpoint covered by rows, stop heeded, ends on record, every run ends: hold |
| `loop_mixed` | 3 processes | `HistoryIsOneRun` is violated |
| `pool_watch` | 3 cases; sequential in docker, a pool of 2, 2 docker slots; diverge limit 2, 2 unread lines | sequential contract, load capped, nothing outlives the iteration, the watchdog gives up exactly unbroken streaks, every iteration ends: hold |
| `design_update` | 2 columns of 3 elements with unequal volumes, 8 configurations | protected stay, held regions stay void, islands go, the audit accepts what was asked for, volume falls while feasible: hold |
| `fields` | a strip of 4 elements, 6 configurations of HCA, SAIP and the level set, 4 iterations, 3 fields, 2 utilisations | memory well formed and of the present optimiser, designs sound, conservatism only where an element swung, each update keeps the largest volume that fits its target and what was taken since: hold |
| `bench` | a part of 2 elements, 2 load cases on one mesh or two, 5 layouts of regions, 3 settings, boundaries 0 and 11, typed directories 0 and 1, directories 0..2, 4 clicks | a finished PREPARE offers decks that start the part whole; what is saved is what was entered; no free node in iteration 0; what starts can be run: hold |
| `bench_cancel` | the same part, no edits | `CancelLeavesNoPartialSet` is violated |
| `measures` | 2 elements, 2 load cases or 1, 3 configurations, 7 sets of results (over the limit, slack, missing, unloaded), 3 iterations, 2 volumes | weights clamped and points finite; what is carried is what playing the finished iterations again gives: hold |

Why the bounds are enough. *Queue*: two entries of one config have an order,
compete for a folder name and can be interrupted at each other's expense; two
runners give a restart, a double Start and a takeover; one session suffices
because its two half-clicks interleave with everything else, and a second Start
can be pressed while the first one's runner boots. Symmetry (entries, runners,
runs) is used in a safety run only. *Run*: three processes are a run, its crash in
a used folder, and the resume of either; two iterations and a window of two reach
convergence, the limit, and a checkpoint between rows; `DivergeFailAfter` 2 gives
both a survived and a fatal divergence. *Pool*: three cases with concurrency two
leave one to be dispatched while another is in flight and put two on one slot; a
limit of two diverge cycles with two unread lines makes streaks that span polls
and recoveries inside a chunk. *Design*: six elements are the smallest mesh with
a mirror plane, a draw direction with an interior element, and islands; what
belongs together touches in it, so that no constraint is excused for its geometry;
the configurations switch on each mechanism with those it interferes with, and
`Resume` moves between all of them in one run folder. *Fields*: SAIP's memory
spans two iterations and a swing needs a third; four elements with unequal
volumes have an interior, a mirror and a held end, and the fields include ties
and a zero field; one of the level set's two bands is narrower, so that a resume
can move between them. *Bench*: the shortest way to lose what was entered is four
clicks (edit or preview, Generate, Use, Save); two load cases are a primary and
another whose deck holds foreign nodes or another mesh; three directories allow
a second PREPARE out of an extended folder; boundary 11 lies inside the part; one
layout needs no boundary, so that the field is hidden and shown again.
*Measures*: three iterations fill a window of two volumes and two points with one
to spare for a crash, a divergence or a change of cases in any position; the
results reach the clamp of the weights, a missing value in front and behind, a
usable and an unusable fit, and convergence.

Each property of a passing run has a mutant (a dropped guard, a missing reset, an
order swapped, an off-by-one of the code it is about) for which TLC finds it
violated.

## 4. Fairness

*RunQueue*: weak fairness of each live runner's steps and of each run's progress
(the operating system schedules them; a solve has a hard timeout and the loop an
iteration limit, so a run does end), and of the second half of a Start that has
begun. Nothing is assumed of users: no one has to press Start, and only an
existing runner's drain is promised to go on. *RunLoop*: weak fairness of the
process's own steps without its exceptions, so no crash or error is counted on to
end a run. *SolverPool*: weak fairness of each worker and of the caller; the
engine owes nothing, it may hang for ever and is ended by the watchdog.
*DesignUpdate*, *FieldUpdate*, *MultiLoad* and *Workbench* have safety properties
only: a design sequence has no promise to end other than the iteration limit,
which is RunLoop's, and nobody has to click.

## 5. What is proved, and how

All theorems are checked by TLAPS for every value of the constants, under the
modules' named assumptions, which TLC evaluates in the runs, and in a few cases
under a named hypothesis. What is assumed:

| assumption | says | why |
|---|---|---|
| `ConstantsAssumption`, `LoopAssumption` | finite sets of entries and processes; `None` is none of them | model values |
| `PoolAssumption` | at least one case; the concurrency is at most the number of cases; `None` is no outcome | `_slot_plan` and `min(conc, n)` |
| `MeshAssumption`, `GeometryAssumption` | finitely many elements of positive volume, each with finitely many nodes and at least one; the mirror is an involution; an element is in at most one draw column, once, and in at most one prism; a cone lies below its element | a TET4 has four nodes; `_columns` bins each element once (manufacturing.py:274), partners are mutually nearest (manufacturing.py:240) |
| `DesignAssumption`, `FieldAssumption` | knobs in the ranges the validator admits, the field optimisers' and the utilisations in whole units; blocked elements are candidates, protected ones are not; `None` is no set and no field | `validate.py`; protection leaves candidates out (loop.py); floats are scaled integers |
| `MultiLoadAssumption` | a configuration has a load case, weights that are not negative, limits that are positive; the weights' bound is at least 1; results are naturals or missing, volumes lie between none and the whole; `None` and `NaN` are no numbers | `validate.py` (weights at 447) |
| `DesignNodeMinAssumption`, `NoneAssumption`, `EdgeAssumption` | id and length parameters are naturals; `None` is no number | |
| `FirstAssumption` | the first folder holds decks a solver reads, with finitely many nodes and elements and at least one element, engines with at most one tensor request; the first file has a directory of the bench, a positive boundary or none, and regions as next | exported decks; the boundary is written by the field, the preview and Use only |
| `ChoiceAssumption` | regions a user enters have names of their own, and leave the fields of other shapes at their defaults | a table keeps one row for a name, and only the fields of its shape ("Frames and points survive the main table's shape/coordinate round-trip") |
| hypothesis `Undisturbed` | no runner death, no Resume beside the queue | `queue_orphan` shows what happens otherwise |
| hypothesis `Asymptotes` | SAIP's tightening factor is below 1, its relaxing factor at least 1, its floor positive and below 1 | the defaults 0.7, 1.2, 0.1; the validator does not look at them. In `ConservatismAlwaysEarned`, `FieldTypes`, `BudgetAlwaysMet` |
| hypothesis `Drives` | HCA's gain and step are not negative, the level set's band is positive, energies are not negative | the defaults; the validator does not look at them. In `BudgetAlwaysMet` |
| hypothesis `NoneIsNoFunction` | `None` is told apart from functions and records | model value. In `DoneAlwaysStartsWhole`, `CarriedAlwaysEarned`, `NumbersAlwaysTyped` |

**RunQueue_proofs.** For any number of entries, runners, runs and sessions, and
whatever faults happen: `TypeCorrect`, `SingletonHolds` (one live runner past the
claim), `NeverLaunchedTwice`, `FoldersStayReserved`, `OutcomesAreFinal`. Neither
`SingleRunner` nor `LaunchedOnce` is inductive. The first needs that the owner is
the recorded one, `OwnerIsRecorded`: then a second claim meets a live recorded
pid. The second needs that an entry in a runner's hands is running or removed
(`ClaimIsHeld`), so no other runner can claim it, and that a run's entry is past
the spawning steps (`LaunchFollowsClaim`). Their conjunction with `TypeOK` is
`QueueInv`, proved inductive in `QueueInvariant` with one lemma per kind of
process and one step per action.

Under `Undisturbed` (no runner deaths, no Resume beside the queue), `RunsAreSerial`
proves `OneSolver`, `RunningStaysTracked` proves `RunningIsTracked`, and
`QueueIsSerial` that the queue implements `SerialQueue`. The extra invariant
`SerialInv` adds that a live run is one its runner waits for (`RunsAreAwaited`).
The refinement maps each step to a step of `SerialQueue` or a stutter: claims
and marks stutter, launches begin, ends end, removals, clears and skips withdraw.
`queue_orphan` shows that the assumption is not idle: with runner deaths the same
`OneSolver` fails. `FailureStaysShown` proves `FailureIsShown` under the same
hypothesis. Its invariant, `FailureInv`, adds that a runner waits for a run
of the very entry and folder it holds, and that a reported failure is on record
until the entry has its outcome: as the status of the folder the waiting runner
will read, then as the verdict in that runner's hands. No other run can rewrite
the status meanwhile, for it would be live.

**SolverPool_proofs.** For any number of load cases, any dispatch (in turn, pool,
slots), native or docker, any limit of diverge cycles and any chunks of lines:
`PoolTypes`, `ResultIsSequential`, `LoadAlwaysCapped`, `NothingEverOutlives` and
the action property `WatchdogAlwaysExact`. `PoolInv` has three parts. `CasesInv`
relates where a worker is to what its case has: a client or container only while
the watchdog has not given up or is killing them, no outcome before the end.
`OrderInv` says which earlier cases must have ended before a case was given to a
worker, by the kind of dispatch; with slots this is what keeps two solves off one
slot. The number of cases in flight is bounded by the concurrency, whence the
load, which is a statement about cardinalities. The watchdog is exact because the
count it carries from chunk to chunk is the length of the present streak
(lemmas about `Fed`), capped where it no longer matters.

**RunLoop_proofs.** For any number of processes in a folder, any limits and
volumes, and crashes, errors and interrupts at any step: `TypeCorrect`,
`ResumeAgrees`, `NoGaps`, `CheckpointCovered`, `FreshOwns`, and the action
properties `StopHeeded` and `EndsRecorded`. What makes them inductive is the
notion of a continuation: `Continues(n, d)` says that the rows of d's run end at
iteration n or just before it, that a row of n describes d, and that nothing
below n is missing from a history that begins with that run. The checkpoint is
always a continuation (`CheckpointContinues`), a live run is one and agrees with
its own checkpoint (`LoopContinues`); so a row appended for the present iteration
agrees with every earlier row of that iteration, and the checkpoint written after
it leaves no gap. That a fresh run cannot be confused with an older one needs
that its origin is new (`FreshIsNew`, `OriginsAreLaunched`); that a stop is not
dropped needs that the pid file names only a process past dropping it
(`StopIsKept`). `LoopInv` is the conjunction. Appending to the history is dealt
with once, in lemmas about the sequences, and cited by name. `loop_mixed` shows
where the notion ends: it speaks of one run's rows, and nothing in the code keeps
a second run's rows out of the file.

**Mesh_proofs** holds what several components rest on: the sum of volumes is a
natural number and grows with the set, maxima and minima of finite sets are
theirs, `Computed` functions are functions; island removal only removes, holds
the living seeds, is closed under living neighbours and is idempotent; each
manufacturing constraint returns a set of elements, and those that only remove
hold what is protected. A recursive function is dealt with by its least
counterexample (`FirstNumber`, `LeastSubset`): the numbers, or the subsets, for
which the claim fails have a least one, and its predecessor gives the claim. That
is well-founded induction without a schema, which the provers here cannot
instantiate. `IteratesKeep` states it once for functions that iterate a step: if
the step stays in a set, so does every iterate.

**DesignUpdate_proofs.** For any mesh, configurations, sensitivities and
utilisations: `DesignTypes`, `ProtectedAlwaysStay`, `HeldVoidAlways`,
`NeverFloatingIslands`, from the inductive invariant `DesignInv`, which states that
a design an update made is sound and that every design is clear of the held
region. The proof shows what the order of the passes is for: each conjunct is
established by the last pass that can disturb it. `FeasibleAlwaysShrinks` is the
action property `ShrinksWhileFeasible`, for BESO and for every optimum of TOBS's
program: under the gate the target lies strictly below the present volume, an
optimiser's choice meets it or is down to what is protected, and the passes after
it, unless they put material back, only remove.

`AuditsAlwaysAccept` proves that the two audits accept what the update makes,
although they measure by other formulas. Its invariant only says that an updated
design came out of `Shaped`; the work is in what each constraint establishes and in
what island removal leaves of it. Erosion and reach are adjoint (`ReachOfEroded`,
`ErodedHolds`), hence the constraint's opening is the audit's (`OpenIsOpened`), a
piece of an opened mask is open itself (`KeptStaysOpen`), and granulometry and
erosion agree (`SizesAre`). A carved mask is nowhere deeper than the limit, and
loses depth with every element taken (`MembersAreThin`). Columns, prisms, chains of
support and mirrored halves go whole or stay whole if what belongs together touches
(`ColumnsTouch`, `PrismsTouch`, `ConesTouch`, `MirrorTouches`); `Excused` excuses a
constraint on a mesh where it does not. (A cone is three spacings deep, so `ConesTouch`
wants elements taller than wide, as in the instance; on a mesh of cubes nothing is
claimed of overhangs.) The attempt to prove it also found what
`Excused` had missed: the held region can break up a column or a prism, and a
protected element that returns after the overhang pass lowers the plate.

**FieldUpdate_proofs.** `ConservatismAlwaysEarned`, under `Asymptotes`: a flip is
credited less than its energy only for an element that has swung, and always for
one that just did. Neither half is inductive. `EarnInv` adds that SAIP's memory
has the shape of its kind and is there exactly when it should be, and `Directs`:
the direction stored of an element is that of the flip made in the iteration
before, which ties the sign test of the code to the masks the loop really solved,
after the shaping and the held region, divergences and resumes.

`FieldTypes` proves the type invariant, which here says more than shapes: every
mask the loop solves is sound, and the level set's field stays inside its band
after an update. `FieldInv` needs that the memory belongs to the optimiser that
reads it, also across a resume into another configuration. Smoothing, diffusion
and resynchronisation are iterated functions (`IteratesKeep`).

`BudgetAlwaysMet` is the action property `BudgetIsMet`: each update keeps the
largest removable volume on its ladder that fits the target and what was taken
since. It has three parts.

- *The bisection.* `BisectedMeets`: the rung it ends at fits or is the highest,
  and if it fits, its neighbour below does not. The ladder need not be monotone,
  and SAIP's is not, so this is all there is to say; `LadderIsMet` carries it to
  designs.
- *The high end.* A rung that does not fit is the last, and there the optimiser
  has removed all it could: HCA has lowered every density by all its step allows
  (`FullSetpointDims`), the level is sunk by the whole band, whatever the field
  (`FullLevelDrowns`), and at SAIP's highest multiplier every living removable
  element is a candidate that outweighs any addition (`HighMultiplierPrices`,
  `PriceOutweighs`), so that its ranking spends all its flips on removals
  (`FlipsFillTheCap`).
- *The refund.* `ReturnInv` ties the field an optimiser remembers to the design it
  last returned, so what it refunds itself is what manufacturing, islands and
  the held region took from that design. After a resume, or an update that found
  no energy, the two have nothing to do with each other, and the property makes no
  claim (`Returned`).

**MultiLoad_proofs.** `CarriedAlwaysEarned`: for any load cases, results,
configurations and number of iterations, the weights, blended sensitivity and
points that the process and its checkpoint carry are what playing the finished
iterations again gives, and the stall counter the length of their last streak.
`CarryInv` says this for each stage of an iteration apart (`SolvingEarned`: before
it measures; `MeasuredEarned`: after), for the checkpoint (`CheckpointEarned`),
and for the counter over the present process's volumes only (`StallCounts`), as a
resume starts it anew. Playing the record is a recursive function; that one more
finished iteration extends it is a lemma (least counterexample again).

`NumbersAlwaysTyped` is the type invariant: the controllers can compute with what
they are given. `NumbersInv` says that there is a weight for each case, none
negative and not all zero, so that they can be normalised, also after a resume
with other cases or after results that are missing; that weights stay within the
clamp of the configured ones once two signals were seen; that points are finite;
and that a feasible point has a ratio of at most 1.

**Workbench_proofs.** For any decks, regions, layouts, settings, directories and
number of clicks, beside PREPARE children that crash anywhere: `BenchTypes`,
`SavedAlwaysMeant`, `AcceptedAlwaysRunnable`, `AlwaysStartsPinned`, from the inductive
`BenchInv`; `DoneAlwaysStartsWhole` from a second invariant beside it, `PrepareInv`.

- *Folders.* `FoldersOK`: every starter on the disk is one a solver reads, and so
  declares no node twice. The step that matters writes an extended deck
  (`ExtendedIsDeck`): the new ids lie above every id of every case's deck
  (`TopsOfDecks`, `AllocatedIds`), the cells kept are finitely many because
  regions and parts cover finite sets of places (`RegionBounds`, `KeptCells`),
  and each new node gets one id (`DeclaredOnce`). A child works on the plan it
  loaded (`ChildOK`, `PlanOK`), while others write to the folders.
- *The page.* `PageOK`: after each run of the page its directory and boundary
  fields follow the file (`Settled`), and what is on the screen is what the user
  has in mind (`MeantOK`). `TablesShowRegions` proves that the three tables give
  back the regions they were made from, `SavedLoads` that reading what Save wrote
  gives what was on the screen, `FoldedRows` that folding the legacy fields twice
  changes nothing, and `RenderedPage` what a run of the page makes of its fields.
- *The start.* `CheckedIsRunnable`: what validation lets through is runnable, with
  an engine for every load case; `OneTensor` is about the engine deck.
- *PREPARE.* `PrepareInvariant` proves `PrepareInv`: at every phase of a child what it
  has loaded is what the source folder holds (`LoadedOK`), its plan was made from
  that (`PlanMade`), the decks it has written are the ones it planned (`Holds`), and
  a report on the disk belongs to a folder whose every deck is such a one
  (`ReportMade`), over deletions of an earlier report, crashes between two load
  cases and a second PREPARE out of an extended folder. Geometry decks are those of
  the first folder wherever they were copied to (`Copies`). `DoneAlwaysStartsWhole`
  follows with `ReportShowsPart`: the candidates of an extended deck are the cells
  PREPARE added and what the regions carve, and no others.
- *Iteration 0.* `AlwaysStartsPinned`: the free nodes of each deck are pinned, and
  where they cannot be pinned the guard has refused the start (`StartedPinned`).
  The property exempts what the code exempts, held-void candidates on rigid nodes.

`SavedIsMeant` speaks of pages whose boundary field has not been hidden; section 6
says what happens to one that has.

Not proved: liveness (`RunnerDrains`, `RunningEnds`, `EveryRunEnds`, `SolvesEnd`),
which needs fairness and ENABLED and is out of this prover's reach.

## 6. Where code and documentation disagree

Four runs show that the code does something else than a comment or docstring
says; each is quoted in `PROJECT.json` under "findings".

- `queue_orphan`: after a runner crash the next runner starts a second solver
  beside the detached one ("only one solver process is ever live",
  queue_runner.py:10). It classifies the detached run's entry as failed if that
  run has not written its pid yet, and leaves it running if it has.
- `queue_stale`: a run that dies before its first status is classified by the
  status of an earlier run in its folder ("the status it wrote",
  queue_runner.py:71). The first entry is done; the second gets the same folder,
  its run is killed during set-up, and it is shown as done.
- `loop_mixed`: after a fresh run crashed before its first checkpoint, a resume
  continues the folder's older run under the new history (loop.py:1125).
- `bench_cancel`: a PREPARE cancelled between two load cases leaves the first
  one's extended deck without the second's ("leaves no partial deck set behind",
  gui/growthprep.py:164).

Reached by the models or read in the code while modelling, without a run of
their own:

*Queue and run.* A run whose loop raises writes "stopped" (loop.py:1707) and
only after all post-processing "failed" (run.py:107); killed in between, it is
shown as done, and for a moment before the second write nobody owns the folder
(loop.py:1777): a run that claims it then loses its pid file (run.py:128). A
Resume and the queue can launch into one folder ("can never double-launch",
queue_runner.py:16, against the check at 163). A converged run that is continued
solves the converged design again (loop.py:1622 and
tests/test_converged_checkpoint.py:6 say it does not). The converted iteration
can be an earlier run's (loop.py:1068, 1712). With concurrent solves an
exception hides an earlier case's failure ("the same contract", loop.py:958,
against 1008). The pid file of a PREPARE is written after the spawn
(gui/growthprep.py:133). A run stuck in "running" is to be cleared with Force
kill (docs/troubleshooting.md:28), which the page disables when no process is
live. `run.py:76` says unrecognised keys are printed only; `validate` makes them
errors.

*Volume control.* A value missing from the results fails its limit, but its NaN
ratio is passed over by `max`, so an infeasible design can have a ratio below 1
("v <= 1 <=> feasible", loop.py:737), which the fit then records. A case without
a usable ratio is "held at its current weight" (controller.py:172), but the
renormalisation after it (controller.py:211) rescales it with the others.
Restored weights are compared in number only and taken by position. The headline
stress is the largest raw one (loop.py:1541), so the limit shown with it need not
be the one that decided. The recovery under the multipoint controller uses the
fit, not the capped back-off its comment names (loop.py:1447).

*Design.* An element counts as supported by one up to three spacings below it
(manufacturing.py:358), across a void: support need not chain "layer by layer"
(manufacturing.py:350), and when island removal takes the lower one, the upper one
is left overhanging. Protected elements return after the overhang was judged
(manufacturing.py:131); one below all others becomes the plate, and the audit
rejects what stood on the old one. The recovery after a divergence applies neither the manufacturing
constraints nor the second island removal (loop.py:1452). A mirror can restore
all that an update removes, so that the volume never "catches up"
(manufacturing.py:16). The held region is cleared after the last island removal
(loop.py:1678). Deletable supports can take the last anchor, whereupon island
removal keeps nothing (mesh.py:412); the empty design fails the member-size
audit. `newly_exposed_faces` also counts faces of elements grown in the step. The
final audit re-measures the last mask, which was never solved (loop.py:1754), and
its file survives into a fresh run in the folder (loop.py:1083).

*Field optimisers.* A resumed level set does not always threshold back to its
mask (levelset.py:198): taking the ranks to the nodes and smoothing them can turn
the sign of an element's mean. The post-passes do not "only ever remove" (levelset.py:288)
with a mirror or prisms. SAIP's volume is not "non-increasing in lam"
(saip.py:216) with damping, so its bisection can end at the high end though a
lower multiplier fits (saip.py:244). A resume with a narrower band restores a field
that lies outside it (levelset.py:54), since the resynchronisation only bounds what
it changes (levelset.py:320); the next update brings it back. HCA's blended field
and SAIP's flips are not part of
the checkpoint.

*Bench.* The boundary field keeps its number only while it is on the page: hidden
for one run of the page, by regions that need none, it comes back empty, because
the browser session drops the state of a field that is not drawn and
`_seed_widget` sees the value it has already seeded (gui/app.py:117); the next
Save then drops the boundary from the file. The preview fills the boundary in for
forbidden regions too (gui/app.py:1278), for which the field is not shown
(gui/app.py:731), so "Save the config to keep it" (gui/app.py:1301) keeps nothing.
A second Use of the same PREPARE after the source folder was typed again
leaves the source folder on the screen (gui/app.py:174, against the docstring at
1371); `SavedIsMeant` accepts that, because its ghost takes the directory the form
shows after a Use for the one that is meant. Regions that share a name exchange frames and points (gui/app.py:608).
Held-void candidates are exempt from the guard on unpinnable nodes
(loop.py:370, 448), but theirs are left free just the same.

## 7. What is only model-checked, and what is not modelled

Only model-checked: all liveness.

Some properties make their exceptions explicit. `AuditsAccept` lists with each
constraint what can undo it (`Excused`): a later constraint, island removal
where what belongs together does not touch, protected elements and the held
region; and more layers than there are elements, at which granulometry stops
counting. `DoneStartsWhole` and `StartsPinned` are claimed for load cases on one
mesh, since the code compares load cases by element ids only (and by their
order, growthmesh.py:546, which the model's decks do not have); `StartsPinned`
exempts held-void candidates, as the guard does; `BudgetIsMet` makes no claim
about an update whose field and mask are of different origin.

Abstracted everywhere: what a solver computes, the text of files, logging.
Floats are scaled integers. Process numbers are never reused (`status.py` takes
a live pid for the process that wrote it). A docker kill is assumed to take, and
so are the writes of the finally block and of `_mark_failed`; the latter's two,
status and pid file, are one step. A file is written whole, and a case's starter
and engine deck together. Malformed queue files and `update_entry`, which
nothing calls, are left out.

In the design modules: the points of the fit are cut to the window when they are
recorded (the code cuts them when it fits, so that a resume with a longer window
sees older ones); one symmetry plane; geometry (partners, columns, prisms,
cones) is given. In MultiLoad: the optimiser is a choice of the next volume, the
weights' exponent is whole, tolerances are exact equality, and the stress-biased
sensitivity, which is used once and carried nowhere, is left out. In Workbench:
one configuration file and one page; the scratch folder of PREPARE is keyed by
the case directory; decks are loaded in one step; growth is switched on except
in one file; layouts have distinct names and keep positive regions besides
carved ones; of the checks of single numbers one of each form is kept. Hence not
reached: a value put aside for a boundary field that is then not rendered, a
second PREPARE over another file's, decks rewritten under a queued snapshot, and
Save dropping keys it does not know. A resume compares only element counts
(loop.py:1267), load cases are compared by ids only, and an archived iteration 0
is reused without comparing engine decks; each is a hazard with a note, or is
listed here, because catching it needs files to change between two runs of a
folder.

Not modelled: result parsing and fast mode (sequential text processing; the
null-solve test is in LoadCases), drawing and post-processing (best-effort after
the outcome is decided; the choice of the reported design is part of RunLoop),
the monitors and the load-case and slot tables of the page, the warning about
removal spikes (a log line), the demo backend, scripts, and the density
optimisers (`simp.py`, `mfse.py`, `tdsa.py`), which are eigenvalues and
optimality criteria on floating-point fields that neither tool can evaluate.

## 8. The plan

Done, in this order: the queue with its abstract specification and proofs; the
run with its proofs; the solver pool; the design update with its proofs; the
audits; the field optimisers; decks, growth regions, PREPARE, configuration and
the page; load cases and weights; proofs about the pool, the volume of an update,
SAIP's memory, what an iteration carries, and the page; proofs about the decks of a
PREPARE and of iteration 0, the volume the field optimisers keep, the type
invariants of `FieldUpdate` and `MultiLoad`, and what the audits accept.

Left, most important first:

1. a composition of queue, run and pool: a Force kill that leaves a solver
   behind, and the folder it works in;
2. files that change between two runs of a folder: the archived iteration 0, the
   decks under a queued snapshot.
