----------------------------- MODULE SolverPool -----------------------------
(***************************************************************************)
(* One iteration's solves (_solve_cases): every load case is written,      *)
(* started, watched and read back by a worker, one case at a time, in a    *)
(* thread pool or on fixed solver slots, and the results are returned in   *)
(* the shape the sequential loop would give them.                          *)
(*                                                                         *)
(* The solver is a child process, or a docker client whose container is a  *)
(* process of its own: killing the client leaves the container running.    *)
(* What a solver does (accept steps, diverge, hang, fail) is its choice.   *)
(* Time is counted in polls of the watchdog.                               *)
(***************************************************************************)
EXTENDS Integers, Sequences, FiniteSets

CONSTANTS
  NCases,            \* load cases, 0 .. NCases - 1
  Plans,             \* the settings in use: see PlanType
  DivergeMaxCycles,  \* run.diverge_max_cycles; 0 turns the detector off
  MaxUnread,         \* bound: lines written between two polls
  None,
  Faults

(* "exception": a step of a case raises (a full disk, an unreadable        *)
(* animation), which no result of the solve stands for.                    *)
(* Concurrency, with slots or without; the backend; the soft and the hard  *)
(* timeout of an engine in polls, of which soft = 0 turns the first off.   *)
PlanType == [conc : Nat \ {0}, slotted : BOOLEAN, docker : BOOLEAN,
             soft : Nat, hard : Nat \ {0}]

ASSUME PoolAssumption ==
  /\ NCases \in Nat \ {0}
  /\ Plans \subseteq PlanType
  /\ \A plan \in Plans : plan.conc <= NCases
  /\ DivergeMaxCycles \in Nat /\ MaxUnread \in Nat
  /\ Faults \subseteq {"exception"}
  /\ None \notin {"ok", "diverged", "failed", "raised"}

VARIABLES
  plan,       \* the settings of this run (_slot_plan, RunOpts)
  main,       \* the caller: still solving, or done and how
  result,     \* what it returned: successful prefix and last run result
  pc,         \* where each case's solve_one is
  outcome,    \* how it ended
  client,     \* the solver process (or docker client) of each case: live?
  container,  \* and its container
  watch       \* the locals of each case's _run_engine

solver == <<client, container>>
vars   == <<plan, main, result, pc, outcome, solver, watch>>

(* unread: what the engine wrote since the last look; count: the monitor's *)
(* diverge cycles since an accepted step; polls: the elapsed time; verdict:*)
(* what the engine is about to be killed for.  streak is a history         *)
(* variable: the cycles the engine really is at, up to the limit.          *)
NoWatch == [unread |-> <<>>, count |-> 0, polls |-> 0, verdict |-> None, streak |-> 0]

-----------------------------------------------------------------------------
Cases    == 0 .. NCases - 1
Outcomes == {"ok", "diverged", "failed", "raised"}
Lines    == {"diverge", "accept"}
CasePcs  == {"waiting", "deck", "starter", "launch", "engine", "look", "kill",
             "extract", "finished"}

InFlight == {i \in Cases : pc[i] \notin {"waiting", "finished"}}
Alive(i) == client[i] \/ container[i]
SameSlot(i, j) == i % plan.conc = j % plan.conc

(* The lines of a chunk that nothing but diverge cycles follow.            *)
Trailing(chunk) ==
  {k \in 1 .. Len(chunk) : \A m \in k .. Len(chunk) : chunk[m] = "diverge"}

-----------------------------------------------------------------------------
(* Fault variants: what a plausible slip would make of an operator below.  *)

FedAcrossChunks(count, chunk) ==       \* an accepted step does not reset
  count + Cardinality({k \in 1 .. Len(chunk) : chunk[k] = "diverge"})

TakenFromPool(i) ==                    \* slots handed out as the pool does
  /\ pc[i] = "waiting"
  /\ \A j \in 0 .. i - 1 : pc[j] # "waiting"
  /\ Cardinality(InFlight) < plan.conc

PollForgetsTime(i) ==                  \* time since the last poll
  /\ pc[i] = "engine" /\ client[i]
  /\ watch' = [watch EXCEPT ![i].polls = 1]
  /\ pc' = [pc EXCEPT ![i] = "look"]
  /\ UNCHANGED <<plan, main, result, outcome, solver>>

TimedOutLate(i) ==                     \* one poll too many
  IF watch[i].polls > plan.hard THEN "failed"
  ELSE IF plan.soft > 0 /\ watch[i].polls > plan.soft THEN "diverged" ELSE None

LatestFailure ==                       \* results in order of completion
  CHOOSE n \in 0 .. NCases :
    /\ n < NCases => outcome[n] \notin {"ok", None}
    /\ \A j \in (n + 1) .. (NCases - 1) : n < NCases => outcome[j] \in {"ok", None}
    /\ n = NCases => \A j \in Cases : outcome[j] \in {"ok", None}

-----------------------------------------------------------------------------
(* When a worker takes case i.  One worker stops at the first failure; a   *)
(* slot solves its round-robin share in turn, and an exception ends its    *)
(* worker; the pool's threads take the cases in order.                     *)
CanStart(i) ==
  /\ pc[i] = "waiting"
  /\ CASE plan.conc = 1 -> \A j \in 0 .. i - 1 : outcome[j] = "ok"
       [] plan.conc > 1 /\ plan.slotted ->
            \A j \in 0 .. i - 1 : SameSlot(i, j) => outcome[j] \in Outcomes \ {"raised"}
       [] OTHER -> /\ \A j \in 0 .. i - 1 : pc[j] # "waiting"
                   /\ Cardinality(InFlight) < plan.conc

UpTo(limit, n) == IF n < limit THEN n ELSE limit

(* The first case that did not succeed, NCases if all did.                 *)
FirstFailure ==
  CHOOSE n \in 0 .. NCases :
    /\ n < NCases => outcome[n] # "ok"
    /\ \A j \in 0 .. n - 1 : outcome[j] = "ok"

(* DivergenceMonitor.feed: the diverge cycles after a chunk of lines.  The *)
(* console log is watched by a second monitor of the same kind, left out.  *)
Fed(count, chunk) ==
  Cardinality(Trailing(chunk)) + (IF Cardinality(Trailing(chunk)) = Len(chunk)
                                    THEN count ELSE 0)

-----------------------------------------------------------------------------
Init ==
  /\ plan \in Plans
  /\ main = "solving" /\ result = None
  /\ pc = [i \in Cases |-> "waiting"]
  /\ outcome = [i \in Cases |-> None]
  /\ client = [i \in Cases |-> FALSE]
  /\ container = [i \in Cases |-> FALSE]
  /\ watch = [i \in Cases |-> NoWatch]

GoTo(i, p) == pc' = [pc EXCEPT ![i] = p]
EndWith(i, o) ==
  /\ GoTo(i, "finished")
  /\ outcome' = [outcome EXCEPT ![i] = o]
  /\ watch' = [watch EXCEPT ![i] = NoWatch]

(* Popen of the solver, and of its container on the docker backend.        *)
Up(i) ==
  /\ client' = [client EXCEPT ![i] = TRUE]
  /\ container' = [container EXCEPT ![i] = plan.docker]
(* The end of both: the solver's own, or a kill of the client together     *)
(* with `docker kill` of the container its id file names.                  *)
Down(i) ==
  /\ client' = [client EXCEPT ![i] = FALSE]
  /\ container' = [container EXCEPT ![i] = FALSE]

-----------------------------------------------------------------------------
(* A worker's way through one case (_solve_case, run_solver).              *)

Take(i) ==
  /\ main = "solving" /\ CanStart(i)
  /\ GoTo(i, "deck")
  /\ UNCHANGED <<plan, main, result, outcome, solver, watch>>

(* The directory is wiped, the deck written; the starter is run, unless an *)
(* archived solve of the very same deck is reused.                         *)
WriteDeck(i) ==
  /\ pc[i] = "deck"
  /\ GoTo(i, "starter") /\ Up(i)
  /\ UNCHANGED <<plan, main, result, outcome, watch>>
Reuse(i) ==
  /\ pc[i] = "deck"
  /\ GoTo(i, "extract")
  /\ UNCHANGED <<plan, main, result, outcome, solver, watch>>
BackendMissing(i) ==
  /\ pc[i] = "deck"
  /\ EndWith(i, "failed")
  /\ UNCHANGED <<plan, main, result, solver>>

StarterEnds(i) ==
  /\ pc[i] = "starter"
  /\ GoTo(i, "launch") /\ Down(i)
  /\ UNCHANGED <<plan, main, result, outcome, watch>>
(* Errors in its listing, or its timeout: killed, container and all.       *)
StarterFails(i) ==
  /\ pc[i] = "starter"
  /\ EndWith(i, "failed") /\ Down(i)
  /\ UNCHANGED <<plan, main, result>>

(* The stale listing is dropped, a fresh monitor watches the new one.      *)
LaunchEngine(i) ==
  /\ pc[i] = "launch"
  /\ GoTo(i, "engine") /\ Up(i)
  /\ UNCHANGED <<plan, main, result, outcome, watch>>

(* What it writes during a look is read by the next one, as if written     *)
(* after it.                                                               *)
EngineWrites(i, line) ==
  /\ client[i] /\ pc[i] = "engine"
  /\ Len(watch[i].unread) < MaxUnread
  /\ watch' = [watch EXCEPT ![i].unread = Append(@, line),
                            ![i].streak = IF line = "accept" THEN 0
                                                  ELSE UpTo(DivergeMaxCycles, @ + 1)]
  /\ UNCHANGED <<plan, main, result, pc, outcome, solver>>

EngineExits(i) ==
  /\ client[i] /\ pc[i] \in {"engine", "look", "kill"}
  /\ Down(i)
  /\ UNCHANGED <<plan, main, result, pc, outcome, watch>>

(* proc.wait returns: the listing says NORMAL TERMINATION, or not.         *)
EngineReaped(i) ==
  /\ pc[i] = "engine" /\ ~client[i]
  /\ GoTo(i, "extract")
  /\ UNCHANGED <<plan, main, result, outcome, solver, watch>>
EngineFailed(i) ==
  /\ pc[i] = "engine" /\ ~client[i]
  /\ EndWith(i, "failed")
  /\ UNCHANGED <<plan, main, result, solver>>

(* proc.wait times out.                                                    *)
PollTimesOut(i) ==
  /\ pc[i] = "engine" /\ client[i]
  /\ watch' = [watch EXCEPT ![i].polls = @ + 1]
  /\ GoTo(i, "look")
  /\ UNCHANGED <<plan, main, result, outcome, solver>>

(* What the elapsed time alone says of a solve: None is to read on.        *)
TimedOut(i) ==
  IF watch[i].polls >= plan.hard THEN "failed"
  ELSE IF plan.soft > 0 /\ watch[i].polls >= plan.soft THEN "diverged" ELSE None

Judge(i, v) == GoTo(i, "kill") /\ watch' = [watch EXCEPT ![i].verdict = v]

LookAtClock(i) ==
  /\ pc[i] = "look" /\ TimedOut(i) # None
  /\ Judge(i, TimedOut(i))
  /\ UNCHANGED <<plan, main, result, outcome, solver>>

LookAtListing(i) ==
  LET count == Fed(watch[i].count, watch[i].unread) IN
  /\ pc[i] = "look" /\ TimedOut(i) = None
  /\ IF DivergeMaxCycles > 0 /\ count >= DivergeMaxCycles
       THEN Judge(i, "diverged")
       ELSE /\ GoTo(i, "engine")
            /\ watch' = [watch EXCEPT ![i].unread = <<>>, ![i].count = count]
  /\ UNCHANGED <<plan, main, result, outcome, solver>>

(* The finally block: whatever still runs is killed, container and all.    *)
Kill(i) ==
  /\ pc[i] = "kill"
  /\ Down(i)
  /\ EndWith(i, watch[i].verdict)
  /\ UNCHANGED <<plan, main, result>>

Extract(i) ==
  /\ pc[i] = "extract"
  /\ EndWith(i, "ok")
  /\ UNCHANGED <<plan, main, result, solver>>

Raises(i) ==
  /\ "exception" \in Faults
  /\ pc[i] \in {"deck", "launch", "extract"}
  /\ EndWith(i, "raised")
  /\ UNCHANGED <<plan, main, result, solver>>

-----------------------------------------------------------------------------
(* The caller.                                                             *)

DoneAtException ==                     \* raised without leaving the pool
  \/ \E i \in Cases : outcome[i] = "raised"
  \/ InFlight = {} /\ \A i \in Cases : ~CanStart(i)

(* Leaving the pool waits for every case it was given; then an exception   *)
(* is raised again, or the results are cut off at the first failure        *)
(* (_sequential_contract).                                                 *)
AllDone == InFlight = {} /\ \A i \in Cases : ~CanStart(i)

CutOff(n) == [solved |-> n, last |-> IF n = NCases THEN "ok" ELSE outcome[n]]

Return ==
  /\ main = "solving" /\ AllDone
  /\ \A i \in Cases : outcome[i] # "raised"
  /\ main' = "returned" /\ result' = CutOff(FirstFailure)
  /\ UNCHANGED <<plan, pc, outcome, solver, watch>>

Raise ==
  /\ main = "solving" /\ AllDone
  /\ \E i \in Cases : outcome[i] = "raised"
  /\ main' = "raised"
  /\ UNCHANGED <<plan, result, pc, outcome, solver, watch>>

WorkerStep(i) ==
  \/ Take(i) \/ WriteDeck(i) \/ Reuse(i) \/ BackendMissing(i)
  \/ StarterEnds(i) \/ StarterFails(i) \/ LaunchEngine(i)
  \/ EngineReaped(i) \/ EngineFailed(i)
  \/ PollTimesOut(i) \/ LookAtClock(i) \/ LookAtListing(i) \/ Kill(i)
  \/ Extract(i) \/ Raises(i)

EngineStep(i) == EngineExits(i) \/ \E line \in Lines : EngineWrites(i, line)

Next ==
  \/ \E i \in Cases : WorkerStep(i) \/ EngineStep(i)
  \/ Return \/ Raise

Spec == Init /\ [][Next]_vars

(* Threads are scheduled, and the starter is killed at its timeout; the    *)
(* engine owes nothing.                                                    *)
FairSpec ==
  Spec /\ (\A i \in Cases : WF_vars(WorkerStep(i))) /\ WF_vars(Return \/ Raise)

-----------------------------------------------------------------------------
TypeOK ==
  /\ plan \in Plans
  /\ main \in {"solving", "returned", "raised"}
  /\ result \in [solved : 0 .. NCases, last : Outcomes] \cup {None}
  /\ pc \in [Cases -> CasePcs]
  /\ outcome \in [Cases -> Outcomes \cup {None}]
  /\ client \in [Cases -> BOOLEAN] /\ container \in [Cases -> BOOLEAN]
  /\ watch \in [Cases -> [unread : Seq(Lines), count : Nat, polls : 0 .. plan.hard,
                          verdict : {"diverged", "failed", None},
                          streak : 0 .. DivergeMaxCycles]]

(* The results have the shape of the sequential loop's, in whatever order  *)
(* the workers finished: as many as succeeded before the first failing     *)
(* case, and that case's own failure (_sequential_contract).               *)
SequentialContract ==
  main = "returned" =>
    /\ \A j \in 0 .. result.solved - 1 : outcome[j] = "ok"
    /\ result.solved < NCases => /\ outcome[result.solved] # "ok"
                                 /\ result.last = outcome[result.solved]
    /\ result.solved = NCases => result.last = "ok"

(* "A slot's np/nt is never used by two solves at once", not even by the   *)
(* container of a solve that was given up, and the load stays capped at    *)
(* the concurrency: a container never outlives the watchdog's verdict on   *)
(* its solve (_slot_plan, _kill_container).                                *)
LoadIsCapped ==
  /\ plan.slotted \/ plan.conc = 1 =>
       \A i, j \in Cases : i # j /\ SameSlot(i, j) => ~(Alive(i) /\ Alive(j))
  /\ Cardinality({i \in Cases : Alive(i)}) <= plan.conc
  /\ \A i \in Cases : Alive(i) => pc[i] \in {"starter", "engine", "look", "kill"}

(* When the iteration goes on, or its exception reaches the loop, no       *)
(* solver runs: the next iteration wipes the directories they work in.     *)
NothingOutlives == main # "solving" => \A i \in Cases : ~Alive(i)

(* The watchdog gives up a solve for what it wrote only if it is at the    *)
(* time in an unbroken streak of diverge cycles, and each that is in such  *)
(* a streak when it is looked at: lines of earlier chunks count, and a     *)
(* recovery within a chunk is seen (DivergenceMonitor).                    *)
WatchdogIsExact ==
  [][\A i \in Cases : pc[i] = "look" =>
       LET hopeless == watch[i].streak >= DivergeMaxCycles
       IN  /\ pc'[i] = "kill" /\ TimedOut(i) = None => hopeless
           /\ hopeless /\ DivergeMaxCycles > 0 => pc'[i] \in {"look", "kill"}]_vars

(* The iteration ends however long a solver hangs.                         *)
SolvesEnd == main = "solving" ~> main # "solving"
=============================================================================
