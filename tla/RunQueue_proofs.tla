--------------------------- MODULE RunQueue_proofs ---------------------------
(***************************************************************************)
(* Proofs about the run queue, for any number of entries, folders, runner  *)
(* processes, optimisation processes and browser sessions.                 *)
(***************************************************************************)
EXTENDS RunQueue, FiniteSetTheorems, TLAPS

(* Where each runner program counter belongs.                              *)
LEMMA RunnerPcFacts ==
  /\ "busy" \in HoldingPcs /\ "spawn" \in HoldingPcs
  /\ "wait" \in HoldingPcs /\ "mark" \in HoldingPcs
  /\ "reconcile" \notin HoldingPcs /\ "next" \notin HoldingPcs
  /\ "release" \notin HoldingPcs /\ "boot" \notin HoldingPcs
  /\ "exited" \notin HoldingPcs /\ "dead" \notin HoldingPcs
  /\ "busy" \in RunnerPcs /\ "spawn" \in RunnerPcs
  /\ "wait" \in RunnerPcs /\ "mark" \in RunnerPcs
  /\ "reconcile" \in RunnerPcs /\ "next" \in RunnerPcs
  /\ "release" \in RunnerPcs /\ "boot" \in RunnerPcs
  /\ "exited" \in RunnerPcs /\ "dead" \in RunnerPcs
  BY DEF HoldingPcs, OwnerPcs, RunnerPcs

LEMMA SuccNat == \A n \in Nat : 1 + n \in Nat
  OBVIOUS

(* A step that only gives one runner new, fitting locals.                  *)
LEMMA RunnerUpdate ==
  ASSUME RunnerTypeOK, NEW r \in Runners, NEW v \in RunnerLocals, LocalsFit(v),
         runner' = [runner EXCEPT ![r] = v]
  PROVE  RunnerTypeOK'
<1>1. runner' \in [Runners -> RunnerLocals]
  BY DEF RunnerTypeOK
<1>2. \A q \in Runners : runner'[q] = IF q = r THEN v ELSE runner[q]
  BY DEF RunnerTypeOK
<1>3. \A q \in Runners : LocalsFit(runner'[q])
  BY <1>2 DEF RunnerTypeOK
<1> QED
  BY <1>1, <1>3 DEF RunnerTypeOK, LocalsFit

(* Moving a runner's program counter off the entry-holding ones.           *)
LEMMA RunnerMoves ==
  ASSUME RunnerTypeOK, NEW r \in Runners, NEW c \in RunnerPcs,
         runner' = [runner EXCEPT ![r].pc = c],
         c \notin HoldingPcs \/ (c = "spawn" /\ runner[r].pc = "busy")
  PROVE  RunnerTypeOK'
<1> DEFINE v == [runner[r] EXCEPT !.pc = c]
<1>1. runner[r] \in RunnerLocals /\ LocalsFit(runner[r])
  BY DEF RunnerTypeOK
<1>2. v \in RunnerLocals
  BY <1>1 DEF RunnerLocals
<1>3. v.pc = c /\ v.entry = runner[r].entry /\ v.work = runner[r].work
  BY <1>1 DEF RunnerLocals
<1>4. LocalsFit(v)
  BY <1>1, <1>3, RunnerPcFacts DEF LocalsFit
<1> QED
  BY <1>2, <1>4, RunnerUpdate

LEMMA InitType == Init => TypeOK
<1> SUFFICES ASSUME Init PROVE TypeOK
  OBVIOUS
<1>1. FileTypeOK
  BY DEF Init, FileTypeOK, EntryStates, InQueue, Queued, Active, Finished
<1>2. RunnerTypeOK
  BY DEF Init, RunnerTypeOK, RunnerLocals, LocalsFit, NoLocals, RunnerPcs, HoldingPcs
<1>3. RunTypeOK
  BY DEF Init, RunTypeOK, RunPcs, RunStates, Written, Live, LivePcs
<1>4. DiskTypeOK /\ SessionTypeOK
  BY DEF Init, DiskTypeOK, RunStates, SessionTypeOK
<1> QED
  BY <1>1, <1>2, <1>3, <1>4 DEF TypeOK

(* A run process moves on with new arguments.                              *)
LEMMA RunUpdate ==
  ASSUME RunTypeOK, NEW p \in Runs,
         NEW v \in [pc : RunPcs \ {"unborn"}, folder : Folders \cup {None},
                    entry : Ids \cup {None}, wrote : Written],
         v.pc \in LivePcs => v.folder \in Folders,
         run' = [run EXCEPT ![p] = v]
  PROVE  RunTypeOK'
<1>1. \A o \in Runs : run'[o] = IF o = p THEN v ELSE run[o]
  BY DEF RunTypeOK
<1>2. \A o \in Runs : Live(o)' => run'[o].folder \in Folders
  BY <1>1 DEF RunTypeOK, Live
<1>3. \A o \in Runs : run'[o].pc = "unborn" => run'[o].entry = None
  BY <1>1 DEF RunTypeOK
<1>4. run' \in [Runs -> [pc : RunPcs, folder : Folders \cup {None},
                        entry : Ids \cup {None}, wrote : Written]]
  BY DEF RunTypeOK
<1> QED
  BY <1>2, <1>3, <1>4 DEF RunTypeOK

(* Popen yields a booting run.                                             *)
LEMMA LaunchType ==
  ASSUME RunTypeOK, NEW p \in Runs, NEW d \in Folders, NEW e \in Ids \cup {None},
         Launch(p, d, e)
  PROVE  RunTypeOK'
<1> DEFINE v == [run[p] EXCEPT !.pc = "boot", !.folder = d, !.entry = e]
<1>1. v \in [pc : RunPcs \ {"unborn"}, folder : Folders \cup {None},
             entry : Ids \cup {None}, wrote : Written]
  BY DEF RunTypeOK, RunPcs, LivePcs
<1>2. v.folder = d
  BY DEF RunTypeOK
<1>3. run' = [run EXCEPT ![p] = v]
  BY DEF Launch, RunTypeOK
<1> QED
  BY <1>1, <1>2, <1>3, RunUpdate

LEMMA GuiType == TypeOK /\ GuiStep => TypeOK'
<1> USE ConstantsAssumption
<1> SUFFICES ASSUME TypeOK, GuiStep PROVE TypeOK'
  OBVIOUS
<1>1. ASSUME NEW e \in Ids, NEW b \in Bases, NEW k \in 1 .. MaxVariants, Add(e, b, k)
      PROVE  TypeOK'
  <2>1. Cardinality({x \in Ids : state[x] # "new"}) \in Nat
    BY FS_Subset, FS_CardinalityType
  <2>2. <<b, k>> \in Folders
    BY DEF Folders
  <2>3. FileTypeOK'
    <3>0. PICK f \in Folders : f = <<b, k>>
      BY <2>2
    <3>1. /\ state' = [state EXCEPT ![e] = "pending"]
          /\ folder' = [folder EXCEPT ![e] = f]
          /\ rank' = [rank EXCEPT ![e] = 1 + Cardinality({x \in Ids : state[x] # "new"})]
          /\ configs' = configs \cup {e}
          /\ UNCHANGED <<paused, runner_pid>>
      BY <1>1, <3>0 DEF Add
    <3>2. state' \in [Ids -> EntryStates]
      <4>1. "pending" \in EntryStates
        BY DEF EntryStates, Queued, Active
      <4>2. state \in [Ids -> EntryStates]
        BY DEF TypeOK, FileTypeOK
      <4>3. state' = [state EXCEPT ![e] = "pending"]
        BY <3>1
      <4> QED
        BY <4>1, <4>2, <4>3
    <3>3. rank' \in [Ids -> Nat]
      <4>1. PICK n \in Nat : rank' = [rank EXCEPT ![e] = n]
        BY <2>1, <3>1, SuccNat
      <4>2. rank \in [Ids -> Nat]
        BY DEF TypeOK, FileTypeOK
      <4> QED
        BY <4>1, <4>2
    <3>4. /\ folder' \in [Ids -> Folders \cup {None}]
          /\ \A x \in Ids : InQueue(x)' => folder'[x] \in Folders
      BY <3>1 DEF TypeOK, FileTypeOK, InQueue
    <3> QED
      BY <3>1, <3>2, <3>3, <3>4 DEF TypeOK, FileTypeOK
  <2> QED
    BY <1>1, <2>3 DEF Add, disk, TypeOK, RunnerTypeOK, RunTypeOK, DiskTypeOK,
       SessionTypeOK, Live
<1>2. ASSUME NEW gone, Drop(gone) PROVE TypeOK'
  <2>1. FileTypeOK'
    BY <1>2 DEF Drop, TypeOK, FileTypeOK, EntryStates, InQueue, Queued, Active, Finished
  <2> QED
    BY <1>2, <2>1 DEF Drop, disk, TypeOK, RunnerTypeOK, RunTypeOK, DiskTypeOK,
       SessionTypeOK, Live
<1>3. ASSUME NEW e \in Ids, DeleteConfig(e) PROVE TypeOK'
  BY <1>3 DEF DeleteConfig, file, disk, TypeOK, FileTypeOK, InQueue, RunnerTypeOK,
     RunTypeOK, DiskTypeOK, SessionTypeOK, Live
<1>4. ASSUME NEW e \in Ids, NEW x \in Ids, Move(e, x) PROVE TypeOK'
  BY <1>4 DEF Move, disk, TypeOK, FileTypeOK, InQueue, RunnerTypeOK, RunTypeOK,
     DiskTypeOK, SessionTypeOK, Live
<1>5. ASSUME NEW s \in Sessions, ClickStart(s) \/ Unpause(s) \/ Pause(s) PROVE TypeOK'
  <2>1. SessionTypeOK'
    <3>1. CASE ClickStart(s)
      <4>1. session' = [session EXCEPT ![s].pc = "unpause"]
        BY <3>1 DEF ClickStart
      <4> QED
        BY <4>1 DEF TypeOK, SessionTypeOK
    <3>2. CASE Unpause(s)
      <4>1. session' = [session EXCEPT ![s].pc = "spawn"]
        BY <3>2 DEF Unpause
      <4> QED
        BY <4>1 DEF TypeOK, SessionTypeOK
    <3>3. CASE Pause(s)
      <4>1. UNCHANGED session
        BY <3>3 DEF Pause
      <4> QED
        BY <4>1 DEF TypeOK, SessionTypeOK
    <3> QED
      BY <1>5, <3>1, <3>2, <3>3
  <2>2. FileTypeOK'
    BY <1>5 DEF ClickStart, Unpause, Pause, file, TypeOK, FileTypeOK, InQueue
  <2>3. UNCHANGED <<runner, run, disk>>
    BY <1>5 DEF ClickStart, Unpause, Pause
  <2> QED
    BY <2>1, <2>2, <2>3 DEF TypeOK, RunnerTypeOK, RunTypeOK, DiskTypeOK, disk, Live
<1>6. ASSUME NEW s \in Sessions, SpawnRunner(s) PROVE TypeOK'
  <2>1. RunnerTypeOK'
    <3>1. PICK r \in Runners : runner' = [runner EXCEPT ![r].pc = "boot"]
      BY <1>6 DEF SpawnRunner
    <3> QED
      BY <3>1, RunnerPcFacts, RunnerMoves DEF TypeOK
  <2>2. SessionTypeOK'
    BY <1>6 DEF SpawnRunner, TypeOK, SessionTypeOK
  <2> QED
    BY <1>6, <2>1, <2>2 DEF SpawnRunner, file, disk, TypeOK, FileTypeOK, InQueue,
       RunTypeOK, DiskTypeOK, Live
<1>7. ASSUME NEW s \in Sessions, LaunchResume(s) PROVE TypeOK'
  <2>1. RunTypeOK'
    <3>1. PICK p \in Runs : Launch(p, session[s].folder, None)
      BY <1>7 DEF LaunchResume
    <3>2. session[s].folder \in Folders
      BY <1>7 DEF LaunchResume, TypeOK, SessionTypeOK
    <3> QED
      BY <3>1, <3>2, LaunchType DEF TypeOK
  <2>2. SessionTypeOK'
    BY <1>7 DEF LaunchResume, TypeOK, SessionTypeOK
  <2> QED
    BY <1>7, <2>1, <2>2 DEF LaunchResume, file, disk, TypeOK, FileTypeOK, InQueue,
       RunnerTypeOK, DiskTypeOK
<1>8. ASSUME NEW s \in Sessions, NEW b \in Bases, ClickResume(s, b) PROVE TypeOK'
  <2>1. Base(b) \in Folders
    BY <1>8 DEF ClickResume, TypeOK, DiskTypeOK
  <2>2. SessionTypeOK'
    BY <1>8, <2>1 DEF ClickResume, TypeOK, SessionTypeOK
  <2> QED
    BY <1>8, <2>2 DEF ClickResume, file, disk, TypeOK, FileTypeOK, InQueue,
       RunnerTypeOK, RunTypeOK, DiskTypeOK, Live
<1>9. ASSUME NEW d \in Folders, Kill(d) PROVE TypeOK'
  <2>1. RunTypeOK'
    <3>1. pidfile[d] \in Runs
      BY <1>9 DEF Kill, IsRunning, TypeOK, DiskTypeOK
    <3> DEFINE v == [run[pidfile[d]] EXCEPT !.pc = "killed", !.folder = None]
    <3>2. v \in [pc : RunPcs \ {"unborn"}, folder : Folders \cup {None},
                 entry : Ids \cup {None}, wrote : Written]
      BY <3>1 DEF TypeOK, RunTypeOK, RunPcs, LivePcs
    <3>3. v.pc \notin LivePcs
      BY <3>1 DEF TypeOK, RunTypeOK, LivePcs
    <3>4. run' = [run EXCEPT ![pidfile[d]] = v]
      BY <1>9, <3>1 DEF Kill, TypeOK, RunTypeOK
    <3> QED
      BY <3>1, <3>2, <3>3, <3>4, RunUpdate DEF TypeOK
  <2> QED
    BY <1>9, <2>1 DEF Kill, file, disk, TypeOK, FileTypeOK, InQueue, RunnerTypeOK,
       DiskTypeOK, SessionTypeOK
<1> QED
  BY <1>1, <1>2, <1>3, <1>4, <1>5, <1>6, <1>7, <1>8, <1>9
     DEF GuiStep, Remove, ClearFinished, ClearAll

LEMMA RunnerType ==
  ASSUME NEW r \in Runners, TypeOK, RunnerStep(r) \/ RunnerDies(r)
  PROVE  TypeOK'
<1> USE ConstantsAssumption
<1>1. UNCHANGED <<disk, session, configs>>
  BY DEF RunnerStep, RunnerDies, ClaimSingleton, Reconcile, Claim, Skip, Drained,
     FindFree, LaunchEntry, Reap, Mark, Release
<1>2. DiskTypeOK' /\ SessionTypeOK'
  BY <1>1 DEF disk, TypeOK, DiskTypeOK, SessionTypeOK
<1>3. CASE ClaimSingleton(r) \/ Drained(r) \/ FindFree(r) \/ Release(r) \/ RunnerDies(r)
  <2>1. RunnerTypeOK'
    <3>1. CASE ClaimSingleton(r)
      BY <3>1, RunnerPcFacts, RunnerMoves DEF ClaimSingleton, TypeOK
    <3>2. CASE Drained(r) \/ Release(r)
      BY <3>2, RunnerPcFacts, RunnerMoves DEF Drained, Release, TypeOK
    <3>3. CASE FindFree(r)
      BY <3>3, RunnerPcFacts, RunnerMoves DEF FindFree, TypeOK
    <3>4. CASE RunnerDies(r)
      <4> DEFINE v == [NoLocals EXCEPT !.pc = "dead"]
      <4>1. v \in RunnerLocals /\ LocalsFit(v)
        BY RunnerPcFacts DEF NoLocals, RunnerLocals, LocalsFit
      <4> QED
        BY <3>4, <4>1, RunnerUpdate DEF RunnerDies, TypeOK
    <3> QED
      BY <1>3, <3>1, <3>2, <3>3, <3>4
  <2>2. FileTypeOK'
    BY <1>3, <1>1 DEF ClaimSingleton, Drained, FindFree, Release, RunnerDies, file, TypeOK,
       FileTypeOK, InQueue
  <2>3. RunTypeOK'
    BY <1>3 DEF ClaimSingleton, Drained, FindFree, Release, RunnerDies, TypeOK, RunTypeOK,
       Live
  <2> QED
    BY <1>2, <2>1, <2>2, <2>3 DEF TypeOK
<1>4. CASE Reconcile(r)
  <2>1. FileTypeOK'
    BY <1>4, <1>1 DEF Reconcile, Classify, TypeOK, FileTypeOK, EntryStates, InQueue, Queued,
       Active, Finished
  <2>2. RunnerTypeOK'
    BY <1>4, RunnerPcFacts, RunnerMoves DEF Reconcile, TypeOK
  <2> QED
    BY <1>2, <1>4, <2>1, <2>2 DEF Reconcile, TypeOK, RunTypeOK, Live
<1>5. ASSUME NEW e \in Ids, Claim(r, e) PROVE TypeOK'
  <2>1. FileTypeOK'
    BY <1>5, <1>1 DEF Claim, IsNextPending, TypeOK, FileTypeOK, EntryStates, InQueue, Queued,
       Active, Finished
  <2>2. folder[e] \in Folders
    BY <1>5 DEF Claim, IsNextPending, TypeOK, FileTypeOK, InQueue, Queued, Active
  <2>3. RunnerTypeOK'
    <3> DEFINE v == [runner[r] EXCEPT !.pc = "busy", !.entry = e, !.work = folder[e]]
    <3>1. runner[r] \in RunnerLocals
      BY DEF TypeOK, RunnerTypeOK
    <3>2. v \in RunnerLocals /\ LocalsFit(v)
      BY <2>2, <3>1, RunnerPcFacts DEF RunnerLocals, LocalsFit
    <3> QED
      BY <1>5, <3>2, RunnerUpdate DEF Claim, TypeOK
  <2> QED
    BY <1>2, <1>5, <2>1, <2>3 DEF Claim, TypeOK, RunTypeOK, Live
<1>6. ASSUME NEW e \in Ids, Skip(r, e) PROVE TypeOK'
  <2>1. FileTypeOK'
    BY <1>6, <1>1 DEF Skip, IsNextPending, TypeOK, FileTypeOK, EntryStates, InQueue, Queued,
       Active, Finished
  <2> QED
    BY <1>2, <1>6, <2>1 DEF Skip, TypeOK, RunnerTypeOK, RunTypeOK, Live
<1>7. CASE LaunchEntry(r)
  <2>1. PICK p \in Runs :
          /\ Launch(p, runner[r].work, runner[r].entry)
          /\ runner' = [runner EXCEPT ![r].pc = "wait", ![r].child = p]
    BY <1>7 DEF LaunchEntry
  <2>2. runner[r].pc = "spawn" /\ UNCHANGED file
    BY <1>7 DEF LaunchEntry
  <2>3. runner[r].work \in Folders /\ runner[r].entry \in Ids
    BY <2>2, RunnerPcFacts DEF TypeOK, RunnerTypeOK, LocalsFit
  <2>4. RunTypeOK'
    BY <2>1, <2>3, LaunchType DEF TypeOK
  <2>5. RunnerTypeOK'
    <3> DEFINE v == [runner[r] EXCEPT !.pc = "wait", !.child = p]
    <3>1. runner[r] \in RunnerLocals
      BY DEF TypeOK, RunnerTypeOK
    <3>2. v \in RunnerLocals /\ LocalsFit(v)
      BY <2>3, <3>1, RunnerPcFacts DEF RunnerLocals, LocalsFit
    <3> QED
      BY <2>1, <3>2, RunnerUpdate DEF TypeOK
  <2>6. FileTypeOK'
    BY <1>1, <2>2 DEF file, TypeOK, FileTypeOK, InQueue
  <2> QED
    BY <1>2, <2>4, <2>5, <2>6 DEF TypeOK
<1>8. CASE Reap(r)
  <2>1. RunnerTypeOK'
    <3>1. PICK c \in {"done", "failed"} :
            runner' = [runner EXCEPT ![r].pc = "mark", ![r].verdict = c]
      BY <1>8 DEF Reap, Classify
    <3> DEFINE v == [runner[r] EXCEPT !.pc = "mark", !.verdict = c]
    <3>2. runner[r] \in RunnerLocals /\ runner[r].entry \in Ids /\ runner[r].work \in Folders
      BY <1>8, RunnerPcFacts DEF Reap, TypeOK, RunnerTypeOK, LocalsFit
    <3>3. v \in RunnerLocals /\ LocalsFit(v)
      BY <3>2, RunnerPcFacts DEF RunnerLocals, LocalsFit
    <3> QED
      BY <3>1, <3>3, RunnerUpdate DEF TypeOK
  <2> QED
    BY <1>2, <1>8, <2>1 DEF Reap, file, TypeOK, FileTypeOK, InQueue, RunTypeOK, Live
<1>9. CASE Mark(r)
  <2>1. RunnerTypeOK'
    <3>1. NoLocals \in RunnerLocals /\ LocalsFit(NoLocals)
      BY RunnerPcFacts DEF NoLocals, RunnerLocals, LocalsFit
    <3> QED
      BY <1>9, <3>1, RunnerUpdate DEF Mark, TypeOK
  <2>2. runner[r].verdict \in {"done", "failed"} /\ runner[r].entry \in Ids
    BY <1>9, RunnerPcFacts DEF Mark, TypeOK, RunnerTypeOK, LocalsFit
  <2>3. FileTypeOK'
    BY <1>9, <1>1, <2>2 DEF Mark, TypeOK, FileTypeOK, EntryStates, InQueue, Queued,
       Active, Finished
  <2> QED
    BY <1>2, <1>9, <2>1, <2>3 DEF Mark, TypeOK, RunTypeOK, Live
<1> QED
  BY <1>3, <1>4, <1>5, <1>6, <1>7, <1>8, <1>9 DEF RunnerStep

LEMMA RunType ==
  ASSUME NEW p \in Runs, TypeOK, RunStep(p)
  PROVE  TypeOK'
<1>1. UNCHANGED <<file, configs, runner, session>>
  BY DEF RunStep, RunUnreadable, RunRejected, RunWritesPid, RunSetupFails, RunStarts,
     RunCheckpoints, RunRaises, RunLetsGo, RunAborts, RunExits, RunEnds, MarkFailed, disk
<1>2. FileTypeOK' /\ RunnerTypeOK' /\ SessionTypeOK'
  BY <1>1 DEF file, TypeOK, FileTypeOK, InQueue, RunnerTypeOK, SessionTypeOK
<1>3. run[p].folder \in Folders
  BY DEF RunStep, RunUnreadable, RunRejected, RunWritesPid, RunSetupFails, RunStarts,
     RunCheckpoints, RunRaises, RunLetsGo, RunAborts, RunExits, RunEnds, TypeOK,
     RunTypeOK, Live,
     LivePcs
<1>4. CASE RunRejected(p) \/ RunSetupFails(p) \/ RunAborts(p)
  BY <1>2, <1>3, <1>4 DEF RunRejected, RunSetupFails, RunAborts, MarkFailed, TypeOK,
     RunTypeOK, DiskTypeOK, RunPcs, RunStates, Written, Live, LivePcs
<1>5. CASE RunUnreadable(p)
  BY <1>2, <1>3, <1>5 DEF RunUnreadable, disk, TypeOK, RunTypeOK, DiskTypeOK, RunPcs, Live,
     LivePcs
<1>6. CASE RunWritesPid(p)
  BY <1>2, <1>3, <1>6 DEF RunWritesPid, TypeOK, RunTypeOK, DiskTypeOK, RunPcs, Live, LivePcs
<1>7. CASE RunStarts(p) \/ RunRaises(p)
  BY <1>2, <1>3, <1>7 DEF RunStarts, RunRaises, TypeOK, RunTypeOK, DiskTypeOK, RunPcs,
     RunStates, Written, Live, LivePcs
<1>8. CASE RunCheckpoints(p)
  BY <1>2, <1>3, <1>8 DEF RunCheckpoints, TypeOK, RunTypeOK, DiskTypeOK, Live
<1>9. CASE RunExits(p) \/ RunLetsGo(p)
  BY <1>2, <1>3, <1>9 DEF RunExits, RunLetsGo, TypeOK, RunTypeOK, DiskTypeOK, RunPcs, Live,
     LivePcs
<1>10. ASSUME NEW s \in {"ended", "failed"}, RunEnds(p, s) PROVE TypeOK'
  <2>1. s \in RunStates /\ s \in Written /\ "post" \in RunPcs
    BY DEF RunStates, Written, RunPcs, LivePcs
  <2>2. RunTypeOK'
    BY <1>3, <1>10, <2>1 DEF RunEnds, TypeOK, RunTypeOK, Live
  <2>3. DiskTypeOK'
    BY <1>3, <1>10, <2>1 DEF RunEnds, TypeOK, DiskTypeOK
  <2> QED
    BY <1>2, <2>2, <2>3 DEF TypeOK
<1> QED
  BY <1>4, <1>5, <1>6, <1>7, <1>8, <1>9, <1>10 DEF RunStep

LEMMA NextType == TypeOK /\ [Next]_vars => TypeOK'
<1> SUFFICES ASSUME TypeOK, [Next]_vars PROVE TypeOK'
  OBVIOUS
<1>1. CASE UNCHANGED vars
  BY <1>1 DEF vars, file, disk, TypeOK, FileTypeOK, RunnerTypeOK, RunTypeOK, DiskTypeOK,
     SessionTypeOK, InQueue, Live
<1> QED
  BY <1>1, GuiType, RunnerType, RunType DEF Next

(* Every step keeps every variable within its type: the queue file, the    *)
(* processes' locals and the folders' files (all of RunQueue's actions).   *)
THEOREM TypeCorrect == Spec => []TypeOK
  BY InitType, NextType, PTL DEF Spec

-----------------------------------------------------------------------------
(* The inductive invariant behind the singleton and at-most-once claims.   *)

(* An entry is no None, so a run launched for one is told from a Resume.   *)
LEMMA EntryIsNotNone == \A e \in Ids : e # None
  BY ConstantsAssumption

LEMMA InitInv == Init => QueueInv
<1> SUFFICES ASSUME Init PROVE QueueInv
  OBVIOUS
<1>1. TypeOK
  BY InitType
<1>2. \A r \in Runners : runner[r].pc = "unborn"
  BY DEF Init, NoLocals
<1>3. \A p \in Runs : run[p].entry = None
  BY DEF Init
<1> QED
  BY <1>1, <1>2, <1>3 DEF QueueInv, OwnerIsRecorded, ClaimIsHeld, LaunchFollowsClaim,
     LaunchedOnce, OwnerPcs, HoldingPcs

(* While one runner owns the queue, every other is past or before owning.  *)
LEMMA OneOwner ==
  ASSUME OwnerIsRecorded, NEW r \in Runners, NEW q \in Runners,
         runner[r].pc \in OwnerPcs, runner[q].pc \in OwnerPcs
  PROVE  r = q
  BY DEF OwnerIsRecorded

(* A step that leaves entries' states, runners and launches alone.         *)
LEMMA InvStutters ==
  ASSUME QueueInv, TypeOK', UNCHANGED <<state, runner, runner_pid>>,
         \A p \in Runs : run'[p].entry = run[p].entry
  PROVE  QueueInv'
  BY DEF QueueInv, OwnerIsRecorded, ClaimIsHeld, LaunchFollowsClaim, LaunchedOnce

LEMMA GuiInv == QueueInv /\ GuiStep => QueueInv'
<1> SUFFICES ASSUME QueueInv, GuiStep PROVE QueueInv'
  OBVIOUS
<1>1. TypeOK /\ TypeOK'
  BY GuiType DEF QueueInv
<1>2. ASSUME NEW e \in Ids, NEW b \in Bases, NEW k \in 1 .. MaxVariants, Add(e, b, k)
      PROVE  QueueInv'
  <2>1. /\ state[e] = "new"
        /\ state' = [state EXCEPT ![e] = "pending"]
        /\ UNCHANGED <<runner, runner_pid, run>>
    BY <1>2 DEF Add
  <2>2. \A x \in Ids : state'[x] = IF x = e THEN "pending" ELSE state[x]
    BY <1>1, <2>1 DEF TypeOK, FileTypeOK
  <2>3. ClaimIsHeld'
    BY <1>1, <2>1, <2>2 DEF QueueInv, ClaimIsHeld, TypeOK, RunnerTypeOK, LocalsFit
  <2>4. \A p \in Runs : run[p].entry # None => run[p].entry \in Ids
    BY <1>1 DEF TypeOK, RunTypeOK
  <2>5. LaunchFollowsClaim'
    BY <2>1, <2>2, <2>4 DEF QueueInv, LaunchFollowsClaim
  <2> QED
    BY <1>1, <2>1, <2>3, <2>5 DEF QueueInv, OwnerIsRecorded, LaunchedOnce
<1>3. ASSUME NEW gone, Drop(gone) PROVE QueueInv'
  <2>1. /\ \A x \in Ids : state'[x] = IF x \in gone THEN "removed" ELSE state[x]
        /\ UNCHANGED <<runner, runner_pid, run>>
    BY <1>3 DEF Drop
  <2>2. ClaimIsHeld'
    BY <1>1, <2>1 DEF QueueInv, ClaimIsHeld, TypeOK, RunnerTypeOK, LocalsFit
  <2>3. \A p \in Runs : run[p].entry # None => run[p].entry \in Ids
    BY <1>1 DEF TypeOK, RunTypeOK
  <2>4. LaunchFollowsClaim'
    BY <2>1, <2>3 DEF QueueInv, LaunchFollowsClaim
  <2> QED
    BY <1>1, <2>1, <2>2, <2>4 DEF QueueInv, OwnerIsRecorded, LaunchedOnce
<1>4. ASSUME NEW e \in Ids, NEW x \in Ids, DeleteConfig(e) \/ Move(e, x) PROVE QueueInv'
  BY <1>1, <1>4, InvStutters DEF DeleteConfig, Move, file
<1>5. ASSUME NEW s \in Sessions, ClickStart(s) \/ Unpause(s) \/ Pause(s) PROVE QueueInv'
  BY <1>1, <1>5, InvStutters DEF ClickStart, Unpause, Pause, file
<1>6. ASSUME NEW s \in Sessions, SpawnRunner(s) PROVE QueueInv'
  <2>1. PICK r \in Runners : runner' = [runner EXCEPT ![r].pc = "boot"]
    BY <1>6 DEF SpawnRunner
  <2>2. \A q \in Runners : runner'[q].pc \in OwnerPcs => runner'[q] = runner[q]
    BY <1>1, <2>1 DEF TypeOK, RunnerTypeOK, RunnerLocals, OwnerPcs
  <2>3. HoldingPcs \subseteq OwnerPcs /\ {"busy", "spawn"} \subseteq OwnerPcs
    BY DEF HoldingPcs, OwnerPcs
  <2>4. UNCHANGED <<state, runner_pid, run>>
    BY <1>6 DEF SpawnRunner, file
  <2>5. OwnerIsRecorded' /\ LaunchedOnce'
    BY <2>2, <2>4 DEF QueueInv, OwnerIsRecorded, LaunchedOnce
  <2>6. ClaimIsHeld' /\ LaunchFollowsClaim'
    BY <2>2, <2>3, <2>4 DEF QueueInv, ClaimIsHeld, LaunchFollowsClaim
  <2> QED
    BY <1>1, <2>5, <2>6 DEF QueueInv
<1>7. ASSUME NEW s \in Sessions, LaunchResume(s) PROVE QueueInv'
  <2>1. PICK p \in Runs : Launch(p, session[s].folder, None)
    BY <1>7 DEF LaunchResume
  <2>2. \A o \in Runs : run'[o].entry = IF o = p THEN None ELSE run[o].entry
    BY <1>1, <2>1 DEF Launch, TypeOK, RunTypeOK
  <2>3. UNCHANGED <<state, runner, runner_pid>>
    BY <1>7 DEF LaunchResume, file
  <2> QED
    BY <1>1, <2>2, <2>3 DEF QueueInv, OwnerIsRecorded, ClaimIsHeld, LaunchFollowsClaim,
       LaunchedOnce
<1>8. ASSUME NEW s \in Sessions, NEW b \in Bases, ClickResume(s, b) PROVE QueueInv'
  BY <1>1, <1>8, InvStutters DEF ClickResume, file
<1>9. ASSUME NEW d \in Folders, Kill(d) PROVE QueueInv'
  <2>1. \A p \in Runs : run'[p].entry = run[p].entry
    BY <1>1, <1>9 DEF Kill, TypeOK, RunTypeOK
  <2> QED
    BY <1>1, <1>9, <2>1, InvStutters DEF Kill, file
<1> QED
  BY <1>2, <1>3, <1>4, <1>5, <1>6, <1>7, <1>8, <1>9
     DEF GuiStep, Remove, ClearFinished, ClearAll

LEMMA RunInv ==
  ASSUME NEW p \in Runs, QueueInv, RunStep(p)
  PROVE  QueueInv'
<1>1. TypeOK /\ TypeOK'
  BY RunType DEF QueueInv
<1>2. UNCHANGED <<state, runner, runner_pid>>
  BY DEF RunStep, RunUnreadable, RunRejected, RunWritesPid, RunSetupFails, RunStarts,
     RunCheckpoints, RunRaises, RunLetsGo, RunAborts, RunExits, RunEnds, MarkFailed, file
<1>3. \A o \in Runs : run'[o].entry = run[o].entry
  BY <1>1 DEF RunStep, RunUnreadable, RunRejected, RunWritesPid, RunSetupFails, RunStarts,
     RunCheckpoints, RunRaises, RunLetsGo, RunAborts, RunExits, RunEnds, MarkFailed,
     TypeOK, RunTypeOK
<1> QED
  BY <1>1, <1>2, <1>3, InvStutters

LEMMA RunnerInv ==
  ASSUME NEW r \in Runners, QueueInv, RunnerStep(r) \/ RunnerDies(r)
  PROVE  QueueInv'
<1>1. TypeOK /\ TypeOK'
  BY RunnerType DEF QueueInv
<1>2. /\ runner \in [Runners -> RunnerLocals]
      /\ \A q \in Runners : runner[q].pc \in HoldingPcs => runner[q].entry \in Ids
      /\ state \in [Ids -> EntryStates]
      /\ run \in [Runs -> [pc : RunPcs, folder : Folders \cup {None},
                          entry : Ids \cup {None}, wrote : Written]]
  BY <1>1 DEF TypeOK, RunnerTypeOK, LocalsFit, FileTypeOK, RunTypeOK
<1>3. /\ "busy" \in HoldingPcs /\ "spawn" \in HoldingPcs
      /\ HoldingPcs \subseteq OwnerPcs
      /\ "boot" \notin OwnerPcs /\ "exited" \notin OwnerPcs /\ "dead" \notin OwnerPcs
  BY DEF HoldingPcs, OwnerPcs
<1>4. CASE ClaimSingleton(r)
  <2>1. runner[r].pc = "boot" /\ UNCHANGED <<state, run>>
    BY <1>4 DEF ClaimSingleton
  <2>2. \A q \in Runners : runner'[q].pc \in HoldingPcs => runner'[q] = runner[q]
    BY <1>2, <1>4 DEF ClaimSingleton, RunnerLocals, HoldingPcs
  <2>3. OwnerIsRecorded'
    <3>1. CASE QueueOwned
      BY <1>2, <1>3, <1>4, <3>1 DEF ClaimSingleton, RunnerLocals, QueueInv, OwnerIsRecorded
    <3>2. CASE ~QueueOwned
      <4>1. \A q \in Runners : runner[q].pc \notin OwnerPcs
        BY <3>2, ConstantsAssumption DEF QueueOwned, RunnerAlive, QueueInv, OwnerIsRecorded
      <4> QED
        BY <1>2, <1>4, <3>2, <4>1 DEF ClaimSingleton, RunnerLocals, OwnerIsRecorded
    <3> QED
      BY <3>1, <3>2
  <2> QED
    BY <1>1, <1>3, <2>1, <2>2, <2>3 DEF QueueInv, ClaimIsHeld, LaunchFollowsClaim,
       LaunchedOnce
<1> SUFFICES ASSUME ~ClaimSingleton(r) PROVE QueueInv'
  BY <1>4
<1>5. ASSUME RunnerDies(r) PROVE QueueInv'
  <2>1. runner' = [runner EXCEPT ![r] = [NoLocals EXCEPT !.pc = "dead"]]
        /\ UNCHANGED <<state, run, runner_pid>>
    BY <1>5 DEF RunnerDies, file
  <2>2. \A q \in Runners : runner'[q].pc \in OwnerPcs => runner'[q] = runner[q]
    BY <1>2, <1>3, <2>1 DEF NoLocals
  <2> QED
    BY <1>1, <1>3, <2>1, <2>2 DEF QueueInv, OwnerIsRecorded, ClaimIsHeld,
       LaunchFollowsClaim, LaunchedOnce
<1> SUFFICES ASSUME RunnerStep(r) PROVE QueueInv'
  BY <1>5
<1>6. /\ runner[r].pc \in OwnerPcs
      /\ \A q \in Runners \ {r} : runner[q].pc \notin OwnerPcs
      /\ \A q \in Runners \ {r} : runner'[q] = runner[q]
  <2>1. runner[r].pc \in OwnerPcs
    BY DEF RunnerStep, Reconcile, Claim, Skip, Drained, FindFree, LaunchEntry, Reap, Mark,
       Release, OwnerPcs
  <2>2. \A q \in Runners \ {r} : runner'[q] = runner[q]
    BY <1>2 DEF RunnerStep, Reconcile, Claim, Skip, Drained, FindFree, LaunchEntry, Reap, Mark,
       Release
  <2> QED
    BY <2>1, <2>2, OneOwner DEF QueueInv
<1>7. OwnerIsRecorded'
  <2>1. CASE Release(r)
    BY <1>2, <1>3, <1>6, <2>1 DEF Release, RunnerLocals, OwnerIsRecorded
  <2>2. CASE ~Release(r)
    <3>1. runner_pid' = runner_pid
      BY <2>2 DEF RunnerStep, Reconcile, Claim, Skip, Drained, FindFree, LaunchEntry, Reap,
         Mark, file
    <3> QED
      BY <1>6, <3>1 DEF QueueInv, OwnerIsRecorded
  <2> QED
    BY <2>1, <2>2
<1>8. CASE Drained(r) \/ FindFree(r) \/ Reap(r) \/ Release(r)
  <2>1. UNCHANGED <<state, run>>
    BY <1>8 DEF Drained, FindFree, Reap, Release, file
  <2>2. runner'[r].entry = runner[r].entry
    BY <1>2, <1>8 DEF Drained, FindFree, Reap, Release, RunnerLocals
  <2>3. runner'[r].pc \in HoldingPcs => runner[r].pc \in HoldingPcs
    BY <1>2, <1>8 DEF Drained, FindFree, Reap, Release, RunnerLocals, HoldingPcs
  <2>4. runner'[r].pc \in {"busy", "spawn"} => runner[r].pc \in {"busy", "spawn"}
    BY <1>2, <1>8 DEF Drained, FindFree, Reap, Release, RunnerLocals
  <2> QED
    BY <1>1, <1>6, <1>7, <2>1, <2>2, <2>3, <2>4 DEF QueueInv, ClaimIsHeld,
       LaunchFollowsClaim, LaunchedOnce
<1>9. CASE Reconcile(r)
  <2>1. /\ runner[r].pc = "reconcile" /\ runner'[r].pc = "next"
        /\ UNCHANGED run
    BY <1>2, <1>9 DEF Reconcile, RunnerLocals
  <2>2. \A e \in Ids : state'[e] \in {"new", "pending"} => state'[e] = state[e]
    BY <1>9 DEF Reconcile, Classify
  <2>3. \A q \in Runners : runner'[q].pc \notin HoldingPcs
    BY <1>3, <1>6, <2>1 DEF HoldingPcs
  <2>4. \A p \in Runs : run[p].entry # None => run[p].entry \in Ids
    BY <1>2
  <2> QED
    BY <1>1, <1>3, <1>7, <2>1, <2>2, <2>3, <2>4 DEF QueueInv, ClaimIsHeld,
       LaunchFollowsClaim, LaunchedOnce
<1>10. ASSUME NEW e \in Ids, Claim(r, e) PROVE QueueInv'
  <2>1. /\ state[e] = "pending" /\ UNCHANGED run
        /\ \A x \in Ids : state'[x] = IF x = e THEN "running" ELSE state[x]
        /\ runner'[r].entry = e
    BY <1>2, <1>10 DEF Claim, IsNextPending, RunnerLocals
  <2>2. \A p \in Runs : run[p].entry # None => run[p].entry \in Ids \ {e}
    BY <1>2, <2>1 DEF QueueInv, LaunchFollowsClaim
  <2>3. ClaimIsHeld'
    BY <1>3, <1>6, <2>1 DEF ClaimIsHeld
  <2>4. LaunchFollowsClaim'
    BY <1>3, <1>6, <2>1, <2>2 DEF QueueInv, LaunchFollowsClaim
  <2> QED
    BY <1>1, <1>7, <2>1, <2>3, <2>4 DEF QueueInv, LaunchedOnce
<1>11. ASSUME NEW e \in Ids, Skip(r, e) PROVE QueueInv'
  <2>1. /\ runner[r].pc = "next" /\ UNCHANGED <<run, runner>>
        /\ \A x \in Ids : state'[x] = IF x = e THEN "skipped" ELSE state[x]
    BY <1>2, <1>11 DEF Skip
  <2>2. \A q \in Runners : runner[q].pc \notin HoldingPcs
    BY <1>3, <1>6, <2>1 DEF HoldingPcs
  <2>3. \A p \in Runs : run[p].entry # None => run[p].entry \in Ids
    BY <1>2
  <2> QED
    BY <1>1, <1>3, <1>7, <2>1, <2>2, <2>3 DEF QueueInv, ClaimIsHeld, LaunchFollowsClaim,
       LaunchedOnce
<1>12. CASE LaunchEntry(r)
  <2>1. PICK p \in Runs :
          /\ Launch(p, runner[r].work, runner[r].entry)
          /\ runner' = [runner EXCEPT ![r].pc = "wait", ![r].child = p]
    BY <1>12 DEF LaunchEntry
  <2>2. runner[r].pc = "spawn" /\ UNCHANGED state
    BY <1>12 DEF LaunchEntry, file
  <2>3. /\ runner[r].entry \in Ids
        /\ state[runner[r].entry] \in {"running", "removed"}
        /\ \A o \in Runs : run[o].entry # None => run[o].entry # runner[r].entry
    BY <1>2, <1>3, <2>2 DEF QueueInv, ClaimIsHeld, LaunchFollowsClaim
  <2>4. \A o \in Runs : run'[o].entry = IF o = p THEN runner[r].entry ELSE run[o].entry
    BY <1>2, <2>1 DEF Launch
  <2>5. runner'[r].pc = "wait" /\ runner'[r].entry = runner[r].entry
    BY <1>2, <2>1 DEF RunnerLocals
  <2>6. ClaimIsHeld'
    BY <1>3, <1>6, <2>2, <2>3, <2>5 DEF ClaimIsHeld
  <2>7. LaunchFollowsClaim'
    BY <1>3, <1>6, <2>2, <2>3, <2>4, <2>5 DEF QueueInv, LaunchFollowsClaim
  <2>8. LaunchedOnce'
    BY <2>3, <2>4 DEF QueueInv, LaunchedOnce
  <2> QED
    BY <1>1, <1>7, <2>6, <2>7, <2>8 DEF QueueInv
<1>13. CASE Mark(r)
  <2>1. /\ runner[r].pc = "mark" /\ runner'[r].pc = "next" /\ UNCHANGED run
    BY <1>2, <1>13 DEF Mark, NoLocals
  <2>2. \A q \in Runners : runner'[q].pc \notin HoldingPcs
    BY <1>3, <1>6, <2>1 DEF HoldingPcs
  <2>3. runner[r].verdict \in {"done", "failed"}
    BY <1>1, <2>1 DEF TypeOK, RunnerTypeOK, LocalsFit
  <2>4. \A e \in Ids : state'[e] \in {"new", "pending"} => state'[e] = state[e]
    BY <1>2, <1>13, <2>3 DEF Mark
  <2>5. \A p \in Runs : run[p].entry # None => run[p].entry \in Ids
    BY <1>2
  <2> QED
    BY <1>1, <1>3, <1>7, <2>1, <2>2, <2>4, <2>5 DEF QueueInv, ClaimIsHeld,
       LaunchFollowsClaim, LaunchedOnce
<1> QED
  BY <1>8, <1>9, <1>10, <1>11, <1>12, <1>13 DEF RunnerStep

LEMMA NextInv == QueueInv /\ [Next]_vars => QueueInv'
<1> SUFFICES ASSUME QueueInv, [Next]_vars PROVE QueueInv'
  OBVIOUS
<1>1. CASE UNCHANGED vars
  <2>1. TypeOK'
    BY <1>1, NextType DEF QueueInv
  <2> QED
    BY <1>1, <2>1, InvStutters DEF vars, file
<1> QED
  BY <1>1, GuiInv, RunnerInv, RunInv DEF Next

THEOREM QueueInvariant == Spec => []QueueInv
  BY InitInv, NextInv, PTL DEF Spec

(* At most one live runner is past the singleton claim of the queue file,  *)
(* whatever runners die and however often Start is pressed                 *)
(* (_claim_singleton, _release_singleton).                                 *)
THEOREM SingletonHolds == Spec => []SingleRunner
<1>1. QueueInv => SingleRunner
  BY DEF QueueInv, OwnerIsRecorded, SingleRunner
<1> QED
  BY <1>1, QueueInvariant, PTL

(* No entry is launched twice, whatever crashes, restarts, removals and    *)
(* reorderings happen (the claim of _process_next, _reconcile).            *)
THEOREM NeverLaunchedTwice == Spec => []LaunchedOnce
<1>1. QueueInv => LaunchedOnce
  BY DEF QueueInv
<1> QED
  BY <1>1, QueueInvariant, PTL

(* Entries still to finish keep their folders apart: add()'s suffixing is  *)
(* never undone by claims, outcomes, removals or reordering.               *)
THEOREM FoldersStayReserved == Spec => []FoldersReserved
<1>1. Init => FoldersReserved
  BY DEF Init, FoldersReserved, Active
<1>2. QueueInv /\ FoldersReserved /\ [Next]_vars => FoldersReserved'
  <2> SUFFICES ASSUME QueueInv, FoldersReserved, [Next]_vars PROVE FoldersReserved'
    OBVIOUS
  <2>1. /\ state \in [Ids -> EntryStates] /\ folder \in [Ids -> Folders \cup {None}]
        /\ \A r \in Runners : runner[r].pc = "mark" =>
             runner[r].verdict \in {"done", "failed"}
    BY DEF QueueInv, TypeOK, FileTypeOK, RunnerTypeOK, LocalsFit
  <2>2. ASSUME NEW e \in Ids, NEW b \in Bases, NEW k \in 1 .. MaxVariants, Add(e, b, k)
        PROVE  FoldersReserved'
    <3>1. PICK f : f = <<b, k>>
      OBVIOUS
    <3>2. /\ f \notin {folder[x] : x \in {y \in Ids : state[y] \in Active}}
          /\ state' = [state EXCEPT ![e] = "pending"]
          /\ folder' = [folder EXCEPT ![e] = f]
      BY <2>2, <3>1 DEF Add, IsUniqueFolder, Taken
    <3> QED
      BY <2>1, <3>2 DEF FoldersReserved
  <2>3. ASSUME \A e \in Ids : state'[e] \in Active =>
                 state[e] \in Active /\ folder'[e] = folder[e]
        PROVE  FoldersReserved'
    BY <2>3 DEF FoldersReserved
  <2>4. ASSUME NEW gone, Drop(gone) PROVE FoldersReserved'
    BY <2>3, <2>4 DEF Drop, Active
  <2>5. ASSUME NEW r \in Runners, RunnerStep(r) PROVE FoldersReserved'
    <3>1. UNCHANGED folder
      BY <2>5 DEF RunnerStep, ClaimSingleton, Reconcile, Claim, Skip, Drained, FindFree,
         LaunchEntry, Reap, Mark, Release, file
    <3>2. \A e \in Ids : state'[e] \in Active => state[e] \in Active
      <4>1. CASE Reconcile(r)
        BY <4>1 DEF Reconcile, Classify, Active
      <4>2. CASE Mark(r)
        BY <2>1, <4>2 DEF Mark, Active
      <4>3. ASSUME NEW e \in Ids, Claim(r, e) \/ Skip(r, e)
            PROVE  \A x \in Ids : state'[x] \in Active => state[x] \in Active
        BY <2>1, <4>3 DEF Claim, Skip, IsNextPending, Active
      <4>4. CASE UNCHANGED state
        BY <4>4
      <4> QED
        BY <2>5, <4>1, <4>2, <4>3, <4>4 DEF RunnerStep, ClaimSingleton, Drained, FindFree,
           LaunchEntry, Reap, Release, file
    <3> QED
      BY <2>3, <3>1, <3>2
  <2>6. CASE UNCHANGED <<state, folder>>
    BY <2>6 DEF FoldersReserved
  <2>7. CASE UNCHANGED vars
    BY <2>6, <2>7 DEF vars, file
  <2>8. ASSUME NEW p \in Runs, RunStep(p) PROVE UNCHANGED <<state, folder>>
    BY <2>8 DEF RunStep, RunUnreadable, RunRejected, RunWritesPid, RunSetupFails, RunStarts,
       RunCheckpoints, RunRaises, RunLetsGo, RunAborts, RunExits, RunEnds, MarkFailed, file
  <2>9. CASE GuiStep
    BY <2>2, <2>4, <2>6, <2>9 DEF GuiStep, Remove, ClearFinished, ClearAll, DeleteConfig,
       Move, ClickStart, Unpause, SpawnRunner, Pause, LaunchResume, ClickResume, Kill, file
  <2>10. ASSUME NEW r \in Runners, RunnerDies(r) PROVE UNCHANGED <<state, folder>>
    BY <2>10 DEF RunnerDies, file
  <2> QED
    BY <2>5, <2>6, <2>7, <2>8, <2>9, <2>10 DEF Next
<1> QED
  BY <1>1, <1>2, QueueInvariant, PTL DEF Spec

(* No later reconciliation and no late mark() rewrites an outcome.         *)
THEOREM OutcomesAreFinal == Spec => FinishedIsFinal
<1> DEFINE Final == \A e \in Ids : state[e] \in Finished =>
                      state'[e] \in {state[e], "removed"}
<1>1. QueueInv /\ [Next]_vars => Final
  <2> SUFFICES ASSUME QueueInv, [Next]_vars PROVE Final
    OBVIOUS
  <2>1. /\ state \in [Ids -> EntryStates]
        /\ \A r \in Runners : runner[r].pc = "mark" =>
             runner[r].entry \in Ids /\ state[runner[r].entry] \in {"running", "removed"}
    BY DEF QueueInv, ClaimIsHeld, TypeOK, FileTypeOK, RunnerTypeOK, LocalsFit, HoldingPcs
  <2>2. CASE UNCHANGED state
    BY <2>2
  <2>3. ASSUME NEW e \in Ids, NEW b \in Bases, NEW k \in 1 .. MaxVariants, Add(e, b, k)
        PROVE  Final
    BY <2>1, <2>3 DEF Add, Finished
  <2>4. ASSUME NEW gone, Drop(gone) PROVE Final
    BY <2>4 DEF Drop
  <2>5. ASSUME NEW r \in Runners, RunnerStep(r) PROVE Final
    <3>1. CASE Reconcile(r)
      BY <3>1 DEF Reconcile, Finished
    <3>2. CASE Mark(r)
      BY <2>1, <3>2 DEF Mark, Finished
    <3>3. ASSUME NEW e \in Ids, Claim(r, e) \/ Skip(r, e) PROVE Final
      BY <2>1, <3>3 DEF Claim, Skip, IsNextPending, Finished
    <3> QED
      BY <2>2, <2>5, <3>1, <3>2, <3>3 DEF RunnerStep, ClaimSingleton, Drained, FindFree,
         LaunchEntry, Reap, Release, file
  <2>6. ASSUME NEW p \in Runs, RunStep(p) PROVE UNCHANGED state
    BY <2>6 DEF RunStep, RunUnreadable, RunRejected, RunWritesPid, RunSetupFails, RunStarts,
       RunCheckpoints, RunRaises, RunLetsGo, RunAborts, RunExits, RunEnds, MarkFailed, file
  <2>7. CASE GuiStep
    BY <2>2, <2>3, <2>4, <2>7 DEF GuiStep, Remove, ClearFinished, ClearAll, DeleteConfig,
       Move, ClickStart, Unpause, SpawnRunner, Pause, LaunchResume, ClickResume, Kill, file
  <2>8. ASSUME NEW r \in Runners, RunnerDies(r) PROVE UNCHANGED state
    BY <2>8 DEF RunnerDies, file
  <2>9. CASE UNCHANGED vars
    BY <2>2, <2>9 DEF vars, file
  <2> QED
    BY <2>2, <2>5, <2>6, <2>7, <2>8, <2>9 DEF Next
<1>2. QueueInv /\ [Next]_vars => [Final]_vars
  BY <1>1
<1> QED
  BY <1>2, QueueInvariant, PTL DEF Spec, FinishedIsFinal

-----------------------------------------------------------------------------
(* While runners live and the GUI's Resume is not used beside the queue,   *)
(* the runs are strictly serial.                                           *)

Undisturbed == "runner death" \notin Faults /\ "resume" \notin Faults

LEMMA InitSerial == Init => SerialInv
<1> SUFFICES ASSUME Init PROVE SerialInv
  OBVIOUS
<1>1. QueueInv
  BY InitInv
<1>2. RunsAreAwaited /\ RunningIsTracked /\ NobodyResumes
  BY DEF Init, RunsAreAwaited, RunningIsTracked, NobodyResumes, Live, LivePcs
<1> QED
  BY <1>1, <1>2 DEF SerialInv

LEMMA NextSerial ==
  ASSUME Undisturbed, SerialInv, [Next]_vars
  PROVE  SerialInv'
<1>1. QueueInv /\ QueueInv'
  BY NextInv DEF SerialInv
<1>2. /\ runner \in [Runners -> RunnerLocals]
      /\ state \in [Ids -> EntryStates]
      /\ run \in [Runs -> [pc : RunPcs, folder : Folders \cup {None},
                          entry : Ids \cup {None}, wrote : Written]]
      /\ session \in [Sessions -> [pc : {"idle", "unpause", "spawn", "resume"},
                                  folder : Folders \cup {None}]]
  BY <1>1 DEF QueueInv, TypeOK, RunnerTypeOK, FileTypeOK, RunTypeOK, SessionTypeOK
<1>3. \A p \in Runs : run[p].pc = "unborn" => ~Live(p)
  BY DEF Live, LivePcs
<1>4. NobodyResumes'
  <2>1. CASE UNCHANGED session
    BY <2>1 DEF SerialInv, NobodyResumes
  <2>2. CASE \E s \in Sessions : ClickStart(s) \/ Unpause(s) \/ SpawnRunner(s)
    BY <1>2, <2>2 DEF ClickStart, Unpause, SpawnRunner, SerialInv, NobodyResumes
  <2>3. CASE \E s \in Sessions : LaunchResume(s) \/ \E b \in Bases : ClickResume(s, b)
    BY <2>3 DEF LaunchResume, ClickResume, SerialInv, NobodyResumes, Undisturbed
  <2>4. ASSUME NEW r \in Runners, RunnerStep(r) PROVE UNCHANGED session
    BY <2>4 DEF RunnerStep, ClaimSingleton, Reconcile, Claim, Skip, Drained, FindFree,
       LaunchEntry, Reap, Mark, Release
  <2>5. ASSUME NEW p \in Runs, RunStep(p) PROVE UNCHANGED session
    BY <2>5 DEF RunStep, RunUnreadable, RunRejected, RunWritesPid, RunSetupFails, RunStarts,
       RunCheckpoints, RunRaises, RunLetsGo, RunAborts, RunExits, RunEnds, MarkFailed
  <2> QED
    BY <2>1, <2>2, <2>3, <2>4, <2>5 DEF Next, GuiStep, vars, RunnerDies, Add, Remove, Drop,
       ClearFinished, ClearAll, DeleteConfig, Move, Pause, Kill
<1>5. ASSUME NEW r \in Runners, RunnerStep(r), ~ClaimSingleton(r)
      PROVE  /\ runner[r].pc \in OwnerPcs
             /\ \A q \in Runners \ {r} : runner[q].pc \notin OwnerPcs
             /\ \A q \in Runners \ {r} : runner'[q] = runner[q]
  <2>1. runner[r].pc \in OwnerPcs
    BY <1>5 DEF RunnerStep, Reconcile, Claim, Skip, Drained, FindFree, LaunchEntry, Reap,
       Mark, Release, OwnerPcs
  <2>2. \A q \in Runners \ {r} : runner'[q] = runner[q]
    BY <1>2, <1>5 DEF RunnerStep, Reconcile, Claim, Skip, Drained, FindFree, LaunchEntry,
       Reap, Mark, Release
  <2> QED
    BY <1>1, <2>1, <2>2, OneOwner DEF QueueInv
<1>6. HoldingPcs \subseteq OwnerPcs /\ "wait" \in HoldingPcs
  BY DEF HoldingPcs, OwnerPcs
<1>7. RunsAreAwaited'
  <2>1. ASSUME \A q \in Runners : runner[q].pc = "wait" => runner'[q] = runner[q],
               \A p \in Runs : Live(p)' => Live(p) /\ run'[p].entry = run[p].entry
        PROVE  RunsAreAwaited'
    BY <2>1 DEF SerialInv, RunsAreAwaited
  <2>2. CASE UNCHANGED <<run, runner>>
    BY <2>1, <2>2 DEF Live
  <2>3. ASSUME NEW s \in Sessions, SpawnRunner(s) PROVE RunsAreAwaited'
    BY <1>2, <2>1, <2>3 DEF SpawnRunner, Live
  <2>4. ASSUME NEW d \in Folders, Kill(d) PROVE RunsAreAwaited'
    BY <1>2, <2>1, <2>4 DEF Kill, Live, LivePcs
  <2>5. ASSUME NEW p \in Runs, RunStep(p) PROVE RunsAreAwaited'
    <3>1. UNCHANGED runner
      BY <2>5 DEF RunStep, RunUnreadable, RunRejected, RunWritesPid, RunSetupFails, RunStarts,
         RunCheckpoints, RunRaises, RunLetsGo, RunAborts, RunExits, RunEnds, MarkFailed
    <3>2. Live(p)
      BY <2>5 DEF RunStep, RunUnreadable, RunRejected, RunWritesPid, RunSetupFails, RunStarts,
         RunCheckpoints, RunRaises, RunLetsGo, RunAborts, RunExits, RunEnds, Live, LivePcs
    <3>3. \A o \in Runs : run'[o].entry = run[o].entry /\ (o # p => run'[o] = run[o])
      BY <1>2, <2>5 DEF RunStep, RunUnreadable, RunRejected, RunWritesPid, RunSetupFails,
         RunStarts, RunCheckpoints, RunRaises, RunLetsGo, RunAborts, RunExits, RunEnds, MarkFailed
    <3> QED
      BY <2>1, <3>1, <3>2, <3>3 DEF Live
  <2>6. ASSUME NEW r \in Runners, RunnerStep(r) PROVE RunsAreAwaited'
    <3>1. CASE LaunchEntry(r)
      <4>1. PICK p \in Runs :
              /\ Launch(p, runner[r].work, runner[r].entry)
              /\ runner' = [runner EXCEPT ![r].pc = "wait", ![r].child = p]
        BY <3>1 DEF LaunchEntry
      <4>2. \A q \in Runners : runner[q].pc # "wait"
        BY <1>5, <1>6, <2>6, <3>1 DEF LaunchEntry, ClaimSingleton, OwnerPcs
      <4>3. \A o \in Runs : ~Live(o)
        BY <4>2 DEF SerialInv, RunsAreAwaited
      <4>4. \A o \in Runs \ {p} : ~Live(o)'
        BY <1>2, <4>1, <4>3 DEF Launch, Live
      <4>5. runner'[r].pc = "wait" /\ runner'[r].child = p
            /\ runner'[r].entry = runner[r].entry /\ run'[p].entry = runner[r].entry
        BY <1>2, <4>1 DEF Launch, RunnerLocals
      <4> QED
        BY <4>4, <4>5 DEF RunsAreAwaited
    <3>2. CASE Reap(r)
      <4>1. \A p \in Runs : ~Live(p)
        <5>1. \A q \in Runners : runner[q].pc = "wait" => q = r
          BY <1>5, <1>6, <2>6, <3>2 DEF Reap, ClaimSingleton
        <5> QED
          BY <3>2, <5>1 DEF Reap, SerialInv, RunsAreAwaited
      <4> QED
        BY <3>2, <4>1 DEF Reap, RunsAreAwaited, Live
    <3>3. CASE ~LaunchEntry(r) /\ ~Reap(r)
      <4>1. UNCHANGED run
        BY <2>6, <3>3 DEF RunnerStep, ClaimSingleton, Reconcile, Claim, Skip, Drained, FindFree,
           Mark, Release
      <4>2. \A q \in Runners : runner[q].pc = "wait" => runner'[q] = runner[q]
        BY <1>2, <2>6, <3>3 DEF RunnerStep, ClaimSingleton, Reconcile, Claim, Skip, Drained,
           FindFree, Mark, Release
      <4> QED
        BY <2>1, <4>1, <4>2 DEF Live
    <3> QED
      BY <3>1, <3>2, <3>3
  <2>7. ASSUME NEW s \in Sessions PROVE ~LaunchResume(s)
    BY DEF LaunchResume, SerialInv, NobodyResumes
  <2>8. \A r \in Runners : ~RunnerDies(r)
    BY DEF RunnerDies, Undisturbed
  <2>9. CASE GuiStep
    BY <2>2, <2>3, <2>4, <2>7, <2>9 DEF GuiStep, Add, Remove, Drop, ClearFinished, ClearAll,
       DeleteConfig, Move, ClickStart, Unpause, Pause, ClickResume
  <2> QED
    BY <2>2, <2>5, <2>6, <2>8, <2>9 DEF Next, vars
<1>8. RunningIsTracked'
  <2>1. ASSUME \A q \in Runners : runner[q].pc \in HoldingPcs => runner'[q] = runner[q],
               \A e \in Ids : state'[e] = "running" => state[e] = "running"
        PROVE  RunningIsTracked'
    BY <2>1 DEF SerialInv, RunningIsTracked
  <2>2. ASSUME NEW r \in Runners, RunnerStep(r) PROVE RunningIsTracked'
    <3>1. CASE Reconcile(r)
      <4>1. \A q \in Runners : runner[q].pc \in HoldingPcs => runner'[q] = runner[q]
        BY <1>2, <3>1 DEF Reconcile, HoldingPcs
      <4>2. \A e \in Ids : state'[e] = "running" => state[e] = "running"
        BY <3>1 DEF Reconcile, Classify
      <4> QED
        BY <2>1, <4>1, <4>2
    <3>2. ASSUME NEW e \in Ids, Claim(r, e) PROVE RunningIsTracked'
      <4>1. \A q \in Runners : runner[q].pc \notin HoldingPcs
        BY <1>5, <1>6, <2>2, <3>2 DEF Claim, ClaimSingleton, HoldingPcs
      <4>2. \A x \in Ids : state[x] # "running"
        BY <4>1 DEF SerialInv, RunningIsTracked
      <4>3. \A x \in Ids : state'[x] = "running" => x = e
        BY <1>2, <3>2, <4>2 DEF Claim
      <4>4. runner'[r].entry = e /\ runner'[r].pc \in HoldingPcs
        BY <1>2, <3>2 DEF Claim, RunnerLocals, HoldingPcs
      <4> QED
        BY <4>3, <4>4 DEF RunningIsTracked
    <3>3. ASSUME NEW e \in Ids, Skip(r, e) PROVE RunningIsTracked'
      BY <1>2, <2>1, <3>3 DEF Skip
    <3>4. CASE Mark(r)
      <4>1. /\ runner[r].verdict \in {"done", "failed"} /\ runner[r].entry \in Ids
            /\ state[runner[r].entry] \in {"running", "removed"}
        BY <1>1, <3>4 DEF Mark, QueueInv, TypeOK, RunnerTypeOK, LocalsFit, ClaimIsHeld,
           HoldingPcs
      <4>2. \A q \in Runners : runner[q].pc \in HoldingPcs => q = r
        BY <1>5, <1>6, <2>2, <3>4 DEF Mark, ClaimSingleton
      <4>3. \A x \in Ids : state[x] = "running" => x = runner[r].entry
        BY <4>2 DEF SerialInv, RunningIsTracked
      <4>4. \A x \in Ids : state'[x] # "running"
        BY <1>2, <3>4, <4>1, <4>3 DEF Mark, InQueue, Queued, Active
      <4> QED
        BY <4>4 DEF RunningIsTracked
    <3>5. CASE ClaimSingleton(r) \/ Drained(r) \/ Release(r)
      <4>1. runner[r].pc \notin HoldingPcs /\ UNCHANGED state
        BY <3>5 DEF ClaimSingleton, Drained, Release, file, HoldingPcs
      <4>2. \A q \in Runners \ {r} : runner'[q] = runner[q]
        BY <1>2, <3>5 DEF ClaimSingleton, Drained, Release
      <4> QED
        BY <2>1, <4>1, <4>2
    <3>6. CASE FindFree(r) \/ LaunchEntry(r) \/ Reap(r)
      <4>1. UNCHANGED state
        BY <3>6 DEF FindFree, LaunchEntry, Reap, file
      <4>2. /\ runner'[r].entry = runner[r].entry /\ runner'[r].pc \in HoldingPcs
            /\ \A q \in Runners \ {r} : runner'[q] = runner[q]
        BY <1>2, <3>6 DEF FindFree, LaunchEntry, Reap, RunnerLocals, HoldingPcs
      <4> QED
        BY <4>1, <4>2 DEF SerialInv, RunningIsTracked
    <3> QED
      BY <2>2, <3>1, <3>2, <3>3, <3>4, <3>5, <3>6 DEF RunnerStep
  <2>3. CASE UNCHANGED <<state, runner>>
    BY <2>1, <2>3
  <2>4. ASSUME NEW s \in Sessions, SpawnRunner(s) PROVE RunningIsTracked'
    BY <1>2, <2>1, <2>4 DEF SpawnRunner, HoldingPcs, file
  <2>5. ASSUME NEW e \in Ids, NEW b \in Bases, NEW k \in 1 .. MaxVariants, Add(e, b, k)
        PROVE  RunningIsTracked'
    BY <1>2, <2>1, <2>5 DEF Add
  <2>6. ASSUME NEW gone, Drop(gone) PROVE RunningIsTracked'
    BY <2>1, <2>6 DEF Drop
  <2>7. ASSUME NEW p \in Runs, RunStep(p) PROVE UNCHANGED <<state, runner>>
    BY <2>7 DEF RunStep, RunUnreadable, RunRejected, RunWritesPid, RunSetupFails, RunStarts,
       RunCheckpoints, RunRaises, RunLetsGo, RunAborts, RunExits, RunEnds, MarkFailed, file
  <2>8. \A r \in Runners : ~RunnerDies(r)
    BY DEF RunnerDies, Undisturbed
  <2>9. CASE GuiStep
    BY <2>3, <2>4, <2>5, <2>6, <2>9 DEF GuiStep, Remove, ClearFinished, ClearAll,
       DeleteConfig, Move, ClickStart, Unpause, Pause, LaunchResume, ClickResume, Kill, file
  <2> QED
    BY <2>2, <2>3, <2>7, <2>8, <2>9 DEF Next, vars, file
<1> QED
  BY <1>1, <1>4, <1>7, <1>8 DEF SerialInv

(* "only one solver process is ever live": with a runner that lives until  *)
(* the queue is drained, and no manual Resume beside it.                   *)
THEOREM RunsAreSerial ==
  ASSUME Undisturbed
  PROVE  Spec => []OneSolver
<1>1. SerialInv => OneSolver
  BY OneOwner DEF SerialInv, QueueInv, RunsAreAwaited, OneSolver, OwnerPcs
<1>2. SerialInv /\ [Next]_vars => SerialInv'
  BY NextSerial
<1> QED
  BY <1>1, <1>2, InitSerial, PTL DEF Spec

(* ... and an entry shown as running is always in a live runner's hands    *)
(* (nothing an undisturbed queue shows as running has been lost).          *)
THEOREM RunningStaysTracked ==
  ASSUME Undisturbed
  PROVE  Spec => []RunningIsTracked
<1>1. SerialInv => RunningIsTracked
  BY DEF SerialInv
<1>2. SerialInv /\ [Next]_vars => SerialInv'
  BY NextSerial
<1> QED
  BY <1>1, <1>2, InitSerial, PTL DEF Spec

-----------------------------------------------------------------------------
(* A failure that was reported is shown.  Until the entry has its outcome, *)
(* the failed status of its folder, or the verdict read from it, is in the *)
(* hands of the runner that waits for the run; no other run can rewrite    *)
(* that status meanwhile, for it would be live.                            *)

AwaitedHasFolder ==
  \A r \in Runners : runner[r].pc = "wait" =>
    /\ run[runner[r].child].entry = runner[r].entry
    /\ Live(runner[r].child) => run[runner[r].child].folder = runner[r].work

ReportedFailure(p) ==
  run[p].wrote = "failed" /\ run[p].pc \in {"post", "exited"} /\ run[p].entry # None

OnRecord(p) ==
  \/ \E r \in Runners : /\ runner[r].pc = "wait" /\ runner[r].child = p
                        /\ status[runner[r].work] = "failed"
  \/ \E r \in Runners : /\ runner[r].pc = "mark" /\ runner[r].entry = run[p].entry
                        /\ runner[r].verdict = "failed"
  \/ state[run[p].entry] \in {"failed", "removed"}

FailuresOnRecord ==
  \A p \in Runs : /\ run[p].pc \in {"unborn", "boot"} => run[p].wrote = "none"
                  /\ ReportedFailure(p) => OnRecord(p)

FailureInv == SerialInv /\ AwaitedHasFolder /\ FailuresOnRecord

LEMMA InitFailure == Init => FailureInv
<1>1. Init => AwaitedHasFolder /\ FailuresOnRecord
  BY DEF Init, AwaitedHasFolder, FailuresOnRecord, ReportedFailure, NoLocals
<1> QED
  BY <1>1, InitSerial DEF FailureInv

(* A step that leaves runs, statuses and waiting runners alone, and undoes *)
(* no outcome.                                                             *)
LEMMA FailureKept ==
  ASSUME FailureInv, UNCHANGED <<run, status>>,
         \A r \in Runners : runner[r].pc \in {"wait", "mark"} => runner'[r] = runner[r],
         \A r \in Runners : runner'[r].pc = "wait" => runner'[r] = runner[r],
         \A e \in Ids : state[e] \in {"failed", "removed"} => state'[e] \in {"failed", "removed"}
  PROVE  AwaitedHasFolder' /\ FailuresOnRecord'
<1>1. AwaitedHasFolder'
  <2> SUFFICES ASSUME NEW r \in Runners, runner'[r].pc = "wait"
               PROVE  /\ run[runner[r].child].entry = runner[r].entry
                      /\ Live(runner[r].child) => run[runner[r].child].folder = runner[r].work
    BY DEF AwaitedHasFolder, Live
  <2> QED
    BY DEF FailureInv, AwaitedHasFolder
<1>2. ASSUME NEW p \in Runs, ReportedFailure(p) PROVE OnRecord(p)'
  <2>1. run[p].entry \in Ids
    BY <1>2 DEF ReportedFailure, FailureInv, SerialInv, QueueInv, TypeOK, RunTypeOK
  <2> QED
    BY <1>2, <2>1 DEF FailureInv, FailuresOnRecord, OnRecord
<1> QED
  BY <1>1, <1>2 DEF FailureInv, FailuresOnRecord, ReportedFailure

LEMMA GuiFailure ==
  ASSUME Undisturbed, FailureInv, GuiStep
  PROVE  AwaitedHasFolder' /\ FailuresOnRecord'
<1> USE DEF file, disk
<1>1. /\ state \in [Ids -> EntryStates] /\ runner \in [Runners -> RunnerLocals]
      /\ run \in [Runs -> [pc : RunPcs, folder : Folders \cup {None},
                          entry : Ids \cup {None}, wrote : Written]]
  BY DEF FailureInv, SerialInv, QueueInv, TypeOK, FileTypeOK, RunnerTypeOK, RunTypeOK
<1>2. ASSUME NEW e \in Ids, NEW b \in Bases, NEW k \in 1 .. MaxVariants, Add(e, b, k)
      PROVE  AwaitedHasFolder' /\ FailuresOnRecord'
  BY <1>1, <1>2, FailureKept DEF Add
<1>3. ASSUME NEW gone, Drop(gone) PROVE AwaitedHasFolder' /\ FailuresOnRecord'
  BY <1>3, FailureKept DEF Drop
<1>4. ASSUME NEW s \in Sessions, SpawnRunner(s)
      PROVE  AwaitedHasFolder' /\ FailuresOnRecord'
  <2>1. PICK r \in Runners : runner[r].pc = "unborn"
                             /\ runner' = [runner EXCEPT ![r].pc = "boot"]
    BY <1>4 DEF SpawnRunner
  <2>2. \A q \in Runners : q # r => runner'[q] = runner[q]
    BY <1>1, <2>1
  <2>3. runner'[r].pc = "boot"
    BY <1>1, <2>1 DEF RunnerLocals
  <2> QED
    BY <1>4, <2>1, <2>2, <2>3, FailureKept DEF SpawnRunner
<1>5. ASSUME NEW d \in Folders, Kill(d) PROVE AwaitedHasFolder' /\ FailuresOnRecord'
  <2>1. PICK q \in Runs : Live(q) /\ q = pidfile[d]
    BY <1>5 DEF Kill, IsRunning, FailureInv, SerialInv, QueueInv, TypeOK, DiskTypeOK
  <2>2. /\ \A p \in Runs : p # q => run'[p] = run[p]
        /\ run'[q].pc = "killed" /\ run'[q].entry = run[q].entry
    BY <1>1, <1>5, <2>1 DEF Kill
  <2>3. \A p \in Runs : run'[p].entry = run[p].entry
    BY <2>2
  <2>4. AwaitedHasFolder'
    <3> SUFFICES ASSUME NEW r \in Runners, runner[r].pc = "wait"
                 PROVE  /\ run'[runner[r].child].entry = runner[r].entry
                        /\ Live(runner[r].child)' =>
                             run'[runner[r].child].folder = runner[r].work
      BY <1>5 DEF Kill, AwaitedHasFolder
    <3> DEFINE c == runner[r].child
    <3>1. c \in Runs
      BY DEF FailureInv, SerialInv, QueueInv, TypeOK, RunnerTypeOK, LocalsFit
    <3>2. run[c].entry = runner[r].entry /\ (Live(c) => run[c].folder = runner[r].work)
      BY DEF FailureInv, AwaitedHasFolder
    <3> HIDE DEF c
    <3>3. run'[c].entry = runner[r].entry
      BY <2>3, <3>1, <3>2
    <3>4. run'[c].pc \in LivePcs => run'[c].folder = runner[r].work
      BY <2>2, <3>1, <3>2 DEF Live, LivePcs
    <3>5. c' = c
      BY <1>5 DEF Kill, c
    <3>6. Live(c)' <=> run'[c].pc \in LivePcs
      BY <3>5 DEF Live
    <3> QED
      BY <3>3, <3>4, <3>5, <3>6 DEF c
  <2>5. FailuresOnRecord'
    <3> SUFFICES ASSUME NEW p \in Runs
                 PROVE  /\ run'[p].pc \in {"unborn", "boot"} => run'[p].wrote = "none"
                        /\ ReportedFailure(p)' => OnRecord(p)'
      BY DEF FailuresOnRecord
    <3>1. CASE p = q
      BY <2>2, <3>1 DEF ReportedFailure
    <3>2. CASE p # q
      <4>1. run'[p] = run[p] /\ UNCHANGED <<state, runner, status>>
        BY <1>5, <2>2, <3>2 DEF Kill
      <4>2. (ReportedFailure(p)' <=> ReportedFailure(p)) /\ (OnRecord(p)' <=> OnRecord(p))
        BY <4>1 DEF ReportedFailure, OnRecord
      <4> QED
        BY <4>1, <4>2 DEF FailureInv, FailuresOnRecord
    <3> QED
      BY <3>1, <3>2
  <2> QED
    BY <2>4, <2>5
<1>6. ASSUME NEW s \in Sessions PROVE ~LaunchResume(s)
  BY DEF LaunchResume, FailureInv, SerialInv, NobodyResumes
<1>7. CASE UNCHANGED <<state, runner, run, status>>
  BY <1>7, FailureKept
<1> QED
  BY <1>2, <1>3, <1>4, <1>5, <1>6, <1>7 DEF GuiStep, Remove, DeleteConfig, ClearFinished,
     ClearAll, Move, ClickStart, Unpause, Pause, ClickResume

(* Only the owner of the queue moves past its claim, so beside a runner    *)
(* that does, none waits for a run and none has an outcome to record.      *)
LEMMA OthersIdle ==
  ASSUME FailureInv, NEW r \in Runners, runner[r].pc \in OwnerPcs,
         NEW q \in Runners, runner[q].pc \in {"wait", "mark"}
  PROVE  q = r
  BY OneOwner DEF FailureInv, SerialInv, QueueInv, OwnerPcs

LEMMA RunnerFailure ==
  ASSUME FailureInv, NEW r \in Runners, RunnerStep(r)
  PROVE  AwaitedHasFolder' /\ FailuresOnRecord'
<1> USE DEF file, disk
<1>1. /\ state \in [Ids -> EntryStates] /\ runner \in [Runners -> RunnerLocals]
      /\ run \in [Runs -> [pc : RunPcs, folder : Folders \cup {None},
                          entry : Ids \cup {None}, wrote : Written]]
  BY DEF FailureInv, SerialInv, QueueInv, TypeOK, FileTypeOK, RunnerTypeOK, RunTypeOK
<1>2. CASE LaunchEntry(r)
  <2>1. PICK p \in Runs : /\ Launch(p, runner[r].work, runner[r].entry)
                          /\ runner' = [runner EXCEPT ![r].pc = "wait", ![r].child = p]
    BY <1>2 DEF LaunchEntry
  <2>2. \A q \in Runners : runner[q].pc \notin {"wait", "mark"}
    BY <1>2, OthersIdle DEF LaunchEntry, OwnerPcs
  <2>3. /\ runner'[r].child = p /\ runner'[r].entry = runner[r].entry
        /\ runner'[r].work = runner[r].work
        /\ \A q \in Runners : q # r => runner'[q] = runner[q]
    BY <1>1, <2>1 DEF RunnerLocals
  <2>4. /\ run'[p].pc = "boot" /\ run'[p].folder = runner[r].work
        /\ run'[p].entry = runner[r].entry /\ run'[p].wrote = run[p].wrote
        /\ \A o \in Runs : o # p => run'[o] = run[o]
    BY <1>1, <2>1 DEF Launch
  <2>5. AwaitedHasFolder'
    BY <2>2, <2>3, <2>4 DEF AwaitedHasFolder, Live
  <2>6. ASSUME NEW o \in Runs
        PROVE  /\ run'[o].pc \in {"unborn", "boot"} => run'[o].wrote = "none"
               /\ ReportedFailure(o)' => OnRecord(o)'
    <3>1. CASE o = p
      BY <2>1, <2>4, <3>1 DEF Launch, FailureInv, FailuresOnRecord, ReportedFailure
    <3>2. CASE o # p
      <4>1. run'[o] = run[o] /\ UNCHANGED state
        BY <1>2, <2>4, <3>2 DEF LaunchEntry
      <4>2. ReportedFailure(o) => state[run[o].entry] \in {"failed", "removed"}
        BY <2>2 DEF FailureInv, FailuresOnRecord, OnRecord
      <4> QED
        BY <4>1, <4>2 DEF FailureInv, FailuresOnRecord, OnRecord, ReportedFailure
    <3> QED
      BY <3>1, <3>2
  <2> QED
    BY <2>5, <2>6 DEF FailuresOnRecord
<1>3. CASE Reap(r)
  <2>1. \A q \in Runners : runner[q].pc \in {"wait", "mark"} => q = r
    BY <1>3, OthersIdle DEF Reap, OwnerPcs
  <2>2. runner[r].pc = "wait" /\ UNCHANGED <<state, run, status>>
    BY <1>3 DEF Reap
  <2>3. /\ runner'[r].pc = "mark" /\ runner'[r].entry = runner[r].entry
        /\ runner'[r].verdict = Classify(runner[r].work, ExitedWithZero(runner[r].child))
        /\ \A q \in Runners : q # r => runner'[q] = runner[q]
    BY <1>1, <1>3 DEF Reap, RunnerLocals
  <2>4. AwaitedHasFolder'
    BY <2>1, <2>3 DEF AwaitedHasFolder
  <2>5. ASSUME NEW o \in Runs, ReportedFailure(o) PROVE OnRecord(o)'
    <3>1. CASE state[run[o].entry] \in {"failed", "removed"}
      BY <2>2, <3>1 DEF OnRecord
    <3>2. CASE runner[r].child = o /\ status[runner[r].work] = "failed"
      <4>1. run[o].entry = runner[r].entry
        BY <2>2, <3>2 DEF FailureInv, AwaitedHasFolder
      <4>2. runner'[r].verdict = "failed"
        BY <2>3, <3>2 DEF Classify
      <4> QED
        BY <2>2, <2>3, <4>1, <4>2 DEF OnRecord
    <3> QED
      BY <2>1, <2>2, <2>5, <3>1, <3>2 DEF FailureInv, FailuresOnRecord, OnRecord
  <2> QED
    BY <2>2, <2>4, <2>5 DEF FailureInv, FailuresOnRecord, ReportedFailure
<1>4. CASE Mark(r)
  <2> DEFINE e == runner[r].entry
  <2>1. \A q \in Runners : runner[q].pc \in {"wait", "mark"} => q = r
    BY <1>4, OthersIdle DEF Mark, OwnerPcs
  <2>2. runner[r].pc = "mark" /\ UNCHANGED <<run, status>>
    BY <1>4 DEF Mark
  <2>3. e \in Ids /\ state[e] \in {"running", "removed"}
    BY <2>2 DEF FailureInv, SerialInv, QueueInv, TypeOK, RunnerTypeOK, LocalsFit, ClaimIsHeld,
       HoldingPcs
  <2>4. /\ state'[e] = IF state[e] = "running" THEN runner[r].verdict ELSE "removed"
        /\ \A x \in Ids : x # e => state'[x] = state[x]
    BY <1>1, <1>4, <2>3 DEF Mark, InQueue, Queued, Active, Finished
  <2>5. AwaitedHasFolder'
    <3>1. runner' = [runner EXCEPT ![r] = NoLocals]
      BY <1>4 DEF Mark
    <3>2. \A q \in Runners : runner'[q].pc # "wait"
      BY <1>1, <2>1, <3>1 DEF NoLocals
    <3> QED
      BY <3>2 DEF AwaitedHasFolder
  <2>6. ASSUME NEW o \in Runs, ReportedFailure(o) PROVE OnRecord(o)'
    <3>1. run[o].entry \in Ids
      BY <2>6 DEF ReportedFailure, FailureInv, SerialInv, QueueInv, TypeOK, RunTypeOK
    <3>2. CASE state[run[o].entry] \in {"failed", "removed"}
      BY <2>2, <2>3, <2>4, <3>1, <3>2 DEF OnRecord
    <3>3. CASE runner[r].entry = run[o].entry /\ runner[r].verdict = "failed"
      BY <2>2, <2>3, <2>4, <3>3 DEF OnRecord
    <3> QED
      BY <2>1, <2>2, <2>6, <3>2, <3>3 DEF FailureInv, FailuresOnRecord, OnRecord
  <2> QED
    BY <2>2, <2>5, <2>6 DEF FailureInv, FailuresOnRecord, ReportedFailure
<1>5. CASE Reconcile(r)
  <2>1. /\ runner[r].pc = "reconcile" /\ runner'[r].pc = "next"
        /\ \A q \in Runners : q # r => runner'[q] = runner[q]
    BY <1>1, <1>5 DEF Reconcile
  <2>2. \A x \in Ids : state[x] \in {"failed", "removed"} => state'[x] = state[x]
    BY <1>5 DEF Reconcile
  <2>3. UNCHANGED <<run, status>>
    BY <1>5 DEF Reconcile
  <2> QED
    BY <2>1, <2>2, <2>3, FailureKept
<1>6. CASE ClaimSingleton(r) \/ Drained(r) \/ FindFree(r) \/ Release(r)
  <2>1. PICK v \in RunnerPcs : v # "wait" /\ runner' = [runner EXCEPT ![r].pc = v]
    BY <1>6 DEF ClaimSingleton, Drained, FindFree, Release, RunnerPcs, OwnerPcs
  <2>2. runner[r].pc \notin {"wait", "mark"}
    BY <1>6 DEF ClaimSingleton, Drained, FindFree, Release
  <2>3. runner'[r].pc = v /\ \A q \in Runners : q # r => runner'[q] = runner[q]
    BY <1>1, <2>1 DEF RunnerLocals
  <2>4. UNCHANGED <<state, run, status>>
    BY <1>6 DEF ClaimSingleton, Drained, FindFree, Release
  <2> QED
    BY <2>1, <2>2, <2>3, <2>4, FailureKept
<1>7. ASSUME NEW e \in Ids, Claim(r, e) \/ Skip(r, e)
      PROVE  AwaitedHasFolder' /\ FailuresOnRecord'
  <2>1. /\ runner[r].pc = "next" /\ runner'[r].pc \in {"next", "busy"}
        /\ \A q \in Runners : q # r => runner'[q] = runner[q]
    <3>1. CASE Claim(r, e)
      BY <1>1, <3>1 DEF Claim, RunnerLocals
    <3>2. CASE Skip(r, e)
      BY <3>2 DEF Skip
    <3> QED
      BY <1>7, <3>1, <3>2
  <2>2. \A x \in Ids : state[x] \in {"failed", "removed"} => state'[x] = state[x]
    BY <1>1, <1>7 DEF Claim, Skip, IsNextPending
  <2>3. UNCHANGED <<run, status>>
    BY <1>7 DEF Claim, Skip
  <2> QED
    BY <2>1, <2>2, <2>3, FailureKept
<1> QED
  BY <1>2, <1>3, <1>4, <1>5, <1>6, <1>7 DEF RunnerStep

(* A run writes the status of the folder its own runner reads.             *)
LEMMA RunFailure ==
  ASSUME FailureInv, NEW p \in Runs, RunStep(p)
  PROVE  AwaitedHasFolder' /\ FailuresOnRecord'
<1> USE DEF file, disk
<1>1. /\ status \in [Folders -> RunStates]
      /\ run \in [Runs -> [pc : RunPcs, folder : Folders \cup {None},
                          entry : Ids \cup {None}, wrote : Written]]
  BY DEF FailureInv, SerialInv, QueueInv, TypeOK, DiskTypeOK, RunTypeOK
<1>2. Live(p)
  BY DEF RunStep, RunUnreadable, RunRejected, RunWritesPid, RunSetupFails, RunStarts,
     RunCheckpoints, RunRaises, RunLetsGo, RunAborts, RunExits, RunEnds, Live, LivePcs
<1>3. PICK r \in Runners : runner[r].pc = "wait" /\ runner[r].child = p
                           /\ run[p].entry = runner[r].entry
  BY <1>2 DEF FailureInv, SerialInv, RunsAreAwaited
<1>4. run[p].folder = runner[r].work /\ runner[r].work \in Folders
  BY <1>2, <1>3 DEF FailureInv, AwaitedHasFolder, SerialInv, QueueInv, TypeOK, RunnerTypeOK,
     LocalsFit, HoldingPcs
<1>5. UNCHANGED <<state, runner>>
  BY DEF RunStep, RunUnreadable, RunRejected, RunWritesPid, RunSetupFails, RunStarts,
     RunCheckpoints, RunRaises, RunLetsGo, RunAborts, RunExits, RunEnds, MarkFailed
<1>6. /\ \A o \in Runs : o # p => run'[o] = run[o]
      /\ run'[p].entry = run[p].entry
      /\ run'[p].pc \notin {"unborn", "boot"}
      /\ Live(p)' => run'[p].folder = run[p].folder
  BY <1>1 DEF RunStep, RunUnreadable, RunRejected, RunWritesPid, RunSetupFails,
     RunStarts, RunCheckpoints, RunRaises, RunLetsGo, RunAborts, RunExits, RunEnds,
     MarkFailed, Live, LivePcs
<1>7. \A q \in Runners : runner[q].pc = "wait" => q = r
  BY <1>3, OthersIdle DEF OwnerPcs
<1>8. AwaitedHasFolder'
  <2>1. \A q \in Runners : runner'[q].pc = "wait" => q = r
    BY <1>5, <1>7
  <2> QED
    BY <1>3, <1>4, <1>5, <1>6, <2>1 DEF AwaitedHasFolder
<1>9. ASSUME NEW o \in Runs, ReportedFailure(o)' PROVE OnRecord(o)'
  <2>1. CASE o # p
    <3>1. ReportedFailure(o)
      BY <1>6, <1>9, <2>1 DEF ReportedFailure
    <3>2. ~(\E q \in Runners : runner[q].pc = "wait" /\ runner[q].child = o)
      BY <1>3, <1>7, <2>1
    <3> QED
      BY <1>5, <1>6, <2>1, <3>1, <3>2 DEF FailureInv, FailuresOnRecord, OnRecord
  <2>2. CASE o = p
    <3>1. ASSUME status'[runner[r].work] = "failed" PROVE OnRecord(p)'
      BY <1>3, <1>5, <3>1 DEF OnRecord
    <3>2. CASE MarkFailed(p)
      BY <1>1, <1>4, <3>1, <3>2, <2>2 DEF MarkFailed
    <3>3. ASSUME NEW s \in {"ended", "failed"}, RunEnds(p, s) PROVE OnRecord(p)'
      <4>1. run'[p].wrote = s
        BY <1>1, <3>3 DEF RunEnds
      <4>2. status'[runner[r].work] = s
        BY <1>1, <1>4, <3>3 DEF RunEnds
      <4> QED
        BY <1>9, <2>2, <3>1, <4>1, <4>2 DEF ReportedFailure
    <3>4. CASE RunExits(p)
      <4>1. UNCHANGED <<state, runner, status>> /\ run'[p].entry = run[p].entry
            /\ run'[p].wrote = run[p].wrote /\ run[p].pc = "post"
        BY <1>1, <3>4 DEF RunExits
      <4>2. ReportedFailure(p)
        BY <1>9, <2>2, <4>1 DEF ReportedFailure
      <4>3. OnRecord(p)
        BY <4>2 DEF FailureInv, FailuresOnRecord
      <4> QED
        BY <2>2, <4>1, <4>3 DEF OnRecord
    <3>5. CASE RunUnreadable(p)
      <4>1. run'[p].wrote = run[p].wrote /\ run[p].pc = "boot"
        BY <1>1, <3>5 DEF RunUnreadable
      <4> QED
        BY <1>9, <2>2, <4>1 DEF ReportedFailure, FailureInv, FailuresOnRecord
    <3>6. CASE RunWritesPid(p) \/ RunStarts(p) \/ RunCheckpoints(p) \/ RunRaises(p)
            \/ RunLetsGo(p)
      <4>1. run'[p].pc \in {"setup", "loop", "abort", "stamp"}
        BY <1>1, <3>6 DEF RunWritesPid, RunStarts, RunCheckpoints, RunRaises, RunLetsGo
      <4> QED
        BY <1>9, <2>2, <4>1 DEF ReportedFailure
    <3> QED
      BY <2>2, <3>2, <3>3, <3>4, <3>5, <3>6 DEF RunStep, RunRejected, RunSetupFails, RunAborts
  <2> QED
    BY <2>1, <2>2
<1> QED
  BY <1>6, <1>8, <1>9 DEF FailureInv, FailuresOnRecord

LEMMA NextFailure ==
  ASSUME Undisturbed, FailureInv, [Next]_vars
  PROVE  FailureInv'
<1>1. SerialInv'
  BY NextSerial DEF FailureInv
<1>2. \A r \in Runners : ~RunnerDies(r)
  BY DEF RunnerDies, Undisturbed
<1>3. CASE UNCHANGED vars
  <2>1. UNCHANGED <<state, runner, run, status>>
    BY <1>3 DEF vars, file, disk
  <2> QED
    BY <1>1, <2>1, FailureKept DEF FailureInv
<1> QED
  BY <1>1, <1>2, <1>3, GuiFailure, RunnerFailure, RunFailure DEF FailureInv, Next

(* What run.main stamps a failed status for (run.py:85): with a runner     *)
(* that lives until the queue is drained, and no manual Resume beside it,  *)
(* a run that reported failure is never shown as done, whatever status an  *)
(* earlier run of its folder left.                                         *)
THEOREM FailureStaysShown ==
  ASSUME Undisturbed
  PROVE  Spec => []FailureIsShown
<1>1. FailureInv => FailureIsShown
  <2> SUFFICES ASSUME FailureInv, NEW p \in Runs, run[p].wrote = "failed",
                      run[p].pc = "exited", run[p].entry # None
               PROVE  state[run[p].entry] # "done"
    BY DEF FailureIsShown
  <2>1. OnRecord(p)
    BY DEF FailureInv, FailuresOnRecord, ReportedFailure
  <2>2. ASSUME NEW r \in Runners, runner[r].pc \in {"wait", "mark"},
               runner[r].entry = run[p].entry
        PROVE  state[run[p].entry] \in {"running", "removed"}
    BY <2>2 DEF FailureInv, SerialInv, QueueInv, ClaimIsHeld, HoldingPcs
  <2> QED
    BY <2>1, <2>2 DEF OnRecord, FailureInv, AwaitedHasFolder
<1>2. FailureInv /\ [Next]_vars => FailureInv'
  BY NextFailure
<1> QED
  BY <1>1, <1>2, InitFailure, PTL DEF Spec

-----------------------------------------------------------------------------
(* The undisturbed queue implements SerialQueue.                           *)

Jobs == [e \in Ids |-> JobOf(e)]

(* Any set of waiting jobs may go over at once, no job at all included.    *)
LEMMA WithdrawsOrStutters ==
  ASSUME \A e \in Ids : \/ JobOf(e)' = JobOf(e)
                        \/ JobOf(e) = "waiting" /\ JobOf(e)' = "over"
  PROVE  Serial!Next
<1> DEFINE gone == {e \in Ids : JobOf(e) = "waiting" /\ JobOf(e)' = "over"}
<1>1. \A e \in gone : Jobs[e] = "waiting"
  BY DEF Jobs
<1>2. Jobs' = [e \in Ids |-> IF e \in gone THEN "over" ELSE Jobs[e]]
  BY DEF Jobs
<1>3. gone \in SUBSET Ids
  OBVIOUS
<1>4. Serial!Withdraw(gone)
  BY <1>1, <1>2 DEF Serial!Withdraw, Jobs
<1> QED
  BY <1>3, <1>4 DEF Serial!Next

(* A step that neither launches nor ends a run and lets no job back in.    *)
LEMMA WaitingShrinks ==
  ASSUME UNCHANGED run,
         \A e \in Ids : state'[e] = "new" <=> state[e] = "new",
         \A e \in Ids : state'[e] \in Active => state[e] \in Active,
         \A q \in Runners :
           runner'[q].pc \in {"busy", "spawn"} =>
             \/ runner[q].pc \in {"busy", "spawn"} /\ runner'[q].entry = runner[q].entry
             \/ state[runner'[q].entry] \in Active
  PROVE  Serial!Next
<1>1. \A e \in Ids : Launched(e)' = Launched(e) /\ Executing(e)' = Executing(e)
  BY DEF Launched, Executing, Live
<1>2. \A e \in Ids : Claimed(e)' => Claimed(e) \/ state[e] \in Active
  BY DEF Claimed
<1>3. \A e \in Ids : \/ JobOf(e)' = JobOf(e)
                     \/ JobOf(e) = "waiting" /\ JobOf(e)' = "over"
  BY <1>1, <1>2 DEF JobOf
<1> QED
  BY <1>3, WithdrawsOrStutters

LEMMA InitRefines == Init => Serial!Init
<1> SUFFICES ASSUME Init PROVE Serial!Init
  OBVIOUS
<1>1. \A p \in Runs : ~Live(p) /\ run[p].entry = None
  BY DEF Init, Live, LivePcs
<1>2. \A e \in Ids : state[e] = "new" /\ ~Executing(e) /\ ~Launched(e)
  BY <1>1, EntryIsNotNone DEF Init, Executing, Launched
<1> QED
  BY <1>2 DEF Serial!Init, JobOf

(* A run that ends.                                                        *)
LEMMA EndRefines ==
  ASSUME SerialInv, NEW p \in Runs, UNCHANGED <<state, runner>>,
         \A o \in Runs : run'[o].entry = run[o].entry,
         \A o \in Runs \ {p} : run'[o] = run[o],
         Live(p)
  PROVE  [Serial!Next]_(Jobs)
<1>1. \A e \in Ids : Launched(e)' = Launched(e) /\ Claimed(e)' = Claimed(e)
  BY DEF Launched, Claimed
<1>2. CASE Live(p)'
  <2>1. \A e \in Ids : Executing(e)' = Executing(e)
    BY <1>2 DEF Executing, Live
  <2>2. \A e \in Ids : JobOf(e)' = JobOf(e)
    BY <1>1, <2>1 DEF JobOf
  <2> QED
    BY <2>2 DEF Jobs
<1>3. CASE ~Live(p)'
  <2>1. PICK r \in Runners : runner[r].pc = "wait" /\ run[p].entry = runner[r].entry
    BY DEF SerialInv, RunsAreAwaited
  <2>2. run[p].entry \in Ids
    BY <2>1 DEF SerialInv, QueueInv, TypeOK, RunnerTypeOK, LocalsFit, HoldingPcs
  <2>3. PICK e \in Ids : e = run[p].entry
    BY <2>2
  <2>4. \A o \in Runs : run[o].entry = e => o = p
    BY <2>3, EntryIsNotNone DEF SerialInv, QueueInv, LaunchedOnce
  <2>5. JobOf(e) = "busy" /\ JobOf(e)' = "over"
    BY <1>3, <2>3, <2>4 DEF JobOf, Executing, Launched
  <2>6. \A x \in Ids \ {e} : Executing(x)' = Executing(x)
    BY <2>3 DEF Executing, Live
  <2>7. \A x \in Ids \ {e} : JobOf(x)' = JobOf(x)
    BY <1>1, <2>6 DEF JobOf
  <2>8. Jobs' = [Jobs EXCEPT ![e] = "over"] /\ Jobs[e] = "busy"
    BY <2>5, <2>7 DEF Jobs
  <2> QED
    BY <2>8 DEF Serial!Next, Serial!End, Jobs
<1> QED
  BY <1>2, <1>3

LEMMA GuiRefines ==
  ASSUME Undisturbed, SerialInv, GuiStep
  PROVE  [Serial!Next]_(Jobs)
<1>1. /\ runner \in [Runners -> RunnerLocals]
      /\ state \in [Ids -> EntryStates]
      /\ run \in [Runs -> [pc : RunPcs, folder : Folders \cup {None},
                          entry : Ids \cup {None}, wrote : Written]]
  BY DEF SerialInv, QueueInv, TypeOK, RunnerTypeOK, FileTypeOK, RunTypeOK
<1>2. ASSUME UNCHANGED <<state, run>>, \A e \in Ids : Claimed(e)' = Claimed(e)
      PROVE  [Serial!Next]_(Jobs)
  <2>1. \A e \in Ids : Launched(e)' = Launched(e) /\ Executing(e)' = Executing(e)
    BY <1>2 DEF Launched, Executing, Live
  <2>2. \A e \in Ids : JobOf(e)' = JobOf(e)
    BY <1>2, <2>1 DEF JobOf
  <2> QED
    BY <2>2, WithdrawsOrStutters
<1>3. ASSUME NEW e \in Ids, NEW b \in Bases, NEW k \in 1 .. MaxVariants, Add(e, b, k)
      PROVE  [Serial!Next]_(Jobs)
  <2>1. /\ state[e] = "new" /\ UNCHANGED <<run, runner>>
        /\ \A x \in Ids : state'[x] = IF x = e THEN "pending" ELSE state[x]
    BY <1>1, <1>3 DEF Add
  <2>2. \A x \in Ids : /\ Launched(x)' = Launched(x) /\ Executing(x)' = Executing(x)
                       /\ Claimed(x)' = Claimed(x)
    BY <2>1 DEF Launched, Executing, Claimed, Live
  <2>3. ~Launched(e) /\ ~Executing(e)
    BY <2>1, EntryIsNotNone DEF SerialInv, QueueInv, LaunchFollowsClaim, Launched, Executing
  <2>4. JobOf(e) = "absent" /\ JobOf(e)' = "waiting"
    BY <2>1, <2>2, <2>3 DEF JobOf, Active
  <2>5. \A x \in Ids \ {e} : JobOf(x)' = JobOf(x)
    BY <2>1, <2>2 DEF JobOf
  <2>6. Jobs[e] = "absent" /\ Jobs' = [Jobs EXCEPT ![e] = "waiting"]
    BY <2>4, <2>5 DEF Jobs
  <2> QED
    BY <2>6 DEF Serial!Next, Serial!Submit, Jobs
<1>4. ASSUME NEW gone, Drop(gone), \A e \in Ids \cap gone : state[e] # "new"
      PROVE  [Serial!Next]_(Jobs)
  <2>1. /\ UNCHANGED <<run, runner>>
        /\ \A x \in Ids : state'[x] = IF x \in gone THEN "removed" ELSE state[x]
    BY <1>4 DEF Drop
  <2>2. \A x \in Ids : /\ Launched(x)' = Launched(x) /\ Executing(x)' = Executing(x)
                       /\ Claimed(x)' = Claimed(x)
    BY <2>1 DEF Launched, Executing, Claimed, Live
  <2>3. \A e \in Ids : \/ JobOf(e)' = JobOf(e)
                       \/ JobOf(e) = "waiting" /\ JobOf(e)' = "over"
    BY <1>4, <2>1, <2>2 DEF JobOf, Active
  <2> QED
    BY <2>3, WithdrawsOrStutters
<1>5. ASSUME NEW s \in Sessions, SpawnRunner(s) PROVE [Serial!Next]_(Jobs)
  <2>1. PICK r \in Runners :
          runner[r].pc = "unborn" /\ runner' = [runner EXCEPT ![r].pc = "boot"]
    BY <1>5 DEF SpawnRunner
  <2>2. \A e \in Ids : Claimed(e)' = Claimed(e)
    BY <1>1, <2>1 DEF Claimed, RunnerLocals
  <2> QED
    BY <1>2, <1>5, <2>2 DEF SpawnRunner, file
<1>6. ASSUME NEW d \in Folders, Kill(d) PROVE [Serial!Next]_(Jobs)
  <2>1. pidfile[d] \in Runs /\ Live(pidfile[d])
    BY <1>6 DEF Kill, IsRunning, SerialInv, QueueInv, TypeOK, DiskTypeOK
  <2>2. /\ \A o \in Runs : run'[o].entry = run[o].entry
        /\ \A o \in Runs \ {pidfile[d]} : run'[o] = run[o]
    BY <1>1, <1>6, <2>1 DEF Kill
  <2>3. UNCHANGED <<state, runner>>
    BY <1>6 DEF Kill, file
  <2> QED
    BY <2>1, <2>2, <2>3, EndRefines
<1>7. \A s \in Sessions : ~LaunchResume(s)
  BY DEF LaunchResume, SerialInv, NobodyResumes
<1>8. CASE UNCHANGED <<state, run, runner>>
  BY <1>2, <1>8 DEF Claimed
<1>9. ASSUME NEW e \in Ids, Remove(e) PROVE [Serial!Next]_(Jobs)
  BY <1>4, <1>9 DEF Remove, InQueue, Queued, Active, Finished
<1>10. CASE ClearFinished
  BY <1>4, <1>10 DEF ClearFinished, Finished
<1>11. CASE ClearAll
  BY <1>4, <1>11 DEF ClearAll, InQueue, Queued, Active, Finished
<1> QED
  BY <1>3, <1>5, <1>6, <1>7, <1>8, <1>9, <1>10, <1>11
     DEF GuiStep, DeleteConfig, Move, ClickStart, Unpause, Pause, ClickResume, file

LEMMA RunnerRefines ==
  ASSUME SerialInv, NEW r \in Runners, RunnerStep(r)
  PROVE  [Serial!Next]_(Jobs)
<1>1. /\ runner \in [Runners -> RunnerLocals]
      /\ state \in [Ids -> EntryStates]
      /\ run \in [Runs -> [pc : RunPcs, folder : Folders \cup {None},
                          entry : Ids \cup {None}, wrote : Written]]
  BY DEF SerialInv, QueueInv, TypeOK, RunnerTypeOK, FileTypeOK, RunTypeOK
<1>2. ASSUME UNCHANGED <<state, run>>, NEW v, v.pc \notin {"busy", "spawn"},
             runner' = [runner EXCEPT ![r] = v]
      PROVE  Serial!Next
  <2>1. \A q \in Runners : runner'[q] = IF q = r THEN v ELSE runner[q]
    BY <1>1, <1>2
  <2> QED
    BY <1>2, <2>1, WaitingShrinks
<1>3. CASE ClaimSingleton(r)
  <2>1. CASE QueueOwned
    <3>1. runner' = [runner EXCEPT ![r] = [runner[r] EXCEPT !.pc = "exited"]]
      BY <1>1, <1>3, <2>1 DEF ClaimSingleton
    <3>2. [runner[r] EXCEPT !.pc = "exited"].pc = "exited"
      BY <1>1 DEF RunnerLocals
    <3> QED
      BY <1>2, <1>3, <3>1, <3>2 DEF ClaimSingleton
  <2>2. CASE ~QueueOwned
    <3>1. runner' = [runner EXCEPT ![r] = [runner[r] EXCEPT !.pc = "reconcile"]]
      BY <1>1, <1>3, <2>2 DEF ClaimSingleton
    <3>2. [runner[r] EXCEPT !.pc = "reconcile"].pc = "reconcile"
      BY <1>1 DEF RunnerLocals
    <3> QED
      BY <1>2, <1>3, <3>1, <3>2 DEF ClaimSingleton
  <2> QED
    BY <2>1, <2>2
<1>4. CASE Reconcile(r)
  <2>1. \A q \in Runners : runner'[q].pc \in {"busy", "spawn"} =>
          runner[q].pc \in {"busy", "spawn"} /\ runner'[q].entry = runner[q].entry
    BY <1>1, <1>4 DEF Reconcile, RunnerLocals
  <2>2. \A e \in Ids : \/ state'[e] = state[e]
                       \/ state[e] = "running" /\ state'[e] \in {"done", "failed"}
    BY <1>1, <1>4 DEF Reconcile, Classify
  <2> QED
    BY <1>4, <2>1, <2>2, WaitingShrinks DEF Reconcile, Active
<1>5. ASSUME NEW e \in Ids, Claim(r, e) PROVE Serial!Next
  <2>1. \A q \in Runners : runner'[q].pc \in {"busy", "spawn"} =>
          \/ runner[q].pc \in {"busy", "spawn"} /\ runner'[q].entry = runner[q].entry
          \/ runner'[q].entry = e
    BY <1>1, <1>5 DEF Claim, RunnerLocals
  <2>2. state[e] = "pending" /\ \A x \in Ids : state'[x] = IF x = e THEN "running" ELSE state[x]
    BY <1>1, <1>5 DEF Claim, IsNextPending
  <2>3. \A x \in Ids : state'[x] = "new" <=> state[x] = "new"
    BY <2>2
  <2>4. \A x \in Ids : state'[x] \in Active => state[x] \in Active
    BY <2>2 DEF Active
  <2>5. \A q \in Runners : runner'[q].pc \in {"busy", "spawn"} =>
          \/ runner[q].pc \in {"busy", "spawn"} /\ runner'[q].entry = runner[q].entry
          \/ state[runner'[q].entry] \in Active
    BY <2>1, <2>2 DEF Active
  <2>6. UNCHANGED run
    BY <1>5 DEF Claim
  <2> QED
    BY <2>3, <2>4, <2>5, <2>6, WaitingShrinks
<1>6. ASSUME NEW e \in Ids, Skip(r, e) PROVE Serial!Next
  <2>1. state[e] = "pending" /\ \A x \in Ids : state'[x] = IF x = e THEN "skipped" ELSE state[x]
    BY <1>1, <1>6 DEF Skip, IsNextPending
  <2> QED
    BY <1>6, <2>1, WaitingShrinks DEF Skip, Active
<1>7. CASE Drained(r)
  <2>1. runner' = [runner EXCEPT ![r] = [runner[r] EXCEPT !.pc = "release"]]
    BY <1>1, <1>7 DEF Drained
  <2>2. [runner[r] EXCEPT !.pc = "release"].pc = "release"
    BY <1>1 DEF RunnerLocals
  <2> QED
    BY <1>2, <1>7, <2>1, <2>2 DEF Drained, file
<1>8. CASE FindFree(r)
  <2>1. \A q \in Runners : runner'[q].pc \in {"busy", "spawn"} =>
          runner[q].pc \in {"busy", "spawn"} /\ runner'[q].entry = runner[q].entry
    BY <1>1, <1>8 DEF FindFree, RunnerLocals
  <2> QED
    BY <1>8, <2>1, WaitingShrinks DEF FindFree, file
<1>9. CASE LaunchEntry(r)
  <2>1. PICK p \in Runs : /\ Launch(p, runner[r].work, runner[r].entry)
                          /\ runner' = [runner EXCEPT ![r].pc = "wait", ![r].child = p]
    BY <1>9 DEF LaunchEntry
  <2>2. runner[r].pc = "spawn" /\ runner[r].entry \in Ids
    BY <1>9 DEF LaunchEntry, SerialInv, QueueInv, TypeOK, RunnerTypeOK, LocalsFit, HoldingPcs
  <2>3. PICK e \in Ids : e = runner[r].entry
    BY <2>2
  <2>4. \A o \in Runs : ~Live(o)
    <3> SUFFICES ASSUME NEW o \in Runs, Live(o) PROVE FALSE
      OBVIOUS
    <3>1. PICK q \in Runners : runner[q].pc = "wait"
      BY DEF SerialInv, RunsAreAwaited
    <3>2. q = r
      BY <2>2, <3>1, OneOwner DEF SerialInv, QueueInv, OwnerPcs
    <3> QED
      BY <2>2, <3>1, <3>2
  <2>5. \A x \in Ids : Jobs[x] # "busy"
    BY <2>4 DEF Jobs, JobOf, Executing
  <2>6. \A o \in Runs : run[o].entry # e
    BY <2>2, <2>3, EntryIsNotNone DEF SerialInv, QueueInv, LaunchFollowsClaim
  <2>7. Claimed(e) /\ state[e] \in {"running", "removed"}
    BY <2>2, <2>3 DEF Claimed, SerialInv, QueueInv, ClaimIsHeld, HoldingPcs
  <2>8. Jobs[e] = "waiting"
    BY <2>4, <2>6, <2>7 DEF Jobs, JobOf, Executing, Launched
  <2>9. \A o \in Runs : /\ run'[o].entry = (IF o = p THEN e ELSE run[o].entry)
                        /\ Live(o)' <=> (o = p)
    BY <1>1, <2>1, <2>3, <2>4 DEF Launch, Live, LivePcs
  <2>10. Executing(e)' /\ UNCHANGED state
    BY <1>9, <2>9 DEF Executing, LaunchEntry, file
  <2>11. JobOf(e)' = "busy"
    BY <2>10 DEF JobOf
  <2>12. ASSUME NEW x \in Ids \ {e} PROVE JobOf(x)' = JobOf(x)
    <3>1. ~Executing(x)' /\ ~Executing(x)
      BY <2>4, <2>9 DEF Executing
    <3>2. run[p].pc = "unborn" /\ run[p].entry # x
      <4>1. \A o \in Runs : run[o].pc = "unborn" => run[o].entry = None
        BY DEF SerialInv, QueueInv, TypeOK, RunTypeOK
      <4> QED
        BY <2>1, <4>1, EntryIsNotNone DEF Launch
    <3>3. Launched(x)' = Launched(x)
      BY <2>9, <3>2 DEF Launched
    <3>4. Claimed(x)' = Claimed(x)
      BY <1>1, <2>1, <2>2, <2>3 DEF Claimed, RunnerLocals
    <3> QED
      BY <2>10, <3>1, <3>3, <3>4 DEF JobOf
  <2>13. Jobs' = [Jobs EXCEPT ![e] = "busy"]
    BY <2>11, <2>12 DEF Jobs
  <2>14. Serial!Begin(e)
    BY <2>5, <2>8, <2>13 DEF Serial!Begin, Jobs
  <2> QED
    BY <2>14 DEF Serial!Next
<1>10. CASE Reap(r)
  <2>1. PICK v : v = Classify(runner[r].work, ExitedWithZero(runner[r].child))
    OBVIOUS
  <2>2. runner' = [runner EXCEPT ![r] = [runner[r] EXCEPT !.pc = "mark", !.verdict = v]]
    BY <1>1, <1>10, <2>1 DEF Reap
  <2>3. [runner[r] EXCEPT !.pc = "mark", !.verdict = v].pc = "mark"
    BY <1>1 DEF RunnerLocals
  <2> QED
    BY <1>2, <1>10, <2>2, <2>3 DEF Reap, file
<1>11. CASE Mark(r)
  <2>1. \A q \in Runners : runner'[q] = IF q = r THEN NoLocals ELSE runner[q]
    BY <1>1, <1>11 DEF Mark
  <2>2. runner[r].entry \in Ids /\ runner[r].verdict \in {"done", "failed"}
    BY <1>11 DEF Mark, SerialInv, QueueInv, TypeOK, RunnerTypeOK, LocalsFit, HoldingPcs
  <2>3. state[runner[r].entry] \in {"running", "removed"}
    BY <1>11 DEF Mark, SerialInv, QueueInv, ClaimIsHeld, HoldingPcs
  <2>4. \A x \in Ids : \/ state'[x] = state[x]
                       \/ state[x] = "running" /\ state'[x] \in {"done", "failed"}
    BY <1>1, <1>11, <2>2, <2>3 DEF Mark, InQueue, Queued, Active, Finished
  <2> QED
    BY <1>11, <2>1, <2>4, WaitingShrinks DEF Mark, NoLocals, Active
<1>12. CASE Release(r)
  <2>1. runner' = [runner EXCEPT ![r] = [runner[r] EXCEPT !.pc = "exited"]]
    BY <1>1, <1>12 DEF Release
  <2>2. [runner[r] EXCEPT !.pc = "exited"].pc = "exited"
    BY <1>1 DEF RunnerLocals
  <2> QED
    BY <1>2, <1>12, <2>1, <2>2 DEF Release
<1> QED
  BY <1>3, <1>4, <1>5, <1>6, <1>7, <1>8, <1>9, <1>10, <1>11, <1>12 DEF RunnerStep

LEMMA RunRefines ==
  ASSUME SerialInv, NEW p \in Runs, RunStep(p)
  PROVE  [Serial!Next]_(Jobs)
<1>1. run \in [Runs -> [pc : RunPcs, folder : Folders \cup {None},
                        entry : Ids \cup {None}, wrote : Written]]
  BY DEF SerialInv, QueueInv, TypeOK, RunTypeOK
<1>2. UNCHANGED <<state, runner>> /\ Live(p)
  BY DEF RunStep, RunUnreadable, RunRejected, RunWritesPid, RunSetupFails, RunStarts,
         RunCheckpoints, RunEnds, RunRaises, RunLetsGo, RunAborts, RunExits, MarkFailed, file,
         Live, LivePcs
<1>3. \A o \in Runs : run'[o].entry = run[o].entry
  BY <1>1 DEF RunStep, RunUnreadable, RunRejected, RunWritesPid, RunSetupFails, RunStarts,
         RunCheckpoints, RunEnds, RunRaises, RunLetsGo, RunAborts, RunExits, MarkFailed
<1>4. \A o \in Runs \ {p} : run'[o] = run[o]
  BY <1>1 DEF RunStep, RunUnreadable, RunRejected, RunWritesPid, RunSetupFails, RunStarts,
         RunCheckpoints, RunEnds, RunRaises, RunLetsGo, RunAborts, RunExits, MarkFailed
<1> QED
  BY <1>2, <1>3, <1>4, EndRefines

LEMMA NextRefines ==
  ASSUME Undisturbed, SerialInv, [Next]_vars
  PROVE  [Serial!Next]_(Jobs)
<1>1. CASE GuiStep
  BY <1>1, GuiRefines
<1>2. ASSUME NEW r \in Runners, RunnerStep(r) PROVE [Serial!Next]_(Jobs)
  BY <1>2, RunnerRefines
<1>3. ASSUME NEW p \in Runs, RunStep(p) PROVE [Serial!Next]_(Jobs)
  BY <1>3, RunRefines
<1>4. CASE UNCHANGED vars
  BY <1>4 DEF vars, file, Jobs, JobOf, Executing, Launched, Claimed, Live
<1>5. \A r \in Runners : ~RunnerDies(r)
  BY DEF RunnerDies, Undisturbed
<1> QED
  BY <1>1, <1>2, <1>3, <1>4, <1>5 DEF Next

(* While runners live and nobody uses Resume, the queue with all its       *)
(* files, locks and processes implements the abstract serial queue.        *)
THEOREM QueueIsSerial ==
  ASSUME Undisturbed
  PROVE  Spec => SerialSpec
<1>1. Init => Serial!Init
  BY InitRefines
<1>2. SerialInv /\ [Next]_vars => [Serial!Next]_(Jobs)
  BY NextRefines
<1>3. Init => SerialInv
  BY InitSerial
<1>4. SerialInv /\ [Next]_vars => SerialInv'
  BY NextSerial
<1> QED
  BY <1>1, <1>2, <1>3, <1>4, PTL DEF Spec, SerialSpec, Serial!Spec, Jobs
=============================================================================
