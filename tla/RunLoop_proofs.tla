--------------------------- MODULE RunLoop_proofs ---------------------------
(***************************************************************************)
(* Proofs about the optimisation run: for any number of processes in the   *)
(* folder, any iteration limits and volumes, and whatever crashes, errors  *)
(* and interrupts happen.                                                  *)
(*                                                                         *)
(* The sequences (the history's rows, a process's volumes) are used through *)
(* the lemmas of the first section only; everywhere else NRows, Row,       *)
(* Histories, VolumeLists, Noted and Record stay unexpanded.               *)
(***************************************************************************)
EXTENDS RunLoop, TLAPS

Starting == {"begin", "reset", "claim", "setup"}
Solving  == {"solving", "solved", "decide", "recover"}

-----------------------------------------------------------------------------
(* The history and the volumes as sequences.                               *)

LEMMA EmptyIsList == Empty \in Histories /\ Empty \in VolumeLists
  BY DEF Empty, Histories, VolumeLists

LEMMA EmptyHistory ==
  /\ history = Empty => NRows = 0
  /\ history' = Empty => NRows' = 0
  BY DEF Empty, NRows

LEMMA RowsAreRows ==
  ASSUME history \in Histories
  PROVE  NRows \in Nat /\ \A i \in RowNumbers : Row(i) \in Rows
  BY DEF Histories, NRows, RowNumbers, Row

LEMMA NotedIsList ==
  ASSUME proc.vfs \in VolumeLists, proc.design.vf \in Volumes
  PROVE  Noted \in VolumeLists
<1> SUFFICES ASSUME NEW s \in VolumeLists, NEW v \in Volumes
             PROVE  Append(s, v) \in VolumeLists
  BY Zenon DEF Noted
<1> QED
  BY DEF VolumeLists

(* A new row goes to the end and leaves the others alone.                  *)
LEMMA AppendRow ==
  ASSUME history \in Histories, NEW row \in Rows, history' = Append(history, row)
  PROVE  /\ history' \in Histories /\ NRows' = NRows + 1
         /\ \A i \in RowNumbers : Row(i)' = Row(i)
         /\ Row(NRows)' = row
         /\ \A i : i = NRows + 1 => Row(i)' = row
<1>1. /\ Append(history, row) \in Seq(Rows)
      /\ Len(Append(history, row)) = Len(history) + 1
      /\ \A i \in 1 .. Len(history) : Append(history, row)[i] = history[i]
      /\ Append(history, row)[Len(history) + 1] = row
  BY DEF Histories
<1> QED
  BY <1>1 DEF Histories, NRows, RowNumbers, Row

LEMMA SameHistory ==
  ASSUME history' = history
  PROVE  NRows' = NRows /\ RowNumbers' = RowNumbers /\ \A i : Row(i)' = Row(i)
  BY DEF NRows, RowNumbers, Row

(* An iteration's row goes into the history.                               *)
LEMMA RecordedRow ==
  ASSUME TypeOK, proc.pc \in LoopPcs, NEW f \in BOOLEAN, Record(f)
  PROVE  /\ history' \in Histories /\ NRows' = NRows + 1 /\ NRows \in Nat
         /\ RowNumbers' = RowNumbers \cup {NRows + 1}
         /\ \A i \in RowNumbers : Row(i)' = Row(i)
         /\ Row(NRows)' \in Rows
         /\ Row(NRows)'.it = proc.it /\ Row(NRows)'.design = proc.design
         /\ \A i : i = NRows + 1 => Row(i)'.it = proc.it /\ Row(i)'.design = proc.design
<1> DEFINE row == [it |-> proc.it, design |-> proc.design, feasible |-> f]
<1>1. row \in Rows /\ row.it = proc.it /\ row.design = proc.design
  BY DEF TypeOK, ProcessOK, Processes, Rows
<1>2. history \in Histories /\ history' = Append(history, row)
  BY Zenon DEF TypeOK, FolderOK, Record
<1> HIDE DEF row
<1>3. /\ history' \in Histories /\ NRows' = NRows + 1 /\ Row(NRows)' = row
      /\ \A i : i = NRows + 1 => Row(i)' = row
      /\ \A i \in RowNumbers : Row(i)' = Row(i)
  BY <1>1, <1>2, AppendRow
<1>4. NRows \in Nat
  BY <1>2, RowsAreRows
<1>5. RowNumbers' = RowNumbers \cup {NRows + 1}
  BY <1>3, <1>4 DEF RowNumbers
<1> QED
  BY <1>1, <1>3, <1>4, <1>5

-----------------------------------------------------------------------------
(* The parts of the invariant that speak of the files alone, and those     *)
(* that speak of the process.                                              *)
Records == ResumesAgree /\ HistoryHasNoGaps /\ CheckpointContinues

LEMMA RecordsStay ==
  ASSUME Records, UNCHANGED <<history, checkpoint>>
  PROVE  Records'
<1>1. /\ NRows' = NRows /\ RowNumbers' = RowNumbers /\ checkpoint' = checkpoint
      /\ \A i : Row(i)' = Row(i)
  BY SameHistory
<1> QED
  BY <1>1 DEF Records, ResumesAgree, HistoryHasNoGaps, CheckpointContinues, Continues,
     OwnRow

LEMMA PcFacts ==
  /\ {"none", "begin", "reset", "claim", "setup", "final", "post", "exit",
      "stamp"} \subseteq Pcs
  /\ LoopPcs \subseteq Pcs
  BY DEF Pcs, LoopPcs

LEMMA NumberFacts == 0 \in Limits /\ 0 \in 0 .. (DivergeFailAfter - 1)
  BY LoopAssumption DEF Limits

LEMMA IdleProcess == NoProcess \in Processes
<1>1. "none" \in Pcs /\ "running" \in States
  BY PcFacts DEF States
<1> QED
  BY <1>1, NumberFacts, EmptyIsList DEF NoProcess, Processes

LEMMA InitLoop == Init => LoopInv
<1> SUFFICES ASSUME Init PROVE LoopInv
  OBVIOUS
<1>1. NRows = 0 /\ RowNumbers = {}
  BY EmptyHistory DEF Init, RowNumbers
<1>2. TypeOK
  <2>1. proc \in Processes /\ proc.pc \notin LoopPcs /\ ~Live
    BY IdleProcess DEF Init, NoProcess, LoopPcs, Live
  <2>2. ProcessOK
    <3>1. launches \in 0 .. MaxLaunches
      BY LoopAssumption DEF Init
    <3>2. asked \in BOOLEAN
      BY DEF Init
    <3> QED
      BY <2>1, <3>1, <3>2, Zenon DEF ProcessOK
  <2>3. FolderOK
    BY EmptyIsList DEF Init, FolderOK
  <2>4. ArchiveOK
    BY DEF Init, ArchiveOK
  <2> QED
    BY <2>2, <2>3, <2>4 DEF TypeOK
<1>3. ResumesAgree /\ HistoryHasNoGaps /\ CheckpointContinues
  BY <1>1 DEF Init, ResumesAgree, HistoryHasNoGaps, CheckpointContinues
<1>4. LoopContinues /\ OriginsAreLaunched /\ FreshIsNew /\ FreshHistoryIsOwn
  BY <1>1 DEF Init, NoProcess, LoopContinues, OriginsAreLaunched, FreshIsNew,
     FreshHistoryIsOwn, LoopPcs
<1>5. StopIsKept /\ EndIsPublished
  BY LoopAssumption DEF Init, NoProcess, StopIsKept, EndIsPublished
<1> QED
  BY <1>2, <1>3, <1>4, <1>5 DEF LoopInv

-----------------------------------------------------------------------------
(* Steps after which the process is not, or no longer, at work: leaving    *)
(* the loop, the finally block, every way to end, and a crash.             *)

Ended == {"none", "final", "post", "exit", "stamp"}

LEMMA EndingInv ==
  ASSUME LoopInv, Live, UNCHANGED <<launches, asked, stop_flag, history, checkpoint,
                                    solve_dir>>,
         proc' \in Processes, proc'.pc \in Ended, ArchiveOK',
         status' \in States \cup {None}, pidfile' \in {pidfile, None},
         EndIsPublished'
  PROVE  LoopInv'
<1>1. Records'
  BY RecordsStay DEF LoopInv, Records
<1>2. proc'.pc \notin LoopPcs /\ proc'.pc \notin Starting
  BY DEF Ended, Starting, LoopPcs
<1>3. ProcessOK'
  BY <1>2 DEF LoopInv, TypeOK, ProcessOK
<1>4. FolderOK'
  BY Zenon DEF LoopInv, TypeOK, FolderOK
<1>5. LoopContinues' /\ FreshHistoryIsOwn' /\ FreshIsNew'
  BY <1>2 DEF LoopContinues, FreshHistoryIsOwn, FreshIsNew, Starting
<1>6. RowNumbers' = RowNumbers /\ \A i : Row(i)' = Row(i)
  BY SameHistory
<1>7. OriginsAreLaunched'
  BY <1>2, <1>6 DEF LoopInv, OriginsAreLaunched
<1>8. StopIsKept'
  BY <1>2, LoopAssumption DEF LoopInv, TypeOK, ProcessOK, StopIsKept, Starting, Live
<1> QED
  BY <1>1, <1>3, <1>4, <1>5, <1>7, <1>8 DEF LoopInv, TypeOK, Records

LEMMA LeaveInv ==
  ASSUME LoopInv, proc.pc \in LoopPcs, NEW s \in States, Leave(s)
  PROVE  LoopInv'
<1>1. Live
  BY DEF Live, LoopPcs
<1>2. proc' \in Processes /\ proc'.pc = "final"
  <2>1. "final" \in Pcs
    BY PcFacts
  <2> QED
    BY <2>1 DEF Leave, LoopInv, TypeOK, ProcessOK, Processes
<1>3. ArchiveOK'
  BY DEF Leave, LoopInv, TypeOK, ArchiveOK
<1>4. status' \in States \cup {None}
  BY DEF Leave, LoopInv, TypeOK, FolderOK
<1> QED
  BY <1>1, <1>2, <1>3, <1>4, EndingInv DEF Leave, Ended, EndIsPublished

LEMMA RaiseInv ==
  ASSUME LoopInv, NEW kind \in {"error", "interrupt"}, LoopRaises(kind)
  PROVE  LoopInv'
<1>1. Live
  BY DEF Live, LoopPcs, LoopRaises
<1>2. proc' \in Processes /\ proc'.pc = "final"
  <2>1. "final" \in Pcs /\ (kind = "error") \in BOOLEAN
    BY PcFacts
  <2> QED
    BY <2>1 DEF LoopRaises, LoopInv, TypeOK, ProcessOK, Processes
<1>3. ArchiveOK'
  BY DEF LoopRaises, LoopInv, TypeOK, ArchiveOK
<1>4. status' \in States \cup {None}
  BY DEF LoopRaises, LoopInv, TypeOK, FolderOK
<1> QED
  BY <1>1, <1>2, <1>3, <1>4, EndingInv DEF LoopRaises, Ended, EndIsPublished

LEMMA PublishFinalInv ==
  ASSUME LoopInv, PublishFinal
  PROVE  LoopInv'
<1>1. Live
  BY DEF Live, PublishFinal
<1>2. proc' \in Processes /\ proc'.pc = "post"
  <2>1. "post" \in Pcs
    BY PcFacts
  <2> QED
    BY <2>1 DEF PublishFinal, LoopInv, TypeOK, ProcessOK, Processes
<1>3. ArchiveOK'
  BY DEF PublishFinal, LoopInv, TypeOK, ArchiveOK
<1>4. status' \in States \ {"running"}
  <2>1. proc.state \in States
    BY DEF LoopInv, TypeOK, ProcessOK, Processes
  <2> QED
    BY <2>1 DEF PublishFinal, States
<1> QED
  BY <1>1, <1>2, <1>3, <1>4, EndingInv DEF PublishFinal, Ended, EndIsPublished

(* What is converted is a design, or nothing.                              *)
LEMMA ConvertFinalInv ==
  ASSUME LoopInv, ConvertFinal
  PROVE  LoopInv'
<1>1. Live
  BY DEF Live, ConvertFinal
<1>2. proc' \in Processes /\ proc'.pc = "exit"
  <2>1. "exit" \in Pcs
    BY PcFacts
  <2> QED
    BY <2>1 DEF ConvertFinal, LoopInv, TypeOK, ProcessOK, Processes
<1>3. /\ archive' = archive
      /\ archive \in [Limits -> Designs \cup {None}] /\ solve_dir \in Designs \cup {None}
  BY DEF ConvertFinal, LoopInv, TypeOK, FolderOK, ArchiveOK
<1>4. d3plot'.row \in Rows \cup {None} /\ d3plot'.shown \in Designs \cup {None}
  <2>1. CASE NRows = 0
    BY <2>1, <1>3 DEF ConvertFinal
  <2>2. CASE NRows # 0
    <3>1. PICK i \in RowNumbers : d3plot' = Conversion(Row(i))
      BY <2>2 DEF ConvertFinal
    <3>2. Row(i) \in Rows /\ Row(i).it \in Limits
      BY RowsAreRows DEF LoopInv, TypeOK, FolderOK, Rows
    <3>3. archive[Row(i).it] \in Designs \cup {None}
      BY <1>3, <3>2
    <3> QED
      BY <1>3, <3>1, <3>2, <3>3 DEF Conversion
  <2> QED
    BY <2>1, <2>2
<1>5. ArchiveOK'
  BY <1>3, <1>4, Zenon DEF ArchiveOK
<1>6. status' \in States \cup {None} /\ EndIsPublished'
  BY <1>2 DEF ConvertFinal, LoopInv, TypeOK, FolderOK, EndIsPublished
<1> QED
  BY <1>1, <1>2, <1>5, <1>6, EndingInv DEF ConvertFinal, Ended

LEMMA EndedInv ==
  ASSUME LoopInv, Exit \/ (Live /\ MarkFailed) \/ Crash
  PROVE  LoopInv'
<1>1. Live
  BY Zenon DEF Live, Exit, Crash
<1>2. proc' \in Processes /\ proc'.pc = "none"
  <2>1. proc' = NoProcess
    BY Zenon DEF Exit, MarkFailed, Crash
  <2>2. NoProcess.pc = "none"
    BY DEF NoProcess
  <2> QED
    BY <2>1, <2>2, IdleProcess
<1>3. ArchiveOK'
  BY Zenon DEF Exit, MarkFailed, Crash, LoopInv, TypeOK, ArchiveOK
<1>4. status' \in States \cup {None}
  BY DEF Exit, MarkFailed, Crash, LoopInv, TypeOK, FolderOK, States
<1>5. UNCHANGED <<launches, asked, stop_flag, history, checkpoint, solve_dir>>
      /\ pidfile' \in {pidfile, None}
  BY DEF Exit, MarkFailed, Crash
<1> QED
  BY <1>1, <1>2, <1>3, <1>4, <1>5, EndingInv DEF Ended, EndIsPublished

LEMMA LetGoInv == LoopInv /\ LetGo => LoopInv'
<1> SUFFICES ASSUME LoopInv, LetGo PROVE LoopInv'
  OBVIOUS
<1>1. Live
  BY DEF Live, LetGo
<1>2. proc' \in Processes /\ proc'.pc = "stamp"
  BY PcFacts DEF LetGo, LoopInv, TypeOK, ProcessOK, Processes
<1>3. ArchiveOK'
  BY Zenon DEF LetGo, LoopInv, TypeOK, ArchiveOK
<1>4. status' \in States \cup {None} /\ EndIsPublished'
  BY <1>2 DEF LetGo, LoopInv, TypeOK, FolderOK, EndIsPublished
<1>5. UNCHANGED <<launches, asked, stop_flag, history, checkpoint, solve_dir>>
      /\ pidfile' \in {pidfile, None}
  BY DEF LetGo
<1> QED
  BY <1>1, <1>2, <1>3, <1>4, <1>5, EndingInv DEF Ended

-----------------------------------------------------------------------------
(* The start of a process.                                                 *)

(* Start-up steps share this: the process is typed, at a start-up step,    *)
(* and the files the invariant speaks of are those of before.              *)
LEMMA StartingType ==
  ASSUME TypeOK, launches' \in 1 .. MaxLaunches, proc' \in Processes,
         proc'.pc \in Starting, asked' \in BOOLEAN, stop_flag' \in BOOLEAN,
         pidfile' \in (1 .. MaxLaunches) \cup {None}, history' \in Histories,
         UNCHANGED <<status, checkpoint, archive, solve_dir>>,
         d3plot' \in {d3plot, None}
  PROVE  TypeOK'
<1>1. ProcessOK'
  <2>1. launches' \in 0 .. MaxLaunches /\ launches' > 0
    OBVIOUS
  <2>2. proc'.pc \notin LoopPcs
    BY DEF Starting, LoopPcs
  <2> QED
    BY <2>1, <2>2, Zenon DEF ProcessOK
<1>2. FolderOK'
  BY Zenon DEF TypeOK, FolderOK
<1>3. ArchiveOK'
  BY Zenon DEF TypeOK, ArchiveOK
<1> QED
  BY <1>1, <1>2, <1>3 DEF TypeOK

LEMMA StartingRest ==
  ASSUME proc'.pc \in Starting
  PROVE  LoopContinues' /\ FreshHistoryIsOwn' /\ EndIsPublished'
  BY DEF LoopContinues, FreshHistoryIsOwn, EndIsPublished, LoopPcs, Starting

LEMMA LaunchInv ==
  ASSUME LoopInv, NEW resume \in BOOLEAN, NEW limit \in Limits, NEW keep \in Archiving,
         Launch(resume, limit, keep)
  PROVE  LoopInv'
<1>1. Records'
  BY RecordsStay DEF Launch, LoopInv, Records
<1>2. proc'.pc = "begin" /\ proc'.it = 0
  BY DEF Launch, NoProcess
<1>3. launches \in 0 .. MaxLaunches /\ launches' \in 1 .. MaxLaunches
      /\ launches' = launches + 1
  BY LoopAssumption DEF Launch, LoopInv, TypeOK, ProcessOK
<1>4. proc' \in Processes
  <2>1. "begin" \in Pcs /\ keep \in BOOLEAN
    BY PcFacts, LoopAssumption
  <2>2. NoProcess \in Processes
    BY IdleProcess
  <2> QED
    BY <2>1, <2>2 DEF Launch, Processes
<1>5. TypeOK' /\ LoopContinues' /\ FreshHistoryIsOwn' /\ EndIsPublished'
  <2>1. proc'.pc \in Starting
    BY <1>2 DEF Starting
  <2>2. d3plot' \in {d3plot, None}
    BY DEF Launch
  <2>3. asked' \in BOOLEAN /\ UNCHANGED <<status, checkpoint, archive, solve_dir>>
    BY Zenon DEF Launch
  <2>4. /\ stop_flag' \in BOOLEAN
        /\ pidfile' \in (1 .. MaxLaunches) \cup {None} /\ history' \in Histories
    BY Zenon DEF Launch, LoopInv, TypeOK, FolderOK
  <2> QED
    BY <1>3, <1>4, <2>1, <2>2, <2>3, <2>4, StartingType, StartingRest DEF LoopInv
<1>6. /\ RowNumbers' = RowNumbers /\ \A i : Row(i)' = Row(i)
      /\ checkpoint' = checkpoint
  BY SameHistory DEF Launch
<1>7. \A i \in RowNumbers : Row(i).design.origin \in Nat
  BY RowsAreRows DEF LoopInv, TypeOK, FolderOK, Rows, Designs
<1>8. checkpoint # None => checkpoint.design.origin \in Nat
  BY DEF LoopInv, TypeOK, FolderOK, Checkpoints, Designs
<1>9. OriginsAreLaunched' /\ FreshIsNew'
  BY <1>2, <1>3, <1>6, <1>7, <1>8 DEF LoopInv, OriginsAreLaunched, FreshIsNew, LoopPcs
<1>10. StopIsKept'
  <2>1. pidfile' = pidfile /\ asked' = FALSE
    BY DEF Launch
  <2>2. pidfile # None => pidfile \in Nat /\ pidfile <= launches
    BY DEF LoopInv, TypeOK, FolderOK, StopIsKept
  <2> QED
    BY <1>3, <2>1, <2>2, LoopAssumption DEF StopIsKept
<1> QED
  BY <1>1, <1>5, <1>9, <1>10 DEF LoopInv, Records

LEMMA BeginInv ==
  ASSUME LoopInv, Begin
  PROVE  LoopInv'
<1> DEFINE resume == proc.resume /\ checkpoint # None
<1>1. Records'
  BY RecordsStay DEF Begin, LoopInv, Records
<1>2. /\ proc \in Processes /\ proc.pc = "begin" /\ proc.it = 0
      /\ launches \in 1 .. MaxLaunches
  BY LoopAssumption DEF Begin, LoopInv, TypeOK, ProcessOK, FreshIsNew, Live
<1>3. /\ proc' = [proc EXCEPT !.resume = resume, !.pc = IF resume THEN "claim" ELSE "reset"]
      /\ resume \in BOOLEAN
  BY DEF Begin
<1>4. /\ proc' \in Processes /\ proc'.it = 0 /\ proc'.resume = resume
      /\ proc'.pc = IF resume THEN "claim" ELSE "reset"
  <2>1. "claim" \in Pcs /\ "reset" \in Pcs
    BY PcFacts
  <2> HIDE DEF resume
  <2> QED
    BY <1>2, <1>3, <2>1 DEF Processes
<1>5. TypeOK' /\ LoopContinues' /\ FreshHistoryIsOwn' /\ EndIsPublished'
  <2>1. proc'.pc \in Starting
    BY <1>4 DEF Starting
  <2>2. launches' = launches /\ UNCHANGED <<status, checkpoint, archive, solve_dir>>
        /\ d3plot' \in {d3plot, None}
    BY DEF Begin
  <2>3. /\ stop_flag' \in BOOLEAN /\ asked' \in BOOLEAN
        /\ pidfile' \in (1 .. MaxLaunches) \cup {None} /\ history' \in Histories
    BY Zenon DEF Begin, LoopInv, TypeOK, ProcessOK, FolderOK
  <2> QED
    BY <1>2, <1>4, <2>1, <2>2, <2>3, StartingType, StartingRest DEF LoopInv
<1>6. /\ RowNumbers' = RowNumbers /\ \A i : Row(i)' = Row(i)
      /\ checkpoint' = checkpoint /\ launches' = launches /\ pidfile' = pidfile
      /\ asked' = asked
  BY SameHistory DEF Begin
<1>7. OriginsAreLaunched' /\ FreshIsNew'
  BY <1>2, <1>4, <1>6 DEF LoopInv, OriginsAreLaunched, FreshIsNew, LoopPcs
<1>8. StopIsKept'
  <2>1. pidfile # launches /\ ~asked
    BY <1>2 DEF LoopInv, StopIsKept, Live
  <2> QED
    BY <1>6, <2>1 DEF LoopInv, StopIsKept
<1> QED
  BY <1>1, <1>5, <1>7, <1>8 DEF LoopInv, Records

LEMMA ResetInv ==
  ASSUME LoopInv, ResetStaleOutputs
  PROVE  LoopInv'
<1>1. NRows' = 0 /\ RowNumbers' = {} /\ history' \in Histories
  BY EmptyHistory, EmptyIsList DEF ResetStaleOutputs, RowNumbers
<1>2. Records'
  BY <1>1 DEF Records, ResumesAgree, HistoryHasNoGaps, CheckpointContinues, Continues
<1>3. /\ proc \in Processes /\ proc.pc = "reset" /\ proc.it = 0 /\ ~proc.resume
      /\ launches \in 1 .. MaxLaunches
  BY LoopAssumption DEF ResetStaleOutputs, LoopInv, TypeOK, ProcessOK, FreshIsNew, Live
<1>4. /\ proc' \in Processes /\ proc'.it = 0 /\ ~proc'.resume /\ proc'.pc = "claim"
  <2>1. "claim" \in Pcs
    BY PcFacts
  <2> QED
    BY <1>3, <2>1 DEF ResetStaleOutputs, Processes
<1>5. TypeOK' /\ LoopContinues' /\ FreshHistoryIsOwn' /\ EndIsPublished'
  <2>1. proc'.pc \in Starting
    BY <1>4 DEF Starting
  <2>2. launches' = launches /\ UNCHANGED <<status, checkpoint, archive, solve_dir>>
        /\ d3plot' \in {d3plot, None}
    BY DEF ResetStaleOutputs
  <2>3. /\ stop_flag' \in BOOLEAN /\ asked' \in BOOLEAN
        /\ pidfile' \in (1 .. MaxLaunches) \cup {None}
    BY Zenon DEF ResetStaleOutputs, LoopInv, TypeOK, ProcessOK, FolderOK
  <2> QED
    BY <1>1, <1>3, <1>4, <2>1, <2>2, <2>3, StartingType, StartingRest DEF LoopInv
<1>6. /\ checkpoint' = checkpoint /\ launches' = launches /\ pidfile' = pidfile
      /\ asked' = asked
  BY DEF ResetStaleOutputs
<1>7. OriginsAreLaunched' /\ FreshIsNew'
  BY <1>1, <1>3, <1>4, <1>6 DEF LoopInv, OriginsAreLaunched, FreshIsNew, LoopPcs
<1>8. StopIsKept'
  <2>1. pidfile # launches /\ ~asked
    BY <1>3 DEF LoopInv, StopIsKept, Live
  <2> QED
    BY <1>6, <2>1 DEF LoopInv, StopIsKept
<1> QED
  BY <1>2, <1>5, <1>7, <1>8 DEF LoopInv, Records

LEMMA ClaimInv ==
  ASSUME LoopInv, Claim
  PROVE  LoopInv'
<1>1. Records'
  BY RecordsStay DEF Claim, LoopInv, Records
<1>2. /\ proc \in Processes /\ proc.pc = "claim" /\ proc.it = 0
      /\ launches \in 1 .. MaxLaunches
  BY LoopAssumption DEF Claim, LoopInv, TypeOK, ProcessOK, FreshIsNew, Live
<1>3. /\ proc' \in Processes /\ proc'.it = 0 /\ proc'.resume = proc.resume
      /\ proc'.pc = "setup"
  <2>1. "setup" \in Pcs
    BY PcFacts
  <2> QED
    BY <1>2, <2>1 DEF Claim, Processes
<1>4. TypeOK' /\ LoopContinues' /\ FreshHistoryIsOwn' /\ EndIsPublished'
  <2>1. proc'.pc \in Starting
    BY <1>3 DEF Starting
  <2>2. /\ launches' = launches /\ UNCHANGED <<status, checkpoint, archive, solve_dir>>
        /\ d3plot' \in {d3plot, None} /\ pidfile' \in (1 .. MaxLaunches) \cup {None}
    BY <1>2 DEF Claim
  <2>3. stop_flag' \in BOOLEAN /\ asked' \in BOOLEAN /\ history' \in Histories
    BY Zenon DEF Claim, LoopInv, TypeOK, ProcessOK, FolderOK
  <2> QED
    BY <1>2, <1>3, <2>1, <2>2, <2>3, StartingType, StartingRest DEF LoopInv
<1>5. /\ RowNumbers' = RowNumbers /\ \A i : Row(i)' = Row(i) /\ NRows' = NRows
      /\ checkpoint' = checkpoint /\ launches' = launches /\ pidfile' = launches
      /\ asked' = asked
  BY SameHistory DEF Claim
<1>6. OriginsAreLaunched' /\ FreshIsNew'
  BY <1>2, <1>3, <1>5 DEF LoopInv, OriginsAreLaunched, FreshIsNew, LoopPcs
<1>7. StopIsKept'
  <2>1. ~asked
    BY <1>2 DEF LoopInv, StopIsKept, Live
  <2> QED
    BY <1>2, <1>3, <1>5, <2>1 DEF StopIsKept
<1> QED
  BY <1>1, <1>4, <1>6, <1>7 DEF LoopInv, Records

-----------------------------------------------------------------------------
(* The loop.                                                               *)

LEMMA LoopType ==
  ASSUME TypeOK, Live, UNCHANGED <<launches, asked, stop_flag, pidfile>>,
         proc' \in Processes, proc'.design \in Designs,
         status' \in States \cup {None}, history' \in Histories,
         checkpoint' \in Checkpoints \cup {None}, solve_dir' \in Designs \cup {None},
         ArchiveOK'
  PROVE  TypeOK'
<1>1. ProcessOK'
  BY Zenon DEF TypeOK, ProcessOK
<1>2. FolderOK'
  BY Zenon DEF TypeOK, FolderOK
<1> QED
  BY <1>1, <1>2 DEF TypeOK

LEMMA LoopRest ==
  ASSUME StopIsKept, Live, proc'.pc \in LoopPcs \cup {"final"},
         UNCHANGED <<launches, asked, stop_flag, pidfile>>
  PROVE  StopIsKept' /\ EndIsPublished'
<1>1. proc'.pc \notin {"begin", "reset", "claim", "post", "exit"}
  BY DEF LoopPcs
<1> QED
  BY <1>1, Zenon DEF StopIsKept, EndIsPublished, Live

(* Set up: a resume goes on where the checkpoint is, a fresh run begins a  *)
(* history of its own.                                                     *)
LEMMA SetupInv ==
  ASSUME LoopInv, NEW v \in Volumes, Setup([origin |-> launches, age |-> 0, vf |-> v])
  PROVE  LoopInv'
<1> DEFINE d == [origin |-> launches, age |-> 0, vf |-> v]
<1>1. Records'
  BY RecordsStay DEF Setup, LoopInv, Records
<1>2. /\ proc \in Processes /\ proc.pc = "setup" /\ proc.it = 0
      /\ launches \in 1 .. MaxLaunches
  BY LoopAssumption DEF Setup, LoopInv, TypeOK, ProcessOK, FreshIsNew, Live
<1>3. /\ RowNumbers' = RowNumbers /\ \A i : Row(i)' = Row(i) /\ NRows' = NRows
      /\ checkpoint' = checkpoint /\ launches' = launches
  BY SameHistory DEF Setup
<1>4. checkpoint \in Checkpoints \cup {None}
  BY DEF LoopInv, TypeOK, FolderOK
<1>5. d \in Designs /\ d.origin = launches
  BY <1>2 DEF Designs
<1>6. proc' = IF proc.resume
       THEN [proc EXCEPT !.pc = "top", !.it = checkpoint.it,
                         !.design = checkpoint.design, !.sens = checkpoint.sens]
       ELSE [proc EXCEPT !.pc = "top", !.design = d]
  BY DEF Setup
<1> HIDE DEF d
<1>7. "top" \in Pcs /\ "top" \in LoopPcs
  BY DEF Pcs, LoopPcs
<1>8. ASSUME proc'.pc = "top", proc' \in Processes, proc'.design \in Designs,
             Continues(proc.it, proc.design)',
             checkpoint # None /\ checkpoint.design.origin = proc'.design.origin =>
               checkpoint.it = proc'.it /\ checkpoint.design = proc'.design,
             proc'.design.origin <= launches,
             ~proc'.resume => proc'.design.origin = launches /\ NRows = 0
      PROVE  LoopInv'
  <2>1. Live /\ UNCHANGED <<launches, asked, stop_flag, pidfile>>
    BY <1>2 DEF Setup, Live
  <2>2. TypeOK'
    <3>1. status' \in States \cup {None}
      BY DEF Setup, States
    <3>2. ArchiveOK'
      BY Zenon DEF Setup, LoopInv, TypeOK, ArchiveOK
    <3>3. history' \in Histories /\ solve_dir' \in Designs \cup {None}
      BY Zenon DEF Setup, LoopInv, TypeOK, FolderOK
    <3> QED
      BY <1>3, <1>4, <1>8, <2>1, <3>1, <3>2, <3>3, LoopType DEF LoopInv
  <2>3. LoopContinues'
    BY <1>3, <1>8 DEF LoopContinues
  <2>4. OriginsAreLaunched'
    BY <1>3, <1>8 DEF LoopInv, OriginsAreLaunched
  <2>5. FreshIsNew'
    BY <1>3, <1>8 DEF FreshIsNew
  <2>6. FreshHistoryIsOwn'
    BY <1>3, <1>8 DEF FreshHistoryIsOwn, RowNumbers
  <2>7. StopIsKept' /\ EndIsPublished'
    BY <1>7, <1>8, <2>1, LoopRest DEF LoopInv
  <2> QED
    BY <1>1, <2>2, <2>3, <2>4, <2>5, <2>6, <2>7 DEF LoopInv, Records
<1>9. CASE proc.resume
  <2>1. checkpoint # None /\ checkpoint \in Checkpoints
    BY <1>2, <1>4, <1>9 DEF LoopInv, FreshIsNew
  <2>2. /\ proc' \in Processes /\ proc'.pc = "top" /\ proc'.it = checkpoint.it
        /\ proc'.design = checkpoint.design /\ proc'.design \in Designs
        /\ proc'.resume = proc.resume
    BY <1>2, <1>6, <1>7, <1>9, <2>1 DEF Processes, Checkpoints
  <2>3. Continues(proc.it, proc.design)'
    BY <1>3, <2>1, <2>2 DEF LoopInv, CheckpointContinues, Continues, OwnRow
  <2>4. proc'.design.origin <= launches
    BY <2>1, <2>2 DEF LoopInv, OriginsAreLaunched
  <2> QED
    BY <1>8, <1>9, <2>2, <2>3, <2>4
<1>10. CASE ~proc.resume
  <2>1. /\ proc' \in Processes /\ proc'.pc = "top" /\ proc'.it = 0
        /\ proc'.design = d /\ proc'.resume = proc.resume
    BY <1>2, <1>5, <1>6, <1>7, <1>10 DEF Processes
  <2>2. NRows = 0 /\ RowNumbers = {}
    BY <1>2, <1>10 DEF LoopInv, FreshIsNew, RowNumbers
  <2>3. Continues(proc.it, proc.design)'
    BY <1>3, <2>2 DEF Continues
  <2>4. checkpoint # None => checkpoint.design.origin # launches
    <3>1. checkpoint # None => checkpoint.design.origin < launches
      BY <1>2 DEF LoopInv, FreshIsNew
    <3> QED
      BY <1>2, <3>1
  <2> QED
    BY <1>2, <1>5, <1>8, <1>10, <2>1, <2>2, <2>3, <2>4
<1> QED
  BY <1>9, <1>10

(* What every step inside the loop starts from.                            *)
LEMMA LoopFacts ==
  ASSUME LoopInv, proc.pc \in LoopPcs
  PROVE  /\ Live /\ launches \in 1 .. MaxLaunches /\ proc \in Processes
         /\ proc.design \in Designs /\ NRows \in Nat
         /\ \A i \in RowNumbers : Row(i) \in Rows
         /\ checkpoint \in Checkpoints \cup {None}
         /\ proc.it \in Limits /\ proc.limit \in Limits /\ Limits \subseteq Nat
<1>1. Live
  BY DEF Live, LoopPcs
<1>2. launches \in 1 .. MaxLaunches /\ proc \in Processes /\ proc.design \in Designs
  BY <1>1, LoopAssumption DEF LoopInv, TypeOK, ProcessOK
<1>3. NRows \in Nat /\ \A i \in RowNumbers : Row(i) \in Rows
  BY RowsAreRows DEF LoopInv, TypeOK, FolderOK
<1>4. checkpoint \in Checkpoints \cup {None}
  BY DEF LoopInv, TypeOK, FolderOK
<1>5. proc.it \in Limits /\ proc.limit \in Limits /\ Limits \subseteq Nat
  BY <1>2 DEF Processes, Limits
<1> QED
  BY <1>1, <1>2, <1>3, <1>4, <1>5

(* A step that leaves the design, the iteration and the records alone.     *)
LEMMA QuietInv ==
  ASSUME LoopInv, proc.pc \in LoopPcs,
         UNCHANGED <<launches, asked, stop_flag, pidfile, status, history, checkpoint>>,
         NEW pc \in Solving, proc' = [proc EXCEPT !.pc = pc],
         proc.it < proc.limit,
         pc # "solving" => proc.pc \in {"solved", "decide", "recover"},
         solve_dir' \in Designs \cup {None}, ArchiveOK'
  PROVE  LoopInv'
<1>1. Records'
  BY RecordsStay DEF LoopInv, Records
<1>2. pc \in Pcs /\ pc \in LoopPcs
  BY DEF Solving, Pcs, LoopPcs
<1>3. /\ proc' \in Processes /\ proc'.pc = pc /\ proc'.design = proc.design
      /\ proc'.it = proc.it /\ proc'.limit = proc.limit /\ proc'.resume = proc.resume
  BY <1>2, LoopFacts DEF Processes
<1>4. /\ RowNumbers' = RowNumbers /\ \A i : Row(i)' = Row(i) /\ NRows' = NRows
      /\ checkpoint' = checkpoint /\ launches' = launches
  BY SameHistory
<1>5. TypeOK'
  <2>1. /\ status' \in States \cup {None} /\ history' \in Histories
        /\ checkpoint' \in Checkpoints \cup {None}
    BY Zenon DEF LoopInv, TypeOK, FolderOK
  <2> QED
    BY <1>3, <2>1, LoopFacts, LoopType DEF LoopInv
<1>6. LoopContinues'
  <2>1. Continues(proc.it, proc.design)'
    BY <1>3, <1>4 DEF LoopInv, LoopContinues, Continues, OwnRow
  <2> QED
    BY <1>3, <1>4, <2>1 DEF LoopInv, LoopContinues, Solving
<1>7. OriginsAreLaunched' /\ FreshHistoryIsOwn'
  BY <1>3, <1>4 DEF LoopInv, OriginsAreLaunched, FreshHistoryIsOwn
<1>8. FreshIsNew'
  BY <1>3, <1>4 DEF LoopInv, FreshIsNew, Solving
<1>9. StopIsKept' /\ EndIsPublished'
  BY <1>2, <1>3, LoopFacts, LoopRest DEF LoopInv
<1> QED
  BY <1>1, <1>5, <1>6, <1>7, <1>8, <1>9 DEF LoopInv, Records

LEMMA BeginSolveInv ==
  ASSUME LoopInv, BeginSolve
  PROVE  LoopInv'
<1>1. proc.pc \in LoopPcs
  BY DEF BeginSolve, LoopPcs
<1>2. solve_dir' \in Designs \cup {None}
  BY <1>1, LoopFacts DEF BeginSolve
<1>3. ArchiveOK'
  BY Zenon DEF BeginSolve, LoopInv, TypeOK, ArchiveOK
<1>4. "solving" \in Solving
  BY DEF Solving
<1> QED
  BY <1>1, <1>2, <1>3, <1>4, QuietInv DEF BeginSolve

LEMMA ArchiveInv ==
  ASSUME LoopInv, ArchiveIteration
  PROVE  LoopInv'
<1>1. proc.pc \in LoopPcs /\ proc.it < proc.limit
  BY DEF ArchiveIteration, LoopPcs, LoopInv, LoopContinues
<1>2. solve_dir \in Designs \cup {None} /\ solve_dir' = solve_dir
  BY DEF ArchiveIteration, LoopInv, TypeOK, FolderOK
<1>3. ArchiveOK'
  <2>1. archive' \in [Limits -> Designs \cup {None}]
    BY <1>1, <1>2, LoopFacts DEF ArchiveIteration, LoopInv, TypeOK, ArchiveOK
  <2> QED
    BY <2>1, Zenon DEF ArchiveIteration, LoopInv, TypeOK, ArchiveOK
<1>4. "decide" \in Solving
  BY DEF Solving
<1> QED
  BY <1>1, <1>2, <1>3, <1>4, QuietInv DEF ArchiveIteration

(* A row for the present iteration keeps whatever could be continued       *)
(* before: a continuation of the same run is at this very design.          *)
LEMMA RowContinues ==
  ASSUME LoopInv, proc.pc \in LoopPcs, NEW f \in BOOLEAN, Record(f),
         NEW n \in Nat, NEW d \in Designs, Continues(n, d),
         d.origin = proc.design.origin => n = proc.it /\ d = proc.design
  PROVE  /\ \A i \in RowNumbers' :
              Row(i)'.design.origin = d.origin =>
                Row(i)'.it <= n /\ (Row(i)'.it = n => Row(i)'.design = d)
         /\ Row(NRows)'.design.origin = d.origin =>
              n \in {Row(NRows)'.it, Row(NRows)'.it + 1}
         /\ Row(1)'.design.origin = d.origin /\ Row(1)'.it = 0 =>
              \A m \in 0 .. (n - 1) : \E i \in RowNumbers' : Row(i)'.it = m
<1>1. /\ NRows' = NRows + 1 /\ NRows \in Nat
      /\ RowNumbers' = RowNumbers \cup {NRows + 1}
      /\ \A i \in RowNumbers : Row(i)' = Row(i)
      /\ Row(NRows)'.it = proc.it /\ Row(NRows)'.design = proc.design
  BY RecordedRow DEF LoopInv
<1>2. \A i : i = NRows + 1 => Row(i)'.it = proc.it /\ Row(i)'.design = proc.design
  BY RecordedRow DEF LoopInv
<1>3. ASSUME NEW i \in RowNumbers', Row(i)'.design.origin = d.origin
      PROVE  Row(i)'.it <= n /\ (Row(i)'.it = n => Row(i)'.design = d)
  BY <1>1, <1>2, <1>3 DEF Continues, OwnRow
<1>4. ASSUME Row(NRows)'.design.origin = d.origin
      PROVE  n \in {Row(NRows)'.it, Row(NRows)'.it + 1}
  BY <1>1, <1>4
<1>5. ASSUME Row(1)'.design.origin = d.origin, Row(1)'.it = 0, NEW m \in 0 .. (n - 1)
      PROVE  \E i \in RowNumbers' : Row(i)'.it = m
  <2>1. CASE NRows = 0
    <3>1. proc.it = 0 /\ proc.design.origin = d.origin
      BY <1>1, <1>2, <1>5, <2>1
    <3> QED
      BY <1>5, <3>1
  <2>2. CASE NRows > 0
    <3>1. 1 \in RowNumbers
      BY <1>1, <2>2 DEF RowNumbers
    <3>2. Row(1).design.origin = d.origin /\ Row(1).it = 0
      BY <1>1, <1>5, <3>1
    <3>3. PICK i \in RowNumbers : Row(i).it = m
      BY <1>5, <2>2, <3>2 DEF Continues, OwnRow
    <3> QED
      BY <1>1, <3>3
  <2> QED
    BY <1>1, <2>1, <2>2
<1> QED
  BY <1>3, <1>4, <1>5

LEMMA RecordsGrow ==
  ASSUME LoopInv, proc.pc \in LoopPcs, NEW f \in BOOLEAN, Record(f),
         UNCHANGED checkpoint
  PROVE  Records'
<1>1. /\ NRows' = NRows + 1 /\ NRows \in Nat
      /\ RowNumbers' = RowNumbers \cup {NRows + 1}
      /\ \A i \in RowNumbers : Row(i)' = Row(i)
      /\ Row(NRows)'.it = proc.it /\ Row(NRows)'.design = proc.design
  BY RecordedRow DEF LoopInv
<1>2. \A i : i = NRows + 1 => Row(i)'.it = proc.it /\ Row(i)'.design = proc.design
  BY RecordedRow DEF LoopInv
<1>3. Continues(proc.it, proc.design)
  BY DEF LoopInv, LoopContinues
<1>4. ResumesAgree'
  <2> SUFFICES ASSUME NEW i \in RowNumbers', NEW j \in RowNumbers',
                      Row(i)'.it = Row(j)'.it,
                      Row(i)'.design.origin = Row(j)'.design.origin
               PROVE  Row(i)'.design = Row(j)'.design
    BY DEF ResumesAgree
  <2>1. CASE i \in RowNumbers /\ j \in RowNumbers
    BY <1>1, <2>1 DEF LoopInv, ResumesAgree
  <2>2. CASE i \in RowNumbers /\ j = NRows + 1
    BY <1>1, <1>2, <1>3, <2>2 DEF Continues, OwnRow
  <2>3. CASE i = NRows + 1 /\ j \in RowNumbers
    BY <1>1, <1>2, <1>3, <2>3 DEF Continues, OwnRow
  <2>4. CASE i = NRows + 1 /\ j = NRows + 1
    BY <2>4
  <2> QED
    BY <1>1, <2>1, <2>2, <2>3, <2>4
<1>5. HistoryHasNoGaps'
  <2> SUFFICES ASSUME NEW i \in RowNumbers' \ {1},
                      Row(i)'.design.origin = Row(i - 1)'.design.origin
               PROVE  Row(i)'.it \in {Row(i - 1)'.it, Row(i - 1)'.it + 1}
    BY DEF HistoryHasNoGaps
  <2>1. i - 1 \in RowNumbers /\ Row(i - 1)' = Row(i - 1)
    BY <1>1 DEF RowNumbers
  <2>2. CASE i \in RowNumbers
    BY <1>1, <2>1, <2>2 DEF LoopInv, HistoryHasNoGaps
  <2>3. CASE i = NRows + 1
    <3>1. i - 1 = NRows /\ NRows > 0
      BY <1>1, <2>1, <2>3 DEF RowNumbers
    <3>2. Row(NRows).design.origin = proc.design.origin
      BY <1>2, <2>1, <2>3, <3>1
    <3> QED
      BY <1>2, <1>3, <2>1, <2>3, <3>1, <3>2 DEF Continues, OwnRow
  <2> QED
    BY <1>1, <2>2, <2>3
<1>6. CheckpointContinues'
  <2> SUFFICES ASSUME checkpoint # None
               PROVE  Continues(checkpoint.it, checkpoint.design)'
    BY DEF CheckpointContinues
  <2>1. checkpoint.it \in Nat /\ checkpoint.design \in Designs
    BY LoopFacts DEF Checkpoints
  <2>2. Continues(checkpoint.it, checkpoint.design)
    BY DEF LoopInv, CheckpointContinues
  <2>3. checkpoint.design.origin = proc.design.origin =>
          checkpoint.it = proc.it /\ checkpoint.design = proc.design
    BY DEF LoopInv, LoopContinues
  <2> QED
    BY <2>1, <2>2, <2>3, RowContinues DEF Continues, OwnRow
<1> QED
  BY <1>4, <1>5, <1>6 DEF Records

(* A diverged or a finished solve.                                         *)
LEMMA RecordedInv ==
  ASSUME LoopInv, proc.pc = "solving", NEW f \in BOOLEAN, Record(f),
         NEW pc \in {"solved", "recover"}, NEW k \in 0 .. (DivergeFailAfter - 1),
         proc' = [proc EXCEPT !.pc = pc, !.feasible = f, !.diverged = k, !.vfs = Noted],
         UNCHANGED <<launches, asked, stop_flag, pidfile, status, checkpoint,
                     archive, solve_dir, d3plot>>
  PROVE  LoopInv'
<1>1. proc.pc \in LoopPcs /\ pc \in LoopPcs /\ pc \in Pcs
  BY DEF LoopPcs, Pcs
<1>2. Records'
  BY <1>1, RecordsGrow
<1>3. /\ proc' \in Processes /\ proc'.pc = pc /\ proc'.design = proc.design
      /\ proc'.it = proc.it /\ proc'.limit = proc.limit /\ proc'.resume = proc.resume
  <2>1. proc \in Processes /\ proc.vfs \in VolumeLists /\ proc.design.vf \in Volumes
    BY <1>1, LoopFacts DEF Processes, Designs
  <2>2. Noted \in VolumeLists
    BY <2>1, NotedIsList
  <2> QED
    BY <1>1, <2>1, <2>2 DEF Processes
<1>4. /\ history' \in Histories /\ NRows' = NRows + 1 /\ NRows \in Nat
      /\ RowNumbers' = RowNumbers \cup {NRows + 1}
      /\ \A i \in RowNumbers : Row(i)' = Row(i)
      /\ Row(NRows)'.it = proc.it /\ Row(NRows)'.design = proc.design
  BY <1>1, RecordedRow DEF LoopInv
<1>5. \A i : i = NRows + 1 => Row(i)'.it = proc.it /\ Row(i)'.design = proc.design
  BY <1>1, RecordedRow DEF LoopInv
<1>6. TypeOK'
  <2>1. /\ status' \in States \cup {None} /\ checkpoint' \in Checkpoints \cup {None}
        /\ solve_dir' \in Designs \cup {None} /\ ArchiveOK'
    BY Zenon DEF LoopInv, TypeOK, FolderOK, ArchiveOK
  <2> QED
    BY <1>1, <1>3, <1>4, <2>1, LoopFacts, LoopType DEF LoopInv
<1>7. LoopContinues'
  <2>1. Continues(proc.it, proc.design)
    BY <1>1 DEF LoopInv, LoopContinues
  <2>2. Continues(proc.it, proc.design)'
    BY <1>1, <1>3, <2>1, LoopFacts, RowContinues DEF Continues, OwnRow
  <2>3. proc.it < proc.limit
    BY <1>1 DEF LoopInv, LoopContinues
  <2> QED
    BY <1>1, <1>3, <1>4, <2>2, <2>3 DEF LoopInv, LoopContinues
<1>8. OriginsAreLaunched'
  BY <1>1, <1>3, <1>4, <1>5 DEF LoopInv, OriginsAreLaunched
<1>9. FreshHistoryIsOwn'
  BY <1>1, <1>3, <1>4, <1>5 DEF LoopInv, FreshIsNew, FreshHistoryIsOwn
<1>10. FreshIsNew'
  BY <1>1, <1>3 DEF LoopInv, FreshIsNew
<1>11. StopIsKept' /\ EndIsPublished'
  BY <1>1, <1>3, LoopFacts, LoopRest DEF LoopInv
<1> QED
  BY <1>2, <1>6, <1>7, <1>8, <1>9, <1>10, <1>11 DEF LoopInv, Records

(* A checkpoint that moves on to the next iteration of the same run, with  *)
(* the present one in the history; the loop goes on from it or ends.       *)
LEMMA CheckpointedInv ==
  ASSUME LoopInv, proc.pc \in {"decide", "recover"},
         NEW d \in Designs, d.origin = proc.design.origin, NEW sens \in BOOLEAN,
         checkpoint' = [it |-> proc.it + 1, design |-> d, sens |-> sens],
         proc' \in Processes, proc'.resume = proc.resume,
         \/ proc'.pc = "top" /\ proc'.it = proc.it + 1 /\ proc'.design = d
         \/ proc'.pc = "final" /\ proc'.design = proc.design,
         status' \in States \cup {None},
         UNCHANGED <<launches, asked, stop_flag, pidfile, history, archive,
                     solve_dir, d3plot>>
  PROVE  LoopInv'
<1>1. proc.pc \in LoopPcs
  BY DEF LoopPcs
<1>2. /\ proc.it < proc.limit /\ NRows > 0
      /\ Row(NRows).it = proc.it /\ Row(NRows).design = proc.design
      /\ Continues(proc.it, proc.design)
  BY <1>1 DEF LoopInv, LoopContinues
<1>3. /\ RowNumbers' = RowNumbers /\ \A i : Row(i)' = Row(i) /\ NRows' = NRows
      /\ launches' = launches /\ Row(NRows)' = Row(NRows)
  BY SameHistory
<1>4. /\ checkpoint'.it = proc.it + 1 /\ checkpoint'.design = d
      /\ checkpoint' \in Checkpoints
  <2>1. proc.it + 1 \in Limits
    BY <1>1, <1>2, LoopFacts, LoopAssumption DEF Limits
  <2> QED
    BY <2>1 DEF Checkpoints
<1>5. /\ \A i \in RowNumbers : OwnRow(i, d) => Row(i).it < proc.it + 1
      /\ proc.it + 1 \in {Row(NRows).it, Row(NRows).it + 1}
      /\ OwnRow(1, d) /\ Row(1).it = 0 =>
           \A m \in 0 .. proc.it : \E i \in RowNumbers : Row(i).it = m
  <2>1. ASSUME NEW i \in RowNumbers, OwnRow(i, d)
        PROVE  Row(i).it < proc.it + 1
    <3>1. Row(i).it <= proc.it
      BY <1>2, <2>1 DEF Continues, OwnRow
    <3>2. Row(i).it \in Nat /\ proc.it \in Nat
      BY <1>1, LoopFacts DEF Rows
    <3> QED
      BY <3>1, <3>2
  <2>2. ASSUME OwnRow(1, d), Row(1).it = 0, NEW m \in 0 .. proc.it
        PROVE  \E i \in RowNumbers : Row(i).it = m
    <3>1. CASE m = proc.it
      <4>1. NRows \in RowNumbers
        BY <1>1, <1>2, LoopFacts DEF RowNumbers
      <4> QED
        BY <1>2, <3>1, <4>1
    <3>2. CASE m # proc.it
      <4>1. m \in 0 .. (proc.it - 1)
        BY <1>1, <3>2, LoopFacts
      <4> QED
        BY <1>2, <2>2, <4>1 DEF Continues, OwnRow
    <3> QED
      BY <3>1, <3>2
  <2> QED
    BY <1>2, <2>1, <2>2
<1>6. Continues(checkpoint.it, checkpoint.design)'
  <2>1. (proc.it + 1) - 1 = proc.it
    BY <1>1, LoopFacts
  <2>2. /\ \A i \in RowNumbers' :
             Row(i)'.design.origin = d.origin =>
               /\ Row(i)'.it <= proc.it + 1
               /\ Row(i)'.it = proc.it + 1 => Row(i)'.design = d
        /\ proc.it + 1 \in {Row(NRows)'.it, Row(NRows)'.it + 1}
        /\ Row(1)'.design.origin = d.origin /\ Row(1)'.it = 0 =>
             \A m \in 0 .. proc.it : \E i \in RowNumbers' : Row(i)'.it = m
    <3>1. \A i \in RowNumbers : Row(i).it \in Nat /\ proc.it \in Nat
      BY <1>1, LoopFacts DEF Rows
    <3> QED
      BY <1>3, <1>5, <3>1 DEF OwnRow
  <2> QED
    BY <1>4, <2>1, <2>2 DEF Continues, OwnRow
<1>7. Records'
  BY <1>3, <1>6 DEF Records, LoopInv, ResumesAgree, HistoryHasNoGaps, CheckpointContinues
<1>8. TypeOK'
  <2>1. history' \in Histories /\ solve_dir' \in Designs \cup {None} /\ ArchiveOK'
    BY Zenon DEF LoopInv, TypeOK, FolderOK, ArchiveOK
  <2>2. proc'.design \in Designs
    BY <1>1, LoopFacts
  <2> QED
    BY <1>1, <1>4, <2>1, <2>2, LoopFacts, LoopType DEF LoopInv
<1>9. CASE proc'.pc = "top"
  <2>1. proc'.it = checkpoint'.it /\ proc'.design = checkpoint'.design /\ proc'.pc \in LoopPcs
    BY <1>4, <1>9 DEF LoopPcs
  <2>2. LoopContinues'
    BY <1>6, <1>9, <2>1 DEF LoopContinues, Continues, OwnRow
  <2>3. OriginsAreLaunched' /\ FreshHistoryIsOwn'
    BY <1>1, <1>3, <1>4, <2>1 DEF LoopInv, OriginsAreLaunched, FreshHistoryIsOwn
  <2>4. FreshIsNew'
    BY <1>1, <1>3, <1>4, <1>9, <2>1 DEF LoopInv, FreshIsNew
  <2>5. StopIsKept' /\ EndIsPublished'
    BY <1>1, <2>1, LoopFacts, LoopRest DEF LoopInv
  <2> QED
    BY <1>7, <1>8, <2>2, <2>3, <2>4, <2>5 DEF LoopInv, Records
<1>10. CASE proc'.pc = "final"
  <2>1. proc'.pc \notin LoopPcs
    BY <1>10 DEF LoopPcs
  <2>2. LoopContinues' /\ FreshHistoryIsOwn'
    BY <2>1 DEF LoopContinues, FreshHistoryIsOwn
  <2>3. OriginsAreLaunched'
    BY <1>1, <1>3, <1>4, <2>1 DEF LoopInv, OriginsAreLaunched
  <2>4. FreshIsNew'
    BY <1>10, <2>1 DEF FreshIsNew
  <2>5. StopIsKept' /\ EndIsPublished'
    BY <1>1, <1>10, LoopFacts, LoopRest DEF LoopInv
  <2> QED
    BY <1>7, <1>8, <2>2, <2>3, <2>4, <2>5 DEF LoopInv, Records
<1> QED
  BY <1>9, <1>10

LEMMA ConvergeInv ==
  ASSUME LoopInv, Converge
  PROVE  LoopInv'
<1>1. proc.pc = "decide" /\ proc.pc \in LoopPcs
  BY DEF Converge, LoopPcs
<1>2. proc \in Processes /\ proc.design \in Designs
  BY <1>1, LoopFacts
<1>3. /\ proc' \in Processes /\ proc'.resume = proc.resume
      /\ proc'.pc = "final" /\ proc'.design = proc.design
  <2>1. "final" \in Pcs /\ "converged" \in States
    BY DEF Pcs, States
  <2> QED
    BY <1>2, <2>1 DEF Converge, Processes
<1>4. status' \in States \cup {None} /\ TRUE \in BOOLEAN
  BY DEF Converge, States
<1> QED
  BY <1>1, <1>2, <1>3, <1>4, CheckpointedInv DEF Converge

LEMMA AdvanceInv ==
  ASSUME LoopInv, proc.pc \in {"decide", "recover"},
         NEW d \in Designs, d.origin = proc.design.origin, NEW sens \in BOOLEAN,
         Advance(d, sens)
  PROVE  LoopInv'
<1>1. proc.pc \in LoopPcs
  BY DEF LoopPcs
<1>2. /\ proc' \in Processes /\ proc'.resume = proc.resume
      /\ proc'.pc = "top" /\ proc'.it = proc.it + 1 /\ proc'.design = d
  <2>1. "top" \in Pcs
    BY DEF Pcs, LoopPcs
  <2>2. proc.it + 1 \in Limits
    <3>1. proc.it < proc.limit
      BY <1>1 DEF LoopInv, LoopContinues
    <3> QED
      BY <1>1, <3>1, LoopFacts, LoopAssumption DEF Limits
  <2>3. proc \in Processes
    BY <1>1, LoopFacts
  <2> QED
    BY <2>1, <2>2, <2>3 DEF Advance, Processes
<1>3. status' \in States \cup {None}
  BY DEF Advance, LoopInv, TypeOK, FolderOK
<1> QED
  BY <1>2, <1>3, CheckpointedInv DEF Advance

LEMMA NextDesignInv ==
  ASSUME LoopInv, NEW v \in Volumes, UpdateDesign(v) \/ Recover(v)
  PROVE  LoopInv'
<1>1. proc.pc \in {"decide", "recover"} /\ proc.pc \in LoopPcs
  BY DEF UpdateDesign, Recover, LoopPcs
<1>2. proc.design \in Designs
  BY <1>1, LoopFacts
<1>3. Updated(v) \in Designs /\ Updated(v).origin = proc.design.origin
  <2>1. proc.design.origin \in 1 .. MaxLaunches /\ proc.design.age + 1 \in Nat
    BY <1>2 DEF Designs
  <2> QED
    BY <2>1 DEF Updated, Designs
<1>4. Advance(Updated(v), TRUE) \/ Advance(proc.design, FALSE)
  BY DEF UpdateDesign, Recover
<1>5. CASE Advance(Updated(v), TRUE)
  BY <1>1, <1>3, <1>5, AdvanceInv
<1>6. CASE Advance(proc.design, FALSE)
  BY <1>1, <1>2, <1>6, AdvanceInv
<1> QED
  BY <1>4, <1>5, <1>6

LEMMA SolveInv ==
  ASSUME LoopInv, SolveDiverges \/ \E f \in BOOLEAN : SolveSucceeds(f)
  PROVE  LoopInv'
<1>1. CASE SolveDiverges
  <2>1. proc.diverged + 1 \in 0 .. (DivergeFailAfter - 1)
    <3>1. proc.pc \in LoopPcs
      BY <1>1 DEF SolveDiverges, LoopPcs
    <3>2. proc.diverged \in 0 .. (DivergeFailAfter - 1)
      BY <3>1, LoopFacts DEF Processes
    <3> QED
      BY <1>1, <3>2, LoopAssumption DEF SolveDiverges
  <2> QED
    BY <1>1, <2>1, RecordedInv DEF SolveDiverges
<1>2. CASE \E f \in BOOLEAN : SolveSucceeds(f)
  BY <1>2, NumberFacts, RecordedInv DEF SolveSucceeds
<1> QED
  BY <1>1, <1>2

-----------------------------------------------------------------------------
(* Stop, from outside.                                                     *)

LEMMA RequestStopInv ==
  ASSUME LoopInv, RequestStop
  PROVE  LoopInv'
<1>1. Records'
  BY RecordsStay DEF RequestStop, LoopInv, Records
<1>2. /\ RowNumbers' = RowNumbers /\ \A i : Row(i)' = Row(i) /\ NRows' = NRows
      /\ checkpoint' = checkpoint /\ launches' = launches /\ proc' = proc
  BY SameHistory DEF RequestStop
<1>3. TypeOK'
  <2>1. asked' \in BOOLEAN
    BY DEF RequestStop, IsRunning
  <2>2. ProcessOK'
    BY <2>1, Zenon DEF RequestStop, LoopInv, TypeOK, ProcessOK, Live
  <2>3. FolderOK' /\ ArchiveOK'
    BY Zenon DEF RequestStop, LoopInv, TypeOK, FolderOK, ArchiveOK
  <2> QED
    BY <2>2, <2>3 DEF TypeOK
<1>4. LoopContinues'
  BY <1>2 DEF LoopInv, LoopContinues, Continues, OwnRow
<1>5. OriginsAreLaunched' /\ FreshIsNew' /\ FreshHistoryIsOwn'
  BY <1>2 DEF LoopInv, OriginsAreLaunched, FreshIsNew, FreshHistoryIsOwn
<1>6. StopIsKept' /\ EndIsPublished'
  BY Zenon DEF RequestStop, IsRunning, Live, LoopInv, StopIsKept, EndIsPublished
<1> QED
  BY <1>1, <1>3, <1>4, <1>5, <1>6 DEF LoopInv, Records

LEMMA StutterInv ==
  ASSUME LoopInv, UNCHANGED vars
  PROVE  LoopInv'
<1>1. Records'
  BY RecordsStay DEF vars, LoopInv, Records
<1>2. /\ RowNumbers' = RowNumbers /\ \A i : Row(i)' = Row(i) /\ NRows' = NRows
      /\ checkpoint' = checkpoint /\ launches' = launches /\ proc' = proc
  BY SameHistory DEF vars
<1>3. TypeOK'
  BY Zenon DEF vars, LoopInv, TypeOK, ProcessOK, FolderOK, ArchiveOK, Live
<1>4. LoopContinues'
  BY <1>2 DEF LoopInv, LoopContinues, Continues, OwnRow
<1>5. OriginsAreLaunched' /\ FreshIsNew' /\ FreshHistoryIsOwn'
  BY <1>2 DEF LoopInv, OriginsAreLaunched, FreshIsNew, FreshHistoryIsOwn
<1>6. StopIsKept' /\ EndIsPublished'
  BY Zenon DEF vars, Live, LoopInv, StopIsKept, EndIsPublished
<1> QED
  BY <1>1, <1>3, <1>4, <1>5, <1>6 DEF LoopInv, Records

-----------------------------------------------------------------------------
(* The invariant, and what follows from it.                                *)

LEMMA StartInv ==
  ASSUME LoopInv, Start
  PROVE  LoopInv'
<1>1. ASSUME SetupFails PROVE LoopInv'
  BY <1>1, EndedInv DEF SetupFails, Live
<1> QED
  BY <1>1, BeginInv, ResetInv, ClaimInv, SetupInv DEF Start

LEMMA IterateInv ==
  ASSUME LoopInv, Iterate
  PROVE  LoopInv'
<1>1. ASSUME LimitReached \/ HeedStop \/ OutOfBudget \/ SolveFails \/ DivergesTooOften
      PROVE  LoopInv'
  <2>1. proc.pc \in LoopPcs
    BY <1>1 DEF LimitReached, HeedStop, OutOfBudget, SolveFails, DivergesTooOften, LoopPcs
  <2>2. \E s \in States : Leave(s)
    BY <1>1 DEF LimitReached, HeedStop, OutOfBudget, SolveFails, DivergesTooOften, States
  <2> QED
    BY <2>1, <2>2, LeaveInv
<1>2. ASSUME SolveDiverges \/ \E f \in BOOLEAN : SolveSucceeds(f)
      PROVE  LoopInv'
  BY <1>2, SolveInv
<1> QED
  BY <1>1, <1>2, BeginSolveInv, ArchiveInv, ConvergeInv, NextDesignInv DEF Iterate

LEMMA FinishInv ==
  ASSUME LoopInv, Finish \/ Crash
  PROVE  LoopInv'
<1>1. ASSUME Abort PROVE LoopInv'
  BY <1>1, EndedInv DEF Abort, Live
<1> QED
  BY <1>1, PublishFinalInv, ConvertFinalInv, LetGoInv, EndedInv DEF Finish

LEMMA NextInv == LoopInv /\ [Next]_vars => LoopInv'
  BY LaunchInv, StartInv, IterateInv, RaiseInv, FinishInv, RequestStopInv, StutterInv
  DEF Next, ProcessStep, Raise

THEOREM LoopInvariant == Spec => []LoopInv
  BY InitLoop, NextInv, PTL DEF Spec

(* The state of a run folder and of the process in it is well formed,      *)
(* however processes are started, resumed, stopped, killed and interrupted.*)
THEOREM TypeCorrect == Spec => []TypeOK
<1>1. LoopInv => TypeOK
  BY DEF LoopInv
<1> QED
  BY <1>1, LoopInvariant, PTL

(* A resume never perturbs the run it continues: an iteration that is      *)
(* solved again, however often its process was killed between the history  *)
(* row and the checkpoint (run_optimization), solves the very same design. *)
THEOREM ResumeAgrees == Spec => []ResumesAgree
<1>1. LoopInv => ResumesAgree
  BY DEF LoopInv
<1> QED
  BY <1>1, LoopInvariant, PTL

(* The rows of one run never skip an iteration and never fall back.        *)
THEOREM NoGaps == Spec => []HistoryHasNoGaps
<1>1. LoopInv => HistoryHasNoGaps
  BY DEF LoopInv
<1> QED
  BY <1>1, LoopInvariant, PTL

(* A checkpoint never runs ahead of the history of its run: what a resume  *)
(* will not solve again has a row (save_checkpoint after the history row). *)
THEOREM CheckpointCovered == Spec => []CheckpointIsCovered
<1>1. LoopInv => CheckpointIsCovered
  <2> SUFFICES ASSUME LoopInv, checkpoint # None, NRows > 0,
                      Row(1).design.origin = checkpoint.design.origin, Row(1).it = 0
               PROVE  \A n \in 0 .. (checkpoint.it - 1) :
                        \E i \in RowNumbers : Row(i).it = n
    BY DEF CheckpointIsCovered
  <2>1. Continues(checkpoint.it, checkpoint.design)
    BY DEF LoopInv, CheckpointContinues
  <2> QED
    BY <2>1 DEF Continues, OwnRow
<1> QED
  BY <1>1, LoopInvariant, PTL

(* A fresh run reports only its own iterations (_reset_stale_outputs),     *)
(* whatever an earlier run left in the folder.                             *)
THEOREM FreshOwns == Spec => []FreshHistoryIsOwn
<1>1. LoopInv => FreshHistoryIsOwn
  BY DEF LoopInv
<1> QED
  BY <1>1, LoopInvariant, PTL

-----------------------------------------------------------------------------
(* The two action properties: where each step takes the process.           *)

LEMMA WhereStepsLead ==
  ASSUME LoopInv, Live, [Next]_vars
  PROVE  \/ Crash \/ Exit \/ MarkFailed \/ BeginSolve \/ proc' = proc
         \/ proc'.pc \notin {"none", "solving"}
<1>1. proc \in Processes
  BY DEF LoopInv, TypeOK, ProcessOK
<1>2. ASSUME Begin \/ ResetStaleOutputs \/ Claim
      PROVE  proc'.pc \notin {"none", "solving"}
  BY <1>1, <1>2 DEF Begin, ResetStaleOutputs, Claim, Processes
<1>3. ASSUME NEW d, Setup(d)
      PROVE  proc'.pc \notin {"none", "solving"}
  BY <1>1, <1>3 DEF Setup, Processes
<1>4. ASSUME NEW s, Leave(s)
      PROVE  proc'.pc \notin {"none", "solving"}
  BY <1>1, <1>4 DEF Leave, Processes
<1>5. ASSUME SolveDiverges \/ (\E f \in BOOLEAN : SolveSucceeds(f)) \/ ArchiveIteration
             \/ Converge
      PROVE  proc'.pc \notin {"none", "solving"}
  BY <1>1, <1>5 DEF SolveDiverges, SolveSucceeds, ArchiveIteration, Converge, Processes
<1>6. ASSUME NEW d, NEW s, Advance(d, s)
      PROVE  proc'.pc \notin {"none", "solving"}
  BY <1>1, <1>6 DEF Advance, Processes
<1>7. ASSUME NEW v \in Volumes, UpdateDesign(v) \/ Recover(v)
      PROVE  proc'.pc \notin {"none", "solving"}
  BY <1>6, <1>7 DEF UpdateDesign, Recover
<1>8. ASSUME Raise \/ PublishFinal \/ ConvertFinal \/ LetGo
      PROVE  proc'.pc \notin {"none", "solving"}
  BY <1>1, <1>8 DEF Raise, LoopRaises, PublishFinal, ConvertFinal, LetGo, Processes
<1>9. ASSUME LimitReached \/ HeedStop \/ OutOfBudget \/ SolveFails \/ DivergesTooOften
      PROVE  proc'.pc \notin {"none", "solving"}
  BY <1>4, <1>9 DEF LimitReached, HeedStop, OutOfBudget, SolveFails, DivergesTooOften
<1>10. CASE Start
  BY <1>2, <1>3, <1>10 DEF Start, SetupFails
<1>11. CASE Iterate
  BY <1>5, <1>7, <1>9, <1>11 DEF Iterate
<1>12. CASE Raise
  BY <1>8, <1>12
<1>13. CASE Finish
  BY <1>8, <1>13 DEF Finish, Abort
<1>14. CASE RequestStop
  BY <1>14 DEF RequestStop
<1>15. CASE \E resume \in BOOLEAN, limit \in Limits, keep \in Archiving :
              Launch(resume, limit, keep)
  BY <1>15 DEF Launch
<1>16. CASE UNCHANGED vars
  BY <1>16 DEF vars
<1> QED
  BY <1>10, <1>11, <1>12, <1>13, <1>14, <1>15, <1>16 DEF Next, ProcessStep

(* Only Begin clears the flag.                                             *)
LEMMA FlagStays ==
  ASSUME stop_flag, ~Begin, [Next]_vars
  PROVE  stop_flag'
<1>1. CASE Start
  BY <1>1, Zenon DEF Start, ResetStaleOutputs, Claim, SetupFails, MarkFailed, Setup
<1>2. CASE Iterate
  BY <1>2, Zenon DEF Iterate, LimitReached, HeedStop, OutOfBudget, SolveFails,
     DivergesTooOften, Leave, BeginSolve, SolveDiverges, SolveSucceeds,
     ArchiveIteration, Converge, UpdateDesign, Recover, Advance
<1>3. CASE Raise \/ Finish \/ Crash \/ RequestStop
  BY <1>3, Zenon DEF Raise, LoopRaises, Finish, PublishFinal, ConvertFinal, Exit, LetGo,
     Abort, MarkFailed, Crash, RequestStop
<1>4. CASE \E resume \in BOOLEAN, limit \in Limits, keep \in Archiving :
             Launch(resume, limit, keep)
  BY <1>4, Zenon DEF Launch
<1>5. CASE UNCHANGED vars
  BY <1>5, Zenon DEF vars
<1> QED
  BY <1>1, <1>2, <1>3, <1>4, <1>5 DEF Next, ProcessStep

(* A stop pressed while the run is live survives the start-up that would   *)
(* drop a stale one (request_stop against run_optimization's unlink), and  *)
(* the loop begins no solve after it.                                      *)
THEOREM StopHeeded == Spec => StopIsHeeded
<1>1. ASSUME LoopInv, [Next]_vars, asked, Live
      PROVE  stop_flag' /\ (proc'.pc = "solving" => proc.pc = "solving")
  <2>1. stop_flag /\ proc.pc \notin {"begin", "reset", "claim"}
    BY <1>1 DEF LoopInv, StopIsKept
  <2>2. ~Begin /\ ~BeginSolve
    BY <2>1 DEF Begin, BeginSolve
  <2>3. stop_flag'
    BY <1>1, <2>1, <2>2, FlagStays
  <2>4. Crash \/ Exit \/ MarkFailed => proc'.pc # "solving"
    <3>1. NoProcess.pc = "none"
      BY DEF NoProcess
    <3> QED
      BY <3>1 DEF Crash, Exit, MarkFailed
  <2> QED
    BY <1>1, <2>2, <2>3, <2>4, WhereStepsLead
<1>2. LoopInv /\ [Next]_vars =>
        [asked /\ Live => stop_flag' /\ (proc'.pc = "solving" => proc.pc = "solving")]_vars
  BY <1>1
<1> QED
  BY <1>2, LoopInvariant, PTL DEF Spec, StopIsHeeded

(* A process that ends by itself leaves a terminal status and gives up its *)
(* claim of the folder: the finally block and main()'s handler between     *)
(* them, whatever raised.                                                  *)
THEOREM EndsRecorded == Spec => EndsOnRecord
<1>1. ASSUME LoopInv, [Next]_vars, Live, proc'.pc = "none", ~Crash
      PROVE  /\ status' \in States \ {"running"}
             /\ proc.raised => status' = "failed"
             /\ pidfile' = None
  <2>1. Exit \/ MarkFailed
    <3>1. ~BeginSolve
      BY <1>1 DEF BeginSolve, LoopInv, TypeOK, ProcessOK, Processes
    <3>2. proc' # proc
      BY <1>1 DEF Live
    <3> QED
      BY <1>1, <3>1, <3>2, WhereStepsLead
  <2>2. CASE Exit
    BY <1>1, <2>2 DEF Exit, LoopInv, EndIsPublished
  <2>3. CASE MarkFailed
    BY <2>3 DEF MarkFailed, States
  <2> QED
    BY <2>1, <2>2, <2>3
<1>2. LoopInv /\ [Next]_vars =>
        [Live /\ proc'.pc = "none" /\ ~Crash
           => /\ status' \in States \ {"running"}
              /\ proc.raised => status' = "failed"
              /\ pidfile' = None]_vars
  BY <1>1
<1> QED
  BY <1>2, LoopInvariant, PTL DEF Spec, EndsOnRecord
=============================================================================
