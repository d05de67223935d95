------------------------------ MODULE Workbench -----------------------------
(***************************************************************************)
(* The bench before a run: one configuration file, the dashboard that      *)
(* edits it, the PREPARE child it starts for a case directory, the queue   *)
(* entry frozen from it and the start of the run.  Case directory 0 holds  *)
(* the decks as exported; directory n + 1 is the growth_mesh folder inside *)
(* directory n.  A folder is                                               *)
(*                                                                         *)
(*   [starters : [CaseStems -> deck or None],                              *)
(*    engines  : [CaseStems -> engine deck or None],                       *)
(*    files    : [name -> geometry]]                                       *)
(*                                                                         *)
(* and a page is                                                           *)
(*                                                                         *)
(*   [tables : the tables of regions, dir, filledDir : the directory field *)
(*    and the file's directory it was last filled from, settings : the     *)
(*    other fields, widget, seed : the boundary field and the value it was *)
(*    last seeded with, stash : what a button has put aside for it, saved, *)
(*    lost : ghost, the field was hidden after it had been shown or with a *)
(*    value put aside for it]                                              *)
(***************************************************************************)
EXTENDS GrowthMesh, RunConfig, RegionTable

CONSTANTS
  Torn,         \* a report that was being written
  CaseStems,    \* the stems of the load cases
  FirstFolders, \* what directory 0 may hold
  FirstFiles,   \* what the configuration file may hold
  Layouts,      \* the lists of regions a user may enter
  Settings,     \* the optimiser, run and case settings a user may choose
  TypedDirs,    \* the case directories a user may type
  Boundaries,   \* the boundaries a user may type, 0 to clear the field
  LastDir,      \* bound: directories 0..LastDir
  MaxClicks     \* bound: clicks and edits of the user

ASSUME BoundsAssumption == LastDir \in Nat \ {0} /\ MaxClicks \in Nat
ASSUME TypedAssumption == Boundaries \subseteq Nat /\ TypedDirs \subseteq 0..LastDir

Dirs == 0..LastDir
Sources == 0..(LastDir - 1)

IsFolder(folder) ==
  /\ folder = [starters |-> folder.starters, engines |-> folder.engines, files |-> folder.files]
  /\ DOMAIN folder.starters = CaseStems /\ DOMAIN folder.engines = CaseStems
  /\ \A s \in CaseStems : folder.starters[s] = None \/ IsDeck(folder.starters[s])
  /\ \A s \in CaseStems : folder.engines[s] = None \/ IsEngine(folder.engines[s])
  /\ \A n \in DOMAIN folder.files : IsGeometry(folder.files[n])

IsModel(m) ==
  /\ m = [dir |-> m.dir, enabled |-> m.enabled, regions |-> m.regions, bound |-> m.bound,
          keepOut |-> m.keepOut, keepOutParts |-> m.keepOutParts,
          keepOutClearance |-> m.keepOutClearance, bcGroup |-> m.bcGroup,
          freezeGroups |-> m.freezeGroups, excludeGroups |-> m.excludeGroups]
  /\ m.dir \in Dirs /\ m.enabled \in BOOLEAN
  /\ AreRegions(m.regions)
  /\ m.bound \in (Nat \ {0}) \cup {None}

IsFile(raw) ==
  /\ raw = [model |-> raw.model, optimizer |-> raw.optimizer, knobs |-> raw.knobs,
            run |-> raw.run, rows |-> raw.rows, legacy |-> raw.legacy, unknown |-> raw.unknown]
  /\ IsModel(raw.model)
  /\ AreRows(raw.rows, CaseStems) /\ AreSlots(raw.run.slots)
  /\ \/ raw.legacy = None
     \/ raw.legacy \in [stem : CaseStems, node : Int \cup {None}, sigma : Int \cup {None},
                        limit : Int \cup {None}]

AreSettings(s) ==
  /\ s = [optimizer |-> s.optimizer, knobs |-> s.knobs, run |-> s.run, cases |-> s.cases]
  /\ AreRows(s.cases, CaseStems) /\ Folded(s.cases) /\ AreSlots(s.run.slots)

ASSUME FirstAssumption ==
  /\ \A folder \in FirstFolders : IsFolder(folder)
  /\ \A raw \in FirstFiles : IsFile(raw)
ASSUME ChoiceAssumption ==
  /\ \A boxes \in Layouts : AreRegions(boxes)
  /\ \A s \in Settings : AreSettings(s)

VARIABLES
  disk,     \* the folders
  file,     \* the configuration file
  form,     \* what the page shows and keeps of it in its session
  prep,     \* the scratch folder of PREPARE in each source directory
  child,    \* the PREPARE process of each source directory
  queued,   \* the snapshot of the queue entry, None before
  run,      \* the run started from it, None before
  meant,    \* ghost: the configuration the user has in mind
  clicks

vars == <<disk, file, form, prep, child, queued, run, meant, clicks>>

NoFolder == [starters |-> [s \in CaseStems |-> None], engines |-> [s \in CaseStems |-> None],
             files |-> <<>>]
NoPrep  == [pid |-> FALSE, config |-> None, report |-> None]
NoChild == [phase |-> "none", plan |-> None, next |-> 0]

(***************************************************************************)
(* The page.                                                               *)
(***************************************************************************)
ShowsBoundary(f, raw) ==
  raw.model.enabled /\ \E b \in Range(BoxesOf(f.tables)) : ~b.carve /\ ~b.forbid

(* Every click runs the page anew.  The directory field is filled from the *)
(* file again when the file's directory has changed, and so is the boundary*)
(* field, which then takes what a button has put aside for it.  A field    *)
(* that is not on the page leaves the session, and what it held with it.   *)
Rendered(f, raw) ==
  LET bound  == IF raw.model.bound = None THEN 0 ELSE raw.model.bound
      filled == IF f.filledDir = raw.model.dir THEN f
                ELSE [f EXCEPT !.filledDir = raw.model.dir, !.dir = raw.model.dir]
      seeded == IF f.seed = bound THEN filled
                ELSE [filled EXCEPT !.seed = bound, !.widget = bound]
      leaves == f.seed # None \/ f.stash # None
  IN  IF ~ShowsBoundary(f, raw) THEN [filled EXCEPT !.widget = 0, !.lost = @ \/ leaves]
      ELSE IF f.stash = None THEN seeded
      ELSE [seeded EXCEPT !.widget = f.stash, !.stash = None]

(* A configuration with all but its model set anew.                        *)
With(settings, cfg) ==
  [cfg EXCEPT !.optimizer = settings.optimizer, !.knobs = settings.knobs,
              !.run = settings.run, !.cases = settings.cases]

(* The configuration on the screen: the file's, with every field written   *)
(* back into it.                                                           *)
OnScreen(f, raw) ==
  LET loaded  == Loaded(raw)
      bound   == IF ~ShowsBoundary(f, raw) THEN raw.model.bound
                 ELSE IF f.widget = 0 THEN None ELSE f.widget
      regions == IF raw.model.enabled THEN BoxesOf(f.tables) ELSE raw.model.regions
  IN  With(f.settings,
           [loaded EXCEPT !.model = [@ EXCEPT !.dir = f.dir, !.regions = regions,
                                              !.bound = bound]])

(* The page as it opens on a file.                                         *)
Opened(raw) ==
  LET cfg == Loaded(raw)
  IN  Rendered([tables |-> TablesOf(cfg.model.regions), dir |-> cfg.model.dir,
                filledDir |-> cfg.model.dir, settings |-> [optimizer |-> cfg.optimizer, knobs |-> cfg.knobs,
                                                       run |-> cfg.run, cases |-> cfg.cases],
                widget |-> 0, seed |-> None, stash |-> None, saved |-> FALSE,
                lost |-> FALSE], raw)

Growing == file.model.enabled

(***************************************************************************)
(* The disk.                                                               *)
(***************************************************************************)
Present(starters) == {s \in CaseStems : starters[s] # None}
Decks(cfg) == [i \in DOMAIN cfg.cases |-> disk[cfg.model.dir].starters[cfg.cases[i].stem]]
At(cfg) ==
  LET folder == disk[cfg.model.dir]
  IN  [folder |-> cfg.model.dir = 0 \/ folder # NoFolder, starters |-> Present(folder.starters),
       engines |-> Present(folder.engines), files |-> folder.files, backend |-> TRUE]

(* A PREPARE as its panel reads it: a live child wins, then a report, then *)
(* a pid left behind.                                                      *)
Running(d) == child[d].phase # "none"
StatusOf(d) ==
  CASE Running(d)             -> "running"
    [] ~Running(d) /\ prep[d].report = Torn -> "failed"
    [] ~Running(d) /\ prep[d].report = None -> IF prep[d].pid THEN "failed" ELSE "idle"
    [] OTHER -> "done"
Done(d) == StatusOf(d) = "done"

TypeOK ==
  /\ \A d \in Dirs : \A s \in CaseStems :
       disk[d].starters[s] # None => DeclaredTwice(disk[d].starters[s]) = {}
  /\ file.model.dir \in Dirs /\ form.dir \in Dirs
  /\ form.widget \in Nat /\ form.stash \in Nat \cup {None} /\ form.seed \in Nat \cup {None}
  /\ form.saved \in BOOLEAN /\ form.lost \in BOOLEAN
  /\ \A d \in Sources :
       /\ child[d].phase \in {"none", "load", "write", "copy", "report", "exit"}
       /\ Running(d) => prep[d].config.model.dir = d
       /\ prep[d].pid \in BOOLEAN
  /\ run = None \/ run.state \in {"refused", "started"}
  /\ clicks \in 0..MaxClicks

Init ==
  /\ disk \in {[d \in Dirs |-> IF d = 0 THEN folder ELSE NoFolder] : folder \in FirstFolders}
  /\ file \in FirstFiles
  /\ form = Opened(file)
  /\ prep = [d \in Sources |-> NoPrep]
  /\ child = [d \in Sources |-> NoChild]
  /\ queued = None /\ run = None
  /\ meant = Loaded(file)
  /\ clicks = 0

(***************************************************************************)
(* Edits: what the user enters is what the user means.                     *)
(***************************************************************************)
Click == clicks < MaxClicks /\ clicks' = clicks + 1
Edited(f) == form' = Rendered([f EXCEPT !.saved = FALSE], file)
Untouched == UNCHANGED <<disk, file, prep, child, queued, run>>

EditRegions ==
  /\ Click /\ Growing
  /\ \E boxes \in Layouts :
       /\ Edited([form EXCEPT !.tables = TablesOf(boxes)])
       /\ meant' = [meant EXCEPT !.model.regions = boxes]
  /\ Untouched

EditDir ==
  /\ Click
  /\ \E d \in TypedDirs \ {form.dir} :
       /\ Edited([form EXCEPT !.dir = d])
       /\ meant' = [meant EXCEPT !.model.dir = d]
  /\ Untouched

EditSettings ==
  /\ Click
  /\ \E s \in Settings \ {form.settings} :
       /\ Edited([form EXCEPT !.settings = s])
       /\ meant' = With(s, meant)
  /\ Untouched

TypeBoundary ==
  /\ Click /\ ShowsBoundary(form, file)
  /\ \E b \in Boundaries \ {form.widget} :
       /\ Edited([form EXCEPT !.widget = b])
       /\ meant' = [meant EXCEPT !.model.bound = IF b = 0 THEN None ELSE b]
  /\ Untouched

(***************************************************************************)
(* Buttons.                                                                *)
(***************************************************************************)
Save ==
  /\ Click
  /\ file' = ToYaml(OnScreen(form, file))
  /\ form' = Rendered([form EXCEPT !.saved = TRUE], file')
  /\ UNCHANGED <<disk, prep, child, queued, run, meant>>

(* The button is enabled by a check of the file as it is; it saves the     *)
(* screen and freezes that.                                                *)
Add ==
  /\ Click /\ queued = None
  /\ CheckConfig(file, At(Loaded(file))) = {}
  /\ file' = ToYaml(OnScreen(form, file))
  /\ form' = Rendered([form EXCEPT !.saved = TRUE], file')
  /\ queued' = file'
  /\ UNCHANGED <<disk, prep, child, run, meant>>

(* The queue tab freezes a file from the disk, unchecked.                  *)
AddFromDisk ==
  /\ Click /\ queued = None
  /\ queued' = file
  /\ form' = Rendered(form, file)
  /\ UNCHANGED <<disk, file, prep, child, run, meant>>

(* The preview fills in a boundary that is needed and not set: the highest *)
(* element of the deck there is now.                                       *)
PreviewRegions ==
  LET cfg  == OnScreen(form, file)
      deck == Decks(cfg)[1]
  IN  /\ Click /\ Growing /\ Regions(cfg.model) # {}
      /\ cfg.cases # <<>> /\ deck # None
      /\ cfg.model.bound = None /\ \E b \in Regions(cfg.model) : ~b.carve
      /\ form' = Rendered([form EXCEPT !.stash = MaxElemId(deck), !.saved = FALSE], file)
      /\ meant' = [meant EXCEPT !.model.bound = MaxElemId(deck)]
      /\ Untouched

GenerateOverReport ==
  LET cfg == OnScreen(form, file)
      d   == cfg.model.dir
  IN  /\ Click /\ Growing /\ d \in Sources /\ ~Running(d)
      /\ Regions(cfg.model) # {}
      /\ prep' = [prep EXCEPT ![d] = [@ EXCEPT !.pid = TRUE, !.config = cfg]]
      /\ child' = [child EXCEPT ![d] = [NoChild EXCEPT !.phase = "load"]]
      /\ form' = Rendered(form, file)
      /\ UNCHANGED <<disk, file, queued, run, meant>>

(* The configuration on the screen is frozen for a child of its own; no    *)
(* outcome of an earlier one is left.                                      *)
Generate ==
  LET cfg == OnScreen(form, file)
      d   == cfg.model.dir
  IN  /\ Click /\ Growing /\ d \in Sources /\ ~Running(d)
      /\ Regions(cfg.model) # {}
      /\ prep' = [prep EXCEPT ![d] = [pid |-> TRUE, config |-> cfg, report |-> None]]
      /\ child' = [child EXCEPT ![d] = [NoChild EXCEPT !.phase = "load"]]
      /\ form' = Rendered(form, file)
      /\ UNCHANGED <<disk, file, queued, run, meant>>

UseUnstashed ==
  LET d == form.dir
  IN  /\ Click /\ Growing /\ d \in Sources /\ Done(d)
      /\ BoxesOf(form.tables) # <<>>
      /\ file' = [file EXCEPT !.model.dir = d + 1, !.model.bound = prep[d].report.bound]
      /\ form' = Rendered([form EXCEPT !.saved = FALSE], file')
      /\ meant' = [meant EXCEPT !.model.dir = form'.dir, !.model.bound = prep[d].report.bound]
      /\ UNCHANGED <<disk, prep, child, queued, run>>

(* Point the file at the extended decks, record the boundary in it, and    *)
(* put the boundary aside for the field.                                   *)
Use ==
  LET d == form.dir
  IN  /\ Click /\ Growing /\ d \in Sources /\ Done(d)
      /\ BoxesOf(form.tables) # <<>>
      /\ file' = [file EXCEPT !.model.dir = d + 1, !.model.bound = prep[d].report.bound]
      /\ form' = Rendered([form EXCEPT !.stash = prep[d].report.bound, !.saved = FALSE], file')
      /\ meant' = [meant EXCEPT !.model.dir = form'.dir, !.model.bound = prep[d].report.bound]
      /\ UNCHANGED <<disk, prep, child, queued, run>>

(***************************************************************************)
(* The PREPARE child.  It works on the configuration frozen for it, and on *)
(* the decks as it finds them.                                             *)
(***************************************************************************)
Prepared(d, cfg, decks) ==
  LET growth == Growth(decks, cfg.model, disk[d].files)
  IN  [source |-> decks, bound |-> TopElemId(decks), cfg |-> cfg,
       decks |-> [i \in DOMAIN decks |-> Extended(decks[i], growth.nodes, growth.cells)]]

Unchosen == UNCHANGED <<file, form, queued, run, meant, clicks>>

(* Everything is checked before anything is written; on an error the child *)
(* ends without a report.                                                  *)
ChildLoads(d) ==
  LET cfg   == prep[d].config
      decks == Decks(cfg)
  IN  /\ child[d].phase = "load"
      /\ child' = [child EXCEPT ![d] =
                     IF Refused(decks, cfg.model, disk[d].files) THEN NoChild
                     ELSE [phase |-> "write", plan |-> Prepared(d, cfg, decks), next |-> 1]]
      /\ Unchosen /\ UNCHANGED <<disk, prep>>

(* The extended starter of one case, and its engine where there is one.    *)
ChildWrites(d) ==
  LET plan   == child[d].plan
      stem   == plan.cfg.cases[child[d].next].stem
      engine == disk[d].engines[stem]
  IN  /\ child[d].phase = "write"
      /\ disk' = [disk EXCEPT ![d + 1].starters[stem] = plan.decks[child[d].next],
                              ![d + 1].engines[stem] = IF engine = None THEN @ ELSE engine]
      /\ child' = [child EXCEPT ![d].next = @ + 1,
                                ![d].phase = IF child[d].next < Len(plan.decks) THEN @ ELSE "copy"]
      /\ Unchosen /\ UNCHANGED prep

ChildCopies(d) ==
  LET names == Referenced(child[d].plan.cfg.model) \cap DOMAIN disk[d].files
      copied(there) == [n \in names \cup DOMAIN there |->
                          IF n \in names THEN disk[d].files[n] ELSE there[n]]
  IN  /\ child[d].phase = "copy"
      /\ disk' = [disk EXCEPT ![d + 1].files = copied(@)]
      /\ child' = [child EXCEPT ![d].phase = "report"]
      /\ Unchosen /\ UNCHANGED prep

ChildReports(d) ==
  /\ child[d].phase = "report"
  /\ prep' = [prep EXCEPT ![d].report =
                [bound |-> child[d].plan.bound, cfg |-> child[d].plan.cfg,
                 source |-> child[d].plan.source]]
  /\ child' = [child EXCEPT ![d].phase = "exit"]
  /\ Unchosen /\ UNCHANGED disk

ChildExits(d) ==
  /\ child[d].phase = "exit"
  /\ child' = [child EXCEPT ![d] = NoChild]
  /\ Unchosen /\ UNCHANGED <<disk, prep>>

(* Killed, it leaves what it has written, perhaps half a report.           *)
Killed(d) ==
  /\ Running(d)
  /\ child' = [child EXCEPT ![d] = NoChild]
  /\ prep' \in {prep} \cup (IF child[d].phase = "report"
                            THEN {[prep EXCEPT ![d].report = Torn]} ELSE {})
  /\ UNCHANGED <<disk, file, queued, run, meant>>

ChildCrashes(d) == Killed(d) /\ UNCHANGED <<form, clicks>>

Cancel ==
  /\ Click /\ Growing /\ form.dir \in Sources
  /\ BoxesOf(form.tables) # <<>>
  /\ Killed(form.dir)
  /\ form' = Rendered(form, file)

(***************************************************************************)
(* The start of the run.                                                   *)
(***************************************************************************)
NoPin(cfg) == GroupNodes(Decks(cfg)[1], cfg.model.bcGroup)

Started(cfg) ==
  LET m      == cfg.model
      decks  == Decks(cfg)
      files  == disk[m.dir].files
      void   == Candidates(decks[1], m, files)
      frozen == ProtectedCells(decks[1], ProtectNodes(decks[1], m, cfg.knobs.protectBc),
                               cfg.knobs.contact, cfg.knobs.layers)
      alive0 == {c.id : c \in decks[1].cells \ void}
  IN  [state |-> "started", cfg |-> cfg, alive |-> alive0,
       protected |-> {c.id : c \in frozen \ void},
       ignored |-> {c.id : c \in Touching(decks[1].cells, StressExcludeNodes(decks[1], m))},
       noPin |-> NoPin(cfg), decks |-> decks, held |-> HeldVoid(decks[1], m, files),
       first |-> [i \in DOMAIN decks |->
                    [deck |-> Written(decks[i], alive0, NoPin(cfg)),
                     engine |-> PreparedEngine(disk[m.dir].engines[cfg.cases[i].stem],
                                               cfg.run.animDt, cfg.knobs.sensitivity = "tdsa")]]]

(* The snapshot is validated again, the decks compared and the growth      *)
(* guards passed, before the first solve.                                  *)
CanStart(raw) ==
  LET cfg == Loaded(raw)
  IN  /\ CheckConfig(raw, At(cfg)) = {}
      /\ MistypedGroups(Decks(cfg)[1], cfg.model) = {}
      /\ SharesMesh(Decks(cfg))
      /\ GuardsPass(Decks(cfg)[1], cfg.model, disk[cfg.model.dir].files)

StartRun ==
  /\ queued # None /\ run = None
  /\ run' = IF CanStart(queued) THEN Started(Loaded(queued)) ELSE [state |-> "refused"]
  /\ UNCHANGED <<disk, file, form, prep, child, queued, meant, clicks>>

Next ==
  \/ EditRegions \/ EditDir \/ EditSettings \/ TypeBoundary
  \/ Save \/ Add \/ AddFromDisk \/ PreviewRegions \/ Generate \/ Cancel \/ Use
  \/ \E d \in Sources :
       ChildLoads(d) \/ ChildWrites(d) \/ ChildCopies(d) \/ ChildReports(d)
         \/ ChildExits(d) \/ ChildCrashes(d)
  \/ StartRun

Spec == Init /\ [][Next]_vars

(***************************************************************************)
(* Properties.                                                             *)
(***************************************************************************)
(* One mesh: the same elements on nodes that every deck has, each at one   *)
(* place.                                                                  *)
OneMesh(decks) ==
  \A k \in DOMAIN decks :
    /\ decks[k] # None /\ decks[k].cells = decks[1].cells
    /\ \A n \in NodesUnder(decks[1].cells) :
         n \in NodeIds(decks[k]) /\ RowOf(decks[k], n).x = RowOf(decks[1], n).x

DecksIn(d, cfg) == [i \in DOMAIN cfg.cases |-> disk[d].starters[cfg.cases[i].stem]]

Carved(d, m, files) ==
  UNION {InSpace(d, Space(d, r, files)) : r \in {q \in Positive(Regions(m)) : q.carve}}

(* When the panel shows a finished PREPARE (and offers its decks), the     *)
(* folder holds every case on one mesh, a run with the recorded boundary   *)
(* passes the growth guards, and iteration 0 solves the part as it was,    *)
(* less what the regions carve.  An earlier report, a crash half way or a  *)
(* second PREPARE must not show such a result for decks that are not so.   *)
DoneStartsWhole ==
  \A d \in Sources : Done(d) /\ OneMesh(prep[d].report.source) =>
    LET report == prep[d].report
        part   == report.source[1]
        decks  == DecksIn(d + 1, report.cfg)
        m      == [report.cfg.model EXCEPT !.bound = report.bound]
        files  == disk[d + 1].files
    IN  /\ OneMesh(decks)
        /\ GuardsPass(decks[1], m, files)
        /\ decks[1].cells \ Candidates(decks[1], m, files)
             = part.cells \ Carved(part, m, disk[d].files)

(* After Save the file says what the user entered, or what a button told   *)
(* the user it had filled in: through three tables matched by name, and a  *)
(* field that the file, the preview and the Use button all write to.       *)
(* ("Frames and points survive the main table's shape/coordinate           *)
(* round-trip": not those of regions that share a name, or have none.)     *)
(* The boundary is kept only while its field is on the page: hidden for a  *)
(* rerun, by regions that need none, the field comes back empty, as the    *)
(* value it was seeded with has not changed (app.py:117).                  *)
SavedIsMeant == form.saved /\ ~form.lost => Loaded(file) = meant

(* In the decks of iteration 0 no node of the mesh is left with neither a  *)
(* living element nor a pin, however the regions void the part (the        *)
(* support is held by the deck itself): the implicit solve is not singular.*)
(* Held-void candidates are exempt from the guard (loop.py:448): only a    *)
(* rigid node of theirs may stay free.  The load cases are compared by     *)
(* their element ids, so this is claimed for cases on one mesh.            *)
StartsPinned ==
  run # None /\ run.state = "started" /\ OneMesh(run.decks) =>
    \A i \in DOMAIN run.first : \A n \in NodesUnder(run.decks[1].cells) :
      \/ n \in NodesUnder(run.first[i].deck.cells) \cup run.first[i].deck.pinned \cup run.noPin
      \/ n < DesignNodeMin /\ n \in NodesUnder(run.held)

(* What the code behind the launch relies on: a known optimiser and        *)
(* sensitivity, weights that can be normalised, limits that can be divided *)
(* by, and engines that are given processors.                              *)
Runnable(cfg) ==
  /\ cfg.optimizer \in Optimizers /\ cfg.knobs.sensitivity \in Sensitivities
  /\ cfg.knobs.target \in 1..100
  /\ \A i \in DOMAIN cfg.cases : cfg.cases[i].weight >= 0 /\ cfg.cases[i].sigma # 0
  /\ \E i \in DOMAIN cfg.cases : cfg.cases[i].weight > 0
  /\ \A i \in DOMAIN cfg.cases : \A q \in cfg.cases[i].disps : q.limit # 0
  /\ \A i \in DOMAIN cfg.run.slots : cfg.run.slots[i].np > 0 /\ cfg.run.slots[i].nt > 0

(* By whatever way a configuration came to the queue, checked as it was on *)
(* the disk before the screen was saved over it or not checked at all, a   *)
(* run that starts can be run to its first update.                         *)
AcceptedIsRunnable ==
  run # None /\ run.state = "started" =>
    /\ Runnable(run.cfg)
    /\ \A i \in DOMAIN run.first :
         run.cfg.knobs.sensitivity = "tdsa" => run.first[i].engine.tensors = 1

(* What the repository says and the code does not do.                      *)

(* "killing it mid-flight leaves no partial deck set behind" (cancel): the *)
(* extended folder holds the decks of all the cases, or of none.           *)
CancelLeavesNoPartialSet ==
  \A d \in Sources :
    ~Running(d) /\ prep[d].config # None =>
      LET decks == DecksIn(d + 1, prep[d].config)
      IN  OneMesh(decks) \/ \A i \in DOMAIN decks : decks[i] = None
=============================================================================
