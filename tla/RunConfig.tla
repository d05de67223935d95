----------------------------- MODULE RunConfig ------------------------------
(***************************************************************************)
(* The configuration of a run: what reading its file makes of it (legacy   *)
(* keys are folded in, unknown ones dropped), and what validation says of  *)
(* it before a launch.  Fractions are in hundredths.  A file is            *)
(*                                                                         *)
(*   [model, optimizer, knobs, run, rows : Seq(case rows),                 *)
(*    legacy : [stem, node, sigma, limit], unknown : set of keys]          *)
(*                                                                         *)
(* and the disk is seen as                                                 *)
(*                                                                         *)
(*   [dir, folder : BOOLEAN, starters, engines : sets of stems,            *)
(*    files : [name -> geometry deck], backend : BOOLEAN]                  *)
(***************************************************************************)
EXTENDS GrowthRegions

Optimizers == {"beso", "levelset", "tobs", "hca", "saip"}
Sensitivities == {"energy", "vonmises", "blend", "tdsa"}
Shapes == {"box", "card", "hull", "deck"}

(* Rows of load cases, with decks of these stems, and solver slots.        *)
AreRows(rows, stems) ==
  rows \in Seq([stem : stems, weight : Int, sigma : Int \cup {None},
                node : Int \cup {None}, limit : Int \cup {None},
                disps : SUBSET [node : Int \cup {None}, limit : Int \cup {None}]])
AreSlots(slots) == \A i \in DOMAIN slots : slots[i].np \in Int /\ slots[i].nt \in Int

(***************************************************************************)
(* Reading and writing the file.                                           *)
(***************************************************************************)
(* One node and its limit, the old form, is a displacement constraint.     *)
FoldedCase(row) ==
  [row EXCEPT !.disps = IF @ = {} /\ row.node # None
                        THEN {[node |-> row.node, limit |-> row.limit]} ELSE @,
              !.node = None, !.limit = None]

(* A file without load cases but with the old single-case keys has one.    *)
MigratedRows(raw) ==
  IF raw.rows # <<>> THEN raw.rows
  ELSE IF raw.legacy = None THEN <<>>
  ELSE <<[stem |-> raw.legacy.stem, weight |-> 100, sigma |-> raw.legacy.sigma,
          node |-> raw.legacy.node, limit |-> raw.legacy.limit, disps |-> {}]>>

Loaded(raw) ==
  [model |-> raw.model, optimizer |-> raw.optimizer, knobs |-> raw.knobs, run |-> raw.run,
   cases |-> [i \in DOMAIN MigratedRows(raw) |-> FoldedCase(MigratedRows(raw)[i])]]

(* What Save writes: nothing of what reading dropped or folded.            *)
ToYaml(cfg) ==
  [model |-> cfg.model, optimizer |-> cfg.optimizer, knobs |-> cfg.knobs, run |-> cfg.run,
   rows |-> cfg.cases, legacy |-> None, unknown |-> {}]

Folded(cases) == \A i \in DOMAIN cases : cases[i].node = None /\ cases[i].limit = None

(***************************************************************************)
(* Validation: the errors, by name.                                        *)
(***************************************************************************)
Flagged(name, wrong) == IF wrong THEN {name} ELSE {}

Stems(cfg) == {cfg.cases[i].stem : i \in DOMAIN cfg.cases}
DeckErrors(cfg, at) ==
  Flagged("no load cases", cfg.cases = <<>>)
    \cup Flagged("no case directory", ~at.folder)
    \cup Flagged("no stem", None \in Stems(cfg))
    \cup Flagged("no starter", ~(Stems(cfg) \ {None} \subseteq at.starters))
    \cup Flagged("no engine", ~(Stems(cfg) \ {None} \subseteq at.engines))
    \cup Flagged("stems not distinct",
                 \E i, j \in DOMAIN cfg.cases : i < j /\ cfg.cases[i].stem = cfg.cases[j].stem
                                                      /\ cfg.cases[i].stem # None)

RunErrors(cfg, at) ==
  Flagged("backend", ~at.backend)
    \cup Flagged("slot", \E i \in DOMAIN cfg.run.slots :
                           cfg.run.slots[i].np < 1 \/ cfg.run.slots[i].nt < 1)
    \cup Flagged("max_wall_hours", cfg.run.maxWallHours < 0)
    \cup Flagged("diverge_fail_after", cfg.run.divergeFailAfter < 1)
    \cup Flagged("diverge_max_cycles", cfg.run.divergeMaxCycles < 0)

(* The active optimiser's block; the other blocks are not looked at.  Its  *)
(* knobs that nothing here reads (nucleation, diffusion, bias) are left    *)
(* out; their bounds are of the same form.                                 *)
KnobErrors(k) ==
  Flagged("target_volume_fraction", k.target \notin 1..100)
    \cup Flagged("evolution_rate", k.rate <= 0)
    \cup Flagged("filter_radius", k.radius < 0)
    \cup Flagged("backoff", k.gain < 0 \/ k.cap <= 0 \/ k.floor < 0 \/ k.floor > k.cap)
    \cup Flagged("damping_threshold", k.damping \notin 1..100)
    \cup Flagged("sensitivity", k.sensitivity \notin Sensitivities)
    \cup Flagged("backoff_mode", k.mode \notin {"gate", "multipoint"})
    \cup Flagged("multipoint_window", k.window < 2)
    \cup Flagged("utilization_target", k.utilization \notin 1..100)
    \cup Flagged("radius schedule", k.radiusStart < 0 \/ k.radiusIters < 1 \/ k.radiusSteps < 2)
    \cup Flagged("flip_limit", k.flipLimit \notin 1..100)

CaseErrorsSigned(cfg) ==
  LET cases == {cfg.cases[i] : i \in DOMAIN cfg.cases}
  IN  Flagged("weight", \E c \in cases : c.weight < 0)
        \cup Flagged("sigma_allow", \E c \in cases : c.sigma # None /\ c.sigma <= 0)
CaseErrors(cfg) ==
  LET cases == {cfg.cases[i] : i \in DOMAIN cfg.cases}
  IN  Flagged("weight", \E c \in cases : c.weight < 0)
        \cup Flagged("all weights zero", cases # {} /\ \A c \in cases : c.weight <= 0)
        \cup Flagged("sigma_allow", \E c \in cases : c.sigma # None /\ c.sigma <= 0)
        \cup Flagged("displacement", \E c \in cases : \E q \in c.disps :
                       q.node = None \/ (q.limit # None /\ q.limit <= 0))

RegionErrors(r, at) ==
  Flagged("shape", r.shape \notin Shapes)
    \cup Flagged("corners", r.shape = "box" /\ r.lo > r.hi)
    \cup Flagged("points", r.shape = "hull" /\ Cardinality(r.points) < 2)
    \cup Flagged("region deck", r.shape = "deck" /\
                   (r.clearance < 0 \/ r.ref \notin DOMAIN at.files
                      \/ ~HasSolids(at.files[r.ref], r.parts)))

GrowthErrors(m, at) ==
  (UNION {RegionErrors(r, at) : r \in ActiveRegions(m)})
    \cup Flagged("growth_original_elem_max", m.bound # None /\ m.bound <= 0)
    \cup Flagged("keep-out", m.keepOut # None /\
                   (m.keepOut \notin DOMAIN at.files
                      \/ ~HasSolids(at.files[m.keepOut], m.keepOutParts)))

CheckConfig(raw, at) ==
  LET cfg == Loaded(raw)
  IN  Flagged("unknown key", raw.unknown # {})
        \cup Flagged("optimizer", cfg.optimizer \notin Optimizers)
        \cup DeckErrors(cfg, at) \cup RunErrors(cfg, at) \cup KnobErrors(cfg.knobs)
        \cup CaseErrors(cfg) \cup GrowthErrors(cfg.model, at)
=============================================================================
