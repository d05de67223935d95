-------------------------- MODULE SolverPool_proofs --------------------------
(***************************************************************************)
(* Proofs about the solver pool, for any number of load cases, any         *)
(* dispatch settings, any limit of diverge cycles and chunks of any        *)
(* length.                                                                 *)
(***************************************************************************)
EXTENDS SolverPool, FiniteSetTheorems, TLAPS

(* A nonempty set of naturals has a least element: what a definition by    *)
(* CHOOSE of a first index rests on.                                       *)
LEMMA LeastNatural ==
  ASSUME NEW S \in SUBSET Nat, S # {}
  PROVE  \E n \in S : \A m \in S : n <= m
<1> DEFINE Less == {p \in Nat \X Nat : p[1] < p[2]}
<1>1. IsWellFoundedOn(Less, Nat)
  BY NatLessThanWellFounded DEF OpToRel
<1>2. PICK n \in S : \A m \in S : <<m, n>> \notin Less
  <2> HIDE DEF Less
  <2> QED
    BY <1>1, WFMin
<1>3. ASSUME NEW m \in S PROVE n <= m
  <2>1. <<m, n>> \notin Less /\ m \in Nat /\ n \in Nat
    BY <1>2
  <2>2. m < n => <<m, n>> \in Less
    BY <2>1
  <2> QED
    BY <2>1, <2>2
<1> QED
  BY <1>3

-----------------------------------------------------------------------------
(* The divergence monitor.                                                 *)

LEMMA TrailingFinite ==
  ASSUME NEW chunk \in Seq(Lines)
  PROVE  /\ Trailing(chunk) \subseteq 1 .. Len(chunk)
         /\ IsFiniteSet(Trailing(chunk))
         /\ Cardinality(Trailing(chunk)) \in 0 .. Len(chunk)
         /\ Cardinality(Trailing(chunk)) = Len(chunk) => Trailing(chunk) = 1 .. Len(chunk)
<1>1. Trailing(chunk) \subseteq 1 .. Len(chunk)
  BY DEF Trailing
<1>2. Len(chunk) \in Nat
  OBVIOUS
<1>3. IsFiniteSet(1 .. Len(chunk)) /\ Cardinality(1 .. Len(chunk)) = Len(chunk)
  BY <1>2, FS_Interval
<1> HIDE DEF Trailing
<1>4. /\ IsFiniteSet(Trailing(chunk))
      /\ Cardinality(Trailing(chunk)) <= Cardinality(1 .. Len(chunk))
      /\ Cardinality(1 .. Len(chunk)) = Cardinality(Trailing(chunk))
           => 1 .. Len(chunk) = Trailing(chunk)
  BY <1>1, <1>3, FS_Subset
<1>5. Cardinality(Trailing(chunk)) \in Nat
  BY <1>4, FS_CardinalityType
<1> QED
  BY <1>1, <1>2, <1>3, <1>4, <1>5

LEMMA FedType ==
  ASSUME NEW count \in Nat, NEW chunk \in Seq(Lines)
  PROVE  Fed(count, chunk) \in Nat
  BY TrailingFinite DEF Fed

(* Nothing new to read changes nothing.                                    *)
LEMMA FedNothing ==
  ASSUME NEW count \in Nat
  PROVE  Fed(count, <<>>) = count
<1>1. Trailing(<<>>) = {} /\ Len(<<>>) = 0
  BY DEF Trailing
<1>2. Cardinality(Trailing(<<>>)) = 0
  BY <1>1, FS_EmptySet
<1>3. Fed(count, <<>>) = 0 + count
  BY <1>1, <1>2, Zenon DEF Fed
<1> QED
  BY <1>3

(* A diverge cycle at the end of a chunk is one more, whether or not the   *)
(* chunk held a recovery.                                                  *)
LEMMA FedDiverge ==
  ASSUME NEW count \in Nat, NEW chunk \in Seq(Lines)
  PROVE  Fed(count, Append(chunk, "diverge")) = Fed(count, chunk) + 1
<1> DEFINE longer == Append(chunk, "diverge")
           last == Len(chunk) + 1
<1>1. /\ Len(chunk) \in Nat /\ Len(longer) = last /\ longer[last] = "diverge"
      /\ \A m \in 1 .. Len(chunk) : longer[m] = chunk[m]
  BY DEF Lines
<1> HIDE DEF longer
<1>2. Trailing(longer) = Trailing(chunk) \cup {last}
  <2>1. ASSUME NEW k \in Trailing(longer) PROVE k \in Trailing(chunk) \cup {last}
    BY <1>1, <2>1 DEF Trailing
  <2>2. ASSUME NEW k \in Trailing(chunk) PROVE k \in Trailing(longer)
    <3>1. k \in 1 .. Len(chunk) /\ \A m \in k .. Len(chunk) : chunk[m] = "diverge"
      BY DEF Trailing
    <3>2. ASSUME NEW m \in k .. last PROVE longer[m] = "diverge"
      <4>1. m = last \/ (m \in k .. Len(chunk) /\ m \in 1 .. Len(chunk))
        BY <1>1, <3>1
      <4> QED
        BY <1>1, <3>1, <4>1
    <3> QED
      BY <1>1, <3>1, <3>2 DEF Trailing
  <2>3. last \in Trailing(longer)
    BY <1>1 DEF Trailing
  <2> QED
    BY <2>1, <2>2, <2>3
<1>3. last \notin Trailing(chunk)
  BY <1>1, TrailingFinite
<1>4. Cardinality(Trailing(longer)) = Cardinality(Trailing(chunk)) + 1
  BY <1>2, <1>3, TrailingFinite, FS_AddElement
<1>5. Cardinality(Trailing(chunk)) \in Nat
  BY TrailingFinite
<1>6. Fed(count, longer) = Fed(count, chunk) + 1
  BY <1>1, <1>4, <1>5 DEF Fed
<1> QED
  BY <1>6 DEF longer

(* An accepted step ends the streak.                                       *)
LEMMA FedAccept ==
  ASSUME NEW count \in Nat, NEW chunk \in Seq(Lines)
  PROVE  Fed(count, Append(chunk, "accept")) = 0
<1> DEFINE longer == Append(chunk, "accept")
           last == Len(chunk) + 1
<1>1. Len(chunk) \in Nat /\ Len(longer) = last /\ longer[last] = "accept"
  BY DEF Lines
<1> HIDE DEF longer
<1>2. Trailing(longer) = {}
  <2>1. ASSUME NEW k \in Trailing(longer) PROVE FALSE
    <3>1. k \in 1 .. last /\ \A m \in k .. last : longer[m] = "diverge"
      BY <1>1 DEF Trailing
    <3>2. last \in k .. last
      BY <1>1, <3>1
    <3> QED
      BY <1>1, <3>1, <3>2
  <2> QED
    BY <2>1
<1>3. Cardinality(Trailing(longer)) = 0
  BY <1>2, FS_EmptySet
<1>4. Fed(count, longer) = 0
  BY <1>1, <1>3 DEF Fed
<1> QED
  BY <1>4 DEF longer

-----------------------------------------------------------------------------
(* The inductive invariant.  A case's watch is fresh until its engine      *)
(* runs, the streak is what the monitor would count if it read on now, and *)
(* a live solver means a worker that will see to its end.                  *)
WatchRecords ==
  [unread : Seq(Lines), count : Nat, polls : 0 .. plan.hard,
   verdict : {"diverged", "failed", None}, streak : 0 .. DivergeMaxCycles]

Unwatched  == {"waiting", "deck", "starter", "launch"}
SolverPcs  == {"starter", "engine", "look", "kill"}
StreakNow(w) == UpTo(DivergeMaxCycles, Fed(w.count, w.unread))

Fits(p, o, w, c, k) ==
  /\ p \in Unwatched => w = NoWatch
  /\ p = "engine" => w.polls < plan.hard
  /\ p = "kill" => w.verdict # None
  /\ p \in {"engine", "look"} => w.streak = StreakNow(w)
  /\ k => c
  /\ c => p \in SolverPcs
  /\ p = "finished" <=> o # None

CaseInv(i) == Fits(pc[i], outcome[i], watch[i], client[i], container[i])
CasesInv   == \A i \in Cases : CaseInv(i)

(* The order in which cases are given to workers, by the kind of dispatch. *)
OrderInv ==
  \A i \in Cases : pc[i] # "waiting" =>
    /\ plan.conc = 1 => \A j \in 0 .. i - 1 : outcome[j] = "ok"
    /\ plan.conc > 1 /\ plan.slotted =>
         \A j \in 0 .. i - 1 : SameSlot(i, j) => outcome[j] \in Outcomes \ {"raised"}
    /\ plan.conc > 1 /\ ~plan.slotted => \A j \in 0 .. i - 1 : pc[j] # "waiting"

PoolInv ==
  /\ TypeOK
  /\ CasesInv
  /\ OrderInv
  /\ Cardinality(InFlight) <= plan.conc
  /\ main # "solving" => AllDone
  /\ SequentialContract

-----------------------------------------------------------------------------
(* What the variables hold.                                                *)

LEMMA PlanFacts ==
  ASSUME TypeOK
  PROVE  /\ plan.conc \in Nat \ {0} /\ plan.slotted \in BOOLEAN /\ plan.docker \in BOOLEAN
         /\ plan.soft \in Nat /\ plan.hard \in Nat \ {0} /\ DivergeMaxCycles \in Nat
  BY PoolAssumption DEF TypeOK, PlanType

LEMMA NoWatchType ==
  ASSUME TypeOK
  PROVE  NoWatch \in WatchRecords /\ NoWatch.polls < plan.hard
         /\ NoWatch.streak = StreakNow(NoWatch)
<1>1. <<>> \in Seq(Lines)
  OBVIOUS
<1>2. plan.hard \in Nat \ {0} /\ DivergeMaxCycles \in Nat
  BY PlanFacts
<1>3. Fed(0, <<>>) = 0
  BY FedNothing
<1>4. NoWatch \in WatchRecords
  BY <1>1, <1>2 DEF NoWatch, WatchRecords
<1>5. NoWatch.polls = 0 /\ NoWatch.streak = 0 /\ NoWatch.count = 0 /\ NoWatch.unread = <<>>
  BY DEF NoWatch
<1>6. StreakNow(NoWatch) = 0
  BY <1>2, <1>3, <1>5 DEF StreakNow, UpTo
<1> QED
  BY <1>2, <1>4, <1>5, <1>6

(* A step of case i: its program counter, outcome, watch, client and       *)
(* container become p, o, w, c and k.                                      *)
Moves(i, p, o, w, c, k) ==
  /\ pc' = [pc EXCEPT ![i] = p]
  /\ outcome' = [outcome EXCEPT ![i] = o]
  /\ watch' = [watch EXCEPT ![i] = w]
  /\ client' = [client EXCEPT ![i] = c]
  /\ container' = [container EXCEPT ![i] = k]
  /\ UNCHANGED <<plan, main, result>>

Others(i) ==
  \A j \in Cases \ {i} :
    /\ pc'[j] = pc[j] /\ outcome'[j] = outcome[j] /\ watch'[j] = watch[j]
    /\ client'[j] = client[j] /\ container'[j] = container[j]

LEMMA CaseMoves ==
  ASSUME TypeOK, NEW i \in Cases, NEW p \in CasePcs, NEW o \in Outcomes \cup {None},
         NEW w \in WatchRecords, NEW c \in BOOLEAN, NEW k \in BOOLEAN,
         Moves(i, p, o, w, c, k), Fits(p, o, w, c, k)
  PROVE  /\ TypeOK' /\ CaseInv(i)' /\ Others(i) /\ UNCHANGED <<plan, main, result>>
         /\ pc'[i] = p /\ outcome'[i] = o
<1>1. watch \in [Cases -> WatchRecords] /\ WatchRecords' = WatchRecords
  BY DEF TypeOK, WatchRecords, Moves
<1>2. /\ pc \in [Cases -> CasePcs] /\ outcome \in [Cases -> Outcomes \cup {None}]
      /\ client \in [Cases -> BOOLEAN] /\ container \in [Cases -> BOOLEAN]
  BY DEF TypeOK
<1> HIDE DEF WatchRecords, CasePcs, Outcomes, Cases
<1>3. watch' \in [Cases -> WatchRecords] /\ watch'[i] = w
  BY <1>1 DEF Moves
<1>4. /\ pc' \in [Cases -> CasePcs] /\ outcome' \in [Cases -> Outcomes \cup {None}]
      /\ client' \in [Cases -> BOOLEAN] /\ container' \in [Cases -> BOOLEAN]
      /\ pc'[i] = p /\ outcome'[i] = o /\ client'[i] = c /\ container'[i] = k
  BY <1>2 DEF Moves
<1>5. Others(i)
  BY <1>1, <1>2 DEF Moves, Others
<1>6. TypeOK'
  BY <1>1, <1>3, <1>4 DEF TypeOK, Moves, WatchRecords
<1>7. CaseInv(i)'
  BY <1>3, <1>4 DEF CaseInv, Fits, Moves
<1> QED
  BY <1>4, <1>5, <1>6, <1>7 DEF Moves

(* What a case's own locals are.                                           *)
LEMMA CaseTypes ==
  ASSUME TypeOK, NEW i \in Cases
  PROVE  /\ pc[i] \in CasePcs /\ outcome[i] \in Outcomes \cup {None}
         /\ client[i] \in BOOLEAN /\ container[i] \in BOOLEAN
         /\ watch[i] \in WatchRecords
         /\ pc = [pc EXCEPT ![i] = pc[i]] /\ outcome = [outcome EXCEPT ![i] = outcome[i]]
         /\ watch = [watch EXCEPT ![i] = watch[i]]
         /\ client = [client EXCEPT ![i] = client[i]]
         /\ container = [container EXCEPT ![i] = container[i]]
<1>1. watch \in [Cases -> WatchRecords]
  BY DEF TypeOK, WatchRecords
<1> HIDE DEF WatchRecords, CasePcs, Outcomes, Cases
<1> QED
  BY <1>1 DEF TypeOK

(* Every step of a worker and of an engine moves its case within the       *)
(* types, and keeps what the case's locals say of one another.             *)
CaseMovesTo(i) ==
  \E p \in CasePcs, o \in Outcomes \cup {None}, w \in WatchRecords,
     c \in BOOLEAN, k \in BOOLEAN :
    /\ Moves(i, p, o, w, c, k) /\ Fits(p, o, w, c, k)
    /\ pc[i] # "finished" /\ p # "waiting"
    /\ pc[i] = "waiting" => main = "solving" /\ CanStart(i) /\ o = outcome[i]

LEMMA Witnessed ==
  ASSUME NEW i \in Cases, NEW p \in CasePcs \ {"waiting"}, NEW o \in Outcomes \cup {None},
         NEW w \in WatchRecords, NEW c \in BOOLEAN, NEW k \in BOOLEAN,
         Moves(i, p, o, w, c, k), Fits(p, o, w, c, k), pc[i] # "finished",
         pc[i] = "waiting" => main = "solving" /\ CanStart(i) /\ o = outcome[i]
  PROVE  CaseMovesTo(i)
  BY DEF CaseMovesTo

(* The steps that leave the watch alone.                                   *)
LEMMA PlainSteps ==
  ASSUME TypeOK, NEW i \in Cases, CaseInv(i),
         \/ Take(i) \/ WriteDeck(i) \/ Reuse(i) \/ StarterEnds(i) \/ LaunchEngine(i)
         \/ EngineReaped(i) \/ EngineExits(i)
  PROVE  CaseMovesTo(i)
<1> USE DEF solver, GoTo, Up, Down
<1>0. /\ {"deck", "starter", "launch", "engine", "extract"} \subseteq CasePcs \ {"waiting"}
      /\ {"look", "kill"} \subseteq CasePcs \ {"waiting"}
  BY DEF CasePcs
<1>a. Fits(pc[i], outcome[i], watch[i], client[i], container[i])
  BY DEF CaseInv
<1>b. PICK docker \in BOOLEAN : docker = plan.docker
  BY PlanFacts
<1>c. /\ outcome[i] \in Outcomes \cup {None} /\ watch[i] \in WatchRecords
      /\ client[i] \in BOOLEAN /\ container[i] \in BOOLEAN
  BY CaseTypes
<1>1. CASE Take(i)
  <2>1. Moves(i, "deck", outcome[i], watch[i], client[i], container[i])
    BY <1>1, CaseTypes DEF Take, Moves
  <2>2. Fits("deck", outcome[i], watch[i], client[i], container[i])
    BY <1>a, <1>1 DEF Take, CanStart, Fits, Unwatched, SolverPcs
  <2>3. pc[i] = "waiting" /\ main = "solving" /\ CanStart(i)
    BY <1>1 DEF Take, CanStart
  <2>4. "deck" \in CasePcs \ {"waiting"} /\ pc[i] # "finished"
    BY <1>0, <2>3
  <2> QED
    BY <2>1, <2>2, <2>3, <2>4, <1>c, Witnessed
<1>2. CASE WriteDeck(i)
  <2>1. Moves(i, "starter", outcome[i], watch[i], TRUE, docker)
    BY <1>2, <1>b, CaseTypes DEF WriteDeck, Moves
  <2>2. Fits("starter", outcome[i], watch[i], TRUE, docker)
    BY <1>a, <1>2 DEF WriteDeck, Fits, Unwatched, SolverPcs
  <2> QED
    BY <1>0, <1>2, <2>1, <2>2, <1>c, Witnessed DEF WriteDeck
<1>3. CASE Reuse(i)
  <2>1. Moves(i, "extract", outcome[i], watch[i], client[i], container[i])
    BY <1>3, CaseTypes DEF Reuse, Moves
  <2>2. Fits("extract", outcome[i], watch[i], client[i], container[i])
    BY <1>a, <1>3 DEF Reuse, Fits, Unwatched, SolverPcs
  <2> QED
    BY <1>0, <1>3, <2>1, <2>2, <1>c, Witnessed DEF Reuse
<1>4. CASE StarterEnds(i)
  <2>1. Moves(i, "launch", outcome[i], watch[i], FALSE, FALSE)
    BY <1>4, CaseTypes DEF StarterEnds, Moves
  <2>2. Fits("launch", outcome[i], watch[i], FALSE, FALSE)
    BY <1>a, <1>4 DEF StarterEnds, Fits, Unwatched, SolverPcs
  <2> QED
    BY <1>0, <1>4, <2>1, <2>2, <1>c, Witnessed DEF StarterEnds
<1>5. CASE LaunchEngine(i)
  <2>1. Moves(i, "engine", outcome[i], watch[i], TRUE, docker)
    BY <1>5, <1>b, CaseTypes DEF LaunchEngine, Moves
  <2>2. watch[i] = NoWatch
    BY <1>a, <1>5 DEF LaunchEngine, Fits, Unwatched
  <2>3. Fits("engine", outcome[i], watch[i], TRUE, docker)
    BY <1>a, <1>5, <2>2, NoWatchType DEF LaunchEngine, Fits, Unwatched, SolverPcs
  <2> QED
    BY <1>0, <1>5, <2>1, <2>3, <1>c, Witnessed DEF LaunchEngine
<1>6. CASE EngineReaped(i)
  <2>1. Moves(i, "extract", outcome[i], watch[i], client[i], container[i])
    BY <1>6, CaseTypes DEF EngineReaped, Moves
  <2>2. Fits("extract", outcome[i], watch[i], client[i], container[i])
    BY <1>a, <1>6 DEF EngineReaped, Fits, Unwatched, SolverPcs
  <2> QED
    BY <1>0, <1>6, <2>1, <2>2, <1>c, Witnessed DEF EngineReaped
<1>7. CASE EngineExits(i)
  <2>1. Moves(i, pc[i], outcome[i], watch[i], FALSE, FALSE)
    BY <1>7, CaseTypes DEF EngineExits, Moves
  <2>2. Fits(pc[i], outcome[i], watch[i], FALSE, FALSE)
    BY <1>a, <1>7 DEF EngineExits, Fits, Unwatched, SolverPcs
  <2>3. pc[i] \in CasePcs \ {"waiting"}
    BY <1>0, <1>7 DEF EngineExits
  <2>4. pc[i] # "finished" /\ pc[i] # "waiting"
    BY <1>7 DEF EngineExits
  <2> QED
    BY <2>1, <2>2, <2>3, <2>4, <1>c, Witnessed
<1> QED
  BY <1>1, <1>2, <1>3, <1>4, <1>5, <1>6, <1>7

(* The steps that end a case: what it was watched with is dropped.         *)
LEMMA EndSteps ==
  ASSUME TypeOK, NEW i \in Cases, CaseInv(i),
         \/ BackendMissing(i) \/ StarterFails(i) \/ EngineFailed(i) \/ Kill(i)
         \/ Extract(i) \/ Raises(i)
  PROVE  CaseMovesTo(i)
<1> USE DEF solver, GoTo, Down, EndWith
<1>0. "finished" \in CasePcs \ {"waiting"}
  BY DEF CasePcs
<1>a. Fits(pc[i], outcome[i], watch[i], client[i], container[i])
  BY DEF CaseInv
<1>b. Outcomes = {"ok", "diverged", "failed", "raised"} /\ None \notin Outcomes
  BY PoolAssumption DEF Outcomes
<1>c. NoWatch \in WatchRecords /\ client[i] \in BOOLEAN /\ container[i] \in BOOLEAN
  BY NoWatchType, CaseTypes
<1>1. ASSUME NEW o \in Outcomes, Moves(i, "finished", o, NoWatch, client[i], container[i]),
             pc[i] \in {"deck", "engine", "launch", "extract"},
             pc[i] = "engine" => ~client[i]
      PROVE  CaseMovesTo(i)
  <2>1. ~client[i] /\ ~container[i]
    BY <1>a, <1>1 DEF Fits, SolverPcs
  <2>2. Fits("finished", o, NoWatch, client[i], container[i])
    BY <1>1, <1>b, <2>1 DEF Fits, Unwatched, SolverPcs
  <2> QED
    BY <1>0, <1>1, <1>c, <2>2, Witnessed
<1>2. ASSUME NEW o \in Outcomes, Moves(i, "finished", o, NoWatch, FALSE, FALSE),
             pc[i] \in {"starter", "kill"}
      PROVE  CaseMovesTo(i)
  <2>1. Fits("finished", o, NoWatch, FALSE, FALSE)
    BY <1>2, <1>b DEF Fits, Unwatched, SolverPcs
  <2> QED
    BY <1>0, <1>2, <1>c, <2>1, Witnessed
<1>3. CASE BackendMissing(i)
  <2>1. Moves(i, "finished", "failed", NoWatch, client[i], container[i])
    BY <1>3, CaseTypes DEF BackendMissing, Moves
  <2> QED
    BY <1>1, <1>3, <1>b, <2>1 DEF BackendMissing
<1>4. CASE EngineFailed(i)
  <2>1. Moves(i, "finished", "failed", NoWatch, client[i], container[i])
    BY <1>4, CaseTypes DEF EngineFailed, Moves
  <2> QED
    BY <1>1, <1>4, <1>b, <2>1 DEF EngineFailed
<1>5. CASE Extract(i)
  <2>1. Moves(i, "finished", "ok", NoWatch, client[i], container[i])
    BY <1>5, CaseTypes DEF Extract, Moves
  <2> QED
    BY <1>1, <1>5, <1>b, <2>1 DEF Extract
<1>6. CASE Raises(i)
  <2>1. Moves(i, "finished", "raised", NoWatch, client[i], container[i])
    BY <1>6, CaseTypes DEF Raises, Moves
  <2> QED
    BY <1>1, <1>6, <1>b, <2>1 DEF Raises
<1>7. CASE StarterFails(i)
  <2>1. Moves(i, "finished", "failed", NoWatch, FALSE, FALSE)
    BY <1>7, CaseTypes DEF StarterFails, Moves
  <2> QED
    BY <1>2, <1>7, <1>b, <2>1 DEF StarterFails
<1>8. CASE Kill(i)
  <2>1. Moves(i, "finished", watch[i].verdict, NoWatch, FALSE, FALSE)
    BY <1>8, CaseTypes DEF Kill, Moves
  <2>2. watch[i].verdict \in {"diverged", "failed"}
    BY <1>a, <1>8, CaseTypes DEF Kill, Fits, WatchRecords
  <2> QED
    BY <1>2, <1>8, <1>b, <2>1, <2>2 DEF Kill
<1> QED
  BY <1>3, <1>4, <1>5, <1>6, <1>7, <1>8

(* The steps that change the watch: the engine writes a line, the watchdog *)
(* wakes, looks at the clock, looks at the listing.                        *)
LEMMA LineWritten ==
  ASSUME TypeOK, NEW i \in Cases, NEW line \in Lines,
         watch[i].streak = StreakNow(watch[i])
  PROVE  \E w \in WatchRecords :
           /\ w = [watch[i] EXCEPT
                     !.unread = Append(watch[i].unread, line),
                     !.streak = IF line = "accept" THEN 0
                                ELSE UpTo(DivergeMaxCycles, watch[i].streak + 1)]
           /\ w.streak = StreakNow(w) /\ w.polls = watch[i].polls
<1>1. /\ watch[i] \in WatchRecords /\ watch[i].count \in Nat
      /\ watch[i].unread \in Seq(Lines) /\ watch[i].streak \in 0 .. DivergeMaxCycles
  BY CaseTypes DEF WatchRecords
<1>2. DivergeMaxCycles \in Nat
  BY PlanFacts
<1>3. PICK longer \in Seq(Lines) : longer = Append(watch[i].unread, line)
  <2>1. Append(watch[i].unread, line) \in Seq(Lines)
    BY <1>1
  <2> QED
    BY <2>1, Zenon
<1>4. PICK n \in 0 .. DivergeMaxCycles :
        n = IF line = "accept" THEN 0 ELSE UpTo(DivergeMaxCycles, watch[i].streak + 1)
  BY <1>1, <1>2 DEF UpTo
<1>5. n = UpTo(DivergeMaxCycles, Fed(watch[i].count, longer))
  <2>1. Fed(watch[i].count, watch[i].unread) \in Nat
    BY <1>1, FedType
  <2>2. CASE line = "accept"
    <3>1. Fed(watch[i].count, longer) = 0
      BY <1>1, <1>3, <2>2, FedAccept
    <3> QED
      BY <1>2, <1>4, <2>2, <3>1 DEF UpTo
  <2>3. CASE line = "diverge"
    <3>1. Fed(watch[i].count, longer) = Fed(watch[i].count, watch[i].unread) + 1
      BY <1>1, <1>3, <2>3, FedDiverge
    <3>2. n = UpTo(DivergeMaxCycles, watch[i].streak + 1)
      BY <1>4, <2>3
    <3> QED
      BY <1>2, <2>1, <3>1, <3>2 DEF UpTo, StreakNow
  <2> QED
    BY <2>2, <2>3 DEF Lines
<1>6. PICK w : w = [watch[i] EXCEPT !.unread = longer, !.streak = n]
  OBVIOUS
<1>7. /\ w \in WatchRecords /\ w.count = watch[i].count /\ w.polls = watch[i].polls
      /\ w.unread = longer /\ w.streak = n
  BY <1>1, <1>6 DEF WatchRecords
<1>8. w.streak = StreakNow(w)
  BY <1>5, <1>7 DEF StreakNow
<1>9. w = [watch[i] EXCEPT
             !.unread = Append(watch[i].unread, line),
             !.streak = IF line = "accept" THEN 0
                        ELSE UpTo(DivergeMaxCycles, watch[i].streak + 1)]
  BY <1>3, <1>4, <1>6, Zenon
<1> QED
  BY <1>7, <1>8, <1>9, Zenon

LEMMA WatchSteps ==
  ASSUME TypeOK, NEW i \in Cases, CaseInv(i),
         \/ \E line \in Lines : EngineWrites(i, line)
         \/ PollTimesOut(i) \/ LookAtClock(i) \/ LookAtListing(i)
  PROVE  CaseMovesTo(i)
<1> USE DEF solver, GoTo
<1>0. {"engine", "look", "kill"} \subseteq CasePcs \ {"waiting"}
  BY DEF CasePcs
<1>a. Fits(pc[i], outcome[i], watch[i], client[i], container[i])
  BY DEF CaseInv
<1>b. /\ watch[i] \in WatchRecords /\ watch[i].count \in Nat
      /\ watch[i].unread \in Seq(Lines) /\ watch[i].polls \in 0 .. plan.hard
      /\ watch[i].streak \in 0 .. DivergeMaxCycles
  BY CaseTypes DEF WatchRecords
<1>c. /\ outcome[i] \in Outcomes \cup {None}
      /\ client[i] \in BOOLEAN /\ container[i] \in BOOLEAN
  BY CaseTypes
<1>d. /\ plan.hard \in Nat \ {0} /\ plan.soft \in Nat
      /\ None \notin {"diverged", "failed"}
  BY PlanFacts, PoolAssumption
<1>1. ASSUME NEW line \in Lines, EngineWrites(i, line) PROVE CaseMovesTo(i)
  <2>1. pc[i] = "engine" /\ watch[i].streak = StreakNow(watch[i])
    BY <1>a, <1>1 DEF EngineWrites, Fits
  <2>2. PICK w \in WatchRecords :
          /\ w = [watch[i] EXCEPT
                    !.unread = Append(watch[i].unread, line),
                    !.streak = IF line = "accept" THEN 0
                               ELSE UpTo(DivergeMaxCycles, watch[i].streak + 1)]
          /\ w.streak = StreakNow(w) /\ w.polls = watch[i].polls
    BY <2>1, LineWritten
  <2>3. watch' = [watch EXCEPT ![i] = w]
    BY <1>1, <2>2 DEF EngineWrites
  <2>4. Moves(i, "engine", outcome[i], w, client[i], container[i])
    BY <1>1, <2>1, <2>3, CaseTypes DEF EngineWrites, Moves
  <2>5. Fits("engine", outcome[i], w, client[i], container[i])
    BY <1>a, <2>1, <2>2 DEF Fits, Unwatched
  <2> QED
    BY <1>0, <1>c, <2>1, <2>4, <2>5, Witnessed
<1>2. CASE PollTimesOut(i)
  <2>1. PICK w : w = [watch[i] EXCEPT !.polls = watch[i].polls + 1]
    OBVIOUS
  <2>2. pc[i] = "engine" /\ watch[i].polls < plan.hard
    BY <1>a, <1>2 DEF PollTimesOut, Fits
  <2>3. /\ w \in WatchRecords /\ w.count = watch[i].count
        /\ w.unread = watch[i].unread /\ w.streak = watch[i].streak
    BY <1>b, <1>d, <2>1, <2>2 DEF WatchRecords
  <2>4. Moves(i, "look", outcome[i], w, client[i], container[i])
    BY <1>2, <2>1, CaseTypes DEF PollTimesOut, Moves
  <2>5. Fits("look", outcome[i], w, client[i], container[i])
    BY <1>a, <2>2, <2>3 DEF Fits, Unwatched, SolverPcs, StreakNow
  <2> QED
    BY <1>0, <1>c, <2>2, <2>3, <2>4, <2>5, Witnessed
<1>3. ASSUME NEW v \in {"diverged", "failed"}, pc[i] = "look", Judge(i, v),
             UNCHANGED <<plan, main, result, outcome, solver>>
      PROVE  CaseMovesTo(i)
  <2>1. PICK w : w = [watch[i] EXCEPT !.verdict = v]
    OBVIOUS
  <2>2. w \in WatchRecords /\ w.verdict # None
    BY <1>b, <1>d, <2>1 DEF WatchRecords
  <2>3. Moves(i, "kill", outcome[i], w, client[i], container[i])
    BY <1>3, <2>1, CaseTypes DEF Judge, Moves
  <2>4. Fits("kill", outcome[i], w, client[i], container[i])
    BY <1>a, <1>3, <2>2 DEF Fits, Unwatched, SolverPcs
  <2> QED
    BY <1>0, <1>3, <1>c, <2>2, <2>3, <2>4, Witnessed
<1>4. CASE LookAtClock(i)
  <2>1. TimedOut(i) \in {"diverged", "failed"}
    BY <1>4 DEF LookAtClock, TimedOut
  <2> QED
    BY <1>3, <1>4, <2>1 DEF LookAtClock
<1>5. CASE LookAtListing(i)
  <2>1. PICK count : count = Fed(watch[i].count, watch[i].unread)
    OBVIOUS
  <2>2. count \in Nat
    BY <1>b, <2>1, FedType
  <2>3. CASE DivergeMaxCycles > 0 /\ count >= DivergeMaxCycles
    <3>1. Judge(i, "diverged")
      BY <1>5, <2>1, <2>3 DEF LookAtListing
    <3> QED
      BY <1>3, <1>5, <3>1 DEF LookAtListing
  <2>4. CASE ~(DivergeMaxCycles > 0 /\ count >= DivergeMaxCycles)
    <3>1. PICK w : w = [watch[i] EXCEPT !.unread = <<>>, !.count = count]
      OBVIOUS
    <3>2. <<>> \in Seq(Lines)
      OBVIOUS
    <3>3. /\ w \in WatchRecords /\ w.polls = watch[i].polls
          /\ w.streak = watch[i].streak /\ w.count = count /\ w.unread = <<>>
      BY <1>b, <2>2, <3>1, <3>2 DEF WatchRecords
    <3>4. StreakNow(w) = StreakNow(watch[i])
      BY <2>1, <2>2, <3>3, FedNothing DEF StreakNow
    <3>5. watch[i].polls < plan.hard
      BY <1>5, <1>b, <1>d DEF LookAtListing, TimedOut
    <3>6. watch' = [watch EXCEPT ![i] = w]
      BY <1>5, <2>1, <2>4, <3>1 DEF LookAtListing
    <3>7. Moves(i, "engine", outcome[i], w, client[i], container[i])
      BY <1>5, <2>1, <2>4, <3>6, CaseTypes DEF LookAtListing, Moves
    <3>8. Fits("engine", outcome[i], w, client[i], container[i])
      BY <1>a, <1>5, <3>3, <3>4, <3>5 DEF LookAtListing, Fits, Unwatched, SolverPcs
    <3>9. pc[i] = "look"
      BY <1>5 DEF LookAtListing
    <3> QED
      BY <1>0, <1>c, <3>3, <3>7, <3>8, <3>9, Witnessed
  <2> QED
    BY <2>3, <2>4
<1> QED
  BY <1>1, <1>2, <1>4, <1>5

-----------------------------------------------------------------------------
(* The cases together.                                                     *)

LEMMA StepMoves ==
  ASSUME TypeOK, NEW i \in Cases, CaseInv(i), WorkerStep(i) \/ EngineStep(i)
  PROVE  CaseMovesTo(i)
<1>1. CASE WorkerStep(i)
  BY <1>1, PlainSteps, EndSteps, WatchSteps DEF WorkerStep
<1>2. CASE EngineStep(i)
  BY <1>2, PlainSteps, WatchSteps DEF EngineStep
<1> QED
  BY <1>1, <1>2

LEMMA CasesAreNat ==
  /\ NCases \in Nat \ {0} /\ Cases \subseteq Nat
  /\ IsFiniteSet(Cases) /\ IsFiniteSet(InFlight) /\ InFlight \subseteq Cases
<1>1. NCases \in Nat \ {0}
  BY PoolAssumption
<1>2. IsFiniteSet(Cases) /\ Cases \subseteq Nat
  BY <1>1, FS_Interval DEF Cases
<1>3. InFlight \subseteq Cases
  BY DEF InFlight
<1> QED
  BY <1>1, <1>2, <1>3, FS_Subset

(* Cases on different slots are no more than there are slots.              *)
LEMMA SlotsSuffice ==
  ASSUME NEW conc \in Nat \ {0}, NEW S \in SUBSET Cases,
         \A i, j \in S : i # j => i % conc # j % conc
  PROVE  Cardinality(S) <= conc
<1> DEFINE slot == [i \in S |-> i % conc]
<1>1. \A i \in S : i \in Nat /\ i % conc \in 0 .. conc - 1
  BY CasesAreNat
<1>2. slot \in Injection(S, 0 .. conc - 1)
  BY <1>1 DEF Injection, IsInjective
<1>3. IsFiniteSet(0 .. conc - 1) /\ Cardinality(0 .. conc - 1) = conc
  BY FS_Interval
<1> HIDE DEF slot
<1> QED
  BY <1>2, <1>3, FS_Injection

(* Where a slot, or the only worker, takes its cases in turn, two cases in *)
(* flight are on different slots.                                          *)
SlotsDiffer ==
  plan.slotted \/ plan.conc = 1 =>
    \A i, j \in InFlight : i # j => ~SameSlot(i, j)

LEMMA TurnsAreTaken ==
  TypeOK /\ CasesInv /\ OrderInv => SlotsDiffer
<1> SUFFICES ASSUME TypeOK, CasesInv, OrderInv,
                    plan.slotted \/ plan.conc = 1,
                    NEW i \in InFlight, NEW j \in InFlight, i < j, SameSlot(j, i)
             PROVE  FALSE
  BY CasesAreNat DEF SlotsDiffer, SameSlot
<1>1. i \in Cases /\ j \in Cases /\ i \in 0 .. j - 1 /\ pc[j] # "waiting"
  BY CasesAreNat DEF InFlight
<1>2. outcome[i] = None
  BY <1>1 DEF InFlight, CasesInv, CaseInv, Fits
<1>3. None # "ok" /\ None \notin Outcomes
  BY PoolAssumption DEF Outcomes
<1>4. plan.conc \in Nat \ {0}
  BY PlanFacts
<1> QED
  BY <1>1, <1>2, <1>3, <1>4 DEF OrderInv

LEMMA InitPool == Init => PoolInv
<1> SUFFICES ASSUME Init PROVE PoolInv
  OBVIOUS
<1>1. TypeOK
  <2>1. plan.hard \in Nat \ {0} /\ DivergeMaxCycles \in Nat
    BY PoolAssumption DEF Init, PlanType
  <2>2. NoWatch \in WatchRecords
    <3>1. <<>> \in Seq(Lines)
      OBVIOUS
    <3> QED
      BY <2>1, <3>1 DEF NoWatch, WatchRecords
  <2> HIDE DEF NoWatch
  <2> QED
    BY <2>2 DEF Init, TypeOK, CasePcs, Outcomes, WatchRecords
<1>2. ASSUME NEW i \in Cases PROVE CaseInv(i)
  BY DEF Init, CaseInv, Fits, Unwatched, SolverPcs
<1>3. OrderInv /\ InFlight = {}
  BY DEF Init, OrderInv, InFlight
<1>4. Cardinality(InFlight) <= plan.conc
  BY <1>1, <1>3, FS_EmptySet, PlanFacts
<1> QED
  BY <1>1, <1>2, <1>3, <1>4 DEF PoolInv, CasesInv, Init, SequentialContract

(* A case's step keeps the invariant.                                      *)
LEMMA CaseStepPool ==
  ASSUME PoolInv, NEW i \in Cases, WorkerStep(i) \/ EngineStep(i)
  PROVE  PoolInv'
<1>1. TypeOK /\ (\A j \in Cases : CaseInv(j)) /\ OrderInv
  BY DEF PoolInv, CasesInv
<1>2. PICK p \in CasePcs, o \in Outcomes \cup {None}, w \in WatchRecords,
           c \in BOOLEAN, k \in BOOLEAN :
        /\ Moves(i, p, o, w, c, k) /\ Fits(p, o, w, c, k)
        /\ pc[i] # "finished" /\ p # "waiting"
        /\ pc[i] = "waiting" => main = "solving" /\ CanStart(i) /\ o = outcome[i]
  BY <1>1, StepMoves DEF CaseMovesTo
<1>3. /\ TypeOK' /\ CaseInv(i)' /\ Others(i) /\ UNCHANGED <<plan, main, result>>
      /\ pc'[i] = p /\ outcome'[i] = o
  BY <1>1, <1>2, CaseMoves
<1>4. ASSUME NEW j \in Cases PROVE CaseInv(j)'
  <2>1. CASE j = i
    BY <1>3, <2>1
  <2>2. CASE j # i
    BY <1>1, <1>3, <2>2 DEF CaseInv, Fits, Others
  <2> QED
    BY <2>1, <2>2
<1>5. outcome[i] = None /\ None # "ok" /\ None \notin Outcomes
  BY <1>1, <1>2, PoolAssumption DEF CaseInv, Fits, Outcomes
<1>6. plan.conc \in Nat \ {0} /\ plan' = plan
  BY <1>1, <1>3, PlanFacts
<1>7. OrderInv'
  <2> SUFFICES ASSUME NEW j \in Cases, pc'[j] # "waiting", NEW m \in 0 .. j - 1
               PROVE  /\ plan.conc = 1 => outcome'[m] = "ok"
                      /\ plan.conc > 1 /\ plan.slotted /\ SameSlot(j, m)
                           => outcome'[m] \in Outcomes \ {"raised"}
                      /\ plan.conc > 1 /\ ~plan.slotted => pc'[m] # "waiting"
    BY <1>6 DEF OrderInv, SameSlot
  <2>1. m \in Cases /\ m # j
    BY CasesAreNat DEF Cases
  <2>2. /\ plan.conc = 1 => outcome[m] = "ok"
        /\ plan.conc > 1 /\ plan.slotted /\ SameSlot(j, m)
             => outcome[m] \in Outcomes \ {"raised"}
        /\ plan.conc > 1 /\ ~plan.slotted => pc[m] # "waiting"
    <3>1. CASE pc[j] # "waiting"
      BY <1>1, <1>6, <3>1 DEF OrderInv
    <3>2. CASE pc[j] = "waiting"
      <4>1. j = i /\ CanStart(j)
        BY <1>2, <1>3, <3>2 DEF Others
      <4> QED
        BY <1>6, <4>1 DEF CanStart
    <3> QED
      BY <3>1, <3>2
  <2> QED
    BY <1>2, <1>3, <1>5, <2>1, <2>2 DEF Others
<1>8. SlotsDiffer'
  <2>1. (TypeOK /\ CasesInv /\ OrderInv => SlotsDiffer)'
    BY TurnsAreTaken, PTL
  <2> QED
    BY <1>3, <1>4, <1>7, <2>1 DEF CasesInv
<1>9. Cardinality(InFlight)' <= plan'.conc
  <2>1. (InFlight' \subseteq Cases) /\ IsFiniteSet(InFlight')
    BY CasesAreNat, FS_Subset DEF InFlight
  <2>2. CASE plan.slotted \/ plan.conc = 1
    <3>1. \A j, m \in InFlight' : j # m => j % plan.conc # m % plan.conc
      BY <1>6, <1>8, <2>2 DEF SlotsDiffer, SameSlot
    <3> QED
      BY <1>6, <2>1, <3>1, SlotsSuffice
  <2>3. CASE ~plan.slotted /\ plan.conc # 1
    <3>1. Cardinality(InFlight) <= plan.conc
      BY DEF PoolInv
    <3>2. CASE pc[i] = "waiting"
      <4>1. Cardinality(InFlight) < plan.conc
        BY <1>2, <1>6, <2>3, <3>2 DEF CanStart
      <4>2. InFlight' \subseteq InFlight \cup {i}
        BY <1>3 DEF InFlight, Others
      <4>3. /\ IsFiniteSet(InFlight \cup {i})
            /\ Cardinality(InFlight \cup {i}) = Cardinality(InFlight) + 1
        <5>1. IsFiniteSet(InFlight)
          BY CasesAreNat
        <5>2. i \notin InFlight
          BY <3>2 DEF InFlight
        <5> QED
          BY <5>1, <5>2, FS_AddElement
      <4>4. Cardinality(InFlight') <= Cardinality(InFlight \cup {i})
        BY <4>2, <4>3, FS_Subset
      <4>5. /\ Cardinality(InFlight) \in Nat /\ Cardinality(InFlight') \in Nat
            /\ Cardinality(InFlight \cup {i}) \in Nat
        BY <2>1, <4>3, CasesAreNat, FS_CardinalityType
      <4> QED
        BY <1>6, <4>1, <4>3, <4>4, <4>5
    <3>3. CASE pc[i] # "waiting"
      <4>1. InFlight' \subseteq InFlight
        BY <1>2, <1>3, <3>3 DEF InFlight, Others
      <4>2. Cardinality(InFlight') <= Cardinality(InFlight)
        BY <4>1, CasesAreNat, FS_Subset
      <4>3. Cardinality(InFlight) \in Nat /\ Cardinality(InFlight') \in Nat
        BY <2>1, CasesAreNat, FS_CardinalityType
      <4> QED
        BY <1>6, <3>1, <4>2, <4>3
    <3> QED
      BY <3>2, <3>3
  <2> QED
    BY <2>2, <2>3
<1>10. main' = "solving"
  <2>1. main = "solving" \/ InFlight = {}
    BY DEF PoolInv, AllDone
  <2>2. pc[i] = "waiting" \/ i \in InFlight
    BY <1>2 DEF InFlight
  <2> QED
    BY <1>2, <1>3, <2>1, <2>2
<1> QED
  BY <1>3, <1>4, <1>7, <1>9, <1>10 DEF PoolInv, CasesInv, SequentialContract

-----------------------------------------------------------------------------
(* The caller.                                                             *)

LEMMA FirstFailureIs ==
  /\ FirstFailure \in 0 .. NCases
  /\ FirstFailure < NCases => outcome[FirstFailure] # "ok"
  /\ \A j \in 0 .. FirstFailure - 1 : outcome[j] = "ok"
<1> DEFINE Ends == {n \in 0 .. NCases : n = NCases \/ outcome[n] # "ok"}
           First(n) == /\ n < NCases => outcome[n] # "ok"
                       /\ \A j \in 0 .. n - 1 : outcome[j] = "ok"
<1>1. NCases \in Nat \ {0}
  BY PoolAssumption
<1>2. NCases \in Ends /\ Ends \in SUBSET Nat
  BY <1>1
<1>3. PICK n \in Ends : \A m \in Ends : n <= m
  <2> HIDE DEF Ends
  <2> QED
    BY <1>2, LeastNatural
<1>4. n \in 0 .. NCases /\ (n = NCases \/ outcome[n] # "ok")
  BY <1>3
<1>5. ASSUME NEW j \in 0 .. n - 1 PROVE outcome[j] = "ok"
  <2>1. j \in 0 .. NCases /\ j # NCases /\ ~(n <= j)
    BY <1>1, <1>4
  <2> QED
    BY <1>3, <2>1
<1>6. First(n)
  BY <1>1, <1>4, <1>5
<1>7. FirstFailure = CHOOSE m \in 0 .. NCases : First(m)
  BY DEF FirstFailure
<1> HIDE DEF First
<1>8. FirstFailure \in 0 .. NCases /\ First(FirstFailure)
  BY <1>4, <1>6, <1>7
<1> QED
  BY <1>8 DEF First

(* A case left waiting when all is done has an unsuccessful one before it. *)
LEMMA DoneAfterOk ==
  ASSUME PoolInv, AllDone, NEW n \in Cases, \A j \in 0 .. n - 1 : outcome[j] = "ok"
  PROVE  outcome[n] \in Outcomes
<1> SUFFICES ASSUME outcome[n] = None PROVE FALSE
  BY CaseTypes DEF PoolInv
<1>1. /\ TypeOK /\ CasesInv
      /\ plan.conc \in Nat \ {0} /\ None # "ok"
  BY PlanFacts, PoolAssumption DEF PoolInv
<1>2. pc[n] = "waiting"
  BY <1>1 DEF AllDone, InFlight, CasesInv, CaseInv, Fits
<1>3. ASSUME NEW j \in 0 .. n - 1 PROVE pc[j] # "waiting"
  <2>1. j \in Cases
    BY CasesAreNat DEF Cases
  <2> QED
    BY <1>1, <2>1 DEF CasesInv, CaseInv, Fits
<1>4. Cardinality(InFlight) < plan.conc
  BY <1>1, FS_EmptySet DEF AllDone
<1>5. "ok" \in Outcomes \ {"raised"}
  BY DEF Outcomes
<1>6. CanStart(n)
  BY <1>1, <1>2, <1>3, <1>4, <1>5 DEF CanStart
<1> QED
  BY <1>6 DEF AllDone

LEMMA NextPool == PoolInv /\ [Next]_vars => PoolInv'
<1> SUFFICES ASSUME PoolInv, [Next]_vars PROVE PoolInv'
  OBVIOUS
<1>1. ASSUME NEW i \in Cases, WorkerStep(i) \/ EngineStep(i) PROVE PoolInv'
  BY <1>1, CaseStepPool
<1>2. ASSUME UNCHANGED <<plan, pc, outcome, solver, watch>>
      PROVE  /\ CasesInv' /\ OrderInv' /\ AllDone' = AllDone
             /\ (Cardinality(InFlight) <= plan.conc)'
  BY <1>2 DEF PoolInv, CasesInv, CaseInv, Fits, OrderInv, AllDone, CanStart, InFlight,
     SameSlot, solver
<1>3. CASE Return
  <2>1. PICK n : n = FirstFailure
    OBVIOUS
  <2>2. /\ n \in 0 .. NCases
        /\ n < NCases => outcome[n] # "ok"
        /\ \A j \in 0 .. n - 1 : outcome[j] = "ok"
    BY <2>1, FirstFailureIs
  <2>3. n # NCases => outcome[n] \in Outcomes
    <3> SUFFICES ASSUME n # NCases PROVE outcome[n] \in Outcomes
      OBVIOUS
    <3>1. n \in Cases
      BY <2>2, CasesAreNat DEF Cases
    <3> QED
      BY <1>3, <2>2, <3>1, DoneAfterOk DEF Return
  <2>4. PICK last \in Outcomes : last = IF n = NCases THEN "ok" ELSE outcome[n]
    BY <2>3 DEF Outcomes
  <2>5. result' = [solved |-> n, last |-> last] /\ main' = "returned"
    BY <1>3, <2>1, <2>4 DEF Return, CutOff
  <2>6. UNCHANGED <<plan, pc, outcome, solver, watch>> /\ AllDone
    BY <1>3 DEF Return
  <2>7. TypeOK'
    <3>1. result' \in [solved : 0 .. NCases, last : Outcomes]
      BY <2>2, <2>4, <2>5
    <3> QED
      BY <2>5, <2>6, <3>1 DEF PoolInv, TypeOK, solver
  <2>8. SequentialContract'
    BY <2>2, <2>4, <2>5, <2>6, CasesAreNat DEF SequentialContract
  <2> QED
    BY <1>2, <2>5, <2>6, <2>7, <2>8 DEF PoolInv
<1>4. CASE Raise
  <2>1. UNCHANGED <<plan, pc, outcome, solver, watch>> /\ AllDone /\ main' = "raised"
    BY <1>4 DEF Raise
  <2>2. TypeOK'
    BY <1>4 DEF Raise, PoolInv, TypeOK, solver
  <2> QED
    BY <1>2, <2>1, <2>2 DEF PoolInv, SequentialContract
<1>5. CASE UNCHANGED vars
  <2>1. TypeOK' /\ SequentialContract'
    BY <1>5 DEF PoolInv, TypeOK, SequentialContract, vars, solver
  <2> QED
    BY <1>2, <1>5, <2>1 DEF PoolInv, vars
<1> QED
  BY <1>1, <1>3, <1>4, <1>5 DEF Next

-----------------------------------------------------------------------------
(* The theorems.                                                           *)

(* The inductive invariant of the pool: types, each case's watch and       *)
(* solver, the order of dispatch, the load, and the caller's result.       *)
THEOREM PoolInvariant == Spec => []PoolInv
  BY InitPool, NextPool, PTL DEF Spec

(* Every variable of the pool keeps its type; a watchdog never waits past  *)
(* the hard timeout (_run_engine).                                         *)
THEOREM PoolTypes == Spec => []TypeOK
<1>1. PoolInv => TypeOK
  BY DEF PoolInv
<1> QED
  BY <1>1, PoolInvariant, PTL

(* Whatever order the cases finish in, what the caller returns is what a   *)
(* sequential loop that stops at its first failure would have returned     *)
(* (_sequential_contract).                                                 *)
THEOREM ResultIsSequential == Spec => []SequentialContract
<1>1. PoolInv => SequentialContract
  BY DEF PoolInv
<1> QED
  BY <1>1, PoolInvariant, PTL

(* Never more live solvers, containers included, than the concurrency, and *)
(* never two on one slot (_slot_plan, _kill_container).                    *)
THEOREM LoadAlwaysCapped == Spec => []LoadIsCapped
<1>1. PoolInv => LoadIsCapped
  <2> SUFFICES ASSUME PoolInv PROVE LoadIsCapped
    OBVIOUS
  <2>1. TypeOK /\ CasesInv /\ OrderInv
    BY DEF PoolInv
  <2>2. SlotsDiffer
    BY <2>1, TurnsAreTaken
  <2>3. ASSUME NEW i \in Cases, Alive(i) PROVE pc[i] \in SolverPcs /\ i \in InFlight
    BY <2>1, <2>3 DEF CasesInv, CaseInv, Fits, Alive, SolverPcs, InFlight
  <2>4. Cardinality({i \in Cases : Alive(i)}) <= plan.conc
    <3> DEFINE Running == {i \in Cases : Alive(i)}
    <3>1. Running \subseteq InFlight
      BY <2>3
    <3>2. Cardinality(InFlight) <= plan.conc /\ plan.conc \in Nat
      BY <2>1, PlanFacts DEF PoolInv
    <3> HIDE DEF Running
    <3>3. Cardinality(Running) <= Cardinality(InFlight)
      BY <3>1, CasesAreNat, FS_Subset
    <3>4. Cardinality(Running) \in Nat /\ Cardinality(InFlight) \in Nat
      BY <3>1, CasesAreNat, FS_Subset, FS_CardinalityType
    <3>5. Cardinality(Running) <= plan.conc
      BY <3>2, <3>3, <3>4
    <3> QED
      BY <3>5 DEF Running
  <2> QED
    BY <2>2, <2>3, <2>4 DEF LoadIsCapped, SlotsDiffer, SolverPcs
<1> QED
  BY <1>1, PoolInvariant, PTL

(* When the iteration goes on, or its exception reaches the loop, no       *)
(* solver and no container runs any more.                                  *)
THEOREM NothingEverOutlives == Spec => []NothingOutlives
<1>1. PoolInv => NothingOutlives
  BY DEF PoolInv, CasesInv, CaseInv, Fits, NothingOutlives, AllDone, InFlight, Alive, SolverPcs
<1> QED
  BY <1>1, PoolInvariant, PTL

(* The watchdog gives a solve up for what it wrote exactly when it is in   *)
(* an unbroken streak of diverge cycles, however the lines fell into       *)
(* chunks (DivergenceMonitor.feed).                                        *)
THEOREM WatchdogAlwaysExact == Spec => WatchdogIsExact
<1> DEFINE Exact == \A i \in Cases : pc[i] = "look" =>
       LET hopeless == watch[i].streak >= DivergeMaxCycles
       IN  /\ pc'[i] = "kill" /\ TimedOut(i) = None => hopeless
           /\ hopeless /\ DivergeMaxCycles > 0 => pc'[i] \in {"look", "kill"}
<1>1. PoolInv /\ [Next]_vars => [Exact]_vars
  <2> SUFFICES ASSUME PoolInv, Next, NEW i \in Cases, pc[i] = "look"
               PROVE  /\ pc'[i] = "kill" /\ TimedOut(i) = None
                           => watch[i].streak >= DivergeMaxCycles
                      /\ watch[i].streak >= DivergeMaxCycles /\ DivergeMaxCycles > 0
                           => pc'[i] \in {"look", "kill"}
    BY DEF PoolInv
  <2>1. TypeOK /\ CasesInv /\ CaseInv(i) /\ pc \in [Cases -> CasePcs]
    BY DEF PoolInv, CasesInv, TypeOK
  <2>2. /\ watch[i].streak = UpTo(DivergeMaxCycles, Fed(watch[i].count, watch[i].unread))
        /\ Fed(watch[i].count, watch[i].unread) \in Nat /\ DivergeMaxCycles \in Nat
    BY <2>1, CaseTypes, FedType, PlanFacts DEF CaseInv, Fits, StreakNow, WatchRecords
  <2>3. ASSUME NEW j \in Cases \ {i}, WorkerStep(j) \/ EngineStep(j)
        PROVE  pc'[i] = "look"
    <3>1. PICK p : pc' = [pc EXCEPT ![j] = p]
      BY <2>1, <2>3, StepMoves DEF CasesInv, CaseMovesTo, Moves
    <3> QED
      BY <2>1, <3>1
  <2>4. CASE LookAtClock(i)
    BY <2>1, <2>4 DEF LookAtClock, Judge, GoTo
  <2>5. CASE LookAtListing(i)
    BY <2>1, <2>2, <2>5 DEF LookAtListing, Judge, GoTo, UpTo
  <2>6. CASE EngineExits(i)
    BY <2>6 DEF EngineExits
  <2>7. CASE Return \/ Raise
    BY <2>7 DEF Return, Raise
  <2>8. WorkerStep(i) => LookAtClock(i) \/ LookAtListing(i)
    BY DEF WorkerStep, Take, CanStart, WriteDeck, Reuse, BackendMissing, StarterEnds,
       StarterFails, LaunchEngine, EngineReaped, EngineFailed, PollTimesOut, Kill,
       Extract, Raises
  <2>9. EngineStep(i) => EngineExits(i)
    BY DEF EngineStep, EngineWrites
  <2> QED
    BY <2>3, <2>4, <2>5, <2>6, <2>7, <2>8, <2>9 DEF Next
<1>2. WatchdogIsExact <=> [][Exact]_vars
  BY DEF WatchdogIsExact
<1> HIDE DEF Exact
<1> QED
  BY <1>1, <1>2, PoolInvariant, PTL DEF Spec
=============================================================================
