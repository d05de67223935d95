----------------------------- MODULE MCRunQueue -----------------------------
(* RunQueue on small instances.  Two entries of one config are enough for  *)
(* a shared folder and an order; two runners for a restart, a double Start *)
(* or a takeover; as many runs as entries and manual resumes.              *)
EXTENDS RunQueue, TLC

CrashFaults  == {"runner death", "resume", "force kill"}
ConfigLoss   == {"config loss"}
KillFaults   == {"force kill"}
RunnerDeath  == {"runner death"}

(* Entries and processes are interchangeable; used for safety runs only.   *)
Interchangeable ==
  Permutations(Ids) \cup Permutations(Runners) \cup Permutations(Runs)
=============================================================================
