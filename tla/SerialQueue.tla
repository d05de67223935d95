---------------------------- MODULE SerialQueue ----------------------------
(***************************************************************************)
(* What the run queue promises its user: jobs are submitted, each is run   *)
(* at most once, no two at the same time, and a job that has not begun can *)
(* be withdrawn.  The order, the files and the processes are left to       *)
(* RunQueue, which implements this specification.                          *)
(***************************************************************************)
CONSTANT Jobs
VARIABLE job   \* absent, waiting, busy or over

Init == job = [j \in Jobs |-> "absent"]

Submit(j) ==
  /\ job[j] = "absent"
  /\ job' = [job EXCEPT ![j] = "waiting"]

Begin(j) ==
  /\ job[j] = "waiting"
  /\ \A k \in Jobs : job[k] # "busy"
  /\ job' = [job EXCEPT ![j] = "busy"]

End(j) ==
  /\ job[j] = "busy"
  /\ job' = [job EXCEPT ![j] = "over"]

(* Removed from the queue, cleared, or skipped for want of its config.     *)
Withdraw(gone) ==
  /\ \A j \in gone : job[j] = "waiting"
  /\ job' = [j \in Jobs |-> IF j \in gone THEN "over" ELSE job[j]]

Next ==
  \/ \E j \in Jobs : Submit(j) \/ Begin(j) \/ End(j)
  \/ \E gone \in SUBSET Jobs : Withdraw(gone)

Spec == Init /\ [][Next]_job
=============================================================================
