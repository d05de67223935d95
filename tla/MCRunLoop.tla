------------------------------ MODULE MCRunLoop ------------------------------
(* RunLoop on small instances.  Three processes are a run, its crash in a  *)
(* used folder, and a resume; one volume level is the full design (2), one *)
(* is below it; the target is the full design, so that two iterations can  *)
(* converge (as in tests/test_converged_checkpoint.py).                    *)
EXTENDS RunLoop

CrashFaults == {"crash"}
AllFaults   == {"crash", "error", "interrupt"}
=============================================================================
