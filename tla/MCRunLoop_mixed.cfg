SPECIFICATION Spec
CONSTANTS
  MaxLaunches = 3
  MaxIters = 2
  Volumes = {1, 2}
  Target = 2
  Window = 2
  DivergeFailAfter = 1
  Archiving = {TRUE}
  None = None
  Faults <- CrashFaults
CHECK_DEADLOCK FALSE
INVARIANT HistoryIsOneRun
