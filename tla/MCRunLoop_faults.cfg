SPECIFICATION FairSpec
CONSTANTS
  MaxLaunches = 3
  MaxIters = 2
  Volumes = {1, 2}
  Target = 2
  Window = 2
  DivergeFailAfter = 2
  Archiving = {TRUE}
  None = None
  Faults <- AllFaults
CHECK_DEADLOCK FALSE
INVARIANTS TypeOK ResumesAgree HistoryHasNoGaps FreshHistoryIsOwn CheckpointIsCovered
PROPERTIES StopIsHeeded EndsOnRecord EveryRunEnds
