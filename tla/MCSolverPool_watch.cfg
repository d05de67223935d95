SPECIFICATION FairSpec
CONSTANTS
  NCases = 3
  Plans <- AllPlans
  DivergeMaxCycles = 2
  MaxUnread = 2
  None = None
  Faults <- AllFaults
INVARIANTS TypeOK SequentialContract LoadIsCapped NothingOutlives
PROPERTIES WatchdogIsExact SolvesEnd
CHECK_DEADLOCK FALSE
