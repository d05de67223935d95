SPECIFICATION FairSpec
CONSTANTS
  Ids = {e1, e2}
  Bases = {b}
  MaxVariants = 2
  Runners = {r1, r2}
  Runs = {p1, p2}
  Sessions = {s1}
  None = None
  Faults <- ConfigLoss
CHECK_DEADLOCK FALSE
INVARIANTS FailureIsShown RunningIsTracked
PROPERTIES SerialSpec RunnerDrains RunningEnds
