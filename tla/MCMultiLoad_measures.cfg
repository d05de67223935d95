SPECIFICATION Spec
CONSTANTS
  Elements <- Two
  NodesOf <- Joined
  Vol <- Threes
  FilterRows <- Blur
  Plans <- SomePlans
  Solves <- SomeSolves
  NextVolumes <- ThreeOrFour
  MaxIterations = 3
  None = None
  NaN = NaN
INVARIANTS TypeOK CarriedIsEarned
