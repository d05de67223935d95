SPECIFICATION Spec
CONSTANTS
  Elements <- Four
  NodesOf <- Strip
  Vol <- StripVolumes
  Mirror <- StripMirror
  Columns = {}
  Prisms = {}
  Height <- StripMirror
  Cone <- NothingBelow
  Plans <- StripPlans
  Fields <- StripFields
  Utilisations <- LowAndHigh
  None = None
  MaxIterations = 4
INVARIANTS TypeOK ConservatismIsEarned
PROPERTIES BudgetIsMet
