SPECIFICATION Spec
CONSTANTS
  Elements <- Six
  NodesOf <- Corners
  Vol <- UnitVolumes
  Mirror <- OtherColumn
  Columns <- DrawColumns
  Prisms <- AcrossPrisms
  Height <- TallHeight
  Cone <- BelowIn
  FacesOf <- Edges
  Plans <- AllPlans
  Fields <- SomeFields
  Utilisations <- LowAndHigh
  NoField = NoField
INVARIANTS TypeOK ProtectedStay HeldVoidStaysVoid NoFloatingIslands AuditsAccept
PROPERTIES ShrinksWhileFeasible
