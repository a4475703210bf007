SPECIFICATION Spec
CONSTANTS
  DaysPerYear = 3
  Nothing = Nothing
  People = {1, 2, 3, 4}
  Viewer <- Guest
  FirstRows <- Casts
  Restless = {3}
  Today <- MidYear
  PageSize = 2
  Calls = {c1, c2}
  MaxIndex = 2
SYMMETRY AnyCall
INVARIANTS
  TypeOK
  NobodyPassedOver
  ReelsAreNew
PROPERTIES
  ServedCardsFit
