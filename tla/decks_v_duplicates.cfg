SPECIFICATION Spec
CONSTANTS
  DaysPerYear = 3
  Nothing = Nothing
  People = {1, 2, 3, 4}
  Viewer <- Guest
  FirstRows <- OneCast
  Restless = {}
  Today <- MidYear
  PageSize = 2
  Calls = {c1}
  MaxIndex = 2
INVARIANTS
  ReelsDoNotRepeatCards
