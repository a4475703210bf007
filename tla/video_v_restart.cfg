SPECIFICATION FairSpec
CONSTANTS
  a = a
  b = b
  c = c
  Uploads = {a}
  Good = {a}
  MaxRuns = 5
  Faults = {"worker"}
  NoVideo = NoVideo
CHECK_DEADLOCK FALSE
PROPERTIES
  GoodVideosPass
