SPECIFICATION FairSpec
CONSTANTS
  a = a
  b = b
  c = c
  Uploads = {a, b, c}
  Good = {a, b}
  MaxRuns = 2
  Faults <- AllFaults
  NoVideo = NoVideo
CHECK_DEADLOCK FALSE
INVARIANTS
  TypeOK
  StuckOnlyByFault
  OneAtATime
  LatestDecides
PROPERTIES
  JustVerdict
  EveryVideoIsJudged
