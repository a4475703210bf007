SPECIFICATION Spec
CONSTANTS
  ann = ann
  bob = bob
  eve = eve
  fay = fay
  g = g
  Users <- StarUsers
  InitialUsers <- StarUsers
  Taps <- StarTaps
  Guests = {}
  Requests = {r1, r2}
  GuestLikeLimit = 1
  UserDailyLikeLimit = 1
  MaxActiveChats = 1
  NoOne = NoOne
SYMMETRY AnyFan
INVARIANTS
  LimitsOverrunBounded
