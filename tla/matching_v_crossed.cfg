SPECIFICATION Spec
CONSTANTS
  ann = ann
  bob = bob
  eve = eve
  fay = fay
  g = g
  Users <- DuelUsers
  InitialUsers <- DuelUsers
  Taps <- DuelTaps
  Guests = {}
  Requests = {r1, r2}
  GuestLikeLimit = 5
  UserDailyLikeLimit = 30
  MaxActiveChats = 5
  NoOne = NoOne
INVARIANTS
  MutualLikesMatch
