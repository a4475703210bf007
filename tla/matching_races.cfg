SPECIFICATION FairSpec
CONSTANTS
  ann = ann
  bob = bob
  eve = eve
  fay = fay
  g = g
  Users <- RaceUsers
  InitialUsers <- RaceInitial
  Taps <- RaceTaps
  Guests = {g}
  Requests = {r1, r2}
  GuestLikeLimit = 1
  UserDailyLikeLimit = 1
  MaxActiveChats = 1
  NoOne = NoOne
INVARIANTS
  TypeOK
  TablesSound
  ListsAgree
  CounterCoversLikes
  OnlyCrossedLikesMiss
  NoRivalWriters
  ClaimsNeverMatch
PROPERTIES
  LikesAreKept
  RefinesLedger
  EveryRequestEnds
