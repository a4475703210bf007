SPECIFICATION Spec
CONSTANTS
  p = p
  q = q
  one = one
  two = two
  Ids = {s1, s2, s3}
  Tabs = {p, q}
  Calls = {one, two}
  TabOf <- TwoPages
  TwoFactor = TRUE
  NoId = NoId
SYMMETRY AnyRowOrPage
INVARIANTS
  TypeOK
  TrustIsEarned
  OneSessionPerLogin
  LogoutEndsLogin
PROPERTIES
  OnlyRivalsWipe
