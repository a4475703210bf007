SPECIFICATION Spec
CONSTANTS
  p = p
  q = q
  one = one
  two = two
  Ids = {s1, s2, s3}
  Tabs = {p}
  Calls = {one, two}
  TabOf <- OnePage
  TwoFactor = FALSE
  NoId = NoId
PROPERTIES
  LoginIsKept
