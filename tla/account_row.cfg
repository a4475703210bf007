SPECIFICATION Spec
CONSTANTS
  r1 = r1
  r2 = r2
  k1 = k1
  k2 = k2
  Requests = {r1, r2}
  Secrets = {k1, k2}
  Texts = {blank, words}
  Amounts = {1}
  MaxBalance = 1
  MaxPaid = 2
  Debug = TRUE
  Demo = TRUE
  DemoText = words
  Blank = blank
  Nothing = Nothing
SYMMETRY AnyRequest
INVARIANTS
  TypeOK
  MoneyIsKept
  SecondFactorWorks
  DeletedIsOut
PROPERTIES
  DeletionIsFinal
