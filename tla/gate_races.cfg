SPECIFICATION Spec
CONSTANTS
  Requests = {r1, r2}
  Contacts = {email, phone}
  Guests = {g}
  Genders = {male, female}
  Nothing = Nothing
  Limit <- Limits
  Window <- Windows
  GuestTtl = 2
  MaxHits = 3
SYMMETRY Interchangeable
INVARIANTS
  TypeOK
  LockedOutOnlyByCrash
  FewerThanTwiceTheLimit
  AccountsAreRight
