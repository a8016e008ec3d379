CONSTANTS
  r1 = r1
  r2 = r2
  r3 = r3
  home = home
  work = work
  e1 = e1
  e2 = e2
  Requests = {r1, r2, r3}
  Kinds <- AllKinds
  Emails = {e1, e2}
  EmailOf <- EmailOfRequest
  Places = {home, work}
  Lists <- NoneOrBoth
  MayFail = TRUE
SPECIFICATION FairSpec
INVARIANTS TypeOK AddressesAreWhole StandingAddressesGo EmailCreatedOnce CreationIsComplete
PROPERTIES ReplacedByItsUser DetailsSettle
CHECK_DEADLOCK FALSE
