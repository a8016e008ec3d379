CONSTANTS
  r1 = r1
  r2 = r2
  r3 = r3
  alice = alice
  bob = bob
  Requests = {r1, r2, r3}
  Users = {alice, bob}
  UserOf <- TwoUsers
  Names <- MCNames
  Roles <- MCRoles
  Passwords <- MCPasswords
  InitialRow <- MCInitialRow
  Inputs <- EditAndRead
  MaxInFlight = 3
  MaxCrashes = 1
  MayFail = {"db", "cache"}
SPECIFICATION Spec
INVARIANTS TypeOK MarkedIsUnfinished CacheHoldsCommittedRow
PROPERTY UsesBusProperly
CHECK_DEADLOCK FALSE
