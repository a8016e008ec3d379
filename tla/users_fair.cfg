CONSTANTS
  r1 = r1
  r2 = r2
  r3 = r3
  alice = alice
  bob = bob
  Requests = {r1, r2}
  Users = {alice}
  UserOf <- OneUser
  Names <- MCNames
  Roles <- MCRoles
  Passwords <- MCPasswords
  InitialRow <- MCInitialRow
  Inputs <- OneOfEach
  MaxInFlight = 2
  MaxCrashes = 1
  MayFail = {"db", "cache", "mail", "audit"}
SPECIFICATION FairSpec
PROPERTIES RequestsSettle CacheBecomesFresh DispatchedIsAudited
CHECK_DEADLOCK FALSE
