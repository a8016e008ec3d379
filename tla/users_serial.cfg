CONSTANTS
  r1 = r1
  r2 = r2
  r3 = r3
  alice = alice
  bob = bob
  Requests = {r1, r2, r3}
  Users = {alice, bob}
  UserOf <- TwoUsers
  Names <- MCNames
  Roles <- MCRoles
  Passwords <- MCPasswords
  InitialRow <- MCInitialRow
  Inputs <- AllInputs
  MaxInFlight = 1
  MaxCrashes = 0
  MayFail = {"mail"}
SPECIFICATION Spec
INVARIANT TrailTellsRows
PROPERTY ActsAsAccountService
CHECK_DEADLOCK FALSE
