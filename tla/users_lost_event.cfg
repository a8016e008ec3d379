CONSTANTS
  r1 = r1
  r2 = r2
  r3 = r3
  alice = alice
  bob = bob
  Requests = {r1, r2}
  Users = {alice}
  UserOf <- OneUser
  Names <- MCNames
  Roles <- MCRoles
  Passwords <- MCPasswords
  InitialRow <- MCInitialRow
  Inputs <- TwoEdits
  MaxInFlight = 2
  MaxCrashes = 0
  MayFail = {}
SPECIFICATION Spec
INVARIANT SavedEditIsDispatched
CHECK_DEADLOCK FALSE
