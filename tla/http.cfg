CONSTANTS
  alice = alice
  bob = bob
  AnyTarget = AnyTarget
  Malformed = Malformed
  NoRow = NoRow
  NoToken = NoToken
  ResetToken = ResetToken
  Users = {alice, bob}
  RolesInUse <- MCRoles
  JwtLife = 1
  SessionLife = 2
  MaxTokens = 2
SYMMETRY Symmetry
SPECIFICATION Spec
INVARIANTS TypeOK StaleRolesAreRenewed ProfilesAreTheirOwners AnswersAsDescribed
PROPERTIES OnlyThePrivilegedAppoint
CHECK_DEADLOCK FALSE
