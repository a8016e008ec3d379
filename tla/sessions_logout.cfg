CONSTANTS
  q1 = q1
  q2 = q2
  q3 = q3
  q4 = q4
  j1 = j1
  j2 = j2
  j3 = j3
  alice = alice
  bob = bob
  NoJti = NoJti
  Users = {alice}
  Jtis = {j1, j2}
  Requests = {q1, q2, q3}
  Kinds <- LogoutKinds
  JwtLife = 1
  SessionLife = 2
  MaxTime = 0
  CacheMayFail = FALSE
SYMMETRY Symmetry
SPECIFICATION Spec
INVARIANT LogoutEndsRefreshToken
CHECK_DEADLOCK FALSE
