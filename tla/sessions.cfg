CONSTANTS
  q1 = q1
  q2 = q2
  q3 = q3
  q4 = q4
  j1 = j1
  j2 = j2
  j3 = j3
  alice = alice
  bob = bob
  NoJti = NoJti
  Users = {alice, bob}
  Jtis = {j1, j2, j3}
  Requests = {q1, q2, q3, q4}
  Kinds <- AllKinds
  JwtLife = 1
  SessionLife = 2
  MaxTime = 2
  CacheMayFail = TRUE
SYMMETRY Symmetry
SPECIFICATION Spec
INVARIANT TypeOK
PROPERTIES EndedByItsOwner ChangeEndsStandingSessions EndedForGood
CHECK_DEADLOCK FALSE
