CONSTANTS
  a1 = a1
  a2 = a2
  b1 = b1
  alice = alice
  bob = bob
  Aggregates = {a1, a2, b1}
  Ids = {alice, bob}
  IdOf <- MCIdOf
  Events = {e1, e2, e3, e4}
SPECIFICATION Spec
INVARIANTS MarkedHasEvents AtMostOnce
PROPERTIES OrphanedOnlyBehindItsTwin DeliversInOrder
