CONSTANTS
  alice = alice
  bob = bob
  e1 = e1
  e2 = e2
  e3 = e3
  auditor = auditor
  reader = reader
  Anyone = Anyone
  NoEntry = NoEntry
  NoPage = NoPage
  Users = {alice, bob}
  Entries = {e1, e2, e3}
  Walks = {auditor}
  Listers = {reader}
  Limit = 1
  PageNumbers = {1}
  PerPage = 1
  MaxTime = 1
  ServicesMayFail = TRUE
SYMMETRY Symmetry
SPECIFICATION Spec
INVARIANTS TypeOK ListsWhatMatches WalksAreExactButForTies ListedAsItIs
CHECK_DEADLOCK FALSE
