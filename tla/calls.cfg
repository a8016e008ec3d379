CONSTANTS
  r1 = r1
  r2 = r2
  r3 = r3
  NoRequest = NoRequest
  Requests = {r1, r2, r3}
  Mixes <- MCMixes
  Retries = 2
  Threshold = 1
SPECIFICATION FairSpec
INVARIANTS TypeOK AvatarsAreStored WaitersHaveATest
PROPERTY CallsSettle
CHECK_DEADLOCK FALSE
