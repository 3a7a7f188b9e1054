CONSTANTS
  Requests = {r1}
  Values = {0, 1}
  MockValue <- MCMockValue
  ExpiresAt = 0
  MaxSourceAge = 1
  MaxTime = 1
  MaxFaults = 3
SPECIFICATION FairSpec
PROPERTIES
  OpeningCompletes
CHECK_DEADLOCK FALSE
