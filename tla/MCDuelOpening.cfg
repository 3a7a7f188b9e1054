CONSTANTS
  Requests = {r1, r2}
  Values = {0, 1}
  MockValue <- MCMockValue
  ExpiresAt = 0
  MaxSourceAge = 1
  MaxTime = 1
  MaxFaults = 1
SPECIFICATION Spec
SYMMETRY Symmetry
INVARIANT ResultIsTheRecordedOne
CHECK_DEADLOCK FALSE
