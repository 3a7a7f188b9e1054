CONSTANTS
  Calls = {c1, c2}
  NoCall = NoCall
  WaitAttempts = 2
  CheckEvery = 2
  SIGNATURE_LIMIT = 2
  MaxTime = 2
  MaxHistory = 3
  MaxFaults = 2
SPECIFICATION FairSpec
INVARIANTS
  SnapshotIsBacked
PROPERTIES
  PackPromised
  LandedPackIsAnswered
CHECK_DEADLOCK FALSE
