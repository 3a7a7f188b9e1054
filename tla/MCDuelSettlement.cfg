CONSTANTS
  Cards <- OneCard
  Payments <- None
  Procs = {p1, p2}
  MaxAttempts = 2
  MaxGens = 1
  MaxFaults = 1
  Starts = {"resolved", "refunding", "rejected"}
SYMMETRY Symmetry
SPECIFICATION Spec
INVARIANTS
  SettledIsBacked
  OneRefundInFlight
  ReceiptIsBacked
PROPERTIES
  PaidOneWay
CHECK_DEADLOCK FALSE
