CONSTANTS
  Cards <- None
  Payments <- TwoPayments
  Procs = {p1}
  MaxAttempts = 2
  MaxGens = 2
  MaxFaults = 1
  Starts = {"refunding", "rejected"}
SPECIFICATION FairSpec
PROPERTIES
  PaidOneWay
  RefundCompletes
CHECK_DEADLOCK FALSE
