SPECIFICATION FairSpec
CONSTANTS
  Payments = {x1}
  Paid <- FourUnits
  LateAmounts = {1, 2}
  MaxUnits = 6
  Fee <- Half
  MinSweep = 1
  Modes = {"twoHop", "direct", "intermediate"}
  Workers = {w1, w2}
  MaxAttempts = 2
  MaxStalls = 1
  Faults = {"crash", "unrecorded", "stall", "decline", "defer", "credit"}
  MaxFaults = 2
  None = None
  x1 = x1
  w1 = w1
  w2 = w2
INVARIANTS
  SweptBacked
  PaidItsNet
  TwoHopWithinBalance

  
CHECK_DEADLOCK FALSE
