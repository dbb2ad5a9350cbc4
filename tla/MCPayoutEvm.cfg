SPECIFICATION Spec
CONSTANTS
  Payouts = {p1, p2, p3}
  Payments = {x1}
  Received <- OneUnit
  ManualAmounts = {1}
  Executors = {e1, e2}
  Requesters = {r1}
  Slots = {0, 1, 2}
  Kind = "evm"
  MaxAttempts = 2
  MaxStalls = 1
  Faults = {"crash", "stall", "timeout", "prepare", "persist", "unsent", "lostAck", "book", "sentWrite", "lapse", "enqueue", "request", "lateCrash"}
  MaxFaults = 2
  None = None
  p1 = p1
  p2 = p2
  p3 = p3
  p4 = p4
  x1 = x1
  x2 = x2
  e1 = e1
  e2 = e2
  r1 = r1
  r2 = r2
SYMMETRY Symmetry
INVARIANTS
  PaidAtMostOnce
  OnePayoutPerPayment
  FailedNeverOnWire
  SettledIsHeld
PROPERTIES
  KeepsPromise
CHECK_DEADLOCK FALSE
