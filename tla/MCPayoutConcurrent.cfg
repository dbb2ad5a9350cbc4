SPECIFICATION Spec
CONSTANTS
  Payouts = {p1, p2, p3}
  Payments = {x1, x2}
  Received <- OneUnit
  ManualAmounts = {1}
  Executors = {e1, e2}
  Requesters = {r1, r2}
  Slots = {0, 1, 2}
  Kind = "evm"
  MaxAttempts = 2
  MaxStalls = 1
  Faults = {"stall", "lostAck", "sentWrite", "book", "enqueue", "request"}
  MaxFaults = 1
  None = None
  p1 = p1
  p2 = p2
  p3 = p3
  p4 = p4
  x1 = x1
  x2 = x2
  e1 = e1
  e2 = e2
  r1 = r1
  r2 = r2
SYMMETRY Symmetry
INVARIANTS
  NoOverdraw
  SentIsOnWire
CHECK_DEADLOCK FALSE
