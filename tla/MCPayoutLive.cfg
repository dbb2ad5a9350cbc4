SPECIFICATION FairSpec
CONSTANTS
  Payouts = {p1, p2, p3, p4}
  Payments = {x1}
  Received <- OneUnit
  ManualAmounts = {}
  Executors = {e1, e2}
  Requesters = {r1}
  Slots = {0, 1, 2, 3}
  Kind = "tron"
  MaxAttempts = 2
  MaxStalls = 3
  Faults = {"lateCrash", "persist", "lostAck", "unsent", "request", "lapse"}
  MaxFaults = 3
  None = None
  p1 = p1
  p2 = p2
  p3 = p3
  p4 = p4
  x1 = x1
  x2 = x2
  e1 = e1
  e2 = e2
  r1 = r1
  r2 = r2
PROPERTIES
  StampedResolves
  SweptIsSettled
CHECK_DEADLOCK FALSE
