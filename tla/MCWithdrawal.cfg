SPECIFICATION FairSpec
CONSTANTS
  x1 = x1
  x2 = x2
  Payments = {x1, x2}
  Gross <- GrossThree
  Net <- NetTwo
  Direct = {x2}
  Withdrawals = {w1, w2}
  Amounts = {2}
  Workers = {e1, e2}
  Operators = {o1, o2}
  Slots = {1, 2, 3}
  Chains = {TRUE, FALSE}
  MaxAttempts = 2
  Faults = {"crash", "prepare", "persist", "unsent", "lostAck", "book", "sentWrite", "enqueue", "request"}
  MaxFaults = 2
  None = None
INVARIANTS
  SentAtMostOnce
  WithinCollected
PROPERTIES
  ProcessingEnds
CHECK_DEADLOCK FALSE
