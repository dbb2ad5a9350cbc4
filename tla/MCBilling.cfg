SPECIFICATION FairSpec
CONSTANTS
  s1 = s1
  s2 = s2
  Payments = {1, 2, 3}
  MaxInvoices = 8
  Visitors = {v1, v2}
  Merchants = {m1, m2}
  Caps = {1, 2}
  Enough = {"whole"}
  NoCap = 0
  None = None
  Subs = {s1, s2}
  Workers = {w1, w2}
  Dates <- Regular
  Nominal = 1
  MaxBehind = 1
  BatchLimit = 1
  Horizon = 3
  Stories <- AllStories
INVARIANTS
  HeldWithinCap
  CyclesAreWhole
  NumbersAreWhole
PROPERTIES
  VoidClosesCheckouts
  SettledIsPaid
  StoppedIsNotBilled
  DueIsDealtWith
CHECK_DEADLOCK FALSE
