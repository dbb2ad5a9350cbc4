SPECIFICATION FairSpec
CONSTANTS
  x1 = x1
  x2 = x2
  t1 = t1
  t2 = t2
  t3 = t3
  Chains = {"TRC20", "BTC"}
  Payments = {x1, x2}
  Due <- DueTwoOne
  Transfers = {t1, t2, t3}
  To <- ToEach
  Amount <- Ones
  Asset <- OneStranger
  Awaits <- InUsdt
  Key <- Together
  Required <- Depth
  Width = 1
  MaxHeight = 2
  Faults = {"feed", "behind", "lookup", "query", "torn", "list", "crash"}
  MaxFaults = 1
INVARIANTS
  ListedIsStray
PROPERTIES
  PaidSettles
  StrangerIsListed
CHECK_DEADLOCK FALSE
