SPECIFICATION Spec
CONSTANTS
  r1 = r1
  r2 = r2
  r3 = r3
  d1 = d1
  d2 = d2
  d3 = d3
  Requests = {r1, r2, r3}
  Calls <- AllCalls
  Asks <- OneRoute
  Funds = 0
  MaxCauses = 0
  Rows = {d1, d2, d3}
  Late = {d1}
  Indexless = {d3}
  Clicks = {k1, k2}
  Comes <- TwiceLate
  MaxTroubles = 0
  Logins = {l1, l2}
  Tabs = {t1, t2}
  Stories = {"recovery"}
  None = None
  NoLogin = NoLogin
INVARIANTS
  LateIsPaid
CHECK_DEADLOCK FALSE
