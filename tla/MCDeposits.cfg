SPECIFICATION FairHistorySpec
CONSTANTS
  x1 = x1
  t1 = t1
  t2 = t2
  t3 = t3
  Payments = {x1}
  Due <- DueTwo
  Transfers = {t1, t2}
  To <- OnePayment
  Amount <- TwoAndOne
  Asset <- AllInUsdt
  Awaits <- InUsdt
  Callbacks = {c1}
  Required = 2
  ReorgDepth = 3
  ScanRange = 2
  MaxReorg = 1
  MinSweep = 2
  MaxLag = 1
  MaxHeight = 8
  Faults = {"reorg", "receipt", "query", "abort", "crash"}
  MaxFaults = 1
INVARIANTS
  ConfirmedIsCovered
  NoneMissed
PROPERTIES
  KeepsPromise
  PaidSettles
