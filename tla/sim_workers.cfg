SPECIFICATION Spec
CONSTANTS
  t1 = t1
  t2 = t2
  f1 = f1
  f2 = f2
  s1 = s1
  s2 = s2
  s3 = s3
  NoStock = NoStock
  Nobody = Nobody
  Stocks <- OneStock
  Traders <- TwoTraders
  Fillers <- NoFiller
  MaxOrders = 4
  MaxQty = 2
  Prices <- Twos
  Fee = 1
  MinOrderValue = 1
  InitialCash = 4
  Legacy = 0
  MaxAborts = 0
INVARIANTS
  OnePendingPerStock
  CashNeverNegative
PROPERTIES
  SettledIsFinal
  ExitLeavesNothingPending
