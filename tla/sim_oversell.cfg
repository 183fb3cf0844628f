SPECIFICATION Spec
CONSTANTS
  t1 = t1
  t2 = t2
  f1 = f1
  f2 = f2
  s1 = s1
  s2 = s2
  s3 = s3
  NoStock = NoStock
  Nobody = Nobody
  Stocks <- OneStock
  Traders <- OneTrader
  Fillers <- OneFiller
  MaxOrders = 3
  MaxQty = 2
  Prices <- OneTwo
  Fee = 1
  MinOrderValue = 2
  InitialCash = 5
  Legacy = 0
  MaxAborts = 0
INVARIANTS
  NeverOversold
