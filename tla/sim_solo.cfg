SPECIFICATION Spec
CONSTANTS
  t1 = t1
  t2 = t2
  f1 = f1
  f2 = f2
  s1 = s1
  s2 = s2
  s3 = s3
  NoStock = NoStock
  Nobody = Nobody
  Stocks <- TwoStocks
  Traders <- OneTrader
  Fillers <- NoFiller
  MaxOrders = 4
  MaxQty = 2
  Prices <- OneTwo
  Fee = 1
  MinOrderValue = 2
  InitialCash = 7
  Legacy = 0
  MaxAborts = 1
SYMMETRY StockSymmetry
INVARIANTS
  TypeOK
  CashMatchesOrders
  NeverOversold
PROPERTIES
  NeverAddedTo
