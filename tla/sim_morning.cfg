SPECIFICATION MorningSpec
CONSTANTS
  t1 = t1
  t2 = t2
  f1 = f1
  f2 = f2
  s1 = s1
  s2 = s2
  s3 = s3
  NoStock = NoStock
  Nobody = Nobody
  Stocks <- ThreeStocks
  Traders <- OneTrader
  Fillers <- OneFiller
  MaxOrders = 6
  MaxQty = 1
  Prices <- Twos
  Fee = 1
  MinOrderValue = 1
  InitialCash = 12
  Legacy = 0
  MaxAborts = 0
PROPERTIES
  FlowsEnd
  OrdersSettle
