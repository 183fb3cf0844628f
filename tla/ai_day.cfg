SPECIFICATION NewsSpec
CONSTANTS
  premium = premium
  lite = lite
  newsroom = newsroom
  office = office
  Models <- TwoModels
  Rpm <- OnePerMinute
  Rpd <- OnePerMinute
  Premium <- PremiumChain
  Routine <- RoutineChain
  Kinds <- Trades
  Procs <- TwoProcs
  MaxAttempts = 2
  Minute = 2
  Day = 3
  Cleanup = 2
  Flight = 1
  Slack = 1
  MaxOrphans = 1
  Stocks = 1
  Newsroom = newsroom
  NewsRetries = 2
INVARIANTS
  NewsTypeOK
  WithinDay
  WithinMinute
PROPERTIES
  CallsEnd
  QuotaComesBack
