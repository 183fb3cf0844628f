SPECIFICATION NewsSpec
CONSTANTS
  premium = premium
  lite = lite
  newsroom = newsroom
  office = office
  Models <- TwoModels
  Rpm <- OnePerMinute
  Rpd <- TwoPerDay
  Premium <- PremiumChain
  Routine <- RoutineChain
  Kinds <- Trades
  Procs <- TwoProcs
  MaxAttempts = 2
  Minute = 2
  Day = 3
  Cleanup = 2
  Flight = 1
  Slack = 1
  MaxOrphans = 1
  Stocks = 2
  Newsroom = newsroom
  NewsRetries = 2
PROPERTY
  QuotaIsNotFailure
