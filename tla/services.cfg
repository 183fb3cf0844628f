SPECIFICATION Spec
CONSTANTS
  r1 = r1
  r2 = r2
  home = home
  stock = stock
  Clients = {c1, c2}
  Handlers = {r1, r2}
  Tokens = {t1, t2}
  LoginWindow = 2
  MaxTries = 2
  SweepAt = 1
  Life = 1
  Alerts = {a1, a2}
  Checks = {r1, r2}
  AlertDays = 1
  PerPost = 1
  MaxNotify = 2
  MaxDeaths = 1
  HasUrl = TRUE
  Synced = {s1, s2}
  Broken = {s1}
  Daily = daily
  Callers = {web}
  LastDay = 3
  Versions = 2
  MaxCorrected = 1
  Lookback = 1
  MaxFaults = 1
  Markets = {"TW", "US"}
  Symbols = {stock}
  Market <- MCMarket
  Groups = {g1, g2}
  Names = {n1}
  NoGroup = NoGroup
  Requests = {r1, r2}
  Covered = {s1, s2, s3}
  Short = {s3}
  PerCall = 2
  Runs <- MCRuns
  Homes <- MCHomes
  Home <- MCHome
  MaxFacts = 2
  FeeMin = 2
  FeePart = 4
  MinOrder = 3
  Purses = {0, 5, 10, 20, 37, 50}
  Prices = {1, 3, 4}
  Length = 4
  Readers = {r1, r2}
  RowDays = 2
  Sources = 3
  Started = {17}
  Limits = {2}
  Polls = {r1, r2}
  MaxTrouble = 1
CHECK_DEADLOCK FALSE
INVARIANTS
  ServicesTypeOK
  LoginsHold
  OutboxHonest
  IndicatorsFollow
  TablesAgree
  CachesHold
  AccountAddsUp
  BacktestHonest
  EachItsOwnReport
PROPERTIES
  EventsSettle
  SyncConverges
  OnlyPatchDecides
  EveryRunEnds
  CentreCatchesUp
