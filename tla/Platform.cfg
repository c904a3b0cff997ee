SPECIFICATION PlatformSpec
CONSTANTS
  Parts = {"oauth", "boot", "market", "crawl", "series", "reports", "edge"}
  OReqs = {q1, q2}
  Stored = {d0}
  Docs = {d1}
  URIs = {u1, l1, l2, p1}
  RegLists <- MCRegLists
  DocLists <- MCDocLists
  Asks <- MCAsks
  Workloads <- MCWorkloads
  Plain = {p1}
  Loop = {l1, l2}
  Bases = {b1, b2}
  AutoApprove = TRUE
  CodeTTL = 1
  ConsentTTL = 1
  DocTTL = 1
  AccessTTL = 1
  RefreshTTL = 1
  Retention = 1
  NoTime = NoTime
  MaxClock = 3
  MaxCodes = 2
  MaxScreens = 1
  MaxTokens = 2
  MaxRestarts = 1
  MaxDocEdits = 1
  Procs = {q1, q2}
  Drivers = {"sqlite", "pg"}
  Legacies <- MCLegacies
  Flaws <- MCFlaws
  SrcVersions <- MCSrcVersions
  SrcKeys = {k1}
  SrcRows <- MCSrcRows
  SrcDups = {TRUE}
  NoKey = NoKey
  MaxBoots = 3
  MaxSeq = 2
  MReqs = {q1, q2}
  Symbols = {s1, s2}
  Ranges = {r1, r2}
  Codes = {i1, i2}
  Services = {"fx", "hist", "snap", "idx"}
  FreshFor = 1
  StaleAfter = 1
  FetchTimeout = 1
  MaxEntries = 1
  MaxMClock = 3
  CReqs = {q1, q2}
  Secs = {c1, c2, c3}
  HeldSecs = {c1, c2}
  DetailedSecs = {c1, c2}
  Stocks = {"a", "b"}
  Disclosures <- MCDisclosures
  Works = {"series", "batch", "holdings"}
  StaleDays = 1
  MaxBatch = 2
  Scope <- MCScope
  SeriesCap = 1
  MaxDay = 3
  MaxCrawls <- MCMaxCrawls
  MaxChanges <- MCMaxChanges
  Jobs = {"timeline", "drawdown", "reminder", "backtest", "amount", "rebind"}
  NFunds = 2
  LastDate = 3
  YearLength = 2
  NavTables <- MCNavTables
  TxTables <- MCTxTables
  NavRowCap = 4
  TxRowCap = 2
  NavSeqs <- MCNavSeqs
  DrawdownCap = 4
  PriceSeqs <- MCPriceSeqs
  Base = 65536
  CalibMin = 2
  Levels = 2
  Lookback = 1
  Interval = 1
  Costs = {8, 10}
  Prices = {1, 6, 7, 8, 9, 10, 11, 12, 13}
  Changes <- MCChanges
  WeekPlans <- MCPlans
  Junk = Junk
  Queries <- MCQueries
  ReportKinds = {"allocation", "summary", "penetration"}
  NRFunds = 2
  Positions <- MCPositions
  Details <- MCDetails
  HoldingSets <- MCHoldingSets
  Answers <- MCAnswers
  SectorMaps <- MCSectorMaps
  TradeRows <- MCTradeRows
  Null = Null
  Portfolio = 1
  ListLimit = 1
  MaxWrites = 1
  EReqs = {q1, q2}
  Addrs = {"x", "y", "proxy"}
  Trusted = {"proxy"}
  Bearers = {"operator", "jwt", "junk"}
  AdminKey = "operator"
  PublicKey = NoBearer
  OAuthTokens = {"jwt"}
  NoBearer = NoBearer
  EdgeAuthEnabled = TRUE
  Traffics <- MCTraffics
  Cost <- MCCost
  Burst <- MCBurst
  SweepInterval = 1
  Second = 2
  NoBucket = NoBucket
  Vacant = Vacant
  MaxEClock = 4
  MaxArrivals = 3
  u1 = u1
  l1 = l1
  l2 = l2
  p1 = p1
  b1 = b1
  k1 = k1
  c1 = c1
  c2 = c2
INVARIANTS
  PlatformTypeOK TokensWereApproved RotationHasCause TokensSurviveRestart
  BootsConverge ImportLossReported CachesAreRecent StaleIndexHasCause
  CompleteHasCause StoredAsAnswered WalksMatchReference ReportsAddUp LimitsHold
CHECK_DEADLOCK FALSE
SYMMETRY Symmetry
