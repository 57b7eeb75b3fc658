SPECIFICATION SumSpec
CONSTANTS
  Users = {u1, u2}
  MaxChanges = 3
  MaxSignals = 2
  None = None
  Qty = 2
  MaxRetries = 2
  Callers = {c1, c2}
  Jobs = {j1, j2, j3}
  Keys = {k1}
  Workers = {w1, w2}
  Reserved = {w1}
  Clients = {a, b}
  FeedKeys = {k, x}
  Unreadable = {x}
  Tokens = {s}
  Requests = {r}
  MaxAttempts = 2
  Window = 2
  MaxTime = 3
  MaxFaults = 1
  Rows = {t}
  Legs = {l1, l2}
  Prices = {4, 9}
  MaxQty = 2
  MaxMoves = 1
  LoopTasks = {"reconnect", "equity", "fills", "reconciliation", "backfill"}
  Interval <- MCInterval
  Guard <- MCGuard
  Patience = 6
  Direct = {"d"}
  AccountWorkers = {"w"}
  StaleAfter = 2
  Ids = {1, 2, 3}
  OrderSymbol <- MCSymbols
  OrderSec <- MCSecs
  Opens = {1}
  MaxTurns = 2
  Sizes = {1, 3}
  Credits <- MCCredits
  Aggression = 100
  Gain = 2
  RetryStep = 5
  ClosePrices = {4, 12}
  Holdings = {0, 3}
  Grace = 1
  LabRequests = {"q1", "q2"}
  Backtests <- MCBacktests
  Walks <- MCWalks
  Perfs <- MCPerfs
  Floor = 2
  LabMoves = 6
  Pnls <- MCPnls
  Baseline <- MCBaseline
  Promotable <- MCPromotable
  MinSample = 3
  HealthWindow = 3
  Capital = 50
  MaxTrades = 5
  Names = {"s1", "s2", "s3"}
  Scores = {1, 3}
  Standing = {"s1", "s2"}
  CapNum = 2
  CapDen = 5
  Setters = {"s1", "s2"}
  DailyCap <- MCDailyCap
  MaxSets = 2
  Readings <- MCReadings
  Quotations <- MCQuotations
  Worth = 1000
  StopAtr = 2
  TargetAtr = 4
  MinConfidence = 6200
  Spreads <- MCSpreads
  RorThreshold = 12
  ProbThreshold = 65
  Band = 5
  MaxSwaps = 3
  Signals <- MCSignals
  DayBars <- MCDayBars
  Targets = {2, 3, 4, 5, 6}
  HoldDays = 3
CHECK_DEADLOCK FALSE
INVARIANTS
  AllTyped
  AckedModeSurvives
  OneStray
  NothingLost
  NobodySlipsIn
  StrategiesEarnTheirPlace
  
  BrokerIsReadTrue
PROPERTIES
  CallsAndPassesEnd
  CriticalServed
  
