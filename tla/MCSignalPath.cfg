SPECIFICATION SumSpec
CONSTANTS
  MaxDailyLoss = 3
  MaxWeeklyLoss = 5
  MaxMonthlyLoss = 8
  MaxDrawdown = 15
  MaxStreak = 2
  MaxTrades = 2
  Preservation = 85
  Executions = {e1, e2}
  Capital = 100
  Values <- MCValues
  Pnls <- MCPnls
  Unknown = Unknown
  DaysPerWeek = 2
  DaysPerMonth = 3
  RecentLimit = 10
  MaxDays = 2
  MaxCloses = 3
  MaxOpen = 2
  Polls = {p1, p2}
  MaxChanges = 2
  MaxFaults = 1
  None = None
  Live = {"a", "b"}
  Dead = {"z"}
  Logged = {"r1", "r2", "r3"}
  Tables <- MCTables
  Handed <- MCHanded
  DayBars <- MCBars
  Hold = 2
  FlushEvery = 2
  Budget = 2
  MaxDay = 3
  Worths <- MCWorths
  Figures <- MCFigures
  Signals <- MCSignals
  Contexts <- MCContexts
  Stocks = {"a", "b", "c"}
  StockSector <- MCSectors
  Plans <- MCPlans
  AccountWorths = {0, 100}
  GlobalMax = 3
  ModeMax = 4
  Adoptions <- MCAdoptions
  Sorted <- MCSorted
  Books <- MCBooks
  Links <- MCLinks
  Fetched <- MCFetched
  Capitals = {100}
  MaxShare = 40
  ClusterStale = 1
  SectorStale = 1
  Watchlist = {"b"}
  SectorOf <- MCSectorOf
  Fallback <- MCFallback
  Ranked <- MCRanked
  Actions = {"BUY"}
  Scores = {1, 2}
  TopN = 1
  Weekend = {0}
  LastDay = 1
  MaxRows = 2
  TradeRows = {1, 2}
  EntryPrice = 4000
  Quotes = {3955, 4000, 4085}
  TradePlans <- MCTradePlans
  OptionMarks = {500}
  MaxHeld = 2
  MaxFills = 2
  MaxMoves = 2
CHECK_DEADLOCK FALSE
INVARIANTS
  AllTyped
  CapOvershootBounded
  PassSurvivesHelp
  RecordsAreTrue
PROPERTIES
  StreakHaltHasNoClock
  PeakLossTakesARace
  AdmissionKeepsLimits
  
