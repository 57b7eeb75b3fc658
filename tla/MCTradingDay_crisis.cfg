SPECIFICATION SumSpec
CONSTANTS
  t1 = t1
  t2 = t2
  c1 = c1
  q1 = q1
  q2 = q2
  Rows = {t1, t2}
  Closers = {c1}
  EntryQty = 2
  MaxPos = 3
  MaxEntries = 1
  MaxFaults = 1
  NoRow = NoRow
  None = None
  MaxDailyLoss = 3
  MaxWeeklyLoss = 5
  MaxMonthlyLoss = 8
  MaxDrawdown = 15
  MaxStreak = 2
  MaxTrades = 2
  Preservation = 85
  Tickers = {"a"}
  Features <- MCFeatures
  Markets <- MCMarkets
  Quotes <- MCQuotes
  Accounts <- MCAccounts
  Verdicts <- MCVerdicts
  Required = 2
  RegimeMaxAge = 1
  SignalMaxAge = 0
  MaxRestarts = 0
  Requests = {q1, q2}
  MaxContracts = 2
  TableRows = {"r1", "r2"}
  Facts <- MCFacts
  Symbols = {"a", "b"}
  Pool <- MCPool
  Challengers <- MCChallengers
  OpenPnls <- MCOpenPnls
  Value = 100
  MaxShares = 2
  Floor = 0
  Margin = 15
  MaxHeat = 35
  Limits <- MCLimits
  BacktestKinds = {"bull_put_spread", "equity"}
  Capital = 100
  Pnls <- MCPnls
  Gaps = {1, 3}
  Life = 3
  LastDay = 9
  DaysPerWeek = 5
  DaysPerMonth = 8
  MaxHeld = 2
  MaxBreaks = 1
SYMMETRY Symmetry
CHECK_DEADLOCK FALSE
PROPERTIES
  NothingTradesInCrisis
