SPECIFICATION SumSpec
CONSTANTS
  Requests = {r1, r2}
  Tickers = {t1}
  MaxRetries = 1
  None = None
  Rows = {x1, x2}
  Closers = {}
  EntryQty = 2
  MaxPos = 2
  MaxEntries = 1
  MaxFaults = 1
  NoRow = NoRow
  Compositions <- MCCompositions
  Days <- MCDays
  Nominal = 250
  MaxShifts = 1
  DeskRows = {"e1", "e2", "o1"}
  Class <- MCClass
  DeskClosers = {"c1", "c2"}
  MaxCalls = 2
  MaxMishaps = 1
INVARIANTS
  TypeOK
  
  
  
  PhantomHaltOnlyFromRiskReset
  
PROPERTIES
  LateOrdersWereInFlight
  HaltDrains
  LedgerConverges
