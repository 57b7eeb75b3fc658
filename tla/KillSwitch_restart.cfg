SPECIFICATION Spec
CONSTANTS
  r1 = r1
  t1 = t1
  Requests = {r1}
  Tickers = {t1}
  MaxRetries = 0
  None = None
PROPERTIES
  EngagedComesBackEngaged
