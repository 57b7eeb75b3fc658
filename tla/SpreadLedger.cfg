SPECIFICATION Spec
CONSTANTS
  Sizes = {1, 2}
  Credits = {10}
  Aggression = 100
  Gain = 2
  RetryStep = 5
  MaxRetries = 2
  ClosePrices = {4, 12}
  Holdings = {0, 3}
  Grace = 1
CHECK_DEADLOCK FALSE
PROPERTIES
  ClosedWhenGone
