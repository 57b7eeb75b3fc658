SPECIFICATION Spec
CONSTANTS
  Tickers = {t1, t2}
  Events = {e1}
  Users = {u1, u2}
  Scanner = Scanner
  Orders = {o1, o2}
  MaxPositions = 1
  MaxFaults = 1
  None = None
SYMMETRY Symmetry
INVARIANT
  ApprovalUsedOnce
