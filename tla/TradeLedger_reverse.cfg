SPECIFICATION Spec
CONSTANTS
  t1 = t1
  t2 = t2
  c1 = c1
  c2 = c2
  Rows = {t1, t2}
  Closers = {c1, c2}
  EntryQty = 2
  MaxPos = 3
  MaxEntries = 1
  MaxFaults = 1
  NoRow = NoRow
PROPERTIES
  CloseNeverReverses
