SPECIFICATION Spec
CONSTANTS
  Txs = {t1}
  Readers = {r1, r2}
  Months <- TwoMonths
  ZoneShift = 1
  TTL = 2
  Timeout = 1
  MaxTime = 4
  None = None
SYMMETRY Symmetry
INVARIANTS
  StaleOnlyIfRaced
  BoundedStaleness
CHECK_DEADLOCK FALSE
