SPECIFICATION Spec
CONSTANTS
  Users = {u1, u2}
  Accounts = {a1, a2, a3}
  Ids <- MCIds
  Instants <- MCInstants
  Far = 2
  MaxId = 4
  DefaultLimit = 2
  MaxLimit = 2
  Limits <- MCLimits
  MaxInt32 = 2
  Readers = {r1}
  MaxRows = 5
  None = None
SYMMETRY Symmetry
INVARIANTS
  EntriesDescend
  EntriesComplete
  OwnRows
  AccountsComplete
CHECK_DEADLOCK FALSE
