CONSTANTS
    Accounts = {a1}
    Postings = {x1, x2}
    Workers = {w1, w2}
    Readers = {r1}
    None = None
    DayLen = 3
    Timeout = 1
    RunAt <- Scheduled
    MaxDay = 2
SYMMETRY Symmetry
SPECIFICATION Spec
INVARIANTS BalanceExact SnapshotComplete
CHECK_DEADLOCK FALSE
