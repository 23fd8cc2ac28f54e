CONSTANTS
    Accounts = {a1}
    Postings = {x1}
    Workers = {w1}
    Readers = {r1}
    None = None
    DayLen = 3
    Timeout = 1
    RunAt <- AnyTime
    MaxDay = 2
SYMMETRY Symmetry
SPECIFICATION Spec
INVARIANT BalanceExact
CHECK_DEADLOCK FALSE
