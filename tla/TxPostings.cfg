SPECIFICATION Spec
CONSTANTS
    Procs = {p1, p2}
    NoReq = NoReq
    MaxInt = 3
    MaxConns = 2
    MaxRequests = 3
    MaxAccounts = 7
    Users <- MCUsers
    Users0 = {1, 2}
    Requests <- PostingRequests
    NewAccounts <- AccountPosts
    Accounts0 <- OldAccounts
    AccountSeq0 = 6
    Transactions0 <- OldTransactions
    TxSeq0 = 3
    Now = 2
SYMMETRY ProcSymmetry
INVARIANTS ReversedOnce ReversalNegates OutboxExact OwnPostings ZeroSum BackstopOnly
PROPERTY ImplementsLedger
CHECK_DEADLOCK FALSE
