SPECIFICATION FairSpec
CONSTANTS
    Procs = {p1, p2, p3}
    NoReq = NoReq
    MaxInt = 3
    MaxConns = 2
    MaxRequests = 3
    MaxAccounts = 3
    Users <- MCUsers
    Users0 = {1}
    Requests <- KeyRequests
    NewAccounts <- NoAccountPosts
    Accounts0 <- FreshAccounts
    AccountSeq0 = 3
    Transactions0 <- NoTransactions
    TxSeq0 = 1
    Now = 2
INVARIANTS ExactlyOnce KeyWithTransaction ReplayFaithful KeyRefusals OneExternal
CHECK_DEADLOCK FALSE
PROPERTY Answered
