CONSTANTS
    Workers = {w1, w2}
    Events = {e1, e2}
    BatchLimit = 2
    MaxRollbacks = 2
    MaxLost = 1
SPECIFICATION FairSpec
INVARIANTS DisjointBatches MarkedAfterPublish RepeatsHaveCause InOrder
PROPERTY EventuallyProcessed
CHECK_DEADLOCK FALSE
