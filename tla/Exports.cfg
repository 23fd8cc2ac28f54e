SPECIFICATION FairSpec
CONSTANTS
  Ids = {e1, e2}
  Users = {u1}
  Workers = {w1, w2}
  MaxRetry = 2
  MaxFaults = 2
  MaxPosted = 1
  None = None
  Damaged = Damaged
INVARIANTS
  TypeOK
  DownloadFinished
  NotForgotten
PROPERTY EventuallyDone
CHECK_DEADLOCK FALSE
