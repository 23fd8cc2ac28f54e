SPECIFICATION FairSpec
CONSTANTS
  Requests = {r1, r2}
  Tasks = {k1}
  Outbox = outbox
  MaxConns = 2
  Timeout = 2
  Grace = 2
  TaskGrace = 1
INVARIANTS
  RequestsDrained
  TasksDrained
PROPERTY Stops
CHECK_DEADLOCK FALSE
