CONSTANTS
    Procs = {p1, p2}
    Keys = {k1}
    Absent = Absent
    Configs <- MCConfigs
    Skew = 1
    MaxClock = 3
    MaxRequests = 5
SYMMETRY ProcSymmetry
SPECIFICATION Spec
INVARIANTS Limit WaitersServed
PROPERTY Forward
CHECK_DEADLOCK FALSE
