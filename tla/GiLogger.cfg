SPECIFICATION Spec
CONSTANTS
    Threads = {a, b}
    Controllers = {a, b}
    MaxLogs = 3
    MaxSessions = 1
    MaxSeconds = 2
    MaxRemovals = 1
    MaxSets = 1
    CfCap = 1
    MaxFileSize = 2
    Nil = Nil
CHECK_DEADLOCK FALSE
SYMMETRY Symmetry
INVARIANTS LossNeedsOverlap  
