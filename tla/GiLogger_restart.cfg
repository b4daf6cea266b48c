SPECIFICATION FairSpec
CONSTANTS
    Threads = {a, b}
    Controllers = {a}
    MaxLogs = 1
    MaxSessions = 2
    MaxSeconds = 1
    MaxRemovals = 0
    MaxSets = 0
    CfCap = 3
    MaxFileSize = 2
    Nil = Nil
CHECK_DEADLOCK FALSE
PROPERTY StopReturns
