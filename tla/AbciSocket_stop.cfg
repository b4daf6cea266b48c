SPECIFICATION Spec
CONSTANTS
    Callers = {a, b}
    Txs = {t1}
    Flushes = {f1}
    AutoFlush = AutoFlush
    QueueSize = 2
    Listened = {t1}
    MayFail = TRUE
    Nil = Nil
CHECK_DEADLOCK FALSE
SYMMETRY Symmetry
INVARIANTS ReleasedOnce SyncAnswered
