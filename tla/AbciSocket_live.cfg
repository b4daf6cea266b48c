SPECIFICATION FairSpec
CONSTANTS
    Callers = {a}
    Txs = {t1, t2}
    Flushes = {f1}
    AutoFlush = AutoFlush
    QueueSize = 5
    Listened = {}
    MayFail = FALSE
    Nil = Nil
CHECK_DEADLOCK FALSE
INVARIANT Correlated
PROPERTY RequestsAnswered
