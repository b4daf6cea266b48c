SPECIFICATION FairSpec
CONSTANTS
    Threads = {p, q}
    TransIDs = {t1, t2}
    Keys = {k1}
    TxIDs = {1}
    Data = {d}
    Nil = Nil
    Absent = Absent
    Mcs = {m1, m2}
    MaxTx = 2
INVARIANTS TypeOK Isolation RolledBackNeverCommitted PanicOnlyUnderClear
PROPERTY CallsReturn
