INIT MCInit
NEXT MCNext
CONSTANTS
    Users = {u, v, w}
    Closers = {u}
    Clients = {k1, k2, k3}
    MaxCap = 2
    InitCap = 1
    None = None
    Conns = {c1, c2, c3}
    Hosts = {h1, h2}
    MaxConns = 2
    MaxReqs = 1
    Talkers = {c1}
    Callers = {p, q}
    Threads = {t1, t2}
    Events = {e1}
    Listeners = {l1, l2}
    Objects = {o1, o2, o3, o4}
    MaxCalls = 4
    N = 4
    Walkers = {w1}
CHECK_DEADLOCK FALSE
INVARIANTS PoolSafe  ClientsSafe ReplaySafe EventsSafe FilesSafe DataSafe
