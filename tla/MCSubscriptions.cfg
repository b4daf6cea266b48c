SPECIFICATION MCSpec
CONSTANTS
    Reqs = {r1, r2, r3}
    MaxAttempts = 1
    MaxCuts = 3
    Threads = {t}
    Clients = {c}
    Queries = {q, r}
    Chans = {h1, h2}
    Maps = {m1}
    Msgs = {x}
    CmdsCap = 2
    ChanCap = 1
    Nil = Nil
CHECK_DEADLOCK FALSE
INVARIANTS RoutinesApart NotLost ViewsAgree
PROPERTIES Resent CalmStopReturns 
