SPECIFICATION Spec
CONSTANTS
    Threads = {t, u}
    Clients = {c}
    Queries = {q}
    Chans = {h1, h2}
    Maps = {m1, m2, m3}
    Msgs = {x, y, z}
    CmdsCap = 1
    ChanCap = 1
    MaxRestarts = 1
    SharedQueries = TRUE
    Readers = {h1, h2}
    Nil = Nil
CHECK_DEADLOCK FALSE
SYMMETRY Symmetry
INVARIANTS OpenChannels 
