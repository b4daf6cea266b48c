SPECIFICATION Spec
CONSTANTS
    Calls = {a, b}
    MaxUint64 = 7
    Start = Start
    Nil = Nil
CHECK_DEADLOCK FALSE
SYMMETRY Symmetry
INVARIANTS CallsSafe Correlated EntriesMatch
