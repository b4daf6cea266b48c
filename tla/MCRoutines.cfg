SPECIFICATION MCSpec
CONSTANTS
    Threads = {t1, t2, t3}
    MaxResets = 2
    Excluded = {{"start", "stop"}, {"start", "reset"}, {"stop", "reset"}, {"reset"}}
CHECK_DEADLOCK FALSE
INVARIANTS Inv  RoutinesSafe
PROPERTIES WaitEnds RoutinesEnd
