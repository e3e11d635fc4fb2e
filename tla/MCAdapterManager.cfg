SPECIFICATION Spec
CONSTANTS
    Managers = {m1}
    Callers = {t1, t2}
    MaxStarts = 3
    MaxCalls = 7
    None = None
CHECK_DEADLOCK FALSE
INVARIANTS
    LiveIsKnown
PROPERTIES
    StopEndsChild
