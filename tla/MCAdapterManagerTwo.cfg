SPECIFICATION Spec
CONSTANTS
    Managers = {m1, m2}
    Callers = {t1}
    MaxStarts = 2
    MaxCalls = 2
    None = None
INVARIANT NoDoubleSpawn
CHECK_DEADLOCK FALSE
