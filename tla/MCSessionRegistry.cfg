\* One aps process: two callers and the reaper on two sessions.  A clock unit
\* stands for the timeout: a session is stale when the clock has moved on since
\* it was last seen.
SPECIFICATION FairSpec
CONSTANTS
    p1 = p1
    p2 = p2
    t1 = t1
    t2 = t2
    r1 = r1
    s1 = s1
    s2 = s2
    Procs = {p1}
    Threads = {t1, t2, r1}
    Reapers = {r1}
    Tickers = {}
    ProcOf <- OneProcOf
    IDs = {s1, s2}
    Keys = {"k1"}
    Timeout = 0
    MaxTime = 1
    MaxAttempts = 2
    MaxFaults = 2
    NoRow = NoRow
    NoThread = NoThread
CHECK_DEADLOCK TRUE
PROPERTIES
    ErroredIsTerminal
    SweepTakesOnlyStale
    NoLostUpdate
    OnlyRegisterCreates
    EventsAreTrue
    StaleIsReaped
