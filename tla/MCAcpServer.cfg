\* One terminal that two clients create, wait for, kill and release while the
\* server stops.
CONSTANTS
    c1 = c1
    c2 = c2
    Clients <- MCClients
    MaxRequests = 5
    MaxQueue = 1
    MaxTerminals = 1
SPECIFICATION Spec
CHECK_DEADLOCK FALSE
INVARIANTS
    TerminalTellsProcess
    StopReleasesAnswered
PROPERTIES
    ReleasedEnds
    StopReturns
