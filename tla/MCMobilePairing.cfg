\* Two pairing servers that overlap, one connection; three devices where the
\* limit counts, two commands where approval is required.
CONSTANTS
    s1 = s1
    s2 = s2
    None = None
    Servers <- TwoServers
    Approvals <- MCApprovals
    MaxSockets = 1
    MaxDevices = 3
    MaxCommands = 2
    MaxPaired <- ThreeOrTwo
    MaxGiven <- OneOrTwo
    MaxAdapters = 1
SPECIFICATION Spec
CHECK_DEADLOCK FALSE
INVARIANTS
    PairedOnce
    LimitUpToOverlap
    OnlyApprovedConnect
PROPERTIES
    StopReturns
