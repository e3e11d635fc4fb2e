\* One server, a device that connects again, two commands.
CONSTANTS
    s1 = s1
    s2 = s2
    None = None
    Servers <- OneServer
    Approvals <- MCApprovals
    MaxSockets = 2
    MaxDevices = 2
    MaxCommands = 2
    MaxPaired <- Two
    MaxGiven <- Two
    MaxAdapters = 1
SPECIFICATION Spec
CHECK_DEADLOCK FALSE
PROPERTIES RevocationHolds
