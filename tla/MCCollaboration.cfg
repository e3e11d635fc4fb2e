SPECIFICATION Spec
CONSTANTS
    a = a
    b = b
    c = c
    Profiles = {a, b, c}
    MaxAgents = 2
    MaxCommands = 3
    MaxParallel = 2
    Mixes <- SomeMixes
    Empty = Empty
    Garbled = Garbled
    NoFile = NoFile
    None = None
CHECK_DEADLOCK FALSE
SYMMETRY Symmetry
INVARIANTS
    RulesHold
    KeptWhenAlone
PROPERTIES
    ArchivedIsFinal
