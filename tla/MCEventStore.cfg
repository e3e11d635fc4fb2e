\* One instance, with writes that fail, also half way through a line, and processes that die inside Store.
SPECIFICATION Spec
CONSTANTS
    w1 = w1
    w2 = w2
    d1 = d1
    i1 = i1
    i2 = i2
    Writers = {w1, w2}
    Devices = {d1}
    Instances = {i1}
    InstOf <- OneInstance
    MaxEvents = 4
    MaxFaults = 2
    NoWriter = NoWriter
\* The log is bounded: a writer that has loaded the index of a full log stops.
CHECK_DEADLOCK FALSE
SYMMETRY WriterSymmetry
INVARIANTS
    AckedVersionsGrow
    IndexIsBacked
    NothingMissed
PROPERTIES
    ImplementsEventLog
