\* A run with every fault: failing writers, descendants that keep stdout, a
\* client that leaves and cancel requests.  Goroutines are scheduled; nothing
\* is assumed of the child.
SPECIFICATION FairSpec
CONSTANTS
    r1 = r1
    Runs = {r1}
    MaxChunks = 3
    PipeCap = 2
    Orphans = TRUE
\* A run that has returned and been reported does nothing more.
CHECK_DEADLOCK FALSE
INVARIANTS
    RecordMatchesProcess
    OutputIsComplete
PROPERTIES
    OutcomeIsFinal
    ReturnedStateIsFrozen
    DisconnectReleases
    EndedRunReturns
