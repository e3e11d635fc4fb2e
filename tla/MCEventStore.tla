---------------------------- MODULE MCEventStore ----------------------------
(* Small instances of EventStore for TLC. *)
EXTENDS EventStore, TLC

CONSTANTS w1, w2, d1, i1, i2

\* Publisher and SyncManager share one EventStore value.
OneInstance == [a \in Writers \cup Devices |-> i1]

\* Each has its own: w1 publishes through one, w2 and the devices go through
\* the other.
TwoInstances == [a \in Writers \cup Devices |-> IF a = w1 THEN i1 ELSE i2]

WriterSymmetry == Permutations(Writers)
=============================================================================
