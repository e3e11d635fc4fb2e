------------------------------ MODULE EventStore ------------------------------
(***************************************************************************)
(* The event store of a multi-device workspace                             *)
(* (internal/core/multidevice/event_store.go): events.jsonl, to which      *)
(* events are appended, and index.json, which holds the latest version and *)
(* the number of events.  Each EventStore value has a mutex of its own;    *)
(* Publisher, SyncManager and Manager make one each, in every process, all *)
(* over the same two files.                                                *)
(***************************************************************************)
EXTENDS Integers, Sequences

CONSTANTS
    Writers,    \* goroutines that call Store
    Devices,    \* devices that call GetMissedEvents
    Instances,  \* EventStore values over the same files
    InstOf,     \* the instance a writer or a device goes through
    MaxEvents,  \* bound on the log
    MaxFaults,  \* bound on write errors and crashes
    NoWriter    \* an unlocked mutex

ASSUME InstAssumption     == InstOf \in [Writers \cup Devices -> Instances]
ASSUME NoWriterAssumption == NoWriter \notin Writers
ASSUME LogBounds          == MaxEvents \in Nat /\ MaxFaults \in Nat

VARIABLES
    log,     \* events.jsonl: version and writer of each line, and whether it parses
    partial, \* events.jsonl ends in part of a line
    acked,   \* positions of the lines whose Store returned nil
    latest,  \* index.json: LatestVersion
    count,   \* index.json: EventCount
    torn,    \* index.json is truncated
    mu,      \* mu[i]: the writer that holds instance i's mutex
    pc,      \* pc[w]: where writer w is inside Store
    idx,     \* idx[w]: the index w loaded, as it will save it
    pos,     \* pos[w]: the line w appended
    target,  \* target[d]: the latest version d read, or -1
    known,   \* known[d]: positions of the lines d has received
    upTo,    \* upTo[d]: the last version d synced to
    faults

files   == <<log, partial, latest, count, torn>>
store   == <<files, acked>>
writers == <<mu, pc, idx, pos>>
readers == <<target, known, upTo>>
vars    == <<store, writers, readers, faults>>

NoIndex == [latest |-> 0, count |-> 0]

Init ==
    /\ log = <<>> /\ partial = FALSE /\ acked = {}
    /\ latest = 0 /\ count = 0 /\ torn = FALSE
    /\ mu = [i \in Instances |-> NoWriter]
    /\ pc = [w \in Writers |-> "idle"]
    /\ idx = [w \in Writers |-> NoIndex]
    /\ pos = [w \in Writers |-> 0]
    /\ target = [d \in Devices |-> -1]
    /\ known = [d \in Devices |-> {}]
    /\ upTo = [d \in Devices |-> 0]
    /\ faults = 0

-----------------------------------------------------------------------------
(* Store. *)

\* Mutant: Store does not take the mutex.
MutLockIgnored(w) ==
    /\ pc[w] = "idle"
    /\ pc' = [pc EXCEPT ![w] = "locked"]
    /\ UNCHANGED <<store, mu, idx, pos, readers, faults>>

Lock(w) ==
    /\ pc[w] = "idle"
    /\ mu[InstOf[w]] = NoWriter
    /\ mu' = [mu EXCEPT ![InstOf[w]] = w]
    /\ pc' = [pc EXCEPT ![w] = "locked"]
    /\ UNCHANGED <<store, idx, pos, readers, faults>>

\* Mutant: the index is saved before the event is written.
MutIndexFirst(w) ==
    /\ pc[w] = "locked"
    /\ ~torn
    /\ idx' = [idx EXCEPT ![w] = [latest |-> latest + 1, count |-> count + 1]]
    /\ latest' = latest + 1
    /\ count' = count + 1
    /\ pc' = [pc EXCEPT ![w] = "loaded"]
    /\ UNCHANGED <<log, partial, torn, acked, mu, pos, readers, faults>>

\* loadIndex, and the version the event will carry.
LoadIndex(w) ==
    /\ pc[w] = "locked"
    /\ ~torn
    /\ idx' = [idx EXCEPT ![w] = [latest |-> latest + 1, count |-> count + 1]]
    /\ pc' = [pc EXCEPT ![w] = "loaded"]
    /\ UNCHANGED <<store, mu, pos, readers, faults>>

\* A truncated index.json does not parse: Store returns the error.
LoadFails(w) ==
    /\ pc[w] = "locked"
    /\ torn
    /\ mu' = [mu EXCEPT ![InstOf[w]] = NoWriter]
    /\ pc' = [pc EXCEPT ![w] = "idle"]
    /\ UNCHANGED <<store, idx, pos, readers, faults>>

\* One O_APPEND write of the event's line, which merges with what an earlier
\* failed write may have left.
AppendLine(w) ==
    /\ pc[w] = "loaded"
    /\ Len(log) < MaxEvents
    /\ log' = Append(log, [ver |-> idx[w].latest, by |-> w, parses |-> ~partial])
    /\ partial' = FALSE
    /\ pos' = [pos EXCEPT ![w] = Len(log) + 1]
    /\ pc' = [pc EXCEPT ![w] = "appended"]
    /\ UNCHANGED <<acked, latest, count, torn, mu, idx, readers, faults>>

\* The write stops half way (a full disk): Store returns the error.
AppendPart(w) ==
    /\ faults < MaxFaults
    /\ faults' = faults + 1
    /\ pc[w] = "loaded"
    /\ partial' = TRUE
    /\ mu' = [mu EXCEPT ![InstOf[w]] = NoWriter]
    /\ pc' = [pc EXCEPT ![w] = "idle"]
    /\ UNCHANGED <<log, acked, latest, count, torn, idx, pos, readers>>

\* saveIndex: os.WriteFile opens with O_TRUNC ...
TruncateIndex(w) ==
    /\ pc[w] = "appended"
    /\ torn' = TRUE
    /\ pc' = [pc EXCEPT ![w] = "saving"]
    /\ UNCHANGED <<log, partial, acked, latest, count, mu, idx, pos, readers, faults>>

\* ... and writes; Store returns nil.
SaveIndex(w) ==
    /\ pc[w] = "saving"
    /\ latest' = idx[w].latest
    /\ count' = idx[w].count
    /\ torn' = FALSE
    /\ acked' = acked \cup {pos[w]}
    /\ mu' = [mu EXCEPT ![InstOf[w]] = NoWriter]
    /\ pc' = [pc EXCEPT ![w] = "idle"]
    /\ UNCHANGED <<log, partial, idx, pos, readers, faults>>

\* An error return, or the death of the process, anywhere inside Store: what
\* reached the files stays there.
Abort(w) ==
    /\ faults < MaxFaults
    /\ faults' = faults + 1
    /\ pc[w] # "idle"
    /\ mu' = [mu EXCEPT ![InstOf[w]] = NoWriter]
    /\ pc' = [pc EXCEPT ![w] = "idle"]
    /\ UNCHANGED <<store, idx, pos, readers>>

-----------------------------------------------------------------------------
(* GetMissedEvents: GetLatestVersion and GetRange, each under a read lock. *)

\* readAllEvents skips the lines that do not parse.
Readable == {i \in 1..Len(log) : log[i].parses}

GetLatestVersion(d) ==
    /\ target[d] = -1
    /\ mu[InstOf[d]] = NoWriter
    /\ ~torn
    /\ target' = [target EXCEPT ![d] = latest]
    /\ UNCHANGED <<store, writers, known, upTo, faults>>

\* sinceVersion >= latestVersion: nothing to fetch.
UpToDate(d) ==
    /\ target[d] # -1
    /\ upTo[d] >= target[d]
    /\ target' = [target EXCEPT ![d] = -1]
    /\ UNCHANGED <<store, writers, known, upTo, faults>>

\* Mutant: the range starts one version late.
MutGetRangeLate(d) ==
    /\ target[d] # -1
    /\ upTo[d] < target[d]
    /\ mu[InstOf[d]] = NoWriter
    /\ known' = [known EXCEPT ![d] =
                    @ \cup {i \in Readable : upTo[d] + 1 < log[i].ver /\ log[i].ver <= target[d]}]
    /\ upTo' = [upTo EXCEPT ![d] = target[d]]
    /\ target' = [target EXCEPT ![d] = -1]
    /\ UNCHANGED <<store, writers, faults>>

\* Mutant: the range has no upper end.
MutGetRangeOpen(d) ==
    /\ target[d] # -1
    /\ upTo[d] < target[d]
    /\ mu[InstOf[d]] = NoWriter
    /\ known' = [known EXCEPT ![d] = @ \cup {i \in Readable : upTo[d] + 1 <= log[i].ver}]
    /\ upTo' = [upTo EXCEPT ![d] = target[d]]
    /\ target' = [target EXCEPT ![d] = -1]
    /\ UNCHANGED <<store, writers, faults>>

\* The lines with a version after the device's, up to the target; the device
\* then is at the target.
GetRange(d) ==
    /\ target[d] # -1
    /\ upTo[d] < target[d]
    /\ mu[InstOf[d]] = NoWriter
    /\ known' = [known EXCEPT ![d] =
                    @ \cup {i \in Readable : upTo[d] + 1 <= log[i].ver /\ log[i].ver <= target[d]}]
    /\ upTo' = [upTo EXCEPT ![d] = target[d]]
    /\ target' = [target EXCEPT ![d] = -1]
    /\ UNCHANGED <<store, writers, faults>>

-----------------------------------------------------------------------------
StoreStep(w) ==
    \/ Lock(w)
    \/ LoadIndex(w)
    \/ LoadFails(w)
    \/ AppendLine(w)
    \/ AppendPart(w)
    \/ TruncateIndex(w)
    \/ SaveIndex(w)
    \/ Abort(w)

SyncStep(d) == GetLatestVersion(d) \/ UpToDate(d) \/ GetRange(d)

Next == (\E w \in Writers : StoreStep(w)) \/ (\E d \in Devices : SyncStep(d))

Spec == Init /\ [][Next]_vars

-----------------------------------------------------------------------------
(* Properties. *)

TypeOK ==
    /\ log \in Seq([ver : Nat, by : Writers, parses : BOOLEAN])
    /\ partial \in BOOLEAN /\ torn \in BOOLEAN
    /\ acked \subseteq 1..Len(log)
    /\ latest \in Nat /\ count \in Nat
    /\ mu \in [Instances -> Writers \cup {NoWriter}]
    /\ pc \in [Writers -> {"idle", "locked", "loaded", "appended", "saving"}]
    /\ idx \in [Writers -> [latest : Nat, count : Nat]]
    /\ pos \in [Writers -> Nat]
    /\ target \in [Devices -> Nat \cup {-1}]
    /\ known \in [Devices -> SUBSET Nat]
    /\ upTo \in [Devices -> Nat]
    /\ faults \in Nat

\* sync_manager.go, InitiateSync and GetMissedEvents: a device that has synced
\* to a version has received every event in the log up to it ("retrieves all
\* events the device has missed"), whatever was appended or failed meanwhile.
\* (Lines that do not parse are nobody's events.)
NothingMissed ==
    \A d \in Devices : \A i \in Readable : log[i].ver <= upTo[d] => i \in known[d]

\* Events whose Store succeeded carry distinct versions that grow along the
\* log, even after writes that failed half way.
AckedVersionsGrow ==
    \A i, j \in acked : i < j => log[i].ver < log[j].ver

\* The index describes events that are really in the log: EventCount never
\* exceeds its lines and LatestVersion is the version of one of them, also
\* after a Store that failed between its two writes.
IndexIsBacked ==
    /\ count <= Len(log)
    /\ latest > 0 => \E i \in 1..Len(log) : log[i].ver = latest

\* The versions the index has reached, with the events readers find under each.
Published == [v \in 1..latest |-> {i \in Readable : log[i].ver = v}]

\* With one instance the store and the catch-up protocol are the log EventLog
\* describes, failed and half-done Store calls included: a version is
\* published when the index is saved, and never changes afterwards.
EventLogView ==
    INSTANCE EventLog WITH
        Lines <- 1..MaxEvents,
        versions <- Published,
        known <- known,
        upTo <- upTo
ImplementsEventLog == EventLogView!Spec
=============================================================================
