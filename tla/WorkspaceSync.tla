----------------------------- MODULE WorkspaceSync -----------------------------
(***************************************************************************)
(* Synchronisation of the devices of a workspace                           *)
(* (internal/core/multidevice): the offline queue of each device,          *)
(* InitiateSync with the conflict detector and the automatic resolver, and *)
(* Publisher.PublishEvent for devices that are online.                     *)
(*                                                                         *)
(* Queues, log and conflicts are files shared by every process.  Storing   *)
(* an event is one step here: module EventStore shows what it is made of.  *)
(* InitiateSync is not: it reads the queue, removes it, and then examines, *)
(* records and stores its events one by one.                               *)
(***************************************************************************)
EXTENDS Integers, Sequences, FiniteSets, FiniteSetsExt

CONSTANTS
    Devices,
    Rank,           \* lexicographic order of the device identifiers
    Syncs,          \* SyncDevice calls that may run at the same time
    DeviceOf,       \* the device a call synchronises
    Writes,         \* what a device may write: a resource, an event type and a time
    NoResource,     \* the resource of an event whose payload names none
    Category,       \* the part of an event type before the dot
    MetadataTypes,  \* EventDevicePermChanged, EventWorkspaceConfigChanged
    Window,         \* concurrencyWindow
    MaxEvents,      \* bound on the events created
    MaxFaults       \* bound on errors and crashes inside Store and InitiateSync

ASSUME RankAssumption ==
    /\ Rank \in [Devices -> Nat]
    /\ \A d, e \in Devices : Rank[d] = Rank[e] => d = e
ASSUME SyncAssumption == DeviceOf \in [Syncs -> Devices]
ASSUME WriteAssumption ==
    \A w \in Writes : DOMAIN w = {"res", "type", "ts"} /\ w.type \in DOMAIN Category /\ w.ts \in Nat
ASSUME WindowAssumption == Window \in Nat
ASSUME SyncBounds     == MaxEvents \in Nat /\ MaxFaults \in Nat

VARIABLES
    created,   \* events created so far: the identifier of the last one
    queue,     \* queue[d]: offline/<d>.jsonl
    enqueued,  \* events that were ever enqueued
    exposed,   \* those that a file shared without a lock, or a failing sync, put at risk
    log,       \* events.jsonl
    latest,    \* LatestVersion of index.json
    conflicts, \* conflicts/*.json
    synced,    \* synced[d]: LastEventID of the device's link
    pc,        \* pc[s]: where a SyncDevice call is
    batch,     \* batch[s]: offline events it has read and not yet stored
    found,     \* found[s]: the conflict it has detected and not yet saved
    seen,      \* seen[n]: the length of the log when Detect last looked at event n
    faults

vars == <<created, queue, enqueued, exposed, log, latest, conflicts, synced, pc, batch, found, seen,
          faults>>

Event ==
    [id : 1..MaxEvents, dev : Devices, res : {w.res : w \in Writes},
     type : DOMAIN Category, ts : Nat, ver : Nat]

None == [type |-> "none"]

Init ==
    /\ created = 0 /\ enqueued = {} /\ exposed = {} /\ log = <<>> /\ latest = 0 /\ conflicts = {}
    /\ queue = [d \in Devices |-> <<>>]
    /\ synced = [d \in Devices |-> 0]
    /\ pc = [s \in Syncs |-> "idle"]
    /\ batch = [s \in Syncs |-> <<>>]
    /\ found = [s \in Syncs |-> None]
    /\ seen = [n \in 1..MaxEvents |-> 0]
    /\ faults = 0

-----------------------------------------------------------------------------
(* Conflict detection and resolution, as functions of the log. *)

\* isOverlapping
Overlapping(a, b) ==
    \/ a.ver = b.ver
    \/ /\ a.ts - b.ts < Window /\ b.ts - a.ts < Window
       /\ a.dev # b.dev

\* Mutant: stored events of the same device conflict, those of others do not.
MutConflictingOwn(e) ==
    {i \in 1..Len(log) : log[i].res = e.res /\ log[i].dev = e.dev}

\* Where in the log are the stored events on the event's resource that come
\* from other devices and are not known to precede it.  The code's list of
\* them is in log order: the order of these positions.
Conflicting(e) ==
    {i \in 1..Len(log) : /\ log[i].res = e.res /\ log[i].dev # e.dev
                         /\ log[i].ver >= e.ver \/ Overlapping(log[i], e)}

\* classifyConflict: the first stored event that decides.
Classify(e, existing) ==
    LET Semantic(i) == Category[log[i].type] # Category[e.type]
        deciding    == {i \in existing : \/ Semantic(i)
                                         \/ e.type \in MetadataTypes
                                         \/ log[i].ver > e.ver}
    IN  IF deciding = {}                  THEN "concurrent_write"
        ELSE IF Semantic(Min(deciding))   THEN "semantic"
        ELSE IF e.type \in MetadataTypes  THEN "metadata"
        ELSE "ordering"

\* LWWResolver.Resolve: later timestamp, then greater device identifier.
Later(a, b) == a.ts > b.ts \/ (a.ts = b.ts /\ Rank[a.dev] > Rank[b.dev])

\* Mutant: on equal timestamps the event seen last wins.
MutWinnerLast(e, existing) ==
    LET Best(f, w) == IF f.ts >= w.ts THEN f ELSE w
    IN  Best(e, MapThenFoldSet(Best, log[Min(existing)], LAMBDA i : log[i], Max, existing))

\* The loop over the conflict's events, the new one last: it starts with the
\* first, and an event that is later than the winner so far replaces it.
Winner(e, existing) ==
    LET Best(f, w) == IF Later(f, w) THEN f ELSE w
    IN  Best(e, MapThenFoldSet(Best, log[Min(existing)], LAMBDA i : log[i], Max, existing))

\* Detect, and ResolveConflict up to its Save.
Conflict(e, existing) ==
    LET type == Classify(e, existing)
    IN  [type   |-> type,
         events |-> {log[i] : i \in existing} \cup {e},
         status |-> IF type = "semantic" THEN "manual" ELSE "auto_resolved",
         winner |-> IF type = "semantic" THEN 0 ELSE Winner(e, existing).id]

-----------------------------------------------------------------------------
(* Devices. *)

\* The syncs of device d that have read its queue and are about to remove it.
Removing(d) == {s \in Syncs : DeviceOf[s] = d /\ pc[s] = "remove"}

EventIds(q) == {q[i].id : i \in 1..Len(q)}

NewEvent(d, w) ==
    [id |-> created + 1, dev |-> d, res |-> w.res, type |-> w.type, ts |-> w.ts, ver |-> 0]

\* OfflineQueue.Enqueue: one O_APPEND write; the mutex is the queue value's own.
Enqueue(d, w) ==
    /\ created < MaxEvents
    /\ created' = created + 1
    /\ queue' = [queue EXCEPT ![d] = Append(@, NewEvent(d, w))]
    /\ enqueued' = enqueued \cup {created + 1}
    /\ exposed' = IF Removing(d) = {} THEN exposed ELSE exposed \cup {created + 1}
    /\ UNCHANGED <<log, latest, conflicts, synced, pc, batch, found, seen, faults>>

\* EventStore.Store appends the event under the version that follows the index ...
Stored(e) == Append(log, [e EXCEPT !.ver = latest + 1])

\* ... and writes the index, or fails to: the line stays, and the next event
\* takes the same version.
SaveIndex  == latest' = latest + 1 /\ UNCHANGED faults
IndexFails == faults < MaxFaults /\ faults' = faults + 1 /\ UNCHANGED latest

\* PublishEvent of a device that is online; no conflict is looked for.
PublishEvent(d, w) ==
    /\ created < MaxEvents
    /\ created' = created + 1
    /\ log' = Stored(NewEvent(d, w))
    /\ SaveIndex \/ IndexFails
    /\ UNCHANGED <<queue, enqueued, exposed, conflicts, synced, pc, batch, found, seen>>

-----------------------------------------------------------------------------
(* SyncDevice. *)

Goto(s, loc) == pc' = [pc EXCEPT ![s] = loc]

\* InitiateSync reads the latest version; a device that is up to date is done,
\* its queue unread.
StartSync(s) ==
    /\ pc[s] = "idle"
    /\ \E lastVersion \in {0, synced[DeviceOf[s]]} :
           Goto(s, IF lastVersion >= latest THEN "finish" ELSE "dequeue")
    /\ UNCHANGED <<created, queue, enqueued, exposed, log, latest, conflicts, synced, batch, found, seen, faults>>

\* Mutant: the newest event is read first.
MutReadQueueReversed(s) ==
    LET q == queue[DeviceOf[s]] IN
    /\ pc[s] = "dequeue"
    /\ batch' = [batch EXCEPT ![s] = [i \in 1..Len(q) |-> q[Len(q) + 1 - i]]]
    /\ Goto(s, "remove")
    /\ UNCHANGED <<created, queue, enqueued, exposed, log, latest, conflicts, synced, found, seen, faults>>

\* Dequeue reads the file ...
ReadQueue(s) ==
    LET q == queue[DeviceOf[s]] IN
    /\ pc[s] = "dequeue"
    /\ batch' = [batch EXCEPT ![s] = q]
    /\ exposed' = IF Removing(DeviceOf[s]) = {} THEN exposed ELSE exposed \cup EventIds(q)
    /\ Goto(s, "remove")
    /\ UNCHANGED <<created, queue, enqueued, log, latest, conflicts, synced, found, seen, faults>>

\* Mutant: the queue file is left in place.
MutRemoveNothing(s) ==
    /\ pc[s] = "remove"
    /\ Goto(s, "examine")
    /\ UNCHANGED <<created, queue, enqueued, exposed, log, latest, conflicts, synced, batch, found, seen, faults>>

\* ... and removes it.
RemoveQueue(s) ==
    /\ pc[s] = "remove"
    /\ queue' = [queue EXCEPT ![DeviceOf[s]] = <<>>]
    /\ Goto(s, "examine")
    /\ UNCHANGED <<created, enqueued, exposed, log, latest, conflicts, synced, batch, found, seen, faults>>

\* Detect for the next offline event.
Detect(s) ==
    /\ pc[s] = "examine"
    /\ batch[s] # <<>>
    /\ LET e == Head(batch[s])
           existing == IF e.res = NoResource THEN {} ELSE Conflicting(e)
       IN  /\ found' = [found EXCEPT ![s] = IF existing = {} THEN None ELSE Conflict(e, existing)]
           /\ seen' = [seen EXCEPT ![e.id] = Len(log)]
           /\ Goto(s, IF existing = {} THEN "store" ELSE "save")
    /\ UNCHANGED <<created, queue, enqueued, exposed, log, latest, conflicts, synced, batch, faults>>

\* ConflictStore.Save
SaveConflict(s) ==
    /\ pc[s] = "save"
    /\ conflicts' = conflicts \cup {found[s]}
    /\ found' = [found EXCEPT ![s] = None]
    /\ Goto(s, "store")
    /\ UNCHANGED <<created, queue, enqueued, exposed, log, latest, synced, batch, seen, faults>>

\* The event is stored, conflict or not; an error stops the sync.
StoreEvent(s) ==
    /\ pc[s] = "store"
    /\ log' = Stored(Head(batch[s]))
    /\ batch' = [batch EXCEPT ![s] = Tail(@)]
    /\ \/ SaveIndex /\ Goto(s, "examine")
       \/ IndexFails /\ Goto(s, "failed")
    /\ UNCHANGED <<created, queue, enqueued, exposed, conflicts, synced, found, seen>>

AllStored(s) ==
    /\ pc[s] = "examine"
    /\ batch[s] = <<>>
    /\ Goto(s, "finish")
    /\ UNCHANGED <<created, queue, enqueued, exposed, log, latest, conflicts, synced, batch, found, seen, faults>>

\* SyncDevice records how far the log goes now in the device's link, if it can,
\* and returns nil.
Finish(s) ==
    /\ pc[s] = "finish"
    /\ \/ synced' = [synced EXCEPT ![DeviceOf[s]] = latest]
       \/ UNCHANGED synced
    /\ Goto(s, "idle")
    /\ UNCHANGED <<created, queue, enqueued, exposed, log, latest, conflicts, batch, found, seen, faults>>

\* The sync that has taken the events out of the queue.
Holds(s) == pc[s] \in {"examine", "save", "store", "failed"}

\* An error return of any step, or the death of the process: what was taken from
\* the queue and not yet stored is gone.
Fail(s) ==
    /\ \/ pc[s] = "failed" /\ UNCHANGED faults
       \/ pc[s] \notin {"idle", "failed"} /\ faults < MaxFaults /\ faults' = faults + 1
    /\ exposed' = IF Holds(s) THEN exposed \cup EventIds(batch[s]) ELSE exposed
    /\ batch' = [batch EXCEPT ![s] = <<>>]
    /\ found' = [found EXCEPT ![s] = None]
    /\ Goto(s, "idle")
    /\ UNCHANGED <<created, queue, enqueued, log, latest, conflicts, synced, seen>>

-----------------------------------------------------------------------------
Write == \E d \in Devices, w \in Writes : Enqueue(d, w) \/ PublishEvent(d, w)

SyncDevice(s) ==
    \/ StartSync(s)
    \/ ReadQueue(s)
    \/ RemoveQueue(s)
    \/ Detect(s)
    \/ SaveConflict(s)
    \/ StoreEvent(s)
    \/ AllStored(s)
    \/ Finish(s)
    \/ Fail(s)

Next == Write \/ \E s \in Syncs : SyncDevice(s)

Spec == Init /\ [][Next]_vars

-----------------------------------------------------------------------------
(* Properties. *)

TypeOK ==
    /\ created \in 0..MaxEvents
    /\ enqueued \subseteq 1..created /\ exposed \subseteq enqueued /\ latest \in Nat
    /\ queue \in [Devices -> Seq(Event)]
    /\ log \in Seq(Event)
    /\ \A c \in conflicts : c.events \subseteq Event /\ c.winner \in 0..created
    /\ synced \in [Devices -> Nat]
    /\ pc \in [Syncs -> {"idle", "dequeue", "remove", "examine", "save", "store", "failed", "finish"}]
    /\ batch \in [Syncs -> Seq(Event)]
    /\ seen \in [1..MaxEvents -> Nat]
    /\ faults \in 0..MaxFaults

Positions(seq, n) == {i \in 1..Len(seq) : seq[i].id = n}

\* Where an event is.
Copies(n) ==
    {<<"log", i>> : i \in Positions(log, n)}
    \cup (UNION {{<<"queue", d, i>> : i \in Positions(queue[d], n)} : d \in Devices})
    \cup (UNION {{<<"batch", s, i>> : i \in Positions(batch[s], n)} : s \in {t \in Syncs : Holds(t)}})

\* Dequeue and InitiateSync: whatever fails, overlaps and is tried again, an
\* offline event is in exactly one place: its device's queue, the batch of the
\* sync that removed the queue, or, once, the log.  The exceptions are the events
\* that a failing sync held, that came between another call's reading and
\* removing of the file, or that two calls read before either removed it.
KeptOnce == \A n \in enqueued \ exposed : Cardinality(Copies(n)) = 1

\* A device's offline events enter the log in the order it enqueued them, also
\* across syncs that fail half way.
QueueOrder ==
    \A i, j \in 1..Len(log) :
        /\ i < j
        /\ log[i].dev = log[j].dev
        /\ {log[i].id, log[j].id} \subseteq enqueued
        => log[i].id < log[j].id

InConflict(e, f) ==
    \E c \in conflicts : {e.id, f.id} \subseteq {a.id : a \in c.events}

\* Detect and ResolveConflict: every offline event in the log is in a recorded
\* conflict with every event of another device on its resource that was in the
\* log when it was examined, whatever failed or was retried in between.
ConflictsCovered ==
    \A i, j \in 1..Len(log) :
        /\ log[j].id \in enqueued
        /\ i <= seen[log[j].id]
        /\ log[i].dev # log[j].dev
        /\ log[i].res = log[j].res
        /\ log[i].res # NoResource
        => InConflict(log[i], log[j])

\* LWWResolver: no event of an automatically resolved conflict has a later time
\* than its winner, and none of another device with the same time a greater
\* device identifier.  (Of two events of one device with the same time, the one
\* that is first in the log wins.)
WinnerIsLatest ==
    \A c \in conflicts :
        c.status = "auto_resolved" =>
            \E w \in c.events : w.id = c.winner /\ \A a \in c.events : ~Later(a, w)

\* offline_queue.go:14-17: queued events are kept in a file "so they survive
\* process restarts".
SurvivesRestart ==
    \A n \in enqueued :
        \/ Positions(log, n) # {}
        \/ \E d \in Devices : Positions(queue[d], n) # {}
        \/ \E s \in Syncs : Positions(batch[s], n) # {}

\* docs/stories/050-multi-device-workspace-access.md, Offline Synchronization: when
\* a device reconnects, "all offline changes are synced to the workspace".
ReconnectSyncs == \A s \in Syncs : pc[s] = "finish" => queue[DeviceOf[s]] = <<>>
=============================================================================
