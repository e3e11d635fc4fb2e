-------------------------- MODULE WorkspaceSyncProofs --------------------------
(***************************************************************************)
(* What module WorkspaceSync promises, for any number of devices, events,  *)
(* writes and failures.  The order of a device's offline events and the    *)
(* record of their conflicts need OneAtATime: no two calls of SyncDevice   *)
(* for the same device run at the same time.                               *)
(***************************************************************************)
EXTENDS WorkspaceSync, FiniteSetTheorems, SequenceTheorems, WellFoundedInduction, TLAPS

OneAtATime == \A s, t \in Syncs : DeviceOf[s] = DeviceOf[t] => s = t

\* The queue of the device that a call synchronises.
Mine(s) == queue[DeviceOf[s]]

Rising(q) == \A i, j \in 1..Len(q) : i < j => q[i].id < q[j].id

-----------------------------------------------------------------------------
(* The inductive invariant. *)

Types ==
    /\ created \in 0..MaxEvents /\ enqueued \subseteq 1..created
    /\ exposed \subseteq enqueued /\ latest \in Nat
    /\ queue \in [Devices -> Seq(Event)]
    /\ log \in Seq(Event)
    /\ pc \in [Syncs -> {"idle", "dequeue", "remove", "examine", "save", "store", "failed", "finish"}]
    /\ batch \in [Syncs -> Seq(Event)]
    /\ seen \in [1..MaxEvents -> Nat]
    /\ faults \in 0..MaxFaults

\* What is queued or in a batch was enqueued and never stored; a sync has a
\* batch only while it works on it.
Offline ==
    /\ \A i \in 1..Len(log) : log[i].id <= created
    /\ \A d \in Devices : \A i \in 1..Len(queue[d]) : queue[d][i].id \in enqueued /\ queue[d][i].ver = 0
    /\ \A s \in Syncs :
         /\ \A i \in 1..Len(batch[s]) : batch[s][i].id \in enqueued /\ batch[s][i].ver = 0
         /\ pc[s] \in {"idle", "dequeue", "finish"} => batch[s] = <<>>
         /\ pc[s] \in {"save", "store"} => batch[s] # <<>>

\* An event identifier stands for one device's event wherever it occurs; an
\* event that is not yet written may have no author.
WrittenBy(author) ==
    /\ \A i \in 1..Len(log) : author[log[i].id] = log[i].dev
    /\ \A d \in Devices : \A i \in 1..Len(queue[d]) : author[queue[d][i].id] = d /\ queue[d][i].dev = d
    /\ \A s \in Syncs : \A i \in 1..Len(batch[s]) :
         author[batch[s][i].id] = DeviceOf[s] /\ batch[s][i].dev = DeviceOf[s]

Authors == \E author \in [1..MaxEvents -> Devices \cup {0}] : WrittenBy(author)

\* Log, batch and queue of a device, one after the other, are in the order in
\* which it enqueued its events.
Order ==
    /\ \A d \in Devices : Rising(queue[d])
    /\ \A s \in Syncs : Rising(batch[s])
    /\ \A s \in Syncs : Holds(s) =>
         \A i \in 1..Len(batch[s]), j \in 1..Len(Mine(s)) : batch[s][i].id < Mine(s)[j].id
    /\ \A i \in 1..Len(log) : log[i].id \in enqueued =>
         /\ \A j \in 1..Len(queue[log[i].dev]) : log[i].id < queue[log[i].dev][j].id
         /\ \A s \in Syncs : DeviceOf[s] = log[i].dev =>
              \A j \in 1..Len(batch[s]) : log[i].id < batch[s][j].id

\* Exactly one copy, in three cases.
Held(s, n) == IF Holds(s) THEN Positions(batch[s], n) ELSE {}

OnlyInLog(n) ==
    /\ \E i : Positions(log, n) = {i}
    /\ \A d \in Devices : Positions(queue[d], n) = {}
    /\ \A s \in Syncs : Held(s, n) = {}
OnlyInQueue(n, d) ==
    /\ Positions(log, n) = {}
    /\ \E i : Positions(queue[d], n) = {i}
    /\ \A c \in Devices \ {d} : Positions(queue[c], n) = {}
    /\ \A s \in Syncs : Held(s, n) = {}
OnlyInBatch(n, s) ==
    /\ Positions(log, n) = {}
    /\ \A d \in Devices : Positions(queue[d], n) = {}
    /\ \E i : Held(s, n) = {i}
    /\ \A t \in Syncs \ {s} : Held(t, n) = {}

Once(n) ==
    \/ OnlyInLog(n)
    \/ \E d \in Devices : OnlyInQueue(n, d)
    \/ \E s \in Syncs : OnlyInBatch(n, s)

\* An event that nothing has exposed is in one place; a sync that is about to
\* remove its device's queue has read just what is there of them, and is the only
\* one that has.
ReadHere(s, n) == pc[s] = "remove" => Positions(batch[s], n) = Positions(Mine(s), n)
Single(s, t, n) ==
    s # t /\ DeviceOf[s] = DeviceOf[t] /\ pc[s] = "remove" /\ pc[t] = "remove"
        => Positions(batch[s], n) = {}

KeptFor(n) ==
    /\ n \in enqueued => Once(n)
    /\ \A s \in Syncs : ReadHere(s, n)
    /\ \A s, t \in Syncs : Single(s, t, n)

Kept == \A n \in 1..MaxEvents : n \notin exposed => KeptFor(n)

\* The stored events that event e was examined against and conflicts with.
Rivals(e) ==
    {i \in 1..Len(log) : /\ i <= seen[e.id]
                         /\ log[i].dev # e.dev /\ log[i].res = e.res /\ e.res # NoResource}

Ids(c) == {a.id : a \in c.events}

\* A conflict is found, then saved, then its event is stored.
Covered ==
    /\ DOMAIN found = Syncs
    /\ \A n \in 1..MaxEvents : seen[n] <= Len(log)
    /\ \A s \in Syncs : \A e \in Event : e = Head(batch[s]) =>
         /\ pc[s] = "save"  => \A i \in Rivals(e) : {log[i].id, e.id} \subseteq Ids(found[s])
         /\ pc[s] = "store" => \A i \in Rivals(e) : \E c \in conflicts : {log[i].id, e.id} \subseteq Ids(c)
    /\ \A j \in 1..Len(log) : \A e \in Event : e = log[j] /\ e.id \in enqueued =>
         \A i \in Rivals(e) : \E c \in conflicts : {log[i].id, e.id} \subseteq Ids(c)

IInv == Types /\ Offline /\ Authors /\ Order /\ QueueOrder /\ Covered

-----------------------------------------------------------------------------
(* Sequences, and the event a device writes. *)

LEMMA Appends ==
    ASSUME NEW S, NEW q \in Seq(S), NEW x \in S
    PROVE  /\ Append(q, x) \in Seq(S) /\ Len(q) \in Nat /\ Len(Append(q, x)) = Len(q) + 1
           /\ \A i \in 1..Len(q) : Append(q, x)[i] = q[i] /\ q[i] \in S
           /\ Append(q, x)[Len(q) + 1] = x
  OBVIOUS

LEMMA Tails ==
    ASSUME NEW S, NEW q \in Seq(S), q # <<>>
    PROVE  /\ Head(q) = q[1] /\ Head(q) \in S /\ Len(q) \in Nat /\ 1 \in 1..Len(q)
           /\ Tail(q) \in Seq(S) /\ Len(Tail(q)) = Len(q) - 1
           /\ \A i \in 1..Len(Tail(q)) : Tail(q)[i] = q[i + 1] /\ i + 1 \in 2..Len(q)
  OBVIOUS

LEMMA Elements ==
    ASSUME NEW S, NEW q \in Seq(S)
    PROVE  Len(q) \in Nat /\ \A i \in 1..Len(q) : q[i] \in S
  OBVIOUS

LEMMA EventFields ==
    ASSUME NEW e \in Event
    PROVE  /\ e.id \in 1..MaxEvents /\ e.dev \in Devices /\ e.ver \in Nat
           /\ \A v \in Nat : /\ [e EXCEPT !.ver = v] \in Event
                             /\ [e EXCEPT !.ver = v].id = e.id /\ [e EXCEPT !.ver = v].dev = e.dev
                             /\ [e EXCEPT !.ver = v].res = e.res
  BY DEF Event

LEMMA NewEventIs ==
    ASSUME NEW d \in Devices, NEW w \in Writes, created \in 0..MaxEvents, created < MaxEvents
    PROVE  /\ NewEvent(d, w) \in Event
           /\ NewEvent(d, w).id = created + 1 /\ NewEvent(d, w).dev = d /\ NewEvent(d, w).ver = 0
  BY WriteAssumption, SyncBounds DEF NewEvent, Event

LEMMA StoredIs ==
    ASSUME log \in Seq(Event), latest \in Nat, NEW e \in Event
    PROVE  /\ Stored(e) \in Seq(Event) /\ Len(log) \in Nat /\ Len(Stored(e)) = Len(log) + 1
           /\ \A i \in 1..Len(log) : Stored(e)[i] = log[i] /\ log[i] \in Event
           /\ Stored(e)[Len(log) + 1].id = e.id /\ Stored(e)[Len(log) + 1].dev = e.dev
           /\ Stored(e)[Len(log) + 1].res = e.res
<1>1. Len(log) \in Nat /\ latest + 1 \in Nat
  OBVIOUS
<1> DEFINE x == [e EXCEPT !.ver = latest + 1]
<1>2. x \in Event /\ x.id = e.id /\ x.dev = e.dev /\ x.res = e.res
  BY <1>1 DEF Event
<1> HIDE DEF x
<1>3. Stored(e) = Append(log, x)
  BY DEF Stored, x
<1> QED  BY <1>1, <1>2, <1>3, Appends

-----------------------------------------------------------------------------
(* Types. *)

LEMMA TypesStep ==
    ASSUME Types, Offline, [Next]_vars
    PROVE  Types'
<1> USE DEF Types, Goto
<1>0. DeviceOf \in [Syncs -> Devices] /\ MaxEvents \in Nat /\ MaxFaults \in Nat /\ <<>> \in Seq(Event)
  BY SyncAssumption, SyncBounds
<1>1. ASSUME NEW d \in Devices, NEW w \in Writes, Enqueue(d, w)
      PROVE  Types'
  <2>1. created < MaxEvents
    BY <1>1 DEF Enqueue
  <2>2. Append(queue[d], NewEvent(d, w)) \in Seq(Event)
    BY <2>1, NewEventIs, Appends
  <2>3. queue' \in [Devices -> Seq(Event)]
    BY <1>1, <2>2 DEF Enqueue
  <2>4. created' \in 0..MaxEvents /\ enqueued' \subseteq 1..created'
    BY <1>0, <1>1 DEF Enqueue
  <2> QED  BY <1>1, <2>3, <2>4 DEF Enqueue
<1>2. ASSUME NEW d \in Devices, NEW w \in Writes, PublishEvent(d, w)
      PROVE  Types'
  <2>1. created < MaxEvents
    BY <1>2 DEF PublishEvent
  <2>2. log' \in Seq(Event)
    BY <1>2, <2>1, NewEventIs, StoredIs DEF PublishEvent
  <2>3. created' \in 0..MaxEvents /\ enqueued' \subseteq 1..created'
    BY <1>0, <1>2 DEF PublishEvent
  <2>4. latest' \in Nat /\ faults' \in 0..MaxFaults
    BY <1>0, <1>2 DEF PublishEvent, SaveIndex, IndexFails
  <2> QED  BY <1>2, <2>2, <2>3, <2>4 DEF PublishEvent
<1>3. ASSUME NEW s \in Syncs, StartSync(s) \/ AllStored(s) \/ Finish(s) \/ SaveConflict(s)
      PROVE  Types'
  BY <1>3 DEF StartSync, AllStored, Finish, SaveConflict
<1>4. ASSUME NEW s \in Syncs, ReadQueue(s)
      PROVE  Types'
  <2>1. EventIds(queue[DeviceOf[s]]) \subseteq enqueued
    BY <1>0 DEF EventIds, Offline
  <2>2. exposed' \subseteq enqueued
    BY <1>4, <2>1 DEF ReadQueue
  <2> QED  BY <1>0, <1>4, <2>2 DEF ReadQueue
<1>5. ASSUME NEW s \in Syncs, RemoveQueue(s)
      PROVE  Types'
  BY <1>0, <1>5 DEF RemoveQueue
<1>6. ASSUME NEW s \in Syncs, Detect(s)
      PROVE  Types'
  <2>1. Head(batch[s]).id \in 1..MaxEvents /\ Len(log) \in Nat
    BY <1>6, Tails, Elements, EventFields DEF Detect
  <2>2. seen' \in [1..MaxEvents -> Nat]
    BY <1>6, <2>1 DEF Detect
  <2> QED  BY <1>6, <2>2 DEF Detect
<1>7. ASSUME NEW s \in Syncs, StoreEvent(s)
      PROVE  Types'
  <2>1. batch[s] # <<>> /\ batch[s] \in Seq(Event)
    BY <1>7 DEF StoreEvent, Offline
  <2>2. Head(batch[s]) \in Event /\ Tail(batch[s]) \in Seq(Event)
    BY <2>1, Tails
  <2>3. log' \in Seq(Event)
    BY <1>7, <2>2, StoredIs DEF StoreEvent
  <2>4. latest' \in Nat /\ faults' \in 0..MaxFaults
    BY <1>0, <1>7 DEF StoreEvent, SaveIndex, IndexFails
  <2>5. pc' \in [Syncs -> {"idle", "dequeue", "remove", "examine", "save", "store", "failed", "finish"}]
    BY <1>7 DEF StoreEvent
  <2> QED  BY <1>7, <2>2, <2>3, <2>4, <2>5 DEF StoreEvent
<1>8. ASSUME NEW s \in Syncs, Fail(s)
      PROVE  Types'
  <2>1. EventIds(batch[s]) \subseteq enqueued
    BY DEF EventIds, Offline
  <2>2. exposed' \subseteq enqueued
    BY <1>8, <2>1 DEF Fail
  <2>3. faults' \in 0..MaxFaults
    BY <1>0, <1>8 DEF Fail
  <2> QED  BY <1>0, <1>8, <2>2, <2>3 DEF Fail
<1>9. CASE UNCHANGED vars
  BY <1>9 DEF vars
<1> QED  BY <1>1, <1>2, <1>3, <1>4, <1>5, <1>6, <1>7, <1>8, <1>9 DEF Next, Write, SyncDevice

\* What the steps do to log, queues and batches, with the events they move.
Moves ==
    \/ \E d \in Devices, e \in Event :
         /\ created' = created + 1 /\ e.id = created + 1 /\ e.dev = d /\ e.ver = 0
         /\ UNCHANGED <<batch, pc>>
         /\ \/ /\ enqueued' = enqueued \cup {e.id} /\ UNCHANGED log
               /\ exposed' = (IF Removing(d) = {} THEN exposed ELSE exposed \cup {e.id})
               /\ queue' = [queue EXCEPT ![d] = Append(@, e)]
            \/ UNCHANGED <<queue, enqueued, exposed>> /\ log' = Stored(e)
    \/ \E s \in Syncs :
         /\ UNCHANGED <<created, enqueued>>
         /\ \/ /\ pc[s] = "dequeue" /\ pc' = [pc EXCEPT ![s] = "remove"]
               /\ batch' = [batch EXCEPT ![s] = Mine(s)] /\ UNCHANGED <<log, queue>>
               /\ exposed' = (IF Removing(DeviceOf[s]) = {} THEN exposed ELSE exposed \cup EventIds(Mine(s)))
            \/ /\ pc[s] = "remove" /\ pc' = [pc EXCEPT ![s] = "examine"]
               /\ queue' = [queue EXCEPT ![DeviceOf[s]] = <<>>] /\ UNCHANGED <<log, batch, exposed>>
            \/ /\ pc[s] = "store" /\ \E loc \in {"examine", "failed"} : pc' = [pc EXCEPT ![s] = loc]
               /\ log' = Stored(Head(batch[s])) /\ batch' = [batch EXCEPT ![s] = Tail(@)]
               /\ UNCHANGED <<queue, exposed>>
            \/ /\ pc' = [pc EXCEPT ![s] = "idle"] /\ batch' = [batch EXCEPT ![s] = <<>>]
               /\ exposed' = (IF Holds(s) THEN exposed \cup EventIds(batch[s]) ELSE exposed)
               /\ UNCHANGED <<log, queue>>
            \/ /\ UNCHANGED <<log, queue, batch, exposed>>
               /\ \E loc \in {"dequeue", "finish", "idle", "save", "store"} :
                    /\ pc' = [pc EXCEPT ![s] = loc]
                    /\ loc \in {"save", "store"} => pc[s] \in {"examine", "save"} /\ batch[s] # <<>>
                    /\ loc \notin {"save", "store"} => batch[s] = <<>> /\ pc[s] \in {"idle", "examine", "finish"}
    \/ UNCHANGED <<created, enqueued, exposed, log, queue, batch, pc>>

LEMMA NextMoves ==
    ASSUME Types, Offline, [Next]_vars
    PROVE  Moves
<1> USE DEF Goto
<1>1. ASSUME NEW d \in Devices, NEW w \in Writes, Enqueue(d, w)
      PROVE  Moves
  <2>1. /\ NewEvent(d, w) \in Event /\ NewEvent(d, w).id = created + 1
        /\ NewEvent(d, w).dev = d /\ NewEvent(d, w).ver = 0
    BY <1>1, NewEventIs DEF Enqueue, Types
  <2> QED  BY <1>1, <2>1 DEF Enqueue, Moves
<1>2. ASSUME NEW d \in Devices, NEW w \in Writes, PublishEvent(d, w)
      PROVE  Moves
  <2>1. /\ NewEvent(d, w) \in Event /\ NewEvent(d, w).id = created + 1
        /\ NewEvent(d, w).dev = d /\ NewEvent(d, w).ver = 0
    BY <1>2, NewEventIs DEF PublishEvent, Types
  <2> QED  BY <1>2, <2>1 DEF PublishEvent, Moves
<1>3. ASSUME NEW s \in Syncs, StartSync(s)
      PROVE  Moves
  BY <1>3 DEF StartSync, Moves, Offline
<1>4. ASSUME NEW s \in Syncs, ReadQueue(s)
      PROVE  Moves
  BY <1>4 DEF ReadQueue, Moves, Mine
<1>5. ASSUME NEW s \in Syncs, RemoveQueue(s)
      PROVE  Moves
  BY <1>5 DEF RemoveQueue, Moves
<1>6. ASSUME NEW s \in Syncs, Detect(s)
      PROVE  Moves
  <2>1. \E loc \in {"save", "store"} : pc' = [pc EXCEPT ![s] = loc]
    BY <1>6 DEF Detect
  <2>2. pc[s] = "examine" /\ batch[s] # <<>> /\ UNCHANGED <<created, enqueued, exposed, log, queue, batch>>
    BY <1>6 DEF Detect
  <2> QED  BY <2>1, <2>2 DEF Moves
<1>7. ASSUME NEW s \in Syncs, SaveConflict(s)
      PROVE  Moves
  BY <1>7 DEF SaveConflict, Moves, Offline
<1>8. ASSUME NEW s \in Syncs, StoreEvent(s)
      PROVE  Moves
  BY <1>8 DEF StoreEvent, Moves
<1>9. ASSUME NEW s \in Syncs, AllStored(s) \/ Finish(s)
      PROVE  Moves
  BY <1>9 DEF AllStored, Finish, Moves, Offline
<1>10. ASSUME NEW s \in Syncs, Fail(s)
      PROVE  Moves
  BY <1>10 DEF Fail, Moves
<1>11. CASE UNCHANGED vars
  BY <1>11 DEF vars, Moves
<1> QED  BY <1>1, <1>2, <1>3, <1>4, <1>5, <1>6, <1>7, <1>8, <1>9, <1>10, <1>11 DEF Next, Write, SyncDevice

-----------------------------------------------------------------------------
(* Offline events, their authors, and their order. *)

LEMMA OfflineStep ==
    ASSUME Types, Offline, [Next]_vars
    PROVE  Offline'
<1>0. /\ DeviceOf \in [Syncs -> Devices] /\ created \in Nat /\ enqueued \subseteq 1..created
      /\ log \in Seq(Event) /\ queue \in [Devices -> Seq(Event)] /\ batch \in [Syncs -> Seq(Event)]
      /\ pc \in [Syncs -> {"idle", "dequeue", "remove", "examine", "save", "store", "failed", "finish"}]
  BY SyncAssumption DEF Types
<1>1. /\ created' \in Nat /\ created <= created' /\ enqueued \subseteq enqueued'
  BY <1>0, NextMoves DEF Moves
<1>2. \A i \in 1..Len(log') : log'[i].id <= created'
  <2>1. CASE UNCHANGED log
    BY <1>0, <1>1, <2>1, Elements, EventFields DEF Offline
  <2>2. ASSUME NEW e \in Event, log' = Stored(e), e.id <= created'
        PROVE  \A i \in 1..Len(log') : log'[i].id <= created'
    <3>1. /\ Len(log') = Len(log) + 1 /\ Len(log) \in Nat /\ log'[Len(log) + 1].id = e.id
          /\ \A i \in 1..Len(log) : log'[i] = log[i] /\ log[i] \in Event
      BY <1>0, <2>2, StoredIs DEF Types
    <3>2. \A i \in 1..Len(log) : log'[i].id <= created'
      BY <1>0, <1>1, <3>1, EventFields DEF Offline
    <3>3. \A i \in 1..Len(log') : i \in 1..Len(log) \/ i = Len(log) + 1
      BY <3>1
    <3> QED  BY <2>2, <3>1, <3>2, <3>3
  <2>3. ASSUME NEW s \in Syncs, pc[s] = "store"
        PROVE  Head(batch[s]) \in Event /\ Head(batch[s]).id <= created'
    <3>1. batch[s] # <<>> /\ batch[s] \in Seq(Event)
      BY <1>0, <2>3 DEF Offline
    <3>2. Head(batch[s]) \in Event /\ Head(batch[s]).id \in enqueued
      BY <3>1, Tails DEF Offline
    <3>3. Head(batch[s]).id \in 1..created
      BY <1>0, <3>2
    <3> QED  BY <1>0, <1>1, <3>2, <3>3
  <2>4. \/ UNCHANGED log
        \/ \E e \in Event : log' = Stored(e) /\ e.id = created + 1 /\ created' = created + 1
        \/ \E s \in Syncs : pc[s] = "store" /\ log' = Stored(Head(batch[s]))
    BY NextMoves DEF Moves
  <2>5. CASE \E e \in Event : log' = Stored(e) /\ e.id = created + 1 /\ created' = created + 1
    <3>1. PICK e \in Event : log' = Stored(e) /\ e.id = created + 1 /\ created' = created + 1
      BY <2>5
    <3>2. e.id <= created'
      BY <1>0, <3>1
    <3> QED  BY <2>2, <3>1, <3>2
  <2>6. CASE \E s \in Syncs : pc[s] = "store" /\ log' = Stored(Head(batch[s]))
    BY <2>2, <2>3, <2>6
  <2> QED  BY <2>1, <2>4, <2>5, <2>6
<1>3. ASSUME NEW d \in Devices, NEW i \in 1..Len(queue'[d])
      PROVE  queue'[d][i].id \in enqueued' /\ queue'[d][i].ver = 0
  <2>1. CASE UNCHANGED queue
    BY <1>1, <1>3, <2>1 DEF Offline
  <2>2. ASSUME NEW c \in Devices, NEW e \in Event, e.id \in enqueued', e.ver = 0,
               queue' = [queue EXCEPT ![c] = Append(@, e)]
        PROVE  queue'[d][i].id \in enqueued' /\ queue'[d][i].ver = 0
    <3>1. CASE d # c
      BY <1>0, <1>1, <1>3, <2>2, <3>1 DEF Offline
    <3>2. CASE d = c
      <4>1. queue'[d] = Append(queue[d], e)
        BY <1>0, <2>2, <3>2
      <4>2. (i \in 1..Len(queue[d]) /\ queue'[d][i] = queue[d][i]) \/ queue'[d][i] = e
        BY <1>0, <4>1, Appends
      <4> QED  BY <1>1, <2>2, <4>2 DEF Offline
    <3> QED  BY <3>1, <3>2
  <2>3. ASSUME NEW c \in Devices, queue' = [queue EXCEPT ![c] = <<>>]
        PROVE  queue'[d][i].id \in enqueued' /\ queue'[d][i].ver = 0
    <3>1. d # c
      BY <1>0, <1>3, <2>3
    <3> QED  BY <1>0, <1>1, <1>3, <2>3, <3>1 DEF Offline
  <2> QED  BY <1>0, <2>1, <2>2, <2>3, NextMoves DEF Moves
<1>4. ASSUME NEW s \in Syncs
      PROVE  /\ \A i \in 1..Len(batch'[s]) : batch'[s][i].id \in enqueued' /\ batch'[s][i].ver = 0
             /\ pc'[s] \in {"idle", "dequeue", "finish"} => batch'[s] = <<>>
             /\ pc'[s] \in {"save", "store"} => batch'[s] # <<>>
  <2>0. /\ \A i \in 1..Len(batch[s]) : batch[s][i].id \in enqueued' /\ batch[s][i].ver = 0
        /\ pc[s] \in {"idle", "dequeue", "finish"} => batch[s] = <<>>
        /\ pc[s] \in {"save", "store"} => batch[s] # <<>>
    BY <1>1 DEF Offline
  <2>1. CASE batch'[s] = batch[s] /\ pc'[s] = pc[s]
    BY <2>0, <2>1
  <2>2. CASE batch'[s] = Mine(s) /\ pc'[s] = "remove"
    <3>1. batch'[s] = queue[DeviceOf[s]] /\ DeviceOf[s] \in Devices
      BY <1>0, <2>2 DEF Mine
    <3>2. \A i \in 1..Len(queue[DeviceOf[s]]) :
            queue[DeviceOf[s]][i].id \in enqueued /\ queue[DeviceOf[s]][i].ver = 0
      BY <3>1 DEF Offline
    <3> QED  BY <1>1, <2>2, <3>1, <3>2
  <2>3. CASE batch'[s] = batch[s] /\ pc'[s] = "examine"
    BY <2>0, <2>3
  <2>4. CASE pc[s] = "store" /\ batch'[s] = Tail(batch[s]) /\ pc'[s] \in {"examine", "failed"}
    <3>1. \A i \in 1..Len(batch'[s]) : i + 1 \in 1..Len(batch[s]) /\ batch'[s][i] = batch[s][i + 1]
      BY <1>0, <2>0, <2>4, Tails
    <3> QED  BY <2>0, <2>4, <3>1
  <2>5. CASE batch'[s] = <<>> /\ pc'[s] = "idle"
    BY <2>5
  <2>6. CASE /\ batch'[s] = batch[s]
             /\ pc'[s] \in {"dequeue", "finish", "idle", "save", "store"}
             /\ pc'[s] \in {"save", "store"} => batch[s] # <<>>
             /\ pc'[s] \notin {"save", "store"} => batch[s] = <<>>
    BY <2>0, <2>6
  <2>7. \/ batch'[s] = batch[s] /\ pc'[s] = pc[s]
        \/ batch'[s] = Mine(s) /\ pc'[s] = "remove"
        \/ batch'[s] = batch[s] /\ pc'[s] = "examine"
        \/ pc[s] = "store" /\ batch'[s] = Tail(batch[s]) /\ pc'[s] \in {"examine", "failed"}
        \/ batch'[s] = <<>> /\ pc'[s] = "idle"
        \/ /\ batch'[s] = batch[s]
           /\ pc'[s] \in {"dequeue", "finish", "idle", "save", "store"}
           /\ pc'[s] \in {"save", "store"} => batch[s] # <<>>
           /\ pc'[s] \notin {"save", "store"} => batch[s] = <<>>
    BY <1>0, NextMoves DEF Moves
  <2> QED  BY <2>1, <2>2, <2>3, <2>4, <2>5, <2>6, <2>7
<1> QED  BY <1>2, <1>3, <1>4 DEF Offline

\* The cases of a step, as far as events move.
Enqueued(d, e) ==
    /\ created' = created + 1 /\ e.id = created + 1 /\ e.dev = d /\ e.ver = 0
    /\ enqueued' = enqueued \cup {created + 1}
    /\ exposed' = (IF Removing(d) = {} THEN exposed ELSE exposed \cup {created + 1})
    /\ queue' = [queue EXCEPT ![d] = Append(@, e)] /\ UNCHANGED <<log, batch, pc>>
Published(d, e) ==
    /\ created' = created + 1 /\ e.id = created + 1 /\ e.dev = d /\ e.ver = 0
    /\ log' = Stored(e) /\ UNCHANGED <<queue, enqueued, exposed, batch, pc>>
Taken(s) ==
    /\ pc[s] = "dequeue" /\ pc' = [pc EXCEPT ![s] = "remove"]
    /\ batch' = [batch EXCEPT ![s] = Mine(s)] /\ UNCHANGED <<created, enqueued, log, queue>>
    /\ exposed' = (IF Removing(DeviceOf[s]) = {} THEN exposed ELSE exposed \cup EventIds(Mine(s)))
Removed(s) ==
    /\ pc[s] = "remove" /\ pc' = [pc EXCEPT ![s] = "examine"]
    /\ queue' = [queue EXCEPT ![DeviceOf[s]] = <<>>] /\ UNCHANGED <<created, enqueued, exposed, log, batch>>
Moved(s) ==
    /\ pc[s] = "store" /\ batch[s] # <<>>
    /\ \E loc \in {"examine", "failed"} : pc' = [pc EXCEPT ![s] = loc]
    /\ log' = Stored(Head(batch[s])) /\ batch' = [batch EXCEPT ![s] = Tail(@)]
    /\ UNCHANGED <<created, enqueued, exposed, queue>>
Failed(s) ==
    /\ pc' = [pc EXCEPT ![s] = "idle"] /\ batch' = [batch EXCEPT ![s] = <<>>]
    /\ exposed' = (IF Holds(s) THEN exposed \cup EventIds(batch[s]) ELSE exposed)
    /\ UNCHANGED <<created, enqueued, log, queue>>
Turned(s) ==
    /\ UNCHANGED <<created, enqueued, exposed, log, queue, batch>>
    /\ \E loc \in {"dequeue", "finish", "idle", "save", "store"} :
         /\ pc' = [pc EXCEPT ![s] = loc]
         /\ loc \in {"save", "store"} => pc[s] \in {"examine", "save"} /\ batch[s] # <<>>
         /\ loc \notin {"save", "store"} => batch[s] = <<>> /\ pc[s] \in {"idle", "examine", "finish"}
Still == UNCHANGED <<created, enqueued, exposed, log, queue, batch, pc>>

LEMMA Cases ==
    ASSUME Types, Offline, [Next]_vars
    PROVE  \/ \E d \in Devices, e \in Event : Enqueued(d, e) \/ Published(d, e)
           \/ \E s \in Syncs : Taken(s) \/ Removed(s) \/ Moved(s) \/ Failed(s) \/ Turned(s)
           \/ Still
<1>1. \A s \in Syncs : pc[s] = "store" => batch[s] # <<>>
  BY DEF Offline
<1>2. Moves
  BY NextMoves
<1>3. ASSUME NEW d \in Devices, NEW e \in Event,
             /\ created' = created + 1 /\ e.id = created + 1 /\ e.dev = d /\ e.ver = 0
             /\ UNCHANGED <<batch, pc>>
             /\ \/ /\ enqueued' = enqueued \cup {e.id} /\ UNCHANGED log
                   /\ exposed' = (IF Removing(d) = {} THEN exposed ELSE exposed \cup {e.id})
                   /\ queue' = [queue EXCEPT ![d] = Append(@, e)]
                \/ UNCHANGED <<queue, enqueued, exposed>> /\ log' = Stored(e)
      PROVE  Enqueued(d, e) \/ Published(d, e)
  BY <1>3 DEF Enqueued, Published
<1> QED  BY <1>1, <1>2, <1>3 DEF Moves, Taken, Removed, Moved, Failed, Turned, Still

LEMMA Shapes ==
    ASSUME Types
    PROVE  /\ DeviceOf \in [Syncs -> Devices] /\ created \in Nat /\ enqueued \subseteq 1..created
           /\ log \in Seq(Event) /\ queue \in [Devices -> Seq(Event)] /\ batch \in [Syncs -> Seq(Event)]
           /\ pc \in [Syncs -> {"idle", "dequeue", "remove", "examine", "save", "store", "failed", "finish"}]
           /\ \A i \in 1..Len(log) : log[i].id \in 1..MaxEvents /\ log[i].dev \in Devices
           /\ \A d \in Devices : \A i \in 1..Len(queue[d]) : queue[d][i] \in Event /\ queue[d][i].id \in 1..MaxEvents
           /\ \A s \in Syncs : \A i \in 1..Len(batch[s]) : batch[s][i] \in Event /\ batch[s][i].id \in 1..MaxEvents
           /\ Len(log) \in Nat /\ (\A d \in Devices : Len(queue[d]) \in Nat) /\ (\A s \in Syncs : Len(batch[s]) \in Nat)
           /\ MaxEvents \in Nat
<1>1. /\ DeviceOf \in [Syncs -> Devices] /\ created \in Nat /\ enqueued \subseteq 1..created
      /\ log \in Seq(Event) /\ queue \in [Devices -> Seq(Event)] /\ batch \in [Syncs -> Seq(Event)]
      /\ pc \in [Syncs -> {"idle", "dequeue", "remove", "examine", "save", "store", "failed", "finish"}]
      /\ MaxEvents \in Nat
  BY SyncAssumption, SyncBounds DEF Types
<1>2. \A i \in 1..Len(log) : log[i].id \in 1..MaxEvents /\ log[i].dev \in Devices
  BY <1>1, Elements, EventFields
<1>3. \A d \in Devices : \A i \in 1..Len(queue[d]) : queue[d][i] \in Event /\ queue[d][i].id \in 1..MaxEvents
  BY <1>1, Elements, EventFields
<1>4. \A s \in Syncs : \A i \in 1..Len(batch[s]) : batch[s][i] \in Event /\ batch[s][i].id \in 1..MaxEvents
  BY <1>1, Elements, EventFields
<1> QED  BY <1>1, <1>2, <1>3, <1>4

\* The elements of log, queues and batches after each of the cases.
LEMMA EnqueuedIs ==
    ASSUME Types, NEW d \in Devices, NEW e \in Event, Enqueued(d, e)
    PROVE  /\ Len(queue'[d]) = Len(queue[d]) + 1 /\ queue'[d][Len(queue[d]) + 1] = e
           /\ \A i \in 1..Len(queue[d]) : queue'[d][i] = queue[d][i]
           /\ \A c \in Devices \ {d} : queue'[c] = queue[c]
           /\ Len(queue[d]) \in Nat
           /\ \A i \in 1..Len(queue'[d]) : i \in 1..Len(queue[d]) \/ i = Len(queue[d]) + 1
<1>1. queue \in [Devices -> Seq(Event)]
  BY DEF Types
<1>2. queue'[d] = Append(queue[d], e) /\ \A c \in Devices \ {d} : queue'[c] = queue[c]
  BY <1>1 DEF Enqueued
<1>3. queue[d] \in Seq(Event)
  BY <1>1
<1>4. /\ Len(queue'[d]) = Len(queue[d]) + 1 /\ queue'[d][Len(queue[d]) + 1] = e
      /\ Len(queue[d]) \in Nat /\ \A i \in 1..Len(queue[d]) : queue'[d][i] = queue[d][i]
  BY <1>2, <1>3, Appends
<1>5. \A i \in 1..Len(queue'[d]) : i \in 1..Len(queue[d]) \/ i = Len(queue[d]) + 1
  BY <1>4
<1> QED  BY <1>2, <1>4, <1>5

LEMMA StoredIn ==
    ASSUME Types, NEW e \in Event, log' = Stored(e)
    PROVE  /\ Len(log') = Len(log) + 1 /\ Len(log) \in Nat
           /\ log'[Len(log) + 1].id = e.id /\ log'[Len(log) + 1].dev = e.dev /\ log'[Len(log) + 1].res = e.res
           /\ \A i \in 1..Len(log) : log'[i] = log[i]
           /\ \A i \in 1..Len(log') : i \in 1..Len(log) \/ i = Len(log) + 1
<1>1. log \in Seq(Event) /\ latest \in Nat
  BY DEF Types
<1>2. /\ Len(log') = Len(log) + 1 /\ Len(log) \in Nat
      /\ log'[Len(log) + 1].id = e.id /\ log'[Len(log) + 1].dev = e.dev /\ log'[Len(log) + 1].res = e.res
      /\ \A i \in 1..Len(log) : log'[i] = log[i]
  BY <1>1, StoredIs
<1>3. \A i \in 1..Len(log') : i \in 1..Len(log) \/ i = Len(log) + 1
  BY <1>2
<1> QED  BY <1>2, <1>3

LEMMA MovedIs ==
    ASSUME Types, NEW s \in Syncs, Moved(s)
    PROVE  /\ Head(batch[s]) \in Event /\ Head(batch[s]) = batch[s][1] /\ 1 \in 1..Len(batch[s])
           /\ Len(batch'[s]) = Len(batch[s]) - 1
           /\ \A i \in 1..Len(batch'[s]) : batch'[s][i] = batch[s][i + 1] /\ i + 1 \in 2..Len(batch[s])
           /\ \A t \in Syncs \ {s} : batch'[t] = batch[t]
           /\ log' = Stored(Head(batch[s]))
<1>1. batch \in [Syncs -> Seq(Event)] /\ batch[s] \in Seq(Event) /\ batch[s] # <<>>
  BY DEF Types, Moved
<1>2. batch'[s] = Tail(batch[s]) /\ \A t \in Syncs \ {s} : batch'[t] = batch[t]
  BY <1>1 DEF Moved
<1> QED  BY <1>1, <1>2, Tails DEF Moved

LEMMA TakenIs ==
    ASSUME Types, NEW s \in Syncs, Taken(s)
    PROVE  batch'[s] = queue[DeviceOf[s]] /\ \A t \in Syncs \ {s} : batch'[t] = batch[t]
  BY DEF Types, Taken, Mine

LEMMA EmptyIs == Len(<<>>) = 0 /\ 1..0 = {}
  OBVIOUS

LEMMA RemovedIs ==
    ASSUME Types, NEW s \in Syncs, Removed(s)
    PROVE  /\ queue'[DeviceOf[s]] = <<>> /\ 1..Len(queue'[DeviceOf[s]]) = {}
           /\ \A d \in Devices : d # DeviceOf[s] => queue'[d] = queue[d]
<1>1. queue \in [Devices -> Seq(Event)] /\ DeviceOf[s] \in Devices
  BY Shapes
<1>2. queue'[DeviceOf[s]] = <<>> /\ \A d \in Devices : d # DeviceOf[s] => queue'[d] = queue[d]
  BY <1>1 DEF Removed
<1> QED  BY <1>2, EmptyIs

LEMMA FailedIs ==
    ASSUME Types, NEW s \in Syncs, Failed(s)
    PROVE  batch'[s] = <<>> /\ 1..Len(batch'[s]) = {} /\ \A t \in Syncs \ {s} : batch'[t] = batch[t]
<1>1. batch \in [Syncs -> Seq(Event)]
  BY DEF Types
<1>2. batch'[s] = <<>> /\ \A t \in Syncs \ {s} : batch'[t] = batch[t]
  BY <1>1 DEF Failed
<1> QED  BY <1>2, EmptyIs

LEMMA AuthorsStep ==
    ASSUME Types, Offline, Authors, [Next]_vars
    PROVE  Authors'
<1>1. PICK author \in [1..MaxEvents -> Devices \cup {0}] : WrittenBy(author)
  BY DEF Authors
<1>2. /\ \A i \in 1..Len(log) : log[i].id \in 1..MaxEvents /\ log[i].id <= created
      /\ \A d \in Devices : \A i \in 1..Len(queue[d]) : queue[d][i].id \in 1..MaxEvents /\ queue[d][i].id <= created
      /\ \A s \in Syncs : \A i \in 1..Len(batch[s]) : batch[s][i].id \in 1..MaxEvents /\ batch[s][i].id <= created
      /\ created \in Nat
  <2>1. \A n \in enqueued : n <= created
    BY Shapes
  <2> QED  BY <2>1, Shapes DEF Offline
<1>3. ASSUME NEW d \in Devices, NEW e \in Event, Enqueued(d, e) \/ Published(d, e)
      PROVE  Authors'
  <2>1. e.id = created + 1 /\ e.dev = d /\ e.id \in 1..MaxEvents
    BY <1>3, EventFields DEF Enqueued, Published
  <2>w. \E b \in [1..MaxEvents -> Devices \cup {0}] :
          b[e.id] = d /\ \A n \in 1..MaxEvents : n <= created => b[n] = author[n]
    <3> DEFINE b == [author EXCEPT ![created + 1] = d]
    <3>1. b \in [1..MaxEvents -> Devices \cup {0}] /\ b[e.id] = d
      BY <1>1, <2>1
    <3>2. \A n \in 1..MaxEvents : n <= created => b[n] = author[n]
      BY <1>1, <1>2
    <3> HIDE DEF b
    <3> QED  BY <3>1, <3>2
  <2>2. PICK a \in [1..MaxEvents -> Devices \cup {0}] :
          a[e.id] = d /\ \A n \in 1..MaxEvents : n <= created => a[n] = author[n]
    BY <2>w
  <2>3. \A n \in 1..MaxEvents : n <= created => a[n] = author[n]
    BY <2>2
  <2>4. /\ \A i \in 1..Len(log) : a[log[i].id] = log[i].dev
        /\ \A c \in Devices : \A i \in 1..Len(queue[c]) : a[queue[c][i].id] = c /\ queue[c][i].dev = c
        /\ \A s \in Syncs : \A i \in 1..Len(batch[s]) :
             a[batch[s][i].id] = DeviceOf[s] /\ batch[s][i].dev = DeviceOf[s]
    BY <1>1, <1>2, <2>3 DEF WrittenBy
  <2>5. CASE Enqueued(d, e)
    <3>1. \A c \in Devices : \A i \in 1..Len(queue'[c]) : a[queue'[c][i].id] = c /\ queue'[c][i].dev = c
      <4>1. \A i \in 1..Len(queue'[d]) : a[queue'[d][i].id] = d /\ queue'[d][i].dev = d
        <5>1. /\ queue'[d][Len(queue[d]) + 1] = e
              /\ \A i \in 1..Len(queue[d]) : queue'[d][i] = queue[d][i]
              /\ \A i \in 1..Len(queue'[d]) : i \in 1..Len(queue[d]) \/ i = Len(queue[d]) + 1
          BY <2>5, EnqueuedIs
        <5>2. \A i \in 1..Len(queue[d]) : a[queue[d][i].id] = d /\ queue[d][i].dev = d
          BY <2>4
        <5> QED  BY <2>1, <2>2, <5>1, <5>2
      <4>2. \A c \in Devices \ {d} : queue'[c] = queue[c]
        BY <2>5, EnqueuedIs
      <4> QED  BY <2>4, <4>1, <4>2
    <3>2. UNCHANGED <<log, batch>>
      BY <2>5 DEF Enqueued
    <3>3. WrittenBy(a)'
      BY <2>4, <3>1, <3>2 DEF WrittenBy
    <3> QED  BY <3>3 DEF Authors
  <2>6. CASE Published(d, e)
    <3>1. log' = Stored(e) /\ UNCHANGED <<queue, batch>>
      BY <2>6 DEF Published
    <3>2. \A i \in 1..Len(log') : a[log'[i].id] = log'[i].dev
      BY <2>1, <2>2, <2>4, <3>1, StoredIn
    <3>3. WrittenBy(a)'
      BY <2>4, <3>1, <3>2 DEF WrittenBy
    <3> QED  BY <3>3 DEF Authors
  <2> QED  BY <1>3, <2>5, <2>6
<1>4. ASSUME NEW s \in Syncs, Taken(s)
      PROVE  Authors'
  <2>1. \A t \in Syncs : \A i \in 1..Len(batch'[t]) :
          author[batch'[t][i].id] = DeviceOf[t] /\ batch'[t][i].dev = DeviceOf[t]
    <3>1. batch'[s] = queue[DeviceOf[s]] /\ DeviceOf[s] \in Devices /\ \A t \in Syncs \ {s} : batch'[t] = batch[t]
      BY <1>4, TakenIs, Shapes
    <3> QED  BY <1>1, <3>1 DEF WrittenBy
  <2>2. WrittenBy(author)'
    BY <1>1, <1>4, <2>1 DEF WrittenBy, Taken
  <2> QED  BY <2>2 DEF Authors
<1>5. ASSUME NEW s \in Syncs, Removed(s)
      PROVE  Authors'
  <2>1. \A d \in Devices : \A i \in 1..Len(queue'[d]) : author[queue'[d][i].id] = d /\ queue'[d][i].dev = d
    <3>1. 1..Len(queue'[DeviceOf[s]]) = {} /\ \A d \in Devices : d # DeviceOf[s] => queue'[d] = queue[d]
      BY <1>5, RemovedIs
    <3> QED  BY <1>1, <3>1 DEF WrittenBy
  <2>2. WrittenBy(author)'
    BY <1>1, <1>5, <2>1 DEF WrittenBy, Removed
  <2> QED  BY <2>2 DEF Authors
<1>6. ASSUME NEW s \in Syncs, Moved(s)
      PROVE  Authors'
  <2>1. /\ Head(batch[s]) \in Event
        /\ author[Head(batch[s]).id] = DeviceOf[s] /\ Head(batch[s]).dev = DeviceOf[s]
    BY <1>1, <1>6, MovedIs DEF WrittenBy
  <2>2. \A t \in Syncs : \A i \in 1..Len(batch'[t]) :
          author[batch'[t][i].id] = DeviceOf[t] /\ batch'[t][i].dev = DeviceOf[t]
    <3>1. \A i \in 1..Len(batch'[s]) : batch'[s][i] = batch[s][i + 1] /\ i + 1 \in 1..Len(batch[s])
      BY <1>6, MovedIs, Shapes
    <3>2. \A t \in Syncs \ {s} : batch'[t] = batch[t]
      BY <1>6, MovedIs
    <3> QED  BY <1>1, <3>1, <3>2 DEF WrittenBy
  <2>3. \A i \in 1..Len(log') : author[log'[i].id] = log'[i].dev
    <3>1. log' = Stored(Head(batch[s]))
      BY <1>6, MovedIs
    <3> QED  BY <1>1, <2>1, <3>1, StoredIn DEF WrittenBy
  <2>4. WrittenBy(author)'
    BY <1>1, <1>6, <2>2, <2>3 DEF WrittenBy, Moved
  <2> QED  BY <2>4 DEF Authors
<1>7. ASSUME NEW s \in Syncs, Failed(s)
      PROVE  Authors'
  <2>1. \A t \in Syncs : \A i \in 1..Len(batch'[t]) :
          author[batch'[t][i].id] = DeviceOf[t] /\ batch'[t][i].dev = DeviceOf[t]
    <3>1. 1..Len(batch'[s]) = {} /\ \A t \in Syncs \ {s} : batch'[t] = batch[t]
      BY <1>7, FailedIs
    <3> QED  BY <1>1, <3>1 DEF WrittenBy
  <2>2. WrittenBy(author)'
    BY <1>1, <1>7, <2>1 DEF WrittenBy, Failed
  <2> QED  BY <2>2 DEF Authors
<1>8. CASE (\E s \in Syncs : Turned(s)) \/ Still
  <2>1. UNCHANGED <<log, queue, batch>>
    BY <1>8 DEF Turned, Still
  <2>2. WrittenBy(author)'
    BY <1>1, <2>1 DEF WrittenBy
  <2> QED  BY <2>2 DEF Authors
<1> QED  BY <1>3, <1>4, <1>5, <1>6, <1>7, <1>8, Cases

LEMMA KnownIds ==
    ASSUME Types, Offline
    PROVE  /\ created \in Nat /\ \A n \in enqueued : n \in 1..created
           /\ \A i \in 1..Len(log) : log[i].id \in Nat /\ log[i].id <= created /\ log[i].dev \in Devices
           /\ \A d \in Devices : \A i \in 1..Len(queue[d]) : queue[d][i].id \in 1..created /\ queue[d][i].id \in enqueued
           /\ \A s \in Syncs : \A i \in 1..Len(batch[s]) : batch[s][i].id \in 1..created /\ batch[s][i].id \in enqueued
<1>1. created \in Nat /\ \A n \in enqueued : n \in 1..created
  BY Shapes
<1>2. \A i \in 1..Len(log) : log[i].id \in Nat /\ log[i].id <= created /\ log[i].dev \in Devices
  BY Shapes DEF Offline
<1> QED  BY <1>1, <1>2 DEF Offline

LEMMA OrderStep ==
    ASSUME OneAtATime, Types, Offline, Authors, Order, QueueOrder, [Next]_vars
    PROVE  Order' /\ QueueOrder'
<1>0. /\ DeviceOf \in [Syncs -> Devices]
      /\ pc \in [Syncs -> {"idle", "dequeue", "remove", "examine", "save", "store", "failed", "finish"}]
      /\ Len(log) \in Nat /\ (\A d \in Devices : Len(queue[d]) \in Nat) /\ (\A s \in Syncs : Len(batch[s]) \in Nat)
  BY Shapes
<1> DEFINE Gap(s)   == \A i \in 1..Len(batch[s]), j \in 1..Len(queue[DeviceOf[s]]) : batch[s][i].id < queue[DeviceOf[s]][j].id
           First(i) == /\ \A j \in 1..Len(queue[log[i].dev]) : log[i].id < queue[log[i].dev][j].id
                       /\ \A s \in Syncs : DeviceOf[s] = log[i].dev =>
                            \A j \in 1..Len(batch[s]) : log[i].id < batch[s][j].id
<1>i. /\ \A d \in Devices : Rising(queue[d])
      /\ \A s \in Syncs : Rising(batch[s])
      /\ \A s \in Syncs : Holds(s) => Gap(s)
      /\ \A i \in 1..Len(log) : log[i].id \in enqueued => First(i)
  BY DEF Order, Mine
<1>1. ASSUME NEW d \in Devices, NEW e \in Event, Enqueued(d, e)
      PROVE  Order' /\ QueueOrder'
  <2>0. /\ e.id = created + 1 /\ UNCHANGED <<log, batch, pc>> /\ enqueued' = enqueued \cup {created + 1}
        /\ \A i \in 1..Len(log) : log[i].id \in enqueued' => log[i].id \in enqueued
    BY <1>1, KnownIds DEF Enqueued
  <2>1. /\ Len(queue'[d]) = Len(queue[d]) + 1 /\ queue'[d][Len(queue[d]) + 1] = e
        /\ \A i \in 1..Len(queue[d]) : queue'[d][i] = queue[d][i]
        /\ \A c \in Devices \ {d} : queue'[c] = queue[c]
        /\ \A i \in 1..Len(queue'[d]) : i \in 1..Len(queue[d]) \/ i = Len(queue[d]) + 1
    BY <1>1, EnqueuedIs
  <2>2. ASSUME NEW n \in 1..created, NEW c \in Devices, \A j \in 1..Len(queue[c]) : n < queue[c][j].id
        PROVE  \A j \in 1..Len(queue'[c]) : n < queue'[c][j].id
    <3>1. n < created + 1
      BY KnownIds
    <3> QED  BY <2>0, <2>1, <2>2, <3>1
  <2>3. Rising(queue'[d])
    <3> SUFFICES ASSUME NEW i \in 1..Len(queue'[d]), NEW j \in 1..Len(queue'[d]), i < j
                 PROVE  queue'[d][i].id < queue'[d][j].id
      BY DEF Rising
    <3>1. i \in 1..Len(queue[d]) /\ queue'[d][i] = queue[d][i]
      BY <1>0, <2>1
    <3>2. CASE j \in 1..Len(queue[d])
      BY <1>i, <2>1, <3>1, <3>2 DEF Rising
    <3>3. CASE j = Len(queue[d]) + 1
      BY <2>0, <2>1, <3>1, <3>3, KnownIds
    <3> QED  BY <2>1, <3>2, <3>3
  <2>4. \A c \in Devices : Rising(queue'[c])
    BY <1>i, <2>1, <2>3
  <2>5. \A s \in Syncs : Holds(s)' => Gap(s)'
    <3> SUFFICES ASSUME NEW s \in Syncs, Holds(s), NEW i \in 1..Len(batch[s])
                 PROVE  \A j \in 1..Len(queue'[DeviceOf[s]]) : batch[s][i].id < queue'[DeviceOf[s]][j].id
      BY <2>0 DEF Holds
    <3> QED  BY <1>0, <1>i, <2>2, KnownIds
  <2>6. \A i \in 1..Len(log) : log[i].id \in enqueued =>
          \A j \in 1..Len(queue'[log[i].dev]) : log[i].id < queue'[log[i].dev][j].id
    BY <1>i, <2>2, KnownIds
  <2>7. \A i \in 1..Len(log') : log'[i].id \in enqueued' => First(i)'
    BY <1>i, <2>0, <2>6
  <2> QED  BY <1>i, <2>0, <2>4, <2>5, <2>7 DEF Order, Mine, QueueOrder
<1>2. ASSUME NEW d \in Devices, NEW e \in Event, Published(d, e)
      PROVE  Order' /\ QueueOrder'
  <2>0. /\ e.id = created + 1 /\ e.id \notin enqueued /\ log' = Stored(e) /\ UNCHANGED <<queue, batch, pc, enqueued>>
    BY <1>2, KnownIds DEF Published
  <2>1. \A i \in 1..Len(log') : log'[i].id \in enqueued => i \in 1..Len(log) /\ log'[i] = log[i]
    BY <2>0, StoredIn
  <2>2. \A i \in 1..Len(log') : log'[i].id \in enqueued' => First(i)'
    BY <1>i, <2>0, <2>1
  <2>3. \A s \in Syncs : Holds(s)' => Gap(s)'
    BY <1>i, <2>0 DEF Holds
  <2>4. QueueOrder'
    BY <2>0, <2>1 DEF QueueOrder
  <2> QED  BY <1>i, <2>0, <2>2, <2>3, <2>4 DEF Order, Mine
<1>3. ASSUME NEW s \in Syncs, Taken(s)
      PROVE  Order' /\ QueueOrder'
  <2>0. UNCHANGED <<queue, log, enqueued>> /\ pc' = [pc EXCEPT ![s] = "remove"]
    BY <1>3 DEF Taken
  <2>1. batch'[s] = queue[DeviceOf[s]] /\ \A t \in Syncs \ {s} : batch'[t] = batch[t]
    BY <1>3, TakenIs
  <2>2. \A t \in Syncs : Rising(batch'[t])
    BY <1>0, <1>i, <2>1
  <2>3. \A t \in Syncs : Holds(t)' => Gap(t)'
    BY <1>0, <1>i, <2>0, <2>1 DEF Holds
  <2>4. \A i \in 1..Len(log') : log'[i].id \in enqueued' => First(i)'
    <3> SUFFICES ASSUME NEW i \in 1..Len(log), log[i].id \in enqueued
                 PROVE  /\ \A j \in 1..Len(queue'[log[i].dev]) : log[i].id < queue'[log[i].dev][j].id
                        /\ \A t \in Syncs : DeviceOf[t] = log[i].dev =>
                             \A j \in 1..Len(batch'[t]) : log[i].id < batch'[t][j].id
      BY <2>0
    <3>1. First(i)
      BY <1>i
    <3>2. ASSUME NEW t \in Syncs, DeviceOf[t] = log[i].dev, NEW j \in 1..Len(batch'[t])
          PROVE  log[i].id < batch'[t][j].id
      <4>1. CASE t = s
        BY <2>1, <3>1, <3>2, <4>1
      <4>2. CASE t # s
        BY <2>1, <3>1, <3>2, <4>2
      <4> QED  BY <4>1, <4>2
    <3> QED  BY <2>0, <3>1, <3>2
  <2> QED  BY <1>i, <2>0, <2>2, <2>3, <2>4 DEF Order, Mine, QueueOrder
<1>4. ASSUME NEW s \in Syncs, Removed(s)
      PROVE  Order' /\ QueueOrder'
  <2>0. UNCHANGED <<batch, log, enqueued>> /\ pc' = [pc EXCEPT ![s] = "examine"]
    BY <1>4 DEF Removed
  <2>1. 1..Len(queue'[DeviceOf[s]]) = {} /\ \A d \in Devices : d # DeviceOf[s] => queue'[d] = queue[d]
    BY <1>4, RemovedIs
  <2>2. \A d \in Devices : Rising(queue'[d])
    BY <1>i, <2>1 DEF Rising
  <2>3. \A t \in Syncs : Holds(t)' => Gap(t)'
    BY <1>0, <1>i, <2>0, <2>1 DEF Holds
  <2>4. \A i \in 1..Len(log') : log'[i].id \in enqueued' => First(i)'
    <3> SUFFICES ASSUME NEW i \in 1..Len(log), log[i].id \in enqueued
                 PROVE  /\ \A j \in 1..Len(queue'[log[i].dev]) : log[i].id < queue'[log[i].dev][j].id
                        /\ \A t \in Syncs : DeviceOf[t] = log[i].dev =>
                             \A j \in 1..Len(batch'[t]) : log[i].id < batch'[t][j].id
      BY <2>0
    <3>1. First(i)
      BY <1>i
    <3>2. ASSUME NEW j \in 1..Len(queue'[log[i].dev])
          PROVE  log[i].id < queue'[log[i].dev][j].id
      <4>1. log[i].dev \in Devices /\ log[i].dev # DeviceOf[s]
        BY <2>1, <3>2, KnownIds
      <4> QED  BY <2>1, <3>1, <3>2, <4>1
    <3> QED  BY <2>0, <3>1, <3>2
  <2> QED  BY <1>i, <2>0, <2>2, <2>3, <2>4 DEF Order, Mine, QueueOrder
<1>5. ASSUME NEW s \in Syncs, Moved(s)
      PROVE  Order' /\ QueueOrder'
  <2>0. /\ UNCHANGED <<queue, enqueued>> /\ pc[s] = "store" /\ Holds(s)
        /\ \A t \in Syncs \ {s} : pc'[t] = pc[t]
    BY <1>0, <1>5 DEF Moved, Holds
  <2> DEFINE e == batch[s][1]
  <2>1. /\ e \in Event /\ 1 \in 1..Len(batch[s]) /\ log' = Stored(e)
        /\ Len(batch'[s]) = Len(batch[s]) - 1
        /\ \A i \in 1..Len(batch'[s]) : batch'[s][i] = batch[s][i + 1] /\ i + 1 \in 2..Len(batch[s])
        /\ \A t \in Syncs \ {s} : batch'[t] = batch[t]
    BY <1>5, MovedIs
  <2>2. e.dev = DeviceOf[s] /\ e.id \in enqueued
    BY <2>1, KnownIds DEF Authors, WrittenBy
  <2>3. /\ Len(log') = Len(log) + 1 /\ log'[Len(log) + 1].id = e.id /\ log'[Len(log) + 1].dev = e.dev
        /\ \A i \in 1..Len(log) : log'[i] = log[i]
        /\ \A i \in 1..Len(log') : i \in 1..Len(log) \/ i = Len(log) + 1
    BY <2>1, StoredIn
  <2>4. \A i \in 1..Len(batch'[s]) : e.id < batch'[s][i].id /\ batch'[s][i] = batch[s][i + 1] /\ i + 1 \in 1..Len(batch[s])
    <3> SUFFICES ASSUME NEW i \in 1..Len(batch'[s])
                 PROVE  e.id < batch'[s][i].id /\ batch'[s][i] = batch[s][i + 1] /\ i + 1 \in 1..Len(batch[s])
      OBVIOUS
    <3>1. batch'[s][i] = batch[s][i + 1] /\ i + 1 \in 1..Len(batch[s]) /\ 1 < i + 1
      BY <1>0, <2>1
    <3>2. batch[s][1].id < batch[s][i + 1].id
      BY <1>i, <2>1, <3>1 DEF Rising
    <3> QED  BY <3>1, <3>2
  <2>5. Rising(batch'[s])
    <3> SUFFICES ASSUME NEW i \in 1..Len(batch'[s]), NEW j \in 1..Len(batch'[s]), i < j
                 PROVE  batch'[s][i].id < batch'[s][j].id
      BY DEF Rising
    <3>1. batch[s][i + 1].id < batch[s][j + 1].id
      BY <1>i, <2>4 DEF Rising
    <3> QED  BY <2>4, <3>1
  <2>6. \A t \in Syncs : Rising(batch'[t])
    BY <1>i, <2>1, <2>5
  <2>7. \A t \in Syncs : Holds(t)' => Gap(t)'
    <3>1. Gap(s)'
      BY <1>i, <2>0, <2>4
    <3>2. \A t \in Syncs \ {s} : Holds(t)' => Gap(t)'
      BY <1>0, <1>i, <2>0, <2>1 DEF Holds
    <3> QED  BY <3>1, <3>2
  <2>8. /\ \A j \in 1..Len(queue[DeviceOf[s]]) : e.id < queue[DeviceOf[s]][j].id
        /\ \A t \in Syncs : DeviceOf[t] = DeviceOf[s] => \A j \in 1..Len(batch'[t]) : e.id < batch'[t][j].id
    <3>1. \A t \in Syncs : DeviceOf[t] = DeviceOf[s] => t = s
      BY DEF OneAtATime
    <3> QED  BY <1>i, <2>0, <2>1, <2>4, <3>1
  <2>9. \A i \in 1..Len(log) : log[i].id \in enqueued =>
          /\ \A j \in 1..Len(queue[log[i].dev]) : log[i].id < queue[log[i].dev][j].id
          /\ \A t \in Syncs : DeviceOf[t] = log[i].dev => \A j \in 1..Len(batch'[t]) : log[i].id < batch'[t][j].id
    <3> SUFFICES ASSUME NEW i \in 1..Len(log), log[i].id \in enqueued, NEW t \in Syncs, DeviceOf[t] = log[i].dev,
                        NEW j \in 1..Len(batch'[t])
                 PROVE  log[i].id < batch'[t][j].id
      BY <1>i
    <3>1. \A k \in 1..Len(batch[t]) : log[i].id < batch[t][k].id
      BY <1>i
    <3>2. CASE t = s
      <4>1. batch'[t][j] = batch[t][j + 1] /\ j + 1 \in 1..Len(batch[t])
        BY <2>4, <3>2
      <4> QED  BY <3>1, <4>1
    <3>3. CASE t # s
      BY <2>1, <3>1, <3>3
    <3> QED  BY <3>2, <3>3
  <2>10. \A i \in 1..Len(log') : log'[i].id \in enqueued' => First(i)'
    <3> SUFFICES ASSUME NEW i \in 1..Len(log'), log'[i].id \in enqueued
                 PROVE  /\ \A j \in 1..Len(queue[log'[i].dev]) : log'[i].id < queue[log'[i].dev][j].id
                        /\ \A t \in Syncs : DeviceOf[t] = log'[i].dev =>
                             \A j \in 1..Len(batch'[t]) : log'[i].id < batch'[t][j].id
      BY <2>0
    <3> HIDE DEF e
    <3>1. CASE i \in 1..Len(log)
      BY <2>3, <2>9, <3>1
    <3>2. CASE i = Len(log) + 1
      BY <2>2, <2>3, <2>8, <3>2
    <3> QED  BY <2>3, <3>1, <3>2
  <2>11. QueueOrder'
    <3> SUFFICES ASSUME NEW i \in 1..Len(log'), NEW j \in 1..Len(log'), i < j,
                        log'[i].dev = log'[j].dev, {log'[i].id, log'[j].id} \subseteq enqueued
                 PROVE  log'[i].id < log'[j].id
      BY <2>0 DEF QueueOrder
    <3>1. i \in 1..Len(log) /\ log'[i] = log[i]
      BY <1>0, <2>3
    <3>2. CASE j \in 1..Len(log)
      BY <2>3, <3>1, <3>2 DEF QueueOrder
    <3>3. CASE j = Len(log) + 1
      <4>1. log[i].dev = DeviceOf[s] /\ log[i].id \in enqueued /\ log'[j].id = e.id
        BY <2>2, <2>3, <3>1, <3>3
      <4>2. log[i].id < batch[s][1].id
        BY <1>i, <2>1, <3>1, <4>1
      <4> QED  BY <3>1, <4>1, <4>2
    <3> QED  BY <2>3, <3>2, <3>3
  <2> HIDE DEF e
  <2> QED  BY <1>i, <2>0, <2>6, <2>7, <2>10, <2>11 DEF Order, Mine
<1>6. ASSUME NEW s \in Syncs, Failed(s)
      PROVE  Order' /\ QueueOrder'
  <2>0. UNCHANGED <<queue, log, enqueued>> /\ pc' = [pc EXCEPT ![s] = "idle"]
    BY <1>6 DEF Failed
  <2>1. 1..Len(batch'[s]) = {} /\ \A t \in Syncs \ {s} : batch'[t] = batch[t]
    BY <1>6, FailedIs
  <2>2. \A t \in Syncs : Rising(batch'[t])
    BY <1>i, <2>1 DEF Rising
  <2>3. \A t \in Syncs : Holds(t)' => Gap(t)'
    BY <1>0, <1>i, <2>0, <2>1 DEF Holds
  <2>4. \A i \in 1..Len(log') : log'[i].id \in enqueued' => First(i)'
    <3> SUFFICES ASSUME NEW i \in 1..Len(log), log[i].id \in enqueued
                 PROVE  /\ \A j \in 1..Len(queue'[log[i].dev]) : log[i].id < queue'[log[i].dev][j].id
                        /\ \A t \in Syncs : DeviceOf[t] = log[i].dev =>
                             \A j \in 1..Len(batch'[t]) : log[i].id < batch'[t][j].id
      BY <2>0
    <3>1. First(i)
      BY <1>i
    <3>2. ASSUME NEW t \in Syncs, DeviceOf[t] = log[i].dev, NEW j \in 1..Len(batch'[t])
          PROVE  log[i].id < batch'[t][j].id
      <4>1. CASE t = s
        BY <2>1, <3>1, <3>2, <4>1
      <4>2. CASE t # s
        BY <2>1, <3>1, <3>2, <4>2
      <4> QED  BY <4>1, <4>2
    <3> QED  BY <2>0, <3>1, <3>2
  <2> QED  BY <1>i, <2>0, <2>2, <2>3, <2>4 DEF Order, Mine, QueueOrder
<1>7. ASSUME NEW s \in Syncs, Turned(s)
      PROVE  Order' /\ QueueOrder'
  <2>0. UNCHANGED <<queue, log, enqueued, batch>> /\ \A t \in Syncs : Holds(t)' => Holds(t)
    BY <1>0, <1>7 DEF Turned, Holds
  <2>1. \A t \in Syncs : Holds(t)' => Gap(t)'
    BY <1>i, <2>0
  <2>2. \A i \in 1..Len(log') : log'[i].id \in enqueued' => First(i)'
    BY <1>i, <2>0
  <2> QED  BY <1>i, <2>0, <2>1, <2>2 DEF Order, Mine, QueueOrder
<1>8. CASE Still
  BY <1>8 DEF Still, Order, QueueOrder, Mine, Holds, Rising
<1> QED  BY <1>1, <1>2, <1>3, <1>4, <1>5, <1>6, <1>7, <1>8, Cases

-----------------------------------------------------------------------------
(* Exactly one copy of every offline event. *)

LEMMA SamePlaces ==
    ASSUME NEW n, Once(n),
           Positions(log', n) = Positions(log, n),
           \A d \in Devices : Positions(queue'[d], n) = Positions(queue[d], n),
           \A s \in Syncs : Held(s, n)' = Held(s, n)
    PROVE  Once(n)'
<1>1. CASE OnlyInLog(n)
  <2>1. OnlyInLog(n)'
    BY <1>1 DEF OnlyInLog
  <2> QED  BY <2>1 DEF Once
<1>2. ASSUME NEW d \in Devices, OnlyInQueue(n, d)
      PROVE  Once(n)'
  <2>1. OnlyInQueue(n, d)'
    BY <1>2 DEF OnlyInQueue
  <2> QED  BY <2>1 DEF Once
<1>3. ASSUME NEW s \in Syncs, OnlyInBatch(n, s)
      PROVE  Once(n)'
  <2>1. OnlyInBatch(n, s)'
    BY <1>3 DEF OnlyInBatch
  <2> QED  BY <2>1 DEF Once
<1> QED  BY <1>1, <1>2, <1>3 DEF Once

\* An event that is in a queue or in a held batch is nowhere else.
LEMMA OneSide ==
    ASSUME NEW n, Once(n)
    PROVE  /\ \A d \in Devices : Positions(queue[d], n) # {} => OnlyInQueue(n, d)
           /\ \A s \in Syncs : Held(s, n) # {} => OnlyInBatch(n, s)
<1>1. CASE OnlyInLog(n)
  BY <1>1 DEF OnlyInLog
<1>2. ASSUME NEW c \in Devices, OnlyInQueue(n, c)
      PROVE  /\ \A d \in Devices : Positions(queue[d], n) # {} => OnlyInQueue(n, d)
             /\ \A s \in Syncs : Held(s, n) # {} => OnlyInBatch(n, s)
  <2>1. \A d \in Devices : Positions(queue[d], n) # {} => d = c
    BY <1>2 DEF OnlyInQueue
  <2>2. \A s \in Syncs : Held(s, n) = {}
    BY <1>2 DEF OnlyInQueue
  <2> QED  BY <1>2, <2>1, <2>2
<1>3. ASSUME NEW t \in Syncs, OnlyInBatch(n, t)
      PROVE  /\ \A d \in Devices : Positions(queue[d], n) # {} => OnlyInQueue(n, d)
             /\ \A s \in Syncs : Held(s, n) # {} => OnlyInBatch(n, s)
  <2>1. \A s \in Syncs : Held(s, n) # {} => s = t
    BY <1>3 DEF OnlyInBatch
  <2>2. \A d \in Devices : Positions(queue[d], n) = {}
    BY <1>3 DEF OnlyInBatch
  <2> QED  BY <1>3, <2>1, <2>2
<1> QED  BY <1>1, <1>2, <1>3 DEF Once

LEMMA KeptStep ==
    ASSUME Types, Offline, Kept, [Next]_vars
    PROVE  Kept'
<1> SUFFICES ASSUME NEW n \in 1..MaxEvents, n \notin exposed'
             PROVE  KeptFor(n)'
  BY DEF Kept
<1>0. /\ DeviceOf \in [Syncs -> Devices] /\ Len(log) \in Nat
      /\ pc \in [Syncs -> {"idle", "dequeue", "remove", "examine", "save", "store", "failed", "finish"}]
      /\ (\A d \in Devices : Len(queue[d]) \in Nat) /\ (\A s \in Syncs : Len(batch[s]) \in Nat)
  BY Shapes
<1>k. /\ n \notin exposed /\ (n \in enqueued => Once(n))
      /\ \A s \in Syncs : ReadHere(s, n)
      /\ \A s, t \in Syncs : Single(s, t, n)
  <2>1. n \notin exposed
    BY Cases DEF Enqueued, Published, Taken, Removed, Moved, Failed, Turned, Still
  <2> QED  BY <2>1 DEF Kept, KeptFor
<1>1. ASSUME NEW d \in Devices, NEW e \in Event, Enqueued(d, e)
      PROVE  KeptFor(n)'
  <2>0. /\ e.id = created + 1 /\ UNCHANGED <<log, batch, pc>> /\ enqueued' = enqueued \cup {created + 1}
        /\ created \in Nat
        /\ exposed' = (IF Removing(d) = {} THEN exposed ELSE exposed \cup {created + 1})
    BY <1>1, KnownIds DEF Enqueued
  <2>1. /\ Len(queue'[d]) = Len(queue[d]) + 1 /\ queue'[d][Len(queue[d]) + 1] = e
        /\ \A i \in 1..Len(queue[d]) : queue'[d][i] = queue[d][i]
        /\ \A c \in Devices \ {d} : queue'[c] = queue[c]
        /\ \A i \in 1..Len(queue'[d]) : i \in 1..Len(queue[d]) \/ i = Len(queue[d]) + 1
    BY <1>1, EnqueuedIs
  <2>2. \A s, t \in Syncs : Single(s, t, n)'
    BY <1>k, <2>0 DEF Single, Positions
  <2>3. \A s : Held(s, n)' = Held(s, n)
    BY <2>0 DEF Held, Holds, Positions
  <2>4. CASE n # created + 1
    <3>2. Positions(queue'[d], n) = Positions(queue[d], n)
      BY <1>0, <2>0, <2>1, <2>4 DEF Positions
    <3>3. \A c \in Devices : Positions(queue'[c], n) = Positions(queue[c], n)
      BY <2>1, <3>2
    <3>4. \A s \in Syncs : ReadHere(s, n)'
      BY <1>0, <1>k, <2>0, <3>3 DEF ReadHere, Mine
    <3>5. n \in enqueued' => Once(n)'
      <4>1. n \in enqueued' => n \in enqueued /\ Positions(log', n) = Positions(log, n)
        BY <2>0, <2>4
      <4> QED  BY <1>k, <2>3, <3>3, <4>1, SamePlaces
    <3> QED  BY <2>2, <3>4, <3>5 DEF KeptFor
  <2>5. CASE n = created + 1
    <3>0. \A s \in Syncs : pc[s] = "remove" => DeviceOf[s] # d
      BY <2>0, <2>5 DEF Removing
    <3>1. Positions(queue'[d], n) = {Len(queue[d]) + 1}
      <4>1. \A i \in 1..Len(queue[d]) : queue[d][i].id # n
        BY <2>5, KnownIds
      <4>2. Len(queue[d]) + 1 \in 1..Len(queue'[d])
        BY <1>0, <2>1
      <4> QED  BY <2>0, <2>1, <2>5, <4>1, <4>2 DEF Positions
    <3>2. \A c \in Devices \ {d} : Positions(queue'[c], n) = {}
      BY <2>1, <2>5, KnownIds DEF Positions
    <3>3. Positions(log', n) = {}
      BY <2>0, <2>5, KnownIds DEF Positions
    <3>4. \A s \in Syncs : Held(s, n)' = {}
      <4>1. \A s \in Syncs : Positions(batch[s], n) = {}
        BY <2>5, KnownIds DEF Positions
      <4> QED  BY <2>3, <4>1 DEF Held
    <3>5. OnlyInQueue(n, d)'
      BY <3>1, <3>2, <3>3, <3>4 DEF OnlyInQueue
    <3>6. \A s \in Syncs : ReadHere(s, n)'
      BY <1>0, <1>k, <2>0, <2>1, <3>0 DEF ReadHere, Mine
    <3> QED  BY <2>2, <3>5, <3>6 DEF Once, KeptFor
  <2> QED  BY <2>4, <2>5
<1>2. ASSUME NEW d \in Devices, NEW e \in Event, Published(d, e)
      PROVE  KeptFor(n)'
  <2>0. e.id = created + 1 /\ log' = Stored(e) /\ UNCHANGED <<queue, batch, pc, enqueued>>
    BY <1>2 DEF Published
  <2>1. \A s, t \in Syncs : ReadHere(s, n)' /\ Single(s, t, n)'
    BY <1>k, <2>0 DEF ReadHere, Single, Mine
  <2>2. ASSUME n \in enqueued
        PROVE  Once(n)'
    <3>1. n # created + 1
      BY <2>2, KnownIds
    <3>2. Positions(log', n) = Positions(log, n)
      <4>1. /\ Len(log') = Len(log) + 1 /\ log'[Len(log) + 1].id = created + 1
            /\ \A i \in 1..Len(log) : log'[i] = log[i]
            /\ \A i \in 1..Len(log') : i \in 1..Len(log) \/ i = Len(log) + 1
        BY <2>0, StoredIn
      <4> QED  BY <1>0, <3>1, <4>1 DEF Positions
    <3>3. \A s \in Syncs : Held(s, n)' = Held(s, n)
      BY <2>0 DEF Held, Holds, Positions
    <3> QED  BY <1>k, <2>0, <2>2, <3>2, <3>3, SamePlaces
  <2> QED  BY <2>0, <2>1, <2>2 DEF KeptFor
\* Of two calls that have read the queue, the second exposes what it reads.
<1>3. ASSUME NEW s \in Syncs, Taken(s)
      PROVE  KeptFor(n)'
  <2> DEFINE d == DeviceOf[s]
  <2>0. /\ UNCHANGED <<queue, log, enqueued>> /\ pc' = [pc EXCEPT ![s] = "remove"] /\ pc[s] = "dequeue"
        /\ exposed' = (IF Removing(d) = {} THEN exposed ELSE exposed \cup EventIds(queue[d]))
    BY <1>3 DEF Taken, Mine
  <2>1. batch'[s] = queue[d] /\ \A t \in Syncs \ {s} : batch'[t] = batch[t]
    BY <1>3, TakenIs
  <2>2. \A t \in Syncs : Held(t, n)' = Held(t, n)
    BY <1>0, <2>0, <2>1 DEF Held, Holds, Positions
  <2>3. n \in enqueued => Once(n)'
    BY <1>k, <2>0, <2>2, SamePlaces
  <2>4. \A t \in Syncs : ReadHere(t, n)'
    <3>1. ReadHere(s, n)'
      BY <2>0, <2>1 DEF ReadHere, Mine
    <3>2. \A t \in Syncs \ {s} : ReadHere(t, n)'
      BY <1>0, <1>k, <2>0, <2>1 DEF ReadHere, Mine
    <3> QED  BY <3>1, <3>2
  <2>5. ASSUME NEW t \in Syncs \ {s}, DeviceOf[t] = d, pc[t] = "remove"
        PROVE  Positions(queue[d], n) = {} /\ Positions(batch[t], n) = {}
    <3>1. Removing(d) # {}
      BY <2>5 DEF Removing
    <3>2. n \notin EventIds(queue[d])
      BY <2>0, <3>1
    <3>3. Positions(queue[d], n) = {}
      BY <3>2 DEF EventIds, Positions
    <3> QED  BY <1>k, <2>5, <3>3 DEF ReadHere, Mine
  <2>6. ASSUME NEW t \in Syncs, NEW u \in Syncs
        PROVE  Single(t, u, n)'
    <3>1. CASE t # s /\ u # s
      BY <1>0, <1>k, <2>0, <2>1, <3>1 DEF Single
    <3>2. CASE t = s /\ u # s
      BY <1>0, <2>0, <2>1, <2>5, <3>2 DEF Single
    <3>3. CASE t # s /\ u = s
      BY <1>0, <2>0, <2>1, <2>5, <3>3 DEF Single
    <3>4. CASE t = s /\ u = s
      BY <3>4 DEF Single
    <3> QED  BY <3>1, <3>2, <3>3, <3>4
  <2> QED  BY <2>0, <2>3, <2>4, <2>6 DEF KeptFor
<1>4. ASSUME NEW s \in Syncs, Removed(s)
      PROVE  KeptFor(n)'
  <2> DEFINE d == DeviceOf[s]
  <2>0. /\ UNCHANGED <<batch, log, enqueued>> /\ pc' = [pc EXCEPT ![s] = "examine"] /\ pc[s] = "remove"
        /\ Positions(batch[s], n) = Positions(queue[d], n) /\ d \in Devices
    BY <1>0, <1>4, <1>k DEF Removed, ReadHere, Mine
  <2>1. 1..Len(queue'[d]) = {} /\ \A c \in Devices : c # d => queue'[c] = queue[c]
    BY <1>4, RemovedIs
  <2>p. Positions(queue'[d], n) = {} /\ \A c \in Devices : c # d => Positions(queue'[c], n) = Positions(queue[c], n)
    BY <2>1 DEF Positions
  <2>2. ASSUME NEW t \in Syncs
        PROVE  ReadHere(t, n)'
    <3>1. CASE t = s
      BY <1>0, <2>0, <3>1 DEF ReadHere
    <3>2. CASE t # s /\ DeviceOf[t] = d
      BY <1>0, <1>k, <2>0, <2>p, <3>2 DEF ReadHere, Mine, Single
    <3>3. CASE t # s /\ DeviceOf[t] # d
      BY <1>0, <1>k, <2>0, <2>1, <3>3 DEF ReadHere, Mine
    <3> QED  BY <3>1, <3>2, <3>3
  <2>3. \A t, u \in Syncs : Single(t, u, n)'
    BY <1>0, <1>k, <2>0 DEF Single
  <2>4. ASSUME n \in enqueued
        PROVE  Once(n)'
    <3>1. /\ Held(s, n)' = Positions(queue[d], n) /\ Held(s, n) = {} /\ \A t \in Syncs \ {s} : Held(t, n)' = Held(t, n)
          /\ Positions(log', n) = Positions(log, n)
      BY <1>0, <2>0 DEF Held, Holds, Positions
    <3> HIDE DEF d
    <3>3. CASE Positions(queue[d], n) = {}
      BY <1>k, <2>0, <2>4, <2>p, <3>1, <3>3, SamePlaces
    <3>4. CASE Positions(queue[d], n) # {}
      <4>1. OnlyInQueue(n, d)
        BY <1>k, <2>0, <2>4, <3>4, OneSide
      <4>2. OnlyInBatch(n, s)'
        BY <2>0, <2>p, <3>1, <4>1 DEF OnlyInQueue, OnlyInBatch
      <4> QED  BY <4>2 DEF Once
    <3> QED  BY <3>3, <3>4
  <2> QED  BY <2>0, <2>2, <2>3, <2>4 DEF KeptFor
<1>5. ASSUME NEW s \in Syncs, Moved(s)
      PROVE  KeptFor(n)'
  <2>0. /\ UNCHANGED <<queue, enqueued>> /\ pc[s] = "store" /\ Holds(s) /\ Holds(s)' /\ pc'[s] # "remove"
        /\ \A t \in Syncs \ {s} : pc'[t] = pc[t]
    BY <1>0, <1>5 DEF Moved, Holds
  <2>1. /\ Head(batch[s]) \in Event /\ Head(batch[s]) = batch[s][1] /\ 1 \in 1..Len(batch[s])
        /\ Len(batch'[s]) = Len(batch[s]) - 1
        /\ \A i \in 1..Len(batch'[s]) : batch'[s][i] = batch[s][i + 1] /\ i + 1 \in 2..Len(batch[s])
        /\ \A t \in Syncs \ {s} : batch'[t] = batch[t]
        /\ log' = Stored(Head(batch[s]))
    BY <1>5, MovedIs
  <2>2. /\ Len(log') = Len(log) + 1 /\ log'[Len(log) + 1].id = batch[s][1].id
        /\ \A i \in 1..Len(log) : log'[i] = log[i]
        /\ \A i \in 1..Len(log') : i \in 1..Len(log) \/ i = Len(log) + 1
    BY <2>1, StoredIn
  <2>3. \A t \in Syncs : ReadHere(t, n)' /\ \A u \in Syncs : Single(t, u, n)'
    BY <1>0, <1>k, <2>0, <2>1 DEF ReadHere, Single, Mine
  <2>4. ASSUME n \in enqueued
        PROVE  Once(n)'
    <3>1. /\ Held(s, n) = Positions(batch[s], n) /\ Held(s, n)' = Positions(batch'[s], n)
          /\ \A t \in Syncs \ {s} : Held(t, n)' = Held(t, n)
      BY <1>0, <2>0, <2>1 DEF Held, Holds, Positions
    <3>2. \A i : i \in Positions(batch'[s], n) <=> i \in Nat \ {0} /\ i + 1 \in Positions(batch[s], n)
      <4>1. \A i : i \in Positions(batch'[s], n) <=> i \in 1..Len(batch'[s]) /\ batch'[s][i].id = n
        BY DEF Positions
      <4>2. \A i : i \in Positions(batch[s], n) <=> i \in 1..Len(batch[s]) /\ batch[s][i].id = n
        BY DEF Positions
      <4>3. \A i \in Nat \ {0} : i + 1 \in 1..Len(batch[s]) <=> i \in 1..Len(batch'[s])
        BY <1>0, <2>1
      <4>4. \A i \in 1..Len(batch'[s]) : i \in Nat \ {0} /\ batch'[s][i] = batch[s][i + 1]
        BY <2>1
      <4> QED  BY <4>1, <4>2, <4>3, <4>4
    <3>3. CASE n # batch[s][1].id
      <4>1. Positions(log', n) = Positions(log, n)
        BY <1>0, <2>2, <3>3 DEF Positions
      <4>2. 1 \notin Positions(batch[s], n) /\ Positions(batch[s], n) \subseteq Nat \ {0}
        BY <1>0, <3>3 DEF Positions
      <4>3. CASE Positions(batch[s], n) = {}
        <5>1. Positions(batch'[s], n) = {}
          BY <3>2, <4>3
        <5> QED  BY <1>k, <2>0, <2>4, <3>1, <4>1, <4>3, <5>1, SamePlaces
      <4>4. CASE Positions(batch[s], n) # {}
        <5>1. OnlyInBatch(n, s)
          BY <1>k, <2>4, <3>1, <4>4, OneSide
        <5>2. PICK i : Positions(batch[s], n) = {i}
          BY <3>1, <5>1 DEF OnlyInBatch
        <5>3. i \in Nat /\ i # 0 /\ i # 1
          BY <4>2, <5>2
        <5>4. Positions(batch'[s], n) = {i - 1}
          BY <3>2, <5>2, <5>3
        <5>5. OnlyInBatch(n, s)'
          BY <2>0, <3>1, <4>1, <5>1, <5>4 DEF OnlyInBatch
        <5> QED  BY <5>5 DEF Once
      <4> QED  BY <4>3, <4>4
    <3>4. CASE n = batch[s][1].id
      <4>1. 1 \in Positions(batch[s], n)
        BY <2>1, <3>4 DEF Positions
      <4>2. OnlyInBatch(n, s)
        BY <1>k, <2>4, <3>1, <4>1, OneSide
      <4>3. Positions(batch[s], n) = {1} /\ Positions(log, n) = {}
        BY <3>1, <4>1, <4>2 DEF OnlyInBatch
      <4>4. Positions(batch'[s], n) = {}
        BY <3>2, <4>3
      <4>5. Positions(log', n) = {Len(log) + 1}
        <5>1. \A i \in 1..Len(log) : log[i].id # n
          BY <4>3 DEF Positions
        <5>2. Len(log) + 1 \in 1..Len(log')
          BY <1>0, <2>2
        <5> QED  BY <2>2, <3>4, <5>1, <5>2 DEF Positions
      <4>6. OnlyInLog(n)'
        BY <2>0, <3>1, <4>2, <4>4, <4>5 DEF OnlyInBatch, OnlyInLog
      <4> QED  BY <4>6 DEF Once
    <3> QED  BY <3>3, <3>4
  <2> QED  BY <2>0, <2>3, <2>4 DEF KeptFor
\* What a failing sync held is exposed; what it had only read is still queued.
<1>6. ASSUME NEW s \in Syncs, Failed(s)
      PROVE  KeptFor(n)'
  <2>0. /\ UNCHANGED <<queue, log, enqueued>> /\ pc' = [pc EXCEPT ![s] = "idle"]
        /\ exposed' = (IF Holds(s) THEN exposed \cup EventIds(batch[s]) ELSE exposed)
    BY <1>6 DEF Failed
  <2>1. \A t \in Syncs \ {s} : batch'[t] = batch[t]
    BY <1>6, FailedIs
  <2>2. \A t \in Syncs : ReadHere(t, n)' /\ \A u \in Syncs : Single(t, u, n)'
    BY <1>0, <1>k, <2>0, <2>1 DEF ReadHere, Single, Mine
  <2>3. Held(s, n) = {}
    <3>1. CASE Holds(s)
      BY <2>0, <3>1 DEF EventIds, Held, Positions
    <3>2. CASE ~Holds(s)
      BY <3>2 DEF Held
    <3> QED  BY <3>1, <3>2
  <2>4. Held(s, n)' = {} /\ \A t \in Syncs \ {s} : Held(t, n)' = Held(t, n)
    BY <1>0, <2>0, <2>1 DEF Held, Holds, Positions
  <2>5. n \in enqueued => Once(n)'
    BY <1>k, <2>0, <2>3, <2>4, SamePlaces
  <2> QED  BY <2>0, <2>2, <2>5 DEF KeptFor
<1>7. ASSUME NEW s \in Syncs, Turned(s)
      PROVE  KeptFor(n)'
  <2>0. UNCHANGED <<queue, log, enqueued, batch>> /\ pc'[s] # "remove" /\ \A t \in Syncs \ {s} : pc'[t] = pc[t]
    BY <1>0, <1>7 DEF Turned
  <2>1. Holds(s)' # Holds(s) => batch[s] = <<>>
    BY <1>0, <1>7 DEF Turned, Holds
  <2>2. Positions(<<>>, n) = {}
    BY EmptyIs DEF Positions
  <2>3. Held(s, n)' = Held(s, n)
    <3>1. CASE batch[s] = <<>>
      BY <2>0, <2>2, <3>1 DEF Held
    <3>2. CASE Holds(s)' = Holds(s)
      BY <2>0, <3>2 DEF Held, Positions
    <3> QED  BY <2>1, <3>1, <3>2
  <2>4. \A t \in Syncs : Held(t, n)' = Held(t, n)
    BY <2>0, <2>3 DEF Held, Holds, Positions
  <2>5. n \in enqueued => Once(n)'
    BY <1>k, <2>0, <2>4, SamePlaces
  <2>6. \A t \in Syncs : ReadHere(t, n)' /\ \A u \in Syncs : Single(t, u, n)'
    BY <1>0, <1>k, <2>0 DEF ReadHere, Single, Mine
  <2> QED  BY <2>0, <2>5, <2>6 DEF KeptFor
<1>8. CASE Still
  <2>1. UNCHANGED <<queue, log, enqueued, batch, pc>>
    BY <1>8 DEF Still
  <2>2. \A t \in Syncs : Held(t, n)' = Held(t, n)
    BY <2>1 DEF Held, Holds, Positions
  <2>3. n \in enqueued => Once(n)'
    BY <1>k, <2>1, <2>2, SamePlaces
  <2>4. \A t \in Syncs : ReadHere(t, n)' /\ \A u \in Syncs : Single(t, u, n)'
    BY <1>k, <2>1 DEF ReadHere, Single, Mine
  <2> QED  BY <2>1, <2>3, <2>4 DEF KeptFor
<1> QED  BY <1>1, <1>2, <1>3, <1>4, <1>5, <1>6, <1>7, <1>8, Cases

-----------------------------------------------------------------------------
(* Conflicts. *)

LEMMA LogGrows ==
    ASSUME Types, Offline, [Next]_vars
    PROVE  /\ Len(log) \in Nat /\ Len(log') \in Nat /\ Len(log) <= Len(log')
           /\ \A i \in 1..Len(log) : log'[i] = log[i]
<1>0. Len(log) \in Nat /\ Types' /\ log \in Seq(Event)
  BY Shapes, TypesStep
<1>1. CASE UNCHANGED log
  BY <1>0, <1>1
<1>2. ASSUME NEW e \in Event, log' = Stored(e)
      PROVE  Len(log') = Len(log) + 1 /\ \A i \in 1..Len(log) : log'[i] = log[i]
  BY <1>2, StoredIn
<1>3. UNCHANGED log \/ \E e \in Event : log' = Stored(e)
  <2>1. \A s \in Syncs : Moved(s) => \E e \in Event : log' = Stored(e)
    BY MovedIs
  <2> QED  BY <2>1, Cases DEF Enqueued, Published, Taken, Removed, Failed, Turned, Still
<1> QED  BY <1>0, <1>1, <1>2, <1>3

\* What was examined before is examined no more: the log grows behind it.
LEMMA RivalsSame ==
    ASSUME Types, Offline, Covered, [Next]_vars, NEW e \in Event, seen'[e.id] = seen[e.id]
    PROVE  \A i \in Rivals(e)' : i \in Rivals(e) /\ log'[i] = log[i]
<1>1. e.id \in 1..MaxEvents
  BY EventFields
<1>2. seen[e.id] \in Nat /\ seen[e.id] <= Len(log)
  BY <1>1 DEF Types, Covered
<1>3. ASSUME NEW i \in Rivals(e)'
      PROVE  i \in Rivals(e) /\ log'[i] = log[i]
  <2>1. /\ i \in 1..Len(log') /\ i <= seen[e.id]
        /\ log'[i].dev # e.dev /\ log'[i].res = e.res /\ e.res # NoResource
    BY <1>3 DEF Rivals
  <2>2. i \in 1..Len(log)
    BY <1>2, <2>1, LogGrows
  <2> QED  BY <2>1, <2>2, LogGrows DEF Rivals
<1> QED  BY <1>3

\* No two syncs examine the same event, and none examines a stored one.
LEMMA HeadIsNew ==
    ASSUME OneAtATime, Types, Offline, Authors, Order, NEW s \in Syncs, batch[s] # <<>>
    PROVE  /\ Head(batch[s]) \in Event /\ Head(batch[s]).ver = 0 /\ Head(batch[s]).id \in enqueued
           /\ \A t \in Syncs \ {s} : batch[t] # <<>> => Head(batch[t]).id # Head(batch[s]).id
           /\ \A j \in 1..Len(log) : log[j].id \in enqueued => log[j].id # Head(batch[s]).id
<1>1. PICK author \in [1..MaxEvents -> Devices \cup {0}] : WrittenBy(author)
  BY DEF Authors
<1>2. \A t \in Syncs : batch[t] # <<>> =>
        Head(batch[t]) = batch[t][1] /\ 1 \in 1..Len(batch[t]) /\ Head(batch[t]) \in Event
  BY Tails DEF Types
<1>3. \A t \in Syncs : batch[t] # <<>> => author[Head(batch[t]).id] = DeviceOf[t]
  BY <1>1, <1>2 DEF WrittenBy
<1>4. Head(batch[s]).ver = 0 /\ Head(batch[s]).id \in enqueued
  BY <1>2 DEF Offline
<1>5. ASSUME NEW j \in 1..Len(log), log[j].id \in enqueued, log[j].id = Head(batch[s]).id
      PROVE  FALSE
  <2>1. DeviceOf[s] = log[j].dev
    BY <1>1, <1>3, <1>5 DEF WrittenBy
  <2>2. log[j].id < batch[s][1].id
    BY <1>2, <1>5, <2>1 DEF Order
  <2>3. log[j].id \in Nat
    BY KnownIds
  <2> QED  BY <1>2, <1>5, <2>2, <2>3
<1> QED  BY <1>2, <1>3, <1>4, <1>5 DEF OneAtATime

\* What the steps do to what Detect saw and found.
LEMMA DetectMoves ==
    ASSUME Types, Offline, DOMAIN found = Syncs, [Next]_vars
    PROVE  /\ conflicts \subseteq conflicts' /\ DOMAIN found' = Syncs
           /\ \/ \E s \in Syncs : Detect(s)
              \/ \E s \in Syncs : SaveConflict(s)
              \/ /\ UNCHANGED seen
                 /\ \A t \in Syncs : pc'[t] \in {"save", "store"} =>
                      pc'[t] = pc[t] /\ found'[t] = found[t] /\ batch'[t] = batch[t]
<1> DEFINE Rest == /\ UNCHANGED seen
                   /\ \A t \in Syncs : pc'[t] \in {"save", "store"} =>
                        pc'[t] = pc[t] /\ found'[t] = found[t] /\ batch'[t] = batch[t]
<1>0. /\ pc \in [Syncs -> {"idle", "dequeue", "remove", "examine", "save", "store", "failed", "finish"}]
      /\ batch \in [Syncs -> Seq(Event)]
  BY DEF Types
<1>1. ASSUME NEW d \in Devices, NEW w \in Writes, Enqueue(d, w) \/ PublishEvent(d, w)
      PROVE  conflicts' = conflicts /\ found' = found /\ Rest
  BY <1>1 DEF Enqueue, PublishEvent
<1>2. ASSUME NEW s \in Syncs, StartSync(s) \/ RemoveQueue(s) \/ AllStored(s) \/ Finish(s)
      PROVE  conflicts' = conflicts /\ found' = found /\ Rest
  BY <1>0, <1>2 DEF StartSync, RemoveQueue, AllStored, Finish, Goto
<1>3. ASSUME NEW s \in Syncs, ReadQueue(s) \/ StoreEvent(s)
      PROVE  conflicts' = conflicts /\ found' = found /\ Rest
  BY <1>0, <1>3 DEF ReadQueue, StoreEvent, Goto
<1>4. ASSUME NEW s \in Syncs, Fail(s)
      PROVE  conflicts' = conflicts /\ DOMAIN found' = Syncs /\ Rest
  BY <1>0, <1>4 DEF Fail, Goto
<1>5. ASSUME NEW s \in Syncs, Detect(s)
      PROVE  conflicts' = conflicts /\ DOMAIN found' = Syncs
  BY <1>5 DEF Detect
<1>6. ASSUME NEW s \in Syncs, SaveConflict(s)
      PROVE  conflicts \subseteq conflicts' /\ DOMAIN found' = Syncs
  BY <1>6 DEF SaveConflict
<1>7. CASE UNCHANGED vars
  BY <1>7 DEF vars
<1> HIDE DEF Rest
<1> SUFFICES /\ conflicts \subseteq conflicts' /\ DOMAIN found' = Syncs
             /\ (\E s \in Syncs : Detect(s)) \/ (\E s \in Syncs : SaveConflict(s)) \/ Rest
  BY DEF Rest
<1> QED  BY <1>1, <1>2, <1>3, <1>4, <1>5, <1>6, <1>7 DEF Next, Write, SyncDevice, Rest, vars

LEMMA ConflictIds ==
    ASSUME NEW e, NEW X, NEW i \in X
    PROVE  {log[i].id, e.id} \subseteq Ids(Conflict(e, X))
<1>1. Conflict(e, X).events = {log[k] : k \in X} \cup {e}
  BY DEF Conflict
<1> QED  BY <1>1 DEF Ids

\* A Detect finds every rival of the event, which was enqueued with version 0.
LEMMA DetectFinds ==
    ASSUME OneAtATime, Types, Offline, Authors, Order, DOMAIN found = Syncs,
           NEW s \in Syncs, Detect(s), NEW e, e = Head(batch[s])
    PROVE  /\ UNCHANGED <<log, batch, conflicts, enqueued>>
           /\ pc'[s] = "save"  => \A i \in Rivals(e)' : {log[i].id, e.id} \subseteq Ids(found'[s])
           /\ pc'[s] = "store" => Rivals(e)' = {}
           /\ \A t \in Syncs \ {s} : pc'[t] = pc[t] /\ found'[t] = found[t]
           /\ e.id \in 1..MaxEvents /\ seen' = [seen EXCEPT ![e.id] = Len(log)]
<1> DEFINE existing == IF e.res = NoResource THEN {} ELSE Conflicting(e)
<1>1. /\ pc[s] = "examine" /\ batch[s] # <<>>
      /\ found' = [found EXCEPT ![s] = IF existing = {} THEN None ELSE Conflict(e, existing)]
      /\ seen' = [seen EXCEPT ![e.id] = Len(log)]
      /\ pc' = [pc EXCEPT ![s] = IF existing = {} THEN "store" ELSE "save"]
      /\ UNCHANGED <<log, batch, conflicts, enqueued>>
  BY DEF Detect, Goto
<1>2. e \in Event /\ e.ver = 0 /\ e.id \in 1..MaxEvents
  BY <1>1, HeadIsNew, EventFields
<1>3. \A i \in 1..Len(log) : log[i].ver \in Nat
  BY Elements, EventFields DEF Types
<1>4. Rivals(e)' \subseteq existing
  BY <1>1, <1>2, <1>3 DEF Rivals, Conflicting
<1> HIDE DEF existing
<1>5. pc \in [Syncs -> {"idle", "dequeue", "remove", "examine", "save", "store", "failed", "finish"}]
  BY DEF Types
<1>6. pc'[s] = (IF existing = {} THEN "store" ELSE "save") /\ \A t \in Syncs \ {s} : pc'[t] = pc[t]
  BY <1>1, <1>5
<1>7. /\ found'[s] = (IF existing = {} THEN None ELSE Conflict(e, existing))
      /\ \A t \in Syncs \ {s} : found'[t] = found[t]
  BY <1>1
<1>8. ASSUME pc'[s] = "save", NEW i \in Rivals(e)'
      PROVE  {log[i].id, e.id} \subseteq Ids(found'[s])
  <2>1. found'[s] = Conflict(e, existing) /\ i \in existing
    BY <1>4, <1>6, <1>7, <1>8
  <2> QED  BY <2>1, ConflictIds
<1>9. ASSUME pc'[s] = "store"
      PROVE  Rivals(e)' = {}
  BY <1>4, <1>6, <1>9
<1> QED  BY <1>1, <1>2, <1>6, <1>7, <1>8, <1>9

LEMMA CoveredStep ==
    ASSUME OneAtATime, Types, Offline, Authors, Order, Covered, [Next]_vars
    PROVE  Covered'
<1>0. /\ Types' /\ DOMAIN found = Syncs /\ DOMAIN found' = Syncs /\ conflicts \subseteq conflicts'
      /\ Len(log) \in Nat /\ Len(log') \in Nat /\ Len(log) <= Len(log')
      /\ \A i \in 1..Len(log) : log'[i] = log[i] /\ log[i] \in Event
      /\ \A i \in 1..Len(log') : log'[i] \in Event
      /\ seen \in [1..MaxEvents -> Nat] /\ seen' \in [1..MaxEvents -> Nat]
      /\ pc \in [Syncs -> {"idle", "dequeue", "remove", "examine", "save", "store", "failed", "finish"}]
      /\ batch \in [Syncs -> Seq(Event)]
  <2>1. Types' /\ DOMAIN found = Syncs
    BY TypesStep DEF Covered
  <2>2. DOMAIN found' = Syncs /\ conflicts \subseteq conflicts'
    BY <2>1, DetectMoves
  <2>3. log \in Seq(Event) /\ log' \in Seq(Event)
    BY <2>1 DEF Types
  <2> QED  BY <2>1, <2>2, <2>3, LogGrows, Elements DEF Types
\* Only the event that is examined is looked at again.
<1>1. \A n \in 1..MaxEvents : seen'[n] # seen[n] =>
        \E s \in Syncs : Detect(s) /\ batch[s] # <<>> /\ n = Head(batch[s]).id
  <2>1. CASE UNCHANGED seen
    BY <2>1
  <2>2. ASSUME NEW s \in Syncs, Detect(s)
        PROVE  \A n \in 1..MaxEvents : seen'[n] # seen[n] => batch[s] # <<>> /\ n = Head(batch[s]).id
    <3>1. seen' = [seen EXCEPT ![Head(batch[s]).id] = Len(log)] /\ batch[s] # <<>>
      BY <2>2 DEF Detect
    <3> QED  BY <1>0, <3>1
  <2>3. ASSUME NEW s \in Syncs, SaveConflict(s)
        PROVE  UNCHANGED seen
    BY <2>3 DEF SaveConflict
  <2> QED  BY <1>0, <2>1, <2>2, <2>3, DetectMoves
<1>2. \A n \in 1..MaxEvents : seen'[n] <= Len(log')
  <2>1. ASSUME NEW n \in 1..MaxEvents
        PROVE  seen'[n] = seen[n] \/ seen'[n] = Len(log)
    <3>1. ASSUME NEW s \in Syncs, Detect(s), n = Head(batch[s]).id
          PROVE  seen'[n] = Len(log)
      BY <1>0, <3>1 DEF Detect
    <3> QED  BY <1>1, <3>1
  <2> QED  BY <1>0, <2>1 DEF Covered
<1>3. ASSUME NEW s \in Syncs, NEW e \in Event, e = Head(batch'[s])
      PROVE  /\ pc'[s] = "save"  => \A i \in Rivals(e)' : {log'[i].id, e.id} \subseteq Ids(found'[s])
             /\ pc'[s] = "store" => \A i \in Rivals(e)' : \E c \in conflicts' : {log'[i].id, e.id} \subseteq Ids(c)
  <2> DEFINE Done ==
               /\ pc'[s] = "save"  => \A i \in Rivals(e)' : {log'[i].id, e.id} \subseteq Ids(found'[s])
               /\ pc'[s] = "store" => \A i \in Rivals(e)' : \E c \in conflicts' : {log'[i].id, e.id} \subseteq Ids(c)
  <2> SUFFICES ASSUME pc'[s] \in {"save", "store"}
               PROVE  Done
    OBVIOUS
  <2>1. CASE Detect(s)
    <3>1. e = Head(batch[s]) /\ UNCHANGED log
      BY <1>3, <2>1 DEF Detect
    <3>2. /\ pc'[s] = "save"  => \A i \in Rivals(e)' : {log[i].id, e.id} \subseteq Ids(found'[s])
          /\ pc'[s] = "store" => Rivals(e)' = {}
      <4>1. e = Head(batch[s]) /\ DOMAIN found = Syncs
        BY <1>0, <3>1
      <4> QED  BY <2>1, <4>1, DetectFinds, Zenon
    <3>3. UNCHANGED log
      BY <3>1
    <3> QED  BY <3>2, <3>3
  <2>2. ASSUME batch'[s] = batch[s], pc[s] \in {"save", "store"}, ~Detect(s)
        PROVE  /\ e = Head(batch[s]) /\ e \in Event
               /\ \A i \in Rivals(e)' : i \in Rivals(e) /\ log'[i] = log[i]
    <3>1. batch[s] # <<>> /\ e = Head(batch[s])
      BY <1>3, <2>2 DEF Offline
    <3>2. e \in Event /\ e.id \in 1..MaxEvents /\ \A t \in Syncs \ {s} : batch[t] # <<>> => Head(batch[t]).id # e.id
      BY <3>1, HeadIsNew, EventFields
    <3>3. seen'[e.id] = seen[e.id]
      BY <1>1, <2>2, <3>2
    <3> QED  BY <3>1, <3>2, <3>3, RivalsSame
  <2>3. CASE SaveConflict(s)
    <3>1. /\ pc[s] = "save" /\ pc'[s] = "store" /\ batch'[s] = batch[s] /\ conflicts' = conflicts \cup {found[s]}
          /\ ~Detect(s)
      BY <1>0, <2>3 DEF SaveConflict, Goto, Detect
    <3>2. /\ e = Head(batch[s])
          /\ \A i \in Rivals(e)' : i \in Rivals(e) /\ log'[i] = log[i]
      BY <2>2, <3>1
    <3>3. \A i \in Rivals(e) : {log[i].id, e.id} \subseteq Ids(found[s])
      BY <3>1, <3>2 DEF Covered
    <3> QED  BY <3>1, <3>2, <3>3
  <2>4. CASE ~Detect(s) /\ ~SaveConflict(s)
    <3>1. pc'[s] = pc[s] /\ found'[s] = found[s] /\ batch'[s] = batch[s]
      <4>1. ASSUME NEW t \in Syncs \ {s}, Detect(t)
            PROVE  pc'[s] = pc[s] /\ found'[s] = found[s] /\ batch'[s] = batch[s]
        BY <1>0, <4>1, DetectFinds
      <4>2. ASSUME NEW t \in Syncs \ {s}, SaveConflict(t)
            PROVE  pc'[s] = pc[s] /\ found'[s] = found[s] /\ batch'[s] = batch[s]
        BY <1>0, <4>2 DEF SaveConflict, Goto
      <4> QED  BY <1>0, <2>4, <4>1, <4>2, DetectMoves
    <3>2. /\ e = Head(batch[s])
          /\ \A i \in Rivals(e)' : i \in Rivals(e) /\ log'[i] = log[i]
      BY <2>2, <2>4, <3>1
    <3>3. /\ pc[s] = "save"  => \A i \in Rivals(e) : {log[i].id, e.id} \subseteq Ids(found[s])
          /\ pc[s] = "store" => \A i \in Rivals(e) : \E c \in conflicts : {log[i].id, e.id} \subseteq Ids(c)
      BY <3>2 DEF Covered
    <3>4. conflicts \subseteq conflicts'
      BY <1>0
    <3> QED  BY <3>1, <3>2, <3>3, <3>4
  <2> QED  BY <2>1, <2>3, <2>4
<1>4. ASSUME NEW j \in 1..Len(log'), NEW e \in Event, e = log'[j], e.id \in enqueued'
      PROVE  \A i \in Rivals(e)' : \E c \in conflicts' : {log'[i].id, e.id} \subseteq Ids(c)
  <2>0. e.id \in 1..MaxEvents
    BY EventFields
  <2>1. CASE j \in 1..Len(log)
    <3>1. e = log[j]
      BY <1>0, <1>4, <2>1
    <3>2. e.id \in enqueued
      <4>1. e.id <= created /\ created \in Nat
        BY <2>1, <3>1, KnownIds
      <4>2. enqueued' \subseteq enqueued \cup {created + 1}
        BY NextMoves DEF Moves
      <4> QED  BY <1>4, <2>0, <4>1, <4>2, SyncBounds
    <3>3. seen'[e.id] = seen[e.id]
      <4>1. \A s \in Syncs : batch[s] # <<>> => Head(batch[s]).id # e.id
        BY <2>1, <3>1, <3>2, HeadIsNew
      <4> QED  BY <1>1, <2>0, <4>1
    <3>4. \A i \in Rivals(e)' : i \in Rivals(e) /\ log'[i] = log[i]
      BY <3>3, RivalsSame
    <3>5. \A i \in Rivals(e) : \E c \in conflicts : {log[i].id, e.id} \subseteq Ids(c)
      BY <2>1, <3>1, <3>2 DEF Covered
    <3> QED  BY <1>0, <3>4, <3>5
  <2>2. CASE j \notin 1..Len(log)
    <3>1. PICK s \in Syncs : StoreEvent(s)
      <4>1. ASSUME NEW d \in Devices, NEW w \in Writes, PublishEvent(d, w)
            PROVE  FALSE
        <5>1. /\ created < MaxEvents /\ log' = Stored(NewEvent(d, w)) /\ enqueued' = enqueued
              /\ created \in 0..MaxEvents /\ created \in Nat
          BY <4>1, Shapes DEF PublishEvent, Types
        <5>2. NewEvent(d, w) \in Event /\ NewEvent(d, w).id = created + 1
          BY <5>1, NewEventIs
        <5>3. e.id = created + 1
          BY <1>4, <2>2, <5>1, <5>2, StoredIn
        <5> QED  BY <1>4, <5>1, <5>3, KnownIds
      <4>2. log' # log
        BY <1>4, <2>2
      <4>3. CASE UNCHANGED vars
        BY <4>2, <4>3 DEF vars
      <4>4. \A d \in Devices, w \in Writes : ~Enqueue(d, w)
        BY <4>2 DEF Enqueue
      <4>5. \A s \in Syncs : SyncDevice(s) => StoreEvent(s)
        BY <4>2 DEF SyncDevice, StartSync, ReadQueue, RemoveQueue, Detect, SaveConflict, AllStored, Finish, Fail
      <4> QED  BY <4>1, <4>3, <4>4, <4>5 DEF Next, Write
    <3>2. PICK h : h = Head(batch[s])
      OBVIOUS
    <3>3. /\ pc[s] = "store" /\ batch[s] # <<>> /\ log' = Stored(h) /\ UNCHANGED <<seen, conflicts>>
      BY <3>1, <3>2 DEF StoreEvent, Offline
    <3>4. h \in Event
      BY <3>2, <3>3, Tails DEF Types
    <3>5. e.id = h.id /\ e.dev = h.dev /\ e.res = h.res
      BY <1>4, <2>2, <3>3, <3>4, StoredIn
    <3>6. Rivals(e)' = Rivals(h)'
      BY <3>5 DEF Rivals
    <3>7. \A i \in Rivals(h)' : i \in Rivals(h) /\ log'[i] = log[i]
      BY <3>3, <3>4, RivalsSame
    <3>8. \A i \in Rivals(h) : \E c \in conflicts : {log[i].id, h.id} \subseteq Ids(c)
      BY <3>2, <3>3, <3>4 DEF Covered
    <3> QED  BY <3>3, <3>5, <3>6, <3>7, <3>8
  <2> QED  BY <2>1, <2>2
<1> QED  BY <1>0, <1>2, <1>3, <1>4 DEF Covered

-----------------------------------------------------------------------------
(* The theorems. *)

LEMMA InitIInv == Init => IInv
<1> SUFFICES ASSUME Init
             PROVE  IInv
  OBVIOUS
<1>0. /\ DeviceOf \in [Syncs -> Devices] /\ MaxEvents \in Nat /\ MaxFaults \in Nat /\ <<>> \in Seq(Event)
      /\ Len(<<>>) = 0 /\ 1..0 = {}
  BY SyncAssumption, SyncBounds
<1>i. /\ created = 0 /\ enqueued = {} /\ log = <<>> /\ queue = [d \in Devices |-> <<>>]
      /\ pc = [s \in Syncs |-> "idle"] /\ batch = [s \in Syncs |-> <<>>] /\ found = [s \in Syncs |-> None]
      /\ seen = [n \in 1..MaxEvents |-> 0] /\ faults = 0 /\ exposed = {} /\ latest = 0
  BY DEF Init
<1>1. Types
  BY <1>0, <1>i DEF Types
<1>2. Offline
  BY <1>0, <1>i DEF Offline
<1>3. Authors
  <2>1. [n \in 1..MaxEvents |-> 0] \in [1..MaxEvents -> Devices \cup {0}]
    OBVIOUS
  <2>2. \A author : WrittenBy(author)
    BY <1>0, <1>i DEF WrittenBy
  <2> QED  BY <2>1, <2>2 DEF Authors
<1>4. Order
  BY <1>0, <1>i DEF Order, Rising, Holds, Mine
<1>5. QueueOrder
  BY <1>0, <1>i DEF QueueOrder
<1>7. Covered
  BY <1>0, <1>i DEF Covered
<1> QED  BY <1>1, <1>2, <1>3, <1>4, <1>5, <1>7 DEF IInv

LEMMA NextIInv ==
    ASSUME OneAtATime, IInv, [Next]_vars
    PROVE  IInv'
<1>1. Types /\ Offline /\ Authors /\ Order /\ QueueOrder /\ Covered
  BY DEF IInv
<1>2. Types' /\ Offline' /\ Authors'
  BY <1>1, TypesStep, OfflineStep, AuthorsStep
<1>3. Order' /\ QueueOrder'
  BY <1>1, OrderStep
<1>5. Covered'
  BY <1>1, CoveredStep
<1> QED  BY <1>2, <1>3, <1>5 DEF IInv

\* Every reachable state satisfies the inductive invariant.
THEOREM Invariance ==
    ASSUME OneAtATime
    PROVE  Spec => []IInv
<1>1. IInv /\ [Next]_vars => IInv'
  BY NextIInv
<1> QED  BY <1>1, InitIInv, PTL DEF Spec

\* InitiateSync: a device's offline events enter the log in the order it
\* enqueued them, also when it enqueues while it syncs and syncs fail half way.
THEOREM OfflineOrder ==
    ASSUME OneAtATime
    PROVE  Spec => []QueueOrder
<1>1. IInv => QueueOrder
  BY DEF IInv
<1> QED  BY <1>1, Invariance, PTL

\* Detect, ConflictStore.Save and the store of the event, in that order: an
\* offline event in the log is in a recorded conflict with every event of
\* another device on its resource that was in the log when it was examined.
THEOREM ConflictsKept ==
    ASSUME OneAtATime
    PROVE  Spec => []ConflictsCovered
<1>1. ASSUME IInv
      PROVE  ConflictsCovered
  <2>0. \A k \in 1..Len(log) : log[k] \in Event
    BY <1>1, Elements DEF IInv, Types
  <2> SUFFICES ASSUME NEW i \in 1..Len(log), NEW j \in 1..Len(log),
                      log[j].id \in enqueued, i <= seen[log[j].id], log[i].dev # log[j].dev,
                      log[i].res = log[j].res, log[i].res # NoResource
               PROVE  InConflict(log[i], log[j])
    BY DEF ConflictsCovered
  <2>1. i \in Rivals(log[j])
    BY DEF Rivals
  <2>2. \A e \in Event : e = log[j] /\ e.id \in enqueued =>
          \A k \in Rivals(e) : \E c \in conflicts : {log[k].id, e.id} \subseteq Ids(c)
    BY <1>1 DEF IInv, Covered
  <2>3. \E c \in conflicts : {log[i].id, log[j].id} \subseteq Ids(c)
    BY <2>0, <2>1, <2>2
  <2> QED  BY <2>3 DEF InConflict, Ids
<1>2. IInv => ConflictsCovered
  BY <1>1
<1> QED  BY <1>2, Invariance, PTL

LEMMA OneCopy ==
    ASSUME NEW n, Once(n)
    PROVE  Cardinality(Copies(n)) = 1
<1> DEFINE InLog   == {<<"log", i>> : i \in Positions(log, n)}
           InQueue == UNION {{<<"queue", d, i>> : i \in Positions(queue[d], n)} : d \in Devices}
           InBatch == UNION {{<<"batch", s, i>> : i \in Held(s, n)} : s \in Syncs}
<1>0. Copies(n) = InLog \cup InQueue \cup InBatch
  BY DEF Copies, Held
<1>1. \E x : Copies(n) = {x}
  <2>1. ASSUME OnlyInLog(n)
        PROVE  \E x : Copies(n) = {x}
    <3>1. PICK i : Positions(log, n) = {i}
      BY <2>1 DEF OnlyInLog
    <3>2. /\ \A d \in Devices : Positions(queue[d], n) = {}
          /\ \A s \in Syncs : Held(s, n) = {}
      BY <2>1 DEF OnlyInLog
    <3>6. Copies(n) = {<<"log", i>>}
      BY <1>0, <3>1, <3>2
    <3> QED  BY <3>6
  <2>2. ASSUME NEW d \in Devices, OnlyInQueue(n, d)
        PROVE  \E x : Copies(n) = {x}
    <3>1. PICK i : Positions(queue[d], n) = {i}
      BY <2>2 DEF OnlyInQueue
    <3>2. /\ Positions(log, n) = {} /\ \A c \in Devices \ {d} : Positions(queue[c], n) = {}
          /\ \A s \in Syncs : Held(s, n) = {}
      BY <2>2 DEF OnlyInQueue
    <3>3. InLog = {}
      BY <3>2
    <3>4. InBatch = {}
      BY <3>2
    <3>5. InQueue = {<<"queue", d, i>>}
      <4>1. {<<"queue", d, k>> : k \in Positions(queue[d], n)} = {<<"queue", d, i>>}
        BY <3>1
      <4>2. \A c \in Devices \ {d} : {<<"queue", c, k>> : k \in Positions(queue[c], n)} = {}
        BY <3>2
      <4> QED  BY <4>1, <4>2
    <3>6. Copies(n) = {<<"queue", d, i>>}
      <4> HIDE DEF InLog, InQueue, InBatch
      <4> QED  BY <1>0, <3>3, <3>4, <3>5
    <3> QED  BY <3>6
  <2>3. ASSUME NEW s \in Syncs, OnlyInBatch(n, s)
        PROVE  \E x : Copies(n) = {x}
    <3>1. PICK i : Held(s, n) = {i}
      BY <2>3 DEF OnlyInBatch
    <3>2. /\ Positions(log, n) = {} /\ \A d \in Devices : Positions(queue[d], n) = {}
          /\ \A t \in Syncs \ {s} : Held(t, n) = {}
      BY <2>3 DEF OnlyInBatch
    <3>3. InLog = {}
      BY <3>2
    <3>4. InQueue = {}
      BY <3>2
    <3>5. InBatch = {<<"batch", s, i>>}
      <4>1. {<<"batch", s, k>> : k \in Held(s, n)} = {<<"batch", s, i>>}
        BY <3>1
      <4>2. \A t \in Syncs \ {s} : {<<"batch", t, k>> : k \in Held(t, n)} = {}
        BY <3>2
      <4> QED  BY <4>1, <4>2
    <3>6. Copies(n) = {<<"batch", s, i>>}
      <4> HIDE DEF InLog, InQueue, InBatch
      <4> QED  BY <1>0, <3>3, <3>4, <3>5
    <3> QED  BY <3>6
  <2> QED  BY <2>1, <2>2, <2>3 DEF Once
<1> QED  BY <1>1, FS_Singleton

\* Dequeue and InitiateSync, for any number of syncs of a device at a time, any
\* events enqueued meanwhile and any failures: an offline event is in exactly one
\* place, unless a failing sync held it, it came between another call's reading
\* and removing of the queue, or two calls read it before either removed it.
THEOREM NothingElseLost == Spec => []KeptOnce
<1> DEFINE I == Types /\ Offline /\ Kept
<1>1. Init => I
  <2> SUFFICES ASSUME Init PROVE I
    OBVIOUS
  <2>1. Types /\ Offline
    BY InitIInv DEF IInv
  <2>2. enqueued = {} /\ \A s \in Syncs : pc[s] = "idle"
    BY DEF Init
  <2>3. Kept
    BY <2>2 DEF Kept, KeptFor, ReadHere, Single
  <2> QED  BY <2>1, <2>3
<1>2. I /\ [Next]_vars => I'
  BY TypesStep, OfflineStep, KeptStep
<1>3. I => KeptOnce
  <2> SUFFICES ASSUME I, NEW n \in enqueued \ exposed
               PROVE  Cardinality(Copies(n)) = 1
    BY DEF KeptOnce
  <2>1. n \in 1..MaxEvents
    BY SyncBounds DEF Types
  <2>2. Once(n)
    BY <2>1 DEF Kept, KeptFor
  <2> QED  BY <2>2, OneCopy
<1> HIDE DEF I
<1> QED  BY <1>1, <1>2, <1>3, PTL DEF Spec

-----------------------------------------------------------------------------
(* The resolver: what the loop over the events of a conflict returns. *)

\* One turn of the resolver's loop: the events at positions s, the last of them
\* compared with the winner g among the others.
Body(g, base, s) ==
    IF s = {} THEN base
    ELSE IF Later(log[Max(s)], g[s \ {Max(s)}]) THEN log[Max(s)] ELSE g[s \ {Max(s)}]

\* g says who leads after the events at each set of positions.
Scans(g, base, S) == g = [s \in SUBSET S |-> Body(g, base, s)]

\* The loop of LWWResolver.Resolve, its fold unfolded.
LEMMA WinnerIs ==
    ASSUME NEW e, NEW existing
    PROVE  \E base, g : /\ base = log[Min(existing)]
                        /\ g = CHOOSE h : Scans(h, base, existing)
                        /\ Winner(e, existing) = IF Later(e, g[existing]) THEN e ELSE g[existing]
<1> DEFINE base == log[Min(existing)]
           g == CHOOSE h : Scans(h, base, existing)
<1>1. Winner(e, existing) = IF Later(e, g[existing]) THEN e ELSE g[existing]
  BY DEF Winner, MapThenFoldSet, Scans, Body
<1> QED BY <1>1

\* The principle of the least number, on which the inductions below rest.
LEMMA Least ==
    ASSUME NEW T \in SUBSET Nat, T # {}
    PROVE  \E k \in T : \A j \in T : k <= j
<1>1. PICK k \in T : \A j \in T : <<j, k>> \notin OpToRel(<, Nat)
  BY NatLessThanWellFounded, WFMin, Zenon
<1>2. \A j \in T : k <= j
  <2> SUFFICES ASSUME NEW j \in T, ~(k <= j) PROVE FALSE
    OBVIOUS
  <2>1. j \in Nat /\ k \in Nat /\ j < k
    OBVIOUS
  <2>2. <<j, k>> \in OpToRel(<, Nat)
    BY <2>1 DEF OpToRel
  <2> QED BY <2>2, <1>1, Zenon
<1> QED BY <1>2

LEMMA MaxIs ==
    ASSUME NEW n \in Nat, NEW s \in SUBSET (1..n), s # {}
    PROVE  Max(s) \in s /\ \A y \in s : Max(s) >= y
<1> DEFINE T == {k \in Nat : \E y \in s : k = n - y}
<1>1. PICK y \in s : TRUE
  OBVIOUS
<1>2. n - y \in T
  OBVIOUS
<1>3. PICK k \in T : \A j \in T : k <= j
  <2> HIDE DEF T
  <2>1. T \in SUBSET Nat /\ T # {}
    BY <1>2 DEF T
  <2> QED BY <2>1, Least
<1>4. PICK x \in s : k = n - x
  OBVIOUS
<1>5. \A z \in s : x >= z
  <2> TAKE z \in s
  <2>1. n - z \in T
    OBVIOUS
  <2> QED BY <2>1, <1>3, <1>4
<1>6. \E w \in s : \A z \in s : w >= z
  BY <1>5
<1> QED BY <1>6 DEF Max

LEMMA MinIs ==
    ASSUME NEW s \in SUBSET Nat, s # {}
    PROVE  Min(s) \in s
<1>1. \E w \in s : \A z \in s : w <= z
  BY Least
<1> QED BY <1>1 DEF Min

\* The positions of the events the loop has seen when it has come to k.
Below(M, k) == {i \in M : i <= k}

LEMMA BelowIs ==
    ASSUME NEW n \in Nat, NEW M \in SUBSET (1..n)
    PROVE  /\ Below(M, 0) = {} /\ Below(M, n) = M
           /\ \A k \in Nat : /\ Below(M, k) \in SUBSET (1..k)
                             /\ Below(M, k - 1) \in SUBSET Below(M, k)
                             /\ k \notin M => Below(M, k) = Below(M, k - 1)
                             /\ \A s \in SUBSET Below(M, k) :
                                  k \notin s => s \in SUBSET Below(M, k - 1)
<1>1. \A i \in M : i \in Nat /\ 1 <= i /\ i <= n
  OBVIOUS
<1>2. \A i, k : i \in Below(M, k) <=> i \in M /\ i <= k
  BY DEF Below
<1>3. Below(M, 0) = {} /\ Below(M, n) = M
  <2>1. ASSUME NEW i \in Below(M, 0) PROVE FALSE
    <3>1. i \in M /\ i <= 0
      BY <1>2
    <3>2. i \in Nat /\ 1 <= i
      BY <1>1, <3>1
    <3> QED BY <3>1, <3>2
  <2>2. \A i : i \in Below(M, n) <=> i \in M
    BY <1>2, <1>1
  <2> QED BY <2>1, <2>2
<1>4. ASSUME NEW k \in Nat PROVE Below(M, k) \in SUBSET (1..k)
  <2> SUFFICES ASSUME NEW i \in Below(M, k) PROVE i \in 1..k
    OBVIOUS
  <2>1. i \in M /\ i <= k
    BY <1>2
  <2>2. i \in Nat /\ 1 <= i
    BY <1>1, <2>1
  <2> QED BY <2>1, <2>2
<1>5. ASSUME NEW k \in Nat PROVE Below(M, k - 1) \in SUBSET Below(M, k)
  <2> SUFFICES ASSUME NEW i \in Below(M, k - 1) PROVE i \in Below(M, k)
    OBVIOUS
  <2>1. i \in M /\ i <= k - 1
    BY <1>2
  <2>2. i \in Nat /\ i <= k
    BY <1>1, <2>1
  <2> QED BY <1>2, <2>1, <2>2
<1>6. ASSUME NEW k \in Nat, k \notin M PROVE Below(M, k) = Below(M, k - 1)
  <2> SUFFICES ASSUME NEW i \in Below(M, k) PROVE i \in Below(M, k - 1)
    BY <1>5
  <2>1. i \in M /\ i <= k /\ i # k
    BY <1>2, <1>6
  <2>2. i \in Nat /\ i <= k - 1
    BY <1>1, <2>1
  <2> QED BY <1>2, <2>1, <2>2
<1>7. ASSUME NEW k \in Nat, NEW s \in SUBSET Below(M, k), k \notin s
      PROVE  s \in SUBSET Below(M, k - 1)
  BY <1>1, <1>7 DEF Below
<1> QED BY <1>3, <1>4, <1>5, <1>6, <1>7

\* The loop is well defined: from the function for the positions below k comes
\* the one for those up to k.
LEMMA ScanExists ==
    ASSUME NEW n \in Nat, NEW M \in SUBSET (1..n), NEW base
    PROVE  \E g : Scans(g, base, M)
<1> DEFINE T == {k \in Nat : ~ \E g : Scans(g, base, Below(M, k))}
<1>1. ASSUME T # {} PROVE FALSE
  <2>1. T \in SUBSET Nat
    OBVIOUS
  <2>2. PICK k \in T : \A j \in T : k <= j
    <3> HIDE DEF T
    <3> QED BY <1>1, <2>1, Least
  <2>3. k \in Nat
    OBVIOUS
  <2>4. ~ \E g : Scans(g, base, Below(M, k))
    OBVIOUS
  <2>5. CASE k = 0
    <3> DEFINE g == [s \in SUBSET Below(M, k) |-> base]
    <3>1. Below(M, k) = {}
      BY <2>5, BelowIs
    <3>2. Scans(g, base, Below(M, k))
      BY <3>1 DEF Scans, Body
    <3> QED BY <3>2, <2>4
  <2>6. CASE k # 0
    <3>1. k - 1 \in Nat /\ ~(k <= k - 1)
      BY <2>3, <2>6
    <3>2. k - 1 \notin T
      BY <2>2, <3>1
    <3>3. PICK h : Scans(h, base, Below(M, k - 1))
      BY <3>1, <3>2
    <3>4. k \in M
      <4>1. ASSUME k \notin M PROVE FALSE
        <5>1. Below(M, k) = Below(M, k - 1)
          <6>1. \A j \in Nat : j \notin M => Below(M, j) = Below(M, j - 1)
            BY BelowIs
          <6> HIDE DEF T
          <6> QED BY <6>1, <4>1, <2>3
        <5> QED BY <5>1, <3>3, <2>4
      <4> QED BY <4>1
    <3> DEFINE A == Below(M, k)
               B == Below(M, k - 1)
               g == [s \in SUBSET A |->
                       IF k \in s
                       THEN IF Later(log[k], h[s \ {k}]) THEN log[k] ELSE h[s \ {k}]
                       ELSE h[s]]
    <3>5. \A s \in SUBSET A : k \notin s => s \in SUBSET B
      BY <2>3, BelowIs
    <3>6. A \in SUBSET (1..k)
      BY <2>3, BelowIs
    <3>7. B \in SUBSET A
      BY <2>3, BelowIs
    <3>8. \A s \in SUBSET A : g[s] = Body(g, base, s)
      <4> SUFFICES ASSUME NEW s \in SUBSET A PROVE g[s] = Body(g, base, s)
        OBVIOUS
      <4>1. CASE s = {}
        <5>1. g[s] = h[s] /\ s \in SUBSET B
          BY <4>1, <3>5
        <5>2. h[s] = base
          BY <5>1, <3>3, <4>1 DEF Scans, Body
        <5> QED BY <5>1, <5>2, <4>1 DEF Body
      <4>2. CASE s # {} /\ k \in s
        <5>1. Max(s) \in s /\ \A y \in s : Max(s) >= y
          BY <4>2, <3>6, <2>3, MaxIs
        <5>2. Max(s) = k
          <6>1. Max(s) \in 1..k /\ Max(s) >= k
            BY <5>1, <4>2, <3>6
          <6> QED BY <6>1, <2>3
        <5>3. s \ {k} \in SUBSET A /\ k \notin s \ {k}
          OBVIOUS
        <5>4. g[s \ {k}] = h[s \ {k}]
          BY <5>3
        <5>5. g[s] = IF Later(log[k], h[s \ {k}]) THEN log[k] ELSE h[s \ {k}]
          BY <4>2
        <5> HIDE DEF g
        <5> QED BY <5>2, <5>4, <5>5, <4>2 DEF Body
      <4>3. CASE s # {} /\ k \notin s
        <5>1. Max(s) \in s
          BY <4>3, <3>6, <2>3, MaxIs
        <5>2. s \in SUBSET B /\ s \ {Max(s)} \in SUBSET A /\ k \notin s \ {Max(s)}
          BY <4>3, <3>5
        <5>3. g[s] = h[s] /\ g[s \ {Max(s)}] = h[s \ {Max(s)}]
          BY <5>2, <4>3
        <5>4. h[s] = Body(h, base, s)
          BY <3>3, <5>2 DEF Scans
        <5> HIDE DEF g
        <5> QED BY <5>3, <5>4, <4>3 DEF Body
      <4> QED BY <4>1, <4>2, <4>3
    <3>9. Scans(g, base, A)
      <4>1. g = [s \in SUBSET A |-> g[s]]
        OBVIOUS
      <4> HIDE DEF g, A
      <4> QED BY <4>1, <3>8 DEF Scans
    <3> QED BY <3>9, <2>4
  <2> QED BY <2>5, <2>6
<1>2. n \notin T
  BY <1>1
<1>3. Below(M, n) = M
  BY BelowIs
<1> QED BY <1>2, <1>3

\* Timestamp, then device: a strict order.
LEMMA LaterOrders ==
    ASSUME NEW a \in Event, NEW b \in Event, NEW c \in Event
    PROVE  /\ ~Later(a, a)
           /\ Later(a, b) => ~Later(b, a)
           /\ Later(a, b) /\ Later(b, c) => Later(a, c)
           /\ Later(a, b) \in BOOLEAN
<1>1. \A x \in Event : x.ts \in Nat /\ Rank[x.dev] \in Nat
  BY RankAssumption DEF Event
<1> QED BY <1>1 DEF Later

\* The event v leads base and the events at the positions s, and is one of them.
Leads(v, base, s) ==
    /\ v \in {log[i] : i \in s} \cup {base}
    /\ ~Later(base, v)
    /\ \A i \in s : ~Later(log[i], v)

\* Whatever the order of the events, the loop ends with one that none is later than.
LEMMA ScanBest ==
    ASSUME NEW n \in Nat, NEW M \in SUBSET (1..n), NEW base \in Event,
           \A i \in M : log[i] \in Event,
           NEW g, Scans(g, base, M)
    PROVE  Leads(g[M], base, M)
<1> DEFINE T == {k \in Nat : \E s \in SUBSET Below(M, k) : ~Leads(g[s], base, s)}
<1>0. \A s \in SUBSET M : g[s] = Body(g, base, s)
  BY DEF Scans
<1>1. ASSUME T # {} PROVE FALSE
  <2>1. T \in SUBSET Nat
    OBVIOUS
  <2>2. PICK k \in T : \A j \in T : k <= j
    <3> HIDE DEF T
    <3> QED BY <1>1, <2>1, Least
  <2>3. k \in Nat
    OBVIOUS
  <2>4. PICK s \in SUBSET Below(M, k) : ~Leads(g[s], base, s)
    OBVIOUS
  <2>5. s \in SUBSET M /\ s \in SUBSET (1..k)
    <3>1. Below(M, k) \in SUBSET M
      BY DEF Below
    <3> QED BY <3>1, <2>3, BelowIs
  <2>6. CASE s = {}
    <3>1. g[s] = base
      BY <2>6, <1>0, <2>5 DEF Body
    <3> QED BY <3>1, <2>4, <2>6, LaterOrders DEF Leads
  <2>7. CASE s # {}
    <3>1. k # 0 /\ k - 1 \in Nat /\ ~(k <= k - 1)
      <4>1. PICK i \in s : i \in 1..k
        BY <2>5, <2>7
      <4> QED BY <4>1, <2>3
    <3>2. k - 1 \notin T
      BY <2>2, <3>1
    <3>3. \A r \in SUBSET Below(M, k - 1) : Leads(g[r], base, r)
      BY <3>1, <3>2
    <3>4. k \in s
      <4>1. ASSUME k \notin s PROVE FALSE
        <5>1. s \in SUBSET Below(M, k - 1)
          BY <4>1, <2>3, BelowIs
        <5> QED BY <5>1, <3>3, <2>4
      <4> QED BY <4>1
    <3>5. Max(s) = k
      <4>1. Max(s) \in s /\ \A y \in s : Max(s) >= y
        BY <2>5, <2>3, <2>7, MaxIs
      <4>2. Max(s) \in 1..k /\ Max(s) >= k
        BY <4>1, <3>4, <2>5
      <4> QED BY <4>2, <2>3
    <3> DEFINE r == s \ {k}
               v == g[r]
    <3>6. Leads(v, base, r)
      <4>1. r \in SUBSET Below(M, k - 1)
        <5>1. r \in SUBSET Below(M, k) /\ k \notin r
          OBVIOUS
        <5> HIDE DEF r
        <5> QED BY <5>1, <2>3, BelowIs
      <4> QED BY <4>1, <3>3
    <3>7. g[s] = IF Later(log[k], v) THEN log[k] ELSE v
      BY <1>0, <2>5, <2>7, <3>5 DEF Body
    <3>8. log[k] \in Event /\ v \in Event /\ \A i \in r : log[i] \in Event
      BY <3>4, <3>6, <2>5 DEF Leads
    <3>9. s = r \cup {k}
      BY <3>4
    <3> HIDE DEF r, v
    <3>10. CASE Later(log[k], v)
      <4>1. g[s] = log[k]
        BY <3>7, <3>10
      <4>2. ~Later(base, log[k])
        BY <3>6, <3>8, <3>10, LaterOrders DEF Leads
      <4>3. \A i \in r : ~Later(log[i], log[k])
        BY <3>6, <3>8, <3>10, LaterOrders DEF Leads
      <4>4. ~Later(log[k], log[k])
        BY <3>8, LaterOrders
      <4>5. Leads(log[k], base, s)
        BY <4>2, <4>3, <4>4, <3>9, <3>4 DEF Leads
      <4> QED BY <4>1, <4>5, <2>4
    <3>11. CASE ~Later(log[k], v)
      <4>1. g[s] = v
        BY <3>7, <3>11
      <4>2. Leads(v, base, s)
        BY <3>6, <3>9, <3>11 DEF Leads
      <4> QED BY <4>1, <4>2, <2>4
    <3> QED BY <3>10, <3>11
  <2> QED BY <2>6, <2>7
<1>2. n \notin T
  BY <1>1
<1>3. Below(M, n) = M
  BY BelowIs
<1> QED BY <1>2, <1>3

\* Resolve returns an event of the conflict, and none of its events is later.
LEMMA WinnerLeads ==
    ASSUME log \in Seq(Event), NEW e \in Event,
           NEW existing \in SUBSET (1..Len(log)), existing # {}
    PROVE  /\ Winner(e, existing) \in {log[i] : i \in existing} \cup {e}
           /\ \A a \in {log[i] : i \in existing} \cup {e} : ~Later(a, Winner(e, existing))
<1>1. PICK base, g : /\ base = log[Min(existing)]
                     /\ g = CHOOSE h : Scans(h, base, existing)
                     /\ Winner(e, existing) = IF Later(e, g[existing]) THEN e ELSE g[existing]
  BY WinnerIs, Zenon
<1>2. Len(log) \in Nat /\ \A i \in existing : log[i] \in Event
  OBVIOUS
<1>3. Min(existing) \in existing
  BY MinIs, <1>2
<1>4. Scans(g, base, existing)
  BY <1>1, <1>2, ScanExists
<1>5. Leads(g[existing], base, existing)
  BY <1>1, <1>2, <1>3, <1>4, ScanBest
<1>6. g[existing] \in {log[i] : i \in existing}
  BY <1>1, <1>3, <1>5 DEF Leads
<1>7. g[existing] \in Event
  BY <1>6, <1>2
<1>8. CASE Later(e, g[existing])
  <2>1. ~Later(e, e) /\ \A i \in existing : ~Later(log[i], e)
    BY <1>2, <1>5, <1>7, <1>8, LaterOrders DEF Leads
  <2> QED BY <2>1, <1>1, <1>8
<1>9. CASE ~Later(e, g[existing])
  BY <1>1, <1>9, <1>5, <1>6 DEF Leads
<1> QED BY <1>8, <1>9

\* A conflict among the first n events, with its winner, if that was chosen
\* automatically.
Ranked(c, n) ==
    /\ c.events \subseteq Event /\ c.winner \in 0..n
    /\ c.status = "auto_resolved" =>
         \E w \in c.events : w.id = c.winner /\ \A a \in c.events : ~Later(a, w)

LEMMA ConflictRanked ==
    ASSUME log \in Seq(Event), NEW e \in Event, NEW n \in Nat, e.id <= n,
           \A i \in 1..Len(log) : log[i].id <= n,
           NEW existing \in SUBSET (1..Len(log)), existing # {}
    PROVE  Ranked(Conflict(e, existing), n)
<1> DEFINE c == Conflict(e, existing)
           w == Winner(e, existing)
<1>1. c.events = {log[i] : i \in existing} \cup {e}
  BY DEF Conflict
<1>2. (c.status = "auto_resolved" /\ c.winner = w.id) \/ (c.status = "manual" /\ c.winner = 0)
  BY DEF Conflict
<1>3. w \in c.events /\ \A a \in c.events : ~Later(a, w)
  BY <1>1, WinnerLeads
<1>4. c.events \subseteq Event /\ \A a \in c.events : a.id <= n /\ a.id \in 1..MaxEvents
  <2>1. \A i \in existing : log[i] \in Event /\ log[i].id <= n
    BY Elements
  <2> QED  BY <1>1, <2>1, EventFields
<1>5. w.id \in 0..n
  BY <1>3, <1>4, SyncBounds
<1> HIDE DEF c, w
<1> QED  BY <1>2, <1>3, <1>4, <1>5 DEF Ranked, c

\* Every conflict was decided by last-write-wins when Detect found it, also the
\* one that a sync is about to save.  Nothing here needs OneAtATime.
Decided ==
    /\ Types /\ Offline
    /\ synced \in [Devices -> Nat]
    /\ DOMAIN found = Syncs
    /\ \A c \in conflicts : Ranked(c, created)
    /\ \A s \in Syncs : pc[s] = "save" => Ranked(found[s], created)

LEMMA DecidedStep ==
    ASSUME Decided, [Next]_vars
    PROVE  Decided'
<1>0. Types /\ Offline /\ DOMAIN found = Syncs /\ Types' /\ Offline'
  BY TypesStep, OfflineStep DEF Decided
<1>1. /\ DOMAIN found' = Syncs
      /\ \/ \E s \in Syncs : Detect(s)
         \/ \E s \in Syncs : SaveConflict(s)
         \/ \A t \in Syncs : pc'[t] \in {"save", "store"} => pc'[t] = pc[t] /\ found'[t] = found[t]
  BY <1>0, DetectMoves
<1>2. conflicts' = conflicts \/ \E s \in Syncs : SaveConflict(s)
  BY DEF Next, Write, SyncDevice, Enqueue, PublishEvent, StartSync, ReadQueue, RemoveQueue, Detect,
         StoreEvent, AllStored, Finish, Fail, vars
<1>3. pc \in [Syncs -> {"idle", "dequeue", "remove", "examine", "save", "store", "failed", "finish"}]
  BY <1>0 DEF Types
<1>4. synced' \in [Devices -> Nat]
  <2>1. synced' = synced \/ \E s \in Syncs : synced' = [synced EXCEPT ![DeviceOf[s]] = latest]
    BY DEF Next, Write, SyncDevice, Enqueue, PublishEvent, StartSync, ReadQueue, RemoveQueue, Detect,
           SaveConflict, StoreEvent, AllStored, Finish, Fail, vars
  <2>2. latest \in Nat
    BY <1>0 DEF Types
  <2> QED  BY <2>1, <2>2 DEF Decided
<1>5. created \in Nat /\ created' \in Nat /\ created <= created'
  <2>1. created' = created \/ created' = created + 1
    BY DEF Next, Write, SyncDevice, Enqueue, PublishEvent, StartSync, ReadQueue, RemoveQueue, Detect,
           SaveConflict, StoreEvent, AllStored, Finish, Fail, vars
  <2> QED  BY <1>0, <2>1, Shapes
<1>6. \A c : Ranked(c, created) => Ranked(c, created')
  BY <1>5 DEF Ranked
<1>7. ASSUME NEW s \in Syncs, Detect(s)
      PROVE  conflicts' = conflicts /\ \A t \in Syncs : pc'[t] = "save" => Ranked(found'[t], created)
  <2> DEFINE e == Head(batch[s])
             existing == IF e.res = NoResource THEN {} ELSE Conflicting(e)
  <2>1. e \in Event /\ log \in Seq(Event) /\ e.id <= created
    <3>1. batch[s] \in Seq(Event) /\ batch[s] # <<>> /\ log \in Seq(Event)
      BY <1>0, <1>7 DEF Detect, Types
    <3>2. e \in Event /\ e = batch[s][1] /\ 1 \in 1..Len(batch[s])
      BY <3>1, Tails
    <3>3. e.id \in 1..created
      BY <1>0, <3>2, KnownIds
    <3> QED  BY <1>5, <3>1, <3>2, <3>3
  <2>2. existing \in SUBSET (1..Len(log)) /\ \A i \in 1..Len(log) : log[i].id <= created
    BY <1>0 DEF Conflicting, Offline
  <2>3. /\ conflicts' = conflicts
        /\ found' = [found EXCEPT ![s] = IF existing = {} THEN None ELSE Conflict(e, existing)]
        /\ pc' = [pc EXCEPT ![s] = IF existing = {} THEN "store" ELSE "save"]
    BY <1>7 DEF Detect, Goto
  <2> HIDE DEF e, existing
  <2>4. pc'[s] = "save" => existing # {} /\ found'[s] = Conflict(e, existing)
    BY <2>3, <1>0, <1>3
  <2>5. pc'[s] = "save" => Ranked(found'[s], created)
    BY <1>5, <2>1, <2>2, <2>4, ConflictRanked
  <2>6. \A t \in Syncs \ {s} : pc'[t] = pc[t] /\ found'[t] = found[t]
    BY <2>3, <1>0, <1>3
  <2> QED  BY <2>3, <2>5, <2>6 DEF Decided
<1>8. ASSUME NEW s \in Syncs, SaveConflict(s)
      PROVE  /\ \A c \in conflicts' : Ranked(c, created)
             /\ \A t \in Syncs : pc'[t] = "save" => Ranked(found'[t], created)
  <2>1. /\ pc[s] = "save" /\ conflicts' = conflicts \cup {found[s]}
        /\ found' = [found EXCEPT ![s] = None] /\ pc' = [pc EXCEPT ![s] = "store"]
    BY <1>8 DEF SaveConflict, Goto
  <2>2. pc'[s] # "save" /\ \A t \in Syncs \ {s} : pc'[t] = pc[t] /\ found'[t] = found[t]
    BY <2>1, <1>0, <1>3
  <2> QED  BY <2>1, <2>2 DEF Decided
<1>9. /\ \A c \in conflicts' : Ranked(c, created)
      /\ \A t \in Syncs : pc'[t] = "save" => Ranked(found'[t], created)
  <2>1. CASE \E s \in Syncs : Detect(s)
    BY <2>1, <1>7 DEF Decided
  <2>2. CASE \E s \in Syncs : SaveConflict(s)
    BY <2>2, <1>8
  <2>3. CASE ~(\E s \in Syncs : Detect(s) \/ SaveConflict(s))
    BY <2>3, <1>1, <1>2 DEF Decided
  <2> QED  BY <2>1, <2>2, <2>3
<1> QED  BY <1>0, <1>1, <1>4, <1>6, <1>9 DEF Decided

LEMMA DecidedAlways == Spec => []Decided
<1>1. Init => Decided
  <2>1. Init => Types /\ Offline
    BY InitIInv DEF IInv
  <2> QED  BY <2>1 DEF Init, Decided
<1>2. Decided /\ [Next]_vars => Decided'
  BY DecidedStep
<1> QED  BY <1>1, <1>2, PTL DEF Spec

\* The types of queues, log, conflicts and links, overlapping syncs of a device
\* included; the winner of a conflict is an event that was created.
THEOREM TypeCorrect == Spec => []TypeOK
<1>1. Decided => TypeOK
  BY DEF Decided, Types, Ranked, TypeOK
<1> QED  BY <1>1, DecidedAlways, PTL

\* LWWResolver.Resolve in every sync, overlapping ones too: no event of an
\* automatically resolved conflict has a later time than its winner, or the same
\* time and a greater device identifier.
THEOREM LastWriteWins == Spec => []WinnerIsLatest
<1>1. Decided => WinnerIsLatest
  BY DEF Decided, WinnerIsLatest, Ranked
<1> QED  BY <1>1, DecidedAlways, PTL
================================================================================
