--------------------------- MODULE SessionRegistry ---------------------------
(***************************************************************************)
(* The session registry of internal/core/session: a table of session rows  *)
(* in one sqlite key-value store that every aps process opens, and, in     *)
(* each process, one mutex that its goroutines take around every mutator.  *)
(*                                                                         *)
(* A mutator is a sequence of separate store accesses made under the       *)
(* process's mutex: read the row (the sweep lists the keys and then reads  *)
(* every row), decide, write or delete, publish on the bus, unlock.  The   *)
(* mutex orders the accesses of one process only: those of two processes   *)
(* interleave freely.                                                      *)
(***************************************************************************)
EXTENDS Integers, FiniteSets

CONSTANTS
    Procs,      \* the aps processes that have the store open
    Threads,    \* the goroutines that call the registry, reapers included
    Reapers,    \* those that only sweep: the ticker's, or the job poller's
    Tickers,    \* the reapers that a ticker drives (startReaper)
    ProcOf,     \* the process a goroutine belongs to
    IDs,        \* session identifiers
    Keys,       \* keys of a session's Environment map
    Timeout,    \* DefaultTimeout, in clock units
    MaxTime,    \* bound on the clock
    MaxAttempts,\* how often a sweep job is tried
    MaxFaults,  \* bound on store errors, failing enqueues and process crashes
    NoRow,      \* an absent row (kvGetSession returns nil)
    NoThread    \* an unlocked mutex

ASSUME ProcAssumption     == ProcOf \in [Threads -> Procs] /\ Reapers \subseteq Threads
ASSUME BoundAssumption    == {Timeout, MaxTime, MaxFaults, MaxAttempts} \subseteq Nat
ASSUME NoThreadAssumption == NoThread \notin Threads

VARIABLES
    store,   \* the rows of registry.db, by session ID
    mu,      \* mu[p]: the goroutine of p that holds SessionRegistry.mu
    pc,      \* pc[t]: where goroutine t is inside a mutator
    op,      \* op[t]: the call t is executing
    todo,    \* todo[t]: keys t still has to read (or, sweeping, to delete)
    got,     \* got[t]: the rows t has read
    pub,     \* pub[t]: sessions t has to publish an event for
    bus,     \* bus[s]: the event delivered for s since a mutator was last entered
    now,     \* time.Now()
    tries,   \* tries[t]: attempts left of the sweep job that t polls for
    faults   \* store errors and crashes so far

vars == <<store, mu, pc, op, todo, got, pub, bus, now, tries, faults>>
local == <<pc, op, todo, got, pub>>

-----------------------------------------------------------------------------
(* Data. *)

Statuses == {"", "active", "inactive", "errored"}

\* SessionInfo, reduced to the fields the registry's own logic reads or merges.
SessionInfo == [status : Statuses, lastSeen : Nat, env : SUBSET Keys]

ASSUME NoRowAssumption == NoRow \notin SessionInfo

Rows == SessionInfo \cup {NoRow}

\* The transitions the status machine admits.
statusRules ==
    [from \in Statuses |->
        CASE from = ""         -> {"active", "inactive", "errored"}
          [] from = "active"   -> {"inactive", "errored"}
          [] from = "inactive" -> {"active", "errored"}
          [] from = "errored"  -> {}]

\* Mutant: the status machine is bypassed.
MutTransitionUnchecked(from, to) == from \in Statuses /\ to \in Statuses

\* checkTransition: setting the status a session already has is not an error.
checkTransition(from, to) == from = to \/ to \in statusRules[from]

RegisterOps == [kind : {"register"}, id : IDs, status : {"", "active"}, keys : SUBSET Keys]
StatusOps   == [kind : {"status"}, id : IDs, status : Statuses \ {""}]
PlainOps    == [kind : {"unregister", "heartbeat"}, id : IDs]
MetadataOps == [kind : {"metadata"}, id : IDs, keys : SUBSET Keys]
SweepOp     == [kind |-> "sweep"]
NoOp        == [kind |-> "none"]

KeyedOps == RegisterOps \cup StatusOps \cup PlainOps \cup MetadataOps
Ops      == KeyedOps \cup {SweepOp}

NothingRead == [s \in IDs |-> NoRow]
NoEvents    == [s \in IDs |-> "none"]

\* The reapers that run sweeps as durable jobs.
Jobs == Reapers \ Tickers

-----------------------------------------------------------------------------
(* The mutex, and the ways out of a mutator.  A process seeds its sweep job    *)
(* when it starts; the errors of opening the job engine and of seeding are     *)
(* dropped, and then nothing sweeps.                                           *)

Init ==
    /\ store  = NothingRead
    /\ mu     = [p \in Procs |-> NoThread]
    /\ pc     = [t \in Threads |-> "idle"]
    /\ op     = [t \in Threads |-> NoOp]
    /\ todo   = [t \in Threads |-> {}]
    /\ got    = [t \in Threads |-> NothingRead]
    /\ pub    = [t \in Threads |-> {}]
    /\ bus    = NoEvents
    /\ now    = 0
    /\ tries \in [Jobs -> {0, MaxAttempts}]
    /\ faults = 0

\* Mutant: the mutator does not wait for the mutex.
MutLockIgnored(t, o) ==
    /\ pc[t] = "idle"
    /\ op'   = [op EXCEPT ![t] = o]
    /\ pc'   = [pc EXCEPT ![t] = IF o = SweepOp THEN "list" ELSE "read"]
    /\ todo' = [todo EXCEPT ![t] = IF o = SweepOp THEN {} ELSE {o.id}]
    /\ bus'  = NoEvents
    /\ UNCHANGED <<store, mu, got, pub, now, tries, faults>>

\* A mutator is called and takes the mutex of its process (waiting for the
\* mutex has no effect, so the call and the acquisition are one step).
Lock(t, o) ==
    /\ pc[t] = "idle"
    /\ mu[ProcOf[t]] = NoThread
    /\ mu'   = [mu EXCEPT ![ProcOf[t]] = t]
    /\ op'   = [op EXCEPT ![t] = o]
    /\ pc'   = [pc EXCEPT ![t] = IF o = SweepOp THEN "list" ELSE "read"]
    /\ todo' = [todo EXCEPT ![t] = IF o = SweepOp THEN {} ELSE {o.id}]
    /\ got'  = [got EXCEPT ![t] = NothingRead]
    /\ pub'  = [pub EXCEPT ![t] = {}]
    /\ bus'  = NoEvents
    /\ UNCHANGED <<store, now, tries, faults>>

\* Leave the mutator and its local variables, releasing the mutex
\* (defer r.mu.Unlock()).
Return(t) ==
    /\ mu'   = [mu EXCEPT ![ProcOf[t]] = NoThread]
    /\ pc'   = [pc EXCEPT ![t] = "idle"]
    /\ op'   = [op EXCEPT ![t] = NoOp]
    /\ todo' = [todo EXCEPT ![t] = {}]
    /\ got'  = [got EXCEPT ![t] = NothingRead]
    /\ pub'  = [pub EXCEPT ![t] = {}]

-----------------------------------------------------------------------------
(* Reading. *)

\* kvListSessions, first access: the keys present now.
ListKeys(t) ==
    /\ pc[t] = "list"
    /\ todo' = [todo EXCEPT ![t] = {s \in IDs : store[s] # NoRow}]
    /\ pc'   = [pc EXCEPT ![t] = "read"]
    /\ UNCHANGED <<store, mu, op, got, pub, bus, now, tries, faults>>

\* kvGetSession, or one iteration of kvListSessions: one row is read; an
\* absent row is nil, and the listing skips it.
GetRow(t, s) ==
    /\ pc[t] = "read"
    /\ s \in todo[t]
    /\ got'  = [got EXCEPT ![t][s] = store[s]]
    /\ todo' = [todo EXCEPT ![t] = @ \ {s}]
    /\ pc'   = [pc EXCEPT ![t] = IF todo[t] = {s} THEN "write" ELSE "read"]
    /\ UNCHANGED <<store, mu, op, pub, bus, now, tries, faults>>

\* A listing of an empty store has nothing to read.
NothingListed(t) ==
    /\ pc[t] = "read"
    /\ todo[t] = {}
    /\ pc' = [pc EXCEPT ![t] = "write"]
    /\ UNCHANGED <<store, mu, op, todo, got, pub, bus, now, tries, faults>>

-----------------------------------------------------------------------------
(* Deciding and writing, one action per mutator.  Definitions named Mut... are *)
(* not part of the specification: each is a wrong version of the definition    *)
(* that follows it, kept to show that a property would notice it.              *)

Writes(t, kind) == pc[t] = "write" /\ op[t].kind = kind

\* kvPutSessionLocked: the whole row is replaced by what t computed.
Put(t, row) == store' = [store EXCEPT ![op[t].id] = row]

\* The events that t publishes before it unlocks.
ToPublish(t, ids) ==
    /\ pub' = [pub EXCEPT ![t] = ids]
    /\ pc'  = [pc EXCEPT ![t] = "publish"]

\* Mutant: the mutex is released before the event is published.
MutRegisterUnlocks(t) ==
    /\ Writes(t, "register")
    /\ got[t][op[t].id] = NoRow
    /\ Put(t, [status |-> op[t].status, lastSeen |-> now, env |-> op[t].keys])
    /\ ToPublish(t, {op[t].id})
    /\ mu' = [mu EXCEPT ![ProcOf[t]] = NoThread]
    /\ UNCHANGED <<op, todo, got, bus, now, tries, faults>>

RegisterWithContext(t) ==
    /\ Writes(t, "register")
    /\ got[t][op[t].id] = NoRow
    /\ Put(t, [status |-> op[t].status, lastSeen |-> now, env |-> op[t].keys])
    /\ ToPublish(t, {op[t].id})
    /\ UNCHANGED <<mu, op, todo, got, bus, now, tries, faults>>

\* Unregister deletes whether or not it found the row; it publishes only if
\* it did.
UnregisterWithContext(t) ==
    /\ Writes(t, "unregister")
    /\ Put(t, NoRow)
    /\ ToPublish(t, IF got[t][op[t].id] = NoRow THEN {} ELSE {op[t].id})
    /\ UNCHANGED <<mu, op, todo, got, bus, now, tries, faults>>

UpdateStatusWithContext(t) ==
    LET row == got[t][op[t].id] IN
    /\ Writes(t, "status")
    /\ row # NoRow
    /\ checkTransition(row.status, op[t].status)
    /\ Put(t, [row EXCEPT !.status = op[t].status, !.lastSeen = now])
    /\ ToPublish(t, IF row.status # op[t].status
                       /\ op[t].status \in {"inactive", "errored"}
                    THEN {op[t].id} ELSE {})
    /\ UNCHANGED <<mu, op, todo, got, bus, now, tries, faults>>

\* Mutant: a heartbeat for a session that is not there creates it.
MutHeartbeatUpserts(t) ==
    /\ Writes(t, "heartbeat")
    /\ Put(t, [status |-> "active", lastSeen |-> now, env |-> {}])
    /\ ToPublish(t, {})
    /\ UNCHANGED <<mu, op, todo, got, bus, now, tries, faults>>

UpdateHeartbeat(t) ==
    LET row == got[t][op[t].id] IN
    /\ Writes(t, "heartbeat")
    /\ row # NoRow
    /\ Put(t, [row EXCEPT !.lastSeen = now])
    /\ ToPublish(t, {})
    /\ UNCHANGED <<mu, op, todo, got, bus, now, tries, faults>>

UpdateSessionMetadata(t) ==
    LET row == got[t][op[t].id] IN
    /\ Writes(t, "metadata")
    /\ row # NoRow
    /\ Put(t, [row EXCEPT !.env = @ \cup op[t].keys, !.lastSeen = now])
    /\ ToPublish(t, {})
    /\ UNCHANGED <<mu, op, todo, got, bus, now, tries, faults>>

\* The error returns of the four read-modify-write mutators: the session
\* already exists, is not there, or may not make the transition.
Refuse(t) ==
    /\ pc[t] = "write"
    /\ \/ op[t].kind = "register" /\ got[t][op[t].id] # NoRow
       \/ op[t].kind \in {"status", "heartbeat", "metadata"} /\ got[t][op[t].id] = NoRow
       \/ /\ op[t].kind = "status" /\ got[t][op[t].id] # NoRow
          /\ ~checkTransition(got[t][op[t].id].status, op[t].status)
    /\ Return(t)
    /\ UNCHANGED <<store, bus, now, tries, faults>>

-----------------------------------------------------------------------------
(* CleanupInactive. *)

\* Mutant: errored sessions are reaped like any other.
MutExpiredErrored(row) == row # NoRow /\ now - row.lastSeen > Timeout

\* Mutant: only active sessions are considered.
MutExpiredActiveOnly(row) ==
    /\ row # NoRow
    /\ row.status = "active"
    /\ now - row.lastSeen > Timeout

\* What the sweep removes: rows not errored whose last activity is too old.
Expired(row) ==
    /\ row # NoRow
    /\ row.status # "errored"
    /\ now - row.lastSeen > Timeout

\* now := time.Now() is sampled once; every row read is judged against it.
SweepDecide(t) ==
    /\ Writes(t, "sweep")
    /\ todo' = [todo EXCEPT ![t] = {s \in IDs : Expired(got[t][s])}]
    /\ pc'   = [pc EXCEPT ![t] = "delete"]
    /\ UNCHANGED <<store, mu, op, got, pub, bus, now, tries, faults>>

SweepDelete(t, s) ==
    /\ pc[t] = "delete"
    /\ s \in todo[t]
    /\ store' = [store EXCEPT ![s] = NoRow]
    /\ todo'  = [todo EXCEPT ![t] = @ \ {s}]
    /\ pub'   = [pub EXCEPT ![t] = @ \cup {s}]
    /\ UNCHANGED <<mu, pc, op, got, bus, now, tries, faults>>

\* The "expired" events follow the last deletion.
SweepDone(t) ==
    /\ pc[t] = "delete"
    /\ todo[t] = {}
    /\ pc' = [pc EXCEPT ![t] = "publish"]
    /\ UNCHANGED <<store, mu, op, todo, got, pub, bus, now, tries, faults>>

-----------------------------------------------------------------------------
\* publish: each delivery may fail, and its error is dropped.
Publish(t) ==
    \E heard \in SUBSET pub[t] :
        bus' = [s \in IDs |->
                  IF s \notin heard THEN bus[s]
                  ELSE IF op[t].kind = "register" THEN "started" ELSE "stopped"]

\* The sweep job of t has n attempts left; a ticker counts none.
TriesLeft(t, n) == tries' = [r \in Jobs |-> IF r = t THEN n ELSE tries[r]]

\* publish, then the deferred unlock.  A sweep job that is done enqueues the
\* next one.
PublishAndReturn(t) ==
    /\ pc[t] = "publish"
    /\ Publish(t)
    /\ Return(t)
    /\ TriesLeft(t, MaxAttempts)
    /\ UNCHANGED <<store, now, faults>>

\* The next sweep cannot be enqueued: the job fails although it has swept.
ReenqueueError(t) ==
    /\ faults < MaxFaults
    /\ t \in Jobs
    /\ pc[t] = "publish"
    /\ faults' = faults + 1
    /\ Publish(t)
    /\ Return(t)
    /\ TriesLeft(t, tries[t] - 1)
    /\ UNCHANGED <<store, now>>

\* A store access fails: the mutator returns the error at once.  A sweep that
\* fails part way keeps its deletions and publishes nothing; its job has one
\* attempt less, and with none left it is not enqueued again.
StoreError(t) ==
    /\ faults < MaxFaults
    /\ pc[t] \in {"list", "read", "write", "delete"}
    /\ pc[t] = "delete" => todo[t] # {}
    /\ faults' = faults + 1
    /\ Return(t)
    /\ IF t \in Jobs THEN TriesLeft(t, tries[t] - 1) ELSE UNCHANGED tries
    /\ UNCHANGED <<store, bus, now>>

\* A process dies and is started again: its goroutines and its mutex go, the
\* rows stay, and a sweep is seeded, or not.
Crash(p) ==
    LET Mine(t) == ProcOf[t] = p IN
    /\ faults < MaxFaults
    /\ faults' = faults + 1
    /\ mu'   = [mu EXCEPT ![p] = NoThread]
    /\ pc'   = [t \in Threads |-> IF Mine(t) THEN "idle" ELSE pc[t]]
    /\ op'   = [t \in Threads |-> IF Mine(t) THEN NoOp ELSE op[t]]
    /\ todo' = [t \in Threads |-> IF Mine(t) THEN {} ELSE todo[t]]
    /\ got'  = [t \in Threads |-> IF Mine(t) THEN NothingRead ELSE got[t]]
    /\ pub'  = [t \in Threads |-> IF Mine(t) THEN {} ELSE pub[t]]
    /\ \E seeded \in {0, MaxAttempts} :
          tries' = [t \in Jobs |-> IF Mine(t) THEN seeded ELSE tries[t]]
    /\ UNCHANGED <<store, bus, now>>

Tick ==
    /\ now < MaxTime
    /\ now' = now + 1
    /\ UNCHANGED <<store, mu, local, bus, tries, faults>>

-----------------------------------------------------------------------------
(* The specification. *)

\* The steps of a mutator once it holds the mutex, when nothing goes wrong.
Step(t) ==
    \/ ListKeys(t)
    \/ \E s \in IDs : GetRow(t, s)
    \/ NothingListed(t)
    \/ RegisterWithContext(t)
    \/ UnregisterWithContext(t)
    \/ UpdateStatusWithContext(t)
    \/ UpdateHeartbeat(t)
    \/ UpdateSessionMetadata(t)
    \/ Refuse(t)
    \/ SweepDecide(t)
    \/ \E s \in IDs : SweepDelete(t, s)
    \/ SweepDone(t)
    \/ PublishAndReturn(t)

Call(t)  == \E o \in KeyedOps : Lock(t, o)

\* The ticker fires, or the poller claims a sweep job that is due.
Sweep(t) ==
    /\ t \in Tickers \/ tries[t] > 0
    /\ Lock(t, SweepOp)

Next ==
    \/ \E t \in Threads \ Reapers : Call(t)
    \/ \E t \in Reapers : Sweep(t)
    \/ \E t \in Threads : Step(t)
    \/ \E t \in Threads : StoreError(t) \/ ReenqueueError(t)
    \/ \E p \in Procs : Crash(p)
    \/ Tick

Spec == Init /\ [][Next]_vars

\* A goroutine inside a mutator keeps running; a ticker fires for ever, the
\* poller claims a job as long as it has attempts left, and a Go mutex does not
\* starve the goroutine that waits for it.  Callers owe nothing.
Fairness ==
    /\ \A t \in Threads : WF_vars(Step(t))
    /\ \A t \in Reapers : SF_vars(Sweep(t))

FairSpec == Spec /\ Fairness

-----------------------------------------------------------------------------
(* Properties. *)

TypeOK ==
    /\ store \in [IDs -> Rows]
    /\ mu \in [Procs -> Threads \cup {NoThread}]
    /\ pc \in [Threads -> {"idle", "list", "read", "write", "delete", "publish"}]
    /\ op \in [Threads -> Ops \cup {NoOp}]
    /\ todo \in [Threads -> SUBSET IDs]
    /\ got \in [Threads -> [IDs -> Rows]]
    /\ pub \in [Threads -> SUBSET IDs]
    /\ bus \in [IDs -> {"none", "started", "stopped"}]
    /\ now \in Nat
    /\ tries \in [Jobs -> 0 .. MaxAttempts]
    /\ faults \in Nat

\* registry.go, SessionRegistry: "The embedded mutex guards compound
\* operations": a goroutine inside a mutator holds its process's mutex, so no
\* two goroutines of a process are inside one at a time, and every way out of
\* a mutator, error returns included, has released it.
MutexHeld ==
    \A t \in Threads : pc[t] # "idle" <=> mu[ProcOf[t]] = t

\* The step in which goroutine t writes the row of s for its call of this kind.
Puts(t, kind, s) ==
    /\ pc[t] = "write" /\ pc'[t] = "publish"
    /\ op[t].kind = kind /\ op[t].id = s

\* registry.go: "errored is terminal: any further status change must go
\* through Unregister + Register".  A row that is errored stays errored until
\* an Unregister of that session deletes it: no late status update, heartbeat,
\* metadata merge or sweep puts another status back.
ErroredStep ==
    \A s \in IDs :
        store[s] # NoRow /\ store[s].status = "errored" =>
            \/ store'[s] # NoRow /\ store'[s].status = "errored"
            \/ store'[s] = NoRow /\ \E t \in Threads : Puts(t, "unregister", s)
ErroredIsTerminal == [][ErroredStep]_vars

\* CleanupInactive judges rows it read earlier: the row a sweep deletes is, at
\* the moment it is deleted, still there, not errored and past the timeout, so
\* no session is reaped just after its heartbeat or its failed teardown.
SweepStep ==
    \A t \in Threads, s \in IDs :
        pc[t] = "delete" /\ pc'[t] = "delete" /\ s \in todo[t] /\ s \notin todo'[t] =>
            /\ store[s] # NoRow
            /\ store[s].status # "errored"
            /\ now - store[s].lastSeen > Timeout
SweepTakesOnlyStale == [][SweepStep]_vars

\* Read-modify-write loses nothing: while a session's row lives, its
\* Environment only grows, LastSeenAt never goes back, and its status never
\* returns to the unset value; whole-row writes computed from a stale copy
\* would undo another goroutine's update.
UpdateStep ==
    \A s \in IDs :
        store[s] # NoRow /\ store'[s] # NoRow =>
            /\ store[s].env \subseteq store'[s].env
            /\ store[s].lastSeen <= store'[s].lastSeen
            /\ store'[s].status = "" => store[s].status = ""
NoLostUpdate == [][UpdateStep]_vars

\* Register-if-absent: a row comes into being by a Register and by nothing
\* else (no heartbeat or status update resurrects a session that was deleted
\* or reaped meanwhile), and a Register never replaces a row.
CreationStep ==
    \A s \in IDs :
        (store[s] = NoRow /\ store'[s] # NoRow)
            <=> \E t \in Threads : Puts(t, "register", s)
OnlyRegisterCreates == [][CreationStep]_vars

\* The event of a write goes out after it, and any event may be lost.  One that
\* arrives is true when it arrives, whatever failed before: a start is announced
\* of a session that is there and neither inactive nor errored, a stop of one
\* that is not.
Gone(s) == store[s] = NoRow \/ store[s].status \in {"inactive", "errored"}
EventStep ==
    \A s \in IDs :
        bus'[s] \notin {bus[s], "none"} => (bus'[s] = "stopped" <=> Gone(s))
EventsAreTrue == [][EventStep]_vars

Stale(s) ==
    /\ store[s] # NoRow
    /\ store[s].status # "errored"
    /\ now - store[s].lastSeen > Timeout

\* Nobody sweeps for t any more: its job was never seeded or has failed too often.
DeadLetter(t) == t \in Jobs /\ tries[t] = 0

\* docs/dev/agent-lifecycle.md: the reaper "will eventually remove it once
\* LastSeenAt exceeds DefaultTimeout".  A session that has gone stale is removed
\* although sweeps fail, unless somebody shows activity on it (or marks it
\* errored) first, or no sweep is left to run.
StaleIsReaped ==
    \A s \in IDs : Stale(s) ~> (~Stale(s) \/ \A t \in Reapers : DeadLetter(t))
=============================================================================
