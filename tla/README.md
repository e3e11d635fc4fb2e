# A TLA+ model of aps

`aps` (Agent Profile System) is a Go program that runs actions under agent
profiles and offers them over several protocols. One binary is a command-line
tool, a set of servers (Agent Protocol, ACP, A2A, mobile pairing, messengers)
and a background worker. Nothing but the file system and two sqlite databases
coordinates the processes of one user: every `aps` command opens the same files
as the servers that are running.

That is where the interesting questions are. Most of the code is careful inside
one process (a mutex around each compound operation) and the same operations
are also reachable from several processes, or through several values of one
type, each with a mutex of its own. The models separate the two cases: what a
mutex really buys is *proved*, and what it does not buy is *exhibited* when a
document or comment of the repository promises it.

## 1. Inventory

Paths are relative to `src/internal/`.

| Component | State | Operations | Meets others through |
|---|---|---|---|
| session registry, `core/session` | rows of `sessions.db` (status, last seen, environment), one mutex per process | Register, Unregister, UpdateStatus, UpdateHeartbeat, UpdateMetadata, CleanupInactive | the database, the event bus, the sweep job |
| protocol core, `core/protocol`, `adapters/agentprotocol` | `runRegistry` (status, exit code, output size), the child process, the pipe of a streaming run | ExecuteRun, CancelRun, streamOutput, the SSE handler | child processes, HTTP clients |
| event store, `core/multidevice` | `events.jsonl`, `index.json`, one mutex per `EventStore` value | Store, GetLatestVersion, GetRange, GetMissedEvents | Publisher, SyncManager and Manager, all processes |
| workspace synchronisation, `core/multidevice` | offline queues, the log, conflict files, the version on a device's link | Enqueue, PublishEvent, InitiateSync (Dequeue, Detect, Classify, Resolve, Save, Store) | the event store, conflict files |
| conflict resolution, `cli/workspace`, `core/multidevice` | one conflict's file | `aps workspace conflicts resolve` | SyncManager |
| presence, links, access control, rate limits, broker, vector clocks, `core/multidevice` | presence map and files, link files, buckets, subscriptions | heartbeats and their timeouts, Attach/Detach/SetRole, EvaluatePermission, Publish/Subscribe, Merge/Compare | Manager, CLI processes |
| durable jobs, `cli/jobs.go`, `runtime/jobs` | a queue in sqlite (an external engine) | enqueue, poll, retry, the sweep that re-enqueues itself | session registry, background runs |
| mobile pairing, `core/adapter/mobile`, `cli/adapter` | one row per device in the registry, pairing code, connections and mutexes of each pairing server | pair, connect, message, leave, Stop, approve, reject, revoke, UpdateLastSeen | the registry's rows, shared by servers and commands |
| adapter manager, `core/adapter` | the runtime of each adapter in one process's memory, one mutex | StartAdapter, StopAdapter, HealthCheck, Shutdown, a waiter per child | child processes, other `aps` processes |
| ACP, `acp` | sessions and their modes, terminals, the transport of each client | initialize, session/new, set_mode, terminal create, wait, kill, release, skill/invoke; Stop | clients, child processes |
| collaboration, `core/collaboration`, `storage` | manifest, workspace state, task list, shared context, audit log, each a file | join, leave, remove, role, archive, policy, send, ctx set and delete | the files, shared by commands |
| A2A, `a2a` | tasks, agent card cache, an IPC directory | message/send, tasks/get, cancel | external SDK, transports |
| messengers, `adapters/messenger`, `core/messenger`, `core/msgroute` | replay store, conversation store, service record | acknowledge, normalise, route, execute, deliver with retries, record | platforms, the chat runtime, sqlite, a YAML file |
| chat, `core/chat` | transcripts | Send, turn taking | a completion service, files |
| squads, profiles, actions, capabilities, bundles, skills, isolation, voice, identity | files, child processes | mostly load, check, save | the components above |

What is hard to test in them, line by line, is the list of hazards in
`PROJECT.json`. In short:

* **One mutex, several processes.** Read-modify-write of a whole row or file
  under a lock of one process (session registry, event store, mobile registry,
  collaboration files, conflicts, transcripts, service records).
* **Two files, one operation.** A crash or a full disk between the append to the
  log and the save of the index, or between the removal of the offline queue and
  the storage of its events.
* **Several goroutines, one run.** Child, pipe, reader, waiter, client and cancel
  requests, all ending the same run.
* **State used after it was read.** A reaper's list, a device's target version, a
  conflict that was unresolved before the prompt, a count of active devices, a
  permission, the runtime an adapter's waiter is about to mark.
* **Messages that come again, late or never.** Webhooks delivered twice, replies
  that fail and are retried, devices that reconnect before they left.
* **Something that must happen.** Stale sessions must be reaped; a run whose
  child has ended, or whose client has gone, must return; a webhook must be
  answered, a server must stop, a child that ignores SIGTERM must end.

What makes each component correct is stated with it in section 2; why some are
not modelled is in section 8.

## 2. What is modelled

Each module's variables carry comments naming the field or file they stand for,
and each action is named after the function it translates. Definitions beginning
with `Mut` are wrong variants of the action next to them. They are used by no
specification; each shows that the property named in `PROJECT.json` would notice
the bug.

### SessionRegistry (`SessionRegistryProofs`, `MCSessionRegistry`)

`core/session/registry.go`, `kvstore.go`, `eventbus.go`. A mutator is `Lock`,
then one action per access to the key-value store, the publication, and the
unlock (`Return`). A sweep lists the keys, reads the rows one by one and deletes
what it found stale. Every access may fail (`StoreError`), and the process may
die at any point. An event may be lost on its way to the bus, since `publish` drops
its error. A sweep is a tick of the inline reaper (`Tickers`) or a job of
`cli/jobs.go`: a job that succeeds enqueues the next, one that fails is retried up
to `MaxAttempts` and is then dead. `ProcOf` says which process, and so which mutex,
a goroutine uses. Rows are reduced to status, last-seen time and the keys of the
environment, the fields the registry's own logic reads or merges.

Correctness: errored is terminal; a sweep deletes only what is stale when it is
deleted; no update is lost; only Register creates; an event that arrives is true;
a stale session is eventually reaped, as long as there is a sweep to run.

### RunLifecycle (`RunLifecycleProofs`, `MCRunLifecycle`)

`core/protocol/core.go` (ExecuteRun, CancelRun, streamOutput), `types.go`, and
`adapters/agentprotocol/{runs,sse}.go` for the end of a streamed response.
`pc[r]` follows ExecuteRun; the child, a descendant that inherits its standard
output, the bounded pipe, the reading goroutine and the client's context are
separate actors. Output is counted in chunks of the pipe. Each change of a
registry entry is one step, as it is under `runMutex`.

Correctness: the record says what the process did; an outcome is never
rewritten; a returned `RunState`, which handlers read without the mutex, no longer
changes; no output is lost; a disconnected client frees its run, and a run whose
child has ended returns.

### EventStore, EventLog (`EventStoreProofs`, `MCEventStore`)

`core/multidevice/event_store.go`. Store is Lock, load the index, append the
line, truncate the index, write it. Any of them may fail or be the last thing
the process does, and a line may be written in part, in which case the next line
merges with it and readers skip both. GetMissedEvents is two reads under two
separate read locks. `InstOf` says which `EventStore` value, and so which mutex, a
caller uses.

`EventLog` is the abstract specification: versions are published one after the
other and never change; a device that catches up receives exactly the versions
after its own up to some version that existed when it asked. The refinement
mapping (`Published`) takes as version `v` the readable lines numbered `v`, for `v`
up to the index's latest version. The step that publishes is the save of the
index: a line that is only appended belongs to no version yet. Lines of failed
Store calls share the number of the next successful one and are published with
it.

### WorkspaceSync (`WorkspaceSyncProofs`, `MCWorkspaceSync`)

`core/multidevice/{sync_manager,offline_queue,conflict_detector,lww_resolver,
conflict_store,resolution_manager,publisher}.go`. Two devices write online
(PublishEvent) or offline (Enqueue) and run InitiateSync concurrently: read the
version, return early if up to date, read the queue, remove it, then for each
event Detect, Classify and resolve, save the conflict, store the event. A sync
may fail after any step. Storing an event appends its line under the version after
the index's and saves the index, or fails to: the line then stays and the next event
gets the same version. The two halves are one step here, as they are under the mutex
of one `EventStore` value (section 5). `exposed` remembers the events that the code
itself puts at risk: those a failing sync held, and those that were appended to the
queue or read from it while another call was between reading and removing it.
The stored events a conflict is with are a set of positions of the log; the
code's list of them is in that order, and so are the loops over it.

Correctness: an offline event that was not exposed is in exactly one place, whatever
overlaps, fails and is retried; a device's events keep their order across failed syncs; every clash with an event
that was in the log when an offline event was examined is in a recorded
conflict; last-write-wins picks an event that no other one is later than.

### ConflictResolution (`MCConflictResolution`)

`cli/workspace/conflicts_resolve.go`, `Manager.ResolveConflict`,
`ConflictStore.Save`. Each user's command loads, checks, asks, loads again, truncates
and writes, in a process of its own that may die while it saves.

Correctness: a choice that was reported as applied stands. A comment of the command
promises it, and it does not hold: the run `resolve_overlap` refutes it (section 3).

### MessageService (`MessageServiceProofs`, `MCMessageService`)

`adapters/messenger/{handler,router,chat_executor}.go`,
`core/messenger/{runtime,history,history_sqlite,validation}.go`, `core/chat`, and
the service record of `core/service.go`. A request is one delivery of one event.
Its handler acknowledges (Slack: replay store first), normalises and routes
(success or failure), reads the prior turns and records the message, executes an
action or a chat turn, delivers the reply with retries, records it, and updates
the service record, each access to something shared being a step of its own.
The platform delivers again on every path and hangs up, entries of the replay store
expire and are evicted, and the server may die. A call out of the server (the action,
the language model, the provider) may get no answer at all (`Hang`): none of them has
a deadline, and only the end of the request's context brings it back. The two files that are rewritten in place can be
left unreadable by overlapping writes and by a crash. All events belong to one
conversation, the case in which handlers meet.

Correctness: an event is executed once for each time the replay store did not
know it; where the runtime delivers the reply, an outbound turn is on record only
for a reply the platform confirmed; the history keeps
a reply behind its message and never shows an action its own message; a
transcript is a sequence of exchanges; the health on record is that of the
status on record; every webhook is answered, unless it waits for a call that gets no
answer while the platform waits for it.

### MobilePairing (`MobilePairingProofs`, `MCMobilePairing`)

`core/adapter/mobile/{server,registry,types}.go` and the commands of `cli/adapter`.
Servers start, take pairing requests, health requests and web sockets, and stop;
the handlers of one server share `pairingMu`, `s.mu` and the registry's mutex. The
rows are shared with other servers and with approve, reject and revoke, each a
read and a later write in a process of its own. Stop keeps `s.mu` while Shutdown
waits for handlers, of which handleHealth needs it: only the deadline ends that.

Correctness: a code pairs one device; the limit on active devices holds up to the
pairings that overlap; where approval is required only approved devices get in
and stay; Stop returns. That a revocation holds is promised by the command and
does not (section 4).

### AcpServer (`AcpServerProofs`, `MCAcpServer`)

`acp/{server,session,terminal,transport_ws}.go`. One serve loop per client handles one request
at a time from its transport's queue; clients share the session, whose mode
decides what is permitted, and the terminals. `terminal/create` and `skill/invoke` both
create a terminal: the permission check, the entry in the list, the start of the
process and the change of its status, in this order and with other clients' requests
in between; a goroutine for each process notes its end. Stop takes `s.mu`, cancels the
context, and waits in Shutdown, which has no deadline, for the requests that are not
upgraded (`plain`); then it releases the terminals one by one, giving the manager's
lock back between them, while the serve loops finish the request they are in and
`initialize` waits for `s.mu`.

Correctness: answers and statuses agree with the process; a released process ends;
Stop comes to its end once no plain request is open, and then no process lives on of
a terminal that a client had been told of before.

### Collaboration (`CollaborationProofs`, `MCCollaboration`)

`core/collaboration/{manager,workspace,messaging,context,types}.go`,
`storage/collaboration.go` and the commands of `cli/workspace`. Each command is a
process that loads manifest and state, checks and changes its copy and saves both, and
most then load and save the audit log; `send` and `ctx` do so with the task list and
the context. Saving is the system calls of `atomicWriteFile`: open and truncate
`<file>.tmp`, write, rename, and on failure remove. The name is fixed, so two commands
share the temporary file: one renames what the other is writing. Open, write and
rename may fail, and a command may be killed between any two calls. The manifest is
modelled by its limit on agents, the only setting a rule reads; 0 is no limit, and what
an empty file parses to.

Correctness: the workspace that can be read has an owner, and no more members than
allowed as long as no command has loaded a manifest without its limit; commands that run
one at a time, failing, killed or not, leave readable files with every task reported
sent and every audit entry that was saved without an error; an archived workspace stays
archived once the commands that had loaded it before are over.

### AdapterManager (`MCAdapterManager`, proofs in `MobilePairingProofs`)

`core/adapter/manager.go` and the commands that call it. Calls take the manager's
mutex; a stop keeps it while it waits five seconds for SIGTERM and one for SIGKILL;
the waiter of a child takes it afterwards and marks the runtime, whichever child
that is about by then (`stale`). The commands make one call per process, so
overlapping calls are those of a program that uses the package; Shutdown and
HealthCheck have no other callers. A stop in a new process finds nothing to stop.
A descendant that keeps the adapter's output open, and so its waiter waiting, is not
modelled.

Correctness: a child that lives is the one its manager knows of; a stop ends its
child. One child for each adapter is promised by the start command and does not
hold across processes (section 4); in one process it does, and that is proved
(section 7).

## 3. The runs

Each module states a type invariant `TypeOK`. TLC checked it while the modules
were written, and it is proved, or implied by a proved invariant, wherever a
specification's invariants are proved (section 7); the runs check the properties
that relate steps of several actors.

| Run | Instance | Shows |
|---|---|---|
| `registry_one_process` | two callers, a sweep job with two attempts, two sessions, one key, two faults, a clock of two values | no lost update, errored is terminal, safe sweeps, true events, and, under fairness, stale sessions are reaped while a sweep is left |
| `run_lifecycle` | one run, three chunks, a pipe of two, failing writers, descendants, cancel requests, a client that leaves | the record, the output and the outcome, and, under fairness, that ExecuteRun returns |
| `store_one_instance` | two writers, one device, four lines, two faults | versions, index, missed events, and the refinement of `EventLog` |
| `sync_two_devices` | two devices with one sync each, three possible writes of one resource, three events, one fault | what is not exposed is kept once, in order, conflicts covered, latest wins |
| `message_service` | two events, two deliveries, two attempts, a replay store of one entry, three kept turns, a crash; Slack and plain webhook actions, Telegram chat | executed once per memory, history, transcript and record, and, under fairness, an answer to every webhook that waits for no hanging call |
| `mobile_pairing` | two servers, one socket, a limit of one; without approval three devices and one command, with approval two and two | one device per code, the limit, approval, and, under fairness, that Stop returns |
| `acp_server` | two clients, five requests, one terminal, a queue of one, a plain request | the terminal tells what its process did, Stop leaves no known process alive, and, under fairness, released processes and Stop end |
| `collaboration` | three profiles, two members at most, three commands, two at a time, four mixes of operations | the rules, nothing lost alone, archived is final |
| `adapter_manager` | one manager, two callers, three children, seven calls | no child is lost, and, under fairness, a stop ends its child |

Three runs are expected to end in a violation, each of one statement of the
repository:

| Run | Statement | What TLC finds |
|---|---|---|
| `resolve_overlap` | "resolving an already-resolved conflict is a no-op (idempotent)." (`cli/workspace/conflicts_resolve.go:57`) | two users: the second command has passed its look at the status when the first saves, and overwrites the choice that was reported as applied |
| `mobile_revoke` | `aps adapter revoke`: "The device must re-pair via a new QR code to reconnect." (`cli/adapter/revoke.go:31`) | the server's UpdateLastSeen writes back the row it read before the revocation, and the device gets in again |
| `adapter_two_commands` | `aps adapter start`: "no double-spawn" (`cli/adapter/start.go:36`) | the second command's manager knows of no child and starts another |

### Bounds, and why they are enough

* *Registry.* Every property relates one row to one reader and at most one
  interfering mutator; two callers and the reaper give all pairs, and two sessions
  let a sweep be interrupted between two rows. A clock unit stands for the
  whole timeout, so one tick makes every row stale that nobody touches. Two faults
  let a job of two attempts die. The
  safety properties are also proved for every size.
* *Runs.* Runs share nothing but the map, so one is enough. Three chunks against
  a pipe of two let the child block on a full pipe while one chunk has been read.
* *Event store.* Four lines and two faults allow a half-written line, a Store that
  dies after its append, and two successful calls around them. All safety
  properties and the refinement are proved for every size.
* *Sync.* Conflicts are pairwise. Three events give a conflict with two existing
  events, a second offline event behind one whose sync failed, and equal as well
  as different times. Devices enqueue while they sync. Two calls for one device at
  the same time are left to the proof: order and conflicts do not survive them
  (section 7), `KeptOnce` does, for any number of them.
* *Resolution.* Two users are needed for an overlap, and a process may die while it
  saves.
* *Messages.* Two deliveries are two events or one event twice; a replay store of
  one entry is full at once, so the second event evicts the first; three kept
  turns and two prior ones let pruning and the limit act on two exchanges. Three
  configurations cover the three ways a webhook comes in and both executors.
* *Pairing.* Each property is about one code or one device and one interfering
  handler or command. A limit of one and two servers let the devices exceed the
  limit by one when pairings overlap; a third device is there to exceed it by two,
  and never does. Where approval is required two commands let an approval and a
  revocation race with each other and with the servers. `mobile_revoke` has one
  server and two sockets, so that the device connects again beside the connection
  whose handler is late.
* *ACP.* A terminal's life is interfered with by the other client's requests and
  by Stop; five requests are enough to set a mode, create by either request, and do
  three things to the terminal. Terminals share nothing but the list.
* *Collaboration.* Files are damaged by pairs of commands; the third command
  meets what two overlapping, failing or killed ones have left. Two members of three
  profiles let capacity and last owner both bite. Profiles are symmetric. `Mixes`
  says which operations occur together in one behaviour: those that meet in the
  owners (leave, role, archive), in the capacity (join, remove, policy), in the
  archive (join, archive) and in the lists and the context (archive, send, set,
  delete). Every pair that shares a rule is in a mix; the theorems have no such bound.
* *Adapter manager.* A late waiter needs a first child, a stop and a second child;
  the third child shows what happens to the manager afterwards. Seven calls allow
  two start and stop pairs with a third call beside each.

Deadlock is checked where the system has no natural end (the registry, the syncs,
the resolution). The event store stops when the bounded log is full, a run when
it has returned, and the other systems when nobody calls them any more.

## 4. Findings

The three violation runs are the findings in `PROJECT.json`. Other statements of the
repository are stated in the modules and refuted by TLC when the named constants
are given to the module's configuration in place of those it has, with the
definition as its only property (`ErroredIsTerminal` as a PROPERTY, the others as
an INVARIANT):

| Definition | Constants | Statement of the repository | What happens |
|---|---|---|---|
| `ErroredIsTerminal` | `Procs = {p1, p2}`, `ProcOf <- TwoProcOf` | "errored is terminal" (`core/session/registry.go:34`) | the check is made on a row the other process changes before the write |
| `CancelSticks` | as in the run, `Orphans = FALSE` | story 023:18, "the process is terminated and status becomes `cancelled`" | CancelRun does not touch the child, and ExecuteRun overwrites the status |
| `FinalEventArrives` | as in the run, `Orphans = FALSE` | story 022:19, "a final event with `status: completed`" | the writer is closed at the end of the output, before the handler sends it |
| `NothingMissed` | `Instances = {i1, i2}`, `InstOf <- TwoInstances`, no symmetry | "retrieves all events the device has missed" (`core/multidevice/sync_manager.go:41`) | two events get one version, and a device between them misses one |
| `SurvivesRestart` | as in the run | events are queued in a file "so they survive process restarts" (`core/multidevice/offline_queue.go:16`) | the file is removed before its events are stored |
| `ReconnectSyncs` | as in the run, `MaxFaults = 0` | story 050:46, "all offline changes are synced" | a device that has seen every version returns before it looks at its queue |
| `StopReleasesAll` | as in the run | "Release all terminals" (`acp/server.go:161`) | a terminal whose creation is under way is started after ReleaseAll has come to it, or is listed after the iteration |
| `FilesStayReadable` | as in the run | atomicWriteFile "prevents partial writes from corrupting existing data" (`storage/collaboration.go:351`) | two commands share the temporary file: one renames what the other has just truncated |
| `CapacityHolds` | as in the run | "workspace at capacity" (`core/collaboration/workspace.go:73`) | two commands that save the manifest at the same time leave it empty, which parses to no limit, and the next join passes it |
| `EveryChangeIsAudited` | as in the run | Manager "records audit events for all state-changing operations" (`core/collaboration/manager.go:32`) | the audit log cannot be written, the error is dropped and a command run alone reports success |

They have two sources: mutexes that do not cover what they are believed to cover
(two processes, two instances, two commands), and an operation that ends before
its last effect (the closed writer, the removed queue, the early return, the
cancel that only writes a field).

Met while reading, and built into the models where they are about a modelled
operation:

* `initJobs` turns the inline reaper off before it opens the job engine: when the
  engine cannot be opened, when the first sweep cannot be enqueued, or when a sweep
  has failed three times, nothing in that process reaps any more. `StaleIsReaped`
  exempts just this;
* an event appended to the offline queue between Dequeue's read and removal is
  deleted unread (`offline_queue.go:103`), and two syncs of one device that both read
  the file store its events twice: `KeptOnce` exempts just these;
* where the answer to a webhook is the reply, the outbound turn is recorded before
  the answer is written (`adapters/messenger/handler.go:320`): a connection that breaks
  then leaves a turn nobody received, and `OutboundWasSent` is not about this path;
* calls to Slack, Telegram, the language model and the action have no deadline;
* an ACP request that is not upgraded and whose body never comes keeps Shutdown, and
  with it Stop and `s.mu`, for ever (`acp/server.go:158`): `StopReturns` starts from the
  moment no such request is open;
* `terminal/wait_for_exit` may answer 0 after a kill, before the exit code is known;
* a command that loaded a workspace before it was archived saves it as active again;
* the text of `archive` calls the workspace read-only; send, ctx, policy and role
  do not look at its state, and ctx set always acts as an owner;
* revoke does not disconnect a connection that is open;
* a Slack event is marked as seen before it is handled: when the handling fails,
  the platform's retry is answered as a duplicate;
* `exec.Cmd.Wait` may close the terminal's pipes before its output is read;
* `Manager.SyncDevice` saves a link it read before the sync, over a detach or a
  change of role; detach leaves the device's offline queue behind;
* a rate-limit bucket keeps the limit it was made with.

## 5. Composition

`WorkspaceSync` uses the event store as one step that appends with the version after
the index's and saves the index or not, and `EventStore` refines `EventLog`, which is
that interface. The composition is sound only where all parties share one `EventStore`
value. Section 4 says what happens otherwise, and `NewPublisher`, `NewSyncManager` and
`Manager.GetEventStore` each make a value of their own. `SyncManager` and the
command line meet in a conflict's file: `ConflictResolution` starts from what a sync
leaves there.

`MessageService` composes the messenger runtime, the chat runtime, the
conversation store and the service record, because their hazards are those of
handlers that meet in several of them. `MobilePairing` composes servers and
commands, `AcpServer` sessions, terminals and transports.

## 6. Fairness

* *Registry.* Weak fairness of every goroutine inside a mutator: it holds a
  `sync.Mutex` and waits for nothing but the database. Strong fairness of the
  reaper's start: its ticker fires for ever, its job is claimed as long as it has
  attempts left, and Go's mutex does not starve a waiter although other callers keep
  taking it in between. A job that is dead is not enabled, and fairness gives it
  nothing. Callers owe nothing: they may stop, or call for ever.
* *Runs.* Weak fairness of ExecuteRun's steps and of the streaming goroutine,
  which the Go scheduler gives. A call of the StreamWriter is assumed to return,
  with or without an error. The child and the client owe nothing: an action may
  never end and a client may never leave.
* *Messages.* Weak fairness of every handler: it is a goroutine, and the waits
  between retries have timers. Its calls out of the server have no deadline, so a
  hanging one (`Hang`) is not assumed to return before the platform has gone. The
  platform owes nothing.
* *Pairing.* Weak fairness of a server that is stopping: Shutdown has a deadline.
* *ACP.* Weak fairness of the goroutine in Stop where nothing holds it, and of the
  end of a killed process. Shutdown is held by an open plain request, which nothing
  obliges to end. Clients and their loops owe nothing.
* *Adapters.* Weak fairness of a call that can go on, whose two waits have timers,
  and of the end of a killed child.
* `EventStore`, `WorkspaceSync`, `ConflictResolution` and `Collaboration` have safety
  properties only and state no fairness.

## 7. Proofs

Eight modules hold proofs that TLAPS checks. Their theorems are about every value
of the constants (any number of processes, callers, devices, requests, failures),
under the assumptions the modules name: constants have their types, bounds are
natural numbers, the sets whose cardinality a property counts are finite
(`IsFiniteSet(Servers)` in `MobilePairing`), and markers such as `None`, an empty or
a damaged file are not contents (`TextsAssumption` in `Collaboration`,
`NoneAssumption` in `AdapterManager`). Where a
theorem needs more, it says so in an ASSUME of its own: `OneProcess`,
`OneInstance`, `OneAtATime`. Every one of these is the line between what
the code does and what it does not do, and is explained below.

Every proof has the same form: an inductive invariant `IInv`, checked with TLC on
the run's instance before it was proved, one lemma per action or per part of the
invariant, and the theorems as consequences.

**Session registry, any number of processes.** `IInv` is typing, `MutexHeld` and
`OpOK`: inside a mutator there is a call, and the position is one this call can be
in. Without `OpOK` typing is not inductive, since a write would use the session
identifier of a call that has none. From it `Typing` and `MutualExclusion` follow.

**Session registry, one process** (`ASSUME OneProcess`). `OneProcessInv` adds

* `SeenPast`: no row is dated in the future;
* `CopyCurrent`: every row a goroutine has read is the row in the store, until
  it writes. This is what the mutex buys, and exactly what fails with two
  processes;
* `DoomedStale`: what a sweep has chosen to delete is still stale.

`Alone` (whoever is inside a mutator is the only one) makes `CopyCurrent` inductive.
The four action properties are then each proved from the invariant and the step:
`ErroredTerminal`, `SweepSafe`, `UpdatesKept`, `CreatedByRegister`.

`AnnouncedTruly` needs two parts more: what a goroutine has still to publish is true
of the store (`Owed`), and nothing is to be published before the write (`Unsaid`). The
property speaks of the moment an event arrives; what makes it true is that the mutex
is held from the write to the publication, also by a sweep that has deleted only some
of its sessions.

**Event store, one instance** (`ASSUME OneInstance`, `Invariance`). The properties
themselves are not inductive. The invariant adds that a writer inside Store holds
the mutex (`Locked`); that what it loaded is current (`Current`); that the line it
appended is the last one and carries the next version (`AtEnd`); that no line is
more than one version ahead of the index (`OneAhead`) and no acknowledged line is
ahead of it at all (`AckedIndexed`); that devices are not ahead of the index
(`Reached`); and that a device has received *exactly* the readable lines up to its
version (`Received`). The last one is stronger than `NothingMissed` and is what the
refinement needs: a line appended later is beyond the index, so it cannot fall
into a range some device has already been given. From the invariant follow
`NoEventMissed`, `VersionsGrow`, `IndexBacked` and `Refinement`, the last with one
lemma for each of the steps that matter: `SaveIndex` is the abstract `Store`,
`GetRange` is `CatchUp`, and `AppendLine` and everything else is a stuttering step.

**Runs** (`RunLifecycleProofs`). The invariant follows ExecuteRun: for each
position, what the status (`StatusAt`) and the process (`ChildAt`) can be and what the
record says of it (`RecordOf`). `Flow` is a balance: what a streaming child has
written is counted or still in the pipe. `Eof` says that a reader that stopped
without a failed write has seen the end of the file and that nobody can write any
more, descendants included; without it `OutputIsComplete` would fail when the last
writer ends. Theorems: `RecordTrue`, `NoOutputLost`, `OutcomeFinal`,
`ReturnedFrozen`.

**Mobile pairing** (`MobilePairingProofs`). `CodePairsOnce` and
`ConnectedIsApproved` need the local state of handlers, sockets and commands
(`Hosts`, `Codes`, `Locals`), and that a row about to be written back is one an
approved device may have (`Approved`). The limit is harder. A handler counts row by
row and registers later, while revocations take devices away, so the number of
devices and the count of a handler are of different times. `Room` therefore speaks
of *every* set `B` of paired devices: those of `B`, and the handlers that would pass
the check if of the rows still to be read just those of `B` counted, fit into the
limit plus the overlap. A revocation only makes the choice of `B` smaller, which is
why this is inductive and the statement about the current devices is not.
Theorem: `LimitHolds`, the excess being one less than the number of servers once
pairings have overlapped, and none before.

**ACP** (`AcpServerProofs`). A terminal is visible before its process is started.
`Requests` says that its creator is the only one who deals with it until then,
`TerminalOK` and `Creation` what status, process and kill can be at each step, and
`Answered` the same of the answers given. For Stop, `Listed` says that before it every
running terminal is in the list or was killed, and `DueOK` follows the ones whose
creation was answered: alive and not killed, such a terminal is in the list and, once
ReleaseAll has begun, still before it. Theorems: `StatusTellsProcess`,
`StopReachesAnswered`.

**Collaboration** (`CollaborationProofs`). Updates are lost and files damaged, yet
`RulesAreKept` holds: every text anywhere, in the file, in the temporary file and
in each process's copy, keeps the rules (`Rules`, `Processes`), because each was
checked when it was made, against the limit its command had loaded. `limitless` is
what separates the two halves: an owner there always is, the capacity is kept until a
command finds a manifest without its limit. `AloneOK` follows a command that runs alone
through `atomicWriteFile`, with its failing calls and the temporary files that killed or
failed commands have left. Theorems: `TypeCorrect`, `RulesAreKept`, `AloneKeeps`,
`ArchiveFinal`.

**Messages** (`MessageServiceProofs`). `Control` says what a handler can have left
to do at each position; the lemma `Road` describes its moves, so that the other
parts are proved once per kind of move and not once per action. `Paid` is the
account of executions: those made, and the handlers on their way to one, are
covered by what the replay store forgot and remembers. `Ordered` says that a turn
is in the store only after its handler has passed the place where it is appended,
and survives pruning. `Drafts` and `Healthy` are about what handlers hold, not only
about the files: a file is consistent because every copy that can be written is.
Theorems: `TypeCorrect`, `ExecutedOnce`, `OutboundSent`, `TurnsInOrder`,
`TranscriptWhole`, `HealthFollows`.

**Synchronisation** (`WorkspaceSyncProofs`, `ASSUME OneAtATime`: no two syncs of one
device at the same time). Without it two calls read the same queue and store its
events twice, out of order; nothing in the code excludes that, and the run, too,
has one call per device. `Authors` says that an identifier belongs to one device
wherever it occurs, and `Order` that log, batch and queue of a device, one after the
other, are in the order of its writes; `QueueOrder` is not inductive without the
latter. `Covered` follows a conflict from Detect to the conflict file to the stored
event: what an event was examined against does not grow with the log. Theorems:
`OfflineOrder`, `ConflictsKept`.

`NothingElseLost` needs no `OneAtATime`. `Once` says of an event which of the three
places has its only copy. That is not inductive: a sync that has read the queue and not
yet removed it has a second copy in memory. `Kept` therefore says, of every event that
is not exposed, that such a sync has read just what is in the queue (`ReadHere`) and is
the only one that has (`Single`), so that its removal moves the event and does not lose
it.

`LastWriteWins` and `TypeCorrect` need no `OneAtATime` either. The winner is a fold over the
positions of the stored events, a recursive function of the set, and what it returns
for every set is an induction over data. The library's induction rules cannot be
used here, so the argument goes through the least-number principle (`Least`, from
`WFMin`): `Body` is the fold's equation and `Scans` says that a function satisfies it,
`ScanExists` that there is such a function. If the scan of some set of positions
ended with an event that another one is later than, there would be a least bound on
the positions of such a set; the set then contains that bound, and without it the
scan is right, hence with it as well (`ScanBest`, with `LaterOrders`: `Later` is
irreflexive, asymmetric and transitive). `Decided` then carries the fact from Detect,
where a conflict is resolved, to the file it is saved in.

**Adapter manager** (in `MobilePairingProofs`, the other half of the same package,
which instantiates `AdapterManager` as `Manager`; `ManagerConstants` repeats that
module's assumptions). `LiveIsKnown` is not inductive. A waiter marks whatever
runtime its manager has, and a start replaces a runtime that is not running, so the
invariant also says that a runtime is of a child its own manager started
(`ManagerOwned`), that every started child has an owner (`ManagerStarted`), that the
mutex is kept by the one call that waits (`ManagerMutex`), and that such a call has
a runtime to mark (`ManagerAwaited`): a start cannot replace the runtime while a stop
waits for its child. Theorems: `ManagerMutexKept`, `ManagerLosesNoChild`.
`OneProcessOneChild` is the other side of the run `adapter_two_commands`: if there is
one manager, the adapter has one child at a time, until a late waiter marks a later
child's runtime. It needs that calls are made only in a process that runs
(`ManagerBusy`) and that a manager's children live one at a time even after it has
ended (`ManagerOneEach`), since `LiveIsKnown` says nothing about that.

**Only model-checked** is what depends on fairness: `StaleIsReaped`,
`DisconnectReleases`, `EndedRunReturns`, `EveryWebhookIsAnswered`, `StopReturns` (of
the pairing server and of ACP), `ReleasedEnds`, `StopEndsChild`. The prover does not
reason about fairness and ENABLED. Every invariant and every safety property that a
passing run checks is also a theorem.

## 8. Not modelled, and the plan

Left out for good: file formats, flags, listings and wording; cryptography and
directory clients; telemetry; what operating systems do inside an isolation
backend; the job engine and the A2A SDK beyond their use; the generated
annotations of the command line. Much of the code is of this kind: commands that
load, format and print, parsers and normalisers of platform messages, and
validation of configuration files, where a unit test says more than a model.

Left out of the modelled components: the migration of a legacy `registry.json` and
`Close` of the session registry; ProcessOfflineEvents, which repeats
InitiateSync's loop on events its caller holds; the 64 KB line limit of the
reader of `events.jsonl`; background runs, which belong to the jobs; WhatsApp, which
repeats the Telegram path; of ACP the stdio transport, which uses the same loop, the
requests that change nothing of sessions and terminals (fs/*, terminal/output, the
other skill requests), and the second Shutdown that the end of the server's context
starts; Create and the observers of a collaboration workspace; the expiry of a paired
device's token; one-shot and builtin adapters.

Not modelled, with the reason:

* *Presence, access control, rate limits, broker, vector clocks.* Nothing in the
  program calls the heartbeat and its scan, CheckAccess, Subscribe or Merge. Their
  states are reachable only from tests.
* *Device links.* Read-modify-write of one file without a lock, the structure of
  `Collaboration`.
* *Durable jobs.* The life of a sweep job is in `SessionRegistry`; leases and the queue
  are an external engine's, and action jobs only pass through it.
* *A2A.* Tasks are files written by the handler of the task's own request; the state
  machine is the SDK's. The IPC directory is a candidate for a later module.
* *Voice.* Sessions in one map under one mutex, in front of an external process.
* *Squads, profiles, actions, capabilities, bundles, skills, identity.* Load, check
  and save of files by one command; choices that are functions of what was loaded.

What could come next:

1. The IPC directory of A2A: messages as files that several processes list, read
   and remove.
2. Device links as an instance of what `Collaboration` says about one file, and
   presence once something in the program calls the heartbeat.
3. The liveness properties for every number of actors, with a tool that reasons
   about fairness.

## 9. Running it

    tlc -workers 2 -config MCEventStore.cfg MCEventStore
    tlapm EventStoreProofs.tla

`PROJECT.json` lists every run with its module, configuration and properties, the
source lines each definition translates, and the mutants. All runs finish within
three minutes on two cores.
