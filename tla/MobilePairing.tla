---------------------------- MODULE MobilePairing ----------------------------
(***************************************************************************)
(* Pairing of mobile devices (internal/core/adapter/mobile, driven by      *)
(* internal/cli/adapter).  Every `aps adapter pair` is a process with one  *)
(* AdapterServer and one pairing code; `approve`, `reject` and `revoke`    *)
(* are processes of their own.  They share the registry, a key-value file  *)
(* of one row per device, in which every change is a read of the row and   *)
(* a write of the whole row.  The registry's mutex orders the handlers of  *)
(* one process and nothing between processes.                              *)
(***************************************************************************)
EXTENDS Integers, FiniteSets

CONSTANTS
    Servers,      \* `aps adapter pair` processes that may run at once
    MaxSockets,   \* bound on the web socket requests in flight at once
    MaxDevices,   \* bound on the devices
    MaxCommands,  \* bound on the approve, reject and revoke commands
    MaxPaired,    \* bound on the pairings accepted, by approvalRequired
    MaxGiven,     \* bound on the commands given, by approvalRequired
    MaxAdapters,  \* maxAdapters of the profile
    Approvals,    \* the values of approvalRequired to look at
    None          \* no server, no socket

ASSUME PairingBounds ==
    /\ {MaxDevices, MaxSockets, MaxCommands, MaxAdapters} \subseteq Nat
    /\ MaxPaired \in [BOOLEAN -> 0..MaxDevices] /\ MaxGiven \in [BOOLEAN -> 0..MaxCommands]
    /\ Approvals \subseteq BOOLEAN
    /\ IsFiniteSet(Servers)
    /\ None \notin Servers \cup Nat

Devices == 1..MaxDevices
Sockets == 1..MaxSockets
Commands == 1..MaxCommands
Rows    == {"none", "pending", "active", "revoked"}  \* none: no row

VARIABLES
    approval,  \* approvalRequired
    row,       \* the registry: status of each device's row
    server,    \* AdapterServer.status, with "off" for no process
    code,      \* the process's pairing code
    conns,     \* AdapterServer.conns: the socket listed for each device
    health,    \* a health request is being handled
    accepted,  \* pairings accepted: the last device's number
    pair,      \* where each device's pair handler is
    host,      \* the server that pairs each device
    left,      \* rows CountActive has still to read
    count,     \* active rows it has read
    sock,      \* each web socket handler: where it is, server, device, what it
               \* read of the device's row, state of the connection
    cmd,       \* each command: what it is about to write, and for which device
    given,     \* commands given: the last one's number
    fruit,     \* devices registered with the server's code (history)
    approved,  \* devices whose approval was stored (history)
    revoked,   \* devices whose revocation was stored (history)
    together   \* two pair handlers have run at the same time (history)

process  == <<server, code, health, fruit>>
commands == <<cmd, given>>
pairing  == <<accepted, pair, host, left, count>>
history  == <<approved, revoked, together>>
vars     == <<approval, row, process, conns, pairing, sock, commands, history>>

Idle      == [at |-> "idle", on |-> None, dev |-> 0, got |-> "none", link |-> "open"]
NoCommand == [write |-> "nothing", dev |-> 0]

Init ==
    /\ approval \in Approvals
    /\ row      = [d \in Devices |-> "none"]
    /\ server   = [s \in Servers |-> "off"]
    /\ code     = [s \in Servers |-> "none"]
    /\ conns    = [s \in Servers |-> [d \in Devices |-> None]]
    /\ health   = [s \in Servers |-> FALSE]
    /\ accepted = 0
    /\ pair     = [d \in Devices |-> "none"]
    /\ host     = [d \in Devices |-> None]
    /\ left     = [d \in Devices |-> {}]
    /\ count    = [d \in Devices |-> 0]
    /\ sock     = [w \in Sockets |-> Idle]
    /\ cmd      = [c \in Commands |-> NoCommand]
    /\ given    = 0
    /\ fruit    = [s \in Servers |-> 0]
    /\ approved = {}
    /\ revoked  = {}
    /\ together = FALSE

At(w, loc)  == sock[w].at = loc
IsActive(d) == row[d] = "active"
Active      == {d \in Devices : IsActive(d)}

\* Handlers before the upgrade are net/http's; Shutdown waits for those.
Serving(s) ==
    \/ health[s]
    \/ \E d \in Devices : host[d] = s /\ pair[d] # "none"
    \/ \E w \in Sockets : sock[w].on = s /\ At(w, "check")

\* s.mu is free unless Stop has it; the registry mutex of a process is free
\* unless a handler is between the two halves of UpdateLastSeen.
Unlocked(s)     == server[s] # "stopping"
RegistryFree(s) == \A w \in Sockets : sock[w].on = s => sock[w].at # "put"

-----------------------------------------------------------------------------
(* The process of `aps adapter pair`.                                      *)

\* runPair starts the server and registers a fresh code with it.  (It counts
\* the devices before, which is no guard: the count can be old by now.)
Start(s) ==
    /\ server[s] = "off"
    /\ accepted < MaxPaired[approval]
    /\ server' = [server EXCEPT ![s] = "running"]
    /\ code'   = [code EXCEPT ![s] = "fresh"]
    /\ UNCHANGED <<approval, row, fruit, conns, health, pairing, sock, commands, history>>

\* Stop, on a signal or at the end of the QR timer, up to its wait in
\* Shutdown: it takes s.mu and keeps it, closes what conns lists, forgets the
\* code, and the listener takes no more requests.
Stop(s) ==
    /\ server[s] = "running"
    /\ server' = [server EXCEPT ![s] = "stopping"]
    /\ sock'   = [w \in Sockets |->
                    IF \E d \in Devices : conns[s][d] = w
                    THEN [sock[w] EXCEPT !.link = "closed"] ELSE sock[w]]
    /\ conns'  = [conns EXCEPT ![s] = [d \in Devices |-> None]]
    /\ code'   = [code EXCEPT ![s] = "none"]
    /\ UNCHANGED <<approval, row, health, fruit, pairing, commands, history>>

\* Shutdown returns when the handlers are done: Stop returns and s.mu is free.
ShutdownDone(s) ==
    /\ server[s] = "stopping"
    /\ ~Serving(s)
    /\ server' = [server EXCEPT ![s] = "stopped"]
    /\ UNCHANGED <<approval, row, code, health, fruit, conns, pairing, sock, commands, history>>

\* Mutant: Shutdown without a deadline.
MutShutdownTimeout(s) == ShutdownDone(s)

\* Shutdown gives up after five seconds, whatever is still running.  Stop
\* returns, s.mu is free, and a health request that waited for it is answered.
ShutdownTimeout(s) ==
    /\ server[s] = "stopping"
    /\ server' = [server EXCEPT ![s] = "stopped"]
    /\ health' = [health EXCEPT ![s] = FALSE]
    /\ UNCHANGED <<approval, row, code, fruit, conns, pairing, sock, commands, history>>

\* The process ends, and with it whatever its handlers were doing.
Exit(s) ==
    /\ server[s] = "stopped"
    /\ server' = [server EXCEPT ![s] = "off"]
    /\ health' = [health EXCEPT ![s] = FALSE]
    /\ conns'  = [conns EXCEPT ![s] = [d \in Devices |-> None]]
    /\ sock'   = [w \in Sockets |-> IF sock[w].on = s THEN Idle ELSE sock[w]]
    /\ pair'   = [d \in Devices |-> IF host[d] = s THEN "none" ELSE pair[d]]
    /\ left'   = [d \in Devices |-> IF host[d] = s THEN {} ELSE left[d]]
    /\ count'  = [d \in Devices |-> IF host[d] = s THEN 0 ELSE count[d]]
    /\ host'   = [d \in Devices |-> IF host[d] = s THEN None ELSE host[d]]
    /\ fruit'  = [fruit EXCEPT ![s] = 0]
    /\ UNCHANGED <<approval, row, code, accepted, commands, history>>

\* handleHealth reads the status and the number of connections under s.mu, so
\* a request that came in just before Stop waits for it.  (At any other time
\* it answers at once and leaves no trace.)
HealthRequest(s) ==
    /\ server[s] = "stopping"
    /\ ~health[s]
    /\ health' = [health EXCEPT ![s] = TRUE]
    /\ UNCHANGED <<approval, row, server, code, fruit, conns, pairing, sock, commands, history>>

-----------------------------------------------------------------------------
(* handlePair.                                                             *)

\* The handler for device d answers, and its locals are gone.
PairEnds(d) ==
    /\ pair'  = [pair EXCEPT ![d] = "none"]
    /\ host'  = [host EXCEPT ![d] = None]
    /\ left'  = [left EXCEPT ![d] = {}]
    /\ count' = [count EXCEPT ![d] = 0]

\* A new pair handler has company if one is running.
Overlaps == together \/ \E d \in Devices : pair[d] # "none"

\* Mutant: the code is marked only when the device is registered.
MutRedeem(s) ==
    LET d == accepted + 1 IN
    /\ server[s] = "running"
    /\ code[s] = "fresh" /\ accepted < MaxPaired[approval]
    /\ accepted' = d
    /\ pair'     = [pair EXCEPT ![d] = "list"]
    /\ host'     = [host EXCEPT ![d] = s]
    /\ together' = Overlaps
    /\ UNCHANGED <<approval, row, process, conns, left, count, sock, commands, approved, revoked>>

\* A pair request with the server's code, checked under pairingMu: a code
\* that is unknown or used changes nothing, one past its ExpiresAt is deleted,
\* a fresh one is used up by this request whatever becomes of it.  The device's id is
\* new by construction of generateAdapterID.
Redeem(s) ==
    LET d == accepted + 1 IN
    /\ server[s] = "running"
    /\ code[s] = "fresh" /\ accepted < MaxPaired[approval]
    /\ code'     = [code EXCEPT ![s] = "used"]
    /\ accepted' = d
    /\ pair'     = [pair EXCEPT ![d] = "list"]
    /\ host'     = [host EXCEPT ![d] = s]
    /\ together' = Overlaps
    /\ UNCHANGED <<approval, row, server, health, fruit, conns, left, count, sock, commands,
                   approved, revoked>>

RedeemExpired(s) ==
    /\ server[s] = "running"
    /\ code[s] = "fresh"
    /\ code' = [code EXCEPT ![s] = "none"]
    /\ UNCHANGED <<approval, row, server, health, fruit, conns, pairing, sock, commands, history>>

\* CountActive lists the keys, then reads one row after the other.
ListKeys(d) ==
    /\ pair[d] = "list"
    /\ pair' = [pair EXCEPT ![d] = "scan"]
    /\ left' = [left EXCEPT ![d] = {e \in Devices : row[e] # "none"}]
    /\ UNCHANGED <<approval, row, process, conns, accepted, host, count, sock, commands, history>>

CountRow(d, e) ==
    /\ pair[d] = "scan"
    /\ e \in left[d]
    /\ left'  = [left EXCEPT ![d] = @ \ {e}]
    /\ count' = [count EXCEPT ![d] = IF IsActive(e) THEN @ + 1 ELSE @]
    /\ UNCHANGED <<approval, row, process, conns, accepted, pair, host, sock, commands, history>>

\* Mutant: one device too many.
MutCheckLimit(d) ==
    /\ pair[d] = "scan"
    /\ left[d] = {}
    /\ IF count[d] > MaxAdapters
       THEN PairEnds(d)
       ELSE /\ pair' = [pair EXCEPT ![d] = "register"]
            /\ UNCHANGED <<host, left, count>>
    /\ UNCHANGED <<approval, row, process, conns, accepted, sock, commands, history>>

\* The limit is compared with what was counted.
CheckLimit(d) ==
    /\ pair[d] = "scan"
    /\ left[d] = {}
    /\ IF count[d] >= MaxAdapters
       THEN PairEnds(d)
       ELSE /\ pair' = [pair EXCEPT ![d] = "register"]
            /\ UNCHANGED <<host, left, count>>
    /\ UNCHANGED <<approval, row, process, conns, accepted, sock, commands, history>>

\* RegisterAdapter under the registry mutex: the row of a new device.
InitialStatus == IF approval THEN "pending" ELSE "active"
Register(d) ==
    /\ pair[d] = "register"
    /\ RegistryFree(host[d])
    /\ row[d] = "none"
    /\ row'   = [row EXCEPT ![d] = InitialStatus]
    /\ fruit' = [fruit EXCEPT ![host[d]] = @ + 1]
    /\ PairEnds(d)
    /\ UNCHANGED <<approval, server, code, health, conns, accepted, sock, commands, history>>

\* Listing, reading, signing the token or registering fails: the answer is an
\* error, and the code stays used.
PairFails(d) ==
    /\ pair[d] # "none"
    /\ PairEnds(d)
    /\ UNCHANGED <<approval, row, process, conns, accepted, sock, commands, history>>

-----------------------------------------------------------------------------
(* handleWebSocket.                                                        *)

Go(w, loc) == sock' = [sock EXCEPT ![w].at = loc]

\* A device with a token calls.  (One whose row was deleted gets a 404 and is
\* left out; so is the end of a token's fourteen days.)
Connect(w, s, d) ==
    /\ At(w, "idle") /\ \A v \in 1..(w - 1) : ~At(v, "idle")
    /\ server[s] = "running"
    /\ row[d] # "none"
    /\ sock' = [sock EXCEPT ![w] = [Idle EXCEPT !.at = "check", !.on = s, !.dev = d]]
    /\ UNCHANGED <<approval, row, process, conns, pairing, commands, history>>

\* Mutant: any device with a row is let in.
MutCheck(w) ==
    /\ At(w, "check")
    /\ \/ row[sock[w].dev] # "none" /\ Go(w, "admit")
       \/ sock' = [sock EXCEPT ![w] = Idle]
    /\ UNCHANGED <<approval, row, process, conns, pairing, commands, history>>

\* The row must exist and be active (else 404 or 403); then the upgrade hijacks
\* the connection from net/http, or fails and the handler returns.
Check(w) ==
    /\ At(w, "check")
    /\ \/ IsActive(sock[w].dev) /\ Go(w, "admit")
       \/ sock' = [sock EXCEPT ![w] = Idle]
    /\ UNCHANGED <<approval, row, process, conns, pairing, commands, history>>

\* The connection is listed for its device, in place of an earlier one.
Admit(w) ==
    LET s == sock[w].on IN
    /\ At(w, "admit")
    /\ Unlocked(s)
    /\ conns' = [conns EXCEPT ![s][sock[w].dev] = w]
    /\ Go(w, "seen")
    /\ UNCHANGED <<approval, row, process, pairing, commands, history>>

\* UpdateLastSeen takes the registry mutex and reads the row, then writes it
\* back with the new time.
SeenRead(w) ==
    LET d == sock[w].dev IN
    /\ At(w, "seen")
    /\ RegistryFree(sock[w].on)
    /\ sock' = [sock EXCEPT ![w] = IF row[d] = "none" THEN [@ EXCEPT !.at = "loop"]
                                   ELSE [@ EXCEPT !.at = "put", !.got = row[d]]]
    /\ UNCHANGED <<approval, row, process, conns, pairing, commands, history>>

SeenWrite(w) ==
    /\ At(w, "put")
    /\ row'  = [row EXCEPT ![sock[w].dev] = sock[w].got]
    /\ sock' = [sock EXCEPT ![w].at = "loop", ![w].got = "none"]
    /\ UNCHANGED <<approval, process, conns, pairing, commands, history>>

\* A message is read, noted in the registry and answered; commands run nothing.
Message(w) ==
    /\ At(w, "loop")
    /\ sock[w].link = "open"
    /\ Go(w, "seen")
    /\ UNCHANGED <<approval, row, process, conns, pairing, commands, history>>

\* The device goes away, sends what is no JSON, or leaves the heartbeat's
\* pings unanswered until the read deadline; the handler learns it when it
\* reads.
Drop(w) ==
    /\ At(w, "loop")
    /\ sock[w].link = "open"
    /\ sock' = [sock EXCEPT ![w].link = "dropped"]
    /\ UNCHANGED <<approval, row, process, conns, pairing, commands, history>>

\* The read fails and the deferred function runs: the connection is closed,
\* and what is listed for the device deleted, whichever connection that is.
Leave(w) ==
    LET s == sock[w].on IN
    /\ At(w, "loop")
    /\ sock[w].link # "open"
    /\ Unlocked(s)
    /\ conns' = [conns EXCEPT ![s][sock[w].dev] = None]
    /\ sock'  = [sock EXCEPT ![w] = Idle]
    /\ UNCHANGED <<approval, row, process, pairing, commands, history>>

-----------------------------------------------------------------------------
(* The commands: each reads the row, decides, and writes the row.          *)

Reads(d, write) ==
    /\ given < MaxGiven[approval]
    /\ given' = given + 1
    /\ cmd' = [cmd EXCEPT ![given + 1] = [write |-> write, dev |-> d]]
    /\ UNCHANGED <<approval, row, process, conns, pairing, sock, history>>

ApproveAdapter(d) == row[d] = "pending" /\ Reads(d, "active")
RejectAdapter(d)  == row[d] = "pending" /\ Reads(d, "none")
RevokeAdapter(d)  == row[d] # "none"    /\ Reads(d, "revoked")

Writes(c) ==
    LET d == cmd[c].dev  new == cmd[c].write IN
    /\ cmd[c] # NoCommand
    /\ row'      = [row EXCEPT ![d] = new]
    /\ cmd'      = [cmd EXCEPT ![c] = NoCommand]
    /\ approved' = IF new = "active" THEN approved \cup {d} ELSE approved
    /\ revoked'  = IF new = "revoked" THEN revoked \cup {d} ELSE revoked
    /\ UNCHANGED <<approval, process, conns, pairing, sock, given, together>>

-----------------------------------------------------------------------------
Handler(w) ==
    Check(w) \/ Admit(w) \/ SeenRead(w) \/ SeenWrite(w) \/ Leave(w)

PairHandler(d) ==
    ListKeys(d) \/ (\E e \in Devices : CountRow(d, e)) \/ CheckLimit(d) \/ Register(d) \/ PairFails(d)

Ending(s) == ShutdownDone(s) \/ ShutdownTimeout(s) \/ Exit(s)

Next ==
    \/ \E s \in Servers :
        \/ Start(s) \/ Stop(s) \/ Ending(s) \/ HealthRequest(s)
        \/ Redeem(s) \/ RedeemExpired(s)
    \/ \E d \in Devices : PairHandler(d)
    \/ \E w \in Sockets : Handler(w) \/ Message(w) \/ Drop(w)
    \/ \E w \in Sockets, s \in Servers, d \in Devices : Connect(w, s, d)
    \/ \E c \in Commands : Writes(c)
    \/ \E d \in Devices : ApproveAdapter(d) \/ RejectAdapter(d) \/ RevokeAdapter(d)

\* A stopping server comes to its end, as Shutdown's deadline passes.  Nobody
\* has to stop a server, and no handler, device or command has to go on.
Fairness == \A s \in Servers : WF_vars(Ending(s))

Spec == Init /\ [][Next]_vars /\ Fairness

-----------------------------------------------------------------------------
\* Every variable keeps its type.
TypeOK ==
    /\ approval \in BOOLEAN
    /\ row \in [Devices -> Rows]
    /\ server \in [Servers -> {"off", "running", "stopping", "stopped"}]
    /\ code \in [Servers -> {"none", "fresh", "used"}]
    /\ conns \in [Servers -> [Devices -> Sockets \cup {None}]]
    /\ health \in [Servers -> BOOLEAN]
    /\ accepted \in 0..MaxDevices
    /\ pair \in [Devices -> {"none", "list", "scan", "register"}]
    /\ host \in [Devices -> Servers \cup {None}]
    /\ left \in [Devices -> SUBSET Devices] /\ count \in [Devices -> 0..MaxDevices]
    /\ sock \in [Sockets -> [at : {"idle", "check", "admit", "seen", "put", "loop"},
                             on : Servers \cup {None}, dev : 0..MaxDevices,
                             got : Rows, link : {"open", "dropped", "closed"}]]
    /\ cmd \in [Commands -> [write : Rows \cup {"nothing"}, dev : 0..MaxDevices]]
    /\ given \in 0..MaxCommands
    /\ fruit \in [Servers -> Nat] /\ approved \subseteq Devices /\ revoked \subseteq Devices /\ together \in BOOLEAN

\* A pairing code lets at most one device in, however many requests present
\* it at the same time (the Used flag is set under pairingMu in handlePair,
\* long before the device is registered).
PairedOnce == \A s \in Servers : fruit[s] <= 1

\* Pairing respects maxAdapters whatever commands and connections write while
\* handlePair counts the rows, and exceeds it at most by the pairings that other
\* processes have in flight: the rows are counted first and registered later.
\* (Approvals are not counted against the limit, and a row that a stale write
\* brought back after its revocation is not a pairing.)
LimitUpToOverlap ==
    ~approval => Cardinality(Active \ revoked) <=
                    MaxAdapters + (IF together THEN Cardinality(Servers) - 1 ELSE 0)

\* Where approval is required, no device passes the check, or stays connected,
\* that nobody approved, whichever rows are written back late by
\* UpdateLastSeen and by the commands.
OnlyApprovedConnect ==
    approval => \A w \in Sockets : sock[w].at \notin {"idle", "check"} => sock[w].dev \in approved

\* Stop returns, although it waits for handlers with s.mu in its hands and
\* handleHealth needs s.mu to finish.
StopReturns == \A s \in Servers : server[s] = "stopping" ~> server[s] # "stopping"

\* A device whose revocation was stored is not let in again: `aps adapter
\* revoke` says that it has to be paired anew.
RevocationHolds ==
    [][\A w \in Sockets : At(w, "check") /\ At(w, "admit")' => sock[w].dev \notin revoked]_vars
=============================================================================
