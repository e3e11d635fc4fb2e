------------------------------ MODULE AcpServer ------------------------------
(***************************************************************************)
(* The ACP server (internal/acp) over WebSocket: one serve loop for each   *)
(* connected client, which reads a request, handles it and writes the      *)
(* response, one session whose mode decides what is permitted, and the     *)
(* terminals, processes that any client can wait for, kill and release.    *)
(* Each process has a goroutine that waits for its end.  Stop waits for    *)
(* the requests that are plain HTTP and releases the terminals, while the  *)
(* serve loops go on until they next look at the context.                  *)
(***************************************************************************)
EXTENDS Integers, FiniteSets

CONSTANTS
    Clients,       \* connections to the server
    MaxRequests,   \* bound on the requests sent, all clients
    MaxQueue,      \* capacity of a transport's readCh
    MaxTerminals   \* bound on the terminals created

ASSUME AcpBounds == {MaxRequests, MaxQueue, MaxTerminals} \subseteq Nat

Terminals == 1..MaxTerminals
Modes     == {"default", "auto_approve", "read_only"}

\* What exec.Cmd reports: 0 or 1 when the process ends by itself, -1 when it
\* was killed.  ExitCode of a Terminal is 0 until somebody sets it.
ExitCodes == {-1, 0, 1}

VARIABLES
    server,      \* "running", in Stop "shutdown" then "releasing", "stopped"
    plain,       \* an HTTP request that is not upgraded is open
    initialized, \* Server.initialized
    mode,        \* the mode of the session, "none" before session/new
    at,          \* where each client's serve loop is
    arg,         \* the terminal its request is about
    queue,       \* requests in the transport's readCh
    quota,       \* requests the clients may still send
    gone,        \* the client's connection is closed or broken
    used,        \* terminals created: the last one's number
    listed,      \* TerminalManager.terminals
    status,      \* Terminal.Status
    exitCode,    \* Terminal.ExitCode
    process,     \* the process: "none", "alive", "ended" or "reaped"
    ended,       \* what the process ended with
    killed,      \* terminals whose process was sent a kill
    released,    \* terminals released by a client (history)
    sweep,       \* terminals ReleaseAll has still to come to
    due,         \* terminals whose creation was answered before Stop (history)
    answers      \* exit codes that terminal/wait_for_exit returned (history)

session  == <<initialized, mode>>
loop     == <<at, arg, queue, quota, gone>>
terminal == <<used, listed, status, exitCode, process, ended, killed, released>>
vars     == <<server, plain, sweep, due, session, loop, terminal, answers>>

Init ==
    /\ server      = "running"
    /\ plain       = FALSE
    /\ initialized = FALSE
    /\ mode        = "none"
    /\ at          = [c \in Clients |-> "off"]
    /\ arg         = [c \in Clients |-> 0]
    /\ queue       = [c \in Clients |-> 0]
    /\ quota       = MaxRequests
    /\ gone        = [c \in Clients |-> FALSE]
    /\ used        = 0
    /\ listed      = {}
    /\ status      = [t \in Terminals |-> "none"]
    /\ exitCode    = [t \in Terminals |-> 0]
    /\ process     = [t \in Terminals |-> "none"]
    /\ ended       = [t \in Terminals |-> 0]
    /\ killed      = {}
    /\ released    = {}
    /\ sweep       = {}
    /\ due         = {}
    /\ answers     = {}

-----------------------------------------------------------------------------
(* The connection and the serve loop.                                      *)

\* A connection is accepted and its loop, past the check of the context, waits
\* in Read.
Connect(c) ==
    /\ server = "running"
    /\ at[c] = "off"
    /\ at' = [at EXCEPT ![c] = "read"]
    /\ UNCHANGED <<server, plain, sweep, due, session, arg, queue, quota, gone, terminal, answers>>

\* readLoop puts a request into readCh, while earlier ones are handled.
Send(c) ==
    /\ at[c] \notin {"off", "closed"}
    /\ ~gone[c] /\ quota > 0 /\ queue[c] < MaxQueue
    /\ quota' = quota - 1
    /\ queue' = [queue EXCEPT ![c] = @ + 1]
    /\ UNCHANGED <<server, plain, sweep, due, session, at, arg, gone, terminal, answers>>

\* The client leaves, its network fails, or it sends what is no JSON: readLoop
\* ends and closes readCh, with the requests in it still to be read.
Disconnect(c) ==
    /\ at[c] \notin {"off", "closed"}
    /\ ~gone[c]
    /\ gone' = [gone EXCEPT ![c] = TRUE]
    /\ UNCHANGED <<server, plain, sweep, due, session, at, arg, queue, quota, terminal, answers>>

\* Read on a closed and empty readCh returns no request and no error; the
\* handler panics on the nil request, net/http recovers and the deferred
\* calls close the transport.
ReadClosed(c) ==
    /\ at[c] = "read"
    /\ gone[c] /\ queue[c] = 0
    /\ at' = [at EXCEPT ![c] = "closed"]
    /\ UNCHANGED <<server, plain, sweep, due, session, arg, queue, quota, gone, terminal, answers>>

\* Where the loop is after a response: Write fails on a broken connection and
\* the loop ends, as it does when the context was cancelled by Stop.  The
\* locals of the request are gone.
Responded(c) ==
    /\ \E next \in {"read", "closed"} :
        /\ next = "read" => server = "running"
        /\ next = "closed" => gone[c] \/ server # "running"
        /\ at' = [at EXCEPT ![c] = next]
        /\ queue' = [queue EXCEPT ![c] = IF next = "closed" THEN 0 ELSE @]
    /\ arg' = [arg EXCEPT ![c] = 0]
    /\ UNCHANGED <<quota, gone>>

\* Read takes the next request, whatever the server's state is by now.  A
\* request for a terminal names one whose creation was answered, the two ways
\* to create one being terminal/create and skill/invoke.  (Requests that leave
\* no trace here, such as terminal/output and fs/read, are left out.)
Creating(c) == at[c] \in {"start", "mark"}
Known == {t \in 1..used : \A c \in Clients : ~(arg[c] = t /\ Creating(c))}
Asked == {c \in Clients : at[c] \in {"terminal/create", "skill/invoke", "store"}}

Read(c) ==
    /\ at[c] = "read"
    /\ queue[c] > 0
    /\ queue' = [queue EXCEPT ![c] = @ - 1]
    /\ \/ /\ at' \in {[at EXCEPT ![c] = op] :
                        op \in {"initialize", "session/new", "session/set_mode"}}
          /\ UNCHANGED arg
       \/ /\ used + Cardinality(Asked) < MaxTerminals
          /\ at' \in {[at EXCEPT ![c] = op] : op \in {"terminal/create", "skill/invoke"}}
          /\ UNCHANGED arg
       \/ \E t \in Known :
            /\ at' \in {[at EXCEPT ![c] = op] :
                          op \in {"terminal/wait_for_exit", "terminal/kill", "terminal/release"}}
            /\ arg' = [arg EXCEPT ![c] = t]
    /\ UNCHANGED <<server, plain, sweep, due, session, quota, gone, terminal, answers>>

-----------------------------------------------------------------------------
(* The session.                                                            *)

\* handleInitialize under s.mu, which Stop has while it stops.
HandleInitialize(c) ==
    /\ at[c] = "initialize"
    /\ server \notin {"shutdown", "releasing"}
    /\ initialized' = TRUE
    /\ Responded(c)
    /\ UNCHANGED <<server, plain, sweep, due, mode, terminal, answers>>

\* session/new takes the mode the client asks for; set_mode changes it in a
\* session that exists.
HandleMode(c) ==
    /\ \/ at[c] = "session/new" /\ mode = "none" /\ mode' \in Modes
       \/ at[c] = "session/set_mode" /\ mode # "none" /\ mode' \in Modes
       \/ at[c] \in {"session/new", "session/set_mode"} /\ UNCHANGED mode
    /\ Responded(c)
    /\ UNCHANGED <<server, plain, sweep, due, initialized, terminal, answers>>

\* HasPermission for terminal/create or skill/invoke: without rules, which
\* nothing adds, only the mode auto_approve allows them.  The request is also
\* refused for an unknown skill or script, or when a pipe cannot be made.
CheckPermission(c) ==
    /\ at[c] \in {"terminal/create", "skill/invoke"}
    /\ \/ /\ mode = "auto_approve"
          /\ at' = [at EXCEPT ![c] = "store"]
          /\ UNCHANGED <<arg, queue, quota, gone>>
       \/ Responded(c)
    /\ UNCHANGED <<server, plain, sweep, due, session, terminal, answers>>

-----------------------------------------------------------------------------
(* Terminals.                                                              *)

\* CreateTerminal lists the terminal as created (an iteration of ReleaseAll
\* that is going on may come to it or not)...
Store(c) ==
    LET t == used + 1 IN
    /\ at[c] = "store"
    /\ used < MaxTerminals
    /\ used'   = t
    /\ listed' = listed \cup {t}
    /\ status' = [status EXCEPT ![t] = "created"]
    /\ at'     = [at EXCEPT ![c] = "start"]
    /\ arg'    = [arg EXCEPT ![c] = t]
    /\ \/ UNCHANGED sweep
       \/ server = "releasing" /\ sweep' = sweep \cup {t}
    /\ UNCHANGED <<server, plain, due, session, queue, quota, gone,
                   exitCode, process, ended, killed, released, answers>>

\* ... starts the command, or takes the terminal out again ...
StartCommand(c) ==
    LET t == arg[c] IN
    /\ at[c] = "start"
    /\ \/ /\ process' = [process EXCEPT ![t] = "alive"]
          /\ at' = [at EXCEPT ![c] = "mark"]
          /\ UNCHANGED <<listed, arg, queue, quota, gone>>
       \/ /\ listed' = listed \ {t}
          /\ Responded(c)
          /\ UNCHANGED process
    /\ UNCHANGED <<server, plain, sweep, due, session, used, status, exitCode, ended, killed, released, answers>>

\* ... and sets its status; only then is there somebody waiting for its end.
MarkRunning(c) ==
    /\ at[c] = "mark"
    /\ status' = [status EXCEPT ![arg[c]] = "running"]
    /\ Responded(c)
    /\ UNCHANGED <<server, plain, sweep, due, session, used, listed, exitCode, process, ended, killed, released, answers>>

\* The process ends by itself, or because it was killed.
ProcessEnds(t) ==
    /\ process[t] = "alive"
    /\ process' = [process EXCEPT ![t] = "ended"]
    /\ \E code \in {0, 1} \cup (IF t \in killed THEN {-1} ELSE {}) :
        ended' = [ended EXCEPT ![t] = code]
    /\ UNCHANGED <<server, plain, sweep, due, session, loop, used, listed, status, exitCode, killed, released, answers>>

\* Mutant: the exit code is forgotten.
MutReap(t) ==
    /\ process[t] = "ended"
    /\ status[t] \in {"running", "exited"}
    /\ process' = [process EXCEPT ![t] = "reaped"]
    /\ status'  = [status EXCEPT ![t] = "exited"]
    /\ UNCHANGED <<server, plain, sweep, due, session, loop, used, listed, exitCode, ended, killed, released, answers>>

\* The waiting goroutine sees the end and notes status and exit code together.
Reap(t) ==
    /\ process[t] = "ended"
    /\ status[t] \in {"running", "exited"}
    /\ process'  = [process EXCEPT ![t] = "reaped"]
    /\ status'   = [status EXCEPT ![t] = "exited"]
    /\ exitCode' = [exitCode EXCEPT ![t] = ended[t]]
    /\ UNCHANGED <<server, plain, sweep, due, session, loop, used, listed, ended, killed, released, answers>>

\* WaitForExit has the terminal and polls it for ten seconds, even if it is
\* released meanwhile; a terminal that is not listed is an error at once.
WaitReturns(c) ==
    LET t == arg[c] IN
    /\ at[c] = "terminal/wait_for_exit"
    /\ status[t] = "exited"
    /\ answers' = answers \cup {<<t, exitCode[t]>>}
    /\ Responded(c)
    /\ UNCHANGED <<server, plain, sweep, due, session, terminal>>

WaitFails(c) ==
    /\ at[c] = "terminal/wait_for_exit"
    /\ Responded(c)
    /\ UNCHANGED <<server, plain, sweep, due, session, terminal, answers>>

\* Kill of a terminal that is listed and whose process nobody reaped sends the
\* signal and sets the status, the exit code being left to the waiting
\* goroutine; otherwise it is an error.
HandleKill(c) ==
    LET t == arg[c] IN
    /\ at[c] = "terminal/kill"
    /\ IF t \in listed /\ process[t] \in {"alive", "ended"}
       THEN /\ killed' = killed \cup {t}
            /\ status' = [status EXCEPT ![t] = "exited"]
       ELSE UNCHANGED <<killed, status>>
    /\ Responded(c)
    /\ UNCHANGED <<server, plain, sweep, due, session, used, listed, exitCode, process, ended, released, answers>>

\* Mutant: the process is left alone.
MutRelease(t) == listed' = listed \ {t} /\ UNCHANGED <<used, status, exitCode, process, ended, killed>>

\* Release kills the process of a listed terminal if its status is running,
\* and takes the terminal out of the list.
Release(t) ==
    /\ killed' = IF status[t] = "running" THEN killed \cup {t} ELSE killed
    /\ listed' = listed \ {t}
    /\ UNCHANGED <<used, status, exitCode, process, ended>>

HandleRelease(c) ==
    LET t == arg[c] IN
    /\ at[c] = "terminal/release"
    /\ IF t \in listed THEN Release(t) /\ released' = released \cup {t} ELSE UNCHANGED terminal
    /\ Responded(c)
    /\ UNCHANGED <<server, plain, sweep, due, session, answers>>

-----------------------------------------------------------------------------
(* Stop.                                                                   *)

\* A request comes in that is not upgraded: another path, or no web socket.
\* Its body may come slowly or not at all, as only the header has a timeout.
PlainRequest ==
    /\ server = "running" /\ ~plain
    /\ plain' = TRUE
    /\ UNCHANGED <<server, sweep, due, session, loop, terminal, answers>>

PlainEnds ==
    /\ plain
    /\ plain' = FALSE
    /\ UNCHANGED <<server, sweep, due, session, loop, terminal, answers>>

\* Stop takes s.mu and keeps it, cancels the context, and Shutdown closes the
\* listener.
Stop ==
    /\ server = "running"
    /\ server' = "shutdown"
    /\ due'    = Known
    /\ UNCHANGED <<plain, sweep, session, loop, terminal, answers>>

\* Mutant: Shutdown waits for the upgraded connections, too.
MutShutdownDone ==
    /\ server = "shutdown" /\ ~plain
    /\ \A c \in Clients : at[c] \in {"off", "closed"}
    /\ server' = "releasing"
    /\ sweep'  = listed
    /\ UNCHANGED <<plain, due, session, loop, terminal, answers>>

\* Shutdown, which has no deadline, returns when no plain request is open; it
\* neither waits for the hijacked connections nor closes them.  ReleaseAll
\* begins.
ShutdownDone ==
    /\ server = "shutdown" /\ ~plain
    /\ server' = "releasing"
    /\ sweep'  = listed
    /\ UNCHANGED <<plain, due, session, loop, terminal, answers>>

\* Mutant: a release by ReleaseAll only empties the list.
MutReleaseOne(t) ==
    /\ t \in sweep
    /\ sweep'  = sweep \ {t}
    /\ listed' = listed \ {t}
    /\ UNCHANGED <<server, plain, due, session, loop, killed, used, status, exitCode, process, ended,
                   released, answers>>

\* ReleaseAll gives the manager's lock back for each Release.
ReleaseOne(t) ==
    /\ t \in sweep
    /\ sweep' = sweep \ {t}
    /\ IF t \in listed THEN Release(t) ELSE UNCHANGED <<killed, listed, used, status, exitCode, process, ended>>
    /\ UNCHANGED <<server, plain, due, session, loop, released, answers>>

\* ListSessions("") names no session (theirs have a profile), so none is
\* closed, and the server is stopped.
Stopped ==
    /\ server = "releasing"
    /\ sweep = {}
    /\ server' = "stopped"
    /\ UNCHANGED <<plain, sweep, due, session, loop, terminal, answers>>

-----------------------------------------------------------------------------
Handle(c) ==
    \/ HandleInitialize(c) \/ HandleMode(c) \/ CheckPermission(c)
    \/ Store(c) \/ StartCommand(c) \/ MarkRunning(c)
    \/ WaitReturns(c) \/ WaitFails(c) \/ HandleKill(c) \/ HandleRelease(c)

Next ==
    \/ \E c \in Clients :
        Connect(c) \/ Send(c) \/ Disconnect(c) \/ Read(c) \/ ReadClosed(c) \/ Handle(c)
    \/ \E t \in Terminals : ProcessEnds(t) \/ Reap(t) \/ ReleaseOne(t)
    \/ PlainRequest \/ PlainEnds \/ Stop \/ ShutdownDone \/ Stopped

\* The goroutine in Stop runs on where nothing holds it, and a process that is
\* killed ends.  No client, no loop, no plain request and no process that is
\* left alone has to do anything.
KilledEnds(t) == t \in killed /\ ProcessEnds(t)
Stopping      == ShutdownDone \/ (\E t \in Terminals : ReleaseOne(t)) \/ Stopped
Fairness ==
    /\ \A t \in Terminals : WF_vars(KilledEnds(t))
    /\ WF_vars(Stopping)

Spec == Init /\ [][Next]_vars /\ Fairness

-----------------------------------------------------------------------------
\* Every variable keeps its type.
TypeOK ==
    /\ server \in {"running", "shutdown", "releasing", "stopped"} /\ plain \in BOOLEAN
    /\ initialized \in BOOLEAN /\ mode \in Modes \cup {"none"}
    /\ at \in [Clients -> {"off", "read", "closed", "initialize", "session/new", "session/set_mode",
                           "terminal/create", "skill/invoke", "store", "start", "mark", "terminal/wait_for_exit",
                           "terminal/kill", "terminal/release"}]
    /\ arg \in [Clients -> 0..MaxTerminals]
    /\ queue \in [Clients -> 0..MaxQueue] /\ quota \in 0..MaxRequests
    /\ gone \in [Clients -> BOOLEAN]
    /\ used \in 0..MaxTerminals /\ listed \subseteq Terminals
    /\ status \in [Terminals -> {"none", "created", "running", "exited"}]
    /\ exitCode \in [Terminals -> ExitCodes] /\ ended \in [Terminals -> ExitCodes]
    /\ process \in [Terminals -> {"none", "alive", "ended", "reaped"}]
    /\ sweep \subseteq Terminals /\ due \subseteq Terminals /\ killed \subseteq Terminals /\ released \subseteq Terminals
    /\ answers \subseteq Terminals \X ExitCodes

\* terminal/wait_for_exit returns what the process ended with, unless somebody
\* killed the terminal: then the status says exited before the exit code is
\* known and the answer may be a zero.  The status itself follows the process
\* through kill, release, exit and stop: exited only when the process ended or
\* will end of a kill, running only while it is not reaped, created only while
\* its creation goes on or has failed.
TerminalTellsProcess ==
    /\ \A a \in answers : LET t == a[1] IN
        \/ process[t] \in {"ended", "reaped"} /\ a[2] = ended[t]
        \/ t \in killed /\ a[2] = 0
    /\ \A t \in 1..used :
        /\ status[t] = "exited"  => process[t] \in {"ended", "reaped"} \/ t \in killed
        /\ status[t] = "running" => process[t] \in {"alive", "ended"}
        /\ status[t] = "created" /\ process[t] # "none" => t \notin Known

\* The process of a terminal that a client released ends, whatever was done to
\* the terminal before.
ReleasedEnds == \A t \in Terminals : t \in released ~> process[t] \in {"ended", "reaped"}

\* Stop comes to its end once no plain request is open, whatever the upgraded
\* connections do meanwhile: their requests create, kill and release terminals
\* under ReleaseAll, and handleInitialize waits for s.mu.  (A plain request that
\* stays open holds Shutdown, and with it Stop and s.mu, for ever.)
StopReturns == server = "shutdown" /\ ~plain ~> server = "stopped"

\* When Stop has returned, no process of a terminal whose creation was answered
\* before Stop lives on without a kill, although ReleaseAll gives the manager's
\* lock back between its terminals while clients release, kill and create.
StopReleasesAnswered ==
    server = "stopped" => \A t \in due : process[t] = "alive" => t \in killed

\* Stop releases all terminals, also the ones that are being created.
StopReleasesAll == server = "stopped" => \A t \in Terminals : process[t] = "alive" => t \in killed
=============================================================================
