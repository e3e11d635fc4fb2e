--------------------------- MODULE AdapterManager ---------------------------
(***************************************************************************)
(* The adapter manager (internal/core/adapter/manager.go) and one adapter  *)
(* that is loaded as a subprocess.  A manager lives in one process of the  *)
(* program and keeps the adapter's runtime in memory under one mutex; the  *)
(* child it starts has a process group of its own and outlives it.  A      *)
(* goroutine per child waits for it and then marks the runtime, whichever  *)
(* child the runtime is about by then.                                     *)
(***************************************************************************)
EXTENDS Integers, FiniteSets

CONSTANTS
    Managers,   \* processes of the program that have a manager
    Callers,    \* goroutines that call a manager
    MaxStarts,  \* bound: children ever started
    MaxCalls,   \* bound: calls ever made
    None

Children == 1 .. MaxStarts
Ops == {"start", "stop", "force", "health", "shutdown"}

(* An AdapterRuntime, and a call that waits for the mutex, for a child, or   *)
(* for itself.                                                              *)
Runtimes == [child : Children, state : {"running", "stopped"}, health : {"unknown", "healthy"}]
Pending == [op : Ops, pc : {"lock", "wait", "stuck"}]

ASSUME ConstantsAssumption == MaxStarts \in Nat /\ MaxCalls \in Nat
ASSUME NoneAssumption == None \notin Callers /\ None \notin Runtimes /\ None \notin Pending

VARIABLES
    up,       \* managers whose process is running
    ctx,      \* managers whose context is not cancelled
    lock,     \* [Managers -> None or the caller that holds m.mu]
    rt,       \* [Managers -> None or the AdapterRuntime]
    call,     \* [Managers -> [Callers -> None or the call under way]]
    child,    \* [Children -> "none", "alive", "killed" (SIGKILL sent) or "dead"]
    owner,    \* [Children -> None or the manager that started it]
    waiting,  \* children whose waiter has not yet marked a runtime
    calls,    \* number of calls made
    stale     \* history: managers where a waiter marked a later child's runtime

vars == <<up, ctx, lock, rt, call, child, owner, waiting, calls, stale>>

Init ==
    /\ up = Managers /\ ctx = Managers
    /\ lock = [m \in Managers |-> None]
    /\ rt = [m \in Managers |-> None]
    /\ call = [m \in Managers |-> [t \in Callers |-> None]]
    /\ child = [c \in Children |-> "none"]
    /\ owner = [c \in Children |-> None]
    /\ waiting = {}
    /\ calls = 0
    /\ stale = {}

Live == {c \in Children : child[c] \in {"alive", "killed"}}
Running(m) == rt[m] # None /\ rt[m].state = "running"

-----------------------------------------------------------------------------
(* Calls.  A call waits for the mutex; it returns when its entry is None.   *)

Call(m, t, op) ==
    /\ m \in up /\ call[m][t] = None /\ calls < MaxCalls
    /\ calls' = calls + 1
    /\ call' = [call EXCEPT ![m][t] = [op |-> op, pc |-> "lock"]]
    /\ UNCHANGED <<up, ctx, lock, rt, child, owner, waiting, stale>>

HasLock(m, t, ops) ==
    /\ call[m][t] # None /\ call[m][t].pc = "lock" /\ call[m][t].op \in ops
    /\ lock[m] = None

Returns(m, t) == call' = [call EXCEPT ![m][t] = None]

(* The child is forked, its runtime recorded and its waiter started.        *)
Spawn(m) ==
    \E c \in Children :
        /\ child[c] = "none" /\ \A d \in Children : d < c => child[d] # "none"
        /\ child' = [child EXCEPT ![c] = "alive"]
        /\ owner' = [owner EXCEPT ![c] = m]
        /\ rt' = [rt EXCEPT ![m] = [child |-> c, state |-> "running", health |-> "unknown"]]
        /\ waiting' = waiting \cup {c}

StartAdapter(m, t) ==
    /\ HasLock(m, t, {"start"})
    /\ ~Running(m) /\ m \in ctx
    /\ Spawn(m)
    /\ Returns(m, t)
    /\ UNCHANGED <<up, ctx, lock, calls, stale>>

(* Already running, no executable, a context that is over, a failing fork.  *)
StartFails(m, t) ==
    /\ HasLock(m, t, {"start"})
    /\ Returns(m, t)
    /\ UNCHANGED <<up, ctx, lock, rt, child, owner, waiting, calls, stale>>

Mark(m, state) == rt' = [rt EXCEPT ![m].state = state]
Kill(c) == child' = [child EXCEPT ![c] = IF @ = "alive" THEN "killed" ELSE @]

(* Nothing to stop, or a child that is over already.                        *)
StopAtOnce(m, t) ==
    /\ HasLock(m, t, {"stop", "force"})
    /\ IF Running(m) THEN child[rt[m].child] = "dead" ELSE TRUE
    /\ IF Running(m) THEN Mark(m, "stopped") ELSE UNCHANGED rt
    /\ Returns(m, t)
    /\ UNCHANGED <<up, ctx, lock, child, owner, waiting, calls, stale>>

(* The signal is sent; the call waits for the child with the mutex held.    *)
Signal(m, t) ==
    /\ HasLock(m, t, {"stop", "force"})
    /\ Running(m) /\ rt[m].child \in Live
    /\ lock' = [lock EXCEPT ![m] = t]
    /\ call' = [call EXCEPT ![m][t].pc = "wait"]
    /\ IF call[m][t].op = "force" THEN Kill(rt[m].child) ELSE UNCHANGED child
    /\ UNCHANGED <<up, ctx, rt, owner, waiting, calls, stale>>

Waits(m, t) == call[m][t] # None /\ call[m][t].pc = "wait"
Unlock(m) == lock' = [lock EXCEPT ![m] = None]

StopDone(m, t) ==
    /\ Waits(m, t)
    /\ child[rt[m].child] = "dead"
    /\ Mark(m, "stopped")
    /\ Unlock(m) /\ Returns(m, t)
    /\ UNCHANGED <<up, ctx, child, owner, waiting, calls, stale>>

(* A plausible bug: the stop gives up after SIGTERM.                        *)
MutTermTimeout(m, t) ==
    /\ Waits(m, t) /\ call[m][t].op = "stop"
    /\ rt[m].child \in Live
    /\ Unlock(m) /\ Returns(m, t)
    /\ UNCHANGED <<up, ctx, rt, child, owner, waiting, calls, stale>>

(* Five seconds after SIGTERM the child is killed, ...                      *)
TermTimeout(m, t) ==
    /\ Waits(m, t) /\ call[m][t].op = "stop"
    /\ rt[m].child \in Live
    /\ Kill(rt[m].child)
    /\ call' = [call EXCEPT ![m][t].op = "force"]
    /\ UNCHANGED <<up, ctx, lock, rt, owner, waiting, calls, stale>>

(* A plausible bug: the child is taken for stopped after SIGKILL.           *)
MutKillTimeout(m, t) ==
    /\ Waits(m, t) /\ call[m][t].op = "force"
    /\ rt[m].child \in Live
    /\ Mark(m, "stopped")
    /\ Unlock(m) /\ Returns(m, t)
    /\ UNCHANGED <<up, ctx, child, owner, waiting, calls, stale>>

(* ... and one second after SIGKILL the stop is given up.                   *)
KillTimeout(m, t) ==
    /\ Waits(m, t) /\ call[m][t].op = "force"
    /\ rt[m].child \in Live
    /\ Unlock(m) /\ Returns(m, t)
    /\ UNCHANGED <<up, ctx, rt, child, owner, waiting, calls, stale>>

(* A running adapter is reported healthy; nothing asks the child.           *)
HealthCheck(m, t) ==
    /\ HasLock(m, t, {"health"})
    /\ rt' = IF Running(m) THEN [rt EXCEPT ![m].health = "healthy"] ELSE rt
    /\ Returns(m, t)
    /\ UNCHANGED <<up, ctx, lock, child, owner, waiting, calls, stale>>

(* Shutdown calls StopAdapter, which locks the mutex Shutdown holds.        *)
Shutdown(m, t) ==
    /\ HasLock(m, t, {"shutdown"})
    /\ IF Running(m)
       THEN /\ lock' = [lock EXCEPT ![m] = t]
            /\ call' = [call EXCEPT ![m][t].pc = "stuck"]
       ELSE UNCHANGED lock /\ Returns(m, t)
    /\ UNCHANGED <<up, ctx, rt, child, owner, waiting, calls, stale>>

-----------------------------------------------------------------------------
(* The waiter of a child, and the world around.                             *)

(* cmd.Wait has returned: a runtime that is running is marked stopped.      *)
Waiter(c) ==
    LET m == owner[c] IN
    /\ c \in waiting /\ child[c] = "dead"
    /\ lock[m] = None
    /\ waiting' = waiting \ {c}
    /\ IF Running(m) THEN Mark(m, "stopped") ELSE UNCHANGED rt
    /\ stale' = IF Running(m) /\ rt[m].child # c THEN stale \cup {m} ELSE stale
    /\ UNCHANGED <<up, ctx, lock, call, child, owner, calls>>

(* A child ends by itself, on SIGTERM or on SIGKILL.                        *)
ChildEnds(c) ==
    /\ c \in Live
    /\ child' = [child EXCEPT ![c] = "dead"]
    /\ UNCHANGED <<up, ctx, lock, rt, call, owner, waiting, calls, stale>>

(* exec.CommandContext kills the children that are still waited for.        *)
Cancel(m) ==
    /\ m \in ctx \cap up
    /\ ctx' = ctx \ {m}
    /\ child' = [c \in Children |-> IF c \in waiting /\ owner[c] = m /\ child[c] = "alive"
                                    THEN "killed" ELSE child[c]]
    /\ UNCHANGED <<up, lock, rt, call, owner, waiting, calls, stale>>

(* The manager's process ends: its memory is gone, its children go on.      *)
Exit(m) ==
    /\ m \in up
    /\ up' = up \ {m}
    /\ lock' = [lock EXCEPT ![m] = None]
    /\ rt' = [rt EXCEPT ![m] = None]
    /\ call' = [call EXCEPT ![m] = [t \in Callers |-> None]]
    /\ waiting' = {c \in waiting : owner[c] # m}
    /\ UNCHANGED <<ctx, child, owner, calls, stale>>

Runs(m, t) ==
    \/ StartAdapter(m, t) \/ StartFails(m, t)
    \/ StopAtOnce(m, t) \/ Signal(m, t) \/ StopDone(m, t)
    \/ TermTimeout(m, t) \/ KillTimeout(m, t)
    \/ HealthCheck(m, t) \/ Shutdown(m, t)

Next ==
    \/ \E m \in Managers, t \in Callers : (\E op \in Ops : Call(m, t, op)) \/ Runs(m, t)
    \/ \E c \in Children : Waiter(c) \/ ChildEnds(c)
    \/ \E m \in Managers : Cancel(m) \/ Exit(m)

(***************************************************************************)
(* A call that can go on goes on, the two timers of a stop fire, a killed  *)
(* child ends.  No waiter and no other child has to do anything.           *)
(***************************************************************************)
Fairness ==
    /\ \A m \in Managers, t \in Callers : WF_vars(Runs(m, t))
    /\ \A c \in Children : WF_vars(child[c] = "killed" /\ ChildEnds(c))

Spec == Init /\ [][Next]_vars /\ Fairness

-----------------------------------------------------------------------------
(* What the manager promises.                                               *)

(* The runtime names a child that was started, and only a call that waits   *)
(* for a child or is stuck keeps the mutex.                                 *)
TypeOK ==
    /\ up \subseteq Managers /\ ctx \subseteq Managers /\ stale \subseteq Managers
    /\ lock \in [Managers -> Callers \cup {None}]
    /\ child \in [Children -> {"none", "alive", "killed", "dead"}]
    /\ owner \in [Children -> Managers \cup {None}]
    /\ waiting \subseteq {c \in Children : child[c] # "none"}
    /\ calls \in 0 .. MaxCalls
    /\ rt \in [Managers -> Runtimes \cup {None}]
    /\ call \in [Managers -> [Callers -> Pending \cup {None}]]
    /\ \A m \in Managers :
        /\ rt[m] # None => owner[rt[m].child] = m
        /\ \A t \in Callers : (lock[m] = t) <=>
            (call[m][t] # None /\ call[m][t].pc \in {"wait", "stuck"})

(* A child that lives is the running one of its manager's runtime, through  *)
(* stops that time out and starts that overlap them, until the waiter of an *)
(* earlier child marks the runtime: the manager loses no child.             *)
LiveIsKnown ==
    \A c \in Live : owner[c] \in up \ stale =>
        rt[owner[c]] # None /\ rt[owner[c]].child = c /\ Running(owner[c])

(* A stop that has sent its signal ends the child even when the child       *)
(* ignores SIGTERM, unless the process exits while it waits.                *)
StopEndsChild ==
    \A m \in Managers, c \in Children :
        (Running(m) /\ rt[m].child = c /\ \E t \in Callers : Waits(m, t))
            ~> (child[c] = "dead" \/ m \notin up)

(* An adapter has one child at a time, whichever command starts it.         *)
NoDoubleSpawn == Cardinality(Live) <= 1
=============================================================================
