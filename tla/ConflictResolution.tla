--------------------------- MODULE ConflictResolution ---------------------------
(***************************************************************************)
(* Users resolving a recorded conflict with `aps workspace conflicts       *)
(* resolve` (internal/cli/workspace/conflicts_resolve.go), each in a       *)
(* process of its own, over the conflict's file.  The command loads the    *)
(* conflict, asks for confirmation, and then Manager.ResolveConflict loads *)
(* it again, changes it and saves it.                                      *)
(***************************************************************************)
EXTENDS Naturals, FiniteSets

CONSTANTS
    Users,
    Nobody,     \* the conflict was resolved by a sync, or not at all
    MaxCrashes  \* bound on processes that die while they save

VARIABLES
    file,     \* the conflict's file: its status and who chose the outcome
    torn,     \* the file is truncated
    pc,       \* pc[u]: where u's command is
    strategy, \* strategy[u]: the --strategy of u's command
    settled,  \* users whose manual resolution was reported as done
    crashes

vars == <<file, torn, pc, strategy, settled, crashes>>

Strategies == {"lww", "manual"}

\* What SyncManager leaves: a semantic conflict, or one that it has resolved.
Init ==
    /\ file \in {[status |-> st, by |-> Nobody] : st \in {"manual", "auto_resolved"}}
    /\ torn = FALSE
    /\ pc = [u \in Users |-> "idle"]
    /\ strategy = [u \in Users |-> "lww"]
    /\ settled = {}
    /\ crashes = 0

Goto(u, loc) == pc' = [pc EXCEPT ![u] = loc]

\* runConflictResolve: the conflict exists (it is loaded in the next step).
Run(u, strat) ==
    /\ pc[u] = "idle"
    /\ strategy' = [strategy EXCEPT ![u] = strat]
    /\ Goto(u, "check")
    /\ UNCHANGED <<file, torn, settled, crashes>>

\* An already resolved conflict is left alone.
CheckResolved(u) ==
    /\ pc[u] = "check"
    /\ ~torn
    /\ Goto(u, IF file.status = "resolved" THEN "idle" ELSE "confirm")
    /\ UNCHANGED <<file, torn, strategy, settled, crashes>>

\* A file that does not parse is reported as not found.
CheckFails(u) ==
    /\ pc[u] \in {"check", "apply"}
    /\ torn
    /\ Goto(u, "idle")
    /\ UNCHANGED <<file, torn, strategy, settled, crashes>>

\* The prompt, which --force skips; a dry run stops here.
Confirm(u) ==
    /\ pc[u] = "confirm"
    /\ \E yes \in BOOLEAN : Goto(u, IF yes THEN "apply" ELSE "idle")
    /\ UNCHANGED <<file, torn, strategy, settled, crashes>>

\* Manager.ResolveConflict loads the conflict; only the manual strategy looks
\* at its status again.
LoadConflict(u) ==
    /\ pc[u] = "apply"
    /\ ~torn
    /\ Goto(u, IF strategy[u] = "manual" /\ file.status \in {"resolved", "auto_resolved"}
               THEN "idle" ELSE "save")
    /\ UNCHANGED <<file, torn, strategy, settled, crashes>>

\* ConflictStore.Save: os.WriteFile truncates the file ...
Truncate(u) ==
    /\ pc[u] = "save"
    /\ torn' = TRUE
    /\ Goto(u, "write")
    /\ UNCHANGED <<file, strategy, settled, crashes>>

\* ... and writes it; the command reports success.
WriteConflict(u) ==
    /\ pc[u] = "write"
    /\ torn' = FALSE
    /\ file' = IF strategy[u] = "manual"
               THEN [status |-> "resolved", by |-> u]
               ELSE [status |-> "auto_resolved", by |-> Nobody]
    /\ settled' = IF strategy[u] = "manual" THEN settled \cup {u} ELSE settled
    /\ Goto(u, "idle")
    /\ UNCHANGED <<strategy, crashes>>

\* The process dies, or the write fails, after the truncation.
CrashInSave(u) ==
    /\ crashes < MaxCrashes
    /\ crashes' = crashes + 1
    /\ pc[u] = "write"
    /\ Goto(u, "idle")
    /\ UNCHANGED <<file, torn, strategy, settled>>

-----------------------------------------------------------------------------
Resolve(u) ==
    \/ \E strat \in Strategies : Run(u, strat)
    \/ CheckResolved(u)
    \/ CheckFails(u)
    \/ Confirm(u)
    \/ LoadConflict(u)
    \/ Truncate(u)
    \/ WriteConflict(u)
    \/ CrashInSave(u)

Next == \E u \in Users : Resolve(u)

Spec == Init /\ [][Next]_vars

-----------------------------------------------------------------------------
(* Properties. *)

TypeOK ==
    /\ file \in [status : {"manual", "auto_resolved", "resolved"}, by : Users \cup {Nobody}]
    /\ torn \in BOOLEAN
    /\ pc \in [Users -> {"idle", "check", "confirm", "apply", "save", "write"}]
    /\ strategy \in [Users -> Strategies]
    /\ settled \subseteq Users
    /\ crashes \in 0..MaxCrashes

\* conflicts_resolve.go:57-58: "resolving an already-resolved conflict is a no-op
\* (idempotent)".  Once a user has been told that the choice is applied, the file
\* holds that choice, whole, whichever commands were past their own look at the
\* status when it was written, and wherever they die.
FirstChoiceStands == \A u \in settled : ~torn /\ file = [status |-> "resolved", by |-> u]
=============================================================================
