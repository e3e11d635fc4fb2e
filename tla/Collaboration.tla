--------------------------- MODULE Collaboration ---------------------------
(***************************************************************************)
(* One collaboration workspace (internal/core/collaboration) in the files  *)
(* of internal/storage/collaboration.go.  Every `aps workspace` command is *)
(* a process of its own: it loads a file, changes its copy and saves the   *)
(* whole file by writing <file>.tmp and renaming it.  The mutexes of the   *)
(* code are in the process, so nothing orders two commands; and since the  *)
(* name of the temporary file is fixed, two commands that save the same    *)
(* file share it.                                                          *)
(*                                                                         *)
(* Of manifest.yaml the model keeps max_agents, the only setting a rule    *)
(* reads; 0 is no limit, and it is what an empty file parses to.  A        *)
(* command that changes the workspace saves the manifest it has loaded and *)
(* then state.json.                                                        *)
(*                                                                         *)
(* Observers are left out: no guard of the commands tells an observer from *)
(* a contributor.  The shared context holds one variable.                  *)
(***************************************************************************)
EXTENDS Integers, Sequences, FiniteSets

CONSTANTS
    Profiles,     \* the agents' profiles
    MaxAgents,    \* WorkspaceConfig.MaxAgents at the workspace's creation
    MaxCommands,  \* bound: commands ever issued
    MaxParallel,  \* bound: commands that run at the same time
    Mixes,        \* bound: sets of operations that one behaviour mixes
    Empty,        \* a file opened with O_TRUNC and not yet written
    Garbled,      \* a file written by halves, or by two processes over each other
    NoFile,       \* there is no file of that name
    None

Roles == {"owner", "contributor"}

ASSUME ConstantsAssumption ==
    /\ None \notin Profiles \cup Roles \cup {"tmp", "file", "gone"}
    /\ IsFiniteSet(Profiles)
    /\ MaxAgents \in Nat \ {0} /\ MaxCommands \in Nat /\ MaxParallel \in Nat

Ids == 1 .. MaxCommands

Workspaces == [state : {"active", "archived"}, agents : [Profiles -> Roles \cup {None}]]
Variables == [version : Nat \ {0}, by : Profiles, private : BOOLEAN] \cup {None}

Limits == 0 .. MaxAgents

Files == {"manifest", "state", "audit", "tasks", "context"}
Content == [f \in Files |-> CASE f = "manifest" -> Limits
                              [] f = "state" -> Workspaces
                              [] f = "audit" -> SUBSET (Ids \cup {0})
                              [] f = "tasks" -> SUBSET Ids
                              [] f = "context" -> Variables]

ASSUME TextsAssumption ==
    /\ None \notin Workspaces /\ None \notin Limits
    /\ \A t \in {Empty, Garbled, NoFile} :
        /\ t \notin Workspaces \cup Variables /\ t \notin Limits
        /\ \A list \in SUBSET (Ids \cup {0}) : list # t

Requests ==
         [op : {"join", "leave"}, who : Profiles]
    \cup [op : {"remove"}, who : Profiles, target : Profiles]
    \cup [op : {"role"}, target : Profiles, role : Roles]
    \cup [op : {"archive", "policy", "send"}]
    \cup [op : {"set"}, who : Profiles, private : BOOLEAN]
    \cup [op : {"delete"}, who : Profiles]

VARIABLES
    mix,      \* the operations the users of this behaviour ask for
    file,     \* [Files -> contents, Empty or Garbled]: what the directory holds
    tmp,      \* the same for <file>.tmp, NoFile when there is no such name
    cmds,     \* [Ids -> None or the command's process]
    issued,   \* number of commands issued so far
    made,     \* history: audited commands that reported success
    noted,    \* history: commands whose audit entry was saved without an error
    sent,     \* history: `send` commands that reported success
    overlap,  \* history: two commands have run at the same time
    limitless \* history: a command has loaded a manifest without a limit

history == <<made, noted, sent>>
vars == <<mix, file, tmp, cmds, issued, history, overlap, limitless>>

(* The workspace as earlier commands, run one at a time, have left it:      *)
(* Create made its caller the owner, others joined and were made owners.    *)
Init ==
    /\ \E owners \in (SUBSET Profiles) \ {{}} :
          /\ Cardinality(owners) <= MaxAgents
          /\ file = [f \in Files |->
                CASE f = "manifest" -> MaxAgents
                  [] f = "state" -> [state  |-> "active",
                                     agents |-> [p \in Profiles |-> IF p \in owners THEN "owner" ELSE None]]
                  [] f = "audit" -> {0} [] f = "tasks" -> {} [] f = "context" -> None]
    /\ mix \in Mixes
    /\ tmp = [f \in Files |-> NoFile]
    /\ cmds = [c \in Ids |-> None]
    /\ issued = 0
    /\ made = {} /\ noted = {} /\ sent = {}
    /\ overlap = FALSE /\ limitless = FALSE

-----------------------------------------------------------------------------
(* The workspace's own rules, on the copy that was loaded.                  *)

Members(ws) == {p \in Profiles : ws.agents[p] # None}
Owners(ws) == {p \in Profiles : ws.agents[p] = "owner"}

(* A role change on an archived workspace makes it active again. *)
MutSetAgent(ws, p, role) == [ws EXCEPT !.agents[p] = role, !.state = "active"]

SetAgent(ws, p, role) == [ws EXCEPT !.agents[p] = role]

CanAdd(limit, ws, p) ==
    /\ ws.state = "active"
    /\ p \notin Members(ws)
    /\ limit > 0 => Cardinality(Members(ws)) < limit

(* RemoveAgent without its guard on the last owner. *)
MutCanRemove(ws, p) == p \in Members(ws)

CanRemove(ws, p) == p \in Members(ws) /\ Owners(ws) # {p}

CanSetRole(ws, p, role) == p \in Members(ws) /\ (role = "owner" \/ Owners(ws) # {p})

CanArchive(ws) == ws.state = "active"

Accepts(limit, ws, r) ==
    CASE r.op = "join" -> CanAdd(limit, ws, r.who)
      [] r.op = "leave" -> CanRemove(ws, r.who)
      [] r.op = "remove" -> r.who \in Owners(ws) /\ CanRemove(ws, r.target)
      [] r.op = "role" -> CanSetRole(ws, r.target, r.role)
      [] r.op = "archive" -> CanArchive(ws)
      [] r.op = "policy" -> TRUE

Changed(ws, r) ==
    CASE r.op = "join" -> SetAgent(ws, r.who, "contributor")
      [] r.op = "leave" -> SetAgent(ws, r.who, None)
      [] r.op = "remove" -> SetAgent(ws, r.target, None)
      [] r.op = "role" -> SetAgent(ws, r.target, r.role)
      [] r.op = "archive" -> [ws EXCEPT !.state = "archived"]
      [] r.op = "policy" -> ws

(* The shared context's rules: a private variable is its writer's own.      *)

IsVisibleTo(v, p) == ~v.private \/ v.by = p

(* A variable that is absent, or another profile's own, is "not found".     *)
Permitted(v, r) == IF v = None THEN r.op = "set" ELSE IsVisibleTo(v, r.who)

SetVariable(v, r) ==
    [version |-> IF v = None THEN 1 ELSE v.version + 1,
     by      |-> r.who,
     private |-> r.private \/ (v # None /\ v.private)]

-----------------------------------------------------------------------------
(* Commands: what each one saves, in this order.                            *)

Saves(op) ==
    CASE op \in {"join", "leave", "remove", "role", "archive"} -> <<"manifest", "state", "audit">>
      [] op = "policy" -> <<"manifest", "state">>
      [] op = "send" -> <<"tasks", "audit">>
      [] op \in {"set", "delete"} -> <<"context">>

Audited == {"join", "leave", "remove", "role", "archive", "send"}

Running == {c \in Ids : cmds[c] # None}
Saving(c) == Head(cmds[c].todo)

NoCopies == [f \in Files |-> None]

Start(r) ==
    /\ r.op \in mix
    /\ issued < MaxCommands /\ Cardinality(Running) < MaxParallel
    /\ issued' = issued + 1
    /\ cmds' = [cmds EXCEPT ![issued + 1] =
                  [req |-> r, todo |-> Saves(r.op), pc |-> "load", copy |-> NoCopies, fd |-> None]]
    /\ overlap' = (overlap \/ Running # {})
    /\ UNCHANGED <<file, tmp, history, limitless>>

At(c, pc) == c \in Running /\ cmds[c].pc = pc

(* The command's process ends; what it reports is remembered.               *)
Ends(c) == cmds' = [cmds EXCEPT ![c] = None]

Reports(c, ok) ==
    /\ made' = IF ok /\ cmds[c].req.op \in Audited THEN made \cup {c} ELSE made
    /\ sent' = IF ok /\ cmds[c].req.op = "send" THEN sent \cup {c} ELSE sent

Fails(c) == Ends(c) /\ UNCHANGED history

(* The text of f is in memory, and this is where the command goes on.       *)
Holds(c, f, text, pc) ==
    /\ cmds' = [cmds EXCEPT ![c] = [@ EXCEPT !.copy[f] = text, !.pc = pc]]
    /\ UNCHANGED history

Readable(f) == file[f] \notin {Empty, Garbled}

(* The limits a manifest may be parsed to: a text that was cut short has    *)
(* lost the setting, or digits of it.                                       *)
Parsed(text) ==
    CASE text = Empty -> {0} [] text = Garbled -> Limits [] OTHER -> {text}

(* LoadWorkspace reads manifest.yaml and then state.json, and refuses what  *)
(* it cannot parse.                                                         *)
LoadManifest(c) ==
    /\ At(c, "load") /\ Saving(c) = "manifest"
    /\ \/ \E limit \in Parsed(file["manifest"]) :
              /\ Holds(c, "manifest", limit, "read")
              /\ limitless' = (limitless \/ limit = 0)
       \/ file["manifest"] = Garbled /\ Fails(c) /\ UNCHANGED limitless
    /\ UNCHANGED <<file, tmp, issued, overlap>>

LoadWorkspace(c) ==
    /\ At(c, "read")
    /\ IF Readable("state") /\ Accepts(cmds[c].copy["manifest"], file["state"], cmds[c].req)
       THEN Holds(c, "state", Changed(file["state"], cmds[c].req), "open")
       ELSE Fails(c)
    /\ UNCHANGED <<file, tmp, issued, overlap, limitless>>

(* The audit entry is saved over the log instead of appended to it. *)
MutLoadList(c) == Saving(c) \in {"tasks", "audit"} /\ Holds(c, Saving(c), {c}, "open")

(* Send and the audit log take a list they cannot read for an empty one.    *)
LoadList(c) ==
    /\ Saving(c) \in {"tasks", "audit"}
    /\ Holds(c, Saving(c), (IF Readable(Saving(c)) THEN file[Saving(c)] ELSE {}) \cup {c}, "open")

(* So does `ctx set`; `ctx delete` finds nothing to delete.                 *)
LoadContext(c) ==
    LET r == cmds[c].req
        v == IF Readable("context") THEN file["context"] ELSE None
    IN  /\ Saving(c) = "context"
        /\ IF Permitted(v, r)
           THEN Holds(c, "context", IF r.op = "set" THEN SetVariable(v, r) ELSE None, "open")
           ELSE Fails(c)

Load(c) ==
    /\ At(c, "load")
    /\ LoadList(c) \/ LoadContext(c)
    /\ UNCHANGED <<file, tmp, issued, overlap, limitless>>

-----------------------------------------------------------------------------
(* atomicWriteFile: os.WriteFile opens <file>.tmp with O_TRUNC and writes   *)
(* it, os.Rename gives it its name.  A descriptor follows the file it       *)
(* opened through the renames of others.                                    *)

Open(c) ==
    /\ At(c, "open")
    /\ tmp' = [tmp EXCEPT ![Saving(c)] = Empty]
    /\ cmds' = [cmds EXCEPT ![c].fd = "tmp", ![c].pc = "write"]
    /\ UNCHANGED <<file, issued, history, overlap, limitless>>

(* Written over the text of another process, a shorter one leaves its tail. *)
Overwrite(old, new) == IF old \in {Empty, new} THEN {new} ELSE {new, Garbled}

(* The file behind the command's descriptor gets one of these texts.        *)
Puts(c, Of(_)) ==
    LET f == Saving(c) IN
    \/ /\ cmds[c].fd = "tmp"
       /\ \E t \in Of(tmp[f]) : tmp' = [tmp EXCEPT ![f] = t]
       /\ UNCHANGED file
    \/ /\ cmds[c].fd = "file"
       /\ \E t \in Of(file[f]) : file' = [file EXCEPT ![f] = t]
       /\ UNCHANGED tmp
    \/ cmds[c].fd = "gone" /\ UNCHANGED <<file, tmp>>

Write(c) ==
    /\ At(c, "write")
    /\ Puts(c, LAMBDA old : Overwrite(old, cmds[c].copy[Saving(c)]))
    /\ cmds' = [cmds EXCEPT ![c].fd = None, ![c].pc = "rename"]
    /\ UNCHANGED <<issued, history, overlap, limitless>>

(* os.WriteFile fails, in its open or in its write, and what it has written *)
(* stays.  The command fails, unless it was its audit entry: the error of   *)
(* recordEvent is dropped and the command reports success.                  *)
OpenFails(c) ==
    /\ At(c, "open")
    /\ Ends(c) /\ Reports(c, Saving(c) = "audit")
    /\ UNCHANGED <<file, tmp, issued, noted, overlap, limitless>>

WriteFails(c) ==
    /\ At(c, "write")
    /\ Puts(c, LAMBDA old : {old, Garbled})
    /\ Ends(c) /\ Reports(c, Saving(c) = "audit")
    /\ UNCHANGED <<issued, noted, overlap, limitless>>

(* What a rename, or the removal of the name, does to open descriptors.     *)
Renamed(d, f) ==
    IF d # None /\ d.pc = "write" /\ Head(d.todo) = f
    THEN [d EXCEPT !.fd = IF d.fd = "tmp" THEN "file" ELSE "gone"] ELSE d

Removed(d, f) ==
    IF d # None /\ d.pc = "write" /\ Head(d.todo) = f /\ d.fd = "tmp"
    THEN [d EXCEPT !.fd = "gone"] ELSE d

(* The workspace is in memory since it was loaded, the audit log is loaded  *)
(* when the change is saved.                                                *)
NextSave(p) ==
    LET rest == Tail(p.todo) IN
    IF rest = <<>> THEN None
    ELSE [p EXCEPT !.todo = rest, !.copy[Head(p.todo)] = None,
                   !.pc = IF Head(rest) = "state" THEN "open" ELSE "load"]

Rename(c) ==
    LET f == Saving(c) IN
    /\ At(c, "rename")
    /\ tmp[f] # NoFile
    /\ file' = [file EXCEPT ![f] = tmp[f]]
    /\ tmp' = [tmp EXCEPT ![f] = NoFile]
    /\ cmds' = [d \in Ids |-> IF d = c THEN NextSave(cmds[c]) ELSE Renamed(cmds[d], f)]
    /\ Reports(c, Len(cmds[c].todo) = 1)
    /\ noted' = IF f = "audit" THEN noted \cup {c} ELSE noted
    /\ UNCHANGED <<issued, overlap, limitless>>

(* Another process has moved the temporary file away: the rename fails, and *)
(* the name is removed before the error is returned.                        *)
RenameFails(c) ==
    /\ At(c, "rename")
    /\ tmp[Saving(c)] = NoFile
    /\ cmds' = [cmds EXCEPT ![c].pc = "remove"]
    /\ UNCHANGED <<file, tmp, issued, history, overlap, limitless>>

RemoveTmp(c) ==
    LET f == Saving(c) IN
    /\ At(c, "remove")
    /\ tmp' = [tmp EXCEPT ![f] = NoFile]
    /\ cmds' = [d \in Ids |-> IF d = c THEN None ELSE Removed(cmds[d], f)]
    /\ Reports(c, f = "audit")
    /\ UNCHANGED <<file, issued, noted, overlap, limitless>>

(* The process is killed between two steps.                                 *)
Crash(c) ==
    /\ c \in Running
    /\ Fails(c)
    /\ UNCHANGED <<file, tmp, issued, overlap, limitless>>

Next ==
    /\ \/ \E r \in Requests : Start(r)
       \/ \E c \in Ids : \/ LoadManifest(c) \/ LoadWorkspace(c) \/ Load(c)
                          \/ Open(c) \/ OpenFails(c) \/ Write(c) \/ WriteFails(c)
                          \/ Rename(c) \/ RenameFails(c) \/ RemoveTmp(c)
                          \/ Crash(c)
    /\ UNCHANGED mix

Spec == Init /\ [][Next]_vars

-----------------------------------------------------------------------------
(* Properties                                                               *)

(* Every file holds what its readers expect, or one of the two accidents;   *)
(* a process that is about to write has a copy of the file it writes, and   *)
(* only a process that is writing has a descriptor.                         *)
TypeOK ==
    /\ \A f \in Files : /\ file[f] \in {Empty, Garbled} \cup Content[f]
                        /\ tmp[f] \in {Empty, Garbled, NoFile} \cup Content[f]
    /\ \A c \in Running :
          /\ cmds[c].req \in Requests
          /\ cmds[c].pc \in {"load", "read", "open", "write", "rename", "remove"}
          /\ Saving(c) \in Files
          /\ cmds[c].pc # "load" => cmds[c].copy[Saving(c)] \in Content[Saving(c)]
          /\ cmds[c].fd \in {"tmp", "file", "gone", None}
          /\ (cmds[c].fd # None) <=> (cmds[c].pc = "write")
    /\ issued \in 0 .. MaxCommands
    /\ made \subseteq Ids /\ noted \subseteq Ids /\ sent \subseteq Ids

(* However commands overlap, fail or are killed, whoever can read           *)
(* state.json finds a workspace with an owner: each command checks the      *)
(* rules on the very text it replaces the file by.  It also has no more     *)
(* agents than it may have, as long as no command has found a manifest that *)
(* lost its limit.                                                          *)
RulesHold ==
    Readable("state") =>
        /\ Owners(file["state"]) # {}
        /\ ~limitless => Cardinality(Members(file["state"])) <= MaxAgents

(* atomicWriteFile keeps its promise to commands that run one at a time: a  *)
(* process killed between any two steps, or a write that fails, leaves      *)
(* every file readable, and the temporary file it leaves behind does the    *)
(* next command no harm.  The task list then has every task that was        *)
(* reported sent, the audit log every entry that was saved without an       *)
(* error; and the manifest still has its limit.                             *)
KeptWhenAlone ==
    ~overlap => /\ \A f \in Files : Readable(f)
                /\ sent \subseteq file["tasks"]
                /\ noted \cup {0} \subseteq file["audit"]
                /\ ~limitless

(* No text of the workspace that is saved, being saved or about to be is    *)
(* active.                                                                  *)
Settled ==
    LET Over(ws) == ws \in {Empty, Garbled, NoFile, None} \/ ws.state = "archived"
    IN  /\ Over(file["state"]) /\ Over(tmp["state"])
        /\ \A c \in Running : Over(cmds[c].copy["state"])

(* Archiving is final once the commands that had loaded the workspace       *)
(* before it are over: no later command makes it active again.              *)
ArchivedIsFinal == [][Settled => Settled']_vars

(* The comment of atomicWriteFile: it "prevents partial writes from         *)
(* corrupting existing data".  It does not hold when two commands save the  *)
(* same file, because they share <file>.tmp.                                *)
FilesStayReadable == \A f \in Files : Readable(f)

(* AddAgent refuses an agent when the "workspace [is] at capacity".  It     *)
(* does not hold once two commands that saved the manifest at the same time *)
(* have left it empty: the next join finds no limit.                        *)
CapacityHolds == Readable("state") => Cardinality(Members(file["state"])) <= MaxAgents

(* The comment of Manager: it "records audit events for all state-changing  *)
(* operations".  It does not hold when the audit log cannot be written: the *)
(* error is dropped, and a command run alone reports its success.           *)
EveryChangeIsAudited == ~overlap => made \subseteq file["audit"]
=============================================================================
