------------------------- MODULE CollaborationProofs -------------------------
(***************************************************************************)
(* Proofs about Collaboration, for every set of profiles, every number of  *)
(* commands, and any number of them at the same time.                      *)
(*                                                                         *)
(* The rules of the workspace survive lost updates and shared temporary    *)
(* files because every text that is anywhere (in the file, in <file>.tmp,  *)
(* in a process) satisfies them: Rules, Processes.  A limit of 0 is such a *)
(* text only after a command has loaded one, so the capacity is kept until *)
(* then.  What commands that do not overlap find is followed through the   *)
(* steps of atomicWriteFile: AloneOK.                                      *)
(***************************************************************************)
EXTENDS Collaboration, FiniteSetTheorems, TLAPS

Changes == {"join", "leave", "remove", "role", "archive"}
Todos   == {<<"manifest", "state", "audit">>, <<"manifest", "state">>, <<"state", "audit">>, <<"state">>,
            <<"tasks", "audit">>, <<"audit">>, <<"context">>}

\* The rules, and the texts that keep them; free: a limit of 0 is about.
Good(ws, free) == Owners(ws) # {} /\ (free \/ Cardinality(Members(ws)) <= MaxAgents)
Saved(f, free) ==
    IF f = "manifest" THEN {n \in Limits : free \/ n # 0}
    ELSE IF f = "state" THEN {ws \in Workspaces : Good(ws, free)} ELSE Content[f]

Texts == UNION {Content[f] : f \in Files}
Procs == [req : Requests, todo : Todos, pc : {"load", "read", "open", "write", "rename", "remove"},
          copy : [Files -> {None} \cup Texts], fd : {"tmp", "file", "gone", None}]

\* What a command has still to save follows from what it was asked to do, and
\* what it has ready to be written is a text for that file.
Follows(p) ==
    \/ p.todo = Saves(p.req.op)
    \/ p.todo = <<"state", "audit">> /\ p.req.op \in Changes
    \/ p.todo = <<"state">> /\ p.req.op = "policy"
    \/ p.todo = <<"audit">> /\ p.req.op \in Changes \cup {"send"}

Ready(p, free) ==
    /\ p.pc # "load" => p.copy[Head(p.todo)] \in Saved(Head(p.todo), free)
    /\ p.pc = "read" => Head(p.todo) = "manifest"
    /\ Head(p.todo) = "manifest" /\ p.pc \notin {"load", "read"} => p.copy["state"] \in Saved("state", free)

ProcOK(p, free) == p \in Procs /\ Follows(p) /\ ((p.fd # None) <=> (p.pc = "write")) /\ Ready(p, free)

Counters ==
    /\ issued \in 0..MaxCommands /\ overlap \in BOOLEAN /\ limitless \in BOOLEAN
    /\ made \subseteq Ids /\ noted \subseteq Ids /\ sent \subseteq Ids

Rules ==
    /\ file \in [Files -> {Empty, Garbled} \cup Texts]
    /\ tmp \in [Files -> {Empty, Garbled, NoFile} \cup Texts]
    /\ \A f \in Files : file[f] \in {Empty, Garbled} \cup Saved(f, limitless)
    /\ \A f \in Files : tmp[f] \in {Empty, Garbled, NoFile} \cup Saved(f, limitless)

Processes ==
    /\ cmds \in [Ids -> {None} \cup Procs]
    /\ \A c \in Ids : cmds[c] # None => ProcOK(cmds[c], limitless)

\* A command that runs alone.
Solo(c) ==
    LET f == Saving(c)  p == cmds[c] IN
    /\ p.pc # "remove"
    /\ p.pc # "load" /\ f \in {"tasks", "audit"} => p.copy[f] = file[f] \cup {c}
    /\ p.pc = "write" => p.fd = "tmp" /\ tmp[f] = Empty
    /\ p.pc = "rename" => tmp[f] = p.copy[f]
    /\ p.req.op = "send" /\ p.todo = <<"audit">> => c \in file["tasks"]

AloneOK ==
    ~overlap => /\ ~limitless
                /\ \A c, d \in Running : c = d
                /\ \A f \in Files : file[f] \in Saved(f, FALSE)
                /\ sent \subseteq file["tasks"] /\ noted \cup {0} \subseteq file["audit"]
                /\ \A c \in Running : Solo(c)

IInv == Counters /\ Rules /\ Processes /\ AloneOK

-----------------------------------------------------------------------------
(* The constant operators. *)

LEMMA Texts1 ==
    /\ Content["manifest"] = Limits
    /\ Content["state"] = Workspaces /\ Content["audit"] = SUBSET (Ids \cup {0})
    /\ Content["tasks"] = SUBSET Ids /\ Content["context"] = Variables
    /\ \A f \in Files : Content[f] \subseteq Texts
  BY DEF Content, Files, Texts

LEMMA NoAccident ==
    \A f \in Files : \A free :
        /\ Empty \notin Saved(f, free) /\ Garbled \notin Saved(f, free) /\ NoFile \notin Saved(f, free)
        /\ Saved(f, free) \subseteq Content[f] /\ Saved(f, free) \subseteq Texts
  BY TextsAssumption, Texts1 DEF Files, Saved

\* What is allowed without a limit of 0 is allowed with it.
LEMMA Weaken ==
    ASSUME NEW x \in BOOLEAN, NEW y \in BOOLEAN, x => y
    PROVE  /\ \A f \in Files : Saved(f, x) \subseteq Saved(f, y)
           /\ \A p : ProcOK(p, x) => ProcOK(p, y)
<1>1. \A f : Saved(f, x) \subseteq Saved(f, y)
  BY DEF Saved, Good
<1> QED  BY <1>1 DEF ProcOK, Ready

\* What is left to be saved, and its first element.
LEMMA TodoFacts ==
    /\ \A t \in Todos : Head(t) \in Files
    /\ Head(<<"manifest", "state", "audit">>) = "manifest"
    /\ Tail(<<"manifest", "state", "audit">>) = <<"state", "audit">>
    /\ Head(<<"manifest", "state">>) = "manifest" /\ Tail(<<"manifest", "state">>) = <<"state">>
    /\ Head(<<"state", "audit">>) = "state" /\ Tail(<<"state", "audit">>) = <<"audit">>
    /\ Head(<<"tasks", "audit">>) = "tasks" /\ Tail(<<"tasks", "audit">>) = <<"audit">>
    /\ Head(<<"state">>) = "state" /\ Tail(<<"state">>) = <<>>
    /\ Head(<<"audit">>) = "audit" /\ Tail(<<"audit">>) = <<>>
    /\ Head(<<"context">>) = "context" /\ Tail(<<"context">>) = <<>>
    /\ Len(<<"manifest", "state", "audit">>) = 3 /\ Len(<<"manifest", "state">>) = 2
    /\ Len(<<"state", "audit">>) = 2 /\ Len(<<"tasks", "audit">>) = 2
    /\ Len(<<"state">>) = 1 /\ Len(<<"audit">>) = 1 /\ Len(<<"context">>) = 1
    /\ <<"audit">> # <<>> /\ <<"state", "audit">> # <<>> /\ <<"state">> # <<>>
  BY DEF Todos, Files

LEMMA SavesFacts ==
    /\ \A op \in Changes : Saves(op) = <<"manifest", "state", "audit">>
    /\ Saves("policy") = <<"manifest", "state">> /\ Saves("send") = <<"tasks", "audit">>
    /\ Saves("set") = <<"context">> /\ Saves("delete") = <<"context">>
  BY DEF Saves, Changes

LEMMA RequestFields ==
    ASSUME NEW r \in Requests
    PROVE  /\ r.op \in Changes \cup {"policy", "send", "set", "delete"}
           /\ r.op \in {"join", "leave", "set", "delete"} => r.who \in Profiles
           /\ r.op \in {"remove", "role"} => r.target \in Profiles
           /\ r.op = "role" => r.role \in Roles
           /\ r.op = "set" => r.private \in BOOLEAN
  BY DEF Requests, Changes

LEMMA FollowsFacts ==
    ASSUME NEW p, p \in Procs, Follows(p)
    PROVE  /\ p.todo \in Todos /\ Head(p.todo) \in Files /\ p.req \in Requests
           /\ Head(p.todo) = "manifest" => p.req.op \in Changes \cup {"policy"}
           /\ Head(p.todo) = "manifest" => p.todo \in {<<"manifest", "state", "audit">>, <<"manifest", "state">>}
           /\ Head(p.todo) = "state" => p.req.op \in Changes \cup {"policy"}
           /\ Head(p.todo) = "state" => p.todo \in {<<"state", "audit">>, <<"state">>}
           /\ Head(p.todo) = "tasks" => p.req.op = "send" /\ p.todo = <<"tasks", "audit">>
           /\ Head(p.todo) = "audit" <=> p.todo = <<"audit">>
           /\ Head(p.todo) = "audit" => p.req.op \in Changes \cup {"send"}
           /\ Head(p.todo) = "context" => p.req.op \in {"set", "delete"} /\ p.todo = <<"context">>
           /\ p.req.op = "send" => Head(p.todo) \in {"tasks", "audit"}
<1>1. p.req \in Requests /\ p.todo \in Todos /\ p.req.op \in Changes \cup {"policy", "send", "set", "delete"}
  BY RequestFields DEF Procs
<1>2. CASE p.req.op \in Changes
  BY <1>1, <1>2, TodoFacts, SavesFacts DEF Follows, Changes
<1>3. CASE p.req.op = "policy"
  BY <1>1, <1>3, TodoFacts, SavesFacts DEF Follows, Changes
<1>4. CASE p.req.op = "send"
  BY <1>1, <1>4, TodoFacts, SavesFacts DEF Follows, Changes
<1>5. CASE p.req.op \in {"set", "delete"}
  BY <1>1, <1>5, TodoFacts, SavesFacts DEF Follows, Changes
<1> QED  BY <1>1, <1>2, <1>3, <1>4, <1>5

\* Members and owners are finite sets of profiles.
LEMMA Rosters ==
    ASSUME NEW ws
    PROVE  /\ Owners(ws) \subseteq Members(ws)
           /\ IsFiniteSet(Members(ws)) /\ Cardinality(Members(ws)) \in Nat
<1>1. Members(ws) \in SUBSET Profiles
  BY DEF Members
<1>2. IsFiniteSet(Members(ws))
  BY <1>1, ConstantsAssumption, FS_Subset
<1>3. Owners(ws) \subseteq Members(ws)
  BY ConstantsAssumption DEF Owners, Members, Roles
<1> QED  BY <1>1, <1>2, <1>3, FS_CardinalityType

LEMMA AgentSet ==
    ASSUME NEW ws \in Workspaces, NEW p \in Profiles, NEW role \in Roles \cup {None}
    PROVE  LET new == SetAgent(ws, p, role) IN
           /\ new \in Workspaces /\ new.state = ws.state
           /\ Members(new) = IF role = None THEN Members(ws) \ {p} ELSE Members(ws) \cup {p}
           /\ Owners(new) = IF role = "owner" THEN Owners(ws) \cup {p} ELSE Owners(ws) \ {p}
<1> DEFINE new == SetAgent(ws, p, role)
<1>1. new = [state |-> ws.state, agents |-> [ws.agents EXCEPT ![p] = role]]
  BY DEF SetAgent, Workspaces
<1>2. new \in Workspaces /\ new.state = ws.state
  BY <1>1 DEF Workspaces
<1>3. \A q \in Profiles : new.agents[q] = IF q = p THEN role ELSE ws.agents[q]
  BY <1>1 DEF Workspaces
<1> HIDE DEF new
<1>4. Members(new) = IF role = None THEN Members(ws) \ {p} ELSE Members(ws) \cup {p}
  BY <1>3 DEF Members
<1>5. Owners(new) = IF role = "owner" THEN Owners(ws) \cup {p} ELSE Owners(ws) \ {p}
  BY <1>3, ConstantsAssumption DEF Owners, Roles
<1> QED  BY <1>2, <1>4, <1>5 DEF new

\* Every command keeps the rules of the workspace it is given, and none makes
\* an archived one active.
LEMMA CommandsKeepRules ==
    ASSUME NEW free \in BOOLEAN, NEW ws \in Workspaces, Good(ws, free), NEW r \in Requests,
           NEW limit \in Limits, free \/ limit # 0,
           r.op \in Changes \cup {"policy"}, Accepts(limit, ws, r)
    PROVE  /\ Changed(ws, r) \in Workspaces /\ Good(Changed(ws, r), free)
           /\ ws.state = "archived" => Changed(ws, r).state = "archived"
<1> DEFINE new == Changed(ws, r)
<1>0. /\ Members(ws) \subseteq Profiles /\ IsFiniteSet(Members(ws)) /\ Cardinality(Members(ws)) \in Nat
      /\ Owners(ws) \subseteq Members(ws) /\ MaxAgents \in Nat
      /\ Owners(ws) # {} /\ (free \/ Cardinality(Members(ws)) <= MaxAgents)
  BY Rosters, ConstantsAssumption DEF Good, Members
<1>1. CASE r.op = "join"
  <2>1. new = SetAgent(ws, r.who, "contributor") /\ CanAdd(limit, ws, r.who) /\ r.who \in Profiles
    BY <1>1, RequestFields DEF Changed, Accepts
  <2>2. new \in Workspaces /\ new.state = ws.state /\ Members(new) = Members(ws) \cup {r.who}
        /\ Owners(new) = Owners(ws) \ {r.who}
    BY <2>1, AgentSet, ConstantsAssumption DEF Roles
  <2>3. free \/ Cardinality(Members(new)) <= MaxAgents
    <3> HIDE DEF new
    <3>1. Cardinality(Members(ws) \cup {r.who}) = Cardinality(Members(ws)) + 1
      BY <1>0, <2>1, FS_AddElement DEF CanAdd
    <3>2. free \/ Cardinality(Members(ws)) < MaxAgents
      BY <1>0, <2>1 DEF CanAdd, Limits
    <3> QED  BY <1>0, <2>2, <3>1, <3>2
  <2>4. Owners(new) # {}
    BY <1>0, <2>1, <2>2 DEF CanAdd
  <2> QED  BY <2>2, <2>3, <2>4 DEF Good
<1>2. CASE r.op \in {"leave", "remove"}
  <2>1. PICK p \in Profiles : new = SetAgent(ws, p, None) /\ CanRemove(ws, p)
    BY <1>2, RequestFields DEF Changed, Accepts
  <2>2. new \in Workspaces /\ new.state = ws.state /\ Members(new) = Members(ws) \ {p}
        /\ Owners(new) = Owners(ws) \ {p}
    BY <2>1, AgentSet, ConstantsAssumption DEF Roles
  <2>3. free \/ Cardinality(Members(new)) <= MaxAgents
    <3> HIDE DEF new
    <3>1. Cardinality(Members(ws) \ {p}) <= Cardinality(Members(ws)) /\ Cardinality(Members(ws) \ {p}) \in Nat
      <4>1. IsFiniteSet(Members(ws) \ {p}) /\ Cardinality(Members(ws) \ {p}) = Cardinality(Members(ws)) - 1
        BY <1>0, <2>1, FS_RemoveElement DEF CanRemove
      <4>2. Cardinality(Members(ws) \ {p}) \in Nat
        BY <4>1, FS_CardinalityType
      <4> QED  BY <1>0, <4>1, <4>2
    <3> QED  BY <1>0, <2>2, <3>1
  <2>4. Owners(new) # {}
    BY <1>0, <2>1, <2>2 DEF CanRemove
  <2> QED  BY <2>2, <2>3, <2>4 DEF Good
<1>3. CASE r.op = "role"
  <2>1. PICK p \in Profiles, role \in Roles : new = SetAgent(ws, p, role) /\ CanSetRole(ws, p, role)
    BY <1>3, RequestFields DEF Changed, Accepts
  <2>2. new \in Workspaces /\ new.state = ws.state /\ Members(new) = Members(ws) \cup {p}
        /\ Owners(new) = IF role = "owner" THEN Owners(ws) \cup {p} ELSE Owners(ws) \ {p}
    BY <2>1, AgentSet, ConstantsAssumption
  <2>3. Members(new) = Members(ws)
    BY <2>1, <2>2 DEF CanSetRole
  <2>4. Owners(new) # {}
    BY <1>0, <2>1, <2>2 DEF CanSetRole
  <2> QED  BY <1>0, <2>2, <2>3, <2>4 DEF Good
<1>4. CASE r.op = "archive"
  <2>1. new = [ws EXCEPT !.state = "archived"]
    BY <1>4 DEF Changed
  <2>2. new \in Workspaces /\ new.agents = ws.agents /\ new.state = "archived"
    BY <2>1 DEF Workspaces
  <2> QED  BY <2>2 DEF Good, Owners, Members
<1>5. CASE r.op = "policy"
  BY <1>5 DEF Changed
<1> QED  BY <1>1, <1>2, <1>3, <1>4, <1>5 DEF Changes

-----------------------------------------------------------------------------
(* The steps of one process. *)

LEMMA StartOK ==
    ASSUME NEW r \in Requests, NEW free
    PROVE  LET p == [req |-> r, todo |-> Saves(r.op), pc |-> "load", copy |-> NoCopies, fd |-> None] IN
           ProcOK(p, free) /\ p.copy["state"] = None
<1> DEFINE p == [req |-> r, todo |-> Saves(r.op), pc |-> "load", copy |-> NoCopies, fd |-> None]
<1>1. Saves(r.op) \in Todos
  BY SavesFacts, RequestFields DEF Todos, Changes
<1>2. NoCopies \in [Files -> {None} \cup Texts] /\ NoCopies["state"] = None
  BY DEF NoCopies, Files
<1>3. p \in Procs
  BY <1>1, <1>2 DEF Procs
<1>4. p.todo = Saves(p.req.op) /\ p.pc = "load" /\ p.fd = None /\ p.copy = NoCopies
  OBVIOUS
<1> HIDE DEF p
<1> QED  BY <1>2, <1>3, <1>4 DEF ProcOK, Ready, Follows, p

Held(p, f, x, pc) == [p EXCEPT !.copy[f] = x, !.pc = pc]

\* A text is loaded: nothing else changes in the process.
LEMMA HoldFacts ==
    ASSUME NEW p \in Procs, Follows(p), p.fd = None, NEW f \in Files, NEW x \in Texts \cup {None},
           NEW pc \in {"read", "open"}, NEW q, q = Held(p, f, x, pc)
    PROVE  /\ q \in Procs /\ Follows(q) /\ q.fd = None
           /\ q.todo = p.todo /\ q.req = p.req /\ q.pc = pc
           /\ q.copy[f] = x /\ \A g \in Files : g # f => q.copy[g] = p.copy[g]
<1>1. q = [req |-> p.req, todo |-> p.todo, pc |-> pc, copy |-> [p.copy EXCEPT ![f] = x], fd |-> p.fd]
  BY DEF Procs, Held
<1>2. p.copy \in [Files -> {None} \cup Texts] /\ [p.copy EXCEPT ![f] = x] \in [Files -> {None} \cup Texts]
  BY DEF Procs
<1>3. q.todo = p.todo /\ q.req = p.req /\ q.pc = pc /\ q.fd = None /\ q.copy = [p.copy EXCEPT ![f] = x]
  BY <1>1
<1>4. q \in Procs
  BY <1>1, <1>2 DEF Procs
<1> QED  BY <1>2, <1>3, <1>4 DEF Follows

LEMMA OpenOK ==
    ASSUME NEW p, NEW free, ProcOK(p, free), p.pc = "open"
    PROVE  LET q == [p EXCEPT !.fd = "tmp", !.pc = "write"] IN
           ProcOK(q, free) /\ q.todo = p.todo /\ q.req = p.req /\ q.pc = "write" /\ q.copy = p.copy /\ q.fd = "tmp"
  BY ConstantsAssumption DEF ProcOK, Procs, Follows, Ready

LEMMA WriteOK ==
    ASSUME NEW p, NEW free, ProcOK(p, free), p.pc = "write"
    PROVE  LET q == [p EXCEPT !.fd = None, !.pc = "rename"] IN
           ProcOK(q, free) /\ q.todo = p.todo /\ q.req = p.req /\ q.pc = "rename" /\ q.copy = p.copy
  BY DEF ProcOK, Procs, Follows, Ready

LEMMA FailOK ==
    ASSUME NEW p, NEW free, ProcOK(p, free), p.pc = "rename"
    PROVE  LET q == [p EXCEPT !.pc = "remove"] IN
           ProcOK(q, free) /\ q.todo = p.todo /\ q.req = p.req /\ q.pc = "remove" /\ q.copy = p.copy
  BY DEF ProcOK, Procs, Follows, Ready

\* The process goes on with the workspace it has loaded, or loads the audit log.
LEMMA NextOK ==
    ASSUME NEW p, NEW free, ProcOK(p, free), p.pc = "rename"
    PROVE  \/ NextSave(p) = None /\ Len(p.todo) = 1
           \/ LET q == NextSave(p) IN
              /\ ProcOK(q, free) /\ Len(p.todo) # 1 /\ q.req = p.req
              /\ q.copy["state"] \in {None, p.copy["state"]}
              /\ \/ q.todo = <<"audit">> /\ q.pc = "load"
                 \/ q.pc = "open" /\ Head(q.todo) = "state" /\ Head(p.todo) = "manifest"
<1> DEFINE rest == Tail(p.todo)  h == Head(p.todo)  q == NextSave(p)
<1>0. p \in Procs /\ Follows(p) /\ p.todo \in Todos /\ h \in Files /\ p.fd = None
  BY FollowsFacts DEF ProcOK
<1>1. CASE rest = <<>>
  BY <1>0, <1>1, TodoFacts DEF NextSave, Todos
<1>2. CASE rest # <<>>
  <2> DEFINE pc == IF Head(rest) = "state" THEN "open" ELSE "load"
  <2>1. q = [p EXCEPT !.todo = rest, !.copy[h] = None, !.pc = pc]
    BY <1>2 DEF NextSave
  <2>2. q = [req |-> p.req, todo |-> rest, pc |-> pc, copy |-> [p.copy EXCEPT ![h] = None], fd |-> p.fd]
    BY <1>0, <2>1 DEF Procs
  <2>3. q.req = p.req /\ q.todo = rest /\ q.pc = pc /\ q.copy = [p.copy EXCEPT ![h] = None] /\ q.fd = None
    <3> HIDE DEF pc, h, rest, q
    <3> QED  BY <1>0, <2>2
  <2>4. p.copy \in [Files -> {None} \cup Texts] /\ q.copy \in [Files -> {None} \cup Texts]
    BY <1>0, <2>3 DEF Procs
  <2>5. /\ rest \in Todos /\ Len(p.todo) # 1
        /\ \/ rest = <<"audit">> /\ p.req.op \in Changes \cup {"send"}
           \/ h = "manifest" /\ rest = <<"state", "audit">> /\ p.req.op \in Changes
           \/ h = "manifest" /\ rest = <<"state">> /\ p.req.op = "policy"
    <3>1. CASE h = "manifest"
      <4>1. p.req.op \in Changes => p.todo = <<"manifest", "state", "audit">>
        BY <1>0, <3>1, FollowsFacts, SavesFacts, TodoFacts DEF Follows
      <4>2. p.req.op = "policy" => p.todo = <<"manifest", "state">>
        BY <1>0, <3>1, FollowsFacts, SavesFacts, TodoFacts DEF Follows, Changes
      <4>3. p.req.op \in Changes \cup {"policy"}
        BY <1>0, <3>1, FollowsFacts
      <4>4. CASE p.req.op \in Changes
        <5>0. p.todo = <<"manifest", "state", "audit">>
          BY <4>1, <4>4
        <5>1. rest = <<"state", "audit">> /\ Len(p.todo) # 1
          BY <5>0, TodoFacts
        <5> QED  BY <3>1, <4>4, <5>1 DEF Todos
      <4>5. CASE p.req.op = "policy"
        <5>0. p.todo = <<"manifest", "state">>
          BY <4>2, <4>5
        <5>1. rest = <<"state">> /\ Len(p.todo) # 1
          BY <5>0, TodoFacts
        <5> QED  BY <3>1, <4>5, <5>1 DEF Todos
      <4> QED  BY <4>3, <4>4, <4>5
    <3>2. CASE h = "state"
      <4>1. p.todo = <<"state", "audit">>
        BY <1>0, <1>2, <3>2, FollowsFacts, TodoFacts
      <4>2. p.req.op \in Changes
        BY <1>0, <4>1, FollowsFacts, SavesFacts, TodoFacts DEF Follows
      <4> QED  BY <4>1, <4>2, TodoFacts DEF Todos
    <3>3. CASE h = "tasks"
      <4>1. p.todo = <<"tasks", "audit">> /\ p.req.op = "send"
        BY <1>0, <3>3, FollowsFacts
      <4>2. rest = <<"audit">> /\ Len(p.todo) # 1
        BY <4>1, TodoFacts
      <4> QED  BY <4>1, <4>2 DEF Todos
    <3>4. CASE h \in {"audit", "context"}
      BY <1>0, <1>2, <3>4, FollowsFacts, TodoFacts
    <3> QED  BY <1>0, <3>1, <3>2, <3>3, <3>4 DEF Files
  <2>6. q \in Procs
    <3>1. p.req \in Requests /\ p.fd \in {"tmp", "file", "gone", None}
      BY <1>0 DEF Procs
    <3>2. pc \in {"load", "read", "open", "write", "rename", "remove"}
      OBVIOUS
    <3>3. [p.copy EXCEPT ![h] = None] \in [Files -> {None} \cup Texts]
      BY <2>3, <2>4
    <3> HIDE DEF pc, h, rest
    <3> QED  BY <2>2, <2>5, <3>1, <3>2, <3>3 DEF Procs
  <2>7. Follows(q)
    BY <2>3, <2>5 DEF Follows
  <2>8. CASE h = "manifest"
    <3>1. rest \in {<<"state", "audit">>, <<"state">>} /\ Head(rest) = "state" /\ pc = "open"
      BY <2>5, <2>8, TodoFacts, FollowsFacts, <1>0
    <3>2. q.copy["state"] = p.copy["state"] /\ p.copy["state"] \in Saved("state", free)
      BY <2>3, <2>4, <2>8 DEF ProcOK, Ready, Files
    <3>3. Ready(q, free)
      BY <2>3, <3>1, <3>2 DEF Ready
    <3> QED  BY <2>3, <2>5, <2>6, <2>7, <2>8, <3>1, <3>2, <3>3 DEF ProcOK
  <2>9. CASE h # "manifest"
    <3>1. rest = <<"audit">> /\ pc = "load" /\ Head(rest) = "audit"
      BY <2>5, <2>9, TodoFacts
    <3>2. q.copy["state"] \in {None, p.copy["state"]}
      BY <1>0, <2>3, <2>4 DEF Files
    <3>3. Ready(q, free)
      BY <2>3, <3>1 DEF Ready
    <3> QED  BY <2>3, <2>5, <2>6, <2>7, <3>1, <3>2, <3>3 DEF ProcOK
  <2> QED  BY <2>8, <2>9
<1> QED  BY <1>1, <1>2

\* What the others do to an open descriptor changes nothing else.
LEMMA MovedOK ==
    ASSUME NEW p, NEW free, p # None => ProcOK(p, free), NEW f, NEW q \in {Renamed(p, f), Removed(p, f)}
    PROVE  /\ p = None => q = None
           /\ p # None => /\ ProcOK(q, free)
                          /\ q.todo = p.todo /\ q.req = p.req /\ q.pc = p.pc /\ q.copy = p.copy
<1>1. CASE q = p
  BY <1>1
<1>2. CASE q # p
  <2>1. PICK d \in {"file", "gone"} : q = [p EXCEPT !.fd = d] /\ p # None /\ p.pc = "write"
    BY <1>2 DEF Renamed, Removed
  <2> QED  BY <2>1, ConstantsAssumption DEF ProcOK, Procs, Follows, Ready
<1> QED  BY <1>1, <1>2

-----------------------------------------------------------------------------
(* The invariant. *)

Still == UNCHANGED <<file, tmp, issued, overlap, limitless>>

\* What a command has after it has loaded a file: a text that keeps the rules.
Loaded(c, f, x, pc) ==
    /\ c \in Running /\ f \in Files /\ x \in Saved(f, limitless') /\ Holds(c, f, x, pc)
    /\ limitless' \in BOOLEAN /\ (limitless => limitless')
    /\ UNCHANGED <<file, tmp, issued, overlap>>
    /\ \/ /\ cmds[c].pc = "load" /\ Saving(c) = "manifest" /\ f = "manifest" /\ pc = "read"
          /\ file["manifest"] \in Saved("manifest", FALSE) => limitless' = limitless
       \/ /\ cmds[c].pc = "read" /\ f = "state" /\ pc = "open" /\ limitless' = limitless
          /\ Readable("state") /\ (file["state"].state = "archived" => x.state = "archived")
       \/ /\ cmds[c].pc = "load" /\ f = Saving(c) /\ f \in {"tasks", "audit", "context"} /\ pc = "open"
          /\ limitless' = limitless
          /\ f # "context" => x = (IF Readable(f) THEN file[f] ELSE {}) \cup {c}

LEMMA ManifestLeads ==
    ASSUME Counters, Rules, Processes, NEW c \in Ids, LoadManifest(c)
    PROVE  (Fails(c) /\ Still) \/ \E f, x, pc : Loaded(c, f, x, pc)
<1>1. CASE Fails(c) /\ UNCHANGED limitless
  BY <1>1 DEF LoadManifest, Still
<1>2. CASE ~(Fails(c) /\ UNCHANGED limitless)
  <2>1. PICK limit \in Parsed(file["manifest"]) :
            /\ Holds(c, "manifest", limit, "read") /\ limitless' = (limitless \/ limit = 0)
    BY <1>2 DEF LoadManifest
  <2>2. /\ c \in Running /\ cmds[c].pc = "load" /\ Saving(c) = "manifest"
        /\ UNCHANGED <<file, tmp, issued, overlap>>
    BY DEF LoadManifest, At
  <2>3. file["manifest"] \in {Empty, Garbled} \cup Saved("manifest", limitless) /\ limitless \in BOOLEAN
    BY DEF Rules, Counters, Files
  <2>4. limit \in Limits /\ (file["manifest"] \in Saved("manifest", limitless) => limit = file["manifest"])
    <3>1. CASE file["manifest"] \in Saved("manifest", limitless)
      <4>1. file["manifest"] # Empty /\ file["manifest"] # Garbled
        BY <3>1, NoAccident DEF Files
      <4> QED  BY <2>1, <3>1, <4>1 DEF Parsed, Saved
    <3>2. CASE file["manifest"] = Empty
      BY <2>1, <3>2, NoAccident, ConstantsAssumption DEF Parsed, Limits, Files
    <3>3. CASE file["manifest"] = Garbled /\ file["manifest"] # Empty
      <4>1. Parsed(file["manifest"]) = Limits
        BY <3>3 DEF Parsed
      <4> QED  BY <2>1, <3>3, <4>1, NoAccident DEF Files
    <3> QED  BY <2>3, <3>1, <3>2, <3>3
  <2>5. limitless' \in BOOLEAN /\ (limitless => limitless') /\ (limit = 0 => limitless')
        /\ (limit # 0 => limitless' = limitless)
    BY <2>1, <2>3
  <2>6. limit \in Saved("manifest", limitless')
    BY <2>4, <2>5 DEF Saved
  <2>7. file["manifest"] \in Saved("manifest", FALSE) => limitless' = limitless
    <3>1. file["manifest"] \in Saved("manifest", FALSE) => file["manifest"] \in Saved("manifest", limitless) /\ file["manifest"] # 0
      BY DEF Saved
    <3> QED  BY <2>4, <2>5, <3>1
  <2>8. Loaded(c, "manifest", limit, "read")
    BY <2>1, <2>2, <2>5, <2>6, <2>7 DEF Loaded, Files
  <2> QED  BY <2>8
<1> QED  BY <1>1, <1>2

LEMMA WorkspaceLeads ==
    ASSUME Counters, Rules, Processes, NEW c \in Ids, LoadWorkspace(c)
    PROVE  (Fails(c) /\ Still) \/ \E f, x, pc : Loaded(c, f, x, pc)
<1> DEFINE p == cmds[c]  ws == file["state"]  x == Changed(ws, p.req)  limit == p.copy["manifest"]
<1>1. c \in Running /\ p.pc = "read" /\ Still /\ limitless \in BOOLEAN /\ ProcOK(p, limitless)
  BY DEF LoadWorkspace, At, Still, Counters, Running, Processes
<1>2. CASE Fails(c)
  BY <1>1, <1>2
<1>3. CASE ~Fails(c)
  <2>1. Readable("state") /\ Accepts(limit, ws, p.req) /\ Holds(c, "state", x, "open")
    BY <1>3 DEF LoadWorkspace
  <2>2. ws \in Workspaces /\ Good(ws, limitless)
    BY <2>1 DEF Rules, Readable, Saved, Files
  <2>3. limit \in Limits /\ (limitless \/ limit # 0)
    BY <1>1 DEF ProcOK, Ready, Saved
  <2>4. p.req \in Requests /\ p.req.op \in Changes \cup {"policy"}
    BY <1>1, FollowsFacts DEF ProcOK, Ready
  <2> HIDE DEF p, ws, limit
  <2>5. x \in Workspaces /\ Good(x, limitless) /\ (ws.state = "archived" => x.state = "archived")
    BY <1>1, <2>1, <2>2, <2>3, <2>4, CommandsKeepRules
  <2>6. x \in Saved("state", limitless)
    BY <2>5 DEF Saved
  <2> HIDE DEF x
  <2>7. Loaded(c, "state", x, "open")
    BY <1>1, <2>1, <2>5, <2>6 DEF Loaded, Still, Files, p, ws
  <2> QED  BY <2>7
<1> QED  BY <1>2, <1>3

LEMMA LoadLeads ==
    ASSUME Counters, Rules, Processes, NEW c \in Ids, Load(c)
    PROVE  (Fails(c) /\ Still) \/ \E f, x, pc : Loaded(c, f, x, pc)
<1> DEFINE p == cmds[c]
<1>1. c \in Running /\ ProcOK(p, limitless) /\ p.pc = "load" /\ limitless \in BOOLEAN
      /\ UNCHANGED <<file, tmp, issued, overlap, limitless>>
  BY DEF Load, At, Running, Processes, Counters
<1>2. Saving(c) = Head(p.todo) /\ p.req \in Requests
  BY <1>1, FollowsFacts DEF Saving, ProcOK
<1>3. CASE Fails(c)
  BY <1>1, <1>3 DEF Still
<1>4. CASE LoadList(c)
  <2> DEFINE f == Saving(c)
             old == IF Readable(f) THEN file[f] ELSE {}
             x == old \cup {c}
  <2>1. f \in {"tasks", "audit"} /\ Holds(c, f, x, "open")
    BY <1>4 DEF LoadList
  <2>2. old \in Content[f]
    BY <2>1, Texts1 DEF Rules, Readable, Saved, Files
  <2>3. x \in Content[f] /\ Saved(f, limitless) = Content[f]
    BY <2>1, <2>2, Texts1 DEF Saved
  <2>4. Loaded(c, f, x, "open")
    BY <1>1, <2>1, <2>3 DEF Loaded, Files
  <2> QED  BY <2>4
<1>5. CASE LoadContext(c) /\ ~Fails(c)
  <2> DEFINE v == IF Readable("context") THEN file["context"] ELSE None
  <2>1. PICK x : /\ Saving(c) = "context" /\ Permitted(v, p.req) /\ Holds(c, "context", x, "open")
                 /\ x = IF p.req.op = "set" THEN SetVariable(v, p.req) ELSE None
    BY <1>5 DEF LoadContext
  <2>2. v \in Variables
    BY Texts1 DEF Rules, Readable, Saved, Files, Variables
  <2>3. p.req.op = "set" => p.req.who \in Profiles /\ p.req.private \in BOOLEAN
    BY <1>2, RequestFields
  <2>4. x \in Variables
    <3>1. CASE p.req.op # "set"
      BY <2>1, <3>1 DEF Variables
    <3>2. CASE p.req.op = "set" /\ v = None
      <4>1. x = [version |-> 1, by |-> p.req.who, private |-> p.req.private \/ FALSE]
        BY <2>1, <3>2 DEF SetVariable
      <4>2. (p.req.private \/ FALSE) \in BOOLEAN
        OBVIOUS
      <4> QED  BY <2>3, <3>2, <4>1, <4>2 DEF Variables
    <3>3. CASE p.req.op = "set" /\ v # None
      <4>1. x = [version |-> v.version + 1, by |-> p.req.who, private |-> p.req.private \/ v.private]
        BY <2>1, <3>3 DEF SetVariable
      <4>2. v.version + 1 \in Nat \ {0}
        BY <2>2, <3>3 DEF Variables
      <4>3. (p.req.private \/ v.private) \in BOOLEAN
        OBVIOUS
      <4> QED  BY <2>3, <3>3, <4>1, <4>2, <4>3 DEF Variables
    <3> QED  BY <3>1, <3>2, <3>3
  <2>5. x \in Saved("context", limitless)
    BY <2>4, Texts1 DEF Saved
  <2>6. Loaded(c, "context", x, "open")
    BY <1>1, <2>1, <2>5 DEF Loaded, Files
  <2> QED  BY <2>6
<1> QED  BY <1>3, <1>4, <1>5 DEF Load

Loads(c) == LoadManifest(c) \/ LoadWorkspace(c) \/ Load(c)

LEMMA LoadsLead ==
    ASSUME Counters, Rules, Processes, NEW c \in Ids, Loads(c)
    PROVE  (Fails(c) /\ Still) \/ \E f, x, pc : Loaded(c, f, x, pc)
  BY ManifestLeads, WorkspaceLeads, LoadLeads DEF Loads

\* The process that has loaded a file.
LEMMA HoldOK ==
    ASSUME Counters, Processes, NEW c \in Ids, NEW f, NEW x, NEW pc, Loaded(c, f, x, pc)
    PROVE  /\ ProcOK(cmds'[c], limitless')
           /\ cmds' = [cmds EXCEPT ![c] = cmds'[c]]
           /\ \A d \in Ids : d # c => cmds'[d] = cmds[d]
           /\ cmds'[c].todo = cmds[c].todo /\ cmds'[c].req = cmds[c].req /\ cmds'[c].pc = pc
           /\ cmds'[c].copy[f] = x /\ \A g \in Files : g # f => cmds'[c].copy[g] = cmds[c].copy[g]
<1> DEFINE p == cmds[c]
<1>1. /\ p # None /\ ProcOK(p, limitless) /\ cmds \in [Ids -> {None} \cup Procs]
      /\ limitless \in BOOLEAN /\ limitless' \in BOOLEAN /\ (limitless => limitless')
      /\ f \in Files /\ x \in Saved(f, limitless') /\ pc \in {"read", "open"} /\ p.pc \in {"load", "read"}
  BY DEF Loaded, Running, Processes, Counters
<1>2. PICK q : q = Held(p, f, x, pc) /\ cmds' = [cmds EXCEPT ![c] = q]
  BY DEF Loaded, Holds, Held
<1>3. cmds'[c] = q /\ \A d \in Ids : d # c => cmds'[d] = cmds[d]
  BY <1>1, <1>2
<1>4. x \in Texts /\ p \in Procs /\ Follows(p) /\ p.fd = None
  BY <1>1, NoAccident DEF ProcOK
<1> HIDE DEF p
<1>5. /\ q \in Procs /\ Follows(q) /\ q.fd = None
      /\ q.todo = p.todo /\ q.req = p.req /\ q.pc = pc
      /\ q.copy[f] = x /\ \A g \in Files : g # f => q.copy[g] = p.copy[g]
  BY <1>1, <1>2, <1>4, HoldFacts
<1>6. Ready(p, limitless')
  BY <1>1, Weaken DEF ProcOK
<1>7. Ready(q, limitless')
  <2>1. CASE p.pc = "load"
    <3>1. f = Saving(c) /\ f = Head(q.todo) /\ (f = "manifest" <=> pc = "read")
      BY <1>5, <2>1 DEF Loaded, Saving, p
    <3> QED  BY <1>1, <1>5, <3>1 DEF Ready
  <2>2. CASE p.pc = "read"
    <3>1. f = "state" /\ pc = "open" /\ Head(q.todo) = "manifest" /\ p.copy["manifest"] \in Saved("manifest", limitless')
      BY <1>5, <1>6, <2>2 DEF Loaded, Ready, p
    <3>2. q.copy["manifest"] = p.copy["manifest"] /\ q.copy["state"] = x
      BY <1>5, <3>1 DEF Files
    <3> QED  BY <1>1, <1>5, <3>1, <3>2 DEF Ready
  <2> QED  BY <1>1, <2>1, <2>2
<1>8. ProcOK(q, limitless')
  BY <1>1, <1>5, <1>7 DEF ProcOK
<1> QED  BY <1>2, <1>3, <1>5, <1>8 DEF p

LEMMA CountersStep ==
    ASSUME Counters, Rules, Processes, [Next]_vars
    PROVE  Counters' /\ (limitless => limitless')
<1> USE DEF Counters
<1>1. CASE \E r \in Requests : Start(r)
  <2>1. PICK r \in Requests : Start(r)
    BY <1>1
  <2>2. issued' \in 0..MaxCommands /\ UNCHANGED <<made, noted, sent, limitless>>
    BY <2>1, ConstantsAssumption DEF Start, history
  <2>3. overlap' \in BOOLEAN
    BY <2>1 DEF Start
  <2> QED  BY <2>2, <2>3
<1>2. CASE \E c \in Ids : Loads(c) \/ Crash(c)
  <2>1. PICK c \in Ids : Loads(c) \/ Crash(c)
    BY <1>2
  <2>2. (Fails(c) /\ Still) \/ \E f, x, pc : Loaded(c, f, x, pc)
    BY <2>1, LoadsLead DEF Crash, Still
  <2>3. CASE Fails(c) /\ Still
    BY <2>3 DEF Fails, Still, history
  <2>4. CASE \E f, x, pc : Loaded(c, f, x, pc)
    BY <2>4 DEF Loaded, Holds, history
  <2> QED  BY <2>2, <2>3, <2>4
<1>3. CASE \E c \in Ids : Open(c) \/ Write(c) \/ RenameFails(c)
  BY <1>3 DEF Open, Write, RenameFails, history
<1>4. CASE \E c \in Ids : Rename(c) \/ RemoveTmp(c) \/ OpenFails(c) \/ WriteFails(c)
  <2>1. PICK c \in Ids : Rename(c) \/ RemoveTmp(c) \/ OpenFails(c) \/ WriteFails(c)
    BY <1>4
  <2>2. /\ made' \subseteq made \cup {c} /\ noted' \subseteq noted \cup {c} /\ sent' \subseteq sent \cup {c}
        /\ UNCHANGED <<issued, overlap, limitless>>
    BY <2>1 DEF Rename, RemoveTmp, OpenFails, WriteFails, Reports
  <2> QED  BY <2>2
<1>5. CASE UNCHANGED vars
  BY <1>5 DEF vars, history
<1> QED  BY <1>1, <1>2, <1>3, <1>4, <1>5 DEF Next, Loads

\* A write, whole or not, leaves the text, a part of it or what was there.
LEMMA Written ==
    ASSUME NEW c \in Ids, Write(c) \/ WriteFails(c)
    PROVE  LET f == Saving(c) IN
           \/ \E t : tmp' = [tmp EXCEPT ![f] = t] /\ UNCHANGED file /\ t \in {cmds[c].copy[f], Garbled, tmp[f]}
           \/ \E t : file' = [file EXCEPT ![f] = t] /\ UNCHANGED tmp /\ t \in {cmds[c].copy[f], Garbled, file[f]}
           \/ UNCHANGED <<file, tmp>>
<1> DEFINE f == Saving(c)
<1>1. \A old : Overwrite(old, cmds[c].copy[f]) \subseteq {cmds[c].copy[f], Garbled}
  BY DEF Overwrite
<1>2. CASE Write(c)
  BY <1>1, <1>2 DEF Write, Puts
<1>3. CASE WriteFails(c)
  BY <1>3 DEF WriteFails, Puts
<1> QED  BY <1>2, <1>3

\* Nothing but what processes hold gets into the files.
LEMMA RulesStep ==
    ASSUME Counters, Rules, Processes, [Next]_vars
    PROVE  Rules'
<1>0. SUFFICES /\ file' \in [Files -> {Empty, Garbled} \cup Texts]
               /\ tmp' \in [Files -> {Empty, Garbled, NoFile} \cup Texts]
               /\ \A f \in Files : file'[f] \in {Empty, Garbled} \cup Saved(f, limitless)
               /\ \A f \in Files : tmp'[f] \in {Empty, Garbled, NoFile} \cup Saved(f, limitless)
  <2>1. limitless \in BOOLEAN /\ limitless' \in BOOLEAN /\ (limitless => limitless')
    BY CountersStep DEF Counters
  <2>2. \A f \in Files : Saved(f, limitless) \subseteq Saved(f, limitless')
    BY <2>1, Weaken
  <2> QED  BY <2>2 DEF Rules
<1>1. CASE UNCHANGED <<file, tmp>>
  BY <1>1 DEF Rules
<1>2. ASSUME NEW c \in Ids, At(c, "open") \/ At(c, "write") \/ At(c, "rename") \/ At(c, "remove")
      PROVE  LET f == Saving(c) IN f \in Files /\ cmds[c].copy[f] \in Saved(f, limitless) /\ cmds[c].copy[f] \in Texts
  <2>1. ProcOK(cmds[c], limitless) /\ cmds[c].pc # "load"
    BY <1>2 DEF At, Running, Processes
  <2>2. Saving(c) \in Files /\ cmds[c].copy[Saving(c)] \in Saved(Saving(c), limitless)
    BY <2>1, FollowsFacts DEF ProcOK, Ready, Saving
  <2> QED  BY <2>2, NoAccident
<1>3. CASE \E c \in Ids : Open(c)
  BY <1>2, <1>3 DEF Open, Rules
<1>4. CASE \E c \in Ids : Write(c) \/ WriteFails(c)
  <2>1. PICK c \in Ids : Write(c) \/ WriteFails(c)
    BY <1>4
  <2> DEFINE f == Saving(c)  x == cmds[c].copy[f]
  <2>2. f \in Files /\ x \in Saved(f, limitless) /\ x \in Texts
    BY <1>2, <2>1 DEF Write, WriteFails
  <2>3. \/ \E t : tmp' = [tmp EXCEPT ![f] = t] /\ UNCHANGED file /\ t \in {x, Garbled, tmp[f]}
        \/ \E t : file' = [file EXCEPT ![f] = t] /\ UNCHANGED tmp /\ t \in {x, Garbled, file[f]}
        \/ UNCHANGED <<file, tmp>>
    BY <2>1, Written
  <2> HIDE DEF f, x
  <2> QED  BY <2>2, <2>3 DEF Rules
<1>5. CASE \E c \in Ids : Rename(c)
  BY <1>2, <1>5 DEF Rename, Rules
<1>6. CASE \E c \in Ids : RemoveTmp(c)
  BY <1>2, <1>6 DEF RemoveTmp, Rules
<1> QED  BY <1>1, <1>3, <1>4, <1>5, <1>6
         DEF Next, Start, LoadManifest, LoadWorkspace, Load, OpenFails, RenameFails, Crash, vars

\* How a step changes its process.
LEMMA Becomes ==
    ASSUME Processes, NEW c \in Ids, c \in Running
    PROVE  /\ Open(c) => cmds' = [cmds EXCEPT ![c] = [cmds[c] EXCEPT !.fd = "tmp", !.pc = "write"]]
           /\ Write(c) => cmds' = [cmds EXCEPT ![c] = [cmds[c] EXCEPT !.fd = None, !.pc = "rename"]]
           /\ RenameFails(c) => cmds' = [cmds EXCEPT ![c] = [cmds[c] EXCEPT !.pc = "remove"]]
  BY DEF Processes, ProcOK, Procs, Running, Open, Write, RenameFails

LEMMA ProcessesStep ==
    ASSUME Counters, Rules, Processes, [Next]_vars
    PROVE  Processes'
<1>0. /\ \A p, free : ProcOK(p, free) => p \in Procs
      /\ \A p : ProcOK(p, limitless) => ProcOK(p, limitless')
  <2>1. limitless \in BOOLEAN /\ limitless' \in BOOLEAN /\ (limitless => limitless')
    BY CountersStep DEF Counters
  <2>2. \A p : ProcOK(p, limitless) => ProcOK(p, limitless')
    BY <2>1, Weaken
  <2> QED  BY <2>2 DEF ProcOK
<1> USE DEF Processes
<1>1. CASE \E r \in Requests : Start(r)
  <2>1. PICK r \in Requests : Start(r)
    BY <1>1
  <2>2. issued + 1 \in Ids
    BY <2>1, ConstantsAssumption DEF Start, Ids, Counters
  <2>3. PICK p : ProcOK(p, limitless) /\ cmds' = [cmds EXCEPT ![issued + 1] = p]
    BY <2>1, StartOK DEF Start
  <2> QED  BY <1>0, <2>2, <2>3
<1>2. CASE \E c \in Ids : Loads(c)
  <2>1. PICK c \in Ids : Loads(c)
    BY <1>2
  <2>2. CASE Fails(c)
    BY <1>0, <2>2 DEF Fails, Ends
  <2>3. CASE \E f, x, pc : Loaded(c, f, x, pc)
    <3>1. ProcOK(cmds'[c], limitless') /\ cmds' = [cmds EXCEPT ![c] = cmds'[c]]
          /\ \A d \in Ids : d # c => cmds'[d] = cmds[d]
      BY <2>3, HoldOK
    <3> QED  BY <1>0, <3>1
  <2> QED  BY <2>1, <2>2, <2>3, LoadsLead
<1>3. CASE \E c \in Ids : Open(c) \/ Write(c) \/ RenameFails(c)
  <2>1. PICK c \in Ids : Open(c) \/ Write(c) \/ RenameFails(c)
    BY <1>3
  <2>2. c \in Running /\ ProcOK(cmds[c], limitless)
    BY <2>1 DEF Open, Write, RenameFails, At, Running
  <2>3. CASE Open(c)
    <3>1. ProcOK([cmds[c] EXCEPT !.fd = "tmp", !.pc = "write"], limitless)
      BY <2>2, <2>3, OpenOK DEF Open, At
    <3>2. cmds' = [cmds EXCEPT ![c] = [cmds[c] EXCEPT !.fd = "tmp", !.pc = "write"]]
      BY <2>2, <2>3, Becomes
    <3> QED  BY <1>0, <3>1, <3>2
  <2>4. CASE Write(c)
    <3>1. ProcOK([cmds[c] EXCEPT !.fd = None, !.pc = "rename"], limitless)
      BY <2>2, <2>4, WriteOK DEF Write, At
    <3>2. cmds' = [cmds EXCEPT ![c] = [cmds[c] EXCEPT !.fd = None, !.pc = "rename"]]
      BY <2>2, <2>4, Becomes
    <3> QED  BY <1>0, <3>1, <3>2
  <2>5. CASE RenameFails(c)
    <3>1. ProcOK([cmds[c] EXCEPT !.pc = "remove"], limitless)
      BY <2>2, <2>5, FailOK DEF RenameFails, At
    <3>2. cmds' = [cmds EXCEPT ![c] = [cmds[c] EXCEPT !.pc = "remove"]]
      BY <2>2, <2>5, Becomes
    <3> QED  BY <1>0, <3>1, <3>2
  <2> QED  BY <2>1, <2>3, <2>4, <2>5
<1>4. CASE \E c \in Ids : Rename(c) \/ RemoveTmp(c)
  <2>1. PICK c \in Ids : Rename(c) \/ RemoveTmp(c)
    BY <1>4
  <2>2. \A d \in Ids : d # c => cmds'[d] \in {Renamed(cmds[d], Saving(c)), Removed(cmds[d], Saving(c))}
    BY <2>1 DEF Rename, RemoveTmp
  <2>3. \A d \in Ids : d # c => cmds'[d] = None \/ ProcOK(cmds'[d], limitless)
    BY <2>2, MovedOK
  <2>4. cmds'[c] = None \/ ProcOK(cmds'[c], limitless)
    BY <2>1, NextOK DEF Rename, RemoveTmp, At, Running
  <2>5. cmds' = [d \in Ids |-> cmds'[d]]
    BY <2>1 DEF Rename, RemoveTmp
  <2> QED  BY <1>0, <2>3, <2>4, <2>5
<1>5. CASE \E c \in Ids : Crash(c) \/ OpenFails(c) \/ WriteFails(c)
  BY <1>0, <1>5 DEF Crash, OpenFails, WriteFails, Fails, Ends
<1>6. CASE UNCHANGED vars
  BY <1>6 DEF vars
<1> QED  BY <1>1, <1>2, <1>3, <1>4, <1>5, <1>6 DEF Next, Loads

\* A command that runs alone, step by step.
LEMMA AloneStep ==
    ASSUME Counters, Rules, Processes, AloneOK, [Next]_vars
    PROVE  AloneOK'
<1> SUFFICES ASSUME ~overlap'
             PROVE  /\ ~limitless'
                    /\ \A c, d \in Running' : c = d
                    /\ \A f \in Files : file'[f] \in Saved(f, FALSE)
                    /\ sent' \subseteq file'["tasks"] /\ noted' \cup {0} \subseteq file'["audit"]
                    /\ \A c \in Running' : Solo(c)'
  BY DEF AloneOK
<1>0. ~overlap
  BY DEF Next, Start, LoadManifest, LoadWorkspace, Load, Open, OpenFails, Write, WriteFails,
         Rename, RenameFails, RemoveTmp, Crash, vars
<1>1. /\ ~limitless /\ limitless = FALSE
      /\ \A c, d \in Running : c = d
      /\ \A f \in Files : file[f] \in Saved(f, FALSE)
      /\ sent \subseteq file["tasks"] /\ noted \cup {0} \subseteq file["audit"]
      /\ \A c \in Running : Solo(c)
  BY <1>0 DEF AloneOK, Counters
<1>2. CASE \E r \in Requests : Start(r)
  <2>1. PICK r \in Requests : Start(r)
    BY <1>2
  <2> DEFINE n == issued + 1
             p == [req |-> r, todo |-> Saves(r.op), pc |-> "load", copy |-> NoCopies, fd |-> None]
  <2>2. Running = {} /\ n \in Ids /\ UNCHANGED <<file, tmp, noted, sent, limitless>>
    <3>1. Running = {} /\ UNCHANGED <<file, tmp, noted, sent, limitless>>
      BY <2>1 DEF Start, history
    <3>2. n \in Ids
      BY <2>1, ConstantsAssumption DEF Start, Ids, Counters
    <3> QED  BY <3>1, <3>2
  <2>3. cmds' = [cmds EXCEPT ![n] = p]
    BY <2>1 DEF Start
  <2>4. p.pc = "load" /\ (p.req.op = "send" => p.todo # <<"audit">>)
    BY SavesFacts, TodoFacts
  <2> HIDE DEF n, p
  <2>5. Running' \subseteq {n} /\ cmds'[n] = p
    BY <2>2, <2>3 DEF Running, Processes
  <2> QED  BY <1>1, <2>2, <2>4, <2>5 DEF Solo
<1>3. ASSUME NEW c \in Ids, c \in Running, \A d \in Ids : d # c /\ cmds[d] = None => cmds'[d] = None
      PROVE  /\ Running' \subseteq {c} /\ Solo(c) /\ ProcOK(cmds[c], FALSE)
             /\ cmds[c] \in Procs /\ Follows(cmds[c])
             /\ Saving(c) = Head(cmds[c].todo) /\ Saving(c) \in Files
  BY <1>1, <1>3, FollowsFacts DEF Running, Processes, Saving, ProcOK
<1>4. CASE \E c \in Ids : Fails(c) /\ Still /\ c \in Running
  <2>1. PICK c \in Ids : Fails(c) /\ Still /\ c \in Running
    BY <1>4
  <2>2. cmds' = [cmds EXCEPT ![c] = None] /\ UNCHANGED <<file, tmp, noted, sent, limitless>>
    BY <2>1 DEF Still, Fails, Ends, history
  <2>3. Running' = {}
    BY <1>1, <2>1, <2>2 DEF Running, Processes
  <2> QED  BY <1>1, <2>2, <2>3
<1>5. CASE \E c \in Ids : \E f, x, pc : Loaded(c, f, x, pc)
  <2>0. PICK c \in Ids : \E f, x, pc : Loaded(c, f, x, pc)
    BY <1>5
  <2>1. PICK f, x, pc : Loaded(c, f, x, pc)
    BY <2>0
  <2>2. c \in Running /\ cmds[c].pc \in {"load", "read"} /\ UNCHANGED <<file, tmp, noted, sent>>
    BY <2>1 DEF Loaded, Holds, history
  <2>3. limitless' = limitless
    BY <1>1, <2>1 DEF Loaded, Files
  <2>4. /\ \A d \in Ids : d # c => cmds'[d] = cmds[d]
        /\ cmds'[c].todo = cmds[c].todo /\ cmds'[c].req = cmds[c].req /\ cmds'[c].pc = pc /\ cmds'[c].copy[f] = x
    BY <2>1, HoldOK
  <2>5. /\ Running' \subseteq {c} /\ Solo(c) /\ ProcOK(cmds[c], FALSE)
        /\ Saving(c) = Head(cmds[c].todo) /\ Saving(c) \in Files
    BY <1>3, <2>2, <2>4
  <2>6. pc \in {"read", "open"} /\ (Saving(c) \in {"tasks", "audit"} => f = Saving(c) /\ x = file[f] \cup {c})
    <3>1. CASE Saving(c) \in {"tasks", "audit"}
      <4>1. cmds[c].pc # "read"
        BY <2>5, <3>1 DEF ProcOK, Ready
      <4>2. f = Saving(c) /\ pc = "open" /\ x = (IF Readable(f) THEN file[f] ELSE {}) \cup {c}
        BY <2>1, <3>1, <4>1 DEF Loaded
      <4>3. Readable(f)
        BY <1>1, <2>5, <4>2, NoAccident DEF Readable
      <4> QED  BY <4>2, <4>3
    <3>2. CASE Saving(c) \notin {"tasks", "audit"}
      BY <2>1, <3>2 DEF Loaded
    <3> QED  BY <3>1, <3>2
  <2>7. Solo(c)'
    BY <2>2, <2>4, <2>5, <2>6 DEF Solo, Saving
  <2> QED  BY <1>1, <2>2, <2>3, <2>5, <2>7
<1>6. CASE \E c \in Ids : Open(c)
  <2>1. PICK c \in Ids : Open(c)
    BY <1>6
  <2> DEFINE q == [cmds[c] EXCEPT !.fd = "tmp", !.pc = "write"]
  <2>2. c \in Running /\ cmds[c].pc = "open" /\ tmp' = [tmp EXCEPT ![Saving(c)] = Empty]
        /\ UNCHANGED <<file, noted, sent, limitless>>
    BY <2>1 DEF Open, At, history
  <2>3. cmds'[c] = q /\ \A d \in Ids : d # c => cmds'[d] = cmds[d]
    BY <2>1, <2>2, Becomes DEF Processes
  <2>4. /\ Running' \subseteq {c} /\ Solo(c) /\ ProcOK(cmds[c], FALSE)
        /\ Saving(c) = Head(cmds[c].todo) /\ Saving(c) \in Files
    BY <1>3, <2>2, <2>3
  <2>5. q.todo = cmds[c].todo /\ q.req = cmds[c].req /\ q.pc = "write" /\ q.copy = cmds[c].copy /\ q.fd = "tmp"
    BY <2>2, <2>4, OpenOK
  <2> HIDE DEF q
  <2>6. tmp'[Saving(c)] = Empty
    BY <2>2, <2>4 DEF Rules
  <2>7. Solo(c)'
    BY <2>2, <2>3, <2>4, <2>5, <2>6 DEF Solo, Saving
  <2> QED  BY <1>1, <2>2, <2>4, <2>7
<1>7. CASE \E c \in Ids : Write(c)
  <2>1. PICK c \in Ids : Write(c)
    BY <1>7
  <2> DEFINE q == [cmds[c] EXCEPT !.fd = None, !.pc = "rename"]
  <2>2. c \in Running /\ cmds[c].pc = "write" /\ UNCHANGED <<noted, sent, limitless>>
    BY <2>1 DEF Write, At, history
  <2>3. cmds'[c] = q /\ \A d \in Ids : d # c => cmds'[d] = cmds[d]
    BY <2>1, <2>2, Becomes DEF Processes
  <2>4. /\ Running' \subseteq {c} /\ Solo(c) /\ ProcOK(cmds[c], FALSE)
        /\ Saving(c) = Head(cmds[c].todo) /\ Saving(c) \in Files
    BY <1>3, <2>2, <2>3
  <2>5. q.todo = cmds[c].todo /\ q.req = cmds[c].req /\ q.pc = "rename" /\ q.copy = cmds[c].copy
    BY <2>2, <2>4, WriteOK
  <2> HIDE DEF q
  <2>6. cmds[c].fd = "tmp" /\ tmp[Saving(c)] = Empty
    BY <2>2, <2>4 DEF Solo
  <2>7. tmp' = [tmp EXCEPT ![Saving(c)] = cmds[c].copy[Saving(c)]] /\ UNCHANGED file
    BY <2>1, <2>6 DEF Write, Puts, Overwrite
  <2>8. tmp'[Saving(c)] = cmds[c].copy[Saving(c)]
    BY <2>4, <2>7 DEF Rules
  <2>9. Solo(c)'
    BY <2>2, <2>3, <2>4, <2>5, <2>7, <2>8 DEF Solo, Saving
  <2> QED  BY <1>1, <2>2, <2>4, <2>7, <2>9
<1>8. CASE \E c \in Ids : OpenFails(c) \/ WriteFails(c)
  <2>1. PICK c \in Ids : OpenFails(c) \/ WriteFails(c)
    BY <1>8
  <2>2. /\ c \in Running /\ cmds[c].pc \in {"open", "write"} /\ UNCHANGED <<noted, limitless>>
        /\ cmds' = [cmds EXCEPT ![c] = None] /\ Reports(c, Saving(c) = "audit")
    BY <2>1 DEF OpenFails, WriteFails, At, Ends
  <2>3. Running' = {}
    BY <1>1, <2>2 DEF Running, Processes
  <2>4. /\ Solo(c) /\ cmds[c] \in Procs /\ Follows(cmds[c]) /\ Saving(c) = Head(cmds[c].todo)
    <3>1. \A d \in Ids : d # c /\ cmds[d] = None => cmds'[d] = None
      BY <2>2 DEF Processes
    <3> QED  BY <1>3, <2>2, <3>1
  <2>5. UNCHANGED file
    <3>1. CASE OpenFails(c)
      BY <3>1 DEF OpenFails
    <3>2. CASE WriteFails(c)
      <4>1. cmds[c].fd = "tmp"
        BY <2>4, <3>2 DEF Solo, WriteFails, At
      <4> QED  BY <3>2, <4>1 DEF WriteFails, Puts
    <3> QED  BY <2>1, <3>1, <3>2
  <2>6. sent' = sent \/ (sent' = sent \cup {c} /\ c \in file["tasks"])
    <3>1. Saving(c) = "audit" => cmds[c].todo = <<"audit">>
      BY <2>4, FollowsFacts
    <3>2. sent' = sent \/ (sent' = sent \cup {c} /\ Saving(c) = "audit" /\ cmds[c].req.op = "send")
      BY <2>2 DEF Reports
    <3> QED  BY <2>4, <3>1, <3>2 DEF Solo
  <2> QED  BY <1>1, <2>2, <2>3, <2>5, <2>6
<1>9. CASE \E c \in Ids : RenameFails(c) \/ RemoveTmp(c)
  <2>1. PICK c \in Ids : RenameFails(c) \/ RemoveTmp(c)
    BY <1>9
  <2>2. c \in Running /\ Solo(c) /\ ProcOK(cmds[c], FALSE)
    BY <1>1, <2>1 DEF RenameFails, RemoveTmp, At, Running, Processes
  <2>3. cmds[c].pc = "rename" /\ tmp[Saving(c)] = NoFile /\ tmp[Saving(c)] = cmds[c].copy[Saving(c)]
    BY <2>1, <2>2 DEF RenameFails, RemoveTmp, At, Solo
  <2>4. cmds[c].copy[Saving(c)] \in Saved(Saving(c), FALSE) /\ Saving(c) \in Files
    BY <2>2, <2>3, FollowsFacts DEF ProcOK, Ready, Saving
  <2> QED  BY <2>3, <2>4, NoAccident
<1>10. CASE \E c \in Ids : Rename(c)
  <2>1. PICK c \in Ids : Rename(c)
    BY <1>10
  <2> DEFINE f == Saving(c)  p == cmds[c]  op == cmds[c].req.op
  <2>2. c \in Running /\ p.pc = "rename" /\ file' = [file EXCEPT ![f] = tmp[f]]
        /\ cmds'[c] = NextSave(p) /\ Reports(c, Len(p.todo) = 1) /\ UNCHANGED limitless
        /\ noted' = IF f = "audit" THEN noted \cup {c} ELSE noted
    BY <2>1 DEF Rename, At
  <2>3. \A d \in Ids : d # c /\ cmds[d] = None => cmds'[d] = None
    BY <2>1 DEF Rename, Renamed
  <2>4. /\ Running' \subseteq {c} /\ Solo(c) /\ ProcOK(p, FALSE) /\ p \in Procs /\ Follows(p)
        /\ f = Head(p.todo) /\ f \in Files
    BY <1>3, <2>2, <2>3
  <2>5. /\ file'[f] = p.copy[f] /\ p.copy[f] \in Saved(f, FALSE) /\ \A g \in Files : g # f => file'[g] = file[g]
        /\ f \in {"tasks", "audit"} => p.copy[f] = file[f] \cup {c}
        /\ op = "send" /\ p.todo = <<"audit">> => c \in file["tasks"]
    BY <2>2, <2>4 DEF Rules, Solo, ProcOK, Ready
  <2>6. \A g \in Files : file'[g] \in Saved(g, FALSE)
    BY <1>1, <2>5
  <2>7. /\ f = "tasks" => Len(p.todo) = 2
        /\ f = "audit" <=> p.todo = <<"audit">>
        /\ op = "send" => f \in {"tasks", "audit"}
    BY <2>4, FollowsFacts, TodoFacts
  <2> HIDE DEF f, p, op
  <2>8. sent' = sent \/ (sent' = sent \cup {c} /\ op = "send" /\ Len(p.todo) = 1)
    BY <2>2 DEF Reports, op, p
  <2>9. sent' \subseteq file'["tasks"] /\ noted' \cup {0} \subseteq file'["audit"]
    BY <1>1, <2>2, <2>5, <2>7, <2>8 DEF Files
  <2>10. CASE NextSave(p) = None
    <3>1. Running' = {}
      BY <2>2, <2>4, <2>10 DEF Running
    <3> QED  BY <1>1, <2>2, <2>6, <2>9, <3>1
  <2>11. CASE NextSave(p) # None
    <3> DEFINE q == NextSave(p)
    <3>1. /\ Len(p.todo) # 1 /\ q.req = p.req
          /\ \/ q.todo = <<"audit">> /\ q.pc = "load"
             \/ q.pc = "open" /\ Head(q.todo) = "state" /\ Head(p.todo) = "manifest"
      BY <2>2, <2>4, <2>11, NextOK
    <3> HIDE DEF q
    <3>2. op = "send" => f = "tasks" /\ c \in file'["tasks"]
      BY <2>5, <2>7, <3>1, TodoFacts DEF Files
    <3>3. CASE q.todo = <<"audit">> /\ q.pc = "load"
      <4>1. Solo(c)'
        BY <2>2, <3>1, <3>2, <3>3 DEF Solo, op, p, q
      <4> QED  BY <1>1, <2>2, <2>4, <2>6, <2>9, <4>1
    <3>4. CASE q.pc = "open" /\ Head(q.todo) = "state" /\ Head(p.todo) = "manifest"
      <4>1. op # "send"
        BY <2>4, <3>2, <3>4
      <4>2. Solo(c)'
        BY <2>2, <3>1, <3>4, <4>1 DEF Solo, Saving, op, p, q
      <4> QED  BY <1>1, <2>2, <2>4, <2>6, <2>9, <4>2
    <3> QED  BY <3>1, <3>3, <3>4
  <2> QED  BY <2>10, <2>11
<1>11. CASE UNCHANGED vars
  BY <1>1, <1>11 DEF vars, history, Running, Solo, Saving
<1>12. CASE \E c \in Ids : Loads(c) \/ Crash(c)
  <2>1. PICK c \in Ids : Loads(c) \/ Crash(c)
    BY <1>12
  <2>2. c \in Running
    BY <2>1 DEF Loads, LoadManifest, LoadWorkspace, Load, At, Crash
  <2>3. (Fails(c) /\ Still) \/ \E f, x, pc : Loaded(c, f, x, pc)
    BY <2>1, LoadsLead DEF Crash, Still
  <2> QED  BY <1>4, <1>5, <2>2, <2>3
<1> QED  BY <1>2, <1>6, <1>7, <1>8, <1>9, <1>10, <1>11, <1>12 DEF Next, Loads

-----------------------------------------------------------------------------
(* The theorems. *)

LEMMA InitIInv == Init => IInv
<1> SUFFICES ASSUME Init PROVE IInv
  OBVIOUS
<1>1. PICK owners \in (SUBSET Profiles) \ {{}} :
        /\ Cardinality(owners) <= MaxAgents
        /\ file = [f \in Files |->
              CASE f = "manifest" -> MaxAgents
                [] f = "state" -> [state  |-> "active",
                                   agents |-> [p \in Profiles |-> IF p \in owners THEN "owner" ELSE None]]
                [] f = "audit" -> {0} [] f = "tasks" -> {} [] f = "context" -> None]
  BY DEF Init
<1> DEFINE ws == [state |-> "active", agents |-> [p \in Profiles |-> IF p \in owners THEN "owner" ELSE None]]
<1>2. file["manifest"] = MaxAgents /\ file["state"] = ws /\ file["audit"] = {0} /\ file["tasks"] = {} /\ file["context"] = None
  BY <1>1 DEF Files
<1>3. ws \in Workspaces /\ Owners(ws) = owners /\ Members(ws) = owners
  BY ConstantsAssumption DEF Workspaces, Owners, Members, Roles
<1> HIDE DEF ws
<1>4. \A f \in Files : file[f] \in Saved(f, FALSE)
  <2>0. file["manifest"] \in Saved("manifest", FALSE)
    BY <1>2, ConstantsAssumption DEF Saved, Limits
  <2>1. file["state"] \in Saved("state", FALSE)
    <3>1. owners # {}
      OBVIOUS
    <3>2. Cardinality(owners) <= MaxAgents
      BY <1>1
    <3>3. Good(ws, FALSE)
      BY <1>3, <3>1, <3>2 DEF Good
    <3> QED  BY <1>2, <1>3, <3>3 DEF Saved
  <2>2. /\ file["audit"] \in Saved("audit", FALSE) /\ file["tasks"] \in Saved("tasks", FALSE)
        /\ file["context"] \in Saved("context", FALSE)
    BY <1>2, Texts1 DEF Saved, Variables
  <2> QED  BY <2>0, <2>1, <2>2 DEF Files
<1>5. Counters /\ limitless = FALSE
  <2>1. issued \in 0..MaxCommands
    BY ConstantsAssumption DEF Init
  <2> QED  BY <2>1 DEF Init, Counters
<1>6. Rules
  BY <1>1, <1>4, <1>5, NoAccident DEF Init, Rules
<1>7. Processes /\ Running = {}
  BY DEF Init, Processes, Running
<1> QED  BY <1>2, <1>4, <1>5, <1>6, <1>7 DEF Init, IInv, AloneOK

LEMMA NextIInv == IInv /\ [Next]_vars => IInv'
  BY CountersStep, RulesStep, ProcessesStep, AloneStep DEF IInv

\* The invariant holds whatever commands run, overlap, fail and are killed.
THEOREM Invariance == Spec => []IInv
  BY InitIInv, NextIInv, PTL DEF Spec

\* Each file holds what its readers expect or one of the two accidents, and a
\* process that is about to write has a copy for the file it writes.
THEOREM TypeCorrect == Spec => []TypeOK
<1>1. IInv => TypeOK
  <2> SUFFICES ASSUME IInv PROVE TypeOK
    OBVIOUS
  <2>1. \A f \in Files : /\ file[f] \in {Empty, Garbled} \cup Content[f]
                         /\ tmp[f] \in {Empty, Garbled, NoFile} \cup Content[f]
    BY NoAccident DEF IInv, Rules
  <2>2. ASSUME NEW c \in Running
        PROVE  /\ cmds[c].req \in Requests
               /\ cmds[c].pc \in {"load", "read", "open", "write", "rename", "remove"}
               /\ Saving(c) \in Files
               /\ cmds[c].pc # "load" => cmds[c].copy[Saving(c)] \in Content[Saving(c)]
               /\ cmds[c].fd \in {"tmp", "file", "gone", None}
               /\ (cmds[c].fd # None) <=> (cmds[c].pc = "write")
    <3>1. ProcOK(cmds[c], limitless)
      BY DEF IInv, Processes, Running
    <3> QED  BY <3>1, FollowsFacts, NoAccident DEF ProcOK, Ready, Procs, Saving
  <2> QED  BY <2>1, <2>2 DEF IInv, Counters, TypeOK
<1> QED  BY <1>1, Invariance, PTL

\* state.json, whenever it can be read, has an owner, for any number of commands
\* that save it at the same time; and no more agents than MaxAgents until a
\* command has loaded a manifest without a limit.
THEOREM RulesAreKept == Spec => []RulesHold
<1>1. IInv => RulesHold
  BY DEF IInv, Rules, RulesHold, Readable, Saved, Good, Files
<1> QED  BY <1>1, Invariance, PTL

\* Commands that run one at a time lose nothing whose save they were told had
\* succeeded, wherever one of them is killed or fails inside atomicWriteFile.
THEOREM AloneKeeps == Spec => []KeptWhenAlone
<1>1. IInv => KeptWhenAlone
  BY NoAccident DEF IInv, AloneOK, KeptWhenAlone, Readable
<1> QED  BY <1>1, Invariance, PTL

Over(ws) == ws \in {Empty, Garbled, NoFile, None} \/ ws.state = "archived"

\* An archived workspace that no process holds an older text of stays
\* archived: join is refused, and no other command changes the state.
THEOREM ArchiveFinal == Spec => ArchivedIsFinal
<1>1. IInv /\ [Next]_vars => [Settled => Settled']_vars
  <2> SUFFICES ASSUME IInv, Next, Settled PROVE Settled'
    OBVIOUS
  <2>1. Over(file["state"]) /\ Over(tmp["state"]) /\ \A c \in Running : Over(cmds[c].copy["state"])
    BY DEF Settled, Over
  <2>2. SUFFICES Over(file'["state"]) /\ Over(tmp'["state"]) /\ \A c \in Running' : Over(cmds'[c].copy["state"])
    BY DEF Settled, Over
  <2>3. Rules /\ Processes /\ Counters
    BY DEF IInv
  <2>4. Over(None) /\ Over(Empty) /\ Over(Garbled) /\ Over(NoFile)
    BY DEF Over
  <2>5. ASSUME NEW c \in Running PROVE ProcOK(cmds[c], limitless)
    BY <2>3 DEF Running, Processes
  <2>6. CASE \E r \in Requests : Start(r)
    <3>1. PICK r \in Requests : Start(r)
      BY <2>6
    <3>2. \A d \in Ids : cmds'[d] = cmds[d] \/ cmds'[d].copy["state"] = None
      <4>1. PICK p : p.copy["state"] = None /\ cmds' = [cmds EXCEPT ![issued + 1] = p]
        BY <3>1, StartOK DEF Start
      <4> QED  BY <2>3, <4>1 DEF Processes
    <3>3. UNCHANGED <<file, tmp>>
      BY <3>1 DEF Start
    <3> QED  BY <2>1, <2>4, <3>2, <3>3 DEF Running
  <2>7. CASE \E c \in Ids : (Fails(c) /\ Still) \/ OpenFails(c)
    <3>1. /\ UNCHANGED <<file, tmp>>
          /\ \A d \in Ids : cmds'[d] = cmds[d] \/ cmds'[d] = None
      BY <2>3, <2>7 DEF Still, Fails, OpenFails, Ends, Processes
    <3> QED  BY <2>1, <3>1 DEF Running
  <2>8. CASE \E c \in Ids : \E f, x, pc : Loaded(c, f, x, pc)
    <3>0. PICK c \in Ids : \E f, x, pc : Loaded(c, f, x, pc)
      BY <2>8
    <3>1. PICK f, x, pc : Loaded(c, f, x, pc)
      BY <3>0
    <3>2. /\ \A d \in Ids : d # c => cmds'[d] = cmds[d]
          /\ cmds'[c].copy[f] = x /\ \A g \in Files : g # f => cmds'[c].copy[g] = cmds[c].copy[g]
      BY <2>3, <3>1, HoldOK
    <3>3. c \in Running /\ UNCHANGED <<file, tmp>>
      BY <3>1 DEF Loaded
    <3>4. f = "state" => Over(x)
      <4>1. f = "state" => file["state"] \in Saved("state", limitless) /\ (file["state"].state = "archived" => x.state = "archived")
        <5>1. f = "state" => Readable("state") /\ (file["state"].state = "archived" => x.state = "archived")
          BY <3>1 DEF Loaded
        <5> QED  BY <2>3, <5>1 DEF Rules, Readable, Files
      <4>2. f = "state" => file["state"].state = "archived" \/ file["state"] = None
        BY <2>1, <4>1, NoAccident DEF Over, Files
      <4>3. None \notin Saved("state", limitless)
        BY TextsAssumption DEF Saved
      <4> QED  BY <4>1, <4>2, <4>3 DEF Over
    <3>5. Over(cmds'[c].copy["state"])
      BY <2>1, <3>2, <3>3, <3>4 DEF Files
    <3> QED  BY <2>1, <3>2, <3>3, <3>5 DEF Running
  <2>9. CASE \E c \in Ids : Open(c)
    <3>1. PICK c \in Ids : Open(c)
      BY <2>9
    <3>2. tmp'["state"] \in {tmp["state"], Empty} /\ UNCHANGED file
      BY <2>3, <3>1 DEF Open, Rules, Files
    <3>3. \A d \in Ids : d # c => cmds'[d] = cmds[d]
      BY <2>3, <3>1 DEF Open, Processes
    <3>4. c \in Running /\ cmds'[c].copy = cmds[c].copy
      BY <2>3, <2>5, <3>1, Becomes, OpenOK DEF Open, At, Processes
    <3> QED  BY <2>1, <2>4, <3>2, <3>3, <3>4 DEF Running
  <2>10. CASE \E c \in Ids : Write(c) \/ WriteFails(c)
    <3>1. PICK c \in Ids : Write(c) \/ WriteFails(c)
      BY <2>10
    <3>2. c \in Running /\ cmds[c].pc = "write"
      BY <3>1 DEF Write, WriteFails, At
    <3>3. /\ tmp'["state"] \in {tmp["state"], cmds[c].copy["state"], Garbled}
          /\ file'["state"] \in {file["state"], cmds[c].copy["state"], Garbled}
      <4>1. \/ \E t : tmp' = [tmp EXCEPT ![Saving(c)] = t] /\ UNCHANGED file
                       /\ t \in {cmds[c].copy[Saving(c)], Garbled, tmp[Saving(c)]}
            \/ \E t : file' = [file EXCEPT ![Saving(c)] = t] /\ UNCHANGED tmp
                       /\ t \in {cmds[c].copy[Saving(c)], Garbled, file[Saving(c)]}
            \/ UNCHANGED <<file, tmp>>
        BY <3>1, Written
      <4> QED  BY <2>3, <4>1 DEF Rules, Files
    <3>4. \A d \in Ids : d # c => cmds'[d] = cmds[d]
      BY <2>3, <3>1 DEF Write, WriteFails, Ends, Processes
    <3>5. cmds'[c] = None \/ cmds'[c].copy = cmds[c].copy
      <4>1. CASE Write(c)
        BY <2>3, <2>5, <3>2, <4>1, Becomes, WriteOK DEF Processes
      <4>2. CASE WriteFails(c)
        BY <2>3, <4>2 DEF WriteFails, Ends, Processes
      <4> QED  BY <3>1, <4>1, <4>2
    <3> QED  BY <2>1, <2>4, <3>2, <3>3, <3>4, <3>5 DEF Running
  <2>11. CASE \E c \in Ids : Rename(c) \/ RemoveTmp(c)
    <3>1. PICK c \in Ids : Rename(c) \/ RemoveTmp(c)
      BY <2>11
    <3>2. /\ tmp'["state"] \in {tmp["state"], NoFile}
          /\ file'["state"] \in {file["state"], tmp["state"]}
      BY <2>3, <3>1 DEF Rename, RemoveTmp, Rules, Files
    <3>3. \A d \in Ids : d # c => cmds'[d] \in {Renamed(cmds[d], Saving(c)), Removed(cmds[d], Saving(c))}
      BY <3>1 DEF Rename, RemoveTmp
    <3>4. \A d \in Ids : d # c /\ cmds'[d] # None => cmds[d] # None /\ cmds'[d].copy = cmds[d].copy
      BY <2>3, <3>3, MovedOK DEF Processes
    <3>5. c \in Running /\ (cmds'[c] = None \/ cmds'[c].copy["state"] \in {None, cmds[c].copy["state"]})
      <4>1. CASE Rename(c)
        <5>1. c \in Running /\ ProcOK(cmds[c], limitless) /\ cmds[c].pc = "rename" /\ cmds'[c] = NextSave(cmds[c])
          BY <2>5, <4>1 DEF Rename, At
        <5> QED  BY <5>1, NextOK
      <4>2. CASE RemoveTmp(c)
        BY <4>2 DEF RemoveTmp, At
      <4> QED  BY <3>1, <4>1, <4>2
    <3> QED  BY <2>1, <2>4, <3>2, <3>4, <3>5 DEF Running
  <2>12. CASE \E c \in Ids : RenameFails(c)
    <3>1. PICK c \in Ids : RenameFails(c)
      BY <2>12
    <3>2. UNCHANGED <<file, tmp>> /\ \A d \in Ids : d # c => cmds'[d] = cmds[d]
      BY <2>3, <3>1 DEF RenameFails, Processes
    <3>3. c \in Running /\ cmds'[c].copy = cmds[c].copy
      BY <2>3, <2>5, <3>1, Becomes, FailOK DEF RenameFails, At, Processes
    <3> QED  BY <2>1, <3>2, <3>3 DEF Running
  <2>13. CASE \E c \in Ids : Loads(c) \/ Crash(c)
    <3>1. PICK c \in Ids : (Fails(c) /\ Still) \/ \E f, x, pc : Loaded(c, f, x, pc)
      BY <2>3, <2>13, LoadsLead DEF Crash, Still
    <3> QED  BY <2>7, <2>8, <3>1
  <2> QED  BY <2>6, <2>7, <2>9, <2>10, <2>11, <2>12, <2>13 DEF Next, Loads
<1> QED  BY <1>1, Invariance, PTL DEF Spec, ArchivedIsFinal
=============================================================================
