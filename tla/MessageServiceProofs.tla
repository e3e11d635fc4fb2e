------------------------- MODULE MessageServiceProofs -------------------------
(***************************************************************************)
(* What module MessageService promises, for any number of events,          *)
(* deliveries, attempts and crashes and for every configuration: an event  *)
(* is executed once per memory of the replay store, the conversation store *)
(* holds only what was sent and in order, and the two files that are       *)
(* loaded, changed and rewritten without a lock are consistent whenever    *)
(* they can be read.                                                       *)
(***************************************************************************)
EXTENDS MessageService, FiniteSetTheorems, TLAPS

Locations ==
    {"idle", "acknowledge", "ingress", "prior", "inturn", "outturn", "execute",
     "load", "complete", "save", "deliver", "record", "write"}
Statuses  == {"success", "executed", "retry_scheduled", "dead_letter", "failed"}

\* What a handler may have left to note in the service record.
Ends      == {<<>>} \cup {<<Outbound(st)>> : st \in Statuses}
                    \cup {<<Inbound, Outbound(st)>> : st \in Statuses}
Detours   == {<<ThenRoute>>, <<Inbound, ThenRoute>>}

\* Before the handler's first turn, and between its two turns.
Early(r)   == pc[r] \in {"acknowledge", "ingress", "prior", "inturn"} \/ todo[r] \in Detours
Between(r) == pc[r] \in {"execute", "load", "complete", "save", "deliver", "outturn"}

\* The handlers that will still hand their event to its executor.
Pending(e) ==
    {r \in Requests : event[r] = e /\ pc[r] \in {"ingress", "prior", "inturn", "execute", "load"}}

Turn  == [dir : {"inbound", "outbound"}, of : Requests]
Line  == [role : {"user", "assistant"}, of : Requests]

Exchanges(t) ==
    /\ Len(t) % 2 = 0
    /\ \A i \in 1..Len(t) :
         IF i % 2 = 1 THEN t[i].role = "user"
                      ELSE t[i].role = "assistant" /\ t[i].of = t[i - 1].of

Transcripts == {t \in Seq(Line) : Exchanges(t)}

Records ==
    {x \in [status : Statuses \cup {"none"}, health : {"none", "receiving", "healthy", "degraded", "failed"}] :
        x.status # "none" => x.health = HealthOf(x.status)}

Files(data) == {Unreadable} \cup {Content(d) : d \in data}

-----------------------------------------------------------------------------
(* The inductive invariant. *)

Basics ==
    /\ cfg \in Services
    /\ sent \in 0..MaxDeliveries /\ last \in 0..NumEvents
    /\ seen \subseteq Events /\ forgotten \in [Events -> Nat]
    /\ gone \in [Requests -> BOOLEAN] /\ hung \subseteq Requests
    /\ attempt \in [Requests -> 0..MaxAttempts]
    /\ executed \in [Events -> Nat]

\* Where the handlers are and what they have left to do.  A request is handled
\* once: those still to come are idle.
Control ==
    /\ pc \in [Requests -> Locations]
    /\ todo \in [Requests -> Ends \cup Detours]
    /\ event \in [Requests -> Events \cup {0}]
    /\ \A r \in Requests :
         /\ pc[r] \notin {"record", "write"} => todo[r] = <<>>
         /\ pc[r] = "write" => todo[r] # <<>> /\ Head(todo[r]) # ThenRoute
         /\ todo[r] \in Detours => cfg.path = "webhook"
         /\ r > sent => pc[r] = "idle"
         /\ pc[r] # "idle" => event[r] \in Events

\* On the Slack path: executions and the handlers on their way to one are paid
\* for by the memory of the replay store.
Paid ==
    cfg.path = "slack" =>
        \A e \in Events : executed[e] + Cardinality(Pending(e))
                             <= forgotten[e] + (IF e \in seen THEN 1 ELSE 0)

Sent ==
    cfg.path # "webhook" =>
      /\ \A r \in Requests : pc[r] = "outturn" => r \in confirmed
      /\ \A i \in 1..Len(turns) : turns[i].dir = "outbound" => turns[i].of \in confirmed

\* The turns of a request are in the store only after its handler appended them.
Ordered ==
    /\ turns \in Seq(Turn) /\ Len(turns) <= Retention
    /\ \A i \in 1..Len(turns) :
         /\ turns[i].of <= sent
         /\ ~Early(turns[i].of)
         /\ turns[i].dir = "outbound" => ~Between(turns[i].of)
    /\ \A i, j \in 1..Len(turns) :
         turns[i].of = turns[j].of /\ turns[i].dir = "inbound" /\ turns[j].dir = "outbound" => i < j
    /\ prior \in [Requests -> Seq(Turn)]
    /\ \A r \in Requests : \A i \in 1..Len(prior[r]) : prior[r][i].of # r

\* What a handler is about to save is a transcript of exchanges.
Drafts ==
    /\ transcript \in Files(Transcripts)
    /\ draft \in [Requests -> Seq(Line)]
    /\ \A r \in Requests :
         /\ pc[r] = "save" => draft[r] \in Transcripts
         /\ pc[r] = "complete" =>
              \E t \in Transcripts : draft[r] = Append(t, [role |-> "user", of |-> r])

Healthy ==
    /\ file \in Files(Records)
    /\ record \in [Requests -> Records]

IInv == Basics /\ Control /\ Paid /\ Sent /\ Ordered /\ Drafts /\ Healthy

-----------------------------------------------------------------------------
(* The steps of a handler, as far as where it is and what it has left to do. *)

LEMMA Bounds ==
    /\ NumEvents \in Nat \ {0} /\ MaxDeliveries \in Nat \ {0} /\ MaxAttempts \in Nat \ {0}
    /\ PriorTurnLimit \in Nat \ {0} /\ Retention \in Nat \ {0} /\ MaxCrashes \in Nat
  BY MessageBounds

LEMMA Paths ==
    ASSUME Basics
    PROVE  cfg \in Configs /\ cfg.path \in {"slack", "telegram", "webhook"} /\ cfg.reply \in BOOLEAN
  BY MessageBounds DEF Basics, Configs

Moved(r, loc)    == pc' = [pc EXCEPT ![r] = loc] /\ UNCHANGED todo
Turned(r, loc, ch) == pc' = [pc EXCEPT ![r] = loc] /\ todo' = [todo EXCEPT ![r] = ch]
Ended(r)         == \E ch \in Ends : Turned(r, "record", ch)

Replied(r) ==
    \/ Moved(r, "outturn") /\ cfg.path = "webhook"
    \/ Moved(r, "deliver")

LEMMA Endings ==
    /\ <<>> \in Ends
    /\ \A st \in Statuses : <<Outbound(st)>> \in Ends /\ <<Inbound, Outbound(st)>> \in Ends
  BY DEF Ends

LEMMA FinishEnds ==
    ASSUME NEW r \in Requests, NEW ch \in Ends, Finish(r, ch)
    PROVE  Ended(r)
  BY DEF Finish, Ended, Turned, Go

LEMMA NoReplyEnds ==
    ASSUME NEW r \in Requests, NEW st \in {"failed", "success"}, NoReply(r, st)
    PROVE  Ended(r)
<1>1. <<Outbound(st)>> \in Ends /\ <<Inbound, Outbound(IF st = "success" THEN "executed" ELSE st)>> \in Ends
  BY Endings DEF Statuses
<1> QED  BY <1>1, FinishEnds DEF NoReply

LEMMA ReplyEnds ==
    ASSUME NEW r \in Requests, Reply(r)
    PROVE  Replied(r)
  BY DEF Reply, Replied, Moved, Go

LEMMA FailureEnds ==
    ASSUME NEW r \in Requests, ChatFails(r)
    PROVE  Replied(r) \/ Ended(r)
  BY ReplyEnds, NoReplyEnds DEF ChatFails

\* The roads of a handler.
Road(r) ==
    \/ /\ pc[r] \in {"acknowledge", "ingress", "execute", "load", "complete", "save", "deliver", "outturn"}
       /\ Ended(r) /\ UNCHANGED confirmed
    \/ /\ pc[r] = "acknowledge" /\ Moved(r, "ingress") /\ UNCHANGED confirmed
    \/ /\ pc[r] = "ingress" /\ (Moved(r, "prior") \/ Moved(r, "inturn")) /\ UNCHANGED confirmed
    \/ /\ pc[r] = "ingress" /\ cfg.path = "webhook"
       /\ Turned(r, "record", <<Inbound, ThenRoute>>) /\ UNCHANGED confirmed
    \/ /\ pc[r] = "record" /\ todo[r] = <<ThenRoute>>
       /\ Ended(r) \/ Turned(r, "prior", <<>>)
       /\ UNCHANGED confirmed
    \/ /\ pc[r] = "prior" /\ Moved(r, "inturn") /\ UNCHANGED confirmed
    \/ /\ pc[r] = "inturn" /\ (Moved(r, "execute") \/ Moved(r, "load")) /\ UNCHANGED confirmed
    \/ /\ pc[r] \in {"load", "complete"} /\ (Moved(r, "complete") \/ Moved(r, "save")) /\ UNCHANGED confirmed
    \/ /\ pc[r] \in {"execute", "load", "complete", "save", "deliver"} /\ Replied(r) /\ UNCHANGED confirmed
    \/ /\ pc[r] = "deliver" /\ Moved(r, "outturn") /\ confirmed' = confirmed \cup {r}
    \/ /\ pc[r] = "record" /\ todo[r] # <<>> /\ Head(todo[r]) # ThenRoute
       /\ Moved(r, "write") /\ UNCHANGED confirmed
    \/ /\ pc[r] \in {"record", "write"} /\ todo[r] # <<>> /\ Head(todo[r]) # ThenRoute
       /\ Turned(r, "record", Tail(todo[r])) /\ UNCHANGED confirmed
    \/ /\ pc[r] = "record" /\ todo[r] = <<>>
       /\ Turned(r, "idle", <<>>) /\ UNCHANGED confirmed

Same(r) ==
    /\ UNCHANGED <<cfg, sent, last, crashes>>
    /\ UNCHANGED event \/ (pc'[r] = "idle" /\ event' = [event EXCEPT ![r] = 0])

LEMMA HandleRoad ==
    ASSUME Basics, Control, NEW r \in Requests, Handle(r)
    PROVE  Road(r) /\ Same(r)
<1>0. /\ pc \in [Requests -> Locations] /\ todo \in [Requests -> Ends \cup Detours]
      /\ event \in [Requests -> Events \cup {0}]
  BY DEF Control
<1>e. /\ <<>> \in Ends /\ <<Outbound("success")>> \in Ends /\ <<Outbound("failed")>> \in Ends
      /\ <<Outbound("dead_letter")>> \in Ends /\ <<Outbound("retry_scheduled")>> \in Ends
      /\ <<Inbound, Outbound("success")>> \in Ends
  BY Endings DEF Statuses
<1> USE DEF At, platform, handler, chat, service, history, replay
<1>1. CASE Acknowledge(r)
  BY <1>0, <1>1, <1>e, FinishEnds DEF Acknowledge, Road, Same, Moved, Go
<1>2. CASE Ingress(r)
  BY <1>0, <1>2, <1>e, FinishEnds DEF Ingress, Routed, Road, Same, Moved, Go
<1>3. CASE Normalize(r)
  BY <1>0, <1>3, <1>e, FinishEnds DEF Normalize, Road, Same, Turned, Go
<1>4. CASE RouteWebhook(r)
  BY <1>0, <1>4, <1>e, FinishEnds DEF RouteWebhook, Road, Same, Turned, Go
<1>5. CASE ReadPrior(r)
  BY <1>0, <1>5 DEF ReadPrior, Road, Same, Moved, Go
<1>6. CASE RecordInbound(r)
  BY <1>0, <1>6 DEF RecordInbound, Road, Same, Moved, Go
<1>7. CASE RecordOutbound(r)
  <2>1. Ended(r)
    BY <1>7, <1>e, FinishEnds DEF RecordOutbound
  <2> QED  BY <1>7, <2>1 DEF RecordOutbound, Road, Same
<1>8. CASE Execute(r)
  <2>1. Replied(r) \/ Ended(r)
    <3>1. CASE Finish(r, IF cfg.path = "webhook" THEN <<Outbound("failed")>> ELSE <<>>)
      BY <1>e, <3>1, FinishEnds
    <3>2. CASE NoReply(r, "failed")
      BY <3>2, NoReplyEnds
    <3>3. CASE NoReply(r, "success")
      BY <3>3, NoReplyEnds
    <3>4. CASE Reply(r)
      BY <3>4, ReplyEnds
    <3> QED  BY <1>8, <3>1, <3>2, <3>3, <3>4 DEF Execute
  <2> QED  BY <1>8, <2>1 DEF Execute, Road, Same
<1>9. CASE ChatLoad(r)
  BY <1>0, <1>9, FailureEnds DEF ChatLoad, Road, Same, Moved, Go
<1>10. CASE ChatComplete(r)
  BY <1>0, <1>10, FailureEnds DEF ChatComplete, Road, Same, Moved, Go
<1>11. CASE ChatSave(r)
  <2>1. Replied(r) \/ Ended(r)
    BY <1>11, FailureEnds, NoReplyEnds, ReplyEnds DEF ChatSave
  <2> QED  BY <1>11, <2>1 DEF ChatSave, Road, Same
<1>12. CASE Attempt(r)
  <2>1. \/ (Replied(r) \/ Ended(r)) /\ UNCHANGED confirmed
        \/ Moved(r, "outturn") /\ confirmed' = confirmed \cup {r}
    BY <1>12, <1>e, FinishEnds DEF Attempt, Retry, Replied, Moved, Go
  <2> QED  BY <1>12, <2>1 DEF Attempt, Road, Same
<1>13. CASE LoadRecord(r)
  <2>1. Moved(r, "write") \/ Turned(r, "record", Tail(todo[r]))
    <3>1. pc = [pc EXCEPT ![r] = "record"]
      BY <1>0, <1>13 DEF LoadRecord
    <3> QED  BY <1>13, <3>1 DEF LoadRecord, Moved, Turned, Go
  <2> QED  BY <1>13, <2>1 DEF LoadRecord, Road, Same
<1>14. CASE SaveRecord(r)
  <2>1. todo[r] # <<>> /\ Head(todo[r]) # ThenRoute
    BY <1>14 DEF SaveRecord, Control
  <2> QED  BY <1>14, <2>1 DEF SaveRecord, Road, Same, Turned, Go
<1>15. CASE Answer(r)
  <2>1. /\ pc' = [pc EXCEPT ![r] = "idle"] /\ todo' = [todo EXCEPT ![r] = <<>>]
        /\ event' = [event EXCEPT ![r] = 0]
    BY <1>0, <1>15 DEF Answer, Forget
  <2> QED  BY <1>0, <1>15, <2>1 DEF Answer, Road, Same, Turned
<1> QED
  BY <1>1, <1>2, <1>3, <1>4, <1>5, <1>6, <1>7, <1>8, <1>9, <1>10, <1>11, <1>12, <1>13, <1>14, <1>15
     DEF Handle

LEMMA Heads ==
    /\ Inbound # ThenRoute /\ \A st \in Statuses : Outbound(st) # ThenRoute
    /\ \A st \in Statuses : Outbound(st) # Inbound
<1>1. Inbound.kind = "inbound" /\ ThenRoute.kind = "route" /\ \A st \in Statuses : Outbound(st).kind = "outbound"
  BY DEF Inbound, ThenRoute, Outbound
<1> QED  BY <1>1

LEMMA Apart == Ends \cap Detours = {} /\ <<>> \notin Detours
<1>1. <<>> \notin Detours
  BY DEF Detours
<1>2. ASSUME NEW st \in Statuses PROVE <<Outbound(st)>> \notin Detours /\ <<Inbound, Outbound(st)>> \notin Detours
  BY Heads DEF Detours
<1> QED  BY <1>1, <1>2 DEF Ends

LEMMA Rest ==
    ASSUME NEW ch \in Ends \cup Detours, ch # <<>>, Head(ch) # ThenRoute
    PROVE  Tail(ch) \in Ends \cup Detours /\ (Tail(ch) \in Detours <=> ch \in Detours)
<1>1. CASE \E st \in Statuses : ch = <<Outbound(st)>>
  <2>1. Tail(ch) = <<>>
    BY <1>1
  <2>2. ch \in Ends
    BY <1>1 DEF Ends
  <2> QED  BY <2>1, <2>2, Apart, Endings
<1>2. CASE \E st \in Statuses : ch = <<Inbound, Outbound(st)>>
  <2>1. PICK st \in Statuses : ch = <<Inbound, Outbound(st)>>
    BY <1>2
  <2>2. Tail(ch) = <<Outbound(st)>>
    BY <2>1
  <2>3. ch \in Ends
    BY <2>1 DEF Ends
  <2> QED  BY <2>2, <2>3, Apart, Endings
<1>3. CASE ch = <<ThenRoute>>
  BY <1>3
<1>4. CASE ch = <<Inbound, ThenRoute>>
  <2>1. Tail(ch) = <<ThenRoute>>
    BY <1>4
  <2> QED  BY <1>4, <2>1 DEF Detours
<1> QED  BY <1>1, <1>2, <1>3, <1>4 DEF Ends, Detours

Fits(loc, ch) ==
    /\ loc \notin {"record", "write"} => ch = <<>>
    /\ loc = "write" => ch # <<>> /\ Head(ch) # ThenRoute
    /\ ch \in Detours => cfg.path = "webhook"

LEMMA RoadFits ==
    ASSUME Control, NEW r \in Requests, Road(r)
    PROVE  \E loc \in Locations, ch \in Ends \cup Detours : Turned(r, loc, ch) /\ Fits(loc, ch)
<1>1. /\ todo[r] \in Ends \cup Detours /\ todo = [todo EXCEPT ![r] = todo[r]]
      /\ pc[r] \notin {"record", "write"} => todo[r] = <<>>
      /\ todo[r] \in Detours => cfg.path = "webhook"
  BY DEF Control
<1>2. CASE Ended(r)
  <2>1. PICK ch \in Ends : Turned(r, "record", ch)
    BY <1>2 DEF Ended
  <2> QED  BY <2>1, Apart DEF Fits, Locations
<1>3. ASSUME NEW loc \in Locations, Moved(r, loc), pc[r] \notin {"record", "write"}, loc \notin {"record", "write"}
      PROVE  Turned(r, loc, <<>>) /\ Fits(loc, <<>>) /\ <<>> \in Ends
  BY <1>1, <1>3, Apart, Endings DEF Moved, Turned, Fits
<1>4. ASSUME Moved(r, "write"), todo[r] # <<>>, Head(todo[r]) # ThenRoute
      PROVE  Turned(r, "write", todo[r]) /\ Fits("write", todo[r])
  BY <1>1, <1>4 DEF Moved, Turned, Fits
<1>5. ASSUME todo[r] # <<>>, Head(todo[r]) # ThenRoute
      PROVE  Tail(todo[r]) \in Ends \cup Detours /\ Fits("record", Tail(todo[r]))
  BY <1>1, <1>5, Rest DEF Fits
<1>6. Fits("prior", <<>>) /\ Fits("idle", <<>>) /\ (cfg.path = "webhook" => Fits("record", <<Inbound, ThenRoute>>))
  BY Apart DEF Fits
<1>7. /\ <<Inbound, ThenRoute>> \in Detours /\ <<>> \in Ends
  BY Endings DEF Detours
<1>8. {"ingress", "prior", "inturn", "execute", "load", "complete", "save", "deliver", "outturn", "idle", "record", "write"}
        \subseteq Locations
  BY DEF Locations
<1>9. CASE \E loc \in {"ingress", "prior", "inturn", "execute", "load", "complete", "save", "deliver", "outturn"} :
              Moved(r, loc) /\ pc[r] \notin {"record", "write"}
  BY <1>3, <1>7, <1>8, <1>9
<1>10. CASE Moved(r, "write") /\ todo[r] # <<>> /\ Head(todo[r]) # ThenRoute
  BY <1>1, <1>4, <1>8, <1>10
<1>11. CASE Turned(r, "record", Tail(todo[r])) /\ todo[r] # <<>> /\ Head(todo[r]) # ThenRoute
  BY <1>5, <1>8, <1>11
<1>12. CASE \/ Turned(r, "record", <<Inbound, ThenRoute>>) /\ cfg.path = "webhook"
            \/ Turned(r, "prior", <<>>) \/ Turned(r, "idle", <<>>)
  BY <1>6, <1>7, <1>8, <1>12
<1> QED  BY <1>2, <1>9, <1>10, <1>11, <1>12 DEF Road, Replied

LEMMA ControlStep ==
    ASSUME Basics, Control, [Next]_vars
    PROVE  Control'
<1> USE DEF At, platform, handler, chat, service, history, replay
<1>1. ASSUME NEW e \in Events, Receive(e)
      PROVE  Control'
  <2>1. /\ sent + 1 \in Requests /\ sent' = sent + 1 /\ sent \in Nat /\ UNCHANGED <<cfg, todo>>
        /\ event' = [event EXCEPT ![sent + 1] = e]
        /\ pc' = pc \/ \E loc \in {"acknowledge", "ingress"} : pc' = [pc EXCEPT ![sent + 1] = loc]
    BY <1>1, Bounds DEF Receive, Go, Requests, Basics
  <2>2. pc[sent + 1] = "idle" /\ todo[sent + 1] = <<>> /\ Requests \subseteq Nat
    BY <2>1 DEF Control, Requests
  <2> QED  BY <2>1, <2>2, Apart DEF Control, Locations
<1>2. ASSUME NEW r \in Requests, Handle(r)
      PROVE  Control'
  <2>1. Road(r) /\ Same(r)
    BY <1>2, HandleRoad
  <2>2. /\ pc \in [Requests -> Locations] /\ todo \in [Requests -> Ends \cup Detours]
        /\ pc'[r] \in Locations /\ todo'[r] \in Ends \cup Detours
        /\ pc' = [pc EXCEPT ![r] = pc'[r]] /\ todo' = [todo EXCEPT ![r] = todo'[r]]
        /\ pc'[r] \notin {"record", "write"} => todo'[r] = <<>>
        /\ pc'[r] = "write" => todo'[r] # <<>> /\ Head(todo'[r]) # ThenRoute
        /\ todo'[r] \in Detours => cfg.path = "webhook"
        /\ pc[r] # "idle"
    <3>1. PICK loc \in Locations, ch \in Ends \cup Detours : Turned(r, loc, ch) /\ Fits(loc, ch)
      BY <2>1, RoadFits
    <3>2. pc \in [Requests -> Locations] /\ todo \in [Requests -> Ends \cup Detours] /\ pc[r] # "idle"
      BY <2>1 DEF Control, Road
    <3> QED  BY <3>1, <3>2 DEF Turned, Fits
  <2>3. /\ event' \in [Requests -> Events \cup {0}] /\ UNCHANGED <<cfg, sent>>
        /\ pc'[r] # "idle" => event'[r] \in Events
        /\ \A q \in Requests \ {r} : event'[q] = event[q] /\ pc'[q] = pc[q] /\ todo'[q] = todo[q]
        /\ ~(r > sent)
    BY <2>1, <2>2 DEF Same, Control
  <2>4. pc' \in [Requests -> Locations] /\ todo' \in [Requests -> Ends \cup Detours]
    BY <2>2
  <2>5. ASSUME NEW q \in Requests
        PROVE  /\ pc'[q] \notin {"record", "write"} => todo'[q] = <<>>
               /\ pc'[q] = "write" => todo'[q] # <<>> /\ Head(todo'[q]) # ThenRoute
               /\ todo'[q] \in Detours => cfg'.path = "webhook"
               /\ q > sent' => pc'[q] = "idle"
               /\ pc'[q] # "idle" => event'[q] \in Events
    <3>1. CASE q = r
      BY <2>2, <2>3, <3>1
    <3>2. CASE q # r
      BY <2>3, <3>2 DEF Control
    <3> QED  BY <3>1, <3>2
  <2> QED  BY <2>3, <2>4, <2>5 DEF Control
<1>3. CASE Crash
  <2>1. /\ pc' = [r \in Requests |-> "idle"] /\ todo' = [r \in Requests |-> <<>>]
        /\ event' = [r \in Requests |-> 0]
    BY <1>3 DEF Crash, Forget
  <2> QED  BY <2>1, Endings, Apart DEF Control, Locations
<1>4. CASE \E e \in Events : Expire(e)
  BY <1>4 DEF Expire, Control
<1>5. CASE \E r \in Requests : Disconnect(r) \/ Hang(r)
  BY <1>5 DEF Disconnect, Hang, Control
<1>6. CASE UNCHANGED vars
  BY <1>6 DEF vars, Control
<1> QED  BY <1>1, <1>2, <1>3, <1>4, <1>5, <1>6 DEF Next

-----------------------------------------------------------------------------
(* Basics. *)

LEMMA EndBasics ==
    ASSUME Basics, NEW r \in Requests
    PROVE  /\ \A ch : Finish(r, ch) => gone' \in [Requests -> BOOLEAN]
           /\ \A st : NoReply(r, st) => gone' \in [Requests -> BOOLEAN]
           /\ Reply(r) => gone' \in [Requests -> BOOLEAN]
           /\ ChatFails(r) => gone' \in [Requests -> BOOLEAN]
<1>1. \A ch : Finish(r, ch) => gone' \in [Requests -> BOOLEAN]
  BY DEF Finish, Basics
<1>2. \A st : NoReply(r, st) => gone' \in [Requests -> BOOLEAN]
  BY <1>1 DEF NoReply
<1>3. Reply(r) => gone' \in [Requests -> BOOLEAN]
  BY DEF Reply, Basics
<1> QED  BY <1>1, <1>2, <1>3 DEF ChatFails

LEMMA BasicsStep ==
    ASSUME Basics, Control, [Next]_vars
    PROVE  Basics'
<1> USE DEF At, platform, handler, chat, service, history, replay
<1>1. CASE \E e \in Events : Receive(e)
  <2>1. sent' \in 0..MaxDeliveries /\ last' \in 0..NumEvents
    BY <1>1, Bounds DEF Receive, Basics, Events
  <2> QED  BY <1>1, <2>1 DEF Receive, Basics
<1>2. CASE \E e \in Events : Expire(e)
  BY <1>2 DEF Expire, Basics
<1>3. CASE \E r \in Requests : Disconnect(r) \/ Hang(r)
  BY <1>3 DEF Disconnect, Hang, Basics
<1>4. ASSUME NEW r \in Requests, Handle(r)
      PROVE  Basics'
  <2> USE DEF Basics
  <2>1. CASE Acknowledge(r)
    <3>1. gone' \in [Requests -> BOOLEAN]
      BY <2>1, EndBasics DEF Acknowledge
    <3>2. event[r] \in Events
      BY <2>1 DEF Acknowledge, Control
    <3>3. PICK known \in BOOLEAN : MarkSeen(event[r], known)
      BY <2>1 DEF Acknowledge
    <3>4. seen' \subseteq Events /\ forgotten' \in [Events -> Nat]
      BY <3>2, <3>3 DEF MarkSeen
    <3> QED  BY <2>1, <3>1, <3>4 DEF Acknowledge
  <2>2. CASE Ingress(r)
    BY <2>2, EndBasics DEF Ingress, Routed
  <2>3. CASE Normalize(r)
    BY <2>3, EndBasics DEF Normalize
  <2>4. CASE RouteWebhook(r)
    BY <2>4, EndBasics DEF RouteWebhook
  <2>5. CASE ReadPrior(r) \/ RecordInbound(r)
    BY <2>5 DEF ReadPrior, RecordInbound
  <2>6. CASE RecordOutbound(r)
    BY <2>6, EndBasics DEF RecordOutbound
  <2>7. CASE Execute(r)
    <3>1. gone' \in [Requests -> BOOLEAN] /\ hung' \subseteq Requests
      BY <2>7, EndBasics DEF Execute, Returns
    <3>2. executed' \in [Events -> Nat]
      <4>1. executed' = [executed EXCEPT ![event[r]] = @ + 1]
        BY <2>7 DEF Execute, Count
      <4>2. event[r] \in Events
        BY <2>7 DEF Execute, Control
      <4> QED  BY <4>1, <4>2
    <3> QED  BY <2>7, <3>1, <3>2 DEF Execute
  <2>8. CASE ChatLoad(r)
    <3>1. gone' \in [Requests -> BOOLEAN]
      BY <2>8, EndBasics DEF ChatLoad
    <3>2. executed' \in [Events -> Nat]
      <4>1. executed' = [executed EXCEPT ![event[r]] = @ + 1]
        BY <2>8 DEF ChatLoad, Count
      <4>2. event[r] \in Events
        BY <2>8 DEF ChatLoad, Control
      <4> QED  BY <4>1, <4>2
    <3> QED  BY <2>8, <3>1, <3>2 DEF ChatLoad
  <2>9. CASE ChatComplete(r)
    BY <2>9, EndBasics DEF ChatComplete, Returns
  <2>10. CASE ChatSave(r)
    BY <2>10, EndBasics DEF ChatSave
  <2>11. CASE Attempt(r)
    <3>1. gone' \in [Requests -> BOOLEAN] /\ hung' \subseteq Requests
      BY <2>11, EndBasics DEF Attempt, Retry, Returns
    <3>2. attempt' \in [Requests -> 0..MaxAttempts]
      BY <2>11, Bounds DEF Attempt, Retry
    <3> QED  BY <2>11, <3>1, <3>2 DEF Attempt
  <2>12. CASE LoadRecord(r) \/ SaveRecord(r)
    BY <2>12 DEF LoadRecord, SaveRecord
  <2>13. CASE Answer(r)
    <3>1. /\ gone' = [q \in Requests |-> IF q \in {r} THEN FALSE ELSE gone[q]]
          /\ attempt' = [q \in Requests |-> IF q \in {r} THEN 1 ELSE attempt[q]]
      BY <2>13 DEF Answer, Forget
    <3>2. gone' \in [Requests -> BOOLEAN]
      BY <3>1
    <3>3. attempt' \in [Requests -> 0..MaxAttempts]
      BY <3>1, Bounds
    <3> QED  BY <2>13, <3>2, <3>3 DEF Answer
  <2> QED
    BY <1>4, <2>1, <2>2, <2>3, <2>4, <2>5, <2>6, <2>7, <2>8, <2>9, <2>10, <2>11, <2>12, <2>13 DEF Handle
<1>5. CASE Crash
  <2>1. gone' \in [Requests -> BOOLEAN] /\ attempt' \in [Requests -> 0..MaxAttempts]
    BY <1>5, Bounds DEF Crash, Forget, Basics
  <2> QED  BY <1>5, <2>1 DEF Crash, Basics
<1>6. CASE UNCHANGED vars
  BY <1>6 DEF vars, Basics
<1> QED  BY <1>1, <1>2, <1>3, <1>4, <1>5, <1>6 DEF Next

-----------------------------------------------------------------------------
(* The replay store pays for every execution. *)

LEMMA RequestsFinite == IsFiniteSet(Requests) /\ Requests \subseteq Nat \ {0}
  BY Bounds, FS_Interval DEF Requests

LEMMA PendingFinite ==
    \A e : IsFiniteSet(Pending(e)) /\ Cardinality(Pending(e)) \in Nat
  BY RequestsFinite, FS_Subset, FS_CardinalityType DEF Pending

LEMMA FewerPending ==
    ASSUME NEW e, Pending(e)' \subseteq Pending(e)
    PROVE  Cardinality(Pending(e)') <= Cardinality(Pending(e)) /\ Cardinality(Pending(e)') \in Nat
  BY PendingFinite, FS_Subset, FS_CardinalityType

\* Only an acknowledgement adds to the handlers that are to execute an event.
LEMMA RoadPending ==
    ASSUME Control, cfg.path = "slack", NEW r \in Requests, Road(r), Same(r), pc[r] # "acknowledge", NEW e \in Events
    PROVE  Pending(e)' \subseteq Pending(e) \ (IF pc'[r] \in {"prior", "inturn", "execute", "load"} THEN {} ELSE {r})
<1>1. /\ pc \in [Requests -> Locations]
      /\ todo[r] # <<ThenRoute>>
  BY DEF Control, Detours
<1>2. /\ pc' = [pc EXCEPT ![r] = pc'[r]]
      /\ pc'[r] # "ingress"
      /\ pc'[r] \in {"prior", "inturn", "execute", "load"} => pc[r] \in {"ingress", "prior", "inturn"}
  BY <1>1 DEF Road, Moved, Turned, Ended, Replied
<1>3. \A q \in Requests : q # r => pc'[q] = pc[q]
  BY <1>1, <1>2
<1>4. \A q \in Requests : q # r => event'[q] = event[q]
  BY DEF Same, Control
<1>5. pc'[r] # "idle" => event'[r] = event[r]
  BY DEF Same
<1> QED  BY <1>2, <1>3, <1>4, <1>5 DEF Pending

LEMMA PaidStep ==
    ASSUME Basics, Control, Paid, [Next]_vars
    PROVE  Paid'
<1> SUFFICES ASSUME cfg'.path = "slack", NEW e \in Events
             PROVE  (executed[e] + Cardinality(Pending(e)) <= forgotten[e] + (IF e \in seen THEN 1 ELSE 0))'
  BY DEF Paid, Events
<1> DEFINE Money == forgotten[e] + (IF e \in seen THEN 1 ELSE 0)
<1> USE DEF At, platform, handler, chat, service, history, replay
<1>0. /\ cfg' = cfg
      /\ executed[e] \in Nat /\ forgotten[e] \in Nat /\ Money \in Nat
  <2>1. cfg' = cfg
    BY HandleRoad DEF Next, vars, Same, Receive, Expire, Disconnect, Hang, Crash
  <2>2. executed[e] \in Nat /\ forgotten[e] \in Nat
    BY DEF Basics
  <2> QED  BY <2>1, <2>2
<1>p. executed[e] + Cardinality(Pending(e)) <= Money /\ cfg.path = "slack"
  BY <1>0 DEF Paid
<1>f. ASSUME Pending(e)' \subseteq Pending(e), executed'[e] = executed[e],
             Money' >= Money, Money' \in Nat
      PROVE  executed'[e] + Cardinality(Pending(e))' <= Money'
  <2>1. Cardinality(Pending(e)') <= Cardinality(Pending(e)) /\ Cardinality(Pending(e)') \in Nat
    BY <1>f, FewerPending
  <2>2. Cardinality(Pending(e)) \in Nat
    BY PendingFinite
  <2> HIDE DEF Money
  <2> QED  BY <1>0, <1>p, <1>f, <2>1, <2>2
<1>1. CASE \E d \in Events : Receive(d)
  <2>1. PICK d \in Events : Receive(d)
    BY <1>1
  <2>2. /\ sent + 1 \in Requests /\ event' = [event EXCEPT ![sent + 1] = d]
        /\ pc' = pc \/ pc' = [pc EXCEPT ![sent + 1] = "acknowledge"]
        /\ UNCHANGED <<executed, seen, forgotten>>
    BY <1>p, <2>1, Bounds DEF Receive, Requests, Go, Basics
  <2>3. pc[sent + 1] = "idle" /\ pc \in [Requests -> Locations] /\ event \in [Requests -> Events \cup {0}]
    BY <2>2, RequestsFinite DEF Control, Basics
  <2>4. Pending(e)' \subseteq Pending(e)
    BY <2>2, <2>3 DEF Pending
  <2> QED  BY <1>0, <1>f, <2>2, <2>4
<1>2. CASE \E d \in Events : Expire(d)
  <2>1. Pending(e)' = Pending(e) /\ executed' = executed
    BY <1>2 DEF Expire, Pending
  <2>2. Money' >= Money /\ Money' \in Nat
    BY <1>2, <1>0 DEF Expire, Basics
  <2> QED  BY <1>f, <2>1, <2>2
<1>3. CASE \E r \in Requests : Disconnect(r) \/ Hang(r)
  <2>1. Pending(e)' = Pending(e) /\ UNCHANGED <<executed, seen, forgotten>>
    BY <1>3 DEF Disconnect, Hang, Pending
  <2> QED  BY <1>0, <1>f, <2>1
<1>4. ASSUME NEW r \in Requests, Handle(r), pc[r] \notin {"acknowledge", "execute", "load"}
      PROVE  (executed[e] + Cardinality(Pending(e)) <= Money)'
  <2>1. Pending(e)' \subseteq Pending(e)
    BY <1>4, <1>p, HandleRoad, RoadPending
  <2>2. UNCHANGED <<executed, seen, forgotten>>
    BY <1>4 DEF Handle, Acknowledge, Ingress, Normalize, RouteWebhook, ReadPrior, RecordInbound, RecordOutbound,
                Execute, ChatLoad, ChatComplete, ChatSave, Attempt, LoadRecord, SaveRecord, Answer
  <2> QED  BY <1>0, <1>f, <2>1, <2>2
<1>5. ASSUME NEW r \in Requests, Handle(r), pc[r] \in {"execute", "load"}
      PROVE  (executed[e] + Cardinality(Pending(e)) <= Money)'
  <2>1. Execute(r) \/ ChatLoad(r)
    BY <1>5 DEF Handle, Acknowledge, Ingress, Normalize, RouteWebhook, ReadPrior, RecordInbound, RecordOutbound,
                ChatComplete, ChatSave, Attempt, LoadRecord, SaveRecord, Answer
  <2>2. UNCHANGED <<seen, forgotten>> /\ executed' = [executed EXCEPT ![event[r]] = @ + 1]
    BY <2>1 DEF Execute, ChatLoad, Count
  <2>3. Road(r) /\ Same(r)
    BY <1>5, HandleRoad
  <2>4. pc'[r] \notin {"prior", "inturn", "execute", "load"} /\ event[r] \in Events
    BY <1>5, <2>3 DEF Road, Moved, Turned, Ended, Replied, Control
  <2>5. Pending(e)' \subseteq Pending(e) \ {r}
    BY <1>5, <1>p, <2>3, <2>4, RoadPending
  <2>6. CASE e # event[r]
    BY <1>0, <1>f, <2>2, <2>4, <2>5, <2>6 DEF Basics
  <2>7. CASE e = event[r]
    <3>1. r \in Pending(e)
      BY <1>5, <2>7 DEF Pending
    <3>2. /\ Cardinality(Pending(e) \ {r}) = Cardinality(Pending(e)) - 1 /\ IsFiniteSet(Pending(e) \ {r})
      BY <3>1, PendingFinite, FS_RemoveElement
    <3>3. Cardinality(Pending(e)') <= Cardinality(Pending(e)) - 1 /\ Cardinality(Pending(e)') \in Nat
      BY <2>5, <3>2, FS_Subset, FS_CardinalityType
    <3>4. executed'[e] = executed[e] + 1 /\ Money' = Money
      BY <2>2, <2>7, <2>4 DEF Basics
    <3> HIDE DEF Money
    <3> QED  BY <1>0, <1>p, <3>3, <3>4, PendingFinite
  <2> QED  BY <2>6, <2>7
<1>6. ASSUME NEW r \in Requests, Acknowledge(r)
      PROVE  (executed[e] + Cardinality(Pending(e)) <= Money)'
  <2>1. PICK known \in BOOLEAN, ignored \in BOOLEAN :
          /\ MarkSeen(event[r], known)
          /\ \/ known \/ ignored
             \/ ~(known \/ ignored) /\ Go(r, "ingress")
          /\ (known \/ ignored) => Go(r, "record")
    BY <1>6 DEF Acknowledge, Finish
  <2>2. UNCHANGED <<executed, event>> /\ event[r] \in Events /\ pc[r] = "acknowledge" /\ pc \in [Requests -> Locations]
    BY <1>6 DEF Acknowledge, Control
  <2>3. Money' \in Nat /\ Money' >= Money
    BY <2>1, <2>2 DEF MarkSeen, Basics
  <2>4. CASE (known \/ ignored) \/ e # event[r]
    <3>1. Pending(e)' \subseteq Pending(e)
      BY <2>1, <2>2, <2>4 DEF Pending, Go
    <3> QED  BY <1>f, <2>2, <2>3, <3>1
  <2>5. CASE ~(known \/ ignored) /\ e = event[r]
    <3>1. Money' = Money + 1
      BY <2>1, <2>2, <2>5 DEF MarkSeen, Basics
    <3>2. Pending(e)' \subseteq Pending(e) \cup {r}
      BY <2>1, <2>2, <2>5 DEF Pending, Go
    <3>3. r \notin Pending(e)
      BY <2>2 DEF Pending
    <3>4. Cardinality(Pending(e) \cup {r}) = Cardinality(Pending(e)) + 1 /\ IsFiniteSet(Pending(e) \cup {r})
      BY <3>3, PendingFinite, FS_AddElement
    <3>5. Cardinality(Pending(e)') <= Cardinality(Pending(e)) + 1 /\ Cardinality(Pending(e)') \in Nat
      BY <3>2, <3>4, FS_Subset, FS_CardinalityType
    <3> HIDE DEF Money
    <3> QED  BY <1>0, <1>p, <2>2, <3>1, <3>5, PendingFinite
  <2> QED  BY <2>4, <2>5
<1>7. CASE Crash
  <2>1. Pending(e)' \subseteq Pending(e) /\ executed' = executed
    BY <1>7 DEF Crash, Forget, Pending
  <2>2. Money' = Money
    BY <1>7, <1>0 DEF Crash, Basics
  <2> QED  BY <1>0, <1>f, <2>1, <2>2
<1>8. CASE UNCHANGED vars
  BY <1>8, <1>p DEF vars, Pending
<1>9. ASSUME NEW r \in Requests, Handle(r), pc[r] = "acknowledge"
      PROVE  Acknowledge(r)
  BY <1>9 DEF Handle, Ingress, Normalize, RouteWebhook, ReadPrior, RecordInbound, RecordOutbound,
                Execute, ChatLoad, ChatComplete, ChatSave, Attempt, LoadRecord, SaveRecord, Answer
<1> QED  BY <1>1, <1>2, <1>3, <1>4, <1>5, <1>6, <1>7, <1>8, <1>9 DEF Next

-----------------------------------------------------------------------------
(* The conversation store. *)

LEMMA NewestIs ==
    ASSUME NEW S, NEW s \in Seq(S), NEW n \in Nat \ {0}
    PROVE  /\ Newest(n, s) \in Seq(S) /\ Len(Newest(n, s)) <= n /\ Len(Newest(n, s)) <= Len(s)
           /\ \A i \in 1..Len(Newest(n, s)) : Newest(n, s)[i] = s[i + (Len(s) - Len(Newest(n, s)))]
<1>1. CASE Len(s) > n
  <2>1. Newest(n, s) = SubSeq(s, Len(s) - n + 1, Len(s))
    BY <1>1 DEF Newest
  <2> QED  BY <1>1, <2>1
<1>2. CASE ~(Len(s) > n)
  <2>1. Newest(n, s) = SubSeq(s, 1, Len(s))
    BY <1>2 DEF Newest
  <2>2. SubSeq(s, 1, Len(s)) = s
    OBVIOUS
  <2>3. Newest(n, s) = s /\ Len(s) \in Nat
    BY <2>1, <2>2
  <2>4. \A i \in 1..Len(s) : i + (Len(s) - Len(s)) = i
    BY <2>3
  <2> QED  BY <1>2, <2>3, <2>4
<1> QED  BY <1>1, <1>2

\* AppendTurn keeps the newest turns, in order, and puts the new one last.
Appended(turn) ==
    /\ turns' \in Seq(Turn) /\ Len(turns') <= Retention
    /\ \E k \in Nat :
         /\ Len(turns') = Len(turns) + 1 - k
         /\ \A i \in 1..Len(turns') :
              \/ i + k \in 1..Len(turns) /\ turns'[i] = turns[i + k]
              \/ i + k = Len(turns) + 1 /\ turns'[i] = turn

LEMMA AppendTurnIs ==
    ASSUME turns \in Seq(Turn), NEW turn \in Turn, AppendTurn(turn)
    PROVE  Appended(turn)
<1> DEFINE s == Append(turns, turn)
<1>1. s \in Seq(Turn) /\ Len(s) = Len(turns) + 1 /\ s[Len(turns) + 1] = turn /\ \A i \in 1..Len(turns) : s[i] = turns[i]
  OBVIOUS
<1>2. turns' = Newest(Retention, s)
  BY DEF AppendTurn
<1> HIDE DEF s
<1>3. /\ turns' \in Seq(Turn) /\ Len(turns') <= Retention /\ Len(turns') <= Len(s)
      /\ \A i \in 1..Len(turns') : turns'[i] = s[i + (Len(s) - Len(turns'))]
  BY <1>1, <1>2, NewestIs, Bounds
<1> DEFINE k == Len(s) - Len(turns')
<1>4. k \in Nat /\ Len(turns') = Len(turns) + 1 - k /\ Len(turns') \in Nat /\ Len(turns) \in Nat
  BY <1>1, <1>3
<1>5. \A i \in 1..Len(turns') : turns'[i] = s[i + k] /\ i + k \in 1..(Len(turns) + 1)
  BY <1>1, <1>3, <1>4
<1> HIDE DEF k
<1>6. ASSUME NEW i \in 1..Len(turns')
      PROVE  \/ i + k \in 1..Len(turns) /\ turns'[i] = turns[i + k]
             \/ i + k = Len(turns) + 1 /\ turns'[i] = turn
  BY <1>1, <1>4, <1>5
<1> QED  BY <1>3, <1>4, <1>6 DEF Appended

\* What a step does to the store.
LEMMA TurnsStep ==
    ASSUME Basics, Control, turns \in Seq(Turn), [Next]_vars
    PROVE  \/ UNCHANGED turns
           \/ \E r \in Requests : RecordInbound(r) /\ Appended([dir |-> "inbound", of |-> r])
           \/ \E r \in Requests : RecordOutbound(r) /\ Appended([dir |-> "outbound", of |-> r])
<1> USE DEF platform, handler, chat, service, history, replay
<1>1. ASSUME NEW r \in Requests, NEW d \in {"inbound", "outbound"}, RecordTurn(r, d)
      PROVE  UNCHANGED turns \/ Appended([dir |-> d, of |-> r])
  BY <1>1, AppendTurnIs DEF RecordTurn, Turn
<1>2. ASSUME NEW r \in Requests, Handle(r)
      PROVE  UNCHANGED turns \/ RecordInbound(r) \/ RecordOutbound(r)
  BY <1>2 DEF Handle, Acknowledge, Ingress, Normalize, RouteWebhook, ReadPrior,
              Execute, ChatLoad, ChatComplete, ChatSave, Attempt, LoadRecord, SaveRecord, Answer
<1>3. ASSUME NEW r \in Requests, RecordInbound(r)
      PROVE  UNCHANGED turns \/ Appended([dir |-> "inbound", of |-> r])
  BY <1>1, <1>3 DEF RecordInbound
<1>4. ASSUME NEW r \in Requests, RecordOutbound(r)
      PROVE  UNCHANGED turns \/ Appended([dir |-> "outbound", of |-> r])
  BY <1>1, <1>4 DEF RecordOutbound
<1> QED  BY <1>2, <1>3, <1>4 DEF Next, Receive, Expire, Disconnect, Hang, Crash, vars

\* Time goes one way for the handler of a request that was delivered.
LEMMA Onwards ==
    ASSUME Basics, Control, [Next]_vars, NEW q \in Requests, q <= sent
    PROVE  /\ q <= sent'
           /\ Early(q)' => Early(q)
           /\ Between(q)' => Early(q) \/ Between(q)
<1> USE DEF At, platform, handler, chat, service, history, replay
<1>0. sent \in Nat /\ q \in Nat \ {0}
  BY RequestsFinite DEF Basics
<1>1. CASE \E e \in Events : Receive(e)
  <2>1. sent' = sent + 1 /\ pc'[q] = pc[q] /\ todo' = todo
    BY <1>0, <1>1 DEF Receive, Go, Control
  <2> QED  BY <1>0, <2>1 DEF Early, Between
<1>2. ASSUME NEW r \in Requests, Handle(r)
      PROVE  /\ sent' = sent
             /\ Early(q)' => Early(q)
             /\ Between(q)' => Early(q) \/ Between(q)
  <2>1. Road(r) /\ Same(r)
    BY <1>2, HandleRoad
  <2>2. pc \in [Requests -> Locations] /\ todo \in [Requests -> Ends \cup Detours]
    BY DEF Control
  <2>3. CASE q # r
    <3>1. pc'[q] = pc[q] /\ todo'[q] = todo[q]
      BY <2>1, <2>2, <2>3 DEF Road, Moved, Turned, Ended, Replied
    <3> QED  BY <2>1, <3>1 DEF Same, Early, Between
  <2>4. CASE q = r
    <3>1. CASE Ended(r)
      <4>1. pc'[r] = "record" /\ todo'[r] \in Ends
        BY <2>2, <3>1 DEF Ended, Turned
      <4> QED  BY <2>1, <2>4, <4>1, Apart DEF Same, Early, Between
    <3>2. ASSUME NEW loc, Moved(r, loc)
          PROVE  pc'[r] = loc /\ todo'[r] = todo[r]
      BY <2>2, <3>2 DEF Moved
    <3>3. ASSUME NEW loc, NEW ch, Turned(r, loc, ch)
          PROVE  pc'[r] = loc /\ todo'[r] = ch
      BY <2>2, <3>3 DEF Turned
    <3>4. todo[r] # <<>> /\ Head(todo[r]) # ThenRoute => (Tail(todo[r]) \in Detours <=> todo[r] \in Detours)
      BY <2>2, Rest
    <3>5. <<ThenRoute>> \in Detours /\ <<>> \notin Detours
      BY Apart DEF Detours
    <3>6. CASE ~Ended(r)
      <4>1. Early(r)' => Early(r)
        BY <2>1, <3>2, <3>3, <3>4, <3>5, <3>6 DEF Road, Replied, Early
      <4>2. Between(r)' => Early(r) \/ Between(r)
        BY <2>1, <3>2, <3>3, <3>6 DEF Road, Replied, Early, Between
      <4> QED  BY <2>1, <2>4, <4>1, <4>2 DEF Same
    <3> QED  BY <3>1, <3>6
  <2> QED  BY <2>3, <2>4
<1>3. CASE Crash
  <2>1. pc'[q] = "idle" /\ todo'[q] = <<>> /\ sent' = sent
    BY <1>3 DEF Crash, Forget
  <2> QED  BY <2>1, Apart DEF Early, Between
<1>4. CASE (\E e \in Events : Expire(e)) \/ (\E r \in Requests : Disconnect(r) \/ Hang(r)) \/ UNCHANGED vars
  <2>1. UNCHANGED <<pc, todo, sent>>
    BY <1>4 DEF Expire, Disconnect, Hang, vars
  <2> QED  BY <2>1 DEF Early, Between
<1> QED  BY <1>1, <1>2, <1>3, <1>4 DEF Next

EarlyOnes   == {q \in Requests : Early(q)}
BetweenOnes == {q \in Requests : Between(q)}

LEMMA OrderedStep ==
    ASSUME Basics, Control, Control', Ordered, [Next]_vars
    PROVE  Ordered'
<1> USE DEF At, platform, handler, chat, service, history, replay
<1>1. turns \in Seq(Turn) /\ Len(turns) \in Nat /\ Len(turns) <= Retention
  BY DEF Ordered
<1>2. ASSUME NEW i \in 1..Len(turns)
      PROVE  /\ turns[i] \in Turn /\ turns[i].of \in Requests /\ turns[i].of <= sent'
             /\ turns[i].of \notin EarlyOnes'
             /\ turns[i].dir = "outbound" => turns[i].of \notin BetweenOnes'
  <2>0. turns[i] \in Turn
    BY <1>1
  <2>1. turns[i] \in Turn /\ turns[i].of \in Requests
    BY <2>0 DEF Turn
  <2>2. turns[i].of <= sent /\ ~Early(turns[i].of) /\ (turns[i].dir = "outbound" => ~Between(turns[i].of))
    BY DEF Ordered
  <2> HIDE DEF At, platform, handler, chat, service, history, replay
  <2>3. /\ turns[i].of <= sent'
        /\ turns[i].of \in EarlyOnes' => Early(turns[i].of)
        /\ turns[i].of \in BetweenOnes' => Early(turns[i].of) \/ Between(turns[i].of)
    <3>1. PICK q \in Requests : q = turns[i].of
      BY <2>1
    <3>2. /\ q <= sent'
          /\ Early(q)' => Early(q)
          /\ Between(q)' => Early(q) \/ Between(q)
      BY <2>2, <3>1, Onwards
    <3> QED  BY <3>1, <3>2 DEF EarlyOnes, BetweenOnes
  <2> QED  BY <2>1, <2>2, <2>3
<1> DEFINE Placed(s) ==
      /\ \A i \in 1..Len(s) : /\ s[i].of <= sent'
                              /\ s[i].of \notin EarlyOnes'
                              /\ s[i].dir = "outbound" => s[i].of \notin BetweenOnes'
      /\ \A i, j \in 1..Len(s) :
           s[i].of = s[j].of /\ s[i].dir = "inbound" /\ s[j].dir = "outbound" => i < j
<1>3. Placed(turns)
  BY <1>2 DEF Ordered
<1>4. ASSUME NEW turn \in Turn, Appended(turn), turn.of <= sent', turn.of \notin EarlyOnes',
             turn.dir = "outbound" => turn.of \notin BetweenOnes',
             turn.dir = "inbound" => \A j \in 1..Len(turns) : turns[j].dir = "outbound" => turns[j].of # turn.of
      PROVE  Placed(turns')
  <2>1. PICK k \in Nat : /\ Len(turns') = Len(turns) + 1 - k
                         /\ \A i \in 1..Len(turns') :
                              \/ i + k \in 1..Len(turns) /\ turns'[i] = turns[i + k]
                              \/ i + k = Len(turns) + 1 /\ turns'[i] = turn
    BY <1>4 DEF Appended
  <2>2. ASSUME NEW i \in 1..Len(turns')
        PROVE  /\ turns'[i].of <= sent'
               /\ turns'[i].of \notin EarlyOnes'
               /\ turns'[i].dir = "outbound" => turns'[i].of \notin BetweenOnes'
    <3>1. CASE i + k \in 1..Len(turns) /\ turns'[i] = turns[i + k]
      BY <1>2, <3>1
    <3>2. CASE turns'[i] = turn
      BY <1>4, <3>2
    <3> QED  BY <2>1, <3>1, <3>2
  <2>3. ASSUME NEW i \in 1..Len(turns'), NEW j \in 1..Len(turns'),
               turns'[i].of = turns'[j].of, turns'[i].dir = "inbound", turns'[j].dir = "outbound"
        PROVE  i < j
    <3>1. i \in Nat /\ j \in Nat /\ Len(turns) \in Nat
      BY <1>1, <1>4 DEF Appended
    <3>2. CASE i + k \in 1..Len(turns) /\ turns'[i] = turns[i + k] /\ j + k \in 1..Len(turns) /\ turns'[j] = turns[j + k]
      <4>1. i + k < j + k
        BY <1>3, <2>3, <3>2
      <4> QED  BY <4>1, <3>1
    <3>3. CASE i + k = Len(turns) + 1 /\ turns'[i] = turn /\ j + k \in 1..Len(turns) /\ turns'[j] = turns[j + k]
      BY <1>4, <2>3, <3>3
    <3>4. CASE i + k \in 1..Len(turns) /\ j + k = Len(turns) + 1
      BY <3>1, <3>4
    <3>5. CASE turns'[i] = turn /\ turns'[j] = turn
      BY <2>3, <3>5
    <3> QED  BY <2>1, <3>2, <3>3, <3>4, <3>5
  <2> QED  BY <2>2, <2>3
<1>5. /\ turns' \in Seq(Turn) /\ Len(turns') <= Retention
      /\ Placed(turns')
  <2>1. CASE UNCHANGED turns
    BY <1>1, <1>3, <2>1
  <2>2. ASSUME NEW r \in Requests, RecordInbound(r), Appended([dir |-> "inbound", of |-> r])
        PROVE  Placed(turns')
    <3> DEFINE turn == [dir |-> "inbound", of |-> r]
    <3>1. turn \in Turn /\ turn.of = r /\ turn.dir = "inbound"
      BY DEF Turn
    <3>2. pc[r] = "inturn" /\ pc'[r] \in {"execute", "load"} /\ sent' = sent
      BY <2>2 DEF RecordInbound, Control, Go
    <3>3. r <= sent' /\ ~Early(r)' /\ Early(r)
      <4>1. r <= sent
        BY <3>2, RequestsFinite DEF Control, Basics
      <4>2. todo'[r] = <<>>
        BY <3>2 DEF Control
      <4> QED  BY <3>2, <4>1, <4>2, Apart DEF Early
    <3>4. \A j \in 1..Len(turns) : turns[j].of # r
      BY <3>3 DEF Ordered
    <3> HIDE DEF turn, Placed
    <3> QED  BY <1>4, <2>2, <3>1, <3>3, <3>4 DEF turn, EarlyOnes, BetweenOnes
  <2>3. ASSUME NEW r \in Requests, RecordOutbound(r), Appended([dir |-> "outbound", of |-> r])
        PROVE  Placed(turns')
    <3> DEFINE turn == [dir |-> "outbound", of |-> r]
    <3>1. turn \in Turn /\ turn.of = r /\ turn.dir = "outbound"
      BY DEF Turn
    <3>2. /\ pc[r] = "outturn" /\ pc'[r] = "record" /\ sent' = sent
          /\ todo'[r] = IF cfg.path = "webhook" THEN <<Outbound("success")>> ELSE <<Inbound, Outbound("success")>>
      BY <2>3 DEF RecordOutbound, Control, Go, Finish
    <3>3. r <= sent' /\ ~Early(r)' /\ ~Between(r)'
      <4>1. r <= sent
        BY <3>2, RequestsFinite DEF Control, Basics
      <4>2. todo'[r] \in Ends
        BY <3>2, Endings DEF Statuses
      <4> QED  BY <3>2, <4>1, <4>2, Apart DEF Early, Between
    <3> HIDE DEF turn, Placed
    <3> QED  BY <1>4, <2>3, <3>1, <3>3 DEF turn, EarlyOnes, BetweenOnes
  <2> HIDE DEF Placed
  <2> QED  BY <1>1, <2>1, <2>2, <2>3, TurnsStep DEF Appended
<1>6. prior' \in [Requests -> Seq(Turn)] /\ \A q \in Requests : \A i \in 1..Len(prior'[q]) : prior'[q][i].of # q
  <2>1. prior \in [Requests -> Seq(Turn)] /\ \A q \in Requests : \A i \in 1..Len(prior[q]) : prior[q][i].of # q
    BY DEF Ordered
  <2>2. <<>> \in Seq(Turn) /\ Len(<<>>) = 0 /\ 1..0 = {}
    OBVIOUS
  <2>3. ASSUME NEW r \in Requests, prior' = [prior EXCEPT ![r] = <<>>]
        PROVE  prior' \in [Requests -> Seq(Turn)] /\ \A q \in Requests : \A i \in 1..Len(prior'[q]) : prior'[q][i].of # q
    BY <2>1, <2>2, <2>3
  <2>4. CASE UNCHANGED prior
    BY <2>1, <2>4
  <2>5. ASSUME NEW r \in Requests, ReadPrior(r)
        PROVE  prior' \in [Requests -> Seq(Turn)] /\ \A q \in Requests : \A i \in 1..Len(prior'[q]) : prior'[q][i].of # q
    <3>1. CASE prior' = [prior EXCEPT ![r] = Newest(PriorTurnLimit, turns)]
      <4> DEFINE s == Newest(PriorTurnLimit, turns)
      <4>1. /\ s \in Seq(Turn) /\ Len(s) <= Len(turns)
            /\ \A i \in 1..Len(s) : s[i] = turns[i + (Len(turns) - Len(s))]
        BY <1>1, NewestIs, Bounds
      <4>2. \A j \in 1..Len(turns) : turns[j].of # r
        BY <2>5 DEF ReadPrior, Ordered, Early
      <4> HIDE DEF s
      <4>3. \A i \in 1..Len(s) : i + (Len(turns) - Len(s)) \in 1..Len(turns)
        BY <4>1, <1>1
      <4>4. \A i \in 1..Len(s) : s[i].of # r
        BY <4>1, <4>2, <4>3
      <4>5. prior'[r] = s /\ \A q \in Requests \ {r} : prior'[q] = prior[q]
        BY <2>1, <3>1 DEF s
      <4> QED  BY <2>1, <3>1, <4>1, <4>4, <4>5 DEF s
    <3> QED  BY <2>4, <2>5, <3>1 DEF ReadPrior
  <2>6. ASSUME NEW r \in Requests, Answer(r)
        PROVE  prior' = [prior EXCEPT ![r] = <<>>]
    <3>1. prior' = [q \in Requests |-> IF q \in {r} THEN <<>> ELSE prior[q]]
      BY <2>6 DEF Answer, Forget
    <3> QED  BY <2>1, <3>1
  <2>7. ASSUME NEW r \in Requests, Handle(r)
        PROVE  \/ UNCHANGED prior \/ ReadPrior(r) \/ prior' = [prior EXCEPT ![r] = <<>>]
    BY <2>6, <2>7 DEF Handle, Acknowledge, Ingress, Normalize, RouteWebhook, RecordInbound, RecordOutbound,
              Execute, ChatLoad, ChatComplete, ChatSave, Attempt, LoadRecord, SaveRecord
  <2>8. CASE Crash
    <3>1. prior' = [q \in Requests |-> <<>>]
      BY <2>8 DEF Crash, Forget
    <3> QED  BY <2>2, <3>1
  <2> QED  BY <2>3, <2>4, <2>5, <2>7, <2>8 DEF Next, Receive, Expire, Disconnect, Hang, vars
<1> HIDE DEF At, platform, handler, chat, service, history, replay
<1>7. ASSUME NEW i \in 1..Len(turns')
      PROVE  /\ Early(turns[i].of)' => turns'[i].of \in EarlyOnes'
             /\ Between(turns[i].of)' => turns'[i].of \in BetweenOnes'
  <2>1. turns'[i] \in Turn
    BY <1>5
  <2> QED  BY <2>1 DEF EarlyOnes, BetweenOnes, Early, Between, Turn
<1> QED  BY <1>5, <1>6, <1>7 DEF Ordered

LEMMA SentStep ==
    ASSUME Basics, Control, turns \in Seq(Turn), Sent, [Next]_vars
    PROVE  Sent'
<1> SUFFICES ASSUME cfg'.path # "webhook" PROVE Sent'
  BY DEF Sent
<1>0. cfg' = cfg /\ cfg.path # "webhook"
  BY HandleRoad DEF Next, vars, Same, Receive, Expire, Disconnect, Hang, Crash
<1>1. confirmed \subseteq confirmed' /\ \A r \in Requests : pc'[r] = "outturn" => r \in confirmed'
  <2> USE DEF platform, handler, chat, service, history, replay
  <2>0. pc \in [Requests -> Locations]
    BY DEF Control
  <2>1. ASSUME NEW r \in Requests, Handle(r)
        PROVE  confirmed \subseteq confirmed' /\ \A q \in Requests : pc'[q] = "outturn" => q \in confirmed'
    <3>1. Road(r)
      BY <2>1, HandleRoad
    <3>2. /\ confirmed \subseteq confirmed'
          /\ \A q \in Requests : q # r => pc'[q] = pc[q]
          /\ pc'[r] = "outturn" => r \in confirmed'
      BY <1>0, <2>0, <3>1 DEF Road, Moved, Turned, Ended, Replied
    <3> QED  BY <1>0, <3>2 DEF Sent
  <2>2. CASE \E e \in Events : Receive(e)
    BY <1>0, <2>0, <2>2 DEF Receive, Go, Sent
  <2>3. CASE Crash
    <3>1. pc' = [r \in Requests |-> "idle"] /\ confirmed' = confirmed
      BY <2>3 DEF Crash, Forget
    <3> QED  BY <3>1
  <2> QED  BY <1>0, <2>1, <2>2, <2>3 DEF Next, Expire, Disconnect, Hang, vars, Sent
<1>2. CASE UNCHANGED turns
  BY <1>0, <1>1, <1>2 DEF Sent
<1>3. ASSUME NEW r \in Requests, Appended([dir |-> "inbound", of |-> r])
      PROVE  Sent'
  BY <1>0, <1>1, <1>3 DEF Sent, Appended
<1>4. ASSUME NEW r \in Requests, RecordOutbound(r), Appended([dir |-> "outbound", of |-> r])
      PROVE  Sent'
  <2>1. r \in confirmed
    BY <1>0, <1>4 DEF RecordOutbound, Sent, At
  <2> QED  BY <1>0, <1>1, <1>4, <2>1 DEF Sent, Appended
<1> QED  BY <1>2, <1>3, <1>4, TurnsStep

-----------------------------------------------------------------------------
(* The transcript and the service record: loaded, changed, rewritten. *)

LEMMA FilesAre ==
    ASSUME NEW S, NEW f \in Files(S)
    PROVE  /\ f.readable => f = Content(f.data) /\ f.data \in S
           /\ f = Unreadable \/ f.readable
  BY DEF Files, Content, Unreadable

LEMMA LoadsAre ==
    ASSUME NEW S, NEW f \in Files(S), NEW others
    PROVE  Loads(f, others) \subseteq Files(S)
  BY DEF Loads, Files

LEMMA WritesAre ==
    ASSUME NEW S, NEW f, NEW d \in S, NEW others
    PROVE  Writes(f, d, others) \subseteq Files(S)
  BY DEF Writes, Files

\* A user's turn and its answer are an exchange.
LEMMA NewExchange ==
    ASSUME NEW t \in Transcripts, NEW r \in Requests
    PROVE  /\ Append(t, [role |-> "user", of |-> r]) \in Seq(Line)
           /\ Append(Append(t, [role |-> "user", of |-> r]), [role |-> "assistant", of |-> r]) \in Transcripts
<1> DEFINE u == [role |-> "user", of |-> r]
           a == [role |-> "assistant", of |-> r]
           s == Append(Append(t, u), a)
<1>1. u \in Line /\ a \in Line /\ u.role = "user" /\ a.role = "assistant" /\ u.of = r /\ a.of = r
  BY DEF Line
<1> HIDE DEF u, a
<1>2. t \in Seq(Line) /\ Exchanges(t) /\ Len(t) \in Nat /\ Len(t) % 2 = 0
  BY DEF Transcripts, Exchanges
<1>3. /\ Append(t, u) \in Seq(Line) /\ s \in Seq(Line) /\ Len(s) = Len(t) + 2
      /\ s[Len(t) + 1] = u /\ s[Len(t) + 2] = a
      /\ \A i \in 1..Len(t) : s[i] = t[i]
  BY <1>1, <1>2
<1> HIDE DEF s
<1>4. Len(s) % 2 = 0 /\ (Len(t) + 1) % 2 = 1 /\ (Len(t) + 2) % 2 = 0
  BY <1>2, <1>3
<1>5. ASSUME NEW i \in 1..Len(s)
      PROVE  IF i % 2 = 1 THEN s[i].role = "user"
                          ELSE s[i].role = "assistant" /\ s[i].of = s[i - 1].of
  <2>1. CASE i \in 1..Len(t)
    <3>1. s[i] = t[i] /\ IF i % 2 = 1 THEN t[i].role = "user"
                          ELSE t[i].role = "assistant" /\ t[i].of = t[i - 1].of
      BY <1>2, <1>3, <2>1 DEF Exchanges
    <3>2. i % 2 # 1 => i - 1 \in 1..Len(t)
      BY <1>2, <2>1
    <3> QED  BY <1>3, <3>1, <3>2
  <2>2. CASE i = Len(t) + 1
    BY <1>1, <1>3, <1>4, <2>2
  <2>3. CASE i = Len(t) + 2
    <3>1. i - 1 = Len(t) + 1
      BY <1>2, <2>3
    <3> QED  BY <1>1, <1>3, <1>4, <2>3, <3>1
  <2> QED  BY <1>2, <1>3, <2>1, <2>2, <2>3
<1> QED  BY <1>3, <1>4, <1>5 DEF Transcripts, Exchanges, s, u, a

LEMMA DraftsKept ==
    ASSUME Drafts, Control, NEW r \in Requests,
           \A q \in Requests : q # r => pc'[q] = pc[q],
           pc'[r] \notin {"complete", "save"},
           draft' = draft \/ draft' = [draft EXCEPT ![r] = <<>>],
           transcript' \in Files(Transcripts)
    PROVE  Drafts'
<1>1. draft \in [Requests -> Seq(Line)] /\ <<>> \in Seq(Line)
  BY DEF Drafts
<1>2. draft' \in [Requests -> Seq(Line)] /\ \A q \in Requests : q # r => draft'[q] = draft[q]
  BY <1>1
<1> QED  BY <1>2 DEF Drafts

LEMMA DraftsStep ==
    ASSUME Basics, Control, Drafts, [Next]_vars
    PROVE  Drafts'
<1> USE DEF platform, handler, chat, service, history, replay
<1>0. /\ pc \in [Requests -> Locations] /\ transcript \in Files(Transcripts)
      /\ draft \in [Requests -> Seq(Line)] /\ <<>> \in Seq(Line)
  BY DEF Control, Drafts
<1>1. CASE \E e \in Events : Receive(e)
  <2>1. UNCHANGED <<transcript, draft>>
        /\ (pc' = pc \/ \E loc \in {"acknowledge", "ingress"} : pc' = [pc EXCEPT ![sent + 1] = loc])
    BY <1>1 DEF Receive, Go
  <2>2. \A q \in Requests : pc'[q] \in {"complete", "save"} => pc'[q] = pc[q]
    BY <1>0, <2>1
  <2> QED  BY <2>1, <2>2 DEF Drafts
<1>2. ASSUME NEW r \in Requests, ChatLoad(r)
      PROVE  Drafts'
  <2>1. CASE UNCHANGED draft /\ ChatFails(r)
    <3>1. (\A q \in Requests : q # r => pc'[q] = pc[q]) /\ pc'[r] \notin {"complete", "save"}
      BY <1>0, <2>1, FailureEnds DEF Replied, Ended, Moved, Turned
    <3> QED  BY <1>0, <1>2, <2>1, <3>1, DraftsKept DEF ChatLoad
  <2>2. CASE /\ transcript.readable
             /\ draft' = [draft EXCEPT ![r] = Append(transcript.data, [role |-> "user", of |-> r])]
             /\ Go(r, "complete")
    <3>1. transcript.data \in Transcripts
      BY <1>0, <2>2, FilesAre
    <3> DEFINE s == Append(transcript.data, [role |-> "user", of |-> r])
    <3>2. s \in Seq(Line)
      BY <3>1, NewExchange
    <3>3. \E t \in Transcripts : s = Append(t, [role |-> "user", of |-> r])
      BY <3>1
    <3>4. draft' = [draft EXCEPT ![r] = s] /\ pc' = [pc EXCEPT ![r] = "complete"] /\ transcript' = transcript
      BY <1>2, <2>2 DEF ChatLoad, Go
    <3> HIDE DEF s
    <3>5. draft' \in [Requests -> Seq(Line)] /\ draft'[r] = s /\ pc'[r] = "complete"
          /\ \A q \in Requests : q # r => draft'[q] = draft[q] /\ pc'[q] = pc[q]
      BY <1>0, <3>2, <3>4
    <3> QED  BY <1>0, <3>3, <3>4, <3>5 DEF Drafts
  <2> QED  BY <1>2, <2>1, <2>2 DEF ChatLoad
<1>3. ASSUME NEW r \in Requests, ChatComplete(r)
      PROVE  Drafts'
  <2>1. CASE draft' = [draft EXCEPT ![r] = <<>>] /\ ChatFails(r)
    <3>1. (\A q \in Requests : q # r => pc'[q] = pc[q]) /\ pc'[r] \notin {"complete", "save"}
      BY <1>0, <2>1, FailureEnds DEF Replied, Ended, Moved, Turned
    <3> QED  BY <1>0, <1>3, <2>1, <3>1, DraftsKept DEF ChatComplete
  <2>2. CASE /\ draft' = [draft EXCEPT ![r] = Append(@, [role |-> "assistant", of |-> r])]
             /\ Go(r, "save")
    <3>1. PICK t \in Transcripts : draft[r] = Append(t, [role |-> "user", of |-> r])
      BY <1>3 DEF ChatComplete, At, Drafts
    <3> DEFINE s == Append(draft[r], [role |-> "assistant", of |-> r])
    <3>2. s \in Transcripts /\ s \in Seq(Line)
      BY <3>1, NewExchange DEF Transcripts
    <3>4. draft' = [draft EXCEPT ![r] = s] /\ pc' = [pc EXCEPT ![r] = "save"] /\ transcript' = transcript
      BY <1>3, <2>2 DEF ChatComplete, Go
    <3> HIDE DEF s
    <3>5. draft' \in [Requests -> Seq(Line)] /\ draft'[r] = s /\ pc'[r] = "save"
          /\ \A q \in Requests : q # r => draft'[q] = draft[q] /\ pc'[q] = pc[q]
      BY <1>0, <3>2, <3>4
    <3> QED  BY <1>0, <3>2, <3>4, <3>5 DEF Drafts
  <2> QED  BY <1>3, <2>1, <2>2 DEF ChatComplete
<1>4. ASSUME NEW r \in Requests, Handle(r), ~ChatLoad(r), ~ChatComplete(r)
      PROVE  Drafts'
  <2>1. /\ Road(r)
        /\ pc[r] \notin {"load", "complete"}
    BY <1>4, HandleRoad DEF Handle, Acknowledge, Ingress, Normalize, RouteWebhook, ReadPrior, RecordInbound,
          RecordOutbound, Execute, ChatSave, Attempt, LoadRecord, SaveRecord, Answer, At
  <2>2. (\A q \in Requests : q # r => pc'[q] = pc[q]) /\ pc'[r] \notin {"complete", "save"}
    BY <1>0, <2>1 DEF Road, Replied, Ended, Moved, Turned
  <2>3. ASSUME ChatSave(r)
        PROVE  draft' = [draft EXCEPT ![r] = <<>>] /\ transcript' \in Files(Transcripts)
    <3>1. draft[r] \in Transcripts
      BY <2>3 DEF ChatSave, At, Drafts
    <3>2. Writes(transcript, draft[r], Others(r, "save")) \subseteq Files(Transcripts)
      BY <3>1, WritesAre
    <3>3. Unreadable \in Files(Transcripts)
      BY DEF Files
    <3> QED  BY <2>3, <3>2, <3>3 DEF ChatSave
  <2>4. ASSUME Answer(r)
        PROVE  draft' = [draft EXCEPT ![r] = <<>>] /\ transcript' = transcript
    <3>1. draft' = [q \in Requests |-> IF q \in {r} THEN <<>> ELSE draft[q]]
      BY <2>4 DEF Answer, Forget
    <3> QED  BY <1>0, <2>4, <3>1 DEF Answer
  <2>5. ASSUME ~ChatSave(r), ~Answer(r)
        PROVE  UNCHANGED <<draft, transcript>>
    BY <1>4, <2>5 DEF Handle, Acknowledge, Ingress, Normalize, RouteWebhook, ReadPrior, RecordInbound,
          RecordOutbound, Execute, Attempt, LoadRecord, SaveRecord
  <2> QED  BY <1>0, <2>2, <2>3, <2>4, <2>5, DraftsKept
<1>5. CASE Crash
  <2>1. pc' = [r \in Requests |-> "idle"] /\ draft' = [r \in Requests |-> <<>>]
    BY <1>5 DEF Crash, Forget
  <2>2. transcript' \in Files(Transcripts)
    BY <1>0, <1>5, LoadsAre DEF Crash
  <2> QED  BY <1>0, <2>1, <2>2 DEF Drafts
<1>6. CASE (\E e \in Events : Expire(e)) \/ (\E r \in Requests : Disconnect(r) \/ Hang(r)) \/ UNCHANGED vars
  <2>1. UNCHANGED <<pc, draft, transcript>>
    BY <1>6 DEF Expire, Disconnect, Hang, vars
  <2> QED  BY <2>1 DEF Drafts
<1> QED  BY <1>1, <1>2, <1>3, <1>4, <1>5, <1>6 DEF Next

Changes == {Inbound} \cup {Outbound(st) : st \in Statuses}

LEMMA ChangedIs ==
    ASSUME NEW x \in Records, NEW c \in Changes
    PROVE  Changed(x, c) \in Records
<1>1. /\ x \in [status : Statuses \cup {"none"}, health : {"none", "receiving", "healthy", "degraded", "failed"}]
      /\ x.status # "none" => x.health = HealthOf(x.status)
  BY DEF Records
<1>2. \A st \in Statuses : HealthOf(st) \in {"healthy", "degraded", "failed"} /\ st # "none"
  BY DEF Statuses, HealthOf
<1>3. CASE c = Inbound
  <2>1. c.kind = "inbound"
    BY <1>3 DEF Inbound
  <2>2. Changed(x, c) = [x EXCEPT !.health = IF @ = "none" THEN "receiving" ELSE @]
    BY <2>1 DEF Changed
  <2>3. x.status # "none" => x.health # "none"
    BY <1>1, <1>2
  <2> QED  BY <1>1, <2>2, <2>3 DEF Records
<1>4. ASSUME NEW st \in Statuses, c = Outbound(st)
      PROVE  Changed(x, c) \in Records
  <2>1. c.kind = "outbound" /\ c.status = st
    BY <1>4 DEF Outbound
  <2>2. Changed(x, c) = [x EXCEPT !.status = st, !.health = HealthOf(st)]
    BY <2>1 DEF Changed
  <2> QED  BY <1>1, <1>2, <2>2 DEF Records
<1> QED  BY <1>3, <1>4 DEF Changes

LEMMA HealthyStep ==
    ASSUME Basics, Control, Healthy, [Next]_vars
    PROVE  Healthy'
<1> USE DEF platform, handler, chat, service, history, replay
<1>0. file \in Files(Records) /\ record \in [Requests -> Records] /\ NewRecord \in Records
  BY DEF Healthy, NewRecord, Records
<1>1. ASSUME NEW r \in Requests, LoadRecord(r)
      PROVE  Healthy'
  <2>1. PICK now \in Loads(file, Others(r, "write")) :
          IF now.readable
          THEN record' = [record EXCEPT ![r] = Changed(now.data, Head(todo[r]))]
          ELSE UNCHANGED record
    BY <1>1 DEF LoadRecord
  <2>2. now \in Files(Records)
    BY <1>0, <2>1, LoadsAre
  <2>3. Head(todo[r]) \in Changes
    <3>1. todo[r] \in Ends \cup Detours /\ todo[r] # <<>> /\ Head(todo[r]) # ThenRoute
      BY <1>1 DEF LoadRecord, Control
    <3> QED  BY <3>1 DEF Ends, Detours, Changes
  <2>4. now.readable => Changed(now.data, Head(todo[r])) \in Records
    BY <2>2, <2>3, FilesAre, ChangedIs
  <2>5. record' \in [Requests -> Records]
    BY <1>0, <2>1, <2>4
  <2> QED  BY <1>0, <1>1, <2>5 DEF LoadRecord, Healthy
<1>2. ASSUME NEW r \in Requests, SaveRecord(r)
      PROVE  Healthy'
  <2>1. file' \in Files(Records)
    BY <1>0, <1>2, WritesAre DEF SaveRecord
  <2>2. record' \in [Requests -> Records]
    BY <1>0, <1>2 DEF SaveRecord
  <2> QED  BY <2>1, <2>2 DEF Healthy
<1>3. ASSUME NEW r \in Requests, Answer(r)
      PROVE  Healthy'
  <2>1. record' = [q \in Requests |-> IF q \in {r} THEN NewRecord ELSE record[q]] /\ file' = file
    BY <1>3 DEF Answer, Forget
  <2>2. record' \in [Requests -> Records]
    BY <1>0, <2>1
  <2> QED  BY <1>0, <2>1, <2>2 DEF Healthy
<1>4. CASE Crash
  <2>1. record' = [q \in Requests |-> NewRecord]
    BY <1>4 DEF Crash, Forget
  <2>2. file' \in Files(Records)
    BY <1>0, <1>4, LoadsAre DEF Crash
  <2> QED  BY <1>0, <2>1, <2>2 DEF Healthy
<1>5. ASSUME NEW r \in Requests, Handle(r), ~LoadRecord(r), ~SaveRecord(r), ~Answer(r)
      PROVE  UNCHANGED <<file, record>>
  BY <1>5 DEF Handle, Acknowledge, Ingress, Normalize, RouteWebhook, ReadPrior, RecordInbound,
          RecordOutbound, Execute, ChatLoad, ChatComplete, ChatSave, Attempt
<1>6. CASE UNCHANGED <<file, record>>
  BY <1>6 DEF Healthy
<1> QED  BY <1>1, <1>2, <1>3, <1>4, <1>5, <1>6 DEF Next, Receive, Expire, Disconnect, Hang, vars

-----------------------------------------------------------------------------
(* The theorems. *)

LEMMA InitIInv == Init => IInv
<1> SUFFICES ASSUME Init PROVE IInv
  OBVIOUS
<1> USE DEF Init
<1>1. Basics
  BY Bounds DEF Basics
<1>2. Control
  BY Apart, Endings DEF Control, Locations
<1>3. Paid
  <2>1. \A e : Pending(e) = {}
    BY DEF Pending
  <2>2. \A e \in Events : executed[e] = 0 /\ forgotten[e] = 0 /\ Cardinality(Pending(e)) = 0 /\ e \notin seen
    BY <2>1, FS_EmptySet
  <2> QED  BY <2>2 DEF Paid
<1>4. turns = <<>> /\ Len(turns) = 0 /\ <<>> \in Seq(Turn) /\ <<>> \in Seq(Line) /\ 1..0 = {} /\ Len(<<>>) = 0
  OBVIOUS
<1>5. Sent
  BY <1>4 DEF Sent
<1>6. Ordered
  BY <1>4, Bounds DEF Ordered
<1>7. Drafts
  <2>1. <<>> \in Transcripts
    BY <1>4 DEF Transcripts, Exchanges
  <2> QED  BY <1>4, <2>1 DEF Drafts, Files
<1>8. Healthy
  <2>1. NewRecord \in Records
    BY DEF NewRecord, Records
  <2> QED  BY <2>1 DEF Healthy, Files
<1> QED  BY <1>1, <1>2, <1>3, <1>5, <1>6, <1>7, <1>8 DEF IInv

LEMMA NextIInv == IInv /\ [Next]_vars => IInv'
<1> SUFFICES ASSUME IInv, [Next]_vars PROVE IInv'
  OBVIOUS
<1>1. turns \in Seq(Turn)
  BY DEF IInv, Ordered
<1> QED  BY <1>1, BasicsStep, ControlStep, PaidStep, SentStep, OrderedStep, DraftsStep, HealthyStep DEF IInv

\* The invariant holds however deliveries, handlers and crashes interleave.
THEOREM Invariance == Spec => []IInv
  BY InitIInv, NextIInv, PTL DEF Spec

\* The type invariant of the model, the retention bound of the conversation
\* store (SQLiteHistory.Append prunes as it inserts) among it.
THEOREM TypeCorrect == Spec => []TypeOK
<1>1. IInv => TypeOK
  BY DEF IInv, Basics, Control, Ordered, TypeOK, Locations
<1> QED  BY <1>1, Invariance, PTL

\* A Slack event is executed at most once more than the replay store lost it,
\* for any number of deliveries handled at the same time (MarkSeen).
THEOREM ExecutedOnce == Spec => []ExecutedOncePerMemory
<1>1. IInv => ExecutedOncePerMemory
  <2> SUFFICES ASSUME IInv, cfg.path = "slack", NEW e \in Events
               PROVE  executed[e] <= 1 + forgotten[e]
    BY DEF ExecutedOncePerMemory
  <2>1. executed[e] + Cardinality(Pending(e)) <= forgotten[e] + (IF e \in seen THEN 1 ELSE 0)
    BY DEF IInv, Paid
  <2>2. executed[e] \in Nat /\ forgotten[e] \in Nat /\ Cardinality(Pending(e)) \in Nat
    BY PendingFinite DEF IInv, Basics
  <2> QED  BY <2>1, <2>2
<1> QED  BY <1>1, Invariance, PTL

\* Where the runtime delivers the replies, an outbound turn is on record only
\* if the provider reported it as sent (recordOutboundTurn), for any number of
\* attempts, disconnections, calls that hang and crashes.
THEOREM OutboundSent == Spec => []OutboundWasSent
<1>1. IInv => OutboundWasSent
  BY DEF IInv, Sent, Ordered, OutboundWasSent
<1> QED  BY <1>1, Invariance, PTL

\* A reply never precedes its message in the conversation store, and an action
\* is never handed the message it is run for as a prior turn, whatever other
\* handlers append and whatever is pruned.
THEOREM TurnsInOrder == Spec => []HistoryInOrder
<1>1. IInv => HistoryInOrder
  BY DEF IInv, Ordered, HistoryInOrder
<1> QED  BY <1>1, Invariance, PTL

\* A transcript that can be read is a sequence of exchanges, for any number of
\* handlers that load, extend and save it at the same time (Service.Send).
THEOREM TranscriptWhole == Spec => []TranscriptIsExchanges
<1>1. IInv => TranscriptIsExchanges
  <2> SUFFICES ASSUME IInv, transcript.readable PROVE TranscriptIsExchanges
    BY DEF TranscriptIsExchanges
  <2>1. transcript.data \in Seq(Line) /\ Exchanges(transcript.data)
    BY FilesAre DEF IInv, Drafts, Transcripts
  <2> DEFINE t == transcript.data
  <2>2. DOMAIN t = 1..Len(t)
    BY <2>1
  <2> HIDE DEF t
  <2>3. /\ Len(t) % 2 = 0
        /\ \A i \in DOMAIN t : IF i % 2 = 1 THEN t[i].role = "user"
                                ELSE t[i].role = "assistant" /\ t[i].of = t[i - 1].of
    BY <2>1, <2>2 DEF Exchanges, t
  <2> QED  BY <2>3 DEF TranscriptIsExchanges, t
<1> QED  BY <1>1, Invariance, PTL

\* In a service record that can be read, the health is that of the last
\* outbound event on record, whichever changes overlapping handlers lose.
THEOREM HealthFollows == Spec => []HealthFollowsOutbound
<1>1. IInv => HealthFollowsOutbound
  BY FilesAre DEF IInv, Healthy, Records, HealthFollowsOutbound
<1> QED  BY <1>1, Invariance, PTL
=============================================================================
