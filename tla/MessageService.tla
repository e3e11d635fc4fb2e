---------------------------- MODULE MessageService ----------------------------
(***************************************************************************)
(* A message service (internal/adapters/messenger with the shared runtime  *)
(* of internal/core/messenger): webhooks of a chat platform are validated, *)
(* deduplicated, normalised, routed, executed by a profile action or by    *)
(* the chat runtime, and the reply is delivered with retries.  On the way  *)
(* the handlers share four things: the replay store (memory), the          *)
(* conversation store (sqlite), the chat transcript (a JSON file that is   *)
(* loaded, extended and rewritten) and the service record (a YAML file     *)
(* that is loaded, changed and rewritten).                                 *)
(*                                                                         *)
(* A request is one delivery of one event, numbered in the order of the    *)
(* deliveries.  All events belong to one conversation of one service,      *)
(* which is the case in which handlers meet.                               *)
(***************************************************************************)
EXTENDS Integers, Sequences, FiniteSets

CONSTANTS
    NumEvents,       \* events (messages) addressed to the service, in order
    MaxDeliveries,   \* bound on the deliveries by the platform, all events
    MaxAttempts,     \* RetryPolicy.MaxAttempts
    MaxSeen,         \* MemoryReplayStore.maxSize
    PriorTurnLimit,  \* prior turns attached to an action run
    Retention,       \* turns kept per conversation
    Services,        \* the configurations of the service to look at
    MaxCrashes       \* bound on crashes of the server

Configs ==
    {c \in [path : {"slack", "telegram", "webhook"},
            mode : {"action", "chat"}, reply : BOOLEAN] :
        c.path = "webhook" => c.mode = "action"}

ASSUME MessageBounds ==
    /\ Services \subseteq Configs
    /\ {NumEvents, MaxDeliveries, MaxAttempts, MaxSeen, PriorTurnLimit, Retention}
         \subseteq Nat \ {0}
    /\ MaxCrashes \in Nat

VARIABLES
    cfg,        \* the service: its path, its execution mode, reply enabled
    sent,       \* deliveries so far: the last one's number
    last,       \* the newest event delivered so far
    seen,       \* MemoryReplayStore.seen
    forgotten,  \* how often the replay store lost each event (history)
    pc,         \* where the handler of each request is
    event,      \* the event each request carries
    gone,       \* the platform closed the connection: the context is done
    hung,       \* requests whose call out of the server gets no answer
    attempt,    \* the delivery attempt
    prior,      \* the prior turns handed to the action
    todo,       \* changes of the service record still to be made
    executed,   \* how often each event was handed to its executor (history)
    confirmed,  \* handlings whose reply the provider reported as sent (history)
    turns,      \* message_turns of the conversation, by seq
    transcript, \* the chat transcript file
    draft,      \* the transcript a handler has in hand
    file,       \* the service record file
    record,     \* the service record a handler has in hand
    crashes     \* crashes so far

platform == <<sent, last, hung>>
replay   == <<seen, forgotten>>
handler  == <<pc, event, gone, attempt, prior, todo>>
chat     == <<transcript, draft>>
service  == <<file, record>>
history  == <<executed, confirmed>>
vars     == <<cfg, platform, replay, handler, history, turns, chat, service, crashes>>

Events   == 1..NumEvents
Requests == 1..MaxDeliveries

\* Two files are rewritten with os.WriteFile, which truncates and then
\* writes.  A reader in between finds nothing it can parse, and neither does
\* one after two overlapping writes of different lengths, or after a crash.
Content(data) == [readable |-> TRUE, data |-> data]
Unreadable    == [readable |-> FALSE]

\* A load by r while others may be in the middle of their write: what it
\* returns, or Unreadable.
Loads(now, others) == {now} \cup (IF others = {} THEN {} ELSE {Unreadable})

\* The file after a write by r while others may be in the middle of theirs.
Writes(now, mine, others) ==
    {Content(mine)} \cup (IF others = {} /\ now.readable THEN {} ELSE {Unreadable})

\* Of the service record the delivery status and health are kept here.
NewRecord == [status |-> "none", health |-> "none"]

Init ==
    /\ cfg \in Services
    /\ sent       = 0
    /\ last       = 0
    /\ seen       = {}
    /\ forgotten  = [e \in Events |-> 0]
    /\ pc         = [r \in Requests |-> "idle"]
    /\ event      = [r \in Requests |-> 0]
    /\ gone       = [r \in Requests |-> FALSE]
    /\ hung       = {}
    /\ attempt    = [r \in Requests |-> 1]
    /\ prior      = [r \in Requests |-> <<>>]
    /\ todo       = [r \in Requests |-> <<>>]
    /\ executed   = [e \in Events |-> 0]
    /\ confirmed  = {}
    /\ turns      = <<>>
    /\ transcript = Content(<<>>)
    /\ draft      = [r \in Requests |-> <<>>]
    /\ file       = Content(NewRecord)
    /\ record     = [r \in Requests |-> NewRecord]
    /\ crashes    = 0

At(r, loc) == pc[r] = loc
Others(r, loc) == {q \in Requests \ {r} : At(q, loc)}
Go(r, loc) == pc' = [pc EXCEPT ![r] = loc]

\* The handler's answer is known: what is left is to note changes in the
\* service record (each one a load and a save), then to write the answer.
\* The context is not looked at any more.
Finish(r, changes) ==
    /\ Go(r, "record")
    /\ todo' = [todo EXCEPT ![r] = changes]
    /\ gone' = [gone EXCEPT ![r] = FALSE]

Inbound      == [kind |-> "inbound", status |-> "received"]
Outbound(st) == [kind |-> "outbound", status |-> st]
ThenRoute    == [kind |-> "route", status |-> "none"]

-----------------------------------------------------------------------------
(* The platform and the entry of the handler.                              *)

\* The platform delivers a new event, or one again that it has seen no
\* answer to, perhaps while the earlier delivery is still handled.  A webhook
\* is refused before it leaves a trace when the service record cannot be read
\* (404) or the request fails its authentication (ValidateRequest, 401).
Receive(e) ==
    LET r == sent + 1 IN
    /\ e <= last + 1
    /\ last' = IF e > last THEN e ELSE last
    /\ sent < MaxDeliveries
    /\ sent'  = sent + 1
    /\ event' = [event EXCEPT ![r] = e]
    /\ \/ UNCHANGED pc
       \/ /\ file.readable
          /\ Go(r, IF cfg.path = "slack" THEN "acknowledge" ELSE "ingress")
    /\ UNCHANGED <<cfg, hung, replay, gone, attempt, prior, todo, history,
                   turns, chat, service, crashes>>

\* The platform gives up waiting and closes the connection; once the answer
\* is known this changes nothing for the handler.
Disconnect(r) ==
    /\ pc[r] \notin {"idle", "record", "write"}
    /\ ~gone[r]
    /\ gone' = [gone EXCEPT ![r] = TRUE]
    /\ UNCHANGED <<cfg, platform, replay, pc, event, attempt, prior, todo,
                   history, turns, chat, service, crashes>>

\* The action's run, the language model and the provider are called with the
\* request's context and no deadline of their own: a call may get no answer.
Hang(r) ==
    /\ pc[r] \in {"execute", "complete", "deliver"}
    /\ hung' = hung \cup {r}
    /\ UNCHANGED <<cfg, sent, last, replay, handler, history, turns, chat, service,
                   crashes>>

\* A call comes back with an answer, or because the context is done.
Returns(r) ==
    /\ r \in hung => gone[r]
    /\ hung' = hung \ {r}

\* Mutant: the event is looked up, and remembered only by the executor.
MutMarkSeen(e, known) ==
    /\ known = (e \in seen)
    /\ UNCHANGED replay

\* MarkSeen: one critical section that looks the key up and inserts it,
\* after evicting any one entry when the store is full.
MarkSeen(e, known) ==
    \/ /\ e \in seen
       /\ known = TRUE
       /\ UNCHANGED replay
    \/ /\ e \notin seen
       /\ known = FALSE
       /\ \/ /\ Cardinality(seen) < MaxSeen
             /\ seen' = seen \cup {e}
             /\ UNCHANGED forgotten
          \/ /\ Cardinality(seen) >= MaxSeen
             /\ \E k \in seen :
                  /\ seen' = (seen \ {k}) \cup {e}
                  /\ forgotten' = [forgotten EXCEPT ![k] = @ + 1]

\* handleSlackAcknowledgement: a duplicate and a bot's message are answered
\* with 200 at once.
Acknowledge(r) ==
    /\ At(r, "acknowledge")
    /\ \E known \in BOOLEAN, ignored \in BOOLEAN :
         /\ MarkSeen(event[r], known)
         /\ \/ /\ known \/ ignored
               /\ Finish(r, <<>>)
            \/ /\ ~(known \/ ignored)
               /\ Go(r, "ingress")
               /\ UNCHANGED <<todo, gone>>
    /\ UNCHANGED <<cfg, platform, event, attempt, prior, history, turns, chat,
                   service, crashes>>

\* An entry of the replay store reaches its time to live.
Expire(e) ==
    /\ e \in seen
    /\ seen' = seen \ {e}
    /\ forgotten' = [forgotten EXCEPT ![e] = @ + 1]
    /\ UNCHANGED <<cfg, platform, handler, history, turns, chat, service, crashes>>

-----------------------------------------------------------------------------
(* Normalisation and routing.                                              *)

\* A chat keeps its own transcript and is handed no prior turns.
Routed(r) ==
    /\ ~gone[r]
    /\ Go(r, IF cfg.mode = "chat" THEN "inturn" ELSE "prior")
    /\ UNCHANGED <<todo, gone>>

\* HandleIngress up to the route: a message that cannot be normalised, is not
\* admitted (ValidateMessage) or has no route ends the request with an error.
Ingress(r) ==
    /\ At(r, "ingress")
    /\ cfg.path # "webhook"
    /\ Finish(r, <<>>) \/ Routed(r)
    /\ UNCHANGED <<cfg, platform, replay, event, attempt, prior, history, turns,
                   chat, service, crashes>>

\* The webhook path notes the inbound event as soon as it is normalised and
\* goes on from there, the runtime path once HandleIngress has returned.
Normalize(r) ==
    /\ At(r, "ingress")
    /\ cfg.path = "webhook"
    /\ \/ Finish(r, <<>>)
       \/ /\ Go(r, "record")
          /\ todo' = [todo EXCEPT ![r] = <<Inbound, ThenRoute>>]
          /\ UNCHANGED gone
    /\ UNCHANGED <<cfg, platform, replay, event, attempt, prior, history, turns,
                   chat, service, crashes>>

\* The message is not admitted (403); it has no route (200, "failed") or the
\* resolver fails (500), both on record as an outbound event; or it is routed.
RouteWebhook(r) ==
    /\ At(r, "record")
    /\ todo[r] = <<ThenRoute>>
    /\ \/ Finish(r, <<>>)
       \/ Finish(r, <<Outbound("failed")>>)
       \/ ~gone[r] /\ Go(r, "prior") /\ UNCHANGED gone
                   /\ todo' = [todo EXCEPT ![r] = <<>>]
    /\ UNCHANGED <<cfg, platform, replay, event, attempt, prior, history, turns,
                   chat, service, crashes>>

-----------------------------------------------------------------------------
(* Conversation history.                                                   *)

Newest(n, s) == SubSeq(s, IF Len(s) > n THEN Len(s) - n + 1 ELSE 1, Len(s))

\* Mutant: the turn takes its place in the wrong order.
MutAppendFirst(turn) == turns' = Newest(Retention, <<turn>> \o turns)

\* AppendTurn: one transaction that inserts the turn and prunes the oldest.
AppendTurn(turn) == turns' = Newest(Retention, Append(turns, turn))

\* A failed append is logged and nothing else; with the context done it
\* cannot succeed.
RecordTurn(r, direction) ==
    \/ ~gone[r] /\ AppendTurn([dir |-> direction, of |-> r])
    \/ UNCHANGED turns

\* priorTurns: the newest turns of the session, none when the query fails.
ReadPrior(r) ==
    /\ At(r, "prior")
    /\ Go(r, "inturn")
    /\ \/ ~gone[r] /\ prior' = [prior EXCEPT ![r] = Newest(PriorTurnLimit, turns)]
       \/ UNCHANGED prior
    /\ UNCHANGED <<cfg, platform, replay, event, gone, attempt, todo, history,
                   turns, chat, service, crashes>>

\* recordInboundTurn.
RecordInbound(r) ==
    /\ At(r, "inturn")
    /\ RecordTurn(r, "inbound")
    /\ Go(r, IF cfg.mode = "chat" THEN "load" ELSE "execute")
    /\ UNCHANGED <<cfg, platform, replay, event, gone, attempt, prior, todo,
                   history, chat, service, crashes>>

\* recordOutboundTurn, of the runtime and of the webhook path.
RecordOutbound(r) ==
    /\ At(r, "outturn")
    /\ RecordTurn(r, "outbound")
    /\ Finish(r, IF cfg.path = "webhook" THEN <<Outbound("success")>>
                       ELSE <<Inbound, Outbound("success")>>)
    /\ UNCHANGED <<cfg, platform, replay, event, attempt, prior, history,
                   chat, service, crashes>>

-----------------------------------------------------------------------------
(* Execution.                                                              *)

\* A result without a reply: the runtime notes the inbound event and how
\* the execution ended.
NoReply(r, status) ==
    Finish(r, IF cfg.path = "webhook" THEN <<Outbound(status)>>
                    ELSE <<Inbound, Outbound(IF status = "success" THEN "executed"
                                                                  ELSE status)>>)

\* A result with a reply is delivered by the runtime; the webhook path notes
\* the outbound turn and sends the reply later, as the answer (Answer).
Reply(r) ==
    /\ Go(r, IF cfg.path = "webhook" THEN "outturn" ELSE "deliver")
    /\ UNCHANGED <<todo, gone>>

Count(e) == executed' = [executed EXCEPT ![e] = @ + 1]

\* ExecuteAction: the run cannot be made, fails, or completes with or
\* without output.
Execute(r) ==
    /\ At(r, "execute")
    /\ Returns(r)
    /\ Count(event[r])
    /\ \/ Finish(r, IF cfg.path = "webhook" THEN <<Outbound("failed")>> ELSE <<>>)
       \/ NoReply(r, "failed")
       \/ ~gone[r] /\ NoReply(r, "success")
       \/ ~gone[r] /\ cfg.reply /\ Reply(r)
    /\ prior' = [prior EXCEPT ![r] = <<>>]
    /\ UNCHANGED <<cfg, sent, last, replay, event, attempt, confirmed, turns, chat,
                   service, crashes>>

\* A chat turn that fails is answered with a fixed text (failureResult).
ChatFails(r) ==
    IF cfg.reply THEN Reply(r) ELSE NoReply(r, "failed")

\* Store.Load and the user's turn: a missing file is an empty transcript, a
\* file that cannot be parsed an error.
ChatLoad(r) ==
    /\ At(r, "load")
    /\ Count(event[r])
    /\ \/ /\ ChatFails(r)
          /\ UNCHANGED draft
       \/ /\ ~gone[r]
          /\ transcript.readable
          /\ draft' = [draft EXCEPT ![r] =
                         Append(transcript.data, [role |-> "user", of |-> r])]
          /\ Go(r, "complete")
          /\ UNCHANGED <<todo, gone>>
    /\ UNCHANGED <<cfg, platform, replay, event, attempt, prior, confirmed, turns,
                   transcript, service, crashes>>

\* Mutant: the user's turn is kept when the completion fails.
MutChatComplete(r) ==
    /\ At(r, "complete")
    /\ Returns(r)
    /\ \/ UNCHANGED draft
       \/ draft' = [draft EXCEPT ![r] = Append(@, [role |-> "assistant", of |-> r])]
    /\ Go(r, "save")
    /\ UNCHANGED <<cfg, sent, last, replay, event, gone, attempt, prior, todo, history,
                   turns, transcript, service, crashes>>

\* The language model answers, or does not.
ChatComplete(r) ==
    /\ At(r, "complete")
    /\ Returns(r)
    /\ \/ /\ ChatFails(r)
          /\ draft' = [draft EXCEPT ![r] = <<>>]
       \/ /\ ~gone[r]
          /\ draft' = [draft EXCEPT ![r] =
                         Append(@, [role |-> "assistant", of |-> r])]
          /\ Go(r, "save")
          /\ UNCHANGED <<todo, gone>>
    /\ UNCHANGED <<cfg, sent, last, replay, event, attempt, prior, history,
                   turns, transcript, service, crashes>>

\* Store.Save; a failed write leaves the truncated file behind, and an empty
\* reply is not delivered.
ChatSave(r) ==
    /\ At(r, "save")
    /\ draft' = [draft EXCEPT ![r] = <<>>]
    /\ \/ ChatFails(r) /\ transcript' = Unreadable
       \/ /\ transcript' \in Writes(transcript, draft[r], Others(r, "save"))
          /\ NoReply(r, "success") \/ (cfg.reply /\ Reply(r))
    /\ UNCHANGED <<cfg, platform, replay, event, attempt, prior, history,
                   turns, service, crashes>>

-----------------------------------------------------------------------------
(* Delivery with retries (runtime path).                                   *)

\* Mutant: a failed attempt does not count.
MutRetry(r) ==
    IF attempt[r] < MaxAttempts
    THEN Go(r, "deliver") /\ UNCHANGED <<attempt, todo, gone>>
    ELSE Finish(r, <<Outbound("dead_letter")>>) /\ UNCHANGED attempt

\* Mutant: a message that is given up counts as delivered.
MutGiveUp(r) ==
    IF attempt[r] < MaxAttempts
    THEN /\ attempt' = [attempt EXCEPT ![r] = @ + 1]
         /\ Go(r, "deliver")
         /\ UNCHANGED <<todo, gone>>
    ELSE Go(r, "outturn") /\ UNCHANGED <<attempt, todo, gone>>

\* Decide: another attempt, or the message is given up.
Retry(r) ==
    IF attempt[r] < MaxAttempts
    THEN /\ attempt' = [attempt EXCEPT ![r] = @ + 1]
         /\ Go(r, "deliver")
         /\ UNCHANGED <<todo, gone>>
    ELSE Finish(r, <<Outbound("dead_letter")>>) /\ UNCHANGED attempt

\* DeliverMessage, after the sleep that precedes every attempt but the first
\* and that the end of the context interrupts: the last attempt on record is
\* then one that was to be retried.  An attempt reports success, or an error
\* (after a timeout the message may have been sent all the same).
Attempt(r) ==
    /\ At(r, "deliver")
    /\ Returns(r)
    /\ \/ /\ gone[r] /\ attempt[r] > 1
          /\ Finish(r, <<Outbound("retry_scheduled")>>)
          /\ UNCHANGED <<confirmed, attempt>>
       \/ /\ ~gone[r]
          /\ confirmed' = confirmed \cup {r}
          /\ Go(r, "outturn")
          /\ attempt' = [attempt EXCEPT ![r] = 1]
          /\ UNCHANGED <<todo, gone>>
       \/ Retry(r) /\ UNCHANGED confirmed
    /\ UNCHANGED <<cfg, sent, last, replay, event, prior, executed, turns, chat,
                   service, crashes>>

-----------------------------------------------------------------------------
(* The service record and the answer.                                      *)

HealthOf(status) ==
    CASE status \in {"success", "executed"}   -> "healthy"
      [] status = "retry_scheduled"           -> "degraded"
      [] status \in {"dead_letter", "failed"} -> "failed"

\* Mutant: an inbound event resets the health.
MutChanged(rec, change) ==
    IF change.kind = "inbound"
    THEN [rec EXCEPT !.health = "receiving"]
    ELSE [rec EXCEPT !.status = change.status,
                     !.health = HealthOf(change.status)]

\* What RecordServiceInboundEvent and RecordServiceOutboundEvent change.
Changed(rec, change) ==
    IF change.kind = "inbound"
    THEN [rec EXCEPT !.health = IF @ = "none" THEN "receiving" ELSE @]
    ELSE [rec EXCEPT !.status = change.status,
                     !.health = HealthOf(change.status)]

\* LoadService inside a change of the record: when the file cannot be read
\* the change is dropped.
LoadRecord(r) ==
    /\ At(r, "record")
    /\ todo[r] # <<>> /\ Head(todo[r]) # ThenRoute
    /\ \E now \in Loads(file, Others(r, "write")) :
         IF now.readable
         THEN /\ record' = [record EXCEPT ![r] = Changed(now.data, Head(todo[r]))]
              /\ Go(r, "write")
              /\ UNCHANGED todo
         ELSE todo' = [todo EXCEPT ![r] = Tail(@)] /\ UNCHANGED <<pc, record>>
    /\ UNCHANGED <<cfg, platform, replay, event, gone, attempt, prior, history,
                   turns, chat, file, crashes>>

\* SaveService.
SaveRecord(r) ==
    /\ At(r, "write")
    /\ file'   \in Writes(file, record[r], Others(r, "write"))
    /\ todo'   = [todo EXCEPT ![r] = Tail(@)]
    /\ record' = [record EXCEPT ![r] = NewRecord]
    /\ Go(r, "record")
    /\ UNCHANGED <<cfg, platform, replay, event, gone, attempt, prior, history,
                   turns, chat, crashes>>

\* The handlers of these requests are gone, and all they had in hand.
Forget(rs) ==
    LET Reset(f, v) == [r \in Requests |-> IF r \in rs THEN v ELSE f[r]] IN
    /\ pc'      = Reset(pc, "idle")
    /\ event'   = Reset(event, 0)
    /\ gone'    = Reset(gone, FALSE)
    /\ attempt' = Reset(attempt, 1)
    /\ prior'   = Reset(prior, <<>>)
    /\ todo'    = Reset(todo, <<>>)
    /\ draft'   = Reset(draft, <<>>)
    /\ record'  = Reset(record, NewRecord)

\* The answer is written, with the reply on the webhook path, whether the
\* platform still waits for it or not.
Answer(r) ==
    /\ At(r, "record")
    /\ todo[r] = <<>>
    /\ Forget({r})
    /\ UNCHANGED <<cfg, platform, replay, history, turns, transcript, file, crashes>>

\* The server dies and is started again: open requests and the replay store
\* are gone; a file that was being written may be left unreadable.
Crash ==
    /\ crashes < MaxCrashes
    /\ crashes'   = crashes + 1
    /\ seen'      = {}
    /\ forgotten' = [e \in Events |-> forgotten[e] + (IF e \in seen THEN 1 ELSE 0)]
    /\ Forget(Requests)
    /\ hung' = {}
    /\ transcript' \in Loads(transcript, Others(0, "save"))
    /\ file'       \in Loads(file, Others(0, "write"))
    /\ UNCHANGED <<cfg, sent, last, history, turns>>

Handle(r) ==
    \/ Acknowledge(r) \/ Ingress(r) \/ Normalize(r) \/ RouteWebhook(r)
    \/ ReadPrior(r) \/ RecordInbound(r) \/ RecordOutbound(r)
    \/ Execute(r) \/ ChatLoad(r) \/ ChatComplete(r) \/ ChatSave(r)
    \/ Attempt(r)
    \/ LoadRecord(r) \/ SaveRecord(r) \/ Answer(r)

Next ==
    \/ \E e \in Events : Receive(e) \/ Expire(e)
    \/ \E r \in Requests : Disconnect(r) \/ Hang(r) \/ Handle(r)
    \/ Crash

\* A handler is a goroutine of its own: once started it keeps running, unless
\* it waits for a call that gets no answer (Hang).
Fairness == \A r \in Requests : WF_vars(Handle(r))

Spec == Init /\ [][Next]_vars /\ Fairness

-----------------------------------------------------------------------------
\* The values of the service, and a conversation store within its retention
\* whatever handlers append to it (SQLiteHistory.Append prunes as it inserts).
TypeOK ==
    /\ cfg \in Services
    /\ sent \in 0..MaxDeliveries /\ last \in 0..NumEvents
    /\ seen \subseteq Events /\ forgotten \in [Events -> Nat]
    /\ pc \in [Requests -> {"idle", "acknowledge", "ingress",
                 "prior", "inturn", "outturn", "execute", "load", "complete", "save",
                 "deliver", "record", "write"}]
    /\ gone \in [Requests -> BOOLEAN] /\ hung \subseteq Requests
    /\ attempt \in [Requests -> 0..MaxAttempts]
    /\ executed \in [Events -> Nat]
    /\ Len(turns) <= Retention

\* A Slack event reaches its executor at most once for every time the replay
\* store was without it, whatever the number of deliveries and of handlers
\* that work on them at the same time (MarkSeen in handleSlackAcknowledgement).
ExecutedOncePerMemory ==
    cfg.path = "slack" =>
        \A e \in Events : executed[e] <= 1 + forgotten[e]

\* Where the runtime delivers the reply, an outbound turn is on record only if
\* the provider reported it as sent: failed, abandoned and interrupted
\* deliveries leave none (recordOutboundTurn after deliverWithRetry).  The
\* webhook path notes the turn before it writes the answer that is the reply.
OutboundWasSent ==
    cfg.path # "webhook" =>
      \A i \in DOMAIN turns :
        turns[i].dir = "outbound" => turns[i].of \in confirmed

\* In the conversation store a reply never precedes the message it answers,
\* although other handlers append and prune in between, and the prior turns
\* handed to an action never hold the message the action is run for
\* (priorTurns before recordInboundTurn in ExecuteAction).
HistoryInOrder ==
    /\ \A i, j \in DOMAIN turns :
        /\ turns[i].of = turns[j].of
        /\ turns[i].dir = "inbound" /\ turns[j].dir = "outbound"
        => i < j
    /\ \A r \in Requests : \A i \in DOMAIN prior[r] : prior[r][i].of # r

\* A readable transcript is a sequence of exchanges, each a user's turn and
\* the answer to it, even when concurrent turns overwrite each other and
\* when completions fail (Service.Send saves only after the completion).
TranscriptIsExchanges ==
    transcript.readable =>
        LET t == transcript.data IN
        /\ Len(t) % 2 = 0
        /\ \A i \in DOMAIN t :
             IF i % 2 = 1
             THEN t[i].role = "user"
             ELSE t[i].role = "assistant" /\ t[i].of = t[i - 1].of

\* In a readable service record the health is that of the last outbound
\* event on record, however the handlers' loads and saves interleave and
\* whichever of their changes is lost.
HealthFollowsOutbound ==
    file.readable /\ file.data.status # "none" =>
        file.data.health = HealthOf(file.data.status)

\* Every webhook is answered, however the deliveries of the reply fail: the
\* retries of deliverWithRetry end, also when the platform has gone (or the
\* server dies).  The one thing that keeps it from its answer is a call that
\* gets none, and that only as long as the platform waits.
EveryWebhookIsAnswered ==
    \A r \in Requests :
        pc[r] # "idle" ~> pc[r] = "idle" \/ (r \in hung /\ ~gone[r])
=============================================================================
