---------------------------- MODULE ChannelUpdates ----------------------------
(***************************************************************************)
(* The messages one person sends to a Telegram bot: the webhook records an *)
(* update and queues a job for it, a worker hands the update to the        *)
(* channel router, and the router accepts the event once, finds or makes   *)
(* the conversation, and answers it: by a command, by a run of the agent,  *)
(* or by asking for a human.  Telegram repeats an update until it gets a   *)
(* 200; a job that throws is tried again.  Statements of the handlers are  *)
(* separate actions, so requests, workers and an administrator interleave. *)
(***************************************************************************)
EXTENDS Naturals, FiniteSets

CONSTANTS
    Updates,      \* the updates of the person
    Requests,     \* webhook requests under way at the same time
    Workers,      \* workers
    Texts,        \* which of the Kinds of text the updates may have
    HandoffMode,  \* settings.handoffMode of the connection
    Deliveries,   \* deliveries of one update (bound of the model)
    Tries,        \* maxAttempts of the job (5)
    Events        \* which of EventKinds happen in this instance

\* A text the processor answers itself, one it cannot use, the commands of the
\* router, a plain question, and a question for a human.
Kinds == {"direct", "other", "menu", "new", "ai", "chat", "human"}
EventKinds == {"lost", "fail", "error", "crash", "admin", "unlink", "approval"}

VARIABLES
    text,       \* what each update says
    enabled,    \* the integration is enabled and verified
    update,     \* telegram_updates
    job,        \* the graphile jobs, of one serial queue
    request,    \* the webhook requests
    left,       \* deliveries Telegram has left
    acked,      \* Telegram got a 200
    worker,     \* what each worker does
    event,      \* channel_events, incoming
    link,       \* channel_conversation_links of the person
    admin,      \* an administrator's request to take the conversation over
    handoffs,   \* channel_handoffs
    made,       \* history: conversations made
    switched,   \* history: how often the conversation was given to a human
    runs,       \* history: runs of the agent started for each update
    answers     \* history: answers sent for each update

vars == <<text, enabled, update, job, request, left, acked, worker, event, link, admin,
          handoffs, made, switched, runs, answers>>
webhook == <<request, left, acked>>
routing == <<event, link, handoffs, made, switched, runs, answers>>

Job == INSTANCE GraphileJob

Fresh == [st |-> "none", err |-> "none"]
NoRequest == [at |-> "idle", u |-> "none"]
NoLink == [conv |-> 0, mode |-> "none", st |-> "none"]
NoWork == [at |-> "idle", u |-> "none", link |-> NoLink, failed |-> FALSE]

U(k) == worker[k].u
At(k, at) == worker[k].at = at
Goto(k, at) == worker' = [worker EXCEPT ![k].at = at]
\* Some await of the step fails and throws.
Throws == "error" \in Events

----------------------------------------------------------------------------
(* The webhook.                                                             *)

Terminal(u) ==
    \/ update[u].st \in {"completed", "ignored"}
    \/ update[u].st = "failed" /\ update[u].err # "queue"

\* The answer 200, which Telegram may not get to see.
Answer(u) ==
    \/ acked' = [acked EXCEPT ![u] = TRUE]
    \/ "lost" \in Events /\ UNCHANGED acked

\* A delivery: the update is dropped without an integration, recorded the
\* first time, and taken up again unless it has ended.
Receive(p) ==
    /\ request[p].at = "idle"
    /\ \E u \in Updates :
         /\ ~acked[u] /\ left[u] > 0
         /\ left' = [left EXCEPT ![u] = @ - 1]
         /\ \/ /\ ~enabled \/ Terminal(u)
               /\ Answer(u) /\ UNCHANGED <<request, update>>
            \/ /\ enabled /\ ~Terminal(u)
               /\ request' = [request EXCEPT ![p] = [at |-> "enqueue", u |-> u]]
               /\ update' = IF update[u].st = "none"
                            THEN [update EXCEPT ![u].st = "accepted"] ELSE update
               /\ UNCHANGED acked
            \/ /\ enabled /\ "fail" \in Events      \* the row cannot be written: 503
               /\ UNCHANGED <<request, update, acked>>
    /\ UNCHANGED <<text, enabled, job, worker, admin, routing>>

\* Defective variant: a request whose job could not be queued goes on.
EnqueueQuietly(p) ==
    /\ request[p].at = "enqueue"
    /\ \/ job' = [job EXCEPT ![request[p].u] = Job!added(@)]
       \/ "fail" \in Events /\ UNCHANGED job
    /\ request' = [request EXCEPT ![p].at = "mark"]
    /\ UNCHANGED <<text, enabled, update, left, acked, worker, admin, routing>>
\* enqueueTelegramUpdate.
Enqueue(p) ==
    /\ request[p].at = "enqueue"
    /\ \/ /\ job' = [job EXCEPT ![request[p].u] = Job!added(@)]
          /\ request' = [request EXCEPT ![p].at = "mark"]
       \/ /\ "fail" \in Events
          /\ request' = [request EXCEPT ![p].at = "unavailable"] /\ UNCHANGED job
    /\ UNCHANGED <<text, enabled, update, left, acked, worker, admin, routing>>

\* The row is marked after the job is queued, whatever the job did meanwhile.
MarkAccepted(p) ==
    /\ request[p].at = "mark"
    /\ update' = [update EXCEPT ![request[p].u] = [st |-> "accepted", err |-> "none"]]
    /\ Answer(request[p].u)
    /\ request' = [request EXCEPT ![p] = NoRequest]
    /\ UNCHANGED <<text, enabled, job, left, worker, admin, routing>>
\* The queue could not be reached: 503, and Telegram delivers again.
MarkUnavailable(p) ==
    /\ request[p].at = "unavailable"
    /\ update' = [update EXCEPT ![request[p].u] = [st |-> "accepted", err |-> "queue"]]
    /\ request' = [request EXCEPT ![p] = NoRequest]
    /\ UNCHANGED <<text, enabled, job, left, acked, worker, admin, routing>>

RequestLost(p) ==
    /\ "crash" \in Events /\ request[p].at # "idle"
    /\ request' = [request EXCEPT ![p] = NoRequest]
    /\ UNCHANGED <<text, enabled, update, job, left, acked, worker, admin, routing>>

----------------------------------------------------------------------------
(* The processor of an update, and the queue.                               *)

\* Defective variant: the jobs of a bot run side by side.
QueueOpen == TRUE
\* The queue of the organization runs one job at a time.
QueueFree == \A u \in Updates : job[u].st # "locked"
Take(k) ==
    /\ At(k, "idle") /\ QueueFree
    /\ \E u \in Updates :
         /\ job[u].st = "waiting"
         /\ job' = [job EXCEPT ![u] = Job!taken(@)]
         /\ worker' = [worker EXCEPT ![k] = [NoWork EXCEPT !.at = "open", !.u = u]]
    /\ UNCHANGED <<text, enabled, update, webhook, admin, routing>>

\* The job's end: its row goes away.
Ends(k) ==
    /\ job' = [job EXCEPT ![U(k)] = Job!Absent]
    /\ worker' = [worker EXCEPT ![k] = NoWork]
Open(k) ==
    /\ At(k, "open")
    /\ IF ~enabled \/ text[U(k)] = "other"
       THEN /\ update' = [update EXCEPT ![U(k)] = [st |-> "ignored", err |-> "other"]]
            /\ Ends(k)
       ELSE /\ Goto(k, IF text[U(k)] = "direct" THEN "reply" ELSE "accept")
            /\ UNCHANGED <<update, job>>
    /\ UNCHANGED <<text, enabled, webhook, admin, routing>>

\* /start, /help and /github are answered here; other texts are routed.
Reply(k) ==
    /\ At(k, "reply")
    /\ \/ /\ answers' = [answers EXCEPT ![U(k)] = @ + 1]
          /\ Goto(k, "mark")
       \/ Throws /\ Goto(k, "markfailed") /\ UNCHANGED answers
    /\ UNCHANGED <<text, enabled, update, job, webhook, event, link, admin,
                   handoffs, made, switched, runs>>

\* markUpdate "completed": for a duplicate event too.
MarkCompleted(k) ==
    /\ At(k, "mark")
    /\ update' = [update EXCEPT ![U(k)] = [st |-> "completed", err |-> "none"]]
    /\ Ends(k)
    /\ UNCHANGED <<text, enabled, webhook, admin, routing>>

\* The catch: the row is marked, the person is told, the error goes on to the
\* queue, which tries the job again.
MarkFailed(k) ==
    /\ At(k, "markfailed")
    /\ update' = [update EXCEPT ![U(k)] = [st |-> "failed", err |-> "other"]]
    /\ Goto(k, "throw")
    /\ UNCHANGED <<text, enabled, job, webhook, admin, routing>>
\* Defective variant: the error is not passed on to the queue.
RethrowNot(k) ==
    /\ At(k, "throw")
    /\ Ends(k)
    /\ UNCHANGED <<text, enabled, update, webhook, admin, routing>>
\* The error, or the loss of the worker, costs the job an attempt.
Rethrow(k) ==
    /\ At(k, "throw") \/ ("crash" \in Events /\ ~At(k, "idle"))
    /\ job' = [job EXCEPT ![U(k)] = Job!returned(@, Tries)]
    /\ worker' = [worker EXCEPT ![k] = NoWork]
    /\ UNCHANGED <<text, enabled, update, webhook, admin, routing>>

----------------------------------------------------------------------------
(* routeIncomingChannelMessage.                                             *)

\* Defective variant: the insert does not meet a unique index.
acceptEventAgain(k) ==
    /\ At(k, "accept")
    /\ event' = [event EXCEPT ![U(k)] = "processing"]
    /\ Goto(k, "route")
    /\ UNCHANGED <<text, enabled, update, job, webhook, link, admin,
                   handoffs, made, switched, runs, answers>>
\* acceptEvent: an event that is there already is a duplicate, whatever became
\* of it.
acceptEvent(k) ==
    /\ At(k, "accept")
    /\ \/ /\ event[U(k)] = "none"
          /\ event' = [event EXCEPT ![U(k)] = "processing"]
          /\ Goto(k, "route")
       \/ event[U(k)] # "none" /\ Goto(k, "mark") /\ UNCHANGED event
       \/ Throws /\ Goto(k, "markfailed") /\ UNCHANGED event
    /\ UNCHANGED <<text, enabled, update, job, webhook, link, admin,
                   handoffs, made, switched, runs, answers>>

\* The policy, the quota, the contact and the route may refuse the message.
Route(k) ==
    /\ At(k, "route")
    /\ \/ Goto(k, IF text[U(k)] = "menu" THEN "send" ELSE "link")
       \/ Throws /\ Goto(k, "fail")
    /\ UNCHANGED <<text, enabled, update, job, webhook, admin, routing>>

\* ensureConversationLink goes on with an active link, and otherwise makes a
\* conversation and writes the link anew, in a later statement.
continued(l) == l.conv > 0 /\ l.st = "active"
LinkRead(k) ==
    /\ At(k, "link")
    /\ worker' = [worker EXCEPT ![k].link = link,
                                ![k].at = IF ~continued(link)
                                             \/ (text[U(k)] = "new" /\ ~worker[k].failed)
                                          THEN "create"
                                          ELSE IF worker[k].failed THEN "handoff" ELSE "decide"]
    /\ UNCHANGED <<text, enabled, update, job, webhook, admin, routing>>
LinkWrite(k) ==
    /\ At(k, "create")
    /\ made' = made + 1
    /\ link' = [conv |-> made', mode |-> HandoffMode, st |-> "active"]
    /\ worker' = [worker EXCEPT ![k].link = link',
                                ![k].at = IF worker[k].failed THEN "handoff" ELSE "decide"]
    /\ UNCHANGED <<text, enabled, update, job, webhook, event, admin,
                   handoffs, switched, runs, answers>>

ForceHuman(k) ==
    \/ text[U(k)] = "human"
    \/ HandoffMode \in {"human", "human_then_ai"}
    \/ worker[k].link.mode = "human"
\* What the link and the text make of the message.
Decide(k) ==
    /\ At(k, "decide")
    /\ \/ text[U(k)] = "new" /\ Goto(k, "send") /\ UNCHANGED link
       \/ /\ text[U(k)] = "ai" /\ Goto(k, "send")
          /\ link' = [link EXCEPT !.mode = "ai", !.st = "active"]
       \/ /\ text[U(k)] \in {"chat", "human"} /\ UNCHANGED link
          /\ \/ Goto(k, IF ForceHuman(k) THEN "handoff" ELSE "run")
             \/ Throws /\ Goto(k, "fail")     \* a permission or an attachment
    /\ UNCHANGED <<text, enabled, update, job, webhook, event, admin,
                   handoffs, made, switched, runs, answers>>

\* The message is stored and executeAgentRun answers, asks for an approval, or
\* throws.
AgentRun(k) ==
    /\ At(k, "run")
    /\ runs' = [runs EXCEPT ![U(k)] = @ + 1]
    /\ \/ Goto(k, "send")
       \/ "approval" \in Events /\ Goto(k, "handoff")
       \/ Throws /\ Goto(k, "fail")
    /\ UNCHANGED <<text, enabled, update, job, webhook, event, link, admin,
                   handoffs, made, switched, answers>>

\* The link as requestHandoff leaves it.
givenToHuman(l) == [l EXCEPT !.mode = "human", !.st = "handoff_requested"]
\* Defective variant: the link first, then the row for the inbox.
HandoffInsertLate(k) ==
    /\ At(k, "handoff")
    /\ link' = givenToHuman(link) /\ switched' = switched + 1
    /\ Goto(k, "switch")
    /\ UNCHANGED <<text, enabled, update, job, webhook, event, admin,
                   handoffs, made, runs, answers>>
\* requestHandoff: the row for the inbox, then the link.
HandoffInsert(k) ==
    /\ At(k, "handoff")
    /\ \/ handoffs' = handoffs + 1 /\ Goto(k, "switch")
       \/ /\ Throws /\ Goto(k, IF worker[k].failed THEN "tell" ELSE "fail")
          /\ UNCHANGED handoffs
    /\ UNCHANGED <<text, enabled, update, job, webhook, event, link, admin,
                   made, switched, runs, answers>>
HandoffSwitch(k) ==
    /\ At(k, "switch")
    /\ link' = givenToHuman(link) /\ switched' = switched + 1
    /\ Goto(k, IF worker[k].failed THEN "tell" ELSE "send")
    /\ UNCHANGED <<text, enabled, update, job, webhook, event, admin,
                   handoffs, made, runs, answers>>

\* sendAndRecord: the channel may refuse, or the record may fail after it sent.
Send(k) ==
    /\ At(k, "send")
    /\ \/ answers' = [answers EXCEPT ![U(k)] = @ + 1] /\ Goto(k, "close")
       \/ /\ Throws /\ Goto(k, "fail")
          /\ \/ answers' = [answers EXCEPT ![U(k)] = @ + 1]
             \/ UNCHANGED answers
    /\ UNCHANGED <<text, enabled, update, job, webhook, event, link, admin,
                   handoffs, made, switched, runs>>
Close(k) ==
    /\ At(k, "close")
    /\ event' = [event EXCEPT ![U(k)] = "completed"]
    /\ Goto(k, "mark")
    /\ UNCHANGED <<text, enabled, update, job, webhook, link, admin,
                   handoffs, made, switched, runs, answers>>

HandOnFailure == HandoffMode \in {"agent_failure", "ai_then_human"}
\* The catch of the router: the event has failed, a human may be asked for,
\* and the person is told so.
Fail(k) ==
    /\ At(k, "fail")
    /\ event' = [event EXCEPT ![U(k)] = "failed"]
    /\ worker' = [worker EXCEPT ![k].failed = TRUE,
                                ![k].at = IF HandOnFailure THEN "link" ELSE "tell"]
    /\ UNCHANGED <<text, enabled, update, job, webhook, link, admin,
                   handoffs, made, switched, runs, answers>>
Tell(k) ==
    /\ At(k, "tell")
    /\ Goto(k, "markfailed")
    /\ UNCHANGED <<text, enabled, update, job, webhook, admin, routing>>

----------------------------------------------------------------------------
(* Administrators.                                                          *)

\* requestAdminHandoff: the row for the inbox, then the link.
AdminInsert ==
    /\ "admin" \in Events /\ admin = "idle" /\ link.conv > 0
    /\ admin' = "switch" /\ handoffs' = handoffs + 1
    /\ UNCHANGED <<text, enabled, update, job, webhook, worker, event, link,
                   made, switched, runs, answers>>
AdminSwitch ==
    /\ admin = "switch"
    /\ admin' = "done" /\ switched' = switched + 1
    /\ link' = [link EXCEPT !.mode = "human", !.st = "human_assigned"]
    /\ UNCHANGED <<text, enabled, update, job, webhook, worker, event,
                   handoffs, made, runs, answers>>
\* The integration is removed or disabled.
Unlink ==
    /\ "unlink" \in Events /\ enabled
    /\ enabled' = FALSE
    /\ UNCHANGED <<text, update, job, webhook, worker, admin, routing>>

----------------------------------------------------------------------------
Init ==
    /\ text \in [Updates -> Texts]
    /\ enabled = TRUE
    /\ update = [u \in Updates |-> Fresh]
    /\ job = [u \in Updates |-> Job!Absent]
    /\ request = [p \in Requests |-> NoRequest]
    /\ left = [u \in Updates |-> Deliveries]
    /\ acked = [u \in Updates |-> FALSE]
    /\ worker = [k \in Workers |-> NoWork]
    /\ event = [u \in Updates |-> "none"]
    /\ link = NoLink /\ admin = "idle"
    /\ handoffs = 0 /\ made = 0 /\ switched = 0
    /\ runs = [u \in Updates |-> 0]
    /\ answers = [u \in Updates |-> 0]

Serve(p) == Enqueue(p) \/ MarkAccepted(p) \/ MarkUnavailable(p)
Process(k) ==
    \/ Open(k) \/ Reply(k) \/ MarkCompleted(k) \/ MarkFailed(k) \/ Rethrow(k)
    \/ acceptEvent(k) \/ Route(k) \/ LinkRead(k) \/ LinkWrite(k) \/ Decide(k) \/ AgentRun(k)
    \/ HandoffInsert(k) \/ HandoffSwitch(k) \/ Send(k) \/ Close(k) \/ Fail(k) \/ Tell(k)

Next ==
    \/ \E p \in Requests : Receive(p) \/ Serve(p) \/ RequestLost(p)
    \/ \E k \in Workers : Take(k) \/ Process(k)
    \/ AdminInsert \/ AdminSwitch \/ Unlink

Spec == Init /\ [][Next]_vars
\* Requests and workers go on; Telegram need not deliver again.
Fairness ==
    /\ \A p \in Requests : WF_vars(Serve(p))
    /\ \A k \in Workers : WF_vars(Take(k)) /\ WF_vars(Process(k))
FairSpec == Spec /\ Fairness

----------------------------------------------------------------------------
RequestType == [at : {"idle", "enqueue", "mark", "unavailable"}, u : Updates \cup {"none"}]
LinkType == [conv : Nat, mode : {"none", "ai", "human", HandoffMode},
             st : {"none", "active", "handoff_requested", "human_assigned"}]

\* The types, and what a worker relies on: the job it holds is locked, and an
\* event whose failure it is dealing with has been recorded as failed.
TypeOK ==
    /\ update \in [Updates -> [st : {"none", "accepted", "completed", "failed", "ignored"},
                               err : {"none", "queue", "other"}]]
    /\ \A u \in Updates : job[u].st \in Job!RowStates /\ job[u].tries \in 0..Tries
    /\ request \in [Requests -> RequestType]
    /\ event \in [Updates -> {"none", "processing", "completed", "failed"}]
    /\ link \in LinkType
    /\ \A k \in Workers : worker[k].link \in LinkType
    /\ \A k \in Workers : ~At(k, "idle") => job[U(k)].st = "locked"
    /\ \A k \in Workers : worker[k].failed => event[U(k)] = "failed"

\* However often an update is delivered and its job tried, and whatever crashes
\* in between, at most one run of the agent is started for it and at most one
\* answer of the router is sent.
RoutedOnce ==
    \A u \in Updates : text[u] # "direct" => runs[u] <= 1 /\ answers[u] <= 1

\* Once Telegram has been answered 200 and will not deliver an update again, its
\* job is there, or it has been answered or accepted by the router.
AcknowledgedIsQueued ==
    \A u \in Updates :
        acked[u] /\ enabled /\ text[u] # "other" =>
            job[u].st # "absent" \/ answers[u] > 0 \/ event[u] # "none"

\* A message is handled in the conversation the person's link leads to: no
\* other message of the person replaces the link meanwhile.
InLinkedConversation ==
    \A k \in Workers :
        worker[k].at \in {"decide", "run", "handoff", "switch"} => worker[k].link.conv = link.conv

\* Every time a conversation is given to a human, a request is in the inbox.
HandoffIsListed == switched <= handoffs

\* An update Telegram got a 200 for ends: it is answered, it has failed and the
\* person was told so, or there is nothing to answer.
Settled(u) ==
    \/ event[u] \in {"completed", "failed"} \/ answers[u] > 0
    \/ job[u].st = "dead" \/ text[u] = "other" \/ ~enabled
AcknowledgedSettles == \A u \in Updates : acked[u] ~> Settled(u)

\* API.md: the webhook keeps update_id so that nothing is executed twice; here
\* for the commands the processor answers itself.
ExecutedOnce == \A u \in Updates : answers[u] <= 1

=============================================================================
