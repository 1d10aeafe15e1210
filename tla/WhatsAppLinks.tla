----------------------------- MODULE WhatsAppLinks -----------------------------
(***************************************************************************)
(* The shared WhatsApp number: a user asks the dashboard for a link, sends *)
(* its token from a telephone and is connected; messages of a connected    *)
(* telephone are served as that user; either side disconnects.  Meta       *)
(* delivers messages in payloads and repeats a whole payload until it gets *)
(* a 200; each message has a row and a job of one serial queue, and a job  *)
(* that throws is tried again.                                             *)
(***************************************************************************)
EXTENDS Naturals, FiniteSets

CONSTANTS
    Users,       \* users of the platform
    Phones,      \* WhatsApp ids
    MaxTokens,   \* connect links made (bound of the model)
    Payloads,    \* webhook payloads, each a set of messages
    Deliveries,  \* deliveries of one payload (bound of the model)
    Tries,       \* maxAttempts of the job (5)
    Events       \* which of EventKinds happen in this instance

ASSUME TokensAssumption == MaxTokens \in Nat

Messages == UNION Payloads
Tokens == 1..MaxTokens
EventKinds == {"lost", "fail", "error", "fatal", "crash", "expire", "dashboard", "disabled"}

VARIABLES
    conn,     \* whatsapp_connections: one row per user
    token,    \* whatsapp_link_tokens
    says,     \* what each message says
    rec,      \* whatsapp_webhook_events
    job,      \* the graphile jobs of whatsapp-central
    request,  \* the webhook request of each payload
    left,     \* deliveries Meta has left
    acked,    \* the payloads Meta got a 200 for
    worker,   \* what the worker does
    links,    \* history: how often each token connected its user
    stale     \* history: tokens that were replaced, or whose user disconnected, unused

vars == <<conn, token, says, rec, job, request, left, acked, worker, links, stale>>
webhook == <<request, left, acked>>
accounts == <<conn, token, links, stale>>

Job == INSTANCE GraphileJob

Unlinked == [wa |-> "none", st |-> "disconnected"]
NoToken == [user |-> "none", st |-> "none"]
Silent == [kind |-> "none", from |-> "none", token |-> 0]
NoRequest == [at |-> "idle", todo |-> {}, m |-> "none", failed |-> FALSE]
NoWork == [at |-> "idle", m |-> "none", user |-> "none"]

At(at) == worker.at = at
Goto(at) == worker' = [worker EXCEPT !.at = at]
M == worker.m

----------------------------------------------------------------------------
(* The accounts.                                                            *)

OpenOf(u) == {t \in Tokens : token[t].user = u /\ token[t].st = "open"}
\* Defective variant: only the connection is dealt with.
tokensLeft(u) == token
\* Unused tokens of the user are revoked.
tokensRevoked(u) == [t \in Tokens |-> IF t \in OpenOf(u) THEN [token[t] EXCEPT !.st = "revoked"]
                                      ELSE token[t]]
Issued == {t \in Tokens : token[t].st # "none"}

\* createWhatsAppConnectLink, under the lock of the user.
createWhatsAppConnectLink(u) ==
    /\ Cardinality(Issued) < MaxTokens
    /\ LET t == Cardinality(Issued) + 1
       IN token' = [tokensRevoked(u) EXCEPT ![t] = [user |-> u, st |-> "open"]]
    /\ stale' = stale \cup OpenOf(u)
    /\ UNCHANGED <<conn, says, rec, job, webhook, worker, links>>

\* The row of a disconnected user; the tokens that could connect it go too.
disconnected(u) ==
    /\ conn' = [conn EXCEPT ![u] = Unlinked]
    /\ token' = tokensRevoked(u)
    /\ stale' = stale \cup OpenOf(u)
disconnectWhatsAppForUser(u) ==
    /\ "dashboard" \in Events
    /\ conn[u] # Unlinked
    /\ disconnected(u)
    /\ UNCHANGED <<says, rec, job, webhook, worker, links>>

TokenExpires ==
    /\ "expire" \in Events
    /\ \E t \in Tokens : token[t].st = "open" /\ token' = [token EXCEPT ![t].st = "expired"]
    /\ UNCHANGED <<conn, says, rec, job, webhook, worker, links, stale>>

\* The user a telephone is connected to: connectedWhatsAppUser.
OwnersOf(wa) == {u \in Users : conn[u].wa = wa /\ conn[u].st = "connected"}

----------------------------------------------------------------------------
(* The webhook.                                                             *)

\* What a person may send: a link's token, a confirmation that the telephone is
\* to be disconnected, or anything else.
Sendable ==
    [kind : {"connect"}, from : Phones, token : Issued]
      \cup [kind : {"unlink", "chat"}, from : Phones, token : {0}]

Receive(P) ==
    /\ request[P].at = "idle" /\ P \notin acked /\ left[P] > 0
    /\ left' = [left EXCEPT ![P] = @ - 1]
    /\ request' = [request EXCEPT ![P] = [NoRequest EXCEPT !.at = "next", !.todo = P]]
    /\ IF left[P] < Deliveries THEN UNCHANGED says
       ELSE \E said \in [P -> Sendable] :
               says' = [m \in Messages |-> IF m \in P THEN said[m] ELSE says[m]]
    /\ UNCHANGED <<accounts, rec, job, acked, worker>>

Terminal(m) ==
    \/ rec[m].st \in {"completed", "ignored"}
    \/ rec[m].st = "failed" /\ rec[m].err # "queue"
\* eventRow: a message that has ended is passed over, any other is queued.
EventRow(P) ==
    /\ request[P].at = "next"
    /\ \E m \in request[P].todo :
         \/ /\ Terminal(m)
            /\ request' = [request EXCEPT ![P].todo = @ \ {m}] /\ UNCHANGED rec
         \/ /\ ~Terminal(m)
            /\ request' = [request EXCEPT ![P].at = "enqueue", ![P].m = m]
            /\ rec' = IF rec[m].st = "none" THEN [rec EXCEPT ![m].st = "accepted"] ELSE rec
         \/ /\ "fail" \in Events               \* the request ends with a 500
            /\ request' = [request EXCEPT ![P] = NoRequest] /\ UNCHANGED rec
    /\ UNCHANGED <<accounts, says, job, left, acked, worker>>
\* enqueueWhatsAppChannelUpdate.
Enqueue(P) ==
    /\ request[P].at = "enqueue"
    /\ \/ /\ job' = [job EXCEPT ![request[P].m] = Job!added(@)]
          /\ request' = [request EXCEPT ![P].at = "mark"]
       \/ /\ "fail" \in Events
          /\ request' = [request EXCEPT ![P].at = "unavailable"] /\ UNCHANGED job
    /\ UNCHANGED <<accounts, says, rec, left, acked, worker>>
passed(r) == [r EXCEPT !.at = "next", !.todo = @ \ {r.m}, !.m = "none"]
MarkAccepted(P) ==
    /\ request[P].at = "mark"
    /\ rec' = [rec EXCEPT ![request[P].m] = [st |-> "accepted", err |-> "none"]]
    /\ request' = [request EXCEPT ![P] = passed(@)]
    /\ UNCHANGED <<accounts, says, job, left, acked, worker>>
\* Defective variant: the payload does not remember that a message failed.
MarkUnavailableForgotten(P) ==
    /\ request[P].at = "unavailable"
    /\ rec' = [rec EXCEPT ![request[P].m] = [st |-> "accepted", err |-> "queue"]]
    /\ request' = [request EXCEPT ![P] = passed(@)]
    /\ UNCHANGED <<accounts, says, job, left, acked, worker>>
\* One message could not be queued: the others go on, and the payload fails.
MarkUnavailable(P) ==
    /\ request[P].at = "unavailable"
    /\ rec' = [rec EXCEPT ![request[P].m] = [st |-> "accepted", err |-> "queue"]]
    /\ request' = [request EXCEPT ![P] = [passed(@) EXCEPT !.failed = TRUE]]
    /\ UNCHANGED <<accounts, says, job, left, acked, worker>>
\* 200, which Meta may not get to see, or 503; or the process is lost.
Respond(P) ==
    /\ request[P].at = "next" /\ request[P].todo = {}
    /\ \/ ~request[P].failed /\ acked' = acked \cup {P}
       \/ (request[P].failed \/ "lost" \in Events) /\ UNCHANGED acked
    /\ request' = [request EXCEPT ![P] = NoRequest]
    /\ UNCHANGED <<accounts, says, rec, job, left, worker>>
RequestLost(P) ==
    /\ "crash" \in Events /\ request[P].at # "idle"
    /\ request' = [request EXCEPT ![P] = NoRequest]
    /\ UNCHANGED <<accounts, says, rec, job, left, acked, worker>>

----------------------------------------------------------------------------
(* processWhatsAppChannelUpdate.                                            *)

Take ==
    /\ At("idle")
    /\ \E m \in Messages :
         /\ job[m].st = "waiting"
         /\ job' = [job EXCEPT ![m] = Job!taken(@)]
         /\ worker' = [NoWork EXCEPT !.at = "open", !.m = m]
    /\ UNCHANGED <<accounts, says, rec, webhook>>
Ends ==
    /\ job' = [job EXCEPT ![M] = Job!Absent]
    /\ worker' = NoWork

\* An open token connects its user unless the telephone has another owner.
consumable(t, wa) == /\ token[t].st = "open"
                     /\ OwnersOf(wa) \subseteq {token[t].user}
\* consumeWhatsAppConnectToken, one transaction under the locks of the user,
\* the token and the telephone's connection.
Connect ==
    /\ At("open") /\ says[M].kind = "connect"
    /\ LET t == says[M].token
           u == token[t].user
       IN IF consumable(t, says[M].from)
          THEN /\ conn' = [conn EXCEPT ![u] = [wa |-> says[M].from, st |-> "connected"]]
               /\ token' = [tokensRevoked(u) EXCEPT ![t].st = "used"]
               /\ stale' = stale \cup (OpenOf(u) \ {t})
               /\ links' = [links EXCEPT ![t] = @ + 1]
               /\ Goto("finish")
          ELSE /\ Goto("refuse") /\ UNCHANGED accounts
    /\ UNCHANGED <<says, rec, job, webhook>>

\* The user the telephone belongs to is read, and then the policy.
Identify ==
    /\ At("open") /\ says[M].kind # "connect"
    /\ IF OwnersOf(says[M].from) = {}
       THEN Goto("refuse")
       ELSE \/ \E u \in OwnersOf(says[M].from) :
                  worker' = [worker EXCEPT !.at = says[M].kind, !.user = u]
            \/ "disabled" \in Events /\ Goto("refuse")
    /\ UNCHANGED <<accounts, says, rec, job, webhook>>
\* disconnectWhatsAppByWaId: by the telephone, whoever has it by now.
disconnectWhatsAppByWaId ==
    /\ At("unlink")
    /\ \/ \E u \in OwnersOf(says[M].from) : disconnected(u)
       \/ OwnersOf(says[M].from) = {} /\ UNCHANGED <<conn, token, stale>>
    /\ Goto("finish")
    /\ UNCHANGED <<says, rec, job, webhook, links>>
\* The client runtime serves the message.
Serve ==
    /\ At("chat") /\ Goto("finish")
    /\ UNCHANGED <<accounts, says, rec, job, webhook>>

\* The person is answered, and the row is marked.
Finish ==
    /\ At("finish") \/ At("refuse")
    /\ rec' = [rec EXCEPT ![M] = IF At("finish") THEN [st |-> "completed", err |-> "none"]
                                 ELSE [st |-> "ignored", err |-> "other"]]
    /\ Ends
    /\ UNCHANGED <<accounts, says, webhook>>
\* An await throws after what was done: the row has failed, and the job is tried
\* again unless the error says that this is of no use.
Fail ==
    /\ worker.at \in {"chat", "finish", "refuse"}
    /\ rec' = [rec EXCEPT ![M] = [st |-> "failed", err |-> "other"]]
    /\ \/ "error" \in Events /\ Goto("throw") /\ UNCHANGED job
       \/ "fatal" \in Events /\ Ends
    /\ UNCHANGED <<accounts, says, webhook>>
Rethrow ==
    /\ At("throw") \/ ("crash" \in Events /\ ~At("idle"))
    /\ job' = [job EXCEPT ![M] = Job!returned(@, Tries)]
    /\ worker' = NoWork
    /\ UNCHANGED <<accounts, says, rec, webhook>>

----------------------------------------------------------------------------
Init ==
    /\ conn = [u \in Users |-> Unlinked]
    /\ token = [t \in Tokens |-> NoToken]
    /\ says = [m \in Messages |-> Silent]
    /\ rec = [m \in Messages |-> [st |-> "none", err |-> "none"]]
    /\ job = [m \in Messages |-> Job!Absent]
    /\ request = [P \in Payloads |-> NoRequest]
    /\ left = [P \in Payloads |-> Deliveries]
    /\ acked = {}
    /\ worker = NoWork
    /\ links = [t \in Tokens |-> 0]
    /\ stale = {}

Next ==
    \/ \E u \in Users : createWhatsAppConnectLink(u) \/ disconnectWhatsAppForUser(u)
    \/ TokenExpires
    \/ \E P \in Payloads :
          Receive(P) \/ EventRow(P) \/ Enqueue(P) \/ MarkAccepted(P) \/ MarkUnavailable(P)
            \/ Respond(P) \/ RequestLost(P)
    \/ Take \/ Connect \/ Identify \/ disconnectWhatsAppByWaId \/ Serve
    \/ Finish \/ Fail \/ Rethrow

Spec == Init /\ [][Next]_vars

----------------------------------------------------------------------------
\* The types, and that a message is being handled under the lock of its job.
TypeOK ==
    /\ conn \in [Users -> [wa : Phones \cup {"none"}, st : {"connected", "disconnected"}]]
    /\ token \in [Tokens -> [user : Users \cup {"none"},
                             st : {"none", "open", "used", "revoked", "expired"}]]
    /\ rec \in [Messages -> [st : {"none", "accepted", "completed", "failed", "ignored"},
                             err : {"none", "queue", "other"}]]
    /\ \A m \in Messages : job[m].st \in Job!RowStates /\ job[m].tries \in 0..Tries
    /\ ~At("idle") => job[M].st = "locked" /\ says[M].kind # "none"

\* WHATSAPP_BUSINESS.md: a token connects the sender once, however often its
\* message is delivered and its job tried.
TokenLinksOnce == \A t \in Tokens : links[t] <= 1

\* A token that a newer one replaced, or that was unused when its user
\* disconnected, connects nobody any more.
RevokedLinksNobody == \A t \in stale : links[t] = 0

\* A payload Meta got a 200 for has lost none of its messages: each has its job,
\* or an attempt has ended.
AcknowledgedPayloadIsQueued ==
    \A P \in acked : \A m \in P :
        job[m].st # "absent" \/ rec[m].st \in {"completed", "ignored", "failed"}
          \/ (rec[m].st = "accepted" /\ rec[m].err = "none")

=============================================================================
