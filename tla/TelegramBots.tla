----------------------------- MODULE TelegramBots -----------------------------
(***************************************************************************)
(* An organization's own Telegram bot: the row of `integrations` with its  *)
(* token and its config (the bot behind the token, the agent, the hash of  *)
(* the webhook's secret), what Telegram itself was last told about each    *)
(* bot's webhook, and the row of `channel_connections` that messages are   *)
(* routed by.  A request of the dashboard reads the row, talks to Telegram *)
(* (getMe, setWebhook, getWebhookInfo), writes the whole config back and   *)
(* then copies the row to the channel; other requests, updates from        *)
(* Telegram and edits of the channel come between.                         *)
(*                                                                         *)
(* A secret is named by the request that drew it, an integration by the    *)
(* request that created it.  There is one integration at a time, no other  *)
(* writes to the bot's webhook, and of the channel's row only what is      *)
(* copied from the integration is kept (no health, no settings).           *)
(***************************************************************************)
EXTENDS Naturals

CONSTANTS
    Requests,   \* requests and updates, each made once: {1, 2, ...}
    BotOf,      \* the bot of each token, a sequence
    Bodies      \* what may be asked for: [token, agent, enabled, activateWebhook],
                \* the first three the empty set where they are not given


VARIABLES
    row,        \* the row of integrations
    hook,       \* at Telegram: per bot the integration and secret of its webhook
    conn,       \* per bot the row of channel_connections
    req,        \* the requests and updates being handled
    tested,     \* the tokens getMe accepted
    confirmed,  \* the secrets whose webhook getWebhookInfo confirmed
    loose       \* a writer overlapped another or stopped half way, and no
                \* request has given a token undisturbed since

vars == <<row, hook, conn, req, tested, confirmed, loose>>

Tokens == DOMAIN BotOf
Bots == {BotOf[t] : t \in Tokens}

\* 0 is no integration, no agent and no secret.
NoRow == [id |-> 0, status |-> "none", enabled |-> FALSE, token |-> 0, bot |-> 0, agent |-> 0,
          active |-> FALSE, hash |-> 0]
NoConn == [exists |-> FALSE, id |-> 0, enabled |-> FALSE, agent |-> 0, edited |-> FALSE]
NoBody == [token |-> {}, agent |-> {}, enabled |-> {}, activateWebhook |-> FALSE]
NoReq == [pc |-> "new", kind |-> "none", body |-> NoBody, row |-> NoRow, seen |-> NoRow,
          alone |-> FALSE, was |-> FALSE]

TypeOK ==
    /\ row.id \in Requests \union {0} /\ row.status \in {"none", "pending", "verified", "failed"}
    /\ \A b \in Bots : hook[b].id \in Requests \union {0} /\ conn[b].id \in Requests \union {0}
    /\ \A p \in Requests : req[p].pc \in
         {"new", "hook", "confirm", "save", "reload", "conn", "test", "fail", "done"}
    /\ tested \subseteq Tokens /\ confirmed \subseteq Requests /\ loose \in BOOLEAN

Init ==
    /\ row = NoRow /\ tested = {} /\ confirmed = {} /\ loose = FALSE
    /\ hook = [b \in Bots |-> [id |-> 0, secret |-> 0]]
    /\ conn = [b \in Bots |-> NoConn]
    /\ req = [p \in Requests |-> NoReq]

-----------------------------------------------------------------------------
Idle == \A p \in Requests : req[p].pc \in {"new", "done"}

\* Requests are numbered as they arrive.
Begin(p, r) ==
    /\ req[p].pc = "new" /\ \A q \in Requests : q < p => req[q].pc # "new"
    /\ req' = [q \in Requests |-> IF q = p THEN [r EXCEPT !.alone = Idle, !.was = loose]
                                   ELSE [req[q] EXCEPT !.alone = FALSE]]

Goto(p, pc) == req' = [req EXCEPT ![p].pc = pc]
End(p) == req' = [req EXCEPT ![p] = [NoReq EXCEPT !.pc = "done"]]
Stop(p) == IF req[p].kind = "create" THEN Goto(p, "fail") ELSE End(p)

Given(new, old) == IF new = {} THEN old ELSE CHOOSE v \in new : TRUE

\* A new bot: its token was tested; it is not served before its webhook is set.
Create(p, body) ==
    LET t == Given(body.token, 0)
        new == [NoRow EXCEPT !.id = p, !.status = "pending", !.enabled = TRUE, !.token = t, !.bot = BotOf[t],
                             !.agent = Given(body.agent, 0)]
    IN /\ row.id = 0 /\ t # 0
       /\ row' = new /\ tested' = tested \union {t}
       /\ Begin(p, [NoReq EXCEPT !.pc = "hook", !.kind = "create", !.body = body, !.row = new])
       /\ loose' = (loose \/ ~Idle)
       /\ UNCHANGED <<hook, conn, confirmed>>

shouldConfigureWebhook(body) == body.token # {} \/ body.activateWebhook \/ ~row.active

\* The row is read and a new token tested; the config that will be written is
\* made of the row as it is now.
Patch(p, body) ==
    LET token == Given(body.token, row.token)
        new == [row EXCEPT !.token = token, !.bot = IF body.token = {} THEN @ ELSE BotOf[token],
                           !.agent = Given(body.agent, @)]
    IN /\ row.id # 0
       /\ tested' = tested \union body.token
       /\ Begin(p, [NoReq EXCEPT !.pc = IF shouldConfigureWebhook(body) THEN "hook" ELSE "save",
                                 !.kind = "patch", !.body = body, !.row = new])
       /\ UNCHANGED <<row, hook, conn, confirmed, loose>>

\* setWebhook with a fresh secret: it is the one Telegram sends from now on.
SetWebhook(p) ==
    /\ req[p].pc = "hook"
    /\ hook' = [hook EXCEPT ![BotOf[req[p].row.token]] = [id |-> req[p].row.id, secret |-> p]]
    /\ loose' = TRUE
    /\ Goto(p, "confirm")
    /\ UNCHANGED <<row, conn, tested, confirmed>>

Confirm(p) ==
    /\ req[p].pc = "confirm"
    /\ hook[BotOf[req[p].row.token]].id = req[p].row.id
    /\ confirmed' = confirmed \union {p}
    /\ req' = [req EXCEPT ![p].pc = "save", ![p].row.active = TRUE, ![p].row.hash = p]
    /\ UNCHANGED <<row, hook, conn, tested, loose>>

\* Telegram refuses a call, or confirms another address.
CallFails(p) ==
    /\ req[p].pc \in {"hook", "confirm"}
    /\ Stop(p)
    /\ UNCHANGED <<row, hook, conn, tested, confirmed, loose>>

\* The config is written as a whole; of the other columns those that were given.
Save(p) ==
    LET new == req[p].row
        changes == IF req[p].kind = "patch" THEN req[p].body ELSE NoBody
    IN /\ req[p].pc = "save"
       /\ IF row.id = new.id
          THEN /\ row' = [new EXCEPT !.status = "verified", !.token = Given(changes.token, row.token),
                                     !.enabled = Given(changes.enabled, row.enabled)]
               /\ loose' = (~req[p].alone \/ (req[p].was /\ req[p].body.token = {}))
               /\ Goto(p, "reload")
          ELSE Stop(p) /\ UNCHANGED <<row, loose>>
       /\ UNCHANGED <<hook, conn, tested, confirmed>>

\* The row is read once more, to be copied to the channel; the handler of an
\* update begins here and wants it enabled and verified.
Reload(p) ==
    /\ req[p].pc = "reload"
    /\ IF row.id = req[p].row.id /\ (req[p].kind = "update" => row.enabled /\ row.status = "verified")
       THEN req' = [req EXCEPT ![p].pc = "conn", ![p].seen = row]
       ELSE Stop(p)
    /\ UNCHANGED <<row, hook, conn, tested, confirmed, loose>>

ensureTelegramChannelConnection(p) ==
    LET seen == req[p].seen
    IN /\ req[p].pc = "conn"
       /\ IF row.id = seen.id
          THEN /\ conn' = [conn EXCEPT ![seen.bot] = [exists |-> TRUE, id |-> seen.id, enabled |-> seen.enabled,
                                                      agent |-> seen.agent, edited |-> FALSE]]
               /\ loose' = (loose \/ ~req[p].alone)
               /\ IF req[p].kind = "create" THEN Goto(p, "test") ELSE End(p)
          ELSE Stop(p) /\ UNCHANGED <<conn, loose>>   \* the foreign key
       /\ UNCHANGED <<row, hook, tested, confirmed>>

\* The new channel is tried out; the token is taken from the integration it names.
TestPasses(p) ==
    /\ req[p].pc = "test"
    /\ row.id = conn[req[p].seen.bot].id /\ row.enabled /\ row.status = "verified"
    /\ End(p)
    /\ UNCHANGED <<row, hook, conn, tested, confirmed, loose>>

TestFails(p) ==
    /\ req[p].pc = "test"
    /\ Goto(p, "fail")
    /\ UNCHANGED <<row, hook, conn, tested, confirmed, loose>>

\* The catch of a create: the config is written back as it was inserted.
MarkFailed(p) ==
    /\ req[p].pc = "fail"
    /\ IF row.id = p
       THEN row' = [row EXCEPT !.status = "failed", !.active = FALSE, !.hash = 0, !.bot = req[p].row.bot,
                               !.agent = req[p].row.agent]
       ELSE UNCHANGED row
    /\ loose' = (loose \/ ~req[p].alone)
    /\ End(p)
    /\ UNCHANGED <<hook, conn, tested, confirmed>>

Delete(p) ==
    /\ row.id # 0
    /\ Begin(p, [NoReq EXCEPT !.pc = "done"])
    /\ row' = NoRow
    /\ conn' = [b \in Bots |-> IF conn[b].id = row.id THEN [conn[b] EXCEPT !.id = 0] ELSE conn[b]]
    /\ loose' = (loose \/ ~Idle)
    /\ UNCHANGED <<hook, tested, confirmed>>

\* The channel's own page: another agent or switch, or no channel at all.
EditChannel(p, b) ==
    /\ conn[b].exists
    /\ Begin(p, [NoReq EXCEPT !.pc = "done"])
    /\ \/ conn' = [conn EXCEPT ![b].enabled = ~@, ![b].edited = TRUE]
       \/ conn' = [conn EXCEPT ![b].agent = 0, ![b].edited = TRUE]
       \/ conn' = [conn EXCEPT ![b] = [NoConn EXCEPT !.edited = TRUE]]
    /\ UNCHANGED <<row, hook, tested, confirmed, loose>>

\* Telegram sends an update to the address it has, with the secret it has.
Deliver(p, b) ==
    /\ hook[b].id = row.id /\ row.id # 0 /\ row.enabled /\ row.status = "verified"
    /\ row.hash = hook[b].secret
    /\ Begin(p, [NoReq EXCEPT !.pc = "reload", !.kind = "update", !.row = row])
    /\ UNCHANGED <<row, hook, conn, tested, confirmed, loose>>

\* The process ends in the middle.
Crash(p) ==
    /\ req[p].pc \notin {"new", "done"}
    /\ End(p)
    /\ loose' = TRUE
    /\ UNCHANGED <<row, hook, conn, tested, confirmed>>

Next ==
    \E p \in Requests :
      \/ \E body \in Bodies : Create(p, body) \/ Patch(p, body)
      \/ SetWebhook(p) \/ Confirm(p) \/ CallFails(p) \/ Save(p) \/ Reload(p)
      \/ ensureTelegramChannelConnection(p) \/ TestPasses(p) \/ TestFails(p) \/ MarkFailed(p)
      \/ Delete(p) \/ Crash(p)
      \/ \E b \in Bots : EditChannel(p, b) \/ Deliver(p, b)

Spec == Init /\ [][Next]_vars

-----------------------------------------------------------------------------
\* The status "verified", by which updates are accepted and answers sent, means
\* that the token was tested and that Telegram confirmed a webhook with the
\* secret the row knows, whatever overlapped or failed (integrations/route.ts).
VerifiedIsConfirmed == row.status = "verified" => row.token \in tested /\ row.hash \in confirmed

\* When every writer since the last token was given ran by itself to its end,
\* Telegram sends the secret the row expects, for the bot of the row's token, and
\* the channel is the copy of the row unless it was edited on its own page.
ReachableAsSet ==
    (Idle /\ ~loose /\ row.status = "verified") =>
        /\ row.bot = BotOf[row.token]
        /\ hook[row.bot] = [id |-> row.id, secret |-> row.hash]
        /\ conn[row.bot].edited \/
             conn[row.bot] = [exists |-> TRUE, id |-> row.id, enabled |-> row.enabled, agent |-> row.agent,
                              edited |-> FALSE]

=============================================================================
