----------------------------- MODULE ChannelFlows -----------------------------
(***************************************************************************)
(* The guided flows of the WhatsApp client (lib/channel-client): a person  *)
(* creates an agent in seven steps or runs a team in two, by text and by   *)
(* buttons, and each flow ends in a confirmation.  The session row carries *)
(* the flow, its step and its draft; every button that was ever sent stays *)
(* in the chat and can be pressed at any later time.                       *)
(*                                                                         *)
(* The messages of a number are handled one at a time (queue               *)
(* "whatsapp-central").  A handler is a few statements, one action each: a *)
(* crash between them hands the same message out again.  The number may be *)
(* linked to another account while its session keeps the flow.             *)
(***************************************************************************)
EXTENDS Naturals, FiniteSets

CONSTANTS
    Orgs,        \* organizations the number may be linked to
    OrgOf,       \* the organization of each provider and of each team
    Models,      \* for each provider, the models it lists, by index
    Teams,       \* teams that are ready
    MaxFlows,    \* bound: flows begun
    MaxCreated,  \* bound: agents and runs created
    Tries,       \* attempts of a job
    Events       \* what may happen besides: crash, relink, expire, disable

Providers == DOMAIN Models
Indexes == UNION {DOMAIN Models[p] : p \in Providers}

VARIABLES
    linked,   \* organization the number is linked to
    usable,   \* providers that are enabled and verified
    session,  \* flow, step and draft of the session row
    msg,      \* message being handled: input, organization read, attempt, position, its run
    buttons,  \* buttons in the chat
    shown,    \* drafts a confirmation was sent for
    agents,   \* agents created
    runs,     \* team runs created
    flows,    \* flows begun so far
    closed,   \* flows that were cancelled, expired or replaced
    doubted   \* flows with a message given up, or interrupted after the agent was created

vars == <<linked, usable, session, msg, buttons, shown, agents, runs, flows, closed, doubted>>

\* What a message may be: text, or a button with its parameter.
Plain == {"text", "cancelText", "home"}
Named == {"cancel", "create", "publish", "draft", "confirm", "launch"}
Inputs == [kind : Plain \cup Named, of : {0}] \cup [kind : {"provider"}, of : Providers]
          \cup [kind : {"model"}, of : Indexes] \cup [kind : {"team"}, of : Teams]
Button(kind) == [kind |-> kind, of |-> 0]

NoDraft == [n |-> 0, provider |-> 0, model |-> 0, publish |-> FALSE, team |-> 0]
Resting == [flow |-> "none", step |-> "none", draft |-> NoDraft]
Idle == [input |-> Button("text"), org |-> 0, tries |-> 0, at |-> "idle", view |-> {}, ran |-> FALSE]

following == [name |-> "description", description |-> "instructions", instructions |-> "provider"]

Offered(org) == {p \in usable : OrgOf[p] = org}

Init ==
    /\ linked \in Orgs /\ usable = Providers /\ session = Resting /\ msg = Idle
    /\ buttons = {Button("create")} \cup [kind : {"team"}, of : Teams]
    /\ shown = {} /\ agents = {} /\ runs = {} /\ flows = 0 /\ closed = {} /\ doubted = {}

-----------------------------------------------------------------------------
(* A message.                                                              *)

\* The person writes, or presses a button that is in the chat.
Send(input) ==
    /\ msg.at = "idle"
    /\ input.kind \in Plain \/ input \in buttons
    /\ msg' = [Idle EXCEPT !.input = input, !.tries = 1, !.at = "ensure"]
    /\ UNCHANGED <<linked, usable, session, buttons, shown, agents, runs, flows, closed, doubted>>

Open == session.draft.n
inFlow == session.flow \in {"agent.create", "team.run"}
Closing == IF inFlow THEN {Open} ELSE {}

\* connectedWhatsAppUser and ensureChannelClientSession: the row is taken over
\* with its flow; a flow that is older than its half hour is ended.
ensureChannelClientSession ==
    /\ msg.at = "ensure"
    /\ msg' = [msg EXCEPT !.org = linked, !.at = "handle"]
    /\ \/ UNCHANGED <<session, closed>>
       \/ /\ "expire" \in Events /\ inFlow
          /\ session' = Resting /\ closed' = closed \cup Closing
    /\ UNCHANGED <<linked, usable, buttons, shown, agents, runs, flows, doubted>>

\* The handler goes on to send a view with these buttons, to rest, or to say
\* that it failed, which sends none.
Reply(view) == msg' = [msg EXCEPT !.at = "reply", !.view = view]
Kept == UNCHANGED <<linked, usable, buttons, shown, agents, runs, doubted>>
Shows(view) == Reply(view) /\ UNCHANGED <<session, flows, closed>> /\ Kept
Fails == Shows({})

kind == msg.input.kind
handling == msg.at = "handle"

\* processChannelIntegrations comes first: the menu is shown in any flow.
processChannelIntegrations ==
    /\ handling /\ kind = "home"
    /\ Shows({Button("create")} \cup [kind : {"team"}, of : {t \in Teams : OrgOf[t] = msg.org}])

-----------------------------------------------------------------------------
(* Running a team: processChannelOperations.                               *)

advance(step, draft) == session' = [session EXCEPT !.step = step, !.draft = draft]
start(flow, step, draft) ==
    /\ flows < MaxFlows /\ flows' = flows + 1
    /\ session' = [flow |-> flow, step |-> step, draft |-> [draft EXCEPT !.n = flows + 1]]
    /\ closed' = closed \cup Closing

\* The button replaces whatever other flow is open.
beginTeamRun ==
    /\ handling /\ kind = "team" /\ session.flow # "team.run"
    /\ IF OrgOf[msg.input.of] = msg.org
         THEN /\ start("team.run", "input", [NoDraft EXCEPT !.team = msg.input.of])
              /\ Reply({Button("cancel")}) /\ Kept
         ELSE Fails

\* Text, a button's title and the word for cancelling are all taken as the task.
teamInput ==
    /\ handling /\ session.flow = "team.run" /\ session.step = "input" /\ kind \notin {"home", "cancel"}
    /\ advance("confirm", session.draft) /\ Reply({Button("launch"), Button("cancel")})
    /\ UNCHANGED <<flows, closed>> /\ Kept

Created == Cardinality(agents) + Cardinality(runs)
made == [id |-> Created, org |-> msg.org, draft |-> session.draft]

\* Defective variant: every attempt creates a run of its own.
neverFound == FALSE

\* The row with the organization and the message's identifier.
found == msg.ran

\* createChannelTeamRun: the run carries the message's identifier, and a second
\* attempt of that message finds it.
createChannelTeamRun ==
    /\ handling /\ session.flow = "team.run" /\ session.step = "confirm" /\ kind = "launch"
    /\ IF OrgOf[session.draft.team] = msg.org
         THEN /\ Created < MaxCreated
              /\ runs' = IF found THEN runs ELSE runs \cup {made}
              /\ msg' = [msg EXCEPT !.at = "finish", !.ran = TRUE]
              /\ UNCHANGED <<linked, usable, session, buttons, shown, agents, flows, closed, doubted>>
         ELSE Fails

teamConfirmOther ==
    /\ handling /\ session.flow = "team.run" /\ session.step = "confirm"
    /\ kind \notin {"home", "cancel", "launch"} /\ Shows({})

teamRunFlow == teamInput \/ createChannelTeamRun \/ teamConfirmOther

-----------------------------------------------------------------------------
(* Creating an agent: processChannelClientInput.                           *)

\* Both flows end here on the button, that of an agent on the word, too.
cancelFlow ==
    /\ handling /\ inFlow
    /\ kind = "cancel" \/ (kind = "cancelText" /\ session.flow = "agent.create")
    /\ session' = Resting /\ closed' = closed \cup Closing
    /\ Reply({Button("create")}) /\ UNCHANGED flows /\ Kept

\* The buttons are tried before the flow: none of them is one of the flow's.
inAgentFlow == handling /\ session.flow = "agent.create" /\ kind \notin {"home", "team", "cancel", "cancelText"}
Step(s) == inAgentFlow /\ session.step = s

beginAgentCreate ==
    /\ handling /\ kind = "create" /\ ~inFlow
    /\ IF Offered(msg.org) # {}
         THEN start("agent.create", "name", NoDraft) /\ Reply({Button("cancel")}) /\ Kept
         ELSE Fails

ProviderButtons == [kind : {"provider"}, of : Offered(msg.org)]
ModelButtons(p) == [kind : {"model"}, of : DOMAIN Models[p]]
StatusButtons == {Button("publish"), Button("draft"), Button("cancel")}
ConfirmButtons == {Button("confirm"), Button("cancel")}

\* Name, description and instructions: the text of the message, or the title of
\* the button that was pressed.
textStep ==
    /\ \E s \in DOMAIN following :
         /\ Step(s) /\ advance(following[s], session.draft)
         /\ Reply(IF s = "instructions" THEN ProviderButtons ELSE {Button("cancel")})
    /\ UNCHANGED <<flows, closed>> /\ Kept

providerStep ==
    /\ Step("provider")
    /\ IF kind # "provider" THEN Shows(ProviderButtons)
       ELSE IF msg.input.of \notin Offered(msg.org) THEN Fails
       ELSE /\ advance("model", [session.draft EXCEPT !.provider = msg.input.of])
            /\ Reply(ModelButtons(msg.input.of))
            /\ UNCHANGED <<flows, closed>> /\ Kept

\* A model is chosen by its index in the list of the chosen provider.
modelStep ==
    /\ Step("model")
    /\ IF kind # "model" THEN Shows(ModelButtons(session.draft.provider))
       ELSE IF msg.input.of \notin DOMAIN Models[session.draft.provider] THEN Fails
       ELSE /\ advance("status", [session.draft EXCEPT !.model = Models[session.draft.provider][msg.input.of]])
            /\ Reply(StatusButtons)
            /\ UNCHANGED <<flows, closed>> /\ Kept

statusStep ==
    /\ Step("status")
    /\ IF kind \notin {"publish", "draft"} THEN Shows({})
       ELSE /\ advance("confirm", [session.draft EXCEPT !.publish = kind = "publish"])
            /\ Reply(ConfirmButtons)
            /\ UNCHANGED <<flows, closed>> /\ Kept

renderAgentConfirmation == Step("confirm") /\ kind # "confirm" /\ Shows(ConfirmButtons)

\* assertVerifiedAgentModel.
verified(org, draft) ==
    /\ draft.provider \in Offered(org)
    /\ \E i \in DOMAIN Models[draft.provider] : Models[draft.provider][i] = draft.model

\* Defective variant: the credential is looked up by its identifier alone.
verifiedAnywhere(org, draft) ==
    /\ draft.provider \in usable
    /\ \E i \in DOMAIN Models[draft.provider] : Models[draft.provider][i] = draft.model

createAgentApplication ==
    /\ Step("confirm") /\ kind = "confirm"
    /\ IF verified(msg.org, session.draft)
         THEN /\ Created < MaxCreated /\ agents' = agents \cup {made}
              /\ msg' = [msg EXCEPT !.at = "finish"]
              /\ UNCHANGED <<linked, usable, session, buttons, shown, runs, flows, closed, doubted>>
         ELSE Fails

handleAgentCreateFlow ==
    textStep \/ providerStep \/ modelStep \/ statusStep \/ renderAgentConfirmation \/ createAgentApplication

\* Outside the flows a text, a stale button's title included, goes to the chosen
\* agent (ChannelUpdates); the session's flow becomes "chat".
routeChatMessage ==
    /\ handling /\ ~inFlow /\ kind \notin {"home", "create", "team"}
    /\ Shows({})

-----------------------------------------------------------------------------
(* The end of a message.                                                   *)

\* Defective variant: the flow stays open.
keepChannelFlow == session' = session

finishChannelFlow == session' = Resting

finish ==
    /\ msg.at = "finish" /\ finishChannelFlow
    /\ Reply(IF session.flow = "agent.create" THEN {} ELSE {Button("create")})
    /\ UNCHANGED <<flows, closed>> /\ Kept

\* sendChannelClientView.
send ==
    /\ msg.at = "reply"
    /\ buttons' = buttons \cup msg.view
    /\ shown' = IF Button("confirm") \in msg.view THEN shown \cup {session.draft} ELSE shown
    /\ msg' = Idle
    /\ UNCHANGED <<linked, usable, session, agents, runs, flows, closed, doubted>>

\* The worker dies, or the view and the message about the error cannot be sent:
\* the job is run again while it has attempts.
Crash ==
    /\ "crash" \in Events /\ msg.at # "idle"
    /\ msg' = IF msg.tries < Tries
                THEN [msg EXCEPT !.tries = @ + 1, !.at = "ensure", !.org = 0, !.view = {}]
                ELSE Idle
    /\ doubted' = IF msg.tries = Tries \/ (msg.at = "finish" /\ session.flow = "agent.create")
                    THEN doubted \cup {Open} ELSE doubted
    /\ UNCHANGED <<linked, usable, session, buttons, shown, agents, runs, flows, closed>>

\* The number is disconnected on the site and connected by another account.
Relink(org) ==
    /\ "relink" \in Events /\ org # linked /\ linked' = org
    /\ UNCHANGED <<usable, session, msg, buttons, shown, agents, runs, flows, closed, doubted>>

Disable(p) ==
    /\ "disable" \in Events /\ p \in usable /\ usable' = usable \ {p}
    /\ UNCHANGED <<linked, session, msg, buttons, shown, agents, runs, flows, closed, doubted>>

Handle == \/ processChannelIntegrations \/ beginTeamRun \/ teamRunFlow \/ cancelFlow
          \/ beginAgentCreate \/ handleAgentCreateFlow \/ routeChatMessage

Next ==
    \/ \E i \in Inputs : Send(i)
    \/ ensureChannelClientSession \/ Handle \/ finish \/ send
    \/ Crash \/ \E o \in Orgs : Relink(o) \/ \E p \in Providers : Disable(p)

Spec == Init /\ [][Next]_vars

-----------------------------------------------------------------------------

\* An agent is created as a confirmation displayed it, whatever old buttons were
\* pressed on the way and whichever steps were interrupted, unless a message of
\* the flow was given up.
CreatedAsShown == \A a \in agents : a.draft \in shown \/ a.draft.n \in doubted

\* Nothing is created from a flow that was cancelled, expired or replaced.
ClosedStep == \A c \in (agents' \ agents) \cup (runs' \ runs) : c.draft.n \notin closed

\* A flow creates one agent, unless it was interrupted after it had created it,
\* and one run even then, unless the message was given up.
CreatedOnce ==
    /\ \A a1, a2 \in agents : a1.draft.n = a2.draft.n => a1 = a2 \/ a1.draft.n \in doubted
    /\ \A r1, r2 \in runs : r1.draft.n = r2.draft.n => r1 = r2 \/ r1.draft.n \in doubted

\* An agent uses a provider of its organization, a run a team of its own, also
\* when the number was linked to another account in the middle of the flow.
CreatedWithinOrg ==
    /\ \A a \in agents : OrgOf[a.draft.provider] = a.org
    /\ \A r \in runs : OrgOf[r.draft.team] = r.org

=============================================================================
