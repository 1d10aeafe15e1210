----------------------------- MODULE ChannelMenus -----------------------------
(***************************************************************************)
(* What a person may do from the WhatsApp client (lib/channel-client): the *)
(* menu offers what the role, the policy of the channel, the modules and   *)
(* the runtimes allow, views lead to other views, and some buttons act.    *)
(* A button stays in the chat and may be pressed when all of that has      *)
(* changed, so every handler asks again, one fact after the other.         *)
(*                                                                         *)
(* Facts are strings: a permission of the person, a feature or an action   *)
(* of the policy, an active module, an enabled runtime, "linked" when the  *)
(* number is linked to the organization the buttons are about, and the     *)
(* readiness of the one agent and the one team.  One run and one approval  *)
(* stand for all.  The guided flows are in ChannelFlows, the routing of a  *)
(* chat message in ChannelRouting; messages are handled one at a time.     *)
(***************************************************************************)
EXTENDS Naturals, Sequences

CONSTANTS
    Inputs,     \* what the person writes and presses
    Changing,   \* the facts that change
    MaxChanges  \* bound: changes

VARIABLES
    facts,    \* what is so now
    since,    \* what has been so at some time since the message came
    changes,  \* changes so far
    session,  \* whether the session is in a chat, and has an agent
    msg,      \* the message that is handled
    buttons,  \* buttons in the chat
    shown,    \* acts whose confirmation was displayed
    run,      \* status of the team run
    approval, \* status of the approval
    act       \* what the message did

vars == <<facts, since, changes, session, msg, buttons, shown, run, approval, act>>

Idle == [at |-> "idle", kind |-> "none", policy |-> {}, left |-> <<>>, view |-> {}]
NoAct == [kind |-> "none", lacking |-> {}]

Lists == {"home", "teams", "runs", "approvals", "browser", "sandbox", "repos", "connections", "mcp",
          "agents", "chat", "files", "account"}
Asks == [cancel |-> "askCancel", retry |-> "askRetry", approve |-> "askApprove", reject |-> "askReject"]
Actions == {"agents.manage", "approvals.manage", "integrations.read", "site_connections.read", "mcp.read",
            "browser.read", "sandbox.read"}
Features == {"chat", "agents", "files"}

\* policyFeatureResolver: any administrative action turns the feature on.
featureAllowed(f) == IF f = "admin_commands" THEN msg.policy \cap Actions # {} ELSE f \in msg.policy
Holds(f) == IF f \in Features \cup Actions \cup {"admin_commands", "linked"} THEN featureAllowed(f) ELSE f \in facts

-----------------------------------------------------------------------------
(* CHANNEL_CAPABILITY_REGISTRY: the facts of each capability in the order  *)
(* in which they are asked for, and the list it opens.                     *)

Registry == [
    chat |-> <<"agents:run", "chat", "module agents">>,
    agents |-> <<"agents:read", "agents", "module agents">>,
    create |-> <<"agents:manage", "admin role", "admin_commands", "agents.manage", "module agents">>,
    teams |-> <<"agents:read", "agents", "module agents">>,
    teamrun |-> <<"agents:run", "agents", "module agents">>,
    runs |-> <<"runs:read", "agents", "module agents">>,
    approvals |-> <<"runs:read", "admin role", "admin_commands", "approvals.manage", "module security">>,
    files |-> <<"files:upload", "files", "module content">>,
    repos |-> <<"integrations:read", "admin_commands", "integrations.read", "module content">>,
    connections |-> <<"site_connections:read", "admin_commands", "site_connections.read", "browser on">>,
    mcp |-> <<"integrations:read", "admin_commands", "mcp.read", "module agents">>,
    browser |-> <<"browser_tasks:read", "admin_commands", "browser.read", "browser on">>,
    sandbox |-> <<"sandbox:read", "admin_commands", "sandbox.read", "sandbox on">>,
    account |-> <<"channels:use", "chat", "module channels">>]

resolveChannelCapabilities == {c \in DOMAIN Registry : \A i \in DOMAIN Registry[c] : Holds(Registry[c][i])}
hasCapability(c) == c \in resolveChannelCapabilities

-----------------------------------------------------------------------------
(* What each handler asks for before it answers.                           *)

requireCapability(c) == Registry[c]

renderHome == <<>>
renderRepositories == requireCapability("repos") \o <<"integrations:read">>
renderConnections == requireCapability("connections") \o <<"site_connections:read">>
renderMcp == requireCapability("mcp") \o <<"integrations:read">>
renderRepository == renderRepositories
renderConnection == renderConnections \o <<"linked">>
renderMcpServer == renderMcp \o <<"linked">>

getChannelTeam == <<"agents:read", "linked">>
teamsView == requireCapability("teams") \o <<"agents:read">>
teamView == requireCapability("teams") \o getChannelTeam
beginTeamRun == requireCapability("teamrun") \o getChannelTeam \o <<"team ready">>
runsView == requireCapability("runs") \o <<"runs:read">>
runView == <<"runs:read", "linked">>
runConfirm == <<>>
mutateChannelTeamRun == <<"agents:manage", "linked">>
approvalList == requireCapability("approvals") \o <<"runs:read">>
getChannelApproval == <<"runs:read", "linked">>
decideChannelApproval == <<"agents:run", "linked">>
browserView == requireCapability("browser") \o <<"browser_tasks:read">>
sandboxView == requireCapability("sandbox") \o <<"sandbox:read">>

listAccessibleChannelAgents == <<"agents:read">>
getUsableChannelAgent == listAccessibleChannelAgents \o <<"linked", "agent ready">>
beginAgentCreate == <<"providers:read">>
routeChatMessage == IF session.agent THEN getUsableChannelAgent ELSE listAccessibleChannelAgents

Checks(kind) ==
    CASE kind = "home" -> renderHome [] kind = "repos" -> renderRepositories [] kind = "repo" -> renderRepository
      [] kind = "connections" -> renderConnections [] kind = "connection" -> renderConnection
      [] kind = "mcp" -> renderMcp [] kind = "server" -> renderMcpServer
      [] kind = "teams" -> teamsView [] kind = "team" -> teamView [] kind = "teamrun" -> beginTeamRun
      [] kind = "runs" -> runsView [] kind = "run" -> runView [] kind \in {"askCancel", "askRetry"} -> runConfirm
      [] kind \in {"cancel", "retry"} -> mutateChannelTeamRun
      [] kind = "approvals" -> approvalList
      [] kind \in {"approval", "askApprove", "askReject"} -> getChannelApproval
      [] kind \in {"approve", "reject"} -> decideChannelApproval
      [] kind = "browser" -> browserView [] kind = "sandbox" -> sandboxView
      [] kind \in {"agents", "chat"} -> listAccessibleChannelAgents [] kind = "agent" -> getUsableChannelAgent
      [] kind = "create" -> beginAgentCreate [] kind = "text" -> routeChatMessage
      [] OTHER -> <<>>

-----------------------------------------------------------------------------
(* A message comes.                                                        *)

\* The menu's words can be written at any time.
Receive(kind) ==
    /\ msg.at = "idle"
    /\ kind \in Lists \cup {"text"} \/ kind \in buttons
    /\ msg' = [Idle EXCEPT !.at = "policy", !.kind = kind]
    /\ since' = facts /\ act' = NoAct
    /\ UNCHANGED <<facts, changes, session, buttons, shown, run, approval>>

\* What the policy must allow before the handlers see the message.
requiredChannelFeatures(kind) ==
    (IF kind = "create" \/ kind \in {"approvals", "approval", "askApprove", "askReject", "approve", "reject",
                                     "repos", "repo", "connections", "connection", "mcp", "server",
                                     "browser", "sandbox"} THEN {"admin_commands"} ELSE {})
    \cup (IF kind \in {"agents", "teams", "team", "runs", "run"} THEN {"agents"} ELSE {})
    \cup (IF kind = "files" THEN {"files"} ELSE {})
    \cup (IF kind \in {"chat", "continue", "agent"} THEN {"chat", "agents"} ELSE {})
    \cup (IF kind = "text" \/ session.chat THEN {"chat"} ELSE {})
    \cup (IF kind = "text" /\ ~session.agent THEN {"agents"} ELSE {})

\* The account and the policy are read once.
ReadPolicy ==
    /\ msg.at = "policy"
    /\ msg' = [msg EXCEPT !.at = "guard", !.policy = facts \cap (Features \cup Actions \cup {"linked"})]
    /\ UNCHANGED <<facts, since, changes, session, buttons, shown, run, approval, act>>

deniedChannelFeature ==
    /\ msg.at = "guard"
    /\ msg' = IF \A f \in requiredChannelFeatures(msg.kind) : featureAllowed(f)
                THEN [msg EXCEPT !.at = "check", !.left = Checks(msg.kind)]
                ELSE [msg EXCEPT !.at = "reply"]
    /\ UNCHANGED <<facts, since, changes, session, buttons, shown, run, approval, act>>

Check ==
    /\ msg.at = "check" /\ msg.left # <<>>
    /\ msg' = IF Holds(Head(msg.left)) THEN [msg EXCEPT !.left = Tail(@)]
              ELSE [msg EXCEPT !.at = "reply", !.left = <<>>]
    /\ UNCHANGED <<facts, since, changes, session, buttons, shown, run, approval, act>>

-----------------------------------------------------------------------------
(* The answer.                                                             *)

\* The permissions and policies that the platform demands for what is done or
\* displayed, wherever it is asked for.
Required(kind) ==
    CASE kind \in {"teams", "team", "agents"} -> {"agents:read", "agents"}
      [] kind \in {"runs", "run"} -> {"runs:read", "agents"}
      [] kind \in {"approvals", "approval"} -> {"runs:read"}
      [] kind \in {"approve", "reject"} -> {"agents:run"}
      [] kind \in {"cancel", "retry"} -> {"agents:manage", "linked"}
      [] kind = "teamrun" -> {"agents:read", "agents:run", "agents", "team ready", "linked"}
      [] kind \in {"repos", "repo", "mcp", "server"} -> {"integrations:read"}
      [] kind \in {"connections", "connection"} -> {"site_connections:read"}
      [] kind = "browser" -> {"browser_tasks:read"} [] kind = "sandbox" -> {"sandbox:read"}
      [] kind \in {"agent", "text"} -> {"agents:read", "chat", "agent ready", "linked"}
      [] OTHER -> {}

Ready(kind) == msg.at = "check" /\ msg.left = <<>> /\ msg.kind = kind
Does == act' = [kind |-> msg.kind, lacking |-> Required(msg.kind) \ since]
Answer(view) == msg' = [msg EXCEPT !.at = "reply", !.view = view]

Agents == {"agent"} \cup IF hasCapability("create") THEN {"create"} ELSE {}
runButtons == (IF run \in {"completed", "failed", "cancelled"} THEN {} ELSE {"askCancel"})
              \cup (IF run \in {"failed", "cancelled"} THEN {"askRetry"} ELSE {})

\* The buttons of a view: of the menu, those of the capabilities there are.
View(kind) ==
    CASE kind = "home" -> resolveChannelCapabilities \ {"teamrun"}
      [] kind = "repos" -> {"repo"} [] kind = "connections" -> {"connection"} [] kind = "mcp" -> {"server"}
      [] kind = "teams" -> {"team"}
      [] kind = "team" -> IF "team ready" \in facts /\ hasCapability("teamrun") THEN {"teamrun"} ELSE {}
      [] kind = "runs" -> {"run"} [] kind = "run" -> runButtons [] kind = "approvals" -> {"approval"}
      [] kind = "approval" -> IF approval = "pending" THEN {"askApprove", "askReject"} ELSE {}
      [] kind \in {Asks[a] : a \in DOMAIN Asks} -> {a \in DOMAIN Asks : Asks[a] = kind}
      [] kind = "agents" -> Agents
      [] kind = "chat" -> Agents \cup IF session.agent THEN {"continue"} ELSE {}
      [] kind = "files" -> {"continue"}
      [] OTHER -> {}

Acting == {"cancel", "retry", "approve", "reject", "teamrun", "agent", "continue", "text"}

Views ==
    /\ \E kind \in Inputs \ Acting : Ready(kind) /\ Answer(View(kind))
    /\ Does
    /\ UNCHANGED <<facts, since, changes, session, buttons, shown, run, approval>>

\* The flow that follows is in ChannelFlows.
startTeamRunFlow ==
    /\ Ready("teamrun") /\ Does /\ Answer({})
    /\ UNCHANGED <<facts, since, changes, session, buttons, shown, run, approval>>

mutate ==
    /\ \/ Ready("cancel") /\ run' = IF run = "running" THEN "cancelled" ELSE run
       \/ Ready("retry") /\ run' = IF run = "failed" THEN "running" ELSE run
    /\ Does /\ Answer({"run"})
    /\ UNCHANGED <<facts, since, changes, session, buttons, shown, approval>>

decide ==
    /\ Ready("approve") \/ Ready("reject")
    /\ IF approval = "pending" THEN approval' = msg.kind /\ Does ELSE UNCHANGED <<approval, act>>
    /\ Answer({})
    /\ UNCHANGED <<facts, since, changes, session, buttons, shown, run>>

beginConversation ==
    /\ Ready("agent") /\ Does /\ Answer({})
    /\ session' = [chat |-> TRUE, agent |-> TRUE]
    /\ UNCHANGED <<facts, since, changes, buttons, shown, run, approval>>

continueChat ==
    /\ Ready("continue") /\ Does /\ Answer({})
    /\ session' = [session EXCEPT !.chat = TRUE]
    /\ UNCHANGED <<facts, since, changes, buttons, shown, run, approval>>

\* Without an agent the text is answered with their list.
routeText ==
    /\ Ready("text")
    /\ IF session.agent THEN Does /\ Answer({}) ELSE Answer(Agents) /\ UNCHANGED act
    /\ UNCHANGED <<facts, since, changes, session, buttons, shown, run, approval>>

sendChannelClientView ==
    /\ msg.at = "reply" /\ msg' = Idle
    /\ buttons' = buttons \cup (msg.view \cap Inputs)
    /\ shown' = shown \cup (IF msg.view = {} THEN {} ELSE {a \in DOMAIN Asks : Asks[a] = msg.kind})
    /\ UNCHANGED <<facts, since, changes, session, run, approval, act>>

-----------------------------------------------------------------------------
\* An administrator, the site and the workers.
Change(f) ==
    /\ changes < MaxChanges /\ changes' = changes + 1
    /\ facts' = IF f \in facts THEN facts \ {f} ELSE facts \cup {f}
    /\ since' = IF msg.at = "idle" THEN since ELSE since \cup facts'
    /\ UNCHANGED <<session, msg, buttons, shown, run, approval, act>>
Elsewhere ==
    /\ \/ /\ run = "running" /\ run' \in {"completed", "failed", "cancelled"} /\ UNCHANGED approval
       \/ /\ approval = "pending" /\ approval' = "decided" /\ UNCHANGED run
    /\ UNCHANGED <<facts, since, changes, session, msg, buttons, shown, act>>

AllFacts == UNION {{Registry[c][i] : i \in DOMAIN Registry[c]} : c \in DOMAIN Registry}
            \cup {"linked", "agent ready", "team ready", "providers:read"}
Init ==
    /\ facts = AllFacts \ {"admin_commands"} /\ since = {} /\ changes = 0
    /\ session = [chat |-> FALSE, agent |-> FALSE] /\ msg = Idle /\ buttons = {} /\ shown = {}
    /\ run = "running" /\ approval = "pending" /\ act = NoAct

Next ==
    \/ \E kind \in Inputs : Receive(kind)
    \/ ReadPolicy \/ deniedChannelFeature \/ Check
    \/ Views \/ startTeamRunFlow \/ mutate \/ decide \/ beginConversation \/ continueChat \/ routeText
    \/ sendChannelClientView
    \/ \E f \in Changing : Change(f)
    \/ Elsewhere

Spec == Init /\ [][Next]_vars

-----------------------------------------------------------------------------
TypeOK == facts \subseteq AllFacts /\ buttons \subseteq Inputs /\ shown \subseteq DOMAIN Asks

\* However old the button is, nothing is done or displayed for which the person
\* lacked the permission, the policy or the object was not ready all the time since
\* it was pressed.
OldButtonsMayNothing == act.lacking = {}

\* A run is cancelled or tried again, and an approval decided, only when its
\* confirmation has been displayed.
ActsAreConfirmed == act.kind \in DOMAIN Asks => act.kind \in shown

=============================================================================
