---------------------------- MODULE ChannelRouting ----------------------------
(***************************************************************************)
(* What decides how a message that came over a channel is handled.  For    *)
(* WhatsApp three layers of policy (the platform's, the organization's,    *)
(* the user's) are resolved into one, the organization's is projected into *)
(* its row of channel_connections by whoever comes by, and the two are put *)
(* together for the message; for Telegram the connection's own row and     *)
(* permissions count.  The router then counts the month's messages, picks  *)
(* an agent from the connection, its bindings and its rules, and lets the  *)
(* message through to a human, to the agent, or not at all.                *)
(*                                                                         *)
(* Administrators change policies, permissions, bindings and rules while   *)
(* messages are under way.  The three policies of a message are read in    *)
(* one step, as are the bindings and rules; providers and models are left  *)
(* out, as are commands and conversations (ChannelUpdates, ChannelFlows).  *)
(***************************************************************************)
EXTENDS Naturals, FiniteSets, Sequences

CONSTANTS
    Channel,        \* "whatsapp" or "telegram"
    Messages,       \* the messages of one month
    Texts,          \* what they say: "chat", "key", "human", "file", "sensitive"
    Times,          \* when they may come: <<day, minute>>
    Schedule,       \* settings.businessHours: per day a set of <<start, end>>
    Platform,       \* the platform's defaults
    UserChanges, OrganizationChanges,   \* what may be written to the policies
    GrantChanges,   \* sets of permissions an administrator may give a connection
    RuleChanges,    \* lists of rules, in the order of their priority
    BindingChanges, \* lists of agents, in the order of their priority
    Agents          \* agents, published at first

VARIABLES
    layer,      \* the rows of the organization's and the user's policy
    conn,       \* the row of channel_connections
    grants,     \* channel_permissions of the connection
    rules,      \* channel_routing_rules
    bindings,   \* channel_agent_bindings
    published,  \* the published agents
    admin,      \* an administrator's request: what it read of the policy
    msg,        \* the messages
    counted     \* channel_events: the messages accepted this month

vars == <<layer, conn, grants, rules, bindings, published, admin, msg, counted>>
config == <<layer, conn, grants, rules, bindings, published, admin>>

\* Columns that may be null are sets of at most one value.
NoPolicy == [exists |-> FALSE, status |-> "active", agent |-> {}, limit |-> {}, files |-> {}, reply |-> {},
             permissions |-> {}, tools |-> {}, force |-> FALSE]
NoMessage == [pc |-> "new", text |-> "none", time |-> <<0, 0>>, from |-> [org |-> NoPolicy, user |-> NoPolicy],
              policy |-> [agent |-> 0], org |-> NoPolicy, conn |-> [enabled |-> FALSE], agent |-> 0,
              forced |-> FALSE, did |-> "nothing"]

Is(m, pc) == msg[m].pc = pc
Goto(m, pc) == msg' = [msg EXCEPT ![m].pc = pc]
Does(m, what) ==
    msg' = [msg EXCEPT ![m].pc = "done", ![m].did = what,
                       ![m].conn = NoMessage.conn, ![m].time = NoMessage.time, ![m].forced = FALSE]

\* Messages are numbered in the order they come.
Comes(m) == \A n \in Messages : n < m => ~Is(n, "new")

-----------------------------------------------------------------------------
(* The policy of a message.                                                *)

First(user, org, default) == IF user # {} THEN user ELSE IF org # {} THEN org ELSE default
Value(s, none) == IF s = {} THEN none ELSE CHOOSE v \in s : TRUE

\* A list that is empty counts as not given.
permissions(values, fallback) == IF values = {} THEN fallback ELSE values
preferredArray(user, org) == First(user, org, Platform.tools)

\* A row's `force_human_handoff` is never null: the user's row decides once it is there.
forceHumanHandoff(user, org) == IF user.exists THEN user.force ELSE org.force

filesEnabled(user, org) == Value(First(user.files, org.files, Platform.files), TRUE)

resolveEffectiveWhatsAppPolicy(user, org) ==
    LET allowed == permissions(user.permissions, permissions(org.permissions, Platform.permissions))
        granted == IF filesEnabled(user, org) THEN allowed ELSE allowed \ {"files.use"}
    IN [agent |-> Value(First(user.agent, org.agent, Platform.agent), 0),
        limit |-> Value(First(user.limit, org.limit, Platform.limit), 0),
        reply |-> Value(First(user.reply, org.reply, Platform.reply), TRUE),
        permissions |-> granted,
        tools |-> preferredArray(user.tools, org.tools),
        active |-> user.status # "disabled" /\ org.status # "disabled",
        force |-> forceHumanHandoff(user, org)]

\* The organization's policy as its row of the channel shows it.
projected(org) ==
    [conn EXCEPT !.enabled = org.status # "disabled", !.agent = Value(First({}, org.agent, Platform.agent), 0)]

connectionForWhatsAppPolicy(c, policy) ==
    [c EXCEPT !.enabled = c.enabled /\ policy.active, !.agent = policy.agent,
              !.mode = IF policy.force THEN "human" ELSE c.mode]

-----------------------------------------------------------------------------
(* Administrators.                                                         *)

Changed(row, change) == [f \in DOMAIN row |-> IF f \in DOMAIN change THEN change[f]
                                              ELSE IF f = "exists" THEN TRUE ELSE row[f]]

updateUserPolicy ==
    /\ \E c \in UserChanges : layer' = [layer EXCEPT !.user = Changed(@, c)]
    /\ UNCHANGED <<conn, grants, rules, bindings, published, admin, msg, counted>>

\* The organization's policy is written and then projected, by two more steps.
updateWhatsAppPolicy ==
    /\ admin.pc = "idle"
    /\ \E c \in OrganizationChanges : layer' = [layer EXCEPT !.org = Changed(@, c)]
    /\ admin' = [admin EXCEPT !.pc = "read"]
    /\ UNCHANGED <<conn, grants, rules, bindings, published, msg, counted>>
AdminReads ==
    /\ admin.pc = "read"
    /\ admin' = [pc |-> "project", org |-> layer.org]
    /\ UNCHANGED <<layer, conn, grants, rules, bindings, published, msg, counted>>
AdminProjects ==
    /\ admin.pc = "project"
    /\ conn' = projected(admin.org)
    /\ admin' = [pc |-> "idle", org |-> NoPolicy]
    /\ UNCHANGED <<layer, grants, rules, bindings, published, msg, counted>>

replaceChannelPermissions ==
    /\ \E g \in GrantChanges : grants' = g
    /\ UNCHANGED <<layer, conn, rules, bindings, published, admin, msg, counted>>
replaceChannelRules ==
    /\ \E r \in RuleChanges : rules' = r
    /\ UNCHANGED <<layer, conn, grants, bindings, published, admin, msg, counted>>
replaceChannelBindings ==
    /\ \E b \in BindingChanges : bindings' = b
    /\ UNCHANGED <<layer, conn, grants, rules, published, admin, msg, counted>>

\* Agents are archived elsewhere, and nothing here is told.
Archive(a) ==
    /\ a \in published /\ published' = published \ {a}
    /\ UNCHANGED <<layer, conn, grants, rules, bindings, admin, msg, counted>>

-----------------------------------------------------------------------------
(* A message before the router.                                            *)

\* WhatsApp: the linked user's policy is resolved, and may end it here.
Resolve(m) ==
    /\ Channel = "whatsapp" /\ Is(m, "new") /\ Comes(m)
    /\ \E t \in Texts, now \in Times :
         LET policy == resolveEffectiveWhatsAppPolicy(layer.user, layer.org)
         IN msg' = [msg EXCEPT ![m] = [NoMessage EXCEPT
                      !.text = t, !.time = now, !.policy = policy, !.from = layer,
                      !.pc = IF policy.active /\ policy.reply THEN "read" ELSE "done",
                      !.did = IF policy.active /\ policy.reply THEN "nothing" ELSE "refused"]]
    /\ UNCHANGED <<config, counted>>
ReadOrganization(m) ==
    /\ Is(m, "read")
    /\ msg' = [msg EXCEPT ![m].org = layer.org, ![m].pc = "project"]
    /\ UNCHANGED <<config, counted>>
ensureOrganizationWhatsAppProjection(m) ==
    /\ Is(m, "project")
    /\ conn' = projected(msg[m].org)
    /\ msg' = [msg EXCEPT ![m].conn = connectionForWhatsAppPolicy(conn', msg[m].policy), ![m].pc = "accept",
                          ![m].org = NoPolicy]
    /\ UNCHANGED <<layer, grants, rules, bindings, published, admin, counted>>

\* Telegram: the connection as it is.
Open(m) ==
    /\ Channel = "telegram" /\ Is(m, "new") /\ Comes(m)
    /\ \E t \in Texts, now \in Times :
         msg' = [msg EXCEPT ![m] = [NoMessage EXCEPT !.text = t, !.time = now, !.conn = conn, !.pc = "accept"]]
    /\ UNCHANGED <<config, counted>>

-----------------------------------------------------------------------------
(* routeIncomingChannelMessage.                                            *)

\* Tools only where the permission to use any is given.
channelPolicyForWhatsApp(policy) ==
    [policy EXCEPT !.tools = IF "tools.execute" \in policy.permissions THEN policy.tools ELSE {}]

\* WhatsApp's comes with the message, Telegram's is read from the connection.
channelRoutingPolicy(m) ==
    IF Channel = "whatsapp" THEN channelPolicyForWhatsApp(msg[m].policy)
    ELSE [limit |-> Value(Platform.limit, 0), permissions |-> grants,
          tools |-> IF "tools.execute" \in grants THEN Platform.tools ELSE {}]

acceptEvent(m) ==
    /\ Is(m, "accept")
    /\ counted' = counted \union {m}
    /\ msg' = [msg EXCEPT ![m].pc = IF msg[m].conn.enabled THEN "quota" ELSE "done",
                          ![m].did = IF msg[m].conn.enabled THEN "nothing" ELSE "ignored",
                          ![m].policy = channelRoutingPolicy(m)]
    /\ UNCHANGED config

\* The month's messages are counted, this one among them.
monthlyQuotaAllowed(m) ==
    msg[m].policy.limit = 0 \/ Cardinality(counted) <= msg[m].policy.limit

Quota(m) ==
    /\ Is(m, "quota")
    /\ Goto(m, IF monthlyQuotaAllowed(m) /\ msg[m].text # "sensitive" THEN "evaluate" ELSE "fail")
    /\ UNCHANGED <<config, counted>>

\* A period that ends before it starts goes on at the beginning of the same day.
insideBusinessHours(now) ==
    \E p \in Schedule[now[1]] :
      IF p[1] <= p[2] THEN now[2] >= p[1] /\ now[2] < p[2] ELSE now[2] >= p[1] \/ now[2] < p[2]

Matches(rule, m) ==
    \/ rule.condition = "always"
    \/ rule.condition = "keyword" /\ msg[m].text = "key"
    \/ rule.condition = "outside_business_hours" /\ ~insideBusinessHours(msg[m].time)

\* The first rule that matches, if any, is the only one that counts.
Rule(m) ==
    LET matching == {i \in 1 .. Len(rules) : Matches(rules[i], m)}
    IN IF matching = {} THEN [action |-> "none", agent |-> 0]
       ELSE rules[CHOOSE i \in matching : \A j \in matching : i <= j]

evaluateRoute(m) ==
    LET default == IF msg[m].conn.agent # 0 THEN msg[m].conn.agent
                   ELSE IF bindings # <<>> THEN bindings[1] ELSE 0
        rule == Rule(m)
    IN [agent |-> IF rule.action = "route_agent" THEN rule.agent ELSE default,
        forced |-> rule.action = "handoff"]

Evaluate(m) ==
    /\ Is(m, "evaluate")
    /\ LET route == evaluateRoute(m)
       IN msg' = [msg EXCEPT ![m].agent = route.agent, ![m].forced = route.forced, ![m].pc = "validate"]
    /\ UNCHANGED <<config, counted>>

validateRoute(m) ==
    /\ Is(m, "validate")
    /\ Goto(m, IF msg[m].agent \in published \union {0} THEN "decide" ELSE "fail")
    /\ UNCHANGED <<config, counted>>

May(m, permission) == permission \in msg[m].policy.permissions

ForceHuman(m) ==
    \/ msg[m].forced
    \/ msg[m].text = "human" /\ May(m, "handoff.request")
    \/ msg[m].conn.mode \in {"human", "human_then_ai"}
    \/ msg[m].conn.mode = "business_hours" /\ ~insideBusinessHours(msg[m].time)

Decide(m) ==
    /\ Is(m, "decide")
    /\ IF ~May(m, "ai.chat") \/ msg[m].agent = 0 THEN Goto(m, "fail")
       ELSE IF ForceHuman(m) THEN IF May(m, "handoff.request") THEN Does(m, "handed") ELSE Goto(m, "fail")
       ELSE IF msg[m].text = "file" /\ ~May(m, "files.use") THEN Goto(m, "fail")
       ELSE Does(m, "ran")
    /\ UNCHANGED <<config, counted>>

\* The catch: the person is handed to a human where the connection says so and
\* a route is still found, whatever the permissions.
Fail(m) ==
    /\ Is(m, "fail")
    /\ Does(m, IF msg[m].conn.mode \in {"agent_failure", "ai_then_human"} /\ evaluateRoute(m).agent # 0
               THEN "handedOnFailure" ELSE "failed")
    /\ UNCHANGED <<config, counted>>

-----------------------------------------------------------------------------
Init ==
    /\ layer = [org |-> NoPolicy, user |-> NoPolicy]
    /\ conn = [enabled |-> TRUE, agent |-> Value(Platform.agent, 0), mode |-> Platform.mode]
    /\ grants = Platform.permissions
    /\ rules = <<>> /\ bindings = <<>> /\ published = Agents
    /\ admin = [pc |-> "idle", org |-> NoPolicy]
    /\ msg = [m \in Messages |-> NoMessage] /\ counted = {}

Next ==
    \/ \E m \in Messages :
         \/ Resolve(m) \/ ReadOrganization(m) \/ ensureOrganizationWhatsAppProjection(m) \/ Open(m)
         \/ acceptEvent(m) \/ Quota(m) \/ Evaluate(m) \/ validateRoute(m) \/ Decide(m) \/ Fail(m)
    \/ updateUserPolicy \/ updateWhatsAppPolicy \/ AdminReads \/ AdminProjects
    \/ replaceChannelPermissions \/ replaceChannelRules \/ replaceChannelBindings
    \/ \E a \in Agents : Archive(a)

Spec == Init /\ [][Next]_vars

-----------------------------------------------------------------------------
TypeOK ==
    /\ counted \subseteq Messages /\ published \subseteq Agents
    /\ admin.pc \in {"idle", "read", "project"}
    /\ \A m \in Messages :
         /\ msg[m].pc \in {"new", "read", "project", "accept", "quota", "evaluate", "validate", "decide",
                           "fail", "done"}
         /\ msg[m].did \in {"nothing", "refused", "ignored", "handed", "ran", "handedOnFailure", "failed"}

\* However many messages are handled at the same time, no more of them get past
\* the monthly limit than it allows (monthlyQuotaAllowed counts after the event
\* was inserted).
WithinQuota ==
    \A m \in Messages :
      LET limit == msg[m].policy.limit
          admitted == {n \in Messages : /\ msg[n].pc \in {"evaluate", "validate", "decide"} \/ msg[n].did \in {"handed", "ran"}
                                        /\ msg[n].policy.limit \in 1 .. limit}
      IN msg[m].pc \in {"evaluate", "validate", "decide"} /\ limit # 0 => Cardinality(admitted) <= limit

\* What was done with a WhatsApp message was allowed by the layers in force when
\* it came, the user's before the organization's before the platform's, and not
\* while either was disabled; the projected row other messages and administrators
\* write in between changes nothing of it.
WithinPolicy ==
    \A m \in Messages :
      (Channel = "whatsapp" /\ msg[m].did \in {"handed", "ran"}) =>
        LET user == msg[m].from.user
            org == msg[m].from.org
            Nearest(f) == IF user[f] # {} THEN user[f] ELSE IF org[f] # {} THEN org[f] ELSE Platform[f]
        IN /\ user.status = "active" /\ org.status = "active" /\ Nearest("reply") = {TRUE}
           /\ msg[m].did = "ran" =>
                /\ "ai.chat" \in Nearest("permissions")
                /\ msg[m].text = "file" => "files.use" \in Nearest("permissions") /\ Nearest("files") = {TRUE}
                /\ msg[m].policy.tools # {} =>
                     "tools.execute" \in Nearest("permissions") /\ msg[m].policy.tools = Nearest("tools")
                /\ rules = <<>> /\ RuleChanges = {} /\ Nearest("agent") # {} => msg[m].agent \in Nearest("agent")
           /\ msg[m].did = "handed" => "handoff.request" \in Nearest("permissions")

=============================================================================
