------------------------------ MODULE MCChannels ------------------------------
(***************************************************************************)
(* ChannelUpdates in two instances: "repeat", in the module's own          *)
(* variables, is one message that Telegram delivers again and again while  *)
(* requests, workers and the queue fail; "talk" is two messages of one     *)
(* person, handled by two workers while an administrator takes the         *)
(* conversation over.                                                      *)
(*                                                                         *)
(* ChannelRouting in two: "policy" is one WhatsApp message while the       *)
(* policies of its user and organization change, "quota" two Telegram      *)
(* messages where one is allowed, while the routing changes.              *)
(*                                                                         *)
(* ChannelMenus in two: "buttons" is a person with the menus of teams and  *)
(* runs, "chats" one with agents, chats and approvals, while permissions   *)
(* change and old buttons stay in the chat.                                *)
(***************************************************************************)
EXTENDS ChannelUpdates
VARIABLES which,
          xtext, xenabled, xupdate, xjob, xrequest, xleft, xacked, xworker, xevent, xlink, xadmin,
          xhandoffs, xmade, xswitched, xruns, xanswers,
          layer, conn, grants, rules, bindings, published, msg, counted,
          facts, since, changes, session, menu, pressable, shown, run, approval, act

talks == <<xtext, xenabled, xupdate, xjob, xrequest, xleft, xacked, xworker, xevent, xlink,
           xhandoffs, xmade, xswitched, xruns, xanswers>>
routes == <<layer, conn, grants, rules, bindings, published, msg, counted>>
menus == <<facts, since, changes, session, menu, pressable, shown, run, approval, act>>
allVars == <<which, vars, talks, xadmin, routes, menus>>

Talk == INSTANCE ChannelUpdates WITH
    Updates <- {"u1", "u2"}, Requests <- {"p1"}, Workers <- {"k1", "k2"},
    Texts <- {"new", "chat", "human"}, HandoffMode <- "ai_then_human",
    Deliveries <- 1, Tries <- 1, Events <- {"error", "admin"},
    text <- xtext, enabled <- xenabled, update <- xupdate, job <- xjob, request <- xrequest,
    left <- xleft, acked <- xacked, worker <- xworker, event <- xevent, link <- xlink,
    admin <- xadmin, handoffs <- xhandoffs, made <- xmade, switched <- xswitched,
    runs <- xruns, answers <- xanswers

AllPermissions == {"ai.chat", "tools.execute", "files.use", "handoff.request"}
Policy == INSTANCE ChannelRouting WITH admin <- xadmin,
    Channel <- "whatsapp", Messages <- {1}, Texts <- {"chat", "human", "file", "sensitive"},
    Times <- {<<1, 1>>}, Schedule <- <<{<<0, 2>>}>>, Agents <- {1, 2},
    Platform <- [agent |-> {1}, limit |-> {}, files |-> {TRUE}, reply |-> {TRUE},
                 permissions |-> {"ai.chat", "handoff.request"}, tools |-> {}, mode |-> "ai_then_human"],
    UserChanges <- {[permissions |-> {"ai.chat", "files.use"}, status |-> "active"],
                    [permissions |-> {}, status |-> "disabled"]},
    OrganizationChanges <-
        {[permissions |-> AllPermissions, tools |-> {"t1"}, files |-> {FALSE}, agent |-> {2},
          status |-> "active", force |-> FALSE],
         [permissions |-> {}, tools |-> {}, files |-> {}, agent |-> {}, status |-> "active", force |-> TRUE],
         [permissions |-> {}, tools |-> {}, files |-> {}, agent |-> {}, status |-> "disabled", force |-> FALSE]},
    GrantChanges <- {}, RuleChanges <- {}, BindingChanges <- {}
Quota == INSTANCE ChannelRouting WITH admin <- xadmin,
    Channel <- "telegram", Messages <- {1, 2}, Texts <- {"chat", "key", "human"},
    Times <- {<<1, 1>>, <<1, 3>>}, Schedule <- <<{<<0, 2>>}>>, Agents <- {2},
    Platform <- [agent |-> {}, limit |-> {1}, files |-> {TRUE}, reply |-> {TRUE},
                 permissions |-> AllPermissions, tools |-> {"t1"}, mode |-> "business_hours"],
    UserChanges <- {}, OrganizationChanges <- {}, GrantChanges <- {{"ai.chat"}},
    RuleChanges <- {<<[condition |-> "keyword", action |-> "handoff", agent |-> 0],
                      [condition |-> "outside_business_hours", action |-> "route_agent", agent |-> 2]>>},
    BindingChanges <- {<<2>>}

Buttons == INSTANCE ChannelMenus WITH msg <- menu, buttons <- pressable,
    Inputs <- {"teams", "team", "teamrun", "runs", "run", "askCancel", "askRetry", "cancel", "retry"},
    Changing <- {"agents:run", "agents:manage", "linked", "agents"}, MaxChanges <- 1
Chats == INSTANCE ChannelMenus WITH msg <- menu, buttons <- pressable,
    Inputs <- {"home", "agents", "agent", "chat", "continue", "text",
               "approvals", "approval", "askApprove", "approve"},
    Changing <- {"agents:run", "agents:read", "linked"}, MaxChanges <- 1

UpdatesStill == Init /\ text = [u \in Updates |-> "chat"]
TalkStill == xtext = "none" /\ xupdate = "none" /\ xjob = "none" /\ xenabled = "none" /\ xrequest = "none"
    /\ xleft = "none" /\ xacked = "none" /\ xworker = "none" /\ xevent = "none" /\ xlink = "none"
    /\ xhandoffs = "none" /\ xmade = "none" /\ xswitched = "none" /\ xruns = "none" /\ xanswers = "none"
RoutingStill == layer = "none" /\ conn = "none" /\ grants = "none" /\ rules = "none" /\ bindings = "none"
    /\ published = "none" /\ msg = "none" /\ counted = "none"
MenusStill == facts = "none" /\ since = "none" /\ changes = "none" /\ session = "none" /\ menu = "none"
    /\ pressable = "none" /\ shown = "none" /\ run = "none" /\ approval = "none" /\ act = "none"

AllInit ==
    \/ which = "repeat" /\ Init /\ TalkStill /\ xadmin = "none" /\ RoutingStill /\ MenusStill
    \/ which = "talk" /\ Talk!Init /\ UpdatesStill /\ RoutingStill /\ MenusStill
    \/ which = "policy" /\ Policy!Init /\ UpdatesStill /\ TalkStill /\ MenusStill
    \/ which = "quota" /\ Quota!Init /\ UpdatesStill /\ TalkStill /\ MenusStill
    \/ which = "buttons" /\ Buttons!Init /\ UpdatesStill /\ TalkStill /\ xadmin = "none" /\ RoutingStill
    \/ which = "chats" /\ Chats!Init /\ UpdatesStill /\ TalkStill /\ xadmin = "none" /\ RoutingStill
InTalk == which = "talk" /\ UNCHANGED <<which, vars, routes, menus>>
AllNext ==
    \/ which = "repeat" /\ Next /\ UNCHANGED <<which, talks, xadmin, routes, menus>>
    \/ InTalk /\ Talk!Next
    \/ which = "policy" /\ Policy!Next /\ UNCHANGED <<which, vars, talks, menus>>
    \/ which = "quota" /\ Quota!Next /\ UNCHANGED <<which, vars, talks, menus>>
    \/ which = "buttons" /\ Buttons!Next /\ UNCHANGED <<which, vars, talks, xadmin, routes>>
    \/ which = "chats" /\ Chats!Next /\ UNCHANGED <<which, vars, talks, xadmin, routes>>
TalkFairness ==
    /\ WF_allVars(InTalk /\ Talk!Serve("p1"))
    /\ \A k \in {"k1", "k2"} : WF_allVars(InTalk /\ (Talk!Take(k) \/ Talk!Process(k)))
AllSpec == AllInit /\ [][AllNext]_allVars /\ TalkFairness

\* RoutedOnce and AcknowledgedIsQueued are checked of "repeat"; the others join
\* properties of the modules, in the instances that can violate them.
\* A message is routed once and handled in the conversation the person's link
\* leads to, and a conversation given to a human has a request in the inbox;
\* what is done with it was allowed by the policy in force and by the month's
\* limit, however old the button that asked for it.
RoutedWhereAllowed ==
    /\ which = "talk" => Talk!RoutedOnce /\ Talk!InLinkedConversation /\ Talk!HandoffIsListed
    /\ which = "repeat" => HandoffIsListed
    /\ which = "policy" => Policy!WithinPolicy
    /\ which = "quota" => Quota!WithinQuota
    /\ which = "buttons" => Buttons!OldButtonsMayNothing /\ Buttons!ActsAreConfirmed
    /\ which = "chats" => Chats!OldButtonsMayNothing /\ Chats!ActsAreConfirmed
\* What was acknowledged to Telegram is answered, or has failed.
TalkSettles ==
    \A u \in {"u1", "u2"} : (which = "talk" /\ xacked[u]) ~> (which = "talk" /\ Talk!Settled(u))
=============================================================================
