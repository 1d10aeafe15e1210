----------------------------- MODULE MCPlatform ------------------------------
(***************************************************************************)
(* The platform's services around the runs, checked in one run.  "keys"    *)
(* and "defaults" are connections to model providers whose keys and whose  *)
(* default are changed by several requests, "drafts" forms that are tested *)
(* before they are saved; "catalog" is an MCP server that is synchronised, *)
(* "calls" the calls of its tools; "call" one request to a provider;       *)
(* "legacy" and "supabase" are sessions of the two sources; "kernel" and   *)
(* "remote" runs of a tool with and without a workspace; "settings",       *)
(* "sandbox", "deployed" and "partial" are settings of external services;  *)
(* "sends" and "files" attachments, one in two messages and two in one;    *)
(* "bots" an organization's Telegram bot that several requests configure;  *)
(* "pages", "rules" and "menus" content that administrators save and       *)
(* delete.                                                                 *)
(* The variables of the other modules stand still.                         *)
(***************************************************************************)
EXTENDS Naturals, TLC

VARIABLES which,
    row, req, run, tested, at, job,
    catalog, default, saved, accepted,
    server, tool, sync, syncs, call, step, holder,
    setup, route, attempt, sent, total, linked, caller, provider, cause,
    member, session, jwt, removing, password,
    ws, dir, stored, pc, kernel, ran, crashes,
    health, env, cache, flight, init,
    task, controller, upload, object, intel, chunks, going, worker, send,
    hook, conn, confirmed, loose,
    trash, revs

\* What an administrator may ask of a connection: 0 and "keep" are not given.
Asked(kind, key, url) ==
    [kind |-> kind, key |-> key, url |-> url, recheck |-> FALSE, enabled |-> "keep", standard |-> "keep"]
Standard(b) == [b EXCEPT !.standard = "on"]

KeyChanges == INSTANCE ProviderCredentials WITH
    Creds <- {1}, Keys <- {1, 2}, Urls <- {1}, Opens <- {<<1, 1>>, <<2, 1>>}, Requests <- {1, 2},
    Bodies <- {Asked("create", 1, 1), Asked("patch", 2, 0), [Asked("patch", 0, 0) EXCEPT !.enabled = "on"],
               [Asked("apiPatch", 0, 0) EXCEPT !.recheck = TRUE], Asked("delete", 0, 0)},
    Runs <- {1}, MaxSessions <- 0, Events <- {"revoke"}
Defaults == INSTANCE ProviderCredentials WITH
    Creds <- {1, 2}, Keys <- {1}, Urls <- {1}, Opens <- {<<1, 1>>}, Requests <- {1, 2},
    Bodies <- {Standard(Asked("create", 1, 1)), Asked("apiCreate", 1, 1), Standard(Asked("patch", 0, 0)),
               [Asked("patch", 0, 0) EXCEPT !.standard = "off"], Asked("delete", 0, 0), Asked("apiDelete", 0, 0)},
    Runs <- {}, MaxSessions <- 0, Events <- {}
Drafts == INSTANCE ProviderCredentials WITH
    Creds <- {1, 2}, Keys <- {1, 2}, Urls <- {1}, Opens <- {<<1, 1>>}, Requests <- {1, 2},
    Bodies <- {Asked("test", 1, 1), Asked("save", 1, 1), Asked("save", 2, 1)},
    Runs <- {}, MaxSessions <- 1, Events <- {}

Catalog == INSTANCE McpTools WITH
    Tools <- {1, 2}, Calls <- {}, ToolOf <- <<>>, Attempts <- {}, Syncs <- {1, 2},
    MaxCallsPerRun <- 1, MaxTotal <- 1, MaxSyncs <- 2
ToolCalls == INSTANCE McpTools WITH
    Tools <- {1, 2}, Calls <- {1, 2, 3}, ToolOf <- <<1, 1, 2>>, Attempts <- {1, 2}, Syncs <- {1},
    MaxCallsPerRun <- 1, MaxTotal <- 2, MaxSyncs <- 1

ProviderCall == INSTANCE ProviderRequests WITH
    Setups <- {s \in [gateway : BOOLEAN, fallback : BOOLEAN, stored : BOOLEAN, stream : BOOLEAN, retries : 0 .. 2] :
                 s.stream => s.retries = 0}

Legacy == INSTANCE Sessions WITH
    Orgs <- {1, 2}, Ids <- {1, 2}, Requests <- {1}, Source <- "legacy", MaxPasswords <- 2
Supabase == INSTANCE Sessions WITH
    Orgs <- {1, 2}, Ids <- {1}, Requests <- {1, 2}, Source <- "supabase", MaxPasswords <- 1

Kernel == INSTANCE ToolRuns WITH
    Kind <- "kernel", Required <- 2, Tries <- 3, MaxCrashes <- 1, Events <- {"cancel", "expire", "stale", "error"}
Remote == INSTANCE ToolRuns WITH
    Kind <- "remote", Required <- 2, Tries <- 3, MaxCrashes <- 1, Events <- {"cancel", "expire", "stale", "error"}

Wanted(feature, on, cfg) == [feature |-> feature, on |-> on, cfg |-> cfg]
WhatsApp == {Wanted("whatsapp", TRUE, <<1, 1>>), Wanted("whatsapp", TRUE, <<2, 0>>), Wanted("whatsapp", TRUE, <<0, 2>>)}
Settings == INSTANCE RuntimeControl WITH
    Processes <- {1}, Admins <- {1, 2, 3}, Bodies <- WhatsApp, Deployed <- <<0, 0>>
Sandbox == INSTANCE RuntimeControl WITH
    Processes <- {1}, Admins <- {1, 2}, Deployed <- <<0, 0>>,
    Bodies <- {Wanted("sandbox", TRUE, <<1, 1>>), Wanted("sandbox", TRUE, <<2, 0>>), Wanted("whatsapp", FALSE, <<0, 0>>)}
Whole == INSTANCE RuntimeControl WITH
    Processes <- {1, 2}, Admins <- {1}, Bodies <- {}, Deployed <- <<3, 3>>
Partial == INSTANCE RuntimeControl WITH
    Processes <- {1}, Admins <- {1}, Bodies <- WhatsApp, Deployed <- <<3, 0>>

TwoSends == INSTANCE Attachments WITH
    Tasks <- {"t"}, Files <- {1}, Sends <- {1, 2}, Unread <- {}, Stored <- {"same", "other", "resized"},
    Events <- {"leave", "restore", "delete", "crash"}
TwoFiles == INSTANCE Attachments WITH
    Tasks <- {"t"}, Files <- {1, 2}, Sends <- {1}, Unread <- {2}, Stored <- {"same", "other"}, Events <- {}

Change(token, agent, enabled) ==
    [token |-> token, agent |-> agent, enabled |-> enabled, activateWebhook |-> FALSE]
TwoBots == <<1, 2>>
Bots == INSTANCE TelegramBots WITH
    Requests <- {1, 2, 3}, BotOf <- TwoBots,
    Bodies <- {Change({1}, {1}, {}), Change({2}, {}, {}), Change({}, {0}, {FALSE})}

Changes == {"upsert", "delete", "restore", "trash.restore", "trash.purge"}
PageKinds == "p" :> "page" @@ "s" :> "section"
PageParts == "s" :> "p"
Pages == INSTANCE ManagedContent WITH
    Resources <- {"p", "s"}, Kind <- PageKinds, Parent <- PageParts, Missing <- {"s"}, Requests <- {1, 2, 3},
    Operations <- {"upsert", "delete", "restore", "purge", "revision"}, Statuses <- {"published"}
RuleKinds == "t" :> "template" @@ "r" :> "rule"
RuleParts == "r" :> "t"
Rules == INSTANCE ManagedContent WITH
    Resources <- {"t", "r"}, Kind <- RuleKinds, Parent <- RuleParts, Missing <- {"r"}, Requests <- {1, 2, 3},
    Operations <- Changes, Statuses <- {"draft"}
MenuKinds == "m" :> "menu" @@ "i" :> "item" @@ "v" :> "service" @@ "x" :> "module"
MenuParts == "i" :> "m"
Menus == INSTANCE ManagedContent WITH
    Resources <- {"m", "i", "v", "x"}, Kind <- MenuKinds, Parent <- MenuParts, Missing <- {"i"}, Requests <- {1, 2},
    Operations <- Changes \union {"revision"}, Statuses <- {"draft", "deleted"}

providers == <<catalog, default, saved, accepted>>
mcp == <<server, tool, sync, syncs, call, step, holder>>
request == <<setup, route, attempt, sent, total, linked, caller, provider, cause>>
sessions == <<member, session, jwt, removing, password>>
tools == <<ws, dir, stored, pc, kernel, ran, crashes>>
control == <<health, env, cache, flight, init>>
attachments == <<task, controller, upload, object, intel, chunks, going, worker, send>>
bots == <<hook, conn, confirmed, loose>>
content == <<trash, revs>>
vars == <<which, row, req, run, tested, at, job,
          providers, mcp, request, sessions, tools, control, attachments, bots, content>>

None == "none"
ProvidersStill == catalog = None /\ default = None /\ saved = None /\ accepted = None
McpStill ==
    /\ server = None /\ tool = None /\ sync = None /\ syncs = None /\ call = None /\ step = None
    /\ holder = None
RequestStill ==
    /\ setup = None /\ route = None /\ attempt = None /\ sent = None /\ total = None /\ linked = None
    /\ caller = None /\ provider = None /\ cause = None
SessionsStill == member = None /\ session = None /\ jwt = None /\ removing = None /\ password = None
ToolsStill ==
    /\ ws = None /\ dir = None /\ stored = None /\ pc = None /\ kernel = None /\ ran = None /\ crashes = None
ControlStill == health = None /\ env = None /\ cache = None /\ flight = None /\ init = None
AttachmentsStill ==
    /\ task = None /\ controller = None /\ upload = None /\ object = None /\ intel = None /\ chunks = None
    /\ going = None /\ worker = None /\ send = None

BotsStill == hook = None /\ conn = None /\ confirmed = None /\ loose = None
ContentStill == trash = None /\ revs = None

Init ==
    \/ /\ at = None /\ job = None /\ McpStill /\ RequestStill /\ SessionsStill /\ ToolsStill /\ ControlStill
       /\ AttachmentsStill /\ BotsStill /\ ContentStill
       /\ \/ which = "keys" /\ KeyChanges!Init
          \/ which = "defaults" /\ Defaults!Init
          \/ which = "drafts" /\ Drafts!Init
    \/ /\ row = None /\ req = None /\ run = None /\ tested = None /\ at = None /\ job = None
       /\ ProvidersStill /\ RequestStill /\ SessionsStill /\ ToolsStill /\ ControlStill /\ AttachmentsStill /\ BotsStill /\ ContentStill
       /\ \/ which = "catalog" /\ Catalog!Init
          \/ which = "calls" /\ ToolCalls!Init
    \/ /\ row = None /\ req = None /\ run = None /\ tested = None /\ job = None
       /\ ProvidersStill /\ McpStill /\ SessionsStill /\ ToolsStill /\ ControlStill /\ AttachmentsStill /\ BotsStill /\ ContentStill
       /\ which = "call" /\ ProviderCall!Init
    \/ /\ row = None /\ run = None /\ tested = None /\ at = None /\ job = None
       /\ ProvidersStill /\ McpStill /\ RequestStill /\ ToolsStill /\ ControlStill /\ AttachmentsStill /\ BotsStill /\ ContentStill
       /\ \/ which = "legacy" /\ Legacy!Init
          \/ which = "supabase" /\ Supabase!Init
    \/ /\ req = None /\ tested = None
       /\ ProvidersStill /\ McpStill /\ RequestStill /\ SessionsStill /\ ControlStill /\ AttachmentsStill /\ BotsStill /\ ContentStill
       /\ \/ which = "kernel" /\ Kernel!Init
          \/ which = "remote" /\ Remote!Init
    \/ /\ run = None /\ at = None /\ job = None
       /\ ProvidersStill /\ McpStill /\ RequestStill /\ SessionsStill /\ ToolsStill /\ AttachmentsStill /\ BotsStill /\ ContentStill
       /\ \/ which = "settings" /\ Settings!Init
          \/ which = "sandbox" /\ Sandbox!Init
          \/ which = "deployed" /\ Whole!Init
          \/ which = "partial" /\ Partial!Init
    \/ /\ req = None /\ run = None /\ tested = None /\ at = None
       /\ ProvidersStill /\ McpStill /\ RequestStill /\ SessionsStill /\ ToolsStill /\ ControlStill /\ BotsStill /\ ContentStill
       /\ \/ which = "sends" /\ TwoSends!Init
          \/ which = "files" /\ TwoFiles!Init
    \/ /\ run = None /\ at = None /\ job = None
       /\ ProvidersStill /\ McpStill /\ RequestStill /\ SessionsStill /\ ToolsStill /\ ControlStill
       /\ AttachmentsStill /\ ContentStill /\ which = "bots" /\ Bots!Init
    \/ /\ run = None /\ tested = None /\ at = None /\ job = None
       /\ ProvidersStill /\ McpStill /\ RequestStill /\ SessionsStill /\ ToolsStill /\ ControlStill
       /\ AttachmentsStill /\ BotsStill
       /\ \/ which = "pages" /\ Pages!Init
          \/ which = "rules" /\ Rules!Init
          \/ which = "menus" /\ Menus!Init

Next ==
    /\ which' = which
    /\ \/ /\ UNCHANGED <<at, job, mcp, request, sessions, tools, control, attachments, bots, content>>
          /\ \/ which = "keys" /\ KeyChanges!Next
             \/ which = "defaults" /\ Defaults!Next
             \/ which = "drafts" /\ Drafts!Next
       \/ /\ UNCHANGED <<row, req, run, tested, at, job, providers, request, sessions, tools, control, attachments, bots, content>>
          /\ \/ which = "catalog" /\ Catalog!Next
             \/ which = "calls" /\ ToolCalls!Next
       \/ /\ UNCHANGED <<row, req, run, tested, job, providers, mcp, sessions, tools, control, attachments, bots, content>>
          /\ which = "call" /\ ProviderCall!Next
       \/ /\ UNCHANGED <<row, run, tested, at, job, providers, mcp, request, tools, control, attachments, bots, content>>
          /\ \/ which = "legacy" /\ Legacy!Next
             \/ which = "supabase" /\ Supabase!Next
       \/ /\ UNCHANGED <<req, tested, providers, mcp, request, sessions, control, attachments, bots, content>>
          /\ \/ which = "kernel" /\ Kernel!Next
             \/ which = "remote" /\ Remote!Next
       \/ /\ UNCHANGED <<run, at, job, providers, mcp, request, sessions, tools, attachments, bots, content>>
          /\ \/ which = "settings" /\ Settings!Next
             \/ which = "sandbox" /\ Sandbox!Next
             \/ which = "deployed" /\ Whole!Next
             \/ which = "partial" /\ Partial!Next
       \/ /\ UNCHANGED <<req, run, tested, at, providers, mcp, request, sessions, tools, control, bots, content>>
          /\ \/ which = "sends" /\ TwoSends!Next
             \/ which = "files" /\ TwoFiles!Next
       \/ /\ UNCHANGED <<run, at, job, providers, mcp, request, sessions, tools, control, attachments, content>>
          /\ which = "bots" /\ Bots!Next
       \/ /\ UNCHANGED <<run, tested, at, job, providers, mcp, request, sessions, tools, control, attachments, bots>>
          /\ \/ which = "pages" /\ Pages!Next
             \/ which = "rules" /\ Rules!Next
             \/ which = "menus" /\ Menus!Next

Spec == Init /\ [][Next]_vars

\* A test creates one connection, a call of an MCP tool is sent once and within
\* the run's limits, a provider is called no more often and on no other route
\* than was allowed, a tool's program runs once per worker.
TakenOnce ==
    /\ which = "drafts" => Drafts!TestUsedOnce
    /\ which = "calls" => ToolCalls!CallSentOnce /\ ToolCalls!WithinLimits
    /\ which = "call" => ProviderCall!SentWithinBounds
    /\ which = "kernel" => Kernel!RunOncePerWorker
    /\ which = "remote" => Remote!RunOncePerWorker

\* A connection that runs may use and a service that is enabled were tested with
\* the very settings they have; the default is a live connection; a bot's updates
\* reach the platform.
ServedIsTested ==
    /\ which = "keys" => KeyChanges!VerifiedIsTested /\ KeyChanges!DefaultIsLive
    /\ which = "defaults" => Defaults!VerifiedIsTested /\ Defaults!DefaultIsLive
    /\ which = "drafts" => Drafts!VerifiedIsTested
    /\ which = "settings" => Settings!EnabledIsTested
    /\ which = "sandbox" => Sandbox!EnabledIsTested
    /\ which = "deployed" => Whole!EnabledIsTested
    /\ which = "partial" => Partial!EnabledIsTested
    /\ which = "bots" => Bots!VerifiedIsConfirmed /\ Bots!ReachableAsSet

\* A completed tool run has its artifacts, a message is answered from the bytes
\* the user chose, and the operator's choice of tools outlasts synchronisations,
\* and content that was saved can be brought back.
ContentIsKept ==
    /\ which = "catalog" => Catalog!ChoiceIsKept
    /\ which = "calls" => ToolCalls!ChoiceIsKept
    /\ which = "kernel" => Kernel!CompletedIsStored
    /\ which = "remote" => Remote!CompletedIsStored
    /\ which = "sends" => TwoSends!SentIsDeclared /\ TwoSends!ChunksAreDeclared
    /\ which = "files" => TwoFiles!SentIsDeclared /\ TwoFiles!ChunksAreDeclared
    /\ which = "pages" => Pages!SavedIsRevised
    /\ which = "menus" => Menus!SavedIsRevised

\* A deleted connection serves no new run and does not come back, and a request
\* is admitted only to an organization its user is a member of; the trash removes only
\* what is still deleted.
ActedWhileValid ==
    [][/\ which = "keys" => KeyChanges!DeletedStep
       /\ which = "defaults" => Defaults!DeletedStep
       /\ which = "legacy" => Legacy!AdmittedStep
       /\ which = "supabase" => Supabase!AdmittedStep
       /\ which = "pages" => Pages!PurgeSparesLive
       /\ which = "rules" => Rules!PurgeSparesLive
       /\ which = "menus" => Menus!PurgeSparesLive]_vars

=============================================================================
