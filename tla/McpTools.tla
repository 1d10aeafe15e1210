------------------------------ MODULE McpTools ------------------------------
(***************************************************************************)
(* The tools of a remote MCP server: the catalog that synchronisations     *)
(* bring and an operator shows and hides, and the calls that the steps of  *)
(* one agent's run make, each at most once and within the run's limits.    *)
(*                                                                         *)
(* Two synchronisations, the operator and two attempts of the run work at  *)
(* the same time.  A synchronisation reads the server, asks it for the     *)
(* catalog and commits the answer in one transaction; a call is reserved   *)
(* under a lock of the run's row before it is sent, because what a remote  *)
(* tool did cannot be undone or repeated.  Resources, templates and        *)
(* prompts are treated like tools.  The token is opaque here.              *)
(***************************************************************************)
EXTENDS Naturals, FiniteSets

CONSTANTS
    Tools,          \* names of tools the server may list
    Calls,          \* identifiers of tool calls (toolCallId)
    ToolOf,         \* the tool a call is for
    Attempts,       \* attempts of the run, under way at the same time
    Syncs,          \* synchronisations under way at the same time
    MaxCallsPerRun, \* limit of the agent's link to a tool
    MaxTotal,       \* maxTotalToolCallsPerRun
    MaxSyncs        \* bound: synchronisations

VARIABLES
    server, \* mcp_servers: live, enabled and whether its status is "connected"
    tool,   \* mcp_tools; choice and omitted remember why a tool is shown or not
    sync,   \* synchronisations
    syncs,  \* how many began
    call,   \* mcp_tool_calls, with how often each was sent
    step,   \* attempts
    holder  \* the attempt that holds the run's row, 0 if none

catalogVars == <<server, tool, sync, syncs>>
callVars == <<call, step, holder>>
vars == <<catalogVars, callVars>>

NoTool == [listed |-> FALSE, enabled |-> FALSE, choice |-> "none", omitted |-> FALSE]
NoCall == [st |-> "none", sent |-> 0]
Idle == [at |-> "idle", call |-> 0, tools |-> 0, total |-> 0]

Init ==
    /\ server = [live |-> TRUE, enabled |-> TRUE, connected |-> FALSE]
    /\ tool = [t \in Tools |-> NoTool]
    /\ sync = [s \in Syncs |-> [at |-> "idle", found |-> {}, failed |-> FALSE]] /\ syncs = 0
    /\ call = [c \in Calls |-> NoCall] /\ step = [a \in Attempts |-> Idle] /\ holder = 0

-----------------------------------------------------------------------------
(* The catalog.                                                            *)

\* Anyone with the right to manage integrations asks for a synchronisation.
SyncStarts(s) ==
    /\ sync[s].at = "idle" /\ syncs < MaxSyncs /\ server.live /\ server.enabled
    /\ sync' = [sync EXCEPT ![s].at = "discover"] /\ syncs' = syncs + 1
    /\ UNCHANGED <<server, tool, callVars>>

\* discoverMcpServer: the server lists its tools, or one listing fails and is
\* reported beside the others as an empty one.
discoverMcpServer(s) ==
    /\ sync[s].at = "discover"
    /\ \E found \in SUBSET Tools, failed \in BOOLEAN :
         /\ failed => found = {}
         /\ sync' = [sync EXCEPT ![s] = [at |-> "commit", found |-> found, failed |-> failed]]
    /\ UNCHANGED <<server, tool, syncs, callVars>>

\* The connection fails: the server is shown as failed, or as asking to sign in.
SyncFails(s) ==
    /\ sync[s].at = "discover"
    /\ sync' = [sync EXCEPT ![s].at = "idle"] /\ server' = [server EXCEPT !.connected = FALSE]
    /\ UNCHANGED <<tool, syncs, callVars>>

\* Defective variant: a tool that is listed again is shown again.
upsertedShown(row) ==
    IF row.listed THEN [row EXCEPT !.enabled = TRUE, !.omitted = FALSE]
    ELSE [NoTool EXCEPT !.listed = TRUE, !.enabled = TRUE]

\* A tool that is new is shown; one that is known keeps its visibility.
upserted(row) == IF row.listed THEN row ELSE [NoTool EXCEPT !.listed = TRUE, !.enabled = TRUE]

\* Defective variant: a listing that failed hides the whole catalog.
hidesAlways(s) == TRUE

\* Only a listing that succeeded hides what it does not name.
hides(s) == ~sync[s].failed

\* The transaction that commits a catalog.  The rows of a server that was
\* deleted meanwhile cannot be inserted, and there are none left to change.
syncMcpServer(s) ==
    /\ sync[s].at = "commit" /\ sync' = [sync EXCEPT ![s].at = "idle"]
    /\ server' = [server EXCEPT !.connected = server.live]
    /\ tool' = [t \in Tools |->
         IF ~server.live THEN tool[t]
         ELSE IF t \in sync[s].found THEN upserted(tool[t])
         ELSE IF hides(s) /\ tool[t].listed
                THEN [tool[t] EXCEPT !.enabled = FALSE, !.omitted = @ \/ ~sync[s].failed]
         ELSE tool[t]]
    /\ UNCHANGED <<syncs, callVars>>

\* The operator shows or hides a tool (set_catalog_enabled).
setCatalogEnabled(t, on) ==
    /\ tool[t].listed
    /\ tool' = [tool EXCEPT ![t].enabled = on, ![t].choice = IF on THEN "show" ELSE "hide",
                            ![t].omitted = IF on THEN FALSE ELSE @]
    /\ UNCHANGED <<server, sync, syncs, callVars>>

\* The operator enables or disables the server, or changes its token, which has
\* to be tested by a synchronisation again (update_server).
updateServer(enabled, rotated) ==
    /\ server.live
    /\ server' = [server EXCEPT !.enabled = enabled, !.connected = @ /\ ~rotated]
    /\ UNCHANGED <<tool, sync, syncs, callVars>>

\* DELETE: tools and calls go with the server.
deleteServer ==
    /\ server.live
    /\ server' = [live |-> FALSE, enabled |-> FALSE, connected |-> FALSE]
    /\ tool' = [t \in Tools |-> NoTool]
    /\ call' = [c \in Calls |-> [call[c] EXCEPT !.st = "none"]]
    /\ UNCHANGED <<sync, syncs, step, holder>>

-----------------------------------------------------------------------------
(* Calls.                                                                  *)

Goto(a, at) == step' = [step EXCEPT ![a].at = at]
Ends(a) == step' = [step EXCEPT ![a] = Idle]

\* An attempt of the run reaches a call: the tool has to be shown, its server
\* enabled and connected.
executeMcpToolIdempotent(a, c) ==
    /\ step[a].at = "idle"
    /\ tool[ToolOf[c]].enabled /\ server.live /\ server.enabled /\ server.connected
    /\ step' = [step EXCEPT ![a] = [Idle EXCEPT !.at = "lock", !.call = c]]
    /\ UNCHANGED <<catalogVars, call, holder>>

\* Defective variant: the run's row is not locked.
unlockedAny == TRUE

unlocked == holder = 0

\* SELECT ... FOR UPDATE of the run's row.
locks(a) ==
    /\ step[a].at = "lock" /\ unlocked
    /\ holder' = a /\ Goto(a, "count")
    /\ UNCHANGED <<catalogVars, call>>

Reserved(t) == {c \in Calls : call[c].st # "none" /\ (t = 0 \/ ToolOf[c] = t)}

\* Defective variant: a call that failed is made again.
repeatedAfterFailure(st) == st \in {"running", "completed"}

\* A call that is known is not made again, whatever became of it.
repeated(st) == st # "none"

\* The duplicate and the counts are read.
counts(a) ==
    /\ step[a].at = "count"
    /\ IF repeated(call[step[a].call].st)
         THEN Ends(a) /\ holder' = 0
         ELSE /\ step' = [step EXCEPT ![a].at = "reserve", ![a].tools = Cardinality(Reserved(ToolOf[step[a].call])),
                                      ![a].total = Cardinality(Reserved(0))]
              /\ UNCHANGED holder
    /\ UNCHANGED <<catalogVars, call>>

\* The reservation is inserted and committed, unless a limit is reached, the
\* same call was inserted meanwhile (a unique index) or the server is gone.
reserveCall(a) ==
    /\ step[a].at = "reserve" /\ holder' = 0
    /\ LET c == step[a].call IN
         IF /\ step[a].tools < MaxCallsPerRun /\ step[a].total < MaxTotal
            /\ ~repeated(call[c].st) /\ server.live
           THEN call' = [call EXCEPT ![c].st = "running"] /\ Goto(a, "send")
           ELSE Ends(a) /\ UNCHANGED call
    /\ UNCHANGED catalogVars

\* The event "tool.call.started" is appended and the call sent.
callRemoteMcpTool(a) ==
    /\ step[a].at = "send"
    /\ call' = [call EXCEPT ![step[a].call].sent = @ + 1] /\ Goto(a, "record")
    /\ UNCHANGED <<catalogVars, holder>>

\* A row that was deleted with its server is not updated.
Recorded(c, st) == call' = [call EXCEPT ![c].st = IF @ = "none" THEN @ ELSE st]

\* The outcome is recorded, and then the step and its event.
recorded(a) ==
    /\ step[a].at = "record"
    /\ \/ Recorded(step[a].call, "completed") /\ (Ends(a) \/ Goto(a, "failed"))
       \/ Recorded(step[a].call, "failed") /\ Ends(a)
    /\ UNCHANGED <<catalogVars, holder>>

\* The step or its event could not be written: the call is recorded as failed.
recordedFailed(a) ==
    /\ step[a].at = "failed" /\ Recorded(step[a].call, "failed") /\ Ends(a)
    /\ UNCHANGED <<catalogVars, holder>>

\* The server asks to sign in again.
Unauthorized(a) ==
    /\ step[a].at = "record" /\ Recorded(step[a].call, "failed") /\ Ends(a)
    /\ server' = [server EXCEPT !.connected = FALSE]
    /\ UNCHANGED <<tool, sync, syncs, holder>>

\* The worker dies, or the start event cannot be appended: the call stays
\* "running"; an open transaction is rolled back.
Crash(a) ==
    /\ step[a].at # "idle" /\ Ends(a)
    /\ holder' = IF holder = a THEN 0 ELSE holder
    /\ UNCHANGED <<catalogVars, call>>

Next ==
    \/ \E s \in Syncs : SyncStarts(s) \/ discoverMcpServer(s) \/ SyncFails(s) \/ syncMcpServer(s)
    \/ \E t \in Tools, on \in BOOLEAN : setCatalogEnabled(t, on)
    \/ \E enabled, rotated \in BOOLEAN : updateServer(enabled, rotated)
    \/ deleteServer
    \/ \E a \in Attempts :
         \/ \E c \in Calls : executeMcpToolIdempotent(a, c)
         \/ locks(a) \/ counts(a) \/ reserveCall(a) \/ callRemoteMcpTool(a)
         \/ recorded(a) \/ recordedFailed(a) \/ Unauthorized(a) \/ Crash(a)

Spec == Init /\ [][Next]_vars

-----------------------------------------------------------------------------

\* A synchronisation overrides no choice of the operator, and hides nothing that
\* no complete listing left out.
ChoiceIsKept ==
    \A t \in Tools : tool[t].listed =>
        /\ tool[t].choice = "hide" => ~tool[t].enabled
        /\ ~tool[t].enabled => tool[t].choice = "hide" \/ tool[t].omitted

\* A tool call is sent at most once, whichever attempt makes it, how often and
\* after which failure.
CallSentOnce == \A c \in Calls : call[c].sent <= 1

\* Attempts that reserve at the same time exceed neither limit of the run.
WithinLimits ==
    /\ Cardinality(Reserved(0)) <= MaxTotal
    /\ \A t \in Tools : Cardinality(Reserved(t)) <= MaxCallsPerRun

=============================================================================
