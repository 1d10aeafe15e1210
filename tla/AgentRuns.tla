----------------------------- MODULE AgentRuns -----------------------------
(***************************************************************************)
(* Agent runs of one conversation: the web process that executes a run,    *)
(* the tool calls the model makes, the approvals a person decides, the     *)
(* cancellation of a run, and the worker task that resumes a run after a   *)
(* decision.  Every action is one statement or transaction on the          *)
(* database, or one exchange with the provider or with a tool server;      *)
(* between two of them everything else may happen.                         *)
(*                                                                         *)
(* A run makes at most one plain tool call per attempt (a tool that needs  *)
(* no approval) and asks at most MaxAsks times for approval of another.    *)
(***************************************************************************)
EXTENDS Naturals, GraphileJob

CONSTANTS
    Runs,         \* runs of one conversation
    Streamed,     \* those that are streamed to the client
    Deciders,     \* people who decide approvals
    Worker,       \* the slot of the serial queue agent-approvals
    MaxAttempts,  \* provider candidates tried (AI_PROVIDER_MAX_ATTEMPTS)
    MaxAsks,      \* approvals a run asks for (bound of the model)
    Tries,        \* attempts of an agent-run-resume task (5)
    Events        \* which of EventKinds happen in this instance

EventKinds == {"plain",     \* the model calls tools that need no approval
               "cancel",    \* a person cancels a run
               "leave",     \* the client of a streamed run goes away
               "expire",    \* the lifetime of an approval ends
               "crash",     \* the web process or the worker dies
               "error",     \* the provider fails
               "fallback",  \* AI_PROVIDER_FALLBACK_ENABLED
               "empty",     \* the model answers with no text
               "unsaved",   \* a statement after the approval was created fails
               "refused"}   \* the database refuses the completion of a resumed run

ASSUME RunsAssumption == Streamed \subseteq Runs /\ Worker \notin Runs
ASSUME BoundsAssumption ==
    MaxAttempts \in Nat \ {0} /\ MaxAsks \in Nat \ {0} /\ Tries \in Nat \ {0}
ASSUME EventsAssumption == Events \subseteq EventKinds

VARIABLES
    run,      \* the row of each run
    msg,      \* the assistant message of each run
    ckpt,     \* the approval the run's checkpoint waits for, 0 without a checkpoint
    appr,     \* the approvals of each run
    ruled,    \* the decisions written to the audit log
    call,     \* the rows of mcp_tool_calls
    sent,     \* how often each call was sent to its server
    proc,     \* the web process of each run, and the worker
    decider,  \* the decision each person is taking
    cancel,   \* the cancellation of each run
    row       \* the resume task of each approval

vars == <<run, msg, ckpt, appr, ruled, call, sent, proc, decider, cancel, row>>

Asks == 1..MaxAsks
CallIds == ({"plain"} \X (1..MaxAttempts)) \cup ({"asked"} \X Asks)
Procs == Runs \cup {Worker}

Active == {"running", "waiting"}
Ended == {"completed", "failed", "cancelled"}
RunStates == {"none"} \cup Active \cup Ended
MsgStates == {"none", "streaming", "interrupted"} \cup Ended
ApprStates == {"none", "pending", "approved", "rejected", "expired", "consumed"}
Decided == {"approved", "rejected"}
CallStates == {"none", "running", "completed", "failed"}

Places == {"idle", "model", "reserve", "send", "settle", "ask", "asked", "progress", "caught",
           "complete", "tidy", "done", "approval", "checkpoint", "run", "reopen", "consume"}
Outcomes == {"none", "asked", "text", "empty", "error", "cancelled"}

NoProc == [at |-> "idle", run |-> Worker, attempt |-> 1, ask |-> 0, call |-> <<"plain", 1>>,
           approved |-> FALSE, text |-> FALSE, aborted |-> FALSE, outcome |-> "none"]
Gone == [NoProc EXCEPT !.at = "done"]  \* the request has been answered
NoDecision == [at |-> "idle", run |-> Worker, ask |-> 0, late |-> FALSE]
NoCancel == [at |-> "idle", read |-> "none"]
Spent == [at |-> "done", read |-> "none"]

At(p, at) == proc[p].at = at
Goto(p, at) == proc' = [proc EXCEPT ![p] = IF at = "done" THEN Gone ELSE [@ EXCEPT !.at = at]]
RunOf(p) == proc[p].run

\* The task returned: its row is deleted.
Return ==
    /\ row' = [row EXCEPT ![RunOf(Worker)][proc[Worker].ask] = Absent]
    /\ proc' = [proc EXCEPT ![Worker] = NoProc]
\* The task threw, or the worker died: the row waits for another attempt.
Raise ==
    /\ row' = [row EXCEPT ![RunOf(Worker)][proc[Worker].ask] = returned(@, Tries)]
    /\ proc' = [proc EXCEPT ![Worker] = NoProc]

----------------------------------------------------------------------------
(* A run in the web process: prepareAgentRun and the loop over candidates.  *)

\* Defective variant: nobody looks for an active run.
PrepareAnyway(r) ==
    /\ At(r, "idle") /\ run[r].status = "none"
    /\ run' = [run EXCEPT ![r].status = "running"]
    /\ proc' = [proc EXCEPT ![r] = [NoProc EXCEPT !.at = "model", !.run = r]]
    /\ UNCHANGED <<msg, ckpt, appr, ruled, call, sent, decider, cancel, row>>

\* Under the advisory lock of the conversation: refused while a run is active.
Prepare(r) ==
    /\ At(r, "idle") /\ run[r].status = "none"
    /\ \A s \in Runs : run[s].status \notin Active
    /\ run' = [run EXCEPT ![r].status = "running"]
    /\ proc' = [proc EXCEPT ![r] = [NoProc EXCEPT !.at = "model", !.run = r]]
    /\ UNCHANGED <<msg, ckpt, appr, ruled, call, sent, decider, cancel, row>>

\* The first delta of a streamed answer creates the message.
Delta(r) ==
    /\ r \in Streamed /\ At(r, "model") /\ ~proc[r].text
    /\ msg' = [msg EXCEPT ![r] = IF @ = "none" THEN "streaming" ELSE @]
    /\ proc' = [proc EXCEPT ![r].text = TRUE]
    /\ UNCHANGED <<run, ckpt, appr, ruled, call, sent, decider, cancel, row>>

\* The candidate is executing: an abort reaches it.
Generating(r) == proc[r].at \in {"model", "reserve", "send", "settle", "ask", "asked"}

\* The client of a streamed run goes away: its request aborts the run.
Leave(r) ==
    /\ "leave" \in Events /\ r \in Streamed
    /\ Generating(r) /\ ~proc[r].aborted
    /\ proc' = [proc EXCEPT ![r].aborted = TRUE]
    /\ UNCHANGED <<run, msg, ckpt, appr, ruled, call, sent, decider, cancel, row>>

\* The model calls a tool that needs no approval.
CallTool(r) ==
    /\ "plain" \in Events /\ r \in Runs /\ At(r, "model")
    /\ call[r][<<"plain", proc[r].attempt>>] = "none"
    /\ proc' = [proc EXCEPT ![r].at = "reserve", ![r].call = <<"plain", proc[r].attempt>>]
    /\ UNCHANGED <<run, msg, ckpt, appr, ruled, call, sent, decider, cancel, row>>

\* reserveCall: under the lock of the run's row.
Reserve(p) ==
    /\ At(p, "reserve")
    /\ call[RunOf(p)][proc[p].call] = "none"
    /\ call' = [call EXCEPT ![RunOf(p)][proc[p].call] = "running"]
    /\ Goto(p, "send")
    /\ UNCHANGED <<run, msg, ckpt, appr, ruled, sent, decider, cancel, row>>

\* Defective variant: a call that did not complete is made again.
DuplicateAgain(p) ==
    /\ At(p, "reserve")
    /\ call[RunOf(p)][proc[p].call] # "none"
    /\ Goto(p, IF call[RunOf(p)][proc[p].call] = "completed" THEN "model" ELSE "send")
    /\ UNCHANGED <<run, msg, ckpt, appr, ruled, call, sent, decider, cancel, row>>

\* A call with this identifier exists: its result, the fact that it is running
\* or its failure is what the model is told.
Duplicate(p) ==
    /\ At(p, "reserve")
    /\ call[RunOf(p)][proc[p].call] # "none"
    /\ Goto(p, "model")
    /\ UNCHANGED <<run, msg, ckpt, appr, ruled, call, sent, decider, cancel, row>>

Send(p) ==
    /\ At(p, "send")
    /\ sent' = [sent EXCEPT ![RunOf(p)][proc[p].call] = @ + 1]
    /\ Goto(p, "settle")
    /\ UNCHANGED <<run, msg, ckpt, appr, ruled, call, decider, cancel, row>>

Settle(p) ==
    /\ At(p, "settle")
    /\ \E result \in {"completed", "failed"} :
         call' = [call EXCEPT ![RunOf(p)][proc[p].call] = result]
    /\ Goto(p, "model")
    /\ UNCHANGED <<run, msg, ckpt, appr, ruled, sent, decider, cancel, row>>

\* The model ends its turn with a call that needs approval.
Ask(p) ==
    /\ At(p, "model")
    /\ \E k \in Asks :
         /\ appr[RunOf(p)][k] = "none" /\ \A j \in 1..(k - 1) : appr[RunOf(p)][j] # "none"
         /\ ckpt' = [ckpt EXCEPT ![RunOf(p)] = k]
         /\ proc' = [proc EXCEPT ![p].at = "ask", ![p].outcome = "asked", ![p].call = <<"asked", k>>]
    /\ UNCHANGED <<run, msg, appr, ruled, call, sent, decider, cancel, row>>

\* requestToolApproval after the checkpoint was saved.
RequestApproval(p) ==
    LET r == RunOf(p) IN
    /\ At(p, "ask")
    /\ appr' = [appr EXCEPT ![r][proc[p].call[2]] = "pending"]
    /\ run' = [run EXCEPT ![r].status = "waiting"]
    /\ Goto(p, "asked")
    /\ UNCHANGED <<msg, ckpt, ruled, call, sent, decider, cancel, row>>

\* The step and the event are recorded: a run in the web process waits now, a
\* streamed one after it saved its text; the worker consumes the decision that
\* it resumed from.
RecordAsk(p) ==
    /\ At(p, "asked")
    /\ Goto(p, IF p = Worker THEN "consume" ELSE IF proc[p].text THEN "progress" ELSE "done")
    /\ UNCHANGED <<run, msg, ckpt, appr, ruled, call, sent, decider, cancel, row>>

\* One of those two inserts fails: the candidate failed.
RecordAskFails(p) ==
    /\ "unsaved" \in Events /\ At(p, "asked")
    /\ proc' = [proc EXCEPT ![p].at = "caught",
                            ![p].outcome = IF proc[p].aborted THEN "cancelled" ELSE "asked"]
    /\ UNCHANGED <<run, msg, ckpt, appr, ruled, call, sent, decider, cancel, row>>

\* persistStreamingAssistantProgress
SaveProgress(r) ==
    /\ At(r, "progress")
    /\ msg' = [msg EXCEPT ![r] = "streaming"]
    /\ Goto(r, "done")
    /\ UNCHANGED <<run, ckpt, appr, ruled, call, sent, decider, cancel, row>>

\* The model answers.  No text is an error at once in the web process; the
\* worker consumes the decision first.
Answer(p) ==
    /\ At(p, "model")
    /\ \E outcome \in {"text"} \cup (IF "empty" \in Events THEN {"empty"} ELSE {}) :
         proc' = [proc EXCEPT
             ![p].outcome = outcome,
             ![p].at = IF p = Worker THEN "consume"
                       ELSE IF outcome = "text" THEN "complete" ELSE "caught"]
    /\ UNCHANGED <<run, msg, ckpt, appr, ruled, call, sent, decider, cancel, row>>

\* The provider fails, or notices that the run was aborted.
ProviderFails(p) ==
    /\ At(p, "model")
    /\ "error" \in Events \/ proc[p].aborted
    /\ proc' = [proc EXCEPT ![p].at = "caught",
                            ![p].outcome = IF proc[p].aborted THEN "cancelled" ELSE "error"]
    /\ UNCHANGED <<run, msg, ckpt, appr, ruled, call, sent, decider, cancel, row>>

\* mayFallback, as the error reaches it: toolExecuted and its like are copied
\* to the error's state only when the generation succeeded.
mayFallback(r) ==
    /\ "fallback" \in Events
    /\ ~proc[r].text /\ proc[r].outcome = "error"

Fallback(r) ==
    /\ r \in Runs /\ At(r, "caught")
    /\ mayFallback(r) /\ proc[r].attempt < MaxAttempts
    /\ proc' = [proc EXCEPT ![r].at = "model", ![r].attempt = @ + 1, ![r].outcome = "none"]
    /\ UNCHANGED <<run, msg, ckpt, appr, ruled, call, sent, decider, cancel, row>>

\* Defective variant: the run's row is left as it is.
FailQuietly(p) ==
    /\ At(p, "caught")
    /\ msg' = [msg EXCEPT ![RunOf(p)] = "failed"]
    /\ Goto(p, "tidy")
    /\ UNCHANGED <<run, ckpt, appr, ruled, call, sent, decider, cancel, row>>

\* failAgentRun: the last candidate failed, or an error no other candidate
\* would mend.
FailRun(p) ==
    LET r == RunOf(p) IN
    /\ At(p, "caught")
    /\ run' = [run EXCEPT ![r].status = IF proc[p].outcome = "cancelled" THEN "cancelled" ELSE "failed"]
    /\ msg' = [msg EXCEPT ![r] = IF proc[p].outcome = "cancelled" THEN "cancelled"
                                 ELSE IF proc[p].text THEN "interrupted" ELSE "failed"]
    /\ Goto(p, "tidy")
    /\ UNCHANGED <<ckpt, appr, ruled, call, sent, decider, cancel, row>>

\* completeAgentRun, called by the process that created the message.
CompleteRun(r) ==
    /\ r \in Runs /\ At(r, "complete")
    /\ run' = [run EXCEPT ![r].status = "completed"]
    /\ msg' = [msg EXCEPT ![r] = "completed"]
    /\ Goto(r, "tidy")
    /\ UNCHANGED <<ckpt, appr, ruled, call, sent, decider, cancel, row>>

\* deleteRunCheckpoints.  The resume task rethrows the provider's error.
Tidy(p) ==
    /\ At(p, "tidy")
    /\ ckpt' = [ckpt EXCEPT ![RunOf(p)] = 0]
    /\ IF p = Worker THEN Raise ELSE Goto(p, "done") /\ UNCHANGED row
    /\ UNCHANGED <<run, msg, appr, ruled, call, sent, decider, cancel>>

----------------------------------------------------------------------------
(* Decisions: decideToolApproval, then the route that queues the resumption. *)

\* The lifetime of a pending approval is compared when it is read.
DecideRead(d, r, k) ==
    /\ decider[d].at = "idle"
    /\ appr[r][k] = "pending"
    /\ \E late \in (IF "expire" \in Events THEN BOOLEAN ELSE {FALSE}) :
         decider' = [decider EXCEPT ![d] = [at |-> "write", run |-> r, ask |-> k, late |-> late]]
    /\ UNCHANGED <<run, msg, ckpt, appr, ruled, call, sent, proc, cancel, row>>

\* Too late: written by identifier alone, whatever the status is by now.
DecideLate(d) ==
    /\ decider[d].at = "write" /\ decider[d].late
    /\ appr' = [appr EXCEPT ![decider[d].run][decider[d].ask] = "expired"]
    /\ decider' = [decider EXCEPT ![d] = NoDecision]
    /\ UNCHANGED <<run, msg, ckpt, ruled, call, sent, proc, cancel, row>>

\* In time: written if the approval is still pending, and audited.
Decide(d) ==
    LET r == decider[d].run  k == decider[d].ask IN
    /\ decider[d].at = "write" /\ ~decider[d].late
    /\ appr[r][k] = "pending"
    /\ \E verdict \in Decided :
         /\ appr' = [appr EXCEPT ![r][k] = verdict]
         /\ ruled' = [ruled EXCEPT ![r][k] = verdict]
    /\ decider' = [decider EXCEPT ![d].at = "queue"]
    /\ UNCHANGED <<run, msg, ckpt, call, sent, proc, cancel, row>>

DecideConflict(d) ==
    /\ decider[d].at = "write" /\ ~decider[d].late
    /\ appr[decider[d].run][decider[d].ask] # "pending"
    /\ decider' = [decider EXCEPT ![d] = NoDecision]
    /\ UNCHANGED <<run, msg, ckpt, appr, ruled, call, sent, proc, cancel, row>>

\* enqueueAgentRunResume
QueueResume(d) ==
    /\ decider[d].at = "queue"
    /\ row' = [row EXCEPT ![decider[d].run][decider[d].ask] = added(@)]
    /\ decider' = [decider EXCEPT ![d] = NoDecision]
    /\ UNCHANGED <<run, msg, ckpt, appr, ruled, call, sent, proc, cancel>>

\* expirePendingApprovals, whenever approvals are listed.
Expire(r, k) ==
    /\ "expire" \in Events
    /\ appr[r][k] = "pending"
    /\ appr' = [appr EXCEPT ![r][k] = "expired"]
    /\ UNCHANGED <<run, msg, ckpt, ruled, call, sent, proc, decider, cancel, row>>

----------------------------------------------------------------------------
(* cancelAgentRun.  Only a run executed by this very process is aborted.     *)

CancelRead(r) ==
    /\ "cancel" \in Events /\ cancel[r].at = "idle"
    /\ run[r].status \in Active
    /\ cancel' = [cancel EXCEPT ![r] = [at |-> "write", read |-> run[r].status]]
    /\ \E reached \in BOOLEAN :
         proc' = [proc EXCEPT ![r].aborted = @ \/ (reached /\ Generating(r))]
    /\ UNCHANGED <<run, msg, ckpt, appr, ruled, call, sent, decider, row>>

\* Defective variant: every approval of the run expires.
CancelAll(r) ==
    /\ cancel[r].at = "write"
    /\ run' = [run EXCEPT ![r].cancelReq = TRUE]
    /\ appr' = [appr EXCEPT ![r] = [k \in Asks |-> IF appr[r][k] = "none" THEN "none" ELSE "expired"]]
    /\ cancel' = [cancel EXCEPT ![r] = Spent]
    /\ UNCHANGED <<msg, ckpt, ruled, call, sent, proc, decider, row>>

\* One transaction, steered by the status that was read before it.
CancelWrite(r) ==
    /\ cancel[r].at = "write"
    /\ IF cancel[r].read = "waiting"
       THEN /\ run' = [run EXCEPT ![r] = [status |-> "cancelled", cancelReq |-> TRUE]]
            /\ msg' = [msg EXCEPT ![r] = IF @ = "none" THEN @ ELSE "cancelled"]
            /\ appr' = [appr EXCEPT ![r] =
                           [k \in Asks |-> IF appr[r][k] = "pending" THEN "expired" ELSE appr[r][k]]]
            /\ cancel' = [cancel EXCEPT ![r].at = "tidy"]
       ELSE /\ run' = [run EXCEPT ![r].cancelReq = TRUE]
            /\ cancel' = [cancel EXCEPT ![r] = Spent]
            /\ UNCHANGED <<msg, appr>>
    /\ UNCHANGED <<ckpt, ruled, call, sent, proc, decider, row>>

CancelTidy(r) ==
    /\ cancel[r].at = "tidy"
    /\ ckpt' = [ckpt EXCEPT ![r] = 0]
    /\ cancel' = [cancel EXCEPT ![r] = Spent]
    /\ UNCHANGED <<run, msg, appr, ruled, call, sent, proc, decider, row>>

----------------------------------------------------------------------------
(* The worker: resumeAgentRunAfterApproval.                                  *)

TakeResume(r, k) ==
    /\ At(Worker, "idle")
    /\ row[r][k].st = "waiting"
    /\ row' = [row EXCEPT ![r][k] = taken(@)]
    /\ proc' = [proc EXCEPT ![Worker] = [NoProc EXCEPT !.at = "approval", !.run = r, !.ask = k,
                                                       !.call = <<"asked", k>>]]
    /\ UNCHANGED <<run, msg, ckpt, appr, ruled, call, sent, decider, cancel>>

\* getToolApprovalForResume
ReadApproval ==
    LET status == appr[RunOf(Worker)][proc[Worker].ask] IN
    /\ At(Worker, "approval")
    /\ IF status \in Decided
       THEN /\ proc' = [proc EXCEPT ![Worker].at = "checkpoint",
                                    ![Worker].approved = status = "approved"]
            /\ UNCHANGED row
       ELSE Raise
    /\ UNCHANGED <<run, msg, ckpt, appr, ruled, call, sent, decider, cancel>>

\* loadRunCheckpoint, and whether it waits for this approval.
LoadCheckpoint ==
    /\ At(Worker, "checkpoint")
    /\ IF ckpt[RunOf(Worker)] = proc[Worker].ask
       THEN Goto(Worker, "run") /\ UNCHANGED row
       ELSE Raise
    /\ UNCHANGED <<run, msg, ckpt, appr, ruled, call, sent, decider, cancel>>

\* A run that was completed or cancelled is left alone.
ReadRun ==
    /\ At(Worker, "run")
    /\ IF run[RunOf(Worker)].status \in {"completed", "cancelled"}
       THEN Return
       ELSE Goto(Worker, "reopen") /\ UNCHANGED row
    /\ UNCHANGED <<run, msg, ckpt, appr, ruled, call, sent, decider, cancel>>

\* The run is running again; the SDK then makes the call if it was approved.
Reopen ==
    /\ At(Worker, "reopen")
    /\ run' = [run EXCEPT ![RunOf(Worker)].status = "running"]
    /\ Goto(Worker, IF proc[Worker].approved THEN "reserve" ELSE "model")
    /\ UNCHANGED <<msg, ckpt, appr, ruled, call, sent, decider, cancel, row>>

\* consumeToolApproval, then what the candidate's result asks for.
Consume ==
    LET r == RunOf(Worker)  k == proc[Worker].ask IN
    /\ At(Worker, "consume")
    /\ IF appr[r][k] \in Decided
       THEN /\ appr' = [appr EXCEPT ![r][k] = "consumed"]
            /\ CASE proc[Worker].outcome = "asked" -> Return
                 [] proc[Worker].outcome = "text"  -> Goto(Worker, "complete") /\ UNCHANGED row
                 [] proc[Worker].outcome = "empty" -> Raise
       ELSE Raise /\ UNCHANGED appr
    /\ UNCHANGED <<run, msg, ckpt, ruled, call, sent, decider, cancel>>

\* Defective variant: a message that exists is left as it is.
CompleteQuietly ==
    /\ At(Worker, "complete")
    /\ run' = [run EXCEPT ![RunOf(Worker)].status = "completed"]
    /\ Return
    /\ UNCHANGED <<msg, ckpt, appr, ruled, call, sent, decider, cancel>>

\* completeAgentRun inserts a message with the run's identifier: a run that
\* streamed text before it asked has one, and the index refuses a second.
CompleteResumed ==
    /\ At(Worker, "complete")
    /\ msg[RunOf(Worker)] = "none"
    /\ run' = [run EXCEPT ![RunOf(Worker)].status = "completed"]
    /\ msg' = [msg EXCEPT ![RunOf(Worker)] = "completed"]
    /\ Return
    /\ UNCHANGED <<ckpt, appr, ruled, call, sent, decider, cancel>>

CompleteRefused ==
    /\ At(Worker, "complete")
    /\ msg[RunOf(Worker)] # "none" \/ "refused" \in Events
    /\ Raise
    /\ UNCHANGED <<run, msg, ckpt, appr, ruled, call, sent, decider, cancel>>

----------------------------------------------------------------------------
(* Crashes: the web process loses every run, decision and cancellation it is *)
(* at; nothing looks for runs that are running in no process.                *)

WebCrash ==
    /\ "crash" \in Events
    /\ \/ \E r \in Runs : proc[r].at \notin {"idle", "done"}
       \/ \E d \in Deciders : decider[d].at # "idle"
       \/ \E r \in Runs : cancel[r].at \notin {"idle", "done"}
    /\ proc' = [p \in Procs |-> IF p = Worker \/ At(p, "idle") THEN proc[p]
                                ELSE Gone]
    /\ decider' = [d \in Deciders |-> NoDecision]
    /\ cancel' = [r \in Runs |-> IF cancel[r].at = "idle" THEN cancel[r]
                                 ELSE Spent]
    /\ UNCHANGED <<run, msg, ckpt, appr, ruled, call, sent, row>>

WorkerCrash ==
    /\ "crash" \in Events
    /\ ~At(Worker, "idle")
    /\ Raise
    /\ UNCHANGED <<run, msg, ckpt, appr, ruled, call, sent, decider, cancel>>

----------------------------------------------------------------------------

Init ==
    /\ run = [r \in Runs |-> [status |-> "none", cancelReq |-> FALSE]]
    /\ msg = [r \in Runs |-> "none"]
    /\ ckpt = [r \in Runs |-> 0]
    /\ appr = [r \in Runs |-> [k \in Asks |-> "none"]]
    /\ ruled = [r \in Runs |-> [k \in Asks |-> "none"]]
    /\ call = [r \in Runs |-> [c \in CallIds |-> "none"]]
    /\ sent = [r \in Runs |-> [c \in CallIds |-> 0]]
    /\ proc = [p \in Procs |-> NoProc]
    /\ decider = [d \in Deciders |-> NoDecision]
    /\ cancel = [r \in Runs |-> NoCancel]
    /\ row = [r \in Runs |-> [k \in Asks |-> Absent]]

\* A candidate, in the web process or in the worker; with tools that need no
\* approval, and with text that is streamed.
executeAiSdkCandidate(p) ==
    \/ Reserve(p) \/ Duplicate(p) \/ Send(p) \/ Settle(p)
    \/ Ask(p) \/ RequestApproval(p) \/ RecordAsk(p) \/ RecordAskFails(p)
    \/ Answer(p) \/ ProviderFails(p)
streamAiSdkCandidate(r) == executeAiSdkCandidate(r) \/ Delta(r)

executeAgentRun(r) ==
    \/ executeAiSdkCandidate(r) \/ CallTool(r)
    \/ Fallback(r) \/ FailRun(r) \/ CompleteRun(r) \/ Tidy(r)
streamAgentRun(r) ==
    \/ streamAiSdkCandidate(r) \/ CallTool(r) \/ Leave(r) \/ SaveProgress(r)
    \/ Fallback(r) \/ FailRun(r) \/ CompleteRun(r) \/ Tidy(r)
Execute(r) == IF r \in Streamed THEN streamAgentRun(r) ELSE executeAgentRun(r)
resumeAgentRunAfterApproval ==
    \/ executeAiSdkCandidate(Worker) \/ FailRun(Worker) \/ Tidy(Worker)
    \/ ReadApproval \/ LoadCheckpoint \/ ReadRun \/ Reopen
    \/ Consume \/ CompleteResumed \/ CompleteRefused
decideToolApproval(d) == DecideLate(d) \/ Decide(d) \/ DecideConflict(d) \/ QueueResume(d)
cancelAgentRun(r) == CancelRead(r) \/ CancelWrite(r) \/ CancelTidy(r)

Next ==
    \/ \E r \in Runs : Prepare(r) \/ Execute(r) \/ cancelAgentRun(r)
    \/ \E d \in Deciders : decideToolApproval(d)
    \/ \E r \in Runs, k \in Asks :
         TakeResume(r, k) \/ Expire(r, k) \/ (\E d \in Deciders : DecideRead(d, r, k))
    \/ resumeAgentRunAfterApproval
    \/ WebCrash \/ WorkerCrash

Spec == Init /\ [][Next]_vars

\* Node runs every continuation whose await has ended, the provider's timeout
\* ends every generation, and the worker takes the rows that wait.
Fairness ==
    /\ \A r \in Runs : WF_vars(Execute(r)) /\ WF_vars(CancelWrite(r) \/ CancelTidy(r))
    /\ WF_vars(resumeAgentRunAfterApproval)
    /\ \A r \in Runs, k \in Asks : SF_vars(TakeResume(r, k))
FairSpec == Spec /\ Fairness

----------------------------------------------------------------------------
(* Properties                                                                *)

TypeOK ==
    /\ run \in [Runs -> [status : RunStates, cancelReq : BOOLEAN]]
    /\ msg \in [Runs -> MsgStates]
    /\ ckpt \in [Runs -> 0..MaxAsks]
    /\ appr \in [Runs -> [Asks -> ApprStates]]
    /\ ruled \in [Runs -> [Asks -> {"none"} \cup Decided]]
    /\ call \in [Runs -> [CallIds -> CallStates]]
    /\ sent \in [Runs -> [CallIds -> Nat]]
    /\ proc \in [Procs -> [at : Places, run : Procs, attempt : 1..MaxAttempts, ask : 0..MaxAsks,
                            call : CallIds, approved : BOOLEAN, text : BOOLEAN,
                            aborted : BOOLEAN, outcome : Outcomes]]
    /\ decider \in [Deciders -> [at : {"idle", "write", "queue"}, run : Procs, ask : 0..MaxAsks,
                                  late : BOOLEAN]]
    /\ cancel \in [Runs -> [at : {"idle", "write", "tidy", "done"}, read : {"none"} \cup Active]]
    /\ row \in [Runs -> [Asks -> [st : RowStates, tries : 0..Tries]]]

\* A tool call reaches its server at most once, whatever is retried: a web
\* process and a resume task, or a resume task and its retry after a crash,
\* may both arrive at it.
CallSentOnce == \A r \in Runs, c \in CallIds : sent[r][c] <= 1

\* A completed run has its complete answer in the conversation, where its
\* message may have been written by another process before.
CompletedHasItsAnswer ==
    \A r \in Runs : run[r].status = "completed" => msg[r] = "completed"

\* A conversation has one active run, unless one of two was asked to stop.
OneActive ==
    \A r, s \in Runs :
        (run[r].status \in Active /\ run[s].status \in Active /\ r # s)
            => (run[r].cancelReq \/ run[s].cancelReq)

\* After a tool was called, another candidate does not start the run again.
NotStartedAgain ==
    \A r \in Runs : proc[r].attempt > 1 => sent[r][<<"plain", 1>>] = 0

\* What each approval promises, stated by ApprovalGate.
Gate == INSTANCE ApprovalGate WITH
    Gates <- Runs \X Asks,
    gate <- [g \in Runs \X Asks |-> appr[g[1]][g[2]]],
    sent <- [g \in Runs \X Asks |-> sent[g[1]][<<"asked", g[2]>>] > 0]
KeepsGate == Gate!Spec

\* A running run ends or comes to wait for a person.
RunSettles == \A r \in Runs : (run[r].status = "running") ~> (run[r].status # "running")
=============================================================================
