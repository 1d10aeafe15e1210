----------------------------- MODULE SandboxTasks -----------------------------
(***************************************************************************)
(* The sandbox of one conversation: a workspace that is provisioned, reset *)
(* and terminated, and commands that are approved, executed on the runner  *)
(* and cancelled.  Requests read and write in separate statements; the     *)
(* tasks create, execute, resume and reset share one serial queue, are     *)
(* tried again when they throw, and talk to the runner, which is taken as  *)
(* RunnerContract describes it, with calls that may fail on either side of *)
(* their effect.                                                           *)
(***************************************************************************)
EXTENDS Naturals, FiniteSets

CONSTANTS
    Execs,    \* commands that are asked for
    Guarded,  \* those whose policy decision is require_approval
    Limit,    \* sandboxMaxConcurrentPerOrganization
    Tries,    \* maxAttempts of a task (3, create 5)
    Events    \* which of EventKinds happen in this instance

ASSUME GuardedAssumption == Guarded \subseteq Execs

EventKinds == {"cancel", "expire", "lost", "transport", "crash", "restart", "reset", "terminate"}

Workspace == "workspace"
Jobs == ({"create", "reset"} \X {Workspace}) \cup ({"execute", "resume"} \X Execs)
Ended == {"completed", "failed", "cancelled", "timed_out"}
Active == {"queued", "awaiting_approval", "running"}

VARIABLES
    ws,        \* sandbox_workspaces
    exec,      \* sandbox_executions
    appr,      \* tool_approvals of the commands
    rows,      \* the graphile jobs of the queue sandbox:<organization>
    worker,    \* what the worker of that queue does
    asker,     \* position of the request that creates each command
    decider,   \* a decision was committed and its task is to be queued
    canceller, \* the request that cancels each command, with the row it read
    keeper,    \* the request that creates, resets or terminates the workspace
    dir,       \* the runner has the workspace's directory
    proc,      \* the runner's process of each command
    starts,    \* history: processes started
    ruled,     \* history: what a person decided
    early      \* history: commands whose cancellation was committed before their start

vars == <<ws, exec, appr, rows, worker, asker, decider, canceller, keeper, dir, proc, starts, ruled, early>>
runner == <<dir, proc, starts>>
requests == <<asker, decider, canceller, keeper>>
history == <<ruled, early>>

Job == INSTANCE GraphileJob

Idle == [at |-> "idle", job |-> <<"create", Workspace>>, saw |-> "none"]
NoCancel == [at |-> "idle", saw |-> "none", named |-> FALSE]
At(at) == worker.at = at
Goto(at) == worker' = [worker EXCEPT !.at = at]
E == worker.job[2]

TypeOK ==
    /\ ws \in [status : {"none", "provisioning", "ready", "resetting", "terminated", "failed"},
               named : BOOLEAN]
    /\ exec \in [Execs -> [status : {"none"} \cup Active \cup Ended, cancel : BOOLEAN, named : BOOLEAN]]
    /\ appr \in [Execs -> {"none", "pending", "approved", "rejected", "expired", "consumed"}]
    /\ rows \in [Jobs -> [st : Job!RowStates, tries : 0..Tries]]
    /\ proc \in [Execs -> {"none", "running", "stopping", "lost"} \cup Ended]
    /\ starts \in [Execs -> Nat] /\ early \subseteq Execs

----------------------------------------------------------------------------
(* The requests.                                                            *)

\* createSandboxWorkspace: the rows in one transaction, then the task; who asks
\* again gets the workspace there is.
CreateWorkspace ==
    /\ keeper = "idle" /\ ws.status = "none"
    /\ ws' = [ws EXCEPT !.status = "provisioning"]
    /\ keeper' = "create"
    /\ UNCHANGED <<exec, appr, rows, worker, asker, decider, canceller, runner, history>>
\* resetSandboxWorkspace counts the active commands, then marks the workspace.
ResetCount ==
    /\ "reset" \in Events /\ keeper = "idle" /\ ws.status # "none"
    /\ \A e \in Execs : exec[e].status \notin Active
    /\ keeper' = "mark"
    /\ UNCHANGED <<ws, exec, appr, rows, worker, asker, decider, canceller, runner, history>>
ResetMark ==
    /\ keeper = "mark"
    /\ ws' = [ws EXCEPT !.status = "resetting"]
    /\ keeper' = "reset"
    /\ UNCHANGED <<exec, appr, rows, worker, asker, decider, canceller, runner, history>>
KeeperEnqueue ==
    /\ keeper \in {"create", "reset"}
    /\ rows' = [rows EXCEPT ![<<keeper, Workspace>>] = Job!added(@)]
    /\ keeper' = "idle"
    /\ UNCHANGED <<ws, exec, appr, worker, asker, decider, canceller, runner, history>>
KeeperLost ==
    /\ "lost" \in Events /\ keeper \in {"create", "reset"}
    /\ keeper' = "idle"
    /\ UNCHANGED <<ws, exec, appr, rows, worker, asker, decider, canceller, runner, history>>
\* terminateSandboxWorkspace: the count, then the transaction.
TerminateCount ==
    /\ "terminate" \in Events /\ keeper = "idle" /\ ws.status # "none"
    /\ \A e \in Execs : exec[e].status \notin Active
    /\ keeper' = "terminate"
    /\ UNCHANGED <<ws, exec, appr, rows, worker, asker, decider, canceller, runner, history>>
TerminateWrite ==
    /\ keeper = "terminate"
    /\ ws' = [ws EXCEPT !.status = "terminated"]
    /\ keeper' = "done"
    /\ UNCHANGED <<exec, appr, rows, worker, asker, decider, canceller, runner, history>>

keepSandboxWorkspace ==
    \/ CreateWorkspace \/ ResetCount \/ ResetMark \/ KeeperEnqueue \/ KeeperLost
    \/ TerminateCount \/ TerminateWrite

\* createSandboxExecution: the checks, ...
AskCheck(e) ==
    /\ asker[e] = "idle" /\ keeper # "done"
    /\ ws.status = "ready" /\ ws.named
    /\ Cardinality({x \in Execs : exec[x].status \in Active}) < Limit
    /\ asker' = [asker EXCEPT ![e] = "insert"]
    /\ UNCHANGED <<ws, exec, appr, rows, worker, decider, canceller, keeper, runner, history>>
\* ... the row, ...
AskInsert(e) ==
    /\ asker[e] = "insert"
    /\ exec' = [exec EXCEPT ![e].status = IF e \in Guarded THEN "awaiting_approval" ELSE "queued"]
    /\ asker' = [asker EXCEPT ![e] = "publish"]
    /\ UNCHANGED <<ws, appr, rows, worker, decider, canceller, keeper, runner, history>>
\* ... and the approval or the task, unless the process dies first.
AskPublish(e) ==
    /\ asker[e] = "publish"
    /\ asker' = [asker EXCEPT ![e] = "done"]
    /\ IF e \in Guarded
       THEN appr' = [appr EXCEPT ![e] = "pending"] /\ UNCHANGED rows
       ELSE rows' = [rows EXCEPT ![<<"execute", e>>] = Job!added(@)] /\ UNCHANGED appr
    /\ UNCHANGED <<ws, exec, worker, decider, canceller, keeper, runner, history>>
AskLost(e) ==
    /\ "lost" \in Events /\ asker[e] = "publish"
    /\ asker' = [asker EXCEPT ![e] = "done"]
    /\ UNCHANGED <<ws, exec, appr, rows, worker, decider, canceller, keeper, runner, history>>

createSandboxExecution(e) == AskCheck(e) \/ AskInsert(e) \/ AskPublish(e) \/ AskLost(e)

\* Defective variant: what was decided is decided again.
DecideAgain(e) ==
    /\ appr[e] \in {"pending", "approved", "rejected"}
    /\ \E ruling \in {"approved", "rejected"} :
          appr' = [appr EXCEPT ![e] = ruling] /\ ruled' = [ruled EXCEPT ![e] = ruling]
    /\ decider' = [decider EXCEPT ![e] = TRUE]
    /\ UNCHANGED <<ws, exec, rows, worker, asker, canceller, keeper, runner, early>>
\* decideToolApproval and the task the route queues for it.
Decide(e) ==
    /\ appr[e] = "pending"
    /\ \E ruling \in {"approved", "rejected"} :
          appr' = [appr EXCEPT ![e] = ruling] /\ ruled' = [ruled EXCEPT ![e] = ruling]
    /\ decider' = [decider EXCEPT ![e] = TRUE]
    /\ UNCHANGED <<ws, exec, rows, worker, asker, canceller, keeper, runner, early>>
QueueResume(e) ==
    /\ decider[e]
    /\ rows' = [rows EXCEPT ![<<"resume", e>>] = Job!added(@)]
    /\ decider' = [decider EXCEPT ![e] = FALSE]
    /\ UNCHANGED <<ws, exec, appr, worker, asker, canceller, keeper, runner, history>>
QueueResumeLost(e) ==
    /\ "lost" \in Events /\ decider[e]
    /\ decider' = [decider EXCEPT ![e] = FALSE]
    /\ UNCHANGED <<ws, exec, appr, rows, worker, asker, canceller, keeper, runner, history>>
\* The command of an approval that lapsed goes on waiting.
Expire(e) ==
    /\ "expire" \in Events /\ appr[e] = "pending"
    /\ appr' = [appr EXCEPT ![e] = "expired"]
    /\ UNCHANGED <<ws, exec, rows, worker, requests, runner, history>>

\* cancelSandboxExecution acts on the row it read first.
CancelRead(e) ==
    /\ "cancel" \in Events /\ canceller[e].at = "idle" /\ exec[e].status \in Active
    /\ canceller' = [canceller EXCEPT ![e] = [at |-> "write", saw |-> exec[e].status,
                                              named |-> exec[e].named]]
    /\ UNCHANGED <<ws, exec, appr, rows, worker, asker, decider, keeper, runner, history>>
CancelWrite(e) ==
    /\ canceller[e].at = "write"
    /\ exec' = [exec EXCEPT ![e].cancel = TRUE,
                            ![e].status = IF canceller[e].saw # "running" THEN "cancelled" ELSE @]
    /\ appr' = [appr EXCEPT ![e] = IF @ = "pending" THEN "expired" ELSE @]
    /\ canceller' = [canceller EXCEPT ![e].at =
          IF @ = "write" /\ canceller[e].saw = "running" /\ canceller[e].named THEN "stop" ELSE "done"]
    /\ early' = IF starts[e] = 0 /\ ~(At("start") /\ E = e) THEN early \cup {e} ELSE early
    /\ UNCHANGED <<ws, rows, worker, asker, decider, keeper, runner, ruled>>

stopped(e) == [proc EXCEPT ![e] = IF @ = "running" THEN "stopping" ELSE @]
\* The answer of the runner is not waited for in vain: its failure is ignored.
CancelStop(e) ==
    /\ canceller[e].at = "stop"
    /\ \/ proc' = stopped(e)
       \/ "transport" \in Events /\ UNCHANGED proc
    /\ canceller' = [canceller EXCEPT ![e].at = "done"]
    /\ UNCHANGED <<ws, exec, appr, rows, worker, asker, decider, keeper, dir, starts, history>>

cancelSandboxExecution(e) == CancelRead(e) \/ CancelWrite(e) \/ CancelStop(e)

----------------------------------------------------------------------------
(* The tasks.                                                               *)

TaskStart == [create |-> "provision", execute |-> "claim", resume |-> "decision", reset |-> "reset"]
Take(j) ==
    /\ At("idle") /\ \A k \in Jobs : rows[k].st # "locked"
    /\ rows[j].st = "waiting"
    /\ rows' = [rows EXCEPT ![j] = Job!taken(@)]
    /\ worker' = [at |-> TaskStart[j[1]], job |-> j, saw |-> "none"]
    /\ UNCHANGED <<ws, exec, appr, requests, runner, history>>
Ends == rows' = [rows EXCEPT ![worker.job] = Job!Absent] /\ worker' = Idle
Throw == rows' = [rows EXCEPT ![worker.job] = Job!returned(@, Tries)] /\ worker' = Idle

\* provisionSandboxWorkspace.
ProvisionDone ==
    /\ At("provision")
    /\ (ws.status = "ready" /\ ws.named) \/ ws.status = "terminated"
    /\ Ends
    /\ UNCHANGED <<ws, exec, appr, requests, runner, history>>
ProvisionCreate ==
    /\ At("provision")
    /\ ~((ws.status = "ready" /\ ws.named) \/ ws.status = "terminated")
    /\ \/ dir' = TRUE /\ Goto("provisioned")
       \/ "transport" \in Events /\ dir' \in {dir, TRUE} /\ Goto("unprovisioned")
    /\ UNCHANGED <<ws, exec, appr, rows, requests, proc, starts, history>>
\* The write looks at nothing, so it also brings a terminated workspace back.
ProvisionRecord ==
    /\ At("provisioned")
    /\ ws' = [status |-> "ready", named |-> TRUE]
    /\ Ends
    /\ UNCHANGED <<exec, appr, requests, runner, history>>
ProvisionFails ==
    /\ At("unprovisioned")
    /\ ws' = [ws EXCEPT !.status = "failed"]
    /\ Throw
    /\ UNCHANGED <<exec, appr, requests, runner, history>>

provisionSandboxWorkspace ==
    ProvisionDone \/ ProvisionCreate \/ ProvisionRecord \/ ProvisionFails

\* resetSandboxWorkspaceRuntime: the runner refuses while a process is active.
ResetRefused ==
    /\ At("reset")
    /\ \/ ~ws.named
       \/ \E e \in Execs : proc[e] \in {"running", "stopping"}
       \/ "transport" \in Events
    /\ Throw
    /\ UNCHANGED <<ws, exec, appr, requests, runner, history>>
ResetRunner ==
    /\ At("reset") /\ ws.named
    /\ \A e \in Execs : proc[e] \notin {"running", "stopping"}
    /\ dir' = TRUE
    /\ proc' = [e \in Execs |-> "none"]
    /\ Goto("resetted")
    /\ UNCHANGED <<ws, exec, appr, rows, requests, starts, history>>
ResetRecord ==
    /\ At("resetted")
    /\ ws' = [ws EXCEPT !.status = "ready"]
    /\ Ends
    /\ UNCHANGED <<exec, appr, requests, runner, history>>

resetSandboxWorkspaceRuntime == ResetRefused \/ ResetRunner \/ ResetRecord

\* resumeSandboxExecution reads the decision, ...
ResumeUndecided ==
    /\ At("decision") /\ appr[E] \notin {"approved", "rejected"}
    /\ Throw
    /\ UNCHANGED <<ws, exec, appr, requests, runner, history>>
ResumeRead ==
    /\ At("decision") /\ appr[E] \in {"approved", "rejected"}
    /\ worker' = [worker EXCEPT !.at = "apply", !.saw = appr[E]]
    /\ UNCHANGED <<ws, exec, appr, rows, requests, runner, history>>
\* Defective variant: the command goes on waiting for its approval.
afterDecisionLate(saw) == IF saw = "approved" THEN "awaiting_approval" ELSE "failed"
afterDecision(saw) == IF saw = "approved" THEN "queued" ELSE "failed"
\* ... applies it to a command that still waits for it, ...
ResumeApply ==
    /\ At("apply")
    /\ exec' = [exec EXCEPT ![E].status = IF @ = "awaiting_approval" THEN afterDecision(worker.saw) ELSE @]
    /\ Goto("consume")
    /\ UNCHANGED <<ws, appr, rows, requests, runner, history>>
\* ... consumes it, and executes what was approved.
ResumeConsume ==
    /\ At("consume") /\ appr[E] \in {"approved", "rejected"}
    /\ appr' = [appr EXCEPT ![E] = "consumed"]
    /\ IF worker.saw = "approved" THEN Goto("claim") /\ UNCHANGED rows ELSE Ends
    /\ UNCHANGED <<ws, exec, requests, runner, history>>

resumeSandboxExecution == ResumeUndecided \/ ResumeRead \/ ResumeApply \/ ResumeConsume

\* executeSandboxExecution: the claim, in one transaction, leaves alone what has
\* ended or waits, ends what is cancelled, ...
Claimable == At("claim") /\ exec[E].status \notin Ended \cup {"awaiting_approval"}
ClaimNothing ==
    /\ At("claim") /\ ~Claimable
    /\ Ends
    /\ UNCHANGED <<ws, exec, appr, requests, runner, history>>
ClaimCancelled ==
    /\ Claimable /\ exec[E].cancel
    /\ exec' = [exec EXCEPT ![E].status = "cancelled"]
    /\ Ends
    /\ UNCHANGED <<ws, appr, requests, runner, history>>
ClaimUnready ==
    /\ Claimable /\ ~exec[E].cancel
    /\ ws.status # "ready" \/ ~ws.named
    /\ Throw
    /\ UNCHANGED <<ws, exec, appr, requests, runner, history>>
\* Defective variant: the claim does not look at the command's row.
ClaimBlind ==
    /\ At("claim") /\ ws.status = "ready" /\ ws.named
    /\ exec' = [exec EXCEPT ![E].status = "running"]
    /\ Goto("start")
    /\ UNCHANGED <<ws, appr, rows, requests, runner, history>>
Claim ==
    /\ Claimable /\ ~exec[E].cancel
    /\ ws.status = "ready" /\ ws.named
    /\ exec' = [exec EXCEPT ![E].status = "running"]
    /\ Goto("start")
    /\ UNCHANGED <<ws, appr, rows, requests, runner, history>>
\* ... and the runner starts the command unless it knows it already.
StartRunner ==
    IF dir /\ proc[E] = "none"
    THEN proc' = [proc EXCEPT ![E] = "running"] /\ starts' = [starts EXCEPT ![E] = @ + 1]
    ELSE UNCHANGED <<proc, starts>>
Start ==
    /\ At("start") /\ dir
    /\ StartRunner
    /\ Goto("name")
    /\ UNCHANGED <<ws, exec, appr, rows, requests, dir, history>>
\* The runner has no such directory, or its answer is lost.
StartFails ==
    /\ At("start")
    /\ \/ ~dir /\ UNCHANGED <<proc, starts>>
       \/ "transport" \in Events /\ (StartRunner \/ UNCHANGED <<proc, starts>>)
    /\ Throw
    /\ UNCHANGED <<ws, exec, appr, requests, dir, history>>
RecordName ==
    /\ At("name")
    /\ exec' = [exec EXCEPT ![E].named = TRUE]
    /\ Goto("poll")
    /\ UNCHANGED <<ws, appr, rows, requests, runner, history>>
\* A poll that finds a cancellation stops the process, ...
PollStop ==
    /\ At("poll") /\ exec[E].cancel
    /\ proc[E] = "running"
    /\ proc' = stopped(E)
    /\ UNCHANGED <<ws, exec, appr, rows, worker, requests, dir, starts, history>>
\* ... one that finds the end records it, whatever the row says by then, ...
PollEnded ==
    /\ At("poll") /\ proc[E] \in Ended
    /\ worker' = [worker EXCEPT !.at = "finish", !.saw = proc[E]]
    /\ UNCHANGED <<ws, exec, appr, rows, requests, runner, history>>
Finish ==
    /\ At("finish")
    /\ exec' = [exec EXCEPT ![E].status = worker.saw]
    /\ Ends
    /\ UNCHANGED <<ws, appr, requests, runner, history>>
\* ... and one that fails throws, as does one for a command the runner lost.
PollFails ==
    /\ At("poll")
    /\ proc[E] = "none" \/ "transport" \in Events
    /\ Throw
    /\ UNCHANGED <<ws, exec, appr, requests, runner, history>>
\* The deadline passes: a stop whose failure is ignored, and the status.
Deadline ==
    /\ At("poll")
    /\ proc' = stopped(E) \/ ("transport" \in Events /\ UNCHANGED proc)
    /\ worker' = [worker EXCEPT !.at = "finish", !.saw = "timed_out"]
    /\ UNCHANGED <<ws, exec, appr, rows, requests, dir, starts, history>>

executeSandboxExecution ==
    \/ ClaimNothing \/ ClaimCancelled \/ ClaimUnready \/ Claim \/ Start \/ StartFails
    \/ RecordName \/ PollStop \/ PollEnded \/ Finish \/ PollFails \/ Deadline

Task == provisionSandboxWorkspace \/ resetSandboxWorkspaceRuntime
        \/ resumeSandboxExecution \/ executeSandboxExecution

----------------------------------------------------------------------------
(* The runner's processes, and faults.                                      *)

ProcessCloses(e) ==
    /\ \/ proc[e] = "running" /\ \E end \in Ended \ {"cancelled"} : proc' = [proc EXCEPT ![e] = end]
       \/ proc[e] = "stopping" /\ proc' = [proc EXCEPT ![e] = "cancelled"]
    /\ UNCHANGED <<ws, exec, appr, rows, worker, requests, dir, starts, history>>
\* After a restart the runner says running of what nobody runs any more.
RunnerRestarts ==
    /\ "restart" \in Events
    /\ \E e \in Execs : proc[e] \in {"running", "stopping"}
    /\ proc' = [e \in Execs |-> IF proc[e] \in {"running", "stopping"} THEN "lost" ELSE proc[e]]
    /\ UNCHANGED <<ws, exec, appr, rows, worker, requests, dir, starts, history>>
Crash ==
    /\ "crash" \in Events /\ ~At("idle")
    /\ worker' = Idle
    /\ UNCHANGED <<ws, exec, appr, rows, requests, runner, history>>
ResetLock(j) ==
    /\ At("idle") /\ rows[j].st = "locked"
    /\ rows' = [rows EXCEPT ![j] = Job!returned(@, Tries)]
    /\ UNCHANGED <<ws, exec, appr, worker, requests, runner, history>>

Init ==
    /\ ws = [status |-> "none", named |-> FALSE]
    /\ exec = [e \in Execs |-> [status |-> "none", cancel |-> FALSE, named |-> FALSE]]
    /\ appr = [e \in Execs |-> "none"] /\ ruled = [e \in Execs |-> "none"]
    /\ rows = [j \in Jobs |-> Job!Absent]
    /\ worker = Idle
    /\ asker = [e \in Execs |-> "idle"] /\ decider = [e \in Execs |-> FALSE]
    /\ canceller = [e \in Execs |-> NoCancel]
    /\ keeper = "idle"
    /\ dir = FALSE /\ proc = [e \in Execs |-> "none"] /\ starts = [e \in Execs |-> 0]
    /\ early = {}

Next ==
    \/ keepSandboxWorkspace \/ Task \/ RunnerRestarts \/ Crash
    \/ \E e \in Execs :
          \/ createSandboxExecution(e) \/ cancelSandboxExecution(e)
          \/ Decide(e) \/ QueueResume(e) \/ QueueResumeLost(e) \/ Expire(e)
          \/ ProcessCloses(e)
    \/ \E j \in Jobs : Take(j) \/ ResetLock(j)

\* A worker that is free takes some task; a task is taken at most Tries times, so
\* none is passed over for ever.
TakeAny == \E j \in Jobs : Take(j)
Ask(e) == AskInsert(e) \/ AskPublish(e)
Fairness ==
    /\ WF_vars(Task) /\ WF_vars(Deadline)
    /\ WF_vars(TakeAny)
    /\ \A e \in Execs : WF_vars(Ask(e)) /\ WF_vars(QueueResume(e))

Spec == Init /\ [][Next]_vars /\ Fairness

----------------------------------------------------------------------------
(* Properties.                                                              *)

\* A grant stands from its approval until its command starts: consuming it is
\* the worker's own bookkeeping on the way there.
gateOf(e) == IF appr[e] = "consumed" /\ ruled[e] = "approved" THEN "approved" ELSE appr[e]
Gate == INSTANCE ApprovalGate WITH
            Gates <- Guarded,
            gate <- [e \in Guarded |-> gateOf(e)],
            sent <- [e \in Guarded |-> starts[e] > 0]
\* The approvals of commands keep ApprovalGate's promise: a command that needs
\* approval is started only while its grant stands, whatever is decided,
\* cancelled, expired or tried again (resumeSandboxExecution).
KeepsGate == Gate!Spec
GateStep == Gate!Next \/ UNCHANGED Gate!vars

\* A command is started at most once (the claim, and the runner's status file).
StartsOnce == \A e \in Execs : starts[e] <= 1

\* A command whose cancellation was committed before the worker set out to start
\* it is never started, whatever the request had read and whatever is tried
\* again (cancelSandboxExecution, the claim).
CancelledNeverStarts == \A e \in early : starts[e] = 0

\* A command that was queued or decided ends (executeSandboxExecution,
\* resumeSandboxExecution).
Accepted(e) == rows[<<"execute", e>>].st = "waiting" \/ decider[e]
Settled(e) == exec[e].status \in Ended
ExecutionSettles == \A e \in Execs : Accepted(e) ~> Settled(e)

=============================================================================
