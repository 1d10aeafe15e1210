--------------------------- MODULE ExecutionKernel ---------------------------
(***************************************************************************)
(* The life of one execution job: the job, workspace, step and artifact    *)
(* rows in PostgreSQL, the job lease, the five graphile_worker tasks that  *)
(* drive the job (provision, run, collect, cancel, cleanup), the           *)
(* maintenance tasks (reconcile, expire), the cancellation request of the  *)
(* API, and the remote sandbox runner that holds the workspace directory   *)
(* and the process.                                                        *)
(*                                                                         *)
(* A handler is a sequence of short transactions and remote calls.  Each   *)
(* of them is one action here, so every other actor may act between two of *)
(* them.  Jobs share no rows, so one job shows every interleaving.         *)
(***************************************************************************)
EXTENDS Naturals, ExecutionStates, GraphileJob

CONSTANTS
    MaxAttempts,  \* execution_jobs.max_attempts
    Tries,        \* Tries[t]: max_attempts of the graphile row of task t
    Required,     \* requiredArtifactCount: 1 when the scenario leaves a file
    Events        \* which of EventKinds happen in this instance

Tasks == {"provision", "run", "collect", "cancel", "cleanup"}

EventKinds == {"cancel",     \* the client asks for a cancellation
               "reconcile",  \* the reconciler scans the jobs
               "expire",     \* the expiry scan finds the job past its date
               "crash",      \* a worker process dies inside a handler
               "transport",  \* a runner call fails, before or after its effect
               "restart",    \* the runner service restarts
               "slow"}       \* a handler outlives its lease

ASSUME AttemptsAssumption == MaxAttempts \in Nat \ {0}
ASSUME TriesAssumption    == Tries \in [Tasks -> Nat \ {0}]
ASSUME RequiredAssumption == Required \in {0, 1}
ASSUME EventsAssumption   == Events \subseteq EventKinds

\* The three named graphile queues of these tasks; a queue runs one row at a
\* time, so it has at most one handler.
Queues == {"provision", "run", "cleanup"}

QueueOf == [t \in Tasks |->
              CASE t = "provision"             -> "provision"
                [] t \in {"run", "collect"}    -> "run"
                [] t \in {"cancel", "cleanup"} -> "cleanup"]

VARIABLES
    job,     \* status, attemptCount, cancelRequestedAt, executionVerified
    ws,      \* externalWorkspaceId is set, state
    step,    \* status of the only step
    stored,  \* an artifact row exists
    lease,   \* whose token the lease row carries, and whether it is unexpired
    rows,    \* the graphile rows, one per task
    h,       \* the handler of each queue
    maint,   \* the handler of the maintenance queue
    runner   \* the runner's directory and process of the workspace

vars == <<job, ws, step, stored, lease, rows, h, maint, runner>>

StepStatus == {"queued", "running", "completed", "failed", "cancelled"}

\* ok: exit code 0 and the expected output.  bad: another exit code or output.
Outcomes == {"ok", "bad", "timedout", "killed"}

\* lost: the runner restarted, the status file still says running.
\* stopping: SIGTERM was sent and the process has not closed yet.
ProcStates == {"none", "running", "stopping", "lost"} \cup Outcomes

\* Where a handler can be.
PCs == {"idle", "claim", "recheck", "create", "record", "markReady", "enqueueRun",
        "begin", "start", "poll", "result", "timeoutStep", "timeoutMark", "stepDone",
        "enqueueCollect", "orphan", "download", "store", "verify", "terminate",
        "conclude", "markStep", "destroy", "markStopped", "settle", "settleMark",
        "catch", "fail", "failMark", "failStep", "enqueueCleanup", "requeueCancel",
        "return", "rethrow"}

Nobody  == [owner |-> "nobody", live |-> FALSE]
Idle    == [task |-> "none", pc |-> "idle", seen |-> "none", err |-> "none"]
Resting == [pc |-> "idle", seen |-> "none"]

Errors    == {"timeout", "transient", "rejected"}
Retryable == {"timeout", "transient"}

-----------------------------------------------------------------------------
(* Status transitions.                                                     *)

\* Defective variant: the summary and the artifacts are not looked at.
EvidenceOfStepOnly == step = "completed"

\* assertCompletionEvidence.
Evidence == /\ step = "completed"
            /\ job.verified
            /\ Required = 1 => stored

\* transitionExecutionStatus returns normally: the job already is in the
\* terminal status asked for, or the move is expected, legal and proven.
accepts(expected, next) ==
    \/ job.status = next /\ next \in Terminal
    \/ /\ job.status \notin Terminal
       /\ job.status \in expected
       /\ canTransition(job.status, next)
       /\ next = "completed" => Evidence

\* Defective variant: every transition counts as an attempt.
movedCounting(next, bump) == [job EXCEPT !.status = next, !.attempts = @ + 1]

\* Its effect on the job row (none if the job is there already); bump is
\* what the patch adds to attemptCount.
moved(next, bump) == [job EXCEPT !.status = next, !.attempts = @ + bump]

\* A call whose error the caller swallows (.catch(() => undefined)).
TryMove(expected, next, bump) ==
    job' = IF accepts(expected, next) THEN moved(next, bump) ELSE job

-----------------------------------------------------------------------------
(* Handlers: control flow shared by the tasks.                             *)

At(t, p) == h[QueueOf[t]].task = t /\ h[QueueOf[t]].pc = p
seen(t)  == h[QueueOf[t]].seen
err(t)   == h[QueueOf[t]].err

Goto(t, p) ==
    h' = [h EXCEPT ![QueueOf[t]] = [@ EXCEPT !.pc = p, !.seen = "none"]]

\* Remember s, the value just read, for the next step.
GotoWith(t, p, s) ==
    h' = [h EXCEPT ![QueueOf[t]] = [@ EXCEPT !.pc = p, !.seen = s]]

Raise(t, e) ==
    h' = [h EXCEPT ![QueueOf[t]] = [@ EXCEPT !.pc = "catch", !.seen = "none", !.err = e]]

\* A status transition of task t that throws when it is refused.
MoveOrRaise(t, expected, next, bump, p) ==
    IF accepts(expected, next)
    THEN job' = moved(next, bump) /\ Goto(t, p)
    ELSE Raise(t, "rejected") /\ UNCHANGED job

Enqueue(t) == rows' = [rows EXCEPT ![t] = added(@)]

released(q) == IF lease.owner = q THEN Nobody ELSE lease

\* No row of t's queue is locked, and row t waits.
Takeable(t) == /\ rows[t].st = "waiting"
               /\ \A u \in Tasks : QueueOf[u] = QueueOf[t] => rows[u].st # "locked"

\* Defective variant: the lease is overwritten without a look at its expiry.
TakeAnyLease(t, p) ==
    /\ Takeable(t)
    /\ rows' = [rows EXCEPT ![t] = taken(@)]
    /\ lease' = [owner |-> QueueOf[t], live |-> TRUE]
    /\ h' = [h EXCEPT ![QueueOf[t]] = [task |-> t, pc |-> p, seen |-> job.status, err |-> "none"]]
    /\ UNCHANGED <<job, ws, step, stored, maint, runner>>

\* A worker takes row t, acquires the job lease and reads the job; a read
\* that finds no usable workspace throws EXECUTION_WORKSPACE_NOT_READY.
Take(t, p) ==
    /\ Takeable(t)
    /\ ~lease.live
    /\ rows' = [rows EXCEPT ![t] = taken(@)]
    /\ lease' = [owner |-> QueueOf[t], live |-> TRUE]
    /\ h' = [h EXCEPT ![QueueOf[t]] =
                [task |-> t, pc |-> p,
                 seen |-> IF p \in {"claim", "conclude", "terminate"} THEN job.status ELSE "none",
                 err |-> IF p = "catch" THEN "transient" ELSE "none"]]
    /\ UNCHANGED <<job, ws, step, stored, maint, runner>>

RemoteCalls == {"create", "start", "poll", "download", "store", "terminate", "destroy"}

\* The lease may be kept longer than the attempts of task t span: 10 seconds
\* for three of them, 84 for the five of cancel, hours for the ten of cleanup.
\* A command runs for minutes, another runner call for tens of seconds, and
\* the lease of a lost worker has at most a minute to go.
Outlasts(t) ==
    \/ /\ t \in {"provision", "run", "collect"}
       /\ lease.owner \in Queues => h[lease.owner].pc \in RemoteCalls
    \/ t = "cancel" /\ At("run", "poll") /\ lease.owner = "run"
    \/ t # "cleanup" /\ "slow" \in Events

\* EXECUTION_LEASE_UNAVAILABLE: the attempt is spent, nothing else happens.
TakeRefused(t) ==
    /\ Takeable(t)
    /\ lease.live
    /\ rows[t].tries + 1 < Tries[t] \/ Outlasts(t)
    /\ rows' = [rows EXCEPT ![t] = returned(taken(@), Tries[t])]
    /\ UNCHANGED <<job, ws, step, stored, lease, h, maint, runner>>

Leave(t, row) ==
    /\ h' = [h EXCEPT ![QueueOf[t]] = Idle]
    /\ lease' = released(QueueOf[t])
    /\ rows' = [rows EXCEPT ![t] = row]
    /\ UNCHANGED <<job, ws, step, stored, maint, runner>>

\* The handler returns: finally releases the lease, graphile drops the row.
Return(t) == At(t, "return") /\ Leave(t, Absent)

\* The handler throws: finally releases the lease, graphile keeps the row.
Rethrow(t) == At(t, "rethrow") /\ Leave(t, returned(rows[t], Tries[t]))

\* A stored step status (updateStep is unconditional), then on to p.
SetStep(t, from, s, p) ==
    /\ At(t, from)
    /\ step' = s
    /\ Goto(t, p)
    /\ UNCHANGED <<job, ws, stored, lease, rows, maint, runner>>

\* Enqueue task u, then on to p.
Hand(t, from, u, p) ==
    /\ At(t, from)
    /\ Enqueue(u)
    /\ Goto(t, p)
    /\ UNCHANGED <<job, ws, step, stored, lease, maint, runner>>

\* A status transition of the job, then on to p.
Move(t, from, expected, next, bump, p) ==
    /\ At(t, from)
    /\ MoveOrRaise(t, expected, next, bump, p)
    /\ UNCHANGED <<ws, step, stored, lease, rows, maint, runner>>

\* A call of the runner: the new value of runner is one of effects and the
\* handler goes on to p; or the call fails with or without its effect.
Call(t, effect, p) ==
    /\ \/ runner' = effect /\ Goto(t, p)
       \/ /\ "transport" \in Events
          /\ runner' \in {runner, effect}
          /\ Raise(t, "transient")
    /\ UNCHANGED <<job, ws, step, stored, lease, rows, maint>>

-----------------------------------------------------------------------------
(* The catch block of a handler and failExecution.                         *)

\* Defective variant: a failure may follow any status.
ExpectedAnything == [t \in Tasks |-> Status \ Terminal]

ExpectedOnFailure ==
    [t \in Tasks |->
       CASE t = "provision" -> {"queued", "provisioning", "orphaned"}
         [] t = "run"       -> {"ready", "running", "orphaned"}
         [] t = "collect"   -> {"running", "orphaned"}
         [] OTHER           -> {}]

\* Only provision and run retry, and only while attemptCount allows it;
\* collect fails the job at once; cancel and cleanup have no catch block.
Catch(t) ==
    /\ At(t, "catch")
    /\ LET again == err(t) \in Retryable /\ job.attempts < MaxAttempts
       IN Goto(t, CASE t \in {"cancel", "cleanup"}    -> "rethrow"
                    [] t = "provision" /\ again       -> "rethrow"
                    [] t = "run" /\ again /\ job.status = "running" -> "orphan"
                    [] OTHER                          -> "fail")
    /\ UNCHANGED <<job, ws, step, stored, lease, rows, maint, runner>>

RunOrphan ==
    /\ At("run", "orphan")
    /\ TryMove({"running"}, "orphaned", 1)
    /\ Goto("run", "rethrow")
    /\ UNCHANGED <<ws, step, stored, lease, rows, maint, runner>>

FailRead(t) ==
    /\ At(t, "fail")
    /\ IF job.status \in Terminal THEN Goto(t, "failStep")
                                  ELSE GotoWith(t, "failMark", job.status)
    /\ UNCHANGED <<job, ws, step, stored, lease, rows, maint, runner>>

FailMark(t) ==
    /\ At(t, "failMark")
    /\ LET usual == ExpectedOnFailure[t]
       IN TryMove(IF seen(t) \in usual THEN {seen(t)} ELSE usual,
                  IF err(t) = "timeout" THEN "timed_out" ELSE "failed", 0)
    /\ Goto(t, "failStep")
    /\ UNCHANGED <<ws, step, stored, lease, rows, maint, runner>>

\* Defective variant: the cleanup is not queued.
failWithoutCleanup(t) ==
    \/ FailRead(t)
    \/ FailMark(t)
    \/ SetStep(t, "failStep", "failed", "return")

failExecution(t) ==
    \/ FailRead(t)
    \/ FailMark(t)
    \/ SetStep(t, "failStep", "failed", "enqueueCleanup")

\* The last enqueue of a handler, and of a handler that met a cancellation.
HandOver(t) ==
    \/ Hand(t, "enqueueCleanup", "cleanup", "return")
    \/ Hand(t, "requeueCancel", "cancel", "return")

-----------------------------------------------------------------------------
(* provisionExecution.                                                     *)

ProvisionTake ==
    Take("provision",
         CASE job.status \in Cancelling     -> "requeueCancel"
           [] job.status = "queued"         -> "claim"
           [] job.status = "provisioning"   -> "create"
           [] OTHER                         -> "return")

ProvisionRecheck ==
    /\ At("provision", "recheck")
    /\ Goto("provision", IF job.status = "provisioning" THEN "create" ELSE "return")
    /\ UNCHANGED <<job, ws, step, stored, lease, rows, maint, runner>>

\* The runner must be healthy; the workspace is created unless the row
\* already names one.  Creation is mkdir -p on the workspace id.
ProvisionCreate ==
    /\ At("provision", "create")
    /\ Call("provision", IF ws.ext THEN runner ELSE [runner EXCEPT !.dir = TRUE], "record")

\* The runner lacks a capability the kernel needs: not retryable.
ProvisionUnfit ==
    /\ At("provision", "create")
    /\ "transport" \in Events
    /\ Raise("provision", "rejected")
    /\ UNCHANGED <<job, ws, step, stored, lease, rows, maint, runner>>

ProvisionRecord ==
    /\ At("provision", "record")
    /\ ws' = [ext |-> TRUE, state |-> "ready"]
    /\ Goto("provision", "markReady")
    /\ UNCHANGED <<job, step, stored, lease, rows, maint, runner>>

provisionExecution ==
    \/ ProvisionTake
    \/ Move("provision", "claim", {"queued"}, "provisioning", 1, "recheck")
    \/ ProvisionRecheck
    \/ ProvisionCreate
    \/ ProvisionUnfit
    \/ ProvisionRecord
    \/ Move("provision", "markReady", {"provisioning"}, "ready", 0, "enqueueRun")
    \/ Hand("provision", "enqueueRun", "run", "return")

-----------------------------------------------------------------------------
(* runExecutionStep.                                                       *)

RunTake ==
    Take("run",
         CASE job.status \in Terminal                -> "return"
           [] job.status \in Cancelling              -> "requeueCancel"
           [] job.status \in {"ready", "orphaned"}   -> "claim"
           [] job.status = "running" /\ ws.ext       -> "begin"
           [] OTHER                                  -> "catch")

RunRecheck ==
    /\ At("run", "recheck")
    /\ IF job.status = "running" /\ ws.ext THEN Goto("run", "begin")
                                           ELSE Raise("run", "transient")
    /\ UNCHANGED <<job, ws, step, stored, lease, rows, maint, runner>>

\* Defective variant: the status file of an earlier start is not looked at.
RunStartAgain ==
    /\ At("run", "start")
    /\ runner.dir
    /\ Call("run", [runner EXCEPT !.proc = "running", !.starts = @ + 1], "poll")

\* startRunnerExecution: the execution id is the workspace id, so a second
\* start finds the status file of the first and starts nothing.
RunStart ==
    /\ At("run", "start")
    /\ runner.dir
    /\ Call("run",
            IF runner.proc = "none"
            THEN [runner EXCEPT !.proc = "running", !.starts = @ + 1]
            ELSE runner, "poll")

\* The workspace directory is gone: every runner call on it fails.
Unreachable(t, from) ==
    /\ At(t, from)
    /\ ~runner.dir
    /\ Raise(t, "transient")
    /\ UNCHANGED <<job, ws, step, stored, lease, rows, maint, runner>>

\* A snapshot shows the process closed.
RunPoll ==
    /\ At("run", "poll")
    /\ runner.dir
    /\ runner.proc \in Outcomes
    /\ GotoWith("run", "result", runner.proc)
    /\ UNCHANGED <<job, ws, step, stored, lease, rows, maint, runner>>

signalled(r) == IF r.proc = "running" THEN [r EXCEPT !.proc = "stopping"] ELSE r

\* No terminal snapshot before the deadline (the runner lost the process or
\* did not say so): the adapter asks for a stop, which may fail, and throws.
RunDeadline ==
    /\ At("run", "poll")
    /\ runner.dir
    /\ runner.proc = "lost" \/ "transport" \in Events
    /\ runner' \in {runner, signalled(runner)}
    /\ Raise("run", "timeout")
    /\ UNCHANGED <<job, ws, step, stored, lease, rows, maint>>

RunPollFails ==
    /\ At("run", "poll")
    /\ "transport" \in Events
    /\ Raise("run", "transient")
    /\ UNCHANGED <<job, ws, step, stored, lease, rows, maint, runner>>

\* The fresh status is read after the command ended.
RunResult ==
    /\ At("run", "result")
    /\ CASE job.status \in Cancelling \/ seen("run") = "killed" -> Goto("run", "requeueCancel")
         [] OTHER ->
            CASE seen("run") = "timedout" -> Goto("run", "timeoutStep")
              [] seen("run") = "bad"      -> Raise("run", "rejected")
              [] OTHER                    -> Goto("run", "stepDone")
    /\ UNCHANGED <<job, ws, step, stored, lease, rows, maint, runner>>

runExecutionStep ==
    \/ RunTake
    \/ Move("run", "claim", {seen("run")}, "running", 0, "recheck")
    \/ RunRecheck
    \/ SetStep("run", "begin", "running", "start")
    \/ RunStart
    \/ Unreachable("run", "start") \/ Unreachable("run", "poll")
    \/ RunPoll \/ RunDeadline \/ RunPollFails
    \/ RunResult
    \/ SetStep("run", "timeoutStep", "failed", "timeoutMark")
    \/ Move("run", "timeoutMark", {"running"}, "timed_out", 0, "enqueueCleanup")
    \/ SetStep("run", "stepDone", "completed", "enqueueCollect")
    \/ Hand("run", "enqueueCollect", "collect", "return")
    \/ RunOrphan

-----------------------------------------------------------------------------
(* collectExecutionArtifacts.                                              *)

CollectTake ==
    Take("collect",
         CASE job.status \in Terminal                              -> "return"
           [] job.status = "running" /\ ws.ext /\ Required = 1     -> "download"
           [] job.status = "running" /\ ws.ext /\ Required = 0     -> "verify"
           [] OTHER                                                -> "catch")

\* The file is listed, downloaded, checked against the expected output.
CollectDownload ==
    /\ At("collect", "download")
    /\ runner.dir
    /\ IF runner.proc = "ok" THEN Goto("collect", "store") ELSE Raise("collect", "rejected")
    /\ UNCHANGED <<job, ws, step, stored, lease, rows, maint, runner>>

\* The download, or the upload to the object store, fails.
CollectFails ==
    /\ At("collect", "download") \/ At("collect", "store")
    /\ "transport" \in Events
    /\ Raise("collect", "transient")
    /\ UNCHANGED <<job, ws, step, stored, lease, rows, maint, runner>>

CollectStore ==
    /\ At("collect", "store")
    /\ stored' = TRUE
    /\ Goto("collect", "verify")
    /\ UNCHANGED <<job, ws, step, lease, rows, maint, runner>>

\* The summary is written whatever the status has become.
CollectVerify ==
    /\ At("collect", "verify")
    /\ job' = [job EXCEPT !.verified = TRUE]
    /\ Goto("collect", "enqueueCleanup")
    /\ UNCHANGED <<ws, step, stored, lease, rows, maint, runner>>

collectExecutionArtifacts ==
    \/ CollectTake
    \/ CollectDownload \/ Unreachable("collect", "download") \/ CollectFails
    \/ CollectStore
    \/ CollectVerify

-----------------------------------------------------------------------------
(* cancelExecution.                                                        *)

\* Defective variant: the process is never stopped.
AfterCancelReadIdle == "conclude"

\* What follows the read of the job: stop the process if a workspace is known.
AfterCancelRead == IF ws.ext THEN "terminate" ELSE "conclude"

CancelTake ==
    Take("cancel",
         CASE job.status \in Terminal           -> "enqueueCleanup"
           [] job.status = "cancel_requested"   -> "claim"
           [] OTHER                             -> AfterCancelRead)

CancelRecheck ==
    /\ At("cancel", "recheck")
    /\ GotoWith("cancel", AfterCancelRead, job.status)
    /\ UNCHANGED <<job, ws, step, stored, lease, rows, maint, runner>>

\* The runner answers the stop as soon as the signal is sent, and answers
\* stopped: false with success when it knows no such process.
CancelTerminate ==
    /\ At("cancel", "terminate")
    /\ \/ /\ runner' = signalled(runner)
          /\ GotoWith("cancel", "conclude", seen("cancel"))
       \/ /\ "transport" \in Events
          /\ runner' \in {runner, signalled(runner)}
          /\ Raise("cancel", "transient")
    /\ UNCHANGED <<job, ws, step, stored, lease, rows, maint>>

\* Only a job read as cancelling is moved; the step is marked in any case.
CancelConclude ==
    /\ At("cancel", "conclude")
    /\ IF seen("cancel") = "cancelling"
       THEN MoveOrRaise("cancel", {"cancelling"}, "cancelled", 0, "markStep")
       ELSE Goto("cancel", "markStep") /\ UNCHANGED job
    /\ UNCHANGED <<ws, step, stored, lease, rows, maint, runner>>

cancelExecution ==
    \/ CancelTake
    \/ Move("cancel", "claim", {"cancel_requested"}, "cancelling", 0, "recheck")
    \/ CancelRecheck
    \/ CancelTerminate
    \/ CancelConclude
    \/ SetStep("cancel", "markStep", "cancelled", "enqueueCleanup")

-----------------------------------------------------------------------------
(* cleanupExecution.                                                       *)

\* Defective variant: the row is marked before the runner is asked.
CleanupTakeMarkFirst ==
    Take("cleanup",
         IF ws.ext /\ ws.state # "stopped" THEN "markStopped" ELSE "settle")

CleanupTake ==
    Take("cleanup",
         IF ws.ext /\ ws.state # "stopped" THEN "destroy" ELSE "settle")

\* WORKSPACE_BUSY while the runner still tracks a process of the workspace.
CleanupBusy ==
    /\ At("cleanup", "destroy")
    /\ runner.proc \in {"running", "stopping"}
    /\ Raise("cleanup", "transient")
    /\ UNCHANGED <<job, ws, step, stored, lease, rows, maint, runner>>

CleanupDestroy ==
    /\ At("cleanup", "destroy")
    /\ runner.proc \notin {"running", "stopping"}
    /\ Call("cleanup", [runner EXCEPT !.dir = FALSE, !.proc = "none"], "markStopped")

CleanupStopped ==
    /\ At("cleanup", "markStopped")
    /\ ws' = [ws EXCEPT !.state = "stopped"]
    /\ Goto("cleanup", "settle")
    /\ UNCHANGED <<job, step, stored, lease, rows, maint, runner>>

CleanupSettle ==
    /\ At("cleanup", "settle")
    /\ IF job.status \in Cancelling \cup {"running"}
       THEN GotoWith("cleanup", "settleMark", job.status)
       ELSE Goto("cleanup", "return")
    /\ UNCHANGED <<job, ws, step, stored, lease, rows, maint, runner>>

cleanupExecution ==
    \/ CleanupTake
    \/ CleanupBusy
    \/ CleanupDestroy
    \/ CleanupStopped
    \/ CleanupSettle
    \/ Move("cleanup", "settleMark", {seen("cleanup")},
            IF seen("cleanup") = "running" THEN "completed" ELSE "cancelled", 0, "return")

-----------------------------------------------------------------------------
(* reconcileExecutions and expireExecutions: neither takes the lease.      *)

Candidates == {"provisioning", "ready", "running", "cancel_requested", "cancelling", "orphaned"}
Expirable  == Status \ (Terminal \cup Cancelling)

\* A scan that finds the job; time passes between any two steps, so the
\* grace period and the expiry date may have passed in every state.
MaintScan(p, among) ==
    /\ maint = Resting
    /\ job.status \in among
    /\ maint' = [pc |-> p, seen |-> job.status]
    /\ UNCHANGED <<job, ws, step, stored, lease, rows, h, runner>>

MaintEnqueue(from, among, t) ==
    /\ maint.pc = from
    /\ maint.seen \in among
    /\ Enqueue(t)
    /\ maint' = Resting
    /\ UNCHANGED <<job, ws, step, stored, lease, h, runner>>

MaintMove(from, among, next, p) ==
    /\ maint.pc = from
    /\ maint.seen \in among
    /\ TryMove({maint.seen}, next, 0)
    /\ maint' = [maint EXCEPT !.pc = p]
    /\ UNCHANGED <<ws, step, stored, lease, rows, h, runner>>

reconcileExecutions ==
    \/ "reconcile" \in Events /\ MaintScan("reconcile", Candidates)
    \/ MaintEnqueue("reconcile", Cancelling, "cancel")
    \/ MaintEnqueue("reconcile", {"provisioning"}, "provision")
    \/ MaintEnqueue("reconcile", {"ready", "orphaned"}, "run")
    \/ MaintMove("reconcile", {"running"}, "orphaned", "rerun")
    \/ MaintEnqueue("rerun", {"running"}, "run")

expireExecutions ==
    \/ "expire" \in Events /\ MaintScan("expire", Expirable)
    \/ MaintMove("expire", Expirable, "timed_out", "expired")
    \/ MaintEnqueue("expired", Expirable, "cleanup")

-----------------------------------------------------------------------------
(* The client and the environment.                                         *)

\* Defective variant: the status of the job is not looked at.
requestAnyTime ==
    /\ "cancel" \in Events
    /\ job' = [job EXCEPT !.status = "cancel_requested", !.cancelRequested = TRUE]
    /\ Enqueue("cancel")
    /\ UNCHANGED <<ws, step, stored, lease, h, maint, runner>>

requestExecutionCancellation ==
    /\ "cancel" \in Events
    /\ job.status \notin Terminal \cup Cancelling
    /\ job' = [job EXCEPT !.status = "cancel_requested", !.cancelRequested = TRUE]
    /\ Enqueue("cancel")
    /\ UNCHANGED <<ws, step, stored, lease, h, maint, runner>>

\* The process closes: by itself, on the time limit or on a signal.  A
\* process that was told to stop may still beat the signal to any of these.
ProcessCloses ==
    /\ runner.proc \in {"running", "stopping"}
    /\ \E o \in Outcomes : runner' = [runner EXCEPT !.proc = o]
    /\ UNCHANGED <<job, ws, step, stored, lease, rows, h, maint>>

RunnerRestarts ==
    /\ "restart" \in Events
    /\ runner.proc \in {"running", "stopping"}
    /\ runner' = [runner EXCEPT !.proc = "lost"]
    /\ UNCHANGED <<job, ws, step, stored, lease, rows, h, maint>>

\* Time passes the expiry of a lease: of one whose handler is gone, or of
\* any lease when handlers may be slow.
LeaseExpires ==
    /\ lease.live
    /\ lease.owner = "gone" \/ "slow" \in Events
    /\ lease' = IF lease.owner = "gone" THEN Nobody ELSE [lease EXCEPT !.live = FALSE]
    /\ UNCHANGED <<job, ws, step, stored, rows, h, maint, runner>>

\* The heartbeat timer of runExecutionStep renews a lease nobody has taken.
heartbeatExecutionLease ==
    /\ At("run", "poll")
    /\ lease.owner = "run" /\ ~lease.live
    /\ lease' = [lease EXCEPT !.live = TRUE]
    /\ UNCHANGED <<job, ws, step, stored, rows, h, maint, runner>>

\* A worker dies: nobody holds its lease token any more, its row stays locked.
WorkerCrashes(q) ==
    /\ "crash" \in Events
    /\ h[q] # Idle
    /\ h' = [h EXCEPT ![q] = Idle]
    /\ lease' = IF lease.owner # q THEN lease
                ELSE IF lease.live THEN [owner |-> "gone", live |-> TRUE] ELSE Nobody
    /\ UNCHANGED <<job, ws, step, stored, rows, maint, runner>>

MaintenanceCrashes ==
    /\ "crash" \in Events
    /\ maint # Resting
    /\ maint' = Resting
    /\ UNCHANGED <<job, ws, step, stored, lease, rows, h, runner>>

\* graphile_worker resets the locks of workers that have been lost for hours.
ResetLock(t) ==
    /\ rows[t].st = "locked"
    /\ h[QueueOf[t]].task # t
    /\ rows' = [rows EXCEPT ![t] = returned(@, Tries[t])]
    /\ UNCHANGED <<job, ws, step, stored, lease, h, maint, runner>>

-----------------------------------------------------------------------------
\* The state createDiagnosticExecution commits.
Init ==
    /\ job = [status |-> "queued", attempts |-> 0, cancelRequested |-> FALSE, verified |-> FALSE]
    /\ ws = [ext |-> FALSE, state |-> "provisioning"]
    /\ step = "queued"
    /\ stored = FALSE
    /\ lease = Nobody
    /\ rows = [t \in Tasks |-> IF t = "provision" THEN added(Absent) ELSE Absent]
    /\ h = [q \in Queues |-> Idle]
    /\ maint = Resting
    /\ runner = [dir |-> FALSE, proc |-> "none", starts |-> 0]

Handlers ==
    \/ provisionExecution \/ runExecutionStep \/ collectExecutionArtifacts
    \/ cancelExecution \/ cleanupExecution
    \/ \E t \in Tasks : \/ TakeRefused(t) \/ Return(t) \/ Rethrow(t)
                        \/ Catch(t) \/ failExecution(t) \/ HandOver(t)

Environment ==
    \/ requestExecutionCancellation
    \/ ProcessCloses \/ RunnerRestarts
    \/ LeaseExpires \/ heartbeatExecutionLease
    \/ \E q \in Queues : WorkerCrashes(q)
    \/ MaintenanceCrashes
    \/ \E t \in Tasks : ResetLock(t)

Next == Handlers \/ reconcileExecutions \/ expireExecutions \/ Environment

Spec == Init /\ [][Next]_vars

\* Handlers keep running, graphile takes what waits again and again, processes
\* close, locks and leases of lost workers lapse, both scans recur.
Fairness ==
    /\ \A t \in Tasks :
          /\ WF_vars(\E p \in PCs \ {"idle"} : At(t, p) /\ Handlers)
          /\ SF_vars(Handlers /\ Takeable(t) /\ rows'[t].st = "locked")
          /\ WF_vars(ResetLock(t))
    /\ WF_vars(ProcessCloses)
    /\ WF_vars(lease.owner = "gone" /\ LeaseExpires)
    /\ WF_vars(maint # Resting /\ (reconcileExecutions \/ expireExecutions))
    /\ SF_vars(expireExecutions)

FairSpec == Spec /\ Fairness

-----------------------------------------------------------------------------
(* Properties.                                                             *)

\* Type invariant: every row, lease, handler and runner value is one the
\* schema and the handlers know, and the counters stay within their limits.
TypeOK ==
    /\ job \in [status : Status, attempts : 0 .. MaxAttempts,
               cancelRequested : BOOLEAN, verified : BOOLEAN]
    /\ ws \in [ext : BOOLEAN, state : {"provisioning", "ready", "stopped"}]
    /\ step \in StepStatus
    /\ stored \in BOOLEAN
    /\ lease \in [owner : Queues \cup {"nobody", "gone"}, live : BOOLEAN]
    /\ rows \in [Tasks -> [st : RowStates, tries : Nat]]
    /\ h \in [Queues -> [task : Tasks \cup {"none"}, pc : PCs,
                         seen : Status \cup Outcomes \cup {"none"},
                         err : Errors \cup {"none"}]]
    /\ maint \in [pc : {"idle", "reconcile", "rerun", "expire", "expired"},
                  seen : Status \cup {"none"}]
    /\ runner \in [dir : BOOLEAN, proc : ProcStates, starts : Nat]

\* A cancellation the API has accepted is never overtaken: from then on the
\* job is being cancelled or is cancelled, whatever the handlers in flight do.
AcceptedCancelWins ==
    job.cancelRequested <=> job.status \in Cancelling \cup {"cancelled"}

\* The command is started at most once per job, however often the run task is
\* retried, resumed after a crash or queued again by the reconciler.
CommandStartsOnce == runner.starts <= 1

\* A completed job rests on evidence that is still there: the step completed,
\* the output was verified, the artifact was stored and the workspace is gone.
CompletedIsProven ==
    job.status = "completed" =>
        /\ step = "completed" /\ job.verified /\ (Required = 1 => stored)
        /\ ws.state = "stopped" /\ ~runner.dir

\* The lease serialises the handlers: two of them are never inside together.
OneHandler ==
    \A q, r \in Queues : h[q] # Idle /\ h[r] # Idle => q = r

\* A cancelled job has no process that was never told to stop.
CancelledIsSignalled == job.status = "cancelled" => runner.proc # "running"

\* A workspace recorded as stopped has no directory on the runner.
StoppedIsDestroyed == ws.state = "stopped" => ~runner.dir

\* The workspace of a job that has ended is gone or still somebody's work: a
\* row in the queue, or the expiry scan that is about to add one.
WorkspaceNotLeaked ==
    job.status \in Terminal /\ runner.dir =>
        maint.pc = "expired" \/ \E t \in Tasks : rows[t].st # "absent"

\* A terminal status is final.
TerminalIsFinal == [][job.status \in Terminal => job'.status = job.status]_vars

\* Every change of status is an edge of the status graph.
StatusFollowsGraph ==
    [][job'.status # job.status => canTransition(job.status, job'.status)]_vars

\* What the client is promised.
Outcome == INSTANCE ExecutionOutcome
             WITH outcome   <- IF job.status \in Terminal THEN job.status ELSE "open",
                  withdrawn <- job.cancelRequested,
                  evidence  <- Evidence

\* The job keeps the promise of ExecutionOutcome.
KeepsPromise == Outcome!Spec

\* Every job ends and its workspace is removed for good, also when the runner
\* restarts under a running command.
ExecutionSettles == <>[](job.status \in Terminal /\ ~runner.dir)

=============================================================================
