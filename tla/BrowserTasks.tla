----------------------------- MODULE BrowserTasks -----------------------------
(***************************************************************************)
(* One browser task: it is planned, and its steps are performed one after  *)
(* the other in a session of the browser runner, some of them only after a *)
(* person approved them.  The tasks execute and resume share one serial    *)
(* queue and are tried again when they throw; they keep the row they read  *)
(* and write back what follows from it; a cancelling request and the       *)
(* runner's timers come in between.                                        *)
(***************************************************************************)
EXTENDS Naturals, FiniteSets

CONSTANTS
    Length,   \* the number of steps of the plan
    Guarded,  \* steps whose permission is require_approval
    Denied,   \* steps whose permission is deny
    Tries,    \* maxAttempts of a task (3)
    Events    \* which of EventKinds happen in this instance

\* plan: the planner fails; busy: the runner is at capacity; fail: a step fails;
\* lost: a request dies before its enqueue; answer: an answer of the runner is
\* lost; slow: a call is given up while it is carried out; ttl: a session lapses;
\* unlink: the connection becomes unusable.
EventKinds == {"cancel", "expire", "plan", "busy", "fail", "lost", "answer", "slow", "ttl",
               "unlink", "crash"}

Step == 1..Length
Jobs == {<<"execute", 0>>} \cup ({"resume"} \X Guarded)
Ended == {"completed", "failed", "cancelled"}
Standing == Ended \cup {"awaiting_connection", "awaiting_approval"}

VARIABLES
    task,       \* browser_tasks: status, current_step, external_task_id, encrypted_plan, cancel_requested_at
    steps,      \* browser_task_steps
    appr,       \* tool_approvals of the steps
    usable,     \* the connection is verified and assigned to the agent
    rows,       \* the graphile jobs of the queue browser:<organization>
    worker,     \* what the worker of that queue does, and the row it holds
    creator,    \* position of the request that creates the task
    decider,    \* a decision was committed and its task is to be queued
    canceller,  \* the request that cancels the task, and whether the row it read is named
    session,    \* the runner's session: its status and current step
    orphans,    \* calls of a step the runner carries out though nobody waits
    performed,  \* history: how often each step was performed
    lost,       \* history: calls of each step that were given up
    late,       \* history: steps whose call began after a cancellation was committed
    granted     \* history: steps whose approval was granted

vars == <<task, steps, appr, usable, rows, worker, creator, decider, canceller, session, orphans,
          performed, lost, late, granted>>
browser == <<session, orphans, performed, lost, late>>
requests == <<creator, decider, canceller>>

Job == INSTANCE GraphileJob

NoTask == [status |-> "none", step |-> 0, named |-> FALSE, planned |-> FALSE, cancel |-> FALSE]
Idle == [at |-> "idle", job |-> <<"execute", 0>>, saw |-> NoTask]
At(at) == worker.at = at
Goto(at) == worker' = [worker EXCEPT !.at = at]
\* The worker goes on with a row it read or wrote.
Hold(at, row) == worker' = [worker EXCEPT !.at = at, !.saw = row]
Saw == worker.saw
Resuming == worker.job[1] = "resume"
\* The step at hand: the approved one, or the next of the row the worker holds.
S == IF Resuming /\ worker.at \in {"decision", "rejected", "check", "discard", "consume"}
     THEN worker.job[2] ELSE Saw.step + 1
Ends == rows' = [rows EXCEPT ![worker.job] = Job!Absent] /\ worker' = Idle
Throw == rows' = [rows EXCEPT ![worker.job] = Job!returned(@, Tries)] /\ worker' = Idle

TypeOK ==
    /\ task \in [status : {"none", "queued", "planning", "running"} \cup Standing,
                 step : 0..Length, named : BOOLEAN, planned : BOOLEAN, cancel : BOOLEAN]
    /\ steps \in [Step -> {"none", "queued", "running", "awaiting_approval"} \cup Ended]
    /\ appr \in [Guarded -> {"none", "pending", "approved", "rejected", "expired", "consumed"}]
    /\ rows \in [Jobs -> [st : Job!RowStates, tries : 0..Tries]]
    /\ session \in [st : {"none", "running", "closed"}, step : Nat]
    /\ performed \in [Step -> Nat] /\ late \subseteq Step

----------------------------------------------------------------------------
(* The requests.                                                            *)

\* createBrowserTask; who asks again gets the task there is and queues nothing.
CreateTask ==
    /\ creator = "idle" /\ usable
    /\ task' = [task EXCEPT !.status = "queued"]
    /\ creator' = "enqueue"
    /\ UNCHANGED <<steps, appr, usable, rows, worker, decider, canceller, browser, granted>>
EnqueueTask ==
    /\ creator = "enqueue"
    /\ creator' = "done"
    /\ \/ rows' = [rows EXCEPT ![<<"execute", 0>>] = Job!added(@)]
       \/ "lost" \in Events /\ UNCHANGED rows
    /\ UNCHANGED <<task, steps, appr, usable, worker, decider, canceller, browser, granted>>

createBrowserTask == CreateTask \/ EnqueueTask

\* cancelBrowserTask acts on the row it read first; the approval stays open.
CancelRead ==
    /\ "cancel" \in Events /\ canceller = "idle" /\ task.status \notin Ended \cup {"none"}
    /\ canceller' = IF task.named THEN "named" ELSE "unnamed"
    /\ UNCHANGED <<task, steps, appr, usable, rows, worker, creator, decider, browser, granted>>
CancelWrite ==
    /\ canceller \in {"named", "unnamed"}
    /\ task' = [task EXCEPT !.status = "cancelled", !.cancel = TRUE]
    /\ steps' = [s \in Step |-> IF steps[s] \in {"queued", "running", "awaiting_approval"}
                                THEN "cancelled" ELSE steps[s]]
    /\ canceller' = IF canceller = "named" THEN "runner" ELSE "done"
    /\ UNCHANGED <<appr, usable, rows, worker, creator, decider, browser, granted>>

closed == IF session.st = "running" THEN [session EXCEPT !.st = "closed"] ELSE session
\* cancelBrowserRunnerTask, whose failure is ignored.
DeleteSession == /\ session' \in {closed} \cup (IF "answer" \in Events THEN {session} ELSE {})
                 /\ UNCHANGED <<orphans, performed, lost, late>>
CancelRunner ==
    /\ canceller = "runner"
    /\ DeleteSession
    /\ canceller' = "done"
    /\ UNCHANGED <<task, steps, appr, usable, rows, worker, creator, decider, granted>>

cancelBrowserTask == CancelRead \/ CancelWrite \/ CancelRunner

\* decideToolApproval and the task the route queues for it.
Decide(s) ==
    /\ appr[s] = "pending"
    /\ \/ appr' = [appr EXCEPT ![s] = "approved"] /\ granted' = granted \cup {s}
       \/ appr' = [appr EXCEPT ![s] = "rejected"] /\ UNCHANGED granted
    /\ decider' = [decider EXCEPT ![s] = TRUE]
    /\ UNCHANGED <<task, steps, usable, rows, worker, creator, canceller, browser>>
QueueResume(s) ==
    /\ decider[s]
    /\ decider' = [decider EXCEPT ![s] = FALSE]
    /\ \/ rows' = [rows EXCEPT !["resume", s] = Job!added(@)]
       \/ "lost" \in Events /\ UNCHANGED rows
    /\ UNCHANGED <<task, steps, appr, usable, worker, creator, canceller, browser, granted>>
\* The task of an approval that lapsed goes on waiting.
Expire(s) ==
    /\ "expire" \in Events /\ appr[s] = "pending"
    /\ appr' = [appr EXCEPT ![s] = "expired"]
    /\ UNCHANGED <<task, steps, usable, rows, worker, requests, browser, granted>>
Unlink ==
    /\ "unlink" \in Events /\ usable
    /\ usable' = FALSE
    /\ UNCHANGED <<task, steps, appr, rows, worker, requests, browser, granted>>

----------------------------------------------------------------------------
(* executeBrowserTaskRuntime.                                               *)

Take(j) ==
    /\ At("idle") /\ \A k \in Jobs : rows[k].st # "locked"
    /\ rows[j].st = "waiting"
    /\ rows' = [rows EXCEPT ![j] = Job!taken(@)]
    /\ worker' = [at |-> IF j[1] = "resume" THEN "decision" ELSE "prepare", job |-> j, saw |-> NoTask]
    /\ UNCHANGED <<task, steps, appr, usable, requests, browser, granted>>

\* prepareBrowserTask plans a task that has no plan and has not ended; none of
\* its writes looks at the status again.
PrepareRead ==
    /\ At("prepare")
    /\ Hold(IF task.planned \/ task.status \in Ended THEN "run" ELSE "connect", task)
    /\ UNCHANGED <<task, steps, appr, usable, rows, requests, browser, granted>>
PrepareConnection ==
    /\ At("connect")
    /\ LET row == [task EXCEPT !.status = IF usable THEN "planning" ELSE "awaiting_connection"]
       IN task' = row /\ Hold(IF usable THEN "plan" ELSE "run", row)
    /\ UNCHANGED <<steps, appr, usable, rows, requests, browser, granted>>
PlanFails ==
    /\ "plan" \in Events /\ At("plan")
    /\ Throw
    /\ UNCHANGED <<task, steps, appr, usable, requests, browser, granted>>
PlanRecord ==
    /\ At("plan")
    /\ LET row == [task EXCEPT !.status = "running", !.planned = TRUE]
       IN task' = row /\ Hold("run", row)
    /\ steps' = [s \in Step |-> IF steps[s] = "none" THEN "queued" ELSE steps[s]]
    /\ UNCHANGED <<appr, usable, rows, requests, browser, granted>>

prepareBrowserTask == PrepareRead \/ PrepareConnection \/ PlanFails \/ PlanRecord

\* Nothing to do, no session to do it with, or the way into the loop.
RunNothing ==
    /\ At("run") /\ Saw.status \in Standing
    /\ Ends
    /\ UNCHANGED <<task, steps, appr, usable, requests, browser, granted>>
RunUnusable ==
    /\ At("run") /\ Saw.status \notin Standing /\ ~usable
    /\ Throw
    /\ UNCHANGED <<task, steps, appr, usable, requests, browser, granted>>
RunFurther ==
    /\ At("run") /\ Saw.status \notin Standing /\ usable
    /\ Goto(IF Saw.named THEN "loop" ELSE "start")
    /\ UNCHANGED <<task, steps, appr, usable, rows, requests, browser, granted>>

\* startBrowserRunnerTask: a session that is there is accepted as it is.
opened == IF session.st = "none" THEN [st |-> "running", step |-> 0] ELSE session
StartSession ==
    /\ At("start")
    /\ session' = opened
    /\ Goto("name")
    /\ UNCHANGED <<task, steps, appr, usable, rows, requests, orphans, performed, lost, late, granted>>
StartFails ==
    /\ At("start")
    /\ \/ "busy" \in Events /\ UNCHANGED session
       \/ "answer" \in Events /\ session' = opened
    /\ Throw
    /\ UNCHANGED <<task, steps, appr, usable, requests, orphans, performed, lost, late, granted>>
RecordSession ==
    /\ At("name")
    /\ LET row == [task EXCEPT !.named = TRUE, !.status = "running"]
       IN task' = row /\ Hold("loop", row)
    /\ UNCHANGED <<steps, appr, usable, rows, requests, browser, granted>>

\* Each turn of the loop reads the row again and sees whether it is cancelled.
LoopRead ==
    /\ At("loop") /\ Saw.step < Length
    /\ Hold(IF task.cancel \/ task.status = "cancelled" THEN "stop" ELSE "permission", task)
    /\ UNCHANGED <<task, steps, appr, usable, rows, requests, browser, granted>>
LoopStop ==
    /\ At("stop")
    /\ DeleteSession
    /\ Ends
    /\ UNCHANGED <<task, steps, appr, usable, requests, granted>>

\* resolveAgentSitePermission.
PermissionUnusable ==
    /\ At("permission") /\ ~usable
    /\ Throw
    /\ UNCHANGED <<task, steps, appr, usable, requests, browser, granted>>
failDeniedStep ==
    /\ At("permission") /\ usable /\ S \in Denied
    /\ steps' = [steps EXCEPT ![S] = "failed"]
    /\ task' = [task EXCEPT !.status = "failed"]
    /\ Ends
    /\ UNCHANGED <<appr, usable, requests, browser, granted>>
\* waitForApproval: the approval, if there is none yet, and then the statuses.
AskApproval ==
    /\ At("permission") /\ usable /\ S \in Guarded \ Denied
    /\ appr' = [appr EXCEPT ![S] = IF @ = "none" THEN "pending" ELSE @]
    /\ Goto("wait")
    /\ UNCHANGED <<task, steps, usable, rows, requests, browser, granted>>
AwaitApproval ==
    /\ At("wait")
    /\ steps' = [steps EXCEPT ![S] = "awaiting_approval"]
    /\ task' = [task EXCEPT !.status = "awaiting_approval"]
    /\ Ends
    /\ UNCHANGED <<appr, usable, requests, browser, granted>>
Permit ==
    /\ At("permission") /\ usable /\ S \notin Guarded \cup Denied
    /\ Goto("mark")
    /\ UNCHANGED <<task, steps, appr, usable, rows, requests, browser, granted>>

waitForApproval == AskApproval \/ AwaitApproval

MarkRunning ==
    /\ At("mark")
    /\ steps' = [steps EXCEPT ![S] = "running"]
    /\ Goto("call")
    /\ UNCHANGED <<task, appr, usable, rows, requests, browser, granted>>

----------------------------------------------------------------------------
(* executeBrowserRunnerStep: the worker's call and the runner's step.       *)

\* The runner accepts the step it is at, ...
CallBegins ==
    /\ At("call") /\ session.st = "running" /\ S = session.step + 1
    /\ Goto("doing")
    /\ late' = IF task.cancel THEN late \cup {S} ELSE late
    /\ UNCHANGED <<task, steps, appr, usable, rows, requests, session, orphans, performed, lost, granted>>
\* ... answers at once for an earlier one, ...
CallRepeated ==
    /\ At("call") /\ session.st = "running" /\ S <= session.step
    /\ Goto("persist")
    /\ UNCHANGED <<task, steps, appr, usable, rows, requests, browser, granted>>
\* ... and refuses any other.
Refused == session.st # "running" \/ S > session.step + 1
CallFailed == IF Resuming /\ S \in Guarded THEN Throw ELSE Goto("failed") /\ UNCHANGED rows
CallRefused ==
    /\ At("call") /\ Refused
    /\ CallFailed
    /\ UNCHANGED <<task, steps, appr, usable, requests, browser, granted>>
perform(s) == /\ performed' = [performed EXCEPT ![s] = @ + 1]
              /\ session' = [session EXCEPT !.step = @ + 1]
CallDone ==
    /\ At("doing") /\ session.st = "running"
    /\ perform(S)
    /\ \/ Goto("persist") /\ UNCHANGED <<rows, lost>>
       \/ "answer" \in Events /\ CallFailed /\ lost' = [lost EXCEPT ![S] = @ + 1]
    /\ UNCHANGED <<task, steps, appr, usable, requests, orphans, late, granted>>
\* The step fails, or the session was closed under it.
CallBreaks ==
    /\ At("doing")
    /\ "fail" \in Events \/ session.st # "running"
    /\ session' = closed
    /\ CallFailed
    /\ UNCHANGED <<task, steps, appr, usable, requests, orphans, performed, lost, late, granted>>
\* The call is given up while the runner goes on.
GiveUp == orphans' = [orphans EXCEPT ![S] = @ + 1] /\ lost' = [lost EXCEPT ![S] = @ + 1]
CallGivenUp ==
    /\ "slow" \in Events /\ At("doing") /\ lost[S] < Tries
    /\ GiveUp
    /\ CallFailed
    /\ UNCHANGED <<task, steps, appr, usable, requests, session, performed, late, granted>>
OrphanEnds(s) ==
    /\ orphans[s] > 0
    /\ orphans' = [orphans EXCEPT ![s] = @ - 1]
    /\ IF session.st = "running" THEN perform(s) ELSE UNCHANGED <<session, performed>>
    /\ UNCHANGED <<task, steps, appr, usable, rows, worker, requests, lost, late, granted>>

executeBrowserRunnerStep ==
    CallBegins \/ CallRepeated \/ CallRefused \/ CallDone \/ CallBreaks \/ CallGivenUp

\* persistCompletedStep, and its like in the resume: counted from the row held.
PersistStep ==
    /\ At("persist")
    /\ LET row == [task EXCEPT !.step = Saw.step + 1, !.status = "running"]
       IN /\ task' = row
          /\ worker' = IF Resuming /\ S = worker.job[2] THEN [worker EXCEPT !.at = "consume"]
                       ELSE [worker EXCEPT !.at = "loop", !.saw = row]
    /\ steps' = [steps EXCEPT ![S] = "completed"]
    /\ UNCHANGED <<appr, usable, rows, requests, browser, granted>>
\* What the step downloaded cannot be stored.
StoreFails ==
    /\ "fail" \in Events /\ At("persist") /\ ~(Resuming /\ S \in Guarded)
    /\ Goto("failed")
    /\ UNCHANGED <<task, steps, appr, usable, rows, requests, browser, granted>>
RecordFailure ==
    /\ At("failed")
    /\ steps' = [steps EXCEPT ![S] = "failed"]
    /\ task' = [task EXCEPT !.status = "failed"]
    /\ Goto("dispose")
    /\ UNCHANGED <<appr, usable, rows, requests, browser, granted>>
Dispose ==
    /\ At("dispose")
    /\ DeleteSession
    /\ Throw
    /\ UNCHANGED <<task, steps, appr, usable, requests, granted>>

\* After the last step: the session's state is fetched and kept, the task completed.
\* Defective variant: the last step is not waited for.
StateReadEarly ==
    /\ At("loop") /\ Saw.step >= Length - 1 /\ session.st = "running"
    /\ Goto("complete")
    /\ UNCHANGED <<task, steps, appr, usable, rows, requests, browser, granted>>
StateRead ==
    /\ At("loop") /\ Saw.step >= Length /\ session.st = "running"
    /\ Goto("complete")
    /\ UNCHANGED <<task, steps, appr, usable, rows, requests, browser, granted>>
StateFails ==
    /\ At("loop") /\ Saw.step >= Length
    /\ session.st # "running" \/ "answer" \in Events
    /\ Throw
    /\ UNCHANGED <<task, steps, appr, usable, requests, browser, granted>>
Complete ==
    /\ At("complete")
    /\ task' = [task EXCEPT !.status = "completed"]
    /\ Goto("close")
    /\ UNCHANGED <<steps, appr, usable, rows, requests, browser, granted>>
CloseSession ==
    /\ At("close")
    /\ DeleteSession
    /\ Ends
    /\ UNCHANGED <<task, steps, appr, usable, requests, granted>>

executeBrowserTaskRuntime ==
    \/ prepareBrowserTask \/ RunNothing \/ RunUnusable \/ RunFurther
    \/ StartSession \/ StartFails \/ RecordSession \/ LoopRead \/ LoopStop
    \/ PermissionUnusable \/ failDeniedStep \/ waitForApproval \/ Permit \/ MarkRunning
    \/ executeBrowserRunnerStep \/ PersistStep \/ StoreFails \/ RecordFailure \/ Dispose
    \/ StateRead \/ StateFails \/ Complete \/ CloseSession

----------------------------------------------------------------------------
(* resumeBrowserTaskAfterApproval.                                          *)

ResumeUndecided ==
    /\ At("decision") /\ appr[S] \notin {"approved", "rejected"}
    /\ Throw
    /\ UNCHANGED <<task, steps, appr, usable, requests, browser, granted>>
ResumeRead ==
    /\ At("decision") /\ appr[S] \in {"approved", "rejected"}
    /\ Hold(IF appr[S] = "approved" THEN "check" ELSE "rejected", task)
    /\ UNCHANGED <<task, steps, appr, usable, rows, requests, browser, granted>>
ResumeRejected ==
    /\ At("rejected")
    /\ steps' = [steps EXCEPT ![S] = "failed"]
    /\ task' = [task EXCEPT !.status = "failed"]
    /\ Goto("discard")
    /\ UNCHANGED <<appr, usable, rows, requests, browser, granted>>
\* The session must be there and stand where the task stands.
Resumable == /\ Saw.named /\ Saw.planned
             /\ session.st = "running" /\ session.step = Saw.step
             /\ S = Saw.step + 1
ResumeCheck ==
    /\ At("check") /\ Resumable
    /\ Goto("mark")
    /\ UNCHANGED <<task, steps, appr, usable, rows, requests, browser, granted>>
ResumeExpired ==
    /\ At("check")
    /\ ~Resumable \/ "answer" \in Events
    /\ Throw
    /\ UNCHANGED <<task, steps, appr, usable, requests, browser, granted>>
\* consumeToolApproval; an approved task goes on.
Consume ==
    /\ worker.at \in {"discard", "consume"} /\ appr[S] \in {"approved", "rejected"}
    /\ appr' = [appr EXCEPT ![S] = "consumed"]
    /\ IF At("consume") THEN Goto("prepare") /\ UNCHANGED rows ELSE Ends
    /\ UNCHANGED <<task, steps, usable, requests, browser, granted>>

resumeBrowserTaskAfterApproval ==
    ResumeUndecided \/ ResumeRead \/ ResumeRejected \/ ResumeCheck \/ ResumeExpired \/ Consume

Task == executeBrowserTaskRuntime \/ resumeBrowserTaskAfterApproval

----------------------------------------------------------------------------
(* The runner's timer, and crashes.                                         *)

\* A session lapses, or the runner restarts; one that is closed is forgotten.
SessionGone ==
    /\ \A s \in Step : orphans[s] = 0
    /\ session.st = "closed" \/ ("ttl" \in Events /\ session.st = "running")
    /\ session' = [st |-> "none", step |-> 0]
    /\ UNCHANGED <<task, steps, appr, usable, rows, worker, requests, orphans, performed, lost, late, granted>>
Crash ==
    /\ "crash" \in Events /\ ~At("idle")
    /\ worker' = Idle
    /\ IF At("doing") THEN GiveUp ELSE UNCHANGED <<orphans, lost>>
    /\ UNCHANGED <<task, steps, appr, usable, rows, requests, session, performed, late, granted>>
\* graphile_worker resets a lock hours later, when no call is left.
ResetLock(j) ==
    /\ At("idle") /\ rows[j].st = "locked"
    /\ \A s \in Step : orphans[s] = 0
    /\ rows' = [rows EXCEPT ![j] = Job!returned(@, Tries)]
    /\ UNCHANGED <<task, steps, appr, usable, worker, requests, browser, granted>>

Init ==
    /\ task = NoTask /\ steps = [s \in Step |-> "none"]
    /\ appr = [s \in Guarded |-> "none"] /\ granted = {}
    /\ usable = TRUE
    /\ rows = [j \in Jobs |-> Job!Absent] /\ worker = Idle
    /\ creator = "idle" /\ decider = [s \in Guarded |-> FALSE] /\ canceller = "idle"
    /\ session = [st |-> "none", step |-> 0]
    /\ orphans = [s \in Step |-> 0] /\ performed = [s \in Step |-> 0]
    /\ lost = [s \in Step |-> 0] /\ late = {}

Next ==
    \/ createBrowserTask \/ cancelBrowserTask \/ Unlink \/ Task \/ SessionGone \/ Crash
    \/ \E s \in Guarded : Decide(s) \/ QueueResume(s) \/ Expire(s)
    \/ \E s \in Step : OrphanEnds(s)
    \/ \E j \in Jobs : Take(j) \/ ResetLock(j)

\* A worker that is free takes some task; a task is taken at most Tries times, so
\* none is passed over for ever.
TakeAny == \E j \in Jobs : Take(j)
Fairness ==
    /\ WF_vars(Task) /\ WF_vars(EnqueueTask)
    /\ WF_vars(TakeAny)
    /\ \A s \in Guarded : WF_vars(QueueResume(s))

Spec == Init /\ [][Next]_vars /\ Fairness

----------------------------------------------------------------------------
(* Properties.                                                              *)

Gate == INSTANCE ApprovalGate WITH
            Gates <- Guarded, gate <- appr,
            sent <- [s \in Guarded |-> performed[s] > 0]
\* The approvals of steps keep ApprovalGate's promise: a step that needs approval
\* is performed only while its grant stands, and the grant is consumed after it
\* (resumeBrowserTaskAfterApproval, over every retry and every lost answer).
GateStep == Gate!Next \/ UNCHANGED Gate!vars

\* A step is performed again only if a call of it was given up before its outcome
\* was recorded (currentStep of the runner's session and of the task's row).
PerformedOnce == \A s \in Step : performed[s] <= 1 + lost[s]

\* A task that completes has had every step performed in its session (the
\* counting of persistCompletedStep, the resume and the runner; instances
\* without slow, where two calls of one step do not overlap).
CompletedStep == task.status # "completed" /\ task'.status = "completed"
                 => \A s \in Step : performed[s] > 0

\* After a cancellation is committed no more than the one step already decided
\* on is begun, by whichever task (the check of each turn of the loop; the resume
\* has none of its own).
AtMostOneLate == Cardinality(late) <= 1

\* A task that is queued stands or is cancelled in the end, and so does one whose
\* step was decided (instances whose only faults are failing steps).
Settled == \/ task.cancel
           \/ /\ task.status \in Standing
              /\ \A s \in Guarded : appr[s] \notin {"approved", "rejected"}
Accepted == rows[<<"execute", 0>>].st = "waiting" \/ \E s \in Guarded : decider[s]
TaskSettles == Accepted ~> Settled

=============================================================================
