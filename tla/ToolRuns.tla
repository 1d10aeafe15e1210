------------------------------ MODULE ToolRuns ------------------------------
(***************************************************************************)
(* A run of an operational tool (data interpreter, coding agent, browser   *)
(* agent, voice studio).  It is an execution job like any other, but its   *)
(* work is done by a task of its own, operational-tool-execute, which      *)
(* takes no lease and writes the job's status without a look at it, while  *)
(* the tasks of the execution kernel (cancel, clean up, reconcile, expire) *)
(* work on the same job.  The kernel's tasks are modelled by what they do  *)
(* to such a job; ExecutionKernel has their detail.                        *)
(***************************************************************************)
EXTENDS Naturals, GraphileJob

CONSTANTS Kind,      \* "kernel": runs in a workspace of the runner; "remote"
          Required,  \* the artifacts the tool stores
          Tries,     \* attempts of the task's row: 3, or 5 for coding
          MaxCrashes,
          Events     \* what may happen: "cancel", "expire", "stale", "error"

VARIABLES job,     \* the status of the execution job
          run,     \* the status of the tool run
          ws,      \* [ext, state]: the workspace row
          dir,     \* the runner has the workspace
          stored,  \* the artifacts, of 1..Required, that are in the store
          at,      \* the artifact the handler is at
          row,     \* the row of operational-tool-execute
          pc,      \* where its handler is
          kernel,  \* [cancel, runStep, cleanup]: the kernel's tasks on this job
          ran,     \* ghost: how often the tool's program was run
          crashes

vars == <<job, run, ws, dir, stored, at, row, pc, kernel, ran, crashes>>

Terminal   == {"completed", "failed", "timed_out", "cancelled"}
Cancelling == {"cancel_requested", "cancelling"}

Init == /\ job = "absent" /\ run = "absent"
        /\ ws = [ext |-> FALSE, state |-> "absent"]
        /\ dir = FALSE /\ stored = {} /\ at = 1
        /\ row = Absent /\ pc = "idle"
        /\ kernel = [cancel |-> "none", runStep |-> FALSE, cleanup |-> FALSE]
        /\ ran = 0 /\ crashes = 0

\* One transaction under the advisory lock of the idempotency key; a second
\* request with the key finds the job and changes nothing.
createOperationalToolRun ==
    /\ job = "absent"
    /\ job' = "queued" /\ run' = "queued"
    /\ ws' = [ext |-> FALSE, state |-> IF Kind = "kernel" THEN "provisioning" ELSE "ready"]
    /\ row' = added(row)
    /\ UNCHANGED <<dir, stored, at, pc, kernel, ran, crashes>>

-----------------------------------------------------------------------------
(* executeOperationalTool.                                                 *)

Step(from, to) == pc = from /\ pc' = to

\* Defective variant: the job's status is not looked at.
endedNever == FALSE

ended == job \in Terminal

claim ==
    /\ pc = "idle" /\ row.st = "waiting"
    /\ row' = IF ended THEN Absent ELSE taken(row)
    /\ pc' = IF ended THEN "idle" ELSE IF Kind = "kernel" THEN "create" ELSE "execute"
    /\ job' = IF ended THEN job ELSE "running"
    /\ run' = IF ended THEN run ELSE "running"
    /\ UNCHANGED <<ws, dir, stored, at, kernel, ran, crashes>>

\* The workspace is created unless the row names one (mkdir -p).
createWorkspace ==
    /\ Step("create", "record")
    /\ dir' = (dir \/ ~ws.ext)
    /\ UNCHANGED <<job, run, ws, stored, at, row, kernel, ran, crashes>>

recordWorkspace ==
    /\ Step("record", "execute")
    /\ ws' = [ext |-> TRUE, state |-> "running"]
    /\ UNCHANGED <<job, run, dir, stored, at, row, kernel, ran, crashes>>

\* executeCommand, the browser's steps or the call of the voice provider.
executed ==
    /\ Step("execute", "store")
    /\ Kind = "kernel" => dir
    /\ ran' = ran + 1
    /\ UNCHANGED <<job, run, ws, dir, stored, at, row, kernel, crashes>>

\* Defective variant: only the first artifact is waited for.
isFirst == at = 1

isLast == at = Required

\* storeExecutionArtifact of the next artifact.
storeRunnerFile ==
    /\ pc = "store"
    /\ Kind = "kernel" => dir
    /\ stored' = stored \cup {at}
    /\ at' = IF isLast THEN 1 ELSE at + 1
    /\ pc' = IF ~isLast THEN "store" ELSE IF Kind = "kernel" THEN "destroy" ELSE "finish"
    /\ UNCHANGED <<job, run, ws, dir, row, kernel, ran, crashes>>

destroyWorkspace ==
    /\ Step("destroy", "finish")
    /\ dir' = FALSE
    /\ ws' = [ws EXCEPT !.state = "stopped"]
    /\ UNCHANGED <<job, run, stored, at, row, kernel, ran, crashes>>

\* Step, job and run in one transaction, whatever they are by now.
finish ==
    /\ Step("finish", "announce")
    /\ job' = "completed" /\ run' = "completed"
    /\ UNCHANGED <<ws, dir, stored, at, row, kernel, ran, crashes>>

\* The event is appended and the task is done.
announced ==
    /\ Step("announce", "idle")
    /\ row' = Absent
    /\ UNCHANGED <<job, run, ws, dir, stored, at, kernel, ran, crashes>>

\* Any step may throw: a call that fails after it ran the program or not, a
\* workspace that is gone, a job that cannot be appended to.
throws ==
    /\ pc \notin {"idle", "fail"}
    /\ "error" \in Events \/ (pc \in {"execute", "store"} /\ Kind = "kernel" /\ ~dir)
    /\ pc' = "fail"
    /\ at' = 1
    /\ ran' \in IF pc = "execute" THEN {ran, ran + 1} ELSE {ran}
    /\ UNCHANGED <<job, run, ws, dir, stored, row, kernel, crashes>>

\* Defective variant: the job is left to the retry.
failLater ==
    /\ Step("fail", "idle")
    /\ row' = returned(row, Tries)
    /\ UNCHANGED <<job, run, ws, dir, stored, at, kernel, ran, crashes>>

\* Job and run are failed, whatever they are by now, and the task rethrows.
fail ==
    /\ Step("fail", "idle")
    /\ job' = "failed" /\ run' = "failed"
    /\ row' = returned(row, Tries)
    /\ UNCHANGED <<ws, dir, stored, at, kernel, ran, crashes>>

\* The worker is lost and the row's lock is reset.
Crash ==
    /\ pc # "idle" /\ crashes < MaxCrashes
    /\ pc' = "idle" /\ at' = 1 /\ crashes' = crashes + 1
    /\ row' = returned(row, Tries)
    /\ UNCHANGED <<job, run, ws, dir, stored, kernel, ran>>

-----------------------------------------------------------------------------
(* The execution kernel on the same job.                                   *)

ToolUnchanged == UNCHANGED <<run, stored, at, row, pc, ran, crashes>>

Live == job \notin Terminal \cup {"absent"}

requestExecutionCancellation ==
    /\ "cancel" \in Events /\ Live /\ job \notin Cancelling
    /\ job' = "cancel_requested"
    /\ kernel' = [kernel EXCEPT !.cancel = IF @ = "none" THEN "queued" ELSE @]
    /\ UNCHANGED <<ws, dir>> /\ ToolUnchanged

\* cancelExecution reads the job; what it found decides what it concludes.
cancelReads ==
    /\ kernel.cancel = "queued"
    /\ job' = IF job = "cancel_requested" THEN "cancelling" ELSE job
    /\ kernel' = IF job \in Terminal
                 THEN [kernel EXCEPT !.cancel = "none", !.cleanup = TRUE]
                 ELSE [kernel EXCEPT !.cancel = IF job \in Cancelling THEN "cancelling" ELSE "other"]
    /\ UNCHANGED <<ws, dir>> /\ ToolUnchanged

\* The process was stopped.  A job that is no longer cancelling refuses the
\* transition and the task is tried again.
cancelConcludes ==
    /\ kernel.cancel \in {"cancelling", "other"}
    /\ LET refused == kernel.cancel = "cancelling" /\ job \notin {"cancelling", "cancelled"}
       IN /\ job' = IF kernel.cancel = "cancelling" /\ ~refused THEN "cancelled" ELSE job
          /\ kernel' = [kernel EXCEPT !.cancel = IF refused THEN "queued" ELSE "none",
                                      !.cleanup = @ \/ ~refused]
    /\ UNCHANGED <<ws, dir>> /\ ToolUnchanged

\* cleanupExecution; "completed" is refused to a job without its evidence,
\* which only finish writes.
cleanupExecution ==
    /\ kernel.cleanup
    /\ dir' = (dir /\ ~(ws.ext /\ ws.state # "stopped"))
    /\ ws' = IF ws.ext THEN [ws EXCEPT !.state = "stopped"] ELSE ws
    /\ job' = IF job \in Cancelling THEN "cancelled" ELSE job
    /\ kernel' = [kernel EXCEPT !.cleanup = FALSE]
    /\ ToolUnchanged

\* No heartbeat moves updated_at: a tool that runs longer than the grace
\* period is taken for orphaned and handed to runExecutionStep.  A
\* cancellation that is not concluded is queued again.
reconcileExecutions ==
    /\ "stale" \in Events /\ job \in {"running", "orphaned"} \cup Cancelling
    /\ IF job \in Cancelling
       THEN /\ kernel.cancel = "none"
            /\ kernel' = [kernel EXCEPT !.cancel = "queued"]
            /\ UNCHANGED job
       ELSE /\ ~kernel.runStep
            /\ kernel' = [kernel EXCEPT !.runStep = TRUE]
            /\ job' = "orphaned"
    /\ UNCHANGED <<ws, dir>> /\ ToolUnchanged

\* runExecutionStep finds no command in a tool's input and fails the job.
runExecutionStep ==
    /\ kernel.runStep
    /\ LET fails == job \in {"running", "orphaned"}
       IN /\ job' = IF fails THEN "failed" ELSE job
          /\ kernel' = [kernel EXCEPT !.runStep = FALSE, !.cleanup = @ \/ fails]
    /\ UNCHANGED <<ws, dir>> /\ ToolUnchanged

expireExecutions ==
    /\ "expire" \in Events /\ Live /\ job \notin Cancelling
    /\ job' = "timed_out"
    /\ kernel' = [kernel EXCEPT !.cleanup = TRUE]
    /\ UNCHANGED <<ws, dir>> /\ ToolUnchanged

Next ==
    \/ createOperationalToolRun \/ claim \/ createWorkspace \/ recordWorkspace
    \/ executed \/ storeRunnerFile \/ destroyWorkspace \/ finish \/ announced
    \/ throws \/ fail \/ Crash
    \/ requestExecutionCancellation \/ cancelReads \/ cancelConcludes
    \/ cleanupExecution \/ reconcileExecutions \/ runExecutionStep
    \/ expireExecutions

Spec == Init /\ [][Next]_vars

-----------------------------------------------------------------------------
(* Properties.                                                             *)

\* A completed run is backed by a completed job and by every artifact its
\* tool stores, whatever the kernel, a retry or a lost worker did to the job
\* in between (finish, claim and fail in operational-tool-runtime.ts).
CompletedIsStored ==
    "completed" \in {job, run} => job = run /\ stored = 1..Required

\* The program of a tool is run again only after a worker was lost: the
\* attempts of the row that follow an error find the job failed.
RunOncePerWorker == ran <= 1 + crashes

\* tests/execution-kernel.test.ts:51, "rejects returning from terminal states":
\* a job that has ended keeps its verdict.
VerdictStays == [][(job \in Terminal) => job' = job]_vars

=============================================================================
