------------------------------ MODULE TeamRuns ------------------------------
(***************************************************************************)
(* One run of an agent team: the request that creates it, the task of the  *)
(* serial queue agent-teams that executes it, the lanes in which the task  *)
(* runs the members, the approvals its members wait for, and the requests  *)
(* to cancel and to retry it.  Every action is one statement on the        *)
(* database or one whole execution of a member's agent run (AgentRuns      *)
(* has its inside); a start of the task is numbered by the attempts of the *)
(* team run, and the lanes of an earlier start may outlive it.             *)
(***************************************************************************)
EXTENDS Naturals, FiniteSets, GraphileJob

CONSTANTS
    Size,       \* members of the team besides its supervisor
    Parallel,   \* maxParallelWorkers
    MaxStarts,  \* starts of the task (bound of the model)
    Tries,      \* attempts of the agent-team-run task (5)
    Events      \* which of EventKinds happen in this instance

EventKinds == {"cancel",    \* a person cancels the run
               "retry",     \* a person retries the failed run
               "repeat",    \* the client repeats its request
               "unqueued",  \* the enqueue fails, before or after its effect
               "approval",  \* a member's run waits for approval
               "error",     \* a member's run fails
               "crash"}     \* the worker process dies

VARIABLES
    team,     \* the row of the team run
    step,     \* its steps, by position; the last is the supervisor's
    arun,     \* the agent runs of each step: 0 the first, n the one of start n
    row,      \* the row of the task
    task,     \* the execution of the task
    cursor,   \* for each start, the positions its lanes have taken
    lane,     \* for each start, its lanes; lane 0 runs the supervisor
    client,   \* the request that creates the run
    cancel,   \* the request to cancel it
    retry,    \* the request to retry it
    resume    \* a resumed member run on its way to the team

vars == <<team, step, arun, row, task, cursor, lane, client, cancel, retry, resume>>

Supervisor == Size + 1
Positions == 1..(Size + 1)
Starts == 1..MaxStarts
Lanes == 0..(IF Parallel < Size THEN Parallel ELSE Size)
RunIds == 0..MaxStarts
NoRun == MaxStarts + 1

TeamStates == {"none", "queued", "running", "waiting", "completed", "failed", "cancelled"}
StepStates == {"none", "queued", "running", "waiting", "completed", "failed"}
ArunStates == {"none", "running", "waiting", "completed", "failed"}
Errors == {"none", "waiting", "cancelled", "error"}
LanePlaces == {"off", "next", "check", "step", "talk", "byId", "byIdWrite", "first", "firstWrite",
               "begin", "execute", "record", "after", "write", "fail", "done"}
TaskPlaces == {"idle", "start", "cancelled", "fan", "merge", "supervise", "last", "complete", "caught"}

NoLane == [at |-> "off", item |-> 0, saw |-> "none", id |-> NoRun, conv |-> 0, error |-> "none"]
NoTask == [at |-> "idle", start |-> 0, attempts |-> 0, error |-> "none"]
NoRequest == [at |-> "idle", read |-> "none", late |-> FALSE]
NoResume == [at |-> "idle", item |-> 0, id |-> NoRun]

----------------------------------------------------------------------------
(* createAgentTeamRun.                                                      *)

\* The row is inserted as queued before its task is.
CreateInsert ==
    /\ client = "idle"
    /\ team' = [team EXCEPT !.status = "queued"]
    /\ client' = "enqueue"
    /\ UNCHANGED <<step, arun, row, task, cursor, lane, cancel, retry, resume>>

CreateEnqueue ==
    /\ client = "enqueue"
    /\ \/ row' = added(row) /\ client' = "record"
       \/ /\ "unqueued" \in Events /\ client' = "failed"
          /\ row' \in {row, added(row)}
    /\ UNCHANGED <<team, step, arun, task, cursor, lane, cancel, retry, resume>>

\* The identifier of the task is recorded, or the run is marked as failed.
CreateRecord ==
    /\ client \in {"record", "failed"}
    /\ team' = IF client = "record" THEN [team EXCEPT !.job = TRUE]
                                    ELSE [team EXCEPT !.status = "failed"]
    /\ client' = "done"
    /\ UNCHANGED <<step, arun, row, task, cursor, lane, cancel, retry, resume>>

\* The same request again: it queues the task of a run that has none.
CreateRepeat ==
    /\ "repeat" \in Events
    /\ client \in {"enqueue", "done"} /\ team.status = "queued" /\ ~team.job
    /\ row' = added(row)
    /\ team' = [team EXCEPT !.job = TRUE]
    /\ UNCHANGED <<step, arun, task, cursor, lane, client, cancel, retry, resume>>

createAgentTeamRun == CreateInsert \/ CreateEnqueue \/ CreateRecord \/ CreateRepeat

----------------------------------------------------------------------------
(* executePersistedAgentTeamRun.                                            *)

TaskEnds == task' = NoTask

\* The task is taken and reads the run: nothing is left to do, it was asked to
\* stop, or it starts.
TaskTake ==
    /\ task.at = "idle" /\ row.st = "waiting"
    /\ \/ /\ team.status \in {"completed", "cancelled", "waiting"}
          /\ row' = Absent /\ UNCHANGED task
       \/ /\ team.status \notin {"completed", "cancelled", "waiting"}
          /\ team.cancelReq
          /\ row' = taken(row)
          /\ task' = [NoTask EXCEPT !.at = "cancelled"]
       \/ /\ team.status \notin {"completed", "cancelled", "waiting"}
          /\ ~team.cancelReq /\ team.attempts < MaxStarts
          /\ row' = taken(row)
          /\ task' = [NoTask EXCEPT !.at = "start", !.attempts = team.attempts]
    /\ UNCHANGED <<team, step, arun, cursor, lane, client, cancel, retry, resume>>

\* The update of a run whose cancellation was requested before the start.
TaskCancelled ==
    /\ task.at = "cancelled"
    /\ team' = [team EXCEPT !.status = "cancelled"]
    /\ row' = Absent /\ TaskEnds
    /\ UNCHANGED <<step, arun, cursor, lane, client, cancel, retry, resume>>

\* The run is marked as running, whatever it is by now, and its lanes open.
TaskStart ==
    /\ task.at = "start"
    /\ LET n == task.attempts + 1 IN
       /\ team' = [team EXCEPT !.status = "running", !.attempts = n]
       /\ task' = [task EXCEPT !.at = "fan", !.start = n]
       /\ lane' = [lane EXCEPT ![n] = [l \in Lanes |->
                     IF l = 0 THEN NoLane ELSE [NoLane EXCEPT !.at = "next"]]]
    /\ UNCHANGED <<step, arun, row, cursor, client, cancel, retry, resume>>

\* The request to stop, as assertNotCancelled reads it.
CancellationRequested == team.status = "cancelled" \/ team.cancelReq

\* Defective variant: Promise.allSettled, whose rejections nobody looks at.
TaskGatherSettled ==
    /\ task.at = "fan"
    /\ \A l \in Lanes \ {0} : lane[task.start][l].at = "done"
    /\ task' = [task EXCEPT !.at = "merge"]
    /\ UNCHANGED <<team, step, arun, row, cursor, lane, client, cancel, retry, resume>>

\* Promise.all of the lanes: the first error, or every result.
TaskGather ==
    /\ task.at = "fan"
    /\ \/ \E l \in Lanes \ {0} :
            /\ lane[task.start][l].error # "none"
            /\ task' = [task EXCEPT !.at = "caught", !.error = lane[task.start][l].error]
       \/ /\ \A l \in Lanes \ {0} : lane[task.start][l].at = "done" /\ lane[task.start][l].error = "none"
          /\ task' = [task EXCEPT !.at = "merge"]
    /\ UNCHANGED <<team, step, arun, row, cursor, lane, client, cancel, retry, resume>>

\* Between the members and the supervisor, and after the supervisor, the run
\* is asked whether it was cancelled.
TaskMerge ==
    /\ task.at = "merge"
    /\ IF CancellationRequested
         THEN task' = [task EXCEPT !.at = "caught", !.error = "cancelled"] /\ UNCHANGED lane
         ELSE /\ task' = [task EXCEPT !.at = "supervise"]
              /\ lane' = [lane EXCEPT ![task.start][0] =
                            [NoLane EXCEPT !.at = "check", !.item = Supervisor]]
    /\ UNCHANGED <<team, step, arun, row, cursor, client, cancel, retry, resume>>

TaskSupervised ==
    /\ task.at = "supervise" /\ lane[task.start][0].at = "done"
    /\ task' = IF lane[task.start][0].error # "none"
                 THEN [task EXCEPT !.at = "caught", !.error = lane[task.start][0].error]
                 ELSE [task EXCEPT !.at = "last"]
    /\ UNCHANGED <<team, step, arun, row, cursor, lane, client, cancel, retry, resume>>

\* Defective variant: a cancellation during the supervisor's run is missed.
TaskLastUnasked ==
    /\ task.at = "last"
    /\ task' = [task EXCEPT !.at = "complete"]
    /\ UNCHANGED <<team, step, arun, row, cursor, lane, client, cancel, retry, resume>>

TaskLast ==
    /\ task.at = "last"
    /\ task' = IF CancellationRequested
                 THEN [task EXCEPT !.at = "caught", !.error = "cancelled"]
                 ELSE [task EXCEPT !.at = "complete"]
    /\ UNCHANGED <<team, step, arun, row, cursor, lane, client, cancel, retry, resume>>

TaskComplete ==
    /\ task.at = "complete"
    /\ team' = [team EXCEPT !.status = "completed"]
    /\ row' = Absent /\ TaskEnds
    /\ UNCHANGED <<step, arun, cursor, lane, client, cancel, retry, resume>>

\* The catch: waiting and cancelled end the task, an error is thrown again.
TaskCaught ==
    /\ task.at = "caught"
    /\ team' = [team EXCEPT !.status = IF task.error = "error" THEN "failed" ELSE task.error]
    /\ row' = IF task.error = "error" THEN returned(row, Tries) ELSE Absent
    /\ TaskEnds
    /\ UNCHANGED <<step, arun, cursor, lane, client, cancel, retry, resume>>

executePersistedAgentTeamRun ==
    \/ TaskTake \/ TaskCancelled \/ TaskStart \/ TaskGather \/ TaskMerge
    \/ TaskSupervised \/ TaskLast \/ TaskComplete \/ TaskCaught

----------------------------------------------------------------------------
(* runMember, in lane l of start n.                                         *)

At(n, l, at) == lane[n][l].at = at
ItemOf(n, l) == lane[n][l].item
Goto(n, l, at) == lane' = [lane EXCEPT ![n][l].at = at]

\* mapWithConcurrency: the lane takes the next position, or returns.
LaneNext(n, l) ==
    /\ At(n, l, "next")
    /\ IF cursor[n] = Size
         THEN lane' = [lane EXCEPT ![n][l] = [NoLane EXCEPT !.at = "done"]] /\ UNCHANGED cursor
         ELSE /\ cursor' = [cursor EXCEPT ![n] = @ + 1]
              /\ lane' = [lane EXCEPT ![n][l] =
                            [NoLane EXCEPT !.at = "check", !.item = cursor[n] + 1]]
    /\ UNCHANGED <<team, step, arun, row, task, client, cancel, retry, resume>>

\* The member returns its output: the lane goes on; the supervisor's ends.
Succeed(n, l) ==
    lane' = [lane EXCEPT ![n][l] =
               [NoLane EXCEPT !.at = IF l = 0 THEN "done" ELSE "next"]]
\* The member throws: so does the lane.
Throw(n, l, error) ==
    lane' = [lane EXCEPT ![n][l] = [NoLane EXCEPT !.at = "done", !.error = error]]

MemberCheck(n, l) ==
    /\ At(n, l, "check")
    /\ IF CancellationRequested THEN Throw(n, l, "cancelled") ELSE Goto(n, l, "step")
    /\ UNCHANGED <<team, step, arun, row, task, cursor, client, cancel, retry, resume>>

\* findOrCreateStep, and what the row that it returns already settles.
MemberStep(n, l) ==
    /\ At(n, l, "step")
    /\ LET i == ItemOf(n, l) IN
       /\ step' = [step EXCEPT ![i].st = IF @ = "none" THEN "queued" ELSE @]
       /\ \/ step[i].st = "completed" /\ Succeed(n, l)
          \/ step[i].st = "waiting" /\ step[i].run # NoRun /\ Throw(n, l, "waiting")
          \/ /\ step[i].st # "completed"
             /\ step[i].st = "waiting" => step[i].run = NoRun
             /\ lane' = [lane EXCEPT ![n][l] = [@ EXCEPT
                  !.at = IF step[i].conv = 0 THEN "talk" ELSE IF step[i].run = NoRun THEN "first" ELSE "byId",
                  !.conv = step[i].conv, !.id = step[i].run]]
    /\ UNCHANGED <<team, arun, row, task, cursor, client, cancel, retry, resume>>

\* ensureStepConversation: a step without a conversation gets one of its own.
MemberTalk(n, l) ==
    /\ At(n, l, "talk")
    /\ step' = [step EXCEPT ![ItemOf(n, l)].conv = n]
    /\ lane' = [lane EXCEPT ![n][l] = [@ EXCEPT
                  !.conv = n, !.at = IF lane[n][l].id = NoRun THEN "first" ELSE "byId"]]
    /\ UNCHANGED <<team, arun, row, task, cursor, client, cancel, retry, resume>>

\* The run the step names is read, and then the run of the stable request.
\* Completed or waiting, it is reused; otherwise a new run is needed, named by
\* the start if the first name is taken.
MemberRead(n, l) ==
    LET i == ItemOf(n, l)
        settled(id) == arun[i][id] \in {"completed", "waiting"} IN
    /\ \/ /\ At(n, l, "byId")
          /\ lane' = [lane EXCEPT ![n][l] = [@ EXCEPT
                !.at = IF settled(lane[n][l].id) THEN "byIdWrite" ELSE "first",
                !.saw = IF settled(lane[n][l].id) THEN arun[i][lane[n][l].id] ELSE "none"]]
       \/ /\ At(n, l, "first")
          /\ lane' = [lane EXCEPT ![n][l] = [@ EXCEPT
                !.at = IF settled(0) THEN "firstWrite" ELSE "begin",
                !.saw = IF settled(0) THEN arun[i][0] ELSE "none",
                !.id = IF settled(0) \/ arun[i][0] = "none" THEN 0 ELSE n]]
    /\ UNCHANGED <<team, step, arun, row, task, cursor, client, cancel, retry, resume>>

\* The step takes over the run that was found.
MemberReuse(n, l) ==
    /\ lane[n][l].at \in {"byIdWrite", "firstWrite"}
    /\ LET i == ItemOf(n, l) IN
       /\ step' = [step EXCEPT ![i] = [@ EXCEPT
                     !.st = lane[n][l].saw, !.run = IF At(n, l, "firstWrite") THEN 0 ELSE step[i].run]]
       /\ IF lane[n][l].saw = "completed" THEN Succeed(n, l) ELSE Throw(n, l, "waiting")
    /\ UNCHANGED <<team, arun, row, task, cursor, client, cancel, retry, resume>>

MemberBegin(n, l) ==
    /\ At(n, l, "begin")
    /\ step' = [step EXCEPT ![ItemOf(n, l)].st = "running"]
    /\ Goto(n, l, "execute")
    /\ UNCHANGED <<team, arun, row, task, cursor, client, cancel, retry, resume>>

\* An agent run of the step's conversation that has not ended.
ActiveIn(i, conv) ==
    \E id \in RunIds : arun[i][id] \in {"running", "waiting"} /\ step[i].convOf[id] = conv

\* prepareAgentRun: refused while the conversation has an active run, or when
\* the name of the request is taken.
MemberPrepare(n, l) ==
    /\ At(n, l, "execute")
    /\ LET i == ItemOf(n, l)
           id == lane[n][l].id IN
       IF ActiveIn(i, lane[n][l].conv) \/ arun[i][id] # "none"
         THEN Goto(n, l, "fail") /\ UNCHANGED <<arun, step>>
         ELSE /\ arun' = [arun EXCEPT ![i][id] = "running"]
              /\ step' = [step EXCEPT ![i].convOf[id] = lane[n][l].conv]
              /\ Goto(n, l, "record")
    /\ UNCHANGED <<team, row, task, cursor, client, cancel, retry, resume>>

\* executeAgentRun returns or throws.
MemberOutcome(n, l) ==
    /\ At(n, l, "record") /\ lane[n][l].saw = "none"
    /\ \E outcome \in {"completed"} \cup (IF "approval" \in Events THEN {"waiting"} ELSE {})
                                    \cup (IF "error" \in Events THEN {"failed"} ELSE {}) :
         /\ arun' = [arun EXCEPT ![ItemOf(n, l)][lane[n][l].id] = outcome]
         /\ lane' = [lane EXCEPT ![n][l] = [@ EXCEPT
                       !.saw = outcome,
                       !.at = CASE outcome = "waiting" -> "write"
                                [] outcome = "completed" -> "after"
                                [] outcome = "failed" -> "fail"]]
    /\ UNCHANGED <<team, step, row, task, cursor, client, cancel, retry, resume>>

\* A completed run is dropped if the team was cancelled meanwhile.
MemberAfter(n, l) ==
    /\ At(n, l, "after")
    /\ lane' = [lane EXCEPT ![n][l] = [@ EXCEPT
                  !.at = IF CancellationRequested THEN "fail" ELSE "write",
                  !.saw = IF CancellationRequested THEN "cancelled" ELSE lane[n][l].saw]]
    /\ UNCHANGED <<team, step, arun, row, task, cursor, client, cancel, retry, resume>>

\* Defective variant: only a run that waits is recorded.
MemberWriteWaiting(n, l) ==
    /\ At(n, l, "write")
    /\ step' = IF lane[n][l].saw = "completed" THEN step
               ELSE [step EXCEPT ![ItemOf(n, l)] =
                       [@ EXCEPT !.st = lane[n][l].saw, !.run = lane[n][l].id]]
    /\ IF lane[n][l].saw = "completed" THEN Succeed(n, l) ELSE Throw(n, l, "waiting")
    /\ UNCHANGED <<team, arun, row, task, cursor, client, cancel, retry, resume>>

MemberWrite(n, l) ==
    /\ At(n, l, "write")
    /\ step' = [step EXCEPT ![ItemOf(n, l)] =
                  [@ EXCEPT !.st = lane[n][l].saw, !.run = lane[n][l].id]]
    /\ IF lane[n][l].saw = "completed" THEN Succeed(n, l) ELSE Throw(n, l, "waiting")
    /\ UNCHANGED <<team, arun, row, task, cursor, client, cancel, retry, resume>>

\* The catch of runMember: the step is marked as failed.
MemberFail(n, l) ==
    /\ At(n, l, "fail")
    /\ step' = [step EXCEPT ![ItemOf(n, l)].st = "failed"]
    /\ Throw(n, l, IF lane[n][l].saw = "cancelled" THEN "cancelled" ELSE "error")
    /\ UNCHANGED <<team, arun, row, task, cursor, client, cancel, retry, resume>>

runMember(n, l) ==
    \/ MemberCheck(n, l) \/ MemberStep(n, l) \/ MemberTalk(n, l) \/ MemberRead(n, l)
    \/ MemberReuse(n, l) \/ MemberBegin(n, l) \/ MemberPrepare(n, l) \/ MemberOutcome(n, l)
    \/ MemberAfter(n, l) \/ MemberWrite(n, l) \/ MemberFail(n, l)

----------------------------------------------------------------------------
(* resumeOwningTeamRun: a member's run that waited completes after the      *)
(* decision, and then its team is woken.                                    *)

\* The approval is decided and the resumed run ends (see AgentRuns): only a run
\* that completed looks for its team.
ResumeRun(i, id) ==
    /\ resume.at = "idle" /\ arun[i][id] = "waiting"
    /\ \/ /\ arun' = [arun EXCEPT ![i][id] = "completed"]
          /\ resume' = [at |-> "find", item |-> i, id |-> id]
       \/ /\ "error" \in Events
          /\ arun' = [arun EXCEPT ![i][id] = "failed"]
          /\ UNCHANGED resume
    /\ UNCHANGED <<team, step, row, task, cursor, lane, client, cancel, retry>>

\* A run that no step names has no team to wake.
ResumeFind ==
    /\ resume.at = "find"
    /\ resume' = IF step[resume.item].run = resume.id THEN [resume EXCEPT !.at = "wake"] ELSE NoResume
    /\ UNCHANGED <<team, step, arun, row, task, cursor, lane, client, cancel, retry>>

\* One transaction: the step is completed, a waiting team is queued.
ResumeWake ==
    /\ resume.at = "wake"
    /\ step' = [step EXCEPT ![resume.item].st = "completed"]
    /\ team' = [team EXCEPT !.status = IF @ = "waiting" THEN "queued" ELSE @]
    /\ resume' = [resume EXCEPT !.at = "enqueue"]
    /\ UNCHANGED <<arun, row, task, cursor, lane, client, cancel, retry>>

\* Defective variant: the woken team gets no task.
ResumeForgets ==
    /\ resume.at = "enqueue"
    /\ resume' = NoResume
    /\ UNCHANGED <<team, step, arun, row, task, cursor, lane, client, cancel, retry>>

ResumeEnqueue ==
    /\ resume.at = "enqueue"
    /\ row' = added(row)
    /\ resume' = NoResume
    /\ UNCHANGED <<team, step, arun, task, cursor, lane, client, cancel, retry>>

resumeOwningTeamRun == ResumeFind \/ ResumeWake \/ ResumeEnqueue

----------------------------------------------------------------------------
(* cancelAgentTeamRun and retryAgentTeamRun.                                *)

CancelRead ==
    /\ "cancel" \in Events /\ cancel.at = "idle" /\ client = "done"
    /\ cancel' = IF team.status \in {"completed", "failed", "cancelled"}
                   THEN [NoRequest EXCEPT !.at = "done"]
                   ELSE [NoRequest EXCEPT !.at = "write", !.read = team.status]
    /\ UNCHANGED <<team, step, arun, row, task, cursor, lane, client, retry, resume>>

\* The status it read decides whether the run is cancelled at once.  Too late is
\* a request that comes when the task has asked for the last time.
CancelWrite ==
    /\ cancel.at = "write"
    /\ team' = [team EXCEPT !.cancelReq = TRUE,
                            !.status = IF cancel.read \in {"queued", "waiting"} THEN "cancelled" ELSE @]
    /\ cancel' = [NoRequest EXCEPT !.at = "done",
                                  !.late = task.at = "complete" \/ team.status = "completed"]
    /\ UNCHANGED <<step, arun, row, task, cursor, lane, client, retry, resume>>

cancelAgentTeamRun == CancelRead \/ CancelWrite

RetryRead ==
    /\ "retry" \in Events /\ retry = "idle" /\ team.status = "failed"
    /\ retry' = "enqueue"
    /\ UNCHANGED <<team, step, arun, row, task, cursor, lane, client, cancel, resume>>

\* The task is queued before the run is reset.
RetryEnqueue ==
    /\ retry = "enqueue"
    /\ row' = added(row)
    /\ retry' = "reset"
    /\ UNCHANGED <<team, step, arun, task, cursor, lane, client, cancel, resume>>

RetryReset ==
    /\ retry = "reset"
    /\ team' = [team EXCEPT !.status = "queued", !.cancelReq = FALSE, !.job = TRUE]
    /\ retry' = "done"
    /\ UNCHANGED <<step, arun, row, task, cursor, lane, client, cancel, resume>>

retryAgentTeamRun == RetryRead \/ RetryEnqueue \/ RetryReset

----------------------------------------------------------------------------
\* The worker process dies: with the task go the lanes of every start; the row
\* waits until graphile_worker resets its lock.
Crash ==
    /\ "crash" \in Events /\ task.at # "idle"
    /\ task' = NoTask /\ row' = returned(row, Tries)
    /\ lane' = [n \in Starts |-> [l \in Lanes |-> NoLane]]
    /\ UNCHANGED <<team, step, arun, cursor, client, cancel, retry, resume>>

Init ==
    /\ team = [status |-> "none", cancelReq |-> FALSE, job |-> FALSE, attempts |-> 0]
    /\ step = [i \in Positions |->
                 [st |-> "none", run |-> NoRun, conv |-> 0, convOf |-> [id \in RunIds |-> 0]]]
    /\ arun = [i \in Positions |-> [id \in RunIds |-> "none"]]
    /\ row = Absent /\ task = NoTask
    /\ cursor = [n \in Starts |-> 0]
    /\ lane = [n \in Starts |-> [l \in Lanes |-> NoLane]]
    /\ client = "idle" /\ cancel = NoRequest /\ retry = "idle" /\ resume = NoResume

\* mapWithConcurrency and its calls of runMember.
Lane(n, l) == LaneNext(n, l) \/ runMember(n, l)

Next ==
    \/ createAgentTeamRun \/ executePersistedAgentTeamRun
    \/ \E n \in Starts : \E l \in Lanes : Lane(n, l)
    \/ \E i \in Positions : \E id \in RunIds : ResumeRun(i, id)
    \/ resumeOwningTeamRun \/ cancelAgentTeamRun \/ retryAgentTeamRun
    \/ Crash

Spec == Init /\ [][Next]_vars

\* Requests that were begun are answered, a queued task is taken, Node runs the
\* lanes of the task, and member runs return.  Nobody has to decide an approval.
Progress == executePersistedAgentTeamRun \/ createAgentTeamRun
Fairness ==
    /\ WF_vars(Progress)
    /\ \A n \in Starts : \A l \in Lanes : WF_vars(Lane(n, l))
    /\ WF_vars(resumeOwningTeamRun)
    /\ WF_vars(CancelWrite)
    /\ WF_vars(RetryEnqueue \/ RetryReset)
FairSpec == Spec /\ Fairness

----------------------------------------------------------------------------
(* Properties.                                                              *)

TypeOK ==
    /\ team \in [status : TeamStates, cancelReq : BOOLEAN, job : BOOLEAN, attempts : 0..MaxStarts]
    /\ step \in [Positions -> [st : StepStates, run : RunIds \cup {NoRun}, conv : 0..MaxStarts,
                               convOf : [RunIds -> 0..MaxStarts]]]
    /\ arun \in [Positions -> [RunIds -> ArunStates]]
    /\ row \in [st : RowStates, tries : 0..Tries]
    /\ task \in [at : TaskPlaces, start : 0..MaxStarts, attempts : 0..MaxStarts, error : Errors]
    /\ cursor \in [Starts -> 0..Size]
    /\ lane \in [Starts -> [Lanes -> [at : LanePlaces, item : 0..(Size + 1),
                  saw : {"none", "waiting", "completed", "failed", "cancelled"},
                  id : RunIds \cup {NoRun}, conv : 0..MaxStarts, error : Errors]]]
    /\ client \in {"idle", "enqueue", "record", "failed", "done"}
    /\ cancel \in [at : {"idle", "write", "done"}, read : TeamStates, late : BOOLEAN]
    /\ retry \in {"idle", "enqueue", "reset", "done"}
    /\ resume \in [at : {"idle", "find", "wake", "enqueue"}, item : 0..(Size + 1), id : RunIds \cup {NoRun}]

\* A step that is shown as completed has its output from an agent run of its
\* own that completed, whichever start, lane or resumption wrote it (runMember
\* and resumeOwningTeamRun).
StepRestsOnItsRun == \A i \in Positions :
    step[i].st = "completed" => step[i].run # NoRun /\ arun[i][step[i].run] = "completed"
\* A team run that completed was built on the whole team: the supervisor reads
\* every member's output.
TeamRestsOnMembers ==
    team.status = "completed" => \A i \in Positions : \E id \in RunIds : arun[i][id] = "completed"
CompletedTeamIsWhole == StepRestsOnItsRun /\ TeamRestsOnMembers

\* A member's work is never done twice: retries of the task, the person's retry
\* and resumptions reuse the run that completed (stable request identifiers).
WorkedOnce ==
    \A i \in Positions : Cardinality({id \in RunIds : arun[i][id] = "completed"}) <= 1

\* A cancellation that was accepted before the task asked for the last time
\* wins over every later start, member and supervisor.
AcceptedCancelWins == team.status = "completed" /\ team.cancelReq => cancel.late

\* A run that was accepted does not stay queued or running: it ends, or waits
\* for a person (while the worker lives and no person retries it).
Moving == team.status \in {"queued", "running"}
Settled == team.status \in {"waiting", "completed", "failed", "cancelled"}
TeamSettles == Moving ~> Settled

\* A failed run that a person retries is run again, or ends otherwise: it does
\* not stay queued (retryAgentTeamRun answers with the queued run).
RetriedIsRun == retry = "done" ~> team.status # "queued"

=============================================================================
