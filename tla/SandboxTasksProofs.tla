------------------------- MODULE SandboxTasksProofs -------------------------
(* Theorems about SandboxTasks, for any number of commands, guarded or not,  *)
(* limits, attempts and every set of events.                                 *)
EXTENDS SandboxTasks, TLAPS

Places == {"idle", "provision", "provisioned", "unprovisioned", "reset", "resetted",
           "decision", "apply", "consume", "claim", "start", "name", "poll", "finish"}
\* The places of the tasks that are about a command.
OnCommand == {"decision", "apply", "consume", "claim", "start", "name", "poll", "finish"}
ExecType == [status : {"none"} \cup Active \cup Ended, cancel : BOOLEAN, named : BOOLEAN]
Rulings == {"approved", "rejected"}
RowType == [st : Job!RowStates, tries : Nat]
WorkerType == [at : Places, job : Jobs, saw : {"none"} \cup Rulings \cup Ended]

Typed ==
    /\ exec \in [Execs -> ExecType]
    /\ appr \in [Execs -> {"none", "pending", "expired", "consumed"} \cup Rulings]
    /\ ruled \in [Execs -> {"none"} \cup Rulings]
    /\ asker \in [Execs -> {"idle", "insert", "publish", "done"}]
    /\ decider \in [Execs -> BOOLEAN]
    /\ starts \in [Execs -> Nat]
    /\ early \subseteq Execs
Rows == rows \in [Jobs -> RowType]
Workers == worker \in WorkerType

\* A command that was published has its row; approvals, decisions and tasks come
\* only when its request is over.
Recorded == \A e \in Execs : asker[e] \in {"publish", "done"} => exec[e].status # "none"
Unasked == \A e \in Execs : asker[e] # "done" =>
    /\ appr[e] = "none" /\ ~decider[e]
    /\ rows[<<"execute", e>>].st = "absent" /\ rows[<<"resume", e>>].st = "absent"

\* The worker is about a command that was published; what it read of a decision
\* is still so until it consumes it.
Working ==
    /\ worker.at \in OnCommand =>
          \E e \in Execs : /\ worker.job \in {<<"execute", e>>, <<"resume", e>>}
                           /\ worker.job[2] = e
                           /\ asker[e] = "done"
    /\ worker.at \notin OnCommand \cup {"idle"} => worker.job[1] \in {"create", "reset"}
    /\ worker.at \in {"apply", "consume"} => worker.saw \in Rulings /\ appr[worker.job[2]] = worker.saw
    /\ worker.at = "finish" => worker.saw \in Ended

\* What a person decided.
Ruled == \A e \in Execs :
    /\ appr[e] \in Rulings => ruled[e] = appr[e]
    /\ appr[e] = "consumed" => ruled[e] \in Rulings

\* The worker is about to start the command.
Starting(e) == worker.at = "start" /\ worker.job[2] = e

\* A guarded command that is queued or running, or is being started, was granted.
Grant(e) == ruled[e] = "approved" /\ appr[e] \in {"approved", "consumed"}
Ready(e) == exec[e].status \in {"queued", "running"} \/ Starting(e)
Granted == \A e \in Guarded : Ready(e) => Grant(e)

\* A command that was cancelled early keeps its mark.
Early == \A e \in early :
    exec[e].cancel /\ starts[e] = 0 /\ ~Starting(e)

IInv == Typed /\ Rows /\ Workers /\ Recorded /\ Unasked /\ Working /\ Ruled /\ Granted /\ Early

-----------------------------------------------------------------------------
(* Types.                                                                  *)

\* The tasks of the queue.
LEMMA JobsOf ==
    /\ <<"create", Workspace>> \in Jobs /\ <<"reset", Workspace>> \in Jobs
    /\ \A e \in Execs : <<"execute", e>> \in Jobs /\ <<"resume", e>> \in Jobs
BY DEF Jobs

\* Everything holds at first.
LEMMA InitIInv == Init => IInv
<1> SUFFICES ASSUME Init PROVE IInv
  OBVIOUS
<1>1. Typed
  BY DEF Init, Typed, ExecType, Rulings
<1>2. Rows
  BY DEF Init, Rows, RowType, Job!Absent, Job!RowStates
<1>3. Workers
  BY JobsOf DEF Init, Workers, WorkerType, Idle, Places
<1>4. Recorded /\ Unasked
  BY JobsOf DEF Init, Recorded, Unasked, Job!Absent
<1>5. Working
  BY DEF Init, Working, Idle, OnCommand
<1>6. Ruled
  BY DEF Init, Ruled, Rulings
<1>7. Granted
  BY GuardedAssumption DEF Init, Granted, Ready, Idle, Starting
<1>8. Early
  BY DEF Init, Early, Starting
<1> QED
  BY <1>1, <1>2, <1>3, <1>4, <1>5, <1>6, <1>7, <1>8 DEF IInv

\* A row of the queue is added, taken, returned or removed.
LEMMA RowKept ==
    ASSUME Rows, NEW j, NEW r \in RowType, rows' = [rows EXCEPT ![j] = r]
    PROVE  Rows'
BY DEF Rows

\* What graphile makes of a row is a row.
LEMMA RowMade ==
    ASSUME NEW r \in RowType
    PROVE  Job!added(r) \in RowType /\ Job!taken(r) \in RowType /\ Job!returned(r, Tries) \in RowType
           /\ Job!Absent \in RowType
BY DEF RowType, Job!added, Job!taken, Job!returned, Job!Absent, Job!RowStates

\* Every step keeps the type of the queue.
LEMMA StepRows == Rows /\ Workers /\ [Next]_vars => Rows'
<1> SUFFICES ASSUME Rows, Workers, [Next]_vars PROVE Rows'
  OBVIOUS
<1>0. worker.job \in Jobs /\ \A j \in Jobs : rows[j] \in RowType
  BY DEF Rows, Workers, WorkerType
<1>1. CASE KeeperEnqueue
  <2>1. <<keeper, Workspace>> \in Jobs
    BY <1>1 DEF KeeperEnqueue, Jobs
  <2> QED
    BY <1>0, <1>1, <2>1, RowMade, RowKept DEF KeeperEnqueue
<1>2. ASSUME NEW e \in Execs, AskPublish(e) \/ QueueResume(e) PROVE Rows'
  BY <1>0, <1>2, JobsOf, RowMade, RowKept DEF AskPublish, QueueResume, Rows
<1>3. ASSUME NEW j \in Jobs, Take(j) \/ ResetLock(j) PROVE Rows'
  BY <1>0, <1>3, RowMade, RowKept DEF Take, ResetLock
<1>4. CASE Ends
  BY <1>0, <1>4, RowMade, RowKept DEF Ends
<1>5. CASE Throw
  BY <1>0, <1>5, RowMade, RowKept DEF Throw
<1>6. CASE UNCHANGED rows
  BY <1>6 DEF Rows
<1> QED
  BY <1>1, <1>2, <1>3, <1>4, <1>5, <1>6
  DEF Next, vars, requests, history, runner,
      keepSandboxWorkspace, CreateWorkspace, ResetCount, ResetMark, KeeperLost, TerminateCount,
      TerminateWrite, createSandboxExecution, AskCheck, AskInsert, AskLost, cancelSandboxExecution,
      CancelRead, CancelWrite, CancelStop, Decide, QueueResumeLost, Expire, ProcessCloses,
      RunnerRestarts, Crash, Task, provisionSandboxWorkspace, ProvisionDone, ProvisionCreate,
      ProvisionRecord, ProvisionFails, resetSandboxWorkspaceRuntime, ResetRefused, ResetRunner,
      ResetRecord, resumeSandboxExecution, ResumeUndecided, ResumeRead, ResumeApply, ResumeConsume,
      executeSandboxExecution, ClaimNothing, ClaimCancelled, ClaimUnready, Claim, Start, StartFails,
      RecordName, PollStop, PollEnded, Finish, PollFails, Deadline

\* A command's task is about a command.
LEMMA CommandOf ==
    ASSUME Working, worker.at \in OnCommand
    PROVE  E \in Execs /\ asker[E] = "done" /\ worker.job \in {<<"execute", E>>, <<"resume", E>>}
BY DEF Working, E

\* Every step keeps the type of the worker.
LEMMA StepWorkers == Workers /\ Working /\ [Next]_vars => Workers'
<1> SUFFICES ASSUME Workers, Working, [Next]_vars PROVE Workers'
  OBVIOUS
<1>0. Idle \in WorkerType
  BY JobsOf DEF Idle, WorkerType, Places
<1>1. ASSUME NEW j \in Jobs, Take(j) PROVE Workers'
  <2>1. TaskStart[j[1]] \in Places
    BY DEF Jobs, TaskStart, Places
  <2> QED
    BY <1>1, <2>1 DEF Take, Workers, WorkerType
<1>2. CASE worker' = Idle
  BY <1>0, <1>2 DEF Workers
<1>3. ASSUME NEW at \in Places, Goto(at) PROVE Workers'
  BY <1>3 DEF Goto, Workers, WorkerType
<1>4. CASE ResumeRead
  BY <1>4 DEF ResumeRead, Workers, WorkerType, Places, Rulings
<1>5. CASE PollEnded
  BY <1>5 DEF PollEnded, Workers, WorkerType, Places
<1>6. CASE Deadline
  BY <1>6 DEF Deadline, Workers, WorkerType, Places, Ended
<1>7. CASE UNCHANGED worker
  BY <1>7 DEF Workers
<1> QED
  BY <1>1, <1>2, <1>3, <1>4, <1>5, <1>6, <1>7
  DEF Places, Next, vars, requests, history, runner, Ends, Throw,
      keepSandboxWorkspace, CreateWorkspace, ResetCount, ResetMark, KeeperEnqueue, KeeperLost, TerminateCount,
      TerminateWrite, createSandboxExecution, AskCheck, AskInsert, AskPublish, AskLost, cancelSandboxExecution,
      CancelRead, CancelWrite, CancelStop, Decide, QueueResume, QueueResumeLost, Expire, ProcessCloses,
      RunnerRestarts, Crash, ResetLock, Task, provisionSandboxWorkspace, ProvisionDone, ProvisionCreate,
      ProvisionRecord, ProvisionFails, resetSandboxWorkspaceRuntime, ResetRefused, ResetRunner,
      ResetRecord, resumeSandboxExecution, ResumeUndecided, ResumeApply, ResumeConsume,
      executeSandboxExecution, ClaimNothing, ClaimCancelled, ClaimUnready, Claim, Start, StartFails,
      RecordName, PollStop, Finish, PollFails

\* Every step keeps the other types.
LEMMA StepTyped == Typed /\ Workers /\ Working /\ [Next]_vars => Typed'
<1> SUFFICES ASSUME Typed, Workers, Working, [Next]_vars PROVE Typed'
  OBVIOUS
<1>1. ASSUME NEW e \in Execs, createSandboxExecution(e) PROVE Typed'
  <2>1. CASE AskInsert(e)
    <3> DEFINE x == [exec[e] EXCEPT !.status = IF e \in Guarded THEN "awaiting_approval" ELSE "queued"]
    <3>1. x \in ExecType
      BY DEF Typed, ExecType, Active
    <3>2. exec' = [exec EXCEPT ![e] = x]
      BY <2>1 DEF AskInsert
    <3> HIDE DEF x
    <3> QED
      BY <2>1, <3>1, <3>2 DEF AskInsert, Typed, runner, history
  <2> QED
    BY <1>1, <2>1 DEF createSandboxExecution, AskCheck, AskPublish, AskLost, Typed, runner, history
<1>2. ASSUME NEW e \in Execs, CancelWrite(e) PROVE Typed'
  <2> DEFINE x == [exec[e] EXCEPT !.cancel = TRUE,
                                  !.status = IF canceller[e].saw # "running" THEN "cancelled" ELSE @]
  <2>1. x \in ExecType
    BY DEF Typed, ExecType, Ended
  <2>2. exec' = [exec EXCEPT ![e] = x]
    BY <1>2 DEF CancelWrite
  <2> HIDE DEF x
  <2> QED
    BY <1>2, <2>1, <2>2 DEF CancelWrite, Typed, runner
<1>3. ASSUME NEW e \in Execs, Decide(e) PROVE Typed'
  BY <1>3 DEF Decide, Typed, Rulings, runner
<1>4. ASSUME NEW e \in Execs, QueueResume(e) \/ QueueResumeLost(e) \/ Expire(e) PROVE Typed'
  BY <1>4 DEF QueueResume, QueueResumeLost, Expire, requests, history, runner, Typed
<1>5. CASE ResumeApply
  BY <1>5, CommandOf DEF ResumeApply, afterDecision, requests, runner, history, Typed, ExecType, Active, Ended, At, OnCommand
<1>6. CASE ResumeConsume
  BY <1>6, CommandOf DEF ResumeConsume, requests, runner, history, Typed, At, OnCommand
<1>7. CASE ClaimCancelled \/ Claim
  BY <1>7, CommandOf DEF ClaimCancelled, Claim, Claimable, requests, runner, history, Typed, ExecType, Active, Ended,
                         At, OnCommand
<1>8. CASE Start \/ StartFails
  BY <1>8, CommandOf DEF Start, StartFails, StartRunner, requests, history, Typed, At, OnCommand
<1>9. CASE RecordName
  BY <1>9, CommandOf DEF RecordName, requests, runner, history, Typed, ExecType, At, OnCommand
<1>10. CASE Finish
  BY <1>10, CommandOf DEF Finish, requests, runner, history, Typed, ExecType, At, OnCommand, Working
<1>11. CASE UNCHANGED <<exec, appr, ruled, asker, decider, starts, early>>
  BY <1>11 DEF Typed
<1> QED
  BY <1>1, <1>2, <1>3, <1>4, <1>5, <1>6, <1>7, <1>8, <1>9, <1>10, <1>11
  DEF Next, vars, requests, history, runner,
      keepSandboxWorkspace, CreateWorkspace, ResetCount, ResetMark, KeeperEnqueue, KeeperLost, TerminateCount,
      TerminateWrite, cancelSandboxExecution, CancelRead, CancelStop, ProcessCloses,
      RunnerRestarts, Crash, ResetLock, Take, Task, provisionSandboxWorkspace, ProvisionDone, ProvisionCreate,
      ProvisionRecord, ProvisionFails, resetSandboxWorkspaceRuntime, ResetRefused, ResetRunner,
      ResetRecord, resumeSandboxExecution, ResumeUndecided, ResumeRead,
      executeSandboxExecution, ClaimNothing, ClaimUnready, PollStop, PollEnded, PollFails, Deadline

-----------------------------------------------------------------------------
(* What is known of a command and of the worker.                           *)

\* A command that was published keeps a row.
LEMMA StepRecorded == IInv /\ [Next]_vars => Recorded'
<1> SUFFICES ASSUME IInv, [Next]_vars PROVE Recorded'
  OBVIOUS
<1>0. Typed /\ Recorded /\ Working
  BY DEF IInv
<1>1. ASSUME NEW e \in Execs, createSandboxExecution(e) PROVE Recorded'
  BY <1>0, <1>1 DEF createSandboxExecution, AskCheck, AskInsert, AskPublish, AskLost, Recorded, Typed, ExecType
<1>2. ASSUME NEW e \in Execs, CancelWrite(e) PROVE Recorded'
  BY <1>0, <1>2 DEF CancelWrite, Recorded, Typed, ExecType
<1>3. ASSUME NEW e \in Execs, NEW x \in ExecType, x.status # "none",
             exec' = [exec EXCEPT ![e] = x], UNCHANGED asker
      PROVE  Recorded'
  BY <1>0, <1>3 DEF Recorded, Typed
<1>4. CASE ResumeApply \/ ClaimCancelled \/ Claim \/ RecordName \/ Finish
  <2>1. worker.at \in OnCommand /\ UNCHANGED asker
    BY <1>4 DEF ResumeApply, ClaimCancelled, Claim, Claimable, RecordName, Finish, At, OnCommand, requests
  <2>2. E \in Execs /\ exec[E] \in ExecType /\ exec[E].status # "none"
    BY <1>0, <2>1, CommandOf DEF Typed, Recorded
  <2>3. CASE ResumeApply
    <3> DEFINE x == [exec[E] EXCEPT !.status = IF @ = "awaiting_approval" THEN afterDecision(worker.saw) ELSE @]
    <3>1. x \in ExecType /\ x.status # "none"
      BY <2>2 DEF ExecType, afterDecision, Active, Ended
    <3>2. exec' = [exec EXCEPT ![E] = x]
      BY <2>3 DEF ResumeApply
    <3> HIDE DEF x
    <3> QED
      BY <1>3, <2>1, <2>2, <3>1, <3>2
  <2>4. ASSUME NEW st \in Active \cup Ended, exec' = [exec EXCEPT ![E].status = st] PROVE Recorded'
    <3> DEFINE x == [exec[E] EXCEPT !.status = st]
    <3>1. x \in ExecType /\ x.status # "none"
      BY <2>2 DEF ExecType, Active, Ended
    <3>2. exec' = [exec EXCEPT ![E] = x]
      BY <2>4
    <3> HIDE DEF x
    <3> QED
      BY <1>3, <2>1, <2>2, <3>1, <3>2
  <2>5. CASE RecordName
    <3> DEFINE x == [exec[E] EXCEPT !.named = TRUE]
    <3>1. x \in ExecType /\ x.status # "none"
      BY <2>2 DEF ExecType
    <3>2. exec' = [exec EXCEPT ![E] = x]
      BY <2>5 DEF RecordName
    <3> HIDE DEF x
    <3> QED
      BY <1>3, <2>1, <2>2, <3>1, <3>2
  <2>6. "cancelled" \in Active \cup Ended /\ "running" \in Active \cup Ended
    BY DEF Active, Ended
  <2>7. CASE Finish
    BY <1>0, <2>4, <2>7 DEF Finish, Working, At
  <2> QED
    BY <1>4, <2>3, <2>4, <2>5, <2>6, <2>7 DEF ClaimCancelled, Claim
<1>5. CASE UNCHANGED <<exec, asker>>
  BY <1>0, <1>5 DEF Recorded
<1> QED
  BY <1>1, <1>2, <1>4, <1>5
  DEF Next, vars, requests, history, runner,
      keepSandboxWorkspace, CreateWorkspace, ResetCount, ResetMark, KeeperEnqueue, KeeperLost, TerminateCount,
      TerminateWrite, cancelSandboxExecution, CancelRead, CancelStop, ProcessCloses, Decide, QueueResume,
      QueueResumeLost, Expire, RunnerRestarts, Crash, ResetLock, Take, Task, provisionSandboxWorkspace,
      ProvisionDone, ProvisionCreate, ProvisionRecord, ProvisionFails, resetSandboxWorkspaceRuntime,
      ResetRefused, ResetRunner, ResetRecord, resumeSandboxExecution, ResumeUndecided, ResumeRead,
      ResumeConsume, executeSandboxExecution, ClaimNothing, ClaimUnready, Start, StartFails, PollStop,
      PollEnded, PollFails, Deadline

\* The tasks of a command that is not published stay absent if only a task of
\* something else is queued, taken, returned or ended.
LEMMA AbsentKept ==
    ASSUME Rows, Unasked, NEW j, NEW r, rows' = [rows EXCEPT ![j] = r],
           UNCHANGED <<appr, asker, decider>>,
           r.st = "absent" \/ \A e \in Execs : asker[e] # "done" => j \notin {<<"execute", e>>, <<"resume", e>>}
    PROVE  Unasked'
BY JobsOf DEF Rows, Unasked

\* Approvals, decisions and tasks of a command come when its request is over.
LEMMA StepUnasked == IInv /\ [Next]_vars => Unasked'
<1> SUFFICES ASSUME IInv, [Next]_vars PROVE Unasked'
  OBVIOUS
<1>0. Typed /\ Rows /\ Workers /\ Unasked /\ Working
  BY DEF IInv
<1>1. CASE KeeperEnqueue
  <2>1. \A e \in Execs : <<keeper, Workspace>> \notin {<<"execute", e>>, <<"resume", e>>}
    BY <1>1 DEF KeeperEnqueue
  <2> QED
    BY <1>0, <1>1, <2>1, AbsentKept DEF KeeperEnqueue
<1>2. ASSUME NEW e \in Execs, createSandboxExecution(e) PROVE Unasked'
  BY <1>0, <1>2, JobsOf DEF createSandboxExecution, AskCheck, AskInsert, AskPublish, AskLost, Unasked, Typed, Rows
<1>3. ASSUME NEW e \in Execs, CancelWrite(e) \/ Decide(e) \/ Expire(e) PROVE Unasked'
  BY <1>0, <1>3 DEF CancelWrite, Decide, Expire, requests, Unasked, Typed
<1>4. ASSUME NEW e \in Execs, QueueResume(e) \/ QueueResumeLost(e) PROVE Unasked'
  BY <1>0, <1>4, JobsOf DEF QueueResume, QueueResumeLost, Unasked, Typed, Rows
<1>5. ASSUME NEW j \in Jobs, Take(j) \/ ResetLock(j) PROVE Unasked'
  <2>1. UNCHANGED <<appr, asker, decider>>
    BY <1>5 DEF Take, ResetLock, requests
  <2>2. \A e \in Execs : asker[e] # "done" => j \notin {<<"execute", e>>, <<"resume", e>>}
    BY <1>0, <1>5 DEF Take, ResetLock, Unasked
  <2> QED
    BY <1>0, <1>5, <2>1, <2>2, AbsentKept DEF Take, ResetLock
<1>6. ASSUME Ends, UNCHANGED <<appr, asker, decider>> PROVE Unasked'
  BY <1>0, <1>6, AbsentKept DEF Ends, Job!Absent
<1>7. ASSUME Throw, ~At("idle"), UNCHANGED <<appr, asker, decider>> PROVE Unasked'
  <2>1. \A e \in Execs : asker[e] # "done" => worker.job \notin {<<"execute", e>>, <<"resume", e>>}
    BY <1>0, <1>7 DEF Working, At
  <2> QED
    BY <1>0, <1>7, <2>1, AbsentKept DEF Throw
<1>8. CASE ResumeConsume
  <2>1. E \in Execs /\ asker[E] = "done" /\ UNCHANGED <<asker, decider>>
    BY <1>0, <1>8, CommandOf DEF ResumeConsume, At, OnCommand, requests
  <2>2. rows' = rows \/ rows' = [rows EXCEPT ![worker.job] = Job!Absent]
    BY <1>8 DEF ResumeConsume, Ends
  <2>3. appr' = [appr EXCEPT ![E] = "consumed"]
    BY <1>8 DEF ResumeConsume
  <2> QED
    BY <1>0, <2>1, <2>2, <2>3, JobsOf DEF Unasked, Typed, Rows, Job!Absent
<1>9. CASE UNCHANGED <<appr, asker, decider, rows>>
  BY <1>0, <1>9 DEF Unasked
<1> QED
  BY <1>1, <1>2, <1>3, <1>4, <1>5, <1>6, <1>7, <1>8, <1>9
  DEF At, Claimable, Next, vars, requests, history, runner,
      keepSandboxWorkspace, CreateWorkspace, ResetCount, ResetMark, KeeperLost, TerminateCount,
      TerminateWrite, cancelSandboxExecution, CancelRead, CancelStop, ProcessCloses,
      RunnerRestarts, Crash, Task, provisionSandboxWorkspace,
      ProvisionDone, ProvisionCreate, ProvisionRecord, ProvisionFails, resetSandboxWorkspaceRuntime,
      ResetRefused, ResetRunner, ResetRecord, resumeSandboxExecution, ResumeUndecided, ResumeRead, ResumeApply,
      executeSandboxExecution, ClaimNothing, ClaimCancelled, ClaimUnready, Claim, Start, StartFails,
      RecordName, PollStop, PollEnded, Finish, PollFails, Deadline

\* What the worker knows stays so while it stands still, if no request is taken
\* back and no decision is changed.
LEMMA WorkingKept ==
    ASSUME Working, UNCHANGED worker,
           \A e \in Execs : asker[e] = "done" => asker'[e] = "done",
           \A e \in Execs : appr[e] \in Rulings => appr'[e] = appr[e]
    PROVE  Working'
<1>1. worker.at \in {"apply", "consume"} => worker.job[2] \in Execs
  BY DEF Working, OnCommand
<1> QED
  BY <1>1 DEF Working

\* The worker goes on with its command.
GoesOn ==
    /\ worker'.job = worker.job
    /\ \/ worker'.at \in {"claim", "start", "name", "poll"}
       \/ worker'.at = "finish" /\ worker'.saw \in Ended
       \/ worker'.at \in {"apply", "consume"} /\ worker'.saw \in Rulings /\ appr'[E] = worker'.saw

\* A worker that goes on with its command keeps what it has established.
LEMMA WorkingOn ==
    ASSUME Working, worker.at \in OnCommand, UNCHANGED asker, GoesOn
    PROVE  Working'
BY DEF Working, E, OnCommand, GoesOn

\* Every step keeps what is known of the worker.
LEMMA StepWorking == IInv /\ [Next]_vars => Working'
<1> SUFFICES ASSUME IInv, [Next]_vars PROVE Working'
  OBVIOUS
<1>0. Typed /\ Rows /\ Workers /\ Unasked /\ Working
  BY DEF IInv
<1>1. ASSUME NEW e \in Execs, createSandboxExecution(e) PROVE Working'
  BY <1>0, <1>1, WorkingKept
  DEF createSandboxExecution, AskCheck, AskInsert, AskPublish, AskLost, Typed, Unasked, Rulings
<1>2. ASSUME NEW e \in Execs, CancelWrite(e) \/ Decide(e) \/ Expire(e) PROVE Working'
  BY <1>0, <1>2, WorkingKept DEF CancelWrite, Decide, Expire, requests, Typed, Rulings
<1>3. ASSUME NEW j \in Jobs, Take(j) PROVE Working'
  <2>1. CASE j[1] \in {"create", "reset"}
    BY <1>3, <2>1 DEF Take, Jobs, TaskStart, Working, OnCommand
  <2>2. CASE j[1] \in {"execute", "resume"}
    <3>1. PICK e \in Execs : j = <<"execute", e>> \/ j = <<"resume", e>>
      BY <2>2 DEF Jobs
    <3>2. asker[e] = "done" /\ UNCHANGED asker
      BY <1>0, <1>3, <3>1 DEF Take, Unasked, requests
    <3>3. worker'.at \in {"claim", "decision"} /\ worker'.job = j
      BY <1>3, <3>1 DEF Take, TaskStart
    <3> QED
      BY <3>1, <3>2, <3>3 DEF Working, OnCommand
  <2> QED
    BY <2>1, <2>2 DEF Jobs
<1>4. CASE worker' = Idle
  BY <1>4 DEF Idle, Working, OnCommand
<1>5. ASSUME NEW at \in {"provisioned", "unprovisioned", "resetted"}, Goto(at),
             worker.at \in {"provision", "reset"}
      PROVE  Working'
  <2>1. worker.job[1] \in {"create", "reset"} /\ worker'.job = worker.job /\ worker'.at = at
    BY <1>0, <1>5 DEF Working, Goto, OnCommand, Workers, WorkerType
  <2> QED
    BY <2>1 DEF Working, OnCommand
<1>6. CASE ResumeRead
  <2>1. worker.at \in OnCommand /\ UNCHANGED asker
    BY <1>6 DEF ResumeRead, At, OnCommand, requests
  <2>2. GoesOn
    BY <1>0, <1>6 DEF ResumeRead, Workers, WorkerType, Rulings, GoesOn
  <2> QED
    BY <1>0, <2>1, <2>2, WorkingOn
<1>7. CASE ResumeApply
  <2>1. worker.at \in OnCommand /\ UNCHANGED asker
    BY <1>7 DEF ResumeApply, At, OnCommand, requests
  <2>2. worker.saw \in Rulings /\ appr'[E] = worker.saw
    BY <1>0, <1>7 DEF ResumeApply, At, Working, E
  <2>3. worker'.at = "consume" /\ worker'.saw = worker.saw /\ worker'.job = worker.job
    BY <1>0, <1>7 DEF ResumeApply, Goto, Workers, WorkerType
  <2>4. GoesOn
    BY <2>2, <2>3 DEF GoesOn
  <2> QED
    BY <1>0, <2>1, <2>4, WorkingOn
<1>8. CASE PollEnded \/ Deadline
  <2>1. worker'.at = "finish" /\ worker'.saw \in Ended /\ worker'.job = worker.job
    BY <1>0, <1>8 DEF PollEnded, Deadline, Ended, Workers, WorkerType
  <2>2. worker.at \in OnCommand /\ UNCHANGED asker
    BY <1>8 DEF PollEnded, Deadline, At, OnCommand, requests
  <2>3. GoesOn
    BY <2>1 DEF GoesOn
  <2> QED
    BY <1>0, <2>2, <2>3, WorkingOn
<1>9. CASE ResumeConsume \/ Claim \/ Start \/ RecordName
  <2>1. worker.at \in OnCommand /\ UNCHANGED asker
    BY <1>9 DEF ResumeConsume, Claim, Claimable, Start, RecordName, requests, At, OnCommand
  <2>2. worker' = Idle \/ \E at \in {"claim", "start", "name", "poll"} : Goto(at)
    BY <1>9 DEF ResumeConsume, Claim, Start, RecordName, Ends
  <2>3. worker' = Idle \/ GoesOn
    BY <1>0, <2>2 DEF Goto, Workers, WorkerType, GoesOn
  <2> QED
    BY <1>0, <1>4, <2>1, <2>3, WorkingOn
<1>10. CASE ProvisionCreate \/ ResetRunner
  BY <1>5, <1>10 DEF ProvisionCreate, ResetRunner, At
<1>11. CASE UNCHANGED <<worker, asker, appr>>
  BY <1>0, <1>11, WorkingKept
<1> QED
  BY <1>1, <1>2, <1>3, <1>4, <1>6, <1>7, <1>8, <1>9, <1>10, <1>11
  DEF Ends, Throw, Next, vars, requests, history, runner,
      keepSandboxWorkspace, CreateWorkspace, ResetCount, ResetMark, KeeperEnqueue, KeeperLost, TerminateCount,
      TerminateWrite, cancelSandboxExecution, CancelRead, CancelStop, ProcessCloses, QueueResume,
      QueueResumeLost, RunnerRestarts, Crash, ResetLock, Task, provisionSandboxWorkspace,
      ProvisionDone, ProvisionRecord, ProvisionFails, resetSandboxWorkspaceRuntime, ResetRefused,
      ResetRecord, resumeSandboxExecution, ResumeUndecided,
      executeSandboxExecution, ClaimNothing, ClaimCancelled, ClaimUnready, StartFails,
      PollStop, Finish, PollFails

\* A decision is written with what the person decided, and only it is consumed.
LEMMA StepRuled == IInv /\ [Next]_vars => Ruled'
<1> SUFFICES ASSUME IInv, [Next]_vars PROVE Ruled'
  OBVIOUS
<1>0. Typed /\ Working /\ Ruled
  BY DEF IInv
<1>1. ASSUME NEW e \in Execs, AskPublish(e) PROVE Ruled'
  BY <1>0, <1>1 DEF AskPublish, Ruled, Typed, Rulings, history
<1>2. ASSUME NEW e \in Execs, CancelWrite(e) \/ Expire(e) PROVE Ruled'
  BY <1>0, <1>2 DEF CancelWrite, Expire, Ruled, Typed, Rulings, history
<1>3. ASSUME NEW e \in Execs, Decide(e) PROVE Ruled'
  BY <1>0, <1>3 DEF Decide, Ruled, Typed, Rulings
<1>4. CASE ResumeConsume
  <2>1. appr[E] \in Rulings /\ appr' = [appr EXCEPT ![E] = "consumed"] /\ UNCHANGED ruled
    BY <1>4 DEF ResumeConsume, Rulings, history
  <2>2. ASSUME NEW e \in Execs, e = E PROVE ruled'[e] \in Rulings /\ appr'[e] \notin Rulings
    BY <1>0, <2>1, <2>2 DEF Ruled, Typed, Rulings
  <2>3. ASSUME NEW e \in Execs, e # E PROVE appr'[e] = appr[e] /\ ruled'[e] = ruled[e]
    BY <1>0, <2>1, <2>3 DEF Typed
  <2> QED
    BY <1>0, <2>2, <2>3 DEF Ruled
<1>5. CASE UNCHANGED <<appr, ruled>>
  BY <1>0, <1>5 DEF Ruled
<1> QED
  BY <1>1, <1>2, <1>3, <1>4, <1>5
  DEF Next, vars, requests, history, runner,
      keepSandboxWorkspace, CreateWorkspace, ResetCount, ResetMark, KeeperEnqueue, KeeperLost, TerminateCount,
      TerminateWrite, createSandboxExecution, AskCheck, AskInsert, AskLost, cancelSandboxExecution,
      CancelRead, CancelStop, QueueResume, QueueResumeLost, ProcessCloses,
      RunnerRestarts, Crash, ResetLock, Take, Task, provisionSandboxWorkspace, ProvisionDone, ProvisionCreate,
      ProvisionRecord, ProvisionFails, resetSandboxWorkspaceRuntime, ResetRefused, ResetRunner,
      ResetRecord, resumeSandboxExecution, ResumeUndecided, ResumeRead, ResumeApply,
      executeSandboxExecution, ClaimNothing, ClaimCancelled, ClaimUnready, Claim, Start, StartFails,
      RecordName, PollStop, PollEnded, Finish, PollFails, Deadline

\* The worker sets out to start nothing new.
Elsewhere == UNCHANGED worker \/ worker' = Idle \/ \E at \in Places \ {"start"} : Goto(at)
\* A step that does not come to the start leads nobody to the start.
LEMMA StartingKept ==
    ASSUME Workers, Elsewhere, NEW e
    PROVE  Starting(e)' => Starting(e)
BY DEF Elsewhere, Idle, Goto, Workers, WorkerType, Starting

\* A grant stands through every step.
LEMMA GrantKept ==
    ASSUME IInv, [Next]_vars, NEW e \in Execs, Grant(e)
    PROVE  Grant(e)'
<1>0. Typed /\ Working /\ Unasked
  BY DEF IInv
<1>1. ASSUME NEW d \in Execs, AskPublish(d) PROVE Grant(e)'
  BY <1>0, <1>1 DEF AskPublish, Grant, Unasked, Typed, history
<1>2. ASSUME NEW d \in Execs, CancelWrite(d) \/ Expire(d) \/ Decide(d) PROVE Grant(e)'
  BY <1>0, <1>2 DEF CancelWrite, Expire, Decide, Grant, Typed, Rulings, history
<1>3. CASE ResumeConsume
  BY <1>0, <1>3 DEF ResumeConsume, Grant, Typed, history
<1>4. CASE UNCHANGED <<appr, ruled>>
  BY <1>4 DEF Grant
<1> QED
  BY <1>1, <1>2, <1>3, <1>4
  DEF Next, vars, requests, history, runner,
      keepSandboxWorkspace, CreateWorkspace, ResetCount, ResetMark, KeeperEnqueue, KeeperLost, TerminateCount,
      TerminateWrite, createSandboxExecution, AskCheck, AskInsert, AskLost, cancelSandboxExecution,
      CancelRead, CancelStop, QueueResume, QueueResumeLost, ProcessCloses,
      RunnerRestarts, Crash, ResetLock, Take, Task, provisionSandboxWorkspace, ProvisionDone, ProvisionCreate,
      ProvisionRecord, ProvisionFails, resetSandboxWorkspaceRuntime, ResetRefused, ResetRunner,
      ResetRecord, resumeSandboxExecution, ResumeUndecided, ResumeRead, ResumeApply,
      executeSandboxExecution, ClaimNothing, ClaimCancelled, ClaimUnready, Claim, Start, StartFails,
      RecordName, PollStop, PollEnded, Finish, PollFails, Deadline

\* Who sets out to start a guarded command, or makes it ready to be started, was
\* granted it.
LEMMA StepGranted == IInv /\ [Next]_vars => Granted'
<1> SUFFICES ASSUME IInv, [Next]_vars, NEW e \in Guarded, Ready(e)' PROVE Grant(e)'
  BY DEF Granted, Grant
<1>0. Typed /\ Workers /\ Recorded /\ Working /\ Ruled /\ Granted /\ e \in Execs
  BY GuardedAssumption DEF IInv
<1>1. SUFFICES Grant(e)
  BY <1>0, GrantKept
<1>2. Ready(e) => Grant(e)
  BY <1>0 DEF Granted
<1>3. ASSUME exec'[e].status = exec[e].status \/ exec'[e].status \in Ended \cup {"awaiting_approval"},
             Starting(e)' => Starting(e)
      PROVE  Grant(e)
  BY <1>2, <1>3 DEF Ready, Ended
<1>4. ASSUME UNCHANGED exec, Elsewhere PROVE Grant(e)
  BY <1>0, <1>3, <1>4, StartingKept
<1>5. ASSUME NEW d \in Execs, AskInsert(d) \/ CancelWrite(d) PROVE Grant(e)
  <2>1. exec'[e].status = exec[e].status \/ exec'[e].status \in Ended \cup {"awaiting_approval"}
    BY <1>0, <1>5 DEF AskInsert, CancelWrite, Typed, ExecType, Ended
  <2>2. Elsewhere
    BY <1>5 DEF AskInsert, CancelWrite, Elsewhere
  <2> QED
    BY <1>0, <1>3, <2>1, <2>2, StartingKept
<1>6. CASE ResumeApply
  <2>1. E \in Execs /\ appr[E] = worker.saw /\ worker.saw \in Rulings
    BY <1>0, <1>6, CommandOf DEF ResumeApply, At, OnCommand, Working, E
  <2>2. Elsewhere
    BY <1>6 DEF ResumeApply, Elsewhere, Places
  <2>3. CASE e = E /\ worker.saw = "approved"
    BY <1>0, <2>1, <2>3 DEF Ruled, Grant, Rulings
  <2>4. CASE e # E \/ worker.saw = "rejected"
    <3>1. exec'[e].status = exec[e].status \/ exec'[e].status \in Ended \cup {"awaiting_approval"}
      BY <1>0, <1>6, <2>1, <2>4 DEF ResumeApply, Typed, ExecType, afterDecision, Ended
    <3> QED
      BY <1>0, <1>3, <2>2, <3>1, StartingKept
  <2> QED
    BY <2>1, <2>3, <2>4 DEF Rulings
<1>7. CASE Claim
  <2>1. E \in Execs /\ exec[E].status \in {"queued", "running"}
    BY <1>0, <1>7, CommandOf DEF Claim, Claimable, At, OnCommand, Recorded, Typed, ExecType, Active
  <2>2. CASE e = E
    BY <1>2, <2>1, <2>2 DEF Ready
  <2>3. CASE e # E
    <3>1. exec'[e].status = exec[e].status
      BY <1>0, <1>7, <2>1, <2>3 DEF Claim, Typed
    <3>2. ~Starting(e)'
      BY <1>0, <1>7, <2>3 DEF Claim, Goto, Workers, WorkerType, Starting, E
    <3> QED
      BY <1>3, <3>1, <3>2
  <2> QED
    BY <2>2, <2>3
<1>8. CASE ClaimCancelled \/ RecordName \/ Finish
  <2>1. worker.at \in OnCommand
    BY <1>8 DEF ClaimCancelled, Claimable, RecordName, Finish, At, OnCommand
  <2>2. E \in Execs
    BY <1>0, <2>1, CommandOf
  <2>3. exec'[e].status = exec[e].status \/ exec'[e].status \in Ended \cup {"awaiting_approval"}
    BY <1>0, <1>8, <2>2 DEF ClaimCancelled, RecordName, Finish, At, Typed, ExecType, Working, Ended
  <2>4. Elsewhere
    BY <1>8 DEF ClaimCancelled, RecordName, Finish, Ends, Elsewhere, Places
  <2> QED
    BY <1>0, <1>3, <2>3, <2>4, StartingKept
<1>9. ASSUME NEW j \in Jobs, Take(j) PROVE Grant(e)
  <2>1. ~Starting(e)' /\ UNCHANGED exec
    BY <1>9 DEF Take, Jobs, TaskStart, Starting
  <2> QED
    BY <1>3, <2>1
<1>10. CASE ResumeRead \/ PollEnded \/ Deadline
  <2>1. ~Starting(e)' /\ UNCHANGED exec
    BY <1>0, <1>10 DEF ResumeRead, PollEnded, Deadline, Workers, WorkerType, Starting
  <2> QED
    BY <1>3, <2>1
<1>11. ProvisionCreate \/ ResetRunner \/ ResumeConsume \/ Start => UNCHANGED exec /\ Elsewhere
  BY DEF ProvisionCreate, ResetRunner, ResumeConsume, Start, Ends, Elsewhere, Places
<1>12. UNCHANGED worker \/ worker' = Idle => Elsewhere
  BY DEF Elsewhere
<1> QED
  BY <1>4, <1>5, <1>6, <1>7, <1>8, <1>9, <1>10, <1>11, <1>12
  DEF Ends, Throw, Next, vars, requests, history, runner,
      keepSandboxWorkspace, CreateWorkspace, ResetCount, ResetMark, KeeperEnqueue, KeeperLost, TerminateCount,
      TerminateWrite, createSandboxExecution, AskCheck, AskPublish, AskLost, cancelSandboxExecution,
      CancelRead, CancelStop, Decide, QueueResume, QueueResumeLost, Expire, ProcessCloses,
      RunnerRestarts, Crash, ResetLock, Task, provisionSandboxWorkspace, ProvisionDone, 
      ProvisionRecord, ProvisionFails, resetSandboxWorkspaceRuntime, ResetRefused, 
      ResetRecord, resumeSandboxExecution, ResumeUndecided,
      executeSandboxExecution, ClaimNothing, ClaimUnready, StartFails,
      PollStop, PollFails

\* A command that was cancelled early is not claimed again.
LEMMA StepEarly == IInv /\ [Next]_vars => Early'
<1> SUFFICES ASSUME IInv, [Next]_vars, NEW e \in early'
             PROVE  exec'[e].cancel /\ starts'[e] = 0 /\ ~Starting(e)'
  BY DEF Early
<1>0. Typed /\ Workers /\ Working /\ Early
  BY DEF IInv
<1>1. ASSUME NEW d \in Execs, CancelWrite(d) PROVE exec'[e].cancel /\ starts'[e] = 0 /\ ~Starting(e)'
  BY <1>0, <1>1 DEF CancelWrite, Typed, ExecType, Early, At, E, runner, Starting
<1>2. ASSUME UNCHANGED early, exec'[e].cancel = exec[e].cancel, starts'[e] = starts[e], Starting(e)' => Starting(e)
      PROVE  exec'[e].cancel /\ starts'[e] = 0 /\ ~Starting(e)'
  BY <1>0, <1>2 DEF Early
<1>3. Elsewhere => (Starting(e)' => Starting(e))
  BY <1>0, StartingKept
<1>4. ASSUME NEW d \in Execs, AskInsert(d) PROVE exec'[e].cancel = exec[e].cancel
  BY <1>0, <1>4 DEF AskInsert, Typed, ExecType
<1>5. CASE ResumeApply \/ ClaimCancelled \/ Finish \/ RecordName
  <2>1. e \in early /\ e \in Execs /\ E \in Execs /\ UNCHANGED <<early, starts>>
    BY <1>0, <1>5, CommandOf
    DEF ResumeApply, ClaimCancelled, Claimable, Finish, RecordName, Typed, history, runner, At, OnCommand
  <2>2. exec'[e].cancel = exec[e].cancel
    <3>1. PICK x : x.cancel = exec[E].cancel /\ exec' = [exec EXCEPT ![E] = x]
      BY <1>0, <1>5, <2>1 DEF ResumeApply, ClaimCancelled, Finish, RecordName, Typed, ExecType
    <3> QED
      BY <1>0, <2>1, <3>1 DEF Typed
  <2>3. Elsewhere
    BY <1>5 DEF ResumeApply, ClaimCancelled, Finish, RecordName, Ends, Places, Elsewhere
  <2> QED
    BY <1>2, <1>3, <2>1, <2>2, <2>3
<1>6. CASE Claim
  <2>1. e \in early /\ E \in Execs /\ ~exec[E].cancel /\ UNCHANGED <<early, starts>>
    BY <1>0, <1>6, CommandOf DEF Claim, Claimable, At, OnCommand, history, runner
  <2>2. e # E
    BY <1>0, <2>1 DEF Early
  <2>3. exec'[e].cancel = exec[e].cancel /\ worker'.job = worker.job
    BY <1>0, <1>6, <2>1, <2>2 DEF Claim, Typed, ExecType, Goto, Workers, WorkerType
  <2> QED
    BY <1>2, <2>1, <2>2, <2>3 DEF E, Starting
<1>7. CASE Start \/ StartFails
  <2>1. e \in early /\ E \in Execs /\ e # E /\ UNCHANGED <<early, exec>>
    BY <1>0, <1>7, CommandOf DEF Start, StartFails, At, OnCommand, history, Early, E, Starting
  <2>2. starts'[e] = starts[e]
    BY <1>0, <1>7, <2>1 DEF Start, StartFails, StartRunner, Typed
  <2>3. Elsewhere
    BY <1>7 DEF Start, StartFails, Throw, Places, Elsewhere
  <2> QED
    BY <1>2, <1>3, <2>1, <2>2, <2>3
<1>8. ASSUME NEW j \in Jobs, Take(j) PROVE ~Starting(e)' /\ UNCHANGED <<early, exec, starts>>
  BY <1>8 DEF Take, Jobs, TaskStart, runner, history, Starting
<1>9. CASE ResumeRead \/ PollEnded \/ Deadline
  <2>1. ~Starting(e)' /\ UNCHANGED <<early, exec, starts>>
    BY <1>0, <1>9 DEF ResumeRead, PollEnded, Deadline, Workers, WorkerType, history, runner, Starting
  <2> QED
    BY <1>2, <2>1
<1>10. ASSUME UNCHANGED <<exec, early, starts>>, Elsewhere
       PROVE  exec'[e].cancel /\ starts'[e] = 0 /\ ~Starting(e)'
  BY <1>2, <1>3, <1>10
<1>11. ASSUME NEW d \in Execs, AskInsert(d) PROVE exec'[e].cancel /\ starts'[e] = 0 /\ ~Starting(e)'
  BY <1>2, <1>4, <1>11 DEF AskInsert, runner, history, Starting
<1>12. ProvisionCreate \/ ResetRunner \/ ResumeConsume =>
         UNCHANGED <<exec, early, starts>> /\ Elsewhere
  BY DEF ProvisionCreate, ResetRunner, ResumeConsume, Ends, runner, history, Places, Elsewhere
<1>13. UNCHANGED worker \/ worker' = Idle => Elsewhere
  BY DEF Elsewhere
<1> QED
  BY <1>1, <1>2, <1>5, <1>6, <1>7, <1>8, <1>9, <1>10, <1>11, <1>12, <1>13
  DEF Ends, Throw, Next, vars, requests, history, runner,
      keepSandboxWorkspace, CreateWorkspace, ResetCount, ResetMark, KeeperEnqueue, KeeperLost, TerminateCount,
      TerminateWrite, createSandboxExecution, AskCheck, AskPublish, AskLost, cancelSandboxExecution,
      CancelRead, CancelStop, Decide, QueueResume, QueueResumeLost, Expire, ProcessCloses,
      RunnerRestarts, Crash, ResetLock, Task, provisionSandboxWorkspace, ProvisionDone, 
      ProvisionRecord, ProvisionFails, resetSandboxWorkspaceRuntime, ResetRefused, 
      ResetRecord, resumeSandboxExecution, ResumeUndecided,
      executeSandboxExecution, ClaimNothing, ClaimUnready, PollStop, PollFails

-----------------------------------------------------------------------------
(* Theorems.                                                               *)

\* Every step keeps everything.
LEMMA StepIInv == IInv /\ [Next]_vars => IInv'
BY StepTyped, StepRows, StepWorkers, StepRecorded, StepUnasked, StepWorking, StepRuled, StepGranted, StepEarly
   DEF IInv

\* The invariant the theorems rest on.
THEOREM Invariant == Spec => []IInv
<1>1. Init => IInv
  BY InitIInv
<1>2. IInv /\ [Next]_vars => IInv'
  BY StepIInv
<1> QED
  BY <1>1, <1>2, PTL DEF Spec

\* A command whose cancellation was committed before the worker set out to
\* start it is never started, whatever is tried again, lost or reset
\* (cancelSandboxExecution, the claim).
THEOREM CancelledStays == Spec => []CancelledNeverStarts
<1>1. IInv => CancelledNeverStarts
  BY DEF IInv, Early, CancelledNeverStarts
<1> QED
  BY <1>1, Invariant, PTL

-----------------------------------------------------------------------------
(* The approvals of commands implement ApprovalGate.                       *)

\* The abstract gate of a command, and whether the command was started.
gates == [e \in Guarded |-> gateOf(e)]
sents == [e \in Guarded |-> starts[e] > 0]

\* A step that leaves approvals and starts alone is a stutter of the gate.
LEMMA GateKept ==
    ASSUME UNCHANGED <<appr, ruled, starts>>
    PROVE  UNCHANGED Gate!vars
BY DEF Gate!vars, gateOf

\* A step that moves one approval is a move of the gate, or none if that command
\* is not guarded or its approval was consumed after a grant.
LEMMA GateMoves ==
    ASSUME Typed, UNCHANGED starts, NEW d \in Execs,
           \A e \in Execs \ {d} : appr'[e] = appr[e] /\ ruled'[e] = ruled[e],
           gateOf(d)' = gateOf(d) \/ <<gateOf(d), gateOf(d)'>> \in Gate!Moves
    PROVE  GateStep
<1>1. \A e \in Guarded : e # d => gateOf(e)' = gateOf(e)
  BY GuardedAssumption DEF gateOf
<1>2. CASE d \notin Guarded \/ gateOf(d)' = gateOf(d)
  <2>1. \A e \in Guarded : gateOf(e)' = gateOf(e)
    BY <1>1, <1>2
  <2> QED
    BY <2>1 DEF GateStep, Gate!vars
<1>3. CASE d \in Guarded /\ <<gateOf(d), gateOf(d)'>> \in Gate!Moves
  <2> DEFINE v == gateOf(d)'
  <2>1. gates[d] = gateOf(d)
    BY <1>3 DEF gates
  <2>2. \A e \in Guarded : gateOf(e)' = (IF e = d THEN v ELSE gates[e])
    BY <1>1 DEF gates
  <2> HIDE DEF v
  <2>3. gates' = [gates EXCEPT ![d] = v]
    BY <2>2 DEF gates
  <2>4. <<gates[d], v>> \in Gate!Moves
    BY <1>3, <2>1 DEF v
  <2>5. UNCHANGED sents
    BY DEF sents
  <2> QED
    BY <1>3, <2>3, <2>4, <2>5 DEF GateStep, Gate!Next, Gate!Move, gates, sents
<1> QED
  BY <1>2, <1>3

\* The runner starts a guarded command only under its grant.
LEMMA GateSends ==
    ASSUME IInv, Start \/ StartFails
    PROVE  GateStep
<1>0. Typed /\ Working /\ Granted /\ UNCHANGED <<appr, ruled>>
  BY DEF IInv, Start, StartFails, requests, history
<1>1. E \in Execs /\ Starting(E)
  BY <1>0, CommandOf DEF Start, StartFails, At, OnCommand, Starting, E
<1>2. UNCHANGED starts \/ starts' = [starts EXCEPT ![E] = @ + 1]
  BY DEF Start, StartFails, StartRunner
<1>3. CASE UNCHANGED starts
  BY <1>0, <1>3, GateKept DEF GateStep
<1>4. CASE starts' = [starts EXCEPT ![E] = @ + 1]
  <2>1. starts[E] \in Nat /\ starts'[E] = starts[E] + 1 /\ \A e \in Execs : e # E => starts'[e] = starts[e]
    BY <1>0, <1>1, <1>4 DEF Typed
  <2>2. UNCHANGED gates
    BY <1>0 DEF gates, gateOf
  <2>3. CASE E \notin Guarded \/ starts[E] > 0
    <3>1. \A e \in Guarded : (starts'[e] > 0) = (starts[e] > 0)
      BY <2>1, <2>3, GuardedAssumption
    <3>2. UNCHANGED sents
      BY <3>1 DEF sents
    <3> QED
      BY <2>2, <3>2 DEF GateStep, Gate!vars, gates, sents
  <2>4. CASE E \in Guarded /\ starts[E] = 0
    <3>1. gates[E] = "approved"
      <4>1. Grant(E)
        BY <1>0, <1>1, <2>4 DEF Granted, Ready
      <4> QED
        BY <2>4, <4>1 DEF Grant, gates, gateOf
    <3>4. (starts[E] > 0) = FALSE /\ (starts'[E] > 0) = TRUE
      BY <2>1, <2>4
    <3>5. sents[E] = FALSE
      BY <2>4, <3>4 DEF sents
    <3>2. ASSUME NEW e \in Guarded PROVE (starts'[e] > 0) = (IF e = E THEN TRUE ELSE sents[e])
      <4>1. CASE e = E
        BY <3>4, <4>1, Zenon
      <4>2. CASE e # E
        BY <2>1, <4>2, GuardedAssumption DEF sents
      <4> QED
        BY <4>1, <4>2
    <3>3. sents' = [sents EXCEPT ![E] = TRUE]
      BY <3>2 DEF sents
    <3> QED
      BY <2>2, <2>4, <3>1, <3>3, <3>5 DEF GateStep, Gate!Next, Gate!Send, gates, sents
  <2> QED
    BY <2>1, <2>3, <2>4
<1> QED
  BY <1>2, <1>3, <1>4

\* Every step is a step of the gate or a stutter.
LEMMA StepGate == IInv /\ [Next]_vars => GateStep
<1> SUFFICES ASSUME IInv, [Next]_vars PROVE GateStep
  OBVIOUS
<1>0. Typed /\ Unasked /\ Working /\ Ruled
  BY DEF IInv
<1>1. ASSUME NEW e \in Execs, AskPublish(e) PROVE GateStep
  <2>1. CASE e \in Guarded
    <3>1. gateOf(e) = "none" /\ gateOf(e)' = "pending"
      BY <1>0, <1>1, <2>1 DEF AskPublish, Unasked, Typed, gateOf
    <3>2. <<gateOf(e), gateOf(e)'>> \in Gate!Moves
      BY <3>1 DEF Gate!Moves
    <3> QED
      BY <1>0, <1>1, <2>1, <3>2, GateMoves DEF AskPublish, Typed, runner, history
  <2> QED
    BY <1>1, <2>1, GateKept DEF AskPublish, GateStep, runner, history
<1>2. ASSUME NEW e \in Execs, Decide(e) PROVE GateStep
  <2>1. gateOf(e) = "pending" /\ gateOf(e)' \in Rulings
    BY <1>0, <1>2 DEF Decide, Typed, gateOf, Rulings
  <2>2. <<gateOf(e), gateOf(e)'>> \in Gate!Moves
    BY <2>1 DEF Gate!Moves, Rulings
  <2> QED
    BY <1>0, <1>2, <2>2, GateMoves DEF Decide, Typed, runner
<1>3. ASSUME NEW e \in Execs, CancelWrite(e) \/ Expire(e) PROVE GateStep
  <2>1. gateOf(e)' = gateOf(e) \/ (gateOf(e) = "pending" /\ gateOf(e)' = "expired")
    BY <1>0, <1>3 DEF CancelWrite, Expire, Typed, gateOf, history
  <2>2. gateOf(e)' = gateOf(e) \/ <<gateOf(e), gateOf(e)'>> \in Gate!Moves
    BY <2>1 DEF Gate!Moves
  <2> QED
    BY <1>0, <1>3, <2>2, GateMoves DEF CancelWrite, Expire, Typed, runner, history
<1>4. CASE ResumeConsume
  <2>1. E \in Execs /\ appr[E] \in Rulings /\ ruled[E] = appr[E]
    BY <1>0, <1>4, CommandOf DEF ResumeConsume, At, OnCommand, Ruled, Rulings
  <2>2. appr' = [appr EXCEPT ![E] = "consumed"] /\ UNCHANGED <<ruled, starts>>
    BY <1>4 DEF ResumeConsume, runner, history
  <2>3. PICK u \in Execs : u = E
    BY <2>1
  <2>4. appr[u] \in Rulings /\ ruled[u] = appr[u] /\ appr'[u] = "consumed" /\ ruled'[u] = ruled[u]
    BY <1>0, <2>1, <2>2, <2>3 DEF Typed
  <2>5. gateOf(u)' = gateOf(u) \/ (gateOf(u) = "rejected" /\ gateOf(u)' = "consumed")
    BY <2>4 DEF gateOf, Rulings
  <2>6. gateOf(u)' = gateOf(u) \/ <<gateOf(u), gateOf(u)'>> \in Gate!Moves
    BY <2>5 DEF Gate!Moves
  <2>7. \A d \in Execs \ {u} : appr'[d] = appr[d] /\ ruled'[d] = ruled[d]
    BY <1>0, <2>2, <2>3 DEF Typed
  <2> QED
    BY <1>0, <2>2, <2>6, <2>7, GateMoves
<1>5. CASE Start \/ StartFails
  BY <1>5, GateSends
<1>6. CASE UNCHANGED <<appr, ruled, starts>>
  BY <1>6, GateKept DEF GateStep
<1> QED
  BY <1>1, <1>2, <1>3, <1>4, <1>5, <1>6
  DEF Next, vars, requests, history, runner,
      keepSandboxWorkspace, CreateWorkspace, ResetCount, ResetMark, KeeperEnqueue, KeeperLost, TerminateCount,
      TerminateWrite, createSandboxExecution, AskCheck, AskInsert, AskLost, cancelSandboxExecution,
      CancelRead, CancelStop, QueueResume, QueueResumeLost, ProcessCloses,
      RunnerRestarts, Crash, ResetLock, Take, Task, provisionSandboxWorkspace, ProvisionDone, ProvisionCreate,
      ProvisionRecord, ProvisionFails, resetSandboxWorkspaceRuntime, ResetRefused, ResetRunner,
      ResetRecord, resumeSandboxExecution, ResumeUndecided, ResumeRead, ResumeApply,
      executeSandboxExecution, ClaimNothing, ClaimCancelled, ClaimUnready, Claim,
      RecordName, PollStop, PollEnded, Finish, PollFails, Deadline

\* The approvals of commands keep the promise of ApprovalGate: a guarded command
\* is first started under its grant, and no decision is consumed twice or changed,
\* whatever is cancelled, expired, tried again, lost or reset.
THEOREM GateIsKept == Spec => KeepsGate
<1>1. Init => IInv /\ Gate!Init
  <2>1. ASSUME Init PROVE Gate!Init
    <3>1. \A e \in Guarded : gateOf(e) = "none" /\ (starts[e] > 0) = FALSE
      BY <2>1, GuardedAssumption DEF Init, gateOf
    <3> QED
      BY <3>1 DEF Gate!Init
  <2> QED
    BY <2>1, InitIInv
<1>2. IInv /\ [Next]_vars => IInv'
  BY StepIInv
<1>3. IInv /\ [Next]_vars => [Gate!Next]_(Gate!vars)
  BY StepGate DEF GateStep
<1> QED
  BY <1>1, <1>2, <1>3, PTL DEF Spec, KeepsGate, Gate!Spec

-----------------------------------------------------------------------------
(* A command is started once.                                              *)

Processes == proc \in [Execs -> {"none", "running", "stopping", "lost"} \cup Ended]

\* Every step keeps the type of the processes, and only a reset of the workspace
\* makes the runner forget one.
LEMMA StepProcesses ==
    IInv /\ Processes /\ [Next]_vars =>
        /\ Processes'
        /\ ResetRunner \/ \A e \in Execs : proc[e] # "none" => proc'[e] # "none"
<1> SUFFICES ASSUME IInv, Processes, [Next]_vars
             PROVE  /\ Processes'
                    /\ ResetRunner \/ \A e \in Execs : proc[e] # "none" => proc'[e] # "none"
  OBVIOUS
<1> DEFINE Goal == /\ Processes'
                   /\ ResetRunner \/ \A e \in Execs : proc[e] # "none" => proc'[e] # "none"
<1>0. Working
  BY DEF IInv
<1>1. ASSUME NEW e \in Execs, proc' = stopped(e) PROVE Goal
  BY <1>1 DEF stopped, Processes
<1>2. CASE PollStop \/ Deadline
  <2>1. E \in Execs
    BY <1>0, <1>2, CommandOf DEF PollStop, Deadline, At, OnCommand
  <2>2. proc' = stopped(E) \/ UNCHANGED proc
    BY <1>2 DEF PollStop, Deadline
  <2> QED
    BY <1>1, <2>1, <2>2 DEF Processes
<1>3. ASSUME NEW e \in Execs, CancelStop(e) PROVE Goal
  BY <1>1, <1>3 DEF CancelStop, Processes
<1>4. ASSUME NEW e \in Execs, ProcessCloses(e) PROVE Goal
  BY <1>4 DEF ProcessCloses, Processes, Ended
<1>5. CASE RunnerRestarts
  BY <1>5 DEF RunnerRestarts, Processes
<1>6. CASE ResetRunner
  BY <1>6 DEF ResetRunner, Processes
<1>7. CASE Start \/ StartFails
  BY <1>0, <1>7, CommandOf DEF Start, StartFails, StartRunner, At, OnCommand, Processes
<1>8. CASE UNCHANGED proc
  BY <1>8 DEF Processes
<1> QED
  BY <1>2, <1>3, <1>4, <1>5, <1>6, <1>7, <1>8
  DEF Next, vars, requests, history, runner,
      keepSandboxWorkspace, CreateWorkspace, ResetCount, ResetMark, KeeperEnqueue, KeeperLost, TerminateCount,
      TerminateWrite, createSandboxExecution, AskCheck, AskInsert, AskPublish, AskLost, cancelSandboxExecution,
      CancelRead, CancelWrite, Decide, QueueResume, QueueResumeLost, Expire,
      Crash, ResetLock, Take, Task, provisionSandboxWorkspace, ProvisionDone, ProvisionCreate,
      ProvisionRecord, ProvisionFails, resetSandboxWorkspaceRuntime, ResetRefused,
      ResetRecord, resumeSandboxExecution, ResumeUndecided, ResumeRead, ResumeApply, ResumeConsume,
      executeSandboxExecution, ClaimNothing, ClaimCancelled, ClaimUnready, Claim,
      RecordName, PollEnded, Finish, PollFails

\* The runner starts the command of the worker's task, and knows it then.
LEMMA StartsOne ==
    IInv /\ Processes /\ [Next]_vars =>
        \/ UNCHANGED starts
        \/ /\ Start \/ StartFails
           /\ E \in Execs /\ Starting(E)
           /\ proc[E] = "none" /\ proc' = [proc EXCEPT ![E] = "running"]
           /\ starts' = [starts EXCEPT ![E] = @ + 1]
<1> SUFFICES ASSUME IInv, Processes, [Next]_vars, Start \/ StartFails
             PROVE  \/ UNCHANGED starts
                    \/ /\ E \in Execs /\ Starting(E)
                       /\ proc[E] = "none" /\ proc' = [proc EXCEPT ![E] = "running"]
                       /\ starts' = [starts EXCEPT ![E] = @ + 1]
  BY DEF Next, vars, requests, history, runner,
      keepSandboxWorkspace, CreateWorkspace, ResetCount, ResetMark, KeeperEnqueue, KeeperLost, TerminateCount,
      TerminateWrite, createSandboxExecution, AskCheck, AskInsert, AskPublish, AskLost, cancelSandboxExecution,
      CancelRead, CancelWrite, CancelStop, Decide, QueueResume, QueueResumeLost, Expire, ProcessCloses,
      RunnerRestarts, Crash, ResetLock, Take, Task, provisionSandboxWorkspace, ProvisionDone, ProvisionCreate,
      ProvisionRecord, ProvisionFails, resetSandboxWorkspaceRuntime, ResetRefused, ResetRunner,
      ResetRecord, resumeSandboxExecution, ResumeUndecided, ResumeRead, ResumeApply, ResumeConsume,
      executeSandboxExecution, ClaimNothing, ClaimCancelled, ClaimUnready, Claim,
      RecordName, PollStop, PollEnded, Finish, PollFails, Deadline
<1>1. Working
  BY DEF IInv
<1>2. E \in Execs /\ Starting(E)
  BY <1>1, CommandOf DEF Start, StartFails, At, OnCommand, Starting, E
<1> QED
  BY <1>2 DEF Start, StartFails, StartRunner

\* Nobody resets the workspace, and what was started is known to the runner.
Unreset ==
    /\ keeper \notin {"mark", "reset"}
    /\ rows[<<"reset", Workspace>>].st = "absent"
    /\ worker.at \notin {"reset", "resetted"}
    /\ worker.at # "idle" => worker.job # <<"reset", Workspace>>
Known == \A e \in Execs : starts[e] = 0 \/ (starts[e] = 1 /\ proc[e] # "none")

\* Without resets, there are none on the way.
LEMMA StepUnreset ==
    ASSUME "reset" \notin Events, IInv, Unreset, [Next]_vars
    PROVE  Unreset'
<1> DEFINE job == <<"reset", Workspace>>
<1>0. job \in Jobs /\ Rows /\ Workers
  BY JobsOf DEF IInv
<1>1. ASSUME NEW j \in Jobs, NEW r, j # job, rows' = [rows EXCEPT ![j] = r]
      PROVE  rows'[job] = rows[job]
  BY <1>0, <1>1 DEF Rows
<1>2. CASE keepSandboxWorkspace
  <2>1. keeper' \notin {"mark", "reset"} /\ UNCHANGED worker
    BY <1>2 DEF keepSandboxWorkspace, CreateWorkspace, ResetCount, ResetMark, KeeperEnqueue, KeeperLost,
                TerminateCount, TerminateWrite, Unreset
  <2>2. CASE KeeperEnqueue
    <3>1. rows'[job] = rows[job]
      BY <1>0, <1>1, <2>2, JobsOf DEF KeeperEnqueue, Unreset
    <3> QED
      BY <2>1, <3>1 DEF Unreset
  <2> QED
    BY <1>2, <2>1, <2>2 DEF keepSandboxWorkspace, CreateWorkspace, ResetCount, ResetMark, KeeperLost,
                            TerminateCount, TerminateWrite, Unreset
<1>3. ASSUME NEW e \in Execs, AskPublish(e) \/ QueueResume(e) PROVE Unreset'
  <2>1. rows'[job] = rows[job]
    BY <1>0, <1>1, <1>3, JobsOf DEF AskPublish, QueueResume
  <2> QED
    BY <1>3, <2>1 DEF AskPublish, QueueResume, Unreset
<1>4. ASSUME NEW j \in Jobs, Take(j) \/ ResetLock(j) PROVE Unreset'
  <2>1. j # job /\ UNCHANGED keeper
    BY <1>4 DEF Take, ResetLock, Unreset, requests
  <2>2. rows'[job] = rows[job]
    BY <1>0, <1>1, <1>4, <2>1 DEF Take, ResetLock
  <2>3. j[1] # "reset"
    BY <2>1 DEF Jobs
  <2>4. Take(j) => worker'.at \in {"provision", "claim", "decision"} /\ worker'.job = j
    BY <2>3 DEF Take, TaskStart, Jobs
  <2> QED
    BY <1>4, <2>1, <2>2, <2>4 DEF ResetLock, Unreset
<1>5. ASSUME Ends \/ Throw, ~At("idle"), UNCHANGED keeper PROVE Unreset'
  <2>1. worker.job \in Jobs /\ worker.job # job
    BY <1>0, <1>5 DEF Workers, WorkerType, Unreset, At
  <2>2. rows'[job] = rows[job]
    BY <1>0, <1>1, <1>5, <2>1 DEF Ends, Throw
  <2> QED
    BY <1>5, <2>2 DEF Ends, Throw, Idle, Unreset
<1>6. ASSUME NEW at \in Places \ {"reset", "resetted"}, Goto(at), ~At("idle"), UNCHANGED <<keeper, rows>>
      PROVE  Unreset'
  BY <1>0, <1>6 DEF Goto, Workers, WorkerType, Unreset, At
<1>7. CASE ResumeRead \/ PollEnded \/ Deadline
  <2>1. worker'.job = worker.job /\ worker'.at \in {"apply", "finish"} /\ worker.at # "idle" /\ UNCHANGED <<keeper, rows>>
    BY <1>0, <1>7 DEF ResumeRead, PollEnded, Deadline, Workers, WorkerType, At, requests
  <2> QED
    BY <2>1 DEF Unreset
<1>8. CASE Crash
  BY <1>8 DEF Crash, Idle, Unreset, requests
<1>9. CASE resetSandboxWorkspaceRuntime
  BY <1>9 DEF resetSandboxWorkspaceRuntime, ResetRefused, ResetRunner, ResetRecord, At, Unreset
<1>10. CASE ProvisionCreate \/ ResumeApply \/ ResumeConsume
  BY <1>5, <1>6, <1>10 DEF ProvisionCreate, ResumeApply, ResumeConsume, At, requests, Places
<1>11. CASE Claim \/ Start \/ RecordName
  BY <1>6, <1>11 DEF Claim, Claimable, Start, RecordName, At, requests, Places
<1>12. CASE UNCHANGED <<keeper, rows, worker>>
  BY <1>12 DEF Unreset
<1> QED
  BY <1>2, <1>3, <1>4, <1>5, <1>7, <1>8, <1>9, <1>10, <1>11, <1>12
  DEF At, Claimable, Next, vars, requests, history, runner,
      createSandboxExecution, AskCheck, AskInsert, AskLost, cancelSandboxExecution,
      CancelRead, CancelWrite, CancelStop, Decide, QueueResumeLost, Expire, ProcessCloses,
      RunnerRestarts, Task, provisionSandboxWorkspace, ProvisionDone,
      ProvisionRecord, ProvisionFails, resumeSandboxExecution, ResumeUndecided,
      executeSandboxExecution, ClaimNothing, ClaimCancelled, ClaimUnready, StartFails,
      PollStop, Finish, PollFails

\* Then the runner never forgets a command.
LEMMA StepKnown ==
    ASSUME IInv, Processes, Unreset, Known, [Next]_vars
    PROVE  Known'
<1>0. Typed
  BY DEF IInv
<1>1. ~ResetRunner
  BY DEF Unreset, ResetRunner, At
<1>2. \A e \in Execs : proc[e] # "none" => proc'[e] # "none"
  BY <1>1, StepProcesses
<1>3. CASE UNCHANGED starts
  BY <1>2, <1>3 DEF Known
<1>4. CASE /\ E \in Execs /\ proc[E] = "none" /\ proc' = [proc EXCEPT ![E] = "running"]
           /\ starts' = [starts EXCEPT ![E] = @ + 1]
  <2>1. starts[E] = 0
    BY <1>4 DEF Known
  <2>2. starts'[E] = 1 /\ proc'[E] # "none"
    BY <1>0, <1>4, <2>1 DEF Typed, Processes
  <2>3. \A e \in Execs : e # E => starts'[e] = starts[e]
    BY <1>0, <1>4 DEF Typed
  <2> QED
    BY <1>2, <2>2, <2>3 DEF Known
<1> QED
  BY <1>3, <1>4, StartsOne

\* Nothing fails on the way: a command that was started is being polled, or its end is
\* recorded, and one that is about to be started was not.
Polled(e) == worker.job[2] = e /\ worker.at \in {"name", "poll", "finish"} /\ proc[e] # "none"
Over(e) == exec[e].status \in Ended
Followed == \A e \in Execs :
    /\ starts[e] = 0 \/ (starts[e] = 1 /\ asker[e] = "done" /\ (Polled(e) \/ Over(e)))
    /\ Starting(e) => starts[e] = 0

\* A command that is over stays over.
LEMMA OverStays ==
    ASSUME IInv, [Next]_vars, NEW e \in Execs, asker[e] = "done", Over(e)
    PROVE  Over(e)' /\ asker'[e] = "done"
<1>0. Typed /\ Working
  BY DEF IInv
<1>1. ASSUME NEW d \in Execs, createSandboxExecution(d) PROVE Over(e)' /\ asker'[e] = "done"
  BY <1>0, <1>1 DEF createSandboxExecution, AskCheck, AskInsert, AskPublish, AskLost, Over, Typed
<1>2. ASSUME NEW d \in Execs, CancelWrite(d) PROVE Over(e)' /\ asker'[e] = "done"
  BY <1>0, <1>2 DEF CancelWrite, Over, Typed, ExecType, Ended
<1>3. CASE ResumeApply \/ ClaimCancelled \/ Claim \/ RecordName \/ Finish
  <2>1. worker.at \in OnCommand /\ UNCHANGED asker
    BY <1>3 DEF ResumeApply, ClaimCancelled, Claim, Claimable, RecordName, Finish, At, OnCommand, requests
  <2>2. E \in Execs
    BY <1>0, <2>1, CommandOf
  <2> QED
    BY <1>0, <1>3, <2>1, <2>2
    DEF ResumeApply, ClaimCancelled, Claim, Claimable, RecordName, Finish, At, Over, Typed, ExecType, Working, Ended
<1>4. CASE UNCHANGED <<exec, asker>>
  BY <1>4 DEF Over
<1> QED
  BY <1>1, <1>2, <1>3, <1>4
  DEF Next, vars, requests, history, runner,
      keepSandboxWorkspace, CreateWorkspace, ResetCount, ResetMark, KeeperEnqueue, KeeperLost, TerminateCount,
      TerminateWrite, cancelSandboxExecution, CancelRead, CancelStop, ProcessCloses, Decide, QueueResume,
      QueueResumeLost, Expire, RunnerRestarts, Crash, ResetLock, Take, Task, provisionSandboxWorkspace,
      ProvisionDone, ProvisionCreate, ProvisionRecord, ProvisionFails, resetSandboxWorkspaceRuntime,
      ResetRefused, ResetRunner, ResetRecord, resumeSandboxExecution, ResumeUndecided, ResumeRead,
      ResumeConsume, executeSandboxExecution, ClaimNothing, ClaimUnready, Start, StartFails, PollStop,
      PollEnded, PollFails, Deadline

\* Only the claim sets out to start a command.
LEMMA ClaimStarts ==
    ASSUME IInv, [Next]_vars, NEW e, Starting(e)', ~Starting(e)
    PROVE  Claim /\ E = e
<1>0. Workers
  BY DEF IInv
<1>1. Elsewhere => FALSE
  BY <1>0, StartingKept
<1>2. CASE Claim
  BY <1>0, <1>2 DEF Claim, Goto, Workers, WorkerType, Starting, E
<1>3. ASSUME NEW j \in Jobs, Take(j) PROVE FALSE
  BY <1>3 DEF Take, Jobs, TaskStart, Starting
<1>4. CASE ResumeRead \/ PollEnded \/ Deadline
  BY <1>0, <1>4 DEF ResumeRead, PollEnded, Deadline, Workers, WorkerType, Starting
<1>5. CASE ProvisionCreate \/ ResetRunner \/ ResumeApply \/ ResumeConsume \/ Start \/ RecordName
  BY <1>1, <1>5
  DEF ProvisionCreate, ResetRunner, ResumeApply, ResumeConsume, Start, RecordName, Ends, Elsewhere, Places
<1>6. CASE UNCHANGED worker \/ worker' = Idle
  BY <1>1, <1>6 DEF Elsewhere
<1> QED
  BY <1>2, <1>3, <1>4, <1>5, <1>6
  DEF Ends, Throw, Next, vars, requests, history, runner,
      keepSandboxWorkspace, CreateWorkspace, ResetCount, ResetMark, KeeperEnqueue, KeeperLost, TerminateCount,
      TerminateWrite, createSandboxExecution, AskCheck, AskInsert, AskPublish, AskLost, cancelSandboxExecution,
      CancelRead, CancelWrite, CancelStop, Decide, QueueResume, QueueResumeLost, Expire, ProcessCloses,
      RunnerRestarts, Crash, ResetLock, Task, provisionSandboxWorkspace, ProvisionDone,
      ProvisionRecord, ProvisionFails, resetSandboxWorkspaceRuntime, ResetRefused,
      ResetRecord, resumeSandboxExecution, ResumeUndecided,
      executeSandboxExecution, ClaimNothing, ClaimCancelled, ClaimUnready, StartFails,
      PollStop, Finish, PollFails

\* What the worker does with a command that runs.
LEMMA PolledOn ==
    ASSUME [Next]_vars, worker.at \in {"name", "poll", "finish"}
    PROVE  UNCHANGED worker \/ RecordName \/ PollEnded \/ PollFails \/ Finish \/ Deadline \/ Crash
BY DEF Next, vars, requests, history, runner, At, Claimable,
      keepSandboxWorkspace, CreateWorkspace, ResetCount, ResetMark, KeeperEnqueue, KeeperLost, TerminateCount,
      TerminateWrite, createSandboxExecution, AskCheck, AskInsert, AskPublish, AskLost, cancelSandboxExecution,
      CancelRead, CancelWrite, CancelStop, Decide, QueueResume, QueueResumeLost, Expire, ProcessCloses,
      RunnerRestarts, ResetLock, Take, Task, provisionSandboxWorkspace, ProvisionDone, ProvisionCreate,
      ProvisionRecord, ProvisionFails, resetSandboxWorkspaceRuntime, ResetRefused, ResetRunner,
      ResetRecord, resumeSandboxExecution, ResumeUndecided, ResumeRead, ResumeApply, ResumeConsume,
      executeSandboxExecution, ClaimNothing, ClaimCancelled, ClaimUnready, Claim, Start, StartFails, PollStop

\* Without crashes and lost calls, the worker follows a command to its end.
LEMMA StepFollowed ==
    ASSUME {"crash", "transport"} \cap Events = {}, IInv, Processes, Followed, [Next]_vars
    PROVE  Followed'
<1> SUFFICES ASSUME NEW e \in Execs
             PROVE  /\ starts'[e] = 0 \/ (starts'[e] = 1 /\ asker'[e] = "done" /\ (Polled(e)' \/ Over(e)'))
                    /\ Starting(e)' => starts'[e] = 0
  BY DEF Followed
<1>0. Typed /\ Workers /\ Working
  BY DEF IInv
<1>1. /\ starts[e] = 0 \/ (starts[e] = 1 /\ asker[e] = "done" /\ (Polled(e) \/ Over(e)))
      /\ Starting(e) => starts[e] = 0
  BY DEF Followed
<1>2. CASE UNCHANGED starts /\ starts[e] = 0
  BY <1>2
<1>3. ASSUME starts[e] = 1, asker[e] = "done", Over(e), starts'[e] = starts[e]
      PROVE  asker'[e] = "done" /\ Over(e)' /\ ~Starting(e)'
  <2>1. asker'[e] = "done" /\ Over(e)'
    BY <1>3, OverStays
  <2>2. ~Starting(e)
    BY <1>1, <1>3
  <2>3. Claim /\ E = e => FALSE
    BY <1>3 DEF Claim, Claimable, Over
  <2> QED
    BY <2>1, <2>2, <2>3, ClaimStarts
<1>4. ASSUME starts[e] = 1, asker[e] = "done", Polled(e), UNCHANGED starts
      PROVE  asker'[e] = "done" /\ (Polled(e)' \/ Over(e)') /\ ~Starting(e)'
  <2>1. E = e /\ worker.at \in {"name", "poll", "finish"} /\ proc[e] # "none"
    BY <1>4 DEF Polled, E
  <2>2. ~Starting(e) /\ ~Claim
    BY <2>1 DEF Starting, Claim, Claimable, At
  <2>3. ~Starting(e)'
    BY <2>2, ClaimStarts
  <2>4. ~ResetRunner
    BY <2>1 DEF ResetRunner, At
  <2>5. proc'[e] # "none"
    BY <2>1, <2>4, StepProcesses
  <2>6. asker'[e] = "done"
    BY <1>0, <1>4
    DEF Next, vars, requests, createSandboxExecution, AskCheck, AskInsert, AskPublish, AskLost, Typed,
      keepSandboxWorkspace, CreateWorkspace, ResetCount, ResetMark, KeeperEnqueue, KeeperLost, TerminateCount,
      TerminateWrite, cancelSandboxExecution, CancelRead, CancelWrite, CancelStop, ProcessCloses, Decide,
      QueueResume, QueueResumeLost, Expire, RunnerRestarts, Crash, ResetLock, Take, Task,
      provisionSandboxWorkspace, ProvisionDone, ProvisionCreate, ProvisionRecord, ProvisionFails,
      resetSandboxWorkspaceRuntime, ResetRefused, ResetRunner, ResetRecord, resumeSandboxExecution,
      ResumeUndecided, ResumeRead, ResumeApply, ResumeConsume, executeSandboxExecution, ClaimNothing,
      ClaimCancelled, ClaimUnready, Claim, Start, StartFails, RecordName, PollStop, PollEnded, Finish,
      PollFails, Deadline
  <2>7. ~Crash /\ ~PollFails
    BY <2>1 DEF Crash, PollFails
  <2>8. CASE UNCHANGED worker
    BY <2>1, <2>3, <2>5, <2>6, <2>8 DEF Polled, E
  <2>9. CASE RecordName \/ PollEnded \/ Deadline
    <3>1. worker'.job = worker.job /\ worker'.at \in {"poll", "finish"}
      BY <1>0, <2>9 DEF RecordName, PollEnded, Deadline, Goto, Workers, WorkerType
    <3> QED
      BY <2>1, <2>3, <2>5, <2>6, <3>1 DEF Polled, E
  <2>10. CASE Finish
    <3>1. Over(e)'
      BY <1>0, <2>1, <2>10 DEF Finish, At, Typed, ExecType, Working, Over
    <3> QED
      BY <2>3, <2>6, <3>1
  <2> QED
    BY <2>1, <2>7, <2>8, <2>9, <2>10, PolledOn
<1>5. ASSUME Start, E \in Execs, Starting(E), proc' = [proc EXCEPT ![E] = "running"],
             starts' = [starts EXCEPT ![E] = @ + 1]
      PROVE  /\ starts'[e] = 0 \/ (starts'[e] = 1 /\ asker'[e] = "done" /\ (Polled(e)' \/ Over(e)'))
             /\ Starting(e)' => starts'[e] = 0
  <2>1. worker'.at = "name" /\ worker'.job = worker.job /\ UNCHANGED <<exec, asker>>
    BY <1>0, <1>5 DEF Start, Goto, Workers, WorkerType, requests
  <2>2. ~Starting(e)'
    BY <2>1 DEF Starting
  <2>3. CASE e = E
    <3>1. starts[e] = 0
      BY <1>1, <1>5, <2>3
    <3>2. starts'[e] = 1 /\ proc'[e] # "none"
      BY <1>0, <1>5, <2>3, <3>1 DEF Typed, Processes
    <3>3. asker[e] = "done"
      BY <1>0, <1>5, <2>3, CommandOf DEF Start, At, OnCommand
    <3> QED
      BY <2>1, <2>2, <2>3, <3>2, <3>3 DEF Polled, E
  <2>4. CASE e # E
    <3>1. starts'[e] = starts[e]
      BY <1>0, <1>5, <2>4 DEF Typed
    <3>2. ~Polled(e)
      BY <2>4 DEF Polled, E
    <3> QED
      BY <1>1, <2>1, <2>2, <3>1, <3>2 DEF Over
  <2> QED
    BY <2>3, <2>4
<1>6. CASE UNCHANGED starts /\ starts[e] # 0
  BY <1>1, <1>3, <1>4, <1>6
<1>7. StartFails => UNCHANGED starts
  BY DEF StartFails
<1> QED
  BY <1>2, <1>5, <1>6, <1>7, StartsOne

\* Either the workspace is not reset, or neither a worker nor a call is lost.
OneFault == "reset" \notin Events \/ {"crash", "transport"} \cap Events = {}

\* A command is started once, if the workspace is not reset, or if no worker
\* crashes and no call is lost: a reset lets the runner forget a command whose
\* row still says running, and the next attempt of its task starts it again.
THEOREM StartedOnce ==
    ASSUME OneFault
    PROVE  Spec => []StartsOnce
<1>1. Init => IInv /\ Processes /\ Unreset /\ Known /\ Followed
  BY InitIInv, JobsOf DEF Init, Processes, Unreset, Known, Followed, Idle, Job!Absent, Starting
<1>2. CASE "reset" \notin Events
  <2>1. IInv /\ Processes /\ Unreset /\ Known /\ [Next]_vars => (IInv /\ Processes /\ Unreset /\ Known)'
    BY <1>2, StepIInv, StepProcesses, StepUnreset, StepKnown
  <2>2. Known => StartsOnce
    BY DEF Known, StartsOnce
  <2> QED
    BY <1>1, <2>1, <2>2, PTL DEF Spec
<1>3. CASE {"crash", "transport"} \cap Events = {}
  <2>1. IInv /\ Processes /\ Followed /\ [Next]_vars => (IInv /\ Processes /\ Followed)'
    BY <1>3, StepIInv, StepProcesses, StepFollowed
  <2>2. Followed => StartsOnce
    BY DEF Followed, StartsOnce
  <2> QED
    BY <1>1, <2>1, <2>2, PTL DEF Spec
<1> QED
  BY <1>2, <1>3 DEF OneFault
=============================================================================
