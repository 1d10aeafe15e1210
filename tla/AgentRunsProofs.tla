-------------------------- MODULE AgentRunsProofs --------------------------
(* Theorems about AgentRuns, for any number of runs, people, provider        *)
(* candidates, approvals and attempts.                                       *)
EXTENDS AgentRuns, TLAPS

ProcType == [at : Places, run : Procs, attempt : 1..MaxAttempts, ask : 0..MaxAsks,
             call : CallIds, approved : BOOLEAN, text : BOOLEAN, aborted : BOOLEAN,
             outcome : Outcomes]
DeciderType == [at : {"idle", "write", "queue"}, run : Procs, ask : 0..MaxAsks, late : BOOLEAN]
RowType == [st : RowStates, tries : Nat]

Calling == {"reserve", "send", "settle"}
Resuming == {"approval", "checkpoint", "run", "reopen", "consume"}

\* What a process is while it is at work: a web process works for its own run and
\* makes plain calls, the worker for a run that asked and the call it was granted.
WebLike(r, q) ==
    /\ q.at \notin {"idle", "done"} => q.run = r
    /\ q.at \in Calling => q.call = <<"plain", q.attempt>>
    /\ q.at \notin Resuming
WorkerLike(q) ==
    /\ ~q.aborted
    /\ q.at \notin {"done", "progress"}
    /\ IF q.at = "idle" THEN q.run = Worker ELSE q.run \in Runs /\ q.ask \in Asks
    /\ q.at \in Calling \cup (Resuming \ {"consume"}) => q.call = <<"asked", q.ask>>
    /\ q.outcome # "cancelled"
    /\ q.at = "consume" => q.outcome \in {"asked", "text", "empty"}
Like(p, q) ==
    /\ q \in ProcType
    /\ IF p = Worker THEN WorkerLike(q) ELSE WebLike(p, q)
    /\ q.at \in {"ask", "asked"} =>
          q.outcome = "asked" /\ q.call[1] = "asked" /\ q.call[2] \in Asks

Processes ==
    /\ proc \in [Procs -> ProcType]
    /\ \A p \in Procs : Like(p, proc[p])

\* The database.
RunType == [status : RunStates, cancelReq : BOOLEAN]
RunRows == run \in [Runs -> RunType]
Messages == msg \in [Runs -> MsgStates]
Checkpoints == ckpt \in [Runs -> 0..MaxAsks]
Approvals == appr \in [Runs -> [Asks -> ApprStates]]
Rulings == ruled \in [Runs -> [Asks -> {"none"} \cup Decided]]
Calls == call \in [Runs -> [CallIds -> CallStates]]
Sendings == sent \in [Runs -> [CallIds -> Nat]]
Tasks == row \in [Runs -> [Asks -> RowType]]
Rows ==
    RunRows /\ Messages /\ Checkpoints /\ Approvals /\ Rulings /\ Calls /\ Sendings /\ Tasks

\* The people.
People ==
    /\ decider \in [Deciders -> DeciderType]
    /\ cancel \in [Runs -> [at : {"idle", "write", "tidy", "done"}, read : {"none"} \cup Active]]
    /\ \A d \in Deciders : decider[d].at # "idle" => decider[d].run \in Runs /\ decider[d].ask \in Asks

\* A call that was not reserved was not sent, and one about to be sent was not yet.
Sent ==
    /\ \A r \in Runs, c \in CallIds :
          /\ call[r][c] = "none" => sent[r][c] = 0
          /\ sent[r][c] <= 1
    /\ \A p \in Procs : proc[p].at = "send" => /\ sent[RunOf(p)][proc[p].call] = 0
                                              /\ call[RunOf(p)][proc[p].call] # "none"

\* A process that created the message knows it, and saves its text only while
\* the run is not completed: the worker does not complete a run with a message.
Whole ==
    /\ CompletedHasItsAnswer
    /\ \A r \in Runs :
          /\ proc[r].text => msg[r] # "none"
          /\ proc[r].at = "progress" => proc[r].text
          /\ proc[r].at \in {"asked", "progress"} /\ proc[r].text => run[r].status # "completed"

IInv == Processes /\ Rows /\ People /\ Sent /\ Whole

-----------------------------------------------------------------------------
(* Processes.                                                              *)

\* The parameters, as the proofs use them.
LEMMA Params ==
    /\ Asks \subseteq 1..MaxAsks /\ 0 \in 0..MaxAsks /\ 1 \in 1..MaxAttempts
    /\ \A k \in Asks : k \in 0..MaxAsks /\ <<"asked", k>> \in CallIds
    /\ \A n \in 1..MaxAttempts : <<"plain", n>> \in CallIds
    /\ Worker \in Procs /\ Runs \subseteq Procs
    /\ \A r \in Runs : r # Worker
BY RunsAssumption, BoundsAssumption DEF Asks, CallIds, Procs

\* The records processes start from.
LEMMA Rest ==
    /\ NoProc.at = "idle" /\ NoProc.run = Worker /\ ~NoProc.aborted /\ ~NoProc.text /\ NoProc \in ProcType
    /\ Gone.at = "done" /\ Gone.run = Worker /\ ~Gone.aborted /\ ~Gone.text /\ Gone \in ProcType
    /\ \A p \in Procs : Like(p, NoProc)
    /\ \A r \in Runs : Like(r, Gone)
<1>1. NoProc \in ProcType
  BY Params DEF NoProc, ProcType, Places, Outcomes
<1>2. Gone \in ProcType /\ Gone.at = "done" /\ Gone.run = Worker /\ ~Gone.aborted /\ ~Gone.text
  BY <1>1 DEF Gone, NoProc, ProcType, Places
<1>3. /\ NoProc.at = "idle" /\ NoProc.run = Worker /\ ~NoProc.aborted /\ ~NoProc.text
      /\ NoProc.outcome = "none"
  BY DEF NoProc
<1> QED
  BY <1>1, <1>2, <1>3, Params DEF Like, WorkerLike, WebLike, Calling, Resuming

\* One process changes.
LEMMA OneMoves ==
    ASSUME Processes, NEW p \in Procs, NEW q, Like(p, q), proc' = [proc EXCEPT ![p] = q]
    PROVE  Processes' /\ proc'[p] = q /\ \A o \in Procs \ {p} : proc'[o] = proc[o]
BY DEF Processes, Like

\* It goes to another place.
LEMMA Goes ==
    ASSUME Processes, NEW p \in Procs, NEW a \in Places, Goto(p, a), proc[p].at \notin {"idle", "done"},
           p = Worker => a \notin {"idle", "done", "progress"},
           p # Worker => a \notin Resuming,
           a \in Calling => proc[p].at \in Calling \cup {"reopen"},
           a \in Resuming \ {"consume"} => proc[p].at \in Resuming \ {"consume"},
           a \in {"ask", "asked", "consume"} => proc[p].at \in {"ask", "asked"}
    PROVE  /\ Processes'
           /\ \A o \in Procs \ {p} : proc'[o] = proc[o]
           /\ IF a = "done" THEN proc'[p] = Gone ELSE proc'[p] = [proc[p] EXCEPT !.at = a]
<1> DEFINE q == IF a = "done" THEN Gone ELSE [proc[p] EXCEPT !.at = a]
<1>1. proc' = [proc EXCEPT ![p] = q]
  BY DEF Goto
<1>2. Like(p, q)
  <2>1. CASE a = "done"
    BY <2>1, Rest, Params DEF Procs
  <2>2. CASE a # "done"
    <3>1. proc[p] \in ProcType /\ Like(p, proc[p])
      BY DEF Processes
    <3>2. q \in ProcType /\ q.at = a
      BY <2>2, <3>1 DEF Like, ProcType
    <3> QED
      BY <2>2, <3>1, <3>2 DEF Like, WorkerLike, WebLike, Calling, Resuming, ProcType
  <2> QED
    BY <2>1, <2>2
<1> QED
  BY <1>1, <1>2, OneMoves

\* Every step leaves every process something its kind may be.
LEMMA StepProcesses ==
    ASSUME Processes, People, Next
    PROVE  Processes'
<1> USE Params
<1> DEFINE Idle == {"idle", "done"}
<1>1. ASSUME NEW p \in Procs, Reserve(p) \/ Duplicate(p) \/ Send(p) \/ Settle(p) PROVE Processes'
  BY <1>1, Goes DEF Reserve, Duplicate, Send, Settle, At, Places, Resuming, Calling
<1>2. ASSUME NEW p \in Procs, RequestApproval(p) \/ RecordAsk(p) \/ FailRun(p) PROVE Processes'
  <2>1. PICK a \in {"asked", "consume", "progress", "done", "tidy"} :
           /\ Goto(p, a) /\ (p = Worker => a \notin {"progress", "done"})
           /\ (p # Worker => a # "consume")
           /\ (a = "asked" => proc[p].at = "ask") /\ (a = "consume" => proc[p].at = "asked")
           /\ proc[p].at \notin Idle
    BY <1>2 DEF RequestApproval, RecordAsk, FailRun, At
  <2> QED
    BY <2>1, Goes DEF Places, Resuming, Calling
<1>3. ASSUME NEW r \in Runs, SaveProgress(r) \/ CompleteRun(r) PROVE Processes'
  BY <1>3, Goes DEF SaveProgress, CompleteRun, At, Places, Resuming, Calling
<1>4. ASSUME Raise \/ Return PROVE Processes'
  BY <1>4, Rest, OneMoves DEF Raise, Return
<1>5. ASSUME NEW p \in Procs, Tidy(p) PROVE Processes'
  BY <1>4, <1>5, Goes DEF Tidy, At, Places, Resuming, Calling
<1>6. ASSUME LoadCheckpoint \/ ReadRun PROVE Processes'
  BY <1>4, <1>6, Goes DEF LoadCheckpoint, ReadRun, At, Places, Resuming, Calling
<1>7. ASSUME Consume PROVE Processes'
  <2>1. proc[Worker].outcome \in {"asked", "text", "empty"}
    BY <1>7 DEF Consume, At, Processes, Like, WorkerLike
  <2>2. Raise \/ Return \/ Goto(Worker, "complete")
    BY <1>7, <2>1 DEF Consume
  <2> QED
    BY <1>4, <1>7, <2>2, Goes DEF Consume, At, Places, Resuming, Calling
<1>8. ASSUME CompleteResumed \/ CompleteRefused \/ WorkerCrash PROVE Processes'
  BY <1>4, <1>8 DEF CompleteResumed, CompleteRefused, WorkerCrash
<1>9. ASSUME UNCHANGED proc PROVE Processes'
  BY <1>9 DEF Processes
<1>10. ASSUME NEW d \in Deciders,
              \/ decideToolApproval(d)
              \/ \E r \in Runs, k \in Asks : DecideRead(d, r, k)
       PROVE  Processes'
  BY <1>9, <1>10 DEF decideToolApproval, DecideRead, DecideLate, Decide, DecideConflict, QueueResume
<1>11. ASSUME NEW r \in Runs,
              CancelWrite(r) \/ CancelTidy(r) \/ \E k \in Asks : Expire(r, k)
       PROVE  Processes'
  BY <1>9, <1>11 DEF CancelWrite, CancelTidy, Expire
<1>12. ASSUME NEW r \in Runs, Prepare(r) PROVE Processes'
  <2> DEFINE q == [NoProc EXCEPT !.at = "model", !.run = r]
  <2>1. Like(r, q)
    BY Rest DEF Like, WebLike, ProcType, NoProc, Calling, Resuming, Places
  <2> QED
    BY <1>12, <2>1, OneMoves DEF Prepare
<1>13. ASSUME NEW r \in Runs, Delta(r) \/ Leave(r) PROVE Processes'
  <2> DEFINE q == [proc[r] EXCEPT !.text = TRUE]  o == [proc[r] EXCEPT !.aborted = TRUE]
  <2>1. Like(r, proc[r])
    BY DEF Processes
  <2>2. Like(r, q) /\ Like(r, o)
    BY <2>1 DEF Like, WebLike, ProcType
  <2> QED
    BY <1>13, <2>2, OneMoves DEF Delta, Leave
<1>14. ASSUME NEW r \in Runs, CancelRead(r) PROVE Processes'
  <2>1. PICK b \in BOOLEAN : proc' = [proc EXCEPT ![r].aborted = b]
    BY <1>14 DEF CancelRead, Processes, ProcType, Generating
  <2> DEFINE q == [proc[r] EXCEPT !.aborted = b]
  <2>2. Like(r, q)
    BY DEF Processes, Like, WebLike, ProcType
  <2> QED
    BY <2>1, <2>2, OneMoves
<1>15. ASSUME NEW r \in Runs, CallTool(r) PROVE Processes'
  <2> DEFINE q == [proc[r] EXCEPT !.at = "reserve", !.call = <<"plain", proc[r].attempt>>]
  <2>1. Like(r, q)
    BY <1>15 DEF CallTool, At, Processes, Like, WebLike, ProcType, Calling, Resuming, Places
  <2> QED
    BY <1>15, <2>1, OneMoves DEF CallTool
<1>16. ASSUME NEW p \in Procs, Ask(p) PROVE Processes'
  <2>1. PICK k \in Asks :
           proc' = [proc EXCEPT ![p].at = "ask", ![p].outcome = "asked", ![p].call = <<"asked", k>>]
    BY <1>16 DEF Ask
  <2> DEFINE q == [proc[p] EXCEPT !.at = "ask", !.outcome = "asked", !.call = <<"asked", k>>]
  <2>2. Like(p, proc[p]) /\ proc[p].at = "model"
    BY <1>16 DEF Ask, At, Processes
  <2>3. q \in ProcType
    BY <2>2 DEF Like, ProcType, Places, Outcomes
  <2>4. Like(p, q)
    BY <2>2, <2>3 DEF Like, WebLike, WorkerLike, ProcType, Calling, Resuming
  <2> QED
    BY <2>1, <2>4, OneMoves
<1>17. ASSUME NEW p \in Procs, RecordAskFails(p) \/ ProviderFails(p) PROVE Processes'
  <2>0. p = Worker => ~proc[p].aborted
    BY DEF Processes, Like, WorkerLike
  <2>1. PICK o \in {"asked", "error", "cancelled"} :
           proc' = [proc EXCEPT ![p].at = "caught", ![p].outcome = o] /\ (p = Worker => o # "cancelled")
    BY <1>17, <2>0 DEF RecordAskFails, ProviderFails
  <2> DEFINE q == [proc[p] EXCEPT !.at = "caught", !.outcome = o]
  <2>2. Like(p, proc[p]) /\ proc[p].at \in {"asked", "model"}
    BY <1>17 DEF RecordAskFails, ProviderFails, At, Processes
  <2>3. q \in ProcType
    BY <2>2 DEF Like, ProcType, Places, Outcomes
  <2>4. Like(p, q)
    BY <2>1, <2>2, <2>3 DEF Like, WebLike, WorkerLike, ProcType, Calling, Resuming
  <2> QED
    BY <2>1, <2>4, OneMoves
<1>18. ASSUME NEW p \in Procs, Answer(p) PROVE Processes'
  <2>1. PICK o \in {"text", "empty"} :
           proc' = [proc EXCEPT ![p].outcome = o,
                                ![p].at = IF p = Worker THEN "consume"
                                          ELSE IF o = "text" THEN "complete" ELSE "caught"]
    BY <1>18 DEF Answer
  <2> DEFINE a == IF p = Worker THEN "consume" ELSE IF o = "text" THEN "complete" ELSE "caught"
             q == [proc[p] EXCEPT !.outcome = o, !.at = a]
  <2>2. a \in {"consume", "complete", "caught"} /\ (p # Worker => a # "consume")
    OBVIOUS
  <2> HIDE DEF a
  <2>3. Like(p, q)
    BY <1>18, <2>2
       DEF Answer, At, Processes, Like, WebLike, WorkerLike, ProcType, Calling, Resuming,
                 Places, Outcomes
  <2> QED
    BY <2>1, <2>3, OneMoves DEF a
<1>19. ASSUME NEW r \in Runs, Fallback(r) PROVE Processes'
  <2> DEFINE q == [proc[r] EXCEPT !.at = "model", !.attempt = proc[r].attempt + 1, !.outcome = "none"]
  <2>1. Like(r, q)
    BY <1>19, BoundsAssumption
       DEF Fallback, At, Processes, Like, WebLike, ProcType, Calling, Resuming, Places, Outcomes
  <2> QED
    BY <1>19, <2>1, OneMoves DEF Fallback
<1>20. ASSUME NEW r \in Runs, NEW k \in Asks, TakeResume(r, k) PROVE Processes'
  <2> DEFINE q == [NoProc EXCEPT !.at = "approval", !.run = r, !.ask = k, !.call = <<"asked", k>>]
  <2>1. Like(Worker, q)
    BY Rest DEF Like, WorkerLike, ProcType, NoProc, Calling, Places
  <2> QED
    BY <1>20, <2>1, OneMoves DEF TakeResume
<1>21. ASSUME ReadApproval PROVE Processes'
  <2>1. CASE Raise
    BY <1>4, <2>1
  <2>2. ASSUME NEW b \in BOOLEAN, proc' = [proc EXCEPT ![Worker].at = "checkpoint", ![Worker].approved = b]
        PROVE  Processes'
    <3> DEFINE q == [proc[Worker] EXCEPT !.at = "checkpoint", !.approved = b]
    <3>1. Like(Worker, q)
      BY <1>21
         DEF ReadApproval, At, Processes, Like, WorkerLike, ProcType, Calling, Resuming,
             Places
    <3> QED
      BY <2>2, <3>1, OneMoves
  <2> QED
    BY <1>21, <2>1, <2>2 DEF ReadApproval
<1>22. ASSUME Reopen PROVE Processes'
  BY <1>22, Goes DEF Reopen, At, Places, Resuming, Calling, Processes, Like, WorkerLike
<1>23. ASSUME WebCrash PROVE Processes'
  BY <1>23, Rest DEF WebCrash, Processes, Like, Procs, At
<1> QED
  BY <1>1, <1>2, <1>3, <1>4, <1>5, <1>6, <1>7, <1>8, <1>9, <1>10, <1>11, <1>12, <1>13, <1>14, <1>15,
     <1>16, <1>17, <1>18, <1>19, <1>20, <1>21, <1>22, <1>23
  DEF Next, Execute, executeAgentRun, streamAgentRun, streamAiSdkCandidate, executeAiSdkCandidate,
      resumeAgentRunAfterApproval, decideToolApproval, cancelAgentRun, Procs

\* What a process that is at work works on.
LEMMA Working ==
    ASSUME Processes, NEW p \in Procs, proc[p].at \notin {"idle", "done"}
    PROVE  /\ RunOf(p) \in Runs /\ proc[p].call \in CallIds
           /\ p = Worker => proc[p].ask \in Asks
           /\ p # Worker => RunOf(p) = p
           /\ proc[p].at \in {"ask", "asked"} =>
                 proc[p].call[2] \in Asks /\ proc[p].call = <<"asked", proc[p].call[2]>>
<1>1. proc[p] \in ProcType /\ Like(p, proc[p])
  BY DEF Processes
<1> QED
  BY <1>1, Params DEF Like, WorkerLike, WebLike, ProcType, RunOf, CallIds, Procs

\* The worker consumes a decision and returns, or answers.
LEMMA Consumes ==
    ASSUME Processes, Consume
    PROVE  /\ proc[Worker].outcome \in {"asked", "text", "empty"}
           /\ Raise \/ Return \/ Goto(Worker, "complete")
<1>1. proc[Worker].outcome \in {"asked", "text", "empty"}
  BY Params DEF Consume, At, Processes, Like, WorkerLike
<1> QED
  BY <1>1 DEF Consume

-----------------------------------------------------------------------------
(* The rows of the database and the people.                                *)

\* One cell of a table changes.
LEMMA Cell ==
    ASSUME NEW A, NEW B, NEW T, NEW f \in [A -> [B -> T]], NEW a \in A, NEW b \in B, NEW v \in T
    PROVE  [f EXCEPT ![a][b] = v] \in [A -> [B -> T]]
OBVIOUS

\* A table nobody writes.
LEMMA Kept ==
    ASSUME Rows
    PROVE  /\ UNCHANGED run => RunRows'
           /\ UNCHANGED msg => Messages'
           /\ UNCHANGED ckpt => Checkpoints'
           /\ UNCHANGED appr => Approvals'
           /\ UNCHANGED ruled => Rulings'
           /\ UNCHANGED call => Calls'
           /\ UNCHANGED sent => Sendings'
           /\ UNCHANGED row => Tasks'
BY DEF Rows, RunRows, Messages, Checkpoints, Approvals, Rulings, Calls, Sendings, Tasks

\* A table with one row or cell written.
LEMMA Written ==
    ASSUME Rows, NEW r \in Runs
    PROVE  /\ \A s \in RunStates : run' = [run EXCEPT ![r].status = s] => RunRows'
           /\ \A s \in MsgStates : msg' = [msg EXCEPT ![r] = s] => Messages'
           /\ \A k \in 0..MaxAsks : ckpt' = [ckpt EXCEPT ![r] = k] => Checkpoints'
           /\ \A k \in Asks, s \in ApprStates : appr' = [appr EXCEPT ![r][k] = s] => Approvals'
           /\ \A k \in Asks, s \in Decided : ruled' = [ruled EXCEPT ![r][k] = s] => Rulings'
           /\ \A c \in CallIds, s \in CallStates : call' = [call EXCEPT ![r][c] = s] => Calls'
           /\ \A c \in CallIds : sent' = [sent EXCEPT ![r][c] = @ + 1] => Sendings'
           /\ \A k \in Asks, q \in RowType : row' = [row EXCEPT ![r][k] = q] => Tasks'
<1>1. \A s \in RunStates : run' = [run EXCEPT ![r].status = s] => RunRows'
  BY DEF Rows, RunRows, RunType
<1>2. /\ \A s \in MsgStates : msg' = [msg EXCEPT ![r] = s] => Messages'
      /\ \A k \in 0..MaxAsks : ckpt' = [ckpt EXCEPT ![r] = k] => Checkpoints'
  BY DEF Rows, Messages, Checkpoints
<1>3. \A k \in Asks, s \in ApprStates : appr' = [appr EXCEPT ![r][k] = s] => Approvals'
  BY Cell DEF Rows, Approvals
<1>4. \A k \in Asks, s \in Decided : ruled' = [ruled EXCEPT ![r][k] = s] => Rulings'
  BY Cell DEF Rows, Rulings
<1>5. \A c \in CallIds, s \in CallStates : call' = [call EXCEPT ![r][c] = s] => Calls'
  BY Cell DEF Rows, Calls
<1>6. \A c \in CallIds : sent' = [sent EXCEPT ![r][c] = @ + 1] => Sendings'
  BY DEF Rows, Sendings
<1>7. \A k \in Asks, q \in RowType : row' = [row EXCEPT ![r][k] = q] => Tasks'
  BY Cell DEF Rows, Tasks
<1> QED
  BY <1>1, <1>2, <1>3, <1>4, <1>5, <1>6, <1>7

\* The states of a task's row.
LEMMA RowSteps ==
    ASSUME Rows, NEW r \in Runs, NEW k \in Asks
    PROVE  /\ Absent \in RowType /\ added(row[r][k]) \in RowType /\ taken(row[r][k]) \in RowType
           /\ returned(row[r][k], Tries) \in RowType
BY DEF Rows, Tasks, RowType, RowStates, Absent, added, taken, returned

\* The worker's task ends.
LEMMA TaskEnds ==
    ASSUME Processes, Rows, ~At(Worker, "idle"), Raise \/ Return
    PROVE  Tasks'
<1>1. RunOf(Worker) \in Runs /\ proc[Worker].ask \in Asks
  BY Working, Params DEF At, Processes, Like, WorkerLike
<1> QED
  BY <1>1, RowSteps, Written DEF Raise, Return

\* Every step leaves well-formed rows.
LEMMA StepRows ==
    ASSUME Processes, Rows, People, Next
    PROVE  Rows'
<1> USE Params DEF At
<1>1. ASSUME NEW p \in Procs, Duplicate(p) \/ RecordAsk(p) \/ RecordAskFails(p) \/ Answer(p) \/ ProviderFails(p)
      PROVE  Rows'
  BY <1>1, Kept DEF Rows, Duplicate, RecordAsk, RecordAskFails, Answer, ProviderFails
<1>2. ASSUME NEW r \in Runs, Leave(r) \/ CallTool(r) \/ Fallback(r) \/ CancelRead(r) PROVE Rows'
  BY <1>2, Kept DEF Rows, Leave, CallTool, Fallback, CancelRead
<1>3. ASSUME NEW p \in Procs, Reserve(p) \/ Send(p) \/ Settle(p) PROVE Rows'
  BY <1>3, Kept, Written, Working DEF Rows, Reserve, Send, Settle, CallStates
<1>4. ASSUME NEW p \in Procs, Ask(p) PROVE Rows'
  BY <1>4, Kept, Written, Working DEF Rows, Ask
<1>5. ASSUME NEW p \in Procs, RequestApproval(p) \/ FailRun(p) PROVE Rows'
  BY <1>5, Kept, Written, Working
     DEF Rows, RequestApproval, FailRun, RunStates, Active, Ended, MsgStates, ApprStates
<1>6. ASSUME NEW p \in Procs, Tidy(p) PROVE Rows'
  BY <1>6, Kept, Written, Working, TaskEnds DEF Rows, Tidy
<1>7. ASSUME NEW r \in Runs, Prepare(r) \/ Delta(r) \/ SaveProgress(r) \/ CompleteRun(r) \/ CancelTidy(r)
      PROVE  Rows'
  <2>1. msg[r] \in MsgStates
    BY DEF Rows, Messages
  <2> QED
    BY <1>7, <2>1, Kept, Written
       DEF Rows, Prepare, Delta, SaveProgress, CompleteRun, CancelTidy, RunStates, Active, Ended, MsgStates
<1>8. ASSUME NEW d \in Deciders,
             \/ decideToolApproval(d)
             \/ \E r \in Runs, k \in Asks : DecideRead(d, r, k)
      PROVE  Rows'
  <2>1. decider[d].at # "idle" => decider[d].run \in Runs /\ decider[d].ask \in Asks
    BY DEF People
  <2> QED
    <3>1. CASE DecideLate(d)
      BY <3>1, <2>1, Kept, Written DEF Rows, DecideLate, ApprStates
    <3>2. CASE Decide(d)
      BY <3>2, <2>1, Kept, Written DEF Rows, Decide, ApprStates, Decided
    <3>3. CASE QueueResume(d)
      BY <3>3, <2>1, Kept, Written, RowSteps DEF Rows, QueueResume
    <3> QED
      BY <1>8, <3>1, <3>2, <3>3, Kept DEF Rows, decideToolApproval, DecideRead, DecideConflict
<1>9. ASSUME NEW r \in Runs, NEW k \in Asks, Expire(r, k) \/ TakeResume(r, k) PROVE Rows'
  BY <1>9, Kept, Written, RowSteps DEF Rows, Expire, TakeResume, ApprStates
<1>10. ASSUME NEW r \in Runs, CancelWrite(r) PROVE Rows'
  <2>1. CASE cancel[r].read = "waiting"
    <3> DEFINE states == [k \in Asks |-> IF appr[r][k] = "pending" THEN "expired" ELSE appr[r][k]]
    <3> DEFINE q == [status |-> "cancelled", cancelReq |-> TRUE]
               m == IF msg[r] = "none" THEN msg[r] ELSE "cancelled"
    <3>0. run' = [run EXCEPT ![r] = q] /\ msg' = [msg EXCEPT ![r] = m]
      BY <1>10, <2>1 DEF CancelWrite
    <3>1. RunRows' /\ Messages'
      <4>1. q \in RunType /\ m \in MsgStates
        BY DEF RunType, RunStates, Ended, MsgStates, Rows, Messages
      <4> QED
        BY <3>0, <4>1, Written DEF Rows, RunRows
    <3>2. states \in [Asks -> ApprStates]
      BY DEF Rows, Approvals, ApprStates
    <3>3. appr' = [appr EXCEPT ![r] = states]
      BY <1>10, <2>1 DEF CancelWrite
    <3>4. Approvals'
      BY <3>2, <3>3 DEF Rows, Approvals
    <3> QED
      BY <1>10, <2>1, <3>1, <3>4, Kept DEF CancelWrite, Rows
  <2>2. CASE cancel[r].read # "waiting"
    <3>1. RunRows'
      BY <1>10, <2>2 DEF CancelWrite, Rows, RunRows, RunType
    <3> QED
      BY <1>10, <2>2, <3>1, Kept DEF CancelWrite, Rows
  <2> QED
    BY <2>1, <2>2
<1>11. ASSUME LoadCheckpoint \/ ReadRun \/ ReadApproval PROVE Rows'
  BY <1>11, Kept, TaskEnds DEF Rows, LoadCheckpoint, ReadRun, ReadApproval
<1>12. ASSUME Reopen PROVE Rows'
  BY <1>12, Kept, Written, Working DEF Rows, Reopen, RunStates, Active
<1>13. ASSUME Consume PROVE Rows'
  <2>1. proc[Worker].outcome \in {"asked", "text", "empty"} /\ RunOf(Worker) \in Runs /\ proc[Worker].ask \in Asks
    BY <1>13, Working DEF Consume, Processes, Like, WorkerLike
  <2>2. UNCHANGED row \/ Raise \/ Return
    BY <1>13, <2>1 DEF Consume
  <2>3. UNCHANGED appr \/ appr' = [appr EXCEPT ![RunOf(Worker)][proc[Worker].ask] = "consumed"]
    BY <1>13 DEF Consume
  <2>4. Tasks' /\ Approvals'
    BY <1>13, <2>1, <2>2, <2>3, Kept, Written, TaskEnds DEF Consume, ApprStates
  <2> QED
    BY <1>13, <2>4, Kept DEF Consume, Rows
<1>14. ASSUME CompleteResumed \/ CompleteRefused \/ WorkerCrash PROVE Rows'
  BY <1>14, Kept, Written, Working, TaskEnds
     DEF Rows, CompleteResumed, CompleteRefused, WorkerCrash, RunStates, MsgStates, Ended
<1>15. ASSUME WebCrash PROVE Rows'
  BY <1>15, Kept DEF Rows, WebCrash
<1> QED
  BY <1>1, <1>2, <1>3, <1>4, <1>5, <1>6, <1>7, <1>8, <1>9, <1>10, <1>11, <1>12, <1>13, <1>14, <1>15
  DEF Next, Execute, executeAgentRun, streamAgentRun, streamAiSdkCandidate, executeAiSdkCandidate,
      resumeAgentRunAfterApproval, cancelAgentRun, Procs

\* Every step leaves people who decide on asked calls or cancel runs.
LEMMA StepPeople ==
    ASSUME Processes, Rows, People, Next
    PROVE  People'
<1> USE Params
<1>1. ASSUME UNCHANGED <<decider, cancel>> PROVE People'
  BY <1>1 DEF People
<1>2. ASSUME NEW r \in Runs, CancelRead(r) \/ CancelWrite(r) \/ CancelTidy(r) PROVE People'
  <2>1. UNCHANGED decider
    BY <1>2 DEF CancelRead, CancelWrite, CancelTidy
  <2>2. \E a \in {"write", "tidy", "done"}, b \in {"none"} \cup Active :
           \/ cancel' = [cancel EXCEPT ![r] = [at |-> a, read |-> b]]
           \/ cancel' = [cancel EXCEPT ![r].at = a]
    BY <1>2 DEF CancelRead, CancelWrite, CancelTidy, Spent
  <2> QED
    BY <2>1, <2>2 DEF People
<1>3. ASSUME NEW d \in Deciders, DecideLate(d) \/ Decide(d) \/ DecideConflict(d) \/ QueueResume(d)
      PROVE  People'
  <2>1. NoDecision \in DeciderType /\ NoDecision.at = "idle"
    BY DEF NoDecision, DeciderType
  <2>2. UNCHANGED cancel /\ \/ decider' = [decider EXCEPT ![d] = NoDecision]
                            \/ decider' = [decider EXCEPT ![d].at = "queue"] /\ decider[d].at = "write"
    BY <1>3 DEF DecideLate, Decide, DecideConflict, QueueResume
  <2> QED
    BY <2>1, <2>2 DEF People, DeciderType
<1>4. ASSUME NEW d \in Deciders, NEW r \in Runs, NEW k \in Asks, DecideRead(d, r, k) PROVE People'
  <2>1. PICK late \in BOOLEAN :
           decider' = [decider EXCEPT ![d] = [at |-> "write", run |-> r, ask |-> k, late |-> late]]
    BY <1>4 DEF DecideRead
  <2> DEFINE q == [at |-> "write", run |-> r, ask |-> k, late |-> late]
  <2>2. q \in DeciderType /\ q.run \in Runs /\ q.ask \in Asks
    BY DEF DeciderType, Procs
  <2> HIDE DEF q
  <2>3. decider' = [decider EXCEPT ![d] = q] /\ UNCHANGED cancel
    BY <1>4, <2>1 DEF DecideRead, q
  <2> QED
    BY <2>2, <2>3 DEF People
<1>5. ASSUME WebCrash PROVE People'
  <2>1. NoDecision \in DeciderType /\ NoDecision.at = "idle"
    BY DEF NoDecision, DeciderType
  <2> QED
    BY <1>5, <2>1 DEF WebCrash, People, Spent
<1>6. ASSUME NEW p \in Procs,
             executeAiSdkCandidate(p) \/ FailRun(p) \/ Tidy(p)
      PROVE  People'
  <2>1. CASE Reserve(p) \/ Duplicate(p) \/ Send(p) \/ Settle(p) \/ Ask(p) \/ RequestApproval(p)
    BY <1>1, <2>1 DEF Reserve, Duplicate, Send, Settle, Ask, RequestApproval
  <2>2. CASE RecordAsk(p) \/ RecordAskFails(p) \/ Answer(p) \/ ProviderFails(p) \/ FailRun(p) \/ Tidy(p)
    BY <1>1, <2>2 DEF RecordAsk, RecordAskFails, Answer, ProviderFails, FailRun, Tidy
  <2> QED
    BY <1>6, <2>1, <2>2 DEF executeAiSdkCandidate
<1>7. ASSUME NEW r \in Runs,
             \/ Prepare(r) \/ Delta(r) \/ Leave(r) \/ CallTool(r) \/ SaveProgress(r) \/ Fallback(r)
             \/ CompleteRun(r)
      PROVE  People'
  BY <1>1, <1>7 DEF Prepare, Delta, Leave, CallTool, SaveProgress, Fallback, CompleteRun
<1>8. ASSUME NEW r \in Runs, NEW k \in Asks, Expire(r, k) \/ TakeResume(r, k) PROVE People'
  BY <1>1, <1>8 DEF Expire, TakeResume
<1>9. ASSUME \/ ReadApproval \/ LoadCheckpoint \/ ReadRun \/ Reopen
             \/ Consume \/ CompleteResumed \/ CompleteRefused \/ WorkerCrash
      PROVE  People'
  BY <1>1, <1>9 DEF ReadApproval, LoadCheckpoint, ReadRun, Reopen, Consume, CompleteResumed,
                    CompleteRefused, WorkerCrash
<1> QED
  BY <1>2, <1>3, <1>4, <1>5, <1>6, <1>7, <1>8, <1>9
  DEF Next, Execute, executeAgentRun, streamAgentRun, streamAiSdkCandidate, resumeAgentRunAfterApproval,
      decideToolApproval, cancelAgentRun, Procs

-----------------------------------------------------------------------------
(* Calls are sent once.                                                    *)

\* A step that neither reserves nor sends.
LEMMA NobodySends ==
    ASSUME Sent, Processes, UNCHANGED <<call, sent>>,
           \A p \in Procs : proc'[p].at = "send" => /\ proc[p].at = "send" /\ proc'[p].run = proc[p].run
                                                    /\ proc'[p].call = proc[p].call
    PROVE  Sent'
BY DEF Sent, RunOf

\* No step sends a call twice, and what was not settled was not sent.
LEMMA StepSent ==
    ASSUME IInv, Processes', Next
    PROVE  Sent'
<1> USE Params DEF At
<1>0. Processes /\ Rows /\ Sent
  BY DEF IInv
<1> DEFINE Still == \A p \in Procs : proc'[p].at = "send" => /\ proc[p].at = "send"
                                                             /\ proc'[p].run = proc[p].run
                                                             /\ proc'[p].call = proc[p].call
           Moves(p) == \A o \in Procs \ {p} : proc'[o] = proc[o]
<1>1. ASSUME NEW p \in Procs, Moves(p), proc'[p].at # "send" PROVE Still
  BY <1>1
<1>2. ASSUME NEW p \in Procs, Reserve(p) PROVE Sent'
  <2>1. p # Worker => proc[p].call[1] = "plain"
    BY <1>0, <1>2 DEF Reserve, Processes, Like, WebLike, Calling
  <2> DEFINE r == RunOf(p)  c == proc[p].call
  <2>2. r \in Runs /\ c \in CallIds /\ call[r][c] = "none" /\ call' = [call EXCEPT ![r][c] = "running"]
    BY <1>0, <1>2, Working DEF Reserve
  <2>3. UNCHANGED sent /\ proc' = [proc EXCEPT ![p].at = "send"]
    BY <1>2 DEF Reserve, Goto
  <2>4. \A o \in Procs : proc'[o].run = proc[o].run /\ proc'[o].call = proc[o].call
                         /\ (o # p => proc'[o].at = proc[o].at)
    BY <1>0, <2>3 DEF Processes, ProcType
  <2> QED
    BY <1>0, <2>2, <2>3, <2>4 DEF Sent, Rows, Calls, Sendings, RunOf
<1>3. ASSUME NEW p \in Procs, Send(p) PROVE Sent'
  <2> DEFINE r == RunOf(p)  c == proc[p].call
  <2>1. r \in Runs /\ c \in CallIds /\ sent' = [sent EXCEPT ![r][c] = @ + 1] /\ UNCHANGED call
    BY <1>0, <1>3, Working DEF Send
  <2>2. proc' = [proc EXCEPT ![p].at = "settle"]
    BY <1>3 DEF Send, Goto
  <2>3. \A o \in Procs : proc'[o].run = proc[o].run /\ proc'[o].call = proc[o].call
                         /\ (o # p => proc'[o].at = proc[o].at) /\ proc'[p].at = "settle"
    BY <1>0, <2>2 DEF Processes, ProcType
  <2>4. \A o \in Procs : proc[o].at = "send" /\ o # p => ~(RunOf(o) = r /\ proc[o].call = c)
    BY <1>0, <1>3 DEF Send, Processes, Like, WebLike, WorkerLike, Calling, RunOf, Procs
  <2>5. /\ sent[r][c] = 0 /\ sent'[r][c] = 1 /\ call[r][c] # "none"
        /\ \A t \in Runs, b \in CallIds : ~(t = r /\ b = c) => sent'[t][b] = sent[t][b]
    BY <1>0, <1>3, <2>1 DEF Send, Sent, Rows, Sendings
  <2>6. \A t \in Runs, b \in CallIds : (call'[t][b] = "none" => sent'[t][b] = 0) /\ sent'[t][b] <= 1
    BY <1>0, <2>1, <2>5 DEF Sent
  <2>7. ASSUME NEW o \in Procs, proc'[o].at = "send"
        PROVE  sent'[proc'[o].run][proc'[o].call] = 0 /\ call'[proc'[o].run][proc'[o].call] # "none"
    <3>1. o # p /\ proc[o].at = "send"
      BY <2>3, <2>7
    <3>2. RunOf(o) \in Runs /\ proc[o].call \in CallIds
      BY <1>0, <3>1, Working
    <3>3. proc'[o].run = RunOf(o) /\ proc'[o].call = proc[o].call
      BY <2>3 DEF RunOf
    <3>4. sent[RunOf(o)][proc[o].call] = 0 /\ call[RunOf(o)][proc[o].call] # "none"
      BY <1>0, <3>1 DEF Sent
    <3> QED
      BY <2>1, <2>4, <2>5, <3>1, <3>2, <3>3, <3>4
  <2> QED
    BY <2>6, <2>7 DEF Sent, RunOf
<1>4. ASSUME NEW p \in Procs, Settle(p) PROVE Sent'
  <2> DEFINE r == RunOf(p)  c == proc[p].call
  <2>1. r \in Runs /\ c \in CallIds /\ UNCHANGED sent
        /\ \E s \in CallStates \ {"none"} : call' = [call EXCEPT ![r][c] = s]
    BY <1>0, <1>4, Working DEF Settle, CallStates
  <2>2. proc' = [proc EXCEPT ![p].at = "model"]
    BY <1>4 DEF Settle, Goto
  <2>3. \A o \in Procs : proc'[o].run = proc[o].run /\ proc'[o].call = proc[o].call
                         /\ (o # p => proc'[o].at = proc[o].at) /\ proc'[p].at = "model"
    BY <1>0, <2>2 DEF Processes, ProcType
  <2>4. \A t \in Runs, b \in CallIds : call'[t][b] = "none" => call[t][b] = "none"
    BY <1>0, <2>1 DEF Rows, Calls
  <2>5. \A t \in Runs, b \in CallIds : call[t][b] # "none" => call'[t][b] # "none"
    BY <1>0, <2>1 DEF Rows, Calls
  <2>6. ASSUME NEW o \in Procs, proc'[o].at = "send"
        PROVE  sent'[proc'[o].run][proc'[o].call] = 0 /\ call'[proc'[o].run][proc'[o].call] # "none"
    <3>1. o # p /\ proc[o].at = "send" /\ proc'[o].run = RunOf(o) /\ proc'[o].call = proc[o].call
      BY <2>3, <2>6 DEF RunOf
    <3>2. RunOf(o) \in Runs /\ proc[o].call \in CallIds
      BY <1>0, <3>1, Working
    <3> QED
      BY <1>0, <2>1, <2>5, <3>1, <3>2 DEF Sent
  <2> QED
    BY <1>0, <2>1, <2>4, <2>6 DEF Sent, RunOf
<1>5. ASSUME UNCHANGED <<call, sent>>, Still PROVE Sent'
  BY <1>0, <1>5, NobodySends
<1>6. ASSUME NEW p \in Procs, NEW a \in Places \ {"send"}, Goto(p, a), UNCHANGED <<call, sent>>
      PROVE  Sent'
  <2>1. Moves(p) /\ proc'[p].at # "send"
    BY <1>0, <1>6, Rest DEF Goto, Processes, ProcType
  <2> QED
    BY <1>1, <1>5, <1>6, <2>1
<1>7. ASSUME Raise \/ Return, UNCHANGED <<call, sent>> PROVE Sent'
  <2>1. Moves(Worker) /\ proc'[Worker].at # "send"
    BY <1>0, <1>7, Rest DEF Raise, Return, Processes
  <2> QED
    BY <1>1, <1>5, <1>7, <2>1
<1>8. ASSUME UNCHANGED <<call, sent, proc>> PROVE Sent'
  BY <1>5, <1>8
<1>9. ASSUME NEW p \in Procs, Duplicate(p) \/ RequestApproval(p) \/ RecordAsk(p) \/ FailRun(p) \/ Tidy(p)
      PROVE  Sent'
  BY <1>6, <1>7, <1>9 DEF Duplicate, RequestApproval, RecordAsk, FailRun, Tidy, Places
<1>10. ASSUME NEW p \in Procs, Ask(p) \/ RecordAskFails(p) \/ Answer(p) \/ ProviderFails(p) PROVE Sent'
  <2>1. Moves(p) /\ proc'[p].at # "send" /\ UNCHANGED <<call, sent>>
    <3>1. CASE Ask(p)
      <4>1. \E c : proc' = [proc EXCEPT ![p].at = "ask", ![p].outcome = "asked", ![p].call = c]
        BY <3>1 DEF Ask
      <4> QED
        BY <1>0, <3>1, <4>1 DEF Ask, Processes, ProcType
    <3>2. CASE Answer(p)
      <4>1. \E a \in {"consume", "complete", "caught"}, o \in {"text", "empty"} :
               proc' = [proc EXCEPT ![p].outcome = o, ![p].at = a]
        BY <3>2 DEF Answer
      <4> QED
        BY <1>0, <3>2, <4>1 DEF Answer, Processes, ProcType
    <3>3. CASE RecordAskFails(p) \/ ProviderFails(p)
      BY <1>0, <3>3 DEF RecordAskFails, ProviderFails, Processes, ProcType
    <3> QED
      BY <1>10, <3>1, <3>2, <3>3
  <2> QED
    BY <1>1, <1>5, <2>1
<1>11. ASSUME NEW r \in Runs, SaveProgress(r) \/ CompleteRun(r) PROVE Sent'
  BY <1>6, <1>11 DEF SaveProgress, CompleteRun, Places
<1>12. ASSUME NEW r \in Runs, Prepare(r) \/ CallTool(r) \/ Fallback(r) PROVE Sent'
  <2>1. Moves(r) /\ proc'[r].at # "send" /\ UNCHANGED <<call, sent>>
    <3>1. CASE Prepare(r)
      BY <1>0, <3>1 DEF Prepare, Processes, ProcType, NoProc
    <3>2. CASE CallTool(r) \/ Fallback(r)
      BY <1>0, <3>2 DEF CallTool, Fallback, Processes, ProcType
    <3> QED
      BY <1>12, <3>1, <3>2
  <2> QED
    BY <1>1, <1>5, <2>1
<1>13. ASSUME NEW r \in Runs, Delta(r) \/ Leave(r) \/ CancelRead(r) PROVE Sent'
  <2>1. /\ Moves(r) /\ UNCHANGED <<call, sent>>
        /\ proc'[r].at = proc[r].at /\ proc'[r].run = proc[r].run /\ proc'[r].call = proc[r].call
    BY <1>0, <1>13 DEF Delta, Leave, CancelRead, Processes, ProcType
  <2> QED
    BY <1>5, <2>1
<1>14. ASSUME NEW r \in Runs, CancelWrite(r) \/ CancelTidy(r) \/ \E k \in Asks : Expire(r, k)
       PROVE  Sent'
  BY <1>8, <1>14 DEF CancelWrite, CancelTidy, Expire
<1>15. ASSUME NEW d \in Deciders,
              \/ decideToolApproval(d)
              \/ \E r \in Runs, k \in Asks : DecideRead(d, r, k)
       PROVE  Sent'
  BY <1>8, <1>15 DEF decideToolApproval, DecideRead, DecideLate, Decide, DecideConflict, QueueResume
<1>16. ASSUME NEW r \in Runs, NEW k \in Asks, TakeResume(r, k) PROVE Sent'
  <2>1. Moves(Worker) /\ proc'[Worker].at # "send" /\ UNCHANGED <<call, sent>>
    BY <1>0, <1>16 DEF TakeResume, Processes, ProcType, NoProc
  <2> QED
    BY <1>1, <1>5, <2>1
<1>17. ASSUME ReadApproval PROVE Sent'
  <2>1. Raise \/ (Moves(Worker) /\ proc'[Worker].at # "send")
    BY <1>0, <1>17 DEF ReadApproval, Processes, ProcType
  <2> QED
    BY <1>1, <1>5, <1>7, <1>17, <2>1 DEF ReadApproval
<1>18. ASSUME LoadCheckpoint \/ ReadRun \/ Reopen PROVE Sent'
  BY <1>6, <1>7, <1>18 DEF LoadCheckpoint, ReadRun, Reopen, Places
<1>19. ASSUME Consume PROVE Sent'
  <2>1. proc[Worker].outcome \in {"asked", "text", "empty"}
    BY <1>0, <1>19 DEF Consume, Processes, Like, WorkerLike
  <2>2. Raise \/ Return \/ Goto(Worker, "complete")
    BY <1>19, <2>1 DEF Consume
  <2> QED
    BY <1>6, <1>7, <1>19, <2>2 DEF Consume, Places
<1>20. ASSUME CompleteResumed \/ CompleteRefused \/ WorkerCrash PROVE Sent'
  BY <1>7, <1>20 DEF CompleteResumed, CompleteRefused, WorkerCrash
<1>21. ASSUME WebCrash PROVE Sent'
  <2>1. Still /\ UNCHANGED <<call, sent>>
    BY <1>0, <1>21, Rest DEF WebCrash, Processes
  <2> QED
    BY <1>5, <2>1
<1> QED
  BY <1>2, <1>3, <1>4, <1>9, <1>10, <1>11, <1>12, <1>13, <1>14, <1>15, <1>16, <1>17, <1>18,
     <1>19, <1>20,
     <1>21
  DEF Next, Execute, executeAgentRun, streamAgentRun, streamAiSdkCandidate, executeAiSdkCandidate,
      resumeAgentRunAfterApproval, cancelAgentRun, Procs

-----------------------------------------------------------------------------
(* Completed runs have their answer.                                       *)

\* No step completes a run without its answer, nor takes the answer away.
LEMMA StepWhole ==
    ASSUME IInv, Next
    PROVE  Whole'
<1>0. Processes /\ Rows /\ Whole
  BY DEF IInv
<1>1. ASSUME NEW p \in Procs, Reserve(p) \/ Duplicate(p) \/ Send(p) PROVE Whole'
  BY <1>0, <1>1, Params, Working, Rest
     DEF Processes, Like, WebLike, ProcType, Rows, RunRows, RunType,
     Messages, At, Goto, Whole, CompletedHasItsAnswer, Reserve, Duplicate, Send
<1>2. ASSUME NEW p \in Procs, Settle(p) \/ RecordAsk(p) \/ RecordAskFails(p) PROVE Whole'
  BY <1>0, <1>2, Params, Working, Rest
     DEF Processes, Like, WebLike, ProcType, Rows, RunRows, RunType,
     Messages, At, Goto, Whole, CompletedHasItsAnswer, Settle, RecordAsk, RecordAskFails
<1>3. ASSUME NEW p \in Procs, Answer(p) PROVE Whole'
  BY <1>0, <1>3, Params, Working, Rest
     DEF Processes, Like, WebLike, ProcType, Rows, RunRows, RunType,
     Messages, At, Whole, CompletedHasItsAnswer, Answer
<1>4. ASSUME NEW p \in Procs, ProviderFails(p) PROVE Whole'
  BY <1>0, <1>4, Params, Working, Rest
     DEF Processes, Like, WebLike, ProcType, Rows, RunRows, RunType,
     Messages, At, Whole, CompletedHasItsAnswer, ProviderFails
<1>5. ASSUME NEW p \in Procs, Ask(p) PROVE Whole'
  BY <1>0, <1>5, Params, Working, Rest
     DEF Processes, Like, WebLike, ProcType, Rows, RunRows, RunType,
     Messages, At, Whole, CompletedHasItsAnswer, Ask
<1>6. ASSUME NEW p \in Procs, RequestApproval(p) PROVE Whole'
  BY <1>0, <1>6, Params, Working, Rest
     DEF Processes, Like, WebLike, ProcType, Rows, RunRows, RunType,
     Messages, At, Goto, Whole, CompletedHasItsAnswer, RequestApproval
<1>7. ASSUME NEW p \in Procs, FailRun(p) PROVE Whole'
  BY <1>0, <1>7, Params, Working, Rest
     DEF Processes, Like, WebLike, ProcType, Rows, RunRows, RunType,
     Messages, At, Goto, Whole, CompletedHasItsAnswer, FailRun
<1>8. ASSUME NEW p \in Procs, Tidy(p) PROVE Whole'
  BY <1>0, <1>8, Params, Working, Rest
     DEF Processes, Like, WebLike, ProcType, Rows, RunRows, RunType,
     Messages, At, Goto, Raise, Whole, CompletedHasItsAnswer, Tidy
<1>9. ASSUME NEW r \in Runs, Prepare(r) PROVE Whole'
  BY <1>0, <1>9, Params, Working, Rest
     DEF Processes, Like, WebLike, ProcType, Rows, RunRows, RunType,
     Messages, At, Whole, CompletedHasItsAnswer, Prepare
<1>10. ASSUME NEW r \in Runs, Leave(r) PROVE Whole'
  BY <1>0, <1>10, Params, Working, Rest
     DEF Processes, Like, WebLike, ProcType, Rows, RunRows, RunType,
     Messages, Whole, CompletedHasItsAnswer, Leave
<1>11. ASSUME NEW r \in Runs, CallTool(r) PROVE Whole'
  BY <1>0, <1>11, Params, Working, Rest
     DEF Processes, Like, WebLike, ProcType, Rows, RunRows, RunType,
     Messages, At, Whole, CompletedHasItsAnswer, CallTool
<1>12. ASSUME NEW r \in Runs, SaveProgress(r) PROVE Whole'
  BY <1>0, <1>12, Params, Working, Rest
     DEF Processes, Like, WebLike, ProcType, Rows, RunRows, RunType,
     Messages, At, Goto, Whole, CompletedHasItsAnswer, SaveProgress
<1>13. ASSUME NEW r \in Runs, CompleteRun(r) PROVE Whole'
  BY <1>0, <1>13, Params, Working, Rest
     DEF Processes, Like, WebLike, ProcType, Rows, RunRows, RunType,
     Messages, At, Goto, Whole, CompletedHasItsAnswer, CompleteRun
<1>14. ASSUME NEW r \in Runs, Fallback(r) PROVE Whole'
  BY <1>0, <1>14, Params, Working, Rest
     DEF Processes, Like, WebLike, ProcType, Rows, RunRows, RunType,
     Messages, At, Whole, CompletedHasItsAnswer, Fallback
<1>15. ASSUME NEW r \in Runs, Delta(r) PROVE Whole'
  <2>1. /\ msg' = [msg EXCEPT ![r] = IF @ = "none" THEN "streaming" ELSE @] /\ UNCHANGED run
        /\ proc' = [proc EXCEPT ![r].text = TRUE] /\ proc[r].at = "model"
    BY <1>15 DEF Delta, At
  <2>2. /\ msg'[r] = (IF msg[r] = "none" THEN "streaming" ELSE msg[r])
        /\ \A s \in Runs \ {r} : msg'[s] = msg[s] /\ proc'[s] = proc[s]
        /\ proc'[r].at = "model"
    BY <1>0, <2>1, Params DEF Rows, Messages, Processes, ProcType
  <2> QED
    BY <1>0, <2>1, <2>2 DEF Whole, CompletedHasItsAnswer
<1>16. ASSUME NEW r \in Runs, CancelRead(r) PROVE Whole'
  BY <1>0, <1>16, Params, Working, Rest
     DEF Processes, Like, WebLike, ProcType, Rows, RunRows, RunType,
     Messages, Whole, CompletedHasItsAnswer, CancelRead
<1>17. ASSUME NEW r \in Runs, CancelTidy(r) PROVE Whole'
  BY <1>0, <1>17, Params, Working, Rest
     DEF Processes, Like, WebLike, ProcType, Rows, RunRows, RunType,
     Messages, Whole, CompletedHasItsAnswer, CancelTidy
<1>18. ASSUME NEW r \in Runs, CancelWrite(r) PROVE Whole'
  BY <1>0, <1>18, Params, Working, Rest
     DEF Processes, Like, WebLike, ProcType, Rows, RunRows, RunType,
     Messages, Whole, CompletedHasItsAnswer, CancelWrite
<1>19. ASSUME NEW d \in Deciders, DecideLate(d) PROVE Whole'
  BY <1>0, <1>19, Params, Working, Rest
     DEF Processes, Like, WebLike, ProcType, Rows, RunRows, RunType,
     Messages, Whole, CompletedHasItsAnswer, DecideLate
<1>20. ASSUME NEW d \in Deciders, Decide(d) PROVE Whole'
  BY <1>0, <1>20, Params, Working, Rest
     DEF Processes, Like, WebLike, ProcType, Rows, RunRows, RunType,
     Messages, Whole, CompletedHasItsAnswer, Decide
<1>21. ASSUME NEW d \in Deciders, DecideConflict(d) \/ QueueResume(d) PROVE Whole'
  BY <1>0, <1>21, Params, Working, Rest
     DEF Processes, Like, WebLike, ProcType, Rows, RunRows, RunType,
     Messages, Whole, CompletedHasItsAnswer, DecideConflict, QueueResume
<1>22. ASSUME NEW d \in Deciders, NEW r \in Runs, NEW k \in Asks, DecideRead(d, r, k) PROVE Whole'
  BY <1>0, <1>22, Params, Working, Rest
     DEF Processes, Like, WebLike, ProcType, Rows, RunRows, RunType,
     Messages, Whole, CompletedHasItsAnswer, DecideRead
<1>23. ASSUME NEW r \in Runs, NEW k \in Asks, TakeResume(r, k) PROVE Whole'
  BY <1>0, <1>23, Params, Working, Rest
     DEF Processes, Like, WebLike, ProcType, Rows, RunRows, RunType,
     Messages, At, Whole, CompletedHasItsAnswer, TakeResume
<1>24. ASSUME NEW r \in Runs, NEW k \in Asks, Expire(r, k) PROVE Whole'
  BY <1>0, <1>24, Params, Working, Rest
     DEF Processes, Like, WebLike, ProcType, Rows, RunRows, RunType,
     Messages, Whole, CompletedHasItsAnswer, Expire
<1>25. ASSUME ReadApproval PROVE Whole'
  BY <1>0, <1>25, Params, Working, Rest
     DEF Processes, Like, WebLike, ProcType, Rows, RunRows, RunType,
     Messages, At, Raise, Whole, CompletedHasItsAnswer, ReadApproval
<1>26. ASSUME LoadCheckpoint PROVE Whole'
  BY <1>0, <1>26, Params, Working, Rest
     DEF Processes, Like, WebLike, ProcType, Rows, RunRows, RunType,
     Messages, At, Goto, Raise, Whole, CompletedHasItsAnswer, LoadCheckpoint
<1>27. ASSUME ReadRun PROVE Whole'
  BY <1>0, <1>27, Params, Working, Rest
     DEF Processes, Like, WebLike, ProcType, Rows, RunRows, RunType,
     Messages, At, Goto, Return, Whole, CompletedHasItsAnswer, ReadRun
<1>28. ASSUME Reopen PROVE Whole'
  BY <1>0, <1>28, Params, Working, Rest
     DEF Processes, Like, WebLike, ProcType, Rows, RunRows, RunType,
     Messages, At, Goto, Whole, CompletedHasItsAnswer, Reopen
<1>29. ASSUME Consume PROVE Whole'
  <2>1. \A r \in Runs : proc'[r] = proc[r]
    BY <1>0, <1>29, Consumes, Params DEF Raise, Return, Goto, Processes
  <2> QED
    BY <1>0, <1>29, <2>1 DEF Consume, Whole, CompletedHasItsAnswer
<1>30. ASSUME CompleteResumed \/ CompleteRefused \/ WorkerCrash PROVE Whole'
  BY <1>0, <1>30, Params, Working, Rest
     DEF Processes, Like, WebLike, ProcType, Rows, RunRows, RunType,
     Messages, At, Raise, Return, Whole, CompletedHasItsAnswer, CompleteResumed, CompleteRefused,
     WorkerCrash
<1>31. ASSUME WebCrash PROVE Whole'
  BY <1>0, <1>31, Params, Working, Rest
     DEF Processes, Like, WebLike, ProcType, Rows, RunRows, RunType,
     Messages, At, Whole, CompletedHasItsAnswer, WebCrash
<1> QED
  BY <1>1, <1>2, <1>3, <1>4, <1>5, <1>6, <1>7, <1>8, <1>9, <1>10, <1>11, <1>12, <1>13,
     <1>14, <1>15, <1>16, <1>17, <1>18, <1>19, <1>20, <1>21, <1>22, <1>23, <1>24, <1>25,
     <1>26, <1>27, <1>28, <1>29, <1>30, <1>31
  DEF Next, Execute, executeAgentRun, streamAgentRun, streamAiSdkCandidate, executeAiSdkCandidate,
      resumeAgentRunAfterApproval, decideToolApproval, cancelAgentRun, Procs

\* IInv holds at first.
LEMMA InitIInv == Init => IInv
<1> USE Params
<1> SUFFICES ASSUME Init PROVE IInv
  OBVIOUS
<1>1. Processes
  BY Rest DEF Init, Processes
<1>2. Rows
  BY
     DEF Init, Rows, RunRows, RunType, RunStates, Messages, MsgStates, Checkpoints,
         Approvals, ApprStates,
         Rulings, Calls, CallStates, Sendings, Tasks, RowType, RowStates, Absent
<1>3. People
  BY DEF Init, People, DeciderType, NoDecision, NoCancel
<1>4. Sent /\ Whole
  BY Rest DEF Init, Sent, Whole, CompletedHasItsAnswer, Procs
<1> QED
  BY <1>1, <1>2, <1>3, <1>4 DEF IInv

\* IInv is inductive.
LEMMA StepIInv == IInv /\ [Next]_vars => IInv'
<1> SUFFICES ASSUME IInv, [Next]_vars PROVE IInv'
  OBVIOUS
<1>1. CASE Next
  BY <1>1, StepProcesses, StepRows, StepPeople, StepSent, StepWhole DEF IInv
<1>2. CASE UNCHANGED vars
  BY <1>2
     DEF vars, IInv, Processes, Rows, RunRows, Messages, Checkpoints, Approvals, Rulings,
         Calls, Sendings,
              Tasks, People, Sent, RunOf, Whole, CompletedHasItsAnswer
<1> QED
  BY <1>1, <1>2

\* IInv is an invariant of the specification.
LEMMA Invariance == Spec => []IInv
BY InitIInv, StepIInv, PTL DEF Spec

\* A tool call reaches its server at most once: the web process of a run and its resume task never
\* make the same call, and whoever makes it reserved its row first.
THEOREM SentOnce == Spec => []CallSentOnce
<1>1. IInv => CallSentOnce
  BY DEF IInv, Sent, CallSentOnce
<1> QED
  BY <1>1, Invariance, PTL

\* A completed run has its complete answer in the conversation, although its message may have been
\* streamed, interrupted or cancelled before, and saved by a process that asked meanwhile.
THEOREM Answered == Spec => []CompletedHasItsAnswer
<1>1. IInv => CompletedHasItsAnswer
  BY DEF IInv, Whole
<1> QED
  BY <1>1, Invariance, PTL

-----------------------------------------------------------------------------
(* Approvals keep their promise.                                           *)

\* The web process of r has not asked yet, and may still come to ask.
Early(r) ==
    \/ proc[r].at \in {"idle", "model", "ask", "complete"} \cup Calling
    \/ proc[r].at = "caught" /\ ("unsaved" \in Events => proc[r].outcome = "error")

\* Until it has asked, nobody decides on the run and nobody resumes it.
Alone ==
    \A r \in Runs : Early(r) =>
        /\ \A k \in Asks : appr[r][k] = "none"
        /\ proc[Worker].run # r
        /\ \A d \in Deciders : decider[d].at # "idle" => decider[d].run # r

\* A task is there for a decision only.
Queued ==
    /\ \A r \in Runs, k \in Asks : row[r][k].st # "absent" => appr[r][k] \notin {"none", "pending"}
    /\ proc[Worker].at # "idle" => appr[proc[Worker].run][proc[Worker].ask] \notin {"none", "pending"}
    /\ \A d \in Deciders :
          /\ decider[d].at # "idle" => appr[decider[d].run][decider[d].ask] # "none"
          /\ decider[d].at = "queue" => appr[decider[d].run][decider[d].ask] # "pending"

\* An approval that is about to be asked for does not exist.
Fresh ==
    \A p \in Procs : proc[p].at = "ask" => appr[RunOf(p)][proc[p].call[2]] = "none"

\* The worker makes a call while its approval stands.
Granted ==
    ( \/ proc[Worker].at \in {"checkpoint", "run", "reopen"} /\ proc[Worker].approved
      \/ proc[Worker].at \in {"reserve", "send"} )
    => appr[proc[Worker].run][proc[Worker].ask] = "approved"

\* Whoever found that an approval's lifetime is over finds it undecided still.
Overdue ==
    \A d \in Deciders : decider[d].at = "write" /\ decider[d].late =>
        /\ "expire" \in Events
        /\ appr[decider[d].run][decider[d].ask] \in {"pending", "expired"}

AInv == IInv /\ Alone /\ Queued /\ Fresh
GInv == AInv /\ Granted /\ Overdue

\* Every step keeps Alone: no two processes work on a run at a time.
LEMMA StepAlone ==
    ASSUME IInv, Alone, Queued, Next
    PROVE  Alone'
<1>0. Processes /\ Rows /\ People /\ Alone /\ Queued
  BY DEF IInv
<1>1. ASSUME NEW p \in Procs, Reserve(p) \/ Duplicate(p) \/ Send(p) PROVE Alone'
  BY <1>0, <1>1, Params, Working, Rest DEF Processes, Like, WebLike, WorkerLike, ProcType, Rows,
     Approvals, People, DeciderType, At, Goto, Alone, Early, Calling, Reserve, Duplicate, Send
<1>2. ASSUME NEW p \in Procs, Settle(p) \/ RecordAsk(p) \/ RecordAskFails(p) PROVE Alone'
  BY <1>0, <1>2, Params, Working, Rest DEF Processes, Like, WebLike, WorkerLike, ProcType, Rows,
     Approvals, People, DeciderType, At, Goto, Alone, Early, Calling, Settle, RecordAsk, RecordAskFails
<1>3. ASSUME NEW p \in Procs, Answer(p) PROVE Alone'
  BY <1>0, <1>3, Params, Working, Rest DEF Processes, Like, WebLike, WorkerLike, ProcType, Rows,
     Approvals, People, DeciderType, At, Alone, Early, Calling, Answer
<1>4. ASSUME NEW p \in Procs, ProviderFails(p) PROVE Alone'
  BY <1>0, <1>4, Params, Working, Rest DEF Processes, Like, WebLike, WorkerLike, ProcType, Rows,
     Approvals, People, DeciderType, At, Alone, Early, Calling, ProviderFails
<1>5. ASSUME NEW p \in Procs, Ask(p) PROVE Alone'
  BY <1>0, <1>5, Params, Working, Rest DEF Processes, Like, WebLike, WorkerLike, ProcType, Rows,
     Approvals, People, DeciderType, At, Alone, Early, Calling, Ask
<1>6. ASSUME NEW p \in Procs, RequestApproval(p) PROVE Alone'
  <2> DEFINE r == RunOf(p)
  <2>1. r \in Runs /\ proc[p].call[2] \in Asks /\ UNCHANGED decider
    BY <1>0, <1>6, Working DEF RequestApproval, At
  <2>2. /\ \A o \in Procs \ {p} : proc'[o] = proc[o]
        /\ proc'[p].at = "asked" /\ proc'[p].run = r
    BY <1>0, <1>6 DEF RequestApproval, Goto, Processes, ProcType, RunOf
  <2>3. \A s \in Runs \ {r} : appr'[s] = appr[s]
    BY <1>0, <1>6, <2>1 DEF RequestApproval, Rows, Approvals
  <2>4. p # Worker => r = p
    BY <1>0, <1>6, Working DEF RequestApproval, At
  <2>5. p = Worker => proc'[Worker].run = proc[Worker].run
    BY <2>2 DEF RunOf
  <2>6. ASSUME NEW u \in Runs, Early(u)' PROVE Early(u) /\ u # r
    <3>1. CASE p = u
      BY <2>2, <2>6, <3>1 DEF Early, Calling
    <3>2. CASE p # u
      <4>1. Early(u)
        BY <2>2, <2>6, <3>2, Params DEF Early
      <4> QED
        BY <1>0, <2>4, <3>2, <4>1 DEF Alone, RunOf
    <3> QED
      BY <3>1, <3>2
  <2>7. proc'[Worker].run = proc[Worker].run
    BY <2>2, Params DEF RunOf
  <2> QED
    BY <1>0, <2>1, <2>3, <2>6, <2>7 DEF Alone
<1>7. ASSUME NEW p \in Procs, FailRun(p) PROVE Alone'
  BY <1>0, <1>7, Params, Working, Rest DEF Processes, Like, WebLike, WorkerLike, ProcType, Rows,
     Approvals, People, DeciderType, At, Goto, Alone, Early, Calling, FailRun
<1>8. ASSUME NEW p \in Procs, Tidy(p) PROVE Alone'
  BY <1>0, <1>8, Params, Working, Rest DEF Processes, Like, WebLike, WorkerLike, ProcType, Rows,
     Approvals, People, DeciderType, At, Goto, Raise, Alone, Early, Calling, Tidy
<1>9. ASSUME NEW r \in Runs, Prepare(r) PROVE Alone'
  BY <1>0, <1>9, Params, Working, Rest DEF Processes, Like, WebLike, WorkerLike, ProcType, Rows,
     Approvals, People, DeciderType, At, Alone, Early, Calling, Prepare
<1>10. ASSUME NEW r \in Runs, Leave(r) PROVE Alone'
  BY <1>0, <1>10, Params, Working, Rest DEF Processes, Like, WebLike, WorkerLike, ProcType, Rows,
     Approvals, People, DeciderType, Alone, Early, Calling, Leave
<1>11. ASSUME NEW r \in Runs, CallTool(r) PROVE Alone'
  BY <1>0, <1>11, Params, Working, Rest DEF Processes, Like, WebLike, WorkerLike, ProcType, Rows,
     Approvals, People, DeciderType, At, Alone, Early, Calling, CallTool
<1>12. ASSUME NEW r \in Runs, SaveProgress(r) PROVE Alone'
  BY <1>0, <1>12, Params, Working, Rest DEF Processes, Like, WebLike, WorkerLike, ProcType, Rows,
     Approvals, People, DeciderType, At, Goto, Alone, Early, Calling, SaveProgress
<1>13. ASSUME NEW r \in Runs, CompleteRun(r) PROVE Alone'
  BY <1>0, <1>13, Params, Working, Rest DEF Processes, Like, WebLike, WorkerLike, ProcType, Rows,
     Approvals, People, DeciderType, At, Goto, Alone, Early, Calling, CompleteRun
<1>14. ASSUME NEW r \in Runs, Fallback(r) PROVE Alone'
  <2>1. /\ UNCHANGED <<appr, decider>> /\ Early(r) /\ \A o \in Procs \ {r} : proc'[o] = proc[o]
    BY <1>0, <1>14, Params DEF Fallback, mayFallback, At, Processes, ProcType, Early
  <2> QED
    BY <1>0, <2>1, Params DEF Alone, Early
<1>15. ASSUME NEW r \in Runs, Delta(r) PROVE Alone'
  <2>1. /\ UNCHANGED <<appr, decider>> /\ proc[r].at = "model" /\ proc'[r].at = "model"
        /\ \A o \in Procs \ {r} : proc'[o] = proc[o]
    BY <1>0, <1>15, Params DEF Delta, At, Processes, ProcType
  <2> QED
    BY <1>0, <2>1, Params DEF Alone, Early
<1>16. ASSUME NEW r \in Runs, CancelRead(r) PROVE Alone'
  BY <1>0, <1>16, Params, Working, Rest DEF Processes, Like, WebLike, WorkerLike, ProcType, Rows,
     Approvals, People, DeciderType, Alone, Early, Calling, CancelRead
<1>17. ASSUME NEW r \in Runs, CancelTidy(r) PROVE Alone'
  BY <1>0, <1>17, Params, Working, Rest DEF Processes, Like, WebLike, WorkerLike, ProcType, Rows,
     Approvals, People, DeciderType, Alone, Early, Calling, CancelTidy
<1>18. ASSUME NEW r \in Runs, CancelWrite(r) PROVE Alone'
  <2>1. UNCHANGED <<proc, decider>> /\ \A s \in Runs \ {r} : appr'[s] = appr[s]
    BY <1>0, <1>18 DEF CancelWrite, Rows, Approvals
  <2>2. \A k \in Asks : appr[r][k] = "none" => appr'[r][k] = "none"
    BY <1>0, <1>18 DEF CancelWrite, Rows, Approvals
  <2>3. \A u \in Runs : Early(u)' => Early(u)
    BY <2>1 DEF Early
  <2> QED
    BY <1>0, <2>1, <2>2, <2>3 DEF Alone
<1>19. ASSUME NEW d \in Deciders, DecideLate(d) PROVE Alone'
  BY <1>0, <1>19, Params, Working, Rest DEF Processes, Like, WebLike, WorkerLike, ProcType, Rows,
     Approvals, People, DeciderType, Alone, Early, Calling, NoDecision, DecideLate
<1>20. ASSUME NEW d \in Deciders, Decide(d) PROVE Alone'
  BY <1>0, <1>20, Params, Working, Rest DEF Processes, Like, WebLike, WorkerLike, ProcType, Rows,
     Approvals, People, DeciderType, Alone, Early, Calling, Decide
<1>21. ASSUME NEW d \in Deciders, DecideConflict(d) \/ QueueResume(d) PROVE Alone'
  BY <1>0, <1>21, Params, Working, Rest DEF Processes, Like, WebLike, WorkerLike, ProcType, Rows,
     Approvals, People, DeciderType, Alone, Early, Calling, NoDecision, DecideConflict, QueueResume
<1>22. ASSUME NEW d \in Deciders, NEW r \in Runs, NEW k \in Asks, DecideRead(d, r, k) PROVE Alone'
  BY <1>0, <1>22, Params, Working, Rest DEF Processes, Like, WebLike, WorkerLike, ProcType, Rows,
     Approvals, People, DeciderType, Alone, Early, Calling, DecideRead
<1>23. ASSUME NEW r \in Runs, NEW k \in Asks, TakeResume(r, k) PROVE Alone'
  <2>1. ~Early(r) /\ UNCHANGED <<appr, decider>>
    BY <1>0, <1>23 DEF TakeResume, Queued, Alone
  <2>2. proc'[Worker].run = r /\ \A s \in Runs : proc'[s] = proc[s]
    BY <1>0, <1>23, Params, Rest DEF TakeResume, Processes, ProcType, NoProc
  <2> QED
    BY <1>0, <2>1, <2>2 DEF Alone, Early
<1>24. ASSUME NEW r \in Runs, NEW k \in Asks, Expire(r, k) PROVE Alone'
  <2>1. ~Early(r) /\ UNCHANGED <<proc, decider>> /\ \A s \in Runs \ {r} : appr'[s] = appr[s]
    BY <1>0, <1>24 DEF Expire, Alone, Rows, Approvals
  <2> QED
    BY <1>0, <2>1 DEF Alone, Early
<1>25. ASSUME ReadApproval PROVE Alone'
  BY <1>0, <1>25, Params, Working, Rest DEF Processes, Like, WebLike, WorkerLike, ProcType, Rows,
     Approvals, People, DeciderType, At, Raise, Alone, Early, Calling, ReadApproval
<1>26. ASSUME LoadCheckpoint PROVE Alone'
  BY <1>0, <1>26, Params, Working, Rest DEF Processes, Like, WebLike, WorkerLike, ProcType, Rows,
     Approvals, People, DeciderType, At, Goto, Raise, Alone, Early, Calling, LoadCheckpoint
<1>27. ASSUME ReadRun PROVE Alone'
  BY <1>0, <1>27, Params, Working, Rest DEF Processes, Like, WebLike, WorkerLike, ProcType, Rows,
     Approvals, People, DeciderType, At, Goto, Return, Alone, Early, Calling, ReadRun
<1>28. ASSUME Reopen PROVE Alone'
  BY <1>0, <1>28, Params, Working, Rest DEF Processes, Like, WebLike, WorkerLike, ProcType, Rows,
     Approvals, People, DeciderType, At, Goto, Alone, Early, Calling, Reopen
<1>29. ASSUME Consume PROVE Alone'
  <2>0. RunOf(Worker) \in Runs /\ proc[Worker].ask \in Asks
    BY <1>0, <1>29, Working, Params DEF Consume, At
  <2>1. proc'[Worker].run \in {Worker, RunOf(Worker)} /\ \A r \in Runs : proc'[r] = proc[r]
    BY <1>0, <1>29, Consumes, Params, Rest DEF Raise, Return, Goto, Processes, ProcType, RunOf
  <2>2. UNCHANGED decider /\ \A r \in Runs : r # RunOf(Worker) => appr'[r] = appr[r]
    BY <1>0, <1>29, <2>0 DEF Consume, Rows, Approvals
  <2>3. \A u \in Runs : Early(u)' => Early(u)
    BY <2>1 DEF Early
  <2> QED
    BY <1>0, <2>0, <2>1, <2>2, <2>3, Params DEF Alone, RunOf
<1>30. ASSUME CompleteResumed \/ CompleteRefused \/ WorkerCrash PROVE Alone'
  <2>1. Raise \/ Return
    BY <1>30 DEF CompleteResumed, CompleteRefused, WorkerCrash
  <2>2. proc'[Worker].run = Worker /\ \A r \in Runs : proc'[r] = proc[r]
    BY <1>0, <2>1, Rest, Params DEF Raise, Return, Processes
  <2>3. UNCHANGED <<appr, decider>>
    BY <1>30 DEF CompleteResumed, CompleteRefused, WorkerCrash
  <2>4. \A u \in Runs : Early(u)' => Early(u)
    BY <2>2 DEF Early
  <2> QED
    BY <1>0, <2>2, <2>3, <2>4, Params DEF Alone
<1>31. ASSUME WebCrash PROVE Alone'
  BY <1>0, <1>31, Params, Working, Rest DEF Processes, Like, WebLike, WorkerLike, ProcType, Rows,
     Approvals, People, DeciderType, At, Alone, Early, Calling, NoDecision, WebCrash
<1> QED
  BY <1>1, <1>2, <1>3, <1>4, <1>5, <1>6, <1>7, <1>8, <1>9, <1>10, <1>11, <1>12, <1>13,
     <1>14, <1>15, <1>16, <1>17, <1>18, <1>19, <1>20, <1>21, <1>22, <1>23, <1>24, <1>25,
     <1>26, <1>27, <1>28, <1>29, <1>30, <1>31
  DEF Next, Execute, executeAgentRun, streamAgentRun, streamAiSdkCandidate, executeAiSdkCandidate,
      resumeAgentRunAfterApproval, decideToolApproval, cancelAgentRun, Procs

\* Only the row of the worker's task is written when it ends.
LEMMA TaskRow ==
    ASSUME Rows, RunOf(Worker) \in Runs, proc[Worker].ask \in Asks, Raise \/ Return,
           NEW t \in Runs, NEW j \in Asks, ~(t = RunOf(Worker) /\ j = proc[Worker].ask)
    PROVE  row'[t][j] = row[t][j]
<1>1. PICK q : row' = [row EXCEPT ![RunOf(Worker)][proc[Worker].ask] = q]
  BY DEF Raise, Return
<1> QED
  BY <1>1 DEF Rows, Tasks

\* Nothing that matters to the queue changes.
LEMMA QueuedKept ==
    ASSUME Queued, UNCHANGED <<appr, decider, row>>,
           proc'[Worker].at # "idle" =>
             proc[Worker].at # "idle" /\ proc'[Worker].run = proc[Worker].run /\ proc'[Worker].ask = proc[Worker].ask
    PROVE  Queued'
BY DEF Queued

\* The worker's task ends and leaves approvals alone.
LEMMA TaskLeft ==
    ASSUME Processes, Rows, Queued, ~At(Worker, "idle"), Raise \/ Return, UNCHANGED <<appr, decider>>
    PROVE  Queued'
<1>1. RunOf(Worker) \in Runs /\ proc[Worker].ask \in Asks
  BY Params DEF Processes, Like, WorkerLike, At, RunOf
<1>2. ASSUME NEW t \in Runs, NEW j \in Asks, ~(t = RunOf(Worker) /\ j = proc[Worker].ask)
      PROVE  row'[t][j] = row[t][j]
  BY <1>1, <1>2, TaskRow
<1>3. proc'[Worker].at = "idle"
  BY Params, Rest DEF Raise, Return, Processes
<1> QED
  BY <1>1, <1>2, <1>3 DEF Queued, At, RunOf

\* A person who is deciding is at an approval of a run.
LEMMA DecidersWork ==
    ASSUME People, NEW d \in Deciders, decider[d].at # "idle"
    PROVE  decider[d].run \in Runs /\ decider[d].ask \in Asks
BY DEF People

\* Every step keeps Queued, whose parts speak of the resume tasks.
LEMMA StepQueued ==
    ASSUME IInv, Fresh, Queued, Next
    PROVE  Queued'
<1>0. Processes /\ Rows /\ People /\ Fresh /\ Queued
  BY DEF IInv
<1>1. ASSUME NEW p \in Procs, Reserve(p) \/ Duplicate(p) \/ Send(p) PROVE Queued'
  BY <1>0, <1>1, QueuedKept, Params DEF Goto, At, Processes, ProcType, Reserve, Duplicate, Send
<1>2. ASSUME NEW p \in Procs, Settle(p) \/ RecordAsk(p) \/ RecordAskFails(p) PROVE Queued'
  BY <1>0, <1>2, QueuedKept, Params
     DEF Goto, At, Processes, ProcType, Settle, RecordAsk, RecordAskFails
<1>3. ASSUME NEW p \in Procs, Answer(p) PROVE Queued'
  BY <1>0, <1>3, Params, Working, Rest
     DEF Processes, ProcType, Rows, Approvals, Tasks, RowType, People,
     DeciderType, At, Queued, Answer
<1>4. ASSUME NEW p \in Procs, ProviderFails(p) PROVE Queued'
  BY <1>0, <1>4, Params, Working, Rest
     DEF Processes, ProcType, Rows, Approvals, Tasks, RowType, People,
     DeciderType, At, Queued, ProviderFails
<1>5. ASSUME NEW p \in Procs, Ask(p) PROVE Queued'
  BY <1>0, <1>5, Params, Working, Rest
     DEF Processes, ProcType, Rows, Approvals, Tasks, RowType, People,
     DeciderType, At, Queued, Ask
<1>6. ASSUME NEW p \in Procs, RequestApproval(p) PROVE Queued'
  <2> DEFINE r == RunOf(p)  k == proc[p].call[2]
  <2>1. r \in Runs /\ k \in Asks /\ appr[r][k] = "none" /\ UNCHANGED <<row, decider>>
    BY <1>0, <1>6, Working DEF RequestApproval, At, Fresh
  <2>2. /\ appr'[r][k] = "pending"
        /\ \A t \in Runs, j \in Asks : ~(t = r /\ j = k) => appr'[t][j] = appr[t][j]
    BY <1>0, <1>6, <2>1 DEF RequestApproval, Rows, Approvals
  <2>3. /\ proc'[Worker].run = proc[Worker].run /\ proc'[Worker].ask = proc[Worker].ask
        /\ proc'[Worker].at # "idle" => proc[Worker].at # "idle"
    BY <1>0, <1>6, Params DEF RequestApproval, Goto, At, Processes, ProcType
  <2>4. proc[Worker].at # "idle" => proc[Worker].run \in Runs /\ proc[Worker].ask \in Asks
    BY <1>0, Params DEF Processes, Like, WorkerLike
  <2>5. \A d \in Deciders : decider[d].at # "idle" => decider[d].run \in Runs /\ decider[d].ask \in Asks
    BY <1>0 DEF People
  <2>6. \A t \in Runs, j \in Asks : appr[t][j] # "none" => appr'[t][j] = appr[t][j]
    BY <2>1, <2>2
  <2> QED
    BY <1>0, <2>1, <2>3, <2>4, <2>5, <2>6 DEF Queued
<1>7. ASSUME NEW p \in Procs, FailRun(p) PROVE Queued'
  BY <1>0, <1>7, Params, Working, Rest
     DEF Processes, ProcType, Rows, Approvals, Tasks, RowType, People,
     DeciderType, At, Goto, Queued, FailRun
<1>8. ASSUME NEW p \in Procs, Tidy(p) PROVE Queued'
  <2>1. CASE p = Worker
    <3>1. Raise /\ UNCHANGED <<appr, decider>> /\ ~At(Worker, "idle")
      BY <1>8, <2>1 DEF Tidy, At
    <3> QED
      BY <1>0, <3>1, TaskLeft
  <2>2. CASE p # Worker
    <3>1. UNCHANGED <<appr, decider, row>> /\ proc'[Worker] = proc[Worker]
      BY <1>0, <1>8, <2>2, Params DEF Tidy, Goto, Processes
    <3> QED
      BY <1>0, <3>1 DEF Queued
  <2> QED
    BY <2>1, <2>2
<1>9. ASSUME NEW r \in Runs, Prepare(r) PROVE Queued'
  BY <1>0, <1>9, Params, Working, Rest
     DEF Processes, ProcType, Rows, Approvals, Tasks, RowType, People,
     DeciderType, At, Queued, Prepare
<1>10. ASSUME NEW r \in Runs, Leave(r) PROVE Queued'
  BY <1>0, <1>10, Params, Working, Rest
     DEF Processes, ProcType, Rows, Approvals, Tasks, RowType, People,
     DeciderType, Queued, Leave
<1>11. ASSUME NEW r \in Runs, CallTool(r) PROVE Queued'
  BY <1>0, <1>11, Params, Working, Rest
     DEF Processes, ProcType, Rows, Approvals, Tasks, RowType, People,
     DeciderType, At, Queued, CallTool
<1>12. ASSUME NEW r \in Runs, SaveProgress(r) PROVE Queued'
  BY <1>0, <1>12, Params, Working, Rest
     DEF Processes, ProcType, Rows, Approvals, Tasks, RowType, People,
     DeciderType, At, Goto, Queued, SaveProgress
<1>13. ASSUME NEW r \in Runs, CompleteRun(r) PROVE Queued'
  BY <1>0, <1>13, Params, Working, Rest
     DEF Processes, ProcType, Rows, Approvals, Tasks, RowType, People,
     DeciderType, At, Goto, Queued, CompleteRun
<1>14. ASSUME NEW r \in Runs, Fallback(r) PROVE Queued'
  <2>1. UNCHANGED <<appr, decider, row>> /\ proc'[Worker] = proc[Worker]
    BY <1>0, <1>14, Params DEF Fallback, Processes
  <2> QED
    BY <1>0, <2>1 DEF Queued
<1>15. ASSUME NEW r \in Runs, Delta(r) PROVE Queued'
  <2>1. UNCHANGED <<appr, decider, row>> /\ proc'[Worker] = proc[Worker]
    BY <1>0, <1>15, Params DEF Delta, Processes
  <2> QED
    BY <1>0, <2>1 DEF Queued
<1>16. ASSUME NEW r \in Runs, CancelRead(r) PROVE Queued'
  BY <1>0, <1>16, Params, Working, Rest
     DEF Processes, ProcType, Rows, Approvals, Tasks, RowType, People,
     DeciderType, Queued, CancelRead
<1>17. ASSUME NEW r \in Runs, CancelTidy(r) PROVE Queued'
  BY <1>0, <1>17, Params, Working, Rest
     DEF Processes, ProcType, Rows, Approvals, Tasks, RowType, People,
     DeciderType, Queued, CancelTidy
<1>18. ASSUME NEW r \in Runs, CancelWrite(r) PROVE Queued'
  <2>1. UNCHANGED <<proc, decider, row>>
    BY <1>18 DEF CancelWrite
  <2>2. \A s \in Runs, k \in Asks : appr'[s][k] = appr[s][k] \/ (appr[s][k] = "pending" /\ appr'[s][k] = "expired")
    <3> DEFINE states == [k \in Asks |-> IF appr[r][k] = "pending" THEN "expired" ELSE appr[r][k]]
    <3>1. UNCHANGED appr \/ appr' = [appr EXCEPT ![r] = states]
      BY <1>18 DEF CancelWrite
    <3>2. \A k \in Asks : states[k] = appr[r][k] \/ (appr[r][k] = "pending" /\ states[k] = "expired")
      OBVIOUS
    <3> HIDE DEF states
    <3> QED
      BY <1>0, <3>1, <3>2 DEF Rows, Approvals
  <2>3. proc[Worker].at # "idle" => proc[Worker].run \in Runs /\ proc[Worker].ask \in Asks
    BY <1>0, Params DEF Processes, Like, WorkerLike
  <2>4. \A d \in Deciders : decider[d].at # "idle" => decider[d].run \in Runs /\ decider[d].ask \in Asks
    BY <1>0 DEF People
  <2> QED
    BY <1>0, <2>1, <2>2, <2>3, <2>4 DEF Queued
<1>19. ASSUME NEW d \in Deciders, DecideLate(d) PROVE Queued'
  BY <1>0, <1>19, Params, Working, Rest
     DEF Processes, ProcType, Rows, Approvals, Tasks, RowType, People,
     DeciderType, Queued, NoDecision, DecideLate
<1>20. ASSUME NEW d \in Deciders, Decide(d) PROVE Queued'
  BY <1>0, <1>20, Params, Working, Rest
     DEF Processes, ProcType, Rows, Approvals, Tasks, RowType, People,
     DeciderType, Queued, Decided, Decide
<1>21. ASSUME NEW d \in Deciders, DecideConflict(d) \/ QueueResume(d) PROVE Queued'
  <2>1. CASE DecideConflict(d)
    <3>1. UNCHANGED <<proc, appr, row>> /\ decider' = [decider EXCEPT ![d] = NoDecision]
      BY <2>1 DEF DecideConflict
    <3> QED
      BY <1>0, <3>1 DEF People, Queued, NoDecision
  <2>2. CASE QueueResume(d)
    <3> DEFINE r == decider[d].run  k == decider[d].ask
    <3>1. UNCHANGED <<proc, appr>> /\ decider' = [decider EXCEPT ![d] = NoDecision] /\ decider[d].at = "queue"
      BY <2>2 DEF QueueResume
    <3>2. r \in Runs /\ k \in Asks /\ appr[r][k] \notin {"none", "pending"}
      BY <1>0, <3>1, DecidersWork DEF Queued
    <3>3. \A t \in Runs, j \in Asks : ~(t = r /\ j = k) => row'[t][j] = row[t][j]
      BY <1>0, <2>2, <3>2 DEF QueueResume, Rows, Tasks
    <3> QED
      BY <1>0, <3>1, <3>2, <3>3 DEF People, Queued, NoDecision
  <2> QED
    BY <1>21, <2>1, <2>2
<1>22. ASSUME NEW d \in Deciders, NEW r \in Runs, NEW k \in Asks, DecideRead(d, r, k) PROVE Queued'
  BY <1>0, <1>22, Params, Working, Rest
     DEF Processes, ProcType, Rows, Approvals, Tasks, RowType, People,
     DeciderType, Queued, DecideRead
<1>23. ASSUME NEW r \in Runs, NEW k \in Asks, TakeResume(r, k) PROVE Queued'
  BY <1>0, <1>23, Params, Working, Rest
     DEF Processes, ProcType, Rows, Approvals, Tasks, RowType, People,
     DeciderType, At, Queued, taken, TakeResume
<1>24. ASSUME NEW r \in Runs, NEW k \in Asks, Expire(r, k) PROVE Queued'
  BY <1>0, <1>24, Params, Working, Rest
     DEF Processes, ProcType, Rows, Approvals, Tasks, RowType, People,
     DeciderType, Queued, Expire
<1>25. ASSUME ReadApproval PROVE Queued'
  <2>1. CASE Raise \/ Return
    <3>1. UNCHANGED <<appr, decider>> /\ ~At(Worker, "idle")
      BY <1>25 DEF ReadApproval, At
    <3> QED
      BY <1>0, <2>1, <3>1, TaskLeft
  <2>2. CASE ~(Raise \/ Return)
    <3>1. UNCHANGED <<appr, decider, row>> /\ ~At(Worker, "idle") /\ proc'[Worker].run = proc[Worker].run
          /\ proc'[Worker].ask = proc[Worker].ask
      BY <1>0, <1>25, <2>2, Params DEF ReadApproval, At, Processes, ProcType
    <3> QED
      BY <1>0, <3>1 DEF Queued, At
  <2> QED
    BY <2>1, <2>2
<1>26. ASSUME LoadCheckpoint PROVE Queued'
  <2>1. CASE Raise \/ Return
    <3>1. UNCHANGED <<appr, decider>> /\ ~At(Worker, "idle")
      BY <1>26 DEF LoadCheckpoint, At
    <3> QED
      BY <1>0, <2>1, <3>1, TaskLeft
  <2>2. CASE ~(Raise \/ Return)
    <3>1. UNCHANGED <<appr, decider, row>> /\ ~At(Worker, "idle") /\ proc'[Worker].run = proc[Worker].run
          /\ proc'[Worker].ask = proc[Worker].ask
      BY <1>0, <1>26, <2>2, Params DEF LoadCheckpoint, Goto, At, Processes, ProcType
    <3> QED
      BY <1>0, <3>1 DEF Queued, At
  <2> QED
    BY <2>1, <2>2
<1>27. ASSUME ReadRun PROVE Queued'
  <2>1. CASE Raise \/ Return
    <3>1. UNCHANGED <<appr, decider>> /\ ~At(Worker, "idle")
      BY <1>27 DEF ReadRun, At
    <3> QED
      BY <1>0, <2>1, <3>1, TaskLeft
  <2>2. CASE ~(Raise \/ Return)
    <3>1. UNCHANGED <<appr, decider, row>> /\ ~At(Worker, "idle") /\ proc'[Worker].run = proc[Worker].run
          /\ proc'[Worker].ask = proc[Worker].ask
      BY <1>0, <1>27, <2>2, Params DEF ReadRun, Goto, At, Processes, ProcType
    <3> QED
      BY <1>0, <3>1 DEF Queued, At
  <2> QED
    BY <2>1, <2>2
<1>28. ASSUME Reopen PROVE Queued'
  BY <1>0, <1>28, Params, Working, Rest
     DEF Processes, ProcType, Rows, Approvals, Tasks, RowType, People,
     DeciderType, At, Goto, Raise, Return, Queued, Absent, returned, Reopen
<1>29. ASSUME Consume PROVE Queued'
  <2> DEFINE r == RunOf(Worker)  k == proc[Worker].ask
  <2>1. r \in Runs /\ k \in Asks /\ UNCHANGED decider
    BY <1>0, <1>29, Working, Params DEF Consume, At
  <2>2. \A t \in Runs, j \in Asks : appr'[t][j] = appr[t][j] \/ appr'[t][j] = "consumed"
    <3>1. UNCHANGED appr \/ appr' = [appr EXCEPT ![r][k] = "consumed"]
      BY <1>29 DEF Consume
    <3> QED
      BY <1>0, <2>1, <3>1 DEF Rows, Approvals
  <2>3. CASE Raise \/ Return
    <3>1. \A t \in Runs, j \in Asks : ~(t = r /\ j = k) => row'[t][j] = row[t][j]
      BY <1>0, <2>1, <2>3, TaskRow
    <3>2. proc'[Worker].at = "idle"
      BY <1>0, <2>3, Params, Rest DEF Raise, Return, Processes
    <3> QED
      BY <1>0, <1>29, <2>1, <2>2, <3>1, <3>2, DecidersWork DEF Queued, Consume, At, RunOf
  <2>4. CASE ~(Raise \/ Return)
    <3>1. Goto(Worker, "complete") /\ UNCHANGED row
      BY <1>0, <1>29, <2>4, Consumes DEF Consume
    <3>2. proc'[Worker].run = r /\ proc'[Worker].ask = k
      BY <1>0, <3>1, Params DEF Goto, Processes, ProcType, RunOf
    <3> QED
      BY <1>0, <1>29, <2>1, <2>2, <3>1, <3>2, DecidersWork DEF Queued, Consume, At, RunOf
  <2> QED
    BY <2>3, <2>4
<1>30. ASSUME CompleteResumed \/ CompleteRefused \/ WorkerCrash PROVE Queued'
  <2>1. Raise \/ Return
    BY <1>30 DEF CompleteResumed, CompleteRefused, WorkerCrash
  <2>2. UNCHANGED <<appr, decider>> /\ ~At(Worker, "idle")
    BY <1>30 DEF CompleteResumed, CompleteRefused, WorkerCrash, At
  <2> QED
    BY <1>0, <2>1, <2>2, TaskLeft
<1>31. ASSUME WebCrash PROVE Queued'
  BY <1>0, <1>31, Params, Working, Rest
     DEF Processes, ProcType, Rows, Approvals, Tasks, RowType, People,
     DeciderType, At, Queued, NoDecision, WebCrash
<1> QED
  BY <1>1, <1>2, <1>3, <1>4, <1>5, <1>6, <1>7, <1>8, <1>9, <1>10, <1>11, <1>12, <1>13,
     <1>14, <1>15, <1>16, <1>17, <1>18, <1>19, <1>20, <1>21, <1>22, <1>23, <1>24, <1>25,
     <1>26, <1>27, <1>28, <1>29, <1>30, <1>31
  DEF Next, Execute, executeAgentRun, streamAgentRun, streamAiSdkCandidate, executeAiSdkCandidate,
      resumeAgentRunAfterApproval, decideToolApproval, cancelAgentRun, Procs

\* No process comes to ask, and what does not exist stays so.
LEMMA FreshKept ==
    ASSUME Processes, Fresh,
           \A o \in Procs : proc'[o].at = "ask" => proc[o].at = "ask" /\ proc'[o] = proc[o],
           \A t \in Runs, j \in Asks : appr[t][j] = "none" => appr'[t][j] = "none"
    PROVE  Fresh'
<1>1. \A o \in Procs : proc[o].at = "ask" => RunOf(o) \in Runs /\ proc[o].call[2] \in Asks
  BY Working
<1> QED
  BY <1>1 DEF Fresh, RunOf

\* Every step keeps Fresh: an approval that nobody asked for has no call.
LEMMA StepFresh ==
    ASSUME IInv, Alone, Queued, Fresh, Next
    PROVE  Fresh'
<1>0. Processes /\ Rows /\ People /\ Alone /\ Queued /\ Fresh
  BY DEF IInv
<1>1. ASSUME NEW p \in Procs, Reserve(p) \/ Duplicate(p) \/ Send(p) PROVE Fresh'
  BY <1>0, <1>1, Params, Working, Rest DEF Processes, Like, WebLike, WorkerLike, ProcType, Rows,
     Approvals, At, Goto, Alone, Early, Calling, Fresh, RunOf, Reserve, Duplicate, Send
<1>2. ASSUME NEW p \in Procs, Settle(p) \/ RecordAsk(p) \/ RecordAskFails(p) PROVE Fresh'
  <2>1. UNCHANGED appr /\ proc'[p].at # "ask" /\ \A o \in Procs \ {p} : proc'[o] = proc[o]
    BY <1>0, <1>2, Rest DEF Settle, RecordAsk, RecordAskFails, Goto, Processes, ProcType
  <2> QED
    BY <1>0, <2>1, FreshKept
<1>3. ASSUME NEW p \in Procs, Answer(p) PROVE Fresh'
  BY <1>0, <1>3, Params, Working, Rest DEF Processes, Like, WebLike, WorkerLike, ProcType, Rows,
     Approvals, At, Alone, Early, Calling, Fresh, RunOf, Answer
<1>4. ASSUME NEW p \in Procs, ProviderFails(p) PROVE Fresh'
  BY <1>0, <1>4, Params, Working, Rest DEF Processes, Like, WebLike, WorkerLike, ProcType, Rows,
     Approvals, At, Alone, Early, Calling, Fresh, RunOf, ProviderFails
<1>5. ASSUME NEW p \in Procs, Ask(p) PROVE Fresh'
  BY <1>0, <1>5, Params, Working, Rest DEF Processes, Like, WebLike, WorkerLike, ProcType, Rows,
     Approvals, At, Alone, Early, Calling, Fresh, RunOf, Ask
<1>6. ASSUME NEW p \in Procs, RequestApproval(p) PROVE Fresh'
  BY <1>0, <1>6, Params, Working, Rest DEF Processes, Like, WebLike, WorkerLike, ProcType, Rows,
     Approvals, At, Goto, Alone, Early, Calling, Fresh, RunOf, RequestApproval
<1>7. ASSUME NEW p \in Procs, FailRun(p) PROVE Fresh'
  BY <1>0, <1>7, Params, Working, Rest DEF Processes, Like, WebLike, WorkerLike, ProcType, Rows,
     Approvals, At, Goto, Alone, Early, Calling, Fresh, RunOf, FailRun
<1>8. ASSUME NEW p \in Procs, Tidy(p) PROVE Fresh'
  BY <1>0, <1>8, Params, Working, Rest DEF Processes, Like, WebLike, WorkerLike, ProcType, Rows,
     Approvals, At, Goto, Raise, Alone, Early, Calling, Fresh, RunOf, Tidy
<1>9. ASSUME NEW r \in Runs, Prepare(r) PROVE Fresh'
  BY <1>0, <1>9, Params, Working, Rest DEF Processes, Like, WebLike, WorkerLike, ProcType, Rows,
     Approvals, At, Alone, Early, Calling, Fresh, RunOf, Prepare
<1>10. ASSUME NEW r \in Runs, Leave(r) PROVE Fresh'
  BY <1>0, <1>10, Params, Working, Rest DEF Processes, Like, WebLike, WorkerLike, ProcType, Rows,
     Approvals, Alone, Early, Calling, Fresh, RunOf, Leave
<1>11. ASSUME NEW r \in Runs, CallTool(r) PROVE Fresh'
  BY <1>0, <1>11, Params, Working, Rest DEF Processes, Like, WebLike, WorkerLike, ProcType, Rows,
     Approvals, At, Alone, Early, Calling, Fresh, RunOf, CallTool
<1>12. ASSUME NEW r \in Runs, SaveProgress(r) PROVE Fresh'
  BY <1>0, <1>12, Params, Working, Rest DEF Processes, Like, WebLike, WorkerLike, ProcType, Rows,
     Approvals, At, Goto, Alone, Early, Calling, Fresh, RunOf, SaveProgress
<1>13. ASSUME NEW r \in Runs, CompleteRun(r) PROVE Fresh'
  BY <1>0, <1>13, Params, Working, Rest DEF Processes, Like, WebLike, WorkerLike, ProcType, Rows,
     Approvals, At, Goto, Alone, Early, Calling, Fresh, RunOf, CompleteRun
<1>14. ASSUME NEW r \in Runs, Fallback(r) PROVE Fresh'
  <2>1. UNCHANGED appr /\ proc'[r].at # "ask" /\ \A o \in Procs \ {r} : proc'[o] = proc[o]
    BY <1>0, <1>14, Params DEF Fallback, At, Processes, ProcType
  <2> QED
    BY <1>0, <2>1, FreshKept
<1>15. ASSUME NEW r \in Runs, Delta(r) PROVE Fresh'
  <2>1. UNCHANGED appr /\ proc'[r].at # "ask" /\ \A o \in Procs \ {r} : proc'[o] = proc[o]
    BY <1>0, <1>15, Params DEF Delta, At, Processes, ProcType
  <2> QED
    BY <1>0, <2>1, FreshKept
<1>16. ASSUME NEW r \in Runs, CancelRead(r) PROVE Fresh'
  BY <1>0, <1>16, Params, Working, Rest DEF Processes, Like, WebLike, WorkerLike, ProcType, Rows,
     Approvals, Alone, Early, Calling, Fresh, RunOf, CancelRead
<1>17. ASSUME NEW r \in Runs, CancelTidy(r) PROVE Fresh'
  BY <1>0, <1>17, Params, Working, Rest DEF Processes, Like, WebLike, WorkerLike, ProcType, Rows,
     Approvals, Alone, Early, Calling, Fresh, RunOf, CancelTidy
<1>18. ASSUME NEW r \in Runs, CancelWrite(r) PROVE Fresh'
  <2>1. UNCHANGED proc
    BY <1>18 DEF CancelWrite
  <2>2. \A s \in Runs, k \in Asks : appr[s][k] = "none" => appr'[s][k] = "none"
    <3> DEFINE states == [k \in Asks |-> IF appr[r][k] = "pending" THEN "expired" ELSE appr[r][k]]
    <3>1. UNCHANGED appr \/ appr' = [appr EXCEPT ![r] = states]
      BY <1>18 DEF CancelWrite
    <3>2. \A k \in Asks : appr[r][k] = "none" => states[k] = "none"
      OBVIOUS
    <3> HIDE DEF states
    <3> QED
      BY <1>0, <3>1, <3>2 DEF Rows, Approvals
  <2> QED
    BY <1>0, <2>1, <2>2, FreshKept
<1>19. ASSUME NEW d \in Deciders, DecideLate(d) PROVE Fresh'
  <2> DEFINE r == decider[d].run  k == decider[d].ask
  <2>1. r \in Runs /\ k \in Asks /\ appr[r][k] # "none" /\ UNCHANGED proc
    BY <1>0, <1>19, DecidersWork DEF DecideLate, Queued
  <2>2. \A t \in Runs, j \in Asks : appr[t][j] = "none" => appr'[t][j] = "none"
    BY <1>0, <1>19, <2>1 DEF DecideLate, Rows, Approvals
  <2> QED
    BY <1>0, <2>1, <2>2, FreshKept
<1>20. ASSUME NEW d \in Deciders, Decide(d) PROVE Fresh'
  BY <1>0, <1>20, Params, Working, Rest DEF Processes, Like, WebLike, WorkerLike, ProcType, Rows,
     Approvals, Alone, Early, Calling, Fresh, RunOf, Decide
<1>21. ASSUME NEW d \in Deciders, DecideConflict(d) \/ QueueResume(d) PROVE Fresh'
  BY <1>0, <1>21, Params, Working, Rest DEF Processes, Like, WebLike, WorkerLike, ProcType, Rows,
     Approvals, Alone, Early, Calling, Fresh, RunOf, DecideConflict, QueueResume
<1>22. ASSUME NEW d \in Deciders, NEW r \in Runs, NEW k \in Asks, DecideRead(d, r, k) PROVE Fresh'
  BY <1>0, <1>22, Params, Working, Rest DEF Processes, Like, WebLike, WorkerLike, ProcType, Rows,
     Approvals, Alone, Early, Calling, Fresh, RunOf, DecideRead
<1>23. ASSUME NEW r \in Runs, NEW k \in Asks, TakeResume(r, k) PROVE Fresh'
  BY <1>0, <1>23, Params, Working, Rest DEF Processes, Like, WebLike, WorkerLike, ProcType, Rows,
     Approvals, At, Alone, Early, Calling, Fresh, RunOf, TakeResume
<1>24. ASSUME NEW r \in Runs, NEW k \in Asks, Expire(r, k) PROVE Fresh'
  BY <1>0, <1>24, Params, Working, Rest DEF Processes, Like, WebLike, WorkerLike, ProcType, Rows,
     Approvals, Alone, Early, Calling, Fresh, RunOf, Expire
<1>25. ASSUME ReadApproval PROVE Fresh'
  BY <1>0, <1>25, Params, Working, Rest DEF Processes, Like, WebLike, WorkerLike, ProcType, Rows,
     Approvals, At, Raise, Alone, Early, Calling, Fresh, RunOf, ReadApproval
<1>26. ASSUME LoadCheckpoint PROVE Fresh'
  BY <1>0, <1>26, Params, Working, Rest DEF Processes, Like, WebLike, WorkerLike, ProcType, Rows,
     Approvals, At, Goto, Raise, Alone, Early, Calling, Fresh, RunOf, LoadCheckpoint
<1>27. ASSUME ReadRun PROVE Fresh'
  BY <1>0, <1>27, Params, Working, Rest DEF Processes, Like, WebLike, WorkerLike, ProcType, Rows,
     Approvals, At, Goto, Return, Alone, Early, Calling, Fresh, RunOf, ReadRun
<1>28. ASSUME Reopen PROVE Fresh'
  BY <1>0, <1>28, Params, Working, Rest DEF Processes, Like, WebLike, WorkerLike, ProcType, Rows,
     Approvals, At, Goto, Alone, Early, Calling, Fresh, RunOf, Reopen
<1>29. ASSUME Consume PROVE Fresh'
  <2> DEFINE r == RunOf(Worker)  k == proc[Worker].ask
  <2>1. r \in Runs /\ k \in Asks
    BY <1>0, <1>29, Working, Params DEF Consume, At
  <2>2. UNCHANGED appr \/ (appr[r][k] \in Decided /\ appr' = [appr EXCEPT ![r][k] = "consumed"])
    BY <1>29 DEF Consume
  <2>3. \A t \in Runs, j \in Asks : appr[t][j] = "none" => appr'[t][j] = "none"
    BY <1>0, <2>1, <2>2 DEF Rows, Approvals, Decided
  <2>4. proc'[Worker].at # "ask" /\ \A o \in Procs \ {Worker} : proc'[o] = proc[o]
    BY <1>0, <1>29, Consumes, Params, Rest DEF Raise, Return, Goto, Processes, ProcType
  <2> QED
    BY <1>0, <2>3, <2>4, FreshKept
<1>30. ASSUME CompleteResumed \/ CompleteRefused \/ WorkerCrash PROVE Fresh'
  BY <1>0, <1>30, Params, Working, Rest DEF Processes, Like, WebLike, WorkerLike, ProcType, Rows,
     Approvals, At, Raise, Return, Alone, Early, Calling, Fresh, RunOf, CompleteResumed, CompleteRefused,
     WorkerCrash
<1>31. ASSUME WebCrash PROVE Fresh'
  BY <1>0, <1>31, Params, Working, Rest DEF Processes, Like, WebLike, WorkerLike, ProcType, Rows,
     Approvals, At, Alone, Early, Calling, Fresh, RunOf, WebCrash
<1> QED
  BY <1>1, <1>2, <1>3, <1>4, <1>5, <1>6, <1>7, <1>8, <1>9, <1>10, <1>11, <1>12, <1>13,
     <1>14, <1>15, <1>16, <1>17, <1>18, <1>19, <1>20, <1>21, <1>22, <1>23, <1>24, <1>25,
     <1>26, <1>27, <1>28, <1>29, <1>30, <1>31
  DEF Next, Execute, executeAgentRun, streamAgentRun, streamAiSdkCandidate, executeAiSdkCandidate,
      resumeAgentRunAfterApproval, decideToolApproval, cancelAgentRun, Procs

\* The worker goes on under its grant.
LEMMA GrantedKept ==
    ASSUME Processes, Granted,
           proc'[Worker] = proc[Worker] \/ proc'[Worker].at = "asked",
           \A t \in Runs, j \in Asks : appr[t][j] = "approved" => appr'[t][j] = "approved"
    PROVE  Granted'
<1>1. proc[Worker].at # "idle" => proc[Worker].run \in Runs /\ proc[Worker].ask \in Asks
  BY Params DEF Processes, Like, WorkerLike
<1> QED
  BY <1>1 DEF Granted

\* Every step keeps Granted: what was sent had been approved.
LEMMA StepGranted ==
    ASSUME IInv, Alone, Queued, Fresh, Granted, Overdue, Next
    PROVE  Granted'
<1>0. Processes /\ Rows /\ People /\ Alone /\ Queued /\ Fresh /\ Granted /\ Overdue
  BY DEF IInv
<1>1. ASSUME NEW p \in Procs, Reserve(p) \/ Duplicate(p) \/ Send(p) PROVE Granted'
  <2>1. /\ UNCHANGED appr /\ proc'[Worker].run = proc[Worker].run /\ proc'[Worker].ask = proc[Worker].ask
        /\ proc'[Worker].approved = proc[Worker].approved
        /\ proc'[Worker].at \in {"reserve", "send"} => proc[Worker].at \in {"reserve", "send"}
        /\ proc'[Worker].at \in {"checkpoint", "run", "reopen"} => proc[Worker].at = proc'[Worker].at
    BY <1>0, <1>1, Params DEF Reserve, Duplicate, Send, At, Goto, Processes, ProcType
  <2> QED
    BY <1>0, <2>1 DEF Granted
<1>2. ASSUME NEW p \in Procs, Settle(p) \/ RecordAsk(p) \/ RecordAskFails(p) PROVE Granted'
  BY <1>0, <1>2, Params, Working, Rest DEF Processes, ProcType, Rows, Approvals, At, Goto, Granted,
     RunOf, Settle, RecordAsk, RecordAskFails
<1>3. ASSUME NEW p \in Procs, Answer(p) PROVE Granted'
  BY <1>0, <1>3, Params, Working, Rest DEF Processes, ProcType, Rows, Approvals, At, Granted, RunOf,
     Answer
<1>4. ASSUME NEW p \in Procs, ProviderFails(p) PROVE Granted'
  BY <1>0, <1>4, Params, Working, Rest DEF Processes, ProcType, Rows, Approvals, At, Granted, RunOf,
     ProviderFails
<1>5. ASSUME NEW p \in Procs, Ask(p) PROVE Granted'
  BY <1>0, <1>5, Params, Working, Rest
     DEF Processes, ProcType, Rows, Approvals, At, Granted, RunOf, Ask
<1>6. ASSUME NEW p \in Procs, RequestApproval(p) PROVE Granted'
  <2>1. RunOf(p) \in Runs /\ proc[p].call[2] \in Asks /\ appr[RunOf(p)][proc[p].call[2]] = "none"
    BY <1>0, <1>6, Working DEF RequestApproval, At, Fresh
  <2>2. \A t \in Runs, j \in Asks : appr[t][j] = "approved" => appr'[t][j] = "approved"
    BY <1>0, <1>6, <2>1 DEF RequestApproval, Rows, Approvals
  <2>3. proc'[Worker].at = "asked" \/ proc'[Worker] = proc[Worker]
    BY <1>0, <1>6, Params DEF RequestApproval, Goto, Processes, ProcType
  <2> QED
    BY <1>0, <2>2, <2>3, GrantedKept
<1>7. ASSUME NEW p \in Procs, FailRun(p) PROVE Granted'
  BY <1>0, <1>7, Params, Working, Rest DEF Processes, ProcType, Rows, Approvals, At, Goto, Granted,
     RunOf, FailRun
<1>8. ASSUME NEW p \in Procs, Tidy(p) PROVE Granted'
  BY <1>0, <1>8, Params, Working, Rest DEF Processes, ProcType, Rows, Approvals, At, Goto, Raise,
     Granted, RunOf, Tidy
<1>9. ASSUME NEW r \in Runs, Prepare(r) PROVE Granted'
  BY <1>0, <1>9, Params, Working, Rest DEF Processes, ProcType, Rows, Approvals, At, Granted, RunOf,
     Prepare
<1>10. ASSUME NEW r \in Runs, Leave(r) PROVE Granted'
  BY <1>0, <1>10, Params, Working, Rest
     DEF Processes, ProcType, Rows, Approvals, Granted, RunOf, Leave
<1>11. ASSUME NEW r \in Runs, CallTool(r) PROVE Granted'
  BY <1>0, <1>11, Params, Working, Rest
     DEF Processes, ProcType, Rows, Approvals, At, Granted, RunOf,
     CallTool
<1>12. ASSUME NEW r \in Runs, SaveProgress(r) PROVE Granted'
  BY <1>0, <1>12, Params, Working, Rest DEF Processes, ProcType, Rows, Approvals, At, Goto, Granted,
     RunOf, SaveProgress
<1>13. ASSUME NEW r \in Runs, CompleteRun(r) PROVE Granted'
  BY <1>0, <1>13, Params, Working, Rest DEF Processes, ProcType, Rows, Approvals, At, Goto, Granted,
     RunOf, CompleteRun
<1>14. ASSUME NEW r \in Runs, Fallback(r) PROVE Granted'
  BY <1>0, <1>14, Params, Working, Rest
     DEF Processes, ProcType, Rows, Approvals, At, Granted, RunOf,
     Fallback
<1>15. ASSUME NEW r \in Runs, Delta(r) PROVE Granted'
  BY <1>0, <1>15, Params, Working, Rest
     DEF Processes, ProcType, Rows, Approvals, At, Granted, RunOf,
     Delta
<1>16. ASSUME NEW r \in Runs, CancelRead(r) PROVE Granted'
  BY <1>0, <1>16, Params, Working, Rest DEF Processes, ProcType, Rows, Approvals, Granted, RunOf,
     CancelRead
<1>17. ASSUME NEW r \in Runs, CancelTidy(r) PROVE Granted'
  BY <1>0, <1>17, Params, Working, Rest DEF Processes, ProcType, Rows, Approvals, Granted, RunOf,
     CancelTidy
<1>18. ASSUME NEW r \in Runs, CancelWrite(r) PROVE Granted'
  <2>1. UNCHANGED proc
    BY <1>18 DEF CancelWrite
  <2>2. \A s \in Runs, k \in Asks : appr[s][k] = "approved" => appr'[s][k] = "approved"
    <3> DEFINE states == [k \in Asks |-> IF appr[r][k] = "pending" THEN "expired" ELSE appr[r][k]]
    <3>1. UNCHANGED appr \/ appr' = [appr EXCEPT ![r] = states]
      BY <1>18 DEF CancelWrite
    <3>2. \A k \in Asks : appr[r][k] = "approved" => states[k] = "approved"
      OBVIOUS
    <3> HIDE DEF states
    <3> QED
      BY <1>0, <3>1, <3>2 DEF Rows, Approvals
  <2> QED
    BY <1>0, <2>1, <2>2, GrantedKept
<1>19. ASSUME NEW d \in Deciders, DecideLate(d) PROVE Granted'
  <2> DEFINE r == decider[d].run  k == decider[d].ask
  <2>1. r \in Runs /\ k \in Asks /\ appr[r][k] # "approved" /\ UNCHANGED proc
    BY <1>0, <1>19, DecidersWork DEF DecideLate, Overdue
  <2>2. \A t \in Runs, j \in Asks : appr[t][j] = "approved" => appr'[t][j] = "approved"
    BY <1>0, <1>19, <2>1 DEF DecideLate, Rows, Approvals
  <2> QED
    BY <1>0, <2>1, <2>2, GrantedKept
<1>20. ASSUME NEW d \in Deciders, Decide(d) PROVE Granted'
  BY <1>0, <1>20, Params, Working, Rest
     DEF Processes, ProcType, Rows, Approvals, Granted, RunOf, Decide
<1>21. ASSUME NEW d \in Deciders, DecideConflict(d) \/ QueueResume(d) PROVE Granted'
  BY <1>0, <1>21, Params, Working, Rest DEF Processes, ProcType, Rows, Approvals, Granted, RunOf,
     DecideConflict, QueueResume
<1>22. ASSUME NEW d \in Deciders, NEW r \in Runs, NEW k \in Asks, DecideRead(d, r, k) PROVE Granted'
  BY <1>0, <1>22, Params, Working, Rest DEF Processes, ProcType, Rows, Approvals, Granted, RunOf,
     DecideRead
<1>23. ASSUME NEW r \in Runs, NEW k \in Asks, TakeResume(r, k) PROVE Granted'
  BY <1>0, <1>23, Params, Working, Rest
     DEF Processes, ProcType, Rows, Approvals, At, Granted, RunOf,
     TakeResume
<1>24. ASSUME NEW r \in Runs, NEW k \in Asks, Expire(r, k) PROVE Granted'
  BY <1>0, <1>24, Params, Working, Rest
     DEF Processes, ProcType, Rows, Approvals, Granted, RunOf, Expire
<1>25. ASSUME ReadApproval PROVE Granted'
  BY <1>0, <1>25, Params, Working, Rest
     DEF Processes, ProcType, Rows, Approvals, At, Raise, Granted,
     RunOf, ReadApproval
<1>26. ASSUME LoadCheckpoint PROVE Granted'
  <2>1. UNCHANGED appr /\ proc[Worker].at = "checkpoint"
    BY <1>26 DEF LoadCheckpoint, At
  <2>2. CASE Raise
    BY <1>0, <2>1, <2>2, Params, Rest DEF Raise, Processes, Granted
  <2>3. CASE Goto(Worker, "run")
    <3>1. /\ proc'[Worker].run = proc[Worker].run /\ proc'[Worker].ask = proc[Worker].ask
          /\ proc'[Worker].approved = proc[Worker].approved /\ proc'[Worker].at = "run"
      BY <1>0, <2>3, Params DEF Goto, Processes, ProcType
    <3> QED
      BY <1>0, <2>1, <3>1 DEF Granted
  <2> QED
    BY <1>26, <2>2, <2>3 DEF LoadCheckpoint
<1>27. ASSUME ReadRun PROVE Granted'
  BY <1>0, <1>27, Params, Working, Rest DEF Processes, ProcType, Rows, Approvals, At, Goto, Return,
     Granted, RunOf, ReadRun
<1>28. ASSUME Reopen PROVE Granted'
  BY <1>0, <1>28, Params, Working, Rest DEF Processes, ProcType, Rows, Approvals, At, Goto, Granted,
     RunOf, Reopen
<1>29. ASSUME Consume PROVE Granted'
  <2>1. proc'[Worker].at \in {"idle", "complete"}
    BY <1>0, <1>29, Consumes, Params, Rest DEF Raise, Return, Goto, Processes, ProcType
  <2> QED
    BY <2>1 DEF Granted
<1>30. ASSUME CompleteResumed \/ CompleteRefused \/ WorkerCrash PROVE Granted'
  BY <1>0, <1>30, Params, Working, Rest DEF Processes, ProcType, Rows, Approvals, At, Raise, Return,
     Granted, RunOf, CompleteResumed, CompleteRefused, WorkerCrash
<1>31. ASSUME WebCrash PROVE Granted'
  BY <1>0, <1>31, Params, Working, Rest
     DEF Processes, ProcType, Rows, Approvals, At, Granted, RunOf,
     WebCrash
<1> QED
  BY <1>1, <1>2, <1>3, <1>4, <1>5, <1>6, <1>7, <1>8, <1>9, <1>10, <1>11, <1>12, <1>13,
     <1>14, <1>15, <1>16, <1>17, <1>18, <1>19, <1>20, <1>21, <1>22, <1>23, <1>24, <1>25,
     <1>26, <1>27, <1>28, <1>29, <1>30, <1>31
  DEF Next, Execute, executeAgentRun, streamAgentRun, streamAiSdkCandidate, executeAiSdkCandidate,
      resumeAgentRunAfterApproval, decideToolApproval, cancelAgentRun, Procs

\* Every step keeps Overdue, if one person decides or approvals do not expire.
LEMMA StepOverdue ==
    ASSUME IInv, Alone, Queued, Overdue, Next,
           "expire" \notin Events \/ \A d, e \in Deciders : d = e
    PROVE  Overdue'
<1>0. Processes /\ Rows /\ People /\ Alone /\ Queued /\ Overdue
  BY DEF IInv
<1>1. ASSUME NEW p \in Procs, Reserve(p) \/ Duplicate(p) \/ Send(p) PROVE Overdue'
  BY <1>0, <1>1, Params DEF People, DeciderType, Rows, Approvals, Overdue, Reserve, Duplicate, Send
<1>2. ASSUME NEW p \in Procs, Settle(p) \/ RecordAsk(p) \/ RecordAskFails(p) PROVE Overdue'
  BY <1>0, <1>2, Params DEF People, DeciderType, Rows, Approvals, Overdue, Settle, RecordAsk,
     RecordAskFails
<1>3. ASSUME NEW p \in Procs, Answer(p) PROVE Overdue'
  BY <1>0, <1>3, Params DEF People, DeciderType, Rows, Approvals, Overdue, Answer
<1>4. ASSUME NEW p \in Procs, ProviderFails(p) PROVE Overdue'
  BY <1>0, <1>4, Params DEF People, DeciderType, Rows, Approvals, Overdue, ProviderFails
<1>5. ASSUME NEW p \in Procs, Ask(p) PROVE Overdue'
  BY <1>0, <1>5, Params DEF People, DeciderType, Rows, Approvals, Overdue, Ask
<1>6. ASSUME NEW p \in Procs, RequestApproval(p) PROVE Overdue'
  BY <1>0, <1>6, Params DEF People, DeciderType, Rows, Approvals, Overdue, RequestApproval
<1>7. ASSUME NEW p \in Procs, FailRun(p) PROVE Overdue'
  BY <1>0, <1>7, Params DEF People, DeciderType, Rows, Approvals, Overdue, FailRun
<1>8. ASSUME NEW p \in Procs, Tidy(p) PROVE Overdue'
  BY <1>0, <1>8, Params DEF People, DeciderType, Rows, Approvals, Overdue, Tidy
<1>9. ASSUME NEW r \in Runs, Prepare(r) PROVE Overdue'
  BY <1>0, <1>9, Params DEF People, DeciderType, Rows, Approvals, Overdue, Prepare
<1>10. ASSUME NEW r \in Runs, Leave(r) PROVE Overdue'
  BY <1>0, <1>10, Params DEF People, DeciderType, Rows, Approvals, Overdue, Leave
<1>11. ASSUME NEW r \in Runs, CallTool(r) PROVE Overdue'
  BY <1>0, <1>11, Params DEF People, DeciderType, Rows, Approvals, Overdue, CallTool
<1>12. ASSUME NEW r \in Runs, SaveProgress(r) PROVE Overdue'
  BY <1>0, <1>12, Params DEF People, DeciderType, Rows, Approvals, Overdue, SaveProgress
<1>13. ASSUME NEW r \in Runs, CompleteRun(r) PROVE Overdue'
  BY <1>0, <1>13, Params DEF People, DeciderType, Rows, Approvals, Overdue, CompleteRun
<1>14. ASSUME NEW r \in Runs, Fallback(r) PROVE Overdue'
  BY <1>0, <1>14, Params DEF People, DeciderType, Rows, Approvals, Overdue, Fallback
<1>15. ASSUME NEW r \in Runs, Delta(r) PROVE Overdue'
  BY <1>0, <1>15, Params DEF People, DeciderType, Rows, Approvals, Overdue, Delta
<1>16. ASSUME NEW r \in Runs, CancelRead(r) PROVE Overdue'
  BY <1>0, <1>16, Params DEF People, DeciderType, Rows, Approvals, Overdue, CancelRead
<1>17. ASSUME NEW r \in Runs, CancelTidy(r) PROVE Overdue'
  BY <1>0, <1>17, Params DEF People, DeciderType, Rows, Approvals, Overdue, CancelTidy
<1>18. ASSUME NEW r \in Runs, CancelWrite(r) PROVE Overdue'
  BY <1>0, <1>18, Params DEF People, DeciderType, Rows, Approvals, Overdue, CancelWrite
<1>19. ASSUME NEW d \in Deciders, DecideLate(d) PROVE Overdue'
  BY <1>0, <1>19, Params DEF People, DeciderType, Rows, Approvals, NoDecision, Overdue, DecideLate
<1>20. ASSUME NEW d \in Deciders, Decide(d) PROVE Overdue'
  BY <1>0, <1>20, Params DEF People, DeciderType, Rows, Approvals, Overdue, Decide
<1>21. ASSUME NEW d \in Deciders, DecideConflict(d) \/ QueueResume(d) PROVE Overdue'
  BY <1>0, <1>21, Params
     DEF People, DeciderType, Rows, Approvals, NoDecision, Overdue, DecideConflict,
         QueueResume
<1>22. ASSUME NEW d \in Deciders, NEW r \in Runs, NEW k \in Asks, DecideRead(d, r, k) PROVE Overdue'
  <2>1. PICK late \in BOOLEAN :
           /\ late => "expire" \in Events
           /\ decider' = [decider EXCEPT ![d] = [at |-> "write", run |-> r, ask |-> k, late |-> late]]
    BY <1>22 DEF DecideRead
  <2> DEFINE q == [at |-> "write", run |-> r, ask |-> k, late |-> late]
  <2>2. q.run = r /\ q.ask = k /\ q.late = late
    OBVIOUS
  <2> HIDE DEF q
  <2>3. decider'[d] = q /\ \A o \in Deciders \ {d} : decider'[o] = decider[o]
    BY <1>0, <2>1 DEF People, q
  <2>4. UNCHANGED appr /\ appr[r][k] = "pending"
    BY <1>22 DEF DecideRead
  <2> QED
    BY <1>0, <2>1, <2>2, <2>3, <2>4 DEF Overdue
<1>23. ASSUME NEW r \in Runs, NEW k \in Asks, TakeResume(r, k) PROVE Overdue'
  BY <1>0, <1>23, Params DEF People, DeciderType, Rows, Approvals, Overdue, TakeResume
<1>24. ASSUME NEW r \in Runs, NEW k \in Asks, Expire(r, k) PROVE Overdue'
  BY <1>0, <1>24, Params DEF People, DeciderType, Rows, Approvals, Overdue, Expire
<1>25. ASSUME ReadApproval PROVE Overdue'
  BY <1>0, <1>25, Params DEF People, DeciderType, Rows, Approvals, Overdue, ReadApproval
<1>26. ASSUME LoadCheckpoint PROVE Overdue'
  BY <1>0, <1>26, Params DEF People, DeciderType, Rows, Approvals, Overdue, LoadCheckpoint
<1>27. ASSUME ReadRun PROVE Overdue'
  BY <1>0, <1>27, Params DEF People, DeciderType, Rows, Approvals, Overdue, ReadRun
<1>28. ASSUME Reopen PROVE Overdue'
  BY <1>0, <1>28, Params DEF People, DeciderType, Rows, Approvals, Overdue, Reopen
<1>29. ASSUME Consume PROVE Overdue'
  <2>1. RunOf(Worker) \in Runs /\ proc[Worker].ask \in Asks /\ UNCHANGED decider
    BY <1>0, <1>29, Working, Params DEF Consume, At
  <2>2. \A t \in Runs, j \in Asks : appr[t][j] \notin Decided => appr'[t][j] = appr[t][j]
    <3>1. \/ UNCHANGED appr
          \/ /\ appr[RunOf(Worker)][proc[Worker].ask] \in Decided
             /\ appr' = [appr EXCEPT ![RunOf(Worker)][proc[Worker].ask] = "consumed"]
      BY <1>29 DEF Consume
    <3> QED
      BY <1>0, <2>1, <3>1 DEF Rows, Approvals
  <2> QED
    BY <1>0, <2>1, <2>2, DecidersWork DEF Overdue, Decided
<1>30. ASSUME CompleteResumed \/ CompleteRefused \/ WorkerCrash PROVE Overdue'
  BY <1>0, <1>30, Params DEF People, DeciderType, Rows, Approvals, Overdue, CompleteResumed,
     CompleteRefused, WorkerCrash
<1>31. ASSUME WebCrash PROVE Overdue'
  BY <1>0, <1>31, Params DEF People, DeciderType, Rows, Approvals, NoDecision, Overdue, WebCrash
<1> QED
  BY <1>1, <1>2, <1>3, <1>4, <1>5, <1>6, <1>7, <1>8, <1>9, <1>10, <1>11, <1>12, <1>13,
     <1>14, <1>15, <1>16, <1>17, <1>18, <1>19, <1>20, <1>21, <1>22, <1>23, <1>24, <1>25,
     <1>26, <1>27, <1>28, <1>29, <1>30, <1>31
  DEF Next, Execute, executeAgentRun, streamAgentRun, streamAiSdkCandidate, executeAiSdkCandidate,
      resumeAgentRunAfterApproval, decideToolApproval, cancelAgentRun, Procs


\* GInv holds at first.
LEMMA InitGInv == Init => GInv
<1> SUFFICES ASSUME Init PROVE GInv
  OBVIOUS
<1>1. IInv
  BY InitIInv
<1>2. proc[Worker] = NoProc
  BY Params DEF Init
<1>3. Alone
  BY <1>2, Params, Rest DEF Init, Alone, NoDecision
<1>4. Queued
  BY <1>2, Rest DEF Init, Queued, Absent, NoDecision
<1>5. Fresh /\ Granted /\ Overdue
  BY <1>2, Rest DEF Init, Fresh, Granted, Overdue, NoDecision, Procs
<1> QED
  BY <1>1, <1>3, <1>4, <1>5 DEF GInv, AInv

\* Two people decide on one approval around its expiry only in programs this does not describe.
OneDecides == "expire" \notin Events \/ \A d, e \in Deciders : d = e

\* GInv is inductive, if one person decides or approvals do not expire.
LEMMA StepGInv == OneDecides /\ GInv /\ [Next]_vars => GInv'
<1> SUFFICES ASSUME OneDecides, GInv, [Next]_vars PROVE GInv'
  OBVIOUS
<1>1. IInv'
  BY StepIInv DEF GInv, AInv
<1>2. CASE Next
  BY <1>1, <1>2, StepAlone, StepQueued, StepFresh, StepGranted, StepOverdue
     DEF GInv, AInv, OneDecides
<1>3. CASE UNCHANGED vars
  BY <1>1, <1>3 DEF vars, GInv, AInv, Alone, Early, Queued, Fresh, Granted, Overdue, RunOf
<1> QED
  BY <1>2, <1>3

\* Approvals by their two parts.
LEMMA Pairs ==
    ASSUME NEW r \in Runs, NEW k \in Asks, NEW h \in Runs \X Asks
    PROVE  h[1] \in Runs /\ h[2] \in Asks /\ (h = <<r, k>> <=> h[1] = r /\ h[2] = k)
OBVIOUS

\* The abstract gate of one approval moves with its row.
LEMMA GateMoves ==
    ASSUME Rows, UNCHANGED sent, NEW r \in Runs, NEW k \in Asks, NEW v,
           appr' = [appr EXCEPT ![r][k] = v], <<appr[r][k], v>> \in Gate!Moves
    PROVE  Gate!Next
<1> DEFINE g == <<r, k>>
           gate == [h \in Runs \X Asks |-> appr[h[1]][h[2]]]
<1>1. g \in Runs \X Asks /\ gate[g] = appr[r][k]
  OBVIOUS
<1>2. gate' = [gate EXCEPT ![g] = v]
  <2>1. \A h \in Runs \X Asks : appr'[h[1]][h[2]] = (IF h = g THEN v ELSE appr[h[1]][h[2]])
    BY Pairs DEF Rows, Approvals
  <2>2. \A h \in Runs \X Asks : gate'[h] = (IF h = g THEN v ELSE gate[h])
    BY <2>1
  <2> QED
    BY <2>2
<1>3. Gate!Move(g)
  BY <1>1, <1>2 DEF Gate!Move
<1> QED
  BY <1>1, <1>3 DEF Gate!Next

\* A step that leaves approvals and calls alone is a stutter of the gate.
LEMMA GateKept ==
    ASSUME UNCHANGED <<appr, sent>>
    PROVE  UNCHANGED Gate!vars
BY DEF Gate!vars

\* The initial states are initial states of the gate.
LEMMA GateInit == Init => Gate!Init
<1> SUFFICES ASSUME Init PROVE Gate!Init
  OBVIOUS
<1>1. \A h \in Runs \X Asks : h[1] \in Runs /\ h[2] \in Asks /\ <<"asked", h[2]>> \in CallIds
  BY Params
<1>2. \A h \in Runs \X Asks : appr[h[1]][h[2]] = "none" /\ sent[h[1]][<<"asked", h[2]>>] = 0
  BY <1>1 DEF Init
<1>3. \A h \in Runs \X Asks : (sent[h[1]][<<"asked", h[2]>>] > 0) = FALSE
  BY <1>2
<1> QED
  BY <1>2, <1>3 DEF Gate!Init

\* The call of an approval is sent as a step of the gate.
LEMMA GateSend ==
    ASSUME GInv, NEW p \in Procs, Send(p)
    PROVE  Gate!Next \/ UNCHANGED Gate!vars
<1> DEFINE r == RunOf(p)  c == proc[p].call
           made == [h \in Runs \X Asks |-> sent[h[1]][<<"asked", h[2]>>] > 0]
<1>0. Processes /\ Rows /\ Sent /\ Granted
  BY DEF GInv, AInv, IInv
<1>1. r \in Runs /\ c \in CallIds /\ sent[r][c] = 0 /\ sent' = [sent EXCEPT ![r][c] = @ + 1] /\ UNCHANGED appr
  BY <1>0, Working DEF Send, At, Sent
<1>2. CASE p = Worker
  <2> DEFINE k == proc[p].ask  g == <<r, k>>
  <2>1. k \in Asks /\ c = <<"asked", k>> /\ appr[r][k] = "approved"
    BY <1>0, <1>2, Working DEF Send, At, Processes, Like, WorkerLike, Calling, Granted, RunOf
  <2>2. sent[r][c] \in Nat /\ sent'[r][c] = sent[r][c] + 1
    BY <1>0, <1>1 DEF Rows, Sendings
  <2>3. (sent[r][<<"asked", k>>] > 0) = FALSE /\ (sent'[r][<<"asked", k>>] > 0) = TRUE
    BY <1>1, <2>1, <2>2
  <2>4. g \in Runs \X Asks /\ made[g] = FALSE
    BY <1>1, <2>1, <2>3
  <2>5. ASSUME NEW h \in Runs \X Asks, h # g
        PROVE  sent'[h[1]][<<"asked", h[2]>>] = sent[h[1]][<<"asked", h[2]>>]
    BY <1>0, <1>1, <2>1, <2>5, Pairs, Params DEF Rows, Sendings
  <2>6. ASSUME NEW h \in Runs \X Asks
        PROVE  (sent'[h[1]][<<"asked", h[2]>>] > 0) = (IF h = g THEN TRUE ELSE sent[h[1]][<<"asked", h[2]>>] > 0)
    <3>1. CASE h = g
      BY <2>3, <3>1, Zenon
    <3>2. CASE h # g
      BY <2>5, <3>2
    <3> QED
      BY <3>1, <3>2
  <2>7. made' = [made EXCEPT ![g] = TRUE]
    BY <2>6
  <2> QED
    BY <1>1, <2>1, <2>4, <2>7 DEF Gate!Next, Gate!Send
<1>3. CASE p # Worker
  <2>1. c[1] = "plain"
    BY <1>0, <1>3 DEF Send, At, Processes, Like, WebLike, Calling
  <2>2. \A h \in Runs \X Asks : sent'[h[1]][<<"asked", h[2]>>] = sent[h[1]][<<"asked", h[2]>>]
    BY <1>0, <1>1, <2>1, Params DEF Rows, Sendings
  <2> QED
    BY <1>1, <2>2 DEF Gate!vars
<1> QED
  BY <1>2, <1>3

\* Every step is a step of the gate or a stutter.
LEMMA GateStep ==
    ASSUME GInv, Next
    PROVE  Gate!Next \/ UNCHANGED Gate!vars
<1>0. Processes /\ Rows /\ People /\ Fresh /\ Overdue
  BY DEF GInv, AInv, IInv
<1>1. ASSUME NEW p \in Procs, Reserve(p) \/ Duplicate(p) \/ Send(p) PROVE  Gate!Next \/ UNCHANGED Gate!vars
  <2>1. CASE Send(p)
    BY <2>1, GateSend
  <2> QED
    BY <1>1, <2>1, GateKept DEF Reserve, Duplicate
<1>2. ASSUME NEW p \in Procs, Settle(p) \/ RecordAsk(p) \/ RecordAskFails(p) PROVE  Gate!Next \/ UNCHANGED Gate!vars
  BY <1>0, GateKept, <1>2 DEF Settle, RecordAsk, RecordAskFails
<1>3. ASSUME NEW p \in Procs, Answer(p) PROVE  Gate!Next \/ UNCHANGED Gate!vars
  BY <1>0, GateKept, <1>3 DEF Answer
<1>4. ASSUME NEW p \in Procs, ProviderFails(p) PROVE  Gate!Next \/ UNCHANGED Gate!vars
  BY <1>0, GateKept, <1>4 DEF ProviderFails
<1>5. ASSUME NEW p \in Procs, Ask(p) PROVE  Gate!Next \/ UNCHANGED Gate!vars
  BY <1>0, GateKept, <1>5 DEF Ask
<1>6. ASSUME NEW p \in Procs, RequestApproval(p) PROVE  Gate!Next \/ UNCHANGED Gate!vars
  <2>1. /\ RunOf(p) \in Runs /\ proc[p].call[2] \in Asks /\ appr[RunOf(p)][proc[p].call[2]] = "none"
        /\ UNCHANGED sent
    BY <1>0, GateKept, <1>6, Working DEF RequestApproval, At, Fresh
  <2> QED
    BY <1>0, GateKept, <1>6, <2>1, GateMoves DEF RequestApproval, Gate!Moves
<1>7. ASSUME NEW p \in Procs, FailRun(p) PROVE  Gate!Next \/ UNCHANGED Gate!vars
  BY <1>0, GateKept, <1>7 DEF FailRun
<1>8. ASSUME NEW p \in Procs, Tidy(p) PROVE  Gate!Next \/ UNCHANGED Gate!vars
  BY <1>0, GateKept, <1>8 DEF Tidy
<1>9. ASSUME NEW r \in Runs, Prepare(r) PROVE  Gate!Next \/ UNCHANGED Gate!vars
  BY <1>0, GateKept, <1>9 DEF Prepare
<1>10. ASSUME NEW r \in Runs, Leave(r) PROVE  Gate!Next \/ UNCHANGED Gate!vars
  BY <1>0, GateKept, <1>10 DEF Leave
<1>11. ASSUME NEW r \in Runs, CallTool(r) PROVE  Gate!Next \/ UNCHANGED Gate!vars
  BY <1>0, GateKept, <1>11 DEF CallTool
<1>12. ASSUME NEW r \in Runs, SaveProgress(r) PROVE  Gate!Next \/ UNCHANGED Gate!vars
  BY <1>0, GateKept, <1>12 DEF SaveProgress
<1>13. ASSUME NEW r \in Runs, CompleteRun(r) PROVE  Gate!Next \/ UNCHANGED Gate!vars
  BY <1>0, GateKept, <1>13 DEF CompleteRun
<1>14. ASSUME NEW r \in Runs, Fallback(r) PROVE  Gate!Next \/ UNCHANGED Gate!vars
  BY <1>0, GateKept, <1>14 DEF Fallback
<1>15. ASSUME NEW r \in Runs, Delta(r) PROVE  Gate!Next \/ UNCHANGED Gate!vars
  BY <1>0, GateKept, <1>15 DEF Delta
<1>16. ASSUME NEW r \in Runs, CancelRead(r) PROVE  Gate!Next \/ UNCHANGED Gate!vars
  BY <1>0, GateKept, <1>16 DEF CancelRead
<1>17. ASSUME NEW r \in Runs, CancelTidy(r) PROVE  Gate!Next \/ UNCHANGED Gate!vars
  BY <1>0, GateKept, <1>17 DEF CancelTidy
<1>18. ASSUME NEW r \in Runs, CancelWrite(r) PROVE  Gate!Next \/ UNCHANGED Gate!vars
  <2>1. UNCHANGED sent
    BY <1>18 DEF CancelWrite
  <2>2. CASE cancel[r].read # "waiting"
    BY <1>18, <2>1, <2>2, GateKept DEF CancelWrite
  <2>3. CASE cancel[r].read = "waiting"
    <3> DEFINE states == [k \in Asks |-> IF appr[r][k] = "pending" THEN "expired" ELSE appr[r][k]]
               gate == [h \in Runs \X Asks |-> appr[h[1]][h[2]]]
               lost == {h \in Runs \X Asks : h[1] = r /\ gate[h] = "pending"}
    <3>1. appr' = [appr EXCEPT ![r] = states]
      BY <1>18, <2>3 DEF CancelWrite
    <3>2. \A k \in Asks : states[k] = (IF appr[r][k] = "pending" THEN "expired" ELSE appr[r][k])
      OBVIOUS
    <3> HIDE DEF states
    <3>3. gate' = [h \in Runs \X Asks |-> IF h \in lost THEN "expired" ELSE gate[h]]
      <4>1. \A h \in Runs \X Asks :
               appr'[h[1]][h[2]] = (IF h \in lost THEN "expired" ELSE appr[h[1]][h[2]])
        BY <1>0, GateKept, <3>1, <3>2 DEF Rows, Approvals
      <4> QED
        BY <4>1
    <3>4. lost \in SUBSET {h \in Runs \X Asks : gate[h] = "pending"}
      OBVIOUS
    <3> QED
      BY <2>1, <3>3, <3>4 DEF Gate!Next, Gate!Lapse
  <2> QED
    BY <2>2, <2>3
<1>19. ASSUME NEW d \in Deciders, DecideLate(d) PROVE  Gate!Next \/ UNCHANGED Gate!vars
  <2> DEFINE r == decider[d].run  k == decider[d].ask
  <2>1. r \in Runs /\ k \in Asks /\ appr[r][k] \in {"pending", "expired"} /\ UNCHANGED sent
    BY <1>0, GateKept, <1>19, DecidersWork DEF DecideLate, Overdue
  <2>2. CASE appr[r][k] = "expired"
    <3>1. UNCHANGED appr
      BY <1>0, GateKept, <1>19, <2>1, <2>2 DEF DecideLate, Rows, Approvals
    <3> QED
      BY <2>1, <3>1, GateKept
  <2>3. CASE appr[r][k] = "pending"
    BY <1>0, GateKept, <1>19, <2>1, <2>3, GateMoves DEF DecideLate, Gate!Moves
  <2> QED
    BY <2>1, <2>2, <2>3
<1>20. ASSUME NEW d \in Deciders, Decide(d) PROVE  Gate!Next \/ UNCHANGED Gate!vars
  <2> DEFINE r == decider[d].run  k == decider[d].ask
  <2>1. r \in Runs /\ k \in Asks /\ appr[r][k] = "pending" /\ UNCHANGED sent
    BY <1>0, GateKept, <1>20, DecidersWork DEF Decide
  <2>2. PICK verdict \in Decided : appr' = [appr EXCEPT ![r][k] = verdict]
    BY <1>20 DEF Decide
  <2> QED
    BY <1>0, GateKept, <2>1, <2>2, GateMoves DEF Decided, Gate!Moves
<1>21. ASSUME NEW d \in Deciders, DecideConflict(d) \/ QueueResume(d) PROVE  Gate!Next \/ UNCHANGED Gate!vars
  BY <1>0, GateKept, <1>21 DEF DecideConflict, QueueResume
<1>22. ASSUME NEW d \in Deciders, NEW r \in Runs, NEW k \in Asks, DecideRead(d, r, k) PROVE  Gate!Next \/ UNCHANGED Gate!vars
  BY <1>0, GateKept, <1>22 DEF DecideRead
<1>23. ASSUME NEW r \in Runs, NEW k \in Asks, TakeResume(r, k) PROVE  Gate!Next \/ UNCHANGED Gate!vars
  BY <1>0, GateKept, <1>23 DEF TakeResume
<1>24. ASSUME NEW r \in Runs, NEW k \in Asks, Expire(r, k) PROVE  Gate!Next \/ UNCHANGED Gate!vars
  BY <1>0, GateKept, <1>24, GateMoves DEF Expire, Gate!Moves
<1>25. ASSUME ReadApproval PROVE  Gate!Next \/ UNCHANGED Gate!vars
  BY <1>0, GateKept, <1>25 DEF ReadApproval
<1>26. ASSUME LoadCheckpoint PROVE  Gate!Next \/ UNCHANGED Gate!vars
  BY <1>0, GateKept, <1>26 DEF LoadCheckpoint
<1>27. ASSUME ReadRun PROVE  Gate!Next \/ UNCHANGED Gate!vars
  BY <1>0, GateKept, <1>27 DEF ReadRun
<1>28. ASSUME Reopen PROVE  Gate!Next \/ UNCHANGED Gate!vars
  BY <1>0, GateKept, <1>28 DEF Reopen
<1>29. ASSUME Consume PROVE  Gate!Next \/ UNCHANGED Gate!vars
  <2> DEFINE r == RunOf(Worker)  k == proc[Worker].ask
  <2>1. r \in Runs /\ k \in Asks /\ UNCHANGED sent
    BY <1>0, GateKept, <1>29, Working, Params DEF Consume, At
  <2>2. CASE UNCHANGED appr
    BY <2>1, <2>2, GateKept
  <2>3. CASE appr[r][k] \in Decided /\ appr' = [appr EXCEPT ![r][k] = "consumed"]
    BY <1>0, GateKept, <2>1, <2>3, GateMoves DEF Decided, Gate!Moves
  <2> QED
    BY <1>29, <2>2, <2>3 DEF Consume
<1>30. ASSUME CompleteResumed \/ CompleteRefused \/ WorkerCrash PROVE  Gate!Next \/ UNCHANGED Gate!vars
  BY <1>0, GateKept, <1>30 DEF CompleteResumed, CompleteRefused, WorkerCrash
<1>31. ASSUME WebCrash PROVE  Gate!Next \/ UNCHANGED Gate!vars
  BY <1>0, GateKept, <1>31 DEF WebCrash
<1> QED
  BY <1>1, <1>2, <1>3, <1>4, <1>5, <1>6, <1>7, <1>8, <1>9, <1>10, <1>11, <1>12, <1>13,
     <1>14, <1>15, <1>16, <1>17, <1>18, <1>19, <1>20, <1>21, <1>22, <1>23, <1>24, <1>25,
     <1>26, <1>27, <1>28, <1>29, <1>30, <1>31
  DEF Next, Execute, executeAgentRun, streamAgentRun, streamAiSdkCandidate, executeAiSdkCandidate,
      resumeAgentRunAfterApproval, decideToolApproval, cancelAgentRun, Procs

\* Each approval keeps the promise of ApprovalGate, if no two people decide around the end of its
\* lifetime: one who found it over overwrites what another decided meanwhile.
THEOREM GateIsKept ==
    ASSUME OneDecides
    PROVE  Spec => KeepsGate
<1>1. Init => GInv /\ Gate!Init
  BY InitGInv, GateInit
<1>2. GInv /\ [Next]_vars => GInv'
  BY StepGInv
<1>3. GInv /\ [Next]_vars => [Gate!Next]_(Gate!vars)
  <2>1. CASE UNCHANGED vars
    BY <2>1, GateKept DEF vars
  <2> QED
    BY <2>1, GateStep
<1> QED
  BY <1>1, <1>2, <1>3, PTL DEF Spec, KeepsGate, Gate!Spec

-----------------------------------------------------------------------------
(* A conversation has one active run.                                      *)

\* Places of a process that works on its run; runs that are active or were told to
\* stop; and that whoever works does so on such a run.
Busy == {"model", "ask", "caught", "reopen"} \cup Calling
Open(r) == run[r].status \in Active \/ run[r].cancelReq
Owned == \A p \in Procs : proc[p].at \in Busy => Open(RunOf(p))

\* The resumption of a run failed, and its checkpoint is or will be deleted.
Closing(r) == run[r].status = "failed" /\ (ckpt[r] = 0 \/ (At(Worker, "tidy") /\ RunOf(Worker) = r))
Opened ==
    \A r \in Runs :
        (\E k \in Asks : appr[r][k] # "none") => Open(r) \/ run[r].status = "completed" \/ Closing(r)
\* The worker that has its checkpoint finds its run open or completed, and gives
\* up on it only after an error of the provider.
Reading == At(Worker, "run") => Open(RunOf(Worker)) \/ run[RunOf(Worker)].status = "completed"
Failing == proc[Worker].at \in {"caught", "tidy"} => "error" \in Events

\* No statement fails between an approval and its record, and not both: programs
\* that die and a provider that fails.
Steady == "unsaved" \notin Events /\ ~({"crash", "error"} \subseteq Events)

OInv == AInv /\ Owned /\ Opened /\ Reading /\ Failing /\ OneActive

\* Whoever is at work before it asked is alone on its run.
LEMMA OneWorks ==
    ASSUME Processes, Alone, Steady, NEW r \in Runs, proc[r].at \in Busy
    PROVE  /\ \A k \in Asks : appr[r][k] = "none"
           /\ RunOf(Worker) # r
           /\ \A o \in Procs : proc[o].at \notin {"idle", "done"} => o = r \/ RunOf(o) # r
<1>1. Early(r)
  BY Params DEF Busy, Early, Steady, Processes, Like, WebLike, Resuming
<1>2. \A o \in Procs : proc[o].at \notin {"idle", "done"} => o = Worker \/ RunOf(o) = o
  BY Params DEF Processes, Like, WebLike, RunOf
<1> QED
  BY <1>1, <1>2 DEF Alone, RunOf

\* Every step keeps Owned: who works on a run finds it open.
LEMMA StepOwned ==
    ASSUME OInv, Steady, Next
    PROVE  Owned'
<1>0. /\ Processes /\ Rows /\ People /\ Alone /\ Queued /\ Fresh
      /\ Owned /\ Opened /\ Reading /\ Failing /\ Steady
  BY DEF OInv, AInv, IInv
<1>1. ASSUME NEW p \in Procs, Reserve(p) \/ Duplicate(p) \/ Send(p) PROVE Owned'
  BY <1>0, <1>1, Params, Working, Rest
     DEF OInv, AInv, IInv, Processes, ProcType, Rows, RunRows, RunType,
     At, Goto, RunOf, Owned, Open, Active, Busy, Calling, Alone, Early, Like, WebLike, WorkerLike,
     Reserve, Duplicate, Send
<1>2. ASSUME NEW p \in Procs, Settle(p) \/ RecordAsk(p) \/ RecordAskFails(p) PROVE Owned'
  <2>1. /\ UNCHANGED run /\ \A o \in Procs \ {p} : proc'[o] = proc[o]
        /\ proc'[p].at \in Busy => proc[p].at \in Busy /\ proc'[p].run = RunOf(p)
    BY <1>0, <1>2, Rest
       DEF Settle, RecordAsk, RecordAskFails, Steady, At, Goto, Processes, ProcType, RunOf, Busy, Calling
  <2> QED
    BY <1>0, <2>1 DEF Owned, Open, RunOf
<1>3. ASSUME NEW p \in Procs, Answer(p) PROVE Owned'
  BY <1>0, <1>3, Params, Working, Rest
     DEF OInv, AInv, IInv, Processes, ProcType, Rows, RunRows, RunType,
     At, RunOf, Owned, Open, Active, Busy, Calling, Alone, Early, Like, WebLike, WorkerLike, Answer
<1>4. ASSUME NEW p \in Procs, ProviderFails(p) PROVE Owned'
  BY <1>0, <1>4, Params, Working, Rest
     DEF OInv, AInv, IInv, Processes, ProcType, Rows, RunRows, RunType,
     At, RunOf, Owned, Open, Active, Busy, Calling, Alone, Early, Like, WebLike, WorkerLike,
     ProviderFails
<1>5. ASSUME NEW p \in Procs, Ask(p) PROVE Owned'
  BY <1>0, <1>5, Params, Working, Rest
     DEF OInv, AInv, IInv, Processes, ProcType, Rows, RunRows, RunType,
     At, RunOf, Owned, Open, Active, Busy, Calling, Alone, Early, Like, WebLike, WorkerLike, Ask
<1>6. ASSUME NEW p \in Procs, RequestApproval(p) PROVE Owned'
  BY <1>0, <1>6, Params, Working, Rest
     DEF OInv, AInv, IInv, Processes, ProcType, Rows, RunRows, RunType,
     At, Goto, RunOf, Owned, Open, Active, Busy, Calling, Alone, Early, Like, WebLike, WorkerLike,
     RequestApproval
<1>7. ASSUME NEW p \in Procs, FailRun(p) PROVE Owned'
  <2> DEFINE r == RunOf(p)
  <2>1. /\ r \in Runs /\ UNCHANGED <<appr, ckpt>> /\ (p # Worker => r = p)
        /\ proc'[p].at = "tidy" /\ \A o \in Procs \ {p} : proc'[o] = proc[o]
        /\ proc'[p].run = r /\ proc[p].at = "caught"
    BY <1>0, <1>7, Working DEF FailRun, At, Goto, Processes, ProcType, RunOf
  <2>2. PICK v \in {"cancelled", "failed"} :
           run' = [run EXCEPT ![r].status = v] /\ (proc[p].outcome # "cancelled" => v = "failed")
    BY <1>7 DEF FailRun
  <2>3. /\ run'[r].status = v /\ run'[r].cancelReq = run[r].cancelReq
        /\ \A u \in Runs \ {r} : run'[u] = run[u]
    BY <1>0, <2>1, <2>2 DEF Rows, RunRows, RunType
  <2>4. ASSUME NEW o \in Procs, proc'[o].at \in Busy
        PROVE  proc[o] = proc'[o] /\ RunOf(o) # r /\ RunOf(o) \in Runs
    <3>1. o # p /\ proc[o] = proc'[o]
      BY <2>1, <2>4 DEF Busy, Calling
    <3> QED
      BY <1>0, <2>1, <2>4, <3>1, OneWorks, Working DEF Busy, Calling
  <2> QED
    BY <1>0, <2>3, <2>4 DEF Owned, Open, RunOf
<1>8. ASSUME NEW p \in Procs, Tidy(p) PROVE Owned'
  BY <1>0, <1>8, Params, Working, Rest
     DEF OInv, AInv, IInv, Processes, ProcType, Rows, RunRows, RunType,
     At, Goto, Raise, RunOf, Owned, Open, Active, Busy, Calling, Alone, Early, Like, WebLike, WorkerLike,
     Tidy
<1>9. ASSUME NEW r \in Runs, Prepare(r) PROVE Owned'
  BY <1>0, <1>9, Params, Working, Rest
     DEF OInv, AInv, IInv, Processes, ProcType, Rows, RunRows, RunType,
     At, RunOf, Owned, Open, Active, Busy, Calling, Alone, Early, Like, WebLike, WorkerLike, Prepare
<1>10. ASSUME NEW r \in Runs, Leave(r) PROVE Owned'
  BY <1>0, <1>10, Params, Working, Rest DEF OInv, AInv, IInv, Processes, ProcType, Rows, RunRows,
     RunType, RunOf, Owned, Open, Active, Busy, Calling, Alone, Early, Like, WebLike, WorkerLike, Leave
<1>11. ASSUME NEW r \in Runs, CallTool(r) PROVE Owned'
  BY <1>0, <1>11, Params, Working, Rest DEF OInv, AInv, IInv, Processes, ProcType, Rows, RunRows,
     RunType, At, RunOf, Owned, Open, Active, Busy, Calling, Alone, Early, Like, WebLike, WorkerLike,
     CallTool
<1>12. ASSUME NEW r \in Runs, SaveProgress(r) PROVE Owned'
  BY <1>0, <1>12, Params, Working, Rest DEF OInv, AInv, IInv, Processes, ProcType, Rows, RunRows,
     RunType, At, Goto, RunOf, Owned, Open, Active, Busy, Calling, Alone, Early, Like, WebLike,
     WorkerLike, SaveProgress
<1>13. ASSUME NEW r \in Runs, CompleteRun(r) PROVE Owned'
  BY <1>0, <1>13, Params, Working, Rest DEF OInv, AInv, IInv, Processes, ProcType, Rows, RunRows,
     RunType, At, Goto, RunOf, Owned, Open, Active, Busy, Calling, Alone, Early, Like, WebLike,
     WorkerLike, CompleteRun
<1>14. ASSUME NEW r \in Runs, Fallback(r) PROVE Owned'
  BY <1>0, <1>14, Params, Working, Rest DEF OInv, AInv, IInv, Processes, ProcType, Rows, RunRows,
     RunType, At, RunOf, Owned, Open, Active, Busy, Calling, Alone, Early, Like, WebLike, WorkerLike,
     Fallback
<1>15. ASSUME NEW r \in Runs, Delta(r) PROVE Owned'
  <2>1. /\ UNCHANGED <<run, ckpt, appr>> /\ proc'[r].at = proc[r].at /\ proc'[r].run = proc[r].run
        /\ \A o \in Procs \ {r} : proc'[o] = proc[o]
    BY <1>0, <1>15, Params DEF Delta, At, Processes, ProcType
  <2> QED
    BY <1>0, <2>1, Params DEF Owned, Open, RunOf
<1>16. ASSUME NEW r \in Runs, CancelRead(r) PROVE Owned'
  BY <1>0, <1>16, Params, Working, Rest DEF OInv, AInv, IInv, Processes, ProcType, Rows, RunRows,
     RunType, RunOf, Owned, Open, Active, Busy, Calling, Alone, Early, Like, WebLike, WorkerLike,
     CancelRead
<1>17. ASSUME NEW r \in Runs, CancelTidy(r) PROVE Owned'
  BY <1>0, <1>17, Params, Working, Rest DEF OInv, AInv, IInv, Processes, ProcType, Rows, RunRows,
     RunType, RunOf, Owned, Open, Active, Busy, Calling, Alone, Early, Like, WebLike, WorkerLike,
     CancelTidy
<1>18. ASSUME NEW r \in Runs, CancelWrite(r) PROVE Owned'
  BY <1>0, <1>18, Params, Working, Rest DEF OInv, AInv, IInv, Processes, ProcType, Rows, RunRows,
     RunType, RunOf, Owned, Open, Active, Busy, Calling, Alone, Early, Like, WebLike, WorkerLike,
     CancelWrite
<1>19. ASSUME NEW d \in Deciders, DecideLate(d) PROVE Owned'
  BY <1>0, <1>19, Params, Working, Rest DEF OInv, AInv, IInv, Processes, ProcType, Rows, RunRows,
     RunType, RunOf, Owned, Open, Active, Busy, Calling, Alone, Early, Like, WebLike, WorkerLike,
     DecideLate
<1>20. ASSUME NEW d \in Deciders, Decide(d) PROVE Owned'
  BY <1>0, <1>20, Params, Working, Rest DEF OInv, AInv, IInv, Processes, ProcType, Rows, RunRows,
     RunType, RunOf, Owned, Open, Active, Busy, Calling, Alone, Early, Like, WebLike, WorkerLike, Decide
<1>21. ASSUME NEW d \in Deciders, DecideConflict(d) \/ QueueResume(d) PROVE Owned'
  BY <1>0, <1>21, Params, Working, Rest DEF OInv, AInv, IInv, Processes, ProcType, Rows, RunRows,
     RunType, RunOf, Owned, Open, Active, Busy, Calling, Alone, Early, Like, WebLike, WorkerLike,
     DecideConflict, QueueResume
<1>22. ASSUME NEW d \in Deciders, NEW r \in Runs, NEW k \in Asks, DecideRead(d, r, k) PROVE Owned'
  BY <1>0, <1>22, Params, Working, Rest DEF OInv, AInv, IInv, Processes, ProcType, Rows, RunRows,
     RunType, RunOf, Owned, Open, Active, Busy, Calling, Alone, Early, Like, WebLike, WorkerLike,
     DecideRead
<1>23. ASSUME NEW r \in Runs, NEW k \in Asks, TakeResume(r, k) PROVE Owned'
  BY <1>0, <1>23, Params, Working, Rest DEF OInv, AInv, IInv, Processes, ProcType, Rows, RunRows,
     RunType, At, RunOf, Owned, Open, Active, Busy, Calling, Alone, Early, Like, WebLike, WorkerLike,
     TakeResume
<1>24. ASSUME NEW r \in Runs, NEW k \in Asks, Expire(r, k) PROVE Owned'
  BY <1>0, <1>24, Params, Working, Rest DEF OInv, AInv, IInv, Processes, ProcType, Rows, RunRows,
     RunType, RunOf, Owned, Open, Active, Busy, Calling, Alone, Early, Like, WebLike, WorkerLike, Expire
<1>25. ASSUME ReadApproval PROVE Owned'
  BY <1>0, <1>25, Params, Working, Rest DEF OInv, AInv, IInv, Processes, ProcType, Rows, RunRows,
     RunType, At, Raise, RunOf, Owned, Open, Active, Busy, Calling, Alone, Early, Like, WebLike,
     WorkerLike, ReadApproval
<1>26. ASSUME LoadCheckpoint PROVE Owned'
  BY <1>0, <1>26, Params, Working, Rest DEF OInv, AInv, IInv, Processes, ProcType, Rows, RunRows,
     RunType, At, Goto, Raise, RunOf, Owned, Open, Active, Busy, Calling, Alone, Early, Like, WebLike,
     WorkerLike, LoadCheckpoint
<1>27. ASSUME ReadRun PROVE Owned'
  <2>1. UNCHANGED run /\ proc[Worker].at = "run" /\ \A o \in Procs \ {Worker} : proc'[o] = proc[o]
    BY <1>0, <1>27, Params DEF ReadRun, At, Return, Goto, Processes
  <2>2. CASE Return
    <3>1. proc'[Worker].at = "idle"
      BY <1>0, <2>2, Params, Rest DEF Return, Processes
    <3> QED
      BY <1>0, <2>1, <3>1 DEF Owned, Open, Busy, Calling, RunOf
  <2>3. CASE Goto(Worker, "reopen") /\ run[RunOf(Worker)].status # "completed"
    <3>1. proc'[Worker].run = RunOf(Worker) /\ Open(RunOf(Worker))
      BY <1>0, <2>1, <2>3, Params DEF Goto, Processes, ProcType, RunOf, Reading, At
    <3> QED
      BY <1>0, <2>1, <3>1 DEF Owned, Open, RunOf
  <2> QED
    BY <1>27, <2>2, <2>3 DEF ReadRun
<1>28. ASSUME Reopen PROVE Owned'
  BY <1>0, <1>28, Params, Working, Rest DEF OInv, AInv, IInv, Processes, ProcType, Rows, RunRows,
     RunType, At, Goto, RunOf, Owned, Open, Active, Busy, Calling, Alone, Early, Like, WebLike,
     WorkerLike, Reopen
<1>29. ASSUME Consume PROVE Owned'
  <2>0. UNCHANGED run
    BY <1>29 DEF Consume
  <2>1. proc'[Worker].at \in {"idle", "complete"} /\ \A o \in Procs \ {Worker} : proc'[o] = proc[o]
    BY <1>0, <1>29, Consumes, Params, Rest DEF Raise, Return, Goto, Processes, ProcType
  <2> QED
    BY <1>0, <2>0, <2>1 DEF Owned, Open, Busy, Calling, RunOf
<1>30. ASSUME CompleteResumed \/ CompleteRefused \/ WorkerCrash PROVE Owned'
  <2>1. /\ proc'[Worker].at = "idle" /\ \A o \in Procs \ {Worker} : proc'[o] = proc[o]
        /\ proc[Worker].at # "idle"
    BY <1>0, <1>30, Params, Rest
       DEF CompleteResumed, CompleteRefused, WorkerCrash, At, Raise, Return, Processes
  <2>2. \A u \in Runs : u # RunOf(Worker) => run'[u] = run[u]
    BY <1>0, <1>30 DEF CompleteResumed, CompleteRefused, WorkerCrash, Rows, RunRows
  <2>3. ASSUME NEW o \in Procs, proc'[o].at \in Busy
        PROVE  proc[o] = proc'[o] /\ RunOf(o) # RunOf(Worker) /\ RunOf(o) \in Runs
    BY <1>0, <2>1, <2>3, OneWorks, Working, Params DEF Busy, Calling
  <2> QED
    BY <1>0, <2>2, <2>3 DEF Owned, Open, RunOf
<1>31. ASSUME WebCrash PROVE Owned'
  BY <1>0, <1>31, Params, Working, Rest DEF OInv, AInv, IInv, Processes, ProcType, Rows, RunRows,
     RunType, At, RunOf, Owned, Open, Active, Busy, Calling, Alone, Early, Like, WebLike, WorkerLike,
     WebCrash
<1> QED
  BY <1>1, <1>2, <1>3, <1>4, <1>5, <1>6, <1>7, <1>8, <1>9, <1>10, <1>11, <1>12, <1>13,
     <1>14, <1>15, <1>16, <1>17, <1>18, <1>19, <1>20, <1>21, <1>22, <1>23, <1>24, <1>25,
     <1>26, <1>27, <1>28, <1>29, <1>30, <1>31
  DEF Next, Execute, executeAgentRun, streamAgentRun, streamAiSdkCandidate, executeAiSdkCandidate,
      resumeAgentRunAfterApproval, decideToolApproval, cancelAgentRun, Procs

\* Every step keeps Opened: what is left of a run that ended.
LEMMA StepOpened ==
    ASSUME OInv, Steady, Next
    PROVE  Opened'
<1>0. /\ Processes /\ Rows /\ People /\ Alone /\ Queued /\ Fresh
      /\ Owned /\ Opened /\ Reading /\ Failing /\ Steady
  BY DEF OInv, AInv, IInv
<1>1. ASSUME NEW p \in Procs, Reserve(p) \/ Duplicate(p) \/ Send(p) PROVE Opened'
  <2>1. UNCHANGED <<run, ckpt, appr>> /\ (At(Worker, "tidy") => proc'[Worker] = proc[Worker])
    BY <1>0, <1>1, Params DEF Reserve, Duplicate, Send, At, Goto, Processes
  <2> QED
    BY <1>0, <2>1 DEF Opened, Open, Closing, At, RunOf
<1>2. ASSUME NEW p \in Procs, Settle(p) \/ RecordAsk(p) \/ RecordAskFails(p) PROVE Opened'
  BY <1>0, <1>2, Params, Working, Rest
     DEF OInv, AInv, IInv, Processes, ProcType, Rows, RunRows, RunType,
     At, Goto, RunOf, Opened, Open, Closing, Active, Approvals, Alone, Early, Calling, Owned, Busy,
     Settle, RecordAsk, RecordAskFails
<1>3. ASSUME NEW p \in Procs, Answer(p) PROVE Opened'
  BY <1>0, <1>3, Params, Working, Rest
     DEF OInv, AInv, IInv, Processes, ProcType, Rows, RunRows, RunType,
     At, RunOf, Opened, Open, Closing, Active, Approvals, Alone, Early, Calling, Owned, Busy, Answer
<1>4. ASSUME NEW p \in Procs, ProviderFails(p) PROVE Opened'
  BY <1>0, <1>4, Params, Working, Rest
     DEF OInv, AInv, IInv, Processes, ProcType, Rows, RunRows, RunType,
     At, RunOf, Opened, Open, Closing, Active, Approvals, Alone, Early, Calling, Owned, Busy,
     ProviderFails
<1>5. ASSUME NEW p \in Procs, Ask(p) PROVE Opened'
  BY <1>0, <1>5, Params, Working, Rest
     DEF OInv, AInv, IInv, Processes, ProcType, Rows, RunRows, RunType,
     At, RunOf, Opened, Open, Closing, Active, Approvals, Alone, Early, Calling, Owned, Busy, Ask
<1>6. ASSUME NEW p \in Procs, RequestApproval(p) PROVE Opened'
  BY <1>0, <1>6, Params, Working, Rest
     DEF OInv, AInv, IInv, Processes, ProcType, Rows, RunRows, RunType,
     At, Goto, RunOf, Opened, Open, Closing, Active, Approvals, Alone, Early, Calling, Owned, Busy,
     RequestApproval
<1>7. ASSUME NEW p \in Procs, FailRun(p) PROVE Opened'
  <2> DEFINE r == RunOf(p)
  <2>1. /\ r \in Runs /\ UNCHANGED <<appr, ckpt>> /\ (p # Worker => r = p)
        /\ proc'[p].at = "tidy" /\ \A o \in Procs \ {p} : proc'[o] = proc[o]
        /\ proc'[p].run = r /\ proc[p].at = "caught"
    BY <1>0, <1>7, Working DEF FailRun, At, Goto, Processes, ProcType, RunOf
  <2>2. PICK v \in {"cancelled", "failed"} :
           run' = [run EXCEPT ![r].status = v] /\ (proc[p].outcome # "cancelled" => v = "failed")
    BY <1>7 DEF FailRun
  <2>3. /\ run'[r].status = v /\ run'[r].cancelReq = run[r].cancelReq
        /\ \A u \in Runs \ {r} : run'[u] = run[u]
    BY <1>0, <2>1, <2>2 DEF Rows, RunRows, RunType
  <2>4. CASE p = Worker
    <3>1. v = "failed"
      BY <1>0, <2>2, <2>4 DEF Processes, Like, WorkerLike
    <3>2. \A u \in Runs : u = r => Closing(u)'
      BY <2>1, <2>3, <2>4, <3>1 DEF Closing, At, RunOf
    <3>3. \A u \in Runs : Closing(u) => u = r \/ Closing(u)'
      BY <2>1, <2>3, <2>4 DEF Closing, At, RunOf
    <3> QED
      BY <1>0, <2>1, <2>3, <3>2, <3>3 DEF Opened, Open
  <2>5. CASE p # Worker
    <3>1. \A k \in Asks : appr[r][k] = "none"
      BY <1>0, <2>1, <2>5, OneWorks DEF Busy
    <3>2. proc'[Worker] = proc[Worker]
      BY <2>1, <2>5, Params
    <3> QED
      BY <1>0, <2>1, <2>3, <3>1, <3>2 DEF Opened, Open, Closing, At, RunOf
  <2> QED
    BY <2>4, <2>5
<1>8. ASSUME NEW p \in Procs, Tidy(p) PROVE Opened'
  <2>1. /\ UNCHANGED <<run, appr>> /\ ckpt' = [ckpt EXCEPT ![RunOf(p)] = 0] /\ RunOf(p) \in Runs
    BY <1>0, <1>8, Working DEF Tidy, At
  <2>2. \A u \in Runs : ckpt[u] = 0 \/ u = RunOf(p) => ckpt'[u] = 0
    BY <1>0, <2>1 DEF Rows, Checkpoints
  <2>3. p # Worker => proc'[Worker] = proc[Worker]
    BY <1>0, <1>8, Params DEF Tidy, Goto, Processes
  <2>4. \A u \in Runs : Closing(u) => Closing(u)'
    BY <2>1, <2>2, <2>3 DEF Closing, At, RunOf
  <2> QED
    BY <1>0, <2>1, <2>4 DEF Opened, Open
<1>9. ASSUME NEW r \in Runs, Prepare(r) PROVE Opened'
  BY <1>0, <1>9, Params, Working, Rest
     DEF OInv, AInv, IInv, Processes, ProcType, Rows, RunRows, RunType,
     At, RunOf, Opened, Open, Closing, Active, Approvals, Alone, Early, Calling, Owned, Busy, Prepare
<1>10. ASSUME NEW r \in Runs, Leave(r) PROVE Opened'
  BY <1>0, <1>10, Params, Working, Rest DEF OInv, AInv, IInv, Processes, ProcType, Rows, RunRows,
     RunType, At, RunOf, Opened, Open, Closing, Active, Approvals, Alone, Early, Calling, Owned, Busy,
     Leave
<1>11. ASSUME NEW r \in Runs, CallTool(r) PROVE Opened'
  BY <1>0, <1>11, Params, Working, Rest DEF OInv, AInv, IInv, Processes, ProcType, Rows, RunRows,
     RunType, At, RunOf, Opened, Open, Closing, Active, Approvals, Alone, Early, Calling, Owned, Busy,
     CallTool
<1>12. ASSUME NEW r \in Runs, SaveProgress(r) PROVE Opened'
  BY <1>0, <1>12, Params, Working, Rest DEF OInv, AInv, IInv, Processes, ProcType, Rows, RunRows,
     RunType, At, Goto, RunOf, Opened, Open, Closing, Active, Approvals, Alone, Early, Calling, Owned,
     Busy, SaveProgress
<1>13. ASSUME NEW r \in Runs, CompleteRun(r) PROVE Opened'
  BY <1>0, <1>13, Params, Working, Rest DEF OInv, AInv, IInv, Processes, ProcType, Rows, RunRows,
     RunType, At, Goto, RunOf, Opened, Open, Closing, Active, Approvals, Alone, Early, Calling, Owned,
     Busy, CompleteRun
<1>14. ASSUME NEW r \in Runs, Fallback(r) PROVE Opened'
  BY <1>0, <1>14, Params, Working, Rest DEF OInv, AInv, IInv, Processes, ProcType, Rows, RunRows,
     RunType, At, RunOf, Opened, Open, Closing, Active, Approvals, Alone, Early, Calling, Owned, Busy,
     Fallback
<1>15. ASSUME NEW r \in Runs, Delta(r) PROVE Opened'
  <2>1. /\ UNCHANGED <<run, ckpt, appr>> /\ proc'[r].at = proc[r].at /\ proc'[r].run = proc[r].run
        /\ \A o \in Procs \ {r} : proc'[o] = proc[o]
    BY <1>0, <1>15, Params DEF Delta, At, Processes, ProcType
  <2> QED
    BY <1>0, <2>1, Params DEF Opened, Open, Closing, At, RunOf
<1>16. ASSUME NEW r \in Runs, CancelRead(r) PROVE Opened'
  BY <1>0, <1>16, Params, Working, Rest DEF OInv, AInv, IInv, Processes, ProcType, Rows, RunRows,
     RunType, At, RunOf, Opened, Open, Closing, Active, Approvals, Alone, Early, Calling, Owned, Busy,
     CancelRead
<1>17. ASSUME NEW r \in Runs, CancelTidy(r) PROVE Opened'
  BY <1>0, <1>17, Params, Working, Rest DEF OInv, AInv, IInv, Processes, ProcType, Rows, RunRows,
     RunType, At, RunOf, Opened, Open, Closing, Active, Approvals, Alone, Early, Calling, Owned, Busy,
     CancelTidy
<1>18. ASSUME NEW r \in Runs, CancelWrite(r) PROVE Opened'
  <2>1. UNCHANGED <<proc, ckpt>> /\ run'[r].cancelReq /\ \A u \in Runs \ {r} : run'[u] = run[u]
    <3>1. \/ run' = [run EXCEPT ![r] = [status |-> "cancelled", cancelReq |-> TRUE]]
          \/ run' = [run EXCEPT ![r].cancelReq = TRUE]
      BY <1>18 DEF CancelWrite
    <3> QED
      BY <1>0, <1>18, <3>1 DEF CancelWrite, Rows, RunRows, RunType
  <2>2. \A u \in Runs \ {r} : appr'[u] = appr[u]
    BY <1>0, <1>18 DEF CancelWrite, Rows, Approvals
  <2> QED
    BY <1>0, <2>1, <2>2 DEF Opened, Open, Closing, At, RunOf
<1>19. ASSUME NEW d \in Deciders, DecideLate(d) PROVE Opened'
  <2> DEFINE r == decider[d].run  k == decider[d].ask
  <2>1. r \in Runs /\ k \in Asks /\ appr[r][k] # "none" /\ UNCHANGED <<proc, run, ckpt>>
    BY <1>0, <1>19, DecidersWork DEF DecideLate, Queued
  <2>2. \A u \in Runs : (\E j \in Asks : appr'[u][j] # "none") => \E j \in Asks : appr[u][j] # "none"
    BY <1>0, <1>19, <2>1 DEF DecideLate, Rows, Approvals
  <2> QED
    BY <1>0, <2>1, <2>2 DEF Opened, Open, Closing, At, RunOf
<1>20. ASSUME NEW d \in Deciders, Decide(d) PROVE Opened'
  BY <1>0, <1>20, Params, Working, Rest DEF OInv, AInv, IInv, Processes, ProcType, Rows, RunRows,
     RunType, At, RunOf, Opened, Open, Closing, Active, Approvals, Alone, Early, Calling, Owned, Busy,
     Decide
<1>21. ASSUME NEW d \in Deciders, DecideConflict(d) \/ QueueResume(d) PROVE Opened'
  BY <1>0, <1>21, Params, Working, Rest DEF OInv, AInv, IInv, Processes, ProcType, Rows, RunRows,
     RunType, At, RunOf, Opened, Open, Closing, Active, Approvals, Alone, Early, Calling, Owned, Busy,
     DecideConflict, QueueResume
<1>22. ASSUME NEW d \in Deciders, NEW r \in Runs, NEW k \in Asks, DecideRead(d, r, k) PROVE Opened'
  BY <1>0, <1>22, Params, Working, Rest DEF OInv, AInv, IInv, Processes, ProcType, Rows, RunRows,
     RunType, At, RunOf, Opened, Open, Closing, Active, Approvals, Alone, Early, Calling, Owned, Busy,
     DecideRead
<1>23. ASSUME NEW r \in Runs, NEW k \in Asks, TakeResume(r, k) PROVE Opened'
  BY <1>0, <1>23, Params, Working, Rest DEF OInv, AInv, IInv, Processes, ProcType, Rows, RunRows,
     RunType, At, RunOf, Opened, Open, Closing, Active, Approvals, Alone, Early, Calling, Owned, Busy,
     TakeResume
<1>24. ASSUME NEW r \in Runs, NEW k \in Asks, Expire(r, k) PROVE Opened'
  BY <1>0, <1>24, Params, Working, Rest DEF OInv, AInv, IInv, Processes, ProcType, Rows, RunRows,
     RunType, At, RunOf, Opened, Open, Closing, Active, Approvals, Alone, Early, Calling, Owned, Busy,
     Expire
<1>25. ASSUME ReadApproval PROVE Opened'
  BY <1>0, <1>25, Params, Working, Rest DEF OInv, AInv, IInv, Processes, ProcType, Rows, RunRows,
     RunType, At, Raise, RunOf, Opened, Open, Closing, Active, Approvals, Alone, Early, Calling, Owned,
     Busy, ReadApproval
<1>26. ASSUME LoadCheckpoint PROVE Opened'
  BY <1>0, <1>26, Params, Working, Rest DEF OInv, AInv, IInv, Processes, ProcType, Rows, RunRows,
     RunType, At, Goto, Raise, RunOf, Opened, Open, Closing, Active, Approvals, Alone, Early, Calling,
     Owned, Busy, LoadCheckpoint
<1>27. ASSUME ReadRun PROVE Opened'
  BY <1>0, <1>27, Params, Working, Rest DEF OInv, AInv, IInv, Processes, ProcType, Rows, RunRows,
     RunType, At, Goto, Return, RunOf, Opened, Open, Closing, Active, Approvals, Alone, Early, Calling,
     Owned, Busy, ReadRun
<1>28. ASSUME Reopen PROVE Opened'
  BY <1>0, <1>28, Params, Working, Rest DEF OInv, AInv, IInv, Processes, ProcType, Rows, RunRows,
     RunType, At, Goto, RunOf, Opened, Open, Closing, Active, Approvals, Alone, Early, Calling, Owned,
     Busy, Reopen
<1>29. ASSUME Consume PROVE Opened'
  <2>1. RunOf(Worker) \in Runs /\ proc[Worker].ask \in Asks /\ UNCHANGED <<run, ckpt>> /\ ~At(Worker, "tidy")
    BY <1>0, <1>29, Working, Params DEF Consume, At
  <2>2. \A u \in Runs : (\E j \in Asks : appr'[u][j] # "none") => \E j \in Asks : appr[u][j] # "none"
    <3>1. \/ UNCHANGED appr
          \/ /\ appr[RunOf(Worker)][proc[Worker].ask] \in Decided
             /\ appr' = [appr EXCEPT ![RunOf(Worker)][proc[Worker].ask] = "consumed"]
      BY <1>29 DEF Consume
    <3> QED
      BY <1>0, <2>1, <3>1 DEF Rows, Approvals, Decided
  <2> QED
    BY <1>0, <2>1, <2>2 DEF Opened, Open, Closing
<1>30. ASSUME CompleteResumed \/ CompleteRefused \/ WorkerCrash PROVE Opened'
  <2>1. /\ UNCHANGED <<appr, ckpt>> /\ ~At(Worker, "tidy")
    BY <1>0, <1>30 DEF CompleteResumed, CompleteRefused, WorkerCrash, At, Failing, Steady
  <2>2. UNCHANGED run \/ run' = [run EXCEPT ![RunOf(Worker)].status = "completed"]
    BY <1>30 DEF CompleteResumed, CompleteRefused, WorkerCrash
  <2>3. \A u \in Runs : run'[u] = run[u] \/ run'[u].status = "completed"
    BY <1>0, <2>2 DEF Rows, RunRows, RunType
  <2> QED
    BY <1>0, <2>1, <2>3 DEF Opened, Open, Closing
<1>31. ASSUME WebCrash PROVE Opened'
  BY <1>0, <1>31, Params, Working, Rest DEF OInv, AInv, IInv, Processes, ProcType, Rows, RunRows,
     RunType, At, RunOf, Opened, Open, Closing, Active, Approvals, Alone, Early, Calling, Owned, Busy,
     WebCrash
<1> QED
  BY <1>1, <1>2, <1>3, <1>4, <1>5, <1>6, <1>7, <1>8, <1>9, <1>10, <1>11, <1>12, <1>13,
     <1>14, <1>15, <1>16, <1>17, <1>18, <1>19, <1>20, <1>21, <1>22, <1>23, <1>24, <1>25,
     <1>26, <1>27, <1>28, <1>29, <1>30, <1>31
  DEF Next, Execute, executeAgentRun, streamAgentRun, streamAiSdkCandidate, executeAiSdkCandidate,
      resumeAgentRunAfterApproval, decideToolApproval, cancelAgentRun, Procs

\* Every step keeps Reading: the worker's run is open or completed.
LEMMA StepReading ==
    ASSUME OInv, Steady, Next
    PROVE  Reading'
<1>0. /\ Processes /\ Rows /\ People /\ Alone /\ Queued /\ Fresh
      /\ Owned /\ Opened /\ Reading /\ Failing /\ OneActive /\ Steady
  BY DEF OInv, AInv, IInv
<1>1. ASSUME NEW p \in Procs, Reserve(p) \/ Duplicate(p) \/ Send(p) PROVE Reading'
  BY <1>0, <1>1, Params, Working, Rest
     DEF OInv, AInv, IInv, Processes, ProcType, Rows, RunRows, RunType,
     At, Goto, RunOf, Reading, Open, Active, Alone, Early, Opened, Closing, Queued, Reserve, Duplicate,
     Send
<1>2. ASSUME NEW p \in Procs, Settle(p) \/ RecordAsk(p) \/ RecordAskFails(p) PROVE Reading'
  BY <1>0, <1>2, Params, Working, Rest
     DEF OInv, AInv, IInv, Processes, ProcType, Rows, RunRows, RunType,
     At, Goto, RunOf, Reading, Open, Active, Alone, Early, Opened, Closing, Queued, Settle, RecordAsk,
     RecordAskFails
<1>3. ASSUME NEW p \in Procs, Answer(p) PROVE Reading'
  BY <1>0, <1>3, Params, Working, Rest
     DEF OInv, AInv, IInv, Processes, ProcType, Rows, RunRows, RunType,
     At, RunOf, Reading, Open, Active, Alone, Early, Opened, Closing, Queued, Answer
<1>4. ASSUME NEW p \in Procs, ProviderFails(p) PROVE Reading'
  BY <1>0, <1>4, Params, Working, Rest
     DEF OInv, AInv, IInv, Processes, ProcType, Rows, RunRows, RunType,
     At, RunOf, Reading, Open, Active, Alone, Early, Opened, Closing, Queued, ProviderFails
<1>5. ASSUME NEW p \in Procs, Ask(p) PROVE Reading'
  BY <1>0, <1>5, Params, Working, Rest
     DEF OInv, AInv, IInv, Processes, ProcType, Rows, RunRows, RunType,
     At, RunOf, Reading, Open, Active, Alone, Early, Opened, Closing, Queued, Ask
<1>6. ASSUME NEW p \in Procs, RequestApproval(p) PROVE Reading'
  BY <1>0, <1>6, Params, Working, Rest
     DEF OInv, AInv, IInv, Processes, ProcType, Rows, RunRows, RunType,
     At, Goto, RunOf, Reading, Open, Active, Alone, Early, Opened, Closing, Queued, RequestApproval
<1>7. ASSUME NEW p \in Procs, FailRun(p) PROVE Reading'
  <2> DEFINE r == RunOf(p)
  <2>1. /\ r \in Runs /\ UNCHANGED <<appr, ckpt>> /\ (p # Worker => r = p)
        /\ proc'[p].at = "tidy" /\ \A o \in Procs \ {p} : proc'[o] = proc[o]
        /\ proc'[p].run = r /\ proc[p].at = "caught"
    BY <1>0, <1>7, Working DEF FailRun, At, Goto, Processes, ProcType, RunOf
  <2>2. PICK v \in {"cancelled", "failed"} :
           run' = [run EXCEPT ![r].status = v] /\ (proc[p].outcome # "cancelled" => v = "failed")
    BY <1>7 DEF FailRun
  <2>3. /\ run'[r].status = v /\ run'[r].cancelReq = run[r].cancelReq
        /\ \A u \in Runs \ {r} : run'[u] = run[u]
    BY <1>0, <2>1, <2>2 DEF Rows, RunRows, RunType
  <2>4. CASE p = Worker
    BY <2>1, <2>4 DEF Reading, At
  <2>5. CASE p # Worker
    <3>1. proc'[Worker] = proc[Worker] /\ RunOf(Worker) # r
      BY <1>0, <2>1, <2>5, OneWorks, Params DEF Busy
    <3>2. At(Worker, "run") => RunOf(Worker) \in Runs
      BY <1>0, Working, Params DEF At
    <3> QED
      BY <1>0, <2>3, <3>1, <3>2 DEF Reading, Open, At, RunOf
  <2> QED
    BY <2>4, <2>5
<1>8. ASSUME NEW p \in Procs, Tidy(p) PROVE Reading'
  BY <1>0, <1>8, Params, Working, Rest
     DEF OInv, AInv, IInv, Processes, ProcType, Rows, RunRows, RunType,
     At, Goto, Raise, RunOf, Reading, Open, Active, Alone, Early, Opened, Closing, Queued, Tidy
<1>9. ASSUME NEW r \in Runs, Prepare(r) PROVE Reading'
  BY <1>0, <1>9, Params, Working, Rest
     DEF OInv, AInv, IInv, Processes, ProcType, Rows, RunRows, RunType,
     At, RunOf, Reading, Open, Active, Alone, Early, Opened, Closing, Queued, Prepare
<1>10. ASSUME NEW r \in Runs, Leave(r) PROVE Reading'
  BY <1>0, <1>10, Params, Working, Rest DEF OInv, AInv, IInv, Processes, ProcType, Rows, RunRows,
     RunType, At, RunOf, Reading, Open, Active, Alone, Early, Opened, Closing, Queued, Leave
<1>11. ASSUME NEW r \in Runs, CallTool(r) PROVE Reading'
  BY <1>0, <1>11, Params, Working, Rest DEF OInv, AInv, IInv, Processes, ProcType, Rows, RunRows,
     RunType, At, RunOf, Reading, Open, Active, Alone, Early, Opened, Closing, Queued, CallTool
<1>12. ASSUME NEW r \in Runs, SaveProgress(r) PROVE Reading'
  BY <1>0, <1>12, Params, Working, Rest DEF OInv, AInv, IInv, Processes, ProcType, Rows, RunRows,
     RunType, At, Goto, RunOf, Reading, Open, Active, Alone, Early, Opened, Closing, Queued, SaveProgress
<1>13. ASSUME NEW r \in Runs, CompleteRun(r) PROVE Reading'
  BY <1>0, <1>13, Params, Working, Rest DEF OInv, AInv, IInv, Processes, ProcType, Rows, RunRows,
     RunType, At, Goto, RunOf, Reading, Open, Active, Alone, Early, Opened, Closing, Queued, CompleteRun
<1>14. ASSUME NEW r \in Runs, Fallback(r) PROVE Reading'
  BY <1>0, <1>14, Params, Working, Rest DEF OInv, AInv, IInv, Processes, ProcType, Rows, RunRows,
     RunType, At, RunOf, Reading, Open, Active, Alone, Early, Opened, Closing, Queued, Fallback
<1>15. ASSUME NEW r \in Runs, Delta(r) PROVE Reading'
  <2>1. UNCHANGED run /\ proc'[Worker] = proc[Worker]
    BY <1>0, <1>15, Params DEF Delta, Processes
  <2> QED
    BY <1>0, <2>1 DEF Reading, Open, At, RunOf
<1>16. ASSUME NEW r \in Runs, CancelRead(r) PROVE Reading'
  BY <1>0, <1>16, Params, Working, Rest DEF OInv, AInv, IInv, Processes, ProcType, Rows, RunRows,
     RunType, At, RunOf, Reading, Open, Active, Alone, Early, Opened, Closing, Queued, CancelRead
<1>17. ASSUME NEW r \in Runs, CancelTidy(r) PROVE Reading'
  BY <1>0, <1>17, Params, Working, Rest DEF OInv, AInv, IInv, Processes, ProcType, Rows, RunRows,
     RunType, At, RunOf, Reading, Open, Active, Alone, Early, Opened, Closing, Queued, CancelTidy
<1>18. ASSUME NEW r \in Runs, CancelWrite(r) PROVE Reading'
  BY <1>0, <1>18, Params, Working, Rest DEF OInv, AInv, IInv, Processes, ProcType, Rows, RunRows,
     RunType, At, RunOf, Reading, Open, Active, Alone, Early, Opened, Closing, Queued, CancelWrite
<1>19. ASSUME NEW d \in Deciders, DecideLate(d) PROVE Reading'
  BY <1>0, <1>19, Params, Working, Rest DEF OInv, AInv, IInv, Processes, ProcType, Rows, RunRows,
     RunType, At, RunOf, Reading, Open, Active, Alone, Early, Opened, Closing, Queued, DecideLate
<1>20. ASSUME NEW d \in Deciders, Decide(d) PROVE Reading'
  BY <1>0, <1>20, Params, Working, Rest DEF OInv, AInv, IInv, Processes, ProcType, Rows, RunRows,
     RunType, At, RunOf, Reading, Open, Active, Alone, Early, Opened, Closing, Queued, Decide
<1>21. ASSUME NEW d \in Deciders, DecideConflict(d) \/ QueueResume(d) PROVE Reading'
  BY <1>0, <1>21, Params, Working, Rest DEF OInv, AInv, IInv, Processes, ProcType, Rows, RunRows,
     RunType, At, RunOf, Reading, Open, Active, Alone, Early, Opened, Closing, Queued, DecideConflict,
     QueueResume
<1>22. ASSUME NEW d \in Deciders, NEW r \in Runs, NEW k \in Asks, DecideRead(d, r, k) PROVE Reading'
  BY <1>0, <1>22, Params, Working, Rest DEF OInv, AInv, IInv, Processes, ProcType, Rows, RunRows,
     RunType, At, RunOf, Reading, Open, Active, Alone, Early, Opened, Closing, Queued, DecideRead
<1>23. ASSUME NEW r \in Runs, NEW k \in Asks, TakeResume(r, k) PROVE Reading'
  BY <1>0, <1>23, Params, Working, Rest DEF OInv, AInv, IInv, Processes, ProcType, Rows, RunRows,
     RunType, At, RunOf, Reading, Open, Active, Alone, Early, Opened, Closing, Queued, TakeResume
<1>24. ASSUME NEW r \in Runs, NEW k \in Asks, Expire(r, k) PROVE Reading'
  BY <1>0, <1>24, Params, Working, Rest DEF OInv, AInv, IInv, Processes, ProcType, Rows, RunRows,
     RunType, At, RunOf, Reading, Open, Active, Alone, Early, Opened, Closing, Queued, Expire
<1>25. ASSUME ReadApproval PROVE Reading'
  BY <1>0, <1>25, Params, Working, Rest DEF OInv, AInv, IInv, Processes, ProcType, Rows, RunRows,
     RunType, At, Raise, RunOf, Reading, Open, Active, Alone, Early, Opened, Closing, Queued,
     ReadApproval
<1>26. ASSUME LoadCheckpoint PROVE Reading'
  <2>0. UNCHANGED run
    BY <1>26 DEF LoadCheckpoint
  <2>1. CASE Raise
    <3>1. proc'[Worker].at = "idle"
      BY <1>0, <2>1, Params, Rest DEF Raise, Processes
    <3> QED
      BY <3>1 DEF Reading, At
  <2>2. CASE Goto(Worker, "run") /\ ckpt[RunOf(Worker)] = proc[Worker].ask
    <3>1. /\ RunOf(Worker) \in Runs /\ proc[Worker].ask \in Asks /\ proc[Worker].at = "checkpoint"
          /\ appr[RunOf(Worker)][proc[Worker].ask] # "none"
      BY <1>0, <1>26, Working, Params DEF LoadCheckpoint, At, Queued, RunOf
    <3>2. ~Closing(RunOf(Worker))
      BY <2>2, <3>1, Params DEF Closing, At
    <3>3. Open(RunOf(Worker)) \/ run[RunOf(Worker)].status = "completed"
      BY <1>0, <3>1, <3>2 DEF Opened
    <3>4. proc'[Worker].run = RunOf(Worker)
      BY <1>0, <2>2, Params DEF Goto, Processes, ProcType, RunOf
    <3> QED
      BY <2>0, <3>3, <3>4 DEF Reading, Open, RunOf
  <2> QED
    BY <1>26, <2>1, <2>2 DEF LoadCheckpoint
<1>27. ASSUME ReadRun PROVE Reading'
  BY <1>0, <1>27, Params, Working, Rest DEF OInv, AInv, IInv, Processes, ProcType, Rows, RunRows,
     RunType, At, Goto, Return, RunOf, Reading, Open, Active, Alone, Early, Opened, Closing, Queued,
     ReadRun
<1>28. ASSUME Reopen PROVE Reading'
  BY <1>0, <1>28, Params, Working, Rest DEF OInv, AInv, IInv, Processes, ProcType, Rows, RunRows,
     RunType, At, Goto, RunOf, Reading, Open, Active, Alone, Early, Opened, Closing, Queued, Reopen
<1>29. ASSUME Consume PROVE Reading'
  <2>1. proc'[Worker].at \in {"idle", "complete"}
    BY <1>0, <1>29, Consumes, Params, Rest DEF Raise, Return, Goto, Processes, ProcType
  <2> QED
    BY <2>1 DEF Reading, At
<1>30. ASSUME CompleteResumed \/ CompleteRefused \/ WorkerCrash PROVE Reading'
  BY <1>0, <1>30, Params, Working, Rest DEF OInv, AInv, IInv, Processes, ProcType, Rows, RunRows,
     RunType, At, Raise, Return, RunOf, Reading, Open, Active, Alone, Early, Opened, Closing, Queued,
     CompleteResumed, CompleteRefused, WorkerCrash
<1>31. ASSUME WebCrash PROVE Reading'
  BY <1>0, <1>31, Params, Working, Rest DEF OInv, AInv, IInv, Processes, ProcType, Rows, RunRows,
     RunType, At, RunOf, Reading, Open, Active, Alone, Early, Opened, Closing, Queued, WebCrash
<1> QED
  BY <1>1, <1>2, <1>3, <1>4, <1>5, <1>6, <1>7, <1>8, <1>9, <1>10, <1>11, <1>12, <1>13,
     <1>14, <1>15, <1>16, <1>17, <1>18, <1>19, <1>20, <1>21, <1>22, <1>23, <1>24, <1>25,
     <1>26, <1>27, <1>28, <1>29, <1>30, <1>31
  DEF Next, Execute, executeAgentRun, streamAgentRun, streamAiSdkCandidate, executeAiSdkCandidate,
      resumeAgentRunAfterApproval, decideToolApproval, cancelAgentRun, Procs

\* The worker gives up on a run only after an error of the provider.
LEMMA StepFailing ==
    ASSUME OInv, Steady, Next
    PROVE  Failing'
<1>0. /\ Processes /\ Rows /\ People /\ Alone /\ Queued /\ Fresh
      /\ Owned /\ Opened /\ Reading /\ Failing /\ OneActive /\ Steady
  BY DEF OInv, AInv, IInv
<1>1. ASSUME NEW p \in Procs, Reserve(p) \/ Duplicate(p) \/ Send(p) PROVE Failing'
  BY <1>0, <1>1, Params, Working, Rest
     DEF OInv, AInv, IInv, Processes, ProcType, Rows, RunRows, RunType,
     At, Goto, RunOf, Failing, Like, WorkerLike, Reserve, Duplicate, Send
<1>2. ASSUME NEW p \in Procs, Settle(p) \/ RecordAsk(p) \/ RecordAskFails(p) PROVE Failing'
  <2>1. proc'[Worker] = proc[Worker] \/ proc'[Worker].at \notin {"caught", "tidy"}
    BY <1>0, <1>2, Params, Rest
       DEF Settle, RecordAsk, RecordAskFails, Steady, Goto, Processes, ProcType
  <2> QED
    BY <1>0, <2>1 DEF Failing
<1>3. ASSUME NEW p \in Procs, Answer(p) PROVE Failing'
  BY <1>0, <1>3, Params, Working, Rest
     DEF OInv, AInv, IInv, Processes, ProcType, Rows, RunRows, RunType,
     At, RunOf, Failing, Like, WorkerLike, Answer
<1>4. ASSUME NEW p \in Procs, ProviderFails(p) PROVE Failing'
  BY <1>0, <1>4, Params, Working, Rest
     DEF OInv, AInv, IInv, Processes, ProcType, Rows, RunRows, RunType,
     At, RunOf, Failing, Like, WorkerLike, ProviderFails
<1>5. ASSUME NEW p \in Procs, Ask(p) PROVE Failing'
  BY <1>0, <1>5, Params, Working, Rest
     DEF OInv, AInv, IInv, Processes, ProcType, Rows, RunRows, RunType,
     At, RunOf, Failing, Like, WorkerLike, Ask
<1>6. ASSUME NEW p \in Procs, RequestApproval(p) PROVE Failing'
  BY <1>0, <1>6, Params, Working, Rest
     DEF OInv, AInv, IInv, Processes, ProcType, Rows, RunRows, RunType,
     At, Goto, RunOf, Failing, Like, WorkerLike, RequestApproval
<1>7. ASSUME NEW p \in Procs, FailRun(p) PROVE Failing'
  BY <1>0, <1>7, Params, Working, Rest
     DEF OInv, AInv, IInv, Processes, ProcType, Rows, RunRows, RunType,
     At, Goto, RunOf, Failing, Like, WorkerLike, FailRun
<1>8. ASSUME NEW p \in Procs, Tidy(p) PROVE Failing'
  BY <1>0, <1>8, Params, Working, Rest
     DEF OInv, AInv, IInv, Processes, ProcType, Rows, RunRows, RunType,
     At, Goto, Raise, RunOf, Failing, Like, WorkerLike, Tidy
<1>9. ASSUME NEW r \in Runs, Prepare(r) PROVE Failing'
  BY <1>0, <1>9, Params, Working, Rest
     DEF OInv, AInv, IInv, Processes, ProcType, Rows, RunRows, RunType,
     At, RunOf, Failing, Like, WorkerLike, Prepare
<1>10. ASSUME NEW r \in Runs, Leave(r) PROVE Failing'
  BY <1>0, <1>10, Params, Working, Rest DEF OInv, AInv, IInv, Processes, ProcType, Rows, RunRows,
     RunType, RunOf, Failing, Like, WorkerLike, Leave
<1>11. ASSUME NEW r \in Runs, CallTool(r) PROVE Failing'
  BY <1>0, <1>11, Params, Working, Rest DEF OInv, AInv, IInv, Processes, ProcType, Rows, RunRows,
     RunType, At, RunOf, Failing, Like, WorkerLike, CallTool
<1>12. ASSUME NEW r \in Runs, SaveProgress(r) PROVE Failing'
  BY <1>0, <1>12, Params, Working, Rest DEF OInv, AInv, IInv, Processes, ProcType, Rows, RunRows,
     RunType, At, Goto, RunOf, Failing, Like, WorkerLike, SaveProgress
<1>13. ASSUME NEW r \in Runs, CompleteRun(r) PROVE Failing'
  BY <1>0, <1>13, Params, Working, Rest DEF OInv, AInv, IInv, Processes, ProcType, Rows, RunRows,
     RunType, At, Goto, RunOf, Failing, Like, WorkerLike, CompleteRun
<1>14. ASSUME NEW r \in Runs, Fallback(r) PROVE Failing'
  BY <1>0, <1>14, Params, Working, Rest DEF OInv, AInv, IInv, Processes, ProcType, Rows, RunRows,
     RunType, At, RunOf, Failing, Like, WorkerLike, Fallback
<1>15. ASSUME NEW r \in Runs, Delta(r) PROVE Failing'
  <2>1. proc'[Worker] = proc[Worker]
    BY <1>0, <1>15, Params DEF Delta, Processes
  <2> QED
    BY <1>0, <2>1 DEF Failing
<1>16. ASSUME NEW r \in Runs, CancelRead(r) PROVE Failing'
  BY <1>0, <1>16, Params, Working, Rest DEF OInv, AInv, IInv, Processes, ProcType, Rows, RunRows,
     RunType, RunOf, Failing, Like, WorkerLike, CancelRead
<1>17. ASSUME NEW r \in Runs, CancelTidy(r) PROVE Failing'
  BY <1>0, <1>17, Params, Working, Rest DEF OInv, AInv, IInv, Processes, ProcType, Rows, RunRows,
     RunType, RunOf, Failing, Like, WorkerLike, CancelTidy
<1>18. ASSUME NEW r \in Runs, CancelWrite(r) PROVE Failing'
  BY <1>0, <1>18, Params, Working, Rest DEF OInv, AInv, IInv, Processes, ProcType, Rows, RunRows,
     RunType, RunOf, Failing, Like, WorkerLike, CancelWrite
<1>19. ASSUME NEW d \in Deciders, DecideLate(d) PROVE Failing'
  BY <1>0, <1>19, Params, Working, Rest DEF OInv, AInv, IInv, Processes, ProcType, Rows, RunRows,
     RunType, RunOf, Failing, Like, WorkerLike, DecideLate
<1>20. ASSUME NEW d \in Deciders, Decide(d) PROVE Failing'
  BY <1>0, <1>20, Params, Working, Rest DEF OInv, AInv, IInv, Processes, ProcType, Rows, RunRows,
     RunType, RunOf, Failing, Like, WorkerLike, Decide
<1>21. ASSUME NEW d \in Deciders, DecideConflict(d) \/ QueueResume(d) PROVE Failing'
  BY <1>0, <1>21, Params, Working, Rest DEF OInv, AInv, IInv, Processes, ProcType, Rows, RunRows,
     RunType, RunOf, Failing, Like, WorkerLike, DecideConflict, QueueResume
<1>22. ASSUME NEW d \in Deciders, NEW r \in Runs, NEW k \in Asks, DecideRead(d, r, k) PROVE Failing'
  BY <1>0, <1>22, Params, Working, Rest DEF OInv, AInv, IInv, Processes, ProcType, Rows, RunRows,
     RunType, RunOf, Failing, Like, WorkerLike, DecideRead
<1>23. ASSUME NEW r \in Runs, NEW k \in Asks, TakeResume(r, k) PROVE Failing'
  BY <1>0, <1>23, Params, Working, Rest DEF OInv, AInv, IInv, Processes, ProcType, Rows, RunRows,
     RunType, At, RunOf, Failing, Like, WorkerLike, TakeResume
<1>24. ASSUME NEW r \in Runs, NEW k \in Asks, Expire(r, k) PROVE Failing'
  BY <1>0, <1>24, Params, Working, Rest DEF OInv, AInv, IInv, Processes, ProcType, Rows, RunRows,
     RunType, RunOf, Failing, Like, WorkerLike, Expire
<1>25. ASSUME ReadApproval PROVE Failing'
  BY <1>0, <1>25, Params, Working, Rest DEF OInv, AInv, IInv, Processes, ProcType, Rows, RunRows,
     RunType, At, Raise, RunOf, Failing, Like, WorkerLike, ReadApproval
<1>26. ASSUME LoadCheckpoint PROVE Failing'
  BY <1>0, <1>26, Params, Working, Rest DEF OInv, AInv, IInv, Processes, ProcType, Rows, RunRows,
     RunType, At, Goto, Raise, RunOf, Failing, Like, WorkerLike, LoadCheckpoint
<1>27. ASSUME ReadRun PROVE Failing'
  BY <1>0, <1>27, Params, Working, Rest DEF OInv, AInv, IInv, Processes, ProcType, Rows, RunRows,
     RunType, At, Goto, Return, RunOf, Failing, Like, WorkerLike, ReadRun
<1>28. ASSUME Reopen PROVE Failing'
  BY <1>0, <1>28, Params, Working, Rest DEF OInv, AInv, IInv, Processes, ProcType, Rows, RunRows,
     RunType, At, Goto, RunOf, Failing, Like, WorkerLike, Reopen
<1>29. ASSUME Consume PROVE Failing'
  <2>1. proc'[Worker].at \in {"idle", "complete"}
    BY <1>0, <1>29, Consumes, Params, Rest DEF Raise, Return, Goto, Processes, ProcType
  <2> QED
    BY <2>1 DEF Failing
<1>30. ASSUME CompleteResumed \/ CompleteRefused \/ WorkerCrash PROVE Failing'
  BY <1>0, <1>30, Params, Working, Rest DEF OInv, AInv, IInv, Processes, ProcType, Rows, RunRows,
     RunType, At, Raise, Return, RunOf, Failing, Like, WorkerLike, CompleteResumed, CompleteRefused,
     WorkerCrash
<1>31. ASSUME WebCrash PROVE Failing'
  BY <1>0, <1>31, Params, Working, Rest DEF OInv, AInv, IInv, Processes, ProcType, Rows, RunRows,
     RunType, At, RunOf, Failing, Like, WorkerLike, WebCrash
<1> QED
  BY <1>1, <1>2, <1>3, <1>4, <1>5, <1>6, <1>7, <1>8, <1>9, <1>10, <1>11, <1>12, <1>13,
     <1>14, <1>15, <1>16, <1>17, <1>18, <1>19, <1>20, <1>21, <1>22, <1>23, <1>24, <1>25,
     <1>26, <1>27, <1>28, <1>29, <1>30, <1>31
  DEF Next, Execute, executeAgentRun, streamAgentRun, streamAiSdkCandidate, executeAiSdkCandidate,
      resumeAgentRunAfterApproval, decideToolApproval, cancelAgentRun, Procs

\* Every step keeps OneActive, in a steady system.
LEMMA StepOneActive ==
    ASSUME OInv, Steady, Next
    PROVE  OneActive'
<1>0. /\ Processes /\ Rows /\ People /\ Alone /\ Queued /\ Fresh
      /\ Owned /\ Opened /\ Reading /\ Failing /\ OneActive /\ Steady
  BY DEF OInv, AInv, IInv
<1>1. ASSUME NEW p \in Procs, Reserve(p) \/ Duplicate(p) \/ Send(p) PROVE OneActive'
  BY <1>0, <1>1, Params, Working, Rest
     DEF OInv, AInv, IInv, Processes, ProcType, Rows, RunRows, RunType,
     At, Goto, RunOf, OneActive, Active, Owned, Open, Busy, Reserve, Duplicate, Send
<1>2. ASSUME NEW p \in Procs, Settle(p) \/ RecordAsk(p) \/ RecordAskFails(p) PROVE OneActive'
  BY <1>0, <1>2, Params, Working, Rest
     DEF OInv, AInv, IInv, Processes, ProcType, Rows, RunRows, RunType,
     At, Goto, RunOf, OneActive, Active, Owned, Open, Busy, Settle, RecordAsk, RecordAskFails
<1>3. ASSUME NEW p \in Procs, Answer(p) PROVE OneActive'
  BY <1>0, <1>3, Params, Working, Rest
     DEF OInv, AInv, IInv, Processes, ProcType, Rows, RunRows, RunType,
     At, RunOf, OneActive, Active, Owned, Open, Busy, Answer
<1>4. ASSUME NEW p \in Procs, ProviderFails(p) PROVE OneActive'
  BY <1>0, <1>4, Params, Working, Rest
     DEF OInv, AInv, IInv, Processes, ProcType, Rows, RunRows, RunType,
     At, RunOf, OneActive, Active, Owned, Open, Busy, ProviderFails
<1>5. ASSUME NEW p \in Procs, Ask(p) PROVE OneActive'
  BY <1>0, <1>5, Params, Working, Rest
     DEF OInv, AInv, IInv, Processes, ProcType, Rows, RunRows, RunType,
     At, RunOf, OneActive, Active, Owned, Open, Busy, Ask
<1>6. ASSUME NEW p \in Procs, RequestApproval(p) PROVE OneActive'
  BY <1>0, <1>6, Params, Working, Rest
     DEF OInv, AInv, IInv, Processes, ProcType, Rows, RunRows, RunType,
     At, Goto, RunOf, OneActive, Active, Owned, Open, Busy, RequestApproval
<1>7. ASSUME NEW p \in Procs, FailRun(p) PROVE OneActive'
  BY <1>0, <1>7, Params, Working, Rest
     DEF OInv, AInv, IInv, Processes, ProcType, Rows, RunRows, RunType,
     At, Goto, RunOf, OneActive, Active, Owned, Open, Busy, FailRun
<1>8. ASSUME NEW p \in Procs, Tidy(p) PROVE OneActive'
  BY <1>0, <1>8, Params, Working, Rest
     DEF OInv, AInv, IInv, Processes, ProcType, Rows, RunRows, RunType,
     At, Goto, Raise, RunOf, OneActive, Active, Owned, Open, Busy, Tidy
<1>9. ASSUME NEW r \in Runs, Prepare(r) PROVE OneActive'
  BY <1>0, <1>9, Params, Working, Rest
     DEF OInv, AInv, IInv, Processes, ProcType, Rows, RunRows, RunType,
     At, RunOf, OneActive, Active, Owned, Open, Busy, Prepare
<1>10. ASSUME NEW r \in Runs, Leave(r) PROVE OneActive'
  BY <1>0, <1>10, Params, Working, Rest DEF OInv, AInv, IInv, Processes, ProcType, Rows, RunRows,
     RunType, RunOf, OneActive, Active, Owned, Open, Busy, Leave
<1>11. ASSUME NEW r \in Runs, CallTool(r) PROVE OneActive'
  BY <1>0, <1>11, Params, Working, Rest DEF OInv, AInv, IInv, Processes, ProcType, Rows, RunRows,
     RunType, At, RunOf, OneActive, Active, Owned, Open, Busy, CallTool
<1>12. ASSUME NEW r \in Runs, SaveProgress(r) PROVE OneActive'
  BY <1>0, <1>12, Params, Working, Rest DEF OInv, AInv, IInv, Processes, ProcType, Rows, RunRows,
     RunType, At, Goto, RunOf, OneActive, Active, Owned, Open, Busy, SaveProgress
<1>13. ASSUME NEW r \in Runs, CompleteRun(r) PROVE OneActive'
  BY <1>0, <1>13, Params, Working, Rest DEF OInv, AInv, IInv, Processes, ProcType, Rows, RunRows,
     RunType, At, Goto, RunOf, OneActive, Active, Owned, Open, Busy, CompleteRun
<1>14. ASSUME NEW r \in Runs, Fallback(r) PROVE OneActive'
  BY <1>0, <1>14, Params, Working, Rest DEF OInv, AInv, IInv, Processes, ProcType, Rows, RunRows,
     RunType, At, RunOf, OneActive, Active, Owned, Open, Busy, Fallback
<1>15. ASSUME NEW r \in Runs, Delta(r) PROVE OneActive'
  BY <1>0, <1>15 DEF Delta, OneActive
<1>16. ASSUME NEW r \in Runs, CancelRead(r) PROVE OneActive'
  BY <1>0, <1>16, Params, Working, Rest DEF OInv, AInv, IInv, Processes, ProcType, Rows, RunRows,
     RunType, RunOf, OneActive, Active, Owned, Open, Busy, CancelRead
<1>17. ASSUME NEW r \in Runs, CancelTidy(r) PROVE OneActive'
  BY <1>0, <1>17, Params, Working, Rest DEF OInv, AInv, IInv, Processes, ProcType, Rows, RunRows,
     RunType, RunOf, OneActive, Active, Owned, Open, Busy, CancelTidy
<1>18. ASSUME NEW r \in Runs, CancelWrite(r) PROVE OneActive'
  <2>1. run'[r].cancelReq /\ \A u \in Runs \ {r} : run'[u] = run[u]
    <3>1. \/ run' = [run EXCEPT ![r] = [status |-> "cancelled", cancelReq |-> TRUE]]
          \/ run' = [run EXCEPT ![r].cancelReq = TRUE]
      BY <1>18 DEF CancelWrite
    <3> QED
      BY <1>0, <3>1 DEF Rows, RunRows, RunType
  <2> QED
    BY <1>0, <2>1 DEF OneActive
<1>19. ASSUME NEW d \in Deciders, DecideLate(d) PROVE OneActive'
  BY <1>0, <1>19, Params, Working, Rest DEF OInv, AInv, IInv, Processes, ProcType, Rows, RunRows,
     RunType, RunOf, OneActive, Active, Owned, Open, Busy, DecideLate
<1>20. ASSUME NEW d \in Deciders, Decide(d) PROVE OneActive'
  BY <1>0, <1>20, Params, Working, Rest DEF OInv, AInv, IInv, Processes, ProcType, Rows, RunRows,
     RunType, RunOf, OneActive, Active, Owned, Open, Busy, Decide
<1>21. ASSUME NEW d \in Deciders, DecideConflict(d) \/ QueueResume(d) PROVE OneActive'
  BY <1>0, <1>21, Params, Working, Rest DEF OInv, AInv, IInv, Processes, ProcType, Rows, RunRows,
     RunType, RunOf, OneActive, Active, Owned, Open, Busy, DecideConflict, QueueResume
<1>22. ASSUME NEW d \in Deciders, NEW r \in Runs, NEW k \in Asks, DecideRead(d, r, k) PROVE OneActive'
  BY <1>0, <1>22, Params, Working, Rest DEF OInv, AInv, IInv, Processes, ProcType, Rows, RunRows,
     RunType, RunOf, OneActive, Active, Owned, Open, Busy, DecideRead
<1>23. ASSUME NEW r \in Runs, NEW k \in Asks, TakeResume(r, k) PROVE OneActive'
  BY <1>0, <1>23, Params, Working, Rest DEF OInv, AInv, IInv, Processes, ProcType, Rows, RunRows,
     RunType, At, RunOf, OneActive, Active, Owned, Open, Busy, TakeResume
<1>24. ASSUME NEW r \in Runs, NEW k \in Asks, Expire(r, k) PROVE OneActive'
  BY <1>0, <1>24, Params, Working, Rest DEF OInv, AInv, IInv, Processes, ProcType, Rows, RunRows,
     RunType, RunOf, OneActive, Active, Owned, Open, Busy, Expire
<1>25. ASSUME ReadApproval PROVE OneActive'
  BY <1>0, <1>25, Params, Working, Rest DEF OInv, AInv, IInv, Processes, ProcType, Rows, RunRows,
     RunType, At, Raise, RunOf, OneActive, Active, Owned, Open, Busy, ReadApproval
<1>26. ASSUME LoadCheckpoint PROVE OneActive'
  BY <1>0, <1>26, Params, Working, Rest DEF OInv, AInv, IInv, Processes, ProcType, Rows, RunRows,
     RunType, At, Goto, Raise, RunOf, OneActive, Active, Owned, Open, Busy, LoadCheckpoint
<1>27. ASSUME ReadRun PROVE OneActive'
  BY <1>0, <1>27, Params, Working, Rest DEF OInv, AInv, IInv, Processes, ProcType, Rows, RunRows,
     RunType, At, Goto, Return, RunOf, OneActive, Active, Owned, Open, Busy, ReadRun
<1>28. ASSUME Reopen PROVE OneActive'
  BY <1>0, <1>28, Params, Working, Rest DEF OInv, AInv, IInv, Processes, ProcType, Rows, RunRows,
     RunType, At, Goto, RunOf, OneActive, Active, Owned, Open, Busy, Reopen
<1>29. ASSUME Consume PROVE OneActive'
  BY <1>0, <1>29, Params, Working, Rest DEF OInv, AInv, IInv, Processes, ProcType, Rows, RunRows,
     RunType, At, Goto, Raise, Return, RunOf, OneActive, Active, Owned, Open, Busy, Consume
<1>30. ASSUME CompleteResumed \/ CompleteRefused \/ WorkerCrash PROVE OneActive'
  <2>1. UNCHANGED run \/ run' = [run EXCEPT ![RunOf(Worker)].status = "completed"]
    BY <1>30 DEF CompleteResumed, CompleteRefused, WorkerCrash
  <2>2. \A u \in Runs : run'[u].cancelReq = run[u].cancelReq /\
                         (run'[u].status = run[u].status \/ run'[u].status = "completed")
    BY <1>0, <2>1 DEF Rows, RunRows, RunType
  <2> QED
    BY <1>0, <2>2 DEF OneActive, Active
<1>31. ASSUME WebCrash PROVE OneActive'
  BY <1>0, <1>31, Params, Working, Rest DEF OInv, AInv, IInv, Processes, ProcType, Rows, RunRows,
     RunType, At, RunOf, OneActive, Active, Owned, Open, Busy, WebCrash
<1> QED
  BY <1>1, <1>2, <1>3, <1>4, <1>5, <1>6, <1>7, <1>8, <1>9, <1>10, <1>11, <1>12, <1>13,
     <1>14, <1>15, <1>16, <1>17, <1>18, <1>19, <1>20, <1>21, <1>22, <1>23, <1>24, <1>25,
     <1>26, <1>27, <1>28, <1>29, <1>30, <1>31
  DEF Next, Execute, executeAgentRun, streamAgentRun, streamAiSdkCandidate, executeAiSdkCandidate,
      resumeAgentRunAfterApproval, decideToolApproval, cancelAgentRun, Procs

\* AInv is inductive.
LEMMA StepAInv == AInv /\ [Next]_vars => AInv'
<1> SUFFICES ASSUME AInv, [Next]_vars PROVE AInv'
  OBVIOUS
<1>1. IInv'
  BY StepIInv DEF AInv
<1>2. CASE Next
  BY <1>1, <1>2, StepAlone, StepQueued, StepFresh DEF AInv
<1>3. CASE UNCHANGED vars
  BY <1>1, <1>3 DEF vars, AInv, Alone, Early, Queued, Fresh, RunOf
<1> QED
  BY <1>2, <1>3

\* OInv holds at first.
LEMMA InitOInv == Init => OInv
<1> SUFFICES ASSUME Init PROVE OInv
  OBVIOUS
<1>1. AInv
  BY InitGInv DEF GInv
<1>2. \A p \in Procs : proc[p].at = "idle"
  BY Rest DEF Init
<1>3. \A r \in Runs : run[r].status = "none" /\ \A k \in Asks : appr[r][k] = "none"
  BY DEF Init
<1>4. Owned /\ Reading /\ Failing
  BY <1>2, Params DEF Owned, Busy, Calling, Reading, Failing, At
<1>5. Opened /\ OneActive
  BY <1>3 DEF Opened, OneActive, Active
<1> QED
  BY <1>1, <1>4, <1>5 DEF OInv

\* OInv is inductive, in a steady system.
LEMMA StepOInv == Steady /\ OInv /\ [Next]_vars => OInv'
<1> SUFFICES ASSUME Steady, OInv, [Next]_vars PROVE OInv'
  OBVIOUS
<1>1. AInv'
  BY StepAInv DEF OInv
<1>2. CASE Next
  BY <1>1, <1>2, StepOwned, StepOpened, StepReading, StepFailing, StepOneActive DEF OInv
<1>3. CASE UNCHANGED vars
  BY <1>1, <1>3
  DEF vars, OInv, Owned, Open, Opened, Closing, Reading, Failing, OneActive, At, RunOf
<1> QED
  BY <1>2, <1>3

\* A conversation has one active run, unless one of two was asked to stop: if no statement fails
\* between an approval and the record of it, and if a program that may die at any moment has a
\* provider that does not fail. Otherwise a failed run is resumed and started again beside another.
THEOREM OneRuns ==
    ASSUME Steady
    PROVE  Spec => []OneActive
<1>1. Init => OInv
  BY InitOInv
<1>2. OInv /\ [Next]_vars => OInv'
  BY StepOInv
<1>3. OInv => OneActive
  BY DEF OInv
<1> QED
  BY <1>1, <1>2, <1>3, PTL DEF Spec

=============================================================================
