------------------------ MODULE ExecutionKernelProofs ------------------------
(* Theorems about ExecutionKernel, for every value of its constants.         *)
EXTENDS ExecutionKernel, TLAPS

JobType  == [status : Status, attempts : Nat, cancelRequested : BOOLEAN, verified : BOOLEAN]
SeenType == Status \cup Outcomes \cup {"none"}
Handler  == [task : Tasks \cup {"none"}, pc : PCs, seen : SeenType, err : Errors \cup {"none"}]

\* What a handler remembers when it is about to act on it.
SeenOK(r) ==
    /\ r.task = "run" /\ r.pc = "claim" => r.seen \in {"ready", "orphaned"}
    /\ r.task = "cleanup" /\ r.pc = "settleMark" => r.seen \in Cancelling \cup {"running"}

HandlersOK == h \in [Queues -> Handler] /\ \A q \in Queues : SeenOK(h[q])

\* The queue of each task, as queueName says.
LEMMA QueueFacts ==
    /\ \A t \in Tasks : QueueOf[t] \in Queues
    /\ QueueOf["provision"] = "provision"
    /\ QueueOf["run"] = "run" /\ QueueOf["collect"] = "run"
    /\ QueueOf["cancel"] = "cleanup" /\ QueueOf["cleanup"] = "cleanup"
BY DEF QueueOf, Tasks, Queues

\* Places where a handler relies on what it has established before.
Watched == {"orphan", "begin", "start", "destroy", "markStopped", "markReady", "settle", "settleMark"}

\* A handler that comes to a watched place comes to p.
Only(p) == /\ HandlersOK'
           /\ \A q \in Queues : h'[q].pc \in Watched => h'[q] = h[q] \/ h'[q].pc = p

\* A handler that is replaced by a proper one is the only one that moves.
LEMMA Update ==
    ASSUME HandlersOK, NEW q \in Queues, NEW r \in Handler, SeenOK(r),
           h' = [h EXCEPT ![q] = r]
    PROVE  Only(r.pc)
BY DEF HandlersOK, Only

\* A step that leaves the handlers alone brings none to a watched place.
LEMMA Still ==
    ASSUME HandlersOK, UNCHANGED h
    PROVE  Only("idle")
BY DEF HandlersOK, Only

\* A handler that goes on to p keeps what the others remember.
LEMMA Goto_ ==
    ASSUME HandlersOK, NEW t \in Tasks, NEW p \in PCs \ {"claim", "settleMark"}, Goto(t, p)
    PROVE  Only(p)
<1> DEFINE r == [h[QueueOf[t]] EXCEPT !.pc = p, !.seen = "none"]
<1>1. r \in Handler /\ r.pc = p
  BY QueueFacts DEF HandlersOK, Handler, SeenType
<1>2. SeenOK(r)
  BY <1>1 DEF SeenOK
<1>3. h' = [h EXCEPT ![QueueOf[t]] = r]
  BY DEF Goto
<1> QED
  BY <1>1, <1>2, <1>3, Update, QueueFacts

\* So does one that remembers what it has read.
LEMMA GotoWith_ ==
    ASSUME HandlersOK, NEW t \in Tasks, NEW p \in PCs, NEW s \in SeenType, GotoWith(t, p, s),
           p # "claim", p = "settleMark" => s \in Cancelling \cup {"running"}
    PROVE  Only(p)
<1> DEFINE r == [h[QueueOf[t]] EXCEPT !.pc = p, !.seen = s]
<1>1. r \in Handler /\ r.pc = p /\ r.seen = s
  BY QueueFacts DEF HandlersOK, Handler, SeenType
<1>2. SeenOK(r)
  BY <1>1 DEF SeenOK
<1>3. h' = [h EXCEPT ![QueueOf[t]] = r]
  BY DEF GotoWith
<1> QED
  BY <1>1, <1>2, <1>3, Update, QueueFacts

\* A handler that throws goes to its catch block.
LEMMA Raise_ ==
    ASSUME HandlersOK, NEW t \in Tasks, NEW e \in Errors, Raise(t, e)
    PROVE  Only("catch")
<1> DEFINE r == [h[QueueOf[t]] EXCEPT !.pc = "catch", !.seen = "none", !.err = e]
<1>0. h[QueueOf[t]] \in Handler /\ "catch" \in PCs
  BY QueueFacts DEF HandlersOK, PCs
<1>1. r \in Handler /\ r.pc = "catch"
  BY <1>0 DEF Handler, SeenType
<1>2. SeenOK(r)
  BY <1>1 DEF SeenOK
<1>3. h' = [h EXCEPT ![QueueOf[t]] = r]
  BY DEF Raise
<1> QED
  BY <1>1, <1>2, <1>3, Update, QueueFacts

\* A handler that takes a row remembers the status it has read.
LEMMA Take_ ==
    ASSUME HandlersOK, job.status \in Status, NEW t \in Tasks, NEW p \in PCs, Take(t, p),
           t = "run" /\ p = "claim" => job.status \in {"ready", "orphaned"},
           p # "settleMark"
    PROVE  Only(p)
<1> DEFINE r == [task |-> t, pc |-> p,
                 seen |-> IF p \in {"claim", "conclude", "terminate"} THEN job.status ELSE "none",
                 err |-> IF p = "catch" THEN "transient" ELSE "none"]
<1>1. r \in Handler /\ r.pc = p
  BY DEF Handler, SeenType, Errors
<1>2. SeenOK(r)
  BY DEF SeenOK
<1>3. h' = [h EXCEPT ![QueueOf[t]] = r]
  BY DEF Take
<1> QED
  BY <1>1, <1>2, <1>3, Update, QueueFacts

\* Marking the step goes on to p.
LEMMA SetStep_ ==
    ASSUME HandlersOK, NEW t \in Tasks, NEW from, NEW s, NEW p \in PCs \ {"claim", "settleMark"},
           SetStep(t, from, s, p)
    PROVE  Only(p)
BY Goto_ DEF SetStep

\* Enqueueing a task goes on to p.
LEMMA Hand_ ==
    ASSUME HandlersOK, NEW t \in Tasks, NEW from, NEW u, NEW p \in PCs \ {"claim", "settleMark"},
           Hand(t, from, u, p)
    PROVE  Only(p)
BY Goto_ DEF Hand

\* A transition goes on to p, or is refused and throws.
LEMMA Move_ ==
    ASSUME HandlersOK, NEW t \in Tasks, NEW from, NEW expected, NEW next, NEW bump,
           NEW p \in PCs \ {"claim", "settleMark"}, Move(t, from, expected, next, bump, p)
    PROVE  Only(p) \/ Only("catch")
BY Goto_, Raise_ DEF Move, MoveOrRaise, Errors

\* A runner call has its effect and goes on to p, or throws.
LEMMA Call_ ==
    ASSUME HandlersOK, NEW t \in Tasks, NEW effect, NEW p \in PCs \ {"claim", "settleMark"},
           Call(t, effect, p)
    PROVE  \/ Only(p) /\ runner' = effect /\ UNCHANGED ws
           \/ Only("catch")
BY Goto_, Raise_ DEF Call, Errors

Row    == [st : RowStates, tries : Nat]
Lease  == [owner : Queues \cup {"nobody", "gone"}, live : BOOLEAN]
Maint  == [pc : {"idle", "reconcile", "rerun", "expire", "expired"}, seen : Status \cup {"none"}]
Runner == [dir : BOOLEAN, proc : ProcStates, starts : Nat]

RestOK == /\ ws \in [ext : BOOLEAN, state : {"provisioning", "ready", "stopped"}]
          /\ step \in StepStatus
          /\ stored \in BOOLEAN
          /\ lease \in Lease
          /\ rows \in [Tasks -> Row]
          /\ maint \in Maint
          /\ runner \in Runner

\* What a handler has established when it comes to a watched place.
Entry ==
    \/ \E p \in PCs \ Watched : Only(p)
    \/ Only("orphan") /\ UNCHANGED job /\ job.attempts < MaxAttempts /\ job.status = "running"
    \/ \E p \in {"begin", "destroy"} : Only(p) /\ ws.ext /\ UNCHANGED <<ws, runner>>
    \/ Only("start") /\ h["run"].pc = "begin" /\ UNCHANGED <<ws, runner>>
    \/ Only("markStopped") /\ h["cleanup"].pc = "destroy" /\ UNCHANGED ws /\ ~runner'.dir
    \/ Only("markReady") /\ ws'.ext
    \/ Only("settle") /\ (ws'.ext => ws'.state = "stopped")
    \/ Only("settleMark") /\ h["cleanup"].pc = "settle" /\ UNCHANGED ws

\* Every step keeps the handlers proper, and a handler comes to a watched
\* place only after it has established what Entry says.
LEMMA HandlersStep ==
    ASSUME HandlersOK, job \in JobType, RestOK, Next
    PROVE  Entry
<1> USE QueueFacts
<1>0. /\ job.status \in Status
      /\ {"provision", "run", "collect", "cancel", "cleanup"} = Tasks
      /\ \A t \in Tasks : seen(t) \in SeenType
  BY DEF JobType, Tasks, seen, HandlersOK, Handler
<1>a. SUFFICES ASSUME ~ \E p \in PCs \ Watched : Only(p)
               PROVE  Entry
  BY DEF Entry
<1>b. /\ Watched \subseteq PCs
      /\ "claim" \notin Watched
      /\ \A p \in PCs \ Watched : ~Only(p)
      /\ ~Only("catch") /\ ~Only("idle")
  BY <1>a DEF Watched, PCs
<1> USE DEF Watched
<1>1. CASE provisionExecution
  <2>1. CASE ProvisionTake
    BY <2>1, <1>0, <1>b, Take_ DEF ProvisionTake, PCs
  <2>2. CASE \/ Move("provision", "claim", {"queued"}, "provisioning", 1, "recheck")
             \/ Move("provision", "markReady", {"provisioning"}, "ready", 0, "enqueueRun")
    BY <2>2, <1>0, <1>b, Move_ DEF PCs
  <2>3. CASE ProvisionRecheck
    BY <2>3, <1>0, <1>b, Goto_ DEF ProvisionRecheck, PCs
  <2>7. CASE ProvisionRecord
    <3>1. Only("markReady") /\ ws'.ext
      BY <2>7, <1>0, Goto_ DEF ProvisionRecord, PCs
    <3> QED
      BY <3>1 DEF Entry
  <2>4. CASE ProvisionCreate
    BY <2>4, <1>0, <1>b, Call_ DEF ProvisionCreate, PCs
  <2>5. CASE ProvisionUnfit
    BY <2>5, <1>0, <1>b, Raise_ DEF ProvisionUnfit, Errors
  <2>6. CASE Hand("provision", "enqueueRun", "run", "return")
    BY <2>6, <1>0, <1>b, Hand_ DEF PCs
  <2> QED
    BY <1>1, <2>1, <2>2, <2>3, <2>4, <2>5, <2>6, <2>7 DEF provisionExecution
<1>2. CASE runExecutionStep
  <2>1. CASE RunTake
    <3>1. PICK p \in PCs : /\ Take("run", p) /\ p \in {"return", "requeueCancel", "claim", "begin", "catch"}
                           /\ p = "claim" => job.status \in {"ready", "orphaned"}
                           /\ p = "begin" => ws.ext
      BY <2>1, <1>0 DEF RunTake, PCs, Terminal, Cancelling
    <3>2. Only(p) /\ UNCHANGED <<ws, runner>>
      BY <3>1, <1>0, Take_ DEF Take
    <3> QED
      BY <3>1, <3>2, <1>b DEF Entry
  <2>2. CASE \/ Move("run", "claim", {seen("run")}, "running", 0, "recheck")
             \/ Move("run", "timeoutMark", {"running"}, "timed_out", 0, "enqueueCleanup")
    BY <2>2, <1>0, <1>b, Move_ DEF PCs
  <2>3. CASE RunRecheck
    <3>1. Only("begin") /\ ws.ext /\ UNCHANGED <<ws, runner>>
      BY <2>3, <1>0, <1>b, Goto_, Raise_ DEF RunRecheck, PCs, Errors
    <3> QED
      BY <3>1 DEF Entry
  <2>4. CASE SetStep("run", "begin", "running", "start")
    <3>1. Only("start") /\ h["run"].pc = "begin" /\ UNCHANGED <<ws, runner>>
      BY <2>4, <1>0, SetStep_ DEF SetStep, At, PCs
    <3> QED
      BY <3>1 DEF Entry
  <2>5. CASE \/ SetStep("run", "timeoutStep", "failed", "timeoutMark")
             \/ SetStep("run", "stepDone", "completed", "enqueueCollect")
    BY <2>5, <1>0, <1>b, SetStep_ DEF PCs
  <2>6. CASE RunStart
    BY <2>6, <1>0, <1>b, Call_ DEF RunStart, PCs
  <2>7. CASE Unreachable("run", "start") \/ Unreachable("run", "poll")
    BY <2>7, <1>0, <1>b, Raise_ DEF Unreachable, Errors
  <2>8. CASE RunPoll
    BY <2>8, <1>0, <1>b, GotoWith_ DEF RunPoll, PCs, SeenType
  <2>9. CASE RunDeadline \/ RunPollFails
    BY <2>9, <1>0, <1>b, Raise_ DEF RunDeadline, RunPollFails, Errors
  <2>10. CASE RunResult
    BY <2>10, <1>0, <1>b, Raise_, Goto_ DEF RunResult, Errors, PCs
  <2>11. CASE Hand("run", "enqueueCollect", "collect", "return")
    BY <2>11, <1>0, <1>b, Hand_ DEF PCs
  <2>12. CASE RunOrphan
    BY <2>12, <1>0, <1>b, Goto_ DEF RunOrphan, PCs
  <2> QED
    BY <1>2, <2>1, <2>2, <2>3, <2>4, <2>5, <2>6, <2>7, <2>8, <2>9, <2>10, <2>11, <2>12
    DEF runExecutionStep
<1>3. CASE collectExecutionArtifacts
  <2>1. CASE CollectTake
    BY <2>1, <1>0, <1>b, Take_ DEF CollectTake, PCs
  <2>2. CASE CollectDownload
    BY <2>2, <1>0, <1>b, Goto_, Raise_ DEF CollectDownload, PCs, Errors
  <2>3. CASE Unreachable("collect", "download") \/ CollectFails
    BY <2>3, <1>0, <1>b, Raise_ DEF Unreachable, CollectFails, Errors
  <2>4. CASE CollectStore \/ CollectVerify
    BY <2>4, <1>0, <1>b, Goto_ DEF CollectStore, CollectVerify, PCs
  <2> QED
    BY <1>3, <2>1, <2>2, <2>3, <2>4 DEF collectExecutionArtifacts
<1>4. CASE cancelExecution
  <2>1. CASE CancelTake
    BY <2>1, <1>0, <1>b, Take_ DEF CancelTake, AfterCancelRead, PCs
  <2>2. CASE Move("cancel", "claim", {"cancel_requested"}, "cancelling", 0, "recheck")
    BY <2>2, <1>0, <1>b, Move_ DEF PCs
  <2>3. CASE CancelRecheck
    <3>1. PICK p \in {"terminate", "conclude"} : GotoWith("cancel", p, job.status)
      BY <2>3 DEF CancelRecheck, AfterCancelRead
    <3> QED
      BY <3>1, <1>0, <1>b, GotoWith_ DEF PCs, SeenType
  <2>4. CASE CancelTerminate
    BY <2>4, <1>0, <1>b, GotoWith_, Raise_ DEF CancelTerminate, PCs, Errors
  <2>5. CASE CancelConclude
    BY <2>5, <1>0, <1>b, Goto_, Raise_ DEF CancelConclude, MoveOrRaise, PCs, Errors
  <2>6. CASE SetStep("cancel", "markStep", "cancelled", "enqueueCleanup")
    BY <2>6, <1>0, <1>b, SetStep_ DEF PCs
  <2> QED
    BY <1>4, <2>1, <2>2, <2>3, <2>4, <2>5, <2>6 DEF cancelExecution
<1>5. CASE cleanupExecution
  <2>1. CASE CleanupTake
    <3>1. PICK p \in {"destroy", "settle"} :
             /\ Take("cleanup", p)
             /\ p = "destroy" => ws.ext
             /\ p = "settle" => (ws.ext => ws.state = "stopped")
      BY <2>1 DEF CleanupTake
    <3>2. Only(p) /\ UNCHANGED <<ws, runner>>
      BY <3>1, <1>0, Take_ DEF Take, PCs
    <3> QED
      BY <3>1, <3>2, <1>b DEF Entry, PCs
  <2>2. CASE CleanupBusy
    BY <2>2, <1>0, <1>b, Raise_ DEF CleanupBusy, Errors
  <2>3. CASE CleanupDestroy
    <3>1. Only("markStopped") /\ runner' = [runner EXCEPT !.dir = FALSE, !.proc = "none"] /\ UNCHANGED ws
      BY <2>3, <1>0, <1>b, Call_ DEF CleanupDestroy, PCs
    <3>2. h["cleanup"].pc = "destroy"
      BY <2>3 DEF CleanupDestroy, At
    <3>3. ~runner'.dir
      BY <3>1
    <3> QED
      BY <3>1, <3>2, <3>3 DEF Entry
  <2>4. CASE CleanupStopped
    <3>1. Only("settle") /\ ws'.state = "stopped"
      BY <2>4, <1>0, Goto_ DEF CleanupStopped, RestOK, PCs
    <3> QED
      BY <3>1 DEF Entry
  <2>5. CASE CleanupSettle
    <3>1. CASE Goto("cleanup", "return")
      BY <3>1, <1>0, <1>b, Goto_ DEF PCs
    <3>2. CASE job.status \in Cancelling \cup {"running"} /\ GotoWith("cleanup", "settleMark", job.status)
      <4>1. Only("settleMark")
        BY <3>2, <1>0, GotoWith_ DEF PCs, SeenType
      <4>2. h["cleanup"].pc = "settle" /\ UNCHANGED ws
        BY <2>5 DEF CleanupSettle, At
      <4> QED
        BY <4>1, <4>2 DEF Entry
    <3> QED
      BY <2>5, <3>1, <3>2 DEF CleanupSettle
  <2>6. CASE Move("cleanup", "settleMark", {seen("cleanup")},
                  IF seen("cleanup") = "running" THEN "completed" ELSE "cancelled", 0, "return")
    BY <2>6, <1>0, <1>b, Move_ DEF PCs
  <2> QED
    BY <1>5, <2>1, <2>2, <2>3, <2>4, <2>5, <2>6 DEF cleanupExecution
<1>6. CASE \E t \in Tasks : \/ TakeRefused(t) \/ Return(t) \/ Rethrow(t)
                            \/ Catch(t) \/ failExecution(t) \/ HandOver(t)
  <2> PICK t \in Tasks : \/ TakeRefused(t) \/ Return(t) \/ Rethrow(t)
                         \/ Catch(t) \/ failExecution(t) \/ HandOver(t)
    BY <1>6
  <2>1. CASE TakeRefused(t)
    BY <2>1, <1>b, Still DEF TakeRefused
  <2>2. CASE Return(t) \/ Rethrow(t)
    <3>1. Idle \in Handler /\ SeenOK(Idle) /\ Idle.pc = "idle"
      BY DEF Idle, Handler, SeenType, SeenOK, PCs
    <3> QED
      BY <2>2, <3>1, <1>b, Update DEF Return, Rethrow, Leave
  <2>3. CASE Catch(t)
    <3> DEFINE again == t = "run" /\ job.attempts < MaxAttempts /\ job.status = "running"
    <3>1. CASE Goto(t, "orphan") /\ again
      <4>1. Only("orphan")
        BY <3>1, Goto_ DEF PCs
      <4>2. UNCHANGED job
        BY <2>3 DEF Catch
      <4> QED
        BY <3>1, <4>1, <4>2 DEF Entry
    <3>2. CASE Goto(t, "rethrow") \/ Goto(t, "fail")
      BY <3>2, <1>b, Goto_ DEF PCs
    <3> QED
      BY <2>3, <3>1, <3>2 DEF Catch
  <2>4. CASE FailRead(t)
    BY <2>4, <1>0, <1>b, Goto_, GotoWith_ DEF FailRead, PCs, SeenType
  <2>5. CASE FailMark(t)
    BY <2>5, <1>b, Goto_ DEF FailMark, PCs
  <2>6. CASE SetStep(t, "failStep", "failed", "enqueueCleanup")
    BY <2>6, <1>b, SetStep_ DEF PCs
  <2>7. CASE HandOver(t)
    BY <2>7, <1>b, Hand_ DEF HandOver, PCs
  <2> QED
    BY <2>1, <2>2, <2>3, <2>4, <2>5, <2>6, <2>7 DEF failExecution
<1>7. CASE reconcileExecutions \/ expireExecutions
  BY <1>7, <1>b, Still DEF reconcileExecutions, expireExecutions, MaintScan, MaintEnqueue, MaintMove
<1>8. CASE \E q \in Queues : WorkerCrashes(q)
  <2>1. Idle \in Handler /\ SeenOK(Idle) /\ Idle.pc = "idle"
    BY DEF Idle, Handler, SeenType, SeenOK, PCs
  <2> QED
    BY <1>8, <2>1, <1>b, Update DEF WorkerCrashes
<1>9. CASE \/ requestExecutionCancellation \/ ProcessCloses \/ RunnerRestarts \/ LeaseExpires
           \/ heartbeatExecutionLease \/ MaintenanceCrashes \/ \E t \in Tasks : ResetLock(t)
  BY <1>9, <1>b, Still
     DEF requestExecutionCancellation, ProcessCloses, RunnerRestarts, LeaseExpires,
              heartbeatExecutionLease, MaintenanceCrashes, ResetLock
<1> QED
  BY <1>1, <1>2, <1>3, <1>4, <1>5, <1>6, <1>7, <1>8, <1>9 DEF Next, Handlers, Environment

-----------------------------------------------------------------------------
(* What a step does to the job row.                                        *)

Same == /\ job'.status = job.status
        /\ job'.attempts = job.attempts
        /\ job'.cancelRequested = job.cancelRequested

\* What a transition leaves alone.
KeepsEvidence == UNCHANGED <<step, stored>> /\ job'.verified = job.verified

Moves(expected, next, bump) ==
    /\ job.status \in expected \ Terminal
    /\ canTransition(job.status, next)
    /\ job'.status = next
    /\ job'.attempts = job.attempts + bump
    /\ job'.cancelRequested = job.cancelRequested

\* The job moves, or already is where it was asked to be.
Moving(expected, next, bump) ==
    /\ job' \in JobType
    /\ job'.verified = job.verified
    /\ Same \/ Moves(expected, next, bump)

Requests == /\ job.status \in Status \ (Terminal \cup Cancelling)
            /\ job'.status = "cancel_requested"
            /\ job'.cancelRequested = TRUE
            /\ job'.attempts = job.attempts
            /\ KeepsEvidence

\* A move leads from a cancelling status to a cancelling or cancelled one,
\* and from every other status to one that is neither.
Proper(expected, next) ==
    /\ next \in Status \ {"cancel_requested"}
    /\ expected \subseteq Status
    /\ \A s \in expected : s \in Cancelling <=> next \in {"cancelling", "cancelled"}

\* A job becomes ready and completed at one place each, and orphaned only from running.
Justified(expected, next) ==
    /\ next = "ready" => h["provision"].pc = "markReady"
    /\ next = "orphaned" => expected = {"running"}
    /\ next = "completed" =>
          Move("cleanup", "settleMark", {seen("cleanup")}, "completed", 0, "return")
          /\ seen("cleanup") = "running"

JobStep ==
    /\ job' \in JobType
    /\ job.verified => job'.verified
    /\ \/ Same
       \/ Requests
       \/ \E expected \in SUBSET Status, next \in Status :
             /\ Proper(expected, next) /\ Justified(expected, next)
             /\ KeepsEvidence
             /\ \/ Moves(expected, next, 0)
                \/ Moves(expected, next, 1) /\ expected = {"queued"}
                \/ Moves(expected, next, 1) /\ h["run"].pc = "orphan" /\ h'["run"].pc # "orphan"

\* A transition that transitionExecutionStatus accepts moves the job along an
\* edge, or finds it in the terminal status asked for and changes nothing.
LEMMA Accepted ==
    ASSUME job \in JobType, NEW expected, NEW next \in Status, NEW bump \in {0, 1},
           next \in Terminal => bump = 0,
           accepts(expected, next), job' = moved(next, bump)
    PROVE  Moving(expected, next, bump)
<1>1. /\ job' \in JobType
      /\ job'.status = next /\ job'.attempts = job.attempts + bump
      /\ job'.cancelRequested = job.cancelRequested
      /\ job'.verified = job.verified
  <2> DEFINE n == job.attempts + bump
  <2>1. n \in Nat
    BY DEF JobType
  <2>2. job' = [job EXCEPT !.status = next, !.attempts = n]
    BY DEF moved
  <2> HIDE DEF n
  <2>3. job' \in JobType /\ job'.status = next /\ job'.attempts = n
        /\ job'.cancelRequested = job.cancelRequested /\ job'.verified = job.verified
    BY <2>1, <2>2 DEF JobType
  <2> QED
    BY <2>3 DEF n
<1>2. CASE job.status = next /\ next \in Terminal
  BY <1>1, <1>2 DEF Same, JobType, Moving
<1>3. CASE job.status \notin Terminal /\ job.status \in expected /\ canTransition(job.status, next)
  BY <1>1, <1>3 DEF Moves, Moving
<1> QED
  BY <1>1, <1>2, <1>3 DEF accepts

\* A transition whose refusal is swallowed moves the job or leaves it alone.
LEMMA TryMove_ ==
    ASSUME job \in JobType, NEW expected, NEW next \in Status, NEW bump \in {0, 1},
           next \in Terminal => bump = 0, TryMove(expected, next, bump)
    PROVE  Moving(expected, next, bump)
BY Accepted DEF TryMove, Same, Moving

\* A transition whose refusal throws moves the job or leaves it alone.
LEMMA MoveOrRaise_ ==
    ASSUME job \in JobType, NEW t, NEW expected, NEW next \in Status, NEW bump \in {0, 1}, NEW p,
           next \in Terminal => bump = 0, MoveOrRaise(t, expected, next, bump, p)
    PROVE  Moving(expected, next, bump)
BY Accepted DEF MoveOrRaise, Same, Moving

\* A step that leaves the job alone.
LEMMA Plain ==
    ASSUME job \in JobType, UNCHANGED job
    PROVE  JobStep
BY DEF JobStep, Same

\* A move that counts no attempt.
LEMMA Moved ==
    ASSUME NEW expected, NEW next \in Status, Proper(expected, next), Justified(expected, next),
           UNCHANGED <<step, stored>>, Moving(expected, next, 0)
    PROVE  JobStep
BY DEF JobStep, Proper, Moving, KeepsEvidence

\* Every step of the system does to the job row one of the things JobStep lists.
LEMMA JobStepLemma ==
    ASSUME HandlersOK, job \in JobType, Next
    PROVE  JobStep
<1> USE QueueFacts
<1>1. CASE provisionExecution
  <2>1. CASE \/ ProvisionTake \/ ProvisionRecheck \/ ProvisionCreate \/ ProvisionUnfit \/ ProvisionRecord
             \/ Hand("provision", "enqueueRun", "run", "return")
    BY <2>1, Plain DEF ProvisionTake, ProvisionRecheck, ProvisionCreate, ProvisionUnfit,
                       ProvisionRecord, Hand, Take, Call
  <2>2. CASE Move("provision", "claim", {"queued"}, "provisioning", 1, "recheck")
    <3>1. /\ Proper({"queued"}, "provisioning") /\ "provisioning" \in Status \ Terminal
          /\ Justified({"queued"}, "provisioning")
      BY DEF Proper, Justified, Status, Cancelling, Terminal
    <3>2. Moving({"queued"}, "provisioning", 1)
      BY <2>2, <3>1, MoveOrRaise_ DEF Move
    <3> QED
      BY <2>2, <3>1, <3>2 DEF JobStep, Moving, Move, KeepsEvidence, Status
  <2>3. CASE Move("provision", "markReady", {"provisioning"}, "ready", 0, "enqueueRun")
    <3>1. /\ Proper({"provisioning"}, "ready") /\ "ready" \in Status \ Terminal
          /\ Justified({"provisioning"}, "ready")
      BY <2>3 DEF Proper, Justified, Move, At, Status, Cancelling, Terminal
    <3>2. Moving({"provisioning"}, "ready", 0)
      BY <2>3, <3>1, MoveOrRaise_ DEF Move
    <3> QED
      BY <2>3, <3>1, <3>2, Moved DEF Move
  <2> QED
    BY <1>1, <2>1, <2>2, <2>3 DEF provisionExecution
<1>2. CASE runExecutionStep
  <2>1. CASE \/ RunTake \/ RunRecheck \/ RunStart \/ RunPoll \/ RunDeadline \/ RunPollFails \/ RunResult
             \/ Unreachable("run", "start") \/ Unreachable("run", "poll")
             \/ SetStep("run", "begin", "running", "start")
             \/ SetStep("run", "timeoutStep", "failed", "timeoutMark")
             \/ SetStep("run", "stepDone", "completed", "enqueueCollect")
             \/ Hand("run", "enqueueCollect", "collect", "return")
    BY <2>1, Plain DEF RunTake, RunRecheck, RunStart, RunPoll, RunDeadline, RunPollFails, RunResult,
                       Unreachable, SetStep, Hand, Take, Call
  <2>2. CASE Move("run", "claim", {seen("run")}, "running", 0, "recheck")
    <3>1. seen("run") \in {"ready", "orphaned"}
      BY <2>2 DEF Move, At, seen, HandlersOK, SeenOK, Queues
    <3>2. /\ Proper({seen("run")}, "running") /\ "running" \in Status \ Terminal
          /\ Justified({seen("run")}, "running")
      BY <3>1 DEF Proper, Justified, Status, Cancelling, Terminal
    <3>3. Moving({seen("run")}, "running", 0)
      BY <2>2, <3>2, MoveOrRaise_ DEF Move
    <3> QED
      BY <2>2, <3>2, <3>3, Moved DEF Move
  <2>3. CASE Move("run", "timeoutMark", {"running"}, "timed_out", 0, "enqueueCleanup")
    <3>1. /\ Proper({"running"}, "timed_out") /\ "timed_out" \in Status
          /\ Justified({"running"}, "timed_out")
      BY DEF Proper, Justified, Status, Cancelling
    <3>2. Moving({"running"}, "timed_out", 0)
      BY <2>3, <3>1, MoveOrRaise_ DEF Move
    <3> QED
      BY <2>3, <3>1, <3>2, Moved DEF Move
  <2>4. CASE RunOrphan
    <3>1. /\ Proper({"running"}, "orphaned") /\ "orphaned" \in Status \ Terminal
          /\ Justified({"running"}, "orphaned")
      BY DEF Proper, Justified, Status, Cancelling, Terminal
    <3>2. Moving({"running"}, "orphaned", 1)
      BY <2>4, <3>1, TryMove_ DEF RunOrphan
    <3>3. h["run"].pc = "orphan" /\ h'["run"].pc # "orphan"
      BY <2>4 DEF RunOrphan, At, Goto, HandlersOK, Queues, Handler
    <3> QED
      BY <2>4, <3>1, <3>2, <3>3 DEF JobStep, Moving, RunOrphan, KeepsEvidence, Status
  <2> QED
    BY <1>2, <2>1, <2>2, <2>3, <2>4 DEF runExecutionStep
<1>3. CASE collectExecutionArtifacts
  <2>1. CASE CollectVerify
    <3>1. job' \in JobType /\ Same /\ job'.verified
      BY <2>1 DEF CollectVerify, Same, JobType
    <3> QED
      BY <3>1 DEF JobStep
  <2>2. CASE CollectTake \/ CollectDownload \/ Unreachable("collect", "download") \/ CollectFails \/ CollectStore
    BY <2>2, Plain DEF CollectTake, CollectDownload, Unreachable, CollectFails, CollectStore, Take
  <2> QED
    BY <1>3, <2>1, <2>2 DEF collectExecutionArtifacts
<1>4. CASE cancelExecution
  <2>1. CASE Move("cancel", "claim", {"cancel_requested"}, "cancelling", 0, "recheck")
    <3>1. /\ Proper({"cancel_requested"}, "cancelling") /\ "cancelling" \in Status \ Terminal
          /\ Justified({"cancel_requested"}, "cancelling")
      BY DEF Proper, Justified, Status, Cancelling, Terminal
    <3>2. Moving({"cancel_requested"}, "cancelling", 0)
      BY <2>1, <3>1, MoveOrRaise_ DEF Move
    <3> QED
      BY <2>1, <3>1, <3>2, Moved DEF Move
  <2>2. CASE CancelConclude
    <3>1. /\ Proper({"cancelling"}, "cancelled") /\ "cancelled" \in Status
          /\ Justified({"cancelling"}, "cancelled")
      BY DEF Proper, Justified, Status, Cancelling
    <3>2. UNCHANGED job \/ MoveOrRaise("cancel", {"cancelling"}, "cancelled", 0, "markStep")
      BY <2>2 DEF CancelConclude
    <3>3. UNCHANGED job \/ (Moving({"cancelling"}, "cancelled", 0))
      BY <3>1, <3>2, MoveOrRaise_
    <3> QED
      BY <2>2, <3>1, <3>3, Moved, Plain DEF CancelConclude
  <2>3. CASE \/ CancelTake \/ CancelRecheck \/ CancelTerminate
             \/ SetStep("cancel", "markStep", "cancelled", "enqueueCleanup")
    BY <2>3, Plain DEF CancelTake, CancelRecheck, CancelTerminate, SetStep, Take
  <2> QED
    BY <1>4, <2>1, <2>2, <2>3 DEF cancelExecution
<1>5. CASE cleanupExecution
  <2> DEFINE next == IF seen("cleanup") = "running" THEN "completed" ELSE "cancelled"
  <2>1. CASE Move("cleanup", "settleMark", {seen("cleanup")}, next, 0, "return")
    <3>1. seen("cleanup") \in Cancelling \cup {"running"}
      BY <2>1 DEF Move, At, seen, HandlersOK, SeenOK, Queues
    <3>2. Proper({seen("cleanup")}, next) /\ next \in Status
      BY <3>1 DEF Proper, Status, Cancelling
    <3>0. Justified({seen("cleanup")}, next)
      BY <2>1 DEF Justified
    <3>3. Moving({seen("cleanup")}, next, 0)
      BY <2>1, <3>2, MoveOrRaise_ DEF Move
    <3> QED
      BY <2>1, <3>0, <3>2, <3>3, Moved DEF Move
  <2>2. CASE CleanupTake \/ CleanupBusy \/ CleanupDestroy \/ CleanupStopped \/ CleanupSettle
    BY <2>2, Plain
       DEF CleanupTake, CleanupBusy, CleanupDestroy, CleanupStopped, CleanupSettle, Take,
           Call
  <2> QED
    BY <1>5, <2>1, <2>2 DEF cleanupExecution
<1>6. CASE \E t \in Tasks : \/ TakeRefused(t) \/ Return(t) \/ Rethrow(t)
                            \/ Catch(t) \/ failExecution(t) \/ HandOver(t)
  <2> PICK t \in Tasks : \/ TakeRefused(t) \/ Return(t) \/ Rethrow(t)
                         \/ Catch(t) \/ failExecution(t) \/ HandOver(t)
    BY <1>6
  <2>1. CASE \/ TakeRefused(t) \/ Return(t) \/ Rethrow(t) \/ Catch(t) \/ HandOver(t)
             \/ FailRead(t) \/ SetStep(t, "failStep", "failed", "enqueueCleanup")
    BY <2>1, Plain DEF TakeRefused, Return, Rethrow, Leave, Catch, HandOver, Hand, FailRead, SetStep
  <2>2. CASE FailMark(t)
    <3> DEFINE usual == ExpectedOnFailure[t]
               expected == IF seen(t) \in usual THEN {seen(t)} ELSE usual
               next == IF err(t) = "timeout" THEN "timed_out" ELSE "failed"
    <3>1. usual \subseteq {"queued", "provisioning", "ready", "running", "orphaned"}
      BY DEF ExpectedOnFailure, Tasks
    <3>2. Proper(expected, next) /\ Justified(expected, next) /\ next \in Status
      BY <3>1 DEF Proper, Justified, Status, Cancelling
    <3>3. TryMove(expected, next, 0)
      BY <2>2 DEF FailMark
    <3>4. Moving(expected, next, 0)
      BY <3>2, <3>3, TryMove_
    <3> QED
      BY <2>2, <3>2, <3>4, Moved DEF FailMark
  <2> QED
    BY <2>1, <2>2 DEF failExecution
<1>7. CASE reconcileExecutions \/ expireExecutions
  <2>1. CASE MaintMove("reconcile", {"running"}, "orphaned", "rerun")
    <3>1. /\ Proper({maint.seen}, "orphaned") /\ "orphaned" \in Status \ Terminal
          /\ Justified({maint.seen}, "orphaned")
      BY <2>1 DEF MaintMove, Proper, Justified, Status, Cancelling, Terminal
    <3>2. Moving({maint.seen}, "orphaned", 0)
      BY <2>1, <3>1, TryMove_ DEF MaintMove
    <3> QED
      BY <2>1, <3>1, <3>2, Moved DEF MaintMove
  <2>2. CASE MaintMove("expire", Expirable, "timed_out", "expired")
    <3>1. /\ Proper({maint.seen}, "timed_out") /\ "timed_out" \in Status
          /\ Justified({maint.seen}, "timed_out")
      BY <2>2 DEF MaintMove, Proper, Justified, Status, Cancelling, Terminal, Expirable
    <3>2. Moving({maint.seen}, "timed_out", 0)
      BY <2>2, <3>1, TryMove_ DEF MaintMove
    <3> QED
      BY <2>2, <3>1, <3>2, Moved DEF MaintMove
  <2>3. CASE UNCHANGED job
    BY <2>3, Plain
  <2> QED
    BY <1>7, <2>1, <2>2, <2>3 DEF reconcileExecutions, expireExecutions, MaintScan, MaintEnqueue
<1>8. CASE requestExecutionCancellation
  <2>1. job' \in JobType /\ Requests /\ job'.verified = job.verified
    BY <1>8 DEF requestExecutionCancellation, Requests, KeepsEvidence, JobType, Status
  <2> QED
    BY <2>1 DEF JobStep
<1>9. CASE \/ ProcessCloses \/ RunnerRestarts \/ LeaseExpires \/ heartbeatExecutionLease
           \/ MaintenanceCrashes \/ (\E t \in Tasks : ResetLock(t)) \/ (\E q \in Queues : WorkerCrashes(q))
  BY <1>9, Plain DEF ProcessCloses, RunnerRestarts, LeaseExpires,
              heartbeatExecutionLease, MaintenanceCrashes, ResetLock, WorkerCrashes
<1> QED
  BY <1>1, <1>2, <1>3, <1>4, <1>5, <1>6, <1>7, <1>8, <1>9 DEF Next, Handlers, Environment

-----------------------------------------------------------------------------
(* The bound on the attempts.                                              *)

\* Nothing leads back to queued, and a running or waiting job may be cancelled.
LEMMA Graph ==
    /\ \A s, n \in Status : canTransition(s, n) => n # "queued"
    /\ \A s \in Status \ (Terminal \cup Cancelling) : canTransition(s, "cancel_requested")
BY DEF canTransition, transitions, Status, Terminal, Cancelling

\* Only the claim of a queued job and the retry of a run count an attempt,
\* and the retry has looked at the limit before.
AttemptsOK == /\ job.attempts <= MaxAttempts
              /\ job.status = "queued" => job.attempts = 0
              /\ h["run"].pc = "orphan" => job.attempts < MaxAttempts /\ job.status # "queued"

\* No step takes attemptCount beyond maxAttempts.
LEMMA AttemptsStep ==
    ASSUME HandlersOK, job \in JobType, AttemptsOK, Entry, JobStep
    PROVE  AttemptsOK'
<1> USE AttemptsAssumption, Graph DEF AttemptsOK
<1>0. job.attempts \in Nat /\ job'.attempts \in Nat /\ job.status \in Status /\ MaxAttempts \in Nat
  BY DEF JobStep, JobType
<1>1. h'["run"].pc = "orphan" =>
         \/ h["run"].pc = "orphan"
         \/ UNCHANGED job /\ job.attempts < MaxAttempts /\ job.status = "running"
  BY DEF Entry, Only, Queues, Watched
<1>2. CASE Same
  BY <1>0, <1>1, <1>2 DEF Same
<1>3. CASE Requests
  BY <1>0, <1>1, <1>3 DEF Requests
<1>4. CASE \E expected \in SUBSET Status, next \in Status : Moves(expected, next, 0)
  <2>1. job'.attempts = job.attempts /\ job'.status # "queued"
    BY <1>0, <1>4 DEF Moves
  <2> QED
    BY <1>0, <1>1, <2>1
<1>5. CASE \E next \in Status : Moves({"queued"}, next, 1)
  <2>1. /\ job.status = "queued" /\ job.attempts = 0
        /\ job'.attempts = 1 /\ job'.status # "queued"
    BY <1>0, <1>5 DEF Moves
  <2>2. h'["run"].pc # "orphan"
    BY <1>0, <1>1, <2>1
  <2> QED
    BY <1>0, <2>1, <2>2
<1>6. CASE /\ \E expected \in SUBSET Status, next \in Status : Moves(expected, next, 1)
           /\ h["run"].pc = "orphan" /\ h'["run"].pc # "orphan"
  <2>1. job'.attempts = job.attempts + 1 /\ job'.status # "queued"
    BY <1>0, <1>6 DEF Moves
  <2> QED
    BY <1>0, <1>6, <2>1
<1> QED
  BY <1>2, <1>3, <1>4, <1>5, <1>6 DEF JobStep

-----------------------------------------------------------------------------
(* The types of the other variables.                                       *)

\* Whatever happens to a graphile row, it stays a row.
LEMMA RowFacts ==
    /\ Absent \in Row
    /\ \A r \in Row : /\ added(r) \in Row
                      /\ taken(r) \in Row
                      /\ \A max : returned(r, max) \in Row /\ returned(taken(r), max) \in Row
BY DEF Absent, added, taken, returned, Row, RowStates

\* Enqueueing a task leaves a row for every task.
LEMMA Enqueue_ ==
    ASSUME rows \in [Tasks -> Row], NEW t \in Tasks, Enqueue(t)
    PROVE  rows' \in [Tasks -> Row]
BY RowFacts DEF Enqueue

\* A step that leaves all of them alone keeps their types.
LEMMA RestSame ==
    ASSUME RestOK, UNCHANGED <<ws, step, stored, lease, rows, maint, runner>>
    PROVE  RestOK'
BY DEF RestOK

\* Taking a row keeps the types.
LEMMA TakeRest ==
    ASSUME RestOK, NEW t \in Tasks, NEW p, Take(t, p)
    PROVE  RestOK'
<1>1. rows' \in [Tasks -> Row]
  BY RowFacts DEF Take, RestOK
<1>2. lease' \in Lease
  BY QueueFacts DEF Take, Lease
<1> QED
  BY <1>1, <1>2 DEF Take, RestOK

\* Marking the step, enqueueing a task or moving the job keeps the types.
LEMMA StepsRest ==
    ASSUME RestOK, NEW t \in Tasks, NEW from, NEW p,
           \/ \E s \in StepStatus : SetStep(t, from, s, p)
           \/ \E u \in Tasks : Hand(t, from, u, p)
           \/ \E expected, next, bump : Move(t, from, expected, next, bump, p)
    PROVE  RestOK'
<1>1. CASE \E s \in StepStatus : SetStep(t, from, s, p)
  BY <1>1 DEF SetStep, RestOK
<1>2. CASE \E u \in Tasks : Hand(t, from, u, p)
  BY <1>2, Enqueue_ DEF Hand, RestOK
<1>3. CASE \E expected, next, bump : Move(t, from, expected, next, bump, p)
  BY <1>3, RestSame DEF Move
<1> QED
  BY <1>1, <1>2, <1>3

\* A runner call with a proper effect keeps the types.
LEMMA CallRest ==
    ASSUME RestOK, NEW t, NEW effect \in Runner, NEW p, Call(t, effect, p)
    PROVE  RestOK'
BY DEF Call, RestOK

\* No step takes a row, the lease, the step, the scan or the runner out of its type.
LEMMA RestStep ==
    ASSUME HandlersOK, job \in JobType, RestOK, Next
    PROVE  RestOK'
<1> USE QueueFacts
<1>0. /\ {"provision", "run", "collect", "cancel", "cleanup"} = Tasks
      /\ {"queued", "running", "completed", "failed", "cancelled"} = StepStatus
      /\ job.status \in Status
  BY DEF Tasks, StepStatus, JobType
<1>1. CASE provisionExecution
  <2>1. CASE ProvisionTake
    BY <2>1, <1>0, TakeRest DEF ProvisionTake
  <2>2. CASE \/ Move("provision", "claim", {"queued"}, "provisioning", 1, "recheck")
             \/ Move("provision", "markReady", {"provisioning"}, "ready", 0, "enqueueRun")
             \/ Hand("provision", "enqueueRun", "run", "return")
    BY <2>2, <1>0, StepsRest
  <2>3. CASE ProvisionRecheck \/ ProvisionUnfit
    BY <2>3, RestSame DEF ProvisionRecheck, ProvisionUnfit
  <2>4. CASE ProvisionCreate
    <3>1. (IF ws.ext THEN runner ELSE [runner EXCEPT !.dir = TRUE]) \in Runner
      BY DEF RestOK, Runner
    <3> QED
      BY <2>4, <3>1, CallRest DEF ProvisionCreate
  <2>5. CASE ProvisionRecord
    BY <2>5 DEF ProvisionRecord, RestOK
  <2> QED
    BY <1>1, <2>1, <2>2, <2>3, <2>4, <2>5 DEF provisionExecution
<1>2. CASE runExecutionStep
  <2>1. CASE RunTake
    BY <2>1, <1>0, TakeRest DEF RunTake
  <2>2. CASE \/ Move("run", "claim", {seen("run")}, "running", 0, "recheck")
             \/ Move("run", "timeoutMark", {"running"}, "timed_out", 0, "enqueueCleanup")
             \/ SetStep("run", "begin", "running", "start")
             \/ SetStep("run", "timeoutStep", "failed", "timeoutMark")
             \/ SetStep("run", "stepDone", "completed", "enqueueCollect")
             \/ Hand("run", "enqueueCollect", "collect", "return")
    BY <2>2, <1>0, StepsRest
  <2>3. CASE \/ RunRecheck \/ Unreachable("run", "start") \/ Unreachable("run", "poll")
             \/ RunPoll \/ RunPollFails \/ RunResult \/ RunOrphan
    BY <2>3, RestSame DEF RunRecheck, Unreachable, RunPoll, RunPollFails, RunResult, RunOrphan
  <2>4. CASE RunStart
    <3>1. \A n \in Nat : [runner EXCEPT !.proc = "running", !.starts = n] \in Runner
      BY DEF RestOK, Runner, ProcStates
    <3>2. runner \in Runner /\ runner.starts + 1 \in Nat
      BY DEF RestOK, Runner
    <3> QED
      BY <2>4, <3>1, <3>2, CallRest DEF RunStart
  <2>5. CASE RunDeadline
    <3>1. signalled(runner) \in Runner
      BY DEF RestOK, Runner, ProcStates, signalled
    <3> QED
      BY <2>5, <3>1 DEF RunDeadline, RestOK
  <2> QED
    BY <1>2, <2>1, <2>2, <2>3, <2>4, <2>5 DEF runExecutionStep
<1>3. CASE collectExecutionArtifacts
  <2>1. CASE CollectTake
    BY <2>1, <1>0, TakeRest DEF CollectTake
  <2>2. CASE CollectStore
    BY <2>2 DEF CollectStore, RestOK
  <2>3. CASE CollectDownload \/ Unreachable("collect", "download") \/ CollectFails \/ CollectVerify
    BY <2>3, RestSame DEF CollectDownload, Unreachable, CollectFails, CollectVerify
  <2> QED
    BY <1>3, <2>1, <2>2, <2>3 DEF collectExecutionArtifacts
<1>4. CASE cancelExecution
  <2>1. CASE CancelTake
    BY <2>1, <1>0, TakeRest DEF CancelTake
  <2>2. CASE \/ Move("cancel", "claim", {"cancel_requested"}, "cancelling", 0, "recheck")
             \/ SetStep("cancel", "markStep", "cancelled", "enqueueCleanup")
    BY <2>2, <1>0, StepsRest
  <2>3. CASE CancelRecheck \/ CancelConclude
    BY <2>3, RestSame DEF CancelRecheck, CancelConclude
  <2>4. CASE CancelTerminate
    <3>1. signalled(runner) \in Runner
      BY DEF RestOK, Runner, ProcStates, signalled
    <3> QED
      BY <2>4, <3>1 DEF CancelTerminate, RestOK
  <2> QED
    BY <1>4, <2>1, <2>2, <2>3, <2>4 DEF cancelExecution
<1>5. CASE cleanupExecution
  <2>1. CASE CleanupTake
    BY <2>1, <1>0, TakeRest DEF CleanupTake
  <2>2. CASE Move("cleanup", "settleMark", {seen("cleanup")},
                  IF seen("cleanup") = "running" THEN "completed" ELSE "cancelled", 0, "return")
    BY <2>2, <1>0, StepsRest
  <2>3. CASE CleanupBusy \/ CleanupSettle
    BY <2>3, RestSame DEF CleanupBusy, CleanupSettle
  <2>4. CASE CleanupDestroy
    <3>1. [runner EXCEPT !.dir = FALSE, !.proc = "none"] \in Runner
      BY DEF RestOK, Runner, ProcStates
    <3> QED
      BY <2>4, <3>1, CallRest DEF CleanupDestroy
  <2>5. CASE CleanupStopped
    BY <2>5 DEF CleanupStopped, RestOK
  <2> QED
    BY <1>5, <2>1, <2>2, <2>3, <2>4, <2>5 DEF cleanupExecution
<1>6. CASE \E t \in Tasks : \/ TakeRefused(t) \/ Return(t) \/ Rethrow(t)
                            \/ Catch(t) \/ failExecution(t) \/ HandOver(t)
  <2> PICK t \in Tasks : \/ TakeRefused(t) \/ Return(t) \/ Rethrow(t)
                         \/ Catch(t) \/ failExecution(t) \/ HandOver(t)
    BY <1>6
  <2>1. CASE TakeRefused(t)
    BY <2>1, RowFacts DEF TakeRefused, RestOK
  <2>2. CASE Return(t) \/ Rethrow(t)
    <3>1. PICK row \in Row : Leave(t, row)
      BY <2>2, RowFacts DEF Return, Rethrow, RestOK
    <3>2. lease' \in Lease
      BY <3>1 DEF Leave, released, Nobody, Lease, RestOK
    <3> QED
      BY <3>1, <3>2 DEF Leave, RestOK
  <2>3. CASE Catch(t) \/ FailRead(t) \/ FailMark(t)
    BY <2>3, RestSame DEF Catch, FailRead, FailMark
  <2>4. CASE SetStep(t, "failStep", "failed", "enqueueCleanup") \/ HandOver(t)
    BY <2>4, <1>0, StepsRest DEF HandOver
  <2> QED
    BY <2>1, <2>2, <2>3, <2>4 DEF failExecution
<1>7. CASE reconcileExecutions \/ expireExecutions
  <2>1. CASE \E p \in {"reconcile", "expire"}, among \in SUBSET Status : MaintScan(p, among)
    BY <2>1, <1>0 DEF MaintScan, RestOK, Maint
  <2>2. CASE \E from, among : \E t \in Tasks : MaintEnqueue(from, among, t)
    BY <2>2, Enqueue_ DEF MaintEnqueue, RestOK, Maint, Resting
  <2>3. CASE \E from, among, next : \E p \in {"rerun", "expired"} : MaintMove(from, among, next, p)
    BY <2>3 DEF MaintMove, RestOK, Maint
  <2>4. Candidates \in SUBSET Status /\ Expirable \in SUBSET Status
    BY DEF Candidates, Expirable, Status
  <2> QED
    BY <1>7, <1>0, <2>1, <2>2, <2>3, <2>4 DEF reconcileExecutions, expireExecutions
<1>8. CASE requestExecutionCancellation
  BY <1>8, <1>0, Enqueue_ DEF requestExecutionCancellation, RestOK
<1>9. CASE ProcessCloses \/ RunnerRestarts
  BY <1>9 DEF ProcessCloses, RunnerRestarts, RestOK, Runner, ProcStates
<1>10. CASE LeaseExpires \/ heartbeatExecutionLease \/ \E q \in Queues : WorkerCrashes(q)
  <2>1. lease' \in Lease
    <3>1. /\ Nobody \in Lease /\ [owner |-> "gone", live |-> TRUE] \in Lease
          /\ lease \in Lease
          /\ \A b \in BOOLEAN : [lease EXCEPT !.live = b] \in Lease
      BY DEF Lease, Nobody, RestOK
    <3> QED
      BY <1>10, <3>1 DEF LeaseExpires, heartbeatExecutionLease, WorkerCrashes
  <2> QED
    BY <1>10, <2>1 DEF LeaseExpires, heartbeatExecutionLease, WorkerCrashes, RestOK
<1>11. CASE MaintenanceCrashes
  BY <1>11 DEF MaintenanceCrashes, RestOK, Maint, Resting
<1>12. CASE \E t \in Tasks : ResetLock(t)
  BY <1>12, RowFacts DEF ResetLock, RestOK
<1> QED
  BY <1>1, <1>2, <1>3, <1>4, <1>5, <1>6, <1>7, <1>8, <1>9, <1>10, <1>11, <1>12
  DEF Next, Handlers, Environment

-----------------------------------------------------------------------------
(* Type correctness.                                                       *)

\* The inductive form of TypeOK.
TypeInv == HandlersOK /\ job \in JobType /\ AttemptsOK /\ RestOK

\* The invariant holds of the state createDiagnosticExecution commits.
LEMMA TypeInit == Init => TypeInv
<1> SUFFICES ASSUME Init PROVE TypeInv
  OBVIOUS
<1> USE DEF Init
<1>1. HandlersOK
  BY DEF HandlersOK, Handler, Idle, SeenType, SeenOK, PCs
<1>2. job \in JobType /\ AttemptsOK
  BY AttemptsAssumption DEF JobType, AttemptsOK, Status, Queues, Idle
<1>3. RestOK
  BY RowFacts DEF RestOK, StepStatus, Lease, Nobody, Maint, Resting, Runner, ProcStates
<1> QED
  BY <1>1, <1>2, <1>3 DEF TypeInv

\* Every step and every stutter preserves it.
LEMMA TypeStep == TypeInv /\ [Next]_vars => TypeInv'
<1> SUFFICES ASSUME TypeInv, [Next]_vars PROVE TypeInv'
  OBVIOUS
<1>1. CASE Next
  <2>1. HandlersOK /\ job \in JobType /\ AttemptsOK /\ RestOK /\ runner.dir \in BOOLEAN
    BY DEF TypeInv, RestOK, Runner
  <2>2. Entry /\ JobStep
    BY <1>1, <2>1, HandlersStep, JobStepLemma
  <2>3. HandlersOK'
    BY <2>2 DEF Entry, Only
  <2>4. job' \in JobType
    BY <2>2 DEF JobStep
  <2>5. AttemptsOK' /\ RestOK'
    BY <1>1, <2>1, <2>2, AttemptsStep, RestStep
  <2> QED
    BY <2>3, <2>4, <2>5 DEF TypeInv
<1>2. CASE UNCHANGED vars
  BY <1>2 DEF vars, TypeInv, HandlersOK, SeenOK, AttemptsOK, RestOK
<1> QED
  BY <1>1, <1>2

\* The invariant holds in every reachable state.
LEMMA TypeInvariant == Spec => []TypeInv
BY TypeInit, TypeStep, PTL DEF Spec

\* Whatever the handlers, the maintenance scans, the client and the runner do
\* in whatever order, every row keeps its type, attemptCount never passes
\* maxAttempts, and every handler is at a place it knows.
THEOREM TypeCorrect == Spec => []TypeOK
<1>1. TypeInv => TypeOK
  BY AttemptsAssumption DEF TypeInv, TypeOK, HandlersOK, Handler, SeenType, JobType, AttemptsOK,
     RestOK, Row, Lease, Maint, Runner
<1> QED
  BY <1>1, TypeInvariant, PTL

-----------------------------------------------------------------------------
(* The status of the job.                                                  *)

\* What a step may do to the status, put shortly: keep it, follow an accepted
\* request, or take a legal edge out of a status that is not terminal.
LEMMA StatusStep ==
    ASSUME job \in JobType, JobStep
    PROVE  \/ Same
           \/ Requests
           \/ /\ canTransition(job.status, job'.status)
              /\ job.status \in Status \ Terminal
              /\ job'.status \in Status \ {"cancel_requested"}
              /\ job.status \in Cancelling <=> job'.status \in {"cancelling", "cancelled"}
              /\ job'.cancelRequested = job.cancelRequested
<1> SUFFICES ASSUME NEW expected \in SUBSET Status, NEW next \in Status, NEW bump,
                    Proper(expected, next), Moves(expected, next, bump)
             PROVE  /\ canTransition(job.status, job'.status)
                    /\ job.status \in Status \ Terminal
                    /\ job'.status \in Status \ {"cancel_requested"}
                    /\ job.status \in Cancelling <=> job'.status \in {"cancelling", "cancelled"}
                    /\ job'.cancelRequested = job.cancelRequested
  BY DEF JobStep
<1> QED
  BY DEF Moves, Proper, JobType

\* An accepted cancellation is never overtaken: once the API has recorded it
\* (cancelRequestedAt), no handler in flight, no failure path and no scan moves
\* the job out of cancel_requested, cancelling and cancelled, and nothing puts
\* a job there without it.
THEOREM CancelWins == Spec => []AcceptedCancelWins
<1>1. Init => AcceptedCancelWins
  BY DEF Init, AcceptedCancelWins, Cancelling
<1>2. TypeInv /\ AcceptedCancelWins /\ [Next]_vars => AcceptedCancelWins'
  <2> SUFFICES ASSUME TypeInv, AcceptedCancelWins, [Next]_vars
               PROVE  AcceptedCancelWins'
    OBVIOUS
  <2>0. job \in JobType /\ HandlersOK
    BY DEF TypeInv
  <2>1. CASE UNCHANGED job
    BY <2>1 DEF AcceptedCancelWins
  <2>2. CASE Next
    <3>1. JobStep
      BY <2>0, <2>2, JobStepLemma
    <3>2. CASE Same
      BY <3>2 DEF Same, AcceptedCancelWins
    <3>3. CASE Requests
      BY <3>3 DEF Requests, AcceptedCancelWins, Cancelling
    <3>4. CASE /\ job.status \in Status \ Terminal
               /\ job'.status \in Status \ {"cancel_requested"}
               /\ job.status \in Cancelling <=> job'.status \in {"cancelling", "cancelled"}
               /\ job'.cancelRequested = job.cancelRequested
      <4>1. job.status \in Cancelling \cup {"cancelled"} <=> job'.status \in Cancelling \cup {"cancelled"}
        BY <3>4 DEF Cancelling, Terminal
      <4> QED
        BY <3>4, <4>1 DEF AcceptedCancelWins
    <3> QED
      BY <2>0, <3>1, <3>2, <3>3, <3>4, StatusStep
  <2> QED
    BY <2>1, <2>2 DEF vars
<1> QED
  BY <1>1, <1>2, TypeInvariant, PTL DEF Spec

\* A job that has ended stays as it ended, although handlers, both scans and
\* late cancellation requests go on writing to its row.
THEOREM TerminalStays == Spec => TerminalIsFinal
<1>1. TypeInv /\ [Next]_vars => [job.status \in Terminal => job'.status = job.status]_vars
  <2> SUFFICES ASSUME TypeInv, Next, job.status \in Terminal
               PROVE  job'.status = job.status
    BY DEF vars
  <2>1. JobStep /\ job \in JobType
    BY JobStepLemma DEF TypeInv
  <2>2. Same
    BY <2>1, StatusStep DEF Requests
  <2> QED
    BY <2>2 DEF Same
<1> QED
  BY <1>1, TypeInvariant, PTL DEF Spec, TerminalIsFinal

\* Every change of status is an edge of states.ts, those the API and the
\* maintenance scans make included, which do not all go through the check.
THEOREM GraphFollowed == Spec => StatusFollowsGraph
<1>1. TypeInv /\ [Next]_vars =>
        [job'.status # job.status => canTransition(job.status, job'.status)]_vars
  <2> SUFFICES ASSUME TypeInv, Next, job'.status # job.status
               PROVE  canTransition(job.status, job'.status)
    BY DEF vars
  <2>1. JobStep /\ job \in JobType
    BY JobStepLemma DEF TypeInv
  <2>2. CASE Requests
    BY <2>2, Graph DEF Requests
  <2> QED
    BY <2>1, <2>2, StatusStep DEF Same
<1> QED
  BY <1>1, TypeInvariant, PTL DEF Spec, StatusFollowsGraph

-----------------------------------------------------------------------------
(* The workspace and the command.                                          *)

\* A step that leaves the workspace row alone and the directory in place; a
\* process that is there may change but is not forgotten.
Keeps == /\ UNCHANGED ws
         /\ runner'.dir = runner.dir /\ runner'.starts = runner.starts
         /\ runner'.proc = "none" => runner.proc = "none"

Creates == /\ UNCHANGED ws /\ ~ws.ext
           /\ runner'.starts = runner.starts /\ runner'.proc = runner.proc

Starts == /\ UNCHANGED ws /\ h["run"].pc = "start"
          /\ runner.dir /\ runner.proc = "none"
          /\ runner'.dir = runner.dir /\ runner'.proc = "running"
          /\ runner'.starts = runner.starts + 1

Destroys == /\ UNCHANGED ws /\ h["cleanup"].pc = "destroy"
            /\ ~runner'.dir /\ runner'.starts = runner.starts

Records == /\ h["provision"].pc = "record"
           /\ ws' = [ext |-> TRUE, state |-> "ready"] /\ UNCHANGED runner

Stops == /\ h["cleanup"].pc = "markStopped"
         /\ ws' = [ws EXCEPT !.state = "stopped"] /\ UNCHANGED runner

RunnerStep == Keeps \/ Creates \/ Starts \/ Destroys \/ Records \/ Stops

\* A step that touches neither the workspace row nor the runner.
LEMMA RunnerSame ==
    ASSUME UNCHANGED <<ws, runner>>
    PROVE  RunnerStep
BY DEF RunnerStep, Keeps

\* Telling a process to stop keeps the directory and the process known.
LEMMA RunnerSignalled ==
    ASSUME RestOK, UNCHANGED ws, runner' \in {runner, signalled(runner)}
    PROVE  RunnerStep
<1>1. LET s == signalled(runner)
      IN  /\ s.dir = runner.dir /\ s.starts = runner.starts
          /\ s.proc = "none" => runner.proc = "none"
  BY DEF signalled, RestOK, Runner
<1> QED
  BY <1>1 DEF RunnerStep, Keeps

\* Only these six kinds of step are made on the workspace and the runner.
LEMMA RunnerStepLemma ==
    ASSUME RestOK, Next
    PROVE  RunnerStep
<1> USE QueueFacts
<1>1. CASE provisionExecution
  <2>1. CASE ProvisionCreate
    <3> DEFINE effect == IF ws.ext THEN runner ELSE [runner EXCEPT !.dir = TRUE]
    <3>1. UNCHANGED ws /\ runner' \in {runner, effect}
      BY <2>1 DEF ProvisionCreate, Call
    <3>2. ~ws.ext => effect.starts = runner.starts /\ effect.proc = runner.proc
      BY DEF RestOK, Runner
    <3> QED
      BY <3>1, <3>2 DEF RunnerStep, Keeps, Creates
  <2>2. CASE ProvisionRecord
    BY <2>2 DEF ProvisionRecord, At, RunnerStep, Records
  <2>3. CASE \/ ProvisionTake \/ ProvisionRecheck \/ ProvisionUnfit
             \/ Move("provision", "claim", {"queued"}, "provisioning", 1, "recheck")
             \/ Move("provision", "markReady", {"provisioning"}, "ready", 0, "enqueueRun")
             \/ Hand("provision", "enqueueRun", "run", "return")
    BY <2>3, RunnerSame DEF ProvisionTake, ProvisionRecheck, ProvisionUnfit, Move, Hand, Take
  <2> QED
    BY <1>1, <2>1, <2>2, <2>3 DEF provisionExecution
<1>2. CASE runExecutionStep
  <2>1. CASE RunStart
    <3>1. CASE UNCHANGED <<ws, runner>>
      BY <3>1, RunnerSame
    <3>2. CASE runner.proc = "none" /\ runner' = [runner EXCEPT !.proc = "running", !.starts = @ + 1]
      <4>1. runner'.dir = runner.dir /\ runner'.proc = "running" /\ runner'.starts = runner.starts + 1
        BY <3>2 DEF RestOK, Runner
      <4> QED
        BY <2>1, <3>2, <4>1 DEF RunStart, Call, At, RunnerStep, Starts
    <3> QED
      BY <2>1, <3>1, <3>2 DEF RunStart, Call
  <2>2. CASE RunDeadline
    BY <2>2, RunnerSignalled DEF RunDeadline
  <2>3. CASE \/ RunTake \/ RunRecheck \/ RunPoll \/ RunPollFails \/ RunResult \/ RunOrphan
             \/ Unreachable("run", "start") \/ Unreachable("run", "poll")
             \/ Move("run", "claim", {seen("run")}, "running", 0, "recheck")
             \/ Move("run", "timeoutMark", {"running"}, "timed_out", 0, "enqueueCleanup")
             \/ SetStep("run", "begin", "running", "start")
             \/ SetStep("run", "timeoutStep", "failed", "timeoutMark")
             \/ SetStep("run", "stepDone", "completed", "enqueueCollect")
             \/ Hand("run", "enqueueCollect", "collect", "return")
    BY <2>3, RunnerSame DEF RunTake, RunRecheck, RunPoll, RunPollFails, RunResult, RunOrphan,
                            Unreachable, Move, SetStep, Hand, Take
  <2> QED
    BY <1>2, <2>1, <2>2, <2>3 DEF runExecutionStep
<1>3. CASE collectExecutionArtifacts
  BY <1>3, RunnerSame DEF collectExecutionArtifacts, CollectTake, CollectDownload, Unreachable,
                          CollectFails, CollectStore, CollectVerify, Take
<1>4. CASE cancelExecution
  <2>1. CASE CancelTerminate
    BY <2>1, RunnerSignalled DEF CancelTerminate
  <2>2. CASE \/ CancelTake \/ CancelRecheck \/ CancelConclude
             \/ Move("cancel", "claim", {"cancel_requested"}, "cancelling", 0, "recheck")
             \/ SetStep("cancel", "markStep", "cancelled", "enqueueCleanup")
    BY <2>2, RunnerSame DEF CancelTake, CancelRecheck, CancelConclude, Move, SetStep, Take
  <2> QED
    BY <1>4, <2>1, <2>2 DEF cancelExecution
<1>5. CASE cleanupExecution
  <2>1. CASE CleanupDestroy
    <3> DEFINE effect == [runner EXCEPT !.dir = FALSE, !.proc = "none"]
    <3>1. UNCHANGED ws /\ runner' \in {runner, effect} /\ h["cleanup"].pc = "destroy"
      BY <2>1 DEF CleanupDestroy, Call, At
    <3>2. ~effect.dir /\ effect.starts = runner.starts
      BY DEF RestOK, Runner
    <3> QED
      BY <3>1, <3>2, RunnerSame DEF RunnerStep, Destroys
  <2>2. CASE CleanupStopped
    BY <2>2 DEF CleanupStopped, At, RunnerStep, Stops
  <2>3. CASE \/ CleanupTake \/ CleanupBusy \/ CleanupSettle
             \/ Move("cleanup", "settleMark", {seen("cleanup")},
                     IF seen("cleanup") = "running" THEN "completed" ELSE "cancelled", 0, "return")
    BY <2>3, RunnerSame DEF CleanupTake, CleanupBusy, CleanupSettle, Move, Take
  <2> QED
    BY <1>5, <2>1, <2>2, <2>3 DEF cleanupExecution
<1>6. CASE \E t \in Tasks : \/ TakeRefused(t) \/ Return(t) \/ Rethrow(t)
                            \/ Catch(t) \/ failExecution(t) \/ HandOver(t)
  BY <1>6, RunnerSame DEF TakeRefused, Return, Rethrow, Leave, Catch, failExecution, FailRead,
                          FailMark, SetStep, HandOver, Hand
<1>7. CASE reconcileExecutions \/ expireExecutions
  BY <1>7, RunnerSame DEF reconcileExecutions, expireExecutions, MaintScan, MaintEnqueue, MaintMove
<1>8. CASE ProcessCloses \/ RunnerRestarts
  <2>1. PICK o \in Outcomes \cup {"lost"} : runner' = [runner EXCEPT !.proc = o] /\ UNCHANGED ws
    BY <1>8 DEF ProcessCloses, RunnerRestarts
  <2> QED
    BY <2>1 DEF RestOK, Runner, Outcomes, RunnerStep, Keeps
<1>9. CASE \/ requestExecutionCancellation \/ LeaseExpires \/ heartbeatExecutionLease
           \/ MaintenanceCrashes \/ (\E t \in Tasks : ResetLock(t)) \/ (\E q \in Queues : WorkerCrashes(q))
  BY <1>9, RunnerSame DEF requestExecutionCancellation, LeaseExpires, heartbeatExecutionLease,
                          MaintenanceCrashes, ResetLock, WorkerCrashes
<1> QED
  BY <1>1, <1>2, <1>3, <1>4, <1>5, <1>6, <1>7, <1>8, <1>9 DEF Next, Handlers, Environment

\* Why the command starts once: it is started only when the runner knows no
\* process; a process is forgotten only together with its directory; and a
\* directory is created only before the workspace id is recorded.
RunnerInv ==
    /\ runner.starts > 0 => ws.ext
    /\ runner.starts <= 1
    /\ runner.starts = 1 /\ runner.proc = "none" => ~runner.dir
    /\ ws.state = "stopped" => ws.ext /\ ~runner.dir
    /\ h["run"].pc \in {"begin", "start"} => ws.ext
    /\ h["cleanup"].pc \in {"destroy", "markStopped"} => ws.ext
    /\ h["cleanup"].pc = "markStopped" => ~runner.dir

\* The invariant holds before anything is created.
LEMMA RunnerInit == Init => RunnerInv
BY DEF Init, RunnerInv, Idle, Queues

\* Every step preserves it: the handlers come to the places it speaks of only
\* after they have seen the recorded id or destroyed the directory.
LEMMA RunnerInvStep ==
    ASSUME RestOK, RunnerInv, Entry, RunnerStep
    PROVE  RunnerInv'
<1> DEFINE running    == h["run"].pc \in {"begin", "start"}
           destroying == h["cleanup"].pc \in {"destroy", "markStopped"}
           destroyed  == h["cleanup"].pc = "markStopped"
<1>0. /\ runner.dir \in BOOLEAN /\ runner.starts \in Nat /\ ws.ext \in BOOLEAN
      /\ "run" \in Queues /\ "cleanup" \in Queues
  BY DEF RestOK, Runner, Queues
<1>1. ws.ext => ws'.ext
  BY DEF RestOK, RunnerStep, Keeps, Creates, Starts, Destroys, Records, Stops
<1>2. ws.ext /\ ~runner.dir => ~runner'.dir
  BY <1>0 DEF RunnerStep, Keeps, Creates, Starts, Destroys, Records, Stops
<1>3. running' => ws'.ext
  <2>1. running' => running \/ ws.ext
    BY <1>0 DEF Entry, Only, Watched
  <2> QED
    BY <1>1, <2>1 DEF RunnerInv
<1>4. destroying' => ws'.ext
  <2>1. destroying' => destroying \/ ws.ext
    BY <1>0 DEF Entry, Only, Watched
  <2> QED
    BY <1>1, <2>1 DEF RunnerInv
<1>5. destroyed' => ~runner'.dir
  <2>1. destroyed' => destroyed \/ ~runner'.dir
    BY <1>0 DEF Entry, Only, Watched
  <2> QED
    BY <1>2, <2>1 DEF RunnerInv
<1>6. ws'.state = "stopped" => ws'.ext /\ ~runner'.dir
  <2>1. CASE Stops
    <3>1. ws.ext /\ ~runner.dir /\ ws'.ext /\ runner' = runner
      BY <2>1, <1>1 DEF Stops, RunnerInv
    <3> QED
      BY <3>1
  <2>2. CASE Records
    BY <2>2 DEF Records
  <2>3. CASE UNCHANGED ws
    BY <2>3, <1>2 DEF RunnerInv
  <2> QED
    BY <2>1, <2>2, <2>3 DEF RunnerStep, Keeps, Creates, Starts, Destroys
<1>7. /\ runner'.starts > 0 => ws'.ext
      /\ runner'.starts <= 1
      /\ runner'.starts = 1 /\ runner'.proc = "none" => ~runner'.dir
  <2>1. CASE Keeps \/ Records \/ Stops
    BY <2>1, <1>1 DEF Keeps, Records, Stops, RunnerInv
  <2>2. CASE Creates
    BY <2>2, <1>0 DEF Creates, RunnerInv
  <2>3. CASE Starts
    BY <2>3, <1>0 DEF Starts, RunnerInv
  <2>4. CASE Destroys
    BY <2>4, <1>1 DEF Destroys, RunnerInv
  <2> QED
    BY <2>1, <2>2, <2>3, <2>4 DEF RunnerStep
<1> QED
  BY <1>3, <1>4, <1>5, <1>6, <1>7 DEF RunnerInv

\* The invariant holds in every reachable state.
LEMMA RunnerInvariant == Spec => []RunnerInv
<1>1. TypeInv /\ RunnerInv /\ [Next]_vars => RunnerInv'
  <2> SUFFICES ASSUME TypeInv, RunnerInv, [Next]_vars PROVE RunnerInv'
    OBVIOUS
  <2>1. CASE Next
    <3>1. HandlersOK /\ job \in JobType /\ RestOK /\ runner.dir \in BOOLEAN
      BY DEF TypeInv, RestOK, Runner
    <3> QED
      BY <2>1, <3>1, HandlersStep, RunnerStepLemma, RunnerInvStep
  <2>2. CASE UNCHANGED vars
    BY <2>2 DEF vars, RunnerInv
  <2> QED
    BY <2>1, <2>2
<1> QED
  BY <1>1, RunnerInit, TypeInvariant, PTL DEF Spec

\* However often the run task is retried, resumed after a crash or queued again
\* by the reconciler, whatever calls fail after their effect and whatever
\* restarts, the command is started at most once: no limit on attempts and no
\* assumption on the lease is needed, only the idempotent start of the runner
\* and the fact that the workspace id is recorded once.
THEOREM StartsOnce == Spec => []CommandStartsOnce
<1>1. RunnerInv => CommandStartsOnce
  BY DEF RunnerInv, CommandStartsOnce
<1> QED
  BY <1>1, RunnerInvariant, PTL

\* A workspace row says stopped only when the directory is gone, and the
\* directory does not come back, even if handlers overlap.
THEOREM StoppedDestroyed == Spec => []StoppedIsDestroyed
<1>1. RunnerInv => StoppedIsDestroyed
  BY DEF RunnerInv, StoppedIsDestroyed
<1> QED
  BY <1>1, RunnerInvariant, PTL

-----------------------------------------------------------------------------
(* The lease.                                                              *)

\* Whoever is inside holds the lease.
LeaseInv == \A q \in Queues : h[q] # Idle => lease.owner = q /\ lease.live

\* A handler that is inside takes a step and keeps the lease.
Acts(t) == /\ h[QueueOf[t]] # Idle
           /\ \A q \in Queues : q # QueueOf[t] => h'[q] = h[q]
           /\ UNCHANGED lease

\* A step of a handler that is inside.
LEMMA Inside ==
    ASSUME HandlersOK, NEW t \in Tasks, NEW p, At(t, p), UNCHANGED lease,
           \/ \E to : Goto(t, to)
           \/ \E to, s : GotoWith(t, to, s)
           \/ \E e : Raise(t, e)
    PROVE  Acts(t)
<1>1. h[QueueOf[t]] # Idle
  BY DEF At, Idle, Tasks
<1>2. CASE \E to : Goto(t, to)
  BY <1>1, <1>2 DEF Goto, Acts, HandlersOK
<1>3. CASE \E to, s : GotoWith(t, to, s)
  BY <1>1, <1>3 DEF GotoWith, Acts, HandlersOK
<1>4. CASE \E e : Raise(t, e)
  BY <1>1, <1>4 DEF Raise, Acts, HandlersOK
<1> QED
  BY <1>2, <1>3, <1>4

\* The handler steps shared by the tasks.
LEMMA InsideShared ==
    ASSUME HandlersOK, NEW t \in Tasks, NEW from,
           \/ \E s, p : SetStep(t, from, s, p)
           \/ \E u, p : Hand(t, from, u, p)
           \/ \E expected, next, bump, p : Move(t, from, expected, next, bump, p)
           \/ At(t, from) /\ \E effect, p : Call(t, effect, p)
           \/ Unreachable(t, from)
    PROVE  Acts(t)
BY Inside DEF SetStep, Hand, Move, MoveOrRaise, Call, Unreachable

\* What a step does to the handlers and the lease.
LeaseStep ==
    \/ UNCHANGED <<h, lease>>
    \/ \E t \in Tasks : Acts(t) \/ (\E p : Take(t, p))
    \/ \E t \in Tasks : \E row, p : At(t, p) /\ Leave(t, row)
    \/ \E q \in Queues : WorkerCrashes(q)
    \/ LeaseExpires \/ heartbeatExecutionLease

\* Every step does to the handlers and the lease one of the things LeaseStep lists.
LEMMA LeaseStepLemma ==
    ASSUME HandlersOK, Next
    PROVE  LeaseStep
<1>0. {"provision", "run", "collect", "cancel", "cleanup"} = Tasks
  BY DEF Tasks
<1>1. CASE provisionExecution
  <2>1. CASE ProvisionTake
    BY <2>1, <1>0 DEF ProvisionTake, LeaseStep
  <2>2. CASE ProvisionRecheck \/ ProvisionUnfit \/ ProvisionRecord
    BY <2>2, <1>0, Inside DEF ProvisionRecheck, ProvisionUnfit, ProvisionRecord, LeaseStep
  <2>3. CASE \/ ProvisionCreate
             \/ Move("provision", "claim", {"queued"}, "provisioning", 1, "recheck")
             \/ Move("provision", "markReady", {"provisioning"}, "ready", 0, "enqueueRun")
             \/ Hand("provision", "enqueueRun", "run", "return")
    BY <2>3, <1>0, InsideShared DEF ProvisionCreate, LeaseStep
  <2> QED
    BY <1>1, <2>1, <2>2, <2>3 DEF provisionExecution
<1>2. CASE runExecutionStep
  <2>1. CASE RunTake
    BY <2>1, <1>0 DEF RunTake, LeaseStep
  <2>2. CASE RunRecheck \/ RunPoll \/ RunDeadline \/ RunPollFails \/ RunOrphan
    BY <2>2, <1>0, Inside DEF RunRecheck, RunPoll, RunDeadline, RunPollFails, RunOrphan, LeaseStep
  <2>3. CASE RunResult
    BY <2>3, <1>0, Inside DEF RunResult, LeaseStep
  <2>4. CASE \/ RunStart
             \/ Unreachable("run", "start") \/ Unreachable("run", "poll")
             \/ Move("run", "claim", {seen("run")}, "running", 0, "recheck")
             \/ Move("run", "timeoutMark", {"running"}, "timed_out", 0, "enqueueCleanup")
             \/ SetStep("run", "begin", "running", "start")
             \/ SetStep("run", "timeoutStep", "failed", "timeoutMark")
             \/ SetStep("run", "stepDone", "completed", "enqueueCollect")
             \/ Hand("run", "enqueueCollect", "collect", "return")
    BY <2>4, <1>0, InsideShared DEF RunStart, LeaseStep
  <2> QED
    BY <1>2, <2>1, <2>2, <2>3, <2>4 DEF runExecutionStep
<1>3. CASE collectExecutionArtifacts
  <2>1. CASE CollectTake
    BY <2>1, <1>0 DEF CollectTake, LeaseStep
  <2>2. CASE CollectDownload \/ CollectFails \/ CollectStore \/ CollectVerify
    BY <2>2, <1>0, Inside DEF CollectDownload, CollectFails, CollectStore, CollectVerify, LeaseStep
  <2>3. CASE Unreachable("collect", "download")
    BY <2>3, <1>0, InsideShared DEF LeaseStep
  <2> QED
    BY <1>3, <2>1, <2>2, <2>3 DEF collectExecutionArtifacts
<1>4. CASE cancelExecution
  <2>1. CASE CancelTake
    BY <2>1, <1>0 DEF CancelTake, LeaseStep
  <2>2. CASE CancelRecheck \/ CancelTerminate
    BY <2>2, <1>0, Inside DEF CancelRecheck, CancelTerminate, LeaseStep
  <2>3. CASE CancelConclude
    BY <2>3, <1>0, Inside DEF CancelConclude, MoveOrRaise, LeaseStep
  <2>4. CASE \/ Move("cancel", "claim", {"cancel_requested"}, "cancelling", 0, "recheck")
             \/ SetStep("cancel", "markStep", "cancelled", "enqueueCleanup")
    BY <2>4, <1>0, InsideShared DEF LeaseStep
  <2> QED
    BY <1>4, <2>1, <2>2, <2>3, <2>4 DEF cancelExecution
<1>5. CASE cleanupExecution
  <2>1. CASE CleanupTake
    BY <2>1, <1>0 DEF CleanupTake, LeaseStep
  <2>2. CASE CleanupBusy \/ CleanupStopped \/ CleanupSettle
    BY <2>2, <1>0, Inside DEF CleanupBusy, CleanupStopped, CleanupSettle, LeaseStep
  <2>3. CASE \/ CleanupDestroy
             \/ Move("cleanup", "settleMark", {seen("cleanup")},
                     IF seen("cleanup") = "running" THEN "completed" ELSE "cancelled", 0, "return")
    BY <2>3, <1>0, InsideShared DEF CleanupDestroy, LeaseStep
  <2> QED
    BY <1>5, <2>1, <2>2, <2>3 DEF cleanupExecution
<1>6. CASE \E t \in Tasks : \/ TakeRefused(t) \/ Return(t) \/ Rethrow(t)
                            \/ Catch(t) \/ failExecution(t) \/ HandOver(t)
  <2> PICK t \in Tasks : \/ TakeRefused(t) \/ Return(t) \/ Rethrow(t)
                         \/ Catch(t) \/ failExecution(t) \/ HandOver(t)
    BY <1>6
  <2>1. CASE TakeRefused(t)
    BY <2>1 DEF TakeRefused, LeaseStep
  <2>2. CASE Return(t) \/ Rethrow(t)
    BY <2>2 DEF Return, Rethrow, LeaseStep
  <2>3. CASE Catch(t) \/ FailRead(t) \/ FailMark(t)
    BY <2>3, Inside DEF Catch, FailRead, FailMark, LeaseStep
  <2>4. CASE SetStep(t, "failStep", "failed", "enqueueCleanup") \/ HandOver(t)
    BY <2>4, InsideShared DEF HandOver, LeaseStep
  <2> QED
    BY <2>1, <2>2, <2>3, <2>4 DEF failExecution
<1>7. CASE \/ reconcileExecutions \/ expireExecutions \/ requestExecutionCancellation
           \/ ProcessCloses \/ RunnerRestarts \/ MaintenanceCrashes \/ \E t \in Tasks : ResetLock(t)
  BY <1>7 DEF reconcileExecutions, expireExecutions, MaintScan, MaintEnqueue, MaintMove,
              requestExecutionCancellation, ProcessCloses, RunnerRestarts, MaintenanceCrashes,
              ResetLock, LeaseStep
<1>8. CASE LeaseExpires \/ heartbeatExecutionLease \/ \E q \in Queues : WorkerCrashes(q)
  BY <1>8 DEF LeaseStep
<1> QED
  BY <1>1, <1>2, <1>3, <1>4, <1>5, <1>6, <1>7, <1>8 DEF Next, Handlers, Environment

\* While no handler outlives its lease, whoever is inside goes on holding it.
LEMMA LeaseInvStep ==
    ASSUME "slow" \notin Events, HandlersOK, LeaseInv, LeaseStep
    PROVE  LeaseInv'
<1> USE QueueFacts DEF LeaseInv
<1>0. h \in [Queues -> Handler]
  BY DEF HandlersOK
<1>1. CASE UNCHANGED <<h, lease>>
  BY <1>1
<1>2. CASE \E t \in Tasks : Acts(t)
  BY <1>0, <1>2 DEF Acts
<1>3. CASE \E t \in Tasks : \E p : Take(t, p)
  <2> PICK t \in Tasks : \E p : Take(t, p)
    BY <1>3
  <2>1. \A q \in Queues : h[q] = Idle
    BY DEF Take
  <2>2. \A q \in Queues : q # QueueOf[t] => h'[q] = h[q]
    BY <1>0 DEF Take
  <2>3. lease'.owner = QueueOf[t] /\ lease'.live
    BY DEF Take
  <2> QED
    BY <2>1, <2>2, <2>3
<1>4. CASE \E t \in Tasks : \E row, p : At(t, p) /\ Leave(t, row)
  <2> PICK t \in Tasks : \E row, p : At(t, p) /\ Leave(t, row)
    BY <1>4
  <2>1. \A q \in Queues : q # QueueOf[t] => h[q] = Idle
    BY DEF At, Idle, Tasks
  <2>2. \A q \in Queues : h'[q] = Idle
    BY <1>0, <2>1 DEF Leave
  <2> QED
    BY <2>2
<1>5. CASE \E q \in Queues : WorkerCrashes(q)
  <2> PICK q \in Queues : WorkerCrashes(q)
    BY <1>5
  <2>1. \A r \in Queues : r # q => h[r] = Idle
    BY DEF WorkerCrashes
  <2>2. \A r \in Queues : h'[r] = Idle
    BY <1>0, <2>1 DEF WorkerCrashes
  <2> QED
    BY <2>2
<1>6. CASE LeaseExpires
  <2>1. \A q \in Queues : h[q] = Idle
    BY <1>6 DEF LeaseExpires, Queues
  <2> QED
    BY <1>6, <2>1 DEF LeaseExpires
<1>7. CASE heartbeatExecutionLease
  BY <1>7 DEF heartbeatExecutionLease, At, Idle
<1> QED
  BY <1>1, <1>2, <1>3, <1>4, <1>5, <1>6, <1>7 DEF LeaseStep

\* As long as no handler outlives its lease, the lease serialises the five
\* tasks although they run in three queues on any number of workers: two
\* handlers of a job are never inside together, whoever crashes meanwhile.
THEOREM Serialised == "slow" \notin Events => (Spec => []OneHandler)
<1> SUFFICES ASSUME "slow" \notin Events PROVE Spec => []OneHandler
  OBVIOUS
<1>1. Init => LeaseInv
  BY DEF Init, LeaseInv
<1>2. TypeInv /\ LeaseInv /\ [Next]_vars => LeaseInv'
  <2> SUFFICES ASSUME TypeInv, LeaseInv, [Next]_vars PROVE LeaseInv'
    OBVIOUS
  <2>0. HandlersOK
    BY DEF TypeInv
  <2>1. CASE Next
    BY <2>0, <2>1, LeaseStepLemma, LeaseInvStep
  <2>2. CASE UNCHANGED vars
    BY <2>2 DEF vars, LeaseInv
  <2> QED
    BY <2>1, <2>2
<1>3. LeaseInv => OneHandler
  BY DEF LeaseInv, OneHandler
<1> QED
  BY <1>1, <1>2, <1>3, TypeInvariant, PTL DEF Spec

-----------------------------------------------------------------------------
(* What the kernel promises its client: a job completes on evidence that     *)
(* stays, it keeps the promise of ExecutionOutcome, and its workspace is not  *)
(* forgotten.  As in Serialised, no handler outlives its lease.              *)

\* Statuses a job has only after its workspace was created and recorded.
Workable == {"ready", "running", "waiting_for_input", "waiting_for_approval", "orphaned"}

\* Where a handler of a completed job can be.
Quiet == {"idle", "return", "enqueueCleanup", "settle"}

AllQuiet == \A q \in Queues : h[q].pc \in Quiet

\* Why a completed job is proven: cleanup looks at the status of the job only
\* after a recorded workspace has been removed, a job is running only after
\* its workspace was recorded, the lease keeps every other handler out while
\* the evidence is read, and afterwards no handler comes to a place where it
\* would mark the step or record a workspace again.
ProvenInv ==
    /\ job.status \in Workable => ws.ext
    /\ h["provision"].pc = "markReady" => ws.ext
    /\ h["cleanup"].pc \in {"settle", "settleMark"} => (ws.ext => ws.state = "stopped")
    /\ job.status = "completed" =>
          Evidence /\ ws.ext /\ ws.state = "stopped" /\ AllQuiet

\* The handlers of a completed job stay quiet, and leave the workspace row, the
\* step and the artifact as they are.
LEMMA QuietStep ==
    ASSUME HandlersOK, job.status = "completed", AllQuiet, ws.ext, ws.state = "stopped", Next
    PROVE  UNCHANGED <<ws, step>> /\ (stored => stored') /\ AllQuiet'
<1> USE QueueFacts
<1>0. /\ {"provision", "run", "collect", "cancel", "cleanup"} = Tasks
      /\ \A t \in Tasks : \A p : At(t, p) => p \in Quiet
      /\ job.status \in Terminal
  BY DEF Tasks, At, AllQuiet, Terminal
<1>a. ASSUME NEW t \in Tasks, NEW p \in Quiet, Goto(t, p) \/ Take(t, p)
      PROVE  AllQuiet'
  <2>1. h \in [Queues -> Handler] /\ QueueOf[t] \in Queues
    BY DEF HandlersOK
  <2>2. h'[QueueOf[t]].pc = p /\ \A q \in Queues : q # QueueOf[t] => h'[q] = h[q]
    <3>1. CASE Goto(t, p)
      BY <2>1, <3>1 DEF Goto, Handler
    <3>2. CASE Take(t, p)
      BY <2>1, <3>2 DEF Take
    <3> QED
      BY <1>a, <3>1, <3>2
  <2> QED
    BY <2>2 DEF AllQuiet
<1>b. UNCHANGED h => AllQuiet'
  BY DEF AllQuiet
<1>c. ASSUME NEW q \in Queues, h' = [h EXCEPT ![q] = Idle] PROVE AllQuiet'
  BY <1>c DEF AllQuiet, HandlersOK, Idle, Quiet
<1>1. CASE provisionExecution
  <2>1. CASE ProvisionTake
    <3>1. Take("provision", "return")
      BY <2>1 DEF ProvisionTake, Cancelling
    <3> QED
      BY <3>1, <1>0, <1>a DEF Take, Quiet
  <2>2. CASE \/ ProvisionRecheck \/ ProvisionCreate \/ ProvisionUnfit \/ ProvisionRecord
             \/ Move("provision", "claim", {"queued"}, "provisioning", 1, "recheck")
             \/ Move("provision", "markReady", {"provisioning"}, "ready", 0, "enqueueRun")
             \/ Hand("provision", "enqueueRun", "run", "return")
    BY <2>2, <1>0
       DEF ProvisionRecheck, ProvisionCreate, ProvisionUnfit, ProvisionRecord, Move, Hand,
           Quiet
  <2> QED
    BY <1>1, <2>1, <2>2 DEF provisionExecution
<1>2. CASE runExecutionStep
  <2>1. CASE RunTake
    <3>1. Take("run", "return")
      <4>1. (CASE job.status \in Terminal                -> "return"
               [] job.status \in Cancelling              -> "requeueCancel"
               [] job.status \in {"ready", "orphaned"}   -> "claim"
               [] job.status = "running" /\ ws.ext       -> "begin"
               [] OTHER                                  -> "catch") = "return"
        BY <1>0 DEF Cancelling
      <4> QED
        BY <2>1, <4>1 DEF RunTake
    <3> QED
      BY <3>1, <1>0, <1>a DEF Take, Quiet
  <2>2. CASE \/ RunRecheck \/ RunStart \/ RunPoll \/ RunDeadline \/ RunPollFails \/ RunResult \/ RunOrphan
             \/ Unreachable("run", "start") \/ Unreachable("run", "poll")
             \/ Move("run", "claim", {seen("run")}, "running", 0, "recheck")
             \/ Move("run", "timeoutMark", {"running"}, "timed_out", 0, "enqueueCleanup")
             \/ SetStep("run", "begin", "running", "start")
             \/ SetStep("run", "timeoutStep", "failed", "timeoutMark")
             \/ SetStep("run", "stepDone", "completed", "enqueueCollect")
             \/ Hand("run", "enqueueCollect", "collect", "return")
    BY <2>2, <1>0
       DEF RunRecheck, RunStart, RunPoll, RunDeadline, RunPollFails, RunResult, RunOrphan,
                      Unreachable, Move, SetStep, Hand, Quiet
  <2> QED
    BY <1>2, <2>1, <2>2 DEF runExecutionStep
<1>3. CASE collectExecutionArtifacts
  <2>1. CASE CollectTake
    <3>1. Take("collect", "return")
      BY <2>1, <1>0 DEF CollectTake
    <3> QED
      BY <3>1, <1>0, <1>a DEF Take, Quiet
  <2>2. CASE \/ CollectDownload \/ CollectFails \/ CollectStore \/ CollectVerify
             \/ Unreachable("collect", "download")
    BY <2>2, <1>0 DEF CollectDownload, CollectFails, CollectStore, CollectVerify, Unreachable, Quiet
  <2> QED
    BY <1>3, <2>1, <2>2 DEF collectExecutionArtifacts
<1>4. CASE cancelExecution
  <2>1. CASE CancelTake
    <3>1. Take("cancel", "enqueueCleanup")
      BY <2>1, <1>0 DEF CancelTake
    <3> QED
      BY <3>1, <1>0, <1>a DEF Take, Quiet
  <2>2. CASE \/ CancelRecheck \/ CancelTerminate \/ CancelConclude
             \/ Move("cancel", "claim", {"cancel_requested"}, "cancelling", 0, "recheck")
             \/ SetStep("cancel", "markStep", "cancelled", "enqueueCleanup")
    BY <2>2, <1>0 DEF CancelRecheck, CancelTerminate, CancelConclude, Move, SetStep, Quiet
  <2> QED
    BY <1>4, <2>1, <2>2 DEF cancelExecution
<1>5. CASE cleanupExecution
  <2>1. CASE CleanupTake
    <3>1. Take("cleanup", "settle")
      BY <2>1 DEF CleanupTake
    <3> QED
      BY <3>1, <1>0, <1>a DEF Take, Quiet
  <2>2. CASE CleanupSettle
    <3>1. Goto("cleanup", "return")
      BY <2>2 DEF CleanupSettle, Cancelling
    <3> QED
      BY <2>2, <3>1, <1>0, <1>a DEF CleanupSettle, Quiet
  <2>3. CASE \/ CleanupBusy \/ CleanupDestroy \/ CleanupStopped
             \/ Move("cleanup", "settleMark", {seen("cleanup")},
                     IF seen("cleanup") = "running" THEN "completed" ELSE "cancelled", 0, "return")
    BY <2>3, <1>0 DEF CleanupBusy, CleanupDestroy, CleanupStopped, Move, Quiet
  <2> QED
    BY <1>5, <2>1, <2>2, <2>3 DEF cleanupExecution
<1>6. CASE \E t \in Tasks : \/ TakeRefused(t) \/ Return(t) \/ Rethrow(t)
                            \/ Catch(t) \/ failExecution(t) \/ HandOver(t)
  <2> PICK t \in Tasks : \/ TakeRefused(t) \/ Return(t) \/ Rethrow(t)
                         \/ Catch(t) \/ failExecution(t) \/ HandOver(t)
    BY <1>6
  <2>1. CASE TakeRefused(t)
    BY <2>1, <1>b DEF TakeRefused
  <2>2. CASE Return(t) \/ Rethrow(t)
    BY <2>2, <1>c DEF Return, Rethrow, Leave
  <2>3. CASE Hand(t, "enqueueCleanup", "cleanup", "return")
    BY <2>3, <1>a DEF Hand, Quiet
  <2>4. CASE \/ Catch(t) \/ FailRead(t) \/ FailMark(t) \/ SetStep(t, "failStep", "failed", "enqueueCleanup")
             \/ Hand(t, "requeueCancel", "cancel", "return")
    BY <2>4, <1>0 DEF Catch, FailRead, FailMark, SetStep, Hand, Quiet
  <2> QED
    BY <2>1, <2>2, <2>3, <2>4 DEF failExecution, HandOver
<1>7. CASE reconcileExecutions \/ expireExecutions
  BY <1>7, <1>b DEF reconcileExecutions, expireExecutions, MaintScan, MaintEnqueue, MaintMove
<1>8. CASE \E q \in Queues : WorkerCrashes(q)
  <2> PICK q \in Queues : WorkerCrashes(q)
    BY <1>8
  <2> QED
    BY <1>c DEF WorkerCrashes
<1>9. CASE requestExecutionCancellation
  BY <1>9, <1>b DEF requestExecutionCancellation
<1>10. CASE \/ ProcessCloses \/ RunnerRestarts \/ LeaseExpires
           \/ heartbeatExecutionLease \/ MaintenanceCrashes \/ \E t \in Tasks : ResetLock(t)
  BY <1>10, <1>b DEF ProcessCloses, RunnerRestarts, LeaseExpires,
                    heartbeatExecutionLease, MaintenanceCrashes, ResetLock
<1> QED
  BY <1>1, <1>2, <1>3, <1>4, <1>5, <1>6, <1>7, <1>8, <1>9, <1>10 DEF Next, Handlers, Environment

\* What the graph of states.ts says about work and completion.
LEMMA WorkGraph ==
    \A s \in Status :
       /\ \A n \in {"running", "waiting_for_input", "waiting_for_approval"} :
             canTransition(s, n) => s \in Workable
       /\ canTransition(s, "completed") => s = "running"
BY DEF canTransition, transitions, Status, Terminal, Workable

\* A recorded workspace stays recorded, and one that is marked stopped stays
\* stopped unless a provisioning handler records it again.
LEMMA RecordStays ==
    ASSUME RestOK, RunnerStep
    PROVE  /\ ws.ext => ws'.ext
           /\ \/ UNCHANGED ws
              \/ h["provision"].pc = "record"
              \/ h["cleanup"].pc = "markStopped"
BY DEF RestOK, RunnerStep, Keeps, Creates, Starts, Destroys, Records, Stops

\* While the lease serialises the handlers, every step preserves ProvenInv.
LEMMA ProvenStep ==
    ASSUME TypeInv, LeaseInv, ProvenInv, Next
    PROVE  ProvenInv'
<1>0. /\ Entry /\ JobStep /\ RunnerStep /\ HandlersOK /\ job \in JobType /\ RestOK
      /\ {"provision", "run", "cleanup"} = Queues /\ job.status \in Status
  BY HandlersStep, JobStepLemma, RunnerStepLemma DEF TypeInv, Queues, JobType
<1>1. \A q, r \in Queues : h[q].pc # "idle" /\ h[r].pc # "idle" => q = r
  BY DEF LeaseInv, Idle
<1>2. job'.status \in Workable => ws'.ext
  <2> SUFFICES ASSUME job'.status \in Workable, job'.status # job.status PROVE ws.ext
    BY <1>0, RecordStays DEF ProvenInv
  <2>1. PICK expected, next :
           /\ Justified(expected, next)
           /\ job.status \in expected /\ canTransition(job.status, next) /\ job'.status = next
    BY <1>0 DEF JobStep, Same, Requests, Moves, Workable
  <2>2. CASE next = "ready"
    BY <2>1, <2>2 DEF Justified, ProvenInv
  <2>3. CASE next = "orphaned"
    BY <2>1, <2>3 DEF Justified, ProvenInv, Workable
  <2>4. CASE next \in {"running", "waiting_for_input", "waiting_for_approval"}
    BY <2>1, <2>4, <1>0, WorkGraph DEF ProvenInv
  <2> QED
    BY <2>1, <2>2, <2>3, <2>4 DEF Workable
<1>3. h'["provision"].pc = "markReady" => ws'.ext
  <2>1. h'["provision"].pc = "markReady" => h["provision"].pc = "markReady" \/ ws'.ext
    BY <1>0 DEF Entry, Only, Watched
  <2> QED
    BY <2>1, <1>0, RecordStays DEF ProvenInv
<1>4. h'["cleanup"].pc \in {"settle", "settleMark"} => (ws'.ext => ws'.state = "stopped")
  <2> SUFFICES ASSUME h'["cleanup"].pc \in {"settle", "settleMark"}, ws'.ext
               PROVE  ws'.state = "stopped"
    OBVIOUS
  <2>1. \/ ws'.state = "stopped"
        \/ h["cleanup"].pc \in {"settle", "settleMark"}
    BY <1>0 DEF Entry, Only, Watched
  <2>2. h["cleanup"].pc \in {"settle", "settleMark"} => UNCHANGED ws
    BY <1>0, <1>1, RecordStays
  <2> QED
    BY <2>1, <2>2 DEF ProvenInv
<1>5. job'.status = "completed" =>
         Evidence' /\ ws'.ext /\ ws'.state = "stopped" /\ AllQuiet'
  <2> SUFFICES ASSUME job'.status = "completed"
               PROVE  Evidence' /\ ws'.ext /\ ws'.state = "stopped" /\ AllQuiet'
    OBVIOUS
  <2>1. CASE job.status = "completed"
    <3>1. UNCHANGED <<ws, step>> /\ (stored => stored') /\ AllQuiet'
      BY <2>1, <1>0, QuietStep DEF ProvenInv
    <3>2. job'.verified
      BY <2>1, <1>0 DEF JobStep, ProvenInv, Evidence
    <3> QED
      BY <2>1, <3>1, <3>2 DEF ProvenInv, Evidence
  <2>2. CASE job.status # "completed"
    <3>1. /\ Move("cleanup", "settleMark", {seen("cleanup")}, "completed", 0, "return")
          /\ canTransition(job.status, "completed") /\ KeepsEvidence
      BY <2>2, <1>0 DEF JobStep, Same, Requests, Moves, Justified
    <3>2. accepts({seen("cleanup")}, "completed") /\ Goto("cleanup", "return")
      BY <2>2, <3>1 DEF Move, MoveOrRaise
    <3>3. Evidence
      BY <2>2, <3>2 DEF accepts, Terminal
    <3>4. Evidence'
      BY <3>1, <3>3 DEF KeepsEvidence, Evidence
    <3>5. ws.ext /\ ws.state = "stopped" /\ UNCHANGED ws
      <4>1. h["cleanup"].pc = "settleMark" /\ UNCHANGED ws
        BY <3>1, QueueFacts DEF Move, At
      <4>2. job.status = "running"
        BY <3>1, <1>0, WorkGraph
      <4> QED
        BY <4>1, <4>2 DEF ProvenInv, Workable
    <3>6. AllQuiet'
      <4>1. \A q \in Queues : q # "cleanup" => h[q].pc = "idle"
        <5>1. h["cleanup"].pc = "settleMark"
          BY <3>1, QueueFacts DEF Move, At
        <5> QED
          BY <5>1, <1>0, <1>1
      <4>2. h'["cleanup"].pc = "return" /\ \A q \in Queues : q # "cleanup" => h'[q] = h[q]
        BY <3>2, <1>0, QueueFacts DEF Goto, HandlersOK, Handler
      <4> QED
        BY <4>1, <4>2 DEF AllQuiet, Quiet
    <3> QED
      BY <3>4, <3>5, <3>6
  <2> QED
    BY <2>1, <2>2
<1> QED
  BY <1>2, <1>3, <1>4, <1>5 DEF ProvenInv

\* The two invariants hold in every reachable state.
LEMMA ProvenInvariant == "slow" \notin Events => (Spec => [](LeaseInv /\ ProvenInv))
<1> SUFFICES ASSUME "slow" \notin Events PROVE Spec => [](LeaseInv /\ ProvenInv)
  OBVIOUS
<1>1. Init => LeaseInv /\ ProvenInv
  BY DEF Init, LeaseInv, ProvenInv, Workable, Idle, Queues
<1>2. TypeInv /\ (LeaseInv /\ ProvenInv) /\ [Next]_vars => (LeaseInv /\ ProvenInv)'
  <2> SUFFICES ASSUME TypeInv, LeaseInv, ProvenInv, [Next]_vars
               PROVE  LeaseInv' /\ ProvenInv'
    OBVIOUS
  <2>1. CASE Next
    <3>1. HandlersOK
      BY DEF TypeInv
    <3>2. LeaseInv'
      BY <2>1, <3>1, LeaseStepLemma, LeaseInvStep
    <3> QED
      BY <2>1, <3>2, ProvenStep
  <2>2. CASE UNCHANGED vars
    BY <2>2 DEF vars, LeaseInv, ProvenInv, AllQuiet, Evidence
  <2> QED
    BY <2>1, <2>2
<1> QED
  BY <1>1, <1>2, TypeInvariant, PTL DEF Spec

\* As long as no handler outlives its lease, a job is shown completed only when
\* its step completed, its output was verified, its artifact stored and its
\* workspace removed, and none of this is taken back later: whatever crashes,
\* whichever calls fail and however often cleanup and collect are retried.
THEOREM CompletedProven == "slow" \notin Events => (Spec => []CompletedIsProven)
<1> SUFFICES ASSUME "slow" \notin Events PROVE Spec => []CompletedIsProven
  OBVIOUS
<1>1. ProvenInv /\ RunnerInv => CompletedIsProven
  BY DEF ProvenInv, RunnerInv, CompletedIsProven, Evidence
<1> QED
  BY <1>1, ProvenInvariant, RunnerInvariant, PTL

-----------------------------------------------------------------------------
(* The promise to the client.                                              *)

\* Every step of the system is, for the client, a step of ExecutionOutcome or
\* none at all.
LEMMA PromiseStep ==
    ASSUME TypeInv, ProvenInv, ProvenInv', AcceptedCancelWins', [Next]_vars
    PROVE  [Outcome!Next]_(Outcome!vars)
<1> USE DEF Outcome!Next, Outcome!vars
<1>1. CASE UNCHANGED vars
  BY <1>1 DEF vars, Evidence
<1>2. CASE Next
  <2>0. JobStep /\ job \in JobType /\ job.status \in Status
    BY <1>2, JobStepLemma DEF TypeInv, JobType
  <2>1. Evidence \in BOOLEAN /\ Evidence' \in BOOLEAN
    BY DEF Evidence
  <2>2. CASE Same
    <3>1. CASE job.status = "completed"
      <4>1. Evidence /\ Evidence'
        BY <2>2, <3>1 DEF Same, ProvenInv
      <4> QED
        BY <2>2, <4>1 DEF Same
    <3>2. CASE job.status # "completed"
      BY <2>1, <2>2, <3>2 DEF Same, Outcome!Work
    <3> QED
      BY <3>1, <3>2
  <2>3. CASE Requests
    <3>1. Evidence' = Evidence
      BY <2>3 DEF Requests, KeepsEvidence, Evidence
    <3> QED
      BY <2>3, <3>1 DEF Requests, Outcome!Withdraw, Terminal
  <2>4. CASE /\ job.status \notin Terminal /\ job'.status \in Status
             /\ job'.cancelRequested = job.cancelRequested
             /\ KeepsEvidence
    <3>1. Evidence' = Evidence
      BY <2>4 DEF KeepsEvidence, Evidence
    <3>2. CASE job'.status \in Terminal
      <4>1. job'.status \in Outcome!Outcomes
        BY <3>2 DEF Terminal, Outcome!Outcomes
      <4>2. job'.status = "completed" => Evidence
        BY <3>1 DEF ProvenInv
      <4>3. job'.status = "cancelled" <=> job.cancelRequested
        BY <2>4, <3>2 DEF AcceptedCancelWins, Cancelling, Terminal
      <4>4. Outcome!Close(job'.status)
        BY <2>4, <3>1, <3>2, <4>2, <4>3 DEF Outcome!Close
      <4> QED
        BY <4>1, <4>4
    <3>3. CASE job'.status \notin Terminal
      BY <2>4, <3>1, <3>3
    <3> QED
      BY <3>2, <3>3
  <2> QED
    BY <2>0, <2>2, <2>3, <2>4 DEF JobStep, Moves
<1> QED
  BY <1>1, <1>2

\* As long as no handler outlives its lease, the execution service implements
\* ExecutionOutcome: a job ends at most once; it ends completed only on
\* evidence, which is never taken back; and it ends cancelled exactly when a
\* cancellation was accepted before.
THEOREM PromiseKept == "slow" \notin Events => (Spec => KeepsPromise)
<1> SUFFICES ASSUME "slow" \notin Events PROVE Spec => KeepsPromise
  OBVIOUS
<1>1. Init => Outcome!Init
  BY DEF Init, Outcome!Init, Evidence, Terminal
<1>2. /\ TypeInv /\ ProvenInv /\ ProvenInv' /\ AcceptedCancelWins' /\ [Next]_vars
      => [Outcome!Next]_(Outcome!vars)
  BY PromiseStep
<1> QED
  BY <1>1, <1>2, TypeInvariant, ProvenInvariant, CancelWins, PTL
     DEF Spec, KeepsPromise, Outcome!Spec

-----------------------------------------------------------------------------
(* The workspace of a job that has ended.                                  *)

\* A handler is inside only while its graphile row is locked.
RowHeld ==
    \A q \in Queues : h[q] # Idle =>
        /\ h[q].task \in Tasks /\ QueueOf[h[q].task] = q
        /\ rows[h[q].task].st = "locked"

\* Places from which a handler goes on to queue the cleanup.
Owing == {"failStep", "enqueueCleanup", "markStep"}

\* The cleanup is queued, or somebody is about to queue it.
Covered ==
    \/ maint.pc = "expired"
    \/ rows["cleanup"].st # "absent"
    \/ \E q \in Queues : h[q].pc \in Owing

CleanupPCs == {"destroy", "markStopped", "settle", "settleMark", "return", "catch", "rethrow"}

\* Why no workspace is forgotten: a directory the row does not name belongs to
\* the provisioning handler that is about to record it; cleanup returns only
\* when the directory is gone; and whoever ends the job, or keeps a handler
\* about to create the directory of a job that ended, owes the cleanup.
LeakInv ==
    /\ RowHeld
    /\ runner.dir /\ ~ws.ext => h["provision"].pc = "record"
    /\ h["cleanup"].task = "cleanup" =>
          /\ h["cleanup"].pc \in CleanupPCs
          /\ h["cleanup"].pc \notin {"destroy", "catch", "rethrow"} => ~runner.dir
    /\ job.status \in Terminal /\ (runner.dir \/ h["provision"].pc = "create") => Covered

\* The cleanup handler at p, and a step that leaves the provisioning alone.
CleanupAt(p) == /\ h["cleanup"].task = "cleanup" /\ h["cleanup"].pc = p
                /\ UNCHANGED runner /\ h'["provision"] = h["provision"]

\* What a step does to the directory and to what is owed to it.
LeakStep ==
    /\ RowHeld'
    /\ runner'.dir /\ ~runner.dir =>
          h["provision"].pc = "create" /\ h'["provision"].pc = "record"
    /\ h["provision"].pc = "record" => h'["provision"].pc = "record" \/ ws'.ext
    /\ h'["provision"].pc = "create" =>
          h["provision"].pc = "create" \/ (job.status = "provisioning" /\ UNCHANGED job)
    /\ h'["cleanup"].task = "cleanup" =>
          \/ h'["cleanup"] = h["cleanup"]
          \/ h'["cleanup"].pc \in CleanupPCs \ {"return"}
          \/ /\ h'["cleanup"].pc = "return" /\ h["cleanup"].task = "cleanup"
             /\ h["cleanup"].pc \in {"settle", "settleMark"}
    /\ Covered => Covered' \/ CleanupAt("return")
    /\ job.status \notin Terminal /\ job'.status \in Terminal =>
          Covered' \/ CleanupAt("settleMark")

\* The handler of task t goes from p to to.
Advances(t, p, to) ==
    /\ At(t, p)
    /\ h'[QueueOf[t]].task = t /\ h'[QueueOf[t]].pc = to
    /\ \A q \in Queues : q # QueueOf[t] => h'[q] = h[q]

\* The ways in which a handler goes on.
LEMMA Advance ==
    ASSUME HandlersOK, NEW t \in Tasks, NEW p, At(t, p)
    PROVE  /\ \A to : Goto(t, to) => Advances(t, p, to)
           /\ \A to, s : GotoWith(t, to, s) => Advances(t, p, to)
           /\ \A e : Raise(t, e) => Advances(t, p, "catch")
<1>1. h \in [Queues -> Handler] /\ QueueOf[t] \in Queues /\ h[QueueOf[t]] \in Handler
  BY QueueFacts DEF HandlersOK
<1>2. h[QueueOf[t]].task = t
  BY DEF At
<1>3. ASSUME NEW to, Goto(t, to) PROVE Advances(t, p, to)
  BY <1>1, <1>2, <1>3 DEF Goto, Advances, Handler
<1>4. ASSUME NEW to, NEW s, GotoWith(t, to, s) PROVE Advances(t, p, to)
  BY <1>1, <1>2, <1>4 DEF GotoWith, Advances, Handler
<1>5. ASSUME NEW e, Raise(t, e) PROVE Advances(t, p, "catch")
  BY <1>1, <1>2, <1>5 DEF Raise, Advances, Handler
<1> QED
  BY <1>3, <1>4, <1>5

\* Queueing a task frees no row and loses none.
LEMMA EnqueueKeeps ==
    ASSUME rows \in [Tasks -> Row], NEW u \in Tasks, Enqueue(u)
    PROVE  /\ \A t \in Tasks : rows[t].st = "locked" => rows'[t].st = "locked"
           /\ \A t \in Tasks : rows[t].st # "absent" => rows'[t].st # "absent"
           /\ rows'[u].st # "absent"
BY DEF Enqueue, added, Row

\* A handler that goes on pays what it owes, records what it created, and ends
\* the job only where it owes the cleanup or has done it.
LEMMA AdvanceLeak ==
    ASSUME LeakInv, RestOK, NEW t \in Tasks, NEW p, NEW to, Advances(t, p, to), UNCHANGED maint,
           UNCHANGED rows \/ (\E u \in Tasks : Enqueue(u)),
           p \in Owing => to \in Owing \/ rows'["cleanup"].st # "absent",
           p = "record" => ws'.ext,
           to = "create" => job.status = "provisioning" /\ UNCHANGED job,
           t = "cleanup" => to \in CleanupPCs /\ (to = "return" => p \in {"settle", "settleMark"}),
           runner'.dir /\ ~runner.dir => t = "provision" /\ p = "create" /\ to = "record",
           job.status \notin Terminal /\ job'.status \in Terminal =>
              to \in Owing \/ (t = "cleanup" /\ p = "settleMark" /\ UNCHANGED runner)
    PROVE  LeakStep
<1> USE QueueFacts
<1>0. /\ "provision" \in Queues /\ "cleanup" \in Queues /\ "cleanup" \in Tasks
      /\ h[QueueOf[t]].task = t /\ h[QueueOf[t]].pc = p /\ h[QueueOf[t]] # Idle
      /\ QueueOf[t] = "provision" => t = "provision"
  BY DEF Queues, Tasks, Advances, At, Idle, QueueOf
<1>1. /\ \A u \in Tasks : rows[u].st = "locked" => rows'[u].st = "locked"
      /\ rows["cleanup"].st # "absent" => rows'["cleanup"].st # "absent"
  BY <1>0, EnqueueKeeps DEF RestOK
<1>2. RowHeld'
  <2> SUFFICES ASSUME NEW q \in Queues, h'[q] # Idle
               PROVE  /\ h'[q].task \in Tasks /\ QueueOf[h'[q].task] = q
                      /\ rows'[h'[q].task].st = "locked"
    BY DEF RowHeld
  <2>1. h'[q].task = h[q].task /\ h[q] # Idle
    BY <1>0 DEF Advances
  <2> QED
    BY <2>1, <1>1 DEF LeakInv, RowHeld
<1>3. runner'.dir /\ ~runner.dir =>
         h["provision"].pc = "create" /\ h'["provision"].pc = "record"
  BY <1>0 DEF Advances
<1>4. h["provision"].pc = "record" => h'["provision"].pc = "record" \/ ws'.ext
  BY <1>0 DEF Advances
<1>5. h'["provision"].pc = "create" =>
         h["provision"].pc = "create" \/ (job.status = "provisioning" /\ UNCHANGED job)
  <2>1. CASE QueueOf[t] = "provision"
    BY <2>1 DEF Advances
  <2>2. CASE QueueOf[t] # "provision"
    BY <2>2, <1>0 DEF Advances
  <2> QED
    BY <2>1, <2>2
<1>6. h'["cleanup"].task = "cleanup" =>
         \/ h'["cleanup"] = h["cleanup"]
         \/ h'["cleanup"].pc \in CleanupPCs \ {"return"}
         \/ /\ h'["cleanup"].pc = "return" /\ h["cleanup"].task = "cleanup"
            /\ h["cleanup"].pc \in {"settle", "settleMark"}
  BY <1>0 DEF Advances
<1>7. Covered => Covered'
  <2>1. \A q \in Queues : h[q].pc \in Owing =>
           rows'["cleanup"].st # "absent" \/ \E r \in Queues : h'[r].pc \in Owing
    BY <1>0 DEF Advances
  <2> QED
    BY <1>1, <2>1 DEF Covered
<1>8. job.status \notin Terminal /\ job'.status \in Terminal =>
         Covered' \/ CleanupAt("settleMark")
  BY <1>0 DEF Advances, Covered, CleanupAt
<1> QED
  BY <1>2, <1>3, <1>4, <1>5, <1>6, <1>7, <1>8 DEF LeakStep

\* A step of the scans, the client or the runner.
LEMMA StillLeak ==
    ASSUME LeakInv, UNCHANGED h, runner'.dir = runner.dir,
           \A t \in Tasks : rows[t].st = "locked" /\ h[QueueOf[t]].task = t => rows'[t].st = "locked",
           rows["cleanup"].st # "absent" => rows'["cleanup"].st # "absent",
           maint.pc = "expired" => maint'.pc = "expired" \/ rows'["cleanup"].st # "absent",
           job.status \notin Terminal /\ job'.status \in Terminal => maint'.pc = "expired"
    PROVE  LeakStep
<1>1. RowHeld'
  BY DEF LeakInv, RowHeld
<1>2. Covered => Covered'
  BY DEF Covered
<1>3. maint'.pc = "expired" => Covered'
  BY DEF Covered
<1> QED
  BY <1>1, <1>2, <1>3 DEF LeakStep

\* Taking a row: nobody is inside, so nobody owes anything.
LEMMA TakeLeak ==
    ASSUME LeakInv, LeaseInv, HandlersOK, RestOK, NEW t \in Tasks, NEW p, Take(t, p),
           p = "create" => job.status = "provisioning",
           t = "cleanup" => p \in CleanupPCs \ {"return"}
    PROVE  LeakStep
<1> USE QueueFacts
<1>0. /\ \A q \in Queues : h[q] = Idle
      /\ "provision" \in Queues /\ "cleanup" \in Queues /\ "cleanup" \in Tasks
      /\ QueueOf[t] = "provision" => t = "provision"
  BY DEF Take, LeaseInv, Queues, Tasks, QueueOf
<1>1. /\ h'[QueueOf[t]].task = t /\ h'[QueueOf[t]].pc = p
      /\ \A q \in Queues : q # QueueOf[t] => h'[q] = Idle
  BY <1>0 DEF Take, HandlersOK
<1>2. rows'[t].st = "locked" /\ \A u \in Tasks : u # t => rows'[u] = rows[u]
  BY DEF Take, taken, RestOK
<1>3. RowHeld'
  BY <1>1, <1>2 DEF RowHeld
<1>4. Covered => Covered'
  <2>1. maint' = maint
    BY DEF Take
  <2> QED
    BY <2>1, <1>0, <1>2 DEF Covered, Idle, Owing
<1>5. UNCHANGED <<job, ws, runner>> /\ h["provision"].pc # "record"
  BY <1>0 DEF Take, Idle
<1>6. h'["provision"].pc = "create" => job.status = "provisioning"
  BY <1>0, <1>1 DEF Idle
<1>7. h'["cleanup"].task = "cleanup" => h'["cleanup"].pc \in CleanupPCs \ {"return"}
  BY <1>0, <1>1 DEF Idle
<1> QED
  BY <1>3, <1>4, <1>5, <1>6, <1>7 DEF LeakStep

\* A handler that leaves: only the cleanup takes its own row away.
LEMMA LeaveLeak ==
    ASSUME LeakInv, HandlersOK, RestOK, NEW t \in Tasks, NEW row,
           Leave(t, row), (row.st # "absent" /\ At(t, "rethrow")) \/ At(t, "return")
    PROVE  LeakStep
<1> USE QueueFacts
<1>0. /\ "provision" \in Queues /\ "cleanup" \in Queues /\ "cleanup" \in Tasks
      /\ h[QueueOf[t]].task = t /\ h[QueueOf[t]].pc \in {"return", "rethrow"}
  BY DEF Queues, Tasks, At
<1>1. /\ h'[QueueOf[t]] = Idle
      /\ \A q \in Queues : q # QueueOf[t] => h'[q] = h[q]
  BY DEF Leave, HandlersOK
<1>2. rows'[t] = row /\ \A u \in Tasks : u # t => rows'[u] = rows[u]
  BY DEF Leave, RestOK
<1>3. UNCHANGED <<job, ws, runner, maint>>
  BY DEF Leave
<1>4. RowHeld'
  <2> SUFFICES ASSUME NEW q \in Queues, h'[q] # Idle
               PROVE  /\ h'[q].task \in Tasks /\ QueueOf[h'[q].task] = q
                      /\ rows'[h'[q].task].st = "locked"
    BY DEF RowHeld
  <2>1. h'[q] = h[q] /\ h[q] # Idle /\ q # QueueOf[t]
    BY <1>1
  <2> QED
    BY <2>1, <1>2 DEF LeakInv, RowHeld
<1>5. Covered => Covered' \/ CleanupAt("return")
  <2>1. \A q \in Queues : h[q].pc \in Owing => h'[q].pc \in Owing
    BY <1>0, <1>1 DEF Owing
  <2>2. CASE t = "cleanup" /\ At(t, "return")
    BY <2>2, <1>1, <1>3, <1>0 DEF CleanupAt, At
  <2>3. CASE ~(t = "cleanup" /\ At(t, "return"))
    <3>1. rows["cleanup"].st # "absent" => rows'["cleanup"].st # "absent"
      BY <2>3, <1>0, <1>2
    <3> QED
      BY <3>1, <2>1, <1>3 DEF Covered
  <2> QED
    BY <2>2, <2>3
<1>6. /\ h["provision"].pc = "record" => h'["provision"].pc = "record"
      /\ h'["provision"].pc = "create" => h["provision"].pc = "create"
      /\ h'["cleanup"].task = "cleanup" => h'["cleanup"] = h["cleanup"]
  BY <1>0, <1>1 DEF Idle
<1> QED
  BY <1>3, <1>4, <1>5, <1>6 DEF LeakStep

\* A transition: the job takes the status asked for and the handler goes on,
\* or the job stays as it is and the handler goes to its catch block.
LEMMA MoveAdvances ==
    ASSUME HandlersOK, job \in JobType, NEW t \in Tasks, NEW from, NEW expected, NEW next, NEW bump,
           NEW p, At(t, from), MoveOrRaise(t, expected, next, bump, p)
    PROVE  \/ Advances(t, from, p) /\ job'.status = next
           \/ Advances(t, from, "catch") /\ UNCHANGED job
BY Advance DEF MoveOrRaise, moved, JobType

\* Without crashes and lost calls, every step is a LeakStep.
LEMMA LeakStepLemma ==
    ASSUME {"crash", "transport"} \cap Events = {}, TypeInv, LeaseInv, LeakInv, Next
    PROVE  LeakStep
<1> USE QueueFacts
<1>0. /\ HandlersOK /\ RestOK /\ job \in JobType
      /\ {"provision", "run", "collect", "cancel", "cleanup"} = Tasks
      /\ "crash" \notin Events /\ "transport" \notin Events
      /\ \A p : At("cleanup", p) => p \in CleanupPCs
  BY DEF TypeInv, Tasks, LeakInv, At
<1>1. CASE provisionExecution
  <2>1. CASE ProvisionTake
    <3>1. PICK p \in {"requeueCancel", "claim", "create", "return"} :
             Take("provision", p) /\ (p = "create" => job.status = "provisioning")
      BY <2>1 DEF ProvisionTake, Cancelling
    <3> QED
      BY <3>1, <1>0, TakeLeak
  <2>2. CASE ProvisionRecheck
    <3>1. \/ Advances("provision", "recheck", "create") /\ job.status = "provisioning"
          \/ Advances("provision", "recheck", "return")
      BY <2>2, <1>0, Advance DEF ProvisionRecheck
    <3> QED
      BY <2>2, <3>1, <1>0, AdvanceLeak DEF ProvisionRecheck, Owing
  <2>3. CASE ProvisionCreate
    <3>1. Advances("provision", "create", "record")
      BY <2>3, <1>0, Advance DEF ProvisionCreate, Call
    <3>2. UNCHANGED <<job, rows, maint>>
      BY <2>3 DEF ProvisionCreate, Call
    <3> QED
      BY <3>1, <3>2, <1>0, AdvanceLeak DEF Owing
  <2>4. CASE ProvisionRecord
    <3>1. Advances("provision", "record", "markReady") /\ ws'.ext
      BY <2>4, <1>0, Advance DEF ProvisionRecord
    <3> QED
      BY <2>4, <3>1, <1>0, AdvanceLeak DEF ProvisionRecord, Owing
  <2>5. CASE Move("provision", "claim", {"queued"}, "provisioning", 1, "recheck")
    <3>1. \/ Advances("provision", "claim", "recheck") /\ job'.status = "provisioning"
          \/ Advances("provision", "claim", "catch") /\ UNCHANGED job
      BY <2>5, <1>0, MoveAdvances DEF Move
    <3> QED
      BY <2>5, <3>1, <1>0, AdvanceLeak DEF Move, Owing, Terminal
  <2>6. CASE Move("provision", "markReady", {"provisioning"}, "ready", 0, "enqueueRun")
    <3>1. \/ Advances("provision", "markReady", "enqueueRun") /\ job'.status = "ready"
          \/ Advances("provision", "markReady", "catch") /\ UNCHANGED job
      BY <2>6, <1>0, MoveAdvances DEF Move
    <3> QED
      BY <2>6, <3>1, <1>0, AdvanceLeak DEF Move, Owing, Terminal
  <2>7. CASE Hand("provision", "enqueueRun", "run", "return")
    <3>1. Advances("provision", "enqueueRun", "return")
      BY <2>7, <1>0, Advance DEF Hand
    <3> QED
      BY <2>7, <3>1, <1>0, AdvanceLeak DEF Hand, Owing
  <2>8. CASE ProvisionUnfit
    BY <2>8, <1>0 DEF ProvisionUnfit
  <2> QED
    BY <1>1, <2>1, <2>2, <2>3, <2>4, <2>5, <2>6, <2>7, <2>8 DEF provisionExecution
<1>2. CASE runExecutionStep
  <2>1. CASE RunTake
    <3>1. PICK p \in {"return", "requeueCancel", "claim", "begin", "catch"} : Take("run", p)
      BY <2>1 DEF RunTake
    <3> QED
      BY <3>1, <1>0, TakeLeak
  <2>2. CASE \/ RunRecheck \/ RunPoll \/ RunPollFails \/ RunResult
             \/ Unreachable("run", "start") \/ Unreachable("run", "poll")
    <3>1. PICK p \in {"recheck", "poll", "start", "result"},
               to \in {"begin", "catch", "result", "requeueCancel", "timeoutStep", "stepDone"} :
             Advances("run", p, to)
      BY <2>2, <1>0, Advance DEF RunRecheck, RunPoll, RunPollFails, RunResult, Unreachable
    <3>2. UNCHANGED <<job, rows, maint, runner>>
      BY <2>2 DEF RunRecheck, RunPoll, RunPollFails, RunResult, Unreachable
    <3> QED
      BY <3>1, <3>2, <1>0, AdvanceLeak DEF Owing
  <2>3. CASE RunStart \/ RunDeadline
    <3>1. PICK p \in {"start", "poll"}, to \in {"poll", "catch"} : Advances("run", p, to)
      BY <2>3, <1>0, Advance DEF RunStart, RunDeadline, Call
    <3>2. UNCHANGED <<job, rows, maint>> /\ runner'.dir = runner.dir
      BY <2>3, <1>0 DEF RunStart, RunDeadline, Call, signalled, RestOK, Runner
    <3> QED
      BY <3>1, <3>2, <1>0, AdvanceLeak DEF Owing
  <2>4. CASE Move("run", "claim", {seen("run")}, "running", 0, "recheck")
    <3>1. \/ Advances("run", "claim", "recheck") /\ job'.status = "running"
          \/ Advances("run", "claim", "catch") /\ UNCHANGED job
      BY <2>4, <1>0, MoveAdvances DEF Move
    <3> QED
      BY <2>4, <3>1, <1>0, AdvanceLeak DEF Move, Owing, Terminal
  <2>5. CASE Move("run", "timeoutMark", {"running"}, "timed_out", 0, "enqueueCleanup")
    <3>1. \/ Advances("run", "timeoutMark", "enqueueCleanup")
          \/ Advances("run", "timeoutMark", "catch") /\ UNCHANGED job
      BY <2>5, <1>0, MoveAdvances DEF Move
    <3> QED
      BY <2>5, <3>1, <1>0, AdvanceLeak DEF Move, Owing
  <2>6. CASE \/ SetStep("run", "begin", "running", "start")
             \/ SetStep("run", "timeoutStep", "failed", "timeoutMark")
             \/ SetStep("run", "stepDone", "completed", "enqueueCollect")
             \/ Hand("run", "enqueueCollect", "collect", "return")
    <3>1. PICK p \in {"begin", "timeoutStep", "stepDone", "enqueueCollect"},
               to \in {"start", "timeoutMark", "enqueueCollect", "return"} : Advances("run", p, to)
      BY <2>6, <1>0, Advance DEF SetStep, Hand
    <3>2. UNCHANGED <<job, maint, runner>> /\ (UNCHANGED rows \/ \E u \in Tasks : Enqueue(u))
      BY <2>6, <1>0 DEF SetStep, Hand
    <3> QED
      BY <3>1, <3>2, <1>0, AdvanceLeak DEF Owing
  <2>7. CASE RunOrphan
    <3>1. Advances("run", "orphan", "rethrow")
      BY <2>7, <1>0, Advance DEF RunOrphan
    <3>2. job' = job \/ job'.status = "orphaned"
      BY <2>7, <1>0 DEF RunOrphan, TryMove, moved, JobType
    <3> QED
      BY <2>7, <3>1, <3>2, <1>0, AdvanceLeak DEF RunOrphan, Owing, Terminal
  <2> QED
    BY <1>2, <2>1, <2>2, <2>3, <2>4, <2>5, <2>6, <2>7 DEF runExecutionStep
<1>3. CASE collectExecutionArtifacts
  <2>1. CASE CollectTake
    <3>1. PICK p \in {"return", "download", "verify", "catch"} : Take("collect", p)
      BY <2>1, <1>0, RequiredAssumption DEF CollectTake
    <3> QED
      BY <3>1, <1>0, TakeLeak
  <2>2. CASE CollectDownload \/ CollectStore \/ CollectVerify \/ Unreachable("collect", "download")
    <3>1. PICK p \in {"download", "store", "verify"},
               to \in {"store", "verify", "enqueueCleanup", "catch"} : Advances("collect", p, to)
      BY <2>2, <1>0, Advance DEF CollectDownload, CollectStore, CollectVerify, Unreachable
    <3>2. UNCHANGED <<rows, maint, runner>> /\ job'.status = job.status
      BY <2>2, <1>0 DEF CollectDownload, CollectStore, CollectVerify, Unreachable, JobType
    <3> QED
      BY <3>1, <3>2, <1>0, AdvanceLeak DEF Owing
  <2>3. CASE CollectFails
    BY <2>3, <1>0 DEF CollectFails
  <2> QED
    BY <1>3, <2>1, <2>2, <2>3 DEF collectExecutionArtifacts
<1>4. CASE cancelExecution
  <2>1. CASE CancelTake
    <3>1. PICK p \in {"enqueueCleanup", "claim", "terminate", "conclude"} : Take("cancel", p)
      BY <2>1 DEF CancelTake, AfterCancelRead
    <3> QED
      BY <3>1, <1>0, TakeLeak
  <2>2. CASE CancelRecheck \/ CancelTerminate
    <3>1. PICK p \in {"recheck", "terminate"}, to \in {"terminate", "conclude"} : Advances("cancel", p, to)
      BY <2>2, <1>0, Advance DEF CancelRecheck, CancelTerminate, AfterCancelRead
    <3>2. UNCHANGED <<job, rows, maint>> /\ runner'.dir = runner.dir
      BY <2>2, <1>0 DEF CancelRecheck, CancelTerminate, signalled, RestOK, Runner
    <3> QED
      BY <3>1, <3>2, <1>0, AdvanceLeak DEF Owing
  <2>3. CASE Move("cancel", "claim", {"cancel_requested"}, "cancelling", 0, "recheck")
    <3>1. \/ Advances("cancel", "claim", "recheck") /\ job'.status = "cancelling"
          \/ Advances("cancel", "claim", "catch") /\ UNCHANGED job
      BY <2>3, <1>0, MoveAdvances DEF Move
    <3> QED
      BY <2>3, <3>1, <1>0, AdvanceLeak DEF Move, Owing, Terminal
  <2>4. CASE CancelConclude
    <3>1. \/ Advances("cancel", "conclude", "markStep")
          \/ Advances("cancel", "conclude", "catch") /\ UNCHANGED job
      BY <2>4, <1>0, Advance, MoveAdvances DEF CancelConclude
    <3> QED
      BY <2>4, <3>1, <1>0, AdvanceLeak DEF CancelConclude, Owing
  <2>5. CASE SetStep("cancel", "markStep", "cancelled", "enqueueCleanup")
    <3>1. Advances("cancel", "markStep", "enqueueCleanup")
      BY <2>5, <1>0, Advance DEF SetStep
    <3> QED
      BY <2>5, <3>1, <1>0, AdvanceLeak DEF SetStep, Owing
  <2> QED
    BY <1>4, <2>1, <2>2, <2>3, <2>4, <2>5 DEF cancelExecution
<1>5. CASE cleanupExecution
  <2>1. CASE CleanupTake
    <3>1. PICK p \in {"destroy", "settle"} : Take("cleanup", p)
      BY <2>1 DEF CleanupTake
    <3> QED
      BY <3>1, <1>0, TakeLeak DEF CleanupPCs
  <2>2. CASE CleanupBusy \/ CleanupStopped
    <3>1. PICK p \in {"destroy", "markStopped"}, to \in {"catch", "settle"} : Advances("cleanup", p, to)
      BY <2>2, <1>0, Advance DEF CleanupBusy, CleanupStopped
    <3>2. UNCHANGED <<job, rows, maint, runner>>
      BY <2>2 DEF CleanupBusy, CleanupStopped
    <3> QED
      BY <3>1, <3>2, <1>0, AdvanceLeak DEF Owing, CleanupPCs
  <2>3. CASE CleanupDestroy
    <3>1. Advances("cleanup", "destroy", "markStopped")
      BY <2>3, <1>0, Advance DEF CleanupDestroy, Call
    <3>2. UNCHANGED <<job, rows, maint>> /\ ~runner'.dir
      BY <2>3, <1>0 DEF CleanupDestroy, Call, RestOK, Runner
    <3> QED
      BY <3>1, <3>2, <1>0, AdvanceLeak DEF Owing, CleanupPCs
  <2>4. CASE CleanupSettle
    <3>1. PICK to \in {"settleMark", "return"} : Advances("cleanup", "settle", to)
      BY <2>4, <1>0, Advance DEF CleanupSettle
    <3> QED
      BY <2>4, <3>1, <1>0, AdvanceLeak DEF CleanupSettle, Owing, CleanupPCs
  <2>5. CASE Move("cleanup", "settleMark", {seen("cleanup")},
                  IF seen("cleanup") = "running" THEN "completed" ELSE "cancelled", 0, "return")
    <3>1. \/ Advances("cleanup", "settleMark", "return")
          \/ Advances("cleanup", "settleMark", "catch") /\ UNCHANGED job
      BY <2>5, <1>0, MoveAdvances DEF Move
    <3> QED
      BY <2>5, <3>1, <1>0, AdvanceLeak DEF Move, Owing, CleanupPCs
  <2> QED
    BY <1>5, <2>1, <2>2, <2>3, <2>4, <2>5 DEF cleanupExecution
<1>6. CASE \E t \in Tasks : \/ TakeRefused(t) \/ Return(t) \/ Rethrow(t)
                            \/ Catch(t) \/ failExecution(t) \/ HandOver(t)
  <2> PICK t \in Tasks : \/ TakeRefused(t) \/ Return(t) \/ Rethrow(t)
                         \/ Catch(t) \/ failExecution(t) \/ HandOver(t)
    BY <1>6
  <2>1. CASE TakeRefused(t)
    <3>1. rows[t].st = "waiting" /\ rows' = [rows EXCEPT ![t] = returned(taken(rows[t]), Tries[t])]
      BY <2>1 DEF TakeRefused, Takeable
    <3>2. rows'[t].st # "absent" /\ \A u \in Tasks : u # t => rows'[u] = rows[u]
      BY <3>1, <1>0 DEF returned, taken, RestOK
    <3> QED
      BY <2>1, <3>1, <3>2, <1>0, StillLeak DEF TakeRefused
  <2>2. CASE Return(t)
    BY <2>2, <1>0, LeaveLeak DEF Return
  <2>3. CASE Rethrow(t)
    <3>1. returned(rows[t], Tries[t]).st # "absent"
      BY <1>0 DEF returned, RestOK, Row
    <3> QED
      BY <2>3, <3>1, <1>0, LeaveLeak DEF Rethrow
  <2>4. CASE Catch(t)
    <3>1. PICK to \in {"rethrow", "orphan", "fail"} : Goto(t, to) /\ (t = "cleanup" => to = "rethrow")
      BY <2>4 DEF Catch
    <3>2. Advances(t, "catch", to)
      BY <2>4, <3>1, <1>0, Advance DEF Catch
    <3> QED
      BY <2>4, <3>1, <3>2, <1>0, AdvanceLeak DEF Catch, Owing, CleanupPCs
  <2>5. CASE failExecution(t)
    <3>0. t # "cleanup"
      BY <2>5, <1>0 DEF failExecution, FailRead, FailMark, SetStep, CleanupPCs
    <3>1. CASE FailRead(t)
      <4>1. PICK to \in {"failStep", "failMark"} : Advances(t, "fail", to)
        BY <3>1, <1>0, Advance DEF FailRead
      <4> QED
        BY <3>0, <3>1, <4>1, <1>0, AdvanceLeak DEF FailRead, Owing
    <3>2. CASE FailMark(t)
      <4>1. Advances(t, "failMark", "failStep")
        BY <3>2, <1>0, Advance DEF FailMark
      <4> QED
        BY <3>0, <3>2, <4>1, <1>0, AdvanceLeak DEF FailMark, Owing
    <3>3. CASE SetStep(t, "failStep", "failed", "enqueueCleanup")
      <4>1. Advances(t, "failStep", "enqueueCleanup")
        BY <3>3, <1>0, Advance DEF SetStep
      <4> QED
        BY <3>0, <3>3, <4>1, <1>0, AdvanceLeak DEF SetStep, Owing
    <3> QED
      BY <2>5, <3>1, <3>2, <3>3 DEF failExecution
  <2>6. CASE HandOver(t)
    <3>0. t # "cleanup"
      BY <2>6, <1>0 DEF HandOver, Hand, CleanupPCs
    <3>1. CASE Hand(t, "enqueueCleanup", "cleanup", "return")
      <4>1. Advances(t, "enqueueCleanup", "return")
        BY <3>1, <1>0, Advance DEF Hand
      <4>2. rows'["cleanup"].st # "absent"
        BY <3>1, <1>0, EnqueueKeeps DEF Hand, RestOK
      <4> QED
        BY <3>0, <3>1, <4>1, <4>2, <1>0, AdvanceLeak DEF Hand
    <3>2. CASE Hand(t, "requeueCancel", "cancel", "return")
      <4>1. Advances(t, "requeueCancel", "return")
        BY <3>2, <1>0, Advance DEF Hand
      <4> QED
        BY <3>0, <3>2, <4>1, <1>0, AdvanceLeak DEF Hand, Owing
    <3> QED
      BY <2>6, <3>1, <3>2 DEF HandOver
  <2> QED
    BY <2>1, <2>2, <2>3, <2>4, <2>5, <2>6
<1>7. CASE reconcileExecutions \/ expireExecutions
  <2>1. ASSUME NEW p, NEW among, MaintScan(p, among) PROVE LeakStep
    BY <2>1, <1>0, StillLeak DEF MaintScan, Resting
  <2>2. ASSUME NEW from, NEW among, NEW t \in Tasks, MaintEnqueue(from, among, t),
               from = "expired" => t = "cleanup"
        PROVE  LeakStep
    BY <2>2, <1>0, EnqueueKeeps, StillLeak DEF MaintEnqueue, RestOK
  <2>3. CASE MaintMove("reconcile", {"running"}, "orphaned", "rerun")
    <3>1. job' = job \/ job'.status = "orphaned"
      BY <2>3, <1>0 DEF MaintMove, TryMove, moved, JobType
    <3> QED
      BY <2>3, <3>1, <1>0, StillLeak DEF MaintMove, Terminal
  <2>4. CASE MaintMove("expire", Expirable, "timed_out", "expired")
    <3>1. maint'.pc = "expired"
      BY <2>4, <1>0 DEF MaintMove, RestOK, Maint
    <3> QED
      BY <2>4, <3>1, <1>0, StillLeak DEF MaintMove
  <2> QED
    BY <1>7, <1>0, <2>1, <2>2, <2>3, <2>4 DEF reconcileExecutions, expireExecutions
<1>8. CASE requestExecutionCancellation
  <2>1. job'.status = "cancel_requested"
    BY <1>8, <1>0 DEF requestExecutionCancellation, JobType
  <2> QED
    BY <1>8, <2>1, <1>0, EnqueueKeeps, StillLeak DEF requestExecutionCancellation, RestOK, Terminal
<1>9. CASE ProcessCloses \/ RunnerRestarts
  <2>1. runner'.dir = runner.dir
    BY <1>9, <1>0 DEF ProcessCloses, RunnerRestarts, RestOK, Runner
  <2> QED
    BY <1>9, <2>1, <1>0, StillLeak DEF ProcessCloses, RunnerRestarts
<1>10. CASE LeaseExpires \/ heartbeatExecutionLease
  BY <1>10, <1>0, StillLeak DEF LeaseExpires, heartbeatExecutionLease
<1>11. CASE MaintenanceCrashes \/ \E q \in Queues : WorkerCrashes(q)
  BY <1>11, <1>0 DEF MaintenanceCrashes, WorkerCrashes
<1>12. CASE \E t \in Tasks : ResetLock(t)
  <2> PICK t \in Tasks : ResetLock(t)
    BY <1>12
  <2>1. /\ rows'[t].st # "absent" /\ h[QueueOf[t]].task # t
        /\ \A u \in Tasks : u # t => rows'[u] = rows[u]
    BY <1>0 DEF ResetLock, returned, RestOK, Row
  <2> QED
    BY <2>1, <1>0, StillLeak DEF ResetLock
<1> QED
  BY <1>1, <1>2, <1>3, <1>4, <1>5, <1>6, <1>7, <1>8, <1>9, <1>10, <1>11, <1>12
  DEF Next, Handlers, Environment

\* While the lease serialises the handlers and nothing crashes or gets lost,
\* every step preserves LeakInv.
LEMMA LeakInvStep ==
    ASSUME TypeInv, RunnerInv, LeaseInv, ProvenInv, LeakInv,
           TypeInv', RunnerInv', LeaseInv', ProvenInv', RunnerStep, JobStep, LeakStep
    PROVE  LeakInv'
<1>0. /\ RestOK /\ job \in JobType
      /\ "provision" \in Queues /\ "cleanup" \in Queues
      /\ ws.ext => ws'.ext
  BY RecordStays DEF TypeInv, Queues
<1>1. /\ ~(h["provision"].pc \in {"create", "record"} /\ h["cleanup"].pc # "idle")
      /\ ~(h'["provision"].pc \in {"create", "record"} /\ h'["cleanup"].pc # "idle")
  BY <1>0 DEF LeaseInv, Idle
<1>2. runner'.dir /\ ~ws'.ext => h'["provision"].pc = "record"
  BY <1>0 DEF LeakStep, LeakInv
<1>3. h'["cleanup"].task = "cleanup" => h'["cleanup"].pc \in CleanupPCs
  BY DEF LeakStep, LeakInv, CleanupPCs
<1>4. ASSUME h["cleanup"].task = "cleanup", h["cleanup"].pc \in {"settle", "settleMark", "return"}
      PROVE  ~runner'.dir /\ ~runner.dir
  BY <1>1, <1>4 DEF LeakStep, LeakInv
<1>5. h'["cleanup"].task = "cleanup" /\ h'["cleanup"].pc \notin {"destroy", "catch", "rethrow"}
        => ~runner'.dir
  <2> SUFFICES ASSUME h'["cleanup"].task = "cleanup",
                      h'["cleanup"].pc \in {"markStopped", "settle", "settleMark", "return"}
               PROVE  ~runner'.dir
    BY <1>3 DEF CleanupPCs
  <2>1. CASE h'["cleanup"].pc = "markStopped"
    BY <2>1 DEF RunnerInv
  <2>2. CASE h'["cleanup"].pc \in {"settle", "settleMark"}
    <3>1. ws'.ext => ~runner'.dir
      BY <2>2 DEF ProvenInv, RunnerInv
    <3>2. ~ws'.ext => ~runner'.dir
      BY <2>2, <1>1, <1>2
    <3> QED
      BY <3>1, <3>2
  <2>3. CASE h'["cleanup"].pc = "return"
    <3>1. /\ h["cleanup"].task = "cleanup"
          /\ h["cleanup"].pc \in {"settle", "settleMark", "return"}
      BY <2>3 DEF LeakStep
    <3> QED
      BY <3>1, <1>4
  <2> QED
    BY <2>1, <2>2, <2>3
<1>6. job'.status \in Terminal /\ (runner'.dir \/ h'["provision"].pc = "create") => Covered'
  <2> SUFFICES ASSUME job'.status \in Terminal, runner'.dir \/ h'["provision"].pc = "create"
               PROVE  Covered'
    OBVIOUS
  <2>1. ASSUME NEW p \in {"settleMark", "return"}, CleanupAt(p) PROVE FALSE
    <3>1. ~runner'.dir
      BY <2>1, <1>4 DEF CleanupAt
    <3>2. h'["provision"].pc # "create"
      BY <2>1, <1>1 DEF CleanupAt
    <3> QED
      BY <3>1, <3>2
  <2>2. CASE job.status \in Terminal
    <3>1. runner.dir \/ h["provision"].pc = "create"
      BY <2>2 DEF LeakStep, Terminal
    <3>2. Covered
      BY <2>2, <3>1 DEF LeakInv
    <3> QED
      BY <3>2, <2>1 DEF LeakStep
  <2>3. CASE job.status \notin Terminal
    BY <2>1, <2>3 DEF LeakStep
  <2> QED
    BY <2>2, <2>3
<1> QED
  BY <1>2, <1>3, <1>5, <1>6 DEF LeakStep, LeakInv

\* As long as no worker dies, no runner call is lost and no handler outlives
\* its lease, the workspace of a job that ended, however it ended, is gone or
\* its cleanup is still in the queue or about to be put there.  Each of the
\* three assumptions is needed: a lost answer leaves a directory the row never
\* learns of, and the expiry scan queues the cleanup after it has committed the
\* status.
THEOREM WorkspaceOwed ==
    {"crash", "transport", "slow"} \cap Events = {} => (Spec => []WorkspaceNotLeaked)
<1> SUFFICES ASSUME {"crash", "transport", "slow"} \cap Events = {}
             PROVE  Spec => []WorkspaceNotLeaked
  OBVIOUS
<1>0. "slow" \notin Events /\ {"crash", "transport"} \cap Events = {}
  OBVIOUS
<1>1. Init => LeakInv
  <2> SUFFICES ASSUME Init PROVE LeakInv
    OBVIOUS
  <2>1. /\ \A q \in Queues : h[q] = Idle
        /\ "provision" \in Queues /\ "cleanup" \in Queues
        /\ ~runner.dir /\ job.status \notin Terminal
    BY DEF Init, Queues, Terminal
  <2> QED
    BY <2>1 DEF LeakInv, RowHeld, Idle
<1>2. /\ TypeInv /\ RunnerInv /\ (LeaseInv /\ ProvenInv) /\ LeakInv
      /\ TypeInv' /\ RunnerInv' /\ (LeaseInv /\ ProvenInv)' /\ [Next]_vars
      => LeakInv'
  <2> SUFFICES ASSUME TypeInv, RunnerInv, LeaseInv, ProvenInv, LeakInv,
                      TypeInv', RunnerInv', LeaseInv', ProvenInv', [Next]_vars
               PROVE  LeakInv'
    OBVIOUS
  <2>1. CASE Next
    <3>1. RunnerStep /\ JobStep
      BY <2>1, RunnerStepLemma, JobStepLemma DEF TypeInv
    <3>2. LeakStep
      BY <1>0, <2>1, LeakStepLemma
    <3> QED
      BY <3>1, <3>2, LeakInvStep
  <2>2. CASE UNCHANGED vars
    BY <2>2 DEF vars, LeakInv, RowHeld, Covered
  <2> QED
    BY <2>1, <2>2
<1>3. LeakInv /\ TypeInv => WorkspaceNotLeaked
  <2> SUFFICES ASSUME LeakInv, TypeInv, job.status \in Terminal, runner.dir, maint.pc # "expired"
               PROVE  \E t \in Tasks : rows[t].st # "absent"
    BY DEF WorkspaceNotLeaked
  <2>1. Covered
    BY DEF LeakInv
  <2>2. CASE rows["cleanup"].st # "absent"
    BY <2>2 DEF Tasks
  <2>3. CASE \E q \in Queues : h[q].pc \in Owing
    <3> PICK q \in Queues : h[q].pc \in Owing
      BY <2>3
    <3>1. h[q] # Idle
      BY DEF Owing, Idle
    <3> QED
      BY <3>1 DEF LeakInv, RowHeld
  <2> QED
    BY <2>1, <2>2, <2>3 DEF Covered
<1> QED
  BY <1>0, <1>1, <1>2, <1>3, TypeInvariant, RunnerInvariant, ProvenInvariant, PTL DEF Spec

=============================================================================
