-------------------------- MODULE MCExecutionKernel --------------------------
(* Five instances of ExecutionKernel, checked in one run of TLC.  The        *)
(* module's own variables carry the first: every order of handlers, requests *)
(* and scans without faults ("fair").  A second job, in the x variables,     *)
(* carries the others: worker deaths around a cancellation ("crash") and     *)
(* around an expiry ("late"); runner calls that fail under handlers that     *)
(* outlive their lease ("slow"); and the liveness of a job whose runner may  *)
(* restart ("live").  Which of them takes steps is chosen at the start and   *)
(* kept; the other job stays as it was created.                              *)
EXTENDS ExecutionKernel
VARIABLES xjob, xws, xstep, xstored, xlease, xrows, xh, xmaint, xrunner, which
xvars == <<xjob, xws, xstep, xstored, xlease, xrows, xh, xmaint, xrunner>>

\* The code allows 3 attempts (5 for cancel, 10 for cleanup); two are enough for a
\* first attempt, a retry and a row that is dead.  Where workers die or calls fail
\* the tasks that reach for the process get two; without faults ("fair") only the
\* lease of another handler makes a task wait, and the cleanup is the one that must
\* come through; everything gets two where the job must end ("live").
RunTries == [t \in Tasks |-> IF t \in {"run", "cancel"} THEN 2 ELSE 1]
FairTries == [t \in Tasks |-> IF t = "cleanup" THEN 2 ELSE 1]
TwoTries == [t \in Tasks |-> 2]

Crash == INSTANCE ExecutionKernel
    WITH Tries <- RunTries, Required <- 0, Events <- {"cancel", "crash"},
         job <- xjob, ws <- xws, step <- xstep, stored <- xstored, lease <- xlease,
         rows <- xrows, h <- xh, maint <- xmaint, runner <- xrunner
Late == INSTANCE ExecutionKernel
    WITH Tries <- RunTries, Required <- 0, Events <- {"expire", "crash"},
         job <- xjob, ws <- xws, step <- xstep, stored <- xstored, lease <- xlease,
         rows <- xrows, h <- xh, maint <- xmaint, runner <- xrunner
Slow == INSTANCE ExecutionKernel
    WITH Tries <- RunTries, Required <- 1, Events <- {"cancel", "transport", "restart", "slow"},
         job <- xjob, ws <- xws, step <- xstep, stored <- xstored, lease <- xlease,
         rows <- xrows, h <- xh, maint <- xmaint, runner <- xrunner
Live == INSTANCE ExecutionKernel
    WITH Tries <- TwoTries, Required <- 1, Events <- {"expire", "restart"},
         job <- xjob, ws <- xws, step <- xstep, stored <- xstored, lease <- xlease,
         rows <- xrows, h <- xh, maint <- xmaint, runner <- xrunner

AllInit == Init /\ Live!Init /\ which \in {"fair", "crash", "late", "slow", "live"}
AllNext == /\ \/ which = "fair" /\ Next /\ UNCHANGED xvars
              \/ which = "crash" /\ Crash!Next /\ UNCHANGED vars
              \/ which = "late" /\ Late!Next /\ UNCHANGED vars
              \/ which = "slow" /\ Slow!Next /\ UNCHANGED vars
              \/ which = "live" /\ Live!Next /\ UNCHANGED vars
           /\ UNCHANGED which
allVars == <<vars, xvars, which>>

InLive == which = "live" /\ UNCHANGED <<vars, which>>
\* The fairness of ExecutionKernel, in the instance whose liveness is checked.
LiveFairness ==
    /\ \A t \in Tasks :
          SF_allVars(InLive /\ Live!Handlers /\ Live!Takeable(t) /\ xrows'[t].st = "locked")
    /\ WF_allVars(InLive /\ \E t \in Tasks, p \in PCs \ {"idle"} : Live!At(t, p) /\ Live!Handlers)
    /\ WF_allVars(InLive /\ \E t \in Tasks : Live!ResetLock(t))
    /\ WF_allVars(InLive /\ Live!ProcessCloses)
    /\ WF_allVars(InLive /\ xlease.owner = "gone" /\ Live!LeaseExpires)
    /\ WF_allVars(InLive /\ xmaint # Resting /\ (Live!reconcileExecutions \/ Live!expireExecutions))
    /\ SF_allVars(InLive /\ Live!expireExecutions)
AllSpec == AllInit /\ [][AllNext]_allVars /\ LiveFairness

\* Over worker deaths, lapsed leases, failing calls and runner restarts, the
\* command is started at most once, an accepted cancellation wins, a stopped
\* workspace has no directory, and, with workers that only die, the process of
\* a cancelled job has been told to stop.
SurvivesFaults ==
    /\ Slow!CommandStartsOnce
    /\ Slow!AcceptedCancelWins
    /\ which = "slow" => Slow!StoppedIsDestroyed
    /\ which = "crash" => Crash!CancelledIsSignalled

\* Every job ends and its workspace is removed, although the runner restarts.
EverySettles == which = "live" => Live!ExecutionSettles
=============================================================================
