------------------------------- MODULE MCAgents -------------------------------
(***************************************************************************)
(* Agent runs and team runs, checked in one run of TLC.  The variables of  *)
(* AgentRuns itself carry a streamed run that asks twice over every fault  *)
(* ("full").  The x variables carry one that asks once and may fail right  *)
(* after asking ("ask"), one run with everything the provider may do, for  *)
(* liveness ("one"), and two runs of the same conversation, one of which   *)
(* the person may cancel ("two").  Of TeamRuns: a team that works one      *)
(* member at a time with every event ("serial"), the same without          *)
(* cancellation and crash ("calm"), a team whose members work side by side *)
(* in one start ("wide"), and a small team for liveness ("live").  What    *)
(* does not take part stands still.                                        *)
(***************************************************************************)
EXTENDS AgentRuns
CONSTANTS r1, r2, d1
VARIABLES which, xrun, xmsg, xckpt, xappr, xruled, xcall, xsent, xproc, xdecider, xcancel, xrow,
          team, step, arun, task, cursor, lane, client, retry, resume

One == INSTANCE AgentRuns WITH
    Runs <- {r1}, Streamed <- {}, Deciders <- {d1}, MaxAttempts <- 2, MaxAsks <- 1, Tries <- 2,
    Events <- {"plain", "cancel", "expire", "error", "fallback"},
    run <- xrun, msg <- xmsg, ckpt <- xckpt, appr <- xappr, ruled <- xruled, call <- xcall,
    sent <- xsent, proc <- xproc, decider <- xdecider, cancel <- xcancel, row <- xrow
Two == INSTANCE AgentRuns WITH
    Runs <- {r1, r2}, Streamed <- {}, Deciders <- {d1}, MaxAttempts <- 1, MaxAsks <- 1, Tries <- 1,
    Events <- {"cancel"},
    run <- xrun, msg <- xmsg, ckpt <- xckpt, appr <- xappr, ruled <- xruled, call <- xcall,
    sent <- xsent, proc <- xproc, decider <- xdecider, cancel <- xcancel, row <- xrow
Asking == INSTANCE AgentRuns WITH
    Runs <- {r1}, Streamed <- {r1}, Deciders <- {d1}, MaxAttempts <- 1, MaxAsks <- 1, Tries <- 2,
    Events <- {"cancel", "leave", "expire", "crash", "error", "unsaved"},
    run <- xrun, msg <- xmsg, ckpt <- xckpt, appr <- xappr, ruled <- xruled, call <- xcall,
    sent <- xsent, proc <- xproc, decider <- xdecider, cancel <- xcancel, row <- xrow

Serial == INSTANCE TeamRuns WITH cancel <- xcancel, row <- xrow,
            Size <- 2, Parallel <- 1, MaxStarts <- 3, Tries <- 2,
            Events <- {"cancel", "retry", "approval", "error", "crash"}
Calm == INSTANCE TeamRuns WITH cancel <- xcancel, row <- xrow,
            Size <- 2, Parallel <- 1, MaxStarts <- 3, Tries <- 3,
            Events <- {"retry", "unqueued", "repeat", "approval", "error"}
Wide == INSTANCE TeamRuns WITH cancel <- xcancel, row <- xrow,
            Size <- 2, Parallel <- 2, MaxStarts <- 1, Tries <- 2,
            Events <- {"cancel", "approval", "error"}
Live == INSTANCE TeamRuns WITH cancel <- xcancel, row <- xrow,
            Size <- 1, Parallel <- 1, MaxStarts <- 6, Tries <- 2,
            Events <- {"cancel", "approval", "error", "unqueued"}

onlyRun == <<xrun, xmsg, xckpt, xappr, xruled, xcall, xsent, xproc, xdecider>>
onlyTeam == <<team, step, arun, task, cursor, lane, client, retry, resume>>
others == <<onlyRun, onlyTeam, xcancel, xrow>>
allVars == <<which, vars, others>>

None == "none"
RunStill ==
    /\ xrun = None /\ xmsg = None /\ xckpt = None /\ xappr = None /\ xruled = None
    /\ xcall = None /\ xsent = None /\ xproc = None /\ xdecider = None
TeamStill ==
    /\ team = None /\ step = None /\ arun = None /\ task = None /\ cursor = None
    /\ lane = None /\ client = None /\ retry = None /\ resume = None
AllInit ==
    /\ Init
    /\ \/ which = "full" /\ RunStill /\ TeamStill /\ xcancel = None /\ xrow = None
       \/ /\ TeamStill
          /\ \/ which = "one" /\ One!Init
             \/ which = "two" /\ Two!Init
             \/ which = "ask" /\ Asking!Init
       \/ /\ RunStill
          /\ \/ which = "serial" /\ Serial!Init
             \/ which = "calm" /\ Calm!Init
             \/ which = "wide" /\ Wide!Init
             \/ which = "live" /\ Live!Init
AllNext ==
    /\ which' = which
    /\ \/ which = "full" /\ Next /\ UNCHANGED others
       \/ /\ UNCHANGED <<vars, onlyTeam>>
          /\ \/ which = "one" /\ One!Next
             \/ which = "two" /\ Two!Next
             \/ which = "ask" /\ Asking!Next
       \/ /\ UNCHANGED <<vars, onlyRun>>
          /\ \/ which = "serial" /\ Serial!Next
             \/ which = "calm" /\ Calm!Next
             \/ which = "wide" /\ Wide!Next
             \/ which = "live" /\ Live!Next

\* The fairness of AgentRuns and TeamRuns, in the instances whose liveness is
\* checked; a condition that joins both is that of whichever takes part.
InOne == which = "one" /\ UNCHANGED <<which, vars, onlyTeam>>
InLive == which = "live" /\ UNCHANGED <<which, vars, onlyRun>>
LiveFairness ==
    /\ WF_allVars((InOne /\ One!Execute(r1)) \/ (InLive /\ Live!Progress))
    /\ WF_allVars(\/ InOne /\ (One!CancelWrite(r1) \/ One!CancelTidy(r1))
                  \/ InLive /\ Live!CancelWrite)
    /\ WF_allVars(\/ InOne /\ One!resumeAgentRunAfterApproval
                  \/ InLive /\ Live!resumeOwningTeamRun)
    /\ SF_allVars(InOne /\ One!TakeResume(r1, 1))
    /\ WF_allVars(InLive /\ \E n \in Live!Starts, l \in Live!Lanes : Live!Lane(n, l))
AllSpec == AllInit /\ [][AllNext]_allVars /\ LiveFairness

\* CallSentOnce, CompletedHasItsAnswer and KeepsGate are checked of "full"; each
\* of the others joins properties of AgentRuns and TeamRuns, in the instances
\* that can violate them.
\* A call reaches its server once although the provider fails over, no member's
\* work is done twice, and two runs of the conversation are never both active
\* unless one was told to stop.
DoneOnce == /\ which = "one" => One!CallSentOnce
            /\ which = "ask" => Asking!CallSentOnce
            /\ which = "calm" => Calm!WorkedOnce
            /\ which = "two" => Two!OneActive
\* A completed run has its complete answer; a completed step and a completed team
\* rest on completed runs, and an accepted cancellation of a team wins.
CompletedIsWhole ==
    /\ which = "ask" => Asking!CompletedHasItsAnswer
    /\ which = "serial" => Serial!CompletedTeamIsWhole /\ Serial!AcceptedCancelWins
    /\ which = "wide" => Wide!CompletedTeamIsWhole /\ Wide!AcceptedCancelWins
\* With everything the provider may do, a run does not stay running; a team run
\* that was accepted does not stay queued or running.
AllSettle ==
    /\ (which = "one" /\ xrun[r1].status = "running")
       ~> (which = "one" /\ xrun[r1].status # "running")
    /\ (which = "live" /\ Live!Moving) ~> (which = "live" /\ Live!Settled)
=============================================================================
