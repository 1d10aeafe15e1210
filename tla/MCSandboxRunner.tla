-------------------------- MODULE MCSandboxRunner --------------------------
(* Three instances of SandboxRunner, checked in one run of TLC.  The module's *)
(* own variables carry the first: two clients that take turns on a workspace  *)
(* with two executions ("turns").  A second service, in the x variables,      *)
(* carries the others: the liveness of an execution under requests that       *)
(* overlap ("live"), and a client that reads its output in pages while the    *)
(* service restarts ("read").  Which of them takes steps is chosen at the     *)
(* start and kept; the other service stays as it was started.                 *)
EXTENDS SandboxRunner, TLC
CONSTANTS w1, e1, e2, c1, c2
VARIABLES xdir, xfile, xlog, xadding, xactive, xreq, xproc, xreader, which
xvars == <<xdir, xfile, xlog, xadding, xactive, xreq, xproc, xreader>>

\* Two executions in one workspace.
Shared == e1 :> w1 @@ e2 :> w1

Live == INSTANCE SandboxRunner
    WITH Execs <- {e1}, WorkspaceOf <- e1 :> w1, MaxConcurrent <- 1, MaxOutput <- 1, Page <- 1,
         Events <- {"overlap", "remove", "reset"},
         dir <- xdir, file <- xfile, log <- xlog, adding <- xadding, active <- xactive,
         req <- xreq, proc <- xproc, reader <- xreader
Read == INSTANCE SandboxRunner
    WITH Execs <- {e1}, WorkspaceOf <- e1 :> w1, MaxConcurrent <- 1, MaxOutput <- 3, Page <- 6,
         Events <- {"restart", "output", "read"},
         dir <- xdir, file <- xfile, log <- xlog, adding <- xadding, active <- xactive,
         req <- xreq, proc <- xproc, reader <- xreader

AllInit == /\ which \in {"turns", "live", "read"}
           /\ Init
           /\ IF which = "live" THEN Live!Init ELSE Read!Init
AllNext == /\ \/ which = "turns" /\ Next /\ UNCHANGED xvars
              \/ which = "live" /\ Live!Next /\ UNCHANGED vars
              \/ which = "read" /\ Read!Next /\ UNCHANGED vars
           /\ UNCHANGED which
allVars == <<vars, xvars, which>>

InLive == which = "live" /\ UNCHANGED <<vars, which>>

\* The fairness of SandboxRunner, in the instance whose liveness is checked.
LiveFairness == \A c \in {c1, c2} :
    /\ WF_allVars(InLive /\ Live!Handler(c))
    /\ WF_allVars(InLive /\ Live!TimeLimit(c))
    /\ WF_allVars(InLive /\ xproc[c].signalled /\ Live!Close(c))
    /\ WF_allVars(InLive /\ (Live!WriteFinal(c) \/ Live!Retire(c)))
    /\ WF_allVars(InLive /\ Live!AppendChunk(e1))
AllSpec == AllInit /\ [][AllNext]_allVars /\ LiveFairness

\* Over restarts, who is told completed has read all the output.
OutputIsRead == which = "read" => Read!OutputIsComplete

\* With requests that overlap, no execution runs for ever.
EveryRunEnds == (which = "live" /\ xfile[e1] = "running") ~> xfile[e1] # "running"
=============================================================================
