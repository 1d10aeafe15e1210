---------------------------- MODULE SandboxRunner ----------------------------
(***************************************************************************)
(* The sandbox runner service: one Node process that serves HTTP requests, *)
(* keeps a map of active executions in memory and everything else in the   *)
(* workspace directories.  A handler runs until its next await, so each    *)
(* action is one stretch between two awaits, with the file operation it    *)
(* waited for; requests, child processes and timers interleave freely.     *)
(*                                                                         *)
(* A connection carries one request at a time.  A child process is named   *)
(* by the connection whose start request spawned it.                       *)
(***************************************************************************)
EXTENDS Integers, FiniteSets, Sequences, FiniteSetsExt

CONSTANTS
    Workspaces,
    Execs,          \* execution identifiers
    WorkspaceOf,    \* the workspace each execution asks for
    Connections,
    MaxConcurrent,  \* SANDBOX_RUNNER_CONCURRENCY
    MaxOutput,      \* chunks of output an execution may write (maxOutputBytes)
    Page,           \* events in one snapshot (500 in the code)
    Nobody,         \* no entry in the map of active executions
    Events          \* which of EventKinds happen in this instance

EventKinds == {"overlap",  \* requests on one workspace overlap: a client gave up
                           \* waiting and tried again, or two clients act
               "remove",   \* a workspace is deleted
               "reset",    \* a workspace is reset
               "kill",     \* a process is killed from outside (CPU limit, memory)
               "restart",  \* the service restarts
               "output",   \* processes write output
               "late",     \* an append is overtaken by file operations issued later
               "read"}     \* a client polls for it

ASSUME WorkspaceOfAssumption == WorkspaceOf \in [Execs -> Workspaces]
ASSUME LimitsAssumption ==
    MaxConcurrent \in Nat \ {0} /\ MaxOutput \in Nat \ {0} /\ Page \in Nat \ {0}
ASSUME EventsAssumption == Events \subseteq EventKinds
ASSUME NobodyAssumption == Nobody \notin Connections \cup Execs \cup Workspaces

VARIABLES
    dir,     \* which workspace directories exist
    file,    \* the status file of each execution
    log,     \* the event file of each execution
    adding,  \* chunks of output whose append was issued and is not in the file
    active,  \* activeExecutions: the process each execution is mapped to
    req,     \* the request each connection carries
    proc,    \* the child process each connection spawned
    reader   \* the client that polls each execution

vars == <<dir, file, log, adding, active, req, proc, reader>>

Ended == {"completed", "failed", "cancelled", "timed_out"}

NoRequest == [at |-> "idle", e |-> Nobody, w |-> Nobody]
NoProcess == [st |-> "none", e |-> Nobody, status |-> "running", seq |-> 1,
              signalled |-> FALSE, stopped |-> FALSE, truncated |-> FALSE]
NoReader  == [at |-> "off", st |-> "none", after |-> 0, got |-> {}]

\* A line of an event file: the sequence number, and whether it is output.
StatusEvent(n) == [n |-> n, output |-> FALSE]
Chunk(n)       == [n |-> n, output |-> TRUE]

tracked == {e \in Execs : active[e] # Nobody}

\* Some active entry belongs to the workspace.
busy(w) == \E e \in tracked : WorkspaceOf[e] = w

\* Callers that take turns: nobody else's request on this workspace is served.
TakesTurn(w) == "overlap" \in Events \/ \A c \in Connections : req[c].w # w

Answer(c) == req' = [req EXCEPT ![c] = NoRequest]
Goto(c, p) == req' = [req EXCEPT ![c].at = p]

Serve(c, p, e, w) ==
    /\ req[c] = NoRequest
    /\ TakesTurn(w)
    /\ req' = [req EXCEPT ![c] = [at |-> p, e |-> e, w |-> w]]

-----------------------------------------------------------------------------
(* Workspaces.                                                             *)

\* POST /v1/workspaces.
CreateWorkspace(w) ==
    /\ TakesTurn(w)
    /\ dir' = dir \cup {w}
    /\ UNCHANGED <<file, log, adding, active, req, proc, reader>>

\* Defective variant: busy workspaces are not refused.
BeginRemovalAnyway(c, w) ==
    /\ \/ "remove" \in Events /\ Serve(c, "remove", Nobody, w)
       \/ "reset" \in Events /\ Serve(c, "removeToReset", Nobody, w)
    /\ UNCHANGED <<dir, file, log, adding, active, proc, reader>>

\* DELETE of a workspace, or its reset: refused with WORKSPACE_BUSY while an
\* execution is active, else the removal is started.
BeginRemoval(c, w) ==
    /\ ~busy(w)
    /\ \/ "remove" \in Events /\ Serve(c, "remove", Nobody, w)
       \/ "reset" \in Events /\ Serve(c, "removeToReset", Nobody, w)
    /\ UNCHANGED <<dir, file, log, adding, active, proc, reader>>

\* rm has removed the directory and all that is in it.
RemoveWorkspace(c) ==
    /\ req[c].at \in {"remove", "removeToReset"}
    /\ dir' = dir \ {req[c].w}
    /\ file' = [e \in Execs |-> IF WorkspaceOf[e] = req[c].w THEN "none" ELSE file[e]]
    /\ log' = [e \in Execs |-> IF WorkspaceOf[e] = req[c].w THEN <<>> ELSE log[e]]
    /\ IF req[c].at = "remove" THEN Answer(c) ELSE Goto(c, "recreate")
    /\ UNCHANGED <<adding, active, proc, reader>>

\* The reset makes the directory anew.
Recreate(c) ==
    /\ req[c].at = "recreate"
    /\ dir' = dir \cup {req[c].w}
    /\ Answer(c)
    /\ UNCHANGED <<file, log, adding, active, proc, reader>>

-----------------------------------------------------------------------------
(* startExecution.                                                         *)

\* The concurrency limit is looked at before anything else; a request over the
\* limit is answered at once (429) and changes nothing.
BeginStart(c, e) ==
    /\ Cardinality(tracked) < MaxConcurrent
    /\ proc[c] = NoProcess
    /\ Serve(c, "access", e, WorkspaceOf[e])
    /\ UNCHANGED <<dir, file, log, adding, active, proc, reader>>

\* ensureWorkspace: no such directory, the request fails.
AccessWorkspace(c) ==
    /\ req[c].at = "access"
    /\ IF req[c].w \in dir THEN Goto(c, "mkdir") ELSE Answer(c)
    /\ UNCHANGED <<dir, file, log, adding, active, proc, reader>>

\* mkdir of the metadata directory is recursive: it also makes the workspace.
MakeMetadata(c) ==
    /\ req[c].at = "mkdir"
    /\ dir' = dir \cup {req[c].w}
    /\ Goto(c, "look")
    /\ UNCHANGED <<file, log, adding, active, proc, reader>>

\* Defective variant: only a status file that says running stops a start.
LookForRunning(c) ==
    /\ req[c].at = "look"
    /\ IF file[req[c].e] # "running" THEN Goto(c, "write") ELSE Answer(c)
    /\ UNCHANGED <<dir, file, log, adding, active, proc, reader>>

\* An execution that has a status file was started before: nothing to do.
LookForStatus(c) ==
    /\ req[c].at = "look"
    /\ IF file[req[c].e] = "none" THEN Goto(c, "write") ELSE Answer(c)
    /\ UNCHANGED <<dir, file, log, adding, active, proc, reader>>

\* writeStatus; without the directory it fails, and so does the request.
WriteRunning(c) ==
    /\ req[c].at = "write"
    /\ IF req[c].w \in dir
       THEN file' = [file EXCEPT ![req[c].e] = "running"] /\ Goto(c, "append")
       ELSE Answer(c) /\ UNCHANGED file
    /\ UNCHANGED <<dir, log, adding, active, proc, reader>>

\* appendEvent of the first status event.
AppendRunning(c) ==
    /\ req[c].at = "append"
    /\ IF req[c].w \in dir
       THEN log' = [log EXCEPT ![req[c].e] = Append(@, StatusEvent(1))] /\ Goto(c, "spawn")
       ELSE Answer(c) /\ UNCHANGED log
    /\ UNCHANGED <<dir, file, adding, active, proc, reader>>

\* spawn, and the entry in the map.  A missing working directory is reported
\* by the error event of the child, which ends as the close event does.
Spawn(c) ==
    /\ req[c].at = "spawn"
    /\ active' = [active EXCEPT ![req[c].e] = c]
    /\ proc' = [proc EXCEPT ![c] =
                  IF req[c].w \in dir
                  THEN [NoProcess EXCEPT !.st = "live", !.e = req[c].e]
                  ELSE [NoProcess EXCEPT !.st = "closing", !.e = req[c].e, !.status = "failed"]]
    /\ Answer(c)
    /\ UNCHANGED <<dir, file, log, adding, reader>>

-----------------------------------------------------------------------------
(* Child processes.                                                        *)

\* The service is gone: its children die with it (--die-with-parent), pending
\* writes and requests are lost, the files stay as they are.
stopsService ==
    /\ active' = [e \in Execs |-> Nobody]
    /\ proc' = [c \in Connections |-> NoProcess]
    /\ req' = [c \in Connections |-> NoRequest]
    /\ adding' = [e \in Execs |-> {}]

inFiles(c) == WorkspaceOf[proc[c].e] \in dir

\* recordChunk: a chunk within the limit gets the next sequence number and its
\* append is issued; at the limit the execution has failed and is signalled.
\* Ignored when the map has no entry for the execution.
RecordChunk(c) ==
    /\ "output" \in Events
    /\ proc[c].st = "live"
    /\ proc[c].e \in tracked
    /\ LET full == proc[c].seq > MaxOutput
           last == proc[c].seq >= MaxOutput
       IN  /\ adding' = [adding EXCEPT ![proc[c].e] =
                           IF full THEN @ ELSE @ \cup {proc[c].seq + 1}]
           /\ proc' = [proc EXCEPT
                         ![c].seq = IF full THEN @ ELSE @ + 1,
                         ![c].status = IF last THEN "failed" ELSE @,
                         ![c].truncated = @ \/ last,
                         ![c].signalled = @ \/ last]
    /\ UNCHANGED <<dir, file, log, active, req, reader>>

\* The append reaches the file, in the order of issue unless it is late.  Nobody
\* awaits it: if it fails, the rejection is unhandled and ends the service.
AppendChunk(e) ==
    /\ \E n \in adding[e] :
          /\ "late" \in Events \/ n = Min(adding[e])
          /\ IF WorkspaceOf[e] \in dir
             THEN /\ log' = [log EXCEPT ![e] = Append(@, Chunk(n))]
                  /\ adding' = [adding EXCEPT ![e] = @ \ {n}]
                  /\ UNCHANGED <<active, req, proc>>
             ELSE stopsService /\ UNCHANGED log
    /\ UNCHANGED <<dir, file, reader>>

\* Defective variant: the status is set and the process is left alone.
TimeLimitUnkilled(c) ==
    /\ proc[c].st = "live"
    /\ proc' = [proc EXCEPT ![c].status = "timed_out"]
    /\ UNCHANGED <<dir, file, log, adding, active, req, reader>>

\* The timer of the execution fires.
TimeLimit(c) ==
    /\ proc[c].st = "live"
    /\ proc' = [proc EXCEPT ![c].status = "timed_out", ![c].signalled = TRUE]
    /\ UNCHANGED <<dir, file, log, adding, active, req, reader>>

\* Defective variant: the entry goes when the signal is sent.
StopAndForget(e) ==
    /\ e \in tracked
    /\ proc[active[e]].st = "live"
    /\ proc' = [proc EXCEPT ![active[e]].status = "cancelled",
                            ![active[e]].signalled = TRUE,
                            ![active[e]].stopped = TRUE]
    /\ active' = [active EXCEPT ![e] = Nobody]
    /\ UNCHANGED <<dir, file, log, adding, req, reader>>

\* POST stop: acts on the process the map names and answers as soon as the
\* signal is sent.  Once the process has closed the call changes nothing that
\* is written, and it is answered in the same way.
StopExecution(e) ==
    /\ e \in tracked
    /\ proc[active[e]].st = "live"
    /\ proc' = [proc EXCEPT ![active[e]].status = "cancelled",
                            ![active[e]].signalled = TRUE,
                            ![active[e]].stopped = TRUE]
    /\ UNCHANGED <<dir, file, log, adding, active, req, reader>>

\* Defective variant: the exit code decides, whatever was set before.
CloseByCode(c) ==
    /\ proc[c].st = "live"
    /\ \E s \in {"completed", "failed"} : proc' = [proc EXCEPT ![c].st = "closing", ![c].status = s]
    /\ UNCHANGED <<dir, file, log, adding, active, req, reader>>

\* The close event: the process is gone and its streams have ended.  A status
\* still "running" is decided by the exit code, or by the signal that killed it.
Close(c) ==
    /\ proc[c].st = "live"
    /\ \E s \in {"completed", "failed"}
                \cup (IF "kill" \in Events THEN {"cancelled"} ELSE {}) :
          proc' = [proc EXCEPT ![c].st = "closing",
                               ![c].status = IF @ = "running" THEN s ELSE @]
    /\ UNCHANGED <<dir, file, log, adding, active, req, reader>>

\* Its writeStatus; a failure is unhandled and ends the service.
WriteFinal(c) ==
    /\ proc[c].st = "closing"
    /\ "late" \in Events \/ adding[proc[c].e] = {}
    /\ IF inFiles(c)
       THEN /\ file' = [file EXCEPT ![proc[c].e] = proc[c].status]
            /\ proc' = [proc EXCEPT ![c].st = "closed"]
            /\ UNCHANGED <<adding, active, req>>
       ELSE stopsService /\ UNCHANGED file
    /\ UNCHANGED <<dir, log, reader>>

\* Its final event and, once that is written, the end of the map's entry.
\* The entry is deleted by execution, whichever process it names.
Retire(c) ==
    /\ proc[c].st = "closed"
    /\ IF inFiles(c)
       THEN /\ log' = [log EXCEPT ![proc[c].e] = Append(@, StatusEvent(proc[c].seq + 1))]
            /\ active' = [active EXCEPT ![proc[c].e] = Nobody]
            /\ proc' = [proc EXCEPT ![c] = NoProcess]
            /\ UNCHANGED <<adding, req>>
       ELSE stopsService /\ UNCHANGED log
    /\ UNCHANGED <<dir, file, reader>>

\* SIGTERM, or the end of the container.
ServiceRestarts ==
    /\ "restart" \in Events
    /\ \E c \in Connections : req[c] # NoRequest \/ proc[c] # NoProcess
    /\ stopsService
    /\ UNCHANGED <<dir, file, log, reader>>

-----------------------------------------------------------------------------
(* A client that polls an execution (executeCommand of the adapter).       *)

\* Its start was answered.
BeginReading(e) ==
    /\ "read" \in Events
    /\ reader[e].at = "off"
    /\ file[e] # "none"
    /\ reader' = [reader EXCEPT ![e].at = "status"]
    /\ UNCHANGED <<dir, file, log, adding, active, req, proc>>

\* executionSnapshot reads the status file first; without it the poll fails.
ReadStatus(e) ==
    /\ reader[e].at = "status"
    /\ reader' = [reader EXCEPT ![e].at = IF file[e] = "none" THEN "done" ELSE "events",
                                ![e].st = file[e]]
    /\ UNCHANGED <<dir, file, log, adding, active, req, proc>>

\* Defective variant: the client asks for one event too late.
SkipEvents(e) ==
    LET fresh == SelectSeq(log[e], LAMBDA v : v.n > reader[e].after + 1)
        page  == SubSeq(fresh, 1, Min({Page, Len(fresh)}))
        new   == {page[i].n : i \in DOMAIN page}
    IN  /\ reader[e].at = "events"
        /\ reader' = [reader EXCEPT
                        ![e].at = IF reader[e].st = "running" THEN "status" ELSE "done",
                        ![e].after = Max({@} \cup new),
                        ![e].got = @ \cup new]
        /\ UNCHANGED <<dir, file, log, adding, active, req, proc>>

\* Then one page of the events after the last number the client has seen; the
\* client stops when the status it was given is terminal.
ReadEvents(e) ==
    LET fresh == SelectSeq(log[e], LAMBDA v : v.n > reader[e].after)
        page  == SubSeq(fresh, 1, Min({Page, Len(fresh)}))
        new   == {page[i].n : i \in DOMAIN page}
    IN  /\ reader[e].at = "events"
        /\ reader' = [reader EXCEPT
                        ![e].at = IF reader[e].st = "running" THEN "status" ELSE "done",
                        ![e].after = Max({@} \cup new),
                        ![e].got = @ \cup new]
        /\ UNCHANGED <<dir, file, log, adding, active, req, proc>>

-----------------------------------------------------------------------------
Init ==
    /\ dir = {}
    /\ file = [e \in Execs |-> "none"]
    /\ log = [e \in Execs |-> <<>>]
    /\ adding = [e \in Execs |-> {}]
    /\ active = [e \in Execs |-> Nobody]
    /\ req = [c \in Connections |-> NoRequest]
    /\ proc = [c \in Connections |-> NoProcess]
    /\ reader = [e \in Execs |-> NoReader]

\* The rest of a request once it has been accepted.
Handler(c) ==
    \/ RemoveWorkspace(c) \/ Recreate(c)
    \/ AccessWorkspace(c) \/ MakeMetadata(c) \/ LookForStatus(c)
    \/ WriteRunning(c) \/ AppendRunning(c) \/ Spawn(c)

Child(c) == RecordChunk(c) \/ TimeLimit(c) \/ Close(c) \/ WriteFinal(c) \/ Retire(c)

Reader(e) == BeginReading(e) \/ ReadStatus(e) \/ ReadEvents(e)

Next ==
    \/ \E w \in Workspaces : CreateWorkspace(w) \/ \E c \in Connections : BeginRemoval(c, w)
    \/ \E e \in Execs : StopExecution(e) \/ AppendChunk(e) \/ Reader(e)
                        \/ \E c \in Connections : BeginStart(c, e)
    \/ \E c \in Connections : Handler(c) \/ Child(c)
    \/ ServiceRestarts

Spec == Init /\ [][Next]_vars

\* Awaited file operations complete, the timer of a running process fires, a
\* process that was sent SIGTERM and then SIGKILL closes.
Fairness == \A c \in Connections :
    /\ WF_vars(Handler(c))
    /\ WF_vars(TimeLimit(c))
    /\ WF_vars(proc[c].signalled /\ Close(c))
    /\ WF_vars(WriteFinal(c) \/ Retire(c))
    /\ \A e \in Execs : WF_vars(AppendChunk(e))

FairSpec == Spec /\ Fairness

-----------------------------------------------------------------------------
(* Properties.                                                             *)

\* Type invariant: files, requests, processes and the map hold values the
\* service can give them, and no event is numbered beyond the output limit.
TypeOK ==
    /\ dir \subseteq Workspaces
    /\ file \in [Execs -> {"none", "running"} \cup Ended]
    /\ \A e \in Execs : \A i \in DOMAIN log[e] :
          log[e][i] \in [n : 1 .. MaxOutput + 2, output : BOOLEAN]
    /\ adding \in [Execs -> SUBSET (2 .. MaxOutput + 1)]
    /\ active \in [Execs -> Connections \cup {Nobody}]
    /\ req \in [Connections ->
                  [at : {"idle", "remove", "removeToReset", "recreate", "access", "mkdir",
                         "look", "write", "append", "spawn"},
                   e : Execs \cup {Nobody}, w : Workspaces \cup {Nobody}]]
    /\ proc \in [Connections ->
                  [st : {"none", "live", "closing", "closed"}, e : Execs \cup {Nobody},
                   status : {"running"} \cup Ended, seq : 1 .. MaxOutput + 1,
                   signalled : BOOLEAN, stopped : BOOLEAN, truncated : BOOLEAN]]
    /\ reader \in [Execs ->
                    [at : {"off", "status", "events", "done"},
                     st : {"none", "running"} \cup Ended,
                     after : 0 .. MaxOutput + 2, got : SUBSET (1 .. MaxOutput + 2)]]

\* A running process is the one the map names for its execution: it can be
\* stopped, it counts against the limit, and no second one runs beside it.
ProcessIsTracked ==
    \A c \in Connections : proc[c].st = "live" => active[proc[c].e] = c

\* A workspace is not taken away from a process, or from the writes that
\* follow its end.
WorkspaceIsKept ==
    \A c \in Connections : proc[c] # NoProcess => WorkspaceOf[proc[c].e] \in dir

\* A process that was stopped while it ran never ends as completed.
StoppedNeverCompletes ==
    \A c \in Connections : proc[c].stopped => proc[c].status # "completed"

\* A client that was told completed has all the output: nothing was cut off,
\* and the console calls such output complete.
OutputIsComplete ==
    \A e \in Execs :
        reader[e].at = "done" /\ reader[e].st = "completed" /\ file[e] = "completed" =>
            /\ adding[e] = {}
            /\ \A i \in DOMAIN log[e] : log[e][i].output => log[e][i].n \in reader[e].got

\* A status file that says running does not say so for ever.
RunningEnds == \A e \in Execs : file[e] = "running" ~> file[e] # "running"

\* The view a caller has of one execution.
view(e) ==
    IF file[e] # "running" THEN file[e]
    ELSE IF active[e] # Nobody
            \/ \E c \in Connections : req[c].e = e /\ req[c].at \in {"append", "spawn"}
         THEN "running"
         ELSE "lost"

Contract(e) == INSTANCE RunnerContract WITH dir <- WorkspaceOf[e] \in dir, proc <- view(e)

\* Callers that take turns on a workspace get what RunnerContract promises.
KeepsContract ==
    /\ \A e \in Execs : Contract(e)!Init
    /\ [][\A e \in Execs : [Contract(e)!Next]_<<WorkspaceOf[e] \in dir, view(e)>>]_vars

=============================================================================
