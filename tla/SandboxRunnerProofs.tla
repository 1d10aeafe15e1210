------------------------ MODULE SandboxRunnerProofs ------------------------
(* Theorems about SandboxRunner, for callers that take turns on a workspace  *)
(* and every value of the constants.                                         *)
EXTENDS SandboxRunner, TLAPS

Starting == {"access", "mkdir", "look", "write", "append", "spawn"}
Removing == {"remove", "removeToReset", "recreate"}

\* A request is at a place of its kind, and names what that kind needs.
RequestOK(r) ==
    \/ r = NoRequest
    \/ r.at \in Starting /\ r.e \in Execs /\ r.w = WorkspaceOf[r.e]
    \/ r.at \in Removing /\ r.e = Nobody /\ r.w \in Workspaces

Requests ==
    /\ req \in [Connections -> [at : {"idle"} \cup Starting \cup Removing,
                               e : Execs \cup {Nobody}, w : Workspaces \cup {Nobody}]]
    /\ \A c \in Connections : RequestOK(req[c])

\* Callers take turns: two connections do not serve the same workspace.
Turns ==
    \A c, d \in Connections : req[c] # NoRequest /\ req[d] # NoRequest /\ req[c].w = req[d].w => c = d

\* What is known of a child process.
Process == [st : {"none", "live", "closing", "closed"}, e : Execs \cup {Nobody},
            status : {"running"} \cup Ended, seq : Nat,
            signalled : BOOLEAN, stopped : BOOLEAN, truncated : BOOLEAN]

\* The map and the processes name each other.
Tracked ==
    /\ active \in [Execs -> Connections \cup {Nobody}]
    /\ proc \in [Connections -> Process]
    /\ \A c \in Connections :
          proc[c] = NoProcess \/ /\ proc[c].st # "none"
                                 /\ proc[c].e \in Execs
                                 /\ active[proc[c].e] = c
    /\ \A e \in Execs : active[e] # Nobody => /\ proc[active[e]] # NoProcess
                                              /\ proc[active[e]].e = e

\* An active execution has its directory and its status file.
Housed ==
    \A e \in Execs : active[e] # Nobody => WorkspaceOf[e] \in dir /\ file[e] # "none"

\* What a request has established holds until the request uses it.
EstablishedFor(c) ==
    /\ req[c].at \in Starting => proc[c] = NoProcess
    /\ req[c].at \in Starting \ {"access"} => req[c].w \in dir
    /\ req[c].at = "write" => file[req[c].e] = "none"
    /\ req[c].at \in {"append", "spawn"} =>
          file[req[c].e] = "running" /\ active[req[c].e] = Nobody
    /\ req[c].at \in Removing => ~busy(req[c].w)

Established == \A c \in Connections : EstablishedFor(c)

\* Every status file says something a start or a process has written.
Files == file \in [Execs -> {"none", "running"} \cup Ended]

IInv == Requests /\ Turns /\ Tracked /\ Housed /\ Established /\ Files

-----------------------------------------------------------------------------
\* Nothing runs at first.
LEMMA InitIInv == Init => IInv
BY NobodyAssumption, WorkspaceOfAssumption
   DEF Init, IInv, Requests, RequestOK, Turns, Tracked, Process, Housed, Established,
       EstablishedFor, Files,
       NoRequest, NoProcess, Ended, busy, tracked, Starting, Removing

\* A step that leaves files, map and requests alone and lets every process go
\* on as the process of its execution keeps the invariant.
LEMMA Processes ==
    ASSUME IInv, UNCHANGED <<dir, file, active, req>>, proc' \in [Connections -> Process],
           \A c \in Connections : \/ proc'[c] = proc[c]
                                  \/ /\ proc[c].st # "none" /\ proc'[c].st # "none"
                                     /\ proc'[c].e = proc[c].e
    PROVE  IInv'
<1>1. Requests' /\ Turns' /\ Housed' /\ Files'
  BY DEF IInv, Requests, Turns, Housed, Files
<1>2. NoProcess.st = "none"
  BY DEF NoProcess
<1>3. Tracked'
  BY <1>2 DEF IInv, Tracked
<1>4. Established'
  BY <1>2 DEF IInv, Established, EstablishedFor, busy, tracked
<1> QED
  BY <1>1, <1>3, <1>4 DEF IInv

\* The end of the service leaves no request, no process and an empty map.
LEMMA Stopped ==
    ASSUME IInv, stopsService, UNCHANGED <<dir, file>>
    PROVE  IInv'
BY NobodyAssumption
   DEF stopsService, IInv, Requests, RequestOK, Turns, Tracked, Process, Housed, Established,
       EstablishedFor,
       Files, NoRequest, NoProcess, Ended, busy, tracked, Starting, Removing

\* A request that goes on to p keeps its execution and its workspace.
LEMMA Moves ==
    ASSUME Requests, Turns, NEW c \in Connections, req[c] # NoRequest, NEW p, Goto(c, p),
           \/ req[c].at \in Starting /\ p \in Starting
           \/ req[c].at \in Removing /\ p \in Removing
    PROVE  /\ Requests' /\ Turns'
           /\ req'[c].at = p /\ req'[c].e = req[c].e /\ req'[c].w = req[c].w
           /\ \A d \in Connections \ {c} : req'[d] = req[d]
BY DEF Goto, Requests, RequestOK, Turns, NoRequest, Starting, Removing

\* An answered request is gone.
LEMMA Answers ==
    ASSUME Requests, Turns, NEW c \in Connections, Answer(c)
    PROVE  /\ Requests' /\ Turns'
           /\ req'[c] = NoRequest
           /\ \A d \in Connections \ {c} : req'[d] = req[d]
BY DEF Answer, Requests, RequestOK, Turns, NoRequest

\* A request that is accepted is the only one of its workspace.
LEMMA Serves ==
    ASSUME Requests, Turns, "overlap" \notin Events, NEW c \in Connections, NEW p, NEW e, NEW w \in Workspaces,
           Serve(c, p, e, w),
           \/ p \in Starting /\ e \in Execs /\ w = WorkspaceOf[e]
           \/ p \in Removing /\ e = Nobody
    PROVE  /\ Requests' /\ Turns'
           /\ req'[c] = [at |-> p, e |-> e, w |-> w]
           /\ \A d \in Connections \ {c} : req'[d] = req[d]
           /\ \A d \in Connections \ {c} : req[d].w # w
<1>1. \A d \in Connections : req[d].w # w
  BY DEF Serve, TakesTurn
<1>2. /\ req'[c] = [at |-> p, e |-> e, w |-> w]
      /\ \A d \in Connections \ {c} : req'[d] = req[d]
  BY DEF Serve, Requests
<1>3. Requests'
  BY DEF Serve, Requests, RequestOK, NoRequest
<1>4. Turns'
  BY <1>1, <1>2 DEF Turns
<1> QED
  BY <1>1, <1>2, <1>3, <1>4

-----------------------------------------------------------------------------
(* One lemma per action.                                                   *)

\* Creating a workspace only adds a directory.
LEMMA CreateWorkspace_ ==
    ASSUME IInv, NEW w \in Workspaces, CreateWorkspace(w)
    PROVE  IInv'
BY DEF CreateWorkspace, IInv, Requests, Turns, Tracked, Housed, Established, EstablishedFor,
       Files, busy, tracked

\* A removal begins when nothing is active and nobody else's request is served.
LEMMA BeginRemoval_ ==
    ASSUME IInv, "overlap" \notin Events, NEW c \in Connections, NEW w \in Workspaces, BeginRemoval(c, w)
    PROVE  IInv'
<1>1. PICK p \in {"remove", "removeToReset"} : Serve(c, p, Nobody, w)
  BY DEF BeginRemoval
<1>2. /\ Requests' /\ Turns'
      /\ req'[c] = [at |-> p, e |-> Nobody, w |-> w]
      /\ \A d \in Connections \ {c} : req'[d] = req[d]
  BY <1>1, Serves DEF IInv, Removing
<1>3. Tracked' /\ Housed' /\ Files'
  BY DEF BeginRemoval, IInv, Tracked, Housed, Files
<1>4. Established'
  BY <1>2 DEF BeginRemoval, IInv, Established, EstablishedFor, busy, tracked, Starting, Removing
<1> QED
  BY <1>2, <1>3, <1>4 DEF IInv

\* The removal meets no active execution and no start of its workspace.
LEMMA RemoveWorkspace_ ==
    ASSUME IInv, NEW c \in Connections, RemoveWorkspace(c)
    PROVE  IInv'
<1>1. req[c].at \in Removing /\ req[c] # NoRequest /\ ~busy(req[c].w)
  BY DEF RemoveWorkspace, IInv, Established, EstablishedFor, Removing, NoRequest
<1>2. /\ Requests' /\ Turns'
      /\ req'[c] = NoRequest \/ (req'[c].at = "recreate" /\ req'[c].w = req[c].w)
      /\ \A d \in Connections \ {c} : req'[d] = req[d]
  <2>1. CASE Answer(c)
    BY <2>1, Answers DEF IInv
  <2>2. CASE Goto(c, "recreate")
    BY <1>1, <2>2, Moves DEF IInv, Removing
  <2> QED
    BY <2>1, <2>2 DEF RemoveWorkspace
<1>3. \A d \in Connections \ {c} : req[d] # NoRequest => req[d].w # req[c].w
  BY <1>1 DEF IInv, Turns
<1>4. Tracked' /\ Files'
  BY DEF RemoveWorkspace, IInv, Tracked, Files
<1>5. Housed'
  BY <1>1 DEF RemoveWorkspace, IInv, Housed, Files, busy, tracked
<1>6. Established'
  BY <1>1, <1>2, <1>3
     DEF RemoveWorkspace, IInv, Established, EstablishedFor, Requests, RequestOK, Files, busy,
         tracked, Starting, Removing, NoRequest
<1> QED
  BY <1>2, <1>4, <1>5, <1>6 DEF IInv

\* The reset only adds the directory again.
LEMMA Recreate_ ==
    ASSUME IInv, NEW c \in Connections, Recreate(c)
    PROVE  IInv'
<1>1. /\ Requests' /\ Turns'
      /\ req'[c] = NoRequest
      /\ \A d \in Connections \ {c} : req'[d] = req[d]
  BY Answers DEF Recreate, IInv
<1>2. Tracked' /\ Files' /\ Housed'
  BY DEF Recreate, IInv, Tracked, Files, Housed
<1>3. Established'
  BY <1>1 DEF Recreate, IInv, Established, EstablishedFor, busy, tracked, Starting, Removing,
              NoRequest
<1> QED
  BY <1>1, <1>2, <1>3 DEF IInv

\* A start begins on a connection without a process.
LEMMA BeginStart_ ==
    ASSUME IInv, "overlap" \notin Events, NEW c \in Connections, NEW e \in Execs, BeginStart(c, e)
    PROVE  IInv'
<1>1. WorkspaceOf[e] \in Workspaces
  BY WorkspaceOfAssumption
<1>2. /\ Requests' /\ Turns'
      /\ req'[c] = [at |-> "access", e |-> e, w |-> WorkspaceOf[e]]
      /\ \A d \in Connections \ {c} : req'[d] = req[d]
  BY <1>1, Serves DEF BeginStart, IInv, Starting
<1>3. Tracked' /\ Housed' /\ Files'
  BY DEF BeginStart, IInv, Tracked, Housed, Files
<1>4. Established'
  BY <1>2 DEF BeginStart, IInv, Established, EstablishedFor, busy, tracked, Starting, Removing
<1> QED
  BY <1>2, <1>3, <1>4 DEF IInv

\* The steps of a start up to the spawn: the request goes on to p with what p
\* needs, or is answered.
LEMMA Preparing ==
    ASSUME IInv, NEW c \in Connections, req[c].at \in Starting, NEW p \in Starting \ {"access"},
           UNCHANGED <<active, proc>>, dir \subseteq dir', Files',
           \A d \in Execs : file'[d] = file[d] \/ (d = req[c].e /\ file[d] = "none" /\ file'[d] = "running"),
           \/ Answer(c)
           \/ /\ Goto(c, p)
              /\ req[c].w \in dir'
              /\ p = "write" => file'[req[c].e] = "none"
              /\ p \in {"append", "spawn"} =>
                    file'[req[c].e] = "running" /\ active[req[c].e] = Nobody
    PROVE  IInv'
<1>1. req[c] # NoRequest /\ req[c].e \in Execs /\ req[c].w = WorkspaceOf[req[c].e]
  BY DEF IInv, Requests, RequestOK, NoRequest, Starting, Removing
<1>2. /\ Requests' /\ Turns'
      /\ \A d \in Connections \ {c} : req'[d] = req[d]
      /\ \/ req'[c] = NoRequest
         \/ /\ req'[c].at = p /\ req'[c].e = req[c].e /\ req'[c].w = req[c].w
            /\ req[c].w \in dir'
            /\ p = "write" => file'[req[c].e] = "none"
            /\ p \in {"append", "spawn"} =>
                  file'[req[c].e] = "running" /\ active[req[c].e] = Nobody
  <2>1. CASE Answer(c)
    BY <2>1, Answers DEF IInv
  <2>2. CASE Goto(c, p) /\ ~Answer(c)
    BY <1>1, <2>2, Moves DEF IInv
  <2> QED
    BY <2>1, <2>2
<1>3. \A d \in Connections \ {c} : req[d].at \in Starting => req[d].e # req[c].e
  BY <1>1 DEF IInv, Turns, Requests, RequestOK, NoRequest, Starting, Removing
<1>4. Tracked' /\ Housed'
  BY DEF IInv, Tracked, Housed
<1>5. ASSUME NEW d \in Connections PROVE EstablishedFor(d)'
  <2>1. CASE d = c
    BY <1>2, <2>1 DEF IInv, Established, EstablishedFor, NoRequest, Starting, Removing
  <2>2. CASE d # c
    BY <1>2, <1>3, <2>2
       DEF IInv, Established, EstablishedFor, Requests, RequestOK, NoRequest, busy, tracked,
           Starting, Removing
  <2> QED
    BY <2>1, <2>2
<1> QED
  BY <1>2, <1>4, <1>5 DEF IInv, Established

\* The access shows that the directory is there, and it stays.
LEMMA AccessWorkspace_ ==
    ASSUME IInv, NEW c \in Connections, AccessWorkspace(c)
    PROVE  IInv'
<1>1. req[c].at \in Starting /\ "mkdir" \in Starting \ {"access"} /\ Files'
  BY DEF AccessWorkspace, IInv, Files, Starting
<1>2. \/ Answer(c)
      \/ Goto(c, "mkdir") /\ req[c].w \in dir'
  BY DEF AccessWorkspace
<1> QED
  BY <1>1, <1>2, Preparing DEF AccessWorkspace

\* Making the metadata directory keeps it.
LEMMA MakeMetadata_ ==
    ASSUME IInv, NEW c \in Connections, MakeMetadata(c)
    PROVE  IInv'
<1>1. req[c].at \in Starting /\ "look" \in Starting \ {"access"} /\ Files'
  BY DEF MakeMetadata, IInv, Files, Starting
<1>2. Goto(c, "look") /\ req[c].w \in dir'
  BY DEF MakeMetadata
<1> QED
  BY <1>1, <1>2, Preparing DEF MakeMetadata

\* Only an execution without a status file goes on.
LEMMA LookForStatus_ ==
    ASSUME IInv, NEW c \in Connections, LookForStatus(c)
    PROVE  IInv'
<1>1. req[c].at \in Starting /\ "write" \in Starting \ {"access"} /\ Files'
  BY DEF LookForStatus, IInv, Files, Starting
<1>2. req[c].w \in dir'
  BY DEF LookForStatus, IInv, Established, EstablishedFor, Starting
<1>3. \/ Answer(c)
      \/ Goto(c, "write") /\ file'[req[c].e] = "none"
  BY DEF LookForStatus
<1> QED
  BY <1>1, <1>2, <1>3, Preparing DEF LookForStatus

\* The status file it gets is the first, so the map has no entry for it.
LEMMA WriteRunning_ ==
    ASSUME IInv, NEW c \in Connections, WriteRunning(c)
    PROVE  IInv'
<1>1. /\ req[c].at \in Starting /\ "append" \in Starting \ {"access"}
      /\ req[c].e \in Execs
  BY DEF WriteRunning, IInv, Requests, RequestOK, NoRequest, Starting, Removing
<1>2. file[req[c].e] = "none" /\ active[req[c].e] = Nobody
  BY <1>1 DEF WriteRunning, IInv, Established, EstablishedFor, Housed
<1>3. /\ Files'
      /\ \A d \in Execs : file'[d] = file[d] \/ (d = req[c].e /\ file[d] = "none" /\ file'[d] = "running")
  BY <1>1, <1>2 DEF WriteRunning, IInv, Files
<1>4. \/ Answer(c)
      \/ Goto(c, "append") /\ req[c].w \in dir' /\ file'[req[c].e] = "running"
  BY <1>1 DEF WriteRunning, IInv, Files
<1> QED
  BY <1>1, <1>2, <1>3, <1>4, Preparing DEF WriteRunning

\* The first event changes nothing the spawn relies on.
LEMMA AppendRunning_ ==
    ASSUME IInv, NEW c \in Connections, AppendRunning(c)
    PROVE  IInv'
<1>1. req[c].at \in Starting /\ "spawn" \in Starting \ {"access"} /\ Files'
  BY DEF AppendRunning, IInv, Files, Starting
<1>2. file'[req[c].e] = "running" /\ active[req[c].e] = Nobody
  BY DEF AppendRunning, IInv, Established, EstablishedFor
<1>3. \/ Answer(c)
      \/ Goto(c, "spawn") /\ req[c].w \in dir'
  BY DEF AppendRunning
<1> QED
  BY <1>1, <1>2, <1>3, Preparing DEF AppendRunning

\* The spawned process and its entry in the map name each other.
LEMMA Spawn_ ==
    ASSUME IInv, NEW c \in Connections, Spawn(c)
    PROVE  IInv'
<1> DEFINE e == req[c].e
<1>1. /\ e \in Execs /\ req[c].w = WorkspaceOf[e] /\ req[c].w \in dir /\ req[c] # NoRequest
      /\ file[e] = "running" /\ active[e] = Nobody /\ proc[c] = NoProcess
  BY DEF Spawn, IInv, Requests, RequestOK, Established, EstablishedFor, NoRequest, Starting,
         Removing
<1>2. /\ Requests' /\ Turns'
      /\ req'[c] = NoRequest
      /\ \A d \in Connections \ {c} : req'[d] = req[d]
  BY Answers DEF Spawn, IInv
<1>3. \A d \in Connections \ {c} : req[d] # NoRequest => req[d].w # req[c].w
  BY <1>1 DEF IInv, Turns
<1>4. proc' = [proc EXCEPT ![c] = [NoProcess EXCEPT !.st = "live", !.e = e]]
  BY <1>1 DEF Spawn
<1>5. /\ proc' \in [Connections -> Process]
      /\ proc'[c].st = "live" /\ proc'[c].e = e /\ proc'[c] # NoProcess
      /\ \A d \in Connections \ {c} : proc'[d] = proc[d]
  BY <1>1, <1>4 DEF IInv, Tracked, Process, NoProcess
<1>6. /\ active' \in [Execs -> Connections \cup {Nobody}]
      /\ active'[e] = c
      /\ \A d \in Execs \ {e} : active'[d] = active[d]
  BY <1>1 DEF Spawn, IInv, Tracked
<1>7. Tracked'
  BY <1>1, <1>5, <1>6, NobodyAssumption DEF IInv, Tracked, NoProcess
<1>8. Housed' /\ Files'
  BY <1>1, <1>6 DEF Spawn, IInv, Housed, Files
<1>9. ASSUME NEW d \in Connections PROVE EstablishedFor(d)'
  <2>1. CASE d = c
    BY <1>2, <2>1 DEF EstablishedFor, NoRequest, Starting, Removing
  <2>2. CASE d # c
    BY <1>1, <1>2, <1>3, <1>5, <1>6, <2>2
       DEF Spawn, IInv, Established, EstablishedFor, Requests, RequestOK, NoRequest, busy,
           tracked, Starting, Removing
  <2> QED
    BY <2>1, <2>2
<1> QED
  BY <1>2, <1>7, <1>8, <1>9 DEF IInv, Established

\* What recording a chunk, the time limit, a stop or the close event makes of a
\* process: it stays one, of the same execution, and it is told to have been
\* stopped only when its status says how it ended.
Continues(p, q) ==
    /\ q \in Process
    /\ p.st # "none" /\ q.st # "none" /\ q.e = p.e
    /\ (p.stopped => p.status \notin {"running", "completed"})
          => (q.stopped => q.status \notin {"running", "completed"})

\* At most one process goes on, and nothing else changes.
OneContinues ==
    /\ proc' \in [Connections -> Process]
    /\ \A d \in Connections : proc'[d] = proc[d] \/ Continues(proc[d], proc'[d])

\* The type of the map and of the processes.
Typed ==
    /\ active \in [Execs -> Connections \cup {Nobody}]
    /\ proc \in [Connections -> Process]

\* A chunk of output.
LEMMA ChunkContinues ==
    ASSUME Typed, NEW c \in Connections, RecordChunk(c)
    PROVE  OneContinues
<1> DEFINE last == proc[c].seq >= MaxOutput
           n == IF proc[c].seq > MaxOutput THEN proc[c].seq ELSE proc[c].seq + 1
           s == IF last THEN "failed" ELSE proc[c].status
           t == proc[c].truncated \/ last
           g == proc[c].signalled \/ last
           r == [proc[c] EXCEPT !.seq = n, !.status = s, !.truncated = t, !.signalled = g]
<1>1. proc[c] \in Process /\ proc' = [proc EXCEPT ![c] = r]
  BY DEF RecordChunk, Typed
<1>2. n \in Nat /\ s \in {"running"} \cup Ended
  BY <1>1, LimitsAssumption DEF Process, Ended
<1>3. t \in BOOLEAN /\ g \in BOOLEAN
  OBVIOUS
<1>4. s = proc[c].status \/ s = "failed"
  OBVIOUS
<1> HIDE DEF n, s, t, g
<1>5. Continues(proc[c], r)
  BY <1>1, <1>2, <1>3, <1>4 DEF Continues, Process, RecordChunk
<1> HIDE DEF r
<1> QED
  BY <1>1, <1>5 DEF OneContinues, Continues, Typed

\* The time limit.
LEMMA LimitContinues ==
    ASSUME Typed, NEW c \in Connections, TimeLimit(c)
    PROVE  OneContinues
<1> DEFINE r == [proc[c] EXCEPT !.status = "timed_out", !.signalled = TRUE]
<1>1. proc[c] \in Process /\ proc' = [proc EXCEPT ![c] = r]
  BY DEF TimeLimit, Typed
<1>2. Continues(proc[c], r)
  BY <1>1 DEF Continues, Process, Ended, TimeLimit
<1> HIDE DEF r
<1> QED
  BY <1>1, <1>2 DEF OneContinues, Continues, Typed

\* A stop.
LEMMA StopContinues ==
    ASSUME Typed, NEW e \in Execs, StopExecution(e)
    PROVE  OneContinues
<1> DEFINE c == active[e]
           r == [proc[c] EXCEPT !.status = "cancelled", !.signalled = TRUE, !.stopped = TRUE]
<1>0. c \in Connections
  BY DEF StopExecution, Typed, tracked
<1>1. proc[c] \in Process /\ proc' = [proc EXCEPT ![c] = r]
  BY <1>0 DEF StopExecution, Typed
<1>2. Continues(proc[c], r)
  BY <1>1 DEF Continues, Process, Ended, StopExecution
<1> HIDE DEF r
<1> QED
  BY <1>0, <1>1, <1>2 DEF OneContinues, Continues, Typed

\* The close event.
LEMMA CloseContinues ==
    ASSUME Typed, NEW c \in Connections, Close(c)
    PROVE  OneContinues
<1>0. PICK s \in {"completed", "failed", "cancelled"} :
         proc' = [proc EXCEPT ![c].st = "closing",
                              ![c].status = IF @ = "running" THEN s ELSE @]
  BY DEF Close
<1> DEFINE r == [proc[c] EXCEPT !.st = "closing", !.status = IF @ = "running" THEN s ELSE @]
<1>1. proc[c] \in Process /\ proc' = [proc EXCEPT ![c] = r]
  BY <1>0 DEF Typed
<1>2. Continues(proc[c], r)
  BY <1>1 DEF Continues, Process, Ended, Close
<1> HIDE DEF r
<1> QED
  BY <1>1, <1>2 DEF OneContinues, Continues, Typed

\* A process that goes on disturbs nothing.
LEMMA Continuing ==
    ASSUME IInv, OneContinues, UNCHANGED <<dir, file, active, req>>
    PROVE  IInv'
BY Processes DEF OneContinues, Continues

\* None of the four ends the map's entry or touches a file.
LEMMA RunningSteps ==
    ASSUME IInv,
           \/ \E c \in Connections : RecordChunk(c) \/ TimeLimit(c) \/ Close(c)
           \/ \E e \in Execs : StopExecution(e)
    PROVE  IInv'
<1>1. Typed
  BY DEF IInv, Tracked, Typed
<1>2. OneContinues
  BY <1>1, ChunkContinues, LimitContinues, CloseContinues, StopContinues
<1>3. UNCHANGED <<dir, file, active, req>>
  BY DEF RecordChunk, TimeLimit, Close, StopExecution
<1> QED
  BY <1>2, <1>3, Continuing

\* An append leaves everything else as it is, or ends the service.
LEMMA AppendChunk_ ==
    ASSUME IInv, NEW e \in Execs, AppendChunk(e)
    PROVE  IInv'
<1>1. CASE UNCHANGED <<active, req, proc>>
  BY <1>1 DEF AppendChunk, IInv, Requests, Turns, Tracked, Housed, Established, EstablishedFor,
              Files, busy, tracked
<1>2. CASE stopsService
  BY <1>2, Stopped DEF AppendChunk
<1> QED
  BY <1>1, <1>2 DEF AppendChunk

\* The final status disturbs no request: the execution is active, so no start
\* of it has got past its status file.
LEMMA WriteFinal_ ==
    ASSUME IInv, NEW c \in Connections, WriteFinal(c)
    PROVE  IInv'
<1> DEFINE e == proc[c].e
<1>0. proc[c].st = "closing" /\ e \in Execs /\ active[e] = c /\ c # Nobody
  BY NobodyAssumption DEF WriteFinal, IInv, Tracked, NoProcess
<1>1. CASE inFiles(c)
  <2>1. /\ file' = [file EXCEPT ![e] = proc[c].status]
        /\ proc' = [proc EXCEPT ![c].st = "closed"]
        /\ UNCHANGED <<dir, active, req>>
    BY <1>1 DEF WriteFinal
  <2>2. /\ proc' \in [Connections -> Process]
        /\ proc'[c].st = "closed" /\ proc'[c].e = e
        /\ \A d \in Connections \ {c} : proc'[d] = proc[d]
    BY <2>1 DEF IInv, Tracked, Process
  <2>3. Files'
    BY <1>0, <2>1 DEF IInv, Tracked, Process, Files
  <2>4. Tracked'
    <3>1. /\ active' \in [Execs -> Connections \cup {Nobody}]
          /\ proc'[c] # NoProcess
      BY <2>1, <2>2 DEF IInv, Tracked, NoProcess
    <3>2. ASSUME NEW d \in Connections
          PROVE  proc'[d] = NoProcess \/ (/\ proc'[d].st # "none"
                                         /\ proc'[d].e \in Execs
                                         /\ active'[proc'[d].e] = d)
      BY <1>0, <2>1, <2>2 DEF IInv, Tracked
    <3>3. ASSUME NEW f \in Execs, active'[f] # Nobody
          PROVE  proc'[active'[f]] # NoProcess /\ proc'[active'[f]].e = f
      BY <1>0, <2>1, <2>2, <3>1, <3>3 DEF IInv, Tracked
    <3> QED
      BY <2>2, <3>1, <3>2, <3>3 DEF Tracked
  <2>5. proc[c].status # "none"
    BY DEF IInv, Tracked, Process, Ended
  <2>6. Housed'
    BY <1>0, <2>1, <2>5 DEF IInv, Housed, Files
  <2>7. Requests' /\ Turns'
    BY <2>1 DEF IInv, Requests, Turns
  <2>8. ASSUME NEW d \in Connections PROVE EstablishedFor(d)'
    <3>1. req[d].at \in {"write", "append", "spawn"} => req[d].e # e
      BY <1>0 DEF IInv, Established, EstablishedFor, Housed
    <3>2. req[d].at \in Starting => d # c /\ req[d].e \in Execs
      BY <1>0 DEF IInv, Established, EstablishedFor, NoProcess, Requests, RequestOK, NoRequest,
                  Starting, Removing
    <3> QED
      BY <1>0, <2>1, <2>2, <3>1, <3>2
         DEF IInv, Established, EstablishedFor, Files, busy, tracked, Starting, Removing
  <2> QED
    BY <2>3, <2>4, <2>6, <2>7, <2>8 DEF IInv, Established
<1>2. CASE ~inFiles(c)
  BY <1>2, Stopped DEF WriteFinal
<1> QED
  BY <1>1, <1>2

\* The end of an entry: map and process forget each other together.
LEMMA Retire_ ==
    ASSUME IInv, NEW c \in Connections, Retire(c)
    PROVE  IInv'
<1> DEFINE e == proc[c].e
<1>0. proc[c].st = "closed" /\ e \in Execs /\ active[e] = c /\ c # Nobody
  BY NobodyAssumption DEF Retire, IInv, Tracked, NoProcess
<1>1. CASE inFiles(c)
  <2>1. /\ active' = [active EXCEPT ![e] = Nobody]
        /\ proc' = [proc EXCEPT ![c] = NoProcess]
        /\ UNCHANGED <<dir, file, req>>
    BY <1>1 DEF Retire
  <2>2. NoProcess \in Process
    BY DEF NoProcess, Process
  <2>3. Tracked'
    BY <1>0, <2>1, <2>2 DEF IInv, Tracked
  <2>4. Housed' /\ Files'
    BY <1>0, <2>1 DEF IInv, Housed, Files, Tracked
  <2>5. Requests' /\ Turns'
    BY <2>1 DEF IInv, Requests, Turns
  <2>6. ASSUME NEW d \in Connections PROVE EstablishedFor(d)'
    <3>1. \A f \in Execs : active[f] = Nobody => active'[f] = Nobody
      BY <1>0, <2>1 DEF IInv, Tracked
    <3>2. req[d].at \in Starting => req[d].e \in Execs
      BY DEF IInv, Requests, RequestOK, NoRequest, Starting, Removing
    <3>3. proc[d] = NoProcess => proc'[d] = NoProcess
      BY <2>1 DEF IInv, Tracked
    <3> QED
      BY <2>1, <3>1, <3>2, <3>3 DEF IInv, Established, EstablishedFor, busy, tracked, Starting
  <2> QED
    BY <2>3, <2>4, <2>5, <2>6 DEF IInv, Established
<1>2. CASE ~inFiles(c)
  BY <1>2, Stopped DEF Retire
<1> QED
  BY <1>1, <1>2

\* Reading and polling change nothing the invariant speaks of.
LEMMA Quiet ==
    ASSUME IInv, UNCHANGED <<dir, file, active, req, proc>>
    PROVE  IInv'
BY DEF IInv, Requests, Turns, Tracked, Housed, Established, EstablishedFor, Files, busy, tracked

\* Every step of callers that take turns keeps the invariant.
LEMMA StepIInv ==
    ASSUME IInv, "overlap" \notin Events, [Next]_vars
    PROVE  IInv'
<1>1. ASSUME NEW w \in Workspaces, CreateWorkspace(w) PROVE IInv'
  BY <1>1, CreateWorkspace_
<1>2. ASSUME NEW w \in Workspaces, NEW c \in Connections, BeginRemoval(c, w) PROVE IInv'
  BY <1>2, BeginRemoval_
<1>3. ASSUME NEW e \in Execs, StopExecution(e) \/ AppendChunk(e) PROVE IInv'
  BY <1>3, RunningSteps, AppendChunk_
<1>4. ASSUME NEW e \in Execs, Reader(e) PROVE IInv'
  BY <1>4, Quiet DEF Reader, BeginReading, ReadStatus, ReadEvents
<1>5. ASSUME NEW e \in Execs, NEW c \in Connections, BeginStart(c, e) PROVE IInv'
  BY <1>5, BeginStart_
<1>6. ASSUME NEW c \in Connections, Handler(c) PROVE IInv'
  BY <1>6, RemoveWorkspace_, Recreate_, AccessWorkspace_, MakeMetadata_, LookForStatus_,
     WriteRunning_, AppendRunning_, Spawn_ DEF Handler
<1>7. ASSUME NEW c \in Connections, Child(c) PROVE IInv'
  BY <1>7, RunningSteps, WriteFinal_, Retire_ DEF Child
<1>8. CASE ServiceRestarts
  BY <1>8, Stopped DEF ServiceRestarts
<1>9. CASE UNCHANGED vars
  BY <1>9, Quiet DEF vars
<1> QED
  BY <1>1, <1>2, <1>3, <1>4, <1>5, <1>6, <1>7, <1>8, <1>9 DEF Next

-----------------------------------------------------------------------------
(* Theorems.                                                               *)

\* The invariant holds for callers that take turns.
LEMMA Invariant ==
    ASSUME "overlap" \notin Events
    PROVE  Spec => []IInv
<1>1. IInv /\ [Next]_vars => IInv'
  BY StepIInv
<1> QED
  BY InitIInv, <1>1, PTL DEF Spec

\* For callers that take turns, every running process is the one the map names:
\* it can be stopped, it counts against the limit, and it runs alone.
THEOREM AlwaysTracked ==
    "overlap" \notin Events => (Spec => []ProcessIsTracked)
<1> SUFFICES ASSUME "overlap" \notin Events PROVE Spec => []ProcessIsTracked
  OBVIOUS
<1>1. IInv => ProcessIsTracked
  BY DEF IInv, Tracked, ProcessIsTracked, NoProcess
<1> QED
  BY Invariant, <1>1, PTL

\* For callers that take turns, no deletion and no reset takes a workspace away
\* from a process.
THEOREM AlwaysHoused ==
    "overlap" \notin Events => (Spec => []WorkspaceIsKept)
<1> SUFFICES ASSUME "overlap" \notin Events PROVE Spec => []WorkspaceIsKept
  OBVIOUS
<1>1. IInv => WorkspaceIsKept
  BY NobodyAssumption DEF IInv, Tracked, Housed, WorkspaceIsKept, NoProcess
<1> QED
  BY Invariant, <1>1, PTL

\* Whoever was told to stop while it ran has a status that says so; this needs
\* nothing of the callers.
StoppedEnds ==
    \A c \in Connections : proc[c].stopped => proc[c].status \notin {"running", "completed"}

StoppedInv == Requests /\ Typed /\ StoppedEnds

\* Requests keep their kind, whoever else is served.
LEMMA RequestSteps ==
    ASSUME Requests, [Next]_vars
    PROVE  Requests'
<1>1. ASSUME NEW c \in Connections, Answer(c) PROVE Requests'
  BY <1>1 DEF Answer, Requests, RequestOK, NoRequest
<1>2. ASSUME NEW c \in Connections, req[c] # NoRequest, NEW p, Goto(c, p),
             \/ req[c].at \in Starting /\ p \in Starting
             \/ req[c].at \in Removing /\ p \in Removing
      PROVE  Requests'
  BY <1>2 DEF Goto, Requests, RequestOK, NoRequest, Starting, Removing
<1>3. ASSUME NEW c \in Connections, NEW p, NEW e, NEW w, Serve(c, p, e, w),
             \/ p \in Starting /\ e \in Execs /\ w = WorkspaceOf[e]
             \/ p \in Removing /\ e = Nobody /\ w \in Workspaces
      PROVE  Requests'
  BY <1>3, WorkspaceOfAssumption DEF Serve, Requests, RequestOK, NoRequest
<1>4. ASSUME UNCHANGED req \/ req' = [c \in Connections |-> NoRequest] PROVE Requests'
  BY <1>4 DEF Requests, RequestOK, NoRequest
<1>5. ASSUME NEW c \in Connections, Handler(c) PROVE Requests'
  <2>1. NoRequest.at = "idle"
    BY DEF NoRequest
  <2> QED
    BY <1>1, <1>2, <1>5, <2>1
       DEF Handler, RemoveWorkspace, Recreate, AccessWorkspace, MakeMetadata, LookForStatus,
           WriteRunning, AppendRunning, Spawn, Starting, Removing
<1>6. ASSUME NEW c \in Connections, NEW w \in Workspaces, BeginRemoval(c, w) PROVE Requests'
  BY <1>3, <1>6 DEF BeginRemoval, Removing
<1>7. ASSUME NEW c \in Connections, NEW e \in Execs, BeginStart(c, e) PROVE Requests'
  BY <1>3, <1>7 DEF BeginStart, Starting
<1>8. ASSUME NEW c \in Connections, Child(c) PROVE Requests'
  BY <1>4, <1>8 DEF Child, RecordChunk, TimeLimit, Close, WriteFinal, Retire, stopsService
<1>9. ASSUME NEW e \in Execs, StopExecution(e) \/ AppendChunk(e) \/ Reader(e) PROVE Requests'
  BY <1>4, <1>9 DEF StopExecution, AppendChunk, Reader, BeginReading, ReadStatus, ReadEvents,
                    stopsService
<1>10. ASSUME NEW w \in Workspaces, CreateWorkspace(w) PROVE Requests'
  BY <1>4, <1>10 DEF CreateWorkspace
<1>11. ASSUME ServiceRestarts \/ UNCHANGED vars PROVE Requests'
  BY <1>4, <1>11 DEF ServiceRestarts, stopsService, vars
<1> QED
  BY <1>5, <1>6, <1>7, <1>8, <1>9, <1>10, <1>11 DEF Next

\* The start of a process, its end and the end of the service leave nothing of
\* the kind behind; all other steps let it go on.
LEMMA StepStopped ==
    ASSUME StoppedInv, [Next]_vars
    PROVE  StoppedInv'
<1>0. Requests'
  BY RequestSteps DEF StoppedInv
<1>1. NoProcess \in Process /\ ~NoProcess.stopped
  BY DEF NoProcess, Process
<1>2. ASSUME OneContinues, UNCHANGED active PROVE StoppedInv'
  BY <1>0, <1>2 DEF StoppedInv, Typed, StoppedEnds, OneContinues, Continues
<1>3. ASSUME stopsService PROVE StoppedInv'
  BY <1>0, <1>1, <1>3 DEF StoppedInv, Typed, StoppedEnds, stopsService
<1>4. ASSUME UNCHANGED <<active, proc>> PROVE StoppedInv'
  BY <1>0, <1>4 DEF StoppedInv, Typed, StoppedEnds
<1>5. ASSUME NEW c \in Connections, Spawn(c) PROVE StoppedInv'
  <2> DEFINE p == IF req[c].w \in dir
                  THEN [NoProcess EXCEPT !.st = "live", !.e = req[c].e]
                  ELSE [NoProcess EXCEPT !.st = "closing", !.e = req[c].e, !.status = "failed"]
  <2>1. active' = [active EXCEPT ![req[c].e] = c] /\ proc' = [proc EXCEPT ![c] = p]
    BY <1>5 DEF Spawn
  <2>2. req[c].e \in Execs
    BY <1>5 DEF StoppedInv, Requests, RequestOK, Spawn, NoRequest, Removing
  <2>3. p \in Process /\ ~p.stopped
    BY <2>2 DEF NoProcess, Process, Ended
  <2> HIDE DEF p
  <2> QED
    BY <1>0, <2>1, <2>2, <2>3 DEF StoppedInv, Typed, StoppedEnds
<1>6. ASSUME NEW c \in Connections, WriteFinal(c) PROVE StoppedInv'
  <2>1. CASE stopsService
    BY <1>3, <2>1
  <2>2. CASE proc' = [proc EXCEPT ![c].st = "closed"] /\ UNCHANGED active
    <3>1. [proc[c] EXCEPT !.st = "closed"] \in Process
      BY DEF StoppedInv, Typed, Process
    <3> QED
      BY <1>0, <2>2, <3>1 DEF StoppedInv, Typed, StoppedEnds, Process
  <2> QED
    BY <1>6, <2>1, <2>2 DEF WriteFinal
<1>7. ASSUME NEW c \in Connections, Retire(c) PROVE StoppedInv'
  <2>1. CASE stopsService
    BY <1>3, <2>1
  <2>2. CASE proc' = [proc EXCEPT ![c] = NoProcess] /\ active' = [active EXCEPT ![proc[c].e] = Nobody]
    BY <1>0, <1>1, <2>2 DEF StoppedInv, Typed, StoppedEnds
  <2> QED
    BY <1>7, <2>1, <2>2 DEF Retire
<1>8. ASSUME NEW c \in Connections, Child(c) PROVE StoppedInv'
  <2>1. ASSUME RecordChunk(c) \/ TimeLimit(c) \/ Close(c) PROVE StoppedInv'
    <3>1. OneContinues
      BY <2>1, ChunkContinues, LimitContinues, CloseContinues DEF StoppedInv
    <3> QED
      BY <1>2, <2>1, <3>1 DEF RecordChunk, TimeLimit, Close
  <2> QED
    BY <1>6, <1>7, <1>8, <2>1 DEF Child
<1>9. ASSUME NEW e \in Execs, StopExecution(e) PROVE StoppedInv'
  <2>1. OneContinues
    BY <1>9, StopContinues DEF StoppedInv
  <2> QED
    BY <1>2, <1>9, <2>1 DEF StopExecution
<1>10. ASSUME NEW e \in Execs, AppendChunk(e) \/ Reader(e) PROVE StoppedInv'
  BY <1>3, <1>4, <1>10 DEF AppendChunk, Reader, BeginReading, ReadStatus, ReadEvents
<1>11. ASSUME NEW c \in Connections, Handler(c) PROVE StoppedInv'
  BY <1>4, <1>5, <1>11
     DEF Handler, RemoveWorkspace, Recreate, AccessWorkspace, MakeMetadata, LookForStatus,
         WriteRunning, AppendRunning
<1>12. ASSUME NEW c \in Connections,
              \/ \E w \in Workspaces : BeginRemoval(c, w)
              \/ \E e \in Execs : BeginStart(c, e)
       PROVE  StoppedInv'
  BY <1>4, <1>12 DEF BeginRemoval, BeginStart
<1>13. ASSUME ServiceRestarts \/ UNCHANGED vars \/ \E w \in Workspaces : CreateWorkspace(w)
       PROVE  StoppedInv'
  BY <1>3, <1>4, <1>13 DEF ServiceRestarts, vars, CreateWorkspace
<1> QED
  BY <1>8, <1>9, <1>10, <1>11, <1>12, <1>13 DEF Next

\* A process that was stopped while it ran never ends as completed, whatever its
\* exit code, its output, its time limit and other requests do meanwhile.
THEOREM StopWins == Spec => []StoppedNeverCompletes
<1>1. Init => StoppedInv
  BY DEF Init, StoppedInv, Requests, RequestOK, Typed, StoppedEnds, Process,
         NoRequest, NoProcess
<1>2. StoppedInv /\ [Next]_vars => StoppedInv'
  BY StepStopped
<1>3. StoppedInv => StoppedNeverCompletes
  BY DEF StoppedInv, StoppedEnds, StoppedNeverCompletes
<1> QED
  BY <1>1, <1>2, <1>3, PTL DEF Spec

\* The status file of a process that has not closed says running.
Unfinished ==
    \A c \in Connections : proc[c].st \in {"live", "closing"} => file[proc[c].e] = "running"

\* It does at first.
LEMMA InitUnfinished == Init => Unfinished
BY DEF Init, Unfinished, NoProcess

\* Only the process itself, or the removal of a workspace in which nothing is
\* active, changes such a file.
LEMMA StepUnfinished ==
    ASSUME IInv, Unfinished, [Next]_vars
    PROVE  Unfinished'
<1>1. ASSUME UNCHANGED <<file, proc>> PROVE Unfinished'
  BY <1>1 DEF Unfinished
<1>2. ASSUME NEW c \in Connections, RemoveWorkspace(c) PROVE Unfinished'
  <2>1. req[c].at \in Removing /\ ~busy(req[c].w)
    BY <1>2 DEF RemoveWorkspace, IInv, Established, EstablishedFor, Removing
  <2>2. \A d \in Connections : proc[d].st \in {"live", "closing"} =>
           proc[d].e \in Execs /\ active[proc[d].e] # Nobody
    BY NobodyAssumption DEF IInv, Tracked, NoProcess
  <2> QED
    BY <1>2, <2>1, <2>2 DEF RemoveWorkspace, Unfinished, busy, tracked
<1>3. ASSUME NEW c \in Connections, WriteRunning(c) PROVE Unfinished'
  <2>1. \A d \in Connections : proc[d].st \in {"live", "closing"} => proc[d].e \in Execs
    BY DEF IInv, Tracked, NoProcess
  <2>2. UNCHANGED proc /\ \A f \in Execs : file'[f] = file[f] \/ file'[f] = "running"
    BY <1>3 DEF WriteRunning, IInv, Files
  <2> QED
    BY <2>1, <2>2 DEF Unfinished
<1>4. ASSUME NEW c \in Connections, Spawn(c) PROVE Unfinished'
  <2>1. file[req[c].e] = "running"
    BY <1>4 DEF Spawn, IInv, Established, EstablishedFor
  <2>2. \A d \in Connections : proc'[d] = proc[d] \/ (proc'[d].e = req[c].e)
    BY <1>4 DEF Spawn, IInv, Tracked, NoProcess
  <2> QED
    BY <1>4, <2>1, <2>2 DEF Spawn, Unfinished
<1>5. ASSUME UNCHANGED file,
             \A d \in Connections : \/ proc'[d] = proc[d] \/ proc'[d].st \notin {"live", "closing"}
                                    \/ (proc'[d].e = proc[d].e /\ proc[d].st = "live")
      PROVE  Unfinished'
  BY <1>5 DEF Unfinished
<1>6. ASSUME stopsService, UNCHANGED file PROVE Unfinished'
  BY <1>6 DEF stopsService, Unfinished, NoProcess
<1>7. ASSUME NEW e \in Execs, StopExecution(e) \/ AppendChunk(e) PROVE Unfinished'
  <2>1. CASE StopExecution(e)
    <3>1. active[e] \in Connections
      BY <2>1 DEF StopExecution, IInv, Tracked, tracked
    <3> QED
      BY <1>5, <2>1, <3>1 DEF StopExecution, IInv, Tracked, Process
  <2>2. CASE AppendChunk(e)
    BY <1>1, <1>6, <2>2 DEF AppendChunk
  <2> QED
    BY <1>7, <2>1, <2>2
<1>8. ASSUME NEW c \in Connections, RecordChunk(c) \/ TimeLimit(c) \/ Close(c) PROVE Unfinished'
  <2>1. CASE RecordChunk(c)
    BY <1>5, <2>1 DEF RecordChunk, IInv, Tracked, Process
  <2>2. CASE TimeLimit(c)
    BY <1>5, <2>2 DEF TimeLimit, IInv, Tracked, Process
  <2>3. CASE Close(c)
    BY <1>5, <2>3 DEF Close, IInv, Tracked, Process
  <2> QED
    BY <1>8, <2>1, <2>2, <2>3
<1>9. ASSUME NEW c \in Connections, WriteFinal(c) PROVE Unfinished'
  <2>1. proc[c].e \in Execs /\ active[proc[c].e] = c
    BY <1>9 DEF WriteFinal, IInv, Tracked, NoProcess
  <2>2. CASE ~inFiles(c)
    BY <1>6, <1>9, <2>2 DEF WriteFinal
  <2>3. CASE inFiles(c)
    <3>1. /\ \A d \in Connections \ {c} : proc'[d] = proc[d]
          /\ proc'[c].st = "closed"
          /\ \A f \in Execs \ {proc[c].e} : file'[f] = file[f]
      BY <1>9, <2>3 DEF WriteFinal, IInv, Tracked, Process, Files
    <3>2. \A d \in Connections \ {c} : proc[d].st \in {"live", "closing"} =>
             proc[d].e \in Execs \ {proc[c].e}
      BY <2>1 DEF IInv, Tracked, NoProcess
    <3> QED
      BY <3>1, <3>2 DEF Unfinished
  <2> QED
    BY <2>2, <2>3
<1>10. ASSUME NEW c \in Connections, Retire(c) PROVE Unfinished'
  BY <1>5, <1>6, <1>10 DEF Retire, IInv, Tracked, NoProcess
<1>11. ASSUME NEW w \in Workspaces, CreateWorkspace(w) \/ \E c \in Connections : BeginRemoval(c, w)
       PROVE  Unfinished'
  BY <1>1, <1>11 DEF CreateWorkspace, BeginRemoval
<1>12. ASSUME NEW e \in Execs, Reader(e) \/ \E c \in Connections : BeginStart(c, e)
       PROVE  Unfinished'
  BY <1>1, <1>12 DEF Reader, BeginReading, ReadStatus, ReadEvents, BeginStart
<1>13. ASSUME NEW c \in Connections, Handler(c) PROVE Unfinished'
  BY <1>1, <1>2, <1>3, <1>4, <1>13
     DEF Handler, Recreate, AccessWorkspace, MakeMetadata, LookForStatus, AppendRunning
<1>14. CASE ServiceRestarts
  BY <1>6, <1>14 DEF ServiceRestarts
<1>15. CASE UNCHANGED vars
  BY <1>1, <1>15 DEF vars
<1> QED
  BY <1>7, <1>8, <1>9, <1>10, <1>11, <1>12, <1>13, <1>14, <1>15 DEF Next, Child

-----------------------------------------------------------------------------
(* The refinement of RunnerContract.                                       *)

\* A start of the execution has written its status file and will spawn.
Launching(e) == \E c \in Connections : req[c].e = e /\ req[c].at \in {"append", "spawn"}

\* One step of the contract of one execution, or a stutter.
ContractStep(e) == [Contract(e)!Next]_<<WorkspaceOf[e] \in dir, view(e)>>

\* A step that leaves the view alone and takes no directory away is a stutter
\* or a creation.
LEMMA SameView ==
    ASSUME NEW e \in Execs, view(e)' = view(e), WorkspaceOf[e] \in dir => WorkspaceOf[e] \in dir'
    PROVE  ContractStep(e)
BY DEF ContractStep, Contract!Next, Contract!Create

\* What the view depends on.
LEMMA ViewOf ==
    ASSUME NEW e \in Execs, file'[e] = file[e], active'[e] = active[e], Launching(e)' = Launching(e)
    PROVE  view(e)' = view(e)
BY DEF view, Launching

\* The end of the service loses what was running.
LEMMA StopLoses ==
    ASSUME NEW e \in Execs, stopsService, UNCHANGED <<dir, file>>
    PROVE  ContractStep(e)
<1>1. active'[e] = Nobody /\ ~Launching(e)' /\ file'[e] = file[e]
  BY DEF stopsService, Launching, NoRequest
<1>2. view(e)' = IF file[e] = "running" THEN "lost" ELSE file[e]
  BY <1>1 DEF view, Launching
<1>3. view(e)' = view(e) \/ (view(e) = "running" /\ view(e)' = "lost")
  BY <1>2 DEF view
<1> QED
  BY <1>3, SameView DEF ContractStep, Contract!Next, Contract!Lose

\* A request that is not launching, before or after the step, launches nothing.
LEMMA NotLaunching ==
    ASSUME NEW e \in Execs, NEW c \in Connections, \A d \in Connections \ {c} : req'[d] = req[d],
           ~(req[c].e = e /\ req[c].at \in {"append", "spawn"}),
           ~(req'[c].e = e /\ req'[c].at \in {"append", "spawn"})
    PROVE  Launching(e)' = Launching(e)
BY DEF Launching

\* A step of a request that takes no part in a launch is a stutter or a creation.
LEMMA OtherRequests ==
    ASSUME Requests, NEW e \in Execs, NEW c \in Connections,
           UNCHANGED <<file, active>>, dir \subseteq dir',
           req[c].at \notin {"append", "spawn"},
           \/ Answer(c)
           \/ \E p \in {"mkdir", "look", "write"} : Goto(c, p)
           \/ \E p \in {"remove", "removeToReset", "access"} : \E f, w : Serve(c, p, f, w)
    PROVE  ContractStep(e)
<1>1. /\ \A d \in Connections \ {c} : req'[d] = req[d]
      /\ req'[c].at \notin {"append", "spawn"}
  <2>1. CASE Answer(c)
    BY <2>1 DEF Answer, NoRequest, Requests
  <2>2. ASSUME NEW p \in {"mkdir", "look", "write"}, Goto(c, p)
        PROVE  /\ \A d \in Connections \ {c} : req'[d] = req[d]
               /\ req'[c].at \notin {"append", "spawn"}
    BY <2>2 DEF Goto, Requests
  <2>3. ASSUME NEW p \in {"remove", "removeToReset", "access"}, NEW f, NEW w, Serve(c, p, f, w)
        PROVE  /\ \A d \in Connections \ {c} : req'[d] = req[d]
               /\ req'[c].at \notin {"append", "spawn"}
    BY <2>3 DEF Serve, Requests
  <2> QED
    BY <2>1, <2>2, <2>3
<1>2. Launching(e)' = Launching(e)
  BY <1>1, NotLaunching
<1> QED
  BY <1>2, ViewOf, SameView

\* The removal of a workspace is the contract's removal for its executions.
LEMMA RemovalStep ==
    ASSUME IInv, NEW e \in Execs, NEW c \in Connections, RemoveWorkspace(c)
    PROVE  ContractStep(e)
<1>1. req[c].at \in Removing /\ ~busy(req[c].w) /\ req[c] # NoRequest
  BY DEF RemoveWorkspace, IInv, Established, EstablishedFor, Removing, NoRequest
<1>2. /\ \A d \in Connections \ {c} : req'[d] = req[d]
      /\ req[c].at \notin {"append", "spawn"} /\ req'[c].at \notin {"append", "spawn"}
  BY DEF RemoveWorkspace, Answer, Goto, NoRequest, IInv, Requests
<1>3. Launching(e)' = Launching(e)
  BY <1>2, NotLaunching
<1>4. CASE WorkspaceOf[e] # req[c].w
  <2>1. file'[e] = file[e] /\ active'[e] = active[e] /\ (WorkspaceOf[e] \in dir => WorkspaceOf[e] \in dir')
    BY <1>4 DEF RemoveWorkspace
  <2> QED
    BY <1>3, <2>1, ViewOf, SameView
<1>5. CASE WorkspaceOf[e] = req[c].w
  <2>1. active[e] = Nobody
    BY <1>1, <1>5 DEF busy, tracked
  <2>2. ~Launching(e)
    BY <1>1, <1>2, <1>5 DEF Launching, IInv, Turns, Requests, RequestOK, NoRequest, Starting,
                            Removing
  <2>3. view(e) # "running"
    BY <2>1, <2>2 DEF view, Launching
  <2>4. view(e)' = "none" /\ (WorkspaceOf[e] \in dir)' = FALSE
    BY <1>5 DEF RemoveWorkspace, view
  <2> QED
    BY <2>3, <2>4 DEF ContractStep, Contract!Next, Contract!Remove
<1> QED
  BY <1>4, <1>5

\* Writing the first status file starts the execution.
LEMMA StartStep ==
    ASSUME IInv, NEW e \in Execs, NEW c \in Connections, WriteRunning(c)
    PROVE  ContractStep(e)
<1>1. /\ req[c].e \in Execs /\ req[c].w = WorkspaceOf[req[c].e] /\ req[c].w \in dir
      /\ file[req[c].e] = "none" /\ req[c].at = "write"
  BY DEF WriteRunning, IInv, Requests, RequestOK, Established, EstablishedFor, NoRequest,
         Starting, Removing
<1>2. /\ file' = [file EXCEPT ![req[c].e] = "running"]
      /\ req' = [req EXCEPT ![c].at = "append"]
      /\ UNCHANGED <<dir, active>>
  BY <1>1 DEF WriteRunning, Goto
<1>3. /\ \A d \in Connections \ {c} : req'[d] = req[d]
      /\ req'[c].e = req[c].e /\ req'[c].at = "append"
  BY <1>2 DEF IInv, Requests
<1>4. CASE e # req[c].e
  <2>1. file'[e] = file[e]
    BY <1>2, <1>4 DEF IInv, Files
  <2>2. Launching(e)' = Launching(e)
    BY <1>3, <1>4, NotLaunching
  <2> QED
    BY <1>2, <2>1, <2>2, ViewOf, SameView
<1>5. CASE e = req[c].e
  <2>1. file'[e] = "running" /\ Launching(e)'
    BY <1>1, <1>2, <1>3, <1>5 DEF IInv, Files, Launching
  <2>2. view(e) = "none" /\ view(e)' = "running"
    BY <1>1, <1>5, <2>1 DEF view, Launching
  <2> QED
    BY <1>1, <1>2, <1>5, <2>2 DEF ContractStep, Contract!Next, Contract!Start
<1> QED
  BY <1>4, <1>5

\* From then on the execution runs, first as a request, then as a process.
LEMMA LaunchStep ==
    ASSUME IInv, NEW e \in Execs, NEW c \in Connections, AppendRunning(c) \/ Spawn(c)
    PROVE  ContractStep(e)
<1>1. req[c].w \in dir /\ req[c].e \in Execs /\ file[req[c].e] = "running"
  BY DEF AppendRunning, Spawn, IInv, Requests, RequestOK, Established, EstablishedFor, NoRequest,
         Starting, Removing
<1>2. UNCHANGED <<dir, file>>
  BY DEF AppendRunning, Spawn
<1>3. /\ \A d \in Connections \ {c} : req'[d] = req[d]
      /\ \/ req'[c].e = req[c].e /\ req'[c].at = "spawn" /\ UNCHANGED active
         \/ req'[c].at = "idle" /\ active' = [active EXCEPT ![req[c].e] = c]
  BY <1>1 DEF AppendRunning, Spawn, Goto, Answer, NoRequest, IInv, Requests
<1>4. CASE e # req[c].e
  <2>1. active'[e] = active[e]
    BY <1>3, <1>4 DEF IInv, Tracked
  <2>2. Launching(e)' = Launching(e)
    BY <1>3, <1>4, NotLaunching
  <2> QED
    BY <1>2, <2>1, <2>2, ViewOf, SameView
<1>5. CASE e = req[c].e
  <2>1. Launching(e)
    BY <1>5 DEF AppendRunning, Spawn, Launching
  <2>2. Launching(e)' \/ active'[e] = c
    BY <1>3, <1>5 DEF Launching, IInv, Tracked
  <2>3. view(e) = "running" /\ view(e)' = "running"
    BY <1>1, <1>2, <1>5, <2>1, <2>2, NobodyAssumption DEF view, Launching
  <2> QED
    BY <1>2, <2>3, SameView
<1> QED
  BY <1>4, <1>5

\* The final status ends the execution; a service that cannot write it is lost.
LEMMA EndStep ==
    ASSUME IInv, Unfinished, NEW e \in Execs, NEW c \in Connections, WriteFinal(c)
    PROVE  ContractStep(e)
<1>1. CASE ~inFiles(c)
  BY <1>1, StopLoses DEF WriteFinal
<1>2. CASE inFiles(c)
  <2>1. /\ file' = [file EXCEPT ![proc[c].e] = proc[c].status]
        /\ UNCHANGED <<dir, active, req>>
    BY <1>2 DEF WriteFinal
  <2>2. /\ proc[c].e \in Execs /\ active[proc[c].e] = c /\ file[proc[c].e] = "running"
        /\ proc[c].status \in {"running"} \cup Ended
    BY DEF WriteFinal, Unfinished, IInv, Tracked, Process, NoProcess
  <2>3. Launching(e)' = Launching(e)
    BY <2>1 DEF Launching
  <2>4. CASE e # proc[c].e \/ proc[c].status = "running"
    <3>1. file'[e] = file[e]
      BY <2>1, <2>2, <2>4 DEF IInv, Files
    <3> QED
      BY <2>1, <2>3, <3>1, ViewOf, SameView
  <2>5. CASE e = proc[c].e /\ proc[c].status \in Ended
    <3>1. view(e) = "running"
      BY <2>2, <2>5, NobodyAssumption DEF view
    <3>2. file'[e] = proc[c].status /\ proc[c].status # "running"
      BY <2>1, <2>2, <2>5 DEF IInv, Files, Ended
    <3>3. view(e)' = proc[c].status
      BY <3>2 DEF view
    <3>4. WorkspaceOf[e] \in dir /\ UNCHANGED dir
      BY <1>2, <2>1, <2>5 DEF inFiles
    <3> QED
      BY <2>5, <3>1, <3>3, <3>4 DEF ContractStep, Contract!Next, Contract!End, Contract!Ends, Ended
  <2> QED
    BY <2>2, <2>4, <2>5
<1> QED
  BY <1>1, <1>2

\* The end of the entry in the map.
LEMMA RetireStep ==
    ASSUME IInv, NEW e \in Execs, NEW c \in Connections, Retire(c)
    PROVE  ContractStep(e)
<1>1. CASE ~inFiles(c)
  BY <1>1, StopLoses DEF Retire
<1>2. CASE inFiles(c)
  <2>1. active' = [active EXCEPT ![proc[c].e] = Nobody] /\ UNCHANGED <<dir, file, req>>
    BY <1>2 DEF Retire
  <2>2. Launching(e)' = Launching(e)
    BY <2>1 DEF Launching
  <2>3. active'[e] = active[e] \/ active'[e] = Nobody
    BY <2>1 DEF IInv, Tracked
  <2>4. view(e)' = view(e) \/ (view(e) = "running" /\ view(e)' = "lost")
    BY <2>1, <2>2, <2>3 DEF view, Launching
  <2> QED
    BY <2>1, <2>4, SameView DEF ContractStep, Contract!Next, Contract!Lose
<1> QED
  BY <1>1, <1>2

\* Every step of the service is a step of every execution's contract.
LEMMA EveryStep ==
    ASSUME IInv, Unfinished, [Next]_vars, NEW e \in Execs
    PROVE  ContractStep(e)
<1>0. Requests
  BY DEF IInv
<1>1. ASSUME UNCHANGED <<file, active, req>>, dir \subseteq dir' PROVE ContractStep(e)
  <2>1. Launching(e)' = Launching(e)
    BY <1>1 DEF Launching
  <2> QED
    BY <1>1, <2>1, ViewOf, SameView
<1>2. ASSUME NEW w \in Workspaces, CreateWorkspace(w) PROVE ContractStep(e)
  BY <1>1, <1>2 DEF CreateWorkspace
<1>3. ASSUME NEW w \in Workspaces, NEW c \in Connections, BeginRemoval(c, w) PROVE ContractStep(e)
  <2>1. req[c].at = "idle"
    BY <1>3 DEF BeginRemoval, Serve, NoRequest
  <2> QED
    BY <1>0, <1>3, <2>1, OtherRequests DEF BeginRemoval
<1>4. ASSUME NEW f \in Execs, StopExecution(f) \/ AppendChunk(f) \/ Reader(f) PROVE ContractStep(e)
  <2>1. CASE StopExecution(f) \/ Reader(f)
    BY <1>1, <2>1 DEF StopExecution, Reader, BeginReading, ReadStatus, ReadEvents
  <2>2. CASE AppendChunk(f)
    BY <1>1, <2>2, StopLoses DEF AppendChunk
  <2> QED
    BY <1>4, <2>1, <2>2
<1>5. ASSUME NEW f \in Execs, NEW c \in Connections, BeginStart(c, f) PROVE ContractStep(e)
  <2>1. req[c].at = "idle"
    BY <1>5 DEF BeginStart, Serve, NoRequest
  <2> QED
    BY <1>0, <1>5, <2>1, OtherRequests DEF BeginStart
<1>6. ASSUME NEW c \in Connections, Handler(c) PROVE ContractStep(e)
  <2>1. CASE AccessWorkspace(c) \/ LookForStatus(c) \/ MakeMetadata(c) \/ Recreate(c)
    BY <1>0, <2>1, OtherRequests DEF AccessWorkspace, LookForStatus, MakeMetadata, Recreate
  <2> QED
    BY <1>6, <2>1, RemovalStep, StartStep, LaunchStep DEF Handler
<1>7. ASSUME NEW c \in Connections, Child(c) PROVE ContractStep(e)
  <2>1. CASE RecordChunk(c) \/ TimeLimit(c) \/ Close(c)
    BY <1>1, <2>1 DEF RecordChunk, TimeLimit, Close
  <2> QED
    BY <1>7, <2>1, EndStep, RetireStep DEF Child
<1>8. CASE ServiceRestarts
  BY <1>8, StopLoses DEF ServiceRestarts
<1>9. CASE UNCHANGED vars
  BY <1>1, <1>9 DEF vars
<1> QED
  BY <1>2, <1>3, <1>4, <1>5, <1>6, <1>7, <1>8, <1>9 DEF Next

\* Callers that take turns get what RunnerContract promises: one start, one
\* end, no removal under a running process, and a loss only with the service.
THEOREM ContractKept ==
    "overlap" \notin Events => (Spec => KeepsContract)
<1> SUFFICES ASSUME "overlap" \notin Events PROVE Spec => KeepsContract
  OBVIOUS
<1>1. Init => \A e \in Execs : Contract(e)!Init
  BY DEF Init, Contract!Init, view
<1>2. Unfinished /\ IInv /\ [Next]_vars => Unfinished'
  BY StepUnfinished
<1>3. Unfinished /\ IInv /\ [Next]_vars =>
         [\A e \in Execs : [Contract(e)!Next]_<<WorkspaceOf[e] \in dir, view(e)>>]_vars
  BY EveryStep DEF ContractStep
<1> QED
  BY Invariant, InitUnfinished, <1>1, <1>2, <1>3, PTL DEF Spec, KeepsContract
=============================================================================
