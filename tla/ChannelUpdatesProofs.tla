------------------------ MODULE ChannelUpdatesProofs ------------------------
(* Theorems about ChannelUpdates, for any number of updates, webhook requests, *)
(* workers, deliveries and attempts, every mix of texts, every handoff mode    *)
(* and every set of events.                                                    *)
EXTENDS ChannelUpdates, TLAPS

\* Where a worker is between the acceptance of an event and the end of its
\* routing: before the agent runs, before an answer is sent, and after.
BeforeRun == {"route", "link", "create", "decide", "run"}
BeforeAnswer == BeforeRun \cup {"handoff", "switch", "send"}
Routing == BeforeAnswer \cup {"close", "fail", "tell"}
\* Where a worker is once it has met a failure.
AfterFailure == {"link", "create", "handoff", "switch", "tell", "markfailed", "throw"}
Places == {"idle", "open", "reply", "accept", "mark", "markfailed", "throw"} \cup Routing

UpdateType == [st : {"none", "accepted", "completed", "failed", "ignored"},
               err : {"none", "queue", "other"}]
RowType == [st : Job!RowStates, tries : Nat]
WorkerType == [at : Places, u : Updates \cup {"none"}, link : LinkType, failed : BOOLEAN]

Typed ==
    /\ text \in [Updates -> Texts]
    /\ enabled \in BOOLEAN
    /\ update \in [Updates -> UpdateType]
    /\ job \in [Updates -> RowType]
    /\ request \in [Requests -> RequestType]
    /\ acked \in [Updates -> BOOLEAN]
    /\ worker \in [Workers -> WorkerType]
    /\ event \in [Updates -> {"none", "processing", "completed", "failed"}]
    /\ link \in LinkType
    /\ handoffs \in Nat /\ made \in Nat /\ switched \in Nat
    /\ runs \in [Updates -> Nat] /\ answers \in [Updates -> Nat]

\* A worker holds the row of its job, and the queue lets one worker in.
Held ==
    /\ \A k \in Workers : ~At(k, "idle") => U(k) \in Updates /\ job[U(k)].st = "locked"
    /\ \A k, j \in Workers : ~At(k, "idle") /\ ~At(j, "idle") => k = j

\* How far each worker has come tells what has been done for its update.
RoutedBy(k) ==
    /\ At(k, "reply") => text[U(k)] = "direct"
    /\ worker[k].at \in Routing \cup {"accept"} => text[U(k)] # "direct"
    /\ worker[k].at \in Routing => event[U(k)] # "none"
    /\ At(k, "mark") => answers[U(k)] > 0 \/ event[U(k)] # "none"
    /\ worker[k].failed => worker[k].at \in AfterFailure
    /\ worker[k].at \in BeforeRun /\ ~worker[k].failed => runs[U(k)] = 0
    /\ worker[k].at \in BeforeAnswer /\ ~worker[k].failed => answers[U(k)] = 0

\* Without an event nothing was done for an update, and with one nothing twice.
Counted(u) ==
    /\ event[u] = "none" => runs[u] = 0
    /\ text[u] # "direct" => /\ event[u] = "none" => answers[u] = 0
                             /\ runs[u] <= 1 /\ answers[u] <= 1

Routed == (\A k \in Workers : RoutedBy(k)) /\ (\A u \in Updates : Counted(u))

\* Something is left of an update that was queued.
Handled(u) ==
    \/ job[u].st # "absent" \/ answers[u] > 0 \/ event[u] # "none"
    \/ ~enabled \/ text[u] = "other"

\* Whoever says an update needs no further delivery is right.
Acknowledged ==
    /\ \A p \in Requests : request[p].at # "idle" => request[p].u \in Updates
    /\ \A p \in Requests : request[p].at = "mark" => Handled(request[p].u)
    /\ \A u \in Updates : Terminal(u) \/ acked[u] => Handled(u)

\* Between its two statements a handoff is ahead by one.
ahead(b) == IF b THEN 1 ELSE 0
Listed == switched + ahead(\E k \in Workers : At(k, "switch")) + ahead(admin = "switch") <= handoffs

\* The link a worker goes by is the person's link.
Linked ==
    \A k \in Workers :
        worker[k].at \in {"decide", "run", "handoff", "switch"} => worker[k].link.conv = link.conv

IInv == Typed /\ Held /\ Routed /\ Acknowledged /\ Listed /\ Linked

-----------------------------------------------------------------------------
\* At most its own update and the person's conversation are touched by a worker.
Touches(k) ==
    /\ UNCHANGED <<text, enabled, request, acked, admin>>
    /\ worker' \in [Workers -> WorkerType]
    /\ \A j \in Workers \ {k} : worker'[j] = worker[j]
    /\ job' \in [Updates -> RowType]
    /\ update' \in [Updates -> UpdateType]
    /\ event' \in [Updates -> {"none", "processing", "completed", "failed"}]
    /\ runs' \in [Updates -> Nat] /\ answers' \in [Updates -> Nat]
    /\ \A u \in Updates \ {U(k)} : /\ job'[u] = job[u] /\ update'[u] = update[u]
                                   /\ event'[u] = event[u]
                                   /\ runs'[u] = runs[u] /\ answers'[u] = answers[u]
    /\ link' \in LinkType
    /\ handoffs' \in Nat /\ made' \in Nat /\ switched' \in Nat

\* The worker goes on with its job, or leaves it.
GoesOn(k) == worker'[k].at # "idle" /\ worker'[k].u = U(k) /\ UNCHANGED job
Leaves(k) == worker'[k] = NoWork

\* What the worker's own step has to show of itself.
Shows(k) ==
    /\ RoutedBy(k)'
    /\ \A u \in Updates : u = U(k) => Handled(u)' /\ Counted(u)'
    /\ switched' + ahead(worker'[k].at = "switch") + ahead(admin = "switch") <= handoffs'
    /\ worker'[k].at \in {"decide", "run", "handoff", "switch"} => worker'[k].link.conv = link'.conv

\* The types of the values workers start from.
LEMMA NoWorkTyped == NoWork \in WorkerType /\ NoLink \in LinkType /\ NoWork.at = "idle" /\ ~NoWork.failed
BY DEF NoWork, NoLink, WorkerType, LinkType, Places

\* While a worker is at work, Listed speaks of it alone.
LEMMA ListedBy ==
    ASSUME Held, Listed, NEW k \in Workers, ~At(k, "idle")
    PROVE  switched + ahead(At(k, "switch")) + ahead(admin = "switch") <= handoffs
<1>1. (\E j \in Workers : At(j, "switch")) <=> At(k, "switch")
  BY DEF Held, At
<1> QED
  BY <1>1 DEF Listed, ahead

\* A worker's step that shows what it has to keeps the invariant.
LEMMA Acting ==
    ASSUME IInv, NEW k \in Workers, ~At(k, "idle"), Touches(k), GoesOn(k) \/ Leaves(k), Shows(k)
    PROVE  IInv'
<1>1. U(k) \in Updates /\ \A j \in Workers \ {k} : worker'[j] = worker[j] /\ worker[j].at = "idle"
  BY DEF IInv, Held, At, Touches
<1>2. Typed'
  BY DEF IInv, Typed, Touches
<1>3. Held'
  BY <1>1, NoWorkTyped DEF IInv, Held, GoesOn, Leaves, At, U
<1>4. Routed'
  <2>1. ASSUME NEW j \in Workers \ {k} PROVE RoutedBy(j)'
    BY <1>1, <2>1 DEF IInv, Routed, RoutedBy, At, U, Routing, BeforeAnswer, BeforeRun, Touches
  <2>2. ASSUME NEW u \in Updates \ {U(k)} PROVE Counted(u)'
    BY <2>2 DEF IInv, Routed, Counted, Touches
  <2> QED
    BY <2>1, <2>2 DEF Routed, Shows
<1>5. Acknowledged'
  <2>1. ASSUME NEW u \in Updates, Handled(u) PROVE Handled(u)'
    BY <2>1 DEF Handled, Touches, Shows
  <2>2. ASSUME NEW u \in Updates, (Terminal(u) \/ acked[u])' PROVE Handled(u)'
    BY <2>1, <2>2 DEF IInv, Acknowledged, Terminal, Touches, Shows
  <2>3. ASSUME NEW p \in Requests, request'[p].at = "mark" PROVE Handled(request[p].u)'
    <3>1. request' = request /\ request[p].u \in Updates /\ Handled(request[p].u)
      BY <2>3 DEF IInv, Acknowledged, Touches
    <3>2. \A u \in Updates : Handled(u) => Handled(u)'
      BY <2>1
    <3> DEFINE v == request[p].u
    <3>3. v' = v
      BY <3>1
    <3> QED
      BY <3>1, <3>2, <3>3 DEF Handled
  <2> QED
    BY <2>2, <2>3 DEF IInv, Acknowledged, Touches
<1>6. Listed'
  <2>1. (\E j \in Workers : At(j, "switch"))' <=> worker'[k].at = "switch"
    BY <1>1 DEF At
  <2> QED
    BY <2>1 DEF Listed, ahead, Shows, Touches
<1>7. Linked'
  BY <1>1 DEF Linked, Shows
<1> QED
  BY <1>2, <1>3, <1>4, <1>5, <1>6, <1>7 DEF IInv
\* A worker that goes on as r.
LEMMA Going ==
    ASSUME IInv, NEW k \in Workers, ~At(k, "idle"), NEW r \in WorkerType, r.at # "idle", r.u = U(k),
           worker' = [worker EXCEPT ![k] = r], UNCHANGED job
    PROVE  /\ worker' \in [Workers -> WorkerType]
           /\ \A j \in Workers \ {k} : worker'[j] = worker[j]
           /\ GoesOn(k)
           /\ worker'[k] = r
           /\ U(k) \in Updates /\ \A u \in Updates : u = U(k) => Handled(u)'
<1>1. worker' \in [Workers -> WorkerType] /\ worker'[k] = r
      /\ \A j \in Workers \ {k} : worker'[j] = worker[j]
  BY DEF IInv, Typed
<1>2. U(k) \in Updates /\ job'[U(k)].st = "locked"
  BY DEF IInv, Held
<1>3. GoesOn(k)
  BY <1>1 DEF GoesOn
<1>4. \A u \in Updates : u = U(k) => Handled(u)'
  BY <1>2 DEF Handled
<1> QED
  BY <1>1, <1>2, <1>3, <1>4

\* Most steps only change the place.
LEMMA GoingTo ==
    ASSUME IInv, NEW k \in Workers, ~At(k, "idle"), NEW p \in Places \ {"idle"}, UNCHANGED job, Goto(k, p)
    PROVE  /\ worker' \in [Workers -> WorkerType]
           /\ \A j \in Workers \ {k} : worker'[j] = worker[j]
           /\ GoesOn(k)
           /\ worker'[k].at = p /\ worker'[k].link = worker[k].link
           /\ worker'[k].failed = worker[k].failed
           /\ worker'[k].u = U(k)
           /\ U(k) \in Updates /\ \A u \in Updates : u = U(k) => Handled(u)'
<1> DEFINE r == [worker[k] EXCEPT !.at = p]
<1>1. r \in WorkerType /\ r.at = p /\ r.u = U(k)
      /\ r.link = worker[k].link /\ r.failed = worker[k].failed
  BY DEF IInv, Typed, WorkerType, U
<1>2. worker' = [worker EXCEPT ![k] = r]
  BY DEF Goto
<1> HIDE DEF r
<1> QED
  BY <1>1, <1>2, Going

\* A command is answered by the processor, or the answer is refused.
LEMMA Reply_ ==
    ASSUME IInv, NEW k \in Workers, Reply(k)
    PROVE  IInv'
<1>1. ~At(k, "idle") /\ {"mark", "markfailed"} \subseteq Places \ {"idle"}
  BY DEF Reply, At, Places, Routing, BeforeRun, BeforeAnswer
<1>2. (Goto(k, "mark") \/ Goto(k, "markfailed")) /\ UNCHANGED job
  BY DEF Reply
<1>3. Touches(k)
  BY <1>1, <1>2, GoingTo DEF Reply, IInv, Typed, Touches, webhook, routing
<1>4. RoutedBy(k)'
  BY <1>1, <1>2, GoingTo
     DEF Reply, IInv, Typed, Routed, RoutedBy, Counted, routing, At, U, AfterFailure,
         Routing, BeforeRun, BeforeAnswer
<1>5. \A u \in Updates : u = U(k) => Counted(u)'
  BY <1>1, <1>2, GoingTo
     DEF Reply, IInv, Typed, Routed, RoutedBy, Counted, routing, At, U, AfterFailure,
         Routing, BeforeRun, BeforeAnswer
<1>6. switched' + ahead(worker'[k].at = "switch") + ahead(admin = "switch") <= handoffs'
  BY <1>1, <1>2, GoingTo, ListedBy DEF Reply, IInv, Typed, At, ahead, routing
<1>7. worker'[k].at \in {"decide", "run", "handoff", "switch"} => worker'[k].link.conv = link'.conv
  BY <1>1, <1>2, GoingTo DEF Reply, IInv, Typed, Linked, LinkType, At, routing
<1> QED
  BY <1>1, <1>2, <1>3, <1>4, <1>5, <1>6, <1>7, GoingTo, Acting DEF Shows

\* The catch of the processor.
LEMMA MarkFailed_ ==
    ASSUME IInv, NEW k \in Workers, MarkFailed(k)
    PROVE  IInv'
<1>1. ~At(k, "idle") /\ "throw" \in Places \ {"idle"}
  BY DEF MarkFailed, At, Places, Routing, BeforeRun, BeforeAnswer
<1>2. Goto(k, "throw") /\ UNCHANGED job
  BY DEF MarkFailed
<1>3. Touches(k)
  BY <1>1, <1>2, GoingTo DEF MarkFailed, IInv, Typed, Touches, webhook, routing, UpdateType
<1>4. RoutedBy(k)'
  BY <1>1, <1>2, GoingTo
     DEF MarkFailed, IInv, Typed, Routed, RoutedBy, Counted, routing, At, U, AfterFailure,
         Routing, BeforeRun, BeforeAnswer
<1>5. \A u \in Updates : u = U(k) => Counted(u)'
  BY <1>1, <1>2, GoingTo
     DEF MarkFailed, IInv, Typed, Routed, RoutedBy, Counted, routing, At, U, AfterFailure,
         Routing, BeforeRun, BeforeAnswer
<1>6. switched' + ahead(worker'[k].at = "switch") + ahead(admin = "switch") <= handoffs'
  BY <1>1, <1>2, GoingTo, ListedBy DEF MarkFailed, IInv, Typed, At, ahead, routing
<1>7. worker'[k].at \in {"decide", "run", "handoff", "switch"} => worker'[k].link.conv = link'.conv
  BY <1>1, <1>2, GoingTo DEF MarkFailed, IInv, Typed, Linked, LinkType, At, routing
<1> QED
  BY <1>1, <1>2, <1>3, <1>4, <1>5, <1>6, <1>7, GoingTo, Acting DEF Shows

\* The event is new, or a duplicate.
LEMMA acceptEvent_ ==
    ASSUME IInv, NEW k \in Workers, acceptEvent(k)
    PROVE  IInv'
<1>1. ~At(k, "idle") /\ {"route", "mark", "markfailed"} \subseteq Places \ {"idle"}
  BY DEF acceptEvent, At, Places, Routing, BeforeRun, BeforeAnswer
<1>2. (Goto(k, "route") \/ Goto(k, "mark") \/ Goto(k, "markfailed")) /\ UNCHANGED job
  BY DEF acceptEvent
<1>3. Touches(k)
  BY <1>1, <1>2, GoingTo DEF acceptEvent, IInv, Typed, Touches, webhook, routing
<1>4. RoutedBy(k)'
  BY <1>1, <1>2, GoingTo
     DEF acceptEvent, IInv, Typed, Routed, RoutedBy, Counted, routing, At, U, AfterFailure,
         Routing, BeforeRun, BeforeAnswer
<1>5. \A u \in Updates : u = U(k) => Counted(u)'
  BY <1>1, <1>2, GoingTo
     DEF acceptEvent, IInv, Typed, Routed, RoutedBy, Counted, routing, At, U, AfterFailure,
         Routing, BeforeRun, BeforeAnswer
<1>6. switched' + ahead(worker'[k].at = "switch") + ahead(admin = "switch") <= handoffs'
  BY <1>1, <1>2, GoingTo, ListedBy DEF acceptEvent, IInv, Typed, At, ahead, routing
<1>7. worker'[k].at \in {"decide", "run", "handoff", "switch"} => worker'[k].link.conv = link'.conv
  BY <1>1, <1>2, GoingTo DEF acceptEvent, IInv, Typed, Linked, LinkType, At, routing
<1> QED
  BY <1>1, <1>2, <1>3, <1>4, <1>5, <1>6, <1>7, GoingTo, Acting DEF Shows

\* The message may be refused.
LEMMA Route_ ==
    ASSUME IInv, NEW k \in Workers, Route(k)
    PROVE  IInv'
<1>1. ~At(k, "idle") /\ {"send", "link", "fail"} \subseteq Places \ {"idle"}
  BY DEF Route, At, Places, Routing, BeforeRun, BeforeAnswer
<1>2. (Goto(k, "send") \/ Goto(k, "link") \/ Goto(k, "fail")) /\ UNCHANGED job
  BY DEF Route
<1>3. Touches(k)
  BY <1>1, <1>2, GoingTo DEF Route, IInv, Typed, Touches, webhook, routing
<1>4. RoutedBy(k)'
  BY <1>1, <1>2, GoingTo
     DEF Route, IInv, Typed, Routed, RoutedBy, Counted, routing, At, U, AfterFailure,
         Routing, BeforeRun, BeforeAnswer
<1>5. \A u \in Updates : u = U(k) => Counted(u)'
  BY <1>1, <1>2, GoingTo
     DEF Route, IInv, Typed, Routed, RoutedBy, Counted, routing, At, U, AfterFailure,
         Routing, BeforeRun, BeforeAnswer
<1>6. switched' + ahead(worker'[k].at = "switch") + ahead(admin = "switch") <= handoffs'
  BY <1>1, <1>2, GoingTo, ListedBy DEF Route, IInv, Typed, At, ahead, routing
<1>7. worker'[k].at \in {"decide", "run", "handoff", "switch"} => worker'[k].link.conv = link'.conv
  BY <1>1, <1>2, GoingTo DEF Route, IInv, Typed, Linked, LinkType, At, routing
<1> QED
  BY <1>1, <1>2, <1>3, <1>4, <1>5, <1>6, <1>7, GoingTo, Acting DEF Shows

\* What the message asks for.
LEMMA Decide_ ==
    ASSUME IInv, NEW k \in Workers, Decide(k)
    PROVE  IInv'
<1>1. ~At(k, "idle") /\ {"send", "handoff", "run", "fail"} \subseteq Places \ {"idle"}
  BY DEF Decide, At, Places, Routing, BeforeRun, BeforeAnswer
<1>2. (Goto(k, "send") \/ Goto(k, "handoff") \/ Goto(k, "run") \/ Goto(k, "fail")) /\ UNCHANGED job
  BY DEF Decide
<1>3. Touches(k)
  <2>1. link' \in LinkType
    BY DEF Decide, IInv, Typed, LinkType
  <2> QED
    BY <1>1, <1>2, <2>1, GoingTo DEF Decide, IInv, Typed, Touches, webhook
<1>4. RoutedBy(k)'
  BY <1>1, <1>2, GoingTo
     DEF Decide, IInv, Typed, Routed, RoutedBy, Counted, routing, At, U, AfterFailure,
         Routing, BeforeRun, BeforeAnswer
<1>5. \A u \in Updates : u = U(k) => Counted(u)'
  BY <1>1, <1>2, GoingTo
     DEF Decide, IInv, Typed, Routed, RoutedBy, Counted, routing, At, U, AfterFailure,
         Routing, BeforeRun, BeforeAnswer
<1>6. switched' + ahead(worker'[k].at = "switch") + ahead(admin = "switch") <= handoffs'
  BY <1>1, <1>2, GoingTo, ListedBy DEF Decide, IInv, Typed, At, ahead, routing
<1>7. worker'[k].at \in {"decide", "run", "handoff", "switch"} => worker'[k].link.conv = link'.conv
  BY <1>1, <1>2, GoingTo DEF Decide, IInv, Typed, Linked, LinkType, At, routing
<1> QED
  BY <1>1, <1>2, <1>3, <1>4, <1>5, <1>6, <1>7, GoingTo, Acting DEF Shows

\* The agent runs.
LEMMA AgentRun_ ==
    ASSUME IInv, NEW k \in Workers, AgentRun(k)
    PROVE  IInv'
<1>1. ~At(k, "idle") /\ {"send", "handoff", "fail"} \subseteq Places \ {"idle"}
  BY DEF AgentRun, At, Places, Routing, BeforeRun, BeforeAnswer
<1>2. (Goto(k, "send") \/ Goto(k, "handoff") \/ Goto(k, "fail")) /\ UNCHANGED job
  BY DEF AgentRun
<1>3. Touches(k)
  BY <1>1, <1>2, GoingTo DEF AgentRun, IInv, Typed, Touches, webhook, routing
<1>4. RoutedBy(k)'
  BY <1>1, <1>2, GoingTo
     DEF AgentRun, IInv, Typed, Routed, RoutedBy, Counted, routing, At, U, AfterFailure,
         Routing, BeforeRun, BeforeAnswer
<1>5. \A u \in Updates : u = U(k) => Counted(u)'
  <2>1. U(k) \in Updates /\ runs[U(k)] = 0 /\ event[U(k)] # "none" /\ text' = text
        /\ event' = event /\ answers' = answers /\ runs' = [runs EXCEPT ![U(k)] = @ + 1]
    BY <1>1, <1>2, GoingTo
       DEF AgentRun, IInv, Routed, RoutedBy, At, U, AfterFailure, Routing, BeforeRun,
           BeforeAnswer
  <2> QED
    BY <2>1 DEF IInv, Typed, Routed, Counted
<1>6. switched' + ahead(worker'[k].at = "switch") + ahead(admin = "switch") <= handoffs'
  BY <1>1, <1>2, GoingTo, ListedBy DEF AgentRun, IInv, Typed, At, ahead, routing
<1>7. worker'[k].at \in {"decide", "run", "handoff", "switch"} => worker'[k].link.conv = link'.conv
  BY <1>1, <1>2, GoingTo DEF AgentRun, IInv, Typed, Linked, LinkType, At, routing
<1> QED
  BY <1>1, <1>2, <1>3, <1>4, <1>5, <1>6, <1>7, GoingTo, Acting DEF Shows

\* The row for the inbox.
LEMMA HandoffInsert_ ==
    ASSUME IInv, NEW k \in Workers, HandoffInsert(k)
    PROVE  IInv'
<1>1. ~At(k, "idle") /\ {"switch", "tell", "fail"} \subseteq Places \ {"idle"}
  BY DEF HandoffInsert, At, Places, Routing, BeforeRun, BeforeAnswer
<1>2. (Goto(k, "switch") \/ Goto(k, "tell") \/ Goto(k, "fail")) /\ UNCHANGED job
  BY DEF HandoffInsert
<1>3. Touches(k)
  BY <1>1, <1>2, GoingTo DEF HandoffInsert, IInv, Typed, Touches, webhook, routing
<1>4. RoutedBy(k)'
  BY <1>1, <1>2, GoingTo
     DEF HandoffInsert, IInv, Typed, Routed, RoutedBy, Counted, routing, At, U,
         AfterFailure, Routing, BeforeRun, BeforeAnswer
<1>5. \A u \in Updates : u = U(k) => Counted(u)'
  BY <1>1, <1>2, GoingTo
     DEF HandoffInsert, IInv, Typed, Routed, RoutedBy, Counted, routing, At, U,
         AfterFailure, Routing, BeforeRun, BeforeAnswer
<1>6. switched' + ahead(worker'[k].at = "switch") + ahead(admin = "switch") <= handoffs'
  BY <1>1, <1>2, GoingTo, ListedBy DEF HandoffInsert, IInv, Typed, At, ahead, routing
<1>7. worker'[k].at \in {"decide", "run", "handoff", "switch"} => worker'[k].link.conv = link'.conv
  BY <1>1, <1>2, GoingTo DEF HandoffInsert, IInv, Typed, Linked, LinkType, At, routing
<1> QED
  BY <1>1, <1>2, <1>3, <1>4, <1>5, <1>6, <1>7, GoingTo, Acting DEF Shows

\* The link is given to a human.
LEMMA HandoffSwitch_ ==
    ASSUME IInv, NEW k \in Workers, HandoffSwitch(k)
    PROVE  IInv'
<1>1. ~At(k, "idle") /\ {"tell", "send"} \subseteq Places \ {"idle"}
  BY DEF HandoffSwitch, At, Places, Routing, BeforeRun, BeforeAnswer
<1>2. (Goto(k, "tell") \/ Goto(k, "send")) /\ UNCHANGED job
  BY DEF HandoffSwitch
<1>3. Touches(k)
  <2>1. link' \in LinkType
    BY DEF HandoffSwitch, IInv, Typed, LinkType, givenToHuman
  <2> QED
    BY <1>1, <1>2, <2>1, GoingTo DEF HandoffSwitch, IInv, Typed, Touches, webhook
<1>4. RoutedBy(k)'
  BY <1>1, <1>2, GoingTo
     DEF HandoffSwitch, IInv, Typed, Routed, RoutedBy, Counted, routing, At, U,
         AfterFailure, Routing, BeforeRun, BeforeAnswer
<1>5. \A u \in Updates : u = U(k) => Counted(u)'
  BY <1>1, <1>2, GoingTo
     DEF HandoffSwitch, IInv, Typed, Routed, RoutedBy, Counted, routing, At, U,
         AfterFailure, Routing, BeforeRun, BeforeAnswer
<1>6. switched' + ahead(worker'[k].at = "switch") + ahead(admin = "switch") <= handoffs'
  BY <1>1, <1>2, GoingTo, ListedBy DEF HandoffSwitch, IInv, Typed, At, ahead, routing
<1>7. worker'[k].at \in {"decide", "run", "handoff", "switch"} => worker'[k].link.conv = link'.conv
  BY <1>1, <1>2, GoingTo DEF HandoffSwitch, IInv, Typed, Linked, LinkType, At, routing, givenToHuman
<1> QED
  BY <1>1, <1>2, <1>3, <1>4, <1>5, <1>6, <1>7, GoingTo, Acting DEF Shows

\* The answer is sent, or refused.
LEMMA Send_ ==
    ASSUME IInv, NEW k \in Workers, Send(k)
    PROVE  IInv'
<1>1. ~At(k, "idle") /\ {"close", "fail"} \subseteq Places \ {"idle"}
  BY DEF Send, At, Places, Routing, BeforeRun, BeforeAnswer
<1>2. (Goto(k, "close") \/ Goto(k, "fail")) /\ UNCHANGED job
  BY DEF Send
<1>3. Touches(k)
  BY <1>1, <1>2, GoingTo DEF Send, IInv, Typed, Touches, webhook, routing
<1>4. RoutedBy(k)'
  BY <1>1, <1>2, GoingTo
     DEF Send, IInv, Typed, Routed, RoutedBy, Counted, routing, At, U, AfterFailure,
         Routing, BeforeRun, BeforeAnswer
<1>5. \A u \in Updates : u = U(k) => Counted(u)'
  BY <1>1, <1>2, GoingTo
     DEF Send, IInv, Typed, Routed, RoutedBy, Counted, routing, At, U, AfterFailure,
         Routing, BeforeRun, BeforeAnswer
<1>6. switched' + ahead(worker'[k].at = "switch") + ahead(admin = "switch") <= handoffs'
  BY <1>1, <1>2, GoingTo, ListedBy DEF Send, IInv, Typed, At, ahead, routing
<1>7. worker'[k].at \in {"decide", "run", "handoff", "switch"} => worker'[k].link.conv = link'.conv
  BY <1>1, <1>2, GoingTo DEF Send, IInv, Typed, Linked, LinkType, At, routing
<1> QED
  BY <1>1, <1>2, <1>3, <1>4, <1>5, <1>6, <1>7, GoingTo, Acting DEF Shows

\* The event is completed.
LEMMA Close_ ==
    ASSUME IInv, NEW k \in Workers, Close(k)
    PROVE  IInv'
<1>1. ~At(k, "idle") /\ "mark" \in Places \ {"idle"}
  BY DEF Close, At, Places, Routing, BeforeRun, BeforeAnswer
<1>2. Goto(k, "mark") /\ UNCHANGED job
  BY DEF Close
<1>3. Touches(k)
  BY <1>1, <1>2, GoingTo DEF Close, IInv, Typed, Touches, webhook, routing
<1>4. RoutedBy(k)'
  BY <1>1, <1>2, GoingTo
     DEF Close, IInv, Typed, Routed, RoutedBy, Counted, routing, At, U, AfterFailure,
         Routing, BeforeRun, BeforeAnswer
<1>5. \A u \in Updates : u = U(k) => Counted(u)'
  BY <1>1, <1>2, GoingTo
     DEF Close, IInv, Typed, Routed, RoutedBy, Counted, routing, At, U, AfterFailure,
         Routing, BeforeRun, BeforeAnswer
<1>6. switched' + ahead(worker'[k].at = "switch") + ahead(admin = "switch") <= handoffs'
  BY <1>1, <1>2, GoingTo, ListedBy DEF Close, IInv, Typed, At, ahead, routing
<1>7. worker'[k].at \in {"decide", "run", "handoff", "switch"} => worker'[k].link.conv = link'.conv
  BY <1>1, <1>2, GoingTo DEF Close, IInv, Typed, Linked, LinkType, At, routing
<1> QED
  BY <1>1, <1>2, <1>3, <1>4, <1>5, <1>6, <1>7, GoingTo, Acting DEF Shows

\* The person is told of a failure.
LEMMA Tell_ ==
    ASSUME IInv, NEW k \in Workers, Tell(k)
    PROVE  IInv'
<1>1. ~At(k, "idle") /\ "markfailed" \in Places \ {"idle"}
  BY DEF Tell, At, Places, Routing, BeforeRun, BeforeAnswer
<1>2. Goto(k, "markfailed") /\ UNCHANGED job
  BY DEF Tell
<1>3. Touches(k)
  BY <1>1, <1>2, GoingTo DEF Tell, IInv, Typed, Touches, webhook, routing
<1>4. RoutedBy(k)'
  BY <1>1, <1>2, GoingTo
     DEF Tell, IInv, Typed, Routed, RoutedBy, Counted, routing, At, U, AfterFailure,
         Routing, BeforeRun, BeforeAnswer
<1>5. \A u \in Updates : u = U(k) => Counted(u)'
  BY <1>1, <1>2, GoingTo
     DEF Tell, IInv, Typed, Routed, RoutedBy, Counted, routing, At, U, AfterFailure,
         Routing, BeforeRun, BeforeAnswer
<1>6. switched' + ahead(worker'[k].at = "switch") + ahead(admin = "switch") <= handoffs'
  BY <1>1, <1>2, GoingTo, ListedBy DEF Tell, IInv, Typed, At, ahead, routing
<1>7. worker'[k].at \in {"decide", "run", "handoff", "switch"} => worker'[k].link.conv = link'.conv
  BY <1>1, <1>2, GoingTo DEF Tell, IInv, Typed, Linked, LinkType, At, routing
<1> QED
  BY <1>1, <1>2, <1>3, <1>4, <1>5, <1>6, <1>7, GoingTo, Acting DEF Shows

\* The link is read: the conversation is gone on with, or made.
LEMMA LinkRead_ ==
    ASSUME IInv, NEW k \in Workers, LinkRead(k)
    PROVE  IInv'
<1> DEFINE p == IF ~continued(link) \/ (text[U(k)] = "new" /\ ~worker[k].failed) THEN "create"
                ELSE IF worker[k].failed THEN "handoff" ELSE "decide"
       r == [worker[k] EXCEPT !.link = link, !.at = p]
<1>1. ~At(k, "idle") /\ p \in Places \ {"idle"} /\ p \in {"create", "handoff", "decide"}
  BY DEF LinkRead, At, Places, Routing, BeforeRun, BeforeAnswer
<1>2. /\ worker[k].failed \in BOOLEAN /\ link \in LinkType
      /\ worker[k].failed => p # "decide"
      /\ ~worker[k].failed => p # "handoff"
  BY DEF IInv, Typed, WorkerType
<1>3. worker' = [worker EXCEPT ![k] = r]
      /\ UNCHANGED <<text, enabled, update, job, webhook, admin, routing>>
  BY DEF LinkRead, IInv, Typed, WorkerType
<1>r. r \in WorkerType /\ r.at = p /\ r.u = U(k) /\ r.link = link /\ r.failed = worker[k].failed
  BY <1>1, <1>2 DEF IInv, Typed, WorkerType, U
<1> HIDE DEF p, r
<1>4. /\ worker' \in [Workers -> WorkerType]
      /\ \A j \in Workers \ {k} : worker'[j] = worker[j]
      /\ GoesOn(k)
      /\ worker'[k].at = p /\ worker'[k].link = link /\ worker'[k].failed = worker[k].failed
      /\ worker'[k].u = U(k)
      /\ U(k) \in Updates /\ \A u \in Updates : u = U(k) => Handled(u)'
  BY <1>1, <1>2, <1>3, <1>r, Going DEF routing
<1>5. Touches(k)
  BY <1>3, <1>4 DEF IInv, Typed, Touches, webhook, routing
<1>6. RoutedBy(k)' /\ \A u \in Updates : Counted(u)'
  BY <1>1, <1>2, <1>3, <1>4
     DEF LinkRead, IInv, Routed, RoutedBy, Counted, routing, At, U, AfterFailure, Routing,
         BeforeRun, BeforeAnswer
<1>7. switched' + ahead(worker'[k].at = "switch") + ahead(admin = "switch") <= handoffs'
  BY <1>1, <1>3, <1>4, ListedBy DEF LinkRead, IInv, At, ahead, routing
<1> QED
  BY <1>1, <1>3, <1>4, <1>5, <1>6, <1>7, Acting DEF Shows, routing

\* The conversation is made and the link written.
LEMMA LinkWrite_ ==
    ASSUME IInv, NEW k \in Workers, LinkWrite(k)
    PROVE  IInv'
<1> DEFINE p == IF worker[k].failed THEN "handoff" ELSE "decide"
       r == [worker[k] EXCEPT !.link = link', !.at = p]
<1>1. ~At(k, "idle") /\ p \in Places \ {"idle"} /\ p \in {"handoff", "decide"}
  BY DEF LinkWrite, At, Places, Routing, BeforeRun, BeforeAnswer
<1>2. worker[k].failed \in BOOLEAN /\ made' \in Nat /\ link' \in LinkType
  BY DEF IInv, Typed, WorkerType, LinkType, LinkWrite
<1>3. worker' = [worker EXCEPT ![k] = r]
      /\ UNCHANGED <<text, enabled, update, job, webhook, event, admin,
                     handoffs, switched, runs, answers>>
  BY DEF LinkWrite, IInv, Typed, WorkerType
<1>4. worker[k].failed => p # "decide"
  OBVIOUS
<1>5. ~worker[k].failed => p # "handoff"
  OBVIOUS
<1>r. r \in WorkerType /\ r.at = p /\ r.u = U(k) /\ r.link = link' /\ r.failed = worker[k].failed
  <2>1. worker[k] \in WorkerType
    BY DEF IInv, Typed
  <2> QED
    BY <1>1, <1>2, <2>1 DEF WorkerType, U
<1> HIDE DEF p, r
<1>6. /\ worker' \in [Workers -> WorkerType]
      /\ \A j \in Workers \ {k} : worker'[j] = worker[j]
      /\ GoesOn(k)
      /\ worker'[k].at = p /\ worker'[k].link = link' /\ worker'[k].failed = worker[k].failed
      /\ worker'[k].u = U(k)
      /\ U(k) \in Updates /\ \A u \in Updates : u = U(k) => Handled(u)'
  BY <1>1, <1>2, <1>3, <1>r, Going
<1>7. Touches(k)
  BY <1>2, <1>3, <1>6 DEF IInv, Typed, Touches, webhook
<1>8. RoutedBy(k)' /\ \A u \in Updates : Counted(u)'
  BY <1>1, <1>3, <1>4, <1>5, <1>6
     DEF LinkWrite, IInv, Routed, RoutedBy, Counted, At, U, AfterFailure, Routing,
         BeforeRun, BeforeAnswer
<1>9. switched' + ahead(worker'[k].at = "switch") + ahead(admin = "switch") <= handoffs'
  BY <1>1, <1>3, <1>6, ListedBy DEF LinkWrite, IInv, At, ahead
<1> QED
  BY <1>1, <1>6, <1>7, <1>8, <1>9, Acting DEF Shows

\* The catch of the router.
LEMMA Fail_ ==
    ASSUME IInv, NEW k \in Workers, Fail(k)
    PROVE  IInv'
<1> DEFINE p == IF HandOnFailure THEN "link" ELSE "tell"
       r == [worker[k] EXCEPT !.failed = TRUE, !.at = p]
<1>1. ~At(k, "idle") /\ p \in Places \ {"idle"} /\ p \in {"link", "tell"}
  BY DEF Fail, At, Places, Routing, BeforeRun, BeforeAnswer
<1>2. worker[k].link \in LinkType
  BY DEF IInv, Typed, WorkerType
<1>3. worker' = [worker EXCEPT ![k] = r]
      /\ event' = [event EXCEPT ![U(k)] = "failed"]
      /\ UNCHANGED <<text, enabled, update, job, webhook, link, admin,
                     handoffs, made, switched, runs, answers>>
  BY DEF Fail, IInv, Typed, WorkerType
<1>r. r \in WorkerType /\ r.at = p /\ r.u = U(k) /\ r.link = worker[k].link /\ r.failed = TRUE
  BY <1>1, <1>2 DEF IInv, Typed, WorkerType, U
<1> HIDE DEF p, r
<1>4. /\ worker' \in [Workers -> WorkerType]
      /\ \A j \in Workers \ {k} : worker'[j] = worker[j]
      /\ GoesOn(k)
      /\ worker'[k].at = p /\ worker'[k].link = worker[k].link /\ worker'[k].failed = TRUE
      /\ worker'[k].u = U(k)
      /\ U(k) \in Updates /\ \A u \in Updates : u = U(k) => Handled(u)'
  BY <1>1, <1>2, <1>3, <1>r, Going
<1>5. Touches(k)
  BY <1>3, <1>4 DEF IInv, Typed, Touches, webhook
<1>6. RoutedBy(k)' /\ \A u \in Updates : Counted(u)'
  BY <1>1, <1>3, <1>4
     DEF Fail, IInv, Typed, Routed, RoutedBy, Counted, At, U, AfterFailure, Routing,
         BeforeRun, BeforeAnswer
<1>7. switched' + ahead(worker'[k].at = "switch") + ahead(admin = "switch") <= handoffs'
  BY <1>1, <1>3, <1>4, ListedBy DEF Fail, IInv, At, ahead
<1> QED
  BY <1>1, <1>3, <1>4, <1>5, <1>6, <1>7, Acting DEF Shows

-----------------------------------------------------------------------------
(* The queue.                                                              *)

\* What the queue makes of a row is a row.
LEMMA Rows ==
    ASSUME NEW r \in RowType
    PROVE  /\ {Job!Absent, Job!added(r), Job!taken(r), Job!returned(r, Tries)}
                 \subseteq RowType
           /\ Job!taken(r).st = "locked" /\ Job!returned(r, Tries).st \in {"waiting", "dead"}
           /\ Job!added(r).st # "absent" /\ (r.st = "locked" => Job!added(r).st = "locked")
           /\ (r.st # "locked" => Job!added(r).st # "locked")
BY DEF Job!Absent, Job!added, Job!taken, Job!returned, Job!RowStates, RowType

\* A worker that leaves its job does so without a trace of itself.
LEMMA Leaving ==
    ASSUME IInv, NEW k \in Workers, ~At(k, "idle"), NEW r \in RowType,
           worker' = [worker EXCEPT ![k] = NoWork], job' = [job EXCEPT ![U(k)] = r],
           UNCHANGED <<text, enabled, request, acked, admin, event, link, handoffs, made,
                       switched, runs, answers>>,
           update' \in [Updates -> UpdateType],
           \A u \in Updates \ {U(k)} : update'[u] = update[u],
           \/ r.st # "absent" \/ answers[U(k)] > 0 \/ event[U(k)] # "none"
           \/ ~enabled \/ text[U(k)] = "other"
    PROVE  IInv'
<1>1. U(k) \in Updates /\ Leaves(k) /\ worker'[k].at = "idle"
  BY NoWorkTyped DEF IInv, Held, Leaves, Typed
<1>2. Touches(k)
  BY <1>1, NoWorkTyped DEF IInv, Typed, Touches
<1>3. RoutedBy(k)' /\ \A u \in Updates : Counted(u)'
  BY <1>1, NoWorkTyped
     DEF IInv, Routed, RoutedBy, Counted, Leaves, At, Routing, BeforeAnswer, BeforeRun
<1>4. \A u \in Updates : u = U(k) => Handled(u)'
  BY <1>1 DEF Handled, IInv, Typed
<1>5. switched' + ahead(worker'[k].at = "switch") + ahead(admin = "switch") <= handoffs'
  <2>1. switched + ahead(At(k, "switch")) + ahead(admin = "switch") <= handoffs
    BY ListedBy DEF IInv
  <2>2. switched \in Nat /\ handoffs \in Nat
    BY DEF IInv, Typed
  <2> QED
    BY <1>1, <2>1, <2>2 DEF ahead
<1> QED
  BY <1>1, <1>2, <1>3, <1>4, <1>5, Acting DEF Shows

\* An update that is not for the router ends here.
LEMMA Open_ ==
    ASSUME IInv, NEW k \in Workers, Open(k)
    PROVE  IInv'
<1>0. ~At(k, "idle") /\ {"reply", "accept"} \subseteq Places \ {"idle"} /\ U(k) \in Updates
  BY DEF Open, At, Places, IInv, Held
<1>1. CASE ~enabled \/ text[U(k)] = "other"
  <2>1. /\ worker' = [worker EXCEPT ![k] = NoWork] /\ job' = [job EXCEPT ![U(k)] = Job!Absent]
        /\ update' = [update EXCEPT ![U(k)] = [st |-> "ignored", err |-> "other"]]
        /\ UNCHANGED <<text, enabled, request, acked, admin, event, link, handoffs, made,
                       switched, runs, answers>>
    BY <1>1 DEF Open, Ends, webhook, routing
  <2>2. Job!Absent \in RowType
    BY DEF Job!Absent, Job!RowStates, RowType
  <2>3. update' \in [Updates -> UpdateType]
    BY <2>1 DEF IInv, Typed, UpdateType
  <2> QED
    BY <1>0, <1>1, <2>1, <2>2, <2>3, Leaving DEF IInv, Typed
<1>2. CASE ~(~enabled \/ text[U(k)] = "other")
  <2> DEFINE p == IF text[U(k)] = "direct" THEN "reply" ELSE "accept"
  <2>1. Goto(k, p) /\ UNCHANGED job /\ UNCHANGED <<text, enabled, update, webhook, admin, routing>>
    BY <1>2 DEF Open
  <2>2. p \in Places \ {"idle"} /\ p \in {"reply", "accept"}
        /\ (p = "reply" <=> text[U(k)] = "direct")
    BY <1>0
  <2> HIDE DEF p
  <2>3. Touches(k)
    BY <1>0, <2>1, <2>2, GoingTo DEF IInv, Typed, Touches, webhook, routing
  <2>4. RoutedBy(k)' /\ \A u \in Updates : Counted(u)'
    BY <1>0, <2>1, <2>2, GoingTo
       DEF Open, IInv, Routed, RoutedBy, Counted, routing, At, U, AfterFailure, Routing,
           BeforeRun, BeforeAnswer
  <2>5. switched' + ahead(worker'[k].at = "switch") + ahead(admin = "switch") <= handoffs'
    BY <1>0, <2>1, <2>2, GoingTo, ListedBy DEF Open, IInv, At, ahead, routing
  <2> QED
    BY <1>0, <2>1, <2>2, <2>3, <2>4, <2>5, GoingTo, Acting DEF Shows
<1> QED
  BY <1>1, <1>2

\* An update is marked completed when it was answered or its event is there.
LEMMA MarkCompleted_ ==
    ASSUME IInv, NEW k \in Workers, MarkCompleted(k)
    PROVE  IInv'
<1>1. ~At(k, "idle") /\ (answers[U(k)] > 0 \/ event[U(k)] # "none")
  BY DEF MarkCompleted, At, IInv, Routed, RoutedBy
<1>2. /\ worker' = [worker EXCEPT ![k] = NoWork] /\ job' = [job EXCEPT ![U(k)] = Job!Absent]
      /\ update' = [update EXCEPT ![U(k)] = [st |-> "completed", err |-> "none"]]
      /\ UNCHANGED <<text, enabled, request, acked, admin, event, link, handoffs, made,
                     switched, runs, answers>>
  BY DEF MarkCompleted, Ends, webhook, routing
<1>3. Job!Absent \in RowType
  BY DEF Job!Absent, Job!RowStates, RowType
<1>4. update' \in [Updates -> UpdateType]
  BY <1>2 DEF IInv, Typed, UpdateType
<1>5. \A u \in Updates \ {U(k)} : update'[u] = update[u]
  BY <1>2 DEF IInv, Typed
<1> QED
  BY <1>1, <1>2, <1>3, <1>4, <1>5, Leaving

\* The job of a worker that throws or is lost stays with the queue.
LEMMA Rethrow_ ==
    ASSUME IInv, NEW k \in Workers, Rethrow(k)
    PROVE  IInv'
<1>1. ~At(k, "idle")
  BY DEF Rethrow, At
<1>2. U(k) \in Updates /\ job[U(k)] \in RowType
  BY <1>1 DEF IInv, Held, Typed
<1> DEFINE r == Job!returned(job[U(k)], Tries)
<1>3. r \in RowType /\ r.st # "absent"
  BY <1>2, Rows
<1>4. /\ worker' = [worker EXCEPT ![k] = NoWork] /\ job' = [job EXCEPT ![U(k)] = r]
      /\ UNCHANGED <<text, enabled, request, acked, admin, event, link, handoffs, made,
                     switched, runs, answers, update>>
  BY DEF Rethrow, webhook, routing
<1> HIDE DEF r
<1>5. update' \in [Updates -> UpdateType]
  BY <1>4 DEF IInv, Typed
<1> QED
  BY <1>1, <1>3, <1>4, <1>5, Leaving

\* Nothing but what the webhook and the queue do to jobs, updates and requests.
NotRouting == UNCHANGED <<text, enabled, worker, admin, event, link, handoffs, made, switched, runs, answers>>

\* A job that is added or taken, and an acknowledgement that is right, are all
\* the webhook and the queue have to show.
LEMMA Webhook ==
    ASSUME IInv, NotRouting,
           job' \in [Updates -> RowType],
           \A u \in Updates : /\ job[u].st = "locked" => job'[u].st = "locked"
                              /\ job[u].st # "absent" => job'[u].st # "absent",
           update' \in [Updates -> UpdateType],
           request' \in [Requests -> RequestType], acked' \in [Updates -> BOOLEAN],
           \A p \in Requests : /\ request'[p].at # "idle" => request'[p].u \in Updates
                               /\ request'[p].at = "mark" =>
                                       \/ Handled(request[p].u) /\ request'[p] = request[p]
                                       \/ job'[request'[p].u].st # "absent",
           \A u \in Updates : Terminal(u)' \/ acked'[u] => Handled(u)
    PROVE  IInv'
<1>1. Typed'
  BY DEF IInv, Typed, NotRouting
<1>2. Held'
  BY DEF IInv, Held, NotRouting, At, U
<1>3. Routed' /\ Listed' /\ Linked'
  BY DEF IInv, Routed, RoutedBy, Counted, Listed, Linked, NotRouting, At, U
<1>4. \A u \in Updates : Handled(u) => Handled(u)'
  BY DEF Handled, NotRouting
<1>5. Acknowledged'
  <2>1. ASSUME NEW p \in Requests, request'[p].at = "mark" PROVE Handled(request[p].u)'
    <3>1. request'[p].u \in Updates
      BY <2>1
    <3>2. CASE Handled(request[p].u) /\ request'[p] = request[p]
      BY <1>4, <3>1, <3>2 DEF Handled, NotRouting
    <3>3. CASE job'[request'[p].u].st # "absent"
      BY <3>3 DEF Handled
    <3> QED
      BY <2>1, <3>2, <3>3
  <2> QED
    BY <1>4, <2>1 DEF Acknowledged
<1> QED
  BY <1>1, <1>2, <1>3, <1>5 DEF IInv

\* The webhook's statements.
LEMMA Receive_ ==
    ASSUME IInv, NEW p \in Requests, Receive(p)
    PROVE  IInv'
<1>1. PICK u \in Updates :
         \/ /\ ~enabled \/ Terminal(u)
            /\ Answer(u) /\ UNCHANGED <<request, update>>
         \/ /\ enabled /\ ~Terminal(u)
            /\ request' = [request EXCEPT ![p] = [at |-> "enqueue", u |-> u]]
            /\ update' = IF update[u].st = "none"
                         THEN [update EXCEPT ![u].st = "accepted"] ELSE update
            /\ UNCHANGED acked
         \/ UNCHANGED <<request, update, acked>>
  BY DEF Receive
<1>2. NotRouting /\ UNCHANGED job
  BY DEF Receive, NotRouting, routing
<1>3. CASE Answer(u) /\ (~enabled \/ Terminal(u)) /\ UNCHANGED <<request, update>>
  <2>1. Handled(u)
    BY <1>3 DEF IInv, Acknowledged, Handled
  <2> QED
    BY <1>2, <1>3, <2>1, Webhook DEF IInv, Typed, Acknowledged, Answer, Terminal
<1>4. CASE /\ enabled /\ ~Terminal(u)
           /\ request' = [request EXCEPT ![p] = [at |-> "enqueue", u |-> u]]
           /\ update' = IF update[u].st = "none"
                        THEN [update EXCEPT ![u].st = "accepted"] ELSE update
           /\ UNCHANGED acked
  <2>1. request' \in [Requests -> RequestType]
    BY <1>4 DEF IInv, Typed, RequestType
  <2>2. update' \in [Updates -> UpdateType]
    BY <1>4 DEF IInv, Typed, UpdateType
  <2>3. \A v \in Updates : Terminal(v)' => Terminal(v)
    BY <1>4 DEF IInv, Typed, Terminal
  <2>4. \A q \in Requests : /\ request'[q].at # "idle" => request'[q].u \in Updates
                            /\ request'[q].at = "mark" => Handled(request[q].u) /\ request'[q] = request[q]
    BY <1>4 DEF IInv, Typed, Acknowledged
  <2> QED
    BY <1>2, <1>4, <2>1, <2>2, <2>3, <2>4, Webhook DEF IInv, Typed, Acknowledged
<1>5. CASE UNCHANGED <<request, update, acked>>
  BY <1>2, <1>5, Webhook DEF IInv, Typed, Acknowledged, Terminal
<1> QED
  BY <1>1, <1>3, <1>4, <1>5

\* The job is added, or the queue cannot be reached.
LEMMA Enqueue_ ==
    ASSUME IInv, NEW p \in Requests, Enqueue(p)
    PROVE  IInv'
<1> DEFINE u == request[p].u
<1>0. NotRouting /\ UNCHANGED <<update, acked>> /\ u \in Updates
  BY DEF Enqueue, NotRouting, routing, IInv, Acknowledged
<1>1. CASE /\ job' = [job EXCEPT ![u] = Job!added(@)]
           /\ request' = [request EXCEPT ![p].at = "mark"]
  <2>1. job' \in [Updates -> RowType] /\ job'[u].st # "absent"
        /\ \A v \in Updates : /\ job[v].st = "locked" => job'[v].st = "locked"
                              /\ job[v].st # "absent" => job'[v].st # "absent"
    BY <1>0, <1>1, Rows DEF IInv, Typed
  <2>2. request' \in [Requests -> RequestType] /\ request'[p].u = u
        /\ \A q \in Requests \ {p} : request'[q] = request[q]
    BY <1>1 DEF IInv, Typed, RequestType
  <2>3. \A q \in Requests : /\ request'[q].at # "idle" => request'[q].u \in Updates
                            /\ request'[q].at = "mark" =>
                                    \/ Handled(request[q].u) /\ request'[q] = request[q]
                                    \/ job'[request'[q].u].st # "absent"
    BY <1>0, <2>1, <2>2 DEF IInv, Acknowledged
  <2> QED
    BY <1>0, <2>1, <2>2, <2>3, Webhook DEF IInv, Typed, Acknowledged, Terminal
<1>2. CASE request' = [request EXCEPT ![p].at = "unavailable"] /\ UNCHANGED job
  <2>1. request' \in [Requests -> RequestType] /\ request'[p].u = u /\ request'[p].at = "unavailable"
        /\ \A q \in Requests \ {p} : request'[q] = request[q]
    BY <1>2 DEF IInv, Typed, RequestType
  <2>2. \A q \in Requests : /\ request'[q].at # "idle" => request'[q].u \in Updates
                            /\ request'[q].at = "mark" => Handled(request[q].u) /\ request'[q] = request[q]
    BY <1>0, <2>1 DEF IInv, Acknowledged
  <2> QED
    BY <1>0, <1>2, <2>1, <2>2, Webhook DEF IInv, Typed, Acknowledged, Terminal
<1> QED
  BY <1>1, <1>2 DEF Enqueue

\* A request that marks its row, or is lost.
LEMMA Marking ==
    ASSUME IInv, NEW p \in Requests, MarkAccepted(p) \/ MarkUnavailable(p) \/ RequestLost(p)
    PROVE  IInv'
<1> DEFINE u == request[p].u
<1>1. NotRouting /\ UNCHANGED job /\ request' = [request EXCEPT ![p] = NoRequest]
  BY DEF MarkAccepted, MarkUnavailable, RequestLost, NotRouting, routing
<1>2. request' \in [Requests -> RequestType]
      /\ \A q \in Requests : /\ request'[q].at # "idle" => request'[q].u \in Updates
                             /\ request'[q].at = "mark" => Handled(request[q].u) /\ request'[q] = request[q]
  BY <1>1 DEF IInv, Typed, Acknowledged, RequestType, NoRequest
<1>3. update' \in [Updates -> UpdateType]
      /\ \A v \in Updates : Terminal(v)' => Terminal(v)
  <2>1. u \in Updates
    BY DEF MarkAccepted, MarkUnavailable, RequestLost, IInv, Acknowledged
  <2>2. \/ update' = [update EXCEPT ![u] = [st |-> "accepted", err |-> "none"]]
        \/ update' = [update EXCEPT ![u] = [st |-> "accepted", err |-> "queue"]]
        \/ update' = update
    BY DEF MarkAccepted, MarkUnavailable, RequestLost
  <2>3. update \in [Updates -> UpdateType]
    BY DEF IInv, Typed
  <2>4. ASSUME NEW e \in {"none", "queue"}, update' = [update EXCEPT ![u] = [st |-> "accepted", err |-> e]]
        PROVE  update' \in [Updates -> UpdateType] /\ \A v \in Updates : Terminal(v)' => Terminal(v)
    BY <2>1, <2>3, <2>4 DEF Terminal, UpdateType
  <2> QED
    BY <2>2, <2>3, <2>4 DEF Terminal
<1>4. acked' \in [Updates -> BOOLEAN] /\ \A v \in Updates : acked'[v] => acked[v] \/ (v = u /\ Handled(u))
  BY DEF MarkAccepted, MarkUnavailable, RequestLost, IInv, Typed, Acknowledged, Answer
<1> QED
  BY <1>1, <1>2, <1>3, <1>4, Webhook DEF IInv, Typed, Acknowledged

\* The queue lets a worker in when none is at work.
LEMMA Take_ ==
    ASSUME IInv, NEW k \in Workers, Take(k)
    PROVE  IInv'
<1>1. PICK u \in Updates : /\ job' = [job EXCEPT ![u] = Job!taken(@)]
                           /\ worker' = [worker EXCEPT ![k] = [NoWork EXCEPT !.at = "open", !.u = u]]
  BY DEF Take
<1>2. UNCHANGED <<text, enabled, update, webhook, admin, routing>>
  BY DEF Take
<1>3. \A j \in Workers : At(j, "idle")
  BY DEF Take, QueueFree, IInv, Held
<1>4. job' \in [Updates -> RowType] /\ job'[u].st = "locked"
      /\ \A v \in Updates : job[v].st # "absent" => job'[v].st # "absent"
  BY <1>1, Rows DEF IInv, Typed
<1>5. worker' \in [Workers -> WorkerType] /\ worker'[k].at = "open" /\ worker'[k].u = u
      /\ ~worker'[k].failed /\ \A j \in Workers \ {k} : worker'[j] = worker[j]
  <2> DEFINE r == [NoWork EXCEPT !.at = "open", !.u = u]
  <2>1. r \in WorkerType /\ r.at = "open" /\ r.u = u /\ ~r.failed
    BY NoWorkTyped DEF NoWork, WorkerType, Places
  <2>2. worker' = [worker EXCEPT ![k] = r] /\ worker \in [Workers -> WorkerType]
    BY <1>1 DEF IInv, Typed
  <2> HIDE DEF r
  <2> QED
    BY <2>1, <2>2
<1>6. Typed'
  BY <1>2, <1>4, <1>5 DEF IInv, Typed, webhook, routing
<1>7. Held'
  BY <1>3, <1>4, <1>5 DEF Held, At, U
<1>8. Routed' /\ Listed' /\ Linked'
  <2>1. \A j \in Workers : RoutedBy(j)'
    BY <1>2, <1>3, <1>5 DEF IInv, Routed, RoutedBy, At, U, Routing, BeforeAnswer, BeforeRun
  <2>2. ~(\E j \in Workers : At(j, "switch")) /\ ~(\E j \in Workers : At(j, "switch"))'
    BY <1>3, <1>5 DEF At
  <2> QED
    BY <1>2, <1>3, <1>5, <2>1, <2>2 DEF IInv, Routed, Counted, Listed, Linked, ahead, routing, At
<1>9. Acknowledged'
  BY <1>2, <1>4 DEF IInv, Acknowledged, Handled, Terminal, webhook, routing
<1> QED
  BY <1>6, <1>7, <1>8, <1>9 DEF IInv

-----------------------------------------------------------------------------
(* Administrators.                                                         *)

\* An administrator's handoff has the same two statements.
LEMMA AdminSteps ==
    ASSUME IInv, AdminInsert \/ AdminSwitch
    PROVE  IInv'
<1>1. UNCHANGED <<text, enabled, update, job, webhook, worker, event, made, runs, answers>>
      /\ link' \in LinkType /\ link'.conv = link.conv /\ handoffs' \in Nat /\ switched' \in Nat
  <2>1. link \in LinkType /\ handoffs \in Nat /\ switched \in Nat
    BY DEF IInv, Typed
  <2>2. link' \in LinkType /\ link'.conv = link.conv
    BY <2>1 DEF AdminInsert, AdminSwitch, LinkType
  <2> QED
    BY <2>1, <2>2 DEF AdminInsert, AdminSwitch
<1>2. Typed' /\ Held' /\ Routed' /\ Acknowledged' /\ Linked'
  BY <1>1 DEF IInv, Typed, Held, Routed, RoutedBy, Counted, Acknowledged, Handled, Terminal,
              Linked, webhook, At, U
<1>3. Listed'
  <2>1. (\E k \in Workers : At(k, "switch"))' <=> \E k \in Workers : At(k, "switch")
    BY <1>1 DEF At
  <2> QED
    BY <2>1 DEF AdminInsert, AdminSwitch, IInv, Typed, Listed, ahead
<1> QED
  BY <1>2, <1>3 DEF IInv

\* Without the integration nothing has to be left of an update.
LEMMA Unlink_ ==
    ASSUME IInv, Unlink
    PROVE  IInv'
<1>1. Typed' /\ Held' /\ Routed' /\ Linked' /\ Listed'
  BY
     DEF Unlink, IInv, Typed, Held, Routed, RoutedBy, Counted, Listed, Linked, webhook,
         routing, At, U
<1>2. Acknowledged'
  BY DEF Unlink, IInv, Acknowledged, Handled, Terminal, webhook, routing
<1> QED
  BY <1>1, <1>2 DEF IInv

-----------------------------------------------------------------------------
\* Nothing has happened at first.
LEMMA InitIInv == Init => IInv
<1> SUFFICES ASSUME Init PROVE IInv
  OBVIOUS
<1>1. Typed
  BY NoWorkTyped
     DEF Init, Typed, Fresh, Job!Absent, Job!RowStates, NoRequest, RequestType, RowType,
         UpdateType
<1>2. Held /\ Routed /\ Linked
  BY NoWorkTyped
     DEF Init, Held, Routed, RoutedBy, Counted, Linked, At, Routing, BeforeAnswer, BeforeRun
<1>3. Acknowledged
  BY DEF Init, Acknowledged, NoRequest, Terminal, Fresh
<1>4. Listed
  BY NoWorkTyped DEF Init, Listed, ahead, At
<1> QED
  BY <1>1, <1>2, <1>3, <1>4 DEF IInv

\* Every step keeps the invariant.
LEMMA StepIInv ==
    ASSUME IInv, [Next]_vars
    PROVE  IInv'
<1>1. ASSUME NEW p \in Requests, Receive(p) \/ Serve(p) \/ RequestLost(p) PROVE IInv'
  BY <1>1, Receive_, Enqueue_, Marking DEF Serve
<1>2. ASSUME NEW k \in Workers, Take(k) \/ Process(k) PROVE IInv'
  BY <1>2, Take_, Open_, Reply_, MarkCompleted_, MarkFailed_, Rethrow_, acceptEvent_, Route_,
     LinkRead_, LinkWrite_, Decide_, AgentRun_, HandoffInsert_, HandoffSwitch_, Send_, Close_,
     Fail_, Tell_
     DEF Process
<1>3. CASE UNCHANGED vars
  BY <1>3 DEF vars, IInv, Typed, Held, Routed, RoutedBy, Counted, Acknowledged, Handled, Terminal,
              Listed, Linked, At, U
<1> QED
  BY <1>1, <1>2, <1>3, AdminSteps, Unlink_ DEF Next

\* So it always holds.
LEMMA Invariant == Spec => []IInv
<1>1. IInv /\ [Next]_vars => IInv'
  BY StepIInv
<1> QED
  BY InitIInv, <1>1, PTL DEF Spec

-----------------------------------------------------------------------------
(* Theorems.                                                               *)

\* However often Telegram delivers an update, its job is tried and workers are
\* lost, the agent runs for it at most once and the router answers it at most
\* once: only the worker that inserted the event goes on to either.
THEOREM RoutesOnce == Spec => []RoutedOnce
<1>1. IInv => RoutedOnce
  BY DEF IInv, Routed, Counted, RoutedOnce
<1> QED
  BY <1>1, Invariant, PTL

\* Telegram is answered 200 only for an update that is queued, handled or
\* dropped on purpose, so nothing that it will not deliver again is lost.
THEOREM NothingAcknowledgedIsLost == Spec => []AcknowledgedIsQueued
<1>1. IInv => AcknowledgedIsQueued
  BY DEF IInv, Acknowledged, Handled, AcknowledgedIsQueued
<1> QED
  BY <1>1, Invariant, PTL

\* A worker handles a message in the conversation the person's link leads to,
\* because no other message of the person is handled meanwhile.
THEOREM StaysInConversation == Spec => []InLinkedConversation
<1>1. IInv => InLinkedConversation
  BY DEF IInv, Linked, InLinkedConversation
<1> QED
  BY <1>1, Invariant, PTL

\* Whatever fails between the two statements of a handoff, the inbox has a row
\* for every conversation given to a human.
THEOREM HandoffsAreListed == Spec => []HandoffIsListed
<1>1. IInv => HandoffIsListed
  <2> SUFFICES ASSUME IInv PROVE HandoffIsListed
    OBVIOUS
  <2>1. \A b \in BOOLEAN : ahead(b) \in Nat
    BY DEF ahead
  <2>2. switched + ahead(\E k \in Workers : At(k, "switch")) + ahead(admin = "switch") <= handoffs
        /\ switched \in Nat /\ handoffs \in Nat
    BY DEF IInv, Typed, Listed
  <2> QED
    BY <2>2 DEF HandoffIsListed, ahead
<1> QED
  BY <1>1, Invariant, PTL

=============================================================================
