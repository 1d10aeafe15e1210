------------------------- MODULE WhatsAppLinksProofs -------------------------
(* Theorems about WhatsAppLinks, for any number of users, telephones, links, *)
(* payloads, deliveries and attempts and every set of events.                *)
EXTENDS WhatsAppLinks, FiniteSetTheorems, TLAPS

TokenType == [user : Users \cup {"none"}, st : {"none", "open", "used", "revoked", "expired"}]
SaidType == [kind : {"none", "connect", "unlink", "chat"}, from : Phones \cup {"none"},
             token : Tokens \cup {0}]
RecType == [st : {"none", "accepted", "completed", "failed", "ignored"},
            err : {"none", "queue", "other"}]
RowType == [st : Job!RowStates, tries : Nat]
RequestType == [at : {"idle", "next", "enqueue", "mark", "unavailable"}, todo : SUBSET Messages,
                m : Messages \cup {"none"}, failed : BOOLEAN]
WorkerType == [at : {"none", "idle", "open", "refuse", "finish", "unlink", "chat", "throw"},
               m : Messages \cup {"none"}, user : Users \cup {"none"}]

\* The links.
Links ==
    /\ token \in [Tokens -> TokenType]
    /\ links \in [Tokens -> Nat]
    /\ stale \subseteq Tokens

\* Links are made one after the other; one that is open, or was not made yet,
\* connected nobody, and one that is stale is neither.
Unused ==
    /\ \E n \in 0..MaxTokens : Issued = 1..n
    /\ \A t \in Tokens :
          /\ links[t] <= 1
          /\ token[t].st \in {"none", "open"} => links[t] = 0
          /\ t \in stale => links[t] = 0 /\ token[t].st \notin {"none", "open"}

\* The webhook and the worker.
Said == says \in [Messages -> SaidType] /\ \A m \in Messages : says[m].kind = "connect" => says[m].token \in Tokens
Recs == rec \in [Messages -> RecType]
Jobs == job \in [Messages -> RowType]
Asked ==
    /\ request \in [Payloads -> RequestType]
    /\ acked \subseteq Payloads
    /\ \A P \in Payloads :
          /\ request[P].todo \subseteq P
          /\ request[P].at \in {"enqueue", "mark", "unavailable"} => request[P].m \in request[P].todo
Working ==
    /\ worker \in WorkerType
    /\ ~At("idle") => M \in Messages
Typed == Links /\ Said /\ Recs /\ Jobs /\ Asked /\ Working

\* Something is left of a message that was queued.
Kept(m) ==
    \/ job[m].st # "absent" \/ rec[m].st \in {"completed", "ignored", "failed"}
    \/ rec[m].st = "accepted" /\ rec[m].err = "none"

\* What a request has passed over or queued is kept, and so is all that was
\* acknowledged.
Passed ==
    /\ \A m \in Messages : rec[m].st = "none" => rec[m].err = "none"
    /\ \A P \in Payloads : request[P].at # "idle" =>
          /\ P \notin acked
          /\ ~request[P].failed => \A m \in P \ request[P].todo : Kept(m)
    /\ \A P \in acked : \A m \in P : Kept(m)

\* A message is delivered in one payload.
OnePayload == \A P, Q \in Payloads : P \cap Q # {} => P = Q

IInv == Typed /\ Unused

-----------------------------------------------------------------------------
\* The links there are number as many as the last one.
LEMMA NextToken ==
    ASSUME NEW n \in 0..MaxTokens, Issued = 1..n
    PROVE  Cardinality(Issued) = n
BY FS_Interval, TokensAssumption

\* Revocation closes the open links of a user and touches no other.
LEMMA Revocation ==
    ASSUME Links, NEW u
    PROVE  /\ tokensRevoked(u) \in [Tokens -> TokenType]
           /\ OpenOf(u) \subseteq Tokens
           /\ \A t \in Tokens :
                 /\ t \in OpenOf(u) => token[t].st = "open" /\ tokensRevoked(u)[t].st = "revoked"
                 /\ t \notin OpenOf(u) => tokensRevoked(u)[t] = token[t]
BY DEF Links, tokensRevoked, OpenOf, TokenType

-----------------------------------------------------------------------------
(* Types.                                                                  *)

\* The types hold at first.
LEMMA InitTyped == Init => Typed
<1> SUFFICES ASSUME Init PROVE Typed
  OBVIOUS
<1>1. Links
  BY DEF Init, Links, TokenType, NoToken
<1>2. Said /\ Recs
  BY DEF Init, Said, Recs, SaidType, RecType, Silent
<1>3. Jobs
  BY DEF Init, Jobs, RowType, Job!Absent, Job!RowStates
<1>4. Asked
  BY DEF Init, Asked, RequestType, NoRequest
<1>5. Working
  BY DEF Init, Working, WorkerType, NoWork, At
<1> QED
  BY <1>1, <1>2, <1>3, <1>4, <1>5 DEF Typed

\* Every step keeps the types of links and tokens.
LEMMA StepLinks == Typed /\ Unused /\ [Next]_vars => Links'
<1> SUFFICES ASSUME Typed, Unused, [Next]_vars PROVE Links'
  OBVIOUS
<1>0. Links
  BY DEF Typed
<1>1. ASSUME NEW u \in Users, createWhatsAppConnectLink(u) PROVE Links'
  <2>1. PICK n \in 0..MaxTokens : Issued = 1..n
    BY DEF Unused
  <2>2. Cardinality(Issued) = n /\ n + 1 \in Tokens
    BY <1>1, <2>1, NextToken, TokensAssumption DEF createWhatsAppConnectLink, Tokens
  <2> QED
    BY <1>0, <1>1, <2>2, Revocation DEF createWhatsAppConnectLink, Links, TokenType
<1>2. ASSUME NEW u \in Users, disconnectWhatsAppForUser(u) PROVE Links'
  BY <1>0, <1>2, Revocation DEF disconnectWhatsAppForUser, disconnected, Links
<1>3. CASE TokenExpires
  BY <1>0, <1>3 DEF TokenExpires, Links, TokenType
<1>4. CASE Connect
  <2>1. M \in Messages
    BY <1>4 DEF Typed, Working, Connect, At
  <2>2. says[M].token \in Tokens
    BY <1>4, <2>1 DEF Typed, Said, Connect
  <2>3. CASE UNCHANGED accounts
    BY <1>0, <2>3 DEF accounts, Links
  <2> QED
    BY <1>0, <1>4, <2>2, <2>3, Revocation DEF Connect, Links, TokenType
<1>5. CASE disconnectWhatsAppByWaId
  <2>1. CASE \E u \in OwnersOf(says[M].from) : disconnected(u)
    BY <1>0, <1>5, <2>1, Revocation DEF disconnectWhatsAppByWaId, disconnected, Links
  <2> QED
    BY <1>0, <1>5, <2>1 DEF disconnectWhatsAppByWaId, Links
<1>6. CASE UNCHANGED accounts
  BY <1>0, <1>6 DEF accounts, Links
<1> QED
  BY <1>1, <1>2, <1>3, <1>4, <1>5, <1>6
  DEF Next, vars, accounts, Receive, EventRow, Enqueue, MarkAccepted, MarkUnavailable, Respond,
      RequestLost, Take, Identify, Serve, Finish, Fail, Rethrow

\* Every step keeps the type of what is said.
LEMMA StepSaid == Typed /\ [Next]_vars => Said'
<1> SUFFICES ASSUME Typed, [Next]_vars PROVE Said'
  OBVIOUS
<1>0. Said /\ \A P \in Payloads : P \subseteq Messages
  BY DEF Typed, Messages
<1>1. ASSUME NEW P \in Payloads, Receive(P) PROVE Said'
  <2>1. CASE UNCHANGED says
    BY <1>0, <2>1 DEF Said
  <2>2. CASE \E said \in [P -> Sendable] : says' = [m \in Messages |-> IF m \in P THEN said[m] ELSE says[m]]
    <3>1. Sendable \subseteq SaidType /\ \A x \in Sendable : x.kind = "connect" => x.token \in Tokens
      BY DEF Sendable, SaidType, Issued
    <3> QED
      BY <1>0, <2>2, <3>1 DEF Said
  <2> QED
    BY <1>1, <2>1, <2>2 DEF Receive
<1>2. CASE UNCHANGED says
  BY <1>0, <1>2 DEF Said
<1> QED
  BY <1>1, <1>2
  DEF Next, vars, accounts, EventRow, Enqueue, MarkAccepted, MarkUnavailable, Respond, webhook,
      RequestLost, Take, Identify, Serve, Finish, Fail, Rethrow, createWhatsAppConnectLink, 
      disconnectWhatsAppForUser, TokenExpires, Connect, disconnectWhatsAppByWaId

\* Every step keeps the types of the event rows and of the jobs.
LEMMA StepRows == Typed /\ [Next]_vars => Recs' /\ Jobs'
<1> SUFFICES ASSUME Typed, [Next]_vars PROVE Recs' /\ Jobs'
  OBVIOUS
<1>0. /\ Recs /\ Jobs
      /\ \A P \in Payloads : request[P].at \in {"enqueue", "mark", "unavailable"} => request[P].m \in Messages
      /\ \A P \in Payloads : request[P].todo \subseteq Messages
      /\ ~At("idle") => M \in Messages
  BY DEF Typed, Asked, Working, Messages
<1>1. ASSUME NEW P \in Payloads, EventRow(P) PROVE Recs' /\ Jobs'
  BY <1>0, <1>1 DEF EventRow, Recs, Jobs, RecType
<1>2. ASSUME NEW P \in Payloads, Enqueue(P) PROVE Recs' /\ Jobs'
  BY <1>0, <1>2 DEF Enqueue, Recs, Jobs, RowType, Job!added, Job!RowStates
<1>3. ASSUME NEW P \in Payloads, MarkAccepted(P) \/ MarkUnavailable(P) PROVE Recs' /\ Jobs'
  BY <1>0, <1>3 DEF MarkAccepted, MarkUnavailable, Recs, Jobs, RecType
<1>4. CASE Take
  BY <1>0, <1>4 DEF Take, Recs, Jobs, RowType, Job!taken, Job!RowStates
<1>5. CASE Finish
  BY <1>0, <1>5 DEF Finish, Ends, Recs, Jobs, RecType, RowType, Job!Absent, Job!RowStates, At
<1>6. CASE Fail
  BY <1>0, <1>6 DEF Fail, Ends, Recs, Jobs, RecType, RowType, Job!Absent, Job!RowStates, At
<1>7. CASE Rethrow
  BY <1>0, <1>7 DEF Rethrow, Recs, Jobs, RowType, Job!returned, Job!RowStates, At
<1>8. CASE UNCHANGED <<rec, job>>
  BY <1>0, <1>8 DEF Recs, Jobs
<1> QED
  BY <1>1, <1>2, <1>3, <1>4, <1>5, <1>6, <1>7, <1>8
  DEF Next, vars, accounts, webhook, Receive, Respond, RequestLost, Identify, Serve,
      createWhatsAppConnectLink, disconnectWhatsAppForUser, TokenExpires, Connect, disconnectWhatsAppByWaId

\* A change of one request keeps the type, if the request it leaves is one.
LEMMA OneRequest ==
    ASSUME Asked, NEW P \in Payloads, NEW q \in RequestType, acked' \subseteq Payloads,
           request' = [request EXCEPT ![P] = q], q.todo \subseteq P,
           q.at \in {"enqueue", "mark", "unavailable"} => q.m \in q.todo
    PROVE  Asked'
<1>1. request' \in [Payloads -> RequestType]
  BY DEF Asked
<1>2. \A Q \in Payloads : request'[Q] = IF Q = P THEN q ELSE request[Q]
  BY DEF Asked
<1> QED
  BY <1>1, <1>2 DEF Asked

\* Every step keeps the type of the requests.
LEMMA StepAsked == Typed /\ [Next]_vars => Asked'
<1> SUFFICES ASSUME Typed, [Next]_vars PROVE Asked'
  OBVIOUS
<1>0. Asked
  BY DEF Typed
<1>1. ASSUME NEW P \in Payloads,
             Receive(P) \/ EventRow(P) \/ Enqueue(P) \/ MarkAccepted(P) \/ MarkUnavailable(P)
               \/ Respond(P) \/ RequestLost(P)
      PROVE  Asked'
  <2>0. request[P] \in RequestType /\ P \in SUBSET Messages /\ request[P].todo \subseteq P
        /\ (request[P].at \in {"enqueue", "mark", "unavailable"} => request[P].m \in request[P].todo)
        /\ acked' \subseteq Payloads
    BY <1>0, <1>1 DEF Asked, Messages, Receive, EventRow, Enqueue, MarkAccepted, MarkUnavailable,
                      Respond, RequestLost
  <2>1. NoRequest \in RequestType /\ NoRequest.todo = {} /\ NoRequest.at = "idle"
    BY DEF NoRequest, RequestType
  <2>2. CASE Respond(P) \/ RequestLost(P)
    BY <1>0, <2>0, <2>1, <2>2, OneRequest DEF Respond, RequestLost
  <2>3. CASE Receive(P)
    <3> DEFINE q == [NoRequest EXCEPT !.at = "next", !.todo = P]
    <3>1. q \in RequestType /\ q.todo = P /\ q.at = "next"
      BY <2>0 DEF NoRequest, RequestType
    <3>2. request' = [request EXCEPT ![P] = q]
      BY <2>3 DEF Receive
    <3> HIDE DEF q
    <3> QED
      BY <1>0, <2>0, <3>1, <3>2, OneRequest
  <2>4. CASE EventRow(P)
    <3>1. PICK m \in request[P].todo :
             \/ request' = [request EXCEPT ![P].todo = @ \ {m}]
             \/ request' = [request EXCEPT ![P].at = "enqueue", ![P].m = m]
             \/ request' = [request EXCEPT ![P] = NoRequest]
      BY <2>4 DEF EventRow
    <3> DEFINE q == [request[P] EXCEPT !.todo = @ \ {m}]
               e == [request[P] EXCEPT !.at = "enqueue", !.m = m]
    <3>2. q \in RequestType /\ q.todo \subseteq P /\ q.at = request[P].at /\ q.at = "next"
      BY <2>0, <2>4 DEF RequestType, EventRow
    <3>3. e \in RequestType /\ e.todo = request[P].todo /\ e.m = m
      BY <2>0 DEF RequestType
    <3>4. request' = [request EXCEPT ![P] = q] \/ request' = [request EXCEPT ![P] = e]
            \/ request' = [request EXCEPT ![P] = NoRequest]
      BY <3>1, <1>0 DEF Asked, RequestType
    <3> HIDE DEF q, e
    <3> QED
      BY <1>0, <2>0, <2>1, <3>2, <3>3, <3>4, OneRequest
  <2>5. CASE Enqueue(P)
    <3> DEFINE q == [request[P] EXCEPT !.at = "mark"]
               e == [request[P] EXCEPT !.at = "unavailable"]
    <3>1. /\ q \in RequestType /\ q.todo \subseteq P /\ q.m \in q.todo
          /\ e \in RequestType /\ e.todo \subseteq P /\ e.m \in e.todo
      BY <2>0, <2>5 DEF RequestType, Enqueue
    <3>2. request' = [request EXCEPT ![P] = q] \/ request' = [request EXCEPT ![P] = e]
      BY <2>5 DEF Enqueue
    <3> HIDE DEF q, e
    <3> QED
      BY <1>0, <2>0, <3>1, <3>2, OneRequest
  <2>6. CASE MarkAccepted(P) \/ MarkUnavailable(P)
    <3> DEFINE q == passed(request[P])
               e == [passed(request[P]) EXCEPT !.failed = TRUE]
    <3>1. /\ q \in RequestType /\ q.todo \subseteq P /\ q.at = "next"
          /\ e \in RequestType /\ e.todo \subseteq P /\ e.at = "next"
      BY <2>0 DEF RequestType, passed
    <3>2. request' = [request EXCEPT ![P] = q] \/ request' = [request EXCEPT ![P] = e]
      BY <2>6 DEF MarkAccepted, MarkUnavailable
    <3> HIDE DEF q, e
    <3> QED
      BY <1>0, <2>0, <3>1, <3>2, OneRequest
  <2> QED
    BY <1>1, <2>2, <2>3, <2>4, <2>5, <2>6
<1>2. CASE UNCHANGED webhook
  BY <1>0, <1>2 DEF webhook, Asked
<1> QED
  BY <1>1, <1>2
  DEF Next, vars, webhook, Take, Identify, Serve, Finish, Fail, Rethrow, createWhatsAppConnectLink,
      disconnectWhatsAppForUser, TokenExpires, Connect, disconnectWhatsAppByWaId

\* Every step keeps the type of the worker.
LEMMA StepWorking == Typed /\ [Next]_vars => Working'
<1> SUFFICES ASSUME Typed, [Next]_vars PROVE Working'
  OBVIOUS
<1>0. Working
  BY DEF Typed
<1>1. CASE Take
  BY <1>0, <1>1 DEF Take, Working, WorkerType, NoWork, At, M
<1>2. CASE Connect \/ disconnectWhatsAppByWaId \/ Serve
  BY <1>0, <1>2 DEF Connect, disconnectWhatsAppByWaId, Serve, Goto, Working, WorkerType, At, M
<1>3. CASE Identify
  <2>1. says[M].kind \in {"none", "unlink", "chat"}
    BY <1>0, <1>3 DEF Identify, Typed, Said, SaidType, Working, At
  <2> QED
    BY <1>0, <1>3, <2>1 DEF Identify, Goto, OwnersOf, Working, WorkerType, At, M
<1>4. CASE Finish \/ Fail \/ Rethrow
  BY <1>0, <1>4 DEF Finish, Fail, Rethrow, Ends, Goto, Working, WorkerType, NoWork, At, M
<1>5. CASE UNCHANGED worker
  BY <1>0, <1>5 DEF Working, At, M
<1> QED
  BY <1>1, <1>2, <1>3, <1>4, <1>5
  DEF Next, vars, Receive, EventRow, Enqueue, MarkAccepted, MarkUnavailable, Respond, RequestLost,
      createWhatsAppConnectLink, disconnectWhatsAppForUser, TokenExpires

-----------------------------------------------------------------------------
(* Links connect once, and stale ones never.                               *)

\* A step that leaves links, tokens and the stale ones alone keeps Unused.
LEMMA UnusedKept == Unused /\ UNCHANGED accounts => Unused'
BY DEF accounts, Unused, Issued

\* The links that are made are those whose token has a status.
LEMMA StepUnused == Typed /\ Unused /\ [Next]_vars => Unused'
<1> SUFFICES ASSUME Typed, Unused, [Next]_vars PROVE Unused'
  OBVIOUS
<1>0. Links
  BY DEF Typed
<1>i. ASSUME \A t \in Tokens : token'[t].st = "none" <=> token[t].st = "none"
      PROVE  \E n \in 0..MaxTokens : Issued' = 1..n
  BY <1>i DEF Unused, Issued
<1>1. ASSUME NEW u \in Users, createWhatsAppConnectLink(u) PROVE Unused'
  <2>1. PICK n \in 0..MaxTokens : Issued = 1..n
    BY DEF Unused
  <2>2. Cardinality(Issued) = n /\ n + 1 \in Tokens /\ n + 1 \in 1..MaxTokens /\ n + 1 \notin Issued
    BY <1>1, <2>1, NextToken, TokensAssumption DEF createWhatsAppConnectLink, Tokens
  <2>3. token' = [tokensRevoked(u) EXCEPT ![n + 1] = [user |-> u, st |-> "open"]]
        /\ stale' = stale \cup OpenOf(u) /\ links' = links
    BY <1>1, <2>2 DEF createWhatsAppConnectLink
  <2>4. token[n + 1].st = "none" /\ n + 1 \notin OpenOf(u)
    BY <2>2 DEF Issued, OpenOf
  <2>5. \A t \in Tokens : token'[t] = IF t = n + 1 THEN [user |-> u, st |-> "open"] ELSE tokensRevoked(u)[t]
    BY <1>0, <2>2, <2>3, Revocation DEF TokenType
  <2>6. \A t \in Tokens : token'[t].st # "none" <=> (token[t].st # "none" \/ t = n + 1)
    BY <1>0, <2>5, Revocation
  <2>7. Issued' = 1..(n + 1)
    BY <2>1, <2>2, <2>6 DEF Issued
  <2>8. n + 1 \in 0..MaxTokens
    BY <2>2, TokensAssumption
  <2>9. \A t \in Tokens : /\ links'[t] <= 1
                          /\ token'[t].st \in {"none", "open"} => links'[t] = 0
                          /\ t \in stale' => links'[t] = 0 /\ token'[t].st \notin {"none", "open"}
    BY <1>0, <2>3, <2>4, <2>5, Revocation DEF Unused
  <2> QED
    BY <2>7, <2>8, <2>9 DEF Unused
<1>2. ASSUME NEW u \in Users, disconnected(u), UNCHANGED links PROVE Unused'
  <2>1. \A t \in Tokens : token'[t].st = "none" <=> token[t].st = "none"
    BY <1>0, <1>2, Revocation DEF disconnected
  <2> QED
    BY <1>0, <1>2, <1>i, <2>1, Revocation DEF disconnected, Unused
<1>3. CASE TokenExpires
  <2>1. \A t \in Tokens : token'[t].st = "none" <=> token[t].st = "none"
    BY <1>0, <1>3 DEF TokenExpires, Links, TokenType
  <2> QED
    BY <1>0, <1>3, <1>i, <2>1 DEF TokenExpires, Unused, Links, TokenType
<1>4. CASE Connect
  <2>1. M \in Messages
    BY <1>4 DEF Typed, Working, Connect, At
  <2>2. says[M].token \in Tokens
    BY <1>4, <2>1 DEF Typed, Said, Connect
  <2>3. CASE UNCHANGED accounts
    BY <2>3, UnusedKept
  <2>4. CASE ~UNCHANGED accounts
    <3> DEFINE t == says[M].token
               u == token[t].user
    <3>1. /\ token[t].st = "open"
          /\ token' = [tokensRevoked(u) EXCEPT ![t].st = "used"]
          /\ stale' = stale \cup (OpenOf(u) \ {t})
          /\ links' = [links EXCEPT ![t] = @ + 1]
      BY <1>4, <2>4 DEF Connect, consumable
    <3>2. t \in OpenOf(u) /\ t \notin stale /\ links[t] = 0
      BY <2>2, <3>1 DEF OpenOf, Unused
    <3>3. \A s \in Tokens : token'[s].st = IF s = t THEN "used" ELSE tokensRevoked(u)[s].st
      BY <1>0, <2>2, <3>1, Revocation DEF TokenType
    <3>4. \A s \in Tokens : links'[s] = IF s = t THEN 1 ELSE links[s]
      BY <1>0, <2>2, <3>1, <3>2 DEF Links
    <3> HIDE DEF t, u
    <3>5. \A s \in Tokens : token'[s].st = "none" <=> token[s].st = "none"
      BY <1>0, <3>1, <3>3, Revocation
    <3>6. \A s \in Tokens : /\ links'[s] <= 1
                            /\ token'[s].st \in {"none", "open"} => links'[s] = 0
                            /\ s \in stale' => links'[s] = 0 /\ token'[s].st \notin {"none", "open"}
      BY <1>0, <3>1, <3>2, <3>3, <3>4, Revocation DEF Unused
    <3> QED
      BY <1>i, <3>5, <3>6 DEF Unused
  <2> QED
    BY <2>3, <2>4
<1>5. CASE disconnectWhatsAppByWaId
  <2>1. CASE \E u \in OwnersOf(says[M].from) : disconnected(u)
    BY <1>2, <1>5, <2>1 DEF disconnectWhatsAppByWaId, OwnersOf
  <2> QED
    BY <1>5, <2>1 DEF disconnectWhatsAppByWaId, Unused, Issued
<1>6. CASE UNCHANGED accounts
  BY <1>6, UnusedKept
<1> QED
  BY <1>1, <1>2, <1>3, <1>4, <1>5, <1>6
  DEF Next, vars, accounts, Receive, EventRow, Enqueue, MarkAccepted, MarkUnavailable, Respond,
      RequestLost, Take, Identify, Serve, Finish, Fail, Rethrow, disconnectWhatsAppForUser

\* No link is made, and none was used, at first.
LEMMA InitUnused == Init => Unused
<1> SUFFICES ASSUME Init PROVE Unused
  OBVIOUS
<1>1. Issued = 1..0
  BY DEF Init, Issued, NoToken
<1> QED
  BY <1>1, TokensAssumption DEF Init, Unused, NoToken

\* The types and the state of the links are kept by every step.
LEMMA StepIInv == IInv /\ [Next]_vars => IInv'
BY StepLinks, StepSaid, StepRows, StepAsked, StepWorking, StepUnused DEF IInv, Typed

\* So they always hold.
LEMMA Invariant == Spec => []IInv
<1>1. Init => IInv
  BY InitTyped, InitUnused DEF IInv
<1> QED
  BY <1>1, StepIInv, PTL DEF Spec

-----------------------------------------------------------------------------
(* Nothing that was acknowledged is lost.                                  *)

\* A message that is kept stays so, if its row is rewritten by the worker only.

\* Without a change to its rows a message stays kept, and one that is kept is
\* not lost by its job.
LEMMA WorkerKeeps ==
    ASSUME Typed, NEW m \in Messages, Kept(m),
           Take \/ Finish \/ Fail \/ Rethrow \/ UNCHANGED <<rec, job>>
    PROVE  Kept(m)'
<1>0. Recs /\ Jobs /\ (~At("idle") => M \in Messages)
  BY DEF Typed, Working
<1>1. CASE UNCHANGED <<rec, job>>
  BY <1>1 DEF Kept
<1>2. CASE Take
  <2>1. PICK n \in Messages : job' = [job EXCEPT ![n] = Job!taken(@)] /\ rec' = rec
    BY <1>2 DEF Take
  <2>2. job'[m] = job[m] \/ job'[m].st = "locked"
    BY <1>0, <2>1 DEF Jobs, Job!taken
  <2> QED
    BY <2>1, <2>2 DEF Kept
<1>3. CASE Finish
  BY <1>0, <1>3 DEF Finish, Ends, Kept, Jobs, Recs, At
<1>4. CASE Fail
  BY <1>0, <1>4 DEF Fail, Ends, Kept, Jobs, Recs, At
<1>5. CASE Rethrow
  BY <1>0, <1>5 DEF Rethrow, Kept, Jobs, RowType, Job!returned, At
<1> QED
  BY <1>1, <1>2, <1>3, <1>4, <1>5

\* The worker never leaves the row of a message without a status.
LEMMA WorkerMarks ==
    ASSUME Typed, NEW m \in Messages, rec[m].st = "none" => rec[m].err = "none",
           Take \/ Finish \/ Fail \/ Rethrow \/ UNCHANGED <<rec, job>>
    PROVE  rec'[m].st = "none" => rec'[m].err = "none"
<1>0. Recs /\ (~At("idle") => M \in Messages)
  BY DEF Typed, Working
<1>1. CASE Take \/ Rethrow \/ UNCHANGED <<rec, job>>
  BY <1>1 DEF Take, Rethrow
<1>2. CASE Finish \/ Fail
  BY <1>0, <1>2 DEF Finish, Fail, Recs, At
<1> QED
  BY <1>1, <1>2

\* A request changes the rows of its own message only, and keeps what is kept
\* unless it could not queue it.
LEMMA RequestKeeps ==
    ASSUME Typed, NEW P \in Payloads, NEW m \in Messages,
           Receive(P) \/ EventRow(P) \/ Enqueue(P) \/ MarkAccepted(P) \/ MarkUnavailable(P)
               \/ Respond(P) \/ RequestLost(P)
    PROVE  /\ m \notin P => rec'[m] = rec[m] /\ job'[m] = job[m]
           /\ Kept(m) => Kept(m)' \/ (MarkUnavailable(P) /\ m = request[P].m)
           /\ (rec[m].st = "none" => rec[m].err = "none") => (rec'[m].st = "none" => rec'[m].err = "none")
<1>0. /\ Recs /\ Jobs /\ request[P].todo \subseteq P
      /\ request[P].at \in {"enqueue", "mark", "unavailable"} => request[P].m \in P
  BY DEF Typed, Asked
<1>1. CASE Receive(P) \/ Respond(P) \/ RequestLost(P)
  BY <1>1 DEF Receive, Respond, RequestLost, Kept
<1>2. CASE EventRow(P)
  BY <1>0, <1>2 DEF EventRow, Recs, RecType, Kept
<1>3. CASE Enqueue(P)
  BY <1>0, <1>3 DEF Enqueue, Jobs, RowType, Job!added, Kept
<1>4. CASE MarkAccepted(P)
  BY <1>0, <1>4 DEF MarkAccepted, Recs, Kept
<1>5. CASE MarkUnavailable(P)
  BY <1>0, <1>5 DEF MarkUnavailable, Recs, Kept
<1> QED
  BY <1>1, <1>2, <1>3, <1>4, <1>5

\* What a request has passed over or queued is kept.
PassedBy(P) == request[P].at # "idle" =>
    /\ P \notin acked
    /\ ~request[P].failed => \A m \in P \ request[P].todo : Kept(m)

\* A step of a request keeps what it says of its own payload.
LEMMA RequestPasses ==
    ASSUME Typed, Passed, NEW P \in Payloads,
           Receive(P) \/ EventRow(P) \/ Enqueue(P) \/ MarkAccepted(P) \/ MarkUnavailable(P)
               \/ Respond(P) \/ RequestLost(P)
    PROVE  PassedBy(P)' /\ (P \in acked' => \A m \in P : Kept(m)')
<1>0. /\ Recs /\ Jobs /\ request[P] \in RequestType /\ request[P].todo \subseteq P /\ P \subseteq Messages
      /\ request \in [Payloads -> RequestType]
      /\ request[P].at \in {"enqueue", "mark", "unavailable"} => request[P].m \in request[P].todo
      /\ PassedBy(P) /\ (P \in acked => \A m \in P : Kept(m))
  BY DEF Typed, Asked, Passed, PassedBy, Messages
<1>1. CASE Receive(P)
  <2>1. P \notin acked /\ acked' = acked /\ request'[P].todo = P
    BY <1>0, <1>1 DEF Receive, NoRequest
  <2> QED
    BY <2>1 DEF PassedBy
<1>2. CASE EventRow(P)
  <2>1. \A m \in P : Kept(m) => Kept(m)'
    BY <1>0, <1>2, RequestKeeps DEF EventRow, MarkUnavailable
  <2>2. /\ acked' = acked /\ P \notin acked
        /\ \/ request'[P].at = "idle"
           \/ /\ request'[P].failed = request[P].failed
              /\ \A m \in P \ request'[P].todo : m \in P \ request[P].todo \/ Terminal(m)
    BY <1>0, <1>2 DEF EventRow, PassedBy, NoRequest, RequestType
  <2>3. \A m \in P : Terminal(m) => Kept(m)
    BY DEF Terminal, Kept
  <2> QED
    BY <1>0, <1>2, <2>1, <2>2, <2>3 DEF PassedBy, EventRow
<1>3. CASE Enqueue(P)
  <2>1. \A m \in P : Kept(m) => Kept(m)'
    BY <1>0, <1>3, RequestKeeps DEF Enqueue, MarkUnavailable
  <2>2. acked' = acked /\ P \notin acked /\ request'[P].failed = request[P].failed
        /\ request'[P].todo = request[P].todo
    BY <1>0, <1>3 DEF Enqueue, PassedBy, RequestType
  <2> QED
    BY <1>0, <1>3, <2>1, <2>2 DEF PassedBy, Enqueue
<1>4. CASE MarkAccepted(P)
  <2>1. \A m \in P : Kept(m) => Kept(m)'
    BY <1>0, <1>4, RequestKeeps DEF MarkAccepted, MarkUnavailable
  <2>2. acked' = acked /\ P \notin acked /\ request'[P].failed = request[P].failed
        /\ request'[P].todo = request[P].todo \ {request[P].m}
    BY <1>0, <1>4 DEF MarkAccepted, PassedBy, passed, RequestType
  <2>3. \A m \in P : m = request[P].m => Kept(m)'
    BY <1>0, <1>4 DEF MarkAccepted, Kept, Recs
  <2> QED
    BY <1>0, <1>4, <2>1, <2>2, <2>3 DEF PassedBy, MarkAccepted
<1>5. CASE MarkUnavailable(P)
  <2>1. acked' = acked /\ P \notin acked /\ request'[P].failed
    BY <1>0, <1>5 DEF MarkUnavailable, PassedBy, passed, RequestType
  <2> QED
    BY <2>1 DEF PassedBy
<1>6. CASE Respond(P)
  <2>1. UNCHANGED <<rec, job>> /\ request'[P].at = "idle" /\ request[P].todo = {} /\ request[P].at # "idle"
        /\ (P \in acked' => ~request[P].failed)
    BY <1>0, <1>6 DEF Respond, NoRequest, PassedBy
  <2> QED
    BY <1>0, <2>1 DEF PassedBy, Kept
<1>7. CASE RequestLost(P)
  <2>1. UNCHANGED <<rec, job, acked>> /\ request'[P].at = "idle"
    BY <1>0, <1>7 DEF RequestLost, NoRequest
  <2> QED
    BY <1>0, <2>1 DEF PassedBy, Kept
<1> QED
  BY <1>1, <1>2, <1>3, <1>4, <1>5, <1>6, <1>7

\* Every step keeps what is passed, if a message comes in one payload.
LEMMA StepPassed == OnePayload /\ Typed /\ Passed /\ [Next]_vars => Passed'
<1> SUFFICES ASSUME OnePayload, Typed, Passed, [Next]_vars PROVE Passed'
  OBVIOUS
<1>0. \A P \in Payloads : PassedBy(P) /\ P \subseteq Messages
  BY DEF Passed, PassedBy, Messages
<1>1. ASSUME NEW P \in Payloads,
             Receive(P) \/ EventRow(P) \/ Enqueue(P) \/ MarkAccepted(P) \/ MarkUnavailable(P)
               \/ Respond(P) \/ RequestLost(P)
      PROVE  Passed'
  <2>1. PassedBy(P)' /\ (P \in acked' => \A m \in P : Kept(m)')
    BY <1>1, RequestPasses
  <2>2. /\ \A Q \in Payloads : Q # P => request'[Q] = request[Q]
        /\ acked' \subseteq acked \cup {P} /\ acked \subseteq acked'
    BY <1>1 DEF Typed, Asked, Receive, EventRow, Enqueue, MarkAccepted, MarkUnavailable, Respond, RequestLost
  <2>3. ASSUME NEW Q \in Payloads, Q # P, NEW m \in Q, Kept(m) PROVE Kept(m)'
    <3>1. m \notin P /\ m \in Messages
      BY <1>0, <2>3 DEF OnePayload
    <3>2. rec'[m] = rec[m] /\ job'[m] = job[m]
      BY <1>1, <3>1, RequestKeeps
    <3> QED
      BY <2>3, <3>2 DEF Kept
  <2>4. \A m \in Messages : rec'[m].st = "none" => rec'[m].err = "none"
    BY <1>1, RequestKeeps DEF Passed
  <2>5. ASSUME NEW Q \in Payloads PROVE PassedBy(Q)'
    BY <1>0, <2>1, <2>2, <2>3 DEF PassedBy
  <2>6. ASSUME NEW Q \in acked', NEW m \in Q PROVE Kept(m)'
    BY <2>1, <2>2, <2>3 DEF Passed, Typed, Asked
  <2> QED
    BY <2>4, <2>5, <2>6 DEF Passed, PassedBy
<1>2. CASE /\ UNCHANGED webhook
           /\ Take \/ Finish \/ Fail \/ Rethrow \/ UNCHANGED <<rec, job>>
  <2>1. \A m \in Messages : Kept(m) => Kept(m)'
    BY <1>2, WorkerKeeps
  <2>2. \A m \in Messages : rec'[m].st = "none" => rec'[m].err = "none"
    BY <1>2, WorkerMarks DEF Passed
  <2>3. \A Q \in Payloads : PassedBy(Q)'
    BY <1>0, <1>2, <2>1 DEF PassedBy, webhook
  <2>4. \A Q \in acked' : \A m \in Q : Kept(m)'
    BY <1>0, <1>2, <2>1 DEF webhook, Passed, Typed, Asked
  <2> QED
    BY <2>2, <2>3, <2>4 DEF Passed, PassedBy
<1> QED
  BY <1>1, <1>2
  DEF Next, vars, webhook, Take, Identify, Serve, Finish, Fail, Rethrow, createWhatsAppConnectLink,
      disconnectWhatsAppForUser, TokenExpires, Connect, disconnectWhatsAppByWaId

-----------------------------------------------------------------------------
(* Theorems.                                                               *)

\* A link connects the sender of its token once, however often the message is
\* delivered, its job is tried, and workers and requests are lost.
THEOREM LinksOnce == Spec => []TokenLinksOnce
<1>1. IInv => TokenLinksOnce
  BY DEF IInv, Unused, TokenLinksOnce
<1> QED
  BY <1>1, Invariant, PTL

\* A link that was replaced, or unused when its user disconnected, connects
\* nobody: the token is read and used under the lock under which it is revoked.
THEOREM RevokedLinkNobody == Spec => []RevokedLinksNobody
<1>1. IInv => RevokedLinksNobody
  BY DEF IInv, Typed, Links, Unused, RevokedLinksNobody
<1> QED
  BY <1>1, Invariant, PTL

\* A payload that Meta got its 200 for has lost none of its messages, if each
\* message comes in one payload.
THEOREM PayloadsAreQueued == ASSUME OnePayload PROVE Spec => []AcknowledgedPayloadIsQueued
<1>1. Init => Passed
  BY DEF Init, Passed, NoRequest
<1>2. IInv /\ Passed /\ [Next]_vars => Passed'
  BY StepPassed DEF IInv
<1>3. Passed => AcknowledgedPayloadIsQueued
  BY DEF Passed, Kept, AcknowledgedPayloadIsQueued
<1> QED
  BY <1>1, <1>2, <1>3, Invariant, PTL DEF Spec

=============================================================================
