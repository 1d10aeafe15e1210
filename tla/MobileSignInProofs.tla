------------------------- MODULE MobileSignInProofs -------------------------
(* Theorems about MobileSignIn, for any number of requests, challenges,      *)
(* tokens, secrets, time steps and tries, and every set of requests.         *)
EXTENDS MobileSignIn, TLAPS

\* What the bounds of the model are.
Bounds ==
    /\ MaxTokens \in Nat /\ MaxSecrets \in Nat \ {0} /\ MaxStep \in Nat /\ MaxTries \in Nat
    /\ Enrolled \in BOOLEAN

\* The second factor is managed from one settings page.
OneManager == \A p, q \in Managers : p = q

SessionType == [st : {"none", "live", "revoked"}, token : 0..MaxTokens, login : 0..MaxTokens]
ChallengeType == [st : {"none", "open", "used", "expired"}, tries : 0..MaxTries]
RequestType == [at : Places, token : 0..MaxTokens, login : 0..MaxTokens, code : Codes \cup {Wrong}]

\* A session was signed in for, and each token was issued by a sign-in or a refresh.
Signed == session.login <= session.token /\ (session.st # "none" => session.token > 0)

\* The places at which a request holds a token.
Holding == {"member", "rotate", "revoke", "logout"}

\* A token that was exchanged is not the current one, nor one that is still to come.
Exchanged ==
    /\ \A p \in Clients : req[p].at \in Holding => req[p].token \in 1..session.token
    /\ \A t \in Tokens : exchanged[t] <= 1 /\ (exchanged[t] > 0 => t < session.token)

\* A challenge that yielded a session is used.
Yielded == \A c \in Challenges : yielded[c] <= 1 /\ (yielded[c] > 0 => chal[c].st = "used")

\* The places of a settings page.
Managing == {"enrol", "confirm", "regenerate", "disable"}

\* A settings page that confirms does so by a code of the secret that waits for it.
Confirming ==
    \A p \in Clients :
        /\ req[p].at \in Managing => p \in Managers
        /\ req[p].at = "confirm" => /\ cred.st = "pending"
                                    /\ req[p].code \in Codes
                                    /\ req[p].code[1] = "totp" /\ req[p].code[2] = cred.secret

\* A code that is not taken any more: of an older secret, or of one that was
\* disabled, or not later than the last used; of an older set, or a used one.
Gone(code) ==
    IF code[1] = "totp"
      THEN \/ code[2] < cred.secret
           \/ code[2] = cred.secret /\ cred.st = "none"
           \/ code[2] = cred.secret /\ cred.st = "enabled" /\ code[3] <= cred.step
      ELSE \/ code[2] < cred.codes
           \/ code[2] = cred.codes /\ ~cred.unused
Spent == \A code \in Codes : accepted[code] <= 1 /\ (accepted[code] > 0 => Gone(code))

SignInv == TypeOK /\ Signed /\ Exchanged /\ Yielded
FactorInv == TypeOK /\ Confirming /\ Spent /\ EnabledIsConfirmed

-----------------------------------------------------------------------------
(* Codes and the credential.                                               *)

\* What a code is.
LEMMA CodeFacts ==
    ASSUME NEW code \in Codes
    PROVE  /\ code[1] \in {"totp", "recovery"} /\ code[2] \in Secrets
           /\ code[1] = "totp" => code = Totp(code[2], code[3]) /\ code[3] \in Steps
           /\ code[1] = "recovery" => code = Recovery(code[2])
BY DEF Codes, Totp, Recovery

\* Whoever types, types a code or a mistake, and a mistake is not valid.
LEMMA TypedFacts ==
    ASSUME NEW code \in Typed
    PROVE  code \in Codes \cup {Wrong} /\ (\A c : Valid(c, code) => code \in Codes)
BY DEF Typed, Codes, Totp, Recovery, Wrong, Valid, FreshTotp, UnusedRecovery

\* A credential stays one when a code is accepted or refused.
LEMMA CredFacts ==
    ASSUME Bounds, cred \in Credentials
    PROVE  /\ \A code \in Codes : used(cred, code) \in Credentials
           /\ cred.failed < MaxTries + 1 => missed(cred) \in Credentials
<1>1. ASSUME NEW code \in Codes PROVE used(cred, code) \in Credentials
  <2> DEFINE step == IF FreshTotp(cred, code) THEN code[3] ELSE cred.step
             unused == cred.unused /\ ~UnusedRecovery(cred, code)
  <2>1. step \in -1..MaxStep
    BY CodeFacts DEF FreshTotp, Credentials, Bounds, Steps
  <2>2. unused \in BOOLEAN
    OBVIOUS
  <2>3. used(cred, code) = [cred EXCEPT !.step = step, !.unused = unused, !.failed = 0, !.locked = FALSE]
    BY DEF used, Credentials
  <2>4. 0 \in 0..(MaxTries + 1)
    BY DEF Bounds
  <2> HIDE DEF step, unused
  <2> QED
    BY <2>1, <2>2, <2>3, <2>4 DEF Credentials
<1>2. ASSUME cred.failed < MaxTries + 1 PROVE missed(cred) \in Credentials
  <2> DEFINE failed == cred.failed + 1
             locked == cred.failed + 1 >= MaxTries
  <2>1. failed \in 0..(MaxTries + 1) /\ locked \in BOOLEAN
    BY <1>2 DEF Credentials, Bounds
  <2>2. missed(cred) = [cred EXCEPT !.failed = failed, !.locked = locked]
    BY DEF missed, Credentials
  <2> HIDE DEF failed, locked
  <2> QED
    BY <2>1, <2>2 DEF Credentials
<1> QED BY <1>1, <1>2

-----------------------------------------------------------------------------
(* What a step does to the rows and to the requests.                       *)

\* The statements that act on the credential: none, a check of a code of an
\* enabled credential, those of the settings page, or the end of a lock.
CredStep ==
    \/ UNCHANGED <<cred, accepted, confirmed>>
    \/ /\ \E code \in Typed : Accept(code) \/ Refuse(code)
       /\ cred.st = "enabled" /\ UNCHANGED confirmed
    \/ \E p \in Clients : BeginWrite(p) \/ ConfirmWrite(p) \/ RegenerateWrite(p) \/ DisableWrite(p)
    \/ cred' = [cred EXCEPT !.locked = FALSE] /\ UNCHANGED <<accepted, confirmed>>

\* Those that act on the device's session and its tokens.
SessionStep ==
    \/ UNCHANGED <<session, exchanged>>
    \/ session.token < MaxTokens /\ session' = issued(session) /\ UNCHANGED exchanged
    \/ \E p \in Clients : RefreshRotate(p)
    \/ /\ \E p \in Clients : req[p].at \in Holding
       /\ session' = [session EXCEPT !.st = "revoked"] /\ UNCHANGED exchanged

\* Those that act on challenges: an open one is made, counts a try, expires, or
\* is used and may yield a session.
ChallengeStep ==
    \/ UNCHANGED <<chal, yielded>>
    \/ \E c \in Challenges, r \in ChallengeType :
          /\ chal[c].st \in {"none", "open"} /\ r.st # "used"
          /\ chal' = [chal EXCEPT ![c] = r] /\ UNCHANGED yielded
    \/ \E c \in Challenges : \E n \in {yielded[c], yielded[c] + 1} :
          /\ chal[c].st = "open" /\ chal' = [chal EXCEPT ![c].st = "used"]
          /\ yielded' = [yielded EXCEPT ![c] = n]

\* And a request goes on: to a place that holds a token only if it held it or
\* it is the current one; to a place of the settings page only if it is one; to
\* the confirmation only with a code of the secret that waits.
GoesTo(p, r) ==
    /\ r.at \in Holding =>
          \/ req[p].at \in Holding /\ r.token = req[p].token
          \/ session.st = "live" /\ r.token = session.token
    /\ r.at \in Managing => p \in Managers
    /\ r.at = "confirm" => /\ cred.st = "pending" /\ r.code \in Codes
                           /\ r.code[1] = "totp" /\ r.code[2] = cred.secret
RequestStep ==
    \/ UNCHANGED req
    \/ \E p \in Clients, r \in RequestType : req' = [req EXCEPT ![p] = r] /\ GoesTo(p, r)

\* The record of an idle client is a request, and one that owes nothing.
LEMMA IdleFacts == Bounds => Idle \in RequestType /\ \A p : GoesTo(p, Idle)
BY DEF Bounds, Idle, RequestType, Places, GoesTo, Holding, Managing

\* A request that goes on keeps what it holds.
LEMMA GotoStep ==
    ASSUME TypeOK, NEW p \in Clients, NEW at \in Places, Goto(p, at),
           at \in Holding => req[p].at \in Holding,
           at \in Managing => p \in Managers, at # "confirm"
    PROVE  RequestStep
<1> DEFINE r == [req[p] EXCEPT !.at = at]
<1>1. r \in RequestType /\ r.at = at /\ r.token = req[p].token
  BY DEF TypeOK, RequestType
<1>2. req' = [req EXCEPT ![p] = r]
  BY DEF Goto, TypeOK
<1>3. GoesTo(p, r)
  BY <1>1 DEF GoesTo
<1> QED BY <1>1, <1>2, <1>3 DEF RequestStep

\* A request that ends is a step of the requests.
LEMMA DoneStep == ASSUME Bounds, NEW p \in Clients, Done(p) PROVE RequestStep
BY IdleFacts DEF Done, RequestStep

\* A request that begins holds the current token.
LEMMA BeginStep ==
    ASSUME NEW p \in Clients, NEW r \in RequestType, session.st = "live",
           r.at \in Holding, r.token = session.token, req' = [req EXCEPT ![p] = r]
    PROVE  RequestStep
<1>1. GoesTo(p, r)
  BY DEF GoesTo, Holding, Managing
<1> QED BY <1>1 DEF RequestStep

\* All the rows' part of a step.
RowsStep == CredStep /\ SessionStep /\ ChallengeStep
Steady == UNCHANGED <<cred, accepted, confirmed, session, exchanged, chal, yielded>>

\* A step that leaves all rows alone is a step of the rows.
LEMMA SteadyRows == Steady => RowsStep
BY DEF Steady, RowsStep, CredStep, SessionStep, ChallengeStep

\* Every step is of these kinds, and keeps the types of the rest.
Kinds == RowsStep /\ RequestStep /\ member' \in {"active", "expired", "removed"} /\ now' \in Steps

\* Every action is of the kinds above: what it does to the credential, to a
\* session, to a challenge and to the requests (routes of mobile authentication).
LEMMA StepKinds ==
    ASSUME TypeOK, Bounds, [Next]_vars
    PROVE  Kinds
<1>0. member \in {"active", "expired", "removed"} /\ now \in Steps
  BY DEF TypeOK
<1>1. ASSUME NEW p \in Clients, SignIn(p) PROVE Kinds
  <2>1. Goto(p, "factor") /\ Steady /\ UNCHANGED <<member, now>>
    BY <1>1 DEF SignIn, Steady, history
  <2>2. RequestStep
    BY <2>1, GotoStep DEF Places, Holding, Managing
  <2> QED BY <1>0, <2>1, <2>2, SteadyRows DEF Kinds
<1>2. ASSUME NEW p \in Clients, SignInFactor(p) PROVE Kinds
  <2>1. UNCHANGED <<cred, accepted, confirmed, session, exchanged, yielded, member, now>>
    BY <1>2 DEF SignInFactor, history
  <2>2. ChallengeStep
    <3>1. CASE \E c \in Challenges :
                 chal[c].st = "none" /\ chal' = [chal EXCEPT ![c] = [st |-> "open", tries |-> 0]]
      <4>1. [st |-> "open", tries |-> 0] \in ChallengeType
        BY DEF ChallengeType, Bounds
      <4> QED BY <2>1, <3>1, <4>1 DEF ChallengeStep
    <3>2. CASE UNCHANGED chal
      BY <2>1, <3>2 DEF ChallengeStep
    <3> QED BY <1>2, <3>1, <3>2 DEF SignInFactor
  <2>3. RequestStep
    <3>1. CASE Done(p)
      BY <3>1, DoneStep
    <3>2. CASE Goto(p, "issue")
      BY <3>2, GotoStep DEF Places, Holding, Managing
    <3> QED BY <1>2, <3>1, <3>2 DEF SignInFactor
  <2> QED BY <1>0, <2>1, <2>2, <2>3 DEF Kinds, RowsStep, CredStep, SessionStep
<1>3. ASSUME NEW p \in Clients, SignInIssue(p) PROVE Kinds
  <2>1. UNCHANGED <<cred, accepted, confirmed, exchanged, chal, yielded, member, now>> /\ Done(p)
    BY <1>3 DEF SignInIssue, history
  <2>2. SessionStep
    BY <1>3, <2>1 DEF SignInIssue, SessionStep
  <2> QED BY <1>0, <2>1, <2>2, DoneStep DEF Kinds, RowsStep, CredStep, ChallengeStep
<1>4. ASSUME NEW p \in Clients, VerifyChallenge(p) PROVE Kinds
  <2>1. UNCHANGED <<member, now, req, exchanged, confirmed>>
    BY <1>4 DEF VerifyChallenge
  <2>2. PICK c \in Challenges, code \in Typed :
         /\ Verifiable(c) /\ ~(cred.st = "enabled" /\ cred.locked)
         /\ \/ /\ cred.st = "enabled" /\ Refuse(code)
               /\ chal' = [chal EXCEPT ![c].tries = @ + 1]
               /\ UNCHANGED <<session, yielded>>
            \/ /\ (cred.st = "enabled" /\ Accept(code)) \/ NotAsked
               /\ member # "expired"
               /\ chal' = [chal EXCEPT ![c].st = "used"]
               /\ IF member = "removed" THEN UNCHANGED <<session, yielded>>
                  ELSE /\ session.token < MaxTokens
                       /\ session' = issued(session)
                       /\ yielded' = [yielded EXCEPT ![c] = @ + 1]
    BY <1>4 DEF VerifyChallenge
  <2>3. CASE /\ cred.st = "enabled" /\ Refuse(code)
             /\ chal' = [chal EXCEPT ![c].tries = @ + 1]
             /\ UNCHANGED <<session, yielded>>
    <3> DEFINE r == [chal[c] EXCEPT !.tries = @ + 1]
    <3>1. chal[c] \in ChallengeType /\ chal[c].st = "open" /\ chal[c].tries < MaxTries
      BY <2>2 DEF TypeOK, ChallengeType, Verifiable
    <3>2. r \in ChallengeType /\ r.st # "used"
      BY <3>1 DEF ChallengeType, Bounds
    <3>3. chal' = [chal EXCEPT ![c] = r]
      BY <2>3
    <3>4. ChallengeStep
      BY <2>3, <3>1, <3>2, <3>3 DEF ChallengeStep
    <3>5. CredStep
      BY <2>1, <2>3 DEF CredStep
    <3> QED BY <1>0, <2>1, <2>3, <3>4, <3>5 DEF Kinds, RowsStep, SessionStep, RequestStep
  <2>4. CASE /\ (cred.st = "enabled" /\ Accept(code)) \/ NotAsked
             /\ chal' = [chal EXCEPT ![c].st = "used"]
             /\ IF member = "removed" THEN UNCHANGED <<session, yielded>>
                ELSE /\ session.token < MaxTokens
                     /\ session' = issued(session)
                     /\ yielded' = [yielded EXCEPT ![c] = @ + 1]
    <3>1. CredStep
      BY <2>1, <2>4 DEF CredStep, NotAsked
    <3>2. SessionStep
      BY <2>1, <2>4 DEF SessionStep
    <3>3. chal[c].st = "open"
      BY <2>2 DEF Verifiable
    <3>4. \E n \in {yielded[c], yielded[c] + 1} : yielded' = [yielded EXCEPT ![c] = n]
      <4>1. CASE UNCHANGED yielded
        BY <4>1 DEF TypeOK
      <4>2. CASE yielded' = [yielded EXCEPT ![c] = @ + 1]
        BY <4>2 DEF TypeOK
      <4> QED BY <2>4, <4>1, <4>2
    <3>5. ChallengeStep
      BY <2>4, <3>3, <3>4 DEF ChallengeStep
    <3> QED BY <1>0, <2>1, <3>1, <3>2, <3>5 DEF Kinds, RowsStep, RequestStep
  <2> QED BY <2>2, <2>3, <2>4
<1>5. ASSUME NEW p \in Clients, WebSignIn(p) PROVE Kinds
  <2>1. UNCHANGED <<member, session, chal, now, req, exchanged, yielded, confirmed>>
    BY <1>5 DEF WebSignIn
  <2>2. CredStep
    BY <1>5, <2>1 DEF WebSignIn, CredStep
  <2> QED BY <1>0, <2>1, <2>2 DEF Kinds, RowsStep, SessionStep, ChallengeStep, RequestStep
<1>6. ASSUME NEW p \in Clients, rotateMobileSession(p) PROVE Kinds
  <2>1. CASE RefreshRead(p)
    <3> DEFINE r == [Idle EXCEPT !.at = "member", !.token = session.token]
    <3>1. Steady /\ UNCHANGED <<member, now>> /\ session.st = "live" /\ req' = [req EXCEPT ![p] = r]
      BY <2>1 DEF RefreshRead, Steady, history
    <3>2. r \in RequestType /\ r.at = "member" /\ r.token = session.token
      BY IdleFacts DEF RequestType, Places, TypeOK
    <3>3. RequestStep
      BY <3>1, <3>2, BeginStep DEF Holding
    <3> QED BY <1>0, <3>1, <3>3, SteadyRows DEF Kinds
  <2>2. CASE RefreshMember(p)
    <3>1. /\ Steady /\ UNCHANGED <<member, now>> /\ req[p].at = "member"
          /\ Goto(p, "rotate") \/ Goto(p, "revoke")
      BY <2>2 DEF RefreshMember, Steady, history, At
    <3>2. RequestStep
      BY <3>1, GotoStep DEF Places, Holding, Managing
    <3> QED BY <1>0, <3>1, <3>2, SteadyRows DEF Kinds
  <2>3. CASE RefreshRotate(p)
    <3>1. Done(p) /\ UNCHANGED <<member, cred, chal, now, accepted, yielded, confirmed>>
      BY <2>3 DEF RefreshRotate
    <3> QED BY <1>0, <2>3, <3>1, DoneStep DEF Kinds, RowsStep, CredStep, SessionStep, ChallengeStep
  <2>4. CASE RefreshRevoke(p)
    <3>1. Done(p) /\ UNCHANGED <<member, cred, chal, now, history>> /\ req[p].at \in Holding
          /\ session' = [session EXCEPT !.st = "revoked"]
      BY <2>4 DEF RefreshRevoke, At, Holding
    <3> QED BY <1>0, <3>1, DoneStep DEF Kinds, RowsStep, CredStep, SessionStep, ChallengeStep, history
  <2> QED BY <1>6, <2>1, <2>2, <2>3, <2>4 DEF rotateMobileSession
<1>7. ASSUME NEW p \in Clients, revokeMobileSession(p) PROVE Kinds
  <2>1. CASE LogoutSend(p)
    <3> DEFINE r == [Idle EXCEPT !.at = "logout", !.token = session.token, !.login = session.login]
    <3>1. Steady /\ UNCHANGED <<member, now>> /\ session.st = "live" /\ req' = [req EXCEPT ![p] = r]
      BY <2>1 DEF LogoutSend, Steady, history
    <3>2. r \in RequestType /\ r.at = "logout" /\ r.token = session.token
      BY IdleFacts DEF RequestType, Places, TypeOK
    <3>3. RequestStep
      BY <3>1, <3>2, BeginStep DEF Holding
    <3> QED BY <1>0, <3>1, <3>3, SteadyRows DEF Kinds
  <2>2. CASE LogoutWrite(p)
    <3>1. Done(p) /\ UNCHANGED <<member, cred, chal, now, history>> /\ req[p].at \in Holding
          /\ (session' = [session EXCEPT !.st = "revoked"] \/ UNCHANGED session)
      BY <2>2 DEF LogoutWrite, At, Holding
    <3> QED BY <1>0, <3>1, DoneStep DEF Kinds, RowsStep, CredStep, SessionStep, ChallengeStep, history
  <2> QED BY <1>7, <2>1, <2>2 DEF revokeMobileSession
<1>8. ASSUME NEW p \in Clients, beginMfaEnrollment(p) PROVE Kinds
  <2>1. CASE BeginRead(p)
    <3>1. Steady /\ UNCHANGED <<member, now>> /\ p \in Managers /\ Goto(p, "enrol")
      BY <2>1 DEF BeginRead, Steady, history
    <3>2. RequestStep
      BY <3>1, GotoStep DEF Places, Holding
    <3> QED BY <1>0, <3>1, <3>2, SteadyRows DEF Kinds
  <2>2. CASE BeginWrite(p)
    <3>1. Done(p) /\ UNCHANGED <<member, session, chal, now, history>>
      BY <2>2 DEF BeginWrite
    <3> QED BY <1>0, <2>2, <3>1, DoneStep DEF Kinds, RowsStep, CredStep, SessionStep, ChallengeStep, history
  <2> QED BY <1>8, <2>1, <2>2 DEF beginMfaEnrollment
<1>9. ASSUME NEW p \in Clients, confirmMfaEnrollment(p) PROVE Kinds
  <2>1. CASE ConfirmRead(p)
    <3>1. /\ Steady /\ UNCHANGED <<member, now>> /\ p \in Managers /\ cred.st = "pending"
      BY <2>1 DEF ConfirmRead, Steady, history
    <3>2. PICK code \in Typed : Confirms(code) /\ req' = [req EXCEPT ![p] = [Idle EXCEPT !.at = "confirm", !.code = code]]
      BY <2>1 DEF ConfirmRead
    <3>3. code \in Codes /\ code[1] = "totp" /\ code[2] = cred.secret
      BY <3>2, TypedFacts DEF Confirms, FreshTotp, Valid
    <3> DEFINE r == [Idle EXCEPT !.at = "confirm", !.code = code]
    <3>4. r \in RequestType /\ r.at = "confirm" /\ r.code = code
      BY <3>3, IdleFacts DEF RequestType, Places
    <3>5. "confirm" \notin Holding
      BY DEF Holding
    <3>6. GoesTo(p, r)
      BY <3>1, <3>3, <3>4, <3>5 DEF GoesTo
    <3>7. RequestStep
      BY <3>2, <3>4, <3>6 DEF RequestStep
    <3> QED BY <1>0, <3>1, <3>7, SteadyRows DEF Kinds
  <2>2. CASE ConfirmWrite(p)
    <3>1. Done(p) /\ UNCHANGED <<member, session, chal, now, exchanged, yielded>>
      BY <2>2 DEF ConfirmWrite
    <3> QED BY <1>0, <2>2, <3>1, DoneStep DEF Kinds, RowsStep, CredStep, SessionStep, ChallengeStep
  <2> QED BY <1>9, <2>1, <2>2 DEF confirmMfaEnrollment
<1>10. ASSUME NEW p \in Clients, NEW kind \in {"regenerate", "disable"}, FactorVerify(p, kind) PROVE Kinds
  <2>1. p \in Managers /\ UNCHANGED <<member, session, chal, now, exchanged, yielded, confirmed>>
    BY <1>10 DEF FactorVerify
  <2>2. (UNCHANGED req \/ Goto(p, kind)) /\ CredStep
    BY <1>10, <2>1 DEF FactorVerify, CredStep, NotAsked
  <2>3. RequestStep
    <3>1. kind \in Places /\ kind \notin Holding /\ kind # "confirm"
      BY DEF Places, Holding
    <3>2. Goto(p, kind) => RequestStep
      BY <2>1, <3>1, GotoStep
    <3> QED BY <2>2, <3>2 DEF RequestStep
  <2> QED BY <1>0, <2>1, <2>2, <2>3 DEF Kinds, RowsStep, SessionStep, ChallengeStep
<1>11. ASSUME NEW p \in Clients, RegenerateWrite(p) \/ DisableWrite(p) PROVE Kinds
  <2>1. Done(p) /\ UNCHANGED <<member, session, chal, now, history>>
    BY <1>11 DEF RegenerateWrite, DisableWrite
  <2> QED BY <1>0, <1>11, <2>1, DoneStep DEF Kinds, RowsStep, CredStep, SessionStep, ChallengeStep, history
<1>12. ASSUME NEW c \in Challenges, ChallengeExpires(c) PROVE Kinds
  <2> DEFINE r == [chal[c] EXCEPT !.st = "expired"]
  <2>1. r \in ChallengeType /\ r.st # "used" /\ chal[c].st = "open" /\ chal' = [chal EXCEPT ![c] = r]
    BY <1>12 DEF ChallengeExpires, TypeOK, ChallengeType
  <2>2. UNCHANGED <<member, cred, session, now, req, history>>
    BY <1>12 DEF ChallengeExpires
  <2>3. ChallengeStep
    BY <2>1, <2>2 DEF ChallengeStep, history
  <2> QED BY <1>0, <2>2, <2>3 DEF Kinds, RowsStep, CredStep, SessionStep, RequestStep, history
<1>13. ASSUME Tick PROVE Kinds
  <2>1. now' \in Steps
    BY <1>0, <1>13 DEF Tick, Steps, Bounds
  <2> QED BY <1>0, <1>13, <2>1 DEF Tick, Kinds, RowsStep, CredStep, SessionStep, ChallengeStep, RequestStep, history
<1>14. ASSUME Membership PROVE Kinds
  <2>1. Steady /\ UNCHANGED <<now, req>> /\ member' \in {"active", "expired", "removed"}
    BY <1>14 DEF Membership, Steady, history
  <2> QED BY <1>0, <2>1, SteadyRows DEF Kinds, RequestStep
<1>15. ASSUME UNCHANGED vars PROVE Kinds
  <2>1. Steady /\ UNCHANGED <<now, req, member>>
    BY <1>15 DEF vars, Steady
  <2> QED BY <1>0, <2>1, SteadyRows DEF Kinds, RequestStep
<1> QED
  BY <1>1, <1>2, <1>3, <1>4, <1>5, <1>6, <1>7, <1>8, <1>9, <1>10, <1>11, <1>12, <1>13, <1>14, <1>15
     DEF Next, regenerateRecoveryCodes, disableMfa

-----------------------------------------------------------------------------
(* Types.                                                                  *)

\* Steps of the credential keep its type.
LEMMA CredTypes ==
    ASSUME TypeOK, Bounds, CredStep
    PROVE  cred' \in Credentials /\ accepted' \in [Codes -> Nat] /\ confirmed' \in SUBSET Secrets
<1>0. cred \in Credentials /\ accepted \in [Codes -> Nat] /\ confirmed \in SUBSET Secrets
  BY DEF TypeOK
<1>1. ASSUME NEW code \in Typed, Accept(code) \/ Refuse(code), UNCHANGED confirmed
      PROVE  cred' \in Credentials /\ accepted' \in [Codes -> Nat]
  BY <1>0, <1>1, TypedFacts, CredFacts DEF Accept, Refuse
<1>2. ASSUME NEW p \in Clients, BeginWrite(p) PROVE cred' \in Credentials /\ UNCHANGED <<accepted, confirmed>>
  <2>1. cred.secret + 1 \in 0..MaxSecrets /\ cred.codes + 1 \in 0..MaxSecrets
    BY <1>0, <1>2 DEF BeginWrite, Credentials, Bounds
  <2>2. NoCred \in Credentials
    BY DEF NoCred, Credentials, Bounds
  <2> QED BY <1>2, <2>1, <2>2 DEF BeginWrite, Credentials, history
<1>3. ASSUME NEW p \in Clients, ConfirmWrite(p)
      PROVE  cred' \in Credentials /\ accepted' \in [Codes -> Nat] /\ confirmed' \in SUBSET Secrets
  <2>1. req[p].code \in Codes \cup {Wrong}
    BY DEF TypeOK
  <2>2. req[p].code[3] \in -1..MaxStep
    <3>1. \A code \in Codes : code[3] \in Steps
      BY DEF Codes, Totp, Recovery, Steps, Bounds
    <3>2. Wrong[3] = 0
      BY DEF Wrong
    <3> QED BY <2>1, <3>1, <3>2 DEF Steps, Bounds
  <2>3. req[p].code[1] = "totp" => req[p].code[2] \in Secrets
    BY <2>1, CodeFacts DEF Wrong
  <2>4. 0 \in 0..(MaxTries + 1)
    BY DEF Bounds
  <2>5. cred' \in Credentials
    BY <1>0, <1>3, <2>2, <2>4 DEF ConfirmWrite, Credentials
  <2>6. accepted' \in [Codes -> Nat]
    BY <1>0, <1>3 DEF ConfirmWrite
  <2>7. confirmed' \in SUBSET Secrets
    BY <1>0, <1>3, <2>3 DEF ConfirmWrite
  <2> QED BY <2>5, <2>6, <2>7
<1>4. ASSUME NEW p \in Clients, RegenerateWrite(p) PROVE cred' \in Credentials /\ UNCHANGED <<accepted, confirmed>>
  <2>1. cred.codes + 1 \in 0..MaxSecrets
    BY <1>0, <1>4 DEF RegenerateWrite, Credentials, Bounds
  <2> QED BY <1>0, <1>4, <2>1 DEF RegenerateWrite, Credentials, history
<1>5. ASSUME NEW p \in Clients, DisableWrite(p) PROVE cred' \in Credentials /\ UNCHANGED <<accepted, confirmed>>
  <2>1. NoCred \in Credentials
    BY DEF NoCred, Credentials, Bounds
  <2> QED BY <1>0, <1>5, <2>1 DEF DisableWrite, Credentials, history
<1>6. ASSUME cred' = [cred EXCEPT !.locked = FALSE] PROVE cred' \in Credentials
  BY <1>0, <1>6 DEF Credentials
<1> QED BY <1>0, <1>1, <1>2, <1>3, <1>4, <1>5, <1>6 DEF CredStep

\* Steps of the sessions keep their type, and that a token is known once.
LEMMA SessionTypes ==
    ASSUME TypeOK, Signed, Exchanged, Bounds, SessionStep
    PROVE  session' \in SessionType /\ exchanged' \in [Tokens -> Nat] /\ Signed'
<1>0. session \in SessionType /\ exchanged \in [Tokens -> Nat]
  BY DEF TypeOK, SessionType
<1>1. ASSUME session.token < MaxTokens, session' = issued(session), UNCHANGED exchanged
      PROVE  session' \in SessionType /\ Signed'
  <2>1. session.token + 1 \in 0..MaxTokens /\ session.login + 1 \in 0..MaxTokens
    BY <1>0, <1>1 DEF SessionType, Signed, Bounds
  <2> QED BY <1>0, <1>1, <2>1 DEF SessionType, issued, Signed, Bounds
<1>2. ASSUME NEW p \in Clients, RefreshRotate(p)
      PROVE  session' \in SessionType /\ exchanged' \in [Tokens -> Nat] /\ Signed'
  <2>1. CASE Current(p)
    <3>1. session' = [session EXCEPT !.token = @ + 1] /\ session.token < MaxTokens
          /\ exchanged' = [exchanged EXCEPT ![req[p].token] = @ + 1]
      BY <1>2, <2>1 DEF RefreshRotate, rotated
    <3>2. exchanged' \in [Tokens -> Nat]
      <4>1. CASE req[p].token \in Tokens
        BY <1>0, <3>1, <4>1
      <4>2. CASE req[p].token \notin Tokens
        BY <1>0, <3>1, <4>2
      <4> QED BY <4>1, <4>2
    <3>3. session.token + 1 \in 0..MaxTokens /\ session.token + 1 > 0 /\ session.login <= session.token + 1
      BY <1>0, <3>1 DEF SessionType, Signed, Bounds
    <3>4. session' \in SessionType /\ Signed'
      BY <1>0, <3>1, <3>3 DEF SessionType, Signed
    <3> QED BY <3>2, <3>4
  <2>2. CASE ~Current(p)
    BY <1>0, <1>2, <2>2 DEF RefreshRotate, Signed
  <2> QED BY <2>1, <2>2
<1>3. ASSUME NEW p \in Clients, req[p].at \in Holding, session' = [session EXCEPT !.st = "revoked"],
             UNCHANGED exchanged
      PROVE  session' \in SessionType /\ Signed'
  <2>1. session.token > 0
    BY <1>0, <1>3 DEF Exchanged, SessionType
  <2> QED BY <1>0, <1>3, <2>1 DEF SessionType, Signed
<1> QED BY <1>0, <1>1, <1>2, <1>3 DEF SessionStep, Signed

\* Steps of the requests keep their type.
LEMMA RequestTypes ==
    ASSUME TypeOK, RequestStep
    PROVE  req' \in [Clients -> RequestType]
BY DEF TypeOK, RequestStep, RequestType

\* Steps of the challenges keep their type, and that a used one yielded a session.
LEMMA ChallengeTypes ==
    ASSUME TypeOK, Yielded, ChallengeStep
    PROVE  chal' \in [Challenges -> ChallengeType] /\ yielded' \in [Challenges -> Nat] /\ Yielded'
<1>0. chal \in [Challenges -> ChallengeType] /\ yielded \in [Challenges -> Nat]
  BY DEF TypeOK, ChallengeType
<1>1. ASSUME NEW c \in Challenges, NEW r \in ChallengeType, chal[c].st \in {"none", "open"}, r.st # "used",
             chal' = [chal EXCEPT ![c] = r], UNCHANGED yielded
      PROVE  chal' \in [Challenges -> ChallengeType] /\ yielded' \in [Challenges -> Nat] /\ Yielded'
  BY <1>0, <1>1 DEF Yielded
<1>2. ASSUME NEW c \in Challenges, NEW n \in {yielded[c], yielded[c] + 1}, chal[c].st = "open",
             chal' = [chal EXCEPT ![c].st = "used"], yielded' = [yielded EXCEPT ![c] = n]
      PROVE  chal' \in [Challenges -> ChallengeType] /\ yielded' \in [Challenges -> Nat] /\ Yielded'
  <2>1. yielded[c] = 0 /\ n \in 0..1
    BY <1>0, <1>2 DEF Yielded
  <2> DEFINE r == [chal[c] EXCEPT !.st = "used"]
  <2>2. r \in ChallengeType /\ r.st = "used" /\ chal' = [chal EXCEPT ![c] = r]
    BY <1>0, <1>2 DEF ChallengeType
  <2> HIDE DEF r
  <2> QED BY <1>0, <1>2, <2>1, <2>2 DEF Yielded
<1>3. ASSUME UNCHANGED <<chal, yielded>>
      PROVE  chal' \in [Challenges -> ChallengeType] /\ yielded' \in [Challenges -> Nat] /\ Yielded'
  BY <1>0, <1>3 DEF Yielded
<1> QED BY <1>1, <1>2, <1>3 DEF ChallengeStep

\* Every step keeps the types, and what is said of sessions and challenges.
LEMMA TypesStep ==
    ASSUME TypeOK, Signed, Exchanged, Yielded, Bounds, [Next]_vars
    PROVE  TypeOK' /\ Signed' /\ Yielded'
<1>1. Kinds
  BY StepKinds
<1>2. CredStep /\ SessionStep /\ ChallengeStep /\ RequestStep
  BY <1>1 DEF Kinds, RowsStep
<1> QED
  BY <1>1, <1>2, CredTypes, SessionTypes, RequestTypes, ChallengeTypes
     DEF Kinds, TypeOK, SessionType, ChallengeType, RequestType

-----------------------------------------------------------------------------
(* Tokens are exchanged once.                                              *)

\* A step keeps that only tokens older than the current one were exchanged.
LEMMA ExchangedStep ==
    ASSUME TypeOK, Signed, Exchanged, Bounds, SessionStep, RequestStep, TypeOK'
    PROVE  Exchanged'
<1>0. /\ session \in SessionType /\ exchanged \in [Tokens -> Nat]
      /\ session' \in SessionType
      /\ req \in [Clients -> RequestType] /\ MaxTokens \in Nat
  BY DEF TypeOK, SessionType, RequestType, Bounds
<1>1. session.token <= session'.token
  BY <1>0 DEF SessionStep, issued, RefreshRotate, rotated, SessionType
<1>2. ASSUME NEW p \in Clients, req'[p].at \in Holding PROVE req'[p].token \in 1..session'.token
  <2>1. CASE UNCHANGED req
    BY <1>0, <1>1, <1>2, <2>1 DEF Exchanged, SessionType
  <2>2. ASSUME NEW q \in Clients, NEW r \in RequestType, req' = [req EXCEPT ![q] = r], GoesTo(q, r)
        PROVE  req'[p].token \in 1..session'.token
    <3>1. CASE p # q
      BY <1>0, <1>1, <1>2, <2>2, <3>1 DEF Exchanged, SessionType
    <3>2. CASE p = q
      <4>1. req'[p] = r
        BY <1>0, <2>2, <3>2
      <4>2. r.token \in 1..session.token
        BY <1>0, <1>2, <2>2, <3>2, <4>1 DEF GoesTo, Exchanged, Signed, SessionType
      <4> QED BY <1>0, <1>1, <4>1, <4>2 DEF SessionType
    <3> QED BY <3>1, <3>2
  <2> QED BY <2>1, <2>2 DEF RequestStep
<1>3. ASSUME NEW t \in Tokens PROVE exchanged'[t] <= 1 /\ (exchanged'[t] > 0 => t < session'.token)
  <2>1. CASE UNCHANGED exchanged
    BY <1>0, <1>1, <2>1 DEF Exchanged, SessionType, Tokens
  <2>2. ASSUME NEW p \in Clients, RefreshRotate(p), Current(p)
        PROVE  exchanged'[t] <= 1 /\ (exchanged'[t] > 0 => t < session'.token)
    <3>1. /\ session' = [session EXCEPT !.token = @ + 1]
          /\ exchanged' = [exchanged EXCEPT ![req[p].token] = @ + 1]
          /\ session.token = req[p].token
      BY <2>2 DEF RefreshRotate, rotated, Current
    <3> QED BY <1>0, <3>1 DEF Exchanged, SessionType, Tokens
  <2> QED BY <2>1, <2>2 DEF SessionStep, RefreshRotate
<1> QED BY <1>2, <1>3 DEF Exchanged

-----------------------------------------------------------------------------
(* Codes are used once, and what is enabled was confirmed.                 *)

\* The statements of a settings page, which end its request.
LEMMA PageStep ==
    ASSUME TypeOK, Bounds, OneManager, Confirming, NEW q \in Clients,
           BeginWrite(q) \/ ConfirmWrite(q) \/ RegenerateWrite(q) \/ DisableWrite(q)
    PROVE  Confirming'
<1>1. q \in Managers /\ Done(q)
  BY DEF BeginWrite, ConfirmWrite, RegenerateWrite, DisableWrite, Confirming, At, Managing
<1>2. ASSUME NEW p \in Clients PROVE p = q \/ req'[p] = req[p]
  BY <1>1 DEF Done, TypeOK
<1>3. req'[q] = Idle
  BY <1>1 DEF Done, TypeOK
<1>4. \A p \in Clients : req'[p].at \in Managing => p # q /\ req[p].at \in Managing
  BY <1>2, <1>3 DEF Idle, Managing
<1>5. \A p \in Clients : req'[p].at \notin Managing
  BY <1>1, <1>4 DEF Confirming, OneManager
<1> QED BY <1>5 DEF Confirming, Managing

\* A step keeps that the page which confirms a secret is the only one.
LEMMA ConfirmingStep ==
    ASSUME TypeOK, Bounds, OneManager, Confirming, CredStep, RequestStep
    PROVE  Confirming'
<1>1. ASSUME NEW p \in Clients
      PROVE  /\ req'[p].at \in Managing => p \in Managers
             /\ req'[p].at = "confirm" => /\ cred.st = "pending"
                                         /\ req'[p].code \in Codes
                                         /\ req'[p].code[1] = "totp" /\ req'[p].code[2] = cred.secret
  <2>1. CASE req'[p] = req[p]
    BY <2>1 DEF Confirming
  <2>2. CASE \E r \in RequestType : req'[p] = r /\ GoesTo(p, r)
    BY <2>2 DEF GoesTo
  <2>3. req'[p] = req[p] \/ \E r \in RequestType : req'[p] = r /\ GoesTo(p, r)
    BY DEF RequestStep, TypeOK
  <2> QED BY <2>1, <2>2, <2>3
<1>2. CASE cred'.st = cred.st /\ cred'.secret = cred.secret
  BY <1>1, <1>2 DEF Confirming
<1>3. CASE cred.st = "enabled"
  BY <1>1, <1>3 DEF Confirming
<1>4. CASE \E q \in Clients : BeginWrite(q) \/ ConfirmWrite(q) \/ RegenerateWrite(q) \/ DisableWrite(q)
  BY <1>4, PageStep
<1>5. CASE cred' = [cred EXCEPT !.locked = FALSE]
  BY <1>2, <1>5 DEF TypeOK, Credentials
<1> QED BY <1>2, <1>3, <1>4, <1>5 DEF CredStep

\* A code that is accepted was not gone, and is afterwards.
LEMMA AcceptStep ==
    ASSUME TypeOK, Bounds, Spent, NEW code \in Typed, Accept(code), cred.st = "enabled", UNCHANGED confirmed,
           EnabledIsConfirmed
    PROVE  Spent' /\ EnabledIsConfirmed'
<1>0. code \in Codes /\ cred \in Credentials /\ accepted \in [Codes -> Nat]
  BY TypedFacts DEF Accept, TypeOK
<1>1. /\ cred'.st = cred.st /\ cred'.secret = cred.secret /\ cred'.codes = cred.codes
      /\ cred'.step = IF FreshTotp(cred, code) THEN code[3] ELSE cred.step
      /\ cred'.unused = (cred.unused /\ ~UnusedRecovery(cred, code))
  BY <1>0 DEF Accept, used, Credentials
<1>2. ~Gone(code)
  BY <1>0, CodeFacts DEF Accept, Valid, FreshTotp, UnusedRecovery, Gone, Credentials, Secrets, Steps, Bounds
<1>3. accepted[code] = 0 /\ accepted' = [accepted EXCEPT ![code] = 1]
  <2>1. accepted[code] = 0
    BY <1>0, <1>2 DEF Spent
  <2>2. accepted' = [accepted EXCEPT ![code] = accepted[code] + 1]
    BY DEF Accept
  <2> QED BY <2>1, <2>2
<1>4. ASSUME NEW d \in Codes, Gone(d) \/ d = code PROVE Gone(d)'
  <2>1. CASE d[1] = "totp"
    BY <1>0, <1>1, <1>4, <2>1, CodeFacts
       DEF Accept, Valid, FreshTotp, UnusedRecovery, Gone, Credentials, Secrets, Steps, Bounds
  <2>2. CASE d[1] # "totp"
    BY <1>0, <1>1, <1>4, <2>2, CodeFacts
       DEF Accept, Valid, FreshTotp, UnusedRecovery, Gone, Credentials, Secrets, Bounds
  <2> QED BY <2>1, <2>2
<1>5. Spent'
  BY <1>0, <1>3, <1>4 DEF Spent
<1>6. EnabledIsConfirmed'
  BY <1>1 DEF EnabledIsConfirmed
<1> QED BY <1>5, <1>6

\* The statements of the settings page keep what is spent spent.
LEMMA PageSpent ==
    ASSUME TypeOK, Bounds, Confirming, Spent, EnabledIsConfirmed, NEW p \in Clients,
           BeginWrite(p) \/ ConfirmWrite(p) \/ RegenerateWrite(p) \/ DisableWrite(p)
    PROVE  Spent' /\ EnabledIsConfirmed'
<1>0. /\ cred \in Credentials /\ accepted \in [Codes -> Nat]
      /\ cred.secret \in Nat /\ cred.codes \in Nat /\ cred.step \in Int
      /\ \A code \in Codes : code[2] \in Nat /\ code[3] \in Int /\ code[1] \in {"totp", "recovery"}
  <2>1. \A code \in Codes : code[3] \in Int
    BY DEF Codes, Totp, Recovery, Steps, Bounds
  <2> QED BY <2>1, CodeFacts DEF TypeOK, Credentials, Bounds, Secrets
<1>1. CASE BeginWrite(p)
  <2>1. /\ cred'.st = "pending" /\ cred'.secret = cred.secret + 1 /\ cred'.codes = cred.codes + 1
        /\ UNCHANGED accepted
    BY <1>1 DEF BeginWrite, NoCred, history
  <2>2. \A code \in Codes : Gone(code) => Gone(code)'
    BY <1>0, <2>1 DEF Gone
  <2> QED BY <2>1, <2>2 DEF Spent, EnabledIsConfirmed
<1>2. CASE RegenerateWrite(p)
  <2>1. CASE cred.st = "enabled"
    <3>1. /\ cred'.st = cred.st /\ cred'.secret = cred.secret /\ cred'.codes = cred.codes + 1
          /\ cred'.step = cred.step /\ UNCHANGED <<accepted, confirmed>>
      BY <1>0, <1>2, <2>1 DEF RegenerateWrite, Credentials, history
    <3>2. \A code \in Codes : Gone(code) => Gone(code)'
      BY <1>0, <3>1 DEF Gone
    <3> QED BY <3>1, <3>2 DEF Spent, EnabledIsConfirmed
  <2>2. CASE cred.st # "enabled"
    <3>1. UNCHANGED <<cred, accepted, confirmed>>
      BY <1>2, <2>2 DEF RegenerateWrite, history
    <3> QED BY <3>1 DEF Spent, Gone, EnabledIsConfirmed
  <2> QED BY <2>1, <2>2
<1>3. CASE DisableWrite(p)
  <2>1. /\ cred'.st = "none" /\ cred'.secret = cred.secret /\ cred'.codes = cred.codes
        /\ cred'.unused = FALSE /\ UNCHANGED accepted
    BY <1>3 DEF DisableWrite, NoCred, history
  <2>2. \A code \in Codes : Gone(code) => Gone(code)'
    BY <1>0, <2>1 DEF Gone
  <2> QED BY <2>1, <2>2 DEF Spent, EnabledIsConfirmed
<1>4. CASE ConfirmWrite(p)
  <2>1. cred.st = "pending" /\ req[p].code \in Codes /\ req[p].code[1] = "totp" /\ req[p].code[2] = cred.secret
    BY <1>4 DEF ConfirmWrite, At, Confirming
  <2> PICK code \in Codes : code = req[p].code
    BY <2>1
  <2>2. /\ cred'.st = "enabled" /\ cred'.secret = cred.secret /\ cred'.codes = cred.codes
        /\ cred'.step = code[3] /\ cred'.unused = cred.unused
        /\ confirmed' = confirmed \cup {code[2]}
        /\ accepted' = [accepted EXCEPT ![code] = accepted[code] + 1]
    BY <1>0, <1>4, <2>1 DEF ConfirmWrite, Credentials
  <2>3. ~Gone(code) /\ Gone(code)'
    BY <1>0, <2>1, <2>2 DEF Gone
  <2>4. accepted[code] = 0
    BY <1>0, <2>1, <2>3 DEF Spent
  <2>5. \A d \in Codes : Gone(d) => Gone(d)'
    BY <1>0, <2>1, <2>2 DEF Gone
  <2>6. Spent'
    BY <1>0, <2>1, <2>2, <2>3, <2>4, <2>5 DEF Spent
  <2> QED BY <2>1, <2>2, <2>6 DEF EnabledIsConfirmed
<1> QED BY <1>1, <1>2, <1>3, <1>4

\* A step keeps that an accepted code is spent, and that what is enabled was confirmed.
LEMMA SpentStep ==
    ASSUME TypeOK, Bounds, Confirming, Spent, EnabledIsConfirmed, CredStep
    PROVE  Spent' /\ EnabledIsConfirmed'
<1>1. ASSUME UNCHANGED accepted, UNCHANGED confirmed, cred'.st = cred.st, cred'.secret = cred.secret,
             cred'.codes = cred.codes, cred'.step = cred.step, cred'.unused = cred.unused
      PROVE  Spent' /\ EnabledIsConfirmed'
  BY <1>1 DEF Spent, Gone, EnabledIsConfirmed
<1>2. CASE UNCHANGED <<cred, accepted, confirmed>>
  BY <1>1, <1>2
<1>3. ASSUME NEW code \in Typed, Accept(code) \/ Refuse(code), cred.st = "enabled", UNCHANGED confirmed
      PROVE  Spent' /\ EnabledIsConfirmed'
  <2>1. CASE Accept(code)
    BY <1>3, <2>1, AcceptStep
  <2>2. CASE Refuse(code)
    BY <1>1, <1>3, <2>2 DEF Refuse, missed, TypeOK, Credentials
  <2> QED BY <1>3, <2>1, <2>2
<1>4. CASE cred' = [cred EXCEPT !.locked = FALSE] /\ UNCHANGED <<accepted, confirmed>>
  BY <1>1, <1>4 DEF TypeOK, Credentials
<1> QED BY <1>2, <1>3, <1>4, PageSpent DEF CredStep

-----------------------------------------------------------------------------
(* The theorems.                                                           *)

\* The invariants hold before anybody signs in.
LEMMA Start ==
    ASSUME Bounds, Init
    PROVE  SignInv /\ Confirming /\ Spent /\ EnabledIsConfirmed
<1>1. /\ NoCred \in Credentials
      /\ [NoCred EXCEPT !.st = "enabled", !.secret = 1, !.codes = 1, !.unused = TRUE] \in Credentials
  <2>1. -1 \in -1..MaxStep /\ 0 \in 0..(MaxTries + 1) /\ 0 \in 0..MaxSecrets /\ 1 \in 0..MaxSecrets
    BY DEF Bounds
  <2>2. NoCred \in Credentials
    BY <2>1 DEF NoCred, Credentials
  <2> QED BY <2>1, <2>2 DEF Credentials
<1>2. cred \in Credentials /\ (cred.st = "enabled" => cred.secret \in confirmed) /\ confirmed \subseteq Secrets
  BY <1>1 DEF Init, NoCred, Secrets, Bounds
<1>3. session \in SessionType /\ session.st = "none" /\ session.login <= session.token
  BY DEF Init, SessionType, Bounds
<1>4. req \in [Clients -> RequestType] /\ \A p \in Clients : req[p].at = "idle"
  BY IdleFacts DEF Init, Idle
<1>5. chal \in [Challenges -> ChallengeType]
  BY DEF Init, ChallengeType, Bounds
<1>6. now \in Steps
  BY DEF Init, Steps, Bounds
<1>7. TypeOK
  BY <1>2, <1>3, <1>4, <1>5, <1>6 DEF Init, TypeOK, SessionType, RequestType, ChallengeType
<1> QED
  BY <1>2, <1>3, <1>4, <1>7
     DEF Init, SignInv, Signed, Exchanged, Yielded, Confirming, Spent, EnabledIsConfirmed, Holding, Managing

\* Every step keeps the invariant of the sessions and challenges.
LEMMA SignStep ==
    ASSUME SignInv, Bounds, [Next]_vars
    PROVE  SignInv'
BY TypesStep, StepKinds, ExchangedStep DEF SignInv, Kinds, RowsStep

\* Every step keeps the invariant of the second factor.
LEMMA FactorStep ==
    ASSUME SignInv, FactorInv, Bounds, OneManager, [Next]_vars
    PROVE  FactorInv'
BY TypesStep, StepKinds, ConfirmingStep, SpentStep DEF SignInv, FactorInv, Kinds, RowsStep

\* The rows, requests and histories keep their types: counters stay within their
\* bounds, and nothing but codes is remembered as accepted.
THEOREM TypeCorrect == ASSUME Bounds PROVE Spec => []TypeOK
<1>1. Init => SignInv
  BY Start
<1>2. SignInv /\ [Next]_vars => SignInv'
  BY SignStep
<1> QED BY <1>1, <1>2, PTL DEF Spec, SignInv

\* A refresh token is exchanged at most once, for any number of refreshes, sign-ins
\* and sign-outs under way (rotateMobileSession).
THEOREM TokensOnce == ASSUME Bounds PROVE Spec => []ExchangedOnce
<1>1. Init => SignInv
  BY Start
<1>2. SignInv /\ [Next]_vars => SignInv'
  BY SignStep
<1>3. SignInv => ExchangedOnce
  BY DEF SignInv, Exchanged, ExchangedOnce
<1> QED BY <1>1, <1>2, <1>3, PTL DEF Spec

\* A challenge yields at most one session (verifyMobileMfaChallenge).
THEOREM ChallengesOnce == ASSUME Bounds PROVE Spec => []ChallengeYieldsOnce
<1>1. Init => SignInv
  BY Start
<1>2. SignInv /\ [Next]_vars => SignInv'
  BY SignStep
<1>3. SignInv => ChallengeYieldsOnce
  BY DEF SignInv, Yielded, ChallengeYieldsOnce
<1> QED BY <1>1, <1>2, <1>3, PTL DEF Spec

\* No code is accepted twice, whoever asks for it: a challenge, the web's sign-in
\* or the settings page; and the second factor that guards the account was
\* confirmed by a code of its own secret.  It takes that the second factor is
\* managed from one page: two may confirm with the same code, and one may write
\* over the secret the other has confirmed.
THEOREM CodesOnce == ASSUME Bounds, OneManager PROVE Spec => [](CodeUsedOnce /\ EnabledIsConfirmed)
<1>1. Init => SignInv /\ FactorInv
  BY Start DEF SignInv, FactorInv
<1>2. SignInv /\ FactorInv /\ [Next]_vars => SignInv' /\ FactorInv'
  BY SignStep, FactorStep
<1>3. FactorInv => CodeUsedOnce /\ EnabledIsConfirmed
  BY DEF FactorInv, Spent, CodeUsedOnce
<1> QED BY <1>1, <1>2, <1>3, PTL DEF Spec

\* Who has signed out, or was signed out, stays so until a new sign-in, although
\* refreshes were under way (the guarded update of rotateMobileSession).
THEOREM SignedOutForGood == ASSUME Bounds PROVE Spec => SignedOutStays
<1>1. Init => SignInv
  BY Start
<1>2. SignInv /\ [Next]_vars => SignInv'
  BY SignStep
<1>3. SignInv /\ [Next]_vars => [SignedOutStep]_vars
  <2> SUFFICES ASSUME SignInv, [Next]_vars PROVE SignedOutStep
    OBVIOUS
  <2>1. SessionStep /\ session \in SessionType
    BY StepKinds DEF SignInv, Kinds, RowsStep, TypeOK, SessionType
  <2>2. ASSUME NEW p \in Clients, RefreshRotate(p), session.st = "revoked" PROVE UNCHANGED session
    BY <2>2 DEF RefreshRotate, Current
  <2> QED BY <2>1, <2>2 DEF SessionStep, SignedOutStep, SessionType, issued
<1> QED BY <1>1, <1>2, <1>3, PTL DEF Spec, SignedOutStays
=============================================================================
