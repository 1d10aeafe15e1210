---------------------------- MODULE MobileSignIn ----------------------------
(***************************************************************************)
(* How one user signs in on one device: the password step, the challenge   *)
(* of the second factor, the session row of the device with its rotating   *)
(* refresh token, and the life of the second factor itself (enrolment,     *)
(* confirmation, recovery codes, removal).  A request is a sequence of     *)
(* statements, so requests of the same user interleave; the checks that    *)
(* lock rows in one transaction are one action.                            *)
(***************************************************************************)
EXTENDS Integers, FiniteSets

CONSTANTS
    Clients,     \* requests that may be under way at the same time
    Managers,    \* those of them that come from the settings page of the second factor
    Challenges,  \* mobile_mfa_challenges rows (bound of the model)
    MaxTokens,   \* refresh tokens issued (bound of the model)
    MaxSecrets,  \* enrolments and sets of recovery codes (bound of the model)
    MaxStep,     \* time steps of 30 seconds (bound of the model)
    MaxTries,    \* CHALLENGE_MAX_ATTEMPTS and MFA_FAILURE_LIMIT (5)
    Requests,    \* which of RequestKinds happen in this instance
    Enrolled     \* the second factor is enabled at the start

RequestKinds == {"signin", "verify", "web", "refresh", "logout",
                 "begin", "confirm", "regenerate", "disable", "membership", "wrong"}

VARIABLES
    member,     \* the user's membership of the organization
    cred,       \* user_mfa_credentials
    session,    \* the mobile_sessions row of the device
    chal,       \* mobile_mfa_challenges
    now,        \* the current time step of the one-time codes
    req,        \* the request each client has under way
    accepted,   \* history: how often each code was accepted
    exchanged,  \* history: how often each refresh token was exchanged
    yielded,    \* history: how often each challenge yielded a session
    confirmed   \* history: the secrets a code has confirmed

vars == <<member, cred, session, chal, now, req, accepted, exchanged, yielded, confirmed>>
history == <<accepted, exchanged, yielded, confirmed>>

Steps == 0..MaxStep
Tokens == 1..MaxTokens
Secrets == 1..MaxSecrets

\* A code of the authenticator, a recovery code (one per set), or a wrong one.
Totp(secret, step) == <<"totp", secret, step>>
Recovery(set) == <<"recovery", set, 0>>
Codes == {Totp(s, t) : s \in Secrets, t \in Steps} \cup {Recovery(s) : s \in Secrets}
Wrong == <<"wrong", 0, 0>>

NoCred == [st |-> "none", secret |-> 0, codes |-> 0, unused |-> FALSE,
           step |-> -1, failed |-> 0, locked |-> FALSE]
Idle == [at |-> "idle", token |-> 0, login |-> 0, code |-> Wrong]

At(p, at) == req[p].at = at
Goto(p, at) == req' = [req EXCEPT ![p].at = at]
Done(p) == req' = [req EXCEPT ![p] = Idle]

\* What a person may type: codes of the device's recent secrets that the
\* authenticator shows or has shown, the recovery code, and a mistake.
Typed == {Totp(s, t) : s \in Secrets \cap {cred.secret}, t \in {now - 1, now} \cap Steps}
           \cup {Recovery(s) : s \in Secrets \cap {cred.codes}}
           \cup (IF "wrong" \in Requests THEN {Wrong} ELSE {})

----------------------------------------------------------------------------
(* verifyMfaForLoginWithClient, under the lock of the credential's row.     *)

\* verifyTotp: of this secret, within a step of now, later than the last used.
FreshTotp(c, code) ==
    /\ code[1] = "totp" /\ code[2] = c.secret
    /\ code[3] \in (now - 1)..(now + 1) /\ code[3] > c.step
UnusedRecovery(c, code) == code[1] = "recovery" /\ code[2] = c.codes /\ c.unused
Valid(c, code) == FreshTotp(c, code) \/ UnusedRecovery(c, code)

\* The credential after a code was accepted, and after a wrong one.
used(c, code) ==
    [c EXCEPT !.step = IF FreshTotp(c, code) THEN code[3] ELSE @,
              !.unused = @ /\ ~UnusedRecovery(c, code),
              !.failed = 0, !.locked = FALSE]
missed(c) ==
    [c EXCEPT !.failed = @ + 1, !.locked = c.failed + 1 >= MaxTries]

Accept(code) ==
    /\ Valid(cred, code)
    /\ cred' = used(cred, code)
    /\ accepted' = [accepted EXCEPT ![code] = @ + 1]
Refuse(code) ==
    /\ ~Valid(cred, code) /\ cred.failed < MaxTries + 1
    /\ cred' = missed(cred)
    /\ UNCHANGED accepted
\* The second factor is not enabled: nothing is verified, and nothing refused.
NotAsked == cred.st # "enabled" /\ UNCHANGED <<cred, accepted>>

----------------------------------------------------------------------------
(* Signing in.                                                              *)

\* issueMobileSessionWithClient: the row of the device gets new tokens and is
\* no longer revoked.
issued(s) == [st |-> "live", token |-> s.token + 1, login |-> s.login + 1]
rotated(s) == [s EXCEPT !.token = @ + 1]

\* The password is right and the user has a membership.
SignIn(p) ==
    /\ "signin" \in Requests /\ At(p, "idle") /\ member = "active"
    /\ Goto(p, "factor")
    /\ UNCHANGED <<member, cred, session, chal, now, history>>

\* mfaStatus: a challenge, or a session at once.
SignInFactor(p) ==
    /\ At(p, "factor")
    /\ \/ /\ cred.st = "enabled"
          /\ \E c \in Challenges :
                chal[c].st = "none" /\ chal' = [chal EXCEPT ![c] = [st |-> "open", tries |-> 0]]
          /\ Done(p)
       \/ /\ cred.st # "enabled"
          /\ Goto(p, "issue") /\ UNCHANGED chal
    /\ UNCHANGED <<member, cred, session, now, history>>

\* The membership is read again before the row is written.
SignInIssue(p) ==
    /\ At(p, "issue") /\ session.token < MaxTokens
    /\ session' = IF member = "active" THEN issued(session) ELSE session
    /\ Done(p)
    /\ UNCHANGED <<member, cred, chal, now, history>>

\* A challenge that may be tried: a used, an expired and a locked one is refused.
Verifiable(c) == chal[c].st = "open" /\ chal[c].tries < MaxTries
\* verifyMobileMfaChallenge, one transaction under the locks of the challenge
\* and of the credential.  A wrong code is counted on both; a membership that
\* was removed uses the challenge up; one that has expired, like a lock, rolls
\* everything back.
VerifyChallenge(p) ==
    /\ "verify" \in Requests /\ At(p, "idle")
    /\ \E c \in Challenges, code \in Typed :
         /\ Verifiable(c) /\ ~(cred.st = "enabled" /\ cred.locked)
         /\ \/ /\ cred.st = "enabled" /\ Refuse(code)
               /\ chal' = [chal EXCEPT ![c].tries = @ + 1]
               /\ UNCHANGED <<session, yielded>>
            \/ /\ (cred.st = "enabled" /\ Accept(code)) \/ NotAsked
               /\ member # "expired"
               /\ chal' = [chal EXCEPT ![c].st = "used"]
               /\ IF member = "removed" THEN UNCHANGED <<session, yielded>>
                  ELSE /\ session.token < MaxTokens
                       /\ session' = issued(session)
                       /\ yielded' = [yielded EXCEPT ![c] = @ + 1]
    /\ UNCHANGED <<member, now, req, exchanged, confirmed>>

\* Five minutes pass.
ChallengeExpires(c) ==
    /\ chal[c].st = "open"
    /\ chal' = [chal EXCEPT ![c].st = "expired"]
    /\ UNCHANGED <<member, cred, session, now, req, history>>

\* verifyMfaForLogin of the web's sign-in: a transaction of its own.
WebSignIn(p) ==
    /\ "web" \in Requests /\ At(p, "idle")
    /\ cred.st = "enabled" /\ ~cred.locked
    /\ \E code \in Typed : Accept(code) \/ Refuse(code)
    /\ UNCHANGED <<member, session, chal, now, req, exchanged, yielded, confirmed>>

----------------------------------------------------------------------------
(* rotateMobileSession and revokeMobileSession.                             *)

RefreshRead(p) ==
    /\ "refresh" \in Requests /\ At(p, "idle")
    /\ session.st = "live"
    /\ req' = [req EXCEPT ![p] = [Idle EXCEPT !.at = "member", !.token = session.token]]
    /\ UNCHANGED <<member, cred, session, chal, now, history>>

RefreshMember(p) ==
    /\ At(p, "member")
    /\ Goto(p, IF member = "active" THEN "rotate" ELSE "revoke")
    /\ UNCHANGED <<member, cred, session, chal, now, history>>

\* Defective variants: the update names the session only; or the token only.
CurrentRow(p) == session.st = "live"
CurrentToken(p) == session.token = req[p].token
\* The update names the token that was read, and a session that is not revoked.
Current(p) == session.token = req[p].token /\ session.st = "live"

RefreshRotate(p) ==
    /\ At(p, "rotate") /\ session.token < MaxTokens
    /\ IF Current(p)
         THEN /\ session' = rotated(session)
              /\ exchanged' = [exchanged EXCEPT ![req[p].token] = @ + 1]
         ELSE UNCHANGED <<session, exchanged>>
    /\ Done(p)
    /\ UNCHANGED <<member, cred, chal, now, accepted, yielded, confirmed>>

\* Without a membership the row is revoked, whoever holds it by now.
RefreshRevoke(p) ==
    /\ At(p, "revoke")
    /\ session' = [session EXCEPT !.st = "revoked"]
    /\ Done(p)
    /\ UNCHANGED <<member, cred, chal, now, history>>

rotateMobileSession(p) == RefreshRead(p) \/ RefreshMember(p) \/ RefreshRotate(p) \/ RefreshRevoke(p)

\* The app signs out with the refresh token it holds; once the row has another
\* token the update matches nothing, and the answer is the same.
LogoutSend(p) ==
    /\ "logout" \in Requests /\ At(p, "idle") /\ session.st = "live"
    /\ req' = [req EXCEPT ![p] = [Idle EXCEPT !.at = "logout", !.token = session.token,
                                             !.login = session.login]]
    /\ UNCHANGED <<member, cred, session, chal, now, history>>

LogoutWrite(p) ==
    /\ At(p, "logout")
    /\ session' = IF session.token = req[p].token THEN [session EXCEPT !.st = "revoked"] ELSE session
    /\ Done(p)
    /\ UNCHANGED <<member, cred, chal, now, history>>

revokeMobileSession(p) == LogoutSend(p) \/ LogoutWrite(p)

----------------------------------------------------------------------------
(* The second factor.                                                       *)

BeginRead(p) ==
    /\ "begin" \in Requests /\ p \in Managers /\ At(p, "idle") /\ cred.st # "enabled"
    /\ Goto(p, "enrol")
    /\ UNCHANGED <<member, cred, session, chal, now, history>>

\* The row is written over, whatever it is by now.
BeginWrite(p) ==
    /\ At(p, "enrol") /\ cred.secret < MaxSecrets /\ cred.codes < MaxSecrets
    /\ cred' = [NoCred EXCEPT !.st = "pending", !.secret = cred.secret + 1,
                              !.codes = cred.codes + 1, !.unused = TRUE]
    /\ Done(p)
    /\ UNCHANGED <<member, session, chal, now, history>>

beginMfaEnrollment(p) == BeginRead(p) \/ BeginWrite(p)

\* Defective variant: any code will do.
ConfirmsUnread(code) == TRUE
\* The code is checked against the row as it was read.
Confirms(code) == FreshTotp(cred, code)

ConfirmRead(p) ==
    /\ "confirm" \in Requests /\ p \in Managers /\ At(p, "idle") /\ cred.st = "pending"
    /\ \E code \in Typed :
         /\ Confirms(code)
         /\ req' = [req EXCEPT ![p] = [Idle EXCEPT !.at = "confirm", !.code = code]]
    /\ UNCHANGED <<member, cred, session, chal, now, history>>

ConfirmWrite(p) ==
    /\ At(p, "confirm")
    /\ IF cred.st = "none" THEN UNCHANGED <<cred, confirmed, accepted>>
       ELSE /\ cred' = [cred EXCEPT !.st = "enabled", !.step = req[p].code[3],
                                    !.failed = 0, !.locked = FALSE]
            /\ confirmed' = IF req[p].code[1] = "totp" THEN confirmed \cup {req[p].code[2]} ELSE confirmed
            /\ accepted' = [accepted EXCEPT ![req[p].code] = @ + 1]
    /\ Done(p)
    /\ UNCHANGED <<member, session, chal, now, exchanged, yielded>>

confirmMfaEnrollment(p) == ConfirmRead(p) \/ ConfirmWrite(p)

\* regenerateRecoveryCodes and disableMfa verify a code first, and act in a
\* second statement; disableMfa also when there was nothing to verify.
FactorVerify(p, kind) ==
    /\ kind \in Requests /\ p \in Managers /\ At(p, "idle")
    /\ ~(cred.st = "enabled" /\ cred.locked)
    /\ \/ /\ cred.st = "enabled"
          /\ \E code \in Typed : \/ Accept(code) /\ Goto(p, kind)
                                 \/ Refuse(code) /\ UNCHANGED req
       \/ NotAsked /\ cred.st # "none" /\ Goto(p, kind)
    /\ UNCHANGED <<member, session, chal, now, exchanged, yielded, confirmed>>

RegenerateWrite(p) ==
    /\ At(p, "regenerate") /\ cred.codes < MaxSecrets
    /\ cred' = IF cred.st = "enabled" THEN [cred EXCEPT !.codes = @ + 1, !.unused = TRUE] ELSE cred
    /\ Done(p)
    /\ UNCHANGED <<member, session, chal, now, history>>

regenerateRecoveryCodes(p) == FactorVerify(p, "regenerate") \/ RegenerateWrite(p)

\* The numbers of secrets and code sets go on: what was used is never reissued.
DisableWrite(p) ==
    /\ At(p, "disable")
    /\ cred' = [NoCred EXCEPT !.secret = cred.secret, !.codes = cred.codes]
    /\ Done(p)
    /\ UNCHANGED <<member, session, chal, now, history>>

disableMfa(p) == FactorVerify(p, "disable") \/ DisableWrite(p)

----------------------------------------------------------------------------
(* Time and administrators.                                                 *)

\* The lock of fifteen minutes passes with the time, the count stays.
Tick ==
    /\ now < MaxStep
    /\ now' = now + 1
    /\ cred' \in {cred, [cred EXCEPT !.locked = FALSE]}
    /\ UNCHANGED <<member, session, chal, req, history>>

\* The membership expires, is removed or is renewed.
Membership ==
    /\ "membership" \in Requests
    /\ member' \in {"active", "expired", "removed"} \ {member}
    /\ UNCHANGED <<cred, session, chal, now, req, history>>

Init ==
    /\ member = "active"
    /\ cred = IF Enrolled THEN [NoCred EXCEPT !.st = "enabled", !.secret = 1, !.codes = 1, !.unused = TRUE]
                          ELSE NoCred
    /\ session = [st |-> "none", token |-> 0, login |-> 0]
    /\ chal = [c \in Challenges |-> [st |-> "none", tries |-> 0]]
    /\ now = 0
    /\ req = [p \in Clients |-> Idle]
    /\ accepted = [code \in Codes |-> 0]
    /\ exchanged = [t \in Tokens |-> 0]
    /\ yielded = [c \in Challenges |-> 0]
    /\ confirmed = IF Enrolled THEN {1} ELSE {}

Next ==
    \/ \E p \in Clients :
         \/ SignIn(p) \/ SignInFactor(p) \/ SignInIssue(p) \/ VerifyChallenge(p) \/ WebSignIn(p)
         \/ rotateMobileSession(p) \/ revokeMobileSession(p)
         \/ beginMfaEnrollment(p) \/ confirmMfaEnrollment(p)
         \/ regenerateRecoveryCodes(p) \/ disableMfa(p)
    \/ \E c \in Challenges : ChallengeExpires(c)
    \/ Tick \/ Membership

Spec == Init /\ [][Next]_vars

----------------------------------------------------------------------------
(* Properties.                                                              *)

Places == {"idle", "factor", "issue", "member", "rotate", "revoke", "logout", "enrol", "confirm",
           "regenerate", "disable"}
Credentials == [st : {"none", "pending", "enabled"}, secret : 0..MaxSecrets, codes : 0..MaxSecrets,
                unused : BOOLEAN, step : -1..MaxStep, failed : 0..(MaxTries + 1), locked : BOOLEAN]

TypeOK ==
    /\ member \in {"active", "expired", "removed"}
    /\ cred \in Credentials
    /\ session \in [st : {"none", "live", "revoked"}, token : 0..MaxTokens,
                    login : 0..MaxTokens]
    /\ chal \in [Challenges -> [st : {"none", "open", "used", "expired"}, tries : 0..MaxTries]]
    /\ now \in Steps
    /\ req \in [Clients -> [at : Places, token : 0..MaxTokens, login : 0..MaxTokens,
                            code : Codes \cup {Wrong}]]
    /\ accepted \in [Codes -> Nat] /\ exchanged \in [Tokens -> Nat]
    /\ yielded \in [Challenges -> Nat] /\ confirmed \subseteq Secrets

\* A code signs in once: neither the device's challenge, nor the web, nor the
\* pages of the second factor take a code that any of them has taken (the row
\* lock of verifyMfaForLoginWithClient and the last used step).
CodeUsedOnce == \A code \in Codes : accepted[code] <= 1

\* A refresh token is exchanged once, although two refreshes and a new sign-in
\* of the device may be under way (the guarded update of rotateMobileSession).
ExchangedOnce == \A t \in Tokens : exchanged[t] <= 1

\* A challenge yields at most one session (the transaction of
\* verifyMobileMfaChallenge).
ChallengeYieldsOnce == \A c \in Challenges : yielded[c] <= 1

\* The second factor that guards the account was confirmed by one of its own
\* codes: a person is never asked for codes of a secret they have not stored.
EnabledIsConfirmed == cred.st = "enabled" => cred.secret \in confirmed

\* Who has signed out stays signed out until they sign in again, although a
\* refresh was under way.
SignedOutStep ==
    session.st = "revoked" /\ (session'.st = "live" \/ session'.token # session.token) =>
        session'.login > session.login
SignedOutStays == [][SignedOutStep]_vars

\* Signing out ends the session of the device ("إبطال جلسة الجهاز", docs/API.md:88):
\* after the answer it is revoked, unless somebody has signed in again.
LogoutRevokes ==
    [][\A p \in Clients : At(p, "logout") /\ req'[p].at = "idle" =>
         session'.st = "revoked" \/ session'.login # req[p].login]_vars

=============================================================================
