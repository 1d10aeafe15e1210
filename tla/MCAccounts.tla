------------------------------ MODULE MCAccounts ------------------------------
(***************************************************************************)
(* Ways into an account, checked in one run.  "enrol" is a user of         *)
(* MobileSignIn without a second factor, who manages it from one settings  *)
(* page while codes are used elsewhere; "device" is one who has it and     *)
(* signs in, refreshes and signs out on the device with two requests at a  *)
(* time; "phone", in the variables of WhatsAppLinks itself, is two users   *)
(* who connect one telephone; "login" is an interactive login of           *)
(* BrowserLogins and "google" a connection of GoogleOAuth whose callback   *)
(* comes three times; "create", "team" and "moved" are the guided flows of *)
(* ChannelFlows: for an agent and for two teams with crashes, and for both *)
(* in a chat whose number moves between two organizations.  The variables  *)
(* of the other modules stand still.                                       *)
(***************************************************************************)
EXTENDS WhatsAppLinks, TLC

CONSTANTS a, b, m1, m2   \* the users and the messages of "phone"

VARIABLES which, member, cred, session, chal, now, req, accepted, exchanged, yielded, confirmed,
          login, runner, beginner, poll, canceller, finalized,
          linked, usable, chat, msg, buttons, shown, agents, runs, flows, closed, doubted,
          connection, tokens, state, callback, revoker, grant, exchanges

Enrol == INSTANCE MobileSignIn WITH
    Clients <- {"p1", "p2"}, Managers <- {"p1"}, Challenges <- {"c1"},
    MaxTokens <- 1, MaxSecrets <- 2, MaxStep <- 2, MaxTries <- 2,
    Requests <- {"signin", "verify", "web", "begin", "confirm", "regenerate", "disable", "wrong"},
    Enrolled <- FALSE
Device == INSTANCE MobileSignIn WITH
    Clients <- {"p1", "p2"}, Managers <- {}, Challenges <- {"c1"},
    MaxTokens <- 3, MaxSecrets <- 1, MaxStep <- 1, MaxTries <- 2,
    Requests <- {"signin", "verify", "web", "refresh", "logout", "membership", "wrong"},
    Enrolled <- TRUE

Login == INSTANCE BrowserLogins WITH
    Polls <- {"p1", "p2", "p3"}, Events <- {"expire", "timer", "record", "lost", "delete"}
Google == INSTANCE GoogleOAuth WITH
    Callbacks <- {"c1", "c2", "c3"}, Events <- {"expire", "reject", "revoke", "delete"}

Create == INSTANCE ChannelFlows WITH session <- chat,
    Orgs <- {"o"}, OrgOf <- [p |-> "o"], Models <- [p |-> <<"x">>], Teams <- {},
    MaxFlows <- 2, MaxCreated <- 2, Tries <- 2, Events <- {"crash", "disable"}
Team == INSTANCE ChannelFlows WITH session <- chat,
    Orgs <- {"o"}, OrgOf <- [t |-> "o", u |-> "o"], Models <- [p \in {} |-> <<>>],
    Teams <- {"t", "u"}, MaxFlows <- 2, MaxCreated <- 2, Tries <- 2, Events <- {"crash"}
Moved == INSTANCE ChannelFlows WITH session <- chat,
    Orgs <- {"o", "q"}, OrgOf <- [p |-> "o", r |-> "q", t |-> "o"],
    Models <- [p |-> <<"x">>, r |-> <<"y">>], Teams <- {"t"},
    MaxFlows <- 2, MaxCreated <- 2, Tries <- 1, Events <- {"relink", "expire"}

PhoneSymmetry == Permutations({a, b}) \cup Permutations({m1, m2})

signIn == <<member, cred, session, chal, now, req, accepted, exchanged, yielded, confirmed>>
browser == <<login, runner, beginner, poll, canceller, finalized>>
google == <<tokens, state, callback, revoker, grant, exchanges>>
talk == <<linked, usable, chat, msg, buttons, shown, agents, runs, flows, closed, doubted>>
allVars == <<which, signIn, vars, browser, google, connection, talk>>

None == "none"
SignInStill ==
    /\ member = None /\ cred = None /\ session = None /\ chal = None /\ now = None
    /\ req = None /\ accepted = None /\ exchanged = None /\ yielded = None /\ confirmed = None
BrowserStill ==
    /\ login = None /\ runner = None /\ beginner = None /\ poll = None
    /\ canceller = None /\ finalized = None
GoogleStill ==
    /\ tokens = None /\ state = None /\ callback = None /\ revoker = None
    /\ grant = None /\ exchanges = None
TalkStill ==
    /\ linked = None /\ usable = None /\ chat = None /\ msg = None /\ buttons = None /\ shown = None
    /\ agents = None /\ runs = None /\ flows = None /\ closed = None /\ doubted = None
InitTalk ==
    \/ which = "create" /\ Create!Init
    \/ which = "team" /\ Team!Init
    \/ which = "moved" /\ Moved!Init
InitOthers ==
    \/ /\ BrowserStill /\ GoogleStill /\ connection = None
       /\ \/ which = "enrol" /\ Enrol!Init
          \/ which = "device" /\ Device!Init
    \/ SignInStill /\ BrowserStill /\ GoogleStill /\ connection = None /\ which = "phone"
    \/ SignInStill /\ GoogleStill /\ which = "login" /\ Login!Init
    \/ SignInStill /\ BrowserStill /\ which = "google" /\ Google!Init
AllInit ==
    /\ Init
    /\ \/ TalkStill /\ InitOthers
       \/ SignInStill /\ BrowserStill /\ GoogleStill /\ connection = None /\ InitTalk
NextTalk ==
    \/ which = "create" /\ Create!Next
    \/ which = "team" /\ Team!Next
    \/ which = "moved" /\ Moved!Next
NextOthers ==
    \/ /\ UNCHANGED <<browser, google, connection>>
       /\ \/ which = "enrol" /\ Enrol!Next
          \/ which = "device" /\ Device!Next
    \/ UNCHANGED <<signIn, google>> /\ which = "login" /\ Login!Next
    \/ UNCHANGED <<signIn, browser>> /\ which = "google" /\ Google!Next
AllNext ==
    /\ which' = which
    /\ \/ which = "phone" /\ Next /\ UNCHANGED <<signIn, browser, google, connection, talk>>
       \/ UNCHANGED <<vars, talk>> /\ NextOthers
       \/ UNCHANGED <<vars, signIn, browser, google, connection>> /\ NextTalk
AllSpec == AllInit /\ [][AllNext]_allVars

\* RevokedLinksNobody and AcknowledgedPayloadIsQueued are checked of "phone"; each
\* of the others joins the properties of the modules in the instances that can
\* violate them.
\* No code of the second factor is accepted twice, no refresh token exchanged
\* twice, no challenge yields two sessions, no connect link connects twice, no
\* code of Google is exchanged twice and no confirmation in a chat creates twice.
UsedOnce ==
    /\ which = "enrol" => Enrol!CodeUsedOnce
    /\ which = "device" => Device!CodeUsedOnce /\ Device!ExchangedOnce /\ Device!ChallengeYieldsOnce
    /\ which = "phone" => TokenLinksOnce
    /\ which = "google" => Google!StateUsedOnce
    /\ which = "create" => Create!CreatedOnce
    /\ which = "team" => Team!CreatedOnce
    /\ which = "moved" => Moved!CreatedOnce
\* The secret that guards the account has been confirmed; an agent is created as
\* its confirmation displayed it, and within the organization the number belongs
\* to; a login is completed and its connection verified together, when its person
\* finalized it.
EnabledIsConfirmed ==
    /\ which = "enrol" => Enrol!EnabledIsConfirmed
    /\ which = "create" => Create!CreatedAsShown
    /\ which = "moved" => Moved!CreatedAsShown /\ Moved!CreatedWithinOrg
    /\ which = "login" => Login!CompletedIsVerified
\* Only signing in brings a revoked session back, and nothing is created from a
\* flow that has ended.
EndedStays ==
    [][/\ which = "device" => Device!SignedOutStep
       /\ which = "create" => Create!ClosedStep
       /\ which = "team" => Team!ClosedStep
       /\ which = "moved" => Moved!ClosedStep]_allVars
=============================================================================
