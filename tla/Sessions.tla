------------------------------ MODULE Sessions ------------------------------
(***************************************************************************)
(* Browser sessions of one user who may be a member of several             *)
(* organizations: signing in, choosing the active organization, the check  *)
(* that every request passes, logging out, changing the password, and an   *)
(* administrator who removes the membership meanwhile.                     *)
(*                                                                         *)
(* Nothing here runs in one transaction: a request reads the session with  *)
(* its membership in one statement, but choosing an organization and       *)
(* removing a member take several.  Sessions are either the application's  *)
(* own ("legacy") or rows beside a session of Supabase, whose access token *)
(* stays valid until it expires.                                           *)
(***************************************************************************)
EXTENDS Naturals, FiniteSets

CONSTANTS
    Orgs,     \* organizations
    Ids,      \* sessions
    Requests, \* requests under way at the same time
    Source,   \* "legacy" or "supabase"
    MaxPasswords \* bound: passwords the user ever had

VARIABLES
    member,   \* organizations the user is an active member of
    session,  \* sessions: revoked or not, the active organization (0 if none), the password used
    jwt,      \* sessions of Supabase whose access token is still valid
    req,      \* requests
    removing, \* members.remove: the organization whose sessions are still to be revoked
    password  \* version of the user's password

vars == <<member, session, jwt, req, removing, password>>

None == [st |-> "none", org |-> 0, pw |-> 0]
Idle == [at |-> "idle", id |-> 0, org |-> 0, pw |-> 0]

Init ==
    /\ member \in SUBSET Orgs /\ session = [s \in Ids |-> None] /\ jwt = {}
    /\ req = [q \in Requests |-> Idle] /\ removing = 0 /\ password = 1

Ends(q) == req' = [req EXCEPT ![q] = Idle]
Goto(q, at) == req' = [req EXCEPT ![q].at = at]
Revoked(s) == session' = [session EXCEPT ![s].st = "revoked"]

\* The organization of a user with exactly one.
onlyOne == IF Cardinality(member) = 1 THEN CHOOSE o \in member : TRUE ELSE 0

-----------------------------------------------------------------------------
(* Signing in.                                                             *)

\* verifyPassword, which takes its time.
login(q, s) ==
    /\ req[q].at = "idle" /\ session[s].st = "none" /\ \A r \in Requests : req[r].id # s
    /\ req' = [req EXCEPT ![q] = [Idle EXCEPT !.at = "memberships", !.id = s, !.pw = password]]
    /\ UNCHANGED <<member, session, jwt, removing, password>>

\* The memberships decide whether the user may sign in at all and whether an
\* organization has to be chosen.
memberships(q) ==
    /\ req[q].at = "memberships"
    /\ IF member = {} THEN Ends(q) ELSE req' = [req EXCEPT ![q].at = "create", ![q].org = onlyOne]
    /\ UNCHANGED <<member, session, jwt, removing, password>>

createSession(q) ==
    /\ req[q].at = "create" /\ Ends(q)
    /\ session' = [session EXCEPT ![req[q].id] = [st |-> "open", org |-> req[q].org, pw |-> req[q].pw]]
    /\ jwt' = IF Source = "supabase" THEN jwt \cup {req[q].id} ELSE jwt
    /\ UNCHANGED <<member, removing, password>>

-----------------------------------------------------------------------------
(* The check of a request (currentSession).                                *)

Usable(s) == session[s].st = "open" /\ (Source = "supabase" => s \in jwt)

\* Defective variant: only the session is looked at.
joinedAny(s) == session[s].org # 0

\* activeMembership, joined to the session's organization.
joined(s) == session[s].org \in member

\* The session is read together with the membership of its organization: it is
\* admitted, or revoked if that membership is gone.
resolveCurrentSession(q, s) ==
    /\ req[q].at = "idle" /\ Usable(s)
    /\ CASE session[s].org = 0 /\ Source = "legacy" ->
              req' = [req EXCEPT ![q] = [Idle EXCEPT !.at = "choose", !.id = s]] /\ UNCHANGED session
         [] session[s].org # 0 /\ ~joined(s) -> Revoked(s) /\ UNCHANGED req
         [] OTHER ->
              /\ req' = [req EXCEPT ![q] = [Idle EXCEPT !.at = "admitted", !.id = s, !.org = session[s].org]]
              /\ UNCHANGED session
    /\ UNCHANGED <<member, jwt, removing, password>>

\* A session without an organization: with one membership that one is taken,
\* with none the session is revoked.
choosesOnlyOne(q) ==
    /\ req[q].at = "choose"
    /\ LET s == req[q].id IN
         CASE member = {} -> Revoked(s) /\ Ends(q)
           [] onlyOne # 0 ->
                /\ session' = [session EXCEPT ![s].org = onlyOne]
                /\ req' = [req EXCEPT ![q].at = "rejoin", ![q].org = onlyOne]
           [] OTHER -> Ends(q) /\ UNCHANGED session
    /\ UNCHANGED <<member, jwt, removing, password>>

\* Its membership is read again before the request is admitted.
rejoins(q) ==
    /\ req[q].at = "rejoin"
    /\ IF req[q].org \in member THEN Goto(q, "admitted") /\ UNCHANGED session
                                ELSE Revoked(req[q].id) /\ Ends(q)
    /\ UNCHANGED <<member, jwt, removing, password>>

\* A session of Supabase whose row is missing or revoked is written again as
\* long as the access token is valid (upsertSupabaseAppSession).
upsertSupabaseAppSession(q, s) ==
    /\ Source = "supabase" /\ req[q].at = "idle" /\ s \in jwt /\ session[s].st = "revoked"
    /\ IF member = {} THEN jwt' = jwt \ {s} /\ UNCHANGED session
                      ELSE session' = [session EXCEPT ![s].st = "open"] /\ UNCHANGED jwt
    /\ UNCHANGED <<member, req, removing, password>>

Answered(q) ==
    /\ req[q].at = "admitted" /\ Ends(q)
    /\ UNCHANGED <<member, session, jwt, removing, password>>

-----------------------------------------------------------------------------
(* Changes.                                                                *)

\* setActiveOrganization: the membership is read first, the session written
\* after that.
setActiveOrganization(q, s, o) ==
    /\ req[q].at = "idle" /\ Usable(s) /\ o \in member
    /\ req' = [req EXCEPT ![q] = [Idle EXCEPT !.at = "switch", !.id = s, !.org = o]]
    /\ UNCHANGED <<member, session, jwt, removing, password>>

switched(q) ==
    /\ req[q].at = "switch" /\ Ends(q)
    /\ session' = IF session[req[q].id].st = "open" THEN [session EXCEPT ![req[q].id].org = req[q].org] ELSE session
    /\ UNCHANGED <<member, jwt, removing, password>>

\* Logging out; the provider forgets the session but not the access token.
revokeCurrentSession(s) ==
    /\ session[s].st = "open" /\ Revoked(s)
    /\ UNCHANGED <<member, jwt, req, removing, password>>

\* The password is changed: every session is revoked in the same transaction
\* and once more, and the browser gets a new one.
changePassword(s) ==
    /\ Source = "legacy" /\ password < MaxPasswords /\ session[s].st = "open" /\ joined(s)
    /\ password' = password + 1
    /\ session' = [t \in Ids |->
         IF t = s THEN [session[s] EXCEPT !.pw = password + 1]
         ELSE IF session[t].st = "open" THEN [session[t] EXCEPT !.st = "revoked"] ELSE session[t]]
    /\ UNCHANGED <<member, jwt, req, removing>>

\* members.remove: the row is deleted, then the sessions in that organization
\* are revoked; the process may die in between.
removeMember(o) ==
    /\ removing = 0 /\ o \in member
    /\ member' = member \ {o} /\ removing' = o
    /\ UNCHANGED <<session, jwt, req, password>>

revokeOrganizationSessions ==
    /\ removing # 0 /\ removing' = 0
    /\ session' = [s \in Ids |->
         IF session[s].st = "open" /\ session[s].org = removing THEN [session[s] EXCEPT !.st = "revoked"] ELSE session[s]]
    /\ UNCHANGED <<member, jwt, req, password>>

Dies ==
    /\ removing # 0 /\ removing' = 0 /\ UNCHANGED <<member, session, jwt, req, password>>

addMember(o) ==
    /\ o \notin member /\ member' = member \cup {o} /\ UNCHANGED <<session, jwt, req, removing, password>>

TokenExpires(s) ==
    /\ s \in jwt /\ jwt' = jwt \ {s} /\ UNCHANGED <<member, session, req, removing, password>>

Next ==
    \/ \E q \in Requests :
         \/ \E s \in Ids : login(q, s) \/ resolveCurrentSession(q, s) \/ upsertSupabaseAppSession(q, s)
                             \/ \E o \in Orgs : setActiveOrganization(q, s, o)
         \/ memberships(q) \/ createSession(q) \/ choosesOnlyOne(q) \/ rejoins(q) \/ Answered(q) \/ switched(q)
    \/ \E s \in Ids : revokeCurrentSession(s) \/ changePassword(s) \/ TokenExpires(s)
    \/ \E o \in Orgs : removeMember(o) \/ addMember(o)
    \/ revokeOrganizationSessions \/ Dies

Spec == Init /\ [][Next]_vars

-----------------------------------------------------------------------------

\* A request is admitted to an organization only while its user is a member of
\* it, although a session may be left, or made, active there afterwards.
AdmittedStep ==
    \A q \in Requests : req'[q].at = "admitted" /\ req'[q] # req[q] /\ req'[q].org # 0 => req'[q].org \in member

\* Changing the password ends every session that was opened with an earlier one.
OldPasswordEnds == \A s \in Ids : session[s].st = "open" /\ Source = "legacy" => session[s].pw = password

=============================================================================
