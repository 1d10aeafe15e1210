------------------------------ MODULE GoogleOAuth ------------------------------
(***************************************************************************)
(* One Google connection: the OAuth state that was begun, the callbacks    *)
(* that bring its code, and the requests that revoke or delete the         *)
(* connection.  Google's side is the grant the exchange of the code makes. *)
(***************************************************************************)
EXTENDS Naturals

CONSTANTS
    Callbacks, \* requests to the callback with the state and its code
    Events     \* which of EventKinds happen in this instance

EventKinds == {"expire", "reject", "revoke", "delete"}

VARIABLES
    connection, \* site_connections: absent, pending, verified or revoked
    tokens,     \* encrypted_credentials are stored
    state,      \* site_oauth_states: absent, open, consumed, expired or deleted
    callback,   \* position of each callback
    revoker,    \* position of the request that revokes, and whether it saw tokens
    grant,      \* external: Google's grant: none, live or revoked
    exchanges   \* history: codes exchanged

vars == <<connection, tokens, state, callback, revoker, grant, exchanges>>

TypeOK ==
    /\ connection \in {"absent", "pending", "verified", "revoked"} /\ tokens \in BOOLEAN
    /\ state \in {"absent", "open", "consumed", "expired", "deleted"}
    /\ callback \in [Callbacks -> {"idle", "consume", "exchange", "write", "done"}]
    /\ revoker \in {"idle", "google", "write", "done"}
    /\ grant \in {"none", "live", "revoked"} /\ exchanges \in Nat

----------------------------------------------------------------------------
beginGoogleOAuth ==
    /\ connection = "absent" /\ state = "absent"
    /\ connection' = "pending" /\ state' = "open"
    /\ UNCHANGED <<tokens, callback, revoker, grant, exchanges>>
Expires ==
    /\ "expire" \in Events /\ state = "open"
    /\ state' = "expired"
    /\ UNCHANGED <<connection, tokens, callback, revoker, grant, exchanges>>

\* completeGoogleOAuth: the state is found, ...
FindState(c) ==
    /\ callback[c] = "idle" /\ state = "open"
    /\ callback' = [callback EXCEPT ![c] = "consume"]
    /\ UNCHANGED <<connection, tokens, state, revoker, grant, exchanges>>
\* Defective variant: it is consumed by its identifier alone.
ConsumeAgain(c) ==
    /\ callback[c] = "consume"
    /\ state' = IF state = "deleted" THEN state ELSE "consumed"
    /\ callback' = [callback EXCEPT ![c] = IF state # "deleted" THEN "exchange" ELSE "done"]
    /\ UNCHANGED <<connection, tokens, revoker, grant, exchanges>>
\* ... consumed unless someone else did, ...
ConsumeState(c) ==
    /\ callback[c] = "consume"
    /\ state' = IF state \in {"open", "expired"} THEN "consumed" ELSE state
    /\ callback' = [callback EXCEPT ![c] = IF state \in {"open", "expired"} THEN "exchange" ELSE "done"]
    /\ UNCHANGED <<connection, tokens, revoker, grant, exchanges>>
\* ... its code exchanged and the identity checked, ...
Exchange(c) ==
    /\ callback[c] = "exchange"
    /\ \/ /\ grant' = "live" /\ exchanges' = exchanges + 1
          /\ callback' = [callback EXCEPT ![c] = "write"]
       \/ /\ "reject" \in Events
          /\ callback' = [callback EXCEPT ![c] = "done"]
          /\ UNCHANGED exchanges /\ grant' \in {grant, "live"}
    /\ UNCHANGED <<connection, tokens, state, revoker>>
\* ... and the tokens stored in a connection that is still pending.
StoreTokens(c) ==
    /\ callback[c] = "write"
    /\ IF connection = "pending" THEN connection' = "verified" /\ tokens' = TRUE
                                 ELSE UNCHANGED <<connection, tokens>>
    /\ callback' = [callback EXCEPT ![c] = "done"]
    /\ UNCHANGED <<state, revoker, grant, exchanges>>

completeGoogleOAuth(c) == FindState(c) \/ ConsumeState(c) \/ Exchange(c) \/ StoreTokens(c)

\* revokeGoogleConnection: the tokens it read are revoked with Google, ...
RevokeRead ==
    /\ "revoke" \in Events /\ revoker = "idle" /\ connection # "absent"
    /\ revoker' = IF tokens THEN "google" ELSE "write"
    /\ UNCHANGED <<connection, tokens, state, callback, grant, exchanges>>
RevokeGoogle ==
    /\ revoker = "google"
    /\ \/ revoker' = "write" /\ grant' = "revoked"
       \/ "reject" \in Events /\ revoker' = "done" /\ UNCHANGED grant
    /\ UNCHANGED <<connection, tokens, state, callback, exchanges>>
\* ... and what is stored then is erased.
RevokeErase ==
    /\ revoker = "write"
    /\ IF connection = "absent" THEN UNCHANGED <<connection, tokens>>
       ELSE connection' = "revoked" /\ tokens' = FALSE
    /\ revoker' = "done"
    /\ UNCHANGED <<state, callback, grant, exchanges>>

revokeGoogleConnection == RevokeRead \/ RevokeGoogle \/ RevokeErase

\* deleteSiteConnection takes the state with it.
deleteSiteConnection ==
    /\ "delete" \in Events /\ connection # "absent"
    /\ connection' = "absent" /\ tokens' = FALSE /\ state' = "deleted"
    /\ UNCHANGED <<callback, revoker, grant, exchanges>>

----------------------------------------------------------------------------
Init ==
    /\ connection = "absent" /\ tokens = FALSE /\ state = "absent"
    /\ callback = [c \in Callbacks |-> "idle"] /\ revoker = "idle"
    /\ grant = "none" /\ exchanges = 0

Next ==
    \/ beginGoogleOAuth \/ Expires \/ revokeGoogleConnection \/ deleteSiteConnection
    \/ \E c \in Callbacks : completeGoogleOAuth(c)

Spec == Init /\ [][Next]_vars

----------------------------------------------------------------------------
(* Properties.                                                              *)

\* The code of one state is exchanged once, however many callbacks bring it,
\* and what was revoked holds no tokens (the guarded updates of
\* completeGoogleOAuth).
StateUsedOnce ==
    /\ exchanges <= 1
    /\ connection = "revoked" => ~tokens

\* Revoking a connection calls Google's endpoint and then erases the tokens: the
\* tokens it erases have been revoked (revokeGoogleConnection).
ErasedIsRevoked ==
    [][tokens /\ connection' = "revoked" => grant = "revoked"]_vars

=============================================================================
