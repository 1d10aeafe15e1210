------------------------- MODULE ProviderCredentials -------------------------
(***************************************************************************)
(* The connections of an organization to model providers: a key and an     *)
(* address, tested with a real call before they are saved as verified, by  *)
(* the dashboard and by the API.  A test takes seconds; while one runs,    *)
(* another request may change, disable or delete the connection, and an    *)
(* agent's run may find that the provider refuses the key.                 *)
(*                                                                         *)
(* Transactions are one action each.  Two of them that set the default     *)
(* meet in the partial unique index "one default per organization": the    *)
(* later one sees the earlier one's row or fails.                          *)
(***************************************************************************)
EXTENDS Naturals, Sequences

CONSTANTS
    Creds,       \* identifiers of connections, all absent at first
    Keys,        \* keys (positive; 0 is "not given")
    Urls,        \* addresses (positive)
    Opens,       \* pairs <<key, address>> the provider accepts
    Requests,    \* requests under way at the same time
    Bodies,      \* what a request may ask for
    Runs,        \* attempts of agents' runs
    MaxSessions, \* bound: tests of the form that is not saved yet
    Events       \* what may happen besides: "revoke"

VARIABLES
    row,      \* provider_credentials
    catalog,  \* connections whose models the catalog lists as available
    default,  \* the organization's default connection, 0 if none
    saved,    \* provider_validation_sessions
    req,      \* requests of administrators
    run,      \* attempts of agents' runs
    accepted, \* pairs the provider accepts now
    tested    \* pairs that passed a test

vars == <<row, catalog, default, saved, req, run, accepted, tested>>

\* A body: 0 and "keep" are fields that were not sent.
Body(kind) == [kind |-> kind, key |-> 0, url |-> 0, recheck |-> FALSE, enabled |-> "keep", standard |-> "keep"]
Absent == [st |-> "absent", key |-> 0, url |-> 0, enabled |-> FALSE, standard |-> FALSE,
           failures |-> 0, open |-> FALSE]
NoRequest == [at |-> "idle", body |-> Body("none"), cred |-> 0, read |-> Absent, valid |-> FALSE, of |-> 0]
NoRun == [at |-> "idle", cred |-> 0, key |-> 0, url |-> 0, error |-> "none"]

Init ==
    /\ row = [c \in Creds |-> Absent] /\ catalog = {} /\ default = 0 /\ saved = <<>>
    /\ req = [r \in Requests |-> NoRequest] /\ run = [n \in Runs |-> NoRun]
    /\ accepted = Opens /\ tested = {}

active(c) == row[c].st \in {"verified", "failed"}

-----------------------------------------------------------------------------
(* A request.                                                              *)

Ends(r) == req' = [req EXCEPT ![r] = NoRequest]
Goto(r, at) == req' = [req EXCEPT ![r].at = at]

\* An administrator asks for something; a connection that exists is read first.
Ask(r, body, c) ==
    /\ req[r].at = "idle"
    /\ body.kind \in {"patch", "apiPatch", "delete", "apiDelete"} => active(c)
    /\ body.kind \in {"create", "apiCreate", "test"} => row[c].st = "absent"
    /\ body.kind = "save" => row[c].st = "absent" /\ saved # <<>>
    /\ req' = [req EXCEPT ![r] = [NoRequest EXCEPT !.body = body, !.cred = c, !.read = row[c],
         !.at = CASE body.kind \in {"delete", "apiDelete"} -> "delete"
                  [] body.kind = "save" -> "save"
                  [] OTHER -> "validate"]]
    /\ UNCHANGED <<row, catalog, default, saved, run, accepted, tested>>

Given(x, old) == IF x = 0 THEN old ELSE x
keyOf(r) == Given(req[r].body.key, req[r].read.key)
urlOf(r) == Given(req[r].body.url, req[r].read.url)
pairOf(r) == <<keyOf(r), urlOf(r)>>

\* Defective variant: a new key alone is stored without a test.
connectionChangedUrl(body) == body.url # 0 \/ body.recheck

\* Whether a PATCH has to be tested.
connectionChanged(body) == body.key # 0 \/ body.url # 0 \/ body.recheck

Creating(r) == req[r].body.kind \in {"create", "apiCreate", "test"}

\* validateProvider: the models are listed and one of them answers.  A connection
\* may be created that fails, on request, but not as the default.
validateProvider(r) ==
    /\ req[r].at = "validate" /\ (Creating(r) \/ connectionChanged(req[r].body))
    /\ \/ /\ pairOf(r) \in accepted
          /\ tested' = tested \cup {pairOf(r)}
          /\ req' = [req EXCEPT ![r].at = "write", ![r].valid = TRUE]
       \/ /\ IF req[r].body.kind = "create" /\ req[r].body.standard # "on"
               THEN Goto(r, "write") \/ Ends(r)
               ELSE Ends(r)
          /\ UNCHANGED tested
    /\ UNCHANGED <<row, catalog, default, saved, run, accepted>>

\* A PATCH of other fields: enabling needs a verified connection.
checkEnabled(r) ==
    /\ req[r].at = "validate" /\ ~Creating(r) /\ ~connectionChanged(req[r].body)
    /\ IF req[r].body.enabled = "on" /\ req[r].read.st # "verified" THEN Ends(r) ELSE Goto(r, "write")
    /\ UNCHANGED <<row, catalog, default, saved, run, accepted, tested>>

\* Where a transaction makes c the default, the others stop being it.
standardOf(rows, c) ==
    [d \in Creds |-> IF rows[c].standard /\ d # c THEN [rows[d] EXCEPT !.standard = FALSE] ELSE rows[d]]
Created(r, valid) ==
    [st |-> IF valid THEN "verified" ELSE "failed", key |-> keyOf(r), url |-> urlOf(r), enabled |-> valid,
     standard |-> req[r].body.standard = "on", failures |-> IF valid THEN 0 ELSE 1, open |-> FALSE]

\* POST of the dashboard.
create(r) ==
    /\ req[r].at = "write" /\ req[r].body.kind = "create"
    /\ LET c == req[r].cred IN
         IF row[c].st # "absent" THEN Ends(r) /\ UNCHANGED <<row, default>>
         ELSE /\ row' = standardOf([row EXCEPT ![c] = Created(r, req[r].valid)], c)
              /\ default' = IF req[r].body.standard = "on" THEN c ELSE default
              /\ IF req[r].valid THEN Goto(r, "sync") ELSE Ends(r)
    /\ UNCHANGED <<catalog, saved, run, accepted, tested>>

\* POST of the API, which knows no default.
apiCreate(r) ==
    /\ req[r].at = "write" /\ req[r].body.kind = "apiCreate"
    /\ LET c == req[r].cred IN
         IF row[c].st # "absent" THEN Ends(r) /\ UNCHANGED row
         ELSE row' = [row EXCEPT ![c] = [Created(r, TRUE) EXCEPT !.standard = FALSE]] /\ Goto(r, "sync")
    /\ UNCHANGED <<catalog, default, saved, run, accepted, tested>>

\* The form's test is remembered with the hashes of what was tested.
validated(r) ==
    /\ req[r].at = "write" /\ req[r].body.kind = "test"
    /\ Len(saved) < MaxSessions
    /\ saved' = Append(saved, [key |-> keyOf(r), url |-> urlOf(r), open |-> TRUE, used |-> 0])
    /\ Ends(r)
    /\ UNCHANGED <<row, catalog, default, run, accepted, tested>>

\* Defective variant: the key is not compared with the one that was tested.
providerValidationMatchesUrl(s, body) == s.url = body.url

providerValidationMatches(s, body) == s.key = body.key /\ s.url = body.url

\* Defective variant: the test is not marked as used.
consumedNever(s, n) == [s EXCEPT ![n].used = @ + 1]

consumed(s, n) == [s EXCEPT ![n].open = FALSE, ![n].used = @ + 1]

\* The form is saved with a test that is still open, in one transaction.
verifiedSave(r, n) ==
    /\ req[r].at = "save" /\ n \in DOMAIN saved
    /\ LET c == req[r].cred IN
         IF saved[n].open /\ providerValidationMatches(saved[n], req[r].body) /\ row[c].st = "absent"
           THEN /\ saved' = consumed(saved, n)
                /\ row' = standardOf([row EXCEPT ![c] = Created(r, TRUE)], c)
                /\ default' = IF req[r].body.standard = "on" THEN c ELSE default
                /\ catalog' = catalog \cup {c}
           ELSE UNCHANGED <<saved, row, default, catalog>>
    /\ Ends(r)
    /\ UNCHANGED <<run, accepted, tested>>

SessionExpires(n) ==
    /\ n \in DOMAIN saved /\ saved[n].open /\ saved' = [saved EXCEPT ![n].open = FALSE]
    /\ UNCHANGED <<row, catalog, default, req, run, accepted, tested>>

\* Defective variant: the row is written although it was deleted meanwhile.
stillActiveAny(c) == TRUE

stillActive(c) == active(c)

\* What both PATCHes write: a test's outcome and address, the key if one was sent.
Patched(r) ==
    LET b == req[r].body
        old == row[req[r].cred]
        on == CASE b.enabled = "on" -> TRUE [] b.enabled = "off" -> FALSE
                [] OTHER -> req[r].valid \/ old.enabled
    IN  [old EXCEPT !.enabled = on, !.key = Given(b.key, @), !.url = IF req[r].valid THEN urlOf(r) ELSE @,
                    !.st = IF req[r].valid THEN "verified" ELSE @,
                    !.failures = IF req[r].valid THEN 0 ELSE @, !.open = IF req[r].valid THEN FALSE ELSE @]

\* PATCH of the dashboard, which also moves the default; it is taken away from
\* the organization only if the row had it when it was read.
patch(r) ==
    /\ req[r].at = "write" /\ req[r].body.kind = "patch"
    /\ LET c == req[r].cred
           standard == req[r].body.standard IN
         IF ~stillActive(c) THEN Ends(r) /\ UNCHANGED <<row, default>>
         ELSE /\ row' = standardOf([row EXCEPT ![c] =
                          [Patched(r) EXCEPT !.standard = IF standard = "keep" THEN @ ELSE standard = "on"]],
                          c)
              /\ default' = IF standard = "on" THEN c
                            ELSE IF standard = "off" /\ req[r].read.standard /\ default = c THEN 0
                            ELSE default
              /\ IF req[r].valid THEN Goto(r, "sync") ELSE Ends(r)
    /\ UNCHANGED <<catalog, saved, run, accepted, tested>>

apiPatch(r) ==
    /\ req[r].at = "write" /\ req[r].body.kind = "apiPatch"
    /\ LET c == req[r].cred IN
         IF ~stillActive(c) THEN Ends(r) /\ UNCHANGED row
         ELSE /\ row' = [row EXCEPT ![c] = Patched(r)]
              /\ IF req[r].valid THEN Goto(r, "sync") ELSE Ends(r)
    /\ UNCHANGED <<catalog, default, saved, run, accepted, tested>>

\* The models that were listed replace those of the catalog, afterwards.
syncModelCatalog(r) ==
    /\ req[r].at = "sync" /\ Ends(r)
    /\ catalog' = catalog \cup {req[r].cred}
    /\ UNCHANGED <<row, default, saved, run, accepted, tested>>

\* Defective variant: the deleted connection stays enabled.
disabledNot(x) == x

disabled(x) == [x EXCEPT !.enabled = FALSE]

Deletes(r, kind, gone) ==
    /\ req[r].at = "delete" /\ req[r].body.kind = kind
    /\ LET c == req[r].cred IN
         /\ row' = IF active(c) THEN [row EXCEPT ![c] = gone] ELSE row
         /\ catalog' = catalog \ {c}
         /\ default' = IF default = c THEN 0 ELSE default
    /\ Ends(r)
    /\ UNCHANGED <<saved, run, accepted, tested>>
Deleted(c) == [disabled(row[c]) EXCEPT !.st = IF @ = "failed" THEN "deletedFailed" ELSE "deleted"]

\* Both soft deletions; the API leaves the flag of the default.
delete(r) == Deletes(r, "delete", [Deleted(req[r].cred) EXCEPT !.standard = FALSE, !.open = FALSE])
apiDelete(r) == Deletes(r, "apiDelete", Deleted(req[r].cred))

-----------------------------------------------------------------------------
(* Agents' runs.                                                           *)

\* The router takes every connection that is enabled, verified and not paused.
\* It does not look at the deletion.
prepareRun(n, c) ==
    /\ run[n].at = "idle" /\ row[c].enabled /\ row[c].st \in {"verified", "deleted"} /\ ~row[c].open
    /\ run' = [run EXCEPT ![n] = [NoRun EXCEPT !.at = "call", !.cred = c, !.key = row[c].key, !.url = row[c].url]]
    /\ UNCHANGED <<row, catalog, default, saved, req, accepted, tested>>

\* The provider answers or refuses.  An answer is recorded nowhere.
Called(n) ==
    /\ run[n].at = "call"
    /\ \/ <<run[n].key, run[n].url>> \in accepted /\ run' = [run EXCEPT ![n].at = "done"]
       \/ /\ <<run[n].key, run[n].url>> \notin accepted
          /\ run' = [run EXCEPT ![n].at = "record", ![n].error = "unauthorized"]
       \/ run' = [run EXCEPT ![n].at = "record", ![n].error = "unavailable"]
    /\ UNCHANGED <<row, catalog, default, saved, req, accepted, tested>>

\* recordCredentialFailure: a refused key is marked as failed, whatever the
\* connection's key is by now; a third failure pauses the connection, and an
\* earlier one ends a pause.
recordCredentialFailure(n) ==
    /\ run[n].at = "record"
    /\ LET c == run[n].cred
           refused == run[n].error = "unauthorized" IN
         row' = [row EXCEPT ![c].failures = IF @ < 3 THEN @ + 1 ELSE @,
                            ![c].open = refused \/ row[c].failures >= 2,
                            ![c].st = CASE refused /\ @ = "verified" -> "failed"
                                        [] refused /\ @ = "deleted" -> "deletedFailed"
                                        [] OTHER -> @]
    /\ run' = [run EXCEPT ![n].at = "done"]
    /\ UNCHANGED <<catalog, default, saved, req, accepted, tested>>

CircuitCloses(c) ==
    /\ row[c].open /\ row' = [row EXCEPT ![c].open = FALSE]
    /\ UNCHANGED <<catalog, default, saved, req, run, accepted, tested>>

\* The provider withdraws a key.
Revoke(pair) ==
    /\ "revoke" \in Events /\ pair \in accepted /\ accepted' = accepted \ {pair}
    /\ UNCHANGED <<row, catalog, default, saved, req, run, tested>>

Handle(r) ==
    \/ validateProvider(r) \/ checkEnabled(r) \/ create(r) \/ apiCreate(r) \/ validated(r)
    \/ patch(r) \/ apiPatch(r) \/ syncModelCatalog(r) \/ delete(r) \/ apiDelete(r)

Next ==
    \/ \E r \in Requests :
         \/ \E b \in Bodies, c \in Creds : Ask(r, b, c)
         \/ Handle(r)
         \/ \E n \in 1 .. MaxSessions : verifiedSave(r, n)
    \/ \E n \in 1 .. MaxSessions : SessionExpires(n)
    \/ \E n \in Runs : Called(n) \/ recordCredentialFailure(n) \/ \E c \in Creds : prepareRun(n, c)
    \/ \E c \in Creds : CircuitCloses(c)
    \/ \E p \in Keys \X Urls : Revoke(p)

Spec == Init /\ [][Next]_vars

-----------------------------------------------------------------------------

\* A connection that runs may use has a key and an address that passed a test
\* together, however requests, failures and deletions were interleaved.
VerifiedIsTested ==
    \A c \in Creds : row[c].enabled /\ row[c].st \in {"verified", "deleted"}
        => <<row[c].key, row[c].url>> \in tested

\* A deleted connection is used by no new run and comes back by no late PATCH,
\* although the router looks only at whether it is enabled and verified.
DeletedStep ==
    /\ \A n \in Runs : run[n].at = "idle" /\ run'[n].at = "call" => active(run'[n].cred)
    /\ \A c \in Creds : row[c].st \in {"deleted", "deletedFailed"} => row'[c].st \in {"deleted", "deletedFailed"}

\* The organization's default is a connection that has not been deleted, and no
\* two live connections are the default.
DefaultIsLive ==
    /\ default # 0 => active(default)
    /\ \A c, d \in Creds : active(c) /\ active(d) /\ row[c].standard /\ row[d].standard => c = d

\* A test of the form creates at most one connection.
TestUsedOnce == \A n \in DOMAIN saved : saved[n].used <= 1

=============================================================================
