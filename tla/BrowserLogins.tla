----------------------------- MODULE BrowserLogins -----------------------------
(***************************************************************************)
(* One interactive login of the browser runner: the request that begins    *)
(* it, the person in the runner's browser, the page that asks for its      *)
(* status again and again, the request that cancels it, and the runner's   *)
(* timer.  A request reads the row, asks the runner and writes what        *)
(* follows without looking at the row again.                               *)
(***************************************************************************)
CONSTANTS
    Polls,   \* status requests
    Events   \* which of EventKinds happen in this instance

EventKinds == {"expire", "timer", "record", "lost", "delete"}

VARIABLES
    connection, \* site_connections: absent, pending or verified
    login,      \* browser_login_sessions: its status; it is deleted with its connection
    runner,     \* the runner's session
    beginner,   \* position of the request that begins the login
    poll,       \* position of each status request, and the status the runner answered
    canceller,  \* position of the request that cancels it
    finalized   \* history: the person finalized the login

vars == <<connection, login, runner, beginner, poll, canceller, finalized>>

NoPoll == [at |-> "idle", saw |-> "none"]

TypeOK ==
    /\ connection \in {"absent", "pending", "verified"}
    /\ login \in {"absent", "active", "completed", "cancelled", "expired"}
    /\ runner \in {"absent", "active", "completed", "cancelled", "expired"}
    /\ beginner \in {"idle", "record", "undo", "done"}
    /\ poll \in [Polls -> [at : {"idle", "ask", "find", "write"},
                           saw : {"none", "completed", "cancelled", "expired"}]]
    /\ canceller \in {"idle", "runner", "write", "done"}

----------------------------------------------------------------------------
(* beginBrowserLogin: the runner's session first, then the rows.            *)
BeginRunner ==
    /\ beginner = "idle"
    /\ runner' = "active"
    /\ beginner' = "record"
    /\ UNCHANGED <<connection, login, poll, canceller, finalized>>
BeginRecord ==
    /\ beginner = "record"
    /\ connection' = "pending" /\ login' = "active"
    /\ beginner' = "done"
    /\ UNCHANGED <<runner, poll, canceller, finalized>>
BeginFails ==
    /\ "record" \in Events /\ beginner = "record"
    /\ beginner' = "undo"
    /\ UNCHANGED <<connection, login, runner, poll, canceller, finalized>>

\* cancelInteractiveBrowserLogin, whose failure is ignored.
closed == IF runner = "absent" THEN runner ELSE "cancelled"
DeleteSession == runner' \in {closed} \cup (IF "lost" \in Events THEN {runner} ELSE {})
BeginUndo ==
    /\ beginner = "undo"
    /\ DeleteSession
    /\ beginner' = "done"
    /\ UNCHANGED <<connection, login, poll, canceller, finalized>>

beginBrowserLogin == BeginRunner \/ BeginRecord \/ BeginFails \/ BeginUndo

\* The person, in the page of the runner.
Finalize ==
    /\ runner = "active" /\ beginner = "done"
    /\ runner' = "completed" /\ finalized' = TRUE
    /\ UNCHANGED <<connection, login, beginner, poll, canceller>>
PersonCancels ==
    /\ runner = "active" /\ beginner = "done"
    /\ runner' = "cancelled"
    /\ UNCHANGED <<connection, login, beginner, poll, canceller, finalized>>
\* A session lapses, and one that is no longer active is forgotten.
Timer ==
    /\ "timer" \in Events
    /\ \/ runner = "active" /\ runner' = "expired"
       \/ runner \notin {"active", "absent"} /\ runner' = "absent"
    /\ UNCHANGED <<connection, login, beginner, poll, canceller, finalized>>

----------------------------------------------------------------------------
(* getBrowserLoginStatus.                                                   *)
Return(p) == poll' = [poll EXCEPT ![p] = NoPoll]
PollRead(p) ==
    /\ poll[p].at = "idle" /\ login = "active"
    /\ poll' = [poll EXCEPT ![p].at = "ask"]
    /\ UNCHANGED <<connection, login, runner, beginner, canceller, finalized>>
\* expires_at has passed when the row was read.
PollExpired(p) ==
    /\ "expire" \in Events /\ poll[p].at = "ask"
    /\ login' = IF login = "absent" THEN login ELSE "expired"
    /\ Return(p)
    /\ UNCHANGED <<connection, runner, beginner, canceller, finalized>>
PollAsk(p) ==
    /\ poll[p].at = "ask"
    /\ IF runner \in {"active", "absent"} THEN Return(p)
       ELSE poll' = [poll EXCEPT ![p] = [saw |-> runner,
                                         at |-> IF runner = "completed" THEN "find" ELSE "write"]]
    /\ UNCHANGED <<connection, login, runner, beginner, canceller, finalized>>
\* A completed login needs its connection.
PollFind(p) ==
    /\ poll[p].at = "find"
    /\ IF connection = "absent" THEN Return(p) ELSE poll' = [poll EXCEPT ![p].at = "write"]
    /\ UNCHANGED <<connection, login, runner, beginner, canceller, finalized>>
\* Defective variant: a login that ended otherwise leaves a status that is final.
PollWriteGuarded(p) ==
    /\ poll[p].at = "write"
    /\ login' = IF login = "active" \/ (poll[p].saw = "completed" /\ login # "absent")
                THEN poll[p].saw ELSE login
    /\ connection' = IF connection = "absent" THEN connection
                     ELSE IF poll[p].saw = "completed" THEN "verified" ELSE "pending"
    /\ Return(p)
    /\ UNCHANGED <<runner, beginner, canceller, finalized>>
\* Both rows, where they are still there, in one transaction.
PollWrite(p) ==
    /\ poll[p].at = "write"
    /\ login' = IF login = "absent" THEN login ELSE poll[p].saw
    /\ connection' = IF connection = "absent" THEN connection
                     ELSE IF poll[p].saw = "completed" THEN "verified" ELSE "pending"
    /\ Return(p)
    /\ UNCHANGED <<runner, beginner, canceller, finalized>>

getBrowserLoginStatus(p) ==
    PollRead(p) \/ PollExpired(p) \/ PollAsk(p) \/ PollFind(p) \/ PollWrite(p)

----------------------------------------------------------------------------
(* cancelBrowserLogin, of a login in whatever status.                       *)
CancelRead ==
    /\ canceller = "idle" /\ login # "absent"
    /\ canceller' = "runner"
    /\ UNCHANGED <<connection, login, runner, beginner, poll, finalized>>
CancelRunner ==
    /\ canceller = "runner"
    /\ DeleteSession
    /\ canceller' = "write"
    /\ UNCHANGED <<connection, login, beginner, poll, finalized>>
CancelWrite ==
    /\ canceller = "write"
    /\ IF connection = "pending" THEN connection' = "absent" /\ login' = "absent"
       ELSE login' = (IF login = "absent" THEN login ELSE "cancelled") /\ UNCHANGED connection
    /\ canceller' = "done"
    /\ UNCHANGED <<runner, beginner, poll, finalized>>

cancelBrowserLogin == CancelRead \/ CancelRunner \/ CancelWrite

\* deleteSiteConnection takes the login with it.
deleteSiteConnection ==
    /\ "delete" \in Events /\ connection # "absent"
    /\ connection' = "absent" /\ login' = "absent"
    /\ UNCHANGED <<runner, beginner, poll, canceller, finalized>>

----------------------------------------------------------------------------
Init ==
    /\ connection = "absent" /\ login = "absent" /\ runner = "absent"
    /\ beginner = "idle" /\ canceller = "idle"
    /\ poll = [p \in Polls |-> NoPoll]
    /\ finalized = FALSE

Next ==
    \/ beginBrowserLogin \/ Finalize \/ PersonCancels \/ Timer
    \/ \E p \in Polls : getBrowserLoginStatus(p)
    \/ cancelBrowserLogin \/ deleteSiteConnection

Spec == Init /\ [][Next]_vars

----------------------------------------------------------------------------
(* Properties.                                                              *)

\* A login that says it is completed has its connection verified, and a
\* connection is verified only by a login its person finalized, whichever of the
\* status requests and of the cancellation writes last (getBrowserLoginStatus,
\* cancelBrowserLogin).
CompletedIsVerified ==
    /\ login = "completed" => connection = "verified"
    /\ connection = "verified" => finalized

=============================================================================
