------------------------------- MODULE MCTasks -------------------------------
(***************************************************************************)
(* The worker's smaller queues, checked in one run.  "outbox" is an event  *)
(* of NotificationOutbox with two recipients and every fault, "gap" one    *)
(* whose first template lacks a variable, "news" one with one recipient    *)
(* that must be processed; "doubt", in the variables of SandboxTasks       *)
(* itself, is a guarded command with every fault, "command" two commands,  *)
(* one of them guarded, "space" one whose workspace is reset and           *)
(* terminated meanwhile, "guarded" and "plain" one that must end; "steps"  *)
(* is a task of BrowserTasks with two guarded steps, "deny" one with a     *)
(* denied step, "slow" one whose calls are given up while they are carried *)
(* out, and "visit" one that must end.  The variables of the other modules *)
(* stand still.                                                            *)
(***************************************************************************)
EXTENDS SandboxTasks

VARIABLES which,
    event, job, delivery, publisher, sender, received, unsure,
    space, command, request, owner, folder, process, started, ruling, unstarted,
    task, steps, usable, creator, session, orphans, performed, lost, late, granted,
    approval, queue, server, decision, cancel

Outbox == INSTANCE NotificationOutbox WITH
    Publishers <- {"p", "q"}, Recipients <- 2, Incomplete <- {}, MaxAttempts <- 2, Tries <- 2,
    Events <- {"timeout", "permanent", "unrecorded", "crash"}
Gap == INSTANCE NotificationOutbox WITH
    Publishers <- {"p"}, Recipients <- 2, Incomplete <- {1}, MaxAttempts <- 2, Tries <- 2,
    Events <- {"lost", "crash"}
News == INSTANCE NotificationOutbox WITH
    Publishers <- {"p"}, Recipients <- 1, Incomplete <- {}, MaxAttempts <- 2, Tries <- 2,
    Events <- {"lost", "timeout", "permanent", "unrecorded"}

Command == INSTANCE SandboxTasks WITH
    ws <- space, exec <- command, appr <- approval, rows <- queue, worker <- server,
    asker <- request, decider <- decision, canceller <- cancel, keeper <- owner,
    dir <- folder, proc <- process, starts <- started, ruled <- ruling, early <- unstarted,
    Execs <- {"e", "f"}, Guarded <- {"e"}, Limit <- 2, Tries <- 2, Events <- {"cancel"}
Space == INSTANCE SandboxTasks WITH
    ws <- space, exec <- command, appr <- approval, rows <- queue, worker <- server,
    asker <- request, decider <- decision, canceller <- cancel, keeper <- owner,
    dir <- folder, proc <- process, starts <- started, ruled <- ruling, early <- unstarted,
    Execs <- {"e"}, Guarded <- {}, Limit <- 1, Tries <- 2,
    Events <- {"cancel", "reset", "crash", "terminate", "transport"}
Guardian == INSTANCE SandboxTasks WITH
    ws <- space, exec <- command, appr <- approval, rows <- queue, worker <- server,
    asker <- request, decider <- decision, canceller <- cancel, keeper <- owner,
    dir <- folder, proc <- process, starts <- started, ruled <- ruling, early <- unstarted,
    Execs <- {"e"}, Guarded <- {"e"}, Limit <- 1, Tries <- 2, Events <- {"cancel", "restart"}
Plain == INSTANCE SandboxTasks WITH
    ws <- space, exec <- command, appr <- approval, rows <- queue, worker <- server,
    asker <- request, decider <- decision, canceller <- cancel, keeper <- owner,
    dir <- folder, proc <- process, starts <- started, ruled <- ruling, early <- unstarted,
    Execs <- {"e"}, Guarded <- {}, Limit <- 1, Tries <- 2, Events <- {"cancel", "restart"}

Steps == INSTANCE BrowserTasks WITH
    appr <- approval, rows <- queue, worker <- server, decider <- decision, canceller <- cancel,
    Length <- 3, Guarded <- {1, 3}, Denied <- {}, Tries <- 2,
    Events <- {"cancel", "expire", "fail", "lost", "answer", "ttl", "crash"}
Deny == INSTANCE BrowserTasks WITH
    appr <- approval, rows <- queue, worker <- server, decider <- decision, canceller <- cancel,
    Length <- 2, Guarded <- {1}, Denied <- {2}, Tries <- 2,
    Events <- {"cancel", "plan", "busy", "fail", "answer", "unlink", "crash"}
Slow == INSTANCE BrowserTasks WITH
    appr <- approval, rows <- queue, worker <- server, decider <- decision, canceller <- cancel,
    Length <- 2, Guarded <- {1}, Denied <- {}, Tries <- 2, Events <- {"cancel", "slow", "crash"}
Visit == INSTANCE BrowserTasks WITH
    appr <- approval, rows <- queue, worker <- server, decider <- decision, canceller <- cancel,
    Length <- 3, Guarded <- {2}, Denied <- {}, Tries <- 2, Events <- {"cancel"}

outbox == <<event, job, delivery, publisher, sender, received, unsure>>
shared == <<approval, queue, server, decision, cancel>>
sandbox == <<space, command, request, owner, folder, process, started, ruling, unstarted>>
browser == <<task, steps, usable, creator, session, orphans, performed, lost, late, granted>>
allVars == <<which, vars, outbox, shared, sandbox, browser>>

None == "none"
OutboxStill ==
    /\ event = None /\ job = None /\ delivery = None /\ publisher = None /\ sender = None
    /\ received = None /\ unsure = None
SharedStill == approval = None /\ queue = None /\ server = None /\ decision = None /\ cancel = None
SandboxStill ==
    /\ space = None /\ command = None /\ request = None /\ owner = None /\ folder = None
    /\ process = None /\ started = None /\ ruling = None /\ unstarted = None
BrowserStill ==
    /\ task = None /\ steps = None /\ usable = None /\ creator = None /\ session = None
    /\ orphans = None /\ performed = None /\ lost = None /\ late = None /\ granted = None

AllInit ==
    /\ Init
    /\ \/ /\ SharedStill /\ SandboxStill /\ BrowserStill
          /\ \/ which = "outbox" /\ Outbox!Init
             \/ which = "gap" /\ Gap!Init
             \/ which = "news" /\ News!Init
             \/ which = "doubt" /\ OutboxStill
       \/ /\ OutboxStill /\ BrowserStill
          /\ \/ which = "command" /\ Command!Init
             \/ which = "space" /\ Space!Init
             \/ which = "guarded" /\ Guardian!Init
             \/ which = "plain" /\ Plain!Init
       \/ /\ OutboxStill /\ SandboxStill
          /\ \/ which = "steps" /\ Steps!Init
             \/ which = "deny" /\ Deny!Init
             \/ which = "slow" /\ Slow!Init
             \/ which = "visit" /\ Visit!Init
NextOthers ==
    \/ /\ UNCHANGED <<shared, sandbox, browser>>
       /\ \/ which = "outbox" /\ Outbox!Next
          \/ which = "gap" /\ Gap!Next
          \/ which = "news" /\ News!Next
    \/ /\ UNCHANGED <<outbox, browser>>
       /\ \/ which = "command" /\ Command!Next
          \/ which = "space" /\ Space!Next
          \/ which = "guarded" /\ Guardian!Next
          \/ which = "plain" /\ Plain!Next
    \/ /\ UNCHANGED <<outbox, sandbox>>
       /\ \/ which = "steps" /\ Steps!Next
          \/ which = "deny" /\ Deny!Next
          \/ which = "slow" /\ Slow!Next
          \/ which = "visit" /\ Visit!Next
AllNext ==
    /\ which' = which
    /\ \/ which = "doubt" /\ Next /\ UNCHANGED <<outbox, shared, sandbox, browser>>
       \/ UNCHANGED vars /\ NextOthers

\* The instances that must come to an end, and the fairness of their modules.
InNews == which = "news" /\ which' = which /\ UNCHANGED <<vars, shared, sandbox, browser>>
InGuarded == which = "guarded" /\ which' = which /\ UNCHANGED <<vars, outbox, browser>>
InPlain == which = "plain" /\ which' = which /\ UNCHANGED <<vars, outbox, browser>>
InVisit == which = "visit" /\ which' = which /\ UNCHANGED <<vars, outbox, sandbox>>
AllFairness ==
    /\ WF_allVars(InNews /\ News!recoverPendingDomainEvents)
    /\ WF_allVars(InNews /\ News!Take) /\ WF_allVars(InNews /\ News!dispatchNotificationsForEvent)
    /\ WF_allVars(InGuarded /\ Guardian!Task) /\ WF_allVars(InGuarded /\ Guardian!Deadline)
    /\ WF_allVars(InGuarded /\ Guardian!TakeAny) /\ WF_allVars(InGuarded /\ Guardian!Ask("e"))
    /\ WF_allVars(InGuarded /\ Guardian!QueueResume("e"))
    /\ WF_allVars(InPlain /\ Plain!Task) /\ WF_allVars(InPlain /\ Plain!Deadline)
    /\ WF_allVars(InPlain /\ Plain!TakeAny) /\ WF_allVars(InPlain /\ Plain!Ask("e"))
    /\ WF_allVars(InVisit /\ Visit!Task) /\ WF_allVars(InVisit /\ Visit!EnqueueTask)
    /\ WF_allVars(InVisit /\ Visit!TakeAny) /\ WF_allVars(InVisit /\ Visit!QueueResume(2))

AllSpec == AllInit /\ [][AllNext]_allVars /\ AllFairness

\* CancelledNeverStarts and KeepsGate are checked of "doubt"; each of the others
\* joins the properties of the modules in the instances that can violate them.
\* A recipient gets a message, the runner starts a command and the browser
\* performs a step once, unless the outcome of an earlier time was lost; not at all
\* once the command was cancelled, and at most the step at hand of a cancelled task.
DoneOnce ==
    /\ which = "outbox" => Outbox!ReceivedOnce
    /\ which = "gap" => Gap!ReceivedOnce
    /\ which = "doubt" => StartsOnce
    /\ which = "command" => Command!StartsOnce /\ Command!CancelledNeverStarts
    /\ which = "space" => Space!CancelledNeverStarts
    /\ which = "steps" => Steps!PerformedOnce /\ Steps!AtMostOneLate
    /\ which = "deny" => Deny!PerformedOnce /\ Deny!AtMostOneLate
    /\ which = "slow" => Slow!PerformedOnce /\ Slow!AtMostOneLate

\* An event is processed when nothing is left to try; a guarded command is started
\* and a guarded step performed under its grant, over every fault, and a browser
\* task is completed when each of its steps was performed.
DoneWhenDue ==
    [][/\ which = "outbox" => Outbox!ProcessedStep
       /\ which = "gap" => Gap!ProcessedStep
       /\ which = "command" => Command!GateStep
       /\ which = "steps" => Steps!CompletedStep /\ Steps!GateStep
       /\ which = "deny" => Deny!CompletedStep /\ Deny!GateStep
       /\ which = "slow" => Slow!GateStep]_allVars

\* An event that was accepted is processed, a command and a task that were
\* accepted end.
TasksSettle ==
    /\ (which = "news" /\ event = "open") ~> (which = "news" /\ event = "processed")
    /\ (which = "guarded" /\ Guardian!Accepted("e")) ~> (which = "guarded" /\ Guardian!Settled("e"))
    /\ (which = "plain" /\ Plain!Accepted("e")) ~> (which = "plain" /\ Plain!Settled("e"))
    /\ (which = "visit" /\ Visit!Accepted) ~> (which = "visit" /\ Visit!Settled)

=============================================================================
