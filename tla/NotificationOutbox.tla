-------------------------- MODULE NotificationOutbox --------------------------
(***************************************************************************)
(* One domain event and the notifications it causes: publishers insert the *)
(* event once under its idempotency key and queue its dispatch, a timer    *)
(* queues again what is unprocessed, and the worker goes through the       *)
(* recipients one after the other.  A retryable failure throws and leaves  *)
(* the rest of the recipients to the next attempt of the job.  The rules   *)
(* and their audience stay what they are while the event is dispatched.    *)
(***************************************************************************)
EXTENDS Naturals

CONSTANTS
    Publishers,   \* requests that publish the event with one idempotency key
    Recipients,   \* the number of recipients of its rules
    Incomplete,   \* recipients whose template names a variable the event lacks
    MaxAttempts,  \* max_attempts of a delivery (5)
    Tries,        \* maxAttempts of the job (5)
    Events        \* which of EventKinds happen in this instance

Recipient == 1..Recipients
EventKinds == {"lost", "timeout", "permanent", "unrecorded", "crash"}

VARIABLES
    event,      \* domain_events: absent, open or processed (processed_at)
    job,        \* the graphile job of the event, in the serial queue of its organization
    delivery,   \* notification_deliveries
    publisher,  \* position of each publisher
    sender,     \* what the worker does, and for which recipient
    received,   \* history: messages each recipient got
    unsure      \* history: sends whose outcome did not reach the database

vars == <<event, job, delivery, publisher, sender, received, unsure>>
sending == <<delivery, received, unsure>>

Job == INSTANCE GraphileJob

NoDelivery == [st |-> "none", attempts |-> 0, error |-> "none"]
Idle == [at |-> "idle", to |-> 0, error |-> "none"]

At(at) == sender.at = at
To == sender.to
Goto(at) == sender' = [sender EXCEPT !.at = at]

TypeOK ==
    /\ event \in {"absent", "open", "processed"}
    /\ job \in [st : Job!RowStates, tries : 0..Tries]
    /\ delivery \in [Recipient -> [st : {"none", "queued", "processing", "sent", "failed"},
                               attempts : Nat, error : {"none", "retryable", "permanent"}]]
    /\ publisher \in [Publishers -> {"idle", "enqueue", "done"}]
    /\ sender \in [at : {"idle", "insert", "render", "send", "record", "failed", "process", "end"},
                   to : 0..Recipients, error : {"none", "retryable", "permanent"}]
    /\ received \in [Recipient -> Nat] /\ unsure \in [Recipient -> Nat]

----------------------------------------------------------------------------
(* The event.                                                               *)

\* The row is inserted, or found under its idempotency key.
InsertEvent(p) ==
    /\ publisher[p] = "idle"
    /\ event' = IF event = "absent" THEN "open" ELSE event
    /\ publisher' = [publisher EXCEPT ![p] = "enqueue"]
    /\ UNCHANGED <<job, sender, sending>>

EnqueueEvent(p) ==
    /\ publisher[p] = "enqueue"
    /\ job' = Job!added(job)
    /\ publisher' = [publisher EXCEPT ![p] = "done"]
    /\ UNCHANGED <<event, sender, sending>>

\* The enqueue fails, or the process dies before it: best effort.
EnqueueLost(p) ==
    /\ "lost" \in Events
    /\ publisher[p] = "enqueue"
    /\ publisher' = [publisher EXCEPT ![p] = "done"]
    /\ UNCHANGED <<event, job, sender, sending>>

publishDomainEvent(p) == InsertEvent(p) \/ EnqueueEvent(p) \/ EnqueueLost(p)

\* The recovery timer finds the event unprocessed and older than a minute.
recoverPendingDomainEvents ==
    /\ event = "open"
    /\ job' = Job!added(job)
    /\ UNCHANGED <<event, publisher, sender, sending>>

----------------------------------------------------------------------------
(* dispatchNotificationsForEvent, in the task notification-dispatch.        *)

\* The worker goes on to the next recipient, or has seen them all.
Further == IF To < Recipients THEN [at |-> "insert", to |-> To + 1, error |-> "none"]
                            ELSE [at |-> "process", to |-> 0, error |-> "none"]

\* The task threw.
Throw == job' = Job!returned(job, Tries) /\ sender' = Idle

Take ==
    /\ At("idle") /\ job.st = "waiting"
    /\ job' = Job!taken(job)
    /\ sender' = Further
    /\ UNCHANGED <<event, publisher, sending>>

\* Defective variant: what was sent is sent again.
finishedNever(d) == FALSE
\* A delivery the dispatch passes over.
finished(d) == d.st = "sent"

\* The delivery is inserted, or found.
InsertDelivery ==
    /\ At("insert")
    /\ delivery' = [delivery EXCEPT ![To].st = IF @ = "none" THEN "queued" ELSE @]
    /\ IF finished(delivery[To]) THEN sender' = Further ELSE Goto("render")
    /\ UNCHANGED <<event, job, publisher, received, unsure>>

\* A missing variable throws before the delivery is touched.
RenderFails ==
    /\ At("render") /\ To \in Incomplete
    /\ Throw
    /\ UNCHANGED <<event, publisher, sending>>

MarkProcessing ==
    /\ At("render") /\ To \notin Incomplete
    /\ delivery' = [delivery EXCEPT ![To] = [st |-> "processing", attempts |-> @.attempts + 1,
                                             error |-> "none"]]
    /\ Goto("send")
    /\ UNCHANGED <<event, job, publisher, received, unsure>>

\* The provider accepts the message; its answer arrives, or times out, which
\* counts as retryable.
Send ==
    /\ At("send")
    /\ received' = [received EXCEPT ![To] = @ + 1]
    /\ \/ Goto("record") /\ UNCHANGED unsure
       \/ /\ "timeout" \in Events
          /\ sender' = [sender EXCEPT !.at = "failed", !.error = "retryable"]
          /\ unsure' = [unsure EXCEPT ![To] = @ + 1]
    /\ UNCHANGED <<event, job, publisher, delivery>>

\* The provider refuses the message, for now or for good.
SendFails ==
    /\ At("send")
    /\ \E error \in {"retryable"} \cup ({"permanent"} \cap Events) :
          sender' = [sender EXCEPT !.at = "failed", !.error = error]
    /\ UNCHANGED <<event, job, publisher, sending>>

RecordSent ==
    /\ At("record")
    /\ delivery' = [delivery EXCEPT ![To].st = "sent"]
    /\ sender' = Further
    /\ UNCHANGED <<event, job, publisher, received, unsure>>

\* The update fails; its error is not one of the retryable ones.
RecordSentFails ==
    /\ "unrecorded" \in Events
    /\ At("record")
    /\ sender' = [sender EXCEPT !.at = "failed", !.error = "permanent"]
    /\ unsure' = [unsure EXCEPT ![To] = @ + 1]
    /\ UNCHANGED <<event, job, publisher, delivery, received>>

\* Another attempt of the job is worth it: delivery.attempts was read before
\* it was counted up.
triesAgain(d) == sender.error = "retryable" /\ d.attempts < MaxAttempts

\* Defective variant: one attempt too many.
RecordFailedTooLong ==
    /\ At("failed")
    /\ delivery' = [delivery EXCEPT ![To].st = "failed", ![To].error = sender.error]
    /\ IF sender.error = "retryable" /\ delivery[To].attempts <= MaxAttempts
       THEN Throw ELSE sender' = Further /\ UNCHANGED job
    /\ UNCHANGED <<event, publisher, received, unsure>>
\* Defective variant: no failure stops the dispatch.
RecordFailedQuietly ==
    /\ At("failed")
    /\ delivery' = [delivery EXCEPT ![To].st = "failed", ![To].error = sender.error]
    /\ sender' = Further
    /\ UNCHANGED <<event, job, publisher, received, unsure>>
RecordFailed ==
    /\ At("failed")
    /\ delivery' = [delivery EXCEPT ![To].st = "failed", ![To].error = sender.error]
    /\ IF triesAgain(delivery[To]) THEN Throw ELSE sender' = Further /\ UNCHANGED job
    /\ UNCHANGED <<event, publisher, received, unsure>>

MarkProcessed ==
    /\ At("process")
    /\ event' = "processed"
    /\ Goto("end")
    /\ UNCHANGED <<job, publisher, sending>>

JobEnds ==
    /\ At("end")
    /\ job' = Job!Absent
    /\ sender' = Idle
    /\ UNCHANGED <<event, publisher, sending>>

dispatchNotificationsForEvent ==
    \/ InsertDelivery \/ RenderFails \/ MarkProcessing \/ Send \/ SendFails
    \/ RecordSent \/ RecordSentFails \/ RecordFailed \/ MarkProcessed \/ JobEnds

\* The worker dies; graphile_worker resets its lock later.
Crash ==
    /\ "crash" \in Events
    /\ ~At("idle")
    /\ unsure' = IF At("record") THEN [unsure EXCEPT ![To] = @ + 1] ELSE unsure
    /\ sender' = Idle
    /\ UNCHANGED <<event, job, publisher, delivery, received>>
ResetLock ==
    /\ At("idle") /\ job.st = "locked"
    /\ job' = Job!returned(job, Tries)
    /\ UNCHANGED <<event, publisher, sender, sending>>

----------------------------------------------------------------------------
Init ==
    /\ event = "absent" /\ job = Job!Absent
    /\ delivery = [i \in Recipient |-> NoDelivery]
    /\ publisher = [p \in Publishers |-> "idle"]
    /\ sender = Idle
    /\ received = [i \in Recipient |-> 0] /\ unsure = [i \in Recipient |-> 0]

Next ==
    \/ \E p \in Publishers : publishDomainEvent(p)
    \/ recoverPendingDomainEvents
    \/ Take \/ dispatchNotificationsForEvent \/ Crash \/ ResetLock

Fairness ==
    /\ WF_vars(recoverPendingDomainEvents)
    /\ WF_vars(Take) /\ WF_vars(dispatchNotificationsForEvent)

Spec == Init /\ [][Next]_vars /\ Fairness

----------------------------------------------------------------------------
(* Properties.                                                              *)

\* A recipient gets a message twice only if the outcome of an earlier send did
\* not reach the database (the statuses passed over in
\* dispatchNotificationsForEvent, over every retry, recovery and repetition of
\* the publication).
ReceivedOnce == \A i \in Recipient : received[i] <= 1 + unsure[i]

\* Every delivery was made, is hopeless, or has had all its attempts.
AllSettled == \A i \in Recipient :
    \/ delivery[i].st = "sent"
    \/ delivery[i].error = "permanent"
    \/ delivery[i].attempts >= MaxAttempts

\* An event is marked as processed only when nothing is left to try
\* (the throw at the end of the loop of dispatchNotificationsForEvent).
ProcessedStep == event = "open" /\ event' = "processed" => AllSettled

\* An event that was accepted is processed in the end, also when its enqueue is
\* lost and its only recipient never gets through: its delivery gives up no
\* later than its job.
EventIsProcessed == event = "open" ~> event = "processed"

=============================================================================
