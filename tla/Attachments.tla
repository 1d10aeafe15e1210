----------------------------- MODULE Attachments -----------------------------
(***************************************************************************)
(* A file on its way from the composer of a conversation to the answer of  *)
(* the agent: the browser hashes it, reserves an attachment, puts the      *)
(* bytes to R2 and finalizes; the worker checks and indexes what is        *)
(* stored; a message is answered from what was indexed.  Every call of     *)
(* process() makes at most one attachment, so the two share a number.      *)
(* "ready" stands for partially_ready too.                                 *)
(***************************************************************************)
EXTENDS Naturals, GraphileJob

CONSTANTS Tasks,   \* the files chosen in the composer
          Files,   \* 1..n: calls of process(), and the attachments they make
          Sends,   \* messages of the conversation, 1..n
          Unread,  \* the files of Files whose kind processFile has no text for
          Stored,  \* what the store may end up with: "same", "other", "resized"
          Events   \* "leave", "restore", "delete", "crash"

VARIABLES task,        \* the composer's list: state and attachment of a task
          controller,  \* controllersRef: the process() a task's buttons reach
          upload,      \* the calls of process()
          row,         \* the attachments
          object,      \* the bytes under their keys
          intel,       \* attachment_intelligence.status
          chunks,      \* the bytes their chunks were made of
          going,       \* attachments whose DELETE has removed the object only
          job, worker, \* attachment-process: rows, and where the handler is
          send         \* the messages

vars == <<task, controller, upload, row, object, intel, chunks, going, job, worker, send>>
client == <<task, controller, upload>>
server == <<row, object, intel, chunks, going, job, worker>>

Tries == 3
Busy == {"VALIDATING", "UPLOADING", "PROCESSING"}
NoTask == [st |-> "none", file |-> 0]

Init == /\ task = [t \in Tasks |-> NoTask]
        /\ controller = [t \in Tasks |-> 0]
        /\ upload = [f \in Files |-> [task |-> "none", pc |-> "none", aborted |-> FALSE]]
        /\ row = [f \in Files |-> [st |-> "none", deleted |-> FALSE, message |-> 0]]
        /\ object = [f \in Files |-> "none"]
        /\ intel = [f \in Files |-> "none"]
        /\ chunks = [f \in Files |-> "none"]
        /\ going = {}
        /\ job = [f \in Files |-> Absent] /\ worker = [f \in Files |-> "idle"]
        /\ send = [s \in Sends |-> [pc |-> "none", explicit |-> {}, used |-> {}, read |-> {}]]

-----------------------------------------------------------------------------
(* The browser.                                                            *)

\* A task that left the list stays gone, whatever a late process() sets.
patch(t, v) == IF task[t].st = "none" THEN task ELSE [task EXCEPT ![t] = v]

\* process() comes to its end: the finally block forgets the controller that
\* the task has by now, its own or not.
ended(f, v) ==
    /\ upload' = [upload EXCEPT ![f].pc = "ended"]
    /\ task' = patch(upload[f].task, v)
    /\ controller' = [controller EXCEPT ![upload[f].task] = 0]

failed(f) == ended(f, [st |-> "FAILED", file |-> 0])

process(t) == \E f \in Files :
    /\ upload[f].pc = "none" /\ \A g \in Files : g < f => upload[g].pc # "none"
    /\ upload' = [upload EXCEPT ![f] = [task |-> t, pc |-> "hashing", aborted |-> FALSE]]
    /\ controller' = [controller EXCEPT ![t] = f]
    /\ task' = [task EXCEPT ![t] = [st |-> "UPLOADING", file |-> 0]]

\* A task chosen, up to MAX_COMPOSER_ATTACHMENTS.
add(t) == task[t].st = "none" /\ process(t) /\ UNCHANGED <<server, send>>

\* The abort is seen at once by what waits for the network, but only after
\* the digest by a process() that is hashing; what was sent may still arrive.
cancelled(ts) ==
    /\ upload' = [f \in Files |-> IF \E t \in ts : controller[t] = f
                                  THEN [upload[f] EXCEPT !.aborted = TRUE] ELSE upload[f]]
    /\ controller' = [t \in Tasks |-> IF t \in ts THEN 0 ELSE controller[t]]

cancel(t) ==
    /\ task[t].st \in Busy
    /\ cancelled({t}) /\ task' = [task EXCEPT ![t] = [st |-> "CANCELLED", file |-> 0]]
    /\ UNCHANGED <<server, send>>

\* DELETE of the files route: the object first, the row in a second step.
DeleteSent(f) == IF f # 0 /\ ~row[f].deleted
                 THEN /\ object' = [object EXCEPT ![f] = "none"] /\ going' = going \union {f}
                 ELSE UNCHANGED <<object, going>>

remove(t) ==
    /\ task[t].st # "none" /\ task' = [task EXCEPT ![t] = NoTask]
    /\ IF task[t].st \in Busy
       THEN cancelled({t}) /\ UNCHANGED <<object, going>>
       ELSE DeleteSent(task[t].file) /\ UNCHANGED <<controller, upload>>
    /\ UNCHANGED <<row, intel, chunks, job, worker, send>>

retry(t) ==
    /\ task[t].st \in {"FAILED", "CANCELLED"} /\ process(t) /\ DeleteSent(task[t].file)
    /\ UNCHANGED <<row, intel, chunks, job, worker, send>>

\* Another conversation is opened: cancelAll, and an empty list.
leave ==
    /\ "leave" \in Events /\ \E t \in Tasks : task[t].st # "none"
    /\ cancelled(Tasks) /\ task' = [t \in Tasks |-> NoTask]
    /\ UNCHANGED <<server, send>>

hashed(f) ==
    /\ upload[f].pc = "hashing"
    /\ IF upload[f].aborted THEN ended(f, [st |-> "CANCELLED", file |-> 0])
       ELSE /\ upload' = [upload EXCEPT ![f].pc = "reserving"] /\ UNCHANGED <<task, controller>>
    /\ UNCHANGED <<server, send>>

At(f, pc, next) ==
    /\ upload[f].pc = pc /\ UNCHANGED <<task, controller>>
    /\ upload' = [upload EXCEPT ![f].pc = IF upload[f].aborted THEN "ended" ELSE next]

\* An error ends the call; nobody waits for that of an aborted request.
Refused(f) == IF upload[f].aborted
              THEN upload' = [upload EXCEPT ![f].pc = "ended"] /\ UNCHANGED <<task, controller>>
              ELSE failed(f)

\* POST of the presigned route.
reserve(f) ==
    /\ At(f, "reserving", "putting")
    /\ row' = [row EXCEPT ![f].st = "pending"]
    /\ UNCHANGED <<object, intel, chunks, going, job, worker, send>>

\* The file may have changed on disk since it was hashed.
put(f) ==
    /\ At(f, "putting", "finalizing")
    /\ \E b \in Stored : object' = [object EXCEPT ![f] = b]
    /\ UNCHANGED <<row, intel, chunks, going, job, worker, send>>

refused(f) == /\ upload[f].pc \in {"reserving", "putting", "finalizing", "polling"}
              /\ Refused(f) /\ UNCHANGED <<server, send>>

\* PATCH of the presigned route: the head of the object knows its size and
\* the hash that was declared, not the hash of its bytes.
finalize(f) ==
    /\ \/ /\ ~row[f].deleted /\ object[f] \in {"same", "other"}
          /\ At(f, "finalizing", "polling")
          /\ job' = [job EXCEPT ![f] = added(Absent)] /\ UNCHANGED <<row, object>>
       \/ /\ upload[f].pc = "finalizing" /\ ~row[f].deleted /\ object[f] = "resized" /\ Refused(f)
          /\ object' = [object EXCEPT ![f] = "none"]
          /\ row' = [row EXCEPT ![f].st = "failed"] /\ UNCHANGED job
       \/ /\ row[f].deleted \/ object[f] = "none"
          /\ upload[f].pc = "finalizing" /\ Refused(f) /\ UNCHANGED <<row, object, job>>
    /\ UNCHANGED <<intel, chunks, going, worker, send>>

publicStatus(f) == IF intel[f] # "none" THEN intel[f] ELSE row[f].st

\* Defective variant: a file still pending is taken for a ready one.
shownOptimist(st) == IF st = "failed" THEN "FAILED" ELSE "READY"

\* What the last answer of GET makes of the task; after 60 answers any status
\* is the last, and "unsupported" is none that ends the polling.
shown(st) == IF st = "ready" THEN "READY" ELSE "FAILED"

poll(f) ==
    /\ upload[f].pc = "polling" /\ ~upload[f].aborted
    /\ IF row[f].deleted THEN failed(f)
       ELSE ended(f, [st |-> shown(publicStatus(f)), file |-> f])
    /\ UNCHANGED <<server, send>>

-----------------------------------------------------------------------------
(* The files page, and the rest of a DELETE.                               *)

deleted(f) ==
    /\ f \in going /\ going' = going \ {f}
    /\ \/ row' = [row EXCEPT ![f].deleted = TRUE]
       \/ "crash" \in Events /\ UNCHANGED row
    /\ UNCHANGED <<client, object, intel, chunks, job, worker, send>>

DELETE(f) ==
    /\ "delete" \in Events /\ row[f].st # "none" /\ ~row[f].deleted /\ f \notin going
    /\ DeleteSent(f) /\ UNCHANGED <<client, row, intel, chunks, job, worker, send>>

restore(f) ==
    /\ "restore" \in Events /\ row[f].deleted
    /\ row' = [row EXCEPT ![f].deleted = FALSE]
    /\ UNCHANGED <<client, object, intel, chunks, going, job, worker, send>>

-----------------------------------------------------------------------------
(* processStoredAttachment.                                                *)

Worker(f, pc, next) == worker[f] = pc /\ worker' = [worker EXCEPT ![f] = next]
Gone(f) == job' = [job EXCEPT ![f] = Absent]
Returned(f) == job' = [job EXCEPT ![f] = returned(job[f], Tries)]

\* Jobs of one organization share a queue: one runs at a time.
processing(f) ==
    /\ job[f].st = "waiting" /\ \A g \in Files : worker[g] = "idle"
    /\ IF row[f].deleted \/ row[f].st = "none"
       THEN /\ job' = [job EXCEPT ![f] = returned(taken(job[f]), Tries)]
            /\ UNCHANGED <<row, worker>>
       ELSE /\ job' = [job EXCEPT ![f] = taken(job[f])]
            /\ Worker(f, "idle", "reading")
            /\ row' = [row EXCEPT ![f].st = "processing"]
    /\ UNCHANGED <<client, object, intel, chunks, going, send>>

\* Defective variant: the size is compared, the hash is not.
intactSize(f) == object[f] \in {"same", "other"}

\* The bytes have the size and the hash that were declared.
intact(f) == object[f] = "same"

\* processFile may refuse the file; indexProcessedAttachment replaces chunks
\* and intelligence in one transaction.
indexProcessedAttachment(f) ==
    /\ Worker(f, "reading", "indexed") /\ intact(f)
    /\ intel' = [intel EXCEPT ![f] = IF f \in Unread THEN "unsupported" ELSE "ready"]
    /\ chunks' = [chunks EXCEPT ![f] = IF f \in Unread THEN "none" ELSE object[f]]
    /\ UNCHANGED <<client, row, object, going, job, send>>

notIndexed(f) ==
    /\ Worker(f, "reading", "idle") /\ Returned(f)
    /\ row' = [row EXCEPT ![f].st = "failed"]
    /\ UNCHANGED <<client, object, intel, chunks, going, send>>

recorded(f) ==
    /\ Worker(f, "indexed", "idle") /\ Gone(f)
    /\ row' = [row EXCEPT ![f].st = intel[f]]
    /\ UNCHANGED <<client, object, intel, chunks, going, send>>

Crash(f) ==
    /\ "crash" \in Events /\ worker[f] # "idle" /\ Worker(f, worker[f], "idle") /\ Returned(f)
    /\ UNCHANGED <<client, row, object, intel, chunks, going, send>>

-----------------------------------------------------------------------------
(* A message.                                                              *)

readyAttachments == {task[t].file : t \in {u \in Tasks : task[u].st = "READY"}}

submitText(s) ==
    /\ send[s].pc = "none" /\ \A r \in Sends : r < s => send[r].pc \in {"done", "failed"}
    /\ \A t \in Tasks : task[t].st \notin Busy
    /\ send' = [send EXCEPT ![s] = [@ EXCEPT !.pc = "sent", !.explicit = readyAttachments]]
    /\ UNCHANGED <<client, server>>

Live == {f \in Files : row[f].st # "none" /\ ~row[f].deleted}

\* Explicit files win; otherwise those no message has yet; otherwise those of
\* the latest message.
candidates(explicit) ==
    LET unbound == {f \in Live : row[f].message = 0}
    IN  IF explicit # {} THEN explicit
        ELSE IF unbound # {} THEN unbound
        ELSE {f \in Live : \A g \in Live : row[g].message <= row[f].message}

resolveAttachmentContext(s) ==
    /\ send[s].pc = "sent"
    /\ LET used == candidates(send[s].explicit)
       IN  IF send[s].explicit \subseteq Live
           THEN send' = [send EXCEPT ![s] = [@ EXCEPT !.pc = "resolved", !.used = used,
                                                      !.read = {chunks[f] : f \in used}]]
           ELSE send' = [send EXCEPT ![s].pc = "failed"]
    /\ UNCHANGED <<client, server>>

\* The message is stored and takes its files, in one transaction.
stored(s) ==
    /\ send[s].pc = "resolved" /\ send' = [send EXCEPT ![s].pc = "stored"]
    /\ row' = [f \in Files |-> IF f \in send[s].explicit THEN [row[f] EXCEPT !.message = s]
                               ELSE row[f]]
    /\ UNCHANGED <<client, object, intel, chunks, going, job, worker>>

\* The answer ends the message; the list is emptied only if it was complete.
answered(s) ==
    /\ send[s].pc = "stored"
    /\ \/ /\ send' = [send EXCEPT ![s].pc = "done"]
          /\ task' = [t \in Tasks |-> NoTask]
       \/ /\ send' = [send EXCEPT ![s].pc = "failed"] /\ UNCHANGED task
    /\ UNCHANGED <<controller, upload, server>>

-----------------------------------------------------------------------------
Next ==
    \/ \E t \in Tasks : add(t) \/ cancel(t) \/ remove(t) \/ retry(t)
    \/ leave
    \/ \E f \in Files : \/ hashed(f) \/ reserve(f) \/ put(f) \/ refused(f) \/ finalize(f)
                        \/ poll(f) \/ deleted(f) \/ DELETE(f) \/ restore(f)
    \/ \E f \in Files : \/ processing(f) \/ indexProcessedAttachment(f) \/ notIndexed(f)
                        \/ recorded(f) \/ Crash(f)
    \/ \E s \in Sends : \/ submitText(s) \/ resolveAttachmentContext(s)
                        \/ stored(s) \/ answered(s)

Spec == Init /\ [][Next]_vars

-----------------------------------------------------------------------------
\* A message sent with attachments is answered from all of them and only them,
\* and each was read from the bytes the user chose: what was stored in between,
\* what the worker made of it and what the composer was told agree.
SentIsDeclared == \A s \in Sends :
    (send[s].used # {} /\ send[s].explicit # {}) =>
        /\ send[s].used = send[s].explicit
        /\ send[s].read = {"same"}

\* No attachment is searched by text that was read from other bytes than those
\* the user declared, however often its processing was repeated.
ChunksAreDeclared == \A f \in Files : chunks[f] \in {"none", "same"}
=============================================================================
