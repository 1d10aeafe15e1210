----------------------------- MODULE GraphileJob -----------------------------
(***************************************************************************)
(* One row of the graphile_worker job table, as this program uses it.  A   *)
(* row is identified by its job key; it is absent, waiting to be taken,    *)
(* locked by the worker that runs it, or dead: its attempts are used up    *)
(* and no worker takes it again, yet it still occupies its key.            *)
(***************************************************************************)
EXTENDS Naturals

RowStates == {"absent", "waiting", "locked", "dead"}

Absent == [st |-> "absent", tries |-> 0]

\* add_job with job_key_mode 'unsafe_dedupe': a row that already has the key
\* is left alone, whatever its state.
added(row) == IF row.st = "absent" THEN [st |-> "waiting", tries |-> 0] ELSE row

\* A worker takes a waiting row; taking it uses an attempt.
taken(row) == [st |-> "locked", tries |-> row.tries + 1]

\* The task threw, or the lock of a lost worker was reset: the row waits for
\* another attempt unless it has had them all.
returned(row, max) == [row EXCEPT !.st = IF row.tries < max THEN "waiting" ELSE "dead"]

=============================================================================
