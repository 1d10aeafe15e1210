-------------------------- MODULE ExecutionOutcome --------------------------
(***************************************************************************)
(* What an execution promises its client, whatever happens inside: it ends *)
(* at most once; it ends completed only on evidence, and that evidence is  *)
(* never taken back; once a cancellation is accepted it can only end       *)
(* cancelled, and it ends cancelled only if a cancellation was accepted.   *)
(***************************************************************************)

VARIABLES
    outcome,    \* "open", or how the execution ended
    withdrawn,  \* a cancellation was accepted
    evidence    \* the result is there and verified

vars == <<outcome, withdrawn, evidence>>

Outcomes == {"completed", "failed", "timed_out", "cancelled"}

Init == outcome = "open" /\ withdrawn = FALSE /\ evidence = FALSE

\* Work on the result, or its bookkeeping after an end that is not a success.
Work == /\ outcome # "completed"
        /\ evidence' \in BOOLEAN
        /\ UNCHANGED <<outcome, withdrawn>>

Withdraw == /\ outcome = "open"
            /\ withdrawn' = TRUE
            /\ UNCHANGED <<outcome, evidence>>

Close(o) == /\ outcome = "open"
            /\ o = "completed" => evidence
            /\ o = "cancelled" <=> withdrawn
            /\ outcome' = o
            /\ UNCHANGED <<withdrawn, evidence>>

Next == Work \/ Withdraw \/ \E o \in Outcomes : Close(o)

Spec == Init /\ [][Next]_vars

=============================================================================
