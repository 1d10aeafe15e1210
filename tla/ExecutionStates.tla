--------------------------- MODULE ExecutionStates ---------------------------
(***************************************************************************)
(* The status graph of an execution job (lib/execution/states.ts): the     *)
(* statuses, the terminal ones, and which status may follow which.         *)
(***************************************************************************)

Status == {"queued", "provisioning", "ready", "running", "waiting_for_input",
           "waiting_for_approval", "cancel_requested", "cancelling",
           "completed", "failed", "timed_out", "cancelled", "orphaned"}

Terminal == {"completed", "failed", "timed_out", "cancelled"}

\* The two statuses of a job whose cancellation has been accepted but not
\* yet carried out.
Cancelling == {"cancel_requested", "cancelling"}

transitions ==
    [s \in Status |->
       CASE s = "queued"       -> {"provisioning", "cancel_requested", "failed", "timed_out"}
         [] s = "provisioning" -> {"ready", "cancel_requested", "failed", "timed_out", "orphaned"}
         [] s = "ready"        -> {"running", "cancel_requested", "failed", "timed_out", "orphaned"}
         [] s = "running"      -> {"waiting_for_input", "waiting_for_approval", "cancel_requested",
                                   "completed", "failed", "timed_out", "orphaned"}
         [] s \in {"waiting_for_input", "waiting_for_approval"}
                               -> {"running", "cancel_requested", "failed", "timed_out", "orphaned"}
         [] s = "cancel_requested" -> {"cancelling", "cancelled", "failed", "orphaned"}
         [] s = "cancelling"   -> {"cancelled", "failed", "orphaned"}
         [] s = "orphaned"     -> {"provisioning", "ready", "running", "cancel_requested",
                                   "failed", "timed_out", "cancelled"}
         [] s \in Terminal     -> {}]

canTransition(current, next) == next \in transitions[current]

=============================================================================
