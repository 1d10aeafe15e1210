--------------------------- MODULE RunnerContract ---------------------------
(***************************************************************************)
(* What a caller of the sandbox runner may rely on for one execution and   *)
(* its workspace, and what ExecutionKernel takes for granted: an execution *)
(* is started once and only in an existing workspace, its first terminal   *)
(* status is its last, a workspace is not removed under a running process, *)
(* and only the loss of the runner leaves an execution without an end.     *)
(***************************************************************************)

VARIABLES
    dir,   \* the workspace directory exists
    proc   \* "none", "running", "lost" or the status the execution ended with

vars == <<dir, proc>>

Ends == {"completed", "failed", "cancelled", "timed_out"}

Init == dir = FALSE /\ proc = "none"

Create == dir' = TRUE /\ UNCHANGED proc

Start == dir /\ proc = "none" /\ proc' = "running" /\ UNCHANGED dir

End(e) == dir /\ proc = "running" /\ proc' = e /\ UNCHANGED dir

Lose == proc = "running" /\ proc' = "lost" /\ UNCHANGED dir

Remove == proc # "running" /\ dir' = FALSE /\ proc' = "none"

Next == Create \/ Start \/ Lose \/ Remove \/ \E e \in Ends : End(e)

Spec == Init /\ [][Next]_vars

=============================================================================
