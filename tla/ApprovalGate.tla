---------------------------- MODULE ApprovalGate ----------------------------
(***************************************************************************)
(* What a tool approval promises: a call is asked for, a person grants or  *)
(* denies it or it lapses, a granted call is made at most once and while   *)
(* the grant stands, and a decision is consumed at most once.              *)
(***************************************************************************)
CONSTANT Gates
VARIABLES gate, sent

Moves == {<<"none", "pending">>, <<"pending", "approved">>, <<"pending", "rejected">>,
          <<"pending", "expired">>, <<"approved", "consumed">>, <<"rejected", "consumed">>}

Init == /\ gate = [g \in Gates |-> "none"]
        /\ sent = [g \in Gates |-> FALSE]

Move(g) == \E m \in Moves : /\ gate[g] = m[1]
                            /\ gate' = [gate EXCEPT ![g] = m[2]]
                            /\ UNCHANGED sent

\* A cancelled run lets all its pending approvals lapse in one transaction.
Lapse == \E lost \in SUBSET {g \in Gates : gate[g] = "pending"} :
            /\ gate' = [g \in Gates |-> IF g \in lost THEN "expired" ELSE gate[g]]
            /\ UNCHANGED sent

Send(g) == /\ gate[g] = "approved" /\ ~sent[g]
           /\ sent' = [sent EXCEPT ![g] = TRUE]
           /\ UNCHANGED gate

vars == <<gate, sent>>
Next == (\E g \in Gates : Move(g) \/ Send(g)) \/ Lapse
Spec == Init /\ [][Next]_vars
=============================================================================
