---------------------------- MODULE ApprovalMachine ----------------------------
(***************************************************************************)
(* The life of one approval as the approval aggregate promises it: a       *)
(* decision is made once, only an approved action is executed, and what    *)
(* was rejected, expired or executed stays so.                             *)
(***************************************************************************)
VARIABLE status   \* "none" until the row exists

\* The legal edges of the aggregate's transition function.
Edges == [none             |-> {"draft", "pending_approval"},
          draft            |-> {"pending_approval"},
          pending_approval |-> {"approved", "rejected", "expired"},
          approved         |-> {"executed"},
          rejected         |-> {},
          expired          |-> {},
          executed         |-> {}]

Init == status = "none"
Next == status' \in Edges[status]
Spec == Init /\ [][Next]_status
=============================================================================
