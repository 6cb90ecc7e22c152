---------------------------- MODULE MCObjectIntake ----------------------------
(***************************************************************************)
(* Instances of ObjectIntake for TLC.  A behaviour sees uploads or mail,   *)
(* which share nothing but the bucket; of the copies of a message, those   *)
(* of one recipient, Watched, are run and deleted and the others stay      *)
(* queued; the sweep comes after these runs.                               *)
(***************************************************************************)
EXTENDS ObjectIntake, TLC

CONSTANT Watched
VARIABLE traffic

Quiet == /\ \A q \in Deliveries : req[q].pc \in Closed
         /\ \A o \in Objects : o[2] = Watched => job[o].st \notin {"queued", "loaded"}

WatchedStep ==
    \/ RequestStep \/ MailStep
    \/ Quiet /\ SweepStep
    \/ \E o \in Objects : o[2] = Watched /\ (Load(o) \/ Finish(o))
    \/ \E q \in Requests : Delete(<<q, Watched>>) \/ Confirm(<<q, Watched>>)

BoundedInit == Init /\ traffic \in {"uploads", "mail"}

BoundedNext ==
    /\ IF traffic = "uploads" THEN Next /\ told' = told
       ELSE WatchedStep /\ \A q \in Uploads \cup Discards : req'[q].pc = "new"
    /\ traffic' = traffic

BoundedSpec == BoundedInit /\ [][BoundedNext]_<<vars, traffic>>
=============================================================================
