---------------------------- MODULE ErasureSweep ----------------------------
(***************************************************************************)
(* The nightly integrity sweep (IntegritySweep.run) over the state of      *)
(* Erasure: it reads table by table and store by store, in no transaction  *)
(* of its own, while runs, edits and sagas go on.  runSingleFlight keeps   *)
(* it from overlapping itself.  Alerts are inserted at the end of the run, *)
(* deduplicated, and never removed; inserting them as they are found loses *)
(* nothing the properties tell apart.  The payload arm is in VectorIndex,  *)
(* the chain verification in ReceiptChain.                                 *)
(***************************************************************************)
EXTENDS Erasure

VARIABLES
    sweep,    \* progress: pc, receipts and source groups still to check
    alerts,   \* integrity_alert rows: <<kind, id>>
    suspects  \* the orphan rows when the sweep began

svars == <<sweep, alerts, suspects>>

\* The source-side arm knows the sources bound by an adapter; file is not one.
AdapterTypes == Notes \cup Emails

Confirmed == {r \in Receipts : saga[r].pc = "confirmed"}
\* An erased source as the sweep may know it: the receipt must be confirmed
\* unless an adapter answers for the source row.
Erased(s) == \/ s \in AdapterTypes /\ ~row[s]
             \/ s \notin RowBacked /\ \E r \in Confirmed : saga[r].src = s
             \/ s \in Files /\ ~row[s] /\ \A r \in Receipts : s \in saga[r].keys => r \in Confirmed

SweepInit ==
    /\ Init
    /\ sweep = [pc |-> "idle", receipts |-> {}, groups |-> {}, objects |-> {}]
    /\ alerts = {}
    /\ suspects = {}

\* The confirmed receipts are read once, before everything else.
SweepBegin ==
    /\ sweep.pc = "idle"
    /\ sweep' = [sweep EXCEPT !.pc = "receipts", !.receipts = Confirmed]
    /\ suspects' = {m \in live : Erased(prov[m])}
    /\ UNCHANGED <<vars, alerts>>

\* One confirmed receipt: its memory rows, points and objects must be absent,
\* and no other row may carry its source.
SweepReceipt ==
    /\ sweep.pc = "receipts"
    /\ \E r \in sweep.receipts :
         /\ alerts' = alerts
              \cup {<<"memory_row_present", m>>   : m \in saga[r].ids \cap live}
              \cup {<<"qdrant_point_present", m>> : m \in saga[r].ids \cap points}
              \cup {<<"object_present", k>>       : k \in saga[r].keys \cap objs}
              \cup {<<"orphaned_memory", m>>      : m \in Derived(saga[r].src) \ saga[r].ids}
         /\ sweep' = [sweep EXCEPT !.receipts = @ \ {r}]
    /\ UNCHANGED <<vars, suspects>>

\* Mutant of SweepGroups: only the sources a confirmed receipt names.
SweepGroupsOfReceipts ==
    /\ sweep.pc = "receipts" /\ sweep.receipts = {}
    /\ sweep' = [sweep EXCEPT !.pc = "groups",
                   !.groups = {saga[r].src : r \in Confirmed} \cap AdapterTypes]
    /\ UNCHANGED <<vars, alerts, suspects>>

\* findOrphanedMemories: the distinct sources of the live rows.
SweepGroups ==
    /\ sweep.pc = "receipts" /\ sweep.receipts = {}
    /\ sweep' = [sweep EXCEPT !.pc = "groups",
                   !.groups = {prov[m] : m \in live} \cap AdapterTypes]
    /\ UNCHANGED <<vars, alerts, suspects>>

\* Mutant of SweepProbe: the rows of the group are not re-read after the probe,
\* and the probe does not wait for the saga.
SweepProbeStale ==
    /\ sweep.pc = "groups"
    /\ \E s \in sweep.groups :
         /\ alerts' = alerts \cup {<<"orphaned_memory", m>> : m \in
                         IF row[s] THEN {} ELSE {k \in Mem : prov[k] = s}}
         /\ sweep' = [sweep EXCEPT !.groups = @ \ {s}]
    /\ UNCHANGED <<vars, suspects>>

\* One group: ownerOf probes the source row FOR UPDATE; a miss re-reads the rows
\* in the same transaction.
SweepProbe ==
    /\ sweep.pc = "groups"
    /\ \E s \in sweep.groups :
         /\ ~ForUpdate(s) /\ ~KeyShare(s)
         /\ alerts' = alerts \cup {<<"orphaned_memory", m>> : m \in
                         IF row[s] THEN {} ELSE Derived(s)}
         /\ sweep' = [sweep EXCEPT !.groups = @ \ {s}]
    /\ UNCHANGED <<vars, suspects>>

\* findOrphanedObjects lists the bucket first; any subset of what is there may
\* be older than the grace window.
SweepList ==
    /\ sweep.pc = "groups" /\ sweep.groups = {}
    /\ \E aged \in SUBSET objs : sweep' = [sweep EXCEPT !.pc = "objects", !.objects = aged]
    /\ UNCHANGED <<vars, alerts, suspects>>

\* .. then looks for the owning rows: a staging object past the window, or a
\* durable one without a row, is alerted.
SweepObjects ==
    /\ sweep.pc = "objects"
    /\ alerts' = alerts \cup {<<"orphaned_object", s>> :
                                s \in {t \in sweep.objects : t \in Discards \/ ~row[t]}}
    /\ sweep' = [sweep EXCEPT !.pc = "done", !.objects = {}]
    /\ UNCHANGED <<vars, suspects>>

SweepStep == \/ SweepBegin \/ SweepReceipt \/ SweepGroups \/ SweepProbe
             \/ SweepList \/ SweepObjects

SweepNext == SweepStep \/ (Next /\ UNCHANGED svars)
SweepSpec == SweepInit /\ [][SweepNext]_<<vars, svars>>

-----------------------------------------------------------------------------
\* The sweep's state space is well typed.
SweepTypeOK ==
    /\ sweep.pc \in {"idle", "receipts", "groups", "objects", "done"}
    /\ sweep.receipts \subseteq Receipts
    /\ sweep.groups \subseteq AdapterTypes
    /\ sweep.objects \subseteq Sources
    /\ alerts \subseteq ({"memory_row_present", "qdrant_point_present", "orphaned_memory"} \X Mem)
                   \cup ({"object_present", "orphaned_object"} \X Sources)

\* "detected within one sweep cycle" (decision 0024): a row whose source was
\* erased before the sweep began, and which is still there when it ends, is
\* alerted.  The exception is an attachment erased with its email: file has no
\* adapter to probe, and the receipt names the email only.
SweepFindsOrphans ==
    sweep.pc = "done" =>
        \A m \in suspects \cap live :
            Cascaded(prov[m]) \/ <<"orphaned_memory", m>> \in alerts

\* An orphan alert names a row that was really left behind ("genuine orphans,
\* not a mid-delete snapshot artifact", findOrphanedMemories): it is there, its
\* source is erased, and the receipt that erased the source does not list it.
OrphanAlertsAreGenuine ==
    [][\A m \in Mem : <<"orphaned_memory", m>> \in alerts' \ alerts =>
          /\ m \in live /\ Gone(prov[m])
          /\ \E r \in Receipts : /\ saga[r].pc \in Receipted /\ m \notin saga[r].ids
                                 /\ prov[m] \in {saga[r].src} \cup saga[r].keys]_<<vars, svars>>
=============================================================================
