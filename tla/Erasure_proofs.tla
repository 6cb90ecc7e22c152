--------------------------- MODULE Erasure_proofs ---------------------------
(***************************************************************************)
(* Proofs about Erasure, for any sets of sources, memories, receipts and   *)
(* edits and any bounds: type correctness, ConfirmedErased, NoResurrection, *)
(* AtMostOneAdmission and NoBytesOutsideReceipts; and about the programs   *)
(* that run over it, the sweep and the reindex command.                    *)
(*                                                                         *)
(* ConfirmedErased is not inductive: nothing in it keeps a run, an edit or *)
(* an embed job from putting an erased memory or its point back.  IInv     *)
(* adds who may still write what: ids a run has minted are not live yet    *)
(* and in no receipt (RunFresh); an embed job past its FOR UPDATE holds a  *)
(* live row no saga has locked (EmbedHolds); the rows of a receipt are     *)
(* gone for good (ReceiptedGone); and the executor has really deleted what *)
(* it is done with (ExecProgress).  It does not mention the index, so it   *)
(* survives its loss; IndexErased adds the points.  Fenced adds the locks: *)
(* what keeps a run of an erased source from admitting anything.  RInv and *)
(* SInv say how far the reindex command and the sweep have come, and what  *)
(* they can still rely on of what they read.                               *)
(***************************************************************************)
EXTENDS ErasureSweep, ErasureReindex, TLAPS

\* Transactions past their first lock know what they work on.
Located == /\ \A e \in Edits : edit[e].pc = "editing" =>
                 edit[e].old \in Mem /\ prov[edit[e].old] # None
           /\ \A r \in Receipts : saga[r].pc \in Scanning =>
                 saga[r].cur \in Sources /\ saga[r].src \in Sources

USE SourceAssumption, BoundAssumption

LEMMA InitTypeOK == Init => TypeOK /\ Located
BY DEF Init, TypeOK, Located, NoRun, NoSaga, RunType, EditType, SagaType, ExecType, Sources, RowBacked, Scanning

\* A run record stays one when the fields a step sets keep their types.
LEMMA RunUpdate ==
    ASSUME NEW x \in RunType, NEW p \in {"idle", "claimed", "loaded"} \cup Admitting,
           NEW ids \in SUBSET Mem, NEW hold \in SUBSET Mem, NEW want \in Mem \cup {None}
    PROVE  /\ [x EXCEPT !.pc = p] \in RunType
           /\ [x EXCEPT !.pc = p, !.ids = ids] \in RunType
           /\ [x EXCEPT !.pc = p, !.want = want] \in RunType
BY DEF RunType

LEMMA RunTypeOK ==
    ASSUME TypeOK, NEW s \in Sources, RunStep(s) \/ RunFail(s) \/ DiscardCleanup(s)
    PROVE  TypeOK'
<1>1. CASE RunStart(s)
  <2>1. CASE key[s]
    BY <1>1, <2>1 DEF RunStart, TypeOK
  <2>2. CASE ~key[s]
    <3>1. run' = [run EXCEPT ![s].pc = "claimed"]
      BY <1>1, <2>2 DEF RunStart
    <3>2. run' \in [Sources -> RunType]
      BY <3>1, RunUpdate DEF TypeOK
    <3> QED BY <1>1, <2>2, <3>2 DEF RunStart, TypeOK
  <2> QED BY <2>1, <2>2
<1>2. ASSUME CommitRun(s), UNCHANGED <<row, tries, prov, points, objs, edit, embed, saga, exec>>
      PROVE  TypeOK'
  BY <1>2 DEF CommitRun, NoRun, TypeOK, RunType
<1>3. CASE RunLoad(s)
  <2>1. CASE Loadable(s)
    <3>1. run' = [run EXCEPT ![s].pc = "loaded"]
      BY <1>3, <2>1 DEF RunLoad
    <3>2. run' \in [Sources -> RunType]
      BY <3>1, RunUpdate DEF TypeOK
    <3> QED BY <1>3, <2>1, <3>2 DEF RunLoad, TypeOK
  <2>2. CASE ~Loadable(s)
    BY <1>2, <1>3, <2>2 DEF RunLoad
  <2> QED BY <2>1, <2>2
<1>4. CASE RunNoFacts(s)
  BY <1>2, <1>4 DEF RunNoFacts
<1>5. CASE RunAdmit(s)
  <2>1. CASE s \in RowBacked => row[s]
    <3>1. run' = [run EXCEPT ![s].pc = "admitted"]
      BY <1>5, <2>1 DEF RunAdmit
    <3>2. run' \in [Sources -> RunType]
      BY <3>1, RunUpdate DEF TypeOK, Admitting
    <3> QED BY <1>5, <2>1, <3>2 DEF RunAdmit, TypeOK
  <2>2. CASE ~(s \in RowBacked => row[s])
    BY <1>2, <1>5, <2>2 DEF RunAdmit
  <2> QED BY <2>1, <2>2
<1>6. CASE RunStore(s)
  <2>1. PICK ids \in SUBSET Unminted :
          /\ run'    = [run EXCEPT ![s].pc = "stored", ![s].ids = ids]
          /\ prov'   = [m \in Mem |-> IF m \in ids THEN s ELSE prov[m]]
          /\ points' = points \cup ids
    BY <1>6 DEF RunStore
  <2>2. ids \subseteq Mem
    BY DEF Unminted
  <2>3. run' \in [Sources -> RunType]
    BY <2>1, <2>2, RunUpdate DEF TypeOK, Admitting
  <2>4. prov' \in [Mem -> Sources \cup {None}] /\ points' \subseteq Mem
    BY <2>1, <2>2 DEF TypeOK
  <2> QED BY <1>6, <2>3, <2>4 DEF RunStore, TypeOK
<1>7. CASE RunWantLock(s)
  <2>1. PICK m \in live : run' = [run EXCEPT ![s].pc = "merging", ![s].want = m]
    BY <1>7 DEF RunWantLock
  <2>2. run' \in [Sources -> RunType]
    BY <2>1, RunUpdate DEF TypeOK, Admitting
  <2> QED BY <1>7, <2>2 DEF RunWantLock, TypeOK
<1>8. CASE RunGetLock(s)
  BY <1>8 DEF RunGetLock, TypeOK, RunType, Admitting
<1>9. ASSUME RollBackRun(s) PROVE TypeOK'
  BY <1>9 DEF RollBackRun, NoRun, TypeOK, RunType
<1>10. CASE RunLockMissing(s) \/ RunFail(s)
  BY <1>9, <1>10 DEF RunLockMissing, RunFail
<1>11. CASE RunCommit(s)
  BY <1>2, <1>11 DEF RunCommit
<1>12. CASE DiscardCleanup(s)
  BY <1>12 DEF DiscardCleanup, TypeOK
<1> QED
  BY <1>1, <1>3, <1>4, <1>5, <1>6, <1>7, <1>8, <1>10, <1>11, <1>12 DEF RunStep

LEMMA EditUpdate ==
    ASSUME NEW x \in EditType, NEW p \in {"idle", "editing", "done"}
    PROVE  /\ [x EXCEPT !.pc = p] \in EditType
           /\ \A m \in Mem : /\ [x EXCEPT !.pc = p, !.old = m] \in EditType
                            /\ [x EXCEPT !.pc = p, !.new = m] \in EditType
BY DEF EditType

LEMMA EditTypeOK ==
    ASSUME TypeOK, Located, NEW e \in Edits, EditStep(e)
    PROVE  TypeOK'
<1>1. CASE EditLock(e)
  <2>1. PICK m \in live : edit' = [edit EXCEPT ![e].pc = "editing", ![e].old = m]
    BY <1>1 DEF EditLock
  <2>2. m \in Mem /\ edit' \in [Edits -> EditType]
    BY <2>1, EditUpdate DEF TypeOK
  <2> QED BY <1>1, <2>2 DEF EditLock, TypeOK
<1>2. CASE EditCommit(e)
  <2>1. PICK n \in Unminted :
          /\ prov'  = [prov EXCEPT ![n] = prov[edit[e].old]]
          /\ live'  = live \cup {n}
          /\ embed' = [embed EXCEPT ![n] = "queued"]
          /\ edit'  = [edit EXCEPT ![e].pc = "done", ![e].new = n]
    BY <1>2 DEF EditCommit
  <2>2. n \in Mem /\ prov[edit[e].old] \in Sources \cup {None}
    BY <1>2 DEF Unminted, EditCommit, Located, TypeOK
  <2>3. edit' \in [Edits -> EditType]
    BY <2>1, <2>2, EditUpdate DEF TypeOK
  <2>4. prov' \in [Mem -> Sources \cup {None}]
    BY <2>1, <2>2 DEF TypeOK
  <2>5. embed' \in [Mem -> {"none", "queued", "held", "written"}] /\ live' \subseteq Mem
    BY <2>1, <2>2 DEF TypeOK
  <2> QED BY <1>2, <2>3, <2>4, <2>5 DEF EditCommit, TypeOK
<1>3. CASE EditAbort(e)
  <2>1. edit' \in [Edits -> EditType]
    BY <1>3, EditUpdate DEF EditAbort, TypeOK
  <2> QED BY <1>3, <2>1 DEF EditAbort, TypeOK
<1> QED BY <1>1, <1>2, <1>3 DEF EditStep

LEMMA EmbedTypeOK ==
    ASSUME TypeOK, NEW m \in Mem, EmbedStep(m) \/ RejectUncertain(m)
    PROVE  TypeOK'
<1>1. CASE EmbedHold(m)
  BY <1>1 DEF EmbedHold, TypeOK
<1>2. CASE EmbedWrite(m)
  BY <1>2 DEF EmbedWrite, TypeOK
<1>3. CASE EmbedEnd(m)
  BY <1>3 DEF EmbedEnd, TypeOK
<1>4. CASE RejectUncertain(m)
  BY <1>4 DEF RejectUncertain, TypeOK
<1> QED BY <1>1, <1>2, <1>3, <1>4 DEF EmbedStep

\* A saga record stays one when the fields a step sets keep their types.
LEMMA SagaUpdate ==
    ASSUME NEW x \in SagaType, NEW p \in {"idle", "refused"} \cup Scanning \cup Receipted
    PROVE  /\ [x EXCEPT !.pc = p] \in SagaType
           /\ [x EXCEPT !.pc = p, !.rowLocks = {}, !.runLocks = {}] \in SagaType
           /\ \A locks \in SUBSET Sources : [x EXCEPT !.pc = p, !.runLocks = locks] \in SagaType
           /\ \A ids \in SUBSET Mem :
                /\ [x EXCEPT !.pc = p, !.snap = ids] \in SagaType
                /\ [x EXCEPT !.ids = ids, !.snap = {}, !.pc = p] \in SagaType
           /\ \A cur \in Sources, todo \in SUBSET Files :
                [x EXCEPT !.pc = p, !.cur = cur, !.todo = todo] \in SagaType
           /\ \A locks \in SUBSET Sources, keys \in SUBSET Sources :
                [x EXCEPT !.pc = p, !.rowLocks = locks, !.keys = keys] \in SagaType
BY DEF SagaType

LEMMA SagaStart ==
    ASSUME NEW s \in Sources, NEW locks \in SUBSET Sources, NEW keys \in SUBSET Sources,
           NEW todo \in SUBSET Files
    PROVE  [NoSaga EXCEPT !.pc = "cancel", !.src = s, !.cur = s, !.rowLocks = locks,
              !.keys = keys, !.todo = todo] \in SagaType
BY DEF SagaType, NoSaga, Scanning

LEMMA NoSagaType == NoSaga \in SagaType
BY DEF NoSaga, SagaType

LEMMA SagaTypeOK ==
    ASSUME TypeOK, Located, NEW r \in Receipts,
           (\E s \in Sources : SagaLockSource(r, s)) \/ SagaStep(r) \/ SagaAbort(r)
    PROVE  TypeOK'
<1>0. saga[r] \in SagaType /\ Scanning \cup Receipted \cup {"idle", "refused"}
        = {"idle", "refused", "cancel", "snapshot", "lockmems", "lockfile", "next",
           "pending", "confirmed"}
  BY DEF TypeOK, Scanning, Receipted
<1>1. ASSUME NEW s \in Sources, SagaLockSource(r, s) PROVE TypeOK'
  <2>1. PICK locks \in SUBSET Sources, keys \in SUBSET Sources, todo \in SUBSET Files :
          saga' = [saga EXCEPT ![r] =
            [NoSaga EXCEPT !.pc = "cancel", !.src = s, !.cur = s, !.rowLocks = locks,
               !.keys = keys, !.todo = todo]]
    BY <1>1 DEF SagaLockSource
  <2>2. saga' \in [Receipts -> SagaType]
    BY <2>1, SagaStart DEF TypeOK
  <2> QED BY <1>1, <2>2 DEF SagaLockSource, Rest, TypeOK
<1>2. CASE SagaCancel(r)
  <2>1. PICK locks \in SUBSET Sources :
          saga' = [saga EXCEPT ![r].pc = "snapshot", ![r].runLocks = locks]
    <3>1. saga[r].cur \in Sources /\ saga[r].runLocks \subseteq Sources
      BY <1>0, <1>2 DEF SagaCancel, Located, Scanning, SagaType
    <3> QED BY <1>2, <3>1 DEF SagaCancel
  <2>2. saga' \in [Receipts -> SagaType]
    BY <1>0, <2>1, SagaUpdate DEF TypeOK
  <2> QED BY <1>2, <2>2 DEF SagaCancel, Rest, TypeOK
<1>3. CASE SagaSnapshot(r)
  <2>1. Derived(saga[r].cur) \in SUBSET Mem
    BY DEF Derived, TypeOK
  <2>2. saga' \in [Receipts -> SagaType]
    BY <1>0, <1>3, <2>1, SagaUpdate DEF SagaSnapshot, TypeOK
  <2> QED BY <1>3, <2>2 DEF SagaSnapshot, Rest, TypeOK
<1>4. CASE SagaLockMems(r)
  <2>1. \/ saga' = [saga EXCEPT ![r] = [NoSaga EXCEPT !.pc = "refused"]]
        \/ \E ids \in SUBSET Mem, p \in {"next", "lockfile"} :
              saga' = [saga EXCEPT ![r].ids = ids, ![r].snap = {}, ![r].pc = p]
    <3>1. saga[r].ids \cup (saga[r].snap \cap live) \in SUBSET Mem
      BY <1>0 DEF SagaType
    <3> QED BY <1>4, <3>1 DEF SagaLockMems
  <2>2. saga' \in [Receipts -> SagaType]
    <3>1. CASE saga' = [saga EXCEPT ![r] = [NoSaga EXCEPT !.pc = "refused"]]
      <4>1. [NoSaga EXCEPT !.pc = "refused"] \in SagaType
        BY NoSagaType, SagaUpdate
      <4> QED BY <3>1, <4>1 DEF TypeOK
    <3>2. ASSUME NEW ids \in SUBSET Mem, NEW p \in {"next", "lockfile"},
                 saga' = [saga EXCEPT ![r].ids = ids, ![r].snap = {}, ![r].pc = p]
          PROVE  saga' \in [Receipts -> SagaType]
      BY <1>0, <3>2, SagaUpdate DEF TypeOK
    <3> QED BY <2>1, <3>1, <3>2
  <2> QED BY <1>4, <2>2 DEF SagaLockMems, Rest, TypeOK
<1>5. CASE SagaNextAttachment(r)
  <2>1. PICK f \in saga[r].todo :
          saga' = [saga EXCEPT ![r].pc = "cancel", ![r].cur = f, ![r].todo = @ \ {f}]
    BY <1>5 DEF SagaNextAttachment
  <2>2. f \in Sources /\ saga[r].todo \ {f} \in SUBSET Files
    BY <1>0 DEF SagaType, Sources, RowBacked
  <2>3. saga' \in [Receipts -> SagaType]
    BY <1>0, <2>1, <2>2, SagaUpdate DEF TypeOK
  <2> QED BY <1>5, <2>3 DEF SagaNextAttachment, Rest, TypeOK
<1>6. CASE SagaLockFile(r)
  <2>1. PICK locks \in SUBSET Sources, keys \in SUBSET Sources :
          saga' = [saga EXCEPT ![r].pc = "next", ![r].rowLocks = locks, ![r].keys = keys]
    <3>1. /\ saga[r].cur \in Sources
          /\ saga[r].rowLocks \subseteq Sources /\ saga[r].keys \subseteq Sources
      BY <1>0, <1>6 DEF SagaLockFile, Located, Scanning, SagaType
    <3> QED BY <1>6, <3>1 DEF SagaLockFile
  <2>2. saga' \in [Receipts -> SagaType]
    BY <1>0, <2>1, SagaUpdate DEF TypeOK
  <2> QED BY <1>6, <2>2 DEF SagaLockFile, Rest, TypeOK
<1>7. CASE SagaCommit(r)
  <2>1. saga' \in [Receipts -> SagaType]
    BY <1>0, <1>7, SagaUpdate DEF SagaCommit, TypeOK
  <2>2. exec' \in [Receipts -> ExecType]
    BY <1>7 DEF SagaCommit, TypeOK, ExecType
  <2>3. row' \in [Sources -> BOOLEAN] /\ key' \in [Sources -> BOOLEAN] /\ live' \subseteq Mem
    BY <1>7 DEF SagaCommit, TypeOK
  <2> QED BY <1>7, <2>1, <2>2, <2>3 DEF SagaCommit, Rest, TypeOK
<1>8. CASE SagaAbort(r)
  <2>1. saga' \in [Receipts -> SagaType]
    BY <1>0, <1>8, SagaUpdate, NoSagaType DEF SagaAbort, TypeOK
  <2> QED BY <1>8, <2>1 DEF SagaAbort, Rest, TypeOK
<1> QED BY <1>1, <1>2, <1>3, <1>4, <1>5, <1>6, <1>7, <1>8 DEF SagaStep

LEMMA ExecUpdate ==
    ASSUME NEW x \in ExecType, NEW left \in SUBSET Sources
    PROVE  [x EXCEPT !.pc = "objects", !.left = left] \in ExecType
BY DEF ExecType

LEMMA ExecTypeOK ==
    ASSUME TypeOK, NEW r \in Receipts, ExecStep(r) \/ ExecFail(r)
    PROVE  TypeOK'
<1>1. CASE ExecStart(r)
  BY <1>1 DEF ExecStart, ExecRest, TypeOK, ExecType
<1>2. CASE ExecDeletePoints(r)
  <2>1. saga[r].keys \subseteq Sources
    BY DEF TypeOK, SagaType
  <2>2. exec' \in [Receipts -> ExecType]
    BY <1>2, <2>1, ExecUpdate DEF ExecDeletePoints, TypeOK
  <2>3. points' \subseteq Mem
    BY <1>2 DEF ExecDeletePoints, TypeOK
  <2> QED BY <1>2, <2>2, <2>3 DEF ExecDeletePoints, ExecRest, TypeOK
<1>3. CASE ExecDeleteObject(r)
  <2>1. PICK k \in exec[r].left : exec' = [exec EXCEPT ![r].left = @ \ {k}] /\ objs' = objs \ {k}
    BY <1>3 DEF ExecDeleteObject
  <2> QED BY <1>3, <2>1 DEF ExecDeleteObject, ExecRest, TypeOK, ExecType
<1>4. CASE ExecConfirm(r)
  <2>1. saga' \in [Receipts -> SagaType]
    <3>1. saga[r] \in SagaType /\ "confirmed" \in Receipted
      BY DEF TypeOK, Receipted
    <3> QED BY <1>4, <3>1, SagaUpdate DEF ExecConfirm, TypeOK
  <2>2. exec' \in [Receipts -> ExecType]
    BY <1>4 DEF ExecConfirm, TypeOK, ExecType
  <2> QED BY <1>4, <2>1, <2>2 DEF ExecConfirm, ExecRest, TypeOK
<1>5. CASE ExecFail(r)
  <2>1. exec' \in [Receipts -> ExecType]
    BY <1>5 DEF ExecFail, TypeOK, ExecType
  <2> QED BY <1>5, <2>1 DEF ExecFail, ExecRest, TypeOK
<1> QED BY <1>1, <1>2, <1>3, <1>4, <1>5 DEF ExecStep
-----------------------------------------------------------------------------
(* The inductive invariant                                                  *)

\* Rows and enumerated ids were minted: no fresh id is among them.
Minted == /\ \A m \in live : prov[m] # None
          /\ \A r \in Receipts : \A m \in saga[r].ids : prov[m] # None
\* What a run has minted and not committed is its own, and nobody has seen it.
RunFresh == \A s \in Sources : \A m \in run[s].ids :
                /\ prov[m] = s /\ m \notin live
                /\ \A r \in Receipts : m \notin saga[r].ids
\* An embed job past its FOR UPDATE holds a live row no saga has locked.
EmbedHolds == \A m \in Mem : embed[m] \in {"held", "written"} =>
                /\ m \in live
                /\ \A r \in Receipts : saga[r].pc \in Scanning => m \notin saga[r].ids
\* The rows a receipt lists are gone.
ReceiptedGone == \A r \in Receipts : saga[r].pc \in Receipted => saga[r].ids \cap live = {}
\* The executor runs for a committed receipt; past the objects' leg, they are gone.
ExecProgress == \A r \in Receipts :
    /\ exec[r].pc # "none" => saga[r].pc \in Receipted
    /\ exec[r].pc = "objects" => (saga[r].keys \ exec[r].left) \cap objs = {}
ObjectsErased == \A r \in Receipts : saga[r].pc = "confirmed" => saga[r].keys \cap objs = {}

Held == Minted /\ RunFresh /\ EmbedHolds /\ ReceiptedGone /\ ExecProgress /\ ObjectsErased
IInv == TypeOK /\ Located /\ Held

LEMMA InitIInv == Init => IInv
<1> SUFFICES ASSUME Init PROVE Held
  BY InitTypeOK DEF IInv
<1> QED BY DEF Init, Held, Minted, RunFresh, EmbedHolds, ReceiptedGone, ExecProgress,
               ObjectsErased, NoRun, NoSaga, Receipted, Scanning

\* Steps that mint nothing and commit nothing.
LEMMA QuietStep ==
    ASSUME IInv, \A s \in Sources : run'[s].ids \subseteq run[s].ids, objs' \subseteq objs,
           UNCHANGED <<prov, live, embed, saga, exec>>
    PROVE  Held'
BY DEF IInv, Held, Minted, RunFresh, EmbedHolds, ReceiptedGone, ExecProgress, ObjectsErased

\* A commit of a run makes its ids live: they were in no receipt.
LEMMA CommitHeld ==
    ASSUME IInv, NEW s \in Sources, CommitRun(s), UNCHANGED <<prov, objs, embed, saga, exec>>
    PROVE  Held'
<1>1. live' = live \cup run[s].ids
  BY DEF CommitRun
<1>2. \A t \in Sources : run'[t].ids = IF t = s THEN {} ELSE run[t].ids
  BY DEF CommitRun, NoRun, IInv, TypeOK
<1>3. \A m \in run[s].ids : prov[m] = s /\ s # None /\ \A r \in Receipts : m \notin saga[r].ids
  BY DEF IInv, Held, RunFresh
<1>4. Minted'
  BY <1>1, <1>3 DEF IInv, Held, Minted
<1>5. RunFresh'
  BY <1>1, <1>2, <1>3 DEF IInv, Held, RunFresh
<1>6. EmbedHolds' /\ ExecProgress'
  BY <1>1 DEF IInv, Held, EmbedHolds, ExecProgress
<1>7. ReceiptedGone'
  BY <1>1, <1>3 DEF IInv, Held, ReceiptedGone
<1>8. ObjectsErased'
  BY <1>1, <1>3 DEF IInv, Held, ObjectsErased
<1> QED BY <1>4, <1>5, <1>6, <1>7, <1>8 DEF Held

\* Stage 5 mints ids nobody holds.
LEMMA StoreHeld ==
    ASSUME IInv, NEW s \in Sources, RunStore(s)
    PROVE  Held'
<1>1. PICK ids \in SUBSET Unminted :
          /\ run'    = [run EXCEPT ![s].pc = "stored", ![s].ids = ids]
          /\ prov'   = [m \in Mem |-> IF m \in ids THEN s ELSE prov[m]]
          /\ points' = points \cup ids
  BY DEF RunStore
<1>2. UNCHANGED <<live, objs, embed, saga, exec>>
  BY DEF RunStore
<1>3. \A t \in Sources : run'[t].ids = IF t = s THEN ids ELSE run[t].ids
  BY <1>1 DEF IInv, TypeOK, RunType
<1>4. ids \subseteq Mem /\ \A m \in ids : prov[m] = None
  BY DEF Unminted
<1>5. /\ ids \cap live = {} /\ \A r \in Receipts : ids \cap saga[r].ids = {}
      /\ \A t \in Sources : ids \cap run[t].ids = {}
  BY <1>4 DEF IInv, Held, Minted, RunFresh
<1>6. \A m \in Mem : prov'[m] = IF m \in ids THEN s ELSE prov[m]
  BY <1>1
<1>7. live \subseteq Mem /\ (\A r \in Receipts : saga[r].ids \subseteq Mem)
      /\ \A t \in Sources : run[t].ids \subseteq Mem
  BY DEF IInv, TypeOK, SagaType, RunType
<1>8. Minted'
  BY <1>2, <1>6, <1>7 DEF IInv, Held, Minted
<1>9. RunFresh'
  <2> SUFFICES ASSUME NEW t \in Sources, NEW m \in run'[t].ids
               PROVE  prov'[m] = t /\ m \notin live /\ \A r \in Receipts : m \notin saga[r].ids
    BY <1>2 DEF RunFresh
  <2>1. CASE t = s
    BY <2>1, <1>3, <1>4, <1>5, <1>6
  <2>2. CASE t # s
    BY <2>2, <1>3, <1>5, <1>6, <1>7 DEF IInv, Held, RunFresh
  <2> QED BY <2>1, <2>2
<1>10. EmbedHolds' /\ ReceiptedGone'
  BY <1>2 DEF IInv, Held, EmbedHolds, ReceiptedGone
<1>11. ExecProgress' /\ ObjectsErased'
  BY <1>1, <1>2, <1>5 DEF IInv, Held, ExecProgress, ObjectsErased
<1> QED BY <1>8, <1>9, <1>10, <1>11 DEF Held

LEMMA RunKeepsHeld ==
    ASSUME IInv, NEW s \in Sources, RunStep(s) \/ RunFail(s) \/ DiscardCleanup(s)
    PROVE  Held'
<1>0. run \in [Sources -> RunType]
  BY DEF IInv, TypeOK
<1>1. ASSUME run' = run \/ (run' = [run EXCEPT ![s] = NoRun]),
             objs' \subseteq objs, UNCHANGED <<prov, live, embed, saga, exec>>
      PROVE  Held'
  BY <1>0, <1>1, QuietStep DEF NoRun
<1>2. ASSUME NEW p, run' = [run EXCEPT ![s].pc = p], objs' = objs,
             UNCHANGED <<prov, live, embed, saga, exec>>
      PROVE  Held'
  <2>1. \A t \in Sources : run'[t].ids = run[t].ids
    BY <1>0, <1>2 DEF RunType
  <2> QED BY <1>2, <2>1, QuietStep
<1>3. CASE RunStart(s)
  BY <1>1, <1>2, <1>3 DEF RunStart
<1>4. CASE RunLoad(s)
  BY <1>2, <1>4, CommitHeld DEF RunLoad
<1>5. CASE RunNoFacts(s) \/ RunCommit(s)
  BY <1>5, CommitHeld DEF RunNoFacts, RunCommit
<1>6. CASE RunAdmit(s)
  <2>1. CASE s \in RowBacked => row[s]
    BY <1>2, <1>6, <2>1 DEF RunAdmit
  <2>2. CASE ~(s \in RowBacked => row[s])
    BY <1>6, <2>2, CommitHeld DEF RunAdmit
  <2> QED BY <2>1, <2>2
<1>7. CASE RunStore(s)
  BY <1>7, StoreHeld
<1>8. CASE RunWantLock(s)
  <2>1. \A t \in Sources : run'[t].ids = run[t].ids
    BY <1>0, <1>8 DEF RunWantLock, RunType
  <2> QED BY <1>8, <2>1, QuietStep DEF RunWantLock
<1>9. CASE RunGetLock(s)
  <2>1. \A t \in Sources : run'[t].ids = run[t].ids
    BY <1>0, <1>9 DEF RunGetLock, RunType
  <2> QED BY <1>9, <2>1, QuietStep DEF RunGetLock
<1>10. CASE RunLockMissing(s) \/ RunFail(s)
  BY <1>1, <1>10 DEF RunLockMissing, RunFail, RollBackRun
<1>11. CASE DiscardCleanup(s)
  BY <1>1, <1>11 DEF DiscardCleanup
<1> QED
  BY <1>3, <1>4, <1>5, <1>6, <1>7, <1>8, <1>9, <1>10, <1>11 DEF RunStep

\* An edit commits a successor under a fresh id, which is in no receipt.
LEMMA EditKeepsHeld ==
    ASSUME IInv, NEW e \in Edits, EditStep(e)
    PROVE  Held'
<1>1. CASE EditLock(e) \/ EditAbort(e)
  BY <1>1, QuietStep DEF EditLock, EditAbort
<1>2. CASE EditCommit(e)
  <2>1. PICK n \in Unminted :
          /\ prov'  = [prov EXCEPT ![n] = prov[edit[e].old]]
          /\ live'  = live \cup {n}
          /\ embed' = [embed EXCEPT ![n] = "queued"]
    BY <1>2 DEF EditCommit
  <2>2. UNCHANGED <<run, objs, saga, exec>>
    BY <1>2 DEF EditCommit
  <2>3. n \in Mem /\ prov[n] = None /\ prov[edit[e].old] # None
    BY <1>2 DEF Unminted, EditCommit, IInv, Located
  <2>4. /\ n \notin live /\ \A r \in Receipts : n \notin saga[r].ids
        /\ \A s \in Sources : n \notin run[s].ids
    BY <2>3 DEF IInv, Held, Minted, RunFresh
  <2>5. /\ live \subseteq Mem /\ \A r \in Receipts : saga[r].ids \subseteq Mem
        /\ \A s \in Sources : run[s].ids \subseteq Mem
    BY DEF IInv, TypeOK, SagaType, RunType
  <2>6. \A m \in Mem : m # n => prov'[m] = prov[m] /\ embed'[m] = embed[m]
    BY <2>1 DEF IInv, TypeOK
  <2>7. prov'[n] # None /\ embed'[n] = "queued"
    BY <2>1, <2>3 DEF IInv, TypeOK
  <2>8. Minted'
    BY <2>1, <2>2, <2>4, <2>5, <2>6, <2>7 DEF IInv, Held, Minted
  <2>9. RunFresh'
    BY <2>1, <2>2, <2>4, <2>5, <2>6 DEF IInv, Held, RunFresh
  <2>10. EmbedHolds'
    BY <2>1, <2>2, <2>6, <2>7 DEF IInv, Held, EmbedHolds
  <2>11. ReceiptedGone' /\ ExecProgress' /\ ObjectsErased'
    BY <2>1, <2>2, <2>4 DEF IInv, Held, ReceiptedGone, ExecProgress, ObjectsErased
  <2> QED BY <2>8, <2>9, <2>10, <2>11 DEF Held
<1> QED BY <1>1, <1>2 DEF EditStep

\* An embed job takes the lock of a live row nobody else has locked.
LEMMA EmbedKeepsHeld ==
    ASSUME IInv, NEW m \in Mem, EmbedStep(m) \/ RejectUncertain(m)
    PROVE  Held'
<1>1. CASE EmbedHold(m)
  <2>1. EmbedHolds'
    BY <1>1 DEF EmbedHold, MemLocked, IInv, TypeOK, Held, EmbedHolds
  <2>2. Minted' /\ RunFresh' /\ ReceiptedGone' /\ ExecProgress' /\ ObjectsErased'
    BY <1>1 DEF EmbedHold, IInv, Held, Minted, RunFresh, ReceiptedGone, ExecProgress, ObjectsErased
  <2> QED BY <2>1, <2>2 DEF Held
<1>2. CASE EmbedWrite(m)
  <2>1. m \in live /\ embed[m] = "held"
    BY <1>2 DEF EmbedWrite, IInv, Held, EmbedHolds
  <2>2. EmbedHolds'
    BY <1>2, <2>1 DEF EmbedWrite, IInv, TypeOK, Held, EmbedHolds
  <2>3. Minted' /\ RunFresh' /\ ReceiptedGone' /\ ExecProgress' /\ ObjectsErased'
    BY <1>2 DEF EmbedWrite, IInv, Held, Minted, RunFresh, ReceiptedGone, ExecProgress, ObjectsErased
  <2> QED BY <2>2, <2>3 DEF Held
<1>3. CASE EmbedEnd(m)
  <2>1. EmbedHolds'
    BY <1>3 DEF EmbedEnd, IInv, TypeOK, Held, EmbedHolds
  <2>2. Minted' /\ RunFresh' /\ ReceiptedGone' /\ ExecProgress' /\ ObjectsErased'
    BY <1>3 DEF EmbedEnd, IInv, Held, Minted, RunFresh, ReceiptedGone, ExecProgress, ObjectsErased
  <2> QED BY <2>1, <2>2 DEF Held
<1>4. CASE RejectUncertain(m)
  <2>1. embed[m] \notin {"held", "written"}
    BY <1>4 DEF RejectUncertain, MemLocked
  <2>2. EmbedHolds'
    BY <1>4, <2>1 DEF RejectUncertain, IInv, Held, EmbedHolds
  <2>3. Minted' /\ RunFresh' /\ ReceiptedGone' /\ ExecProgress' /\ ObjectsErased'
    BY <1>4 DEF RejectUncertain, IInv, Held, Minted, RunFresh, ReceiptedGone, ExecProgress, ObjectsErased
  <2> QED BY <2>2, <2>3 DEF Held
<1> QED BY <1>1, <1>2, <1>3, <1>4 DEF EmbedStep

\* While a saga scans it only gains ids of live rows nobody else has locked.
LEMMA ScanHeld ==
    ASSUME IInv, NEW r \in Receipts, saga[r].pc \notin Receipted,
           saga'[r].pc \notin Receipted,
           saga'[r].ids \subseteq (IF saga[r].pc \in Scanning THEN saga[r].ids ELSE {})
                                    \cup {m \in live : ~MemLocked(m)},
           \A q \in Receipts \ {r} : saga'[q] = saga[q],
           UNCHANGED <<run, prov, live, objs, embed, exec>>
    PROVE  Held'
<1>1. Minted'
  BY DEF IInv, Held, Minted
<1>2. RunFresh'
  BY DEF IInv, Held, RunFresh
<1>3. EmbedHolds'
  BY DEF IInv, Held, EmbedHolds, MemLocked
<1>4. ReceiptedGone'
  BY DEF IInv, Held, ReceiptedGone
<1>5. ExecProgress'
  BY DEF IInv, Held, ExecProgress
<1>6. ObjectsErased'
  BY DEF IInv, Held, ObjectsErased, Receipted
<1> QED BY <1>1, <1>2, <1>3, <1>4, <1>5, <1>6 DEF Held

\* The saga's commit takes its rows out of live together with the receipt.
LEMMA SagaCommitHeld ==
    ASSUME IInv, NEW r \in Receipts, SagaCommit(r)
    PROVE  Held'
<1>1. /\ live' = live \ saga[r].ids /\ saga[r].pc = "next"
      /\ UNCHANGED <<run, prov, objs, embed>>
  BY DEF SagaCommit, Rest
<1>2. \A q \in Receipts : /\ saga'[q].ids = saga[q].ids /\ saga'[q].keys = saga[q].keys
                          /\ saga'[q].pc = IF q = r THEN "pending" ELSE saga[q].pc
  BY DEF SagaCommit, IInv, TypeOK, SagaType
<1>3. \A q \in Receipts : /\ exec'[q].pc = IF q = r THEN "queued" ELSE exec[q].pc
                          /\ exec'[q].left = exec[q].left
  BY DEF SagaCommit, IInv, TypeOK, ExecType
<1>4. Minted' /\ RunFresh'
  BY <1>1, <1>2 DEF IInv, Held, Minted, RunFresh
<1>5. EmbedHolds'
  BY <1>1, <1>2 DEF IInv, Held, EmbedHolds, Scanning
<1>6. ReceiptedGone'
  BY <1>1, <1>2 DEF IInv, Held, ReceiptedGone
<1>7. ExecProgress'
  BY <1>1, <1>2, <1>3 DEF IInv, Held, ExecProgress, Receipted
<1>8. ObjectsErased'
  BY <1>1, <1>2 DEF IInv, Held, ObjectsErased
<1> QED BY <1>4, <1>5, <1>6, <1>7, <1>8 DEF Held

LEMMA SagaKeepsHeld ==
    ASSUME IInv, NEW r \in Receipts,
           (\E s \in Sources : SagaLockSource(r, s)) \/ SagaStep(r) \/ SagaAbort(r)
    PROVE  Held'
<1>0. saga \in [Receipts -> SagaType] /\ saga[r] \in SagaType
  BY DEF IInv, TypeOK
<1>1. ASSUME saga'[r].ids = {}, saga'[r].pc \notin Receipted, saga[r].pc \notin Receipted,
             \A q \in Receipts \ {r} : saga'[q] = saga[q], Rest(r), live' = live, exec' = exec
      PROVE  Held'
  BY <1>1, ScanHeld DEF Rest
<1>11. ASSUME saga' = [saga EXCEPT ![r] = [NoSaga EXCEPT !.pc = "refused"]],
              saga[r].pc \in Scanning, Rest(r), live' = live, exec' = exec
       PROVE  Held'
  <2>1. saga'[r] = [NoSaga EXCEPT !.pc = "refused"] /\ \A q \in Receipts \ {r} : saga'[q] = saga[q]
    BY <1>0, <1>11
  <2>2. saga'[r].ids = {} /\ saga'[r].pc = "refused"
    BY <2>1 DEF NoSaga
  <2> QED BY <1>1, <1>11, <2>1, <2>2 DEF Scanning, Receipted
<1>2. ASSUME saga[r].pc \in Scanning, saga'[r].pc \in Scanning, saga'[r].ids = saga[r].ids,
             \A q \in Receipts \ {r} : saga'[q] = saga[q], Rest(r), live' = live, exec' = exec
      PROVE  Held'
  BY <1>2, ScanHeld DEF Rest, Scanning, Receipted
<1>3. ASSUME NEW s \in Sources, SagaLockSource(r, s) PROVE Held'
  <2>1. PICK locks, keys, todo : saga' = [saga EXCEPT ![r] =
            [NoSaga EXCEPT !.pc = "cancel", !.src = s, !.cur = s, !.rowLocks = locks,
               !.keys = keys, !.todo = todo]]
    BY <1>3 DEF SagaLockSource
  <2>2. saga[r].pc = "idle" /\ Rest(r) /\ live' = live /\ exec' = exec
    BY <1>3 DEF SagaLockSource
  <2>3. saga'[r].ids = {} /\ saga'[r].pc = "cancel" /\ \A q \in Receipts \ {r} : saga'[q] = saga[q]
    BY <1>0, <2>1 DEF NoSaga
  <2> QED BY <1>1, <2>2, <2>3 DEF Receipted
<1>4. CASE SagaCancel(r)
  <2>1. saga'[r].pc = "snapshot" /\ saga'[r].ids = saga[r].ids
    BY <1>0, <1>4 DEF SagaCancel, SagaType
  <2>2. \A q \in Receipts \ {r} : saga'[q] = saga[q]
    BY <1>0, <1>4 DEF SagaCancel
  <2> QED BY <1>2, <1>4, <2>1, <2>2 DEF SagaCancel, Scanning
<1>5. CASE SagaSnapshot(r)
  <2>1. saga'[r].pc = "lockmems" /\ saga'[r].ids = saga[r].ids
    BY <1>0, <1>5 DEF SagaSnapshot, SagaType
  <2>2. \A q \in Receipts \ {r} : saga'[q] = saga[q]
    BY <1>0, <1>5 DEF SagaSnapshot
  <2> QED BY <1>2, <1>5, <2>1, <2>2 DEF SagaSnapshot, Scanning
<1>6. CASE SagaLockMems(r)
  <2>1. CASE saga' = [saga EXCEPT ![r] = [NoSaga EXCEPT !.pc = "refused"]]
    BY <1>11, <1>6, <2>1 DEF SagaLockMems, Scanning
  <2>2. ASSUME NEW p \in {"next", "lockfile"},
               saga' = [saga EXCEPT ![r].ids = @ \cup (saga[r].snap \cap live), ![r].snap = {},
                          ![r].pc = p]
        PROVE  Held'
    <3>1. saga'[r].pc = p /\ saga'[r].ids = saga[r].ids \cup (saga[r].snap \cap live)
      BY <1>0, <2>2 DEF SagaType
    <3>2. \A q \in Receipts \ {r} : saga'[q] = saga[q]
      BY <1>0, <2>2
    <3>3. saga[r].snap \cap live \subseteq {m \in live : ~MemLocked(m)}
      BY <1>6 DEF SagaLockMems
    <3>4. saga[r].pc = "lockmems" /\ Rest(r) /\ live' = live /\ exec' = exec
      BY <1>6 DEF SagaLockMems
    <3> QED BY <3>1, <3>2, <3>3, <3>4, ScanHeld DEF Rest, Scanning, Receipted
  <2> QED BY <1>6, <2>1, <2>2 DEF SagaLockMems
<1>7. CASE SagaNextAttachment(r)
  <2>1. saga'[r].pc = "cancel" /\ saga'[r].ids = saga[r].ids
    BY <1>0, <1>7 DEF SagaNextAttachment, SagaType
  <2>2. \A q \in Receipts \ {r} : saga'[q] = saga[q]
    BY <1>0, <1>7 DEF SagaNextAttachment
  <2> QED BY <1>2, <1>7, <2>1, <2>2 DEF SagaNextAttachment, Scanning
<1>8. CASE SagaLockFile(r)
  <2>1. saga'[r].pc = "next" /\ saga'[r].ids = saga[r].ids
    BY <1>0, <1>8 DEF SagaLockFile, SagaType
  <2>2. \A q \in Receipts \ {r} : saga'[q] = saga[q]
    BY <1>0, <1>8 DEF SagaLockFile
  <2> QED BY <1>2, <1>8, <2>1, <2>2 DEF SagaLockFile, Scanning
<1>9. CASE SagaCommit(r)
  BY <1>9, SagaCommitHeld
<1>10. CASE SagaAbort(r)
  BY <1>11, <1>10 DEF SagaAbort
<1> QED BY <1>3, <1>4, <1>5, <1>6, <1>7, <1>8, <1>9, <1>10 DEF SagaStep

\* The executor of r touches the receipt of r alone, and only ever deletes.
LEMMA ExecKeepsHeld ==
    ASSUME IInv, NEW r \in Receipts, ExecStep(r) \/ ExecFail(r)
    PROVE  Held'
<1>0. exec \in [Receipts -> ExecType] /\ saga \in [Receipts -> SagaType]
  BY DEF IInv, TypeOK
<1>1. ASSUME UNCHANGED <<run, prov, live, embed>>, objs' \subseteq objs,
             \A q \in Receipts :
               /\ saga'[q].ids = saga[q].ids /\ saga'[q].keys = saga[q].keys
               /\ saga'[q].pc = saga[q].pc \/
                    (saga[q].pc \in Receipted /\ saga'[q].pc = "confirmed"
                       /\ saga[q].keys \cap objs = {}),
             \A q \in Receipts \ {r} : exec'[q] = exec[q],
             exec[r].pc # "none",
             exec'[r].pc = "objects" => (saga[r].keys \ exec'[r].left) \cap objs' = {}
      PROVE  Held'
  <2>1. Minted' /\ RunFresh'
    BY <1>1 DEF IInv, Held, Minted, RunFresh
  <2>2. EmbedHolds'
    BY <1>1 DEF IInv, Held, EmbedHolds, Scanning
  <2>3. ReceiptedGone'
    BY <1>1 DEF IInv, Held, ReceiptedGone
  <2>4. ExecProgress'
    BY <1>1 DEF IInv, Held, ExecProgress, Receipted
  <2>5. ObjectsErased'
    BY <1>1 DEF IInv, Held, ObjectsErased
  <2> QED BY <2>1, <2>2, <2>3, <2>4, <2>5 DEF Held
<1>2. CASE ExecStart(r)
  <2>1. exec'[r].pc \in {"done", "points"} /\ \A q \in Receipts \ {r} : exec'[q] = exec[q]
    BY <1>0, <1>2 DEF ExecStart, ExecType
  <2> QED BY <1>1, <1>2, <2>1 DEF ExecStart, ExecRest
<1>3. CASE ExecDeletePoints(r)
  <2>1. exec'[r].pc = "objects" /\ exec'[r].left = saga[r].keys
    BY <1>0, <1>3 DEF ExecDeletePoints, ExecType
  <2>2. \A q \in Receipts \ {r} : exec'[q] = exec[q]
    BY <1>0, <1>3 DEF ExecDeletePoints
  <2> QED BY <1>1, <1>3, <2>1, <2>2 DEF ExecDeletePoints, ExecRest
<1>4. CASE ExecDeleteObject(r)
  <2>1. PICK k \in exec[r].left :
          objs' = objs \ {k} /\ exec' = [exec EXCEPT ![r].left = @ \ {k}]
    BY <1>4 DEF ExecDeleteObject
  <2>2. exec'[r].left = exec[r].left \ {k} /\ \A q \in Receipts \ {r} : exec'[q] = exec[q]
    BY <1>0, <2>1 DEF ExecType
  <2>3. (saga[r].keys \ exec'[r].left) \cap objs' = {}
    BY <1>4, <2>1, <2>2 DEF ExecDeleteObject, IInv, Held, ExecProgress
  <2> QED BY <1>1, <1>4, <2>1, <2>2, <2>3 DEF ExecDeleteObject, ExecRest
<1>5. CASE ExecConfirm(r)
  <2>1. /\ saga[r].pc \in Receipted
        /\ saga[r].keys \cap objs = {}
    BY <1>5 DEF ExecConfirm, IInv, Held, ExecProgress
  <2>2. \A q \in Receipts : /\ saga'[q].ids = saga[q].ids /\ saga'[q].keys = saga[q].keys
                            /\ saga'[q].pc = IF q = r THEN "confirmed" ELSE saga[q].pc
    BY <1>0, <1>5 DEF ExecConfirm, SagaType
  <2>3. exec'[r].pc \in {"done", "queued"} /\ \A q \in Receipts \ {r} : exec'[q] = exec[q]
    BY <1>0, <1>5 DEF ExecConfirm, ExecType
  <2> QED BY <1>1, <1>5, <2>1, <2>2, <2>3 DEF ExecConfirm, ExecRest
<1>6. CASE ExecFail(r)
  <2>1. exec'[r].pc \in {"queued", "dead"} /\ \A q \in Receipts \ {r} : exec'[q] = exec[q]
    BY <1>0, <1>6 DEF ExecFail, ExecType
  <2> QED BY <1>1, <1>6, <2>1 DEF ExecFail, ExecRest
<1> QED BY <1>2, <1>3, <1>4, <1>5, <1>6 DEF ExecStep

-----------------------------------------------------------------------------

\* A memory never loses its provenance, so an edit's predecessor keeps one.
LEMMA ProvKept ==
    ASSUME IInv, Next
    PROVE  \A m \in Mem : prov[m] # None => prov'[m] = prov[m]
<1>1. ASSUME NEW s \in Sources, RunStep(s) \/ RunFail(s) \/ DiscardCleanup(s)
      PROVE  prov' = prov \/ RunStore(s)
  BY <1>1 DEF RunStep, RunStart, RunLoad, RunNoFacts, RunAdmit, RunWantLock, RunGetLock,
              RunLockMissing, RunCommit, RunFail, RollBackRun, DiscardCleanup
<1>2. ASSUME NEW s \in Sources, RunStore(s)
      PROVE  \A m \in Mem : prov[m] # None => prov'[m] = prov[m]
  BY <1>2 DEF RunStore, Unminted
<1>3. ASSUME NEW e \in Edits, EditStep(e)
      PROVE  \A m \in Mem : prov[m] # None => prov'[m] = prov[m]
  <2>1. CASE EditLock(e) \/ EditAbort(e)
    BY <2>1 DEF EditLock, EditAbort
  <2>2. CASE EditCommit(e)
    <3>1. PICK n \in Unminted : prov' = [prov EXCEPT ![n] = prov[edit[e].old]]
      BY <2>2 DEF EditCommit
    <3> QED BY <3>1 DEF Unminted, IInv, TypeOK
  <2> QED BY <1>3, <2>1, <2>2 DEF EditStep
<1>4. ASSUME NEW m \in Mem, EmbedStep(m) \/ RejectUncertain(m) PROVE prov' = prov
  BY <1>4 DEF EmbedStep, EmbedHold, EmbedWrite, EmbedEnd, RejectUncertain
<1>5. ASSUME NEW r \in Receipts, NEW s \in Sources, SagaLockSource(r, s) PROVE prov' = prov
  BY <1>5 DEF SagaLockSource, Rest
<1>6. ASSUME NEW r \in Receipts, SagaStep(r) \/ SagaAbort(r) PROVE prov' = prov
  BY <1>6 DEF SagaStep, SagaCancel, SagaSnapshot, SagaLockMems, SagaNextAttachment, SagaLockFile,
              SagaCommit, SagaAbort, Rest
<1>7. ASSUME NEW r \in Receipts, ExecStep(r) \/ ExecFail(r) PROVE prov' = prov
  BY <1>7 DEF ExecStep, ExecStart, ExecDeletePoints, ExecDeleteObject, ExecConfirm, ExecFail, ExecRest
<1> QED BY <1>1, <1>2, <1>3, <1>4, <1>5, <1>6, <1>7 DEF Next

\* The edit under way knows its predecessor.
LEMMA EditLocated ==
    ASSUME IInv, Next, NEW d \in Edits, edit'[d].pc = "editing"
    PROVE  edit'[d].old \in Mem /\ prov'[edit'[d].old] # None
<1>1. ASSUME edit'[d] = edit[d]
      PROVE  edit'[d].old \in Mem /\ prov'[edit'[d].old] # None
  BY <1>1, ProvKept DEF IInv, Located
<1>2. ASSUME NEW e \in Edits, EditStep(e)
      PROVE  edit'[d].old \in Mem /\ prov'[edit'[d].old] # None
  <2>1. CASE d # e
    <3>1. edit'[d] = edit[d]
      BY <1>2, <2>1 DEF EditStep, EditLock, EditCommit, EditAbort, IInv, TypeOK
    <3> QED BY <1>1, <3>1
  <2>2. CASE d = e /\ EditLock(e)
    <3>1. PICK m \in live : edit' = [edit EXCEPT ![e].pc = "editing", ![e].old = m]
      BY <2>2 DEF EditLock
    <3>2. edit'[d].old = m /\ m \in Mem /\ prov[m] # None
      BY <2>2, <3>1 DEF IInv, TypeOK, EditType, Held, Minted
    <3> QED BY <2>2, <3>2 DEF EditLock
  <2>3. CASE d = e /\ (EditCommit(e) \/ EditAbort(e))
    <3>1. edit'[d].pc = "done"
      BY <2>3 DEF EditCommit, EditAbort, IInv, TypeOK, EditType
    <3> QED BY <3>1
  <2> QED BY <1>2, <2>1, <2>2, <2>3 DEF EditStep
<1>3. ASSUME NEW s \in Sources, RunStep(s) \/ RunFail(s) \/ DiscardCleanup(s) PROVE edit' = edit
  BY <1>3 DEF RunStep, RunStart, RunLoad, RunNoFacts, RunAdmit, RunStore, RunWantLock, RunGetLock,
              RunLockMissing, RunCommit, RunFail, RollBackRun, DiscardCleanup
<1>4. ASSUME NEW m \in Mem, EmbedStep(m) \/ RejectUncertain(m) PROVE edit' = edit
  BY <1>4 DEF EmbedStep, EmbedHold, EmbedWrite, EmbedEnd, RejectUncertain
<1>5. ASSUME NEW r \in Receipts, NEW s \in Sources, SagaLockSource(r, s) PROVE edit' = edit
  BY <1>5 DEF SagaLockSource, Rest
<1>6. ASSUME NEW r \in Receipts, SagaStep(r) \/ SagaAbort(r) PROVE edit' = edit
  BY <1>6 DEF SagaStep, SagaCancel, SagaSnapshot, SagaLockMems, SagaNextAttachment, SagaLockFile,
              SagaCommit, SagaAbort, Rest
<1>7. ASSUME NEW r \in Receipts, ExecStep(r) \/ ExecFail(r) PROVE edit' = edit
  BY <1>7 DEF ExecStep, ExecStart, ExecDeletePoints, ExecDeleteObject, ExecConfirm, ExecFail, ExecRest
<1> QED BY <1>1, <1>2, <1>3, <1>4, <1>5, <1>6, <1>7 DEF Next

\* A saga that scans knows the source it is at.
LEMMA SagaLocated ==
    ASSUME IInv, Next, NEW q \in Receipts, saga'[q].pc \in Scanning
    PROVE  saga'[q].cur \in Sources /\ saga'[q].src \in Sources
<1>0. saga \in [Receipts -> SagaType] /\ saga[q] \in SagaType
  BY DEF IInv, TypeOK
<1>1. ASSUME saga'[q] = saga[q]
      PROVE  saga'[q].cur \in Sources /\ saga'[q].src \in Sources
  BY <1>1 DEF IInv, Located
<1>2. ASSUME NEW r \in Receipts, NEW s \in Sources, SagaLockSource(r, s)
      PROVE  saga'[q].cur \in Sources /\ saga'[q].src \in Sources
  <2>1. CASE q # r
    BY <1>0, <1>1, <1>2, <2>1 DEF SagaLockSource
  <2>2. CASE q = r
    <3>1. PICK locks, keys, todo : saga' = [saga EXCEPT ![r] =
              [NoSaga EXCEPT !.pc = "cancel", !.src = s, !.cur = s, !.rowLocks = locks,
                 !.keys = keys, !.todo = todo]]
      BY <1>2 DEF SagaLockSource
    <3>2. saga'[q].cur = s /\ saga'[q].src = s
      BY <1>0, <2>2, <3>1 DEF NoSaga
    <3> QED BY <3>2
  <2> QED BY <2>1, <2>2
<1>3. ASSUME NEW r \in Receipts, SagaStep(r) \/ SagaAbort(r)
      PROVE  saga'[q].cur \in Sources /\ saga'[q].src \in Sources
  <2>1. CASE q # r
    <3>1. saga'[q] = saga[q]
      BY <1>0, <1>3, <2>1 DEF SagaStep, SagaCancel, SagaSnapshot, SagaLockMems, SagaNextAttachment,
                              SagaLockFile, SagaCommit, SagaAbort
    <3> QED BY <1>1, <3>1
  <2>2. CASE q = r /\ (SagaCancel(r) \/ SagaSnapshot(r) \/ SagaLockFile(r) \/ SagaCommit(r))
    <3>1. saga'[q].cur = saga[q].cur /\ saga'[q].src = saga[q].src
      BY <1>0, <2>2 DEF SagaCancel, SagaSnapshot, SagaLockFile, SagaCommit, SagaType
    <3>2. saga[q].pc \in Scanning
      BY <2>2 DEF SagaCancel, SagaSnapshot, SagaLockFile, SagaCommit, Scanning
    <3> QED BY <3>1, <3>2 DEF IInv, Located
  <2>3. CASE q = r /\ SagaNextAttachment(r)
    <3>1. PICK f \in saga[r].todo :
            saga' = [saga EXCEPT ![r].pc = "cancel", ![r].cur = f, ![r].todo = @ \ {f}]
      BY <2>3 DEF SagaNextAttachment
    <3>2. saga'[q].cur = f /\ saga'[q].src = saga[q].src /\ saga[q].pc = "next"
      BY <1>0, <2>3, <3>1 DEF SagaNextAttachment, SagaType
    <3> QED BY <1>0, <2>3, <3>2 DEF IInv, Located, Scanning, SagaType, Sources, RowBacked
  <2>4. ASSUME q = r, saga' = [saga EXCEPT ![r] = [NoSaga EXCEPT !.pc = "refused"]]
        PROVE  FALSE
    <3>1. saga'[q] = [NoSaga EXCEPT !.pc = "refused"]
      BY <1>0, <2>4
    <3>2. saga'[q].pc = "refused"
      BY <3>1 DEF NoSaga
    <3> QED BY <3>2 DEF Scanning
  <2>5. CASE q = r /\ SagaLockMems(r)
    <3>1. ASSUME NEW p \in {"next", "lockfile"},
                 saga' = [saga EXCEPT ![r].ids = @ \cup (saga[r].snap \cap live), ![r].snap = {},
                            ![r].pc = p]
          PROVE  saga'[q].cur = saga[q].cur /\ saga'[q].src = saga[q].src
      BY <1>0, <2>5, <3>1 DEF SagaType
    <3>2. saga'[q].cur = saga[q].cur /\ saga'[q].src = saga[q].src
      BY <2>4, <2>5, <3>1 DEF SagaLockMems
    <3>3. saga[q].pc \in Scanning
      BY <2>5 DEF SagaLockMems, Scanning
    <3> QED BY <3>2, <3>3 DEF IInv, Located
  <2> QED BY <1>3, <2>1, <2>2, <2>3, <2>4, <2>5 DEF SagaStep, SagaAbort
<1>4. ASSUME NEW s \in Sources, RunStep(s) \/ RunFail(s) \/ DiscardCleanup(s) PROVE saga' = saga
  BY <1>4 DEF RunStep, RunStart, RunLoad, RunNoFacts, RunAdmit, RunStore, RunWantLock, RunGetLock,
              RunLockMissing, RunCommit, RunFail, RollBackRun, DiscardCleanup
<1>5. ASSUME NEW e \in Edits, EditStep(e) PROVE saga' = saga
  BY <1>5 DEF EditStep, EditLock, EditCommit, EditAbort
<1>6. ASSUME NEW m \in Mem, EmbedStep(m) \/ RejectUncertain(m) PROVE saga' = saga
  BY <1>6 DEF EmbedStep, EmbedHold, EmbedWrite, EmbedEnd, RejectUncertain
<1>7. ASSUME NEW r \in Receipts, ExecStep(r) \/ ExecFail(r)
      PROVE  saga'[q].cur \in Sources /\ saga'[q].src \in Sources
  <2>1. CASE ExecConfirm(r)
    <3>1. CASE q = r
      BY <1>0, <2>1, <3>1 DEF ExecConfirm, SagaType, Scanning
    <3>2. CASE q # r
      BY <1>0, <1>1, <2>1, <3>2 DEF ExecConfirm
    <3> QED BY <3>1, <3>2
  <2>2. CASE saga' = saga
    BY <1>1, <2>2
  <2> QED BY <1>7, <2>1, <2>2 DEF ExecStep, ExecStart, ExecDeletePoints, ExecDeleteObject, ExecFail
<1> QED BY <1>1, <1>2, <1>3, <1>4, <1>5, <1>6, <1>7 DEF Next

LEMMA NextIInv == IInv /\ [Next]_vars => IInv'
<1> SUFFICES ASSUME IInv, [Next]_vars PROVE IInv'
  OBVIOUS
<1>1. CASE Next
  <2>1. TypeOK'
    BY <1>1, RunTypeOK, EditTypeOK, EmbedTypeOK, SagaTypeOK, ExecTypeOK DEF Next, IInv
  <2>2. Located'
    BY <1>1, EditLocated, SagaLocated DEF Located
  <2>3. Held'
    BY <1>1, RunKeepsHeld, EditKeepsHeld, EmbedKeepsHeld, SagaKeepsHeld, ExecKeepsHeld DEF Next
  <2> QED BY <2>1, <2>2, <2>3 DEF IInv
<1>2. CASE UNCHANGED vars
  BY <1>2 DEF vars, IInv, TypeOK, Located, Held, Minted, RunFresh, EmbedHolds, ReceiptedGone,
              ExecProgress, ObjectsErased
<1> QED BY <1>1, <1>2

LEMMA Inductive == Spec => []IInv
BY InitIInv, NextIInv, PTL DEF Spec

\* Every reachable state is well typed.
THEOREM TypeCorrect == Spec => []TypeOK
<1>1. IInv => TypeOK
  BY DEF IInv
<1> QED BY <1>1, Inductive, PTL

-----------------------------------------------------------------------------
(* What keeps an erased source erased: the second invariant.  A saga that  *)
(* scans holds its source against the checkpoint, or, for an upload without *)
(* a row, its run lock; so what it has listed is all that no edit wrote.    *)

\* What a receipt of the source must list: no edit wrote it.
Left(s) == {m \in live : prov[m] = s /\ ~EditMade(m)}

\* The checkpoint and the idempotency key, as a run of s sees them.
RunFenced(s) ==
    /\ row[s] => s \in RowBacked
    /\ run[s].pc # "idle" => ~key[s]
    /\ run[s].ids # {} => run[s].pc \in {"stored", "merging"}
    /\ s \in RowBacked /\ run[s].pc \in Admitting => row[s] /\ ~ForUpdate(s)
    /\ Left(s) # {} => key[s]

\* What a saga holds: rows that are there, nobody else's, and idle runs.
LocksHeld(r) ==
    /\ saga[r].pc \notin Scanning => saga[r].rowLocks = {} /\ saga[r].runLocks = {}
    /\ \A s \in saga[r].rowLocks :
          row[s] /\ \A q \in Receipts : s \in saga[q].rowLocks => q = r
    /\ \A s \in saga[r].runLocks : run[s].pc = "idle"

\* The source of a saga is fenced off, and every row it will delete has its
\* object on the receipt.
ScanFenced(r) ==
    /\ saga[r].pc \in Scanning =>
         /\ saga[r].src \in RowBacked => saga[r].src \in saga[r].rowLocks \/ ~row[saga[r].src]
         /\ saga[r].src \in Discards =>
              \/ saga[r].src \in saga[r].runLocks
              \/ saga[r].pc = "cancel" /\ saga[r].cur = saga[r].src
         /\ saga[r].keys \subseteq saga[r].rowLocks
         /\ \A s \in saga[r].rowLocks :
               s # saga[r].src \/ s \in Emails \cup Files => s \in saga[r].keys
         /\ saga[r].todo # {} => saga[r].src \in Emails
         /\ saga[r].pc = "lockfile" => saga[r].cur # saga[r].src
    /\ saga[r].pc \in Receipted /\ saga[r].src \in Discards => key[saga[r].src]

\* The snapshot of the source, then the list, is complete; attachments come after.
Enumerated(r) ==
    /\ saga[r].pc = "lockmems" /\ saga[r].cur = saga[r].src =>
         Left(saga[r].src) \subseteq saga[r].snap
    /\ saga[r].pc \in Scanning /\ (saga[r].pc = "next" \/ saga[r].cur # saga[r].src) =>
         Left(saga[r].src) \subseteq saga[r].ids

\* Erased with its email: a receipt of another source lists its object.
Listed(s) == \E r \in Receipts :
    saga[r].pc \in Receipted /\ s \in saga[r].keys /\ s # saga[r].src
Buried(s) == Gone(s) => Left(s) = {} \/ Listed(s)

\* A successor is written when its edit ends.
EditsMade == \A e \in Edits : edit[e].pc # "done" => edit[e].new = None

Fenced ==
    /\ \A s \in Sources : RunFenced(s) /\ Buried(s)
    /\ \A r \in Receipts : LocksHeld(r) /\ ScanFenced(r) /\ Enumerated(r)
    /\ EditsMade
    /\ NoBytesOutsideReceipts

LEMMA InitFenced == Init => Fenced
<1> SUFFICES ASSUME Init PROVE Fenced
  OBVIOUS
<1>1. \A s \in Sources : Left(s) = {}
  BY DEF Init, Left
<1>2. \A s \in Sources : RunFenced(s) /\ Buried(s)
  BY <1>1 DEF Init, RunFenced, Buried, NoRun, Admitting
<1>3. \A r \in Receipts : LocksHeld(r) /\ ScanFenced(r) /\ Enumerated(r)
  BY DEF Init, NoSaga, LocksHeld, ScanFenced, Enumerated, Scanning, Receipted
<1>4. EditsMade /\ NoBytesOutsideReceipts
  BY DEF Init, EditsMade, NoBytesOutsideReceipts, RowBacked, Sources
<1> QED BY <1>2, <1>3, <1>4 DEF Fenced

-----------------------------------------------------------------------------
(* What a step can do, actor by actor.                                      *)

RunAct(s)  == RunStep(s) \/ RunFail(s) \/ DiscardCleanup(s)
MemAct(m)  == EmbedStep(m) \/ RejectUncertain(m)
SagaAct(r) == (\E s \in Sources : SagaLockSource(r, s)) \/ SagaStep(r) \/ SagaAbort(r)
ExecAct(r) == ExecStep(r) \/ ExecFail(r)

LEMMA Acts ==
    Next => \/ \E s \in Sources : RunAct(s)
            \/ \E e \in Edits : EditStep(e)
            \/ \E m \in Mem : MemAct(m)
            \/ \E r \in Receipts : SagaAct(r)
            \/ \E r \in Receipts : ExecAct(r)
BY DEF Next, RunAct, MemAct, SagaAct, ExecAct

\* A run of t touches its own record and key, and no row, saga, edit or executor.
LEMMA RunFrame ==
    ASSUME IInv, NEW t \in Sources, RunAct(t)
    PROVE  /\ UNCHANGED <<row, saga, edit, exec>>
           /\ objs' \subseteq objs
           /\ \A s \in Sources \ {t} : run'[s] = run[s] /\ key'[s] = key[s]
<1>1. UNCHANGED <<row, saga, edit, exec>> /\ objs' \subseteq objs
  BY DEF RunAct, RunStep, RunStart, RunLoad, RunNoFacts, RunAdmit, RunStore, RunWantLock, RunGetLock,
         RunLockMissing, RunCommit, RunFail, RollBackRun, DiscardCleanup
<1>2. run \in [Sources -> RunType] /\ key \in [Sources -> BOOLEAN]
  BY DEF IInv, TypeOK
<1>3. CASE RunStart(t) \/ RunStore(t) \/ RunWantLock(t) \/ RunGetLock(t) \/ RollBackRun(t) \/ DiscardCleanup(t)
  BY <1>1, <1>2, <1>3 DEF RunStart, RunStore, RunWantLock, RunGetLock, RollBackRun, DiscardCleanup
<1>4. CASE RunLoad(t) \/ RunNoFacts(t) \/ RunAdmit(t) \/ RunCommit(t)
  BY <1>1, <1>2, <1>4 DEF RunLoad, RunNoFacts, RunAdmit, RunCommit, CommitRun
<1> QED BY <1>3, <1>4 DEF RunAct, RunStep, RunLockMissing, RunFail

\* Where the step takes the record of t.
LEMMA RunMoves ==
    ASSUME IInv, NEW t \in Sources, RunAct(t)
    PROVE  \/ run'[t] = run[t] /\ key'[t] = key[t]
           \/ run'[t].pc = "idle" /\ run'[t].ids = {} /\ (key[t] => key'[t])
           \/ /\ key'[t] = key[t]
              /\ \/ /\ run'[t].pc = "claimed" /\ run'[t].ids = run[t].ids
                    /\ run[t].pc = "idle" /\ ~key[t] /\ ~RunLocked(t)
                 \/ /\ run'[t].pc = "loaded" /\ run'[t].ids = run[t].ids
                    /\ run[t].pc = "claimed"
                 \/ /\ run'[t].pc = "admitted" /\ run'[t].ids = run[t].ids
                    /\ run[t].pc = "loaded"
                    /\ t \in RowBacked => row[t] /\ ~ForUpdate(t)
                 \/ run'[t].pc \in {"stored", "merging"} /\ run[t].pc \in Admitting
<1>1. run \in [Sources -> RunType] /\ key \in [Sources -> BOOLEAN]
  BY DEF IInv, TypeOK
<1>2. ASSUME CommitRun(t) PROVE run'[t].pc = "idle" /\ run'[t].ids = {} /\ key'[t]
  BY <1>1, <1>2 DEF CommitRun, NoRun
<1>3. ASSUME RollBackRun(t) PROVE run'[t].pc = "idle" /\ run'[t].ids = {} /\ key'[t] = key[t]
  BY <1>1, <1>3 DEF RollBackRun, NoRun
<1>4. CASE RunStart(t)
  BY <1>1, <1>4 DEF RunStart, RunType
<1>5. CASE RunLoad(t)
  <2>1. CASE Loadable(t)
    BY <1>1, <1>5, <2>1 DEF RunLoad, RunType
  <2>2. CASE ~Loadable(t)
    BY <1>2, <1>5, <2>2 DEF RunLoad
  <2> QED BY <2>1, <2>2
<1>6. CASE RunNoFacts(t) \/ RunCommit(t)
  BY <1>2, <1>6 DEF RunNoFacts, RunCommit
<1>7. CASE RunAdmit(t)
  <2>1. CASE t \in RowBacked => row[t]
    BY <1>1, <1>7, <2>1 DEF RunAdmit, RunType
  <2>2. CASE ~(t \in RowBacked => row[t])
    BY <1>2, <1>7, <2>2 DEF RunAdmit
  <2> QED BY <2>1, <2>2
<1>8. CASE RunStore(t) \/ RunWantLock(t) \/ RunGetLock(t)
  BY <1>1, <1>8 DEF RunStore, RunWantLock, RunGetLock, RunType, Admitting
<1>9. CASE RunLockMissing(t) \/ RunFail(t)
  BY <1>3, <1>9 DEF RunLockMissing, RunFail
<1>10. CASE DiscardCleanup(t)
  BY <1>10 DEF DiscardCleanup
<1> QED BY <1>4, <1>5, <1>6, <1>7, <1>8, <1>9, <1>10 DEF RunAct, RunStep

\* Everything a saga leaves alone, and what only its commit changes.
LEMMA SagaFrame ==
    ASSUME IInv, NEW r \in Receipts, SagaAct(r)
    PROVE  /\ UNCHANGED <<run, prov, objs, edit>>
           /\ \A q \in Receipts \ {r} : saga'[q] = saga[q]
           /\ SagaCommit(r) \/ UNCHANGED <<row, key, live, exec>>
<1>1. saga \in [Receipts -> SagaType]
  BY DEF IInv, TypeOK
<1>2. ASSUME NEW s \in Sources, SagaLockSource(r, s)
      PROVE  \A q \in Receipts \ {r} : saga'[q] = saga[q]
  BY <1>1, <1>2 DEF SagaLockSource
<1>3. CASE SagaCancel(r) \/ SagaSnapshot(r) \/ SagaLockMems(r) \/ SagaNextAttachment(r)
  BY <1>1, <1>3 DEF SagaCancel, SagaSnapshot, SagaLockMems, SagaNextAttachment, Rest
<1>4. CASE SagaLockFile(r) \/ SagaCommit(r) \/ SagaAbort(r)
  BY <1>1, <1>4 DEF SagaLockFile, SagaCommit, SagaAbort, Rest
<1>5. ASSUME NEW s \in Sources, SagaLockSource(r, s)
      PROVE  UNCHANGED <<run, prov, objs, edit, row, key, live, exec>>
  BY <1>5 DEF SagaLockSource, Rest
<1> QED BY <1>2, <1>3, <1>4, <1>5 DEF SagaAct, SagaStep

\* The fields each step of a saga sets.
LEMMA StartFields ==
    ASSUME IInv, NEW r \in Receipts, NEW s \in Sources, SagaLockSource(r, s)
    PROVE  /\ saga[r].pc = "idle" /\ ~ForUpdate(s) /\ ~KeyShare(s)
           /\ saga'[r].pc = "cancel" /\ saga'[r].src = s /\ saga'[r].cur = s
           /\ row[s] => saga'[r].rowLocks = {s}
           /\ ~row[s] => saga'[r].rowLocks = {}
           /\ saga'[r].runLocks = {}
           /\ row[s] /\ s \in Emails \cup Files => saga'[r].keys = {s}
           /\ ~(row[s] /\ s \in Emails \cup Files) => saga'[r].keys = {}
           /\ saga'[r].todo # {} => s \in Emails
           /\ saga'[r].ids = {}
BY DEF SagaLockSource, NoSaga, IInv, TypeOK

LEMMA CancelFields ==
    ASSUME IInv, NEW r \in Receipts, SagaCancel(r)
    PROVE  /\ saga[r].pc = "cancel" /\ saga'[r].pc = "snapshot"
           /\ WaitForRun(r) => ~RunLocked(saga[r].cur)
           /\ RunLocked(saga[r].cur) => saga'[r].runLocks = saga[r].runLocks
           /\ ~RunLocked(saga[r].cur) => saga'[r].runLocks = saga[r].runLocks \cup {saga[r].cur}
           /\ UNCHANGED <<saga[r].src, saga[r].cur, saga[r].ids, saga[r].todo, saga[r].rowLocks, saga[r].keys>>
BY DEF SagaCancel, IInv, TypeOK, SagaType

LEMMA SnapshotFields ==
    ASSUME IInv, NEW r \in Receipts, SagaSnapshot(r)
    PROVE  /\ saga[r].pc = "snapshot" /\ saga'[r].pc = "lockmems"
           /\ saga'[r].snap = Derived(saga[r].cur)
           /\ UNCHANGED <<saga[r].src, saga[r].cur, saga[r].ids, saga[r].todo, saga[r].rowLocks,
                          saga[r].runLocks, saga[r].keys>>
BY DEF SagaSnapshot, IInv, TypeOK, SagaType

LEMMA RefusedFields ==
    ASSUME IInv, NEW r \in Receipts, saga' = [saga EXCEPT ![r] = [NoSaga EXCEPT !.pc = "refused"]]
    PROVE  saga'[r].pc = "refused" /\ saga'[r].rowLocks = {} /\ saga'[r].runLocks = {}
BY DEF NoSaga, IInv, TypeOK

LEMMA LockMemsFields ==
    ASSUME IInv, NEW r \in Receipts, SagaLockMems(r)
    PROVE  /\ saga[r].pc = "lockmems"
           /\ \/ saga' = [saga EXCEPT ![r] = [NoSaga EXCEPT !.pc = "refused"]]
              \/ /\ saga'[r].ids = saga[r].ids \cup (saga[r].snap \cap live)
                 /\ saga'[r].pc = IF saga[r].cur = saga[r].src THEN "next" ELSE "lockfile"
                 /\ UNCHANGED <<saga[r].src, saga[r].cur, saga[r].todo, saga[r].rowLocks,
                                saga[r].runLocks, saga[r].keys>>
BY DEF SagaLockMems, IInv, TypeOK, SagaType

LEMMA NextFields ==
    ASSUME IInv, NEW r \in Receipts, SagaNextAttachment(r)
    PROVE  /\ saga[r].pc = "next" /\ saga'[r].pc = "cancel"
           /\ saga'[r].cur \in saga[r].todo /\ saga'[r].todo \subseteq saga[r].todo
           /\ UNCHANGED <<saga[r].src, saga[r].ids, saga[r].rowLocks, saga[r].runLocks, saga[r].keys>>
BY DEF SagaNextAttachment, IInv, TypeOK, SagaType

LEMMA LockFileFields ==
    ASSUME IInv, NEW r \in Receipts, SagaLockFile(r)
    PROVE  /\ saga[r].pc = "lockfile" /\ saga'[r].pc = "next"
           /\ ~ForUpdate(saga[r].cur) /\ ~KeyShare(saga[r].cur)
           /\ row[saga[r].cur] => /\ saga'[r].rowLocks = saga[r].rowLocks \cup {saga[r].cur}
                                  /\ saga'[r].keys = saga[r].keys \cup {saga[r].cur}
           /\ ~row[saga[r].cur] => UNCHANGED <<saga[r].rowLocks, saga[r].keys>>
           /\ UNCHANGED <<saga[r].src, saga[r].cur, saga[r].ids, saga[r].todo, saga[r].runLocks>>
BY DEF SagaLockFile, IInv, TypeOK, SagaType

LEMMA CommitFields ==
    ASSUME IInv, NEW r \in Receipts, SagaCommit(r)
    PROVE  /\ saga[r].pc = "next" /\ saga'[r].pc = "pending"
           /\ saga'[r].rowLocks = {} /\ saga'[r].runLocks = {}
           /\ UNCHANGED <<saga[r].src, saga[r].ids, saga[r].keys>>
           /\ live' = live \ saga[r].ids
           /\ \A s \in Sources : row'[s] = (row[s] /\ s \notin saga[r].rowLocks)
           /\ \A s \in Sources : key'[s] = (key[s] \/ s \in saga[r].runLocks)
BY DEF SagaCommit, IInv, TypeOK, SagaType

\* The executor moves a receipt from pending to confirmed and touches objects.
LEMMA ExecFrame ==
    ASSUME IInv, NEW r \in Receipts, ExecAct(r)
    PROVE  /\ UNCHANGED <<row, run, key, prov, live, edit>>
           /\ objs' \subseteq objs
           /\ saga' = saga \/ ExecConfirm(r)
BY DEF ExecAct, ExecStep, ExecStart, ExecDeletePoints, ExecDeleteObject, ExecConfirm, ExecFail, ExecRest

LEMMA ConfirmFields ==
    ASSUME IInv, NEW r \in Receipts, ExecConfirm(r)
    PROVE  /\ saga[r].pc \in Receipted /\ saga'[r].pc = "confirmed" /\ saga[r].keys \cap objs = {}
           /\ UNCHANGED <<saga[r].src, saga[r].ids, saga[r].keys, saga[r].rowLocks, saga[r].runLocks>>
           /\ \A q \in Receipts \ {r} : saga'[q] = saga[q]
<1>1. saga[r].pc \in Receipted /\ saga[r].keys \cap objs = {}
  BY DEF ExecConfirm, IInv, Held, ExecProgress
<1>2. saga \in [Receipts -> SagaType] /\ saga' = [saga EXCEPT ![r].pc = "confirmed"]
  BY DEF ExecConfirm, IInv, TypeOK
<1>3. /\ saga'[r].pc = "confirmed"
      /\ UNCHANGED <<saga[r].src, saga[r].ids, saga[r].keys, saga[r].rowLocks, saga[r].runLocks>>
  BY <1>2 DEF SagaType
<1> QED BY <1>1, <1>2, <1>3

LEMMA MemFrame ==
    ASSUME NEW m \in Mem, MemAct(m)
    PROVE  UNCHANGED <<row, run, key, prov, saga, edit, exec, objs>> /\ live' \subseteq live
BY DEF MemAct, EmbedStep, EmbedHold, EmbedWrite, EmbedEnd, RejectUncertain

LEMMA EditFrame ==
    ASSUME NEW e \in Edits, EditStep(e)
    PROVE  UNCHANGED <<row, run, key, saga, exec, objs>>
BY DEF EditStep, EditLock, EditCommit, EditAbort

-----------------------------------------------------------------------------
(* The vector store.  It is outside every transaction: IInv says nothing of *)
(* it, so that it also holds when the index is lost and rebuilt.            *)

\* What an executor has deleted, or a receipt confirms, has no point.
IndexErased == \A r \in Receipts : exec[r].pc = "objects" \/ saga[r].pc = "confirmed" =>
                  saga[r].ids \cap points = {}

\* A point is written for a fresh id, by a run, or for a row an embed job holds.
LEMMA PointWritten ==
    ASSUME IInv, Next, NEW m \in points', m \notin points
    PROVE  m \in live \/ (m \in Unminted /\ prov'[m] # None)
<1>1. ASSUME NEW t \in Sources, RunAct(t) PROVE m \in Unminted /\ prov'[m] # None
  <2>1. RunStore(t)
    BY <1>1 DEF RunAct, RunStep, RunStart, RunLoad, RunNoFacts, RunAdmit, RunStore, RunWantLock,
         RunGetLock, RunLockMissing, RunCommit, RunFail, RollBackRun, DiscardCleanup
  <2> QED BY <2>1 DEF RunStore, Unminted
<1>2. ASSUME NEW e \in Edits, EditStep(e) PROVE FALSE
  BY <1>2 DEF EditStep, EditLock, EditCommit, EditAbort
<1>3. ASSUME NEW n \in Mem, MemAct(n) PROVE m \in live
  BY <1>3 DEF MemAct, EmbedStep, EmbedHold, EmbedWrite, EmbedEnd, RejectUncertain, IInv, Held, EmbedHolds
<1>4. ASSUME NEW r \in Receipts, SagaAct(r) PROVE FALSE
  BY <1>4 DEF SagaAct, SagaStep, SagaLockSource, SagaCancel, SagaSnapshot, SagaLockMems,
         SagaNextAttachment, SagaLockFile, SagaCommit, SagaAbort, Rest
<1>5. ASSUME NEW r \in Receipts, ExecAct(r) PROVE FALSE
  BY <1>5 DEF ExecAct, ExecStep, ExecStart, ExecDeletePoints, ExecDeleteObject, ExecConfirm, ExecFail
<1> QED BY <1>1, <1>2, <1>3, <1>4, <1>5, Acts

\* The executor of q gets past its first leg by deleting the points.
LEMMA PointsLeg ==
    ASSUME IInv, Next, NEW q \in Receipts, exec'[q].pc = "objects" \/ saga'[q].pc = "confirmed"
    PROVE  /\ saga[q].pc \in Receipted /\ saga'[q].ids = saga[q].ids
           /\ \/ exec[q].pc = "objects" \/ saga[q].pc = "confirmed"
              \/ saga[q].ids \cap points' = {}
<1>0. /\ exec \in [Receipts -> ExecType] /\ saga \in [Receipts -> SagaType]
      /\ exec[q].pc # "none" => saga[q].pc \in Receipted
  BY DEF IInv, TypeOK, Held, ExecProgress
<1>1. CASE exec'[q].pc = exec[q].pc /\ saga'[q] = saga[q]
  BY <1>0, <1>1 DEF Receipted
<1>2. ASSUME NEW r \in Receipts, SagaAct(r) PROVE exec'[q].pc = exec[q].pc /\ saga'[q] = saga[q]
  <2>1. CASE SagaCommit(r)
    <3>1. q # r
      <4>1. saga'[r].pc = "pending"
        BY <2>1, CommitFields
      <4>2. exec'[r].pc = "queued"
        BY <1>0, <2>1 DEF SagaCommit, ExecType
      <4> QED BY <4>1, <4>2
    <3>2. exec'[q] = exec[q]
      BY <1>0, <2>1, <3>1 DEF SagaCommit
    <3> QED BY <1>2, <3>1, <3>2, SagaFrame
  <2>2. CASE ~SagaCommit(r)
    <3>1. exec' = exec
      BY <1>2, <2>2, SagaFrame
    <3>2. ASSUME q = r PROVE saga'[q].pc # "confirmed" /\ exec[q].pc # "objects"
      <4>1. CASE SagaLockMems(r)
        <5>1. saga'[r].pc \in {"refused", "next", "lockfile"} /\ saga[r].pc = "lockmems"
          BY <4>1, LockMemsFields, RefusedFields
        <5> QED BY <1>0, <3>2, <5>1 DEF Receipted
      <4>2. CASE SagaAbort(r)
        BY <1>0, <3>2, <4>2, RefusedFields DEF SagaAbort, Scanning, Receipted
      <4> QED BY <1>0, <1>2, <2>2, <3>2, <4>1, <4>2, StartFields, CancelFields, SnapshotFields,
                 NextFields, LockFileFields DEF SagaAct, SagaStep, Receipted
    <3> QED BY <1>2, <3>1, <3>2, SagaFrame
  <2> QED BY <2>1, <2>2
<1>3. ASSUME NEW r \in Receipts, ExecAct(r)
      PROVE  /\ saga[q].pc \in Receipted /\ saga'[q].ids = saga[q].ids
             /\ \/ exec[q].pc = "objects" \/ saga[q].pc = "confirmed"
                \/ saga[q].ids \cap points' = {}
  <2>1. CASE q # r
    <3>1. exec'[q] = exec[q]
      BY <1>0, <1>3, <2>1 DEF ExecAct, ExecStep, ExecStart, ExecDeletePoints, ExecDeleteObject,
                              ExecConfirm, ExecFail
    <3> QED BY <1>1, <1>3, <2>1, <3>1, ExecFrame, ConfirmFields
  <2>2. CASE q = r /\ ExecConfirm(r)
    <3>1. exec[q].pc = "objects"
      BY <2>2 DEF ExecConfirm
    <3> QED BY <2>2, <3>1, ConfirmFields
  <2>3. CASE q = r /\ ExecDeletePoints(r)
    BY <1>0, <2>3 DEF ExecDeletePoints
  <2>4. CASE q = r /\ (ExecStart(r) \/ ExecDeleteObject(r) \/ ExecFail(r))
    <3>1. saga' = saga /\ (exec'[q].pc = "objects" => exec[q].pc = "objects")
      BY <1>0, <2>4 DEF ExecStart, ExecDeleteObject, ExecFail, ExecType
    <3> QED BY <1>0, <3>1 DEF Receipted
  <2> QED BY <1>3, <2>1, <2>2, <2>3, <2>4 DEF ExecAct, ExecStep
<1> QED BY <1>1, <1>2, <1>3, RunFrame, EditFrame, MemFrame, Acts

LEMMA NextIndexErased == IInv /\ IndexErased /\ [Next]_vars => IndexErased'
<1> SUFFICES ASSUME IInv, IndexErased, [Next]_vars PROVE IndexErased'
  OBVIOUS
<1>1. CASE Next
  <2> SUFFICES ASSUME NEW q \in Receipts, exec'[q].pc = "objects" \/ saga'[q].pc = "confirmed",
                      NEW m \in saga'[q].ids, m \in points'
               PROVE  FALSE
    BY DEF IndexErased
  <2>1. saga[q].pc \in Receipted /\ m \in saga[q].ids /\ m \notin points
    BY <1>1, PointsLeg DEF IndexErased
  <2>2. m \in Unminted \/ m \in live
    BY <1>1, <2>1, PointWritten
  <2> QED BY <2>1, <2>2 DEF Unminted, IInv, Held, Minted, ReceiptedGone
<1>2. CASE UNCHANGED vars
  BY <1>2 DEF vars, IndexErased
<1> QED BY <1>1, <1>2

\* A confirmed receipt means what it says (DeletionExecutor.execute): for any
\* number of sources, receipts, edits and attempts, no row, point or object it
\* lists is left, and none ever comes back.
THEOREM ConfirmedMeansErased == Spec => []ConfirmedErased
<1>1. Init => IndexErased
  BY DEF Init, IndexErased, NoSaga
<1>2. IInv /\ IndexErased => ConfirmedErased
  BY DEF IInv, Held, ReceiptedGone, ObjectsErased, IndexErased, ConfirmedErased, Receipted
<1> QED BY <1>1, <1>2, InitIInv, NextIInv, NextIndexErased, PTL DEF Spec
-----------------------------------------------------------------------------
(* What is monotone, and where live memories come from.                     *)

LEMMA Monotone ==
    ASSUME IInv, Fenced, Next
    PROVE  /\ \A s \in Sources : (row'[s] => row[s]) /\ (key[s] => key'[s])
           /\ \A m \in Mem : EditMade(m) => EditMade(m)'
<1>1. row \in [Sources -> BOOLEAN] /\ key \in [Sources -> BOOLEAN] /\ edit \in [Edits -> EditType]
  BY DEF IInv, TypeOK
<1>2. \A m \in Mem : m # None
  OBVIOUS
<1>3. ASSUME NEW t \in Sources, RunAct(t)
      PROVE  edit' = edit /\ row' = row /\ \A s \in Sources : key[s] => key'[s]
  <2>1. key[t] => key'[t]
    BY <1>3, RunMoves DEF Fenced
  <2> QED BY <1>3, <2>1, RunFrame
<1>4. ASSUME NEW e \in Edits, EditStep(e)
      PROVE  row' = row /\ key' = key /\ \A m \in Mem : EditMade(m) => EditMade(m)'
  <2>1. edit[e].pc # "done" => edit[e].new = None
    BY DEF Fenced, EditsMade
  <2>2. \A d \in Edits : edit[d].new # None => edit'[d].new = edit[d].new
    BY <1>1, <1>4, <2>1 DEF EditStep, EditLock, EditCommit, EditAbort, EditType
  <2> QED BY <1>2, <1>4, <2>2, EditFrame DEF EditMade
<1>5. ASSUME NEW m \in Mem, MemAct(m) PROVE UNCHANGED <<row, key, edit>>
  BY <1>5, MemFrame
<1>6. ASSUME NEW r \in Receipts, SagaAct(r)
      PROVE  edit' = edit /\ \A s \in Sources : (row'[s] => row[s]) /\ (key[s] => key'[s])
  BY <1>6, SagaFrame, CommitFields
<1>7. ASSUME NEW r \in Receipts, ExecAct(r) PROVE UNCHANGED <<row, key, edit>>
  BY <1>7, ExecFrame
<1> QED BY <1>3, <1>4, <1>5, <1>6, <1>7, Acts DEF EditMade

\* A memory comes alive with the commit of the run that minted it, or of an edit.
LEMMA NewLive ==
    ASSUME IInv, Fenced, Next, NEW m \in live', m \notin live
    PROVE  \/ EditMade(m)'
           \/ \E t \in Sources : m \in run[t].ids /\ CommitRun(t) /\ prov' = prov
<1>1. ASSUME NEW t \in Sources, RunAct(t)
      PROVE  m \in run[t].ids /\ CommitRun(t) /\ prov' = prov
  BY <1>1 DEF RunAct, RunStep, RunStart, RunLoad, RunNoFacts, RunAdmit, RunStore, RunWantLock, RunGetLock,
         RunLockMissing, RunCommit, RunFail, RollBackRun, DiscardCleanup, CommitRun
<1>2. ASSUME NEW e \in Edits, EditStep(e) PROVE EditMade(m)'
  <2>1. EditCommit(e)
    BY <1>2 DEF EditStep, EditLock, EditAbort
  <2>2. edit'[e].new = m
    BY <2>1 DEF EditCommit, IInv, TypeOK, EditType
  <2> QED BY <2>2 DEF EditMade
<1>3. ASSUME NEW n \in Mem, MemAct(n) PROVE FALSE
  BY <1>3, MemFrame
<1>4. ASSUME NEW r \in Receipts, SagaAct(r) PROVE FALSE
  BY <1>4, SagaFrame, CommitFields
<1>5. ASSUME NEW r \in Receipts, ExecAct(r) PROVE FALSE
  BY <1>5, ExecFrame
<1> QED BY <1>1, <1>2, <1>3, <1>4, <1>5, Acts

\* Nothing joins what a receipt of s must list but the commit of a run of s.
LEMMA LeftStep ==
    ASSUME IInv, Fenced, Next, NEW s \in Sources
    PROVE  Left(s)' \subseteq Left(s) \/ (run[s].pc \in {"stored", "merging"} /\ CommitRun(s))
<1> SUFFICES ASSUME NEW m \in Left(s)', m \notin Left(s)
             PROVE  run[s].pc \in {"stored", "merging"} /\ CommitRun(s)
  OBVIOUS
<1>1. m \in live' /\ prov'[m] = s /\ ~EditMade(m)'
  BY DEF Left
<1>2. m \notin live
  <2>1. m \in live => prov[m] # None /\ m \in Mem
    BY DEF IInv, TypeOK, Held, Minted
  <2>2. m \in live => prov'[m] = prov[m] /\ ~EditMade(m)
    BY <1>1, <2>1, ProvKept, Monotone
  <2> QED BY <1>1, <2>2 DEF Left
<1>3. PICK t \in Sources : m \in run[t].ids /\ CommitRun(t) /\ prov' = prov
  BY <1>1, <1>2, NewLive
<1>4. t = s
  BY <1>1, <1>3 DEF IInv, Held, RunFresh
<1> QED BY <1>3, <1>4 DEF Fenced, RunFenced

-----------------------------------------------------------------------------
(* The second invariant is preserved.                                       *)

\* A commit of a run consumes its key: what must be listed has one.
LEMMA LeftKeyed ==
    ASSUME IInv, Fenced, Next, NEW s \in Sources, Left(s)' # {}
    PROVE  key'[s]
<1>1. CASE Left(s)' \subseteq Left(s)
  BY <1>1, Monotone DEF Fenced, RunFenced
<1>2. CASE CommitRun(s)
  BY <1>2 DEF CommitRun, IInv, TypeOK
<1> QED BY <1>1, <1>2, LeftStep

\* A saga takes only locks that are free.
LEMMA SagaTakes ==
    ASSUME IInv, NEW r \in Receipts, SagaAct(r), ~SagaCommit(r)
    PROVE  /\ \A s \in saga'[r].rowLocks :
                 s \in saga[r].rowLocks \/ (~ForUpdate(s) /\ ~KeyShare(s) /\ row[s])
           /\ \A s \in saga'[r].runLocks : s \in saga[r].runLocks \/ ~RunLocked(s)
           /\ saga'[r].pc \notin Scanning => saga'[r].rowLocks = {} /\ saga'[r].runLocks = {}
<1>1. ASSUME NEW s \in Sources, SagaLockSource(r, s)
      PROVE  /\ \A x \in saga'[r].rowLocks : ~ForUpdate(x) /\ ~KeyShare(x) /\ row[x]
             /\ saga'[r].runLocks = {} /\ saga'[r].pc \in Scanning
  <2>1. saga'[r].runLocks = {} /\ saga'[r].pc \in Scanning
    BY <1>1, StartFields DEF Scanning
  <2>2. ~ForUpdate(s) /\ ~KeyShare(s) /\ \A x \in saga'[r].rowLocks : x = s /\ row[s]
    BY <1>1, StartFields
  <2> QED BY <2>1, <2>2
<1>2. CASE SagaCancel(r)
  <2>1. saga'[r].rowLocks = saga[r].rowLocks /\ saga'[r].pc \in Scanning
    BY <1>2, CancelFields DEF Scanning
  <2>2. ASSUME NEW s \in saga'[r].runLocks, s \notin saga[r].runLocks
        PROVE  s = saga[r].cur /\ ~RunLocked(saga[r].cur)
    BY <1>2, <2>2, CancelFields
  <2> QED BY <2>1, <2>2
<1>3. CASE SagaSnapshot(r)
  BY <1>3, SnapshotFields DEF Scanning
<1>4. ASSUME saga' = [saga EXCEPT ![r] = [NoSaga EXCEPT !.pc = "refused"]]
      PROVE  saga'[r].rowLocks = {} /\ saga'[r].runLocks = {}
  BY <1>4, RefusedFields
<1>5. CASE SagaLockMems(r)
  <2>1. CASE saga' = [saga EXCEPT ![r] = [NoSaga EXCEPT !.pc = "refused"]]
    BY <1>4, <2>1
  <2>2. CASE saga' # [saga EXCEPT ![r] = [NoSaga EXCEPT !.pc = "refused"]]
    BY <1>5, <2>2, LockMemsFields DEF Scanning
  <2> QED BY <2>1, <2>2
<1>6. CASE SagaNextAttachment(r)
  BY <1>6, NextFields DEF Scanning
<1>7. CASE SagaLockFile(r)
  <2>1. saga'[r].runLocks = saga[r].runLocks /\ saga'[r].pc \in Scanning
    BY <1>7, LockFileFields DEF Scanning
  <2>2. ASSUME NEW s \in saga'[r].rowLocks, s \notin saga[r].rowLocks
        PROVE  /\ s = saga[r].cur /\ row[saga[r].cur]
               /\ ~ForUpdate(saga[r].cur) /\ ~KeyShare(saga[r].cur)
    BY <1>7, <2>2, LockFileFields
  <2> QED BY <2>1, <2>2
<1>8. CASE SagaAbort(r)
  BY <1>4, <1>8 DEF SagaAbort
<1> QED BY <1>1, <1>2, <1>3, <1>5, <1>6, <1>7, <1>8 DEF SagaAct, SagaStep

LEMMA RunFencedNext ==
    ASSUME IInv, Fenced, Next, NEW s \in Sources
    PROVE  RunFenced(s)'
<1>0. RunFenced(s) /\ (row'[s] => row[s])
  BY Monotone DEF Fenced
<1>1. ASSUME UNCHANGED <<row, saga>>, run'[s] = run[s], key'[s] = key[s]
      PROVE  RunFenced(s)'
  BY <1>0, <1>1, LeftKeyed DEF RunFenced, ForUpdate
<1>2. ASSUME NEW t \in Sources, RunAct(t) PROVE RunFenced(s)'
  <2>1. CASE s # t
    BY <1>1, <1>2, <2>1, RunFrame
  <2>2. CASE s = t
    <3>1. UNCHANGED <<row, saga>>
      BY <1>2, RunFrame
    <3>2. CASE run'[t] = run[t] /\ key'[t] = key[t]
      BY <1>1, <2>2, <3>1, <3>2
    <3>3. CASE run'[t].pc = "idle" /\ run'[t].ids = {}
      BY <1>0, <2>2, <3>1, <3>3, LeftKeyed DEF RunFenced, Admitting
    <3>4. CASE key'[t] = key[t] /\ run'[t].pc \in {"claimed", "loaded"}
      BY <1>0, <1>2, <2>2, <3>1, <3>4, LeftKeyed, RunMoves DEF RunFenced, Admitting
    <3>5. CASE key'[t] = key[t] /\ run'[t].pc = "admitted"
      BY <1>0, <1>2, <2>2, <3>1, <3>5, LeftKeyed, RunMoves DEF RunFenced, Admitting, ForUpdate
    <3>6. CASE key'[t] = key[t] /\ run'[t].pc \in {"stored", "merging"} /\ run[t].pc \in Admitting
      BY <1>0, <2>2, <3>1, <3>6, LeftKeyed DEF RunFenced, Admitting, ForUpdate
    <3> QED BY <1>2, <3>2, <3>3, <3>4, <3>5, <3>6, RunMoves
  <2> QED BY <2>1, <2>2
<1>3. ASSUME NEW e \in Edits, EditStep(e) PROVE RunFenced(s)'
  BY <1>1, <1>3, EditFrame
<1>4. ASSUME NEW m \in Mem, MemAct(m) PROVE RunFenced(s)'
  BY <1>1, <1>4, MemFrame
<1>5. ASSUME NEW r \in Receipts, SagaAct(r) PROVE RunFenced(s)'
  <2>1. run' = run /\ \A q \in Receipts \ {r} : saga'[q] = saga[q]
    BY <1>5, SagaFrame
  <2>2. CASE SagaCommit(r)
    <3>1. s \in saga[r].runLocks => run[s].pc = "idle"
      BY DEF Fenced, LocksHeld
    <3>2. s \in RowBacked /\ run[s].pc \in Admitting => row'[s] /\ ~ForUpdate(s)'
      <4>1. saga'[r].rowLocks = {}
        BY <2>2, CommitFields
      <4> QED BY <1>0, <2>1, <2>2, <4>1, CommitFields DEF RunFenced, ForUpdate
    <3> QED BY <1>0, <2>1, <2>2, <3>1, <3>2, CommitFields, LeftKeyed DEF RunFenced
  <2>3. CASE ~SagaCommit(r)
    <3>1. UNCHANGED <<row, key>>
      BY <1>5, <2>3, SagaFrame
    <3>2. s \in saga'[r].rowLocks => s \in saga[r].rowLocks \/ ~KeyShare(s)
      BY <1>5, <2>3, SagaTakes
    <3>3. s \in RowBacked /\ run[s].pc \in Admitting => ~ForUpdate(s)'
      BY <1>0, <2>1, <3>2 DEF RunFenced, ForUpdate, KeyShare
    <3> QED BY <1>0, <2>1, <3>1, <3>3, LeftKeyed DEF RunFenced
  <2> QED BY <2>2, <2>3
<1>6. ASSUME NEW r \in Receipts, ExecAct(r) PROVE RunFenced(s)'
  <2>1. UNCHANGED <<row, run, key>>
    BY <1>6, ExecFrame
  <2>2. ForUpdate(s)' => ForUpdate(s)
    BY <1>6, ExecFrame, ConfirmFields DEF ForUpdate
  <2> QED BY <1>0, <2>1, <2>2, LeftKeyed DEF RunFenced
<1> QED BY <1>2, <1>3, <1>4, <1>5, <1>6, Acts

LEMMA LocksHeldNext ==
    ASSUME IInv, Fenced, Next
    PROVE  \A q \in Receipts : LocksHeld(q)'
<1>0. \A q \in Receipts : LocksHeld(q)
  BY DEF Fenced
<1>1. ASSUME UNCHANGED <<row, saga>>,
             \A s \in Sources : run'[s].pc = run[s].pc \/ run'[s].pc = "idle" \/ ~RunLocked(s)
                                  \/ run[s].pc # "idle"
      PROVE  \A q \in Receipts : LocksHeld(q)'
  <2> SUFFICES ASSUME NEW q \in Receipts PROVE LocksHeld(q)'
    OBVIOUS
  <2>1. saga[q].runLocks \subseteq Sources
    BY DEF IInv, TypeOK, SagaType
  <2>2. \A s \in saga[q].runLocks : run'[s].pc = "idle"
    BY <1>0, <1>1, <2>1 DEF LocksHeld, RunLocked
  <2> QED BY <1>0, <1>1, <2>2 DEF LocksHeld
<1>2. ASSUME NEW t \in Sources, RunAct(t) PROVE \A q \in Receipts : LocksHeld(q)'
  <2>1. run[t].pc # "idle" \/ run'[t].pc = run[t].pc \/ run'[t].pc = "idle" \/ ~RunLocked(t)
    BY <1>2, RunMoves DEF Admitting
  <2> QED BY <1>1, <1>2, <2>1, RunFrame
<1>3. ASSUME NEW e \in Edits, EditStep(e) PROVE \A q \in Receipts : LocksHeld(q)'
  BY <1>1, <1>3, EditFrame
<1>4. ASSUME NEW m \in Mem, MemAct(m) PROVE \A q \in Receipts : LocksHeld(q)'
  BY <1>1, <1>4, MemFrame
<1>5. ASSUME NEW r \in Receipts, SagaAct(r) PROVE \A q \in Receipts : LocksHeld(q)'
  <2>0. run' = run /\ \A q \in Receipts \ {r} : saga'[q] = saga[q]
    BY <1>5, SagaFrame
  <2>00. \A q \in Receipts : saga[q].rowLocks \subseteq Sources
    BY DEF IInv, TypeOK, SagaType
  <2>1. CASE SagaCommit(r)
    <3>1. LocksHeld(r)'
      BY <2>1, CommitFields DEF LocksHeld
    <3>2. ASSUME NEW q \in Receipts \ {r} PROVE LocksHeld(q)'
      <4>1. \A s \in saga[q].rowLocks : row'[s]
        BY <1>0, <2>00, <2>1, <3>2, CommitFields DEF LocksHeld
      <4>2. saga'[r].rowLocks = {}
        BY <2>1, CommitFields
      <4> QED BY <1>0, <2>0, <3>2, <4>1, <4>2 DEF LocksHeld
    <3> QED BY <3>1, <3>2
  <2>2. CASE ~SagaCommit(r)
    <3>0. row' = row
      BY <1>5, <2>2, SagaFrame
    <3>1. \A s \in saga'[r].rowLocks : s \in saga[r].rowLocks \/ (~ForUpdate(s) /\ row[s])
      BY <1>5, <2>2, SagaTakes
    <3>2. \A s \in saga'[r].runLocks : s \in saga[r].runLocks \/ ~RunLocked(s)
      BY <1>5, <2>2, SagaTakes
    <3>3. saga'[r].pc \notin Scanning => saga'[r].rowLocks = {} /\ saga'[r].runLocks = {}
      BY <1>5, <2>2, SagaTakes
    <3>4. \A s \in saga'[r].rowLocks : \A q \in Receipts \ {r} : s \notin saga[q].rowLocks
      BY <1>0, <3>1 DEF LocksHeld, ForUpdate
    <3>5. LocksHeld(r)'
      BY <1>0, <2>0, <3>0, <3>1, <3>2, <3>3, <3>4 DEF LocksHeld, RunLocked
    <3>6. ASSUME NEW q \in Receipts \ {r} PROVE LocksHeld(q)'
      BY <1>0, <2>0, <3>0, <3>4, <3>6 DEF LocksHeld
    <3> QED BY <3>5, <3>6
  <2> QED BY <2>1, <2>2
<1>6. ASSUME NEW r \in Receipts, ExecAct(r) PROVE \A q \in Receipts : LocksHeld(q)'
  <2>1. UNCHANGED <<row, run>>
    BY <1>6, ExecFrame
  <2>2. CASE saga' = saga
    BY <1>0, <2>1, <2>2 DEF LocksHeld
  <2>3. CASE ExecConfirm(r)
    <3>1. saga[r].pc \notin Scanning /\ saga'[r].pc \notin Scanning
      BY <2>3, ConfirmFields DEF Scanning, Receipted
    <3> QED BY <1>0, <2>1, <2>3, <3>1, ConfirmFields DEF LocksHeld
  <2> QED BY <1>6, <2>2, <2>3, ExecFrame
<1> QED BY <1>2, <1>3, <1>4, <1>5, <1>6, Acts

\* A receipt that is written stays, with the source and the objects it names.
LEMMA ReceiptKept ==
    ASSUME IInv, Next, NEW r \in Receipts, saga[r].pc \in Receipted
    PROVE  /\ saga'[r].pc \in Receipted /\ UNCHANGED <<saga[r].src, saga[r].keys>>
           /\ saga'[r].pc = saga[r].pc \/ saga[r].keys \cap objs = {}
<1>1. ASSUME NEW q \in Receipts, SagaAct(q) PROVE saga'[r] = saga[r]
  <2>1. q # r
    BY <1>1, StartFields, CancelFields, SnapshotFields, LockMemsFields, NextFields, LockFileFields,
       CommitFields DEF SagaAct, SagaStep, SagaAbort, Scanning, Receipted
  <2> QED BY <1>1, <2>1, SagaFrame
<1>2. ASSUME NEW q \in Receipts, ExecAct(q)
      PROVE  /\ saga'[r].pc \in Receipted /\ UNCHANGED <<saga[r].src, saga[r].keys>>
             /\ saga'[r].pc = saga[r].pc \/ saga[r].keys \cap objs = {}
  BY <1>2, ExecFrame, ConfirmFields DEF Receipted
<1> QED BY <1>1, <1>2, RunFrame, EditFrame, MemFrame, Acts

LEMMA ScanFencedNext ==
    ASSUME IInv, Fenced, Next, NEW q \in Receipts
    PROVE  ScanFenced(q)'
<1>0. ScanFenced(q) /\ \A s \in Sources : (row'[s] => row[s]) /\ (key[s] => key'[s])
  BY Monotone DEF Fenced
<1>00. saga[q].src \in Sources \cup {None} /\ (saga[q].pc \in Scanning => saga[q].src \in Sources)
  BY DEF IInv, TypeOK, SagaType, Located
<1>1. ASSUME saga'[q] = saga[q] PROVE ScanFenced(q)'
  <2>1. saga[q].src \in RowBacked \cup Discards => saga[q].src \in Sources
    BY DEF Sources, RowBacked
  <2> QED BY <1>0, <1>1, <2>1 DEF ScanFenced
<1>2. CASE SagaAct(q)
  <2>1. ASSUME NEW s \in Sources, SagaLockSource(q, s) PROVE ScanFenced(q)'
    <3>1. row' = row
      BY <2>1 DEF SagaLockSource
    <3> QED BY <2>1, <3>1, StartFields DEF ScanFenced, Scanning, Receipted
  <2>2. CASE SagaCancel(q)
    <3>1. row' = row
      BY <2>2 DEF SagaCancel
    <3>2. saga[q].runLocks \subseteq saga'[q].runLocks
      BY <2>2, CancelFields
    <3>3. ASSUME saga[q].src \in Discards, saga[q].src \notin saga[q].runLocks
          PROVE  saga[q].src \in saga'[q].runLocks
      <4>1. saga[q].cur = saga[q].src
        BY <1>0, <2>2, <3>3, CancelFields DEF ScanFenced, Scanning
      <4>2. saga[q].src \notin saga[q].rowLocks
        <5>1. saga[q].src \in saga[q].rowLocks => row[saga[q].src]
          BY DEF Fenced, LocksHeld
        <5>2. saga[q].src \in Sources /\ saga[q].src \notin RowBacked
          BY <3>3 DEF Sources
        <5> QED BY <5>1, <5>2 DEF Fenced, RunFenced
      <4>3. WaitForRun(q)
        BY <3>3, <4>1, <4>2 DEF WaitForRun, FileType
      <4> QED BY <2>2, <4>1, <4>3, CancelFields
    <3> QED BY <1>0, <2>2, <3>1, <3>2, <3>3, CancelFields DEF ScanFenced, Scanning, Receipted
  <2>3. CASE SagaSnapshot(q)
    BY <1>0, <2>3, SnapshotFields DEF SagaSnapshot, ScanFenced, Scanning, Receipted
  <2>4. CASE SagaLockMems(q)
    <3>1. CASE saga' = [saga EXCEPT ![q] = [NoSaga EXCEPT !.pc = "refused"]]
      BY <3>1, RefusedFields DEF ScanFenced, Scanning, Receipted
    <3>2. CASE saga' # [saga EXCEPT ![q] = [NoSaga EXCEPT !.pc = "refused"]]
      <4>1. /\ saga[q].pc \in Scanning /\ saga'[q].pc \in {"next", "lockfile"}
            /\ saga'[q].pc = "lockfile" => saga'[q].cur # saga'[q].src
            /\ saga[q].pc # "cancel"
            /\ UNCHANGED <<saga[q].src, saga[q].todo, saga[q].rowLocks, saga[q].runLocks, saga[q].keys>>
        BY <2>4, <3>2, LockMemsFields DEF Scanning
      <4>2. row' = row
        BY <2>4 DEF SagaLockMems
      <4> QED BY <1>0, <4>1, <4>2 DEF ScanFenced, Receipted
    <3> QED BY <3>1, <3>2
  <2>5. CASE SagaNextAttachment(q)
    <3>1. saga[q].src \in Emails /\ saga[q].src \notin Discards
      BY <1>0, <2>5, NextFields DEF ScanFenced, Scanning, RowBacked
    <3> QED BY <1>0, <2>5, <3>1, NextFields DEF SagaNextAttachment, ScanFenced, Scanning, Receipted
  <2>6. CASE SagaLockFile(q)
    <3>1. /\ saga[q].pc \in Scanning /\ saga[q].pc # "cancel" /\ saga'[q].pc = "next"
          /\ UNCHANGED <<saga[q].src, saga[q].todo, saga[q].runLocks>>
      BY <2>6, LockFileFields DEF Scanning
    <3>2. row' = row
      BY <2>6 DEF SagaLockFile
    <3>3. \/ UNCHANGED <<saga[q].rowLocks, saga[q].keys>>
          \/ \E f : /\ saga'[q].rowLocks = saga[q].rowLocks \cup {f}
                    /\ saga'[q].keys = saga[q].keys \cup {f}
      BY <2>6, LockFileFields
    <3> QED BY <1>0, <3>1, <3>2, <3>3 DEF ScanFenced, Receipted
  <2>7. CASE SagaCommit(q)
    <3>1. saga[q].src \in Discards => key'[saga[q].src]
      BY <1>0, <1>00, <2>7, CommitFields DEF ScanFenced, Scanning
    <3> QED BY <2>7, <3>1, CommitFields DEF ScanFenced, Scanning
  <2>8. CASE SagaAbort(q)
    BY <2>8, RefusedFields DEF SagaAbort, ScanFenced, Scanning, Receipted
  <2> QED BY <1>2, <2>1, <2>2, <2>3, <2>4, <2>5, <2>6, <2>7, <2>8 DEF SagaAct, SagaStep
<1>3. CASE ExecConfirm(q)
  <2>1. saga[q].pc \in Receipted /\ saga'[q].pc = "confirmed" /\ saga'[q].src = saga[q].src
    BY <1>3, ConfirmFields
  <2>2. key' = key
    BY <1>3 DEF ExecConfirm, ExecRest
  <2> QED BY <1>0, <2>1, <2>2 DEF ScanFenced, Scanning
<1>4. ASSUME NEW r \in Receipts, SagaAct(r), r # q PROVE saga'[q] = saga[q]
  BY <1>4, SagaFrame
<1>5. ASSUME NEW r \in Receipts, ExecAct(r) PROVE saga'[q] = saga[q] \/ ExecConfirm(q)
  BY <1>5, ExecFrame, ConfirmFields
<1> QED BY <1>1, <1>2, <1>3, <1>4, <1>5, RunFrame, EditFrame, MemFrame, Acts

\* Once it has cancelled, a saga keeps every run of its source from admitting.
LEMMA Barred ==
    ASSUME IInv, Fenced, NEW r \in Receipts, saga[r].pc \in Scanning,
           saga[r].pc # "cancel" \/ saga[r].cur # saga[r].src
    PROVE  run[saga[r].src].pc \notin Admitting
<1> DEFINE s == saga[r].src
<1>1. s \in Sources
  BY DEF IInv, Located
<1>2. CASE s \in RowBacked
  <2>1. s \in saga[r].rowLocks \/ ~row[s]
    BY <1>2 DEF Fenced, ScanFenced
  <2> QED BY <1>1, <1>2, <2>1 DEF Fenced, RunFenced, ForUpdate
<1>3. CASE s \in Discards
  <2>1. s \in saga[r].runLocks
    BY <1>3 DEF Fenced, ScanFenced
  <2> QED BY <2>1 DEF Fenced, LocksHeld, Admitting
<1> QED BY <1>1, <1>2, <1>3 DEF Sources, RowBacked

LEMMA LeftBarred ==
    ASSUME IInv, Fenced, Next, NEW r \in Receipts, saga[r].pc \in Scanning,
           saga[r].pc # "cancel" \/ saga[r].cur # saga[r].src,
           NEW s \in Sources, s = saga[r].src
    PROVE  Left(s)' \subseteq Left(s)
BY Barred, LeftStep DEF Admitting

LEMMA EnumeratedNext ==
    ASSUME IInv, Fenced, Next, NEW q \in Receipts
    PROVE  Enumerated(q)'
<1> SUFFICES ASSUME saga'[q].pc \in Scanning, NEW s \in Sources, s = saga'[q].src
             PROVE  /\ saga'[q].pc = "lockmems" /\ saga'[q].cur = s => Left(s)' \subseteq saga'[q].snap
                    /\ saga'[q].pc = "next" \/ saga'[q].cur # s => Left(s)' \subseteq saga'[q].ids
  <2>1. saga'[q].pc \in Scanning => saga'[q].src \in Sources
    BY SagaLocated
  <2>2. "lockmems" \in Scanning /\ "next" \in Scanning
    BY DEF Scanning
  <2> QED BY <2>1, <2>2 DEF Enumerated, Left
<1>0. /\ saga[q].pc = "lockmems" /\ saga[q].cur = saga[q].src => Left(saga[q].src) \subseteq saga[q].snap
      /\ saga[q].pc \in Scanning /\ (saga[q].pc = "next" \/ saga[q].cur # saga[q].src)
           => Left(saga[q].src) \subseteq saga[q].ids
  BY DEF Fenced, Enumerated
<1>1. CASE saga'[q] = saga[q]
  <2>1. CASE saga[q].pc = "cancel" /\ saga[q].cur = s
    BY <1>1, <2>1
  <2>2. CASE saga[q].pc # "cancel" \/ saga[q].cur # s
    BY <1>0, <1>1, <2>2, LeftBarred
  <2> QED BY <2>1, <2>2
<1>2. CASE SagaAct(q)
  <2>1. ASSUME NEW x \in Sources, SagaLockSource(q, x) PROVE saga'[q].pc = "cancel" /\ saga'[q].cur = s
    BY <2>1, StartFields
  <2>2. CASE SagaCancel(q)
    <3>1. saga[q].pc = "cancel" /\ saga'[q].pc = "snapshot"
          /\ UNCHANGED <<saga[q].src, saga[q].cur, saga[q].ids>>
      BY <2>2, CancelFields
    <3>2. saga[q].cur # s => Left(s)' \subseteq Left(s)
      BY <3>1, LeftBarred DEF Scanning
    <3> QED BY <1>0, <3>1, <3>2 DEF Scanning
  <2>3. CASE SagaSnapshot(q)
    <3>1. saga[q].pc = "snapshot" /\ saga'[q].pc = "lockmems" /\ saga'[q].snap = Derived(saga[q].cur)
          /\ UNCHANGED <<saga[q].src, saga[q].cur, saga[q].ids>>
      BY <2>3, SnapshotFields
    <3>2. Left(s)' \subseteq Left(s)
      BY <3>1, LeftBarred DEF Scanning
    <3>3. Left(s) \subseteq Derived(s)
      BY DEF Left, Derived
    <3> QED BY <1>0, <3>1, <3>2, <3>3 DEF Scanning
  <2>4. CASE SagaLockMems(q)
    <3>1. saga' # [saga EXCEPT ![q] = [NoSaga EXCEPT !.pc = "refused"]]
      BY RefusedFields DEF Scanning
    <3>2. /\ saga[q].pc = "lockmems"
          /\ saga'[q].ids = saga[q].ids \cup (saga[q].snap \cap live)
          /\ saga[q].cur # saga[q].src => saga'[q].pc = "lockfile"
          /\ UNCHANGED <<saga[q].src, saga[q].cur>>
      BY <2>4, <3>1, LockMemsFields
    <3>3. Left(s)' \subseteq Left(s)
      BY <3>2, LeftBarred DEF Scanning
    <3>4. Left(s) \subseteq live
      BY DEF Left
    <3>5. saga'[q].pc # "lockmems"
      BY <2>4, <3>1, LockMemsFields
    <3> QED BY <1>0, <3>2, <3>3, <3>4, <3>5 DEF Scanning
  <2>5. CASE SagaNextAttachment(q)
    <3>1. saga[q].pc = "next" /\ saga'[q].pc = "cancel" /\ UNCHANGED <<saga[q].src, saga[q].ids>>
      BY <2>5, NextFields
    <3>2. Left(s)' \subseteq Left(s)
      BY <3>1, LeftBarred DEF Scanning
    <3> QED BY <1>0, <3>1, <3>2 DEF Scanning
  <2>6. CASE SagaLockFile(q)
    <3>1. /\ saga[q].pc = "lockfile" /\ saga'[q].pc = "next"
          /\ UNCHANGED <<saga[q].src, saga[q].cur, saga[q].ids>>
      BY <2>6, LockFileFields
    <3>2. Left(s)' \subseteq Left(s)
      BY <3>1, LeftBarred DEF Scanning
    <3>3. saga[q].cur # saga[q].src
      BY <3>1 DEF Fenced, ScanFenced, Scanning
    <3> QED BY <1>0, <3>1, <3>2, <3>3 DEF Scanning
  <2>7. CASE SagaCommit(q) \/ SagaAbort(q)
    <3>1. saga'[q].pc \in {"pending", "refused"}
      BY <2>7, CommitFields, RefusedFields DEF SagaAbort
    <3> QED BY <3>1 DEF Scanning
  <2> QED BY <1>2, <2>1, <2>2, <2>3, <2>4, <2>5, <2>6, <2>7 DEF SagaAct, SagaStep
<1>3. ASSUME NEW r \in Receipts, SagaAct(r), r # q PROVE saga'[q] = saga[q]
  BY <1>3, SagaFrame
<1>4. ASSUME NEW r \in Receipts, ExecAct(r) PROVE saga'[q] = saga[q]
  <2>1. ExecConfirm(q) => FALSE
    BY ConfirmFields DEF Scanning
  <2> QED BY <1>4, <2>1, ExecFrame, ConfirmFields
<1> QED BY <1>1, <1>2, <1>3, <1>4, RunFrame, EditFrame, MemFrame, Acts

\* What a source loses to a receipt, it loses in that receipt's commit.
LEMMA RowFalls ==
    ASSUME IInv, Fenced, Next, NEW s \in Sources, row[s], ~row'[s]
    PROVE  \E r \in Receipts : SagaCommit(r) /\ s \in saga[r].rowLocks
<1>1. row' # row
  OBVIOUS
<1>2. PICK r \in Receipts : SagaAct(r)
  BY <1>1, RunFrame, EditFrame, MemFrame, ExecFrame, Acts
<1>3. SagaCommit(r)
  BY <1>1, <1>2, SagaFrame
<1> QED BY <1>3, CommitFields

\* A receipt is written by the commit of its saga.
LEMMA ReceiptWritten ==
    ASSUME IInv, Next, NEW r \in Receipts, saga[r].pc \notin Receipted, saga'[r].pc \in Receipted
    PROVE  SagaCommit(r)
<1>1. saga'[r] # saga[r]
  OBVIOUS
<1>2. ASSUME NEW q \in Receipts, SagaAct(q) PROVE SagaCommit(r)
  <2>1. q = r
    BY <1>1, <1>2, SagaFrame
  <2>2. CASE SagaLockMems(r)
    <3>1. saga'[r].pc \in {"refused", "next", "lockfile"}
      BY <2>2, LockMemsFields, RefusedFields
    <3> QED BY <3>1 DEF Receipted
  <2> QED BY <1>2, <2>1, <2>2, StartFields, CancelFields, SnapshotFields, NextFields, LockFileFields,
             RefusedFields DEF SagaAct, SagaStep, SagaAbort, Receipted
<1>3. ASSUME NEW q \in Receipts, ExecAct(q) PROVE FALSE
  BY <1>1, <1>3, ExecFrame, ConfirmFields
<1> QED BY <1>1, <1>2, <1>3, RunFrame, EditFrame, MemFrame, Acts

\* The commit of a saga leaves nothing of its source to list.
LEMMA CommitBuries ==
    ASSUME IInv, Fenced, Next, NEW r \in Receipts, SagaCommit(r), NEW s \in Sources, s = saga[r].src
    PROVE  Left(s)' = {}
<1>1. saga[r].pc = "next" /\ live' = live \ saga[r].ids
  BY CommitFields
<1>2. Left(s) \subseteq saga[r].ids
  BY <1>1 DEF Fenced, Enumerated, Scanning
<1>3. Left(s)' \subseteq Left(s)
  BY <1>1, LeftBarred DEF Scanning
<1>4. Left(s)' \subseteq live'
  BY DEF Left
<1> QED BY <1>1, <1>2, <1>3, <1>4

LEMMA BuriedNext ==
    ASSUME IInv, Fenced, Next, NEW s \in Sources
    PROVE  Buried(s)'
<1> SUFFICES ASSUME Gone(s)' PROVE Left(s)' = {} \/ Listed(s)'
  BY DEF Buried
<1>0. \A r \in Receipts : saga[r].pc \in Receipted =>
          saga'[r].pc \in Receipted /\ UNCHANGED <<saga[r].src, saga[r].keys>>
  BY ReceiptKept
<1>1. CASE Gone(s)
  <2>1. Left(s) = {} \/ Listed(s)
    BY <1>1 DEF Fenced, Buried
  <2>2. Listed(s) => Listed(s)'
    BY <1>0 DEF Listed
  <2>3. run[s].pc \notin {"stored", "merging"}
    <3>1. CASE s \in RowBacked
      BY <1>1, <3>1 DEF Gone, Fenced, RunFenced, Admitting
    <3>2. CASE s \notin RowBacked
      <4>1. PICK r \in Receipts : saga[r].pc \in Receipted /\ saga[r].src = s
        BY <1>1, <3>2 DEF Gone
      <4>2. key[s]
        BY <3>2, <4>1 DEF Fenced, ScanFenced, Sources, RowBacked
      <4> QED BY <4>2 DEF Fenced, RunFenced
    <3> QED BY <3>1, <3>2
  <2> QED BY <2>1, <2>2, <2>3, LeftStep
<1>2. CASE ~Gone(s)
  <2>1. CASE s \in RowBacked
    <3>1. PICK r \in Receipts : SagaCommit(r) /\ s \in saga[r].rowLocks
      BY <1>2, <2>1, RowFalls DEF Gone
    <3>2. CASE s = saga[r].src
      BY <3>1, <3>2, CommitBuries
    <3>3. CASE s # saga[r].src
      <4>1. s \in saga[r].keys
        BY <3>1, <3>3, CommitFields DEF Fenced, ScanFenced, Scanning
      <4>2. saga'[r].pc \in Receipted /\ s \in saga'[r].keys /\ s # saga'[r].src
        BY <3>1, <3>3, <4>1, CommitFields DEF Receipted
      <4> QED BY <4>2 DEF Listed
    <3> QED BY <3>2, <3>3
  <2>2. CASE s \notin RowBacked
    <3>1. PICK r \in Receipts : saga'[r].pc \in Receipted /\ saga'[r].src = s
      BY <2>2 DEF Gone
    <3>2. saga[r].pc \notin Receipted
      BY <1>0, <1>2, <2>2, <3>1 DEF Gone
    <3>3. SagaCommit(r) /\ saga[r].src = s
      BY <3>1, <3>2, ReceiptWritten, CommitFields
    <3> QED BY <3>3, CommitBuries
  <2> QED BY <2>1, <2>2
<1> QED BY <1>1, <1>2

LEMMA BytesNext ==
    ASSUME IInv, Fenced, Next
    PROVE  NoBytesOutsideReceipts'
<1> SUFFICES ASSUME NEW s \in (Emails \cup Files) \cap objs', ~row'[s]
             PROVE  \E r \in Receipts : saga'[r].pc = "pending" /\ s \in saga'[r].keys
  BY DEF NoBytesOutsideReceipts
<1>1. s \in objs /\ s \in Sources
  <2>1. objs' \subseteq objs
    BY RunFrame, EditFrame, MemFrame, SagaFrame, ExecFrame, Acts
  <2> QED BY <2>1 DEF Sources, RowBacked
<1>2. CASE ~row[s]
  <2>1. PICK r \in Receipts : saga[r].pc = "pending" /\ s \in saga[r].keys
    BY <1>1, <1>2 DEF Fenced, NoBytesOutsideReceipts
  <2>2. saga'[r].pc = "pending" /\ saga'[r].keys = saga[r].keys
    BY <1>1, <2>1, ReceiptKept DEF Receipted
  <2> QED BY <2>1, <2>2
<1>3. CASE row[s]
  <2>1. PICK r \in Receipts : SagaCommit(r) /\ s \in saga[r].rowLocks
    BY <1>1, <1>3, RowFalls
  <2>2. s \in saga[r].keys
    BY <2>1, CommitFields DEF Fenced, ScanFenced, Scanning
  <2> QED BY <2>1, <2>2, CommitFields
<1> QED BY <1>2, <1>3

LEMMA EditsNext ==
    ASSUME IInv, Fenced, Next
    PROVE  EditsMade'
<1>0. EditsMade /\ edit \in [Edits -> EditType]
  BY DEF Fenced, IInv, TypeOK
<1>1. ASSUME NEW e \in Edits, EditStep(e) PROVE EditsMade'
  <2> SUFFICES ASSUME NEW d \in Edits, edit'[d].pc # "done" PROVE edit'[d].new = None
    BY DEF EditsMade
  <2>1. CASE d # e
    BY <1>0, <1>1, <2>1 DEF EditStep, EditLock, EditCommit, EditAbort, EditsMade
  <2>2. CASE d = e
    BY <1>0, <1>1, <2>2 DEF EditStep, EditLock, EditCommit, EditAbort, EditsMade, EditType
  <2> QED BY <2>1, <2>2
<1>2. CASE edit' = edit
  BY <1>0, <1>2 DEF EditsMade
<1> QED BY <1>1, <1>2, RunFrame, MemFrame, SagaFrame, ExecFrame, Acts

LEMMA NextFenced == IInv /\ Fenced /\ [Next]_vars => Fenced'
<1> SUFFICES ASSUME IInv, Fenced, [Next]_vars PROVE Fenced'
  OBVIOUS
<1>1. CASE Next
  BY <1>1, RunFencedNext, BuriedNext, LocksHeldNext, ScanFencedNext, EnumeratedNext, EditsNext,
     BytesNext DEF Fenced
<1>2. CASE UNCHANGED vars
  BY <1>2 DEF vars, Fenced, RunFenced, Buried, LocksHeld, ScanFenced, Enumerated, EditsMade,
     NoBytesOutsideReceipts, Left, Listed, Gone, EditMade, ForUpdate
<1> QED BY <1>1, <1>2

LEMMA FencedAlways == Spec => [](IInv /\ Fenced)
<1>1. Init => IInv /\ Fenced
  BY InitIInv, InitFenced
<1>2. IInv /\ Fenced /\ [Next]_vars => IInv' /\ Fenced'
  BY NextIInv, NextFenced
<1> QED BY <1>1, <1>2, PTL DEF Spec

LEMMA Unresurrected == IInv /\ Fenced => NoResurrection
<1> SUFFICES ASSUME IInv, Fenced, NEW m \in live, Gone(prov[m])
             PROVE  EditMade(m) \/ Cascaded(prov[m])
  BY DEF NoResurrection
<1>1. prov[m] \in Sources
  BY DEF IInv, TypeOK, Held, Minted
<1>2. Left(prov[m]) = {} \/ Listed(prov[m])
  BY <1>1 DEF Fenced, Buried
<1>3. Listed(prov[m]) => Cascaded(prov[m])
  BY DEF Listed, Cascaded
<1> QED BY <1>2, <1>3 DEF Left

\* The admission checkpoint and the run lock do what they are for (decision 0024):
\* no run that was queued or in flight when a source was erased leaves a memory of
\* it, whichever order the saga, the runs and the edits take their locks in.
THEOREM NothingComesBack == Spec => []NoResurrection
BY Unresurrected, FencedAlways, PTL

\* A saga never deletes the row of bytes it does not list (requestSourceDeletion,
\* cascadeFileSubSource): until its receipt is confirmed the object is on it.
THEOREM BytesListed == Spec => []NoBytesOutsideReceipts
<1>1. Fenced => NoBytesOutsideReceipts
  BY DEF Fenced
<1> QED BY <1>1, FencedAlways, PTL

\* The idempotency key admits one run per source (idempotentTask around
\* IngestionPipeline.run), redeliveries, retries and cancellations included.
THEOREM OneAdmission == Spec => AtMostOneAdmission
<1> DEFINE A == \A m \in live' \ live :
         \/ \E e \in Edits : edit'[e].new = m
         \/ /\ ~key[prov'[m]]
            /\ \A k \in live : prov[k] = prov'[m] => EditMade(k)
<1>1. IInv /\ Fenced /\ [Next]_vars => [A]_vars
  <2> SUFFICES ASSUME IInv, Fenced, Next, NEW m \in live', m \notin live, ~EditMade(m)'
               PROVE  /\ ~key[prov'[m]]
                      /\ \A k \in live : prov[k] = prov'[m] => EditMade(k)
    BY DEF EditMade
  <2>1. PICK t \in Sources : m \in run[t].ids /\ CommitRun(t) /\ prov' = prov
    BY NewLive
  <2>2. prov'[m] = t
    BY <2>1 DEF IInv, Held, RunFresh
  <2>3. ~key[t]
    BY <2>1 DEF Fenced, RunFenced
  <2>4. Left(t) = {}
    BY <2>3 DEF Fenced, RunFenced
  <2> QED BY <2>2, <2>3, <2>4 DEF Left
<1> QED BY <1>1, FencedAlways, PTL DEF Spec, AtMostOneAdmission

-----------------------------------------------------------------------------
(* The reindex command: ReindexSpec.                                        *)

\* A memory that was committed once and is in nobody's hands does not come back.
LEMMA NoReturn ==
    ASSUME IInv, [Next]_vars, NEW m \in Mem, prov[m] # None, \A s \in Sources : m \notin run[s].ids
    PROVE  /\ prov'[m] # None /\ \A s \in Sources : m \notin run'[s].ids
           /\ m \in live' => m \in live
<1>1. CASE UNCHANGED vars
  BY <1>1 DEF vars
<1>2. CASE Next
  <2>1. prov'[m] # None
    BY <1>2, ProvKept
  <2>2. ASSUME NEW t \in Sources, RunAct(t)
        PROVE  (m \in live' => m \in live) /\ \A s \in Sources : m \notin run'[s].ids
    <3>1. run \in [Sources -> RunType]
      BY DEF IInv, TypeOK
    <3>2. CASE CommitRun(t)
      BY <3>1, <3>2 DEF CommitRun, NoRun
    <3>3. CASE RollBackRun(t)
      BY <3>1, <3>3 DEF RollBackRun, NoRun
    <3>4. CASE RunStore(t)
      BY <3>1, <3>4 DEF RunStore, Unminted, RunType
    <3>5. CASE RunWantLock(t) \/ RunGetLock(t) \/ RunStart(t)
      BY <3>1, <3>5 DEF RunWantLock, RunGetLock, RunStart, RunType
    <3>6. CASE (RunLoad(t) \/ RunAdmit(t)) /\ ~CommitRun(t)
      BY <3>1, <3>6 DEF RunLoad, RunAdmit, RunType
    <3>7. CASE DiscardCleanup(t)
      BY <3>7 DEF DiscardCleanup
    <3> QED BY <2>2, <3>2, <3>3, <3>4, <3>5, <3>6, <3>7
            DEF RunAct, RunStep, RunNoFacts, RunCommit, RunLockMissing, RunFail
  <2>3. ASSUME NEW e \in Edits, EditStep(e) PROVE run' = run /\ (m \in live' => m \in live)
    BY <2>3 DEF EditStep, EditLock, EditCommit, EditAbort, Unminted
  <2>4. ASSUME NEW r \in Receipts, SagaAct(r) PROVE run' = run /\ (m \in live' => m \in live)
    BY <2>4, SagaFrame, CommitFields
  <2> QED BY <1>2, <2>1, <2>2, <2>3, <2>4, MemFrame, ExecFrame, Acts
<1> QED BY <1>1, <1>2

\* A point is deleted with its row, or after it.
LEMMA PointDeleted ==
    ASSUME IInv, [Next]_vars, NEW m \in points, m \notin points'
    PROVE  m \notin live'
<1>0. Next
  BY DEF vars
<1>1. ASSUME NEW t \in Sources, RunAct(t) PROVE FALSE
  BY <1>1 DEF RunAct, RunStep, RunStart, RunLoad, RunNoFacts, RunAdmit, RunStore, RunWantLock,
         RunGetLock, RunLockMissing, RunCommit, RunFail, RollBackRun, DiscardCleanup
<1>2. ASSUME NEW e \in Edits, EditStep(e) PROVE FALSE
  BY <1>2 DEF EditStep, EditLock, EditCommit, EditAbort
<1>3. ASSUME NEW n \in Mem, MemAct(n) PROVE m \notin live'
  BY <1>3 DEF MemAct, EmbedStep, EmbedHold, EmbedWrite, EmbedEnd, RejectUncertain
<1>4. ASSUME NEW r \in Receipts, SagaAct(r) PROVE FALSE
  BY <1>4 DEF SagaAct, SagaStep, SagaLockSource, SagaCancel, SagaSnapshot, SagaLockMems,
         SagaNextAttachment, SagaLockFile, SagaCommit, SagaAbort, Rest
<1>5. ASSUME NEW r \in Receipts, ExecAct(r) PROVE m \notin live'
  <2>1. ExecDeletePoints(r)
    BY <1>5 DEF ExecAct, ExecStep, ExecStart, ExecDeleteObject, ExecConfirm, ExecFail
  <2> QED BY <2>1 DEF ExecDeletePoints, ExecRest, IInv, Held, ExecProgress, ReceiptedGone
<1> QED BY <1>0, <1>1, <1>2, <1>3, <1>4, <1>5, Acts

\* IInv holds whatever becomes of the index.
LEMMA IndexFree ==
    ASSUME IInv, points' \subseteq Mem,
           UNCHANGED <<row, job, tries, key, run, prov, live, objs, edit, embed, saga, exec>>
    PROVE  IInv'
BY DEF IInv, TypeOK, Located, Held, Minted, RunFresh, EmbedHolds, ReceiptedGone, ExecProgress,
       ObjectsErased

ReindexTypeOK ==
    /\ reindex \in [pc : {"idle", "scan", "page", "sweep", "done"}, seen : SUBSET Mem,
                    passed : SUBSET Mem, page : SUBSET Mem, orphans : SUBSET Mem]
    /\ before \in [rows : SUBSET Mem, stray : SUBSET Mem]

\* What the command began with, and the page in hand: minted, and in no run's hands.
Known == /\ \A m \in points : prov[m] # None
         /\ \A m \in before.rows \cup before.stray \cup reindex.page :
               prov[m] # None /\ \A s \in Sources : m \notin run[s].ids
\* The strays have no row, so the scan cannot read one.
StraysDead == before.stray \cap (live \cup reindex.page \cup reindex.seen) = {}
\* Rows the cursor has passed were read, and have their point or are about to.
Restoring ==
    /\ reindex.pc = "idle" => reindex = Idle
    /\ reindex.pc = "scan" => reindex.page = {}
    /\ reindex.pc \in {"scan", "page"} =>
         /\ before.rows \cap reindex.passed \subseteq reindex.seen
         /\ before.rows \cap reindex.passed \cap live \subseteq points \cup reindex.page
    /\ reindex.pc = "sweep" =>
         /\ before.rows \cap live \subseteq points \ reindex.orphans
         /\ before.stray \cap points \subseteq reindex.orphans
    /\ reindex.pc = "done" =>
         before.rows \cap live \subseteq points /\ before.stray \cap points = {}

RInv == ReindexTypeOK /\ Known /\ StraysDead /\ Restoring

\* A step of the rest of the system under the command.
LEMMA RunningKeeps ==
    ASSUME IInv, RInv, [Next]_vars, UNCHANGED xvars
    PROVE  RInv'
<1>0. reindex' = reindex /\ before' = before
  BY DEF xvars
<1>1. /\ before.rows \subseteq Mem /\ before.stray \subseteq Mem /\ reindex.page \subseteq Mem
      /\ points \subseteq Mem
  BY DEF RInv, ReindexTypeOK, IInv, TypeOK
<1>2. \A m \in before.rows \cup before.stray \cup reindex.page :
          /\ prov'[m] # None /\ \A s \in Sources : m \notin run'[s].ids
          /\ m \in live' => m \in live
  BY <1>1, NoReturn DEF RInv, Known
<1>3. ASSUME NEW m \in points', m \notin points PROVE m \in live \/ (m \in Unminted /\ prov'[m] # None)
  BY <1>3, PointWritten DEF vars
<1>4. \A m \in points' : prov'[m] # None
  <2> SUFFICES ASSUME NEW m \in points' PROVE prov'[m] # None
    OBVIOUS
  <2>1. m \in Mem /\ prov[m] # None => prov'[m] # None
    BY ProvKept DEF vars
  <2>2. m \in live => m \in Mem /\ prov[m] # None
    BY DEF IInv, TypeOK, Held, Minted
  <2> QED BY <1>1, <1>3, <2>1, <2>2 DEF RInv, Known
<1>5. Known'
  BY <1>0, <1>2, <1>4 DEF Known
<1>6. StraysDead'
  BY <1>0, <1>2 DEF RInv, StraysDead
<1>7. \A m \in before.stray : m \in points' => m \in points
  BY <1>3 DEF RInv, Known, StraysDead, Unminted
<1>8. \A m \in before.rows \cap live' : m \in live /\ (m \in points => m \in points')
  BY <1>2, PointDeleted
<1>9. Restoring'
  BY <1>0, <1>7, <1>8 DEF RInv, Restoring
<1> QED BY <1>0, <1>5, <1>6, <1>9 DEF RInv, ReindexTypeOK

\* A step of the command.
LEMMA CommandKeeps ==
    ASSUME IInv, RInv, IndexLost \/ ReindexStep
    PROVE  IInv' /\ RInv'
<1>0. /\ reindex.pc \in {"idle", "scan", "page", "sweep", "done"}
      /\ reindex.page \subseteq Mem /\ points \subseteq Mem /\ live \subseteq Mem
  BY DEF RInv, ReindexTypeOK, IInv, TypeOK
<1>1. CASE IndexLost
  <2>1. IInv'
    BY <1>1, IndexFree DEF IndexLost
  <2>2. RInv'
    BY <1>1 DEF IndexLost, xvars, RInv, ReindexTypeOK, Known, StraysDead, Restoring
  <2> QED BY <2>1, <2>2
<1>2. ASSUME UNCHANGED vars PROVE IInv'
  BY <1>0, <1>2, IndexFree DEF vars
<1>3. CASE ReindexBegin
  <2>1. /\ reindex.pc = "idle" /\ reindex' = [reindex EXCEPT !.pc = "scan"]
        /\ before' = [rows |-> live, stray |-> points \ (live \cup InFlight)]
        /\ UNCHANGED vars
    BY <1>3 DEF ReindexBegin
  <2>2. /\ reindex'.pc = "scan" /\ reindex'.page = {} /\ reindex'.seen = {} /\ reindex'.passed = {}
        /\ before'.rows = live /\ before'.stray = points \ (live \cup InFlight)
    BY <2>1 DEF RInv, ReindexTypeOK, Restoring, Idle
  <2>3. ReindexTypeOK'
    BY <1>0, <2>1 DEF RInv, ReindexTypeOK
  <2>4. Known'
    BY <2>1, <2>2 DEF vars, RInv, Known, InFlight, IInv, Held, Minted, RunFresh
  <2>5. StraysDead' /\ Restoring'
    BY <2>1, <2>2 DEF vars, StraysDead, Restoring
  <2> QED BY <1>2, <2>1, <2>3, <2>4, <2>5 DEF RInv
<1>4. CASE ReindexPage
  <2>1. PICK m \in live \ reindex.passed, skip \in SUBSET Unminted :
          reindex' = [reindex EXCEPT !.pc = "page", !.page = {m}, !.seen = @ \cup {m},
                                     !.passed = @ \cup {m} \cup skip]
    BY <1>4 DEF ReindexPage
  <2>2. UNCHANGED <<vars, before>> /\ reindex.pc = "scan"
    BY <1>4 DEF ReindexPage
  <2>3. /\ reindex'.pc = "page" /\ reindex'.page = {m} /\ reindex'.seen = reindex.seen \cup {m}
        /\ reindex'.passed = reindex.passed \cup {m} \cup skip
    BY <2>1 DEF RInv, ReindexTypeOK
  <2>4. m \in Mem /\ skip \subseteq Mem /\ prov[m] # None /\ \A k \in skip : prov[k] = None
    BY <1>0 DEF Unminted, IInv, Held, Minted
  <2>5. ReindexTypeOK'
    BY <2>1, <2>2, <2>4 DEF RInv, ReindexTypeOK
  <2>6. Known'
    BY <2>2, <2>3, <2>4 DEF vars, RInv, Known, IInv, Held, RunFresh
  <2>7. StraysDead'
    BY <2>2, <2>3 DEF vars, RInv, StraysDead
  <2>8. Restoring'
    BY <2>2, <2>3, <2>4 DEF vars, RInv, Restoring, Known
  <2> QED BY <1>2, <2>2, <2>5, <2>6, <2>7, <2>8 DEF RInv
<1>5. CASE ReindexUpsert
  <2>1. /\ reindex.pc = "page" /\ points' = points \cup reindex.page
        /\ reindex' = [reindex EXCEPT !.pc = "scan", !.page = {}]
        /\ UNCHANGED <<row, job, tries, key, run, prov, live, objs, edit, embed, saga, exec, before>>
    BY <1>5 DEF ReindexUpsert
  <2>2. /\ reindex'.pc = "scan" /\ reindex'.page = {}
        /\ reindex'.seen = reindex.seen /\ reindex'.passed = reindex.passed
    BY <2>1 DEF RInv, ReindexTypeOK
  <2>3. IInv'
    BY <1>0, <2>1, IndexFree
  <2>4. ReindexTypeOK'
    BY <2>1 DEF RInv, ReindexTypeOK
  <2>5. Known' /\ StraysDead'
    BY <2>1, <2>2 DEF RInv, Known, StraysDead
  <2>6. Restoring'
    BY <2>1, <2>2 DEF RInv, Restoring
  <2> QED BY <2>3, <2>4, <2>5, <2>6 DEF RInv
<1>6. CASE ReindexList
  <2>1. /\ reindex.pc = "scan" /\ live \subseteq reindex.passed /\ UNCHANGED <<vars, before>>
        /\ reindex' = [reindex EXCEPT !.pc = "sweep", !.orphans = points \ reindex.seen]
    BY <1>6 DEF ReindexList
  <2>2. /\ reindex'.pc = "sweep" /\ reindex'.orphans = points \ reindex.seen
        /\ reindex'.page = reindex.page /\ reindex'.seen = reindex.seen
    BY <2>1 DEF RInv, ReindexTypeOK
  <2>3. ReindexTypeOK'
    BY <1>0, <2>1 DEF RInv, ReindexTypeOK
  <2>4. Known' /\ StraysDead'
    BY <2>1, <2>2 DEF vars, RInv, Known, StraysDead
  <2>5. Restoring'
    BY <2>1, <2>2 DEF vars, RInv, Restoring, StraysDead
  <2> QED BY <1>2, <2>1, <2>3, <2>4, <2>5 DEF RInv
<1>7. CASE ReindexSweep
  <2>1. /\ reindex.pc = "sweep" /\ points' = points \ reindex.orphans
        /\ reindex' = [reindex EXCEPT !.pc = "done"]
        /\ UNCHANGED <<row, job, tries, key, run, prov, live, objs, edit, embed, saga, exec, before>>
    BY <1>7 DEF ReindexSweep
  <2>2. reindex'.pc = "done" /\ reindex'.page = reindex.page /\ reindex'.seen = reindex.seen
    BY <2>1 DEF RInv, ReindexTypeOK
  <2>3. IInv'
    BY <1>0, <2>1, IndexFree
  <2>4. ReindexTypeOK'
    BY <2>1 DEF RInv, ReindexTypeOK
  <2>5. Known' /\ StraysDead'
    BY <2>1, <2>2 DEF RInv, Known, StraysDead
  <2>6. Restoring'
    BY <2>1, <2>2 DEF RInv, Restoring
  <2> QED BY <2>3, <2>4, <2>5, <2>6 DEF RInv
<1>8. CASE ReindexStop
  <2>1. reindex' = Idle /\ UNCHANGED <<vars, before>>
    BY <1>8 DEF ReindexStop
  <2>2. RInv'
    BY <2>1 DEF Idle, vars, RInv, ReindexTypeOK, Known, StraysDead, Restoring
  <2> QED BY <1>2, <2>1, <2>2
<1> QED BY <1>1, <1>3, <1>4, <1>5, <1>6, <1>7, <1>8 DEF ReindexStep

LEMMA ReindexInductive == ReindexSpec => [](IInv /\ RInv)
<1>1. ReindexInit => IInv /\ RInv
  <2> SUFFICES ASSUME ReindexInit PROVE RInv
    BY InitIInv DEF ReindexInit
  <2> QED BY DEF ReindexInit, Init, Idle, RInv, ReindexTypeOK, Known, StraysDead, Restoring
<1>2. IInv /\ RInv /\ [ReindexNext]_<<vars, xvars>> => IInv' /\ RInv'
  <2> SUFFICES ASSUME IInv, RInv, [ReindexNext]_<<vars, xvars>> PROVE IInv' /\ RInv'
    OBVIOUS
  <2>1. CASE IndexLost \/ ReindexStep
    BY <2>1, CommandKeeps
  <2>2. CASE [Next]_vars /\ UNCHANGED xvars
    BY <2>2, NextIInv, RunningKeeps
  <2> QED BY <2>1, <2>2 DEF ReindexNext
<1> QED BY <1>1, <1>2, PTL DEF ReindexSpec

\* "the reindex command must always work" (reindexMemories): interrupted, run
\* again, over any loss of the index, and whatever the workers, the editors and
\* the sagas do meanwhile, it gives every row it found its point.
THEOREM IndexRestored == ReindexSpec => []ReindexRestores
<1>1. RInv => ReindexRestores
  BY DEF RInv, Restoring, ReindexRestores
<1> QED BY <1>1, ReindexInductive, PTL

\* .. and takes the points that had no row then, and only has what is written since.
THEOREM StraysRemoved == ReindexSpec => []ReindexRemovesStrays
<1>1. RInv => ReindexRemovesStrays
  BY DEF RInv, Restoring, ReindexRemovesStrays
<1> QED BY <1>1, ReindexInductive, PTL
\* The command may write a point back after a receipt was confirmed (a page read
\* before the erasure), but it does no more harm than that: neither it nor the loss
\* of the index brings a memory of an erased source back, or bytes out of receipts.
THEOREM ReindexBounded == ReindexSpec => [](NoResurrection /\ NoBytesOutsideReceipts)
<1>1. ReindexInit => Fenced
  BY InitFenced DEF ReindexInit
<1>2. IInv /\ Fenced /\ [ReindexNext]_<<vars, xvars>> => Fenced'
  <2> SUFFICES ASSUME IInv, Fenced, [ReindexNext]_<<vars, xvars>> PROVE Fenced'
    OBVIOUS
  <2>1. CASE [Next]_vars
    BY <2>1, NextFenced
  <2>2. CASE IndexLost \/ ReindexStep
    <3>1. UNCHANGED <<row, key, run, prov, live, objs, edit, saga>>
      BY <2>2 DEF IndexLost, ReindexStep, ReindexBegin, ReindexPage, ReindexUpsert, ReindexList,
                  ReindexSweep, ReindexStop, vars
    <3> QED BY <3>1 DEF Fenced, RunFenced, Buried, LocksHeld, ScanFenced, Enumerated, EditsMade,
                        NoBytesOutsideReceipts, Left, Listed, Gone, EditMade, ForUpdate
  <2> QED BY <2>1, <2>2 DEF ReindexNext
<1>3. IInv /\ Fenced => NoResurrection /\ NoBytesOutsideReceipts
  BY Unresurrected DEF Fenced
<1> QED BY <1>1, <1>2, <1>3, ReindexInductive, PTL DEF ReindexSpec

-----------------------------------------------------------------------------
(* The integrity sweep: SweepSpec.                                          *)

\* A receipt names a source that is gone, and a row that is gone is named by one:
\* as its source, or, an attachment, by the object it lists.
Named(s, r) == /\ saga[r].pc \in Receipted /\ s \in {saga[r].src} \cup saga[r].keys
               /\ s \in Files => s \in saga[r].keys
Accounted ==
    /\ \A r \in Receipts : saga[r].pc \in Receipted /\ saga[r].src \in RowBacked => ~row[saga[r].src]
    /\ \A s \in RowBacked : ~row[s] => \E r \in Receipts : Named(s, r)

LEMMA NextAccounted ==
    ASSUME IInv, Fenced, Accounted, [Next]_vars
    PROVE  Accounted'
<1>1. CASE UNCHANGED vars
  BY <1>1 DEF vars, Accounted, Named
<1>2. CASE Next
  <2>0. RowBacked \subseteq Sources /\ row' \in [Sources -> BOOLEAN]
    BY <1>2, NextIInv DEF Sources, RowBacked, IInv, TypeOK
  <2>1. ASSUME NEW r \in Receipts, saga'[r].pc \in Receipted, saga'[r].src \in RowBacked
        PROVE  ~row'[saga'[r].src]
    <3>1. CASE saga[r].pc \in Receipted
      <4>1. saga'[r].src = saga[r].src
        BY <1>2, <3>1, ReceiptKept
      <4> QED BY <1>2, <2>0, <2>1, <3>1, <4>1, Monotone DEF Accounted
    <3>2. CASE saga[r].pc \notin Receipted
      <4>1. SagaCommit(r) /\ saga'[r].src = saga[r].src /\ saga[r].pc \in Scanning
        BY <1>2, <2>1, <3>2, ReceiptWritten, CommitFields DEF Scanning
      <4>2. saga[r].src \in saga[r].rowLocks \/ ~row[saga[r].src]
        BY <2>1, <4>1 DEF Fenced, ScanFenced
      <4> QED BY <2>0, <2>1, <4>1, <4>2, CommitFields
    <3> QED BY <3>1, <3>2
  <2>2. ASSUME NEW s \in RowBacked, ~row'[s] PROVE \E r \in Receipts : Named(s, r)'
    <3>1. CASE ~row[s]
      <4>1. PICK r \in Receipts : Named(s, r)
        BY <3>1 DEF Accounted
      <4>2. saga'[r].pc \in Receipted /\ UNCHANGED <<saga[r].src, saga[r].keys>>
        BY <1>2, <4>1, ReceiptKept DEF Named
      <4> QED BY <4>1, <4>2 DEF Named
    <3>2. CASE row[s]
      <4>1. PICK r \in Receipts : SagaCommit(r) /\ s \in saga[r].rowLocks
        BY <1>2, <2>0, <2>2, <3>2, RowFalls
      <4>2. s # saga[r].src \/ s \in Emails \cup Files => s \in saga[r].keys
        BY <4>1, CommitFields DEF Fenced, ScanFenced, Scanning
      <4>3. saga'[r].pc \in Receipted /\ UNCHANGED <<saga[r].src, saga[r].keys>>
        BY <4>1, CommitFields DEF Receipted
      <4>4. Named(s, r)'
        BY <4>2, <4>3 DEF Named
      <4> QED BY <4>4
    <3> QED BY <3>1, <3>2
  <2> QED BY <2>1, <2>2 DEF Accounted
<1> QED BY <1>1, <1>2

Alerted(m) == <<"orphaned_memory", m>> \in alerts
\* Where the sweep will still come across an orphan that was there when it began.
Ahead(m) ==
    \/ /\ prov[m] \in AdapterTypes /\ ~row[prov[m]]
       /\ sweep.pc = "receipts" \/ (sweep.pc = "groups" /\ prov[m] \in sweep.groups)
    \/ sweep.pc = "receipts" /\ \E r \in sweep.receipts : saga[r].src = prov[m]
Chased == /\ \A m \in suspects : /\ m \in Mem /\ prov[m] # None
                                 /\ \A s \in Sources : m \notin run[s].ids
          /\ \A m \in suspects \cap live : Listed(prov[m]) \/ Alerted(m) \/ Ahead(m)
SweepTyped == /\ sweep \in [pc : {"idle", "receipts", "groups", "objects", "done"},
                            receipts : SUBSET Receipts, groups : SUBSET AdapterTypes,
                            objects : SUBSET Sources]
              /\ \A r \in sweep.receipts : saga[r].pc \in Receipted

SInv == SweepTyped /\ Accounted /\ Chased

\* A step of the rest of the system under the sweep.
LEMMA SweepUnder ==
    ASSUME IInv, Fenced, SInv, [Next]_vars, UNCHANGED svars
    PROVE  SInv'
<1>0. UNCHANGED <<sweep, alerts, suspects>>
  BY DEF svars
<1>1. \A m \in suspects : /\ m \in Mem /\ prov'[m] = prov[m] /\ prov[m] # None
                          /\ \A s \in Sources : m \notin run'[s].ids
                          /\ m \in live' => m \in live
  BY NoReturn, ProvKept DEF SInv, Chased, vars
<1>2. \A r \in Receipts : saga[r].pc \in Receipted =>
          saga'[r].pc \in Receipted /\ UNCHANGED <<saga[r].src, saga[r].keys>>
  BY ReceiptKept DEF vars
<1>3. SweepTyped'
  BY <1>0, <1>2 DEF SInv, SweepTyped
<1>4. \A s \in Sources : row'[s] => row[s]
  BY Monotone DEF vars
<1>5. ASSUME NEW m \in suspects, m \in live' PROVE Listed(prov[m])' \/ Alerted(m)' \/ Ahead(m)'
  <2>1. CASE Listed(prov[m])
    <3>1. PICK r \in Receipts : saga[r].pc \in Receipted /\ prov[m] \in saga[r].keys /\ prov[m] # saga[r].src
      BY <2>1 DEF Listed
    <3> QED BY <1>1, <1>2, <3>1 DEF Listed
  <2>2. CASE Alerted(m)
    BY <1>0, <2>2 DEF Alerted
  <2>3. CASE Ahead(m)
    <3>1. \A r \in sweep.receipts : saga'[r].src = saga[r].src
      BY <1>2 DEF SInv, SweepTyped
    <3>2. prov[m] \in Sources
      BY <1>1 DEF IInv, TypeOK
    <3> QED BY <1>0, <1>1, <1>4, <2>3, <3>1, <3>2 DEF Ahead
  <2> QED BY <1>1, <1>5, <2>1, <2>2, <2>3 DEF SInv, Chased
<1>6. Chased'
  BY <1>0, <1>1, <1>5 DEF Chased
<1> QED BY <1>3, <1>6, NextAccounted DEF SInv

\* A step of the sweep: it changes nothing it looks at.
LEMMA SweepKeeps ==
    ASSUME IInv, Fenced, SInv, SweepStep
    PROVE  SInv'
<1>0. UNCHANGED vars
  BY DEF SweepStep, SweepBegin, SweepReceipt, SweepGroups, SweepProbe, SweepList, SweepObjects
<1>1. UNCHANGED <<row, run, prov, live, saga>>
  BY <1>0 DEF vars
<1>2. Accounted' /\ \A s : Listed(s)' = Listed(s)
  BY <1>1 DEF SInv, Accounted, Named, Listed
<1>3. \A m \in live : prov[m] \in Sources /\ m \in Mem
  BY DEF IInv, TypeOK, Held, Minted
<1>4. CASE SweepBegin
  <2>1. /\ sweep' = [sweep EXCEPT !.pc = "receipts", !.receipts = Confirmed]
        /\ suspects' = {m \in live : Erased(prov[m])} /\ alerts' = alerts
    BY <1>4 DEF SweepBegin
  <2>2. sweep'.pc = "receipts" /\ sweep'.receipts = Confirmed
    BY <2>1 DEF SInv, SweepTyped
  <2>3. SweepTyped'
    BY <1>1, <2>1, <2>2 DEF SInv, SweepTyped, Confirmed, Receipted
  <2>4. ASSUME NEW m \in suspects' PROVE Listed(prov[m]) \/ Ahead(m)'
    <3>1. m \in live /\ Erased(prov[m])
      BY <2>1, <2>4
    <3>2. CASE prov[m] \in AdapterTypes /\ ~row[prov[m]]
      BY <1>1, <2>2, <3>2 DEF Ahead
    <3>3. ASSUME NEW r \in Confirmed, saga[r].src = prov[m] PROVE Ahead(m)'
      BY <1>1, <2>2, <3>3 DEF Ahead
    <3>4. CASE prov[m] \in Files /\ ~row[prov[m]] /\
               \A r \in Receipts : prov[m] \in saga[r].keys => r \in Confirmed
      <4>1. PICK r \in Receipts : Named(prov[m], r)
        BY <3>4 DEF SInv, Accounted, RowBacked
      <4>2. r \in Confirmed /\ prov[m] \in saga[r].keys /\ saga[r].pc \in Receipted
        BY <3>4, <4>1 DEF Named
      <4> QED BY <3>3, <4>2 DEF Listed
    <3> QED BY <3>1, <3>2, <3>3, <3>4 DEF Erased
  <2>5. Chased'
    BY <1>1, <1>2, <1>3, <2>1, <2>4 DEF Chased, IInv, Held, Minted, RunFresh
  <2> QED BY <1>2, <2>3, <2>5 DEF SInv
<1>5. ASSUME suspects' = suspects, alerts \subseteq alerts', SweepTyped',
             \A m \in suspects \cap live : Ahead(m) => Listed(prov[m]) \/ Alerted(m)' \/ Ahead(m)'
      PROVE  SInv'
  <2>1. \A m : Alerted(m) => Alerted(m)'
    BY <1>5 DEF Alerted
  <2>2. Chased'
    BY <1>1, <1>2, <1>5, <2>1 DEF SInv, Chased
  <2> QED BY <1>2, <1>5, <2>2 DEF SInv
<1>6. CASE SweepReceipt
  <2>1. PICK r \in sweep.receipts :
          /\ alerts' = alerts
               \cup {<<"memory_row_present", m>>   : m \in saga[r].ids \cap live}
               \cup {<<"qdrant_point_present", m>> : m \in saga[r].ids \cap points}
               \cup {<<"object_present", k>>       : k \in saga[r].keys \cap objs}
               \cup {<<"orphaned_memory", m>>      : m \in Derived(saga[r].src) \ saga[r].ids}
          /\ sweep' = [sweep EXCEPT !.receipts = @ \ {r}]
    BY <1>6 DEF SweepReceipt
  <2>2. sweep'.pc = "receipts" /\ sweep'.receipts = sweep.receipts \ {r} /\ sweep'.groups = sweep.groups
    BY <1>6, <2>1 DEF SInv, SweepTyped, SweepReceipt
  <2>3. SweepTyped'
    BY <1>1, <2>1, <2>2 DEF SInv, SweepTyped
  <2>4. ASSUME NEW m \in suspects \cap live, Ahead(m) PROVE Alerted(m)' \/ Ahead(m)'
    <3>1. CASE saga[r].src = prov[m]
      <4>1. m \in Derived(saga[r].src) \ saga[r].ids
        BY <3>1 DEF Derived, SInv, SweepTyped, IInv, Held, ReceiptedGone
      <4> QED BY <2>1, <4>1 DEF Alerted
    <3>2. CASE saga[r].src # prov[m]
      BY <1>1, <1>6, <2>2, <2>4, <3>2 DEF Ahead, SweepReceipt
    <3> QED BY <3>1, <3>2
  <2> QED BY <1>5, <1>6, <2>1, <2>3, <2>4 DEF SweepReceipt
<1>7. CASE SweepGroups
  <2>1. /\ sweep.pc = "receipts" /\ sweep.receipts = {} /\ UNCHANGED <<alerts, suspects>>
        /\ sweep' = [sweep EXCEPT !.pc = "groups", !.groups = {prov[m] : m \in live} \cap AdapterTypes]
    BY <1>7 DEF SweepGroups
  <2>2. /\ sweep'.pc = "groups" /\ sweep'.receipts = {}
        /\ sweep'.groups = {prov[m] : m \in live} \cap AdapterTypes
    BY <2>1 DEF SInv, SweepTyped
  <2>3. SweepTyped'
    BY <2>1, <2>2 DEF SInv, SweepTyped
  <2>4. \A m \in suspects \cap live : Ahead(m) => Ahead(m)'
    BY <1>1, <2>1, <2>2 DEF Ahead
  <2> QED BY <1>5, <2>1, <2>3, <2>4
<1>8. CASE SweepProbe
  <2>1. PICK s \in sweep.groups :
          /\ alerts' = alerts \cup {<<"orphaned_memory", m>> : m \in IF row[s] THEN {} ELSE Derived(s)}
          /\ sweep' = [sweep EXCEPT !.groups = @ \ {s}]
    BY <1>8 DEF SweepProbe
  <2>2. sweep.pc = "groups" /\ suspects' = suspects
    BY <1>8 DEF SweepProbe
  <2>3. sweep'.pc = "groups" /\ sweep'.receipts = sweep.receipts /\ sweep'.groups = sweep.groups \ {s}
    BY <2>1, <2>2 DEF SInv, SweepTyped
  <2>4. SweepTyped'
    BY <1>1, <2>1, <2>3 DEF SInv, SweepTyped
  <2>5. ASSUME NEW m \in suspects \cap live, Ahead(m) PROVE Alerted(m)' \/ Ahead(m)'
    <3>1. CASE s = prov[m]
      <4>1. m \in IF row[s] THEN {} ELSE Derived(s)
        BY <2>2, <2>5, <3>1 DEF Ahead, Derived
      <4> QED BY <2>1, <4>1 DEF Alerted
    <3>2. CASE s # prov[m]
      BY <1>1, <2>2, <2>3, <2>5, <3>2 DEF Ahead
    <3> QED BY <3>1, <3>2
  <2> QED BY <1>5, <2>1, <2>2, <2>4, <2>5
<1>9. CASE SweepList
  <2>1. PICK aged \in SUBSET objs : sweep' = [sweep EXCEPT !.pc = "objects", !.objects = aged]
    BY <1>9 DEF SweepList
  <2>2. sweep.pc = "groups" /\ sweep.groups = {} /\ UNCHANGED <<alerts, suspects>> /\ objs \subseteq Sources
    BY <1>9 DEF SweepList, IInv, TypeOK
  <2>3. SweepTyped'
    BY <1>1, <2>1, <2>2 DEF SInv, SweepTyped
  <2>4. \A m : ~Ahead(m)
    BY <2>2 DEF Ahead
  <2> QED BY <1>5, <2>2, <2>3, <2>4
<1>10. CASE SweepObjects
  <2>1. SweepTyped'
    BY <1>1, <1>10 DEF SInv, SweepTyped, SweepObjects
  <2>2. \A m : ~Ahead(m)
    BY <1>10 DEF Ahead, SweepObjects
  <2> QED BY <1>5, <1>10, <2>1, <2>2 DEF SweepObjects
<1> QED BY <1>4, <1>6, <1>7, <1>8, <1>9, <1>10 DEF SweepStep

LEMMA SweepInductive == SweepSpec => [](IInv /\ Fenced /\ SInv)
<1>1. SweepInit => IInv /\ Fenced /\ SInv
  <2> SUFFICES ASSUME SweepInit PROVE SInv
    BY InitIInv, InitFenced DEF SweepInit
  <2>1. SweepTyped /\ Chased
    BY DEF SweepInit, SweepTyped, Chased
  <2>2. Accounted
    BY DEF SweepInit, Init, Accounted, NoSaga, Receipted, Sources, RowBacked
  <2> QED BY <2>1, <2>2 DEF SInv
<1>2. IInv /\ Fenced /\ SInv /\ [SweepNext]_<<vars, svars>> => IInv' /\ Fenced' /\ SInv'
  <2> SUFFICES ASSUME IInv, Fenced, SInv, [SweepNext]_<<vars, svars>> PROVE IInv' /\ Fenced' /\ SInv'
    OBVIOUS
  <2>1. CASE SweepStep
    <3>1. UNCHANGED vars
      BY <2>1 DEF SweepStep, SweepBegin, SweepReceipt, SweepGroups, SweepProbe, SweepList, SweepObjects
    <3> QED BY <2>1, <3>1, SweepKeeps, NextIInv, NextFenced
  <2>2. CASE [Next]_vars /\ UNCHANGED svars
    BY <2>2, SweepUnder, NextIInv, NextFenced
  <2> QED BY <2>1, <2>2 DEF SweepNext
<1> QED BY <1>1, <1>2, PTL DEF SweepSpec

\* "detected within one sweep cycle" (decision 0024, IntegritySweep.run): no orphan
\* that was there when the sweep began slips through between its reads, however
\* many runs, edits, sagas and executors it reads past.
THEOREM OrphansFound == SweepSpec => []SweepFindsOrphans
<1>1. SInv => SweepFindsOrphans
  <2> SUFFICES ASSUME SInv, sweep.pc = "done", NEW m \in suspects \cap live
               PROVE  Cascaded(prov[m]) \/ Alerted(m)
    BY DEF SweepFindsOrphans, Alerted
  <2>1. Listed(prov[m]) \/ Alerted(m)
    BY DEF SInv, Chased, Ahead
  <2> QED BY <2>1 DEF Listed, Cascaded
<1> QED BY <1>1, SweepInductive, PTL

\* A row the sweep calls an orphan is one: a committed receipt erased its source
\* without it (findOrphanedMemories, the derived rows of a confirmed receipt).
THEOREM OrphansGenuine == SweepSpec => OrphanAlertsAreGenuine
<1> DEFINE Genuine(m) == /\ m \in live /\ Gone(prov[m])
                         /\ \E r \in Receipts : /\ saga[r].pc \in Receipted /\ m \notin saga[r].ids
                                                /\ prov[m] \in {saga[r].src} \cup saga[r].keys
           A == \A m \in Mem : <<"orphaned_memory", m>> \in alerts' \ alerts => Genuine(m)
<1>1. IInv /\ SInv /\ [SweepNext]_<<vars, svars>> => [A]_<<vars, svars>>
  <2> SUFFICES ASSUME IInv, SInv, SweepNext,
                      NEW m \in Mem, <<"orphaned_memory", m>> \in alerts', <<"orphaned_memory", m>> \notin alerts
               PROVE  Genuine(m)
    OBVIOUS
  <2>1. ASSUME m \in live, NEW r \in Receipts, Named(prov[m], r), Gone(prov[m]) PROVE Genuine(m)
    BY <2>1 DEF Named, IInv, Held, ReceiptedGone
  <2>2. CASE SweepReceipt
    <3>1. PICK r \in sweep.receipts : m \in Derived(saga[r].src) \ saga[r].ids
      BY <2>2 DEF SweepReceipt
    <3>2. r \in Receipts /\ saga[r].pc \in Receipted /\ prov[m] = saga[r].src /\ m \in live
      BY <3>1 DEF Derived, SInv, SweepTyped
    <3>3. Gone(prov[m])
      BY <3>2 DEF SInv, Accounted, Gone
    <3> QED BY <3>1, <3>2, <3>3
  <2>3. CASE SweepProbe
    <3>1. PICK s \in sweep.groups : m \in IF row[s] THEN {} ELSE Derived(s)
      BY <2>3 DEF SweepProbe
    <3>2. s \in RowBacked /\ ~row[s] /\ m \in live /\ prov[m] = s
      BY <3>1 DEF Derived, SInv, SweepTyped, AdapterTypes, RowBacked
    <3> QED BY <2>1, <3>2 DEF SInv, Accounted, Gone
  <2>4. CASE SweepObjects
    BY <2>4 DEF SweepObjects
  <2> QED BY <2>2, <2>3, <2>4 DEF SweepNext, SweepStep, SweepBegin, SweepGroups, SweepList, svars
<1> QED BY <1>1, SweepInductive, PTL DEF SweepSpec, OrphanAlertsAreGenuine
=============================================================================
