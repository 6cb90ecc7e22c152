--------------------------- MODULE Retrieval_proofs ---------------------------
(***************************************************************************)
(* Proofs about VectorIndex for any set of memories and writers: outside   *)
(* the four windows the locks keep the point equal to the row, and the     *)
(* nightly pass repairs whatever nobody touches meanwhile.  And about      *)
(* Retrieval over it: whatever the others do to rows and points while a    *)
(* question is answered, the gated read of the rows decides what is shown. *)
(***************************************************************************)
EXTENDS Retrieval, TLAPS

-----------------------------------------------------------------------------
(* The inductive invariant.                                                *)

Holds(w, m) == tx[w].mem = m /\ tx[w].pc \in {"payload", "commit"}

\* One writer at a time holds the row lock of a memory.
Exclusive == \A v, w \in Writers, m \in Mem : Holds(v, m) /\ Holds(w, m) => v = w

\* TypeOK alone is not inductive: excused is filled from the memory at hand.
Aimed ==
    /\ \A w \in Writers : tx[w].pc # "idle" => tx[w].mem \in Mem
    /\ command.pc = "read" => command.mem \in Mem
Typed == TypeOK /\ Aimed

\* What a writer will commit is the row as it read it but for the field it
\* changes; a bulk act sets the status, to outdated.
Prepared(w) ==
    /\ \A m \in Mem : Holds(w, m) =>
          /\ tx[w].kind = "embed" => tx[w].new = CopyOf(row[m])
          /\ tx[w].field # "status" => tx[w].new.status = row[m].status
          /\ tx[w].field # "gate" => tx[w].new.gate = row[m].gate
    /\ tx[w].pc = "payload" => tx[w].kind # "bulk"
    /\ tx[w].pc = "deferred" => tx[w].kind = "bulk"
    /\ tx[w].kind = "bulk" => tx[w].new.status = "outdated" /\ tx[w].field = "status"

Locks == Exclusive /\ \A w \in Writers : Prepared(w)

\* A point carries what the holder of the lock has written to the index, or else
\* what the row says; while a sync is deferred that is true of its gate only.
Ahead(w, m) == Holds(w, m) /\ tx[w].pc = "commit" /\ tx[w].kind # "bulk"
Carries(m, c) == point[m].gate = c.gate /\ (Deferred(m) \/ point[m].status = c.status)
Honest(m) ==
    point[m] # None =>
      /\ \A w \in Writers : Ahead(w, m) => Carries(m, tx[w].new)
      /\ (\A w \in Writers : ~Ahead(w, m)) => Carries(m, row[m])

\* What the pass has read of a memory nobody has touched since is its row, and
\* the point says the same once it is compared and, if stale, written.
Calm(m) ==
    /\ ~Locked(m) /\ ~Deferred(m) /\ command.mem # m
    /\ repair.page[m] # None => repair.page[m] = CopyOf(row[m])
    /\ repair.pc \in {"write", "ended"} /\ m \notin repair.stale /\ repair.page[m] # None => Agree(m)

Ended == repair.pc = "ended" => repair.stale = {}

IInv ==
    /\ Typed
    /\ Locks
    /\ \A m \in Mem \ excused : Honest(m)
    /\ Ended
    /\ \A m \in calm : Calm(m)

-----------------------------------------------------------------------------
LEMMA CopyOfType == ASSUME NEW r \in Rows PROVE CopyOf(r) \in Copies
  BY DEF Rows, Copies, CopyOf

LEMMA EmbeddedType == ASSUME NEW r \in Rows PROVE [r EXCEPT !.embedded = TRUE] \in Rows
  BY DEF Rows

LEMMA SetPayloadType ==
  ASSUME TypeOK, NEW m, NEW f \in Fields, NEW c \in Copies
  PROVE  SetPayload(m, f, c) \in [Mem -> Copies \cup {None}]
<1>1. CASE point[m] = None \/ m \notin Mem
  BY <1>1 DEF TypeOK, SetPayload
<1>2. CASE point[m] # None /\ m \in Mem
  <2>1. point[m] \in Copies
    BY <1>2 DEF TypeOK
  <2>2. [point[m] EXCEPT !["status"] = c["status"]] \in Copies
    BY <2>1 DEF Copies
  <2>3. [point[m] EXCEPT !["gate"] = c["gate"]] \in Copies
    BY <2>1 DEF Copies
  <2>4. [point[m] EXCEPT ![f] = c[f]] \in Copies
    BY <2>2, <2>3 DEF Fields
  <2> QED BY <1>2, <2>4 DEF TypeOK, SetPayload
<1> QED BY <1>1, <1>2

LEMMA TypeInit == Init => Typed
<1> SUFFICES ASSUME Init PROVE Typed
  OBVIOUS
<1> USE DEF Init, TypeOK, Rows, Copies, NoCopy, Idle, Fields
<1>1. PICK e \in [Mem -> BOOLEAN] :
           /\ row = [m \in Mem |-> [status |-> "active", gate |-> FALSE, embedded |-> e[m]]]
           /\ point = [m \in Mem |-> IF e[m] THEN NoCopy ELSE None]
  OBVIOUS
<1>2. row \in [Mem -> Rows]
  BY <1>1
<1>3. point \in [Mem -> Copies \cup {None}]
  BY <1>1
<1> QED BY <1>2, <1>3 DEF Typed, Aimed

LEMMA TypeNext == Typed /\ [Next]_vars => Typed'
<1> SUFFICES ASSUME Typed, [Next]_vars PROVE Typed'
  OBVIOUS
<1> USE DEF Typed, TypeOK, Aimed
<1>a. \A m \in Mem : CopyOf(row[m]) \in Copies
  BY CopyOfType
<1>s. ASSUME NEW w \in Writers, NEW m \in Mem, NEW k \in {"act", "embed"}, NEW f \in Fields,
             NEW c \in Copies, Start(w, k, m, f, c)
      PROVE  Typed'
  BY <1>s DEF Start, Touch
<1>1. ASSUME NEW w \in Writers, NEW m \in Mem, BeginTransition(w, m) PROVE Typed'
  <2>1. PICK s \in {"active", "outdated", "replaced"} :
             Start(w, "act", m, "status", [CopyOf(row[m]) EXCEPT !.status = s])
    BY <1>1 DEF BeginTransition
  <2>2. [CopyOf(row[m]) EXCEPT !.status = s] \in Copies
    BY <1>a DEF Copies
  <2> QED BY <2>1, <2>2, <1>s DEF Fields
<1>2. ASSUME NEW w \in Writers, NEW m \in Mem, BeginToggle(w, m) PROVE Typed'
  <2>1. [CopyOf(row[m]) EXCEPT !.gate = ~@] \in Copies
    BY <1>a DEF Copies
  <2> QED BY <2>1, <1>2, <1>s DEF BeginToggle, Fields
<1>3. ASSUME NEW w \in Writers, NEW m \in Mem, BeginBulk(w, m) PROVE Typed'
  <2>1. [CopyOf(row[m]) EXCEPT !.status = "outdated"] \in Copies
    BY <1>a DEF Copies
  <2> QED BY <2>1, <1>3 DEF BeginBulk, Touch, Fields
<1>4. ASSUME NEW w \in Writers, NEW m \in Mem, BeginEmbed(w, m) PROVE Typed'
  BY <1>a, <1>4, <1>s DEF BeginEmbed, Fields
<1>w. ASSUME NEW w \in Writers PROVE Written(w) \in [Mem -> Copies \cup {None}]
  BY SetPayloadType DEF Written
<1>i. Idle \in [pc : {"idle", "payload", "commit", "deferred"}, kind : {"act", "bulk", "embed"},
                mem : Mem \cup {None}, field : Fields, new : Copies] /\ Idle.pc = "idle"
  BY DEF Idle, NoCopy, Copies, Fields
<1>5. ASSUME NEW w \in Writers, WritePayload(w) PROVE Typed'
  BY <1>5, <1>w DEF WritePayload, Touch
<1>6. ASSUME NEW w \in Writers, RollBack(w) PROVE Typed'
  <2>1. point' \in [Mem -> Copies \cup {None}]
    BY <1>6, <1>w DEF RollBack
  <2>2. excused' \subseteq Mem
    BY <1>6 DEF RollBack, Excuse
  <2> QED BY <1>6, <2>1, <2>2, <1>i DEF RollBack, Touch
<1>7. ASSUME NEW w \in Writers, Commit(w) PROVE Typed'
  <2>1. [status |-> tx[w].new.status, gate |-> tx[w].new.gate,
         embedded |-> row[tx[w].mem].embedded \/ tx[w].kind = "embed"] \in Rows
    BY <1>7 DEF Commit, Copies, Rows
  <2>2. row' \in [Mem -> Rows]
    BY <1>7, <2>1 DEF Commit
  <2>3. /\ tx' \in [Writers -> [pc : {"idle", "payload", "commit", "deferred"}, kind : {"act", "bulk", "embed"},
                                 mem : Mem \cup {None}, field : Fields, new : Copies]]
        /\ \A v \in Writers : tx'[v].pc # "idle" => tx'[v].mem \in Mem
    BY <1>7, <1>i DEF Commit
  <2> QED BY <1>7, <2>2, <2>3 DEF Commit, Touch
<1>8. ASSUME NEW w \in Writers, SyncStatus(w) PROVE Typed'
  <2>1. point' \in [Mem -> Copies \cup {None}]
    BY <1>8, SetPayloadType DEF SyncStatus, Fields
  <2>2. excused' \subseteq Mem
    BY <1>8 DEF SyncStatus, Excuse
  <2> QED BY <1>8, <2>1, <2>2, <1>i DEF SyncStatus, Touch
<1>9. ASSUME NEW w \in Writers, LoseSync(w) PROVE Typed'
  <2>1. excused' \subseteq Mem
    BY <1>9 DEF LoseSync, Excuse
  <2> QED BY <1>9, <2>1, <1>i DEF LoseSync, Touch
<1>10. ASSUME NEW m \in Mem, CommandRead(m) PROVE Typed'
  BY <1>10, <1>a DEF CommandRead, Touch
<1>11. CASE CommandUpsert
  <2>m. command.mem \in Mem
    BY <1>11 DEF CommandUpsert
  <2>a. [row[command.mem] EXCEPT !.embedded = TRUE] \in Rows
    BY <2>m, EmbeddedType
  <2>b. row' = [row EXCEPT ![command.mem].embedded = TRUE]
    BY <1>11 DEF CommandUpsert
  <2>1. row' \in [Mem -> Rows]
    BY <2>m, <2>a, <2>b
  <2>2. excused' \subseteq Mem
    BY <1>11 DEF CommandUpsert, Excuse
  <2>3. NoCopy \in Copies
    BY DEF NoCopy, Copies
  <2> QED BY <1>11, <2>1, <2>2, <2>3 DEF CommandUpsert, Touch
<1>12. CASE RepairRead
  BY <1>12, <1>a DEF RepairRead
<1>13. CASE RepairCompare
  BY <1>13 DEF RepairCompare
<1>14. ASSUME NEW m \in Mem, RepairWrite(m) PROVE Typed'
  <2>1. point' \in [Mem -> Copies \cup {None}]
    BY <1>14 DEF RepairWrite
  <2>2. excused' \subseteq Mem
    BY <1>14 DEF RepairWrite, Excuse
  <2> QED BY <1>14, <2>1, <2>2 DEF RepairWrite
<1>15. CASE RepairEnd
  BY <1>15 DEF RepairEnd
<1>16. CASE RepairIdle \/ RepairCrash
  BY <1>16 DEF RepairIdle, RepairCrash
<1>17. CASE UNCHANGED vars
  BY <1>17 DEF vars
<1> QED BY <1>1, <1>2, <1>3, <1>4, <1>5, <1>6, <1>7, <1>8, <1>9, <1>10, <1>11, <1>12, <1>13,
           <1>14, <1>15, <1>16, <1>17 DEF Next

-----------------------------------------------------------------------------
(* The row locks.                                                          *)

OnlyTx(w) == \A v \in Writers \ {w} : tx'[v] = tx[v]

\* A step that starts a transaction takes a free lock.
LEMMA LocksStart ==
  ASSUME Typed, Locks, NEW w \in Writers, NEW m \in Mem, tx[w].pc = "idle", ~Locked(m),
         OnlyTx(w), row' = row, tx'[w].mem = m,
         tx'[w].kind = "embed" => tx'[w].new = CopyOf(row[m]),
         tx'[w].field # "status" => tx'[w].new.status = row[m].status,
         tx'[w].field # "gate" => tx'[w].new.gate = row[m].gate,
         \/ tx'[w].pc = "payload" /\ tx'[w].kind # "bulk"
         \/ /\ tx'[w].pc = "commit" /\ tx'[w].kind = "bulk"
            /\ tx'[w].new.status = "outdated" /\ tx'[w].field = "status"
  PROVE  Locks'
<1> USE DEF Typed, TypeOK
<1>1. \A v \in Writers \ {w} : tx'[v] = tx[v]
  BY DEF OnlyTx
<1>2. \A v \in Writers \ {w} : ~Holds(v, m)
  BY DEF Locked, Holds
<1>3. Exclusive'
  BY <1>1, <1>2 DEF Locks, Exclusive, Holds
<1>4. ASSUME NEW v \in Writers PROVE Prepared(v)'
  BY <1>1 DEF Locks, Prepared, Holds, CopyOf
<1> QED BY <1>3, <1>4 DEF Locks

\* A step that lets go of a lock, or keeps it, disturbs nobody else's.
LEMMA LocksKept ==
  ASSUME Typed, Locks, NEW w \in Writers, OnlyTx(w),
         \A m \in Mem : ~Holds(w, m) => row'[m] = row[m],
         \/ tx'[w] = [tx[w] EXCEPT !.pc = "commit"] /\ tx[w].pc = "payload" /\ row' = row
         \/ tx'[w] = [tx[w] EXCEPT !.pc = "deferred"] /\ tx[w].pc = "commit" /\ tx[w].kind = "bulk"
         \/ tx'[w] = Idle
  PROVE  Locks'
<1> USE DEF Typed, TypeOK
<1>1. \A v \in Writers \ {w} : tx'[v] = tx[v]
  BY DEF OnlyTx
<1>2. \A v \in Writers, m \in Mem : Holds(v, m)' => Holds(v, m)
  BY <1>1 DEF Holds, Idle
<1>3. Exclusive'
  BY <1>2 DEF Locks, Exclusive
<1>4. ASSUME NEW v \in Writers PROVE Prepared(v)'
  <2>1. CASE v = w
    BY <2>1, <1>1 DEF Locks, Prepared, Holds, CopyOf, Idle
  <2>2. CASE v # w
    <3>1. \A m \in Mem : Holds(v, m)' => Holds(v, m) /\ row'[m] = row[m]
      <4> SUFFICES ASSUME NEW m \in Mem, Holds(v, m)' PROVE Holds(v, m) /\ row'[m] = row[m]
        OBVIOUS
      <4>1. Holds(v, m) /\ ~Holds(w, m)
        BY <1>2, <2>2 DEF Locks, Exclusive
      <4> QED BY <4>1 DEF Holds
    <3> QED BY <3>1, <2>2, <1>1 DEF Locks, Prepared, CopyOf
  <2> QED BY <2>1, <2>2
<1> QED BY <1>3, <1>4 DEF Locks

LEMMA LocksNext == Typed /\ Locks /\ [Next]_vars => Locks'
<1> SUFFICES ASSUME Typed, Locks, [Next]_vars PROVE Locks'
  OBVIOUS
<1> USE DEF Typed, TypeOK
<1>a. \A m \in Mem : CopyOf(row[m]) \in Copies
  BY CopyOfType
<1>s. ASSUME NEW w \in Writers, NEW m \in Mem, NEW k \in {"act", "embed"}, NEW f \in Fields,
             NEW c, Start(w, k, m, f, c),
             k = "embed" => c = CopyOf(row[m]),
             f # "status" => c.status = row[m].status,
             f # "gate" => c.gate = row[m].gate
      PROVE  Locks'
  <2>1. /\ tx[w].pc = "idle" /\ ~Locked(m) /\ row' = row /\ OnlyTx(w)
        /\ tx'[w].pc = "payload" /\ tx'[w].kind = k /\ tx'[w].mem = m /\ tx'[w].field = f /\ tx'[w].new = c
    BY <1>s DEF Start, OnlyTx
  <2> QED BY <1>s, <2>1, LocksStart
<1>1. ASSUME NEW w \in Writers, NEW m \in Mem, BeginTransition(w, m) PROVE Locks'
  <2>1. PICK s \in {"active", "outdated", "replaced"} :
             Start(w, "act", m, "status", [CopyOf(row[m]) EXCEPT !.status = s])
    BY <1>1 DEF BeginTransition
  <2>2. [CopyOf(row[m]) EXCEPT !.status = s].gate = row[m].gate
    BY DEF CopyOf
  <2> QED BY <2>1, <2>2, <1>s DEF Fields
<1>2. ASSUME NEW w \in Writers, NEW m \in Mem, BeginToggle(w, m) PROVE Locks'
  <2>2. [CopyOf(row[m]) EXCEPT !.gate = ~@].status = row[m].status
    BY DEF CopyOf
  <2> QED BY <1>2, <2>2, <1>s DEF BeginToggle, Fields
<1>3. ASSUME NEW w \in Writers, NEW m \in Mem, BeginBulk(w, m) PROVE Locks'
  <2> DEFINE c == [CopyOf(row[m]) EXCEPT !.status = "outdated"]
  <2>1. c.gate = row[m].gate /\ c.status = "outdated"
    BY DEF CopyOf
  <2>2. /\ tx[w].pc = "idle" /\ ~Locked(m) /\ row' = row /\ OnlyTx(w) /\ tx'[w].pc = "commit"
        /\ tx'[w].kind = "bulk" /\ tx'[w].mem = m /\ tx'[w].field = "status" /\ tx'[w].new = c
    BY <1>3 DEF BeginBulk, OnlyTx
  <2> HIDE DEF c
  <2> QED BY <2>1, <2>2, LocksStart
<1>4. ASSUME NEW w \in Writers, NEW m \in Mem, BeginEmbed(w, m) PROVE Locks'
  <2>2. CopyOf(row[m]).gate = row[m].gate /\ CopyOf(row[m]).status = row[m].status
    BY DEF CopyOf
  <2> QED BY <1>4, <2>2, <1>s DEF BeginEmbed, Fields
<1>5. ASSUME NEW w \in Writers, WritePayload(w) PROVE Locks'
  <2>1. /\ tx'[w] = [tx[w] EXCEPT !.pc = "commit"] /\ OnlyTx(w)
        /\ row' = row /\ tx[w].pc = "payload"
    BY <1>5 DEF WritePayload, OnlyTx
  <2> QED BY <2>1, LocksKept
<1>6. ASSUME NEW w \in Writers, RollBack(w) \/ SyncStatus(w) \/ LoseSync(w) PROVE Locks'
  <2>1. tx'[w] = Idle /\ OnlyTx(w) /\ row' = row
    BY <1>6 DEF RollBack, SyncStatus, LoseSync, OnlyTx
  <2> QED BY <2>1, LocksKept
<1>7. ASSUME NEW w \in Writers, Commit(w) PROVE Locks'
  <2>1. \A m \in Mem : ~Holds(w, m) => row'[m] = row[m]
    BY <1>7 DEF Commit, Aimed, Holds
  <2>2. /\ OnlyTx(w) /\ tx[w].pc = "commit"
        /\ \/ tx[w].kind = "bulk" /\ tx'[w] = [tx[w] EXCEPT !.pc = "deferred"]
           \/ tx'[w] = Idle
    BY <1>7 DEF Commit, OnlyTx
  <2> QED BY <2>1, <2>2, LocksKept
<1>8. CASE CommandUpsert
  <2>1. tx' = tx /\ \A m \in Mem : row'[m].status = row[m].status /\ row'[m].gate = row[m].gate
    BY <1>8 DEF CommandUpsert
  <2> QED BY <2>1 DEF Locks, Exclusive, Prepared, Holds, CopyOf
<1>9. CASE UNCHANGED <<row, tx>>
  BY <1>9 DEF Locks, Exclusive, Prepared, Holds, CopyOf
<1>10. \A m \in Mem : CommandRead(m) \/ RepairWrite(m) => UNCHANGED <<row, tx>>
  BY DEF CommandRead, RepairWrite
<1>11. RepairRead \/ RepairCompare \/ RepairEnd \/ RepairIdle \/ RepairCrash \/ UNCHANGED vars
       => UNCHANGED <<row, tx>>
  BY DEF RepairRead, RepairCompare, RepairEnd, RepairIdle, RepairCrash, vars
<1> QED BY <1>1, <1>2, <1>3, <1>4, <1>5, <1>6, <1>7, <1>8, <1>9, <1>10, <1>11 DEF Next

-----------------------------------------------------------------------------
(* What the point carries.                                                 *)

\* A memory that neither its row, its point nor any writer of it changes.
LEMMA HonestKept ==
  ASSUME NEW m \in Mem, Honest(m), point'[m] = point[m],
         row'[m].status = row[m].status, row'[m].gate = row[m].gate,
         \A w \in Writers : (tx'[w].mem = m /\ tx'[w].pc # "idle") \/ (tx[w].mem = m /\ tx[w].pc # "idle")
                           => tx'[w] = tx[w]
  PROVE  Honest(m)'
<1>1. Deferred(m)' <=> Deferred(m)
  BY DEF Deferred
<1>2. \A w \in Writers : /\ Ahead(w, m)' <=> Ahead(w, m)
                         /\ Ahead(w, m) => tx'[w] = tx[w]
  BY DEF Ahead, Holds
<1> QED BY <1>1, <1>2 DEF Honest, Carries

\* A writer about to take the lock of m, or holding it ahead of the index.
LEMMA AheadAlone ==
  ASSUME Locks, NEW w \in Writers, NEW m \in Mem, Holds(w, m), NEW v \in Writers, Ahead(v, m)
  PROVE  v = w
  BY DEF Locks, Exclusive, Ahead

LEMMA HonestNext ==
  ASSUME Typed, Locks, [Next]_vars, \A k \in Mem \ excused : Honest(k),
         NEW m \in Mem \ excused'
  PROVE  Honest(m)'
<1> USE DEF Typed, TypeOK
<1>e. m \notin excused /\ Honest(m)
  <2>1. excused \subseteq excused'
    BY DEF Next, BeginTransition, BeginToggle, BeginEmbed, Start, BeginBulk, WritePayload, RollBack,
           Commit, SyncStatus, LoseSync, CommandRead, CommandUpsert, RepairRead, RepairCompare,
           RepairWrite, RepairEnd, RepairIdle, RepairCrash, Excuse, vars
  <2> QED BY <2>1
<1>s. ASSUME NEW w \in Writers, NEW k \in Mem, tx[w].pc = "idle", ~Locked(k),
             OnlyTx(w), UNCHANGED <<row, point>>, tx'[w].mem = k,
             tx'[w].pc = "payload" \/ (tx'[w].pc = "commit" /\ tx'[w].kind = "bulk")
      PROVE  Honest(m)'
  <2>1. \A v \in Writers \ {w} : tx'[v] = tx[v]
    BY <1>s DEF OnlyTx
  <2>2. CASE k # m
    BY <1>e, <1>s, <2>1, <2>2, HonestKept
  <2>3. CASE k = m
    <3>1. \A v \in Writers : ~Ahead(v, m) /\ ~Ahead(v, m)'
      BY <1>s, <2>1, <2>3 DEF Ahead, Holds, Locked
    <3>2. Deferred(m)' <=> Deferred(m)
      BY <1>s, <2>1 DEF Deferred
    <3> QED BY <1>e, <1>s, <3>1, <3>2 DEF Honest, Carries
  <2> QED BY <2>2, <2>3
<1>1. ASSUME NEW w \in Writers, NEW k \in Mem,
             BeginTransition(w, k) \/ BeginToggle(w, k) \/ BeginEmbed(w, k)
      PROVE  Honest(m)'
  <2>1. /\ tx[w].pc = "idle" /\ ~Locked(k) /\ UNCHANGED <<row, point>> /\ OnlyTx(w)
        /\ tx'[w].pc = "payload" /\ tx'[w].mem = k
    BY <1>1 DEF BeginTransition, BeginToggle, BeginEmbed, Start, OnlyTx
  <2> QED BY <2>1, <1>s
<1>2. ASSUME NEW w \in Writers, NEW k \in Mem, BeginBulk(w, k) PROVE Honest(m)'
  <2>1. /\ tx[w].pc = "idle" /\ ~Locked(k) /\ UNCHANGED <<row, point>> /\ OnlyTx(w)
        /\ tx'[w].pc = "commit" /\ tx'[w].kind = "bulk" /\ tx'[w].mem = k
    BY <1>2 DEF BeginBulk, OnlyTx
  <2> QED BY <2>1, <1>s
<1>3. ASSUME NEW w \in Writers, WritePayload(w) PROVE Honest(m)'
  <2> DEFINE k == tx[w].mem
  <2>1. /\ k \in Mem /\ tx[w].pc = "payload" /\ tx[w].kind # "bulk" /\ Holds(w, k)
        /\ tx' = [tx EXCEPT ![w].pc = "commit"] /\ row' = row /\ point' = Written(w)
    BY <1>3 DEF WritePayload, Aimed, Locks, Prepared, Holds
  <2>2. \A n \in Mem : n # k => point'[n] = point[n]
    BY <2>1 DEF Written, SetPayload
  <2>3. CASE k # m
    BY <1>e, <2>1, <2>2, <2>3, HonestKept
  <2>4. CASE k = m /\ point'[m] # None
    <3>1. \A v \in Writers : ~Ahead(v, m)
      BY <2>1, <2>4, AheadAlone DEF Ahead
    <3>2. \A v \in Writers : Ahead(v, m)' => v = w
      BY <2>1, <3>1 DEF Ahead, Holds
    <3>3. tx'[w].new = tx[w].new /\ (Deferred(m)' <=> Deferred(m))
      BY <2>1 DEF Deferred
    <3>4. Ahead(w, m)'
      BY <2>1, <2>4 DEF Ahead, Holds
    <3>5. CASE tx[w].kind = "embed"
      <4>1. point'[m] = tx[w].new
        BY <2>1, <2>4, <3>5 DEF Written
      <4> QED BY <4>1, <3>2, <3>3, <3>4 DEF Honest, Carries
    <3>6. CASE tx[w].kind # "embed"
      <4>1. point[m] # None /\ Carries(m, row[m])
        BY <1>e, <2>1, <2>4, <3>1, <3>6 DEF Honest, Written, SetPayload
      <4>2. point[m] \in Copies
        BY <4>1
      <4>3. tx[w].field # "status" => tx[w].new.status = row[m].status
        BY <2>1, <2>4 DEF Locks, Prepared
      <4>4. tx[w].field # "gate" => tx[w].new.gate = row[m].gate
        BY <2>1, <2>4 DEF Locks, Prepared
      <4>5. point'[m] = [point[m] EXCEPT ![tx[w].field] = tx[w].new[tx[w].field]]
        BY <2>1, <2>4, <3>6, <4>1 DEF Written, SetPayload
      <4>6. CASE tx[w].field = "status"
        <5>1. point'[m].status = tx[w].new.status /\ point'[m].gate = point[m].gate
          BY <4>2, <4>5, <4>6 DEF Copies
        <5> QED BY <5>1, <4>1, <4>4, <4>6, <3>2, <3>3, <3>4 DEF Honest, Carries
      <4>7. CASE tx[w].field = "gate"
        <5>1. point'[m].gate = tx[w].new.gate /\ point'[m].status = point[m].status
          BY <4>2, <4>5, <4>7 DEF Copies
        <5> QED BY <5>1, <4>1, <4>3, <4>7, <3>2, <3>3, <3>4 DEF Honest, Carries
      <4> QED BY <4>6, <4>7 DEF Fields
    <3> QED BY <3>5, <3>6
  <2>5. CASE k = m /\ point'[m] = None
    BY <2>5 DEF Honest
  <2> QED BY <2>3, <2>4, <2>5
<1>4. ASSUME NEW w \in Writers, RollBack(w) PROVE Honest(m)'
  <2> DEFINE k == tx[w].mem
  <2>1. k \in Mem /\ tx' = [tx EXCEPT ![w] = Idle] /\ row' = row /\ tx[w].pc \in {"payload", "commit"}
    BY <1>4 DEF RollBack, Aimed
  <2>2. CASE k # m
    <3>1. point'[m] = point[m]
      BY <1>4, <2>1, <2>2 DEF RollBack, Written, SetPayload
    <3> QED BY <1>e, <2>1, <2>2, <3>1, HonestKept DEF Idle
  <2>3. CASE k = m
    <3>1. tx[w].kind = "bulk" /\ tx[w].pc = "commit" /\ point' = point
      BY <1>4, <2>1, <2>3 DEF RollBack, Excuse, Locks, Prepared
    <3>2. Holds(w, m)
      BY <2>1, <2>3 DEF Holds
    <3>3. \A v \in Writers : ~Ahead(v, m) /\ ~Ahead(v, m)'
      BY <2>1, <3>1, <3>2, AheadAlone DEF Ahead, Holds, Idle
    <3>4. Deferred(m) => Deferred(m)'
      BY <2>1, <3>1 DEF Deferred
    <3> QED BY <1>e, <2>1, <3>1, <3>3, <3>4 DEF Honest, Carries
  <2> QED BY <2>2, <2>3
<1>5. ASSUME NEW w \in Writers, Commit(w) PROVE Honest(m)'
  <2> DEFINE k == tx[w].mem
  <2>1. k \in Mem /\ tx[w].pc = "commit" /\ point' = point /\ Holds(w, k) /\ OnlyTx(w)
    BY <1>5 DEF Commit, Aimed, Holds, OnlyTx
  <2>2. \/ tx[w].kind = "bulk" /\ tx'[w].mem = k /\ tx'[w].pc = "deferred"
        \/ tx[w].kind # "bulk" /\ tx'[w] = Idle
    BY <1>5 DEF Commit
  <2>3. /\ \A n \in Mem : n # k => row'[n] = row[n]
        /\ row'[k].status = tx[w].new.status /\ row'[k].gate = tx[w].new.gate
    BY <1>5, <2>1 DEF Commit
  <2>4. CASE k # m
    BY <1>e, <2>1, <2>2, <2>3, <2>4, HonestKept DEF OnlyTx, Idle
  <2>5. CASE k = m
    <3>1. \A v \in Writers : Ahead(v, m) => v = w
      BY <2>1, <2>5, AheadAlone
    <3>2. \A v \in Writers : ~Ahead(v, m)'
      BY <2>1, <2>2, <2>5, <3>1 DEF Ahead, Holds, OnlyTx, Idle
    <3>3. CASE tx[w].kind = "bulk"
      <4>1. Deferred(m)'
        BY <2>2, <2>5, <3>3 DEF Deferred
      <4>2. tx[w].new.gate = row[m].gate
        BY <2>1, <2>5, <3>3 DEF Locks, Prepared
      <4>3. \A v \in Writers : ~Ahead(v, m)
        BY <3>1, <3>3 DEF Ahead
      <4> QED BY <1>e, <2>1, <2>3, <2>5, <3>2, <4>1, <4>2, <4>3 DEF Honest, Carries
    <3>4. CASE tx[w].kind # "bulk"
      <4>1. Ahead(w, m)
        BY <2>1, <2>5, <3>4 DEF Ahead
      <4>2. Deferred(m) => Deferred(m)'
        BY <2>1 DEF Deferred, OnlyTx
      <4> QED BY <1>e, <2>1, <2>3, <2>5, <3>2, <4>1, <4>2 DEF Honest, Carries
    <3> QED BY <3>3, <3>4
  <2> QED BY <2>4, <2>5
<1>6. ASSUME NEW w \in Writers, SyncStatus(w) PROVE Honest(m)'
  <2> DEFINE k == tx[w].mem
  <2>1. /\ k \in Mem /\ tx' = [tx EXCEPT ![w] = Idle] /\ row' = row /\ tx[w].pc = "deferred"
        /\ point' = SetPayload(k, "status", tx[w].new)
    BY <1>6 DEF SyncStatus, Aimed
  <2>2. CASE k # m
    <3>1. point'[m] = point[m]
      BY <2>1, <2>2 DEF SetPayload
    <3> QED BY <1>e, <2>1, <2>2, <3>1, HonestKept DEF Idle
  <2>3. CASE k = m /\ point'[m] # None
    <3>1. ~Locked(m) /\ row[m].status = "outdated"
      BY <1>6, <2>3 DEF SyncStatus, Excuse
    <3>2. \A v \in Writers : ~Ahead(v, m) /\ ~Ahead(v, m)'
      BY <2>1, <3>1 DEF Ahead, Holds, Locked, Idle
    <3>3. tx[w].new.status = "outdated"
      BY <2>1 DEF Locks, Prepared
    <3>4. point[m] # None /\ point'[m] = [point[m] EXCEPT !["status"] = tx[w].new["status"]]
      BY <2>1, <2>3 DEF SetPayload
    <3>5. point[m] \in Copies
      BY <3>4
    <3>6. point'[m].status = "outdated" /\ point'[m].gate = point[m].gate
      BY <3>3, <3>4, <3>5 DEF Copies
    <3> QED BY <1>e, <2>1, <3>1, <3>2, <3>4, <3>6 DEF Honest, Carries
  <2>4. CASE k = m /\ point'[m] = None
    BY <2>4 DEF Honest
  <2> QED BY <2>2, <2>3, <2>4
<1>7. ASSUME NEW w \in Writers, LoseSync(w) PROVE Honest(m)'
  <2>1. tx[w].mem # m /\ tx' = [tx EXCEPT ![w] = Idle] /\ UNCHANGED <<row, point>>
    BY <1>7 DEF LoseSync, Excuse
  <2> QED BY <1>e, <2>1, HonestKept DEF Idle
<1>8. CASE CommandUpsert
  <2> DEFINE k == command.mem
  <2>1. k \in Mem /\ tx' = tx /\ \A n \in Mem : row'[n].status = row[n].status /\ row'[n].gate = row[n].gate
    BY <1>8 DEF CommandUpsert, Aimed
  <2>2. CASE k # m
    <3>1. point'[m] = point[m]
      BY <1>8, <2>2 DEF CommandUpsert
    <3> QED BY <1>e, <2>1, <3>1, HonestKept
  <2>3. CASE k = m
    <3>1. ~Locked(m) /\ command.copy = CopyOf(row[m]) /\ point'[m] = command.copy
      BY <1>8, <2>1, <2>3 DEF CommandUpsert, Excuse
    <3>2. \A v \in Writers : ~Ahead(v, m)'
      BY <2>1, <3>1 DEF Ahead, Holds, Locked
    <3>3. point'[m].status = row'[m].status /\ point'[m].gate = row'[m].gate
      BY <2>1, <3>1 DEF CopyOf
    <3> QED BY <3>2, <3>3 DEF Honest, Carries
  <2> QED BY <2>2, <2>3
<1>9. ASSUME NEW k \in Mem, RepairWrite(k) PROVE Honest(m)'
  <2>1. UNCHANGED <<row, tx>>
    BY <1>9 DEF RepairWrite
  <2>2. CASE k # m \/ point[k] = None
    <3>1. point'[m] = point[m]
      BY <1>9, <2>2 DEF RepairWrite
    <3> QED BY <1>e, <2>1, <3>1, HonestKept
  <2>3. CASE k = m /\ point[k] # None
    <3>1. ~Locked(m) /\ point'[m] = CopyOf(row[m])
      BY <1>9, <2>3 DEF RepairWrite, Excuse
    <3>2. \A v \in Writers : ~Ahead(v, m)'
      BY <2>1, <3>1 DEF Ahead, Holds, Locked
    <3>3. point'[m].status = row'[m].status /\ point'[m].gate = row'[m].gate
      BY <2>1, <3>1 DEF CopyOf
    <3> QED BY <3>2, <3>3 DEF Honest, Carries
  <2> QED BY <2>2, <2>3
<1>10. CASE UNCHANGED <<row, point, tx>>
  BY <1>e, <1>10, HonestKept
<1>11. \A k \in Mem : CommandRead(k) => UNCHANGED <<row, point, tx>>
  BY DEF CommandRead
<1>12. RepairRead \/ RepairCompare \/ RepairEnd \/ RepairIdle \/ RepairCrash \/ UNCHANGED vars
       => UNCHANGED <<row, point, tx>>
  BY DEF RepairRead, RepairCompare, RepairEnd, RepairIdle, RepairCrash, vars
<1> QED BY <1>1, <1>2, <1>3, <1>4, <1>5, <1>6, <1>7, <1>8, <1>9, <1>10, <1>11, <1>12 DEF Next

-----------------------------------------------------------------------------
(* The nightly pass.                                                       *)

\* What a step must leave alone for a calm memory to stay calm.
LEMMA CalmKept ==
  ASSUME NEW m \in Mem, Calm(m), row'[m].status = row[m].status, row'[m].gate = row[m].gate,
         point'[m] = point[m], UNCHANGED repair, command'.mem # m,
         \A w \in Writers : tx'[w].mem = m /\ tx'[w].pc # "idle" => tx'[w] = tx[w]
  PROVE  Calm(m)'
  BY DEF Calm, Locked, Deferred, Agree, CopyOf

LEMMA CalmNext ==
  ASSUME Typed, [Next]_vars, Ended, \A k \in calm : Calm(k)
  PROVE  Ended' /\ \A m \in calm' : Calm(m)'
<1> USE DEF Typed, TypeOK
<1>1. ASSUME NEW w \in Writers, NEW k \in Mem,
             BeginTransition(w, k) \/ BeginToggle(w, k) \/ BeginEmbed(w, k) \/ BeginBulk(w, k)
      PROVE  Ended' /\ \A m \in calm' : Calm(m)'
  <2>1. /\ calm' = calm \ {k} /\ UNCHANGED <<row, point, repair, command>>
        /\ OnlyTx(w) /\ tx'[w].mem = k
    BY <1>1 DEF BeginTransition, BeginToggle, BeginEmbed, BeginBulk, Start, Touch, OnlyTx
  <2>2. ASSUME NEW m \in calm' PROVE Calm(m)'
    <3>1. m \in Mem /\ m # k /\ Calm(m) /\ command.mem # m
      BY <2>1 DEF Calm
    <3> QED BY <2>1, <3>1, CalmKept DEF OnlyTx
  <2> QED BY <2>1, <2>2 DEF Ended
<1>2. ASSUME NEW w \in Writers,
             WritePayload(w) \/ RollBack(w) \/ Commit(w) \/ SyncStatus(w) \/ LoseSync(w)
      PROVE  Ended' /\ \A m \in calm' : Calm(m)'
  <2> DEFINE k == tx[w].mem
  <2>1. /\ calm' = calm \ {k} /\ UNCHANGED <<repair, command>> /\ OnlyTx(w)
        /\ tx'[w].mem = k \/ tx'[w].pc = "idle"
    <3>1. CASE WritePayload(w)
      BY <3>1 DEF WritePayload, Touch, OnlyTx
    <3>2. CASE RollBack(w) \/ SyncStatus(w) \/ LoseSync(w)
      <4>1. calm' = calm \ {k} /\ UNCHANGED <<repair, command>> /\ tx' = [tx EXCEPT ![w] = Idle]
        BY <3>2 DEF RollBack, SyncStatus, LoseSync, Touch
      <4> QED BY <4>1 DEF OnlyTx, Idle
    <3>3. CASE Commit(w)
      BY <3>3 DEF Commit, Touch, OnlyTx, Idle
    <3> QED BY <1>2, <3>1, <3>2, <3>3
  <2>2. \A m \in Mem : m # k => row'[m] = row[m]
    BY <1>2 DEF WritePayload, RollBack, Commit, SyncStatus, LoseSync
  <2>3. \A m \in Mem : m # k => point'[m] = point[m]
    BY <1>2 DEF WritePayload, RollBack, Commit, SyncStatus, LoseSync, Written, SetPayload
  <2>4. ASSUME NEW m \in calm' PROVE Calm(m)'
    <3>1. m \in Mem /\ m # k /\ Calm(m) /\ command.mem # m
      BY <2>1 DEF Calm
    <3> QED BY <2>1, <2>2, <2>3, <3>1, CalmKept DEF OnlyTx
  <2> QED BY <2>1, <2>4 DEF Ended
<1>3. ASSUME NEW k \in Mem, CommandRead(k) PROVE Ended' /\ \A m \in calm' : Calm(m)'
  <2>1. calm' = calm \ {k} /\ UNCHANGED <<row, point, tx, repair>> /\ command'.mem = k
    BY <1>3 DEF CommandRead, Touch
  <2>2. ASSUME NEW m \in calm' PROVE Calm(m)'
    BY <2>1, CalmKept
  <2> QED BY <2>1, <2>2 DEF Ended
<1>4. CASE CommandUpsert
  <2> DEFINE k == command.mem
  <2>1. /\ calm' = calm \ {k} /\ UNCHANGED <<tx, repair>> /\ command'.mem = None
        /\ \A m \in Mem : row'[m].status = row[m].status /\ row'[m].gate = row[m].gate
        /\ \A m \in Mem : m # k => point'[m] = point[m]
    BY <1>4 DEF CommandUpsert, Touch
  <2>2. ASSUME NEW m \in calm' PROVE Calm(m)'
    <3>1. m \in Mem /\ m # k /\ Calm(m) /\ m # None
      BY <2>1, NoneAssumption
    <3> QED BY <2>1, <3>1, CalmKept
  <2> QED BY <2>1, <2>2 DEF Ended
<1>5. CASE RepairRead
  <2>1. ASSUME NEW m \in calm' PROVE Calm(m)'
    BY <1>5 DEF RepairRead, Calm, Locked, Deferred
  <2> QED BY <1>5, <2>1 DEF RepairRead, Ended
<1>6. CASE RepairCompare
  <2>1. ASSUME NEW m \in calm' PROVE Calm(m)'
    <3>1. m \in Mem /\ Calm(m) /\ UNCHANGED <<row, point, tx, command>> /\ repair'.page = repair.page
      BY <1>6 DEF RepairCompare
    <3>2. m \notin repair'.stale /\ repair.page[m] # None => point[m] = None \/ point[m] = repair.page[m]
      BY <1>6, <3>1 DEF RepairCompare, Differs
    <3> QED BY <3>1, <3>2 DEF Calm, Locked, Deferred, Agree
  <2> QED BY <1>6, <2>1 DEF RepairCompare, Ended
<1>7. ASSUME NEW k \in Mem, RepairWrite(k) PROVE Ended' /\ \A m \in calm' : Calm(m)'
  <2>1. /\ UNCHANGED <<row, tx, command, calm>> /\ repair.pc = "write" /\ repair'.pc = "write"
        /\ repair'.page = repair.page /\ repair'.stale = repair.stale \ {k}
        /\ \A m \in Mem : m # k => point'[m] = point[m]
        /\ point'[k] = None \/ point'[k] = repair.page[k]
    BY <1>7 DEF RepairWrite
  <2>2. ASSUME NEW m \in calm' PROVE Calm(m)'
    <3>1. m \in Mem /\ Calm(m)
      BY <2>1
    <3>2. CASE m = k
      BY <2>1, <3>1, <3>2 DEF Calm, Locked, Deferred, Agree
    <3>3. CASE m # k
      BY <2>1, <3>1, <3>3 DEF Calm, Locked, Deferred, Agree
    <3> QED BY <3>2, <3>3
  <2> QED BY <2>1, <2>2 DEF Ended
<1>8. CASE RepairEnd
  <2>1. /\ UNCHANGED <<row, point, tx, command, calm>> /\ repair.pc = "write" /\ repair.stale = {}
        /\ repair'.page = repair.page /\ repair'.stale = repair.stale
    BY <1>8 DEF RepairEnd
  <2>2. ASSUME NEW m \in calm' PROVE Calm(m)'
    BY <2>1 DEF Calm, Locked, Deferred, Agree
  <2> QED BY <2>1, <2>2 DEF Ended
<1>9. CASE RepairIdle \/ RepairCrash
  BY <1>9 DEF RepairIdle, RepairCrash, Ended
<1>10. CASE UNCHANGED vars
  BY <1>10 DEF vars, Ended, Calm, Locked, Deferred, Agree
<1> QED BY <1>1, <1>2, <1>3, <1>4, <1>5, <1>6, <1>7, <1>8, <1>9, <1>10 DEF Next

-----------------------------------------------------------------------------
(* The theorems.                                                           *)

LEMMA InvInit == Init => IInv
<1> SUFFICES ASSUME Init PROVE IInv
  OBVIOUS
<1>1. Typed
  BY TypeInit
<1>2. \A w \in Writers : tx[w].pc = "idle" /\ tx[w].kind = "act"
  BY DEF Init, Idle
<1>3. \A m \in Mem : /\ row[m].status = "active" /\ row[m].gate = FALSE
                     /\ point[m] = None \/ point[m] = NoCopy
  <2>1. PICK e \in [Mem -> BOOLEAN] :
             /\ row = [m \in Mem |-> [status |-> "active", gate |-> FALSE, embedded |-> e[m]]]
             /\ point = [m \in Mem |-> IF e[m] THEN NoCopy ELSE None]
    BY DEF Init
  <2> QED BY <2>1
<1>4. \A m \in Mem : Honest(m)
  <2>1. NoCopy.status = "active" /\ NoCopy.gate = FALSE
    BY DEF NoCopy
  <2>2. \A w \in Writers, m \in Mem : ~Ahead(w, m)
    BY <1>2 DEF Ahead
  <2> QED BY <1>3, <2>1, <2>2 DEF Honest, Carries
<1>5. Locks
  BY <1>2 DEF Locks, Exclusive, Prepared, Holds
<1>6. Ended /\ calm = {}
  BY DEF Init, Ended
<1> QED BY <1>1, <1>4, <1>5, <1>6 DEF IInv

LEMMA InvNext == IInv /\ [Next]_vars => IInv'
<1> SUFFICES ASSUME IInv, [Next]_vars PROVE IInv'
  OBVIOUS
<1>1. Typed /\ Locks /\ Ended
  BY DEF IInv
<1>2. Typed' /\ Locks'
  BY <1>1, TypeNext, LocksNext
<1>3. \A m \in Mem \ excused' : Honest(m)'
  BY <1>1, HonestNext DEF IInv
<1>4. Ended' /\ \A m \in calm' : Calm(m)'
  BY <1>1, CalmNext DEF IInv
<1> QED BY <1>2, <1>3, <1>4 DEF IInv

\* VectorIndex keeps its type: no step writes half a payload or leaves a
\* writer without its memory (MemoryStore, MemoryVectorStore).
THEOREM TypeCorrect == Spec => []TypeOK
<1>1. IInv => TypeOK
  BY DEF IInv, Typed
<1> QED BY <1>1, InvInit, InvNext, PTL DEF Spec

\* transitionInTx, setScope, bulkMarkOutdatedForOwner, runMemoryEmbedJob: with
\* the row lock held to the commit, outside the four recorded windows, a point
\* says what its row says whenever no act on the memory is under way.
THEOREM LocksHonest == Spec => []LocksKeepCopiesHonest
<1>1. IInv => LocksKeepCopiesHonest
  <2> SUFFICES ASSUME IInv, NEW m \in Mem, ~Locked(m), ~Deferred(m), m \notin excused, point[m] # None
               PROVE  point[m] = CopyOf(row[m])
    BY DEF LocksKeepCopiesHonest, Agree
  <2>1. point[m] \in Copies /\ Honest(m)
    BY DEF IInv, Typed, TypeOK
  <2>2. \A w \in Writers : ~Ahead(w, m)
    BY DEF Ahead, Holds, Locked
  <2> QED BY <2>1, <2>2 DEF Honest, Carries, CopyOf, Copies
<1> QED BY <1>1, InvInit, InvNext, PTL DEF Spec

\* syncStatusPayloads trusts the nightly pass (reconcilePayloads) with whatever
\* went wrong: at its end every memory nobody else touched agrees with its row.
THEOREM PassRepairs == Spec => []RepairConverges
<1>1. IInv => RepairConverges
  BY DEF IInv, Ended, Calm, RepairConverges
<1> QED BY <1>1, InvInit, InvNext, PTL DEF Spec

-----------------------------------------------------------------------------
(* The inductive invariant: what was read was so at some moment since the  *)
(* question, and so is what the row says now.                              *)

SearchType ==
    /\ search \in [pc : {"idle", "signals", "vectors", "resolved", "answered"}, mode : Modes,
                   hits : SUBSET Mem, rows : [Mem -> {None, "replaced", "current"}]]
    /\ shown \subseteq Mem
    /\ seen \in [Mem -> SUBSET {"open", "current"}]

Watching == search.pc # "idle" => \A m \in Mem : Was(row[m]) \subseteq seen[m]

ReadThen ==
    \A m \in Mem : search.rows[m] # None =>
       "open" \in seen[m] /\ (search.rows[m] # "replaced" => "current" \in seen[m])

RInv == SearchType /\ Watching /\ ReadThen /\ ShownWasReadable /\ ShownWasCurrent

-----------------------------------------------------------------------------
LEMMA WasType == \A r : Was(r) \in SUBSET {"open", "current"}
  BY DEF Was

LEMMA RInvInit == RInit => RInv
  BY DEF RInit, RInv, SearchType, Resting, Modes, Watching, ReadThen, ShownWasReadable, ShownWasCurrent

\* Rows read in a gated statement now: open, and current unless replaced.
LEMMA GatedRead ==
  ASSUME RInv, search.pc # "idle", UNCHANGED seen, NEW R \in SUBSET {m \in Mem : VisibleTo(m)},
         search'.rows = [m \in Mem |-> IF m \in R THEN Standing(row[m]) ELSE search.rows[m]]
  PROVE  ReadThen' /\ search'.rows \in [Mem -> {None, "replaced", "current"}]
<1>1. ASSUME NEW m \in R
      PROVE  "open" \in seen[m] /\ (Standing(row[m]) # "replaced" => "current" \in seen[m])
  BY DEF RInv, Watching, VisibleTo, Was, Standing
<1>2. search'.rows \in [Mem -> {None, "replaced", "current"}]
  BY DEF RInv, SearchType, Standing
<1>3. ReadThen'
  BY <1>1 DEF RInv, ReadThen
<1> QED BY <1>2, <1>3

LEMMA RInvNext == RInv /\ [RNext]_rvars => RInv'
<1> SUFFICES ASSUME RInv, [RNext]_rvars PROVE RInv'
  OBVIOUS
<1> USE DEF RInv, SearchType
<1>1. CASE Elsewhere
  <2>1. UNCHANGED <<search, shown>> /\ seen' \in [Mem -> SUBSET {"open", "current"}]
    BY <1>1, WasType DEF Elsewhere
  <2>2. \A m \in Mem : seen[m] \subseteq seen'[m]
    BY <1>1 DEF Elsewhere
  <2>3. Watching'
    BY <1>1 DEF Elsewhere, Watching
  <2> QED BY <2>1, <2>2, <2>3 DEF ReadThen, ShownWasReadable, ShownWasCurrent
<1>2. ASSUME NEW k \in Modes, Ask(k) PROVE RInv'
  <2>1. /\ shown' = {} /\ row' = row /\ seen' = [m \in Mem |-> Was(row[m])]
        /\ search' = [Resting EXCEPT !.pc = "signals", !.mode = k]
    BY <1>2 DEF Ask, vars
  <2>2. SearchType' /\ \A m \in Mem : search'.rows[m] = None
    BY <2>1, WasType DEF Resting, Modes
  <2> QED BY <2>1, <2>2 DEF Watching, ReadThen, ShownWasReadable, ShownWasCurrent
<1>3. CASE VectorSignal
  <2>1. /\ UNCHANGED <<shown, seen>> /\ row' = row /\ search.pc = "signals"
        /\ \E H \in SUBSET Mem : search' = [search EXCEPT !.pc = "vectors", !.hits = @ \cup H]
    BY <1>3 DEF VectorSignal, vars
  <2>2. SearchType' /\ search'.rows = search.rows /\ search'.mode = search.mode
    BY <2>1
  <2> QED BY <2>1, <2>2 DEF Watching, ReadThen, ShownWasReadable, ShownWasCurrent
<1>4. CASE RowSignals
  <2>1. PICK R \in SUBSET {m \in Mem : VisibleTo(m)} :
             search' = [search EXCEPT !.rows = [m \in Mem |-> IF m \in R THEN Standing(row[m]) ELSE @[m]]]
    BY <1>4 DEF RowSignals
  <2>2. UNCHANGED <<shown, seen>> /\ row' = row /\ search.pc # "idle"
    BY <1>4 DEF RowSignals, vars
  <2>3. search'.rows = [m \in Mem |-> IF m \in R THEN Standing(row[m]) ELSE search.rows[m]]
    BY <2>1
  <2>4. ReadThen' /\ search'.rows \in [Mem -> {None, "replaced", "current"}]
    BY <2>2, <2>3, GatedRead
  <2> QED BY <2>1, <2>2, <2>4 DEF Watching, ShownWasReadable, ShownWasCurrent
<1>5. CASE Resolve
  <2> DEFINE R == {m \in search.hits : search.rows[m] = None /\ VisibleTo(m)}
  <2>1. /\ UNCHANGED <<shown, seen>> /\ row' = row /\ search.pc = "vectors"
        /\ search'.rows = [m \in Mem |-> IF m \in R THEN Standing(row[m]) ELSE search.rows[m]]
        /\ search'.pc = "resolved" /\ search'.hits = {} /\ search'.mode = search.mode
        /\ search' = [search EXCEPT !.pc = "resolved", !.hits = {}, !.rows = search'.rows]
    BY <1>5 DEF Resolve, vars
  <2>2. R \in SUBSET {m \in Mem : VisibleTo(m)}
    OBVIOUS
  <2>3. ReadThen' /\ search'.rows \in [Mem -> {None, "replaced", "current"}]
    BY <2>1, <2>2, GatedRead
  <2> QED BY <2>1, <2>3 DEF Watching, ShownWasReadable, ShownWasCurrent
<1>6. CASE Rank
  <2>1. /\ seen' = seen /\ row' = row /\ search.pc = "resolved"
        /\ shown' \subseteq {m \in Mem : search.rows[m] # None /\ ~Excluded(search.rows[m])}
        /\ search' = [search EXCEPT !.pc = "answered", !.rows = Resting.rows]
    BY <1>6 DEF Rank, vars
  <2>2. Resting.rows = [m \in Mem |-> None]
    BY DEF Resting
  <2>3. SearchType' /\ Watching' /\ ReadThen'
    BY <2>1, <2>2 DEF Watching, ReadThen
  <2>4. ShownWasReadable' /\ ShownWasCurrent'
    BY <2>1 DEF ReadThen, Excluded, ShownWasReadable, ShownWasCurrent
  <2> QED BY <2>3, <2>4
<1>7. CASE Close
  <2>1. search' = Resting /\ shown' = {} /\ seen' = [m \in Mem |-> {}]
    BY <1>7 DEF Close
  <2>2. SearchType' /\ search'.pc = "idle" /\ \A m \in Mem : search'.rows[m] = None
    BY <2>1 DEF Resting, Modes
  <2> QED BY <2>1, <2>2 DEF Watching, ReadThen, ShownWasReadable, ShownWasCurrent
<1>8. CASE UNCHANGED rvars
  BY <1>8 DEF rvars, vars, Watching, ReadThen, ShownWasReadable, ShownWasCurrent
<1> QED BY <1>1, <1>2, <1>3, <1>4, <1>5, <1>6, <1>7, <1>8 DEF RNext

-----------------------------------------------------------------------------
(* The theorems.                                                           *)

\* getManyForPrincipal and visibleTo: nothing is shown that was closed to the
\* asker from the question to the answer, even where its payload was open.
THEOREM ShownReadable == RSpec => []ShownWasReadable
<1>1. RInv => ShownWasReadable
  BY DEF RInv
<1> QED BY <1>1, RInvInit, RInvNext, PTL DEF RSpec

\* fuseAndRank, gatherEntityProfile: an ordinary answer leaves out what had been
\* replaced before the question, since it ranks by the row and not the payload.
THEOREM ShownCurrent == RSpec => []ShownWasCurrent
<1>1. RInv => ShownWasCurrent
  BY DEF RInv
<1> QED BY <1>1, RInvInit, RInvNext, PTL DEF RSpec

\* A retrieval only reads: with one in the middle the stores behave as
\* VectorIndex says, and its theorems hold of the composition.
THEOREM ReadsOnly == RSpec => Spec
<1>1. RInit => Init
  BY DEF RInit
<1>2. [RNext]_rvars => [Next]_vars
  BY DEF RNext, rvars, Elsewhere, Ask, VectorSignal, RowSignals, Resolve, Rank, Close
<1> QED BY <1>1, <1>2, PTL DEF RSpec, Spec
=============================================================================
