--------------------------------- MODULE Tasks ---------------------------------
(***************************************************************************)
(* The task engine beside its users: tasks derive from commitments, are    *)
(* judged against new facts, follow supersession, are reminded of, closed  *)
(* by hand or by a fact, and conclude into sources of their own.           *)
(*                                                                         *)
(* Actors: engine passes (processSource of one memory, under its           *)
(* idempotency key, and the nightly backfill), each one transaction with   *)
(* model calls inside; the owner (complete, dismiss, reopen, adopt); the   *)
(* reminders and the one-shot cleanup; the pipeline, reconciliation and    *)
(* the saga, which admit, supersede and erase memories underneath.  A step *)
(* of a pass ends where it waits for a row lock, the model or another      *)
(* connection; it sees committed rows and its own writes, and the others   *)
(* see those at its commit (READ COMMITTED).  Titles, people, due dates,   *)
(* scopes and dormancy are left out.                                       *)
(***************************************************************************)
EXTENDS Naturals, FiniteSets

CONSTANTS
    Own,       \* memories of deriving kind in the user's own words
    Observed,  \* memories of deriving kind from files, web, inbound mail
    Facts,     \* memories that derive nothing; conclusions are admitted as such
    Task,      \* task ids
    Passes,    \* worker slots that run engine passes
    None

Mem == Own \cup Observed \cup Facts

Open    == {"open", "blocked"}
Settled == {"done", "dismissed"}
Rows    == [mem : Mem, st : Open \cup Settled, cond : {"none", "waiting", "met"},
            adopted : BOOLEAN, stamped : BOOLEAN]

ASSUME TasksAssumption ==
    /\ Own \cap Observed = {} /\ (Own \cup Observed) \cap Facts = {} /\ IsFiniteSet(Mem)
    /\ None \notin Mem /\ None \notin Passes /\ None \notin Rows

VARIABLES
    mem,        \* memory |-> status and superseded_by
    task,       \* task |-> its committed row, or None
    minted,     \* task ids that have been committed
    processed,  \* committed idempotency keys of the derive job
    outbox,     \* <<task, type>> of conclusion rows whose pipeline job is queued
    concluded,  \* tasks a conclusion row names
    touched,    \* tasks with a user's act in the audit log
    pass,       \* slot |-> the engine transaction
    cleanup     \* the cleanup transaction: pc, the tasks locked, those spared

vars == <<mem, task, minted, processed, outbox, concluded, touched, pass, cleanup>>
books == <<minted, outbox, concluded, touched>>

NoRows  == [t \in Task |-> None]
Idle    == [pc |-> "idle", fact |-> None, target |-> None, verdict |-> "closes",
            list |-> NoRows, buf |-> NoRows, out |-> {}]
Resting == [pc |-> "idle", all |-> {}, spared |-> {}]

NewTask(m, waits, adopted) ==
    [mem |-> m, st |-> IF waits THEN "blocked" ELSE "open",
     cond |-> IF waits THEN "waiting" ELSE "none", adopted |-> adopted, stamped |-> FALSE]

\* A task the rule before 0030 derived from somebody else's words may be there.
Init ==
    /\ \E old \in {None} \cup Observed, t \in Task :
          /\ task = [NoRows EXCEPT ![t] = IF old = None THEN None ELSE NewTask(old, FALSE, FALSE)]
          /\ minted = IF old = None THEN {} ELSE {t}
          /\ processed = {old} \ {None}
          /\ mem = [m \in Mem |-> [st |-> IF m = old THEN "active" ELSE "unborn", next |-> None]]
    /\ outbox = {} /\ concluded = {} /\ touched = {}
    /\ pass = [p \in Passes |-> Idle]
    /\ cleanup = Resting

-----------------------------------------------------------------------------
\* The row a pass sees: its own write, else the committed one.
See(p, t) == IF pass[p].buf[t] # None THEN pass[p].buf[t] ELSE task[t]

\* Mutant of Held: the cleanup reads the tasks without FOR UPDATE.
HeldByPass(t, p) == \E q \in Passes \ {p} : pass[q].buf[t] # None

\* The row lock of t belongs to somebody else than p.
Held(t, p) == (\E q \in Passes \ {p} : pass[q].buf[t] # None) \/ t \in cleanup.all

Unminted == {t \in Task \ minted : \A p \in Passes : pass[p].buf[t] = None}
\* The unique index on derived_from_memory_id: a committed task of m, or an
\* uncommitted one that makes the insert wait.
Taken(m)      == \E t \in Task : task[t] # None /\ task[t].mem = m
Pending(m, p) == \E q \in Passes \ {p}, t \in Task : pass[q].buf[t] # None /\ pass[q].buf[t].mem = m

Current(m)   == mem[m].st \in {"active", "uncertain"}
Derivable(m) == m \in Own /\ Current(m)

\* The chain is followed over superseded_by to its newest memory.
Head(m) ==
    LET hop[n \in 0..Cardinality(Mem)] ==
          IF n = 0 THEN m
          ELSE IF mem[hop[n - 1]].next = None THEN hop[n - 1] ELSE mem[hop[n - 1]].next
    IN hop[Cardinality(Mem)]

-----------------------------------------------------------------------------
(* One engine pass.                                                        *)

\* deriveTask: ON CONFLICT DO NOTHING, else a new row blocked on the condition
\* its text names, or open.
Derived(p, m) ==
    IF Derivable(m) /\ ~Taken(m)
      THEN {[NoRows EXCEPT ![new[1]] = NewTask(m, new[2], FALSE)] : new \in Unminted \X BOOLEAN}
      ELSE {NoRows}

\* processSource of an admitted memory: derive, then judge if it is verified.
StartSource(p, m) ==
    /\ pass[p].pc = "idle" /\ m \notin processed
    /\ mem[m].st \notin {"unborn", "erased"}
    /\ \A q \in Passes : pass[q].fact # m
    /\ ~Pending(m, p)
    /\ \E buf \in Derived(p, m) :
          pass' = [pass EXCEPT ![p] = [Idle EXCEPT !.fact = m, !.buf = buf,
                       !.pc = IF mem[m].st = "active" THEN "judging" ELSE "listing"]]
    /\ UNCHANGED <<mem, task, processed, books, cleanup>>

\* backfill: the same derivation for every current commitment, no judgement.
StartBackfill(p) ==
    /\ pass[p].pc = "idle"
    /\ \E m \in {k \in Own : Derivable(k)} : ~Pending(m, p) /\
         \E buf \in Derived(p, m) :
            pass' = [pass EXCEPT ![p] = [Idle EXCEPT !.buf = buf, !.pc = "listing"]]
    /\ UNCHANGED <<mem, task, processed, books, cleanup>>

\* candidateTasks reads the open tasks on another connection; the model judges
\* one of them, closure first, then the condition it waits for.
Judge(p) ==
    /\ pass[p].pc = "judging"
    /\ \E t \in Task :
          /\ task[t] # None /\ task[t].st \in Open /\ task[t].mem # pass[p].fact
          /\ \E v \in {"closes"} \cup (IF task[t].st = "blocked" THEN {"satisfied"} ELSE {}) :
                pass' = [pass EXCEPT ![p].pc = "judged", ![p].target = t, ![p].verdict = v]
    /\ UNCHANGED <<mem, task, processed, books, cleanup>>

\* Nothing (more) is judged to close or to be satisfied.
JudgeNone(p) ==
    /\ pass[p].pc = "judging"
    /\ pass' = [pass EXCEPT ![p].pc = "listing"]
    /\ UNCHANGED <<mem, task, processed, books, cleanup>>

Write(p, t, r, out) ==
    pass' = [pass EXCEPT ![p] = [pass[p] EXCEPT !.pc = "listing", !.target = None,
                 !.buf = [pass[p].buf EXCEPT ![t] = r], !.out = pass[p].out \cup out]]

\* Mutant of Settle: the reminder stamps stay on the closed task.
SettleKeepingStamps(p) ==
    /\ pass[p].pc = "judged" /\ pass[p].verdict = "closes" /\ ~Held(pass[p].target, p)
    /\ LET t == pass[p].target
           r == See(p, t)
       IN IF r # None /\ r.st \in Open
            THEN Write(p, t, [r EXCEPT !.st = "done"], {<<t, "closed">>})
            ELSE pass' = [pass EXCEPT ![p].pc = "listing", ![p].target = None]
    /\ UNCHANGED <<mem, task, processed, books, cleanup>>

\* settle: the row is locked and looked at again; the conclusion goes into the
\* outbox of the same transaction.
Settle(p) ==
    /\ pass[p].pc = "judged" /\ pass[p].verdict = "closes" /\ ~Held(pass[p].target, p)
    /\ LET t == pass[p].target
           r == See(p, t)
       IN IF r # None /\ r.st \in Open
            THEN Write(p, t, [r EXCEPT !.st = "done", !.stamped = FALSE], {<<t, "closed">>})
            ELSE pass' = [pass EXCEPT ![p].pc = "listing", ![p].target = None]
    /\ UNCHANGED <<mem, task, processed, books, cleanup>>

\* Mutant of Unblock: the row is not looked at again under its lock.
UnblockJudged(p) ==
    /\ pass[p].pc = "judged" /\ pass[p].verdict = "satisfied" /\ ~Held(pass[p].target, p)
    /\ LET t == pass[p].target
           r == See(p, t)
       IN IF r # None
            THEN Write(p, t, [r EXCEPT !.st = "open", !.cond = "met"], {<<t, "met">>})
            ELSE pass' = [pass EXCEPT ![p].pc = "listing", ![p].target = None]
    /\ UNCHANGED <<mem, task, processed, books, cleanup>>

\* unblock, likewise.
Unblock(p) ==
    /\ pass[p].pc = "judged" /\ pass[p].verdict = "satisfied" /\ ~Held(pass[p].target, p)
    /\ LET t == pass[p].target
           r == See(p, t)
       IN IF r # None /\ r.st = "blocked" /\ r.cond # "met"
            THEN Write(p, t, [r EXCEPT !.st = "open", !.cond = "met"], {<<t, "met">>})
            ELSE pass' = [pass EXCEPT ![p].pc = "listing", ![p].target = None]
    /\ UNCHANGED <<mem, task, processed, books, cleanup>>

\* maintain lists the open tasks and their memories, without locks.  What is on
\* the list are the tasks whose memory has been superseded.
List(p) ==
    /\ pass[p].pc = "listing"
    /\ pass' = [pass EXCEPT ![p].pc = "maintaining",
         ![p].list = [t \in Task |->
            LET r == See(p, t) IN
            IF r # None /\ r.st \in Open /\ mem[r.mem].next # None THEN r.mem ELSE None]]
    /\ UNCHANGED <<mem, task, processed, books, cleanup>>

\* One task of the list: follow its memory to the head, look whether a task
\* derives from the head already, and update the row, whatever it has become:
\* the head's only task, this one included, makes it a duplicate.
Maintain(p, t) ==
    /\ pass[p].pc = "maintaining" /\ pass[p].list[t] # None /\ ~Held(t, p)
    /\ LET r == See(p, t)
           h == Head(pass[p].list[t])
           dup == \E k \in Task : See(p, k) # None /\ See(p, k).mem = h
       IN /\ ~Pending(h, p)
          /\ pass' = [pass EXCEPT ![p] = [pass[p] EXCEPT
                !.list = [pass[p].list EXCEPT ![t] = None],
                !.buf = IF r = None \/ h = pass[p].list[t] THEN pass[p].buf
                        ELSE IF dup THEN [pass[p].buf EXCEPT ![t] = [r EXCEPT !.st = "dismissed", !.stamped = FALSE]]
                        ELSE [pass[p].buf EXCEPT ![t] = [r EXCEPT !.mem = h]]]]
    /\ UNCHANGED <<mem, task, processed, books, cleanup>>

\* Rows, conclusions, pipeline jobs and the idempotency key in one commit.
Commit(p) ==
    /\ pass[p].pc = "maintaining" /\ pass[p].list = NoRows
    /\ task' = [t \in Task |-> See(p, t)]
    /\ minted' = minted \cup {t \in Task : pass[p].buf[t] # None}
    /\ outbox' = outbox \cup pass[p].out
    /\ concluded' = concluded \cup {c[1] : c \in pass[p].out}
    /\ processed' = processed \cup ({pass[p].fact} \ {None})
    /\ pass' = [pass EXCEPT ![p] = Idle]
    /\ UNCHANGED <<mem, touched, cleanup>>

\* The model fails, the database breaks a deadlock, the worker dies: nothing of
\* the pass remains, and the job is delivered again.
Abort(p) ==
    /\ pass[p].pc # "idle"
    /\ pass' = [pass EXCEPT ![p] = Idle]
    /\ UNCHANGED <<mem, task, processed, books, cleanup>>

-----------------------------------------------------------------------------
(* The owner.                                                              *)

\* Mutant of Complete: the conclusion is left to the engine.
CompleteSilently(t) ==
    /\ task[t] # None /\ task[t].st \in Open /\ ~Held(t, None)
    /\ task' = [task EXCEPT ![t].st = "done", ![t].stamped = FALSE]
    /\ touched' = touched \cup {t}
    /\ UNCHANGED <<mem, minted, processed, outbox, concluded, pass, cleanup>>

\* complete: concludes too.
Complete(t) ==
    /\ task[t] # None /\ task[t].st \in Open /\ ~Held(t, None)
    /\ task' = [task EXCEPT ![t].st = "done", ![t].stamped = FALSE]
    /\ outbox' = outbox \cup {<<t, "closed">>}
    /\ concluded' = concluded \cup {t}
    /\ touched' = touched \cup {t}
    /\ UNCHANGED <<mem, minted, processed, pass, cleanup>>

Dismiss(t) ==
    /\ task[t] # None /\ task[t].st \in Open /\ ~Held(t, None)
    /\ task' = [task EXCEPT ![t].st = "dismissed", ![t].stamped = FALSE]
    /\ touched' = touched \cup {t}
    /\ UNCHANGED <<mem, minted, processed, outbox, concluded, pass, cleanup>>

Reopen(t) ==
    /\ task[t] # None /\ task[t].st \in Settled /\ ~Held(t, None)
    /\ task' = [task EXCEPT ![t].st = IF task[t].cond = "waiting" THEN "blocked" ELSE "open",
                            ![t].stamped = FALSE]
    /\ touched' = touched \cup {t}
    /\ UNCHANGED <<mem, minted, processed, outbox, concluded, pass, cleanup>>

\* adoptFromMemory: any memory of one's own; a memory that carries a task
\* returns it as it is.
Adopt(m) ==
    /\ mem[m].st \notin {"unborn", "erased"} /\ ~Taken(m) /\ ~Pending(m, None)
    /\ \E t \in Unminted, waits \in BOOLEAN :
          /\ task' = [task EXCEPT ![t] = NewTask(m, waits, TRUE)]
          /\ minted' = minted \cup {t} /\ touched' = touched \cup {t}
    /\ UNCHANGED <<mem, processed, outbox, concluded, pass, cleanup>>

-----------------------------------------------------------------------------
\* Mutant of Reminders: the open tasks are read without FOR UPDATE and the
\* stamps written when their locks are free.
RemindersUnlocked ==
    /\ \E S \in SUBSET {t \in minted : task[t] # None /\ ~task[t].stamped} :
          S # {} /\ task' = [t \in Task |-> IF t \in S THEN [task[t] EXCEPT !.stamped = TRUE] ELSE task[t]]
    /\ UNCHANGED <<mem, processed, books, pass, cleanup>>

\* runReminders: the open tasks FOR UPDATE, stamps where due or dormant.
Reminders ==
    /\ \A t \in Task : task[t] # None /\ task[t].st \in Open => ~Held(t, None)
    /\ \E S \in SUBSET {t \in Task : task[t] # None /\ task[t].st \in Open /\ ~task[t].stamped} :
          S # {} /\ task' = [t \in Task |-> IF t \in S THEN [task[t] EXCEPT !.stamped = TRUE] ELSE task[t]]
    /\ UNCHANGED <<mem, processed, books, pass, cleanup>>

\* derivationCleanup: every task FOR UPDATE, then the audit log and conclusions.
CleanupRead ==
    /\ cleanup.pc = "idle"
    /\ \A t \in Task : task[t] # None => ~Held(t, None)
    /\ LET all == {t \in Task : task[t] # None}
       IN cleanup' = [pc |-> "read", all |-> all, spared |-> all \cap (touched \cup concluded)]
    /\ UNCHANGED <<mem, task, processed, books, pass>>

CleanupDelete ==
    /\ cleanup.pc = "read"
    /\ task' = [t \in Task |-> IF /\ t \in cleanup.all \ cleanup.spared /\ task[t] # None
                                  /\ ~task[t].adopted /\ task[t].mem \notin Own
                               THEN None ELSE task[t]]
    /\ cleanup' = Resting
    /\ UNCHANGED <<mem, processed, books, pass>>

-----------------------------------------------------------------------------
(* Underneath: the memory module.                                          *)

\* The pipeline admits a memory, a conclusion's among them.
Admit(m) ==
    /\ mem[m].st = "unborn"
    /\ mem' = [mem EXCEPT ![m].st = "active"]
    /\ \/ m \in Own \cup Observed /\ UNCHANGED outbox
       \/ m \in Facts /\ \E c \in outbox : outbox' = outbox \ {c}
    /\ UNCHANGED <<task, minted, processed, concluded, touched, pass, cleanup>>

\* A merge or a supersession: an existing memory takes over.
Supersede(m, h) ==
    /\ m # h /\ Current(m) /\ Current(h) /\ m \notin Facts /\ h \notin Facts
    /\ mem' = [mem EXCEPT ![m].st = "replaced", ![m].next = h]
    /\ UNCHANGED <<task, processed, books, pass, cleanup>>

\* The saga: tasks go with the memory they derive from; a row that refers to it
\* uncommitted makes it wait, pointers at it are nulled.
Erase(m) ==
    /\ mem[m].st \notin {"unborn", "erased"} /\ m \notin Facts
    /\ \A t \in Task : /\ task[t] # None /\ task[t].mem = m => ~Held(t, None)
                       /\ \A p \in Passes : pass[p].buf[t] # None => pass[p].buf[t].mem # m
    /\ mem' = [k \in Mem |-> IF k = m THEN [st |-> "erased", next |-> None]
                             ELSE [mem[k] EXCEPT !.next = IF @ = m THEN None ELSE @]]
    /\ task' = [t \in Task |-> IF task[t] # None /\ task[t].mem = m THEN None ELSE task[t]]
    /\ UNCHANGED <<processed, books, pass, cleanup>>

-----------------------------------------------------------------------------
PassStep(p) == \/ \E m \in Mem : StartSource(p, m)
               \/ StartBackfill(p) \/ Judge(p) \/ JudgeNone(p) \/ Settle(p) \/ Unblock(p)
               \/ List(p) \/ \E t \in Task : Maintain(p, t)
               \/ Commit(p) \/ Abort(p)

OwnerStep == \/ \E t \in Task : Complete(t) \/ Dismiss(t) \/ Reopen(t)
             \/ \E m \in Mem : Adopt(m)

Next == \/ \E p \in Passes : PassStep(p)
        \/ OwnerStep \/ Reminders \/ CleanupRead \/ CleanupDelete
        \/ \E m \in Mem : Admit(m) \/ Erase(m) \/ \E h \in Mem : Supersede(m, h)

Spec == Init /\ [][Next]_vars

-----------------------------------------------------------------------------
\* "A closed task carries no pending reminders" (settle): whoever closes it and
\* whatever the reminders pass was about to stamp.
ClosedTasksAreQuiet ==
    \A t \in Task : task[t] # None /\ task[t].st \in Settled => ~task[t].stamped

\* "The fact enters the normal pipeline iff the closure itself commits" (settle,
\* decision 0037): a conclusion is queued in the step that closes or unblocks
\* its task, by whomever, and in no other; a merge or a dismissal concludes
\* nothing.
ConclusionIffTransition ==
    [][\A t \in Task :
        LET both   == task[t] # None /\ task'[t] # None
            closed == both /\ task[t].st \in Open /\ task'[t].st = "done"
            met    == both /\ task[t].cond = "waiting" /\ task'[t].cond = "met"
        IN /\ closed => <<t, "closed">> \in outbox'
           /\ met => <<t, "met">> \in outbox'
           /\ <<t, "closed">> \in outbox' \ outbox => closed
           /\ <<t, "met">> \in outbox' \ outbox => met]_vars

\* A settled task is opened by its owner only ("every action re-checks state
\* under locks", processSource), and a task its owner has acted on is removed
\* with its memory only ("NEVER touched", derivationCleanup).
OwnerActsStand ==
    [][\A t \in Task : task[t] # None =>
        /\ (task'[t] # None /\ task[t].st \in Settled /\ task'[t].st \in Open)
             => (t \in touched' /\ pass' = pass)
        /\ (task'[t] = None /\ t \in touched) => mem'[task[t].mem].st = "erased"]_vars

\* "The duplicate is dismissed, the obligation survives once" (maintain): the
\* open task of a current memory is the one that survives, and only its owner
\* dismisses it.
ObligationSurvives ==
    [][\A t \in Task :
        ( /\ task[t] # None /\ task'[t] # None /\ t \notin touched'
          /\ Current(task[t].mem) /\ task[t].st \in Open )
        => task'[t].st # "dismissed"]_vars
=============================================================================
