------------------------------ MODULE Tasks_proofs ------------------------------
(***************************************************************************)
(* Proofs about Tasks for any memories, tasks and passes: what a pass      *)
(* writes stays covered by its conclusions and by its locks until it       *)
(* commits, whoever acts meanwhile and however often passes are aborted.   *)
(***************************************************************************)
EXTENDS Tasks, FiniteSetTheorems, TLAPS

-----------------------------------------------------------------------------
(* The inductive invariant.                                                *)

Conclusions == Task \X {"closed", "met"}
PassRecords == [pc : {"idle", "judging", "judged", "listing", "maintaining"},
                fact : Mem \cup {None}, target : Task \cup {None}, verdict : {"closes", "satisfied"},
                list : [Task -> Mem \cup {None}], buf : [Task -> Rows \cup {None}], out : SUBSET Conclusions]

Typed ==
    /\ mem \in [Mem -> [st : {"unborn", "active", "uncertain", "replaced", "erased"}, next : Mem \cup {None}]]
    /\ task \in [Task -> Rows \cup {None}]
    /\ minted \subseteq Task /\ concluded \subseteq Task /\ touched \subseteq Task
    /\ processed \subseteq Mem /\ outbox \subseteq Conclusions
    /\ pass \in [Passes -> PassRecords]
    /\ cleanup \in [pc : {"idle", "read"}, all : SUBSET Task, spared : SUBSET Task]

\* What waits is blocked on something, and what is settled is quiet.
Sound(r) == /\ r.st = "blocked" => r.cond = "waiting"
            /\ r.st \in Settled => ~r.stamped

\* A row a pass has written is locked by it alone, and what it will make of the
\* committed row is covered by the conclusions that go with it.
Grounded(p, t) ==
    pass[p].buf[t] # None =>
        /\ Sound(pass[p].buf[t])
        /\ \A q \in Passes \ {p} : pass[q].buf[t] = None
        /\ t \notin cleanup.all
        /\ task[t] # None =>
             /\ pass[p].buf[t].st \in Open => task[t].st \in Open
             /\ pass[p].buf[t].st = "done" /\ task[t].st \in Open => <<t, "closed">> \in pass[p].out
             /\ pass[p].buf[t].cond = "met" /\ task[t].cond = "waiting" => <<t, "met">> \in pass[p].out

\* A conclusion of a pass is one of a transition it has written; a task it has
\* closed is not on its list.
Concluding(p, t) ==
    /\ <<t, "closed">> \in pass[p].out =>
         /\ pass[p].buf[t] # None /\ pass[p].buf[t].st = "done" /\ pass[p].list[t] = None
         /\ task[t] # None /\ task[t].st \in Open
    /\ <<t, "met">> \in pass[p].out =>
         /\ pass[p].buf[t] # None /\ pass[p].buf[t].cond = "met"
         /\ task[t] # None /\ task[t].cond = "waiting"

\* Until it has settled or unblocked one, a pass has written new tasks only.
Phased(p) ==
    /\ pass[p].pc \in {"judging", "judged"} => \A t \in Task : pass[p].buf[t] # None => t \notin minted
    /\ pass[p].pc = "judged" => pass[p].target \in minted
    /\ pass[p].pc # "maintaining" => pass[p].list = NoRows

Committed == \A t \in Task : task[t] # None => t \in minted /\ Sound(task[t])
Sparing   == cleanup.all \subseteq minted /\ cleanup.all \cap touched \subseteq cleanup.spared
Passing   == \A p \in Passes : Phased(p) /\ \A t \in Task : Grounded(p, t) /\ Concluding(p, t)

IInv == Typed /\ Committed /\ Sparing /\ Passing

-----------------------------------------------------------------------------
(* The chain of supersession.  Induction is used in the form of sets: a    *)
(* set with 0 and all successors has no least natural number outside.      *)

LEMMA SetInduction ==
  ASSUME NEW S \in SUBSET Nat, 0 \in S, \A n \in S : n + 1 \in S
  PROVE  S = Nat
<1> SUFFICES ASSUME Nat \ S # {} PROVE FALSE
  OBVIOUS
<1> DEFINE T == Nat \ S
           L == OpToRel(<, Nat)
<1>1. PICK n \in T : \A k \in T : ~ (<<k, n>> \in L)
  <2>1. T \subseteq Nat /\ T # {}
    OBVIOUS
  <2>2. IsWellFoundedOn(L, Nat)
    BY NatLessThanWellFounded
  <2> HIDE DEF T, L
  <2> QED BY <2>1, <2>2, WFMin
<1>2. \A k \in T : ~(k < n)
  <2>1. ASSUME NEW k \in T, k < n PROVE FALSE
    <3>1. <<k, n>> \in Nat \X Nat
      BY <1>1
    <3>2. <<k, n>> \in OpToRel(<, Nat)
      BY <3>1, <2>1 DEF OpToRel
    <3> QED BY <1>1, <3>2
  <2> QED BY <2>1
<1> HIDE DEF L
<1>3. n # 0 /\ n - 1 \in Nat
  BY <1>1
<1>4. n - 1 \in S
  BY <1>2, <1>3
<1> QED BY <1>1, <1>3, <1>4

\* One step along the pointers, and the last memory where there is none.
Hop(k) == IF mem[k].next = None THEN k ELSE mem[k].next

LEMMA WalkExists ==
  ASSUME \A k \in Mem : Hop(k) \in Mem, NEW m \in Mem, NEW N \in Nat
  PROVE  \E g \in [0..N -> Mem] : g[0] = m /\ \A i \in 1..N : g[i] = Hop(g[i - 1])
<1> DEFINE S == {n \in Nat : \E g \in [0..n -> Mem] : g[0] = m /\ \A i \in 1..n : g[i] = Hop(g[i - 1])}
<1>1. 0 \in S
  <2> DEFINE g == [i \in 0..0 |-> m]
  <2>1. g \in [0..0 -> Mem]
    OBVIOUS
  <2>2. g[0] = m /\ \A i \in 1..0 : g[i] = Hop(g[i - 1])
    OBVIOUS
  <2> HIDE DEF g
  <2> QED BY <2>1, <2>2 DEF g
<1>2. ASSUME NEW n \in S PROVE n + 1 \in S
  <2>1. PICK g \in [0..n -> Mem] : g[0] = m /\ \A i \in 1..n : g[i] = Hop(g[i - 1])
    OBVIOUS
  <2> DEFINE h == [i \in 0..(n + 1) |-> IF i = n + 1 THEN Hop(g[n]) ELSE g[i]]
  <2>2. n \in Nat /\ g[n] \in Mem
    BY <2>1
  <2>3. h \in [0..(n + 1) -> Mem]
    BY <2>1, <2>2
  <2>4. h[0] = m
    BY <2>1, <2>2
  <2>5. \A i \in 1..(n + 1) : h[i] = Hop(h[i - 1])
    BY <2>1, <2>2
  <2> HIDE DEF h
  <2> QED BY <2>2, <2>3, <2>4, <2>5
<1>3. S = Nat
  <2> HIDE DEF S
  <2>1. S \in SUBSET Nat
    BY DEF S
  <2> QED BY <1>1, <1>2, <2>1, SetInduction
<1> QED BY <1>3

\* The head of a chain is a memory, however long the chain is.
LEMMA HeadType ==
  ASSUME \A k \in Mem : Hop(k) \in Mem, NEW m \in Mem
  PROVE  Head(m) \in Mem
<1> DEFINE N == Cardinality(Mem)
<1>1. N \in Nat
  BY FS_CardinalityType, TasksAssumption
<1>2. PICK g \in [0..N -> Mem] : g[0] = m /\ \A i \in 1..N : g[i] = Hop(g[i - 1])
  BY <1>1, WalkExists
<1>3. g = [n \in 0..N |-> IF n = 0 THEN m
               ELSE IF mem[g[n - 1]].next = None THEN g[n - 1] ELSE mem[g[n - 1]].next]
  BY <1>1, <1>2 DEF Hop
<1> DEFINE hop == CHOOSE f : f = [n \in 0..N |-> IF n = 0 THEN m
               ELSE IF mem[f[n - 1]].next = None THEN f[n - 1] ELSE mem[f[n - 1]].next]
<1>4. hop = [n \in 0..N |-> IF n = 0 THEN m
               ELSE IF mem[hop[n - 1]].next = None THEN hop[n - 1] ELSE mem[hop[n - 1]].next]
  <2> HIDE DEF N
  <2> QED BY <1>3, Zenon
<1>5. Head(m) = hop[N]
  BY DEF Head
<1> HIDE DEF hop
<1>6. \A n \in Nat : n \in 0..N => hop[n] \in Mem
  <2> DEFINE T == {n \in Nat : n \in 0..N => hop[n] \in Mem}
  <2>1. 0 \in T
    BY <1>1, <1>4
  <2>2. ASSUME NEW n \in T PROVE n + 1 \in T
    <3> SUFFICES ASSUME n + 1 \in 0..N PROVE hop[n + 1] \in Mem
      OBVIOUS
    <3>1. n \in Nat /\ n \in 0..N /\ hop[n] \in Mem
      BY <1>1
    <3>2. hop[n + 1] = Hop(hop[n])
      BY <1>1, <1>4, <3>1 DEF Hop
    <3> QED BY <3>1, <3>2
  <2>3. T \in SUBSET Nat
    OBVIOUS
  <2>4. T = Nat
    <3> HIDE DEF T
    <3> QED BY <2>1, <2>2, <2>3, SetInduction
  <2> QED BY <2>4
<1> QED BY <1>1, <1>5, <1>6

-----------------------------------------------------------------------------
(* Rows and passes.                                                        *)

LEMMA NewTaskFacts ==
  ASSUME NEW m \in Mem, NEW waits \in BOOLEAN, NEW adopted \in BOOLEAN
  PROVE  /\ NewTask(m, waits, adopted) \in Rows
         /\ NewTask(m, waits, adopted) # None
         /\ Sound(NewTask(m, waits, adopted))
<1>1. NewTask(m, waits, adopted) \in Rows
  BY DEF NewTask, Rows, Open
<1> QED BY <1>1, TasksAssumption DEF NewTask, Sound, Settled, Open

LEMMA RowFacts ==
  ASSUME NEW r \in Rows
  PROVE  /\ r # None /\ r.mem \in Mem /\ r.st \in Open \cup Settled
         /\ r.cond \in {"none", "waiting", "met"} /\ r.stamped \in BOOLEAN
         /\ \A h \in Mem : [r EXCEPT !.mem = h] \in Rows
         /\ \A s \in Open \cup Settled : [r EXCEPT !.st = s, !.stamped = FALSE] \in Rows
         /\ [r EXCEPT !.st = "open", !.cond = "met"] \in Rows
         /\ [r EXCEPT !.stamped = TRUE] \in Rows
<1>1. "open" \in Open \cup Settled
  BY DEF Open
<1> HIDE DEF Open, Settled
<1>2. \A h \in Mem : [r EXCEPT !.mem = h] \in Rows
  BY DEF Rows
<1>3. \A s \in Open \cup Settled : [r EXCEPT !.st = s, !.stamped = FALSE] \in Rows
  BY DEF Rows
<1>4. [r EXCEPT !.st = "open", !.cond = "met"] \in Rows
  BY <1>1 DEF Rows
<1>5. [r EXCEPT !.stamped = TRUE] \in Rows
  BY DEF Rows
<1> QED BY <1>2, <1>3, <1>4, <1>5, TasksAssumption DEF Rows

LEMMA PassFacts ==
  ASSUME Typed, NEW p \in Passes
  PROVE  /\ pass[p] \in PassRecords
         /\ pass[p].buf \in [Task -> Rows \cup {None}] /\ pass[p].list \in [Task -> Mem \cup {None}]
         /\ pass[p].out \subseteq Conclusions /\ pass[p].target \in Task \cup {None}
         /\ \A t \in Task : See(p, t) \in Rows \cup {None}
  BY DEF Typed, PassRecords, See

LEMMA IdleType == Idle \in PassRecords
  BY DEF Idle, PassRecords, NoRows

\* A step of one pass: what it does to its own record.
Moves(p) == /\ pass' \in [Passes -> PassRecords]
            /\ \A q \in Passes : q # p => pass'[q] = pass[q]

\* p goes on to pc, to a target, with these rows, list and conclusions.
Becomes(p, pc, target, list, buf, out) ==
    /\ Moves(p)
    /\ pass'[p].pc = pc /\ pass'[p].target = target /\ pass'[p].list = list
    /\ pass'[p].buf = buf /\ pass'[p].out = out

LEMMA StartFields ==
  ASSUME Typed, NEW p \in Passes, NEW m \in Mem \cup {None},
         NEW buf \in [Task -> Rows \cup {None}], NEW c \in {"judging", "listing"},
         \/ pass' = [pass EXCEPT ![p] = [Idle EXCEPT !.fact = m, !.buf = buf, !.pc = c]]
         \/ m = None /\ pass' = [pass EXCEPT ![p] = [Idle EXCEPT !.buf = buf, !.pc = c]]
  PROVE  Becomes(p, c, None, NoRows, buf, {})
<1>1. NoRows \in [Task -> Mem \cup {None}]
  BY DEF NoRows
<1> DEFINE r == [pc |-> c, fact |-> m, target |-> None, verdict |-> "closes", list |-> NoRows, buf |-> buf, out |-> {}]
<1>2. r \in PassRecords
  BY <1>1 DEF PassRecords
<1>3. pass' = [pass EXCEPT ![p] = r]
  BY DEF Idle
<1> QED BY <1>2, <1>3 DEF Typed, Moves, Becomes

\* Whatever a step says of a pass, in whatever form.
LEMMA Updated ==
  ASSUME Typed, NEW p \in Passes, NEW c \in {"idle", "judging", "judged", "listing", "maintaining"},
         NEW k \in Task \cup {None}, NEW l \in [Task -> Mem \cup {None}],
         NEW b \in [Task -> Rows \cup {None}], NEW o \in SUBSET Conclusions,
         NEW v \in {"closes", "satisfied"},
         pass' = [pass EXCEPT ![p] = [pass[p] EXCEPT !.pc = c, !.target = k, !.list = l, !.buf = b,
                                                      !.out = o, !.verdict = v]]
  PROVE  Becomes(p, c, k, l, b, o)
<1> DEFINE r == [pass[p] EXCEPT !.pc = c, !.target = k, !.list = l, !.buf = b, !.out = o, !.verdict = v]
<1>1. r \in PassRecords
  BY PassFacts DEF PassRecords
<1>2. r.pc = c /\ r.target = k /\ r.list = l /\ r.buf = b /\ r.out = o
  BY PassFacts DEF PassRecords
<1> HIDE DEF r
<1> QED BY <1>1, <1>2 DEF Typed, Moves, Becomes, r

LEMMA JudgeFields ==
  ASSUME Typed, NEW p \in Passes, NEW t \in Task, NEW v \in {"closes", "satisfied"},
         pass' = [pass EXCEPT ![p].pc = "judged", ![p].target = t, ![p].verdict = v]
  PROVE  Becomes(p, "judged", t, pass[p].list, pass[p].buf, pass[p].out)
<1> DEFINE r == [pass[p] EXCEPT !.pc = "judged", !.target = t, !.verdict = v]
<1>1. r \in PassRecords
  BY PassFacts DEF PassRecords
<1>2. pass' = [pass EXCEPT ![p] = r]
  BY DEF Typed
<1>3. /\ r.pc = "judged" /\ r.target = t /\ r.list = pass[p].list /\ r.buf = pass[p].buf /\ r.out = pass[p].out
  BY PassFacts DEF PassRecords
<1> HIDE DEF r
<1> QED BY <1>1, <1>2, <1>3 DEF Typed, Moves, Becomes

LEMMA JudgeNoneFields ==
  ASSUME Typed, NEW p \in Passes, pass' = [pass EXCEPT ![p].pc = "listing"]
  PROVE  Becomes(p, "listing", pass[p].target, pass[p].list, pass[p].buf, pass[p].out)
<1> DEFINE r == [pass[p] EXCEPT !.pc = "listing"]
<1>1. r \in PassRecords
  BY PassFacts DEF PassRecords
<1>2. pass' = [pass EXCEPT ![p] = r]
  BY DEF Typed
<1>3. /\ r.pc = "listing" /\ r.target = pass[p].target
      /\ r.list = pass[p].list /\ r.buf = pass[p].buf /\ r.out = pass[p].out
  BY PassFacts DEF PassRecords
<1> HIDE DEF r
<1> QED BY <1>1, <1>2, <1>3 DEF Typed, Moves, Becomes

LEMMA GiveUpFields ==
  ASSUME Typed, NEW p \in Passes, pass' = [pass EXCEPT ![p].pc = "listing", ![p].target = None]
  PROVE  Becomes(p, "listing", None, pass[p].list, pass[p].buf, pass[p].out)
<1> DEFINE r == [pass[p] EXCEPT !.pc = "listing", !.target = None]
<1>1. r \in PassRecords
  BY PassFacts DEF PassRecords
<1>2. pass' = [pass EXCEPT ![p] = r]
  BY DEF Typed
<1>3. r.pc = "listing" /\ r.target = None /\ r.list = pass[p].list /\ r.buf = pass[p].buf /\ r.out = pass[p].out
  BY PassFacts DEF PassRecords
<1> HIDE DEF r
<1> QED BY <1>1, <1>2, <1>3 DEF Typed, Moves, Becomes

LEMMA WriteFields ==
  ASSUME Typed, NEW p \in Passes, NEW t \in Task, NEW r \in Rows, NEW out \in SUBSET Conclusions,
         Write(p, t, r, out)
  PROVE  Becomes(p, "listing", None, pass[p].list, [pass[p].buf EXCEPT ![t] = r], pass[p].out \cup out)
<1>1. /\ [pass[p].buf EXCEPT ![t] = r] \in [Task -> Rows \cup {None}]
      /\ pass[p].out \cup out \in SUBSET Conclusions
  BY PassFacts
<1>2. pass[p].verdict \in {"closes", "satisfied"}
  BY PassFacts DEF PassRecords
<1> DEFINE b == [pass[p].buf EXCEPT ![t] = r]
           o == pass[p].out \cup out
<1>4. pass' = [pass EXCEPT ![p] = [pass[p] EXCEPT !.pc = "listing", !.target = None, !.buf = b, !.out = o]]
  BY DEF Write
<1> HIDE DEF b, o
<1>5. pass' = [pass EXCEPT ![p] = [pass[p] EXCEPT !.pc = "listing", !.target = None, !.list = pass[p].list,
                                                  !.buf = b, !.out = o, !.verdict = pass[p].verdict]]
  <2>1. [pass[p] EXCEPT !.pc = "listing", !.target = None, !.buf = b, !.out = o]
        = [pass[p] EXCEPT !.pc = "listing", !.target = None, !.list = pass[p].list,
                          !.buf = b, !.out = o, !.verdict = pass[p].verdict]
    BY PassFacts DEF PassRecords
  <2> QED BY <1>4, <2>1
<1> QED BY <1>1, <1>2, <1>5, PassFacts, Updated DEF b, o

LEMMA ListFields ==
  ASSUME Typed, NEW p \in Passes, List(p)
  PROVE  \E l \in [Task -> Mem \cup {None}] :
           /\ Becomes(p, "maintaining", pass[p].target, l, pass[p].buf, pass[p].out)
           /\ \A t \in Task : l[t] # None => See(p, t) # None /\ See(p, t).st \in Open
<1> DEFINE l == [t \in Task |-> LET r == See(p, t) IN
                  IF r # None /\ r.st \in Open /\ mem[r.mem].next # None THEN r.mem ELSE None]
           r == [pass[p] EXCEPT !.pc = "maintaining", !.list = l]
<1>1. \A t \in Task : See(p, t) # None => See(p, t).mem \in Mem
  BY PassFacts, RowFacts
<1>2. l \in [Task -> Mem \cup {None}]
  BY <1>1
<1>3. \A t \in Task : l[t] # None => See(p, t) # None /\ See(p, t).st \in Open
  OBVIOUS
<1>4. pass' = [pass EXCEPT ![p].pc = "maintaining", ![p].list = l]
  BY DEF List
<1> HIDE DEF l
<1>5. pass' = [pass EXCEPT ![p] = r]
  BY <1>4 DEF Typed
<1>6. r \in PassRecords
  BY <1>2, PassFacts DEF PassRecords
<1>7. /\ r.pc = "maintaining" /\ r.target = pass[p].target /\ r.list = l
      /\ r.buf = pass[p].buf /\ r.out = pass[p].out
  BY PassFacts DEF PassRecords
<1> HIDE DEF r
<1>8. Becomes(p, "maintaining", pass[p].target, l, pass[p].buf, pass[p].out)
  BY <1>5, <1>6, <1>7 DEF Typed, Moves, Becomes
<1> QED BY <1>2, <1>3, <1>8

\* Maintaining a task leaves its row, dismisses it or points it at the head.
LEMMA MaintainFields ==
  ASSUME Typed, NEW p \in Passes, NEW t \in Task, Maintain(p, t)
  PROVE  \E b \in [Task -> Rows \cup {None}] :
           /\ Becomes(p, "maintaining", pass[p].target, [pass[p].list EXCEPT ![t] = None], b, pass[p].out)
           /\ \/ b = pass[p].buf
              \/ /\ See(p, t) # None
                 /\ \/ b = [pass[p].buf EXCEPT ![t] = [See(p, t) EXCEPT !.st = "dismissed", !.stamped = FALSE]]
                    \/ \E h \in Mem : b = [pass[p].buf EXCEPT ![t] = [See(p, t) EXCEPT !.mem = h]]
<1> DEFINE r == See(p, t)
           h == Head(pass[p].list[t])
           dup == \E k \in Task : See(p, k) # None /\ See(p, k).mem = h
           b == IF r = None \/ h = pass[p].list[t] THEN pass[p].buf
                ELSE IF dup THEN [pass[p].buf EXCEPT ![t] = [r EXCEPT !.st = "dismissed", !.stamped = FALSE]]
                ELSE [pass[p].buf EXCEPT ![t] = [r EXCEPT !.mem = h]]
           l == [pass[p].list EXCEPT ![t] = None]
           rec == [pass[p] EXCEPT !.list = l, !.buf = b]
<1>1. pass[p].list[t] \in Mem /\ pass[p].pc = "maintaining"
  BY PassFacts DEF Maintain
<1>2. \A k \in Mem : Hop(k) \in Mem
  BY DEF Typed, Hop
<1>3. h \in Mem
  BY <1>1, <1>2, HeadType
<1>4. pass' = [pass EXCEPT ![p] = rec]
  BY DEF Maintain
<1> HIDE DEF h, dup
<1>5. /\ b \in [Task -> Rows \cup {None}]
      /\ \/ b = pass[p].buf
         \/ /\ r # None
            /\ \/ b = [pass[p].buf EXCEPT ![t] = [r EXCEPT !.st = "dismissed", !.stamped = FALSE]]
               \/ \E k \in Mem : b = [pass[p].buf EXCEPT ![t] = [r EXCEPT !.mem = k]]
  <2>1. r = None \/ r \in Rows
    BY PassFacts
  <2>2. r # None => /\ [r EXCEPT !.mem = h] \in Rows
                    /\ [r EXCEPT !.st = "dismissed", !.stamped = FALSE] \in Rows
    <3>1. "dismissed" \in Open \cup Settled
      BY DEF Settled
    <3> QED BY <2>1, <1>3, <3>1, RowFacts
  <2> HIDE DEF r
  <2>3. CASE r = None \/ h = pass[p].list[t]
    BY <2>3, PassFacts
  <2>4. CASE r # None /\ h # pass[p].list[t] /\ dup
    BY <2>2, <2>4, PassFacts
  <2>5. CASE r # None /\ h # pass[p].list[t] /\ ~dup
    BY <1>3, <2>2, <2>5, PassFacts
  <2> QED BY <2>3, <2>4, <2>5
<1>6. l \in [Task -> Mem \cup {None}]
  BY PassFacts
<1> HIDE DEF b, l
<1>7. rec \in PassRecords
  <2>1. b \in [Task -> Rows \cup {None}] /\ pass[p] \in PassRecords
    BY <1>5, PassFacts
  <2> QED BY <2>1, <1>6 DEF PassRecords
<1>8. /\ rec.pc = "maintaining" /\ rec.target = pass[p].target /\ rec.list = l
      /\ rec.buf = b /\ rec.out = pass[p].out
  BY <1>1, PassFacts DEF PassRecords
<1> HIDE DEF rec
<1>9. Becomes(p, "maintaining", pass[p].target, l, b, pass[p].out)
  BY <1>4, <1>7, <1>8 DEF Typed, Moves, Becomes
<1> QED BY <1>5, <1>9 DEF l

LEMMA EndFields ==
  ASSUME Typed, NEW p \in Passes, pass' = [pass EXCEPT ![p] = Idle]
  PROVE  Becomes(p, "idle", None, NoRows, NoRows, {})
  BY IdleType DEF Typed, Moves, Becomes, Idle

-----------------------------------------------------------------------------
(* Types.                                                                  *)

LEMMA DerivedFacts ==
  ASSUME Typed, NEW p \in Passes, NEW m \in Mem, NEW buf \in Derived(p, m)
  PROVE  /\ buf \in [Task -> Rows \cup {None}]
         /\ \A t \in Task : buf[t] # None => t \in Unminted /\ Sound(buf[t])
<1>1. CASE buf = NoRows
  BY <1>1 DEF NoRows
<1>2. CASE buf # NoRows
  <2>1. PICK t \in Unminted, waits \in BOOLEAN : buf = [NoRows EXCEPT ![t] = NewTask(m, waits, FALSE)]
    <3>1. PICK new \in Unminted \X BOOLEAN : buf = [NoRows EXCEPT ![new[1]] = NewTask(m, new[2], FALSE)]
      BY <1>2 DEF Derived
    <3> QED BY <3>1
  <2>2. t \in Task /\ NewTask(m, waits, FALSE) \in Rows /\ Sound(NewTask(m, waits, FALSE))
    BY <2>1, NewTaskFacts DEF Unminted
  <2> QED BY <2>1, <2>2 DEF NoRows
<1> QED BY <1>1, <1>2

\* A step of a pass that ends in Becomes keeps pass a set of well typed records.
LEMMA PassTyping == IInv /\ (\E p \in Passes : PassStep(p)) => Typed'
<1> SUFFICES ASSUME IInv, NEW p \in Passes, PassStep(p) PROVE Typed'
  OBVIOUS
<1>a. Typed
  BY DEF IInv
<1>b. ASSUME NEW c, NEW k, NEW l, NEW b, NEW o, Becomes(p, c, k, l, b, o),
             UNCHANGED <<mem, task, processed, books, cleanup>>
      PROVE  Typed'
  BY <1>a, <1>b DEF Typed, Becomes, Moves, books
<1>1. ASSUME NEW m \in Mem, StartSource(p, m) PROVE Typed'
  <2>1. PICK buf \in Derived(p, m) :
             pass' = [pass EXCEPT ![p] = [Idle EXCEPT !.fact = m, !.buf = buf,
                        !.pc = IF mem[m].st = "active" THEN "judging" ELSE "listing"]]
    BY <1>1 DEF StartSource
  <2> QED BY <2>1, <1>1, <1>a, <1>b, DerivedFacts, StartFields DEF StartSource
<1>2. CASE StartBackfill(p)
  <2>1. PICK m \in Own : \E buf \in Derived(p, m) :
             pass' = [pass EXCEPT ![p] = [Idle EXCEPT !.buf = buf, !.pc = "listing"]]
    BY <1>2 DEF StartBackfill
  <2>2. PICK buf \in Derived(p, m) : pass' = [pass EXCEPT ![p] = [Idle EXCEPT !.buf = buf, !.pc = "listing"]]
    BY <2>1
  <2> QED BY <2>2, <1>2, <1>a, <1>b, DerivedFacts, StartFields DEF StartBackfill, Mem
<1>3. CASE Judge(p)
  <2>1. PICK t \in Task, v \in {"closes", "satisfied"} :
             pass' = [pass EXCEPT ![p].pc = "judged", ![p].target = t, ![p].verdict = v]
    BY <1>3 DEF Judge
  <2> QED BY <2>1, <1>3, <1>a, <1>b, JudgeFields DEF Judge
<1>4. CASE JudgeNone(p)
  BY <1>4, <1>a, <1>b, JudgeNoneFields DEF JudgeNone
<1>5. CASE Settle(p) \/ Unblock(p)
  <2>1. UNCHANGED <<mem, task, processed, books, cleanup>>
    BY <1>5 DEF Settle, Unblock
  <2>2. CASE pass' = [pass EXCEPT ![p].pc = "listing", ![p].target = None]
    BY <2>1, <2>2, <1>a, <1>b, GiveUpFields
  <2>3. ASSUME NEW r \in Rows, NEW out \in SUBSET Conclusions, NEW t \in Task, Write(p, t, r, out) PROVE Typed'
    BY <2>1, <2>3, <1>a, <1>b, WriteFields
  <2>4. pass[p].target \in Task
    BY <1>5, <1>a DEF IInv, Passing, Phased, Settle, Unblock, Typed
  <2>5. \A t \in Task : See(p, t) # None => See(p, t) \in Rows
    BY <1>a, PassFacts
  <2>6. "done" \in Open \cup Settled
    BY DEF Settled
  <2>7. CASE Settle(p)
    <3>1. \/ pass' = [pass EXCEPT ![p].pc = "listing", ![p].target = None]
          \/ /\ See(p, pass[p].target) # None
             /\ Write(p, pass[p].target, [See(p, pass[p].target) EXCEPT !.st = "done", !.stamped = FALSE],
                      {<<pass[p].target, "closed">>})
      BY <2>7 DEF Settle
    <3>2. {<<pass[p].target, "closed">>} \in SUBSET Conclusions
      BY <2>4 DEF Conclusions
    <3> QED BY <3>1, <3>2, <2>2, <2>3, <2>4, <2>5, <2>6, RowFacts
  <2>8. CASE Unblock(p)
    <3>1. \/ pass' = [pass EXCEPT ![p].pc = "listing", ![p].target = None]
          \/ /\ See(p, pass[p].target) # None
             /\ Write(p, pass[p].target, [See(p, pass[p].target) EXCEPT !.st = "open", !.cond = "met"],
                      {<<pass[p].target, "met">>})
      BY <2>8 DEF Unblock
    <3>2. {<<pass[p].target, "met">>} \in SUBSET Conclusions
      BY <2>4 DEF Conclusions
    <3> QED BY <3>1, <3>2, <2>2, <2>3, <2>4, <2>5, RowFacts
  <2> QED BY <1>5, <2>7, <2>8
<1>6. CASE List(p)
  <2>1. PICK l : Becomes(p, "maintaining", pass[p].target, l, pass[p].buf, pass[p].out)
    BY <1>6, <1>a, ListFields
  <2> QED BY <2>1, <1>6, <1>b DEF List
<1>7. ASSUME NEW t \in Task, Maintain(p, t) PROVE Typed'
  <2>1. PICK b : Becomes(p, "maintaining", pass[p].target, [pass[p].list EXCEPT ![t] = None], b, pass[p].out)
    BY <1>7, <1>a, MaintainFields
  <2> QED BY <2>1, <1>7, <1>b DEF Maintain
<1>8. CASE Commit(p)
  <2>1. pass' \in [Passes -> PassRecords]
    BY <1>8, <1>a, EndFields DEF Commit, Becomes, Moves
  <2>2. task' \in [Task -> Rows \cup {None}]
    BY <1>8, <1>a, PassFacts DEF Commit
  <2>3. /\ minted' \subseteq Task /\ outbox' \subseteq Conclusions
        /\ UNCHANGED <<mem, touched, cleanup>>
    BY <1>8, <1>a, PassFacts DEF Commit, Typed
  <2>4. concluded' \subseteq Task
    BY <1>8, <1>a, PassFacts DEF Commit, Typed, Conclusions
  <2>5. processed' \subseteq Mem
    <3>1. pass[p].fact \in Mem \cup {None}
      BY <1>a, PassFacts DEF PassRecords
    <3> QED BY <3>1, <1>8, <1>a DEF Commit, Typed
  <2> QED BY <2>1, <2>2, <2>3, <2>4, <2>5, <1>a DEF Typed
<1>9. CASE Abort(p)
  BY <1>9, <1>a, <1>b, EndFields DEF Abort
<1> QED BY <1>1, <1>2, <1>3, <1>4, <1>5, <1>6, <1>7, <1>8, <1>9 DEF PassStep

LEMMA OtherTyping ==
  ASSUME IInv, \/ OwnerStep \/ Reminders \/ CleanupRead \/ CleanupDelete
               \/ \E m \in Mem : Admit(m) \/ Erase(m) \/ \E h \in Mem : Supersede(m, h)
  PROVE  Typed'
<1>a. Typed /\ \A t \in Task : task[t] # None => task[t] \in Rows
  BY DEF IInv, Typed
<1>b. Settled \subseteq Open \cup Settled /\ "done" \in Settled /\ "dismissed" \in Settled
      /\ "open" \in Open /\ "blocked" \in Open
  BY DEF Settled, Open
<1>1. ASSUME NEW t \in Task, Complete(t) PROVE Typed'
  <2>1. [task[t] EXCEPT !.st = "done", !.stamped = FALSE] \in Rows
    BY <1>1, <1>a, <1>b, RowFacts DEF Complete
  <2>2. task' = [task EXCEPT ![t] = [task[t] EXCEPT !.st = "done", !.stamped = FALSE]]
    BY <1>1, <1>a DEF Complete, Typed
  <2>3. task' \in [Task -> Rows \cup {None}]
    BY <2>1, <2>2, <1>a DEF Typed
  <2> QED BY <1>1, <1>a, <2>3 DEF Complete, Typed, Conclusions
<1>2. ASSUME NEW t \in Task, Dismiss(t) PROVE Typed'
  <2>1. [task[t] EXCEPT !.st = "dismissed", !.stamped = FALSE] \in Rows
    BY <1>2, <1>a, <1>b, RowFacts DEF Dismiss
  <2>2. task' = [task EXCEPT ![t] = [task[t] EXCEPT !.st = "dismissed", !.stamped = FALSE]]
    BY <1>2, <1>a DEF Dismiss, Typed
  <2>3. task' \in [Task -> Rows \cup {None}]
    BY <2>1, <2>2, <1>a DEF Typed
  <2> QED BY <1>2, <1>a, <2>3 DEF Dismiss, Typed
<1>3. ASSUME NEW t \in Task, Reopen(t) PROVE Typed'
  <2> DEFINE s == IF task[t].cond = "waiting" THEN "blocked" ELSE "open"
  <2>0. s \in Open \cup Settled
    BY <1>b
  <2>1. task' = [task EXCEPT ![t] = [task[t] EXCEPT !.st = s, !.stamped = FALSE]]
    BY <1>3, <1>a DEF Reopen, Typed
  <2> HIDE DEF s
  <2>2. [task[t] EXCEPT !.st = s, !.stamped = FALSE] \in Rows
    BY <1>3, <1>a, <2>0, RowFacts DEF Reopen
  <2>3. task' \in [Task -> Rows \cup {None}]
    BY <2>1, <2>2, <1>a DEF Typed
  <2> QED BY <1>3, <1>a, <2>3 DEF Reopen, Typed
<1>4. ASSUME NEW m \in Mem, Adopt(m) PROVE Typed'
  <2>1. PICK t \in Unminted, waits \in BOOLEAN :
             /\ task' = [task EXCEPT ![t] = NewTask(m, waits, TRUE)]
             /\ minted' = minted \cup {t} /\ touched' = touched \cup {t}
    BY <1>4 DEF Adopt
  <2>2. t \in Task /\ NewTask(m, waits, TRUE) \in Rows
    BY <2>1, NewTaskFacts DEF Unminted
  <2> QED BY <1>4, <1>a, <2>1, <2>2 DEF Adopt, Typed
<1>5. CASE Reminders
  <2>1. PICK S \in SUBSET Task :
             /\ \A t \in S : task[t] # None
             /\ task' = [t \in Task |-> IF t \in S THEN [task[t] EXCEPT !.stamped = TRUE] ELSE task[t]]
    BY <1>5 DEF Reminders
  <2>2. task' \in [Task -> Rows \cup {None}]
    BY <2>1, <1>a, RowFacts DEF Typed
  <2> QED BY <1>5, <1>a, <2>2 DEF Reminders, Typed, books
<1>6. CASE CleanupRead
  <2>1. cleanup' \in [pc : {"idle", "read"}, all : SUBSET Task, spared : SUBSET Task]
    BY <1>6 DEF CleanupRead
  <2> QED BY <1>6, <1>a, <2>1 DEF CleanupRead, Typed, books
<1>7. CASE CleanupDelete
  <2>1. task' \in [Task -> Rows \cup {None}]
    BY <1>7, <1>a DEF CleanupDelete, Typed
  <2> QED BY <1>7, <1>a, <2>1 DEF CleanupDelete, Typed, books, Resting
<1>8. ASSUME NEW m \in Mem, Admit(m) PROVE Typed'
  BY <1>8, <1>a DEF Admit, Typed
<1>9. ASSUME NEW m \in Mem, Erase(m) PROVE Typed'
  <2>1. mem' \in [Mem -> [st : {"unborn", "active", "uncertain", "replaced", "erased"}, next : Mem \cup {None}]]
    BY <1>9, <1>a DEF Erase, Typed
  <2>2. task' \in [Task -> Rows \cup {None}]
    BY <1>9, <1>a DEF Erase, Typed
  <2> QED BY <1>9, <1>a, <2>1, <2>2 DEF Erase, Typed, books
<1>10. ASSUME NEW m \in Mem, NEW h \in Mem, Supersede(m, h) PROVE Typed'
  BY <1>10, <1>a DEF Supersede, Typed, books
<1> QED BY <1>1, <1>2, <1>3, <1>4, <1>5, <1>6, <1>7, <1>8, <1>9, <1>10 DEF OwnerStep

LEMMA Typing == IInv /\ [Next]_vars => Typed'
<1>1. IInv /\ UNCHANGED vars => Typed'
  BY DEF IInv, Typed, vars
<1> QED BY <1>1, PassTyping, OtherTyping DEF Next

-----------------------------------------------------------------------------
(* What a pass has written stands, whoever acts beside it.                 *)

HeldRow(t) == \E p \in Passes : pass[p].buf[t] # None

\* Owner, reminders, cleanup and memory module: what a pass holds they leave be.
LEMMA Beside ==
  ASSUME IInv, UNCHANGED pass, minted \subseteq minted',
         \A t \in Task : HeldRow(t) => task'[t] = task[t] /\ t \notin cleanup'.all /\ (t \in minted' => t \in minted)
  PROVE  Passing'
<1> SUFFICES ASSUME NEW p \in Passes
             PROVE  Phased(p)' /\ \A t \in Task : Grounded(p, t)' /\ Concluding(p, t)'
  BY DEF Passing
<1>1. Phased(p) /\ \A k \in Task : Grounded(p, k) /\ Concluding(p, k)
  BY DEF IInv, Passing
<1>2. \A k \in Task : pass[p].buf[k] # None => HeldRow(k)
  BY DEF HeldRow
<1>3. Phased(p)'
  BY <1>1, <1>2 DEF Phased
<1>4. ASSUME NEW t \in Task PROVE Grounded(p, t)'
  BY <1>1, <1>2 DEF Grounded
<1>5. ASSUME NEW t \in Task PROVE Concluding(p, t)'
  BY <1>1, <1>2 DEF Concluding
<1> QED BY <1>3, <1>4, <1>5

\* A step of p that touches nothing but its own record.
LEMMA Alone ==
  ASSUME IInv, NEW p \in Passes, NEW c, NEW k, NEW l, NEW b, NEW o, Becomes(p, c, k, l, b, o),
         UNCHANGED <<mem, task, processed, books, cleanup>>,
         \A t \in Task : b[t] # None =>
            b[t] = pass[p].buf[t] \/ \A q \in Passes \ {p} : pass[q].buf[t] = None,
         Phased(p)', \A t \in Task : Grounded(p, t)' /\ Concluding(p, t)'
  PROVE  Passing' /\ Committed' /\ Sparing'
<1>1. UNCHANGED <<task, minted, touched, cleanup>>
  BY DEF books
<1>a. ASSUME NEW q \in Passes, q # p PROVE Phased(q)'
  <2>1. pass'[q] = pass[q]
    BY <1>a DEF Becomes, Moves
  <2> QED BY <1>1, <2>1 DEF Phased, IInv, Passing
<1>2. ASSUME NEW q \in Passes, q # p, NEW t \in Task PROVE Grounded(q, t)' /\ Concluding(q, t)'
  <2>1. pass'[q] = pass[q] /\ pass'[p].buf = b
    BY <1>2 DEF Becomes, Moves
  <2>2. Grounded(q, t) /\ Concluding(q, t) /\ Grounded(p, t)
    BY DEF IInv, Passing
  <2>3. pass[q].buf[t] # None => b[t] = None
    BY <2>2, <1>2 DEF Grounded
  <2>4. ASSUME pass[q].buf[t] # None, NEW r \in Passes \ {q} PROVE pass'[r].buf[t] = None
    <3>1. CASE r = p
      BY <2>1, <2>3, <2>4, <3>1
    <3>2. CASE r # p
      <4>1. pass'[r] = pass[r]
        BY <2>4, <3>2 DEF Becomes, Moves
      <4> QED BY <2>2, <2>4, <4>1 DEF Grounded
    <3> QED BY <3>1, <3>2
  <2>6. Grounded(q, t)'
    BY <1>1, <2>1, <2>2, <2>4 DEF Grounded
  <2>7. Concluding(q, t)'
    BY <1>1, <2>1, <2>2 DEF Concluding
  <2> QED BY <2>6, <2>7
<1>3. Passing'
  <2> SUFFICES ASSUME NEW q \in Passes
               PROVE  Phased(q)' /\ \A t \in Task : Grounded(q, t)' /\ Concluding(q, t)'
    BY DEF Passing
  <2>1. CASE q = p
    BY <2>1
  <2>2. CASE q # p
    BY <1>a, <1>2, <2>2
  <2> QED BY <2>1, <2>2
<1>4. Committed' /\ Sparing'
  BY <1>1 DEF IInv, Committed, Sparing
<1> QED BY <1>3, <1>4

\* A new pass: its rows are new tasks, which nobody else holds.
LEMMA StartKeeps ==
  ASSUME IInv, NEW p \in Passes, NEW m \in Mem, NEW buf \in Derived(p, m), NEW c \in {"judging", "listing"},
         Becomes(p, c, None, NoRows, buf, {}), UNCHANGED <<mem, task, processed, books, cleanup>>
  PROVE  Passing' /\ Committed' /\ Sparing'
<1>1. \A t \in Task : buf[t] # None => /\ t \notin minted /\ Sound(buf[t])
                                       /\ \A q \in Passes : pass[q].buf[t] = None
  BY DerivedFacts DEF IInv, Unminted
<1>2. /\ pass'[p].pc = c /\ pass'[p].list = NoRows /\ pass'[p].buf = buf /\ pass'[p].out = {}
      /\ \A q \in Passes : q # p => pass'[q] = pass[q]
  BY DEF Becomes, Moves
<1>3. UNCHANGED <<task, minted, cleanup>>
  BY DEF books
<1>4. Phased(p)'
  BY <1>1, <1>2, <1>3 DEF Phased
<1>5. ASSUME NEW t \in Task PROVE Grounded(p, t)'
  <2> SUFFICES ASSUME buf[t] # None PROVE Grounded(p, t)'
    BY <1>2 DEF Grounded
  <2>1. task[t] = None /\ t \notin cleanup.all
    BY <1>1 DEF IInv, Committed, Sparing
  <2> QED BY <1>1, <1>2, <1>3, <2>1 DEF Grounded
<1>6. \A t \in Task : Concluding(p, t)'
  BY <1>2 DEF Concluding
<1> QED BY <1>1, <1>4, <1>5, <1>6, Alone

\* Only the phase of a pass changes.
LEMMA PhaseKeeps ==
  ASSUME IInv, NEW p \in Passes, NEW c, NEW k, NEW l, Becomes(p, c, k, l, pass[p].buf, pass[p].out),
         UNCHANGED <<mem, task, processed, books, cleanup>>, Phased(p)',
         \A t \in Task : l[t] # None => pass[p].list[t] # None \/ (See(p, t) # None /\ See(p, t).st \in Open)
  PROVE  Passing' /\ Committed' /\ Sparing'
<1>1. UNCHANGED <<task, minted, cleanup>>
  BY DEF books
<1>2. /\ pass'[p].buf = pass[p].buf /\ pass'[p].out = pass[p].out /\ pass'[p].list = l
      /\ \A q \in Passes : q # p => pass'[q] = pass[q]
  BY DEF Becomes, Moves
<1>3. ASSUME NEW t \in Task PROVE Grounded(p, t)' /\ Concluding(p, t)'
  <2>1. Grounded(p, t) /\ Concluding(p, t)
    BY DEF IInv, Passing
  <2>2. Grounded(p, t)'
    BY <1>1, <1>2, <2>1 DEF Grounded
  <2>3. <<t, "closed">> \in pass[p].out => l[t] = None
    <3> SUFFICES ASSUME <<t, "closed">> \in pass[p].out PROVE l[t] = None
      OBVIOUS
    <3>1. /\ pass[p].list[t] = None
          /\ See(p, t).st = "done"
      BY <2>1 DEF Concluding, See
    <3> QED BY <3>1 DEF Open
  <2>4. Concluding(p, t)'
    BY <1>1, <1>2, <2>1, <2>3 DEF Concluding
  <2> QED BY <2>2, <2>4
<1> QED BY <1>3, Alone

\* The judged task is locked and looked at again, and its transition written
\* with its conclusion.
LEMMA WriteKeeps ==
  ASSUME IInv, NEW p \in Passes, NEW t \in Task, NEW r \in Rows, NEW kind \in {"closed", "met"},
         pass[p].pc = "judged", pass[p].target = t, ~Held(t, p), See(p, t) # None,
         kind = "closed" => See(p, t).st \in Open /\ r = [See(p, t) EXCEPT !.st = "done", !.stamped = FALSE],
         kind = "met" => /\ See(p, t).st = "blocked"
                         /\ r = [See(p, t) EXCEPT !.st = "open", !.cond = "met"],
         Write(p, t, r, {<<t, kind>>}), UNCHANGED <<mem, task, processed, books, cleanup>>
  PROVE  Passing' /\ Committed' /\ Sparing'
<1> DEFINE b == [pass[p].buf EXCEPT ![t] = r]
           o == pass[p].out \cup {<<t, kind>>}
<1>0. Typed /\ Phased(p) /\ Grounded(p, t) /\ Concluding(p, t) /\ {<<t, kind>>} \in SUBSET Conclusions
  BY DEF IInv, Passing, Conclusions
<1>1. Becomes(p, "listing", None, pass[p].list, b, o)
  BY <1>0, WriteFields
<1>2. pass[p].buf[t] = None /\ See(p, t) = task[t] /\ task[t] # None /\ task[t] \in Rows
  BY <1>0 DEF Phased, See, Typed, IInv, Committed
<1>3. Sound(task[t]) /\ task[t].st \in Open /\ (kind = "met" => task[t].cond = "waiting")
  BY <1>2 DEF IInv, Committed, Sound, Open
<1>4. \A k \in Task : (<<k, "closed">> \notin pass[p].out /\ <<k, "met">> \notin pass[p].out) \/ k # t
  BY <1>0, <1>2 DEF Concluding
<1>5. UNCHANGED <<task, minted, cleanup>>
  BY DEF books
<1>6. /\ pass'[p].pc = "listing" /\ pass'[p].list = pass[p].list
      /\ \A q \in Passes : q # p => pass'[q] = pass[q]
  BY <1>1 DEF Becomes, Moves
<1>7. /\ \A k \in Task : k # t => pass'[p].buf[k] = pass[p].buf[k]
      /\ pass'[p].buf[t] = r
      /\ \A k \in Task : k # t => \A x \in {"closed", "met"} : <<k, x>> \in pass'[p].out <=> <<k, x>> \in pass[p].out
      /\ \A x \in {"closed", "met"} : <<t, x>> \in pass'[p].out <=> x = kind
  BY <1>0, <1>1, <1>4, PassFacts DEF Becomes
<1>8. Phased(p)' /\ pass[p].list = NoRows
  BY <1>0, <1>6 DEF Phased
<1>9. ASSUME NEW k \in Task PROVE Grounded(p, k)' /\ Concluding(p, k)'
  <2>1. CASE k # t
    <3>1. Grounded(p, k) /\ Concluding(p, k)
      BY DEF IInv, Passing
    <3>2. Grounded(p, k)'
      BY <1>5, <1>6, <1>7, <2>1, <3>1 DEF Grounded
    <3>3. Concluding(p, k)'
      BY <1>5, <1>6, <1>7, <2>1, <3>1 DEF Concluding
    <3> QED BY <3>2, <3>3
  <2>2. CASE k = t
    <3>0. \A q \in Passes \ {p} : pass'[q].buf[t] = None
      BY <1>6 DEF Held
    <3>1. r # None /\ t \notin cleanup.all
      BY RowFacts DEF Held
    <3>2. CASE kind = "closed"
      <4>1. r.st = "done" /\ r.stamped = FALSE /\ r.cond = task[t].cond
        BY <3>2, <1>2 DEF Rows
      <4>2. Sound(r) /\ r.st \notin Open
        BY <4>1 DEF Sound, Open
      <4>3. Grounded(p, t)'
        BY <1>5, <1>6, <1>7, <3>0, <3>1, <3>2, <4>1, <4>2 DEF Grounded
      <4>4. Concluding(p, t)'
        BY <1>2, <1>3, <1>5, <1>6, <1>7, <1>8, <3>1, <3>2, <4>1 DEF Concluding, NoRows
      <4> QED BY <2>2, <4>3, <4>4
    <3>3. CASE kind = "met"
      <4>0. r = [task[t] EXCEPT !.st = "open", !.cond = "met"]
        BY <3>3, <1>2
      <4>1. r.st = "open" /\ r.cond = "met" /\ r.stamped = task[t].stamped
        BY <4>0, <1>2 DEF Rows
      <4>2. Sound(r)
        BY <4>1 DEF Sound, Settled
      <4>3. Grounded(p, t)'
        BY <1>3, <1>5, <1>6, <1>7, <3>0, <3>1, <3>3, <4>1, <4>2 DEF Grounded
      <4>4. Concluding(p, t)'
        BY <1>2, <1>3, <1>5, <1>6, <1>7, <1>8, <3>1, <3>3, <4>1 DEF Concluding
      <4> QED BY <2>2, <4>3, <4>4
    <3> QED BY <3>2, <3>3
  <2> QED BY <2>1, <2>2
<1>10. \A k \in Task : b[k] # None =>
            b[k] = pass[p].buf[k] \/ \A q \in Passes \ {p} : pass[q].buf[k] = None
  BY <1>0, PassFacts DEF Held
<1> HIDE DEF b, o
<1> QED BY <1>1, <1>8, <1>9, <1>10, Alone

\* A task of the list: its row stays, is dismissed or is pointed at the head.
LEMMA MaintainKeeps == ASSUME IInv, NEW p \in Passes, NEW t \in Task, Maintain(p, t) PROVE Passing' /\ Committed' /\ Sparing'
<1> DEFINE l == [pass[p].list EXCEPT ![t] = None]
<1>0. Typed /\ Phased(p) /\ Grounded(p, t) /\ Concluding(p, t)
  BY DEF IInv, Passing
<1>1. PICK b \in [Task -> Rows \cup {None}] :
           /\ Becomes(p, "maintaining", pass[p].target, l, b, pass[p].out)
           /\ \/ b = pass[p].buf
              \/ /\ See(p, t) # None
                 /\ \/ b = [pass[p].buf EXCEPT ![t] = [See(p, t) EXCEPT !.st = "dismissed", !.stamped = FALSE]]
                    \/ \E h \in Mem : b = [pass[p].buf EXCEPT ![t] = [See(p, t) EXCEPT !.mem = h]]
  BY <1>0, MaintainFields
<1>2. UNCHANGED <<mem, task, processed, books, cleanup>> /\ UNCHANGED <<task, minted, cleanup>>
  BY DEF Maintain, books
<1>3. /\ pass'[p].pc = "maintaining" /\ pass'[p].out = pass[p].out /\ pass'[p].buf = b
      /\ pass'[p].list[t] = None /\ \A k \in Task : k # t => pass'[p].list[k] = pass[p].list[k]
      /\ \A q \in Passes : q # p => pass'[q] = pass[q]
  BY <1>0, <1>1, PassFacts DEF Becomes, Moves
<1>4. pass[p].list[t] # None /\ (\A q \in Passes \ {p} : pass[q].buf[t] = None) /\ t \notin cleanup.all
  BY DEF Maintain, Held
<1>5. <<t, "closed">> \notin pass[p].out
  BY <1>0, <1>4 DEF Concluding
<1>6. \A k \in Task : k # t => b[k] = pass[p].buf[k]
  BY <1>0, <1>1, PassFacts
\* The status of what is written is that of what was seen, or dismissed.
<1>7. b[t] = pass[p].buf[t] \/ /\ See(p, t) \in Rows /\ b[t] \in Rows
                               /\ b[t].cond = See(p, t).cond
                               /\ \/ b[t].st = "dismissed" /\ b[t].stamped = FALSE
                                  \/ b[t].st = See(p, t).st /\ b[t].stamped = See(p, t).stamped
  <2>1. See(p, t) # None => See(p, t) \in Rows
    BY <1>0, PassFacts
  <2>2. CASE b = pass[p].buf
    BY <2>2
  <2>3. CASE /\ See(p, t) # None
             /\ b = [pass[p].buf EXCEPT ![t] = [See(p, t) EXCEPT !.st = "dismissed", !.stamped = FALSE]]
    <3>1. b[t] = [See(p, t) EXCEPT !.st = "dismissed", !.stamped = FALSE]
      BY <2>3, <1>0, PassFacts
    <3>2. b[t].cond = See(p, t).cond /\ b[t].st = "dismissed" /\ b[t].stamped = FALSE
      BY <2>1, <2>3, <3>1 DEF Rows
    <3>3. b[t] \in Rows
      <4>1. "dismissed" \in Open \cup Settled
        BY DEF Settled
      <4> QED BY <2>1, <2>3, <3>1, <4>1, RowFacts
    <3> QED BY <2>1, <2>3, <3>2, <3>3
  <2>4. CASE See(p, t) # None /\ \E h \in Mem : b = [pass[p].buf EXCEPT ![t] = [See(p, t) EXCEPT !.mem = h]]
    <3>1. PICK h \in Mem : b[t] = [See(p, t) EXCEPT !.mem = h]
      BY <2>4, <1>0, PassFacts
    <3>2. b[t].cond = See(p, t).cond /\ b[t].st = See(p, t).st /\ b[t].stamped = See(p, t).stamped
      BY <2>1, <2>4, <3>1 DEF Rows
    <3>3. b[t] \in Rows
      BY <2>1, <2>4, <3>1, RowFacts
    <3> QED BY <2>1, <2>4, <3>2, <3>3
  <2> QED BY <1>1, <2>2, <2>3, <2>4
<1>8. Phased(p)'
  BY <1>3 DEF Phased
<1>9. ASSUME NEW k \in Task, k # t PROVE Grounded(p, k)' /\ Concluding(p, k)'
  <2>1. Grounded(p, k) /\ Concluding(p, k) /\ pass'[p].buf[k] = pass[p].buf[k]
    BY <1>3, <1>6, <1>9 DEF IInv, Passing
  <2>2. Grounded(p, k)'
    BY <1>2, <1>3, <2>1 DEF Grounded
  <2>3. Concluding(p, k)'
    BY <1>2, <1>3, <1>9, <2>1 DEF Concluding
  <2> QED BY <2>2, <2>3
<1>10. Grounded(p, t)' /\ Concluding(p, t)'
  <2>1. CASE b[t] = pass[p].buf[t]
    <3>1. Grounded(p, t)'
      BY <1>0, <1>2, <1>3, <2>1 DEF Grounded
    <3>2. Concluding(p, t)'
      BY <1>0, <1>2, <1>3, <2>1 DEF Concluding
    <3> QED BY <3>1, <3>2
  <2>2. CASE b[t] # pass[p].buf[t] /\ pass[p].buf[t] = None
    <3>1. See(p, t) = task[t] /\ task[t] # None /\ Sound(task[t])
      BY <1>0, <1>7, <2>2, RowFacts DEF See, IInv, Committed
    <3>2. Sound(b[t]) /\ (b[t].st \in Open => task[t].st \in Open)
      BY <1>7, <2>2, <3>1 DEF Sound, Open, Settled
    <3>3. b[t].st = "done" => task[t].st = "done"
      BY <1>7, <2>2, <3>1
    <3>4. b[t].cond = task[t].cond
      BY <1>7, <2>2, <3>1
    <3>5. Grounded(p, t)'
      BY <1>2, <1>3, <1>4, <3>2, <3>3, <3>4 DEF Grounded, Open
    <3>6. Concluding(p, t)'
      BY <1>0, <1>3, <2>2 DEF Concluding
    <3> QED BY <3>5, <3>6
  <2>3. CASE b[t] # pass[p].buf[t] /\ pass[p].buf[t] # None
    <3>1. See(p, t) = pass[p].buf[t] /\ b[t] # None
      BY <1>7, <2>3, RowFacts DEF See
    <3>2. /\ b[t].cond = pass[p].buf[t].cond
          /\ \/ b[t].st = "dismissed" /\ b[t].stamped = FALSE
             \/ b[t].st = pass[p].buf[t].st /\ b[t].stamped = pass[p].buf[t].stamped
      BY <1>7, <2>3, <3>1
    <3>3. Sound(pass[p].buf[t])
      BY <1>0, <2>3 DEF Grounded
    <3>4. Sound(b[t])
      BY <3>2, <3>3 DEF Sound
    <3>5. Grounded(p, t)'
      BY <1>0, <1>2, <1>3, <1>4, <2>3, <3>2, <3>4 DEF Grounded, Open
    <3>6. Concluding(p, t)'
      BY <1>0, <1>2, <1>3, <1>5, <2>3, <3>1, <3>2 DEF Concluding
    <3> QED BY <3>5, <3>6
  <2> QED BY <2>1, <2>2, <2>3
<1>11. \A k \in Task : b[k] # None =>
            b[k] = pass[p].buf[k] \/ \A q \in Passes \ {p} : pass[q].buf[k] = None
  BY <1>4, <1>6
<1> HIDE DEF l
<1> QED BY <1>1, <1>2, <1>8, <1>9, <1>10, <1>11, Alone


-----------------------------------------------------------------------------
(* The steps of a pass.                                                    *)

\* A pass that ends in its commit: what it holds becomes the committed row,
\* and nothing of what the others hold.
LEMMA CommitKeeps == ASSUME IInv, NEW p \in Passes, Commit(p) PROVE Passing' /\ Committed' /\ Sparing'
<1>0. Typed /\ \A q \in Passes : Phased(q) /\ \A t \in Task : Grounded(q, t) /\ Concluding(q, t)
  BY DEF IInv, Passing
<1>1. /\ pass'[p].pc = "idle" /\ pass'[p].list = NoRows /\ pass'[p].buf = NoRows /\ pass'[p].out = {}
      /\ \A q \in Passes : q # p => pass'[q] = pass[q]
  BY <1>0, EndFields DEF Commit, Becomes, Moves
<1>2. /\ \A t \in Task : task'[t] = See(p, t)
      /\ minted' = minted \cup {t \in Task : pass[p].buf[t] # None}
      /\ UNCHANGED <<touched, cleanup>>
  BY DEF Commit
<1>3. Committed'
  <2> SUFFICES ASSUME NEW t \in Task, See(p, t) # None PROVE t \in minted' /\ Sound(See(p, t))
    BY <1>2 DEF Committed
  <2>1. CASE pass[p].buf[t] = None
    BY <1>2, <2>1 DEF See, IInv, Committed
  <2>2. CASE pass[p].buf[t] # None
    BY <1>0, <1>2, <2>2 DEF See, Grounded
  <2> QED BY <2>1, <2>2
<1>4. Sparing'
  BY <1>2 DEF IInv, Sparing
<1>5. Phased(p)' /\ \A t \in Task : Grounded(p, t)' /\ Concluding(p, t)'
  BY <1>1 DEF Phased, Grounded, Concluding, NoRows
<1>6. ASSUME NEW q \in Passes, q # p PROVE Phased(q)' /\ \A t \in Task : Grounded(q, t)' /\ Concluding(q, t)'
  <2>1. pass'[q] = pass[q] /\ Phased(q)
    BY <1>0, <1>1, <1>6
  <2>2. \A t \in Task : pass[q].buf[t] # None =>
            pass[p].buf[t] = None /\ task'[t] = task[t] /\ (t \in minted' => t \in minted)
    BY <1>0, <1>2, <1>6 DEF Grounded, See
  <2>3. Phased(q)'
    BY <1>2, <2>1, <2>2 DEF Phased
  <2>4. ASSUME NEW t \in Task PROVE Grounded(q, t)'
    <3> SUFFICES ASSUME pass[q].buf[t] # None PROVE Grounded(q, t)'
      BY <2>1 DEF Grounded
    <3>1. Grounded(q, t) /\ task'[t] = task[t]
      BY <1>0, <2>2
    <3>2. ASSUME NEW r \in Passes \ {q} PROVE pass'[r].buf[t] = None
      <4>1. CASE r = p
        BY <1>1, <4>1 DEF NoRows
      <4>2. CASE r # p
        BY <1>1, <3>1, <4>2 DEF Grounded
      <4> QED BY <4>1, <4>2
    <3> QED BY <1>2, <2>1, <3>1, <3>2 DEF Grounded
  <2>5. ASSUME NEW t \in Task PROVE Concluding(q, t)'
    <3>1. Concluding(q, t)
      BY <1>0
    <3> QED BY <2>1, <2>2, <3>1 DEF Concluding
  <2> QED BY <2>3, <2>4, <2>5
<1>7. Passing'
  <2> SUFFICES ASSUME NEW q \in Passes
               PROVE  Phased(q)' /\ \A t \in Task : Grounded(q, t)' /\ Concluding(q, t)'
    BY DEF Passing
  <2> QED BY <1>5, <1>6
<1> QED BY <1>3, <1>4, <1>7

LEMMA AbortKeeps == ASSUME IInv, NEW p \in Passes, Abort(p) PROVE Passing' /\ Committed' /\ Sparing'
<1>1. Becomes(p, "idle", None, NoRows, NoRows, {})
  BY EndFields DEF Abort, IInv
<1>2. /\ pass'[p].pc = "idle" /\ pass'[p].list = NoRows /\ pass'[p].buf = NoRows /\ pass'[p].out = {}
  BY <1>1 DEF Becomes
<1>3. Phased(p)' /\ \A t \in Task : Grounded(p, t)' /\ Concluding(p, t)'
  BY <1>2 DEF Phased, Grounded, Concluding, NoRows
<1>4. \A t \in Task : NoRows[t] # None =>
            NoRows[t] = pass[p].buf[t] \/ \A q \in Passes \ {p} : pass[q].buf[t] = None
  BY DEF NoRows
<1>5. UNCHANGED <<mem, task, processed, books, cleanup>>
  BY DEF Abort
<1> QED BY <1>1, <1>3, <1>4, <1>5, Alone

LEMMA SettleKeeps == ASSUME IInv, NEW p \in Passes, Settle(p) \/ Unblock(p) PROVE Passing' /\ Committed' /\ Sparing'
<1> DEFINE t == pass[p].target
           r == See(p, t)
<1>0. Typed /\ Phased(p) /\ pass[p].pc = "judged" /\ ~Held(t, p)
      /\ UNCHANGED <<mem, task, processed, books, cleanup>>
  BY DEF IInv, Passing, Settle, Unblock
<1>1. t \in Task
  BY <1>0 DEF Phased, Typed
<1>2. CASE pass' = [pass EXCEPT ![p].pc = "listing", ![p].target = None]
  <2>1. Becomes(p, "listing", None, pass[p].list, pass[p].buf, pass[p].out)
    BY <1>0, <1>2, GiveUpFields
  <2>2. Phased(p)'
    BY <1>0, <2>1 DEF Phased, Becomes
  <2> QED BY <1>0, <2>1, <2>2, PhaseKeeps
<1>3. r # None => r \in Rows
  BY <1>0, <1>1, PassFacts
<1>4. "done" \in Open \cup Settled
  BY DEF Settled
<1>5. CASE /\ r # None /\ r.st \in Open
           /\ Write(p, t, [r EXCEPT !.st = "done", !.stamped = FALSE], {<<t, "closed">>})
  <2>1. [r EXCEPT !.st = "done", !.stamped = FALSE] \in Rows
    BY <1>3, <1>4, <1>5, RowFacts
  <2> HIDE DEF r
  <2> QED BY <1>0, <1>1, <1>5, <2>1, WriteKeeps DEF r
<1>6. CASE /\ r # None /\ r.st = "blocked"
           /\ Write(p, t, [r EXCEPT !.st = "open", !.cond = "met"], {<<t, "met">>})
  <2>1. [r EXCEPT !.st = "open", !.cond = "met"] \in Rows
    BY <1>3, <1>6, RowFacts
  <2> HIDE DEF r
  <2> QED BY <1>0, <1>1, <1>6, <2>1, WriteKeeps DEF r
<1> QED BY <1>2, <1>5, <1>6 DEF Settle, Unblock

LEMMA PassKeeps == ASSUME IInv, NEW p \in Passes, PassStep(p) PROVE Passing' /\ Committed' /\ Sparing'
<1>0. Typed /\ Phased(p)
  BY DEF IInv, Passing
<1>1. ASSUME NEW m \in Mem, StartSource(p, m) PROVE Passing' /\ Committed' /\ Sparing'
  <2>1. PICK buf \in Derived(p, m) :
             pass' = [pass EXCEPT ![p] = [Idle EXCEPT !.fact = m, !.buf = buf,
                        !.pc = IF mem[m].st = "active" THEN "judging" ELSE "listing"]]
    BY <1>1 DEF StartSource
  <2>2. PICK c \in {"judging", "listing"} : pass' = [pass EXCEPT ![p] = [Idle EXCEPT !.fact = m, !.buf = buf, !.pc = c]]
    BY <2>1
  <2>3. buf \in [Task -> Rows \cup {None}]
    BY <1>0, DerivedFacts
  <2>4. Becomes(p, c, None, NoRows, buf, {})
    BY <1>0, <2>2, <2>3, StartFields
  <2>5. UNCHANGED <<mem, task, processed, books, cleanup>>
    BY <1>1 DEF StartSource
  <2> QED BY <2>4, <2>5, StartKeeps
<1>2. CASE StartBackfill(p)
  <2>1. PICK m \in Own : \E buf \in Derived(p, m) :
             pass' = [pass EXCEPT ![p] = [Idle EXCEPT !.buf = buf, !.pc = "listing"]]
    BY <1>2 DEF StartBackfill
  <2>2. PICK buf \in Derived(p, m) : pass' = [pass EXCEPT ![p] = [Idle EXCEPT !.buf = buf, !.pc = "listing"]]
    BY <2>1
  <2>3. m \in Mem /\ buf \in [Task -> Rows \cup {None}]
    BY <1>0, DerivedFacts DEF Mem
  <2>4. Becomes(p, "listing", None, NoRows, buf, {})
    BY <1>0, <2>2, <2>3, StartFields
  <2>5. UNCHANGED <<mem, task, processed, books, cleanup>>
    BY <1>2 DEF StartBackfill
  <2> QED BY <2>3, <2>4, <2>5, StartKeeps
<1>3. CASE Judge(p)
  <2>1. PICK t \in Task : /\ task[t] # None
                          /\ \E v \in {"closes", "satisfied"} :
                               pass' = [pass EXCEPT ![p].pc = "judged", ![p].target = t, ![p].verdict = v]
    BY <1>3 DEF Judge
  <2>2. Becomes(p, "judged", t, pass[p].list, pass[p].buf, pass[p].out)
    BY <1>0, <2>1, JudgeFields
  <2>3. t \in minted /\ pass[p].pc = "judging" /\ UNCHANGED <<mem, task, processed, books, cleanup>>
    BY <1>3, <2>1 DEF Judge, IInv, Committed
  <2>4. Phased(p)'
    BY <1>0, <2>2, <2>3 DEF Phased, Becomes, books
  <2> QED BY <2>2, <2>3, <2>4, PhaseKeeps
<1>4. CASE JudgeNone(p)
  <2>1. Becomes(p, "listing", pass[p].target, pass[p].list, pass[p].buf, pass[p].out)
    BY <1>0, <1>4, JudgeNoneFields DEF JudgeNone
  <2>2. pass[p].pc = "judging" /\ UNCHANGED <<mem, task, processed, books, cleanup>>
    BY <1>4 DEF JudgeNone
  <2>3. Phased(p)'
    BY <1>0, <2>1, <2>2 DEF Phased, Becomes
  <2> QED BY <2>1, <2>2, <2>3, PhaseKeeps
<1>5. CASE List(p)
  <2>1. PICK l \in [Task -> Mem \cup {None}] :
           /\ Becomes(p, "maintaining", pass[p].target, l, pass[p].buf, pass[p].out)
           /\ \A t \in Task : l[t] # None => See(p, t) # None /\ See(p, t).st \in Open
    BY <1>0, <1>5, ListFields
  <2>2. UNCHANGED <<mem, task, processed, books, cleanup>>
    BY <1>5 DEF List
  <2>3. Phased(p)'
    BY <2>1 DEF Phased, Becomes
  <2> QED BY <2>1, <2>2, <2>3, PhaseKeeps
<1> QED BY <1>1, <1>2, <1>3, <1>4, <1>5, SettleKeeps, MaintainKeeps, CommitKeeps, AbortKeeps DEF PassStep

-----------------------------------------------------------------------------
(* The steps of everybody else.                                            *)

LEMMA Unheld ==
  ASSUME NEW t \in Task, ~Held(t, None)
  PROVE  ~HeldRow(t) /\ t \notin cleanup.all
  BY TasksAssumption DEF Held, HeldRow

\* What a pass holds, it holds under its lock.
LEMMA HeldFacts == ASSUME IInv, NEW t \in Task, HeldRow(t) PROVE t \notin cleanup.all /\ t \notin Unminted
  BY DEF HeldRow, IInv, Passing, Grounded, Unminted

LEMMA OwnerKeeps == ASSUME IInv, OwnerStep PROVE Passing' /\ Committed' /\ Sparing'
<1>0. Typed /\ Committed /\ Sparing
  BY DEF IInv
<1>1. ASSUME NEW t \in Task, Complete(t) \/ Dismiss(t) \/ Reopen(t) PROVE Passing' /\ Committed' /\ Sparing'
  <2>1. /\ task[t] # None /\ ~HeldRow(t) /\ t \notin cleanup.all
        /\ UNCHANGED <<pass, minted, cleanup>> /\ touched' = touched \cup {t}
    BY <1>1, Unheld DEF Complete, Dismiss, Reopen
  <2>2. \A k \in Task : k # t => task'[k] = task[k]
    BY <1>0, <1>1 DEF Complete, Dismiss, Reopen, Typed
  <2>3. task'[t] # None => Sound(task'[t])
    <3>1. task[t] \in Rows
      BY <1>0, <2>1 DEF Typed
    <3>2. CASE Complete(t)
      <4>1. task'[t] = [task[t] EXCEPT !.st = "done", !.stamped = FALSE]
        BY <1>0, <3>2 DEF Complete, Typed
      <4> QED BY <3>1, <4>1 DEF Rows, Sound
    <3>3. CASE Dismiss(t)
      <4>1. task'[t] = [task[t] EXCEPT !.st = "dismissed", !.stamped = FALSE]
        BY <1>0, <3>3 DEF Dismiss, Typed
      <4> QED BY <3>1, <4>1 DEF Rows, Sound
    <3>4. CASE Reopen(t)
      <4>1. task'[t] = [task[t] EXCEPT !.st = IF task[t].cond = "waiting" THEN "blocked" ELSE "open",
                                       !.stamped = FALSE]
        BY <1>0, <3>4 DEF Reopen, Typed
      <4> QED BY <3>1, <4>1 DEF Rows, Sound
    <3> QED BY <1>1, <3>2, <3>3, <3>4
  <2>4. Passing'
    BY <2>1, <2>2, Beside, HeldFacts
  <2>5. Committed'
    BY <1>0, <2>1, <2>2, <2>3 DEF Committed
  <2>6. Sparing'
    BY <1>0, <2>1 DEF Sparing
  <2> QED BY <2>4, <2>5, <2>6
<1>2. ASSUME NEW m \in Mem, Adopt(m) PROVE Passing' /\ Committed' /\ Sparing'
  <2>1. PICK t \in Unminted, waits \in BOOLEAN :
             /\ task' = [task EXCEPT ![t] = NewTask(m, waits, TRUE)]
             /\ minted' = minted \cup {t} /\ touched' = touched \cup {t}
    BY <1>2 DEF Adopt
  <2>2. UNCHANGED <<pass, cleanup>>
    BY <1>2 DEF Adopt
  <2>3. t \in Task /\ t \notin minted /\ ~HeldRow(t)
    BY <2>1, HeldFacts DEF Unminted
  <2>4. task'[t] = NewTask(m, waits, TRUE) /\ \A k \in Task : k # t => task'[k] = task[k]
    BY <1>0, <2>1, <2>3 DEF Typed
  <2>5. Passing'
    BY <2>1, <2>2, <2>3, <2>4, Beside, HeldFacts
  <2>6. Committed'
    BY <1>0, <2>1, <2>3, <2>4, NewTaskFacts DEF Committed
  <2>7. Sparing'
    BY <1>0, <2>1, <2>2, <2>3 DEF Sparing
  <2> QED BY <2>5, <2>6, <2>7
<1> QED BY <1>1, <1>2 DEF OwnerStep

LEMMA NightlyKeeps == ASSUME IInv, Reminders \/ CleanupRead \/ CleanupDelete PROVE Passing' /\ Committed' /\ Sparing'
<1>0. Typed /\ Committed /\ Sparing
  BY DEF IInv
<1>1. UNCHANGED <<pass, minted, touched>>
  BY DEF Reminders, CleanupRead, CleanupDelete, books
<1>2. CASE Reminders
  <2>1. PICK S \in SUBSET {t \in Task : task[t] # None /\ task[t].st \in Open /\ ~task[t].stamped} :
             task' = [t \in Task |-> IF t \in S THEN [task[t] EXCEPT !.stamped = TRUE] ELSE task[t]]
    BY <1>2 DEF Reminders
  <2>2. \A t \in S : ~HeldRow(t) /\ task[t] # None /\ task[t].st \in Open
    BY <1>2, Unheld DEF Reminders
  <2>3. cleanup' = cleanup
    BY <1>2 DEF Reminders
  <2>4. Passing'
    BY <1>1, <2>1, <2>2, <2>3, Beside, HeldFacts
  <2>5. \A t \in S : Sound([task[t] EXCEPT !.stamped = TRUE])
    BY <1>0, <2>2 DEF Typed, Rows, Sound, Committed, Open, Settled
  <2>6. Committed'
    BY <1>0, <1>1, <2>1, <2>2, <2>5 DEF Committed
  <2>7. Sparing'
    BY <1>0, <1>1, <2>3 DEF Sparing
  <2> QED BY <2>4, <2>6, <2>7
<1>3. CASE CleanupRead
  <2>1. /\ task' = task
        /\ cleanup'.all = {t \in Task : task[t] # None}
        /\ cleanup'.spared = cleanup'.all \cap (touched \cup concluded)
    BY <1>3 DEF CleanupRead
  <2>2. \A t \in cleanup'.all : ~HeldRow(t)
    BY <1>3, <2>1, Unheld DEF CleanupRead
  <2>3. Passing'
    BY <1>1, <2>1, <2>2, Beside
  <2>4. Committed' /\ Sparing'
    BY <1>0, <1>1, <2>1 DEF Committed, Sparing
  <2> QED BY <2>3, <2>4
<1>4. CASE CleanupDelete
  <2>1. /\ \A t \in Task : task'[t] = task[t] \/ (task'[t] = None /\ t \in cleanup.all)
        /\ cleanup'.all = {} /\ cleanup'.spared = {}
    BY <1>4 DEF CleanupDelete, Resting
  <2>2. Passing'
    BY <1>1, <2>1, Beside, HeldFacts
  <2>3. Committed' /\ Sparing'
    BY <1>0, <1>1, <2>1 DEF Committed, Sparing
  <2> QED BY <2>2, <2>3
<1> QED BY <1>2, <1>3, <1>4

LEMMA MemoryKeeps ==
  ASSUME IInv, NEW m \in Mem, Admit(m) \/ Erase(m) \/ \E h \in Mem : Supersede(m, h)
  PROVE  Passing' /\ Committed' /\ Sparing'
<1>1. UNCHANGED <<pass, minted, touched, cleanup>>
  BY DEF Admit, Erase, Supersede, books
<1>2. \A t \in Task : \/ task'[t] = task[t]
                      \/ task'[t] = None /\ ~HeldRow(t)
  BY Unheld DEF Admit, Erase, Supersede
<1>3. Passing'
  BY <1>1, <1>2, Beside, HeldFacts
<1>4. Committed' /\ Sparing'
  BY <1>1, <1>2 DEF IInv, Committed, Sparing
<1> QED BY <1>3, <1>4

-----------------------------------------------------------------------------
LEMMA Initially == Init => IInv
<1> SUFFICES ASSUME Init PROVE IInv
  OBVIOUS
<1>1. PICK old \in {None} \cup Observed, t \in Task :
         /\ task = [NoRows EXCEPT ![t] = IF old = None THEN None ELSE NewTask(old, FALSE, FALSE)]
         /\ minted = IF old = None THEN {} ELSE {t}
         /\ processed = {old} \ {None}
         /\ mem = [m \in Mem |-> [st |-> IF m = old THEN "active" ELSE "unborn", next |-> None]]
  BY DEF Init
<1>2. /\ outbox = {} /\ concluded = {} /\ touched = {}
      /\ pass = [p \in Passes |-> Idle] /\ cleanup = Resting
  BY DEF Init
<1>3. old # None => old \in Mem /\ NewTask(old, FALSE, FALSE) \in Rows /\ Sound(NewTask(old, FALSE, FALSE))
  BY NewTaskFacts DEF Mem
<1>4. /\ old = None => task = NoRows /\ minted = {}
      /\ old # None => /\ task = [NoRows EXCEPT ![t] = NewTask(old, FALSE, FALSE)]
                       /\ minted = {t}
  BY <1>1 DEF NoRows
<1>5. Typed
  <2>1. mem \in [Mem -> [st : {"unborn", "active", "uncertain", "replaced", "erased"}, next : Mem \cup {None}]]
    BY <1>1
  <2>2. task \in [Task -> Rows \cup {None}] /\ minted \subseteq Task
    BY <1>3, <1>4 DEF NoRows
  <2>3. processed \subseteq Mem
    BY <1>1 DEF Mem
  <2>4. pass \in [Passes -> PassRecords]
    BY <1>2, IdleType
  <2> QED BY <1>2, <2>1, <2>2, <2>3, <2>4 DEF Typed, Resting
<1>6. Committed
  BY <1>3, <1>4 DEF Committed, NoRows
<1>7. Sparing
  BY <1>2 DEF Sparing, Resting
<1>8. Passing
  BY <1>2 DEF Passing, Phased, Grounded, Concluding, Idle, NoRows
<1> QED BY <1>5, <1>6, <1>7, <1>8 DEF IInv

LEMMA Inductive == IInv /\ [Next]_vars => IInv'
<1> SUFFICES ASSUME IInv, [Next]_vars PROVE IInv'
  OBVIOUS
<1>1. Typed'
  BY Typing
<1>2. Passing' /\ Committed' /\ Sparing'
  <2>1. CASE UNCHANGED vars
    <3>1. Committed' /\ Sparing'
      BY <2>1 DEF IInv, vars, Committed, Sparing
    <3>2. Passing'
      BY <2>1 DEF IInv, vars, Passing, Phased, Grounded, Concluding
    <3> QED BY <3>1, <3>2
  <2>2. CASE Next
    BY <2>2, PassKeeps, OwnerKeeps, NightlyKeeps, MemoryKeeps DEF Next
  <2> QED BY <2>1, <2>2
<1> QED BY <1>1, <1>2 DEF IInv

\* The rows, locks and conclusions of every pass fit the committed tasks in
\* every reachable state, for any memories, tasks and worker slots.
THEOREM Invariance == Spec => []IInv
<1> QED BY Initially, Inductive, PTL DEF Spec

\* A closed task carries no reminders, whoever closed it (settle, userOp,
\* maintain) and whenever the reminders pass read the open tasks.
THEOREM RemindersEnd == Spec => []ClosedTasksAreQuiet
<1>1. IInv => ClosedTasksAreQuiet
  BY DEF IInv, Committed, Sound, ClosedTasksAreQuiet
<1> QED BY <1>1, Invariance, PTL

-----------------------------------------------------------------------------
(* What a step does to a committed task.                                   *)

\* Only these steps touch a task or the queue of conclusions.
LEMMA Touching ==
  ASSUME IInv, Next
  PROVE  \/ \E p \in Passes : Commit(p)
         \/ \E t \in Task : Complete(t) \/ Dismiss(t) \/ Reopen(t)
         \/ \E m \in Mem : Adopt(m) \/ Admit(m) \/ Erase(m)
         \/ Reminders \/ CleanupDelete
         \/ UNCHANGED <<task, outbox>>
<1>1. ASSUME NEW p \in Passes, PassStep(p) PROVE Commit(p) \/ UNCHANGED <<task, outbox>>
  BY <1>1 DEF PassStep, StartSource, StartBackfill, Judge, JudgeNone, Settle, Unblock, List, Maintain, Abort, books
<1>2. CleanupRead => UNCHANGED <<task, outbox>>
  BY DEF CleanupRead, books
<1>3. ASSUME NEW m \in Mem, NEW h \in Mem, Supersede(m, h) PROVE UNCHANGED <<task, outbox>>
  BY <1>3 DEF Supersede, books
<1> QED BY <1>1, <1>2, <1>3 DEF Next, OwnerStep

\* What a commit makes of a committed task.
LEMMA CommitMeans ==
  ASSUME IInv, NEW p \in Passes, Commit(p), NEW t \in Task, task[t] # None
  PROVE  /\ task'[t] # None
         /\ task[t].st \in Settled => task'[t].st \notin Open
         /\ task'[t].st = "done" /\ task[t].st \in Open <=> <<t, "closed">> \in pass[p].out
         /\ task'[t].cond = "met" /\ task[t].cond = "waiting" <=> <<t, "met">> \in pass[p].out
<1>1. Grounded(p, t) /\ Concluding(p, t) /\ task'[t] = See(p, t)
  BY DEF IInv, Passing, Commit
<1>2. CASE pass[p].buf[t] = None
  BY <1>1, <1>2 DEF See, Concluding, Open, Settled
<1>3. CASE pass[p].buf[t] # None
  BY <1>1, <1>3 DEF See, Grounded, Concluding, Open, Settled
<1> QED BY <1>2, <1>3

\* What the others make of one.
LEMMA OwnerMeans ==
  ASSUME IInv, NEW k \in Task, NEW t \in Task, task[t] # None
  PROVE  /\ Complete(k) => task'[t] # None /\ IF t = k THEN /\ task[t].st \in Open /\ task'[t].st = "done"
                                                            /\ task'[t].cond = task[t].cond
                                                       ELSE task'[t] = task[t]
         /\ Dismiss(k) => task'[t] # None /\ IF t = k THEN /\ task[t].st \in Open /\ task'[t].st = "dismissed"
                                                           /\ task'[t].cond = task[t].cond
                                                      ELSE task'[t] = task[t]
         /\ Reopen(k) => task'[t] # None /\ IF t = k THEN /\ task'[t].st \in Open
                                                          /\ task'[t].cond = task[t].cond
                                                     ELSE task'[t] = task[t]
<1>1. Typed /\ task[t] \in Rows /\ Committed
  BY DEF IInv, Typed
<1>2. ASSUME NEW s \in Open \cup Settled, task'[t] = [task[t] EXCEPT !.st = s, !.stamped = FALSE]
      PROVE  task'[t] # None /\ task'[t].st = s /\ task'[t].cond = task[t].cond
  <2>1. [task[t] EXCEPT !.st = s, !.stamped = FALSE] \in Rows
    BY <1>1, RowFacts
  <2> QED BY <1>1, <1>2, <2>1, RowFacts DEF Rows
<1>3. /\ "done" \in Open \cup Settled /\ "dismissed" \in Open \cup Settled
      /\ "open" \in Open /\ "blocked" \in Open
  BY DEF Open, Settled
<1>4. ASSUME t # k, Complete(k) \/ Dismiss(k) \/ Reopen(k) PROVE task'[t] = task[t]
  BY <1>1, <1>4 DEF Complete, Dismiss, Reopen, Typed
<1>5. ASSUME t = k, Complete(k)
      PROVE  task'[t] # None /\ task[t].st \in Open /\ task'[t].st = "done" /\ task'[t].cond = task[t].cond
  <2>1. task'[t] = [task[t] EXCEPT !.st = "done", !.stamped = FALSE] /\ task[t].st \in Open
    BY <1>1, <1>5 DEF Complete, Typed
  <2> QED BY <1>2, <1>3, <2>1
<1>6. ASSUME t = k, Dismiss(k)
      PROVE  task'[t] # None /\ task[t].st \in Open /\ task'[t].st = "dismissed" /\ task'[t].cond = task[t].cond
  <2>1. task'[t] = [task[t] EXCEPT !.st = "dismissed", !.stamped = FALSE] /\ task[t].st \in Open
    BY <1>1, <1>6 DEF Dismiss, Typed
  <2> QED BY <1>2, <1>3, <2>1
<1>7. ASSUME t = k, Reopen(k)
      PROVE  task'[t] # None /\ task'[t].st \in Open /\ task'[t].cond = task[t].cond
  <2> DEFINE s == IF task[t].cond = "waiting" THEN "blocked" ELSE "open"
  <2>1. s \in Open
    BY <1>3
  <2>2. task'[t] = [task[t] EXCEPT !.st = s, !.stamped = FALSE]
    BY <1>1, <1>7 DEF Reopen, Typed
  <2> HIDE DEF s
  <2> QED BY <1>2, <2>1, <2>2
<1> QED BY <1>4, <1>5, <1>6, <1>7

LEMMA OthersMean ==
  ASSUME IInv, NEW m \in Mem, NEW t \in Task, task[t] # None
  PROVE  /\ Adopt(m) \/ Admit(m) => task'[t] = task[t]
         /\ Erase(m) => task'[t] = task[t] \/ (task'[t] = None /\ task[t].mem = m)
         /\ Reminders => /\ task'[t] # None /\ task'[t].st = task[t].st /\ task'[t].cond = task[t].cond
         /\ CleanupDelete => task'[t] = task[t] \/ (task'[t] = None /\ t \in cleanup.all \ cleanup.spared)
<1>1. Typed /\ task[t] \in Rows /\ Committed
  BY DEF IInv, Typed
<1>2. Adopt(m) => task'[t] = task[t]
  <2> SUFFICES ASSUME Adopt(m) PROVE task'[t] = task[t]
    OBVIOUS
  <2>1. PICK k \in Unminted, waits \in BOOLEAN : task' = [task EXCEPT ![k] = NewTask(m, waits, TRUE)]
    BY DEF Adopt
  <2>2. k # t
    BY <1>1, <2>1 DEF Committed, Unminted
  <2> QED BY <1>1, <2>1, <2>2 DEF Typed
<1>3. Admit(m) => task'[t] = task[t]
  BY DEF Admit
<1>4. Erase(m) => task'[t] = task[t] \/ (task'[t] = None /\ task[t].mem = m)
  BY DEF Erase
<1>5. Reminders => task'[t] # None /\ task'[t].st = task[t].st /\ task'[t].cond = task[t].cond
  <2>1. Reminders => task'[t] = task[t] \/ task'[t] = [task[t] EXCEPT !.stamped = TRUE]
    BY DEF Reminders
  <2>2. [task[t] EXCEPT !.stamped = TRUE] # None
    BY <1>1, RowFacts
  <2>3. /\ [task[t] EXCEPT !.stamped = TRUE].st = task[t].st
        /\ [task[t] EXCEPT !.stamped = TRUE].cond = task[t].cond
    BY <1>1 DEF Rows
  <2> QED BY <2>1, <2>2, <2>3
<1>6. CleanupDelete => task'[t] = task[t] \/ (task'[t] = None /\ t \in cleanup.all \ cleanup.spared)
  BY DEF CleanupDelete
<1> QED BY <1>2, <1>3, <1>4, <1>5, <1>6

\* The conclusions a step queues.
LEMMA Queueing ==
  ASSUME Next
  PROVE  /\ \A p \in Passes : Commit(p) => outbox' = outbox \cup pass[p].out
         /\ \A t \in Task : /\ Complete(t) => outbox' = outbox \cup {<<t, "closed">>}
                            /\ Dismiss(t) \/ Reopen(t) => outbox' = outbox
         /\ \A m \in Mem : Adopt(m) \/ Admit(m) \/ Erase(m) => outbox' \subseteq outbox
         /\ Reminders \/ CleanupDelete => outbox' = outbox
  BY DEF Commit, Complete, Dismiss, Reopen, Adopt, Admit, Erase, Reminders, CleanupDelete, books

-----------------------------------------------------------------------------
(* The action properties.                                                  *)

\* The conclusion of a task is queued in the step that closes or unblocks it.
Concludes(t) ==
    LET both   == task[t] # None /\ task'[t] # None
        closed == both /\ task[t].st \in Open /\ task'[t].st = "done"
        met    == both /\ task[t].cond = "waiting" /\ task'[t].cond = "met"
    IN /\ closed => <<t, "closed">> \in outbox'
       /\ met => <<t, "met">> \in outbox'
       /\ <<t, "closed">> \in outbox' \ outbox => closed
       /\ <<t, "met">> \in outbox' \ outbox => met

LEMMA ConcludesInStep == IInv /\ Next => \A t \in Task : Concludes(t)
<1> SUFFICES ASSUME IInv, Next, NEW t \in Task PROVE Concludes(t)
  OBVIOUS
<1>a. "done" \notin Open /\ "dismissed" # "done"
  BY DEF Open
<1>1. ASSUME NEW p \in Passes, Commit(p) PROVE Concludes(t)
  <2>1. outbox' = outbox \cup pass[p].out
    BY <1>1, Queueing
  <2>2. CASE task[t] # None
    BY <2>1, <2>2, <1>1, CommitMeans DEF Concludes
  <2>3. CASE task[t] = None
    <3>1. <<t, "closed">> \notin pass[p].out /\ <<t, "met">> \notin pass[p].out
      BY <2>3 DEF IInv, Passing, Concluding
    <3> QED BY <2>1, <2>3, <3>1 DEF Concludes
  <2> QED BY <2>2, <2>3
<1>2. ASSUME outbox' \subseteq outbox,
             task[t] # None /\ task'[t] # None =>
                (task'[t].st # "done" \/ task[t].st \notin Open) /\ task'[t].cond = task[t].cond
      PROVE  Concludes(t)
  BY <1>2 DEF Concludes
<1>3. ASSUME NEW k \in Task, Complete(k) PROVE Concludes(t)
  <2>1. outbox' = outbox \cup {<<k, "closed">>} /\ task[k] # None
    BY <1>3, Queueing DEF Complete
  <2>2. task[t] # None => task'[t] # None /\ IF t = k THEN /\ task[t].st \in Open /\ task'[t].st = "done"
                                                            /\ task'[t].cond = task[t].cond
                                                       ELSE task'[t] = task[t]
    BY <1>3, OwnerMeans
  <2> QED BY <1>a, <2>1, <2>2 DEF Concludes
<1>4. ASSUME NEW k \in Task, Dismiss(k) \/ Reopen(k) PROVE Concludes(t)
  <2>1. outbox' \subseteq outbox
    BY <1>4, Queueing
  <2>2. CASE task[t] # None
    BY <1>2, <1>4, <1>a, <2>1, <2>2, OwnerMeans
  <2> QED BY <1>2, <2>1, <2>2
<1>5. ASSUME NEW m \in Mem, Adopt(m) \/ Admit(m) \/ Erase(m) PROVE Concludes(t)
  <2>1. outbox' \subseteq outbox
    BY <1>5, Queueing
  <2>2. CASE task[t] # None
    BY <1>2, <1>5, <1>a, <2>1, <2>2, OthersMean
  <2> QED BY <1>2, <2>1, <2>2
<1>6. ASSUME Reminders \/ CleanupDelete PROVE Concludes(t)
  <2>1. outbox' \subseteq outbox
    BY <1>6, Queueing
  <2>2. CASE task[t] # None
    <3>1. PICK m \in Mem : TRUE
      BY <2>2 DEF IInv, Typed, Rows
    <3> QED BY <1>2, <1>6, <1>a, <2>1, <2>2, OthersMean
  <2> QED BY <1>2, <2>1, <2>2
<1>7. ASSUME UNCHANGED <<task, outbox>> PROVE Concludes(t)
  BY <1>a, <1>2, <1>7
<1> QED BY <1>1, <1>3, <1>4, <1>5, <1>6, <1>7, Touching

\* A conclusion enters the pipeline in the step that closes or unblocks its
\* task and in no other (settle, unblock, complete; decision 0037), whatever
\* the passes beside it have read and written.
THEOREM ConclusionsTrue == Spec => ConclusionIffTransition
<1>1. IInv /\ [Next]_vars => [\A t \in Task : Concludes(t)]_vars
  BY ConcludesInStep
<1>2. [\A t \in Task : Concludes(t)]_vars =>
        [\A t \in Task :
            LET both   == task[t] # None /\ task'[t] # None
                closed == both /\ task[t].st \in Open /\ task'[t].st = "done"
                met    == both /\ task[t].cond = "waiting" /\ task'[t].cond = "met"
            IN /\ closed => <<t, "closed">> \in outbox'
               /\ met => <<t, "met">> \in outbox'
               /\ <<t, "closed">> \in outbox' \ outbox => closed
               /\ <<t, "met">> \in outbox' \ outbox => met]_vars
  BY DEF Concludes
<1> QED BY <1>1, <1>2, Invariance, PTL DEF Spec, ConclusionIffTransition

\* A settled task opens by its owner's hand, and a task its owner has touched
\* goes with its memory.
Stands(t) ==
    task[t] # None =>
        /\ (task'[t] # None /\ task[t].st \in Settled /\ task'[t].st \in Open)
             => (t \in touched' /\ pass' = pass)
        /\ (task'[t] = None /\ t \in touched) => mem'[task[t].mem].st = "erased"

LEMMA StandsInStep == IInv /\ Next => \A t \in Task : Stands(t)
<1> SUFFICES ASSUME IInv, Next, NEW t \in Task, task[t] # None PROVE Stands(t)
  BY DEF Stands
<1>a. Open \cap Settled = {} /\ "done" \notin Open /\ "dismissed" \notin Open
  BY DEF Open, Settled
<1>b. task[t] \in Rows /\ task[t].mem \in Mem
  BY RowFacts DEF IInv, Typed
<1>1. ASSUME NEW p \in Passes, Commit(p) PROVE Stands(t)
  BY <1>1, CommitMeans DEF Stands
<1>2. ASSUME task'[t] # None, task'[t].st = task[t].st PROVE Stands(t)
  BY <1>2, <1>a DEF Stands
<1>3. ASSUME NEW k \in Task, Complete(k) \/ Dismiss(k) PROVE Stands(t)
  <2>1. task'[t] # None /\ (task'[t].st = task[t].st \/ task'[t].st \notin Open)
    BY <1>3, <1>a, OwnerMeans
  <2> QED BY <1>2, <2>1 DEF Stands
<1>4. ASSUME NEW k \in Task, Reopen(k) PROVE Stands(t)
  <2>1. task'[t] # None /\ (task'[t].st = task[t].st \/ t = k)
    BY <1>4, OwnerMeans
  <2>2. k \in touched' /\ pass' = pass
    BY <1>4 DEF Reopen
  <2> QED BY <1>2, <2>1, <2>2 DEF Stands
<1>5. ASSUME NEW m \in Mem, Adopt(m) \/ Admit(m) PROVE Stands(t)
  BY <1>2, <1>5, OthersMean
<1>6. ASSUME NEW m \in Mem, Erase(m) PROVE Stands(t)
  <2>1. task'[t] = task[t] \/ (task'[t] = None /\ task[t].mem = m)
    BY <1>6, OthersMean
  <2>2. mem'[m].st = "erased"
    BY <1>6 DEF Erase
  <2> QED BY <1>2, <2>1, <2>2 DEF Stands
<1>7. CASE Reminders
  BY <1>b, <1>2, <1>7, OthersMean
<1>8. CASE CleanupDelete
  <2>1. task'[t] = task[t] \/ (task'[t] = None /\ t \in cleanup.all \ cleanup.spared)
    BY <1>b, <1>8, OthersMean
  <2>2. t \in cleanup.all \ cleanup.spared => t \notin touched
    BY DEF IInv, Sparing
  <2> QED BY <1>2, <2>1, <2>2 DEF Stands
<1>9. CASE UNCHANGED <<task, outbox>>
  BY <1>2, <1>9
<1> QED BY <1>1, <1>3, <1>4, <1>5, <1>6, <1>7, <1>8, <1>9, Touching

\* What the owner settled the engine does not open, and what the owner acted on
\* the one-shot cleanup does not delete (processSource, derivationCleanup),
\* also when the act and the pass overlap.
THEOREM OwnersActsStand == Spec => OwnerActsStand
<1>1. IInv /\ [Next]_vars => [\A t \in Task : Stands(t)]_vars
  BY StandsInStep
<1>2. [\A t \in Task : Stands(t)]_vars =>
        [\A t \in Task : task[t] # None =>
            /\ (task'[t] # None /\ task[t].st \in Settled /\ task'[t].st \in Open)
                 => (t \in touched' /\ pass' = pass)
            /\ (task'[t] = None /\ t \in touched) => mem'[task[t].mem].st = "erased"]_vars
  BY DEF Stands
<1> QED BY <1>1, <1>2, Invariance, PTL DEF Spec, OwnerActsStand
=============================================================================
