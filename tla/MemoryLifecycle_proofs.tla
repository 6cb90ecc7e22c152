----------------------- MODULE MemoryLifecycle_proofs -----------------------
(***************************************************************************)
(* Proofs about MemoryLifecycle, for any number of memories, sources and   *)
(* concurrent drivers: a contradicted memory always has the open relation  *)
(* that dismissing restores it from, and history is acyclic.               *)
(*                                                                         *)
(* The argument: a memory that once was not uncertain never is again       *)
(* (Keeps), since only facts seen active and candidates that are not       *)
(* uncertain are paired (Jobs), so no party of a relation can be rejected  *)
(* (Relations); and a pointer is only ever set to a memory that has none.  *)
(***************************************************************************)
EXTENDS MemoryLifecycle, TLAPS

Interval == [from : 0 .. Now, until : (0 .. Now) \cup {Forever}]

\* A memory that was born keeps its provenance and its interval.
Born == \A m \in Mem : status[m] # "unborn" => src[m] \in Sources /\ held[m] \in Interval

JobType == [fact : Mem \cup {None}, seen : Statuses \cup {None},
            cand : Mem \cup {None}, verdict : Verdicts \cup {None}]

\* What a driver holds is about memories that were born; what it may pair was
\* not uncertain when it was read.
Sound(j) ==
    /\ j.fact # None => status[j.fact] # "unborn"
    /\ j.seen = "active" => j.fact # None /\ status[j.fact] # "uncertain"
    /\ j.verdict # None =>
          j.fact # None /\ j.cand # None /\ j.fact # j.cand /\ status[j.cand] # "unborn"
    /\ j.verdict \in Conflicts => j.seen = "active" /\ status[j.cand] # "uncertain"
Jobs == \A d \in Drivers : Sound(job[d])

\* Open relations join two live memories, neither uncertain, and recorded both.
Relations ==
    /\ \A a, b \in Mem : <<a, b>> \in open =>
          /\ <<b, a>> \in open /\ a # b
          /\ a \in Live /\ status[a] # "uncertain" /\ prior[<<a, b>>] # None
    /\ \A a, b \in Mem : prior[<<a, b>>] # "uncertain"

\* The two halves of HistoryIntact.
PointersLive == \A m \in Mem : ptr[m] # None => status[m] = "replaced" /\ ptr[m] \in Live
Acyclic == \A S \in SUBSET Mem : S # {} => \E m \in S : ptr[m] \notin S

IInv == /\ TypeOK /\ Born /\ Jobs /\ Relations
        /\ ContradictionAccountable /\ PointersLive /\ Acyclic

\* No memory is unborn, or uncertain, again.
Keeps == \A m \in Mem : status[m] # "unborn" =>
            status'[m] # "unborn" /\ (status'[m] = "uncertain" => status[m] = "uncertain")

\* The pointers that are set lead to memories that have none.
Leads == \A m \in Mem : \/ ptr'[m] \in {ptr[m], None}
                        \/ ptr'[m] \in Mem /\ ptr'[ptr'[m]] = None

USE NoneAssumption

-----------------------------------------------------------------------------
LEMMA AcyclicKept == ASSUME Acyclic, Leads PROVE Acyclic'
<1> SUFFICES ASSUME NEW S \in SUBSET Mem, S # {}
             PROVE  \E m \in S : ptr'[m] \notin S
  BY DEF Acyclic
<1>1. PICK m \in S : ptr[m] \notin S
  BY DEF Acyclic
<1>2. CASE ptr'[m] \in {ptr[m], None}
  BY <1>1, <1>2
<1>3. CASE ptr'[m] \in Mem /\ ptr'[ptr'[m]] = None
  BY <1>3
<1> QED BY <1>2, <1>3 DEF Leads

LEMMA NoneIsNothing == None \notin Verdicts /\ None \notin Conflicts /\ None \notin Statuses
BY DEF Conflicts, Directed, Verdicts, Merges, Statuses

LEMMA SoundKept == ASSUME NEW j \in JobType, Sound(j), Keeps PROVE Sound(j)'
<1>1. j.fact \in Mem \cup {None} /\ j.cand \in Mem \cup {None}
  BY DEF JobType
<1> QED BY <1>1, NoneIsNothing DEF Sound, Keeps

LEMMA JobsKept == ASSUME TypeOK, Jobs, Keeps, job' = job PROVE Jobs'
<1> SUFFICES ASSUME NEW d \in Drivers PROVE Sound(job[d])'
  BY DEF Jobs
<1>1. job[d] \in JobType /\ Sound(job[d])
  BY DEF TypeOK, JobType, Jobs
<1>2. \A j \in JobType : Sound(j) => Sound(j)'
  BY SoundKept
<1> QED BY <1>1, <1>2 DEF Sound

\* One driver moves on to a job that is as sound.
LEMMA JobsMoved ==
    ASSUME TypeOK, Jobs, Keeps, NEW d \in Drivers, NEW j \in JobType,
           job' = [job EXCEPT ![d] = j], Sound(j)'
    PROVE  Jobs' /\ job' \in [Drivers -> JobType]
<1>1. job \in [Drivers -> JobType]
  BY DEF TypeOK, JobType
<1>2. \A k \in JobType : Sound(k) => Sound(k)'
  BY SoundKept
<1>3. ASSUME NEW e \in Drivers PROVE Sound(job[e])'
  <2>1. CASE e = d
    BY <1>1, <2>1 DEF Sound
  <2>2. CASE e # d
    BY <1>1, <1>2, <2>2 DEF Sound, Jobs
  <2> QED BY <2>1, <2>2
<1>4. job' \in [Drivers -> JobType]
  BY <1>1
<1> QED BY <1>3, <1>4 DEF Jobs

LEMMA JobDropped ==
    ASSUME TypeOK, Jobs, Keeps, NEW d \in Drivers, job' = [job EXCEPT ![d] = NoJob]
    PROVE  Jobs' /\ job' \in [Drivers -> JobType]
<1>1. NoJob \in JobType
  BY DEF NoJob, JobType
<1>2. Sound(NoJob)'
  BY NoneIsNothing DEF NoJob, Sound, Statuses
<1> QED BY <1>1, <1>2, JobsMoved

\* A step that pairs and erases nothing, and neither accuses nor unaccuses.
LEMMA RelationsKept ==
    ASSUME TypeOK, Relations, ContradictionAccountable, Keeps,
           UNCHANGED <<prior, open>>,
           \A m \in Live : status'[m] \in Statuses,
           \A m \in Mem : status'[m] = "contradicted" => status[m] = "contradicted"
    PROVE  Relations' /\ ContradictionAccountable'
<1>1. prior' = prior /\ open' = open
  OBVIOUS
<1>2. \A a \in Mem : a \in Live /\ status[a] # "uncertain"
                     => a \in Live' /\ status'[a] # "uncertain"
  BY DEF Keeps, Live, Statuses
<1>3. Relations'
  BY <1>1, <1>2 DEF Relations
<1>4. ContradictionAccountable'
  BY <1>1 DEF ContradictionAccountable
<1> QED BY <1>3, <1>4

\* The relation a contradicted memory is accounted for by.
LEMMA Witness ==
    ASSUME TypeOK, ContradictionAccountable, NEW m \in Mem, status[m] = "contradicted"
    PROVE  \E b \in Mem : <<m, b>> \in open /\ prior[<<m, b>>] # "contradicted"
<1>1. PICK p \in open : p[1] = m /\ prior[p] # "contradicted"
  BY DEF ContradictionAccountable
<1>2. p \in Mem \X Mem
  BY DEF TypeOK
<1>3. p = <<m, p[2]>> /\ p[2] \in Mem
  BY <1>1, <1>2
<1> QED BY <1>1, <1>3

\* A relation between a and b is resolved, and they are contradicted no more
\* unless it is by another one.
LEMMA RelationClosed ==
    ASSUME TypeOK, Relations, ContradictionAccountable, Keeps,
           NEW a \in Mem, NEW b \in Mem, <<a, b>> \in open,
           prior' = prior, open' = open \ Pair(a, b),
           \A m \in Live : status'[m] \in Statuses,
           \A m \in Mem : status'[m] = "contradicted" => status[m] = "contradicted",
           status'[a] = "contradicted" => prior[<<a, b>>] = "contradicted",
           status'[b] = "contradicted" => prior[<<b, a>>] = "contradicted"
    PROVE  Relations' /\ ContradictionAccountable'
<1>1. \A m \in Mem : m \in Live /\ status[m] # "uncertain"
                     => m \in Live' /\ status'[m] # "uncertain"
  BY DEF Keeps, Live, Statuses
<1>2. Relations'
  BY <1>1 DEF Relations, Pair
<1>3. ASSUME NEW m \in Mem, status'[m] = "contradicted"
      PROVE  \E p \in open' : p[1] = m /\ prior'[p] # "contradicted"
  <2>1. PICK c \in Mem : <<m, c>> \in open /\ prior[<<m, c>>] # "contradicted"
    BY <1>3, Witness
  <2>2. <<m, c>> \notin Pair(a, b)
    BY <1>3, <2>1 DEF Pair
  <2> QED BY <2>1, <2>2
<1> QED BY <1>2, <1>3 DEF ContradictionAccountable

\* No pointer moves, history stays history and the live stay live.
LEMMA PointersKept ==
    ASSUME TypeOK, PointersLive, ptr' = ptr,
           \A m \in Live : status'[m] \in Statuses,
           \A m \in Mem : status[m] = "replaced" => status'[m] = "replaced"
    PROVE  PointersLive' /\ Leads
<1>1. PointersLive'
  BY DEF PointersLive, Live
<1> QED BY <1>1 DEF Leads

LEMMA InitIInv == Init => IInv
<1> SUFFICES ASSUME Init PROVE IInv
  OBVIOUS
<1>1. TypeOK
  BY DEF Init, TypeOK, NoJob
<1>2. Born /\ PointersLive /\ ContradictionAccountable
  BY DEF Init, Born, PointersLive, ContradictionAccountable
<1>3. Jobs
  BY DEF Init, Jobs, Sound, NoJob, Conflicts, Directed, Verdicts, Merges, Statuses
<1>4. Relations
  BY DEF Init, Relations, Statuses
<1>5. Acyclic
  BY DEF Init, Acyclic
<1> QED BY <1>1, <1>2, <1>3, <1>4, <1>5 DEF IInv

-----------------------------------------------------------------------------
(* Admission and reconciliation.                                           *)

\* What is left to show of a step once the lemmas above apply.
LEMMA AdmitIInv == IInv /\ Admit => IInv'
<1> SUFFICES ASSUME IInv, NEW m \in Mem, NEW s \in {"active", "uncertain"},
                    NEW o \in Sources, NEW v \in Validity[o],
                    Fresh(m), Inserted(m, s, {}),
                    src' = [src EXCEPT ![m] = o], held' = [held EXCEPT ![m] = v],
                    UNCHANGED <<prior, open, job, lapsed>>
             PROVE  IInv'
  BY DEF Admit
<1> USE DEF IInv
<1>1. v \in Interval
  BY TimeAssumption DEF Interval
<1>2. status' = [status EXCEPT ![m] = s] /\ ptr' = ptr
  BY DEF Inserted, TypeOK
<1>3. TypeOK'
  BY <1>1, <1>2 DEF TypeOK, Statuses, Interval
<1>4. Born'
  BY <1>1, <1>2 DEF Born, TypeOK, Fresh
<1>5. Keeps /\ status[m] = "unborn"
  BY <1>2 DEF Keeps, TypeOK, Fresh
<1>6. Jobs'
  BY <1>5, JobsKept
<1>7. \A k \in Live : status'[k] \in Statuses
  BY <1>2, <1>5 DEF Live, Statuses, TypeOK
<1>8. Relations' /\ ContradictionAccountable'
  BY <1>2, <1>5, <1>7, RelationsKept DEF TypeOK
<1>9. PointersLive' /\ Leads
  BY <1>2, <1>5, <1>7, PointersKept DEF TypeOK
<1>10. Acyclic'
  BY <1>9, AcyclicKept
<1> QED BY <1>3, <1>4, <1>6, <1>8, <1>9, <1>10

\* The steps of a driver that change only what it holds.
LEMMA MovedIInv ==
    ASSUME IInv, NEW d \in Drivers, NEW j \in JobType, Sound(j),
           job' = [job EXCEPT ![d] = j],
           UNCHANGED <<status, ptr, src, held, prior, open, lapsed>>
    PROVE  IInv'
<1> USE DEF IInv
<1>1. Keeps
  BY DEF Keeps
<1>2. Sound(j)'
  BY DEF Sound
<1>3. Jobs' /\ job' \in [Drivers -> JobType]
  BY <1>1, <1>2, JobsMoved
<1>4. TypeOK'
  BY <1>3 DEF TypeOK, JobType
<1> QED BY <1>3, <1>4 DEF Born, Relations, Live, ContradictionAccountable, PointersLive, Acyclic

LEMMA DriverIInv ==
    ASSUME IInv, NEW d \in Drivers,
           Take(d) \/ Judge(d) \/ Settle(d) \/ SkipMerge(d) \/ Abort(d)
    PROVE  IInv'
<1> USE DEF IInv
<1>1. job \in [Drivers -> JobType] /\ job[d] \in JobType /\ Sound(job[d])
  BY DEF TypeOK, JobType, Jobs
<1>2. CASE Take(d)
  <2>1. PICK f \in Live :
           /\ status[f] \in {"active", "uncertain"}
           /\ job' = [job EXCEPT ![d].fact = f, ![d].seen = status[f]]
    BY <1>2 DEF Take
  <2> DEFINE j == [job[d] EXCEPT !.fact = f, !.seen = status[f]]
  <2>2. job[d] = NoJob
    BY <1>2 DEF Take
  <2>3. job' = [job EXCEPT ![d] = j]
    BY <1>1, <2>1
  <2>4. f \in Mem /\ status[f] # "unborn"
    BY DEF Live, Statuses
  <2>5. j \in JobType
    BY <1>1, <2>1, <2>4 DEF JobType, Statuses
  <2>6. j.fact = f /\ j.seen = status[f] /\ j.verdict = None
    BY <1>1, <2>2 DEF JobType, NoJob
  <2>7. Sound(j)
    BY <2>1, <2>4, <2>6, NoneIsNothing DEF Sound
  <2>8. UNCHANGED <<status, ptr, src, held, prior, open, lapsed>>
    BY <1>2 DEF Take
  <2> HIDE DEF j
  <2> QED BY <2>3, <2>5, <2>7, <2>8, MovedIInv
<1>3. CASE Judge(d)
  <2>1. PICK c \in Live, v \in Verdicts :
           /\ c # job[d].fact
           /\ v \in Conflicts => /\ job[d].seen = "active"
                                 /\ status[c] \in ContradictionCandidates
           /\ job' = [job EXCEPT ![d].cand = c, ![d].verdict = v]
    BY <1>3 DEF Judge, Verdicts, Conflicts, Merges, Directed
  <2> DEFINE j == [job[d] EXCEPT !.cand = c, !.verdict = v]
  <2>2. job[d].fact # None
    BY <1>3 DEF Judge
  <2>3. job' = [job EXCEPT ![d] = j]
    BY <1>1, <2>1
  <2>4. c \in Mem /\ status[c] # "unborn" /\ c # None
    BY DEF Live, Statuses
  <2>5. j \in JobType
    BY <1>1, <2>1, <2>4 DEF JobType
  <2>6. j.fact = job[d].fact /\ j.seen = job[d].seen /\ j.cand = c /\ j.verdict = v
    BY <1>1 DEF JobType
  <2>7. Sound(j)
    BY <1>1, <2>1, <2>2, <2>4, <2>6 DEF Sound, ContradictionCandidates
  <2>8. UNCHANGED <<status, ptr, src, held, prior, open, lapsed>>
    BY <1>3 DEF Judge
  <2> HIDE DEF j
  <2> QED BY <2>3, <2>5, <2>7, <2>8, MovedIInv
<1>4. CASE SkipMerge(d)
  <2> DEFINE j == [job[d] EXCEPT !.cand = None, !.verdict = None]
  <2>1. job' = [job EXCEPT ![d] = j]
    BY <1>1, <1>4 DEF SkipMerge
  <2>2. j \in JobType
    BY <1>1 DEF JobType
  <2>3. j.fact = job[d].fact /\ j.seen = job[d].seen /\ j.verdict = None
    BY <1>1 DEF JobType
  <2>4. Sound(j)
    BY <1>1, <2>3, NoneIsNothing DEF Sound
  <2>5. UNCHANGED <<status, ptr, src, held, prior, open, lapsed>>
    BY <1>4 DEF SkipMerge
  <2> HIDE DEF j
  <2> QED BY <2>1, <2>2, <2>4, <2>5, MovedIInv
<1>5. CASE Settle(d) \/ Abort(d)
  <2>1. NoJob \in JobType
    BY DEF NoJob, JobType
  <2>2. Sound(NoJob)
    BY NoneIsNothing DEF NoJob, Sound, Statuses
  <2>3. job' = [job EXCEPT ![d] = NoJob]
        /\ UNCHANGED <<status, ptr, src, held, prior, open, lapsed>>
    BY <1>5 DEF Settle, Abort
  <2> QED BY <2>1, <2>2, <2>3, MovedIInv
<1> QED BY <1>2, <1>3, <1>4, <1>5

\* A memory is inserted and its predecessors, none of them replaced before, are
\* closed onto it: enrichment and edits.
LEMMA Succeeded ==
    ASSUME IInv, NEW m \in Mem, NEW t \in Statuses \ {"contradicted", "replaced"},
           NEW P \in SUBSET Live, NEW v \in Interval, NEW o \in Sources,
           Fresh(m), Inserted(m, t, P),
           src' = [src EXCEPT ![m] = o], held' = [held EXCEPT ![m] = v],
           UNCHANGED <<prior, open, lapsed>>,
           job' \in [Drivers -> JobType], Keeps => Jobs'
    PROVE  IInv'
<1> USE DEF IInv
<1>1. status[m] = "unborn" /\ m \notin P /\ ptr[m] = None
  BY DEF Fresh, Live, Statuses, PointersLive
<1>2. \A k \in Mem : k # m => status'[k] = IF k \in P THEN "replaced" ELSE status[k]
  BY DEF Inserted
<1>3. status'[m] = t /\ \A k \in Mem : ptr'[k] = IF k \in P THEN m ELSE ptr[k]
  BY <1>1 DEF Inserted
<1>4. TypeOK'
  <2>1. status' \in [Mem -> Statuses \cup {"unborn", "erased"}]
    BY DEF TypeOK, Inserted, Statuses
  <2>2. ptr' \in [Mem -> Mem \cup {None}]
    BY DEF TypeOK, Inserted
  <2>3. src' \in [Mem -> Sources \cup {None}]
    BY DEF TypeOK
  <2>4. held' \in [Mem -> Interval \cup {None}]
    BY DEF TypeOK, Interval
  <2> QED BY <2>1, <2>2, <2>3, <2>4 DEF TypeOK, Interval, JobType
<1>5. Keeps
  BY <1>1, <1>2, <1>3 DEF Keeps, Statuses
<1>6. \A k \in Live : status'[k] \in Statuses
  BY <1>1, <1>2, <1>3 DEF Live, Statuses
<1>7. Born'
  BY <1>1, <1>2 DEF Born, TypeOK, Live, Statuses
<1>8. Relations' /\ ContradictionAccountable'
  BY <1>2, <1>3, <1>5, <1>6, RelationsKept, Zenon
<1>9. m \in Live'
  BY <1>3 DEF Live
<1>10. PointersLive'
  <2> SUFFICES ASSUME NEW k \in Mem, ptr'[k] # None
               PROVE  status'[k] = "replaced" /\ ptr'[k] \in Live'
    BY DEF PointersLive
  <2>1. CASE k \in P
    BY <1>1, <1>2, <1>3, <1>9, <2>1
  <2>2. CASE k \notin P
    <3>1. status[k] = "replaced" /\ ptr[k] \in Live /\ ptr'[k] = ptr[k]
      BY <1>3, <2>2 DEF PointersLive
    <3> QED BY <1>1, <1>2, <1>6, <2>2, <3>1 DEF Live
  <2> QED BY <2>1, <2>2
<1>11. Leads
  BY <1>1, <1>3 DEF Leads
<1> QED BY <1>4, <1>5, <1>7, <1>8, <1>10, <1>11, AcyclicKept

\* One memory is closed onto another that is history's no more than it was.
LEMMA Closed ==
    ASSUME IInv, NEW l \in Live, NEW w \in Live, l # w, status[w] # "replaced",
           status' = [status EXCEPT ![l] = "replaced"], ptr' = [ptr EXCEPT ![l] = w],
           UNCHANGED <<src, held, prior, open, lapsed>>,
           job' \in [Drivers -> JobType], Keeps => Jobs'
    PROVE  IInv'
<1> USE DEF IInv
<1>1. l \in Mem /\ w \in Mem /\ ptr[w] = None
  BY DEF Live, PointersLive
<1>2. TypeOK'
  BY <1>1 DEF TypeOK, JobType, Statuses
<1>3. \A k \in Mem : /\ status'[k] = IF k = l THEN "replaced" ELSE status[k]
                     /\ ptr'[k] = IF k = l THEN w ELSE ptr[k]
  BY DEF TypeOK
<1>4. status[l] # "unborn"
  BY DEF Live, Statuses
<1>5. Keeps
  BY <1>3 DEF Keeps
<1>6. \A k \in Live : status'[k] \in Statuses
  BY <1>3 DEF Live, Statuses
<1>7. Relations' /\ ContradictionAccountable'
  <2>1. \A k \in Mem : status'[k] = "contradicted" => status[k] = "contradicted"
    BY <1>3
  <2> QED BY <1>5, <1>6, <2>1, RelationsKept
<1>8. Born'
  BY <1>3, <1>4 DEF Born
<1>9. PointersLive'
  <2> SUFFICES ASSUME NEW k \in Mem, ptr'[k] # None
               PROVE  status'[k] = "replaced" /\ ptr'[k] \in Live'
    BY DEF PointersLive
  <2> QED BY <1>1, <1>3, <1>6 DEF PointersLive, Live
<1>10. Leads
  BY <1>1, <1>3 DEF Leads
<1> QED BY <1>2, <1>5, <1>7, <1>8, <1>9, <1>10, AcyclicKept

LEMMA PairActIInv == ASSUME IInv, NEW d \in Drivers, PairAct(d) PROVE IInv'
<1> USE DEF IInv
<1> DEFINE f == job[d].fact
           c == job[d].cand
<1>1. job[d] \in JobType /\ Sound(job[d])
  BY DEF TypeOK, JobType, Jobs
<1>2. job[d].verdict # None
  BY NoneIsNothing DEF PairAct, Merge, Supersede, Contradict, Verdicts, Conflicts, Merges, Directed
<1>3. f # c
  BY <1>1, <1>2 DEF Sound
<1>4. job' = [job EXCEPT ![d] = NoJob] /\ lapsed' = lapsed
  BY DEF PairAct, Merge, Supersede, Contradict
<1>5. job' \in [Drivers -> JobType]
  <2>1. NoJob \in JobType
    BY DEF NoJob, JobType
  <2> QED BY <1>4, <2>1 DEF TypeOK, JobType
<1>6. Keeps => Jobs'
  BY <1>4, JobDropped
<1> HIDE DEF f, c
<1>7. CASE Merge(d)
  <2> DEFINE s == Survivor(f, c)
             l == IF s = f THEN c ELSE f
  <2>1. {f, c} \subseteq Live /\ "replaced" \notin {status[f], status[c]}
    BY <1>7 DEF Merge, Mergeable, f, c
  <2>2. s \in {f, c} /\ l \in {f, c} /\ s # l
    BY <1>3 DEF Survivor
  <2>3. UNCHANGED <<prior, open, lapsed>>
    BY <1>7 DEF Merge
  <2> HIDE DEF s, l
  <2>4. CASE \E m \in Mem : /\ Fresh(m) /\ status[s] \in {"active", "uncertain"}
                            /\ Inserted(m, status[s], {s, l})
                            /\ src' = [src EXCEPT ![m] = src[s]]
                            /\ held' = [held EXCEPT ![m] = held[s]]
    <3>1. PICK m \in Mem : /\ Fresh(m) /\ status[s] \in {"active", "uncertain"}
                           /\ Inserted(m, status[s], {s, l})
                           /\ src' = [src EXCEPT ![m] = src[s]]
                           /\ held' = [held EXCEPT ![m] = held[s]]
      BY <2>4
    <3>2. src[s] \in Sources /\ held[s] \in Interval
      BY <2>1, <2>2 DEF Born, Live, Statuses
    <3>3. status[s] \in Statuses \ {"contradicted", "replaced"}
      BY <3>1 DEF Statuses
    <3>4. {s, l} \in SUBSET Live
      BY <2>1, <2>2
    <3> QED BY <1>5, <1>6, <2>3, <3>1, <3>2, <3>3, <3>4, Succeeded
  <2>5. CASE /\ status' = [status EXCEPT ![l] = "replaced"]
             /\ ptr' = [ptr EXCEPT ![l] = s]
             /\ UNCHANGED <<src, held>>
    <3>1. l \in Live /\ s \in Live /\ status[s] # "replaced"
      BY <2>1, <2>2
    <3> QED BY <1>5, <1>6, <2>2, <2>3, <2>5, <3>1, Closed
  <2> QED BY <1>7, <2>4, <2>5 DEF Merge, f, c, s, l
<1>8. CASE Supersede(d)
  <2> DEFINE w == IF job[d].verdict = "a_over_b" THEN f ELSE c
             l == IF job[d].verdict = "a_over_b" THEN c ELSE f
  <2>1. {f, c} \subseteq Live /\ "replaced" \notin {status[f], status[c]}
    BY <1>8 DEF Supersede, Mergeable, f, c
  <2>2. w \in Live /\ l \in Live /\ w # l /\ status[w] # "replaced"
    BY <1>3, <2>1
  <2>3. /\ status' = [status EXCEPT ![l] = "replaced"]
        /\ ptr' = [ptr EXCEPT ![l] = w]
        /\ UNCHANGED <<src, held, prior, open, lapsed>>
    BY <1>8 DEF Supersede, f, c
  <2> HIDE DEF w, l
  <2> QED BY <1>5, <1>6, <2>2, <2>3, Closed
<1>9. CASE Contradict(d)
  <2>1. {f, c} \subseteq Live /\ f \in Mem /\ c \in Mem
    BY <1>9 DEF Contradict, f, c, Live
  <2>2. status[f] # "uncertain" /\ status[c] # "uncertain"
    <3>1. job[d].verdict \in Conflicts
      BY <1>9 DEF Contradict, Conflicts
    <3> QED BY <1>1, <3>1 DEF Sound, f, c
  <2>3. UNCHANGED <<ptr, src, held, lapsed>>
    BY <1>9 DEF Contradict
  <2>4. CASE UNCHANGED <<status, prior, open>>
    <3>1. Keeps
      BY <2>4 DEF Keeps
    <3>2. TypeOK'
      BY <1>5, <2>3, <2>4 DEF TypeOK, JobType
    <3> QED BY <1>6, <2>3, <2>4, <3>1, <3>2
            DEF Born, Relations, Live, ContradictionAccountable, PointersLive, Acyclic
  <2>5. CASE /\ Mergeable(f, c) /\ prior[<<f, c>>] = None
             /\ status' = [status EXCEPT ![f] = "contradicted", ![c] = "contradicted"]
             /\ prior' = Recorded(f, c)
             /\ open' = open \cup Pair(f, c)
    <3>1. status[f] \in Statuses \ {"replaced"} /\ status[c] \in Statuses \ {"replaced"}
      BY <2>1, <2>5 DEF Mergeable, Live
    <3>2. \A m \in Mem : status'[m] = IF m \in {f, c} THEN "contradicted" ELSE status[m]
      BY <2>5 DEF TypeOK
    <3>3. /\ prior'[<<f, c>>] = status[f] /\ prior'[<<c, f>>] = status[c]
          /\ \A p \in Mem \X Mem : p \notin Pair(f, c) => prior'[p] = prior[p]
      BY <1>3, <2>1, <2>5 DEF Recorded, TypeOK, Pair
    <3>4. TypeOK'
      <4>1. status' \in [Mem -> Statuses \cup {"unborn", "erased"}]
        BY <2>5 DEF TypeOK, Statuses
      <4>2. prior' \in [Mem \X Mem -> Statuses \cup {None}]
        BY <2>5, <3>1 DEF TypeOK, Recorded
      <4>3. open' \subseteq Mem \X Mem
        BY <2>1, <2>5 DEF TypeOK, Pair
      <4> QED BY <1>5, <2>3, <4>1, <4>2, <4>3 DEF TypeOK, JobType
    <3>5. Keeps
      BY <2>1, <3>2 DEF Keeps, Live, Statuses
    <3>6. Born'
      BY <2>1, <2>3, <3>2 DEF Born, Live, Statuses
    <3>7. \A m \in Live : status'[m] \in Statuses
      BY <3>2 DEF Live, Statuses
    <3>8. Relations'
      <4>1. ASSUME NEW a \in Mem, NEW b \in Mem, <<a, b>> \in open'
            PROVE  /\ <<b, a>> \in open' /\ a # b
                   /\ a \in Live' /\ status'[a] # "uncertain" /\ prior'[<<a, b>>] # None
        <5>1. CASE <<a, b>> \in Pair(f, c)
          <6>1. a # b /\ a \in {f, c} /\ <<b, a>> \in Pair(f, c)
            BY <1>3, <5>1 DEF Pair
          <6>2. a \in Live' /\ status'[a] # "uncertain"
            BY <2>1, <3>2, <6>1 DEF Live, Statuses
          <6>3. prior'[<<a, b>>] # None
            BY <3>1, <3>3, <5>1, NoneIsNothing DEF Pair
          <6> QED BY <2>5, <6>1, <6>2, <6>3
        <5>2. CASE <<a, b>> \notin Pair(f, c)
          <6>1. /\ <<a, b>> \in open /\ <<b, a>> \in open /\ a # b
                /\ a \in Live /\ status[a] # "uncertain" /\ prior[<<a, b>>] # None
            BY <2>5, <4>1, <5>2 DEF Relations
          <6>2. a \in Live' /\ status'[a] # "uncertain"
            BY <3>2, <3>7, <6>1 DEF Live
          <6> QED BY <2>5, <3>3, <5>2, <6>1, <6>2
        <5> QED BY <5>1, <5>2
      <4>2. ASSUME NEW a \in Mem, NEW b \in Mem
            PROVE  prior'[<<a, b>>] # "uncertain"
        <5>1. CASE <<a, b>> \in Pair(f, c)
          BY <2>2, <3>3, <5>1 DEF Pair
        <5>2. CASE <<a, b>> \notin Pair(f, c)
          BY <3>3, <5>2 DEF Relations
        <5> QED BY <5>1, <5>2
      <4> QED BY <4>1, <4>2 DEF Relations
    <3>9. ContradictionAccountable'
      <4> SUFFICES ASSUME NEW m \in Mem, status'[m] = "contradicted"
                   PROVE  \E p \in open' : p[1] = m /\ prior'[p] # "contradicted"
        BY DEF ContradictionAccountable
      <4>1. CASE status[m] # "contradicted"
        <5>1. m \in {f, c}
          BY <3>2, <4>1
        <5> DEFINE p == <<m, IF m = f THEN c ELSE f>>
        <5>2. p \in open' /\ p[1] = m /\ prior'[p] # "contradicted"
          BY <2>5, <3>3, <4>1, <5>1 DEF Pair
        <5> QED BY <5>2
      <4>2. CASE status[m] = "contradicted"
        <5>1. PICK b \in Mem : <<m, b>> \in open /\ prior[<<m, b>>] # "contradicted"
          BY <4>2, Witness
        <5>2. <<m, b>> \notin Pair(f, c)
          BY <2>1, <2>5, <5>1 DEF Relations, Pair
        <5> QED BY <2>5, <3>3, <5>1, <5>2
      <4> QED BY <4>1, <4>2
    <3>10. PointersLive' /\ Leads
      BY <2>3, <3>1, <3>2, <3>7, PointersKept
    <3> QED BY <1>6, <3>4, <3>5, <3>6, <3>8, <3>9, <3>10, AcyclicKept
  <2> QED BY <1>9, <2>4, <2>5 DEF Contradict, f, c
<1> QED BY <1>7, <1>8, <1>9 DEF PairAct

-----------------------------------------------------------------------------
(* The owner, the saga and the staleness pass.                             *)

\* Current memories are approved or outdated, nothing else moves.
LEMMA Marked ==
    ASSUME IInv, lapsed' \subseteq Mem, UNCHANGED <<ptr, src, held, prior, open, job>>,
           status' \in [Mem -> Statuses \cup {"unborn", "erased"}],
           \A m \in Mem : \/ status'[m] = status[m]
                          \/ /\ m \in Live /\ status[m] # "replaced"
                             /\ status'[m] \in {"user_approved", "outdated"}
    PROVE  IInv'
<1> USE DEF IInv
<1>1. TypeOK'
  BY DEF TypeOK
<1>2. Keeps /\ \A m \in Live : status'[m] \in Statuses
  BY DEF Keeps, Live, Statuses
<1>3. Born'
  BY DEF Born, Live, Statuses
<1>4. Relations' /\ ContradictionAccountable'
  <2>1. \A m \in Mem : status'[m] = "contradicted" => status[m] = "contradicted"
    OBVIOUS
  <2> QED BY <1>2, <2>1, RelationsKept
<1>5. PointersLive' /\ Leads
  <2>1. \A m \in Mem : status[m] = "replaced" => status'[m] = "replaced"
    OBVIOUS
  <2> QED BY <1>2, <2>1, PointersKept
<1> QED BY <1>1, <1>2, <1>3, <1>4, <1>5, JobsKept, AcyclicKept

LEMMA MarkIInv == IInv /\ (Transition \/ BulkOutdate \/ ListLapsed \/ MarkLapsed) => IInv'
<1> SUFFICES ASSUME IInv, Transition \/ BulkOutdate \/ ListLapsed \/ MarkLapsed PROVE IInv'
  OBVIOUS
<1>1. status \in [Mem -> Statuses \cup {"unborn", "erased"}] /\ lapsed \subseteq Mem
  BY DEF IInv, TypeOK
<1>2. CASE Transition
  <2>1. PICK m \in Mem, to \in {"user_approved", "outdated"} :
           m \in Live /\ status[m] # "replaced" /\ status' = [status EXCEPT ![m] = to]
    BY <1>2 DEF Transition, MayTransition
  <2>2. status' \in [Mem -> Statuses \cup {"unborn", "erased"}]
    BY <1>1, <2>1 DEF Statuses
  <2> QED BY <1>1, <1>2, <2>1, <2>2, Marked DEF Transition
<1>3. CASE BulkOutdate
  <2>1. PICK S \in SUBSET {m \in Live : status[m] \notin {"user_approved", "replaced", "outdated"}} :
           status' = [m \in Mem |-> IF m \in S THEN "outdated" ELSE status[m]]
    BY <1>3 DEF BulkOutdate
  <2>2. status' \in [Mem -> Statuses \cup {"unborn", "erased"}]
    BY <1>1, <2>1 DEF Statuses
  <2> QED BY <1>1, <1>3, <2>1, <2>2, Marked DEF BulkOutdate
<1>4. CASE ListLapsed
  <2>1. status' = status /\ lapsed' \subseteq Mem /\ UNCHANGED <<ptr, src, held, prior, open, job>>
    BY <1>4 DEF ListLapsed, Live
  <2> QED BY <1>1, <2>1, Marked
<1>5. CASE MarkLapsed
  <2>1. PICK m \in lapsed :
           \/ /\ m \in Live /\ status[m] # "replaced"
              /\ status' = [status EXCEPT ![m] = "outdated"] /\ lapsed' = lapsed \ {m}
           \/ status' = status /\ lapsed' = {}
    BY <1>5 DEF MarkLapsed, MayTransition
  <2>2. status' \in [Mem -> Statuses \cup {"unborn", "erased"}] /\ lapsed' \subseteq Mem
    BY <1>1, <2>1 DEF Statuses
  <2> QED BY <1>1, <1>5, <2>1, <2>2, Marked DEF MarkLapsed
<1> QED BY <1>2, <1>3, <1>4, <1>5

LEMMA IntervalEdited ==
    ASSUME IInv, NEW m \in Live
    PROVE  src[m] \in Sources /\ [from |-> Now, until |-> held[m].until] \in Interval
<1>1. src[m] \in Sources /\ held[m] \in Interval
  BY DEF IInv, Born, Live, Statuses
<1> QED BY <1>1, TimeAssumption DEF Interval

LEMMA EditIInv == IInv /\ Edit => IInv'
<1> SUFFICES ASSUME IInv, Edit PROVE IInv'
  OBVIOUS
<1>1. PICK m \in Live, n \in Mem :
         /\ Fresh(n) /\ Inserted(n, "user_approved", {m})
         /\ src' = [src EXCEPT ![n] = src[m]]
         /\ held' = [held EXCEPT ![n] = [from |-> Now, until |-> held[m].until]]
  BY DEF Edit
<1>2. UNCHANGED <<prior, open, job, lapsed>>
  BY DEF Edit
<1>3. job' \in [Drivers -> JobType] /\ (Keeps => Jobs')
  BY <1>2, JobsKept DEF IInv, TypeOK, JobType
<1>4. src[m] \in Sources /\ [from |-> Now, until |-> held[m].until] \in Interval
  BY IntervalEdited
<1>5. "user_approved" \in Statuses \ {"contradicted", "replaced"} /\ {m} \in SUBSET Live
  BY DEF Statuses
<1> QED BY <1>1, <1>2, <1>3, <1>4, <1>5, Succeeded

LEMMA RejectIInv == IInv /\ Reject => IInv'
<1> SUFFICES ASSUME IInv, NEW m \in Live, status[m] = "uncertain", Unreferenced(m),
                    status' = [status EXCEPT ![m] = "erased"], Erase({m}),
                    UNCHANGED <<ptr, src, held, job, lapsed>>
             PROVE  IInv'
  BY DEF Reject
<1> USE DEF IInv
<1>1. \A k \in Mem : status'[k] = IF k = m THEN "erased" ELSE status[k]
  BY DEF TypeOK
<1>2. /\ \A p \in Mem \X Mem : prior'[p] = IF {p[1], p[2]} \cap {m} # {} THEN None ELSE prior[p]
      /\ open' = {p \in open : {p[1], p[2]} \cap {m} = {}}
  BY DEF Erase
<1>3. \A a, b \in Mem : <<a, b>> \in open => a # m /\ b # m
  BY DEF Relations
<1>4. \A a, b \in Mem : <<a, b>> \in open' <=> <<a, b>> \in open
  BY <1>2, <1>3
<1>5. \A a, b \in Mem : prior'[<<a, b>>] = IF m \in {a, b} THEN None ELSE prior[<<a, b>>]
  BY <1>2
<1>6. TypeOK'
  <2>1. prior' \in [Mem \X Mem -> Statuses \cup {None}]
    BY DEF Erase, TypeOK
  <2>2. open' \subseteq Mem \X Mem
    BY <1>2 DEF TypeOK
  <2>3. status' \in [Mem -> Statuses \cup {"unborn", "erased"}]
    BY DEF TypeOK
  <2> QED BY <2>1, <2>2, <2>3 DEF TypeOK
<1>7. Keeps
  BY <1>1 DEF Keeps
<1>8. Born'
  BY <1>1 DEF Born, Live, Statuses
<1>9. Relations'
  <2>1. ASSUME NEW a \in Mem, NEW b \in Mem, <<a, b>> \in open'
        PROVE  /\ <<b, a>> \in open' /\ a # b
               /\ a \in Live' /\ status'[a] # "uncertain" /\ prior'[<<a, b>>] # None
    <3>1. /\ <<a, b>> \in open /\ <<b, a>> \in open /\ a # b /\ a # m /\ b # m
          /\ a \in Live /\ status[a] # "uncertain" /\ prior[<<a, b>>] # None
      BY <1>3, <1>4, <2>1 DEF Relations
    <3> QED BY <1>1, <1>4, <1>5, <3>1 DEF Live
  <2>2. \A a, b \in Mem : prior'[<<a, b>>] # "uncertain"
    BY <1>5, NoneIsNothing DEF Relations, Statuses
  <2> QED BY <2>1, <2>2 DEF Relations
<1>10. ContradictionAccountable'
  <2> SUFFICES ASSUME NEW k \in Mem, status'[k] = "contradicted"
               PROVE  \E p \in open' : p[1] = k /\ prior'[p] # "contradicted"
    BY DEF ContradictionAccountable
  <2>1. PICK b \in Mem : <<k, b>> \in open /\ prior[<<k, b>>] # "contradicted"
    BY <1>1, Witness
  <2> QED BY <1>3, <1>4, <1>5, <2>1
<1>11. PointersLive'
  <2> SUFFICES ASSUME NEW k \in Mem, ptr[k] # None
               PROVE  status'[k] = "replaced" /\ ptr[k] \in Live'
    BY DEF PointersLive
  <2> QED BY <1>1 DEF PointersLive, Unreferenced, Live
<1>12. Leads
  BY DEF Leads
<1> QED BY <1>6, <1>7, <1>8, <1>9, <1>10, <1>11, <1>12, JobsKept, AcyclicKept

LEMMA DeleteSourceIInv == IInv /\ DeleteSource => IInv'
<1> SUFFICES ASSUME IInv, DeleteSource PROVE IInv'
  OBVIOUS
<1> USE DEF IInv
<1>1. PICK o \in Sources :
         LET E == {m \in Live : src[m] = o}
         IN /\ \E lift \in [{m \in Live \ E : Accused(m, E)} -> Statuses] :
                 /\ \A m \in DOMAIN lift : lift[m] \in LiftedTo(m, E)
                 /\ status' = [m \in Mem |-> IF m \in E THEN "erased"
                                           ELSE IF m \in DOMAIN lift THEN lift[m] ELSE status[m]]
            /\ ptr' = Nulled(E)
            /\ Erase(E)
  BY DEF DeleteSource
<1>2. UNCHANGED <<src, held, job, lapsed>>
  BY DEF DeleteSource
<1> DEFINE E == {m \in Live : src[m] = o}
<1>3. PICK lift \in [{m \in Live \ E : Accused(m, E)} -> Statuses] :
         /\ \A m \in DOMAIN lift : lift[m] \in LiftedTo(m, E)
         /\ status' = [m \in Mem |-> IF m \in E THEN "erased"
                                   ELSE IF m \in DOMAIN lift THEN lift[m] ELSE status[m]]
  BY <1>1
<1>4. ptr' = Nulled(E) /\ Erase(E)
  BY <1>1
<1>5. E \subseteq Live /\ E \subseteq Mem /\ Live \subseteq Mem
  BY DEF Live
<1> HIDE DEF E
\* The lifted are contradicted by relations to the erased, and so restored.
<1>6. ASSUME NEW m \in Mem, m \notin E, status'[m] # status[m]
      PROVE  /\ m \in Live /\ status[m] = "contradicted"
             /\ status'[m] \in Statuses \ {"contradicted", "uncertain"}
  <2>1. m \in DOMAIN lift /\ status'[m] = lift[m]
    BY <1>3, <1>6
  <2>2. m \in Live /\ status[m] = "contradicted" /\ lift[m] \in Statuses
    BY <2>1 DEF Accused
  <2>3. lift[m] \in LiftedTo(m, E)
    BY <1>3, <2>1
  <2>4. PICK q \in open : prior[q] = lift[m] /\ lift[m] # "contradicted"
    BY <2>3 DEF LiftedTo
  <2>5. q \in Mem \X Mem /\ q = <<q[1], q[2]>>
    BY DEF TypeOK
  <2>6. prior[q] # "uncertain"
    BY <2>5 DEF Relations
  <2> QED BY <2>1, <2>2, <2>4, <2>6
<1>7. \A m \in E : status'[m] = "erased"
  BY <1>3, <1>5
<1>8. status' \in [Mem -> Statuses \cup {"unborn", "erased"}]
  <2>1. \A m \in Mem : status'[m] \in Statuses \cup {"unborn", "erased"}
    BY <1>6, <1>7 DEF TypeOK
  <2> QED BY <1>3, <2>1
<1>9. /\ \A a, b \in Mem : <<a, b>> \in open' <=> <<a, b>> \in open /\ a \notin E /\ b \notin E
      /\ \A a, b \in Mem : prior'[<<a, b>>] = IF a \in E \/ b \in E THEN None ELSE prior[<<a, b>>]
  BY <1>4 DEF Erase
<1>10. \A m \in Mem : ptr'[m] = IF m \in E \/ ptr[m] \in E THEN None ELSE ptr[m]
  BY <1>4 DEF Nulled
<1>11. TypeOK'
  <2>1. prior' \in [Mem \X Mem -> Statuses \cup {None}]
    BY <1>4 DEF Erase, TypeOK
  <2>2. open' \subseteq Mem \X Mem
    BY <1>4 DEF Erase, TypeOK
  <2>3. ptr' \in [Mem -> Mem \cup {None}]
    BY <1>4 DEF Nulled, TypeOK
  <2> QED BY <1>2, <1>8, <2>1, <2>2, <2>3 DEF TypeOK
<1>12. Keeps
  <2> SUFFICES ASSUME NEW m \in Mem, status[m] # "unborn"
               PROVE  status'[m] # "unborn" /\ (status'[m] = "uncertain" => status[m] = "uncertain")
    BY DEF Keeps
  <2> QED BY <1>6, <1>7 DEF Statuses
<1>13. Born'
  <2> SUFFICES ASSUME NEW m \in Mem, status'[m] # "unborn"
               PROVE  src[m] \in Sources /\ held[m] \in Interval
    BY <1>2 DEF Born
  <2>1. status[m] # "unborn"
    BY <1>5, <1>6, <1>7 DEF Live, Statuses
  <2> QED BY <2>1 DEF Born
<1>14. \A m \in Live : m \notin E => m \in Live' /\ (status[m] # "uncertain" => status'[m] # "uncertain")
  BY <1>5, <1>6 DEF Live
<1>15. Relations'
  <2>1. ASSUME NEW a \in Mem, NEW b \in Mem, <<a, b>> \in open'
        PROVE  /\ <<b, a>> \in open' /\ a # b
               /\ a \in Live' /\ status'[a] # "uncertain" /\ prior'[<<a, b>>] # None
    <3>1. /\ <<b, a>> \in open /\ a # b /\ a \notin E /\ b \notin E
          /\ a \in Live /\ status[a] # "uncertain" /\ prior[<<a, b>>] # None
      BY <1>9, <2>1 DEF Relations
    <3> QED BY <1>9, <1>14, <3>1
  <2>2. \A a, b \in Mem : prior'[<<a, b>>] # "uncertain"
    BY <1>9, NoneIsNothing DEF Relations, Statuses
  <2> QED BY <2>1, <2>2 DEF Relations
<1>16. ContradictionAccountable'
  <2> SUFFICES ASSUME NEW m \in Mem, status'[m] = "contradicted"
               PROVE  \E p \in open' : p[1] = m /\ prior'[p] # "contradicted"
    BY DEF ContradictionAccountable
  <2>1. m \notin E /\ status[m] = "contradicted"
    BY <1>6, <1>7
  <2>2. m \in Live
    BY <2>1 DEF Live, Statuses
  <2>3. PICK b \in Mem : <<m, b>> \in open /\ prior[<<m, b>>] # "contradicted"
    BY <2>1, Witness
  <2>4. b \notin E
    <3> SUFFICES ASSUME b \in E PROVE FALSE
      OBVIOUS
    <3>1. prior[<<m, b>>] \in LiftedTo(m, E)
      BY <2>3 DEF LiftedTo
    <3>2. m \in DOMAIN lift
      BY <2>1, <2>2, <3>1 DEF Accused
    <3>3. status'[m] \in LiftedTo(m, E)
      BY <1>3, <2>1, <3>2
    <3> QED BY <3>3 DEF LiftedTo
  <2> QED BY <1>9, <2>1, <2>3, <2>4
<1>17. PointersLive'
  <2> SUFFICES ASSUME NEW m \in Mem, ptr'[m] # None
               PROVE  status'[m] = "replaced" /\ ptr'[m] \in Live'
    BY DEF PointersLive
  <2>1. m \notin E /\ ptr[m] \notin E /\ ptr'[m] = ptr[m]
    BY <1>10
  <2>2. status[m] = "replaced" /\ ptr[m] \in Live
    BY <2>1 DEF PointersLive
  <2> QED BY <1>6, <1>14, <2>1, <2>2
<1>18. Leads
  BY <1>10 DEF Leads
<1> QED BY <1>2, <1>11, <1>12, <1>13, <1>15, <1>16, <1>17, <1>18, JobsKept, AcyclicKept

LEMMA ConfirmIInv ==
    ASSUME IInv, NEW w \in Mem, NEW l \in Mem, <<w, l>> \in open, Confirm(w, l),
           open' = open \ Pair(w, l), UNCHANGED <<prior, job, lapsed>>
    PROVE  IInv'
<1> USE DEF IInv
<1>1. w # l /\ w \in Live /\ l \in Live /\ status[w] = "contradicted" /\ status[l] = "contradicted"
  BY DEF Confirm, Relations
<1>2. PICK t \in {"outdated", "replaced"} :
         /\ status' = [status EXCEPT ![w] = "user_approved", ![l] = t]
         /\ ptr' = IF t = "outdated" THEN ptr ELSE [ptr EXCEPT ![l] = w]
  BY DEF Confirm
<1>3. \A k \in Mem : /\ status'[k] = IF k = l THEN t ELSE IF k = w THEN "user_approved" ELSE status[k]
                     /\ ptr'[k] = IF t = "replaced" /\ k = l THEN w ELSE ptr[k]
  BY <1>1, <1>2 DEF TypeOK
<1>4. ptr[w] = None
  BY <1>1 DEF PointersLive
<1>5. TypeOK'
  <2>1. status' \in [Mem -> Statuses \cup {"unborn", "erased"}]
    BY <1>2 DEF TypeOK, Statuses
  <2>2. ptr' \in [Mem -> Mem \cup {None}]
    BY <1>2 DEF TypeOK
  <2>3. open' \subseteq Mem \X Mem
    BY DEF TypeOK
  <2> QED BY <2>1, <2>2, <2>3 DEF TypeOK, Confirm
<1>6. Keeps /\ \A k \in Live : status'[k] \in Statuses
  BY <1>3 DEF Keeps, Live, Statuses
<1>7. Born'
  BY <1>1, <1>3 DEF Born, Confirm, Live, Statuses
<1>8. Relations' /\ ContradictionAccountable'
  <2>1. \A k \in Mem : status'[k] = "contradicted" => status[k] = "contradicted" /\ k # w /\ k # l
    BY <1>3
  <2> QED BY <1>6, <2>1, RelationClosed
<1>9. PointersLive'
  <2> SUFFICES ASSUME NEW k \in Mem, ptr'[k] # None
               PROVE  status'[k] = "replaced" /\ ptr'[k] \in Live'
    BY DEF PointersLive
  <2>1. w \in Live'
    BY <1>1, <1>6 DEF Live
  <2>2. CASE t = "replaced" /\ k = l
    BY <1>3, <2>1, <2>2
  <2>3. CASE ~(t = "replaced" /\ k = l)
    <3>1. ptr'[k] = ptr[k] /\ status[k] = "replaced" /\ ptr[k] \in Live
      BY <1>3, <2>3 DEF PointersLive
    <3>2. k # w /\ k # l
      BY <1>1, <3>1
    <3> QED BY <1>3, <1>6, <3>1, <3>2 DEF Live
  <2> QED BY <2>2, <2>3
<1>10. Leads
  BY <1>1, <1>3, <1>4 DEF Leads
<1> QED BY <1>5, <1>6, <1>7, <1>8, <1>9, <1>10, JobsKept, AcyclicKept

LEMMA CorrectIInv ==
    ASSUME IInv, NEW a \in Mem, NEW b \in Mem, <<a, b>> \in open, Correct(a, b),
           open' = open \ Pair(a, b), UNCHANGED <<prior, job, lapsed>>
    PROVE  IInv'
<1> USE DEF IInv
<1>1. a # b /\ a \in Live /\ b \in Live
  BY DEF Relations
<1>2. PICK m \in Mem, n \in Mem :
         /\ status[m] = "unborn" /\ status[n] = "unborn" /\ n > m
         /\ status' = [status EXCEPT ![m] = "user_approved", ![n] = "user_approved",
                                     ![a] = "replaced", ![b] = "replaced"]
         /\ ptr' = [ptr EXCEPT ![a] = m, ![b] = n]
         /\ src' = [src EXCEPT ![m] = src[a], ![n] = src[b]]
         /\ held' = [held EXCEPT ![m] = [from |-> Now, until |-> held[a].until],
                                 ![n] = [from |-> Now, until |-> held[b].until]]
  BY DEF Correct, Fresh
<1>3. m # n
  BY <1>2, MemAssumption
<1>4. {a, b} \cap {m, n} = {}
  BY <1>1, <1>2 DEF Live, Statuses
<1>5. \A k \in Mem : /\ status'[k] = IF k \in {a, b} THEN "replaced"
                                     ELSE IF k \in {m, n} THEN "user_approved" ELSE status[k]
                     /\ ptr'[k] = IF k = a THEN m ELSE IF k = b THEN n ELSE ptr[k]
  BY <1>1, <1>2, <1>4 DEF TypeOK
<1>6. ptr[m] = None /\ ptr[n] = None
  BY <1>2 DEF PointersLive
<1>7. /\ src[a] \in Sources /\ [from |-> Now, until |-> held[a].until] \in Interval
      /\ src[b] \in Sources /\ [from |-> Now, until |-> held[b].until] \in Interval
  BY <1>1, IntervalEdited
<1>8. TypeOK'
  <2>1. status' \in [Mem -> Statuses \cup {"unborn", "erased"}]
    BY <1>2 DEF TypeOK, Statuses
  <2>2. ptr' \in [Mem -> Mem \cup {None}]
    BY <1>2 DEF TypeOK
  <2>3. src' \in [Mem -> Sources \cup {None}]
    BY <1>2, <1>7 DEF TypeOK
  <2>4. held' \in [Mem -> Interval \cup {None}]
    BY <1>2, <1>7 DEF TypeOK, Interval
  <2>5. open' \subseteq Mem \X Mem
    BY DEF TypeOK
  <2> QED BY <2>1, <2>2, <2>3, <2>4, <2>5 DEF TypeOK, Interval
<1>9. Keeps /\ \A k \in Live : status'[k] \in Statuses
  <2>1. \A k \in Mem : status'[k] \in {status[k], "replaced", "user_approved"}
    BY <1>5
  <2> QED BY <2>1 DEF Keeps, Live, Statuses
<1>10. Born'
  <2>1. \A k \in {m, n} : src'[k] \in Sources /\ held'[k] \in Interval
    BY <1>2, <1>3, <1>7 DEF TypeOK
  <2>2. \A k \in Mem : k \notin {m, n} => src'[k] = src[k] /\ held'[k] = held[k]
    BY <1>2 DEF TypeOK
  <2>3. \A k \in Mem : status'[k] # "unborn" => k \in {m, n} \/ status[k] # "unborn"
    BY <1>1, <1>5 DEF Live, Statuses
  <2>4. \A k \in Mem : status'[k] # "unborn" => src'[k] \in Sources /\ held'[k] \in Interval
    BY <2>1, <2>2, <2>3 DEF Born
  <2> QED BY <2>4 DEF Born
<1>11. Relations' /\ ContradictionAccountable'
  <2>1. \A k \in Mem : status'[k] = "contradicted" => status[k] = "contradicted" /\ k # a /\ k # b
    BY <1>5
  <2> QED BY <1>9, <2>1, RelationClosed
<1>12. PointersLive'
  <2> SUFFICES ASSUME NEW k \in Mem, ptr'[k] # None
               PROVE  status'[k] = "replaced" /\ ptr'[k] \in Live'
    BY DEF PointersLive
  <2>1. m \in Live' /\ n \in Live'
    BY <1>4, <1>5 DEF Live, Statuses
  <2>2. CASE k \in {a, b}
    BY <1>5, <2>1, <2>2
  <2>3. CASE k \notin {a, b}
    <3>1. ptr'[k] = ptr[k] /\ status[k] = "replaced" /\ ptr[k] \in Live
      BY <1>5, <2>3 DEF PointersLive
    <3>2. k \notin {m, n}
      BY <1>2, <3>1
    <3> QED BY <1>5, <1>9, <2>3, <3>1, <3>2 DEF Live
  <2> QED BY <2>2, <2>3
<1>13. Leads
  BY <1>4, <1>5, <1>6 DEF Leads
<1> QED BY <1>8, <1>9, <1>10, <1>11, <1>12, <1>13, JobsKept, AcyclicKept

LEMMA DismissIInv ==
    ASSUME IInv, NEW a \in Mem, NEW b \in Mem, <<a, b>> \in open, Dismiss(a, b),
           open' = open \ Pair(a, b), UNCHANGED <<prior, job, lapsed>>
    PROVE  IInv'
<1> USE DEF IInv
<1>1. /\ a # b /\ a \in Live /\ b \in Live
      /\ prior[<<a, b>>] \in Statuses \ {"uncertain"} /\ prior[<<b, a>>] \in Statuses \ {"uncertain"}
  BY DEF Relations, TypeOK
<1>2. Restored(a, b) \in Statuses /\ Restored(b, a) \in Statuses
  BY <1>1 DEF Restored, Live
<1>3. \A k \in Mem : status'[k] = IF k = a THEN Restored(a, b)
                                  ELSE IF k = b THEN Restored(b, a) ELSE status[k]
  BY <1>1 DEF Dismiss, TypeOK
<1>4. UNCHANGED <<ptr, src, held>>
  BY DEF Dismiss
<1>5. TypeOK'
  <2>1. status' \in [Mem -> Statuses \cup {"unborn", "erased"}]
    BY <1>2 DEF Dismiss, TypeOK
  <2>2. open' \subseteq Mem \X Mem
    BY DEF TypeOK
  <2> QED BY <1>4, <2>1, <2>2 DEF TypeOK
<1>6. \A k \in Live : status'[k] \in Statuses
  BY <1>2, <1>3 DEF Live
<1>7. Keeps
  <2>1. /\ Restored(a, b) = "uncertain" => status[a] = "uncertain"
        /\ Restored(b, a) = "uncertain" => status[b] = "uncertain"
    BY <1>1 DEF Restored
  <2>2. "unborn" \notin Statuses
    BY DEF Statuses
  <2> QED BY <1>2, <1>3, <2>1, <2>2 DEF Keeps
<1>8. Born'
  <2>1. \A k \in Mem : status'[k] # "unborn" => status[k] # "unborn"
    BY <1>1, <1>3 DEF Live, Statuses
  <2> QED BY <1>4, <2>1 DEF Born
<1>9. Relations' /\ ContradictionAccountable'
  <2>1. \A k \in Mem : status'[k] = "contradicted" => status[k] = "contradicted"
    BY <1>3 DEF Restored
  <2>2. /\ status'[a] = "contradicted" => prior[<<a, b>>] = "contradicted"
        /\ status'[b] = "contradicted" => prior[<<b, a>>] = "contradicted"
    BY <1>1, <1>3 DEF Restored
  <2> QED BY <1>6, <1>7, <2>1, <2>2, RelationClosed
<1>10. PointersLive' /\ Leads
  <2>1. \A k \in Mem : status[k] = "replaced" => status'[k] = "replaced"
    BY <1>3 DEF Restored
  <2> QED BY <1>4, <1>6, <2>1, PointersKept
<1> QED BY <1>5, <1>7, <1>8, <1>9, <1>10, JobsKept, AcyclicKept

LEMMA ResolveIInv == IInv /\ Resolve => IInv'
<1> SUFFICES ASSUME IInv, Resolve PROVE IInv'
  OBVIOUS
<1>1. PICK p \in open :
         /\ Confirm(p[1], p[2]) \/ Correct(p[1], p[2]) \/ Dismiss(p[1], p[2])
         /\ open' = open \ Pair(p[1], p[2])
  BY DEF Resolve
<1>2. p \in Mem \X Mem
  BY DEF IInv, TypeOK
<1>3. p[1] \in Mem /\ p[2] \in Mem /\ <<p[1], p[2]>> \in open
  BY <1>2
<1>4. UNCHANGED <<prior, job, lapsed>>
  BY DEF Resolve
<1> QED BY <1>1, <1>3, <1>4, ConfirmIInv, CorrectIInv, DismissIInv

LEMMA NextIInv == IInv /\ [Next]_vars => IInv'
<1> SUFFICES ASSUME IInv, [Next]_vars PROVE IInv'
  OBVIOUS
<1>1. CASE Next
  BY <1>1, AdmitIInv, DriverIInv, PairActIInv, MarkIInv, EditIInv, RejectIInv, ResolveIInv,
     DeleteSourceIInv DEF Next
<1>2. CASE UNCHANGED vars
  <2>1. UNCHANGED <<status, ptr, src, held, prior, open, job, lapsed>>
    BY <1>2 DEF vars
  <2>2. UNCHANGED <<ptr, src, held, prior, open, job>> /\ lapsed' \subseteq Mem
        /\ status' \in [Mem -> Statuses \cup {"unborn", "erased"}]
    BY <2>1 DEF IInv, TypeOK
  <2> QED BY <2>1, <2>2, Marked
<1> QED BY <1>1, <1>2

THEOREM Invariance == Spec => []IInv
BY InitIInv, NextIInv, PTL DEF Spec

-----------------------------------------------------------------------------
\* The columns, the relations and the drivers keep their types, whatever order
\* transitionInTx, supersedeCore, the reconciler and the saga run in.
THEOREM TypeCorrect == Spec => []TypeOK
<1>1. IInv => TypeOK
  BY DEF IInv
<1> QED BY <1>1, Invariance, PTL

\* createContradiction, resolveContradiction and the saga's lift, in any order
\* and with any judgement going stale, never leave a contradicted memory with
\* no open relation that says what it was.
THEOREM ContradictedStaysInReview == Spec => []ContradictionAccountable
<1>1. IInv => ContradictionAccountable
  BY DEF IInv
<1> QED BY <1>1, Invariance, PTL

\* superseded_by never closes a cycle and never dangles: getChain terminates
\* for any number of memories and any number of drivers acting on stale pairs.
THEOREM HistoryStaysIntact == Spec => []HistoryIntact
<1>1. IInv => HistoryIntact
  BY DEF IInv, PointersLive, Acyclic, HistoryIntact
<1> QED BY <1>1, Invariance, PTL

\* No pair action of the reconciler moves a user_approved memory except into
\* contradicted: what each act checks under the row locks suffices, however
\* stale the candidate it judged.
THEOREM ApprovedStaysShielded == Spec => OwnerShielded
<1>1. ASSUME IInv, NEW d \in Drivers, PairAct(d), NEW m \in Mem, status[m] = "user_approved"
      PROVE  status'[m] \in {"user_approved", "contradicted"}
  <2> DEFINE f == job[d].fact
             c == job[d].cand
  <2>0. status \in [Mem -> Statuses \cup {"unborn", "erased"}]
    BY <1>1 DEF IInv, TypeOK
  <2>1. CASE Merge(d)
    <3> DEFINE s == Survivor(f, c)
               l == IF s = f THEN c ELSE f
    <3>1. {status[f], status[c]} # {"user_approved"}
      BY <2>1 DEF Merge
    <3>2. s \in {f, c} /\ l \in {f, c} /\ (status[l] = "user_approved" => status[s] = "user_approved")
      BY <3>1, Z3 DEF Survivor, Confidence
    <3>3. m # l
      BY <1>1, <3>1, <3>2
    <3>4. CASE \E n \in Mem : /\ Fresh(n) /\ status[s] \in {"active", "uncertain"}
                              /\ Inserted(n, status[s], {s, l})
      <4>1. PICK n \in Mem : /\ Fresh(n) /\ status[s] \in {"active", "uncertain"}
                             /\ Inserted(n, status[s], {s, l})
        BY <3>4
      <4>2. m # n /\ m # s
        BY <1>1, <4>1 DEF Fresh
      <4> QED BY <1>1, <3>3, <4>1, <4>2 DEF Inserted
    <3>5. CASE status' = [status EXCEPT ![l] = "replaced"]
      BY <1>1, <2>0, <3>3, <3>5
    <3> QED BY <2>1, <3>4, <3>5 DEF Merge
  <2>2. CASE Supersede(d)
    <3>1. "user_approved" \notin {status[f], status[c]}
          /\ \E l \in {f, c} : status' = [status EXCEPT ![l] = "replaced"]
      BY <2>2 DEF Supersede
    <3> QED BY <1>1, <2>0, <3>1
  <2>3. CASE Contradict(d)
    <3>1. status' = status \/ status' = [status EXCEPT ![f] = "contradicted", ![c] = "contradicted"]
      BY <2>3 DEF Contradict
    <3> QED BY <1>1, <2>0, <3>1
  <2> QED BY <1>1, <2>1, <2>2, <2>3 DEF PairAct
<1>2. IInv => ((\E d \in Drivers : PairAct(d)) =>
                  \A m \in Mem : status[m] = "user_approved" =>
                      status'[m] \in {"user_approved", "contradicted"})
  BY <1>1
<1> QED BY <1>2, Invariance, PTL DEF OwnerShielded

\* No handler moves a replaced memory: dismissals and lifts of relations it was
\* party to, stale pairs and owner acts included; it only ever leaves with its
\* source, and loses its pointer only when its successor does.
THEOREM HistoryNeverMoves == Spec => ReplacedIsTerminal
<1> DEFINE Ends(m) == /\ status'[m] \in {"replaced", "erased"}
                      /\ \/ ptr'[m] = ptr[m]
                         \/ status'[m] = "erased"
                         \/ ptr'[m] = None /\ status'[ptr[m]] = "erased"
           Stays(m) == status'[m] = status[m] /\ ptr'[m] = ptr[m]
<1>1. ASSUME IInv, Next, NEW m \in Mem, status[m] = "replaced"
      PROVE  Ends(m)
  <2>0. /\ status \in [Mem -> Statuses \cup {"unborn", "erased"}]
        /\ ptr \in [Mem -> Mem \cup {None}]
    BY <1>1 DEF IInv, TypeOK
  <2>1. CASE Admit
    <3>1. PICK n \in Mem, t \in {"active", "uncertain"} : Fresh(n) /\ Inserted(n, t, {})
      BY <2>1 DEF Admit
    <3> QED BY <1>1, <3>1 DEF Fresh, Inserted
  <2>2. ASSUME NEW d \in Drivers, PairAct(d)
        PROVE  Stays(m)
    <3> DEFINE f == job[d].fact
               c == job[d].cand
    <3>1. CASE Merge(d)
      <4> DEFINE s == Survivor(f, c)
                 l == IF s = f THEN c ELSE f
      <4>1. m \notin {s, l}
        BY <1>1, <3>1 DEF Merge, Mergeable, Survivor
      <4>2. CASE \E n \in Mem : Fresh(n) /\ Inserted(n, status[s], {s, l})
        BY <1>1, <4>1, <4>2 DEF Fresh, Inserted
      <4>3. CASE status' = [status EXCEPT ![l] = "replaced"] /\ ptr' = [ptr EXCEPT ![l] = s]
        BY <2>0, <4>1, <4>3
      <4> QED BY <3>1, <4>2, <4>3 DEF Merge
    <3>2. CASE Supersede(d)
      <4>1. m \notin {f, c}
        BY <1>1, <3>2 DEF Supersede, Mergeable
      <4>2. \E w, l \in {f, c} : /\ status' = [status EXCEPT ![l] = "replaced"]
                                 /\ ptr' = [ptr EXCEPT ![l] = w]
        BY <3>2 DEF Supersede
      <4> QED BY <2>0, <4>1, <4>2
    <3>3. CASE Contradict(d)
      <4>1. CASE Mergeable(f, c)
        <5>1. m \notin {f, c}
          BY <1>1, <4>1 DEF Mergeable
        <5> QED BY <2>0, <3>3, <5>1 DEF Contradict
      <4>2. CASE ~Mergeable(f, c)
        BY <3>3, <4>2 DEF Contradict
      <4> QED BY <4>1, <4>2
    <3> QED BY <2>2, <3>1, <3>2, <3>3 DEF PairAct
  <2>3. ASSUME NEW d \in Drivers, Take(d) \/ Judge(d) \/ Settle(d) \/ SkipMerge(d) \/ Abort(d)
        PROVE  Stays(m)
    BY <2>3 DEF Take, Judge, Settle, SkipMerge, Abort
  <2>4. CASE Transition \/ ListLapsed \/ MarkLapsed
    BY <1>1, <2>0, <2>4 DEF Transition, ListLapsed, MarkLapsed, MayTransition
  <2>5. CASE BulkOutdate
    BY <1>1, <2>5 DEF BulkOutdate
  <2>6. CASE Edit
    <3>1. PICK k \in Live, n \in Mem :
             status[k] # "replaced" /\ Fresh(n) /\ Inserted(n, "user_approved", {k})
      BY <2>6 DEF Edit
    <3> QED BY <1>1, <3>1 DEF Fresh, Inserted
  <2>7. CASE Reject
    BY <1>1, <2>0, <2>7 DEF Reject
  <2>8. CASE Resolve
    <3>1. PICK p \in open : Confirm(p[1], p[2]) \/ Correct(p[1], p[2]) \/ Dismiss(p[1], p[2])
      BY <2>8 DEF Resolve
    <3>2. CASE Confirm(p[1], p[2])
      <4>1. m # p[1] /\ m # p[2]
        BY <1>1, <3>2 DEF Confirm
      <4>2. \E t \in {"outdated", "replaced"} :
               status' = [status EXCEPT ![p[1]] = "user_approved", ![p[2]] = t]
        BY <3>2 DEF Confirm
      <4>3. ptr' = ptr \/ ptr' = [ptr EXCEPT ![p[2]] = p[1]]
        BY <3>2 DEF Confirm
      <4>4. status'[m] = status[m]
        BY <2>0, <4>1, <4>2
      <4>5. ptr'[m] = ptr[m]
        BY <2>0, <4>1, <4>3
      <4> QED BY <1>1, <4>4, <4>5
    <3>3. CASE Correct(p[1], p[2])
      <4>1. m # p[1] /\ m # p[2]
        BY <1>1, <3>3 DEF Correct
      <4>2. PICK k \in Mem, n \in Mem :
               /\ status[k] = "unborn" /\ status[n] = "unborn"
               /\ status' = [status EXCEPT ![k] = "user_approved", ![n] = "user_approved",
                                           ![p[1]] = "replaced", ![p[2]] = "replaced"]
               /\ ptr' = [ptr EXCEPT ![p[1]] = k, ![p[2]] = n]
        BY <3>3 DEF Correct, Fresh
      <4> QED BY <1>1, <2>0, <4>1, <4>2
    <3>4. CASE Dismiss(p[1], p[2])
      <4>1. /\ m = p[1] => Restored(p[1], p[2]) = status[m]
            /\ m = p[2] => Restored(p[2], p[1]) = status[m]
        BY <1>1 DEF Restored
      <4>2. status' = [status EXCEPT ![p[1]] = Restored(p[1], p[2]), ![p[2]] = Restored(p[2], p[1])]
            /\ ptr' = ptr
        BY <3>4 DEF Dismiss
      <4> QED BY <1>1, <2>0, <4>1, <4>2
    <3> QED BY <3>1, <3>2, <3>3, <3>4
  <2>9. CASE DeleteSource
    <3>1. PICK E \in SUBSET Mem : \E lift \in [{k \in Live \ E : Accused(k, E)} -> Statuses] :
             /\ status' = [k \in Mem |-> IF k \in E THEN "erased"
                                         ELSE IF k \in DOMAIN lift THEN lift[k] ELSE status[k]]
             /\ ptr' = Nulled(E)
      BY <2>9 DEF DeleteSource, Live
    <3>2. PICK lift \in [{k \in Live \ E : Accused(k, E)} -> Statuses] :
             status' = [k \in Mem |-> IF k \in E THEN "erased"
                                      ELSE IF k \in DOMAIN lift THEN lift[k] ELSE status[k]]
      BY <3>1
    <3>3. m \notin DOMAIN lift
      BY <1>1 DEF Accused
    <3> QED BY <1>1, <2>0, <3>1, <3>2, <3>3 DEF Nulled
  <2> QED BY <1>1, <2>1, <2>2, <2>3, <2>4, <2>5, <2>6, <2>7, <2>8, <2>9 DEF Next
<1>2. ASSUME IInv, UNCHANGED vars, NEW m \in Mem, status[m] = "replaced"
      PROVE  Ends(m)
  BY <1>2 DEF vars
<1>3. IInv /\ [Next]_vars => \A m \in Mem : status[m] = "replaced" =>
          /\ status'[m] \in {"replaced", "erased"}
          /\ \/ ptr'[m] = ptr[m]
             \/ status'[m] = "erased"
             \/ ptr'[m] = None /\ status'[ptr[m]] = "erased"
  BY <1>1, <1>2
<1> QED BY <1>3, Invariance, PTL DEF Spec, ReplacedIsTerminal
=============================================================================
