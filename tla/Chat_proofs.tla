----------------------------- MODULE Chat_proofs -----------------------------
(***************************************************************************)
(* Proofs about Chat for any questions, memories and cap: the slots are    *)
(* counted right whichever way a stream ends, and a stored answer that     *)
(* names an erased memory was being written when the saga looked.          *)
(***************************************************************************)
EXTENDS Chat, FiniteSetTheorems, TLAPS

-----------------------------------------------------------------------------
(* The inductive invariant.                                                *)

Texts == [carries : SUBSET Mem, cites : SUBSET Mem]

TypeOK ==
    /\ client \in [Turn -> {"none", "open", "refused", "done", "error", "timeout"}]
    /\ gen \in [Turn -> [pc : {"idle", "routing", "streaming", "storing", "told", "stopped"},
                         known : SUBSET Mem, small : BOOLEAN, draft : Texts]]
    /\ answer \in [Turn -> {"none", "stored", "redacted"}]
    /\ text \in [Turn -> Texts]
    /\ erase \in [Mem -> [pc : {"live", "enumerated", "erased"}, hit : SUBSET Turn]]
    /\ gone \in [Turn -> SUBSET Mem]
    /\ late \subseteq Turn \X Mem

\* Infinitely many questions would make Cardinality mean nothing: only finitely
\* many are ever open.
Slots == IsFiniteSet(Open) /\ SlotsTrue

\* What an answer may name was not erased when its facts were read; small talk
\* names nothing, whatever the recent turns it was given say.
Sourced(t) ==
    /\ gen[t].pc = "streaming" /\ ~gen[t].small => gen[t].known \cap gone[t] = {}
    /\ gen[t].pc = "storing" => gen[t].draft.cites \cap gone[t] = {}

\* From the UPDATE of an erasure on, every stored answer that names the memory is
\* one the UPDATE holds or one that was stored after it had looked.
Covered(t, m) ==
    answer[t] = "stored" /\ m \in text[t].cites =>
        /\ erase[m].pc = "enumerated" => t \in erase[m].hit \/ <<t, m>> \in late
        /\ erase[m].pc = "erased" => <<t, m>> \in late

IInv ==
    /\ TypeOK
    /\ Slots
    /\ \A t \in Turn : Sourced(t)
    /\ \A t \in Turn, m \in Mem : Covered(t, m)

-----------------------------------------------------------------------------
(* Operators.                                                              *)

\* Each handler's step, by name, for the case analyses below.
TurnStep(t) ==
    \/ Ask(t) \/ Refuse(t) \/ Reply(t) \/ Chatter(t) \/ Retrieve(t)
    \/ Token(t) \/ Compose(t) \/ Store(t) \/ Done(t) \/ Fail(t) \/ Abort(t)
SagaStep(m) == Enumerate(m) \/ Commit(m) \/ RollBack(m)

\* What a generator is left with at a yield is its new state or a halt.
LEMMA YieldTyped ==
    ASSUME NEW t \in Turn,
           NEW G, NEW g \in G, Halted \in G
    PROVE  AtYield(t, g) \in G
BY DEF AtYield

LEMMA HaltedShape == Halted.pc = "stopped" /\ Halted.draft = Blank /\ ~Halted.small
BY DEF Halted, NoGen

\* The text a generator sanitizes is typed.
LEMMA RecitedTyped == TypeOK => Recited \subseteq Mem
<1> SUFFICES ASSUME TypeOK, NEW m \in Recited PROVE m \in Mem
    OBVIOUS
<1>1. PICK t \in Turn : answer[t] = "stored" /\ m \in text[t].carries
    BY DEF Recited
<1> QED BY <1>1 DEF TypeOK, Texts

-----------------------------------------------------------------------------
(* Typing.                                                                 *)

LEMMA TypeInit == Init => TypeOK
BY DEF Init, TypeOK, Texts, NoGen, Blank, Keeping

LEMMA TurnTyped == ASSUME TypeOK, NEW t \in Turn, TurnStep(t) PROVE TypeOK'
<1> DEFINE G == [pc : {"idle", "routing", "streaming", "storing", "told", "stopped"},
                 known : SUBSET Mem, small : BOOLEAN, draft : Texts]
<1>0. gen[t] \in G /\ Halted \in G /\ NoGen \in G /\ Blank \in Texts
    BY DEF TypeOK, Halted, NoGen, Blank, Texts
<1>1. CASE Ask(t)
    BY <1>1, <1>0, RecitedTyped DEF TypeOK, Ask, NoGen, Texts
<1>2. CASE Refuse(t)
    BY <1>2 DEF TypeOK, Refuse
<1>3. CASE Reply(t)
    <2>1. [NoGen EXCEPT !.pc = "storing"] \in G
        BY <1>0
    <2> QED BY <1>3, <1>0, <2>1, YieldTyped DEF TypeOK, Reply
<1>4. CASE Chatter(t)
    <2>1. [gen[t] EXCEPT !.pc = "streaming", !.small = TRUE] \in G
        BY <1>0
    <2> QED BY <1>4, <1>0, <2>1, YieldTyped DEF TypeOK, Chatter
<1>5. CASE Retrieve(t)
    <2>1. PICK F \in SUBSET (Mem \ Erased) :
             gen' = [gen EXCEPT ![t] = AtYield(t, [@ EXCEPT !.pc = "streaming", !.known = F])]
        BY <1>5 DEF Retrieve
    <2>2. [gen[t] EXCEPT !.pc = "streaming", !.known = F] \in G
        BY <1>0
    <2>3. gen' \in [Turn -> G]
        BY <2>1, <2>2, <1>0, YieldTyped DEF TypeOK
    <2>4. gone' \in [Turn -> SUBSET Mem]
        BY <1>5 DEF Retrieve, TypeOK, Erased
    <2> QED BY <1>5, <2>3, <2>4 DEF TypeOK, Retrieve
<1>6. CASE Token(t)
    BY <1>6, <1>0, YieldTyped DEF TypeOK, Token
<1>7. CASE Compose(t)
    <2>1. PICK C \in SUBSET gen[t].known :
             gen' = [gen EXCEPT ![t] = [NoGen EXCEPT !.pc = "storing",
                     !.draft = [carries |-> C, cites |-> IF gen[t].small THEN {} ELSE C]]]
        BY <1>7 DEF Compose
    <2>2. [carries |-> C, cites |-> IF gen[t].small THEN {} ELSE C] \in Texts
        BY <1>0 DEF Texts
    <2>3. gen' \in [Turn -> G]
        BY <2>1, <2>2, <1>0 DEF TypeOK
    <2> QED BY <1>7, <2>3 DEF TypeOK, Compose
<1>8. CASE Store(t)
    <2>1. [NoGen EXCEPT !.pc = "told"] \in G
        BY <1>0
    <2>2. gen' \in [Turn -> G]
        BY <1>8, <2>1, <1>0, YieldTyped DEF TypeOK, Store
    <2>3. late' \subseteq Turn \X Mem
        BY <1>8, <1>0 DEF TypeOK, Store, Texts
    <2>4. text' \in [Turn -> Texts]
        BY <1>8, <1>0 DEF TypeOK, Store
    <2> QED BY <1>8, <2>2, <2>3, <2>4 DEF TypeOK, Store
<1>9. CASE Done(t)
    BY <1>9, <1>0 DEF TypeOK, Done, Told
<1>10. CASE Fail(t)
    BY <1>10, <1>0 DEF TypeOK, Fail, Told
<1>11. CASE Abort(t)
    BY <1>11, <1>0 DEF TypeOK, Abort, Told
<1> QED BY <1>1, <1>2, <1>3, <1>4, <1>5, <1>6, <1>7, <1>8, <1>9, <1>10, <1>11 DEF TurnStep

LEMMA SagaTyped == ASSUME TypeOK, NEW m \in Mem, SagaStep(m) PROVE TypeOK'
<1>1. CASE Enumerate(m)
    BY <1>1 DEF TypeOK, Enumerate, Matching
<1>2. CASE Commit(m)
    BY <1>2 DEF TypeOK, Commit, Texts, Blank
<1>3. CASE RollBack(m)
    BY <1>3 DEF TypeOK, RollBack, Keeping
<1> QED BY <1>1, <1>2, <1>3 DEF SagaStep

-----------------------------------------------------------------------------
(* The slots.                                                              *)

LEMMA SlotsInit == Init => Slots
<1> SUFFICES ASSUME Init PROVE Slots
    OBVIOUS
<1>1. Open = {} /\ active = 0
    BY DEF Init, Open
<1> QED BY <1>1, FS_EmptySet, CapAssumption DEF Slots, SlotsTrue

\* A stream that is told how it ended gives back the slot it has, and no other.
LEMMA ToldFrees ==
    ASSUME TypeOK, Slots, NEW t \in Turn, client[t] = "open",
           NEW what \in {"done", "error", "timeout"}, Told(t, what)
    PROVE  Slots'
<1>1. Open' = Open \ {t} /\ t \in Open
    BY DEF Open, Told, TypeOK
<1>2. Cardinality(Open) \in Nat /\ active' = active - 1
    BY FS_CardinalityType DEF Slots, Told
<1>3. Cardinality(Open') = Cardinality(Open) - 1 /\ IsFiniteSet(Open')
    BY <1>1, FS_RemoveElement DEF Slots
<1> QED BY <1>2, <1>3, CapAssumption DEF Slots, SlotsTrue

\* A step that tells no browser anything moves no slot.
LEMMA SlotsQuiet == ASSUME Slots, UNCHANGED <<client, active>> PROVE Slots'
BY DEF Slots, SlotsTrue, Open

LEMMA SlotsTurn == ASSUME TypeOK, Slots, NEW t \in Turn, TurnStep(t) PROVE Slots'
<1>1. CASE Ask(t)
    <2>1. Open' = Open \cup {t} /\ t \notin Open
        BY <1>1 DEF Ask, Open, TypeOK
    <2>2. Cardinality(Open) \in Nat /\ active' = active + 1 /\ active < Cap
        BY <1>1, FS_CardinalityType DEF Slots, Ask
    <2>3. Cardinality(Open') = Cardinality(Open) + 1 /\ IsFiniteSet(Open')
        BY <2>1, FS_AddElement DEF Slots
    <2> QED BY <2>2, <2>3, CapAssumption DEF Slots, SlotsTrue
<1>2. CASE Refuse(t)
    <2>1. Open' = Open /\ active' = active
        BY <1>2 DEF Refuse, Open, TypeOK
    <2> QED BY <2>1 DEF Slots, SlotsTrue
<1>3. CASE Done(t)
    BY <1>3, ToldFrees DEF Done
<1>4. CASE Fail(t)
    <2>1. CASE client[t] = "open"
        BY <1>4, <2>1, ToldFrees DEF Fail
    <2>2. CASE client[t] # "open"
        BY <1>4, <2>2, SlotsQuiet DEF Fail
    <2> QED BY <2>1, <2>2
<1>5. CASE Abort(t)
    BY <1>5, ToldFrees DEF Abort
<1>6. CASE Reply(t) \/ Chatter(t) \/ Retrieve(t) \/ Token(t) \/ Compose(t) \/ Store(t)
    BY <1>6, SlotsQuiet DEF Reply, Chatter, Retrieve, Token, Compose, Store
<1> QED BY <1>1, <1>2, <1>3, <1>4, <1>5, <1>6 DEF TurnStep

LEMMA SlotsSaga == ASSUME Slots, NEW m \in Mem, SagaStep(m) PROVE Slots'
BY SlotsQuiet DEF SagaStep, Enumerate, Commit, RollBack

-----------------------------------------------------------------------------
(* Where the names of an answer come from.                                 *)

\* A step of another stream touches neither the generator nor what it read.
LEMMA SourcedKept ==
    ASSUME NEW t \in Turn, Sourced(t), gen'[t] = gen[t], gone'[t] = gone[t]
    PROVE  Sourced(t)'
BY DEF Sourced

LEMMA SourcedTurn ==
    ASSUME TypeOK, NEW t \in Turn, TurnStep(t), \A u \in Turn : Sourced(u),
           NEW v \in Turn
    PROVE  Sourced(v)'
<1>1. CASE v # t
    <2>1. gen'[v] = gen[v] /\ gone'[v] = gone[v]
        <3>1. CASE Ask(t) \/ Refuse(t) \/ Reply(t) \/ Chatter(t)
            BY <3>1, <1>1 DEF TypeOK, Ask, Refuse, Reply, Chatter
        <3>2. CASE Retrieve(t) \/ Token(t) \/ Compose(t) \/ Store(t)
            BY <3>2, <1>1 DEF TypeOK, Retrieve, Token, Compose, Store
        <3>3. CASE Done(t) \/ Fail(t) \/ Abort(t)
            BY <3>3, <1>1 DEF TypeOK, Done, Fail, Abort
        <3> QED BY <3>1, <3>2, <3>3 DEF TurnStep
    <2> QED BY <2>1, SourcedKept
<1>2. CASE v = t
    <2>0. Sourced(t)
        OBVIOUS
    <2>1. CASE Ask(t)
        BY <2>1, <1>2 DEF TypeOK, Ask, Sourced, NoGen
    <2>2. CASE Refuse(t)
        BY <2>2, <2>0, <1>2, SourcedKept DEF Refuse
    <2>3. CASE Reply(t)
        BY <2>3, <1>2 DEF TypeOK, Reply, AtYield, Halted, Sourced, NoGen, Blank
    <2>4. CASE Chatter(t)
        <3>1. gen'[t].pc = "stopped" \/ (gen'[t].pc = "streaming" /\ gen'[t].small)
            BY <2>4 DEF TypeOK, Chatter, AtYield, Halted, NoGen
        <3> QED BY <3>1, <1>2 DEF Sourced
    <2>5. CASE Retrieve(t)
        <3>1. gen'[t].pc = "stopped" \/ (gen'[t].pc = "streaming" /\ gen'[t].known \cap Erased = {})
            BY <2>5 DEF TypeOK, Retrieve, AtYield, Halted, NoGen
        <3>2. gone'[t] = Erased
            BY <2>5 DEF TypeOK, Retrieve
        <3> QED BY <3>1, <3>2, <1>2 DEF Sourced
    <2>6. CASE Token(t)
        <3>1. gen'[t].pc = "stopped" \/ gen'[t] = gen[t]
            BY <2>6 DEF TypeOK, Token, AtYield, Halted, NoGen
        <3> QED BY <3>1, <2>6, <2>0, <1>2 DEF Sourced, Token
    <2>7. CASE Compose(t)
        <3>1. PICK C \in SUBSET gen[t].known :
                gen'[t] = [NoGen EXCEPT !.pc = "storing",
                     !.draft = [carries |-> C, cites |-> IF gen[t].small THEN {} ELSE C]]
            BY <2>7 DEF TypeOK, Compose
        <3>2. gen'[t].pc = "storing" /\ gen'[t].draft.cites = IF gen[t].small THEN {} ELSE C
            BY <3>1 DEF NoGen
        <3>3. gone'[t] = gone[t] /\ gen[t].pc = "streaming"
            BY <2>7 DEF Compose
        <3> QED BY <3>2, <3>3, <2>0, <1>2 DEF Sourced
    <2>8. CASE Store(t)
        <3>1. gen'[t].pc \in {"stopped", "told"}
            BY <2>8 DEF TypeOK, Store, AtYield, Halted, NoGen
        <3> QED BY <3>1, <1>2 DEF Sourced
    <2>9. CASE Done(t) \/ Fail(t)
        <3>1. gen'[t].pc = "stopped"
            BY <2>9 DEF TypeOK, Done, Fail, Halted, NoGen
        <3> QED BY <3>1, <1>2 DEF Sourced
    <2>10. CASE Abort(t)
        <3>1. gen'[t].pc = "stopped" \/ gen'[t] = gen[t]
            BY <2>10 DEF TypeOK, Abort, Halted, NoGen
        <3> QED BY <3>1, <2>10, <2>0, <1>2 DEF Sourced, Abort
    <2> QED BY <2>1, <2>2, <2>3, <2>4, <2>5, <2>6, <2>7, <2>8, <2>9, <2>10 DEF TurnStep
<1> QED BY <1>1, <1>2

LEMMA SourcedSaga ==
    ASSUME NEW m \in Mem, SagaStep(m), NEW v \in Turn, Sourced(v)
    PROVE  Sourced(v)'
BY DEF SagaStep, Enumerate, Commit, RollBack, Sourced

-----------------------------------------------------------------------------
(* What the erasures cover.                                                *)

\* A step that stores no answer and moves no erasure uncovers nothing.
LEMMA CoveredQuiet ==
    ASSUME NEW v \in Turn, NEW k \in Mem, Covered(v, k),
           UNCHANGED <<answer, text, erase, late>>
    PROVE  Covered(v, k)'
BY DEF Covered

LEMMA CoveredTurn ==
    ASSUME TypeOK, NEW t \in Turn, TurnStep(t), Sourced(t),
           \A u \in Turn, m \in Mem : Covered(u, m),
           NEW v \in Turn, NEW k \in Mem
    PROVE  Covered(v, k)'
<1>0. Covered(v, k)
    OBVIOUS
<1>1. CASE Store(t)
    <2>1. erase' = erase /\ late \subseteq late'
        BY <1>1 DEF Store
    <2>2. CASE v # t
        <3>1. answer'[v] = answer[v] /\ text'[v] = text[v]
            BY <1>1, <2>2 DEF Store, TypeOK
        <3> QED BY <3>1, <2>1, <1>0 DEF Covered
    <2>3. CASE v = t
        <3>1. text'[t].cites = gen[t].draft.cites
            BY <1>1 DEF Store, TypeOK
        <3>2. k \in gen[t].draft.cites /\ erase[k].pc # "live" => <<t, k>> \in late'
            <4>1. gen[t].draft.cites \cap gone[t] = {}
                BY <1>1 DEF Store, Sourced
            <4> QED BY <4>1, <1>1 DEF Store
        <3> QED BY <3>1, <3>2, <2>1, <2>3 DEF Covered
    <2> QED BY <2>2, <2>3
<1>2. CASE ~Store(t)
    <2>1. UNCHANGED <<answer, text, erase, late>>
        BY <1>2 DEF TurnStep, Ask, Refuse, Reply, Chatter, Retrieve, Token, Compose, Done, Fail, Abort
    <2> QED BY <2>1, <1>0, CoveredQuiet
<1> QED BY <1>1, <1>2

LEMMA CoveredSaga ==
    ASSUME TypeOK, NEW m \in Mem, SagaStep(m),
           NEW v \in Turn, NEW k \in Mem, Covered(v, k)
    PROVE  Covered(v, k)'
<1>1. CASE Enumerate(m)
    <2>1. answer' = answer /\ text' = text /\ late' = late
        BY <1>1 DEF Enumerate
    <2>2. CASE k = m
        <3>1. erase'[k].pc = "enumerated" /\ erase'[k].hit = Matching(m)
            BY <1>1, <2>2 DEF Enumerate, TypeOK
        <3> QED BY <3>1, <2>1, <2>2 DEF Covered, Matching
    <2>3. CASE k # m
        BY <1>1, <2>1, <2>3 DEF Enumerate, TypeOK, Covered
    <2> QED BY <2>2, <2>3
<1>2. CASE Commit(m)
    <2>1. answer'[v] = "stored" => v \notin erase[m].hit /\ answer[v] = "stored" /\ text'[v] = text[v]
        BY <1>2 DEF Commit
    <2>2. late' = late
        BY <1>2 DEF Commit
    <2>3. CASE k = m
        <3>1. erase[k].pc = "enumerated" /\ erase'[k].pc = "erased"
            BY <1>2, <2>3 DEF Commit, TypeOK
        <3> QED BY <3>1, <2>1, <2>2, <2>3 DEF Covered
    <2>4. CASE k # m
        <3>1. erase'[k] = erase[k]
            BY <1>2, <2>4 DEF Commit, TypeOK
        <3> QED BY <3>1, <2>1, <2>2 DEF Covered
    <2> QED BY <2>3, <2>4
<1>3. CASE RollBack(m)
    <2>1. answer' = answer /\ text' = text
        BY <1>3 DEF RollBack
    <2>2. CASE k = m
        <3>1. erase'[k].pc = "live"
            BY <1>3, <2>2 DEF RollBack, TypeOK, Keeping
        <3> QED BY <3>1 DEF Covered
    <2>3. CASE k # m
        <3>1. erase'[k] = erase[k] /\ (<<v, k>> \in late => <<v, k>> \in late')
            BY <1>3, <2>3 DEF RollBack, TypeOK
        <3> QED BY <3>1, <2>1 DEF Covered
    <2> QED BY <2>2, <2>3
<1> QED BY <1>1, <1>2, <1>3 DEF SagaStep

-----------------------------------------------------------------------------
(* The theorems.                                                           *)

LEMMA Inductive == IInv /\ [Next]_vars => IInv'
<1> SUFFICES ASSUME IInv, [Next]_vars PROVE IInv'
    OBVIOUS
<1>1. CASE UNCHANGED vars
    BY <1>1 DEF IInv, vars, TypeOK, Slots, SlotsTrue, Open, Sourced, Covered
<1>2. ASSUME NEW t \in Turn, TurnStep(t) PROVE IInv'
    BY <1>2, TurnTyped, SlotsTurn, SourcedTurn, CoveredTurn DEF IInv
<1>3. ASSUME NEW m \in Mem, SagaStep(m) PROVE IInv'
    BY <1>3, SagaTyped, SlotsSaga, SourcedSaga, CoveredSaga DEF IInv
<1> QED BY <1>1, <1>2, <1>3 DEF Next, TurnStep, SagaStep

LEMMA Initial == Init => IInv
BY TypeInit, SlotsInit DEF IInv, Init, Sourced, Covered, NoGen, Keeping

\* Every reachable state of a conversation and of the erasures beside it satisfies
\* the invariant: TypeOK with the slots, the origin of the names an answer gives
\* (ask of chat.service.ts) and what the UPDATE of an erasure covers.
THEOREM Invariance == Spec => []IInv
BY Initial, Inductive, PTL DEF Spec

\* activeStreams of the controller is the number of streams whose handler is in
\* its loop, and never above maxConcurrentPerPrincipal, however each stream ends.
THEOREM Counted == Spec => []SlotsTrue
<1>1. IInv => SlotsTrue
    BY DEF IInv, Slots
<1> QED BY <1>1, Invariance, PTL

\* A stored answer that names a memory the saga has erased was stored after the
\* UPDATE of cascadeForMemories had looked: there is no other way to leave one.
THEOREM Redacted == Spec => []ErasedIsRedacted
<1>1. IInv => ErasedIsRedacted
    BY DEF IInv, ErasedIsRedacted, Covered, Erased
<1> QED BY <1>1, Invariance, PTL

=============================================================================
