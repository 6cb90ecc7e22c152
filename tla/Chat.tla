--------------------------------- MODULE Chat ---------------------------------
(***************************************************************************)
(* The conversation of one user: every question is a stream with a slot, a *)
(* generator that routes, retrieves, lets the model write and stores the   *)
(* answer, and a handler that races each of its steps against two timers;  *)
(* beside them the deletion saga redacts stored answers that cite what it  *)
(* erases.  An answer is the set of memories its text carries and the set  *)
(* its {{cite:id}} tokens name.  The model cites what it carries when it   *)
(* answers from facts; in small talk it may repeat a recent turn, and the  *)
(* sanitizer takes every token out.  A spent daily budget is one of the    *)
(* ways a model call fails.                                                *)
(***************************************************************************)
EXTENDS FiniteSets, Naturals

CONSTANTS Turn,   \* questions
          Mem,    \* memories
          Cap     \* maxConcurrentPerPrincipal

ASSUME CapAssumption == Cap \in Nat \ {0}

VARIABLES
    client,   \* turn |-> what the stream told the browser
    gen,      \* turn |-> the generator: pc, facts read, history read, the text so far
    answer,   \* turn |-> none, stored, redacted
    text,     \* turn |-> carries and cites of the stored answer
    erase,    \* memory |-> the saga's transaction: pc and the answers its UPDATE matched
    active,   \* activeStreams of the principal
    gone,     \* history: turn |-> what was erased when its facts were read
    late      \* history: <<turn, memory>> whose text was stored after the UPDATE had looked

vars == <<client, gen, answer, text, erase, active, gone, late>>

Blank   == [carries |-> {}, cites |-> {}]
NoGen   == [pc |-> "idle", known |-> {}, small |-> FALSE, draft |-> Blank]
Halted  == [NoGen EXCEPT !.pc = "stopped"]
Keeping == [pc |-> "live", hit |-> {}]

Init ==
    /\ client = [t \in Turn |-> "none"]
    /\ gen = [t \in Turn |-> NoGen]
    /\ answer = [t \in Turn |-> "none"]
    /\ text = [t \in Turn |-> Blank]
    /\ erase = [m \in Mem |-> Keeping]
    /\ active = 0
    /\ gone = [t \in Turn |-> {}]
    /\ late = {}

Open   == {t \in Turn : client[t] = "open"}
Erased == {m \in Mem : erase[m].pc = "erased"}

\* recentTurns: what the stored turns say, redacted ones nothing.
Recited == UNION {text[t].carries : t \in {u \in Turn : answer[u] = "stored"}}

\* A generator its handler has left stops at its next yield.
AtYield(t, g) == IF client[t] = "open" THEN g ELSE Halted

Told(t, what) ==
    /\ client' = [client EXCEPT ![t] = what]
    /\ active' = active - 1

-----------------------------------------------------------------------------
\* ask of the controller: the count is read and raised before any await.
Ask(t) ==
    /\ client[t] = "none" /\ active < Cap
    /\ client' = [client EXCEPT ![t] = "open"]
    /\ active' = active + 1
    /\ gen' = [gen EXCEPT ![t] = [NoGen EXCEPT !.pc = "routing", !.known = Recited]]
    /\ UNCHANGED <<answer, text, erase, gone, late>>

\* 429 before any header.
Refuse(t) ==
    /\ client[t] = "none" /\ active >= Cap
    /\ client' = [client EXCEPT ![t] = "refused"]
    /\ UNCHANGED <<gen, answer, text, erase, active, gone, late>>

\* A deterministic reply: small talk of the lexicon, a task, a draft, research,
\* nothing on record, nothing open.
Reply(t) ==
    /\ gen[t].pc = "routing"
    /\ gen' = [gen EXCEPT ![t] = AtYield(t, [NoGen EXCEPT !.pc = "storing"])]
    /\ UNCHANGED <<client, answer, text, erase, active, gone, late>>

\* handleModelSmallTalk: no facts, the recent turns.
Chatter(t) ==
    /\ gen[t].pc = "routing"
    /\ gen' = [gen EXCEPT ![t] = AtYield(t, [@ EXCEPT !.pc = "streaming", !.small = TRUE])]
    /\ UNCHANGED <<client, answer, text, erase, active, gone, late>>

\* Mutant of Retrieve: what the index still holds is not read again.
RetrieveFromIndex(t) ==
    /\ gen[t].pc = "routing"
    /\ \E F \in SUBSET Mem :
          gen' = [gen EXCEPT ![t] = AtYield(t, [@ EXCEPT !.pc = "streaming", !.known = F])]
    /\ gone' = [gone EXCEPT ![t] = Erased]
    /\ UNCHANGED <<client, answer, text, erase, active, late>>

\* retrieve, then the sources go out.  Rows of an uncommitted erasure are visible;
\* a question of knowledge is answered without any facts too.
Retrieve(t) ==
    /\ gen[t].pc = "routing"
    /\ \E F \in SUBSET (Mem \ Erased) :
          gen' = [gen EXCEPT ![t] = AtYield(t, [@ EXCEPT !.pc = "streaming", !.known = F])]
    /\ gone' = [gone EXCEPT ![t] = Erased]
    /\ UNCHANGED <<client, answer, text, erase, active, late>>

\* A token of the stream: buffered, yielded.
Token(t) ==
    /\ gen[t].pc = "streaming"
    /\ gen' = [gen EXCEPT ![t] = AtYield(t, @)]
    /\ UNCHANGED <<client, answer, text, erase, active, gone, late>>

\* The stream ends: toStoredAnswer with the facts, or with none of them.
Compose(t) ==
    /\ gen[t].pc = "streaming"
    /\ \E C \in SUBSET gen[t].known :
          gen' = [gen EXCEPT ![t] = [NoGen EXCEPT !.pc = "storing",
                     !.draft = [carries |-> C, cites |-> IF gen[t].small THEN {} ELSE C]]]
    /\ UNCHANGED <<client, answer, text, erase, active, gone, late>>

\* The assistant row, in a statement of its own.
Store(t) ==
    /\ gen[t].pc = "storing"
    /\ answer' = [answer EXCEPT ![t] = "stored"]
    /\ text' = [text EXCEPT ![t] = gen[t].draft]
    /\ late' = late \cup {<<t, m>> : m \in {k \in gen[t].draft.cites \ gone[t] : erase[k].pc # "live"}}
    /\ gen' = [gen EXCEPT ![t] = AtYield(t, [NoGen EXCEPT !.pc = "told"])]
    /\ UNCHANGED <<client, erase, active, gone>>

\* done, and the finally of the handler.
Done(t) ==
    /\ gen[t].pc = "told" /\ client[t] = "open"
    /\ Told(t, "done")
    /\ gen' = [gen EXCEPT ![t] = Halted]
    /\ UNCHANGED <<answer, text, erase, gone, late>>

\* Any await of the generator rejects: a model call, its budget, the database.
Fail(t) ==
    /\ gen[t].pc \in {"routing", "streaming", "storing"}
    /\ IF client[t] = "open" THEN Told(t, "error") ELSE UNCHANGED <<client, active>>
    /\ gen' = [gen EXCEPT ![t] = Halted]
    /\ UNCHANGED <<answer, text, erase, gone, late>>

\* Mutant of Abort: the slot is given back only when the generator has stopped.
AbortUnreleased(t) ==
    /\ client[t] = "open"
    /\ client' = [client EXCEPT ![t] = "timeout"]
    /\ UNCHANGED <<gen, answer, text, erase, active, gone, late>>

\* Mutant of Abort: the timers are cleared by the first event.
AbortBeforeTokens(t) ==
    /\ client[t] = "open" /\ gen[t].pc = "routing"
    /\ Told(t, "timeout")
    /\ UNCHANGED <<gen, answer, text, erase, gone, late>>

\* The idle timer or the ceiling: the client is told, the slot given back, and
\* the generator asked to return, which it does at its next yield.
Abort(t) ==
    /\ client[t] = "open"
    /\ Told(t, "timeout")
    /\ gen' = IF gen[t].pc = "told" THEN [gen EXCEPT ![t] = Halted] ELSE gen
    /\ UNCHANGED <<answer, text, erase, gone, late>>

-----------------------------------------------------------------------------
\* The answers an UPDATE of the saga holds locked.
Held == UNION {erase[k].hit : k \in Mem}

\* content LIKE '%{{cite:id}}%', role assistant, any owner.
Matching(m) == {t \in Turn : answer[t] = "stored" /\ m \in text[t].cites}

\* cascadeForMemories inside the enumeration transaction; a row another UPDATE
\* holds is waited for.
Enumerate(m) ==
    /\ erase[m].pc = "live" /\ Matching(m) \cap Held = {}
    /\ erase' = [erase EXCEPT ![m] = [pc |-> "enumerated", hit |-> Matching(m)]]
    /\ UNCHANGED <<client, gen, answer, text, active, gone, late>>

Commit(m) ==
    /\ erase[m].pc = "enumerated"
    /\ erase' = [erase EXCEPT ![m] = [pc |-> "erased", hit |-> {}]]
    /\ answer' = [t \in Turn |-> IF t \in erase[m].hit THEN "redacted" ELSE answer[t]]
    /\ text' = [t \in Turn |-> IF t \in erase[m].hit THEN Blank ELSE text[t]]
    /\ UNCHANGED <<client, gen, active, gone, late>>

RollBack(m) ==
    /\ erase[m].pc = "enumerated"
    /\ erase' = [erase EXCEPT ![m] = Keeping]
    /\ late' = {p \in late : p[2] # m}
    /\ UNCHANGED <<client, gen, answer, text, active, gone>>

Next ==
    \/ \E t \in Turn :
          \/ Ask(t) \/ Refuse(t) \/ Reply(t) \/ Chatter(t) \/ Retrieve(t)
          \/ Token(t) \/ Compose(t) \/ Store(t) \/ Done(t) \/ Fail(t) \/ Abort(t)
    \/ \E m \in Mem : Enumerate(m) \/ Commit(m) \/ RollBack(m)

Spec == Init /\ [][Next]_vars

\* Of the two timers the ceiling fires whatever the model does; nothing else is
\* promised: the model may never answer, or send tokens for ever.
FairSpec == Spec /\ \A t \in Turn : WF_vars(Abort(t))

-----------------------------------------------------------------------------
\* "any answer whose stored text cites an erased memory is found by that token"
\* (ChatAnswerCascade): once a memory is erased no stored answer carries it, but
\* for one that was being written when the saga looked, and for small talk that
\* repeats a recent answer without its token.
ErasedIsRedacted ==
    \A t \in Turn : answer[t] = "stored" =>
        \A m \in text[t].carries \cap Erased :
            <<t, m>> \in late \/ m \notin text[t].cites

\* activeStreams is the number of streams whose handler is still in its loop,
\* never above the cap, whichever of done, error and the two timers ended each.
SlotsTrue ==
    active = Cardinality(Open) /\ active <= Cap

\* "races the generator so it fires even while the upstream model call is still
\* awaiting" (ask): every stream ends, though the model may hang or never stop.
EveryStreamEnds ==
    \A t \in Turn : client[t] = "open" ~> client[t] # "open"

\* "an answer that quoted an erased fact cannot be partially kept"
\* (chat-answer-cascade.ts:11): false, by the two windows above.
ErasedIsForgotten ==
    \A t \in Turn : answer[t] = "stored" => text[t].carries \cap Erased = {}

\* "so a caller cannot pin unbounded Node handlers + upstream model streams"
\* (ask of chat.controller.ts): false, a stream that timed out leaves its call.
UpstreamBounded ==
    Cardinality({t \in Turn : gen[t].pc \in {"routing", "streaming"}}) <= Cap
=============================================================================
