------------------------- MODULE ReceiptChain_proofs -------------------------
(***************************************************************************)
(* Proofs about ReceiptChain and ReceiptTamper, for any number of receipts *)
(* and deliveries: the chain never forks, always verifies and implements   *)
(* the append-only ledger; and what rewriting and deleting rows leaves for *)
(* a verifier to see.                                                      *)
(*                                                                         *)
(* NoFork is not inductive: that a new link never meets an old one depends *)
(* on what the confirming transaction read under the advisory lock still   *)
(* being the end of the chain when it commits (LinkIsFresh), and on the    *)
(* chain having an end at all (NoCycle), which holds because a hash        *)
(* commits to the receipt it belongs to and to all that went before.       *)
(* That a verifier's walk reaches every receipt needs the places of the    *)
(* receipts to be counted (Numbered).                                      *)
(***************************************************************************)
EXTENDS ReceiptTamper, FiniteSetTheorems, TLAPS

\* One transaction at a time between the lock and the commit.
OneHolder == \A q, r \in Receipts : Holding(q) /\ Holding(r) => q = r

\* What a receipt is when it is pending, and when it is confirmed.
HashesCommit ==
    \A r \in Confirmed : /\ prev[r] \in Chains
                         /\ hash[r] = Append(prev[r], <<r, payload[r]>>)

\* A receipt links to the genesis or to a confirmed receipt.
LinksResolve ==
    \A r \in Confirmed : prev[r] = Genesis \/ \E q \in Confirmed : prev[r] = hash[q]

\* A chain that is not empty has an end, and only one.
NoCycle == Confirmed # {} => Tips # {}
SingleTip == \A q, r \in Tips : q = r

\* The tip a transaction read is still the end of the chain.
LinkIsFresh ==
    \A r \in Receipts : conf[r].pc = "linked" =>
        /\ Confirmed = {} => conf[r].tip = Genesis
        /\ Confirmed # {} => \E q \in Tips : conf[r].tip = hash[q]

\* A transaction at work on a receipt means the receipt is not confirmed yet.
Busy == \A r \in Receipts : conf[r].pc # "idle" => status[r] = "pending"

IInv == /\ TypeOK /\ OneHolder /\ Busy /\ HashesCommit /\ LinksResolve
        /\ NoFork /\ NoCycle /\ SingleTip /\ LinkIsFresh

-----------------------------------------------------------------------------
\* The empty chain is a chain.
LEMMA GenesisIsChain == Genesis \in Chains
BY DEF Genesis, Chains

\* Confirming extends a chain of receipts by a pair that names the receipt.
LEMMA HashOfType ==
    ASSUME NEW r \in Receipts, NEW p \in Chains, payload \in [Receipts -> Payloads]
    PROVE  /\ HashOf(r, p) \in Chains
           /\ HashOf(r, p) # Genesis
           /\ HashOf(r, p) # p
BY DEF HashOf, Chains, Genesis

\* The last pair of a hash identifies its receipt, what is before it its link.
LEMMA AppendInjective ==
    ASSUME NEW p \in Chains, NEW q \in Chains,
           NEW x \in Receipts \X Payloads, NEW y \in Receipts \X Payloads,
           Append(p, x) = Append(q, y)
    PROVE  p = q /\ x = y
<1>1. Len(p) = Len(q) /\ Len(p) \in Nat
  BY DEF Chains
<1>2. x = y
  <2>1. x = Append(p, x)[Len(p) + 1] /\ y = Append(q, y)[Len(q) + 1]
    BY DEF Chains
  <2> QED BY <2>1, <1>1
<1>3. p = q
  <2>1. \A i \in 1..Len(p) : p[i] = Append(p, x)[i] /\ q[i] = Append(q, y)[i]
    BY <1>1 DEF Chains
  <2> QED BY <2>1, <1>1 DEF Chains
<1> QED BY <1>2, <1>3

-----------------------------------------------------------------------------
LEMMA InitIInv == Init => IInv
<1> SUFFICES ASSUME Init PROVE IInv
  OBVIOUS
<1>1. Confirmed = {} /\ Tips = {}
  BY DEF Init, Confirmed, Tips
<1>2. TypeOK
  BY DEF Init, TypeOK, NoConf, Genesis, Chains
<1> QED
  BY <1>1, <1>2 DEF Init, IInv, OneHolder, Holding, Busy, HashesCommit, LinksResolve,
     NoFork, ForkFree, NoCycle, SingleTip, LinkIsFresh, NoConf

\* Steps that leave the receipt rows alone leave the chain alone.
LEMMA RowsKept ==
    ASSUME IInv, UNCHANGED rows
    PROVE  /\ Confirmed' = Confirmed /\ Tips' = Tips
           /\ HashesCommit' /\ LinksResolve' /\ NoFork' /\ NoCycle' /\ SingleTip'
<1>1. Confirmed' = Confirmed
  BY DEF rows, Confirmed
<1>2. Tips' = Tips
  BY <1>1 DEF rows, Tips
<1> QED
  BY <1>1, <1>2 DEF rows, IInv, HashesCommit, LinksResolve, NoFork, ForkFree, NoCycle, SingleTip

LEMMA ConfirmIInv ==
    ASSUME IInv, NEW r \in Receipts, Confirm(r)
    PROVE  IInv'
<1> DEFINE tip == conf[r].tip
           new == Append(tip, <<r, payload[r]>>)
<1>0. /\ TypeOK /\ OneHolder /\ Busy /\ HashesCommit /\ LinksResolve
      /\ NoFork /\ NoCycle /\ SingleTip /\ LinkIsFresh
  BY DEF IInv
<1>1. /\ conf[r].pc = "linked" /\ status[r] = "pending" /\ r \notin Confirmed
      /\ tip \in Chains
  BY <1>0 DEF Confirm, Busy, Confirmed, TypeOK
<1>2. new \in Chains /\ new # Genesis /\ new # tip
  BY <1>1, <1>0, HashOfType DEF HashOf, TypeOK
<1>3. /\ Confirmed' = Confirmed \cup {r}
      /\ prev' = [prev EXCEPT ![r] = tip] /\ hash' = [hash EXCEPT ![r] = new]
      /\ payload' = payload /\ conf' = [conf EXCEPT ![r] = NoConf]
  BY <1>0 DEF Confirm, Confirmed, TypeOK, HashOf
<1>4. \A q \in Confirmed : q \in Receipts /\ q # r /\ prev'[q] = prev[q] /\ hash'[q] = hash[q]
  BY <1>0, <1>1, <1>3 DEF Confirmed, TypeOK
<1>5. prev'[r] = tip /\ hash'[r] = new
  BY <1>0, <1>3 DEF TypeOK
<1>6. TypeOK'
  BY <1>0, <1>1, <1>2, <1>3 DEF TypeOK, Confirm, NoConf, Genesis, Chains, HashOf
<1>7. OneHolder' /\ Busy'
  BY <1>0, <1>1, <1>3 DEF OneHolder, Busy, Holding, NoConf, Confirm, TypeOK
<1>8. HashesCommit'
  BY <1>0, <1>1, <1>3, <1>4, <1>5 DEF HashesCommit
\* Nothing confirmed links to the tip, and nothing links to the new hash.
<1>9. \A q \in Confirmed : prev[q] # tip
  BY <1>0, <1>1 DEF LinkIsFresh, Tips
<1>10. \A q \in Confirmed \cup {r} : prev'[q] # new
  <2>1. prev'[r] # new
    BY <1>2, <1>5
  <2>2. ASSUME NEW q \in Confirmed, prev[q] = new PROVE FALSE
    <3>1. PICK x \in Confirmed : prev[q] = hash[x]
      BY <1>0, <1>2, <2>2 DEF LinksResolve
    <3>2. /\ x \in Receipts /\ x # r /\ prev[x] \in Chains
          /\ Append(prev[x], <<x, payload[x]>>) = new
      BY <1>0, <1>4, <2>2, <3>1 DEF HashesCommit
    <3>3. <<x, payload[x]>> = <<r, payload[r]>>
      BY <1>0, <1>1, <3>2, AppendInjective DEF TypeOK
    <3> QED BY <3>2, <3>3
  <2> QED BY <1>4, <2>1, <2>2
<1>11. LinksResolve'
  BY <1>0, <1>1, <1>3, <1>4, <1>5 DEF LinksResolve, LinkIsFresh, Tips
<1>12. NoFork'
  BY <1>0, <1>3, <1>4, <1>5, <1>9 DEF NoFork, ForkFree
<1>13. Tips' = {r}
  <2>1. r \in Tips'
    BY <1>3, <1>5, <1>10 DEF Tips
  <2>2. ASSUME NEW q \in Tips', q # r PROVE FALSE
    <3>1. q \in Confirmed /\ hash[q] # tip
      BY <1>3, <1>4, <1>5, <2>2 DEF Tips
    <3>2. q \in Tips
      BY <1>3, <1>4, <2>2, <3>1 DEF Tips
    <3>3. PICK t \in Tips : tip = hash[t]
      BY <1>0, <1>1, <3>1 DEF LinkIsFresh
    <3> QED BY <1>0, <3>1, <3>2, <3>3 DEF SingleTip
  <2> QED BY <2>1, <2>2
<1>14. NoCycle' /\ SingleTip'
  BY <1>13 DEF NoCycle, SingleTip
<1>15. LinkIsFresh'
  BY <1>0, <1>1, <1>3 DEF LinkIsFresh, OneHolder, Holding, NoConf, TypeOK
<1> QED
  BY <1>6, <1>7, <1>8, <1>11, <1>12, <1>14, <1>15 DEF IInv

LEMMA NextIInv == IInv /\ [Next]_vars => IInv'
<1> SUFFICES ASSUME IInv, [Next]_vars PROVE IInv'
  OBVIOUS
<1>0. /\ TypeOK /\ OneHolder /\ Busy /\ LinkIsFresh /\ NoCycle
  BY DEF IInv
<1>1. ASSUME NEW r \in Receipts, Execute(r) PROVE IInv'
  <2>1. TypeOK' /\ OneHolder' /\ Busy' /\ LinkIsFresh'
    BY <1>0, <1>1, RowsKept DEF Execute, rows, TypeOK, OneHolder, Holding, Busy, LinkIsFresh
  <2> QED BY <1>1, <2>1, RowsKept DEF Execute, IInv
<1>2. ASSUME NEW r \in Receipts, LockChain(r) PROVE IInv'
  <2>1. TypeOK' /\ OneHolder' /\ Busy' /\ LinkIsFresh'
    BY <1>0, <1>2, RowsKept DEF LockChain, rows, TypeOK, OneHolder, Holding, Busy, LinkIsFresh
  <2> QED BY <1>2, <2>1, RowsKept DEF LockChain, IInv
<1>3. ASSUME NEW r \in Receipts, ReadTip(r) PROVE IInv'
  <2>1. /\ Tips = {} => TipHash = Genesis
        /\ Tips # {} => \E q \in Tips : TipHash = hash[q]
    BY DEF TipHash
  <2>2. TipHash \in Chains
    <3>1. \A q \in Tips : hash[q] \in Chains
      BY <1>0, HashOfType DEF IInv, HashesCommit, HashOf, TypeOK, Tips, Confirmed
    <3> QED BY <2>1, <3>1, GenesisIsChain
  <2>3. TypeOK' /\ OneHolder' /\ Busy'
    BY <1>0, <1>3, <2>2 DEF ReadTip, rows, TypeOK, OneHolder, Holding, Busy
  <2>4. LinkIsFresh'
    BY <1>0, <1>3, <2>1, RowsKept DEF ReadTip, rows, TypeOK, LinkIsFresh, NoCycle, Tips
  <2> QED BY <1>3, <2>3, <2>4, RowsKept DEF ReadTip, IInv
<1>4. ASSUME NEW r \in Receipts, Fail(r) PROVE IInv'
  <2>0. TypeOK'
    BY <1>0, <1>4, GenesisIsChain DEF Fail, rows, NoConf, TypeOK
  <2>1. OneHolder' /\ Busy' /\ LinkIsFresh'
    BY <1>0, <1>4, RowsKept DEF Fail, rows, NoConf, TypeOK, OneHolder, Holding, Busy, LinkIsFresh
  <2> QED BY <1>4, <2>0, <2>1, RowsKept DEF Fail, IInv
<1>5. ASSUME UNCHANGED vars PROVE IInv'
  <2>1. TypeOK' /\ OneHolder' /\ Busy' /\ LinkIsFresh'
    BY <1>0, <1>5, RowsKept DEF vars, rows, TypeOK, OneHolder, Holding, Busy, LinkIsFresh
  <2> QED BY <1>5, <2>1, RowsKept DEF vars, rows, IInv
<1> QED
  BY <1>1, <1>2, <1>3, <1>4, <1>5, ConfirmIInv DEF Next

-----------------------------------------------------------------------------
(* The chain counts its receipts.  That the walk of a verifier reaches     *)
(* every receipt follows from the length of a hash being the place of its  *)
(* receipt: the places are 1 to the number of receipts, each taken once.   *)

Counted ==
    /\ IsFiniteSet(Confirmed)
    /\ \A r \in Confirmed : Len(hash[r]) \in 1..Cardinality(Confirmed)
    /\ \A n \in 1..Cardinality(Confirmed) : \E r \in Confirmed : Len(hash[r]) = n
    /\ \A q, r \in Confirmed : Len(hash[q]) = Len(hash[r]) => q = r

\* What is signed is the hash.
Signed == \A r \in Confirmed : signature[r] = hash[r]

\* A hash names a receipt when the receipt is in what it commits to.
Names(h, q) == \E i \in 1..Len(h) : h[i][1] = q

\* The last hash commits to every receipt.
Telling == \A r \in Confirmed : Len(hash[r]) = Cardinality(Confirmed) => \A q \in Confirmed : Names(hash[r], q)

Numbered == Counted /\ Signed /\ Telling

LEMMA ChainFacts ==
    ASSUME NEW p \in Chains, NEW x \in Receipts \X Payloads
    PROVE  /\ Append(p, x) \in Chains /\ Len(p) \in Nat /\ Len(Append(p, x)) = Len(p) + 1
           /\ \A i \in 1..Len(p) : Append(p, x)[i] = p[i]
           /\ Append(p, x)[Len(p) + 1] = x
BY DEF Chains

LEMMA InitNumbered == Init => Numbered
<1> SUFFICES ASSUME Init PROVE Numbered
  OBVIOUS
<1>1. Confirmed = {}
  BY DEF Init, Confirmed
<1> QED BY <1>1, FS_EmptySet DEF Numbered, Counted, Signed, Telling

\* The tip that a transaction is about to link to is the last of the chain.
LEMMA TipIsLast ==
    ASSUME IInv, Numbered, NEW r \in Receipts, conf[r].pc = "linked"
    PROVE  /\ conf[r].tip \in Chains /\ Len(conf[r].tip) = Cardinality(Confirmed)
           /\ \A q \in Confirmed : Names(conf[r].tip, q)
<1> DEFINE N == Cardinality(Confirmed)
           tip == conf[r].tip
<1>0. /\ TypeOK /\ HashesCommit /\ SingleTip /\ LinkIsFresh /\ Counted /\ Telling
  BY DEF IInv, Numbered
<1>1. tip \in Chains /\ N \in Nat /\ (N = 0 <=> Confirmed = {})
  BY <1>0, FS_CardinalityType, FS_EmptySet DEF TypeOK, Counted
<1>2. CASE Confirmed = {}
  BY <1>0, <1>1, <1>2 DEF LinkIsFresh, Genesis
<1>3. CASE Confirmed # {}
  <2>1. PICK q \in Tips : tip = hash[q]
    BY <1>0, <1>3 DEF LinkIsFresh
  <2>2. PICK s \in Confirmed : Len(hash[s]) = N
    BY <1>0, <1>1, <1>3 DEF Counted
  <2>3. ASSUME NEW x \in Confirmed, prev[x] = hash[s] PROVE FALSE
    <3>1. hash[x] = Append(prev[x], <<x, payload[x]>>) /\ prev[x] \in Chains /\ <<x, payload[x]>> \in Receipts \X Payloads
      BY <1>0 DEF HashesCommit, Confirmed, TypeOK
    <3>2. Len(hash[x]) = N + 1
      BY <2>2, <2>3, <3>1, ChainFacts
    <3> QED BY <1>0, <1>1, <3>2 DEF Counted
  <2>4. q = s
    BY <1>0, <2>1, <2>2, <2>3 DEF SingleTip, Tips
  <2> QED BY <1>0, <1>1, <2>1, <2>2, <2>4 DEF Telling
<1> QED BY <1>2, <1>3

LEMMA ConfirmNumbered ==
    ASSUME IInv, Numbered, NEW r \in Receipts, Confirm(r)
    PROVE  Numbered'
<1> DEFINE N == Cardinality(Confirmed)
           tip == conf[r].tip
           x == <<r, payload[r]>>
           new == Append(tip, x)
<1>0. /\ TypeOK /\ Busy /\ HashesCommit /\ Counted /\ Signed /\ Telling
  BY DEF IInv, Numbered
<1>1. conf[r].pc = "linked" /\ r \notin Confirmed /\ x \in Receipts \X Payloads /\ N \in Nat
  BY <1>0, FS_CardinalityType DEF Confirm, Busy, Confirmed, TypeOK, Counted
<1>2. tip \in Chains /\ Len(tip) = N /\ \A q \in Confirmed : Names(tip, q)
  BY <1>1, TipIsLast
<1>3. Confirmed' = Confirmed \cup {r}
  BY <1>0 DEF Confirm, Confirmed, TypeOK
<1>4. \A q \in Confirmed : q # r /\ hash'[q] = hash[q] /\ signature'[q] = signature[q]
  BY <1>0, <1>1 DEF Confirm, Confirmed, TypeOK
<1>5. hash'[r] = new /\ signature'[r] = new
  BY <1>0 DEF Confirm, TypeOK, HashOf
<1>6. IsFiniteSet(Confirmed') /\ Cardinality(Confirmed') = N + 1
  BY <1>0, <1>1, <1>3, FS_AddElement DEF Counted
<1>7. new \in Chains /\ Len(new) = N + 1 /\ new[N + 1] = x /\ \A i \in 1..N : new[i] = tip[i]
  <2> HIDE DEF tip, x
  <2>1. /\ Append(tip, x) \in Chains /\ Len(Append(tip, x)) = Len(tip) + 1
        /\ \A i \in 1..Len(tip) : Append(tip, x)[i] = tip[i]
        /\ Append(tip, x)[Len(tip) + 1] = x
    BY <1>1, <1>2, ChainFacts
  <2> QED BY <1>2, <2>1
<1>8. \A q \in Confirmed : Len(hash'[q]) \in 1..N
  BY <1>0, <1>4 DEF Counted
<1> HIDE DEF N, new, tip, x
<1>9. Counted'
  <2>1. \A q \in Confirmed' : Len(hash'[q]) \in 1..(N + 1)
    BY <1>1, <1>3, <1>5, <1>7, <1>8
  <2>2. ASSUME NEW n \in 1..(N + 1) PROVE \E q \in Confirmed' : Len(hash'[q]) = n
    <3>1. CASE n = N + 1
      BY <1>3, <1>5, <1>7, <3>1
    <3>2. CASE n # N + 1
      <4>1. n \in 1..N
        BY <1>1, <3>2
      <4>2. PICK q \in Confirmed : Len(hash[q]) = n
        BY <1>0, <4>1 DEF Counted, N
      <4> QED BY <1>3, <1>4, <4>2
    <3> QED BY <3>1, <3>2
  <2>3. ASSUME NEW q \in Confirmed', NEW s \in Confirmed', Len(hash'[q]) = Len(hash'[s]) PROVE q = s
    <3>1. CASE q \in Confirmed /\ s \in Confirmed
      BY <1>0, <1>4, <2>3, <3>1 DEF Counted
    <3>2. CASE q = r \/ s = r
      BY <1>1, <1>3, <1>5, <1>7, <1>8, <2>3, <3>2
    <3> QED BY <1>3, <3>1, <3>2
  <2> QED BY <1>6, <2>1, <2>2, <2>3 DEF Counted
<1>10. Signed'
  BY <1>0, <1>3, <1>4, <1>5 DEF Signed
<1>11. Telling'
  <2> SUFFICES ASSUME NEW s \in Confirmed', Len(hash'[s]) = N + 1, NEW q \in Confirmed'
               PROVE  Names(hash'[s], q)
    BY <1>6 DEF Telling, Names
  <2>1. s = r
    BY <1>1, <1>3, <1>8
  <2>2. CASE q = r
    <3>1. new[N + 1][1] = q /\ N + 1 \in 1..Len(new)
      BY <1>1, <1>7, <2>2 DEF x
    <3> QED BY <1>5, <2>1, <3>1 DEF Names
  <2>3. CASE q # r
    <3>1. PICK i \in 1..Len(tip) : tip[i][1] = q
      BY <1>2, <1>3, <2>3 DEF Names
    <3>2. i \in 1..Len(new) /\ new[i][1] = q
      BY <1>1, <1>2, <1>7, <3>1
    <3> QED BY <1>5, <2>1, <3>2 DEF Names
  <2> QED BY <2>2, <2>3
<1> QED BY <1>9, <1>10, <1>11 DEF Numbered

LEMMA NextNumbered == IInv /\ Numbered /\ [Next]_vars => Numbered'
<1> SUFFICES ASSUME IInv, Numbered, [Next]_vars PROVE Numbered'
  OBVIOUS
<1>1. CASE UNCHANGED rows
  <2>1. Confirmed' = Confirmed
    BY <1>1, RowsKept
  <2>2. Counted' /\ Signed' /\ Telling'
    BY <1>1, <2>1 DEF rows, Numbered, Counted, Signed, Telling, Names
  <2> QED BY <2>2 DEF Numbered
<1>2. UNCHANGED rows \/ \E r \in Receipts : Confirm(r)
  BY DEF Next, Execute, LockChain, ReadTip, Fail, vars, rows
<1> QED BY <1>1, <1>2, ConfirmNumbered

-----------------------------------------------------------------------------
(* Verification.  Induction is used in the form of sets: a set with 0 and  *)
(* all successors has no least natural number outside.                     *)

LEMMA SetInduction ==
  ASSUME NEW S \in SUBSET Nat, 0 \in S, \A n \in S : n + 1 \in S
  PROVE  S = Nat
<1> SUFFICES ASSUME Nat \ S # {} PROVE FALSE
  OBVIOUS
<1> DEFINE T == Nat \ S
           L == OpToRel(<, Nat)
<1>1. PICK n \in T : \A k \in T : ~ (<<k, n>> \in L)
  <2>1. T \subseteq Nat /\ T # {}
    OBVIOUS
  <2>2. IsWellFoundedOn(L, Nat)
    BY NatLessThanWellFounded
  <2> HIDE DEF T, L
  <2> QED BY <2>1, <2>2, WFMin
<1>2. \A k \in T : ~(k < n)
  <2>1. ASSUME NEW k \in T, k < n PROVE FALSE
    <3>1. <<k, n>> \in Nat \X Nat
      BY <1>1
    <3>2. <<k, n>> \in OpToRel(<, Nat)
      BY <3>1, <2>1 DEF OpToRel
    <3> QED BY <1>1, <3>2
  <2> QED BY <2>1
<1> HIDE DEF L
<1>3. n # 0 /\ n - 1 \in Nat
  BY <1>1
<1>4. n - 1 \in S
  BY <1>2, <1>3
<1> QED BY <1>1, <1>3, <1>4

\* Receipts that a walk may be given: what a confirmed row holds.
Stored(R) == /\ R \subseteq Receipts /\ IsFiniteSet(R) /\ payload \in [Receipts -> Payloads]
             /\ hash \in [Receipts -> Chains \cup {Unsigned}]
             /\ \A r \in R : prev[r] \in Chains

LEMMA WalkExists ==
  ASSUME NEW R, Stored(R), NEW N \in Nat
  PROVE  \E g \in [0..N -> Chains \cup {Unsigned}] :
            g[0] = Genesis /\ \A i \in 1..N : g[i] = Onward(R, g[i - 1])
<1> DEFINE V == Chains \cup {Unsigned}
           S == {n \in Nat : \E g \in [0..n -> V] : g[0] = Genesis /\ \A i \in 1..n : g[i] = Onward(R, g[i - 1])}
<1>a. \A h \in V : Onward(R, h) \in V
  <2> SUFFICES ASSUME NEW h \in V, Linked(R, h) # {} PROVE Onward(R, h) \in V
    BY DEF Onward
  <2>1. After(R, h) \in Receipts
    BY DEF After, Linked, Stored
  <2> QED BY <2>1 DEF Onward, Stored
<1>b. Genesis \in V
  BY GenesisIsChain
<1> HIDE DEF V
<1>1. 0 \in S
  <2> DEFINE g == [i \in 0..0 |-> Genesis]
  <2>1. g \in [0..0 -> V]
    BY <1>b
  <2>2. g[0] = Genesis /\ \A i \in 1..0 : g[i] = Onward(R, g[i - 1])
    OBVIOUS
  <2> HIDE DEF g
  <2> QED BY <2>1, <2>2 DEF g
<1>2. ASSUME NEW n \in S PROVE n + 1 \in S
  <2>1. PICK g \in [0..n -> V] : g[0] = Genesis /\ \A i \in 1..n : g[i] = Onward(R, g[i - 1])
    OBVIOUS
  <2> DEFINE h == [i \in 0..(n + 1) |-> IF i = n + 1 THEN Onward(R, g[n]) ELSE g[i]]
  <2>2. n \in Nat /\ g[n] \in V
    BY <2>1
  <2>3. h \in [0..(n + 1) -> V]
    BY <1>a, <2>1, <2>2
  <2>4. h[0] = Genesis
    BY <2>1, <2>2
  <2>5. \A i \in 1..(n + 1) : h[i] = Onward(R, h[i - 1])
    BY <2>1, <2>2
  <2> HIDE DEF h
  <2> QED BY <2>2, <2>3, <2>4, <2>5
<1>3. S = Nat
  <2> HIDE DEF S
  <2>1. S \in SUBSET Nat
    BY DEF S
  <2> QED BY <1>1, <1>2, <2>1, SetInduction
<1> QED BY <1>3 DEF V

\* The walk is the function its recursion describes.
LEMMA WalkSteps ==
  ASSUME NEW R, Stored(R)
  PROVE  /\ Cardinality(R) \in Nat
         /\ Walk(R)[0] = Genesis
         /\ \A n \in 1..Cardinality(R) : Walk(R)[n] = Onward(R, Walk(R)[n - 1])
<1> DEFINE N == Cardinality(R)
<1>1. N \in Nat
  BY FS_CardinalityType DEF Stored
<1>2. PICK g \in [0..N -> Chains \cup {Unsigned}] :
           g[0] = Genesis /\ \A i \in 1..N : g[i] = Onward(R, g[i - 1])
  BY <1>1, WalkExists
<1>3. g = [n \in 0..N |-> IF n = 0 THEN Genesis ELSE Onward(R, g[n - 1])]
  BY <1>1, <1>2
<1> DEFINE w == CHOOSE f : f = [n \in 0..N |-> IF n = 0 THEN Genesis ELSE Onward(R, f[n - 1])]
<1>4. w = [n \in 0..N |-> IF n = 0 THEN Genesis ELSE Onward(R, w[n - 1])]
  <2> HIDE DEF N
  <2> QED BY <1>3, Zenon
<1>5. Walk(R) = w
  BY DEF Walk
<1> HIDE DEF w
<1>6. w[0] = Genesis
  BY <1>1, <1>4
<1>7. \A n \in 1..N : w[n] = Onward(R, w[n - 1])
  BY <1>1, <1>4
<1> QED BY <1>1, <1>5, <1>6, <1>7

\* The receipt at place n of the chain, and the hash reached there.
At(n) == CHOOSE r \in Confirmed : Len(hash[r]) = n
Up(n) == IF n = 0 THEN Genesis ELSE hash[At(n)]

LEMMA ConfirmedStored == IInv /\ Numbered => Stored(Confirmed)
  BY DEF IInv, Numbered, Counted, HashesCommit, Stored, TypeOK, Confirmed

\* Each place has one receipt, linked to the place before it, and it is valid.
LEMMA PlaceFacts ==
  ASSUME IInv, Numbered, NEW n \in 1..Cardinality(Confirmed)
  PROVE  /\ At(n) \in Confirmed /\ Len(hash[At(n)]) = n /\ hash[At(n)] \in Chains /\ Valid(At(n))
         /\ Linked(Confirmed, Up(n - 1)) = {At(n)} /\ Up(n - 1) \in Chains
<1>0. /\ TypeOK /\ HashesCommit /\ LinksResolve /\ NoFork /\ Counted /\ Signed
  BY DEF IInv, Numbered
<1>1. Cardinality(Confirmed) \in Nat
  BY <1>0, FS_CardinalityType DEF Counted
<1>2. \A k \in 1..Cardinality(Confirmed) : At(k) \in Confirmed /\ Len(hash[At(k)]) = k
  BY <1>0 DEF Counted, At
<1>3. \A r \in Confirmed : /\ prev[r] \in Chains /\ <<r, payload[r]>> \in Receipts \X Payloads
                           /\ hash[r] = Append(prev[r], <<r, payload[r]>>)
  BY <1>0 DEF HashesCommit, TypeOK, Confirmed
<1>4. ASSUME NEW r \in Confirmed
      PROVE  hash[r] \in Chains /\ Len(prev[r]) \in Nat /\ Len(hash[r]) = Len(prev[r]) + 1
  <2> DEFINE p == prev[r]
             x == <<r, payload[r]>>
  <2>1. p \in Chains /\ x \in Receipts \X Payloads /\ hash[r] = Append(p, x)
    BY <1>3
  <2> HIDE DEF p, x
  <2>2. hash[r] \in Chains /\ Len(p) \in Nat /\ Len(hash[r]) = Len(p) + 1
    BY <2>1, ChainFacts
  <2> QED BY <2>2 DEF p
<1>5. \A r \in Confirmed : Valid(r)
  BY <1>0, <1>3 DEF Valid, HashOf, Signed
<1>6. prev[At(n)] = Up(n - 1)
  <2>1. CASE n = 1
    <3>1. prev[At(n)] = Genesis \/ \E q \in Confirmed : prev[At(n)] = hash[q]
      BY <1>0, <1>2 DEF LinksResolve
    <3>2. \A q \in Confirmed : prev[At(n)] # hash[q]
      BY <1>0, <1>2, <1>4, <2>1 DEF Counted
    <3> QED BY <2>1, <3>1, <3>2 DEF Up
  <2>2. CASE n # 1
    <3>1. n - 1 \in 1..Cardinality(Confirmed) /\ n - 1 # 0
      BY <1>1, <2>2
    <3>2. Len(prev[At(n)]) = n - 1
      BY <1>2, <1>4
    <3>3. prev[At(n)] # Genesis
      BY <3>1, <3>2 DEF Genesis
    <3>4. PICK q \in Confirmed : prev[At(n)] = hash[q]
      BY <1>0, <1>2, <3>3 DEF LinksResolve
    <3>5. q = At(n - 1)
      BY <1>0, <1>2, <3>1, <3>2, <3>4 DEF Counted
    <3> QED BY <3>1, <3>4, <3>5 DEF Up
  <2> QED BY <2>1, <2>2
<1>7. Linked(Confirmed, Up(n - 1)) = {At(n)}
  BY <1>0, <1>2, <1>6 DEF Linked, NoFork, ForkFree
<1>8. Up(n - 1) \in Chains
  BY <1>2, <1>3, <1>6
<1> QED BY <1>2, <1>4, <1>5, <1>7, <1>8

\* A verifier of the committed rows walks from place to place.
LEMMA WalkUp ==
  ASSUME IInv, Numbered
  PROVE  \A n \in 0..Cardinality(Confirmed) : Walk(Confirmed)[n] = Up(n)
<1> DEFINE N == Cardinality(Confirmed)
           w == Walk(Confirmed)
           S == {n \in Nat : n \in 0..N => w[n] = Up(n)}
<1>1. N \in Nat /\ w[0] = Genesis /\ \A n \in 1..N : w[n] = Onward(Confirmed, w[n - 1])
  BY ConfirmedStored, WalkSteps
<1>2. \A n \in 1..N : Onward(Confirmed, Up(n - 1)) = Up(n)
  <2> SUFFICES ASSUME NEW n \in 1..N PROVE Onward(Confirmed, Up(n - 1)) = Up(n)
    OBVIOUS
  <2>1. /\ Linked(Confirmed, Up(n - 1)) = {At(n)} /\ Up(n - 1) \in Chains /\ Valid(At(n))
    BY PlaceFacts
  <2>2. After(Confirmed, Up(n - 1)) = At(n)
    BY <2>1 DEF After
  <2>3. Up(n - 1) # Unsigned /\ n # 0
    BY <1>1, <2>1, UnsignedAssumption
  <2> QED BY <2>1, <2>2, <2>3 DEF Onward, Up
<1> HIDE DEF N, w
<1>3. 0 \in S
  BY <1>1 DEF Up
<1>4. ASSUME NEW n \in S PROVE n + 1 \in S
  <2> SUFFICES ASSUME n + 1 \in 0..N PROVE w[n + 1] = Up(n + 1)
    OBVIOUS
  <2>1. n \in 0..N /\ n + 1 \in 1..N /\ (n + 1) - 1 = n
    BY <1>1
  <2>2. w[n] = Up(n)
    BY <2>1
  <2>3. w[n + 1] = Onward(Confirmed, w[n]) /\ Onward(Confirmed, Up(n)) = Up(n + 1)
    BY <1>1, <1>2, <2>1
  <2> QED BY <2>2, <2>3
<1>5. S = Nat
  <2> HIDE DEF S
  <2>1. S \in SUBSET Nat
    BY DEF S
  <2> QED BY <1>3, <1>4, <2>1, SetInduction
<1> QED BY <1>1, <1>5 DEF N, w

LEMMA Verifies == IInv /\ Numbered => AlwaysVerifies
<1> SUFFICES ASSUME IInv, Numbered PROVE AlwaysVerifies
  OBVIOUS
<1> DEFINE N == Cardinality(Confirmed)
<1>1. N \in Nat /\ Walk(Confirmed)[N] = Up(N)
  <2>1. N \in Nat
    BY FS_CardinalityType DEF Numbered, Counted
  <2> QED BY <2>1, WalkUp
<1>2. Up(N) \in Chains
  <2>1. CASE N = 0
    BY <2>1, GenesisIsChain DEF Up
  <2>2. CASE N # 0
    BY <1>1, <2>2, PlaceFacts DEF Up
  <2> QED BY <2>1, <2>2
<1> QED BY <1>1, <1>2, UnsignedAssumption DEF AlwaysVerifies, VerifyOK, IInv, NoFork

\* The ledger of the linkage is the receipts in their places.
LEMMA OrderIsPlaces == IInv /\ Numbered => ChainOrder = [i \in 1..Cardinality(Confirmed) |-> At(i)]
<1> SUFFICES ASSUME IInv, Numbered PROVE ChainOrder = [i \in 1..Cardinality(Confirmed) |-> At(i)]
  OBVIOUS
<1>1. ASSUME NEW i \in 1..Cardinality(Confirmed)
      PROVE  /\ Linked(Confirmed, Walk(Confirmed)[i - 1]) # {}
             /\ After(Confirmed, Walk(Confirmed)[i - 1]) = At(i)
  <2>1. Cardinality(Confirmed) \in Nat
    BY FS_CardinalityType DEF Numbered, Counted
  <2>2. Walk(Confirmed)[i - 1] = Up(i - 1)
    BY <2>1, WalkUp
  <2>3. Linked(Confirmed, Up(i - 1)) = {At(i)}
    BY PlaceFacts
  <2> QED BY <2>2, <2>3 DEF After
<1> QED BY <1>1 DEF ChainOrder

-----------------------------------------------------------------------------
(* What the answer of verifyChain means, whatever the rows are.            *)

\* If the walk ends well it never stopped, and every step was a valid receipt.
LEMMA WalkNeverStopped ==
  ASSUME NEW R, Stored(R), Walk(R)[Cardinality(R)] # Unsigned
  PROVE  \A n \in 0..Cardinality(R) : Walk(R)[n] # Unsigned
<1> DEFINE N == Cardinality(R)
           w == Walk(R)
<1>1. N \in Nat /\ \A n \in 1..N : w[n] = Onward(R, w[n - 1])
  BY WalkSteps
<1>2. w[N] # Unsigned
  OBVIOUS
<1> HIDE DEF N, w
<1>3. \A n \in 1..N : w[n - 1] = Unsigned => w[n] = Unsigned
  BY <1>1 DEF Onward
<1> SUFFICES ASSUME NEW n \in 0..N, w[n] = Unsigned PROVE FALSE
  BY DEF N, w
<1> DEFINE S == {k \in Nat : n + k \in 0..N => w[n + k] = Unsigned}
<1>4. 0 \in S
  BY <1>1
<1>5. ASSUME NEW k \in S PROVE k + 1 \in S
  <2> SUFFICES ASSUME n + (k + 1) \in 0..N PROVE w[n + (k + 1)] = Unsigned
    OBVIOUS
  <2>1. n + k \in 0..N /\ n + (k + 1) \in 1..N /\ (n + (k + 1)) - 1 = n + k
    BY <1>1
  <2>2. w[n + k] = Unsigned
    BY <2>1
  <2> QED BY <1>3, <2>1, <2>2
<1>6. S = Nat
  <2> HIDE DEF S
  <2>1. S \in SUBSET Nat
    BY DEF S
  <2> QED BY <1>4, <1>5, <2>1, SetInduction
<1>7. N - n \in S /\ n + (N - n) = N
  <2> HIDE DEF S
  <2> QED BY <1>1, <1>6
<1> QED BY <1>1, <1>2, <1>7

\* The hash reached after n steps is a chain of n receipts of R.
LEMMA WalkReaches ==
  ASSUME NEW R, Stored(R), Walk(R)[Cardinality(R)] # Unsigned
  PROVE  /\ \A n \in 1..Cardinality(R) :
              LET r == After(R, Walk(R)[n - 1])
              IN  r \in R /\ prev[r] = Walk(R)[n - 1] /\ Valid(r) /\ Walk(R)[n] = hash[r]
         /\ \A n \in 0..Cardinality(R) :
              /\ Walk(R)[n] \in Chains /\ Len(Walk(R)[n]) = n
              /\ \A i \in 1..n : Walk(R)[n][i][1] \in R
<1> DEFINE N == Cardinality(R)
           w == Walk(R)
           v(n) == After(R, w[n - 1])
<1>1. N \in Nat /\ w[0] = Genesis /\ \A n \in 1..N : w[n] = Onward(R, w[n - 1])
  BY WalkSteps
<1>2. \A n \in 0..N : w[n] # Unsigned
  BY WalkNeverStopped
<1> HIDE DEF N, w
<1>3. ASSUME NEW n \in 1..N
      PROVE  v(n) \in R /\ prev[v(n)] = w[n - 1] /\ Valid(v(n)) /\ w[n] = hash[v(n)]
  <2>1. n \in 0..N /\ w[n] # Unsigned
    BY <1>1, <1>2
  <2>2. Linked(R, w[n - 1]) # {} /\ Valid(v(n)) /\ w[n] = hash[v(n)]
    BY <1>1, <2>1 DEF Onward
  <2>3. v(n) \in Linked(R, w[n - 1])
    BY <2>2 DEF After
  <2> QED BY <2>2, <2>3 DEF Linked
<1> DEFINE Good(h, n) == h \in Chains /\ Len(h) = n /\ \A i \in 1..n : h[i][1] \in R
           S == {n \in Nat : n \in 0..N => Good(w[n], n)}
<1>4. 0 \in S
  <2>1. Good(Genesis, 0)
    BY GenesisIsChain DEF Genesis
  <2> QED BY <1>1, <2>1
<1>5. ASSUME NEW n \in S PROVE n + 1 \in S
  <2> SUFFICES ASSUME n + 1 \in 0..N PROVE Good(w[n + 1], n + 1)
    OBVIOUS
  <2>1. n \in 0..N /\ n + 1 \in 1..N /\ (n + 1) - 1 = n
    BY <1>1
  <2>2. Good(w[n], n)
    BY <2>1
  <2>3. PICK r \in R : prev[r] = w[n] /\ Valid(r) /\ w[n + 1] = hash[r]
    BY <1>3, <2>1
  <2>4. PICK x \in Receipts \X Payloads : x = <<r, payload[r]>>
    BY <2>3 DEF Stored
  <2>5. w[n + 1] = Append(w[n], x)
    BY <2>3, <2>4 DEF Valid, HashOf
  <2>6. /\ Append(w[n], x) \in Chains /\ Len(Append(w[n], x)) = n + 1
        /\ \A i \in 1..n : Append(w[n], x)[i] = w[n][i]
        /\ Append(w[n], x)[n + 1] = x
    BY <2>2, ChainFacts
  <2>7. \A i \in 1..(n + 1) : Append(w[n], x)[i][1] \in R
    <3> SUFFICES ASSUME NEW i \in 1..(n + 1) PROVE Append(w[n], x)[i][1] \in R
      OBVIOUS
    <3>1. CASE i = n + 1
      BY <2>4, <2>6, <3>1
    <3>2. CASE i # n + 1
      BY <2>1, <2>2, <2>6, <3>2
    <3> QED BY <3>1, <3>2
  <2> QED BY <2>5, <2>6, <2>7
<1>6. S = Nat
  <2> HIDE DEF S
  <2>1. S \in SUBSET Nat
    BY DEF S
  <2> QED BY <1>4, <1>5, <2>1, SetInduction
<1>7. ASSUME NEW n \in 0..N PROVE Good(w[n], n)
  <2> HIDE DEF Good
  <2>1. n \in S
    BY <1>1, <1>6
  <2> QED BY <2>1
<1> QED BY <1>3, <1>7 DEF N, w

\* Rows that verify are all valid, and all their hashes are made of them: the
\* walk takes as many different receipts as there are.
LEMMA VerifiedMeans ==
  ASSUME NEW R, Stored(R), VerifyOK(R), NEW r \in R
  PROVE  Valid(r) /\ \A i \in 1..Len(hash[r]) : hash[r][i][1] \in R
<1> DEFINE N == Cardinality(R)
           w == Walk(R)
           v == [n \in 1..N |-> After(R, w[n - 1])]
<1>1. N \in Nat
  BY WalkSteps
<1>2. \A n \in 1..N : v[n] \in R /\ prev[v[n]] = w[n - 1] /\ Valid(v[n]) /\ w[n] = hash[v[n]]
  BY WalkReaches DEF VerifyOK
<1>3. \A n \in 0..N : Len(w[n]) = n /\ \A i \in 1..n : w[n][i][1] \in R
  BY WalkReaches DEF VerifyOK
<1>4. v \in [1..N -> R]
  BY <1>2
<1> HIDE DEF w, v, N
<1>5. \A i, j \in 1..N : v[i] = v[j] => i = j
  <2> SUFFICES ASSUME NEW i \in 1..N, NEW j \in 1..N, v[i] = v[j] PROVE i = j
    OBVIOUS
  <2>1. w[i - 1] = w[j - 1]
    BY <1>2
  <2>2. i - 1 \in 0..N /\ j - 1 \in 0..N
    BY <1>1
  <2>3. Len(w[i - 1]) = i - 1 /\ Len(w[j - 1]) = j - 1
    BY <1>3, <2>2
  <2> QED BY <1>1, <2>1, <2>3
<1>6. v \in Injection(1..N, R)
  BY <1>4, <1>5 DEF Injection, IsInjective
<1>7. Cardinality(1..N) = Cardinality(R)
  BY <1>1, FS_Interval DEF N
<1>8. v \in Surjection(1..N, R)
  BY <1>6, <1>7, FS_Injection DEF Stored
<1>9. PICK n \in 1..N : v[n] = r
  BY <1>8 DEF Surjection
<1>10. n \in 0..N
  BY <1>1
<1> QED BY <1>2, <1>3, <1>9, <1>10
-----------------------------------------------------------------------------
\* The rows of the chain keep their types under every interleaving of deliveries.
THEOREM TypeCorrect == Spec => []TypeOK
<1>1. IInv => TypeOK
  BY DEF IInv
<1> QED BY InitIInv, NextIInv, <1>1, PTL DEF Spec

\* "clock skew cannot fork or reorder the chain": however many workers confirm
\* at once, crash or are delivered again, no two receipts share a prev_hash.
THEOREM ChainNeverForks == Spec => []NoFork
<1>1. IInv => NoFork
  BY DEF IInv
<1> QED BY InitIInv, NextIInv, <1>1, PTL DEF Spec

\* The worker never meets the several tips it refuses to extend.
THEOREM ChainHasOneTip == Spec => []OneTip
<1>1. IInv => OneTip
  <2> SUFFICES ASSUME IInv PROVE Cardinality(Tips) <= 1
    BY DEF OneTip
  <2>1. CASE Tips = {}
    BY <2>1, FS_EmptySet
  <2>2. CASE Tips # {}
    <3>1. PICK t \in Tips : TRUE
      BY <2>2
    <3>2. Tips = {t}
      BY <3>1 DEF IInv, SingleTip
    <3>3. Cardinality({t}) = 1
      BY FS_Singleton
    <3> QED BY <3>2, <3>3
  <2> QED BY <2>1, <2>2
<1> QED BY InitIInv, NextIInv, <1>1, PTL DEF Spec

LEMMA Numbers == Spec => [](IInv /\ Numbered)
<1>1. Init => IInv /\ Numbered
  BY InitIInv, InitNumbered
<1>2. (IInv /\ Numbered) /\ [Next]_vars => (IInv /\ Numbered)'
  BY NextIInv, NextNumbered
<1> QED BY <1>1, <1>2, PTL DEF Spec

\* GET /api/receipts/verify, the sweep and the reader of a passport find the
\* committed chain valid between any two commits, however many workers confirm.
THEOREM ChainAlwaysVerifies == Spec => []AlwaysVerifies
<1> QED BY Numbers, Verifies, PTL

-----------------------------------------------------------------------------
(* The ledger: confirming appends to it, and nothing else touches it.      *)

\* Places have receipts, in each state.
Placed == ChainOrder = [i \in 1..Cardinality(Confirmed) |-> At(i)]

LEMMA OnlyConfirmCounts ==
  ASSUME IInv, UNCHANGED rows, Placed, Placed'
  PROVE  ChainOrder' = ChainOrder
<1>1. Confirmed' = Confirmed /\ hash' = hash
  BY RowsKept DEF rows
<1>2. \A i : At(i)' = At(i)
  BY <1>1 DEF At
<1> QED BY <1>1, <1>2 DEF Placed

LEMMA ConfirmAppends ==
  ASSUME IInv, Numbered, NEW r \in Receipts, Confirm(r), Placed, Placed'
  PROVE  Ledger!LedgerAppend
<1>1. PICK n : n = Cardinality(Confirmed)
  OBVIOUS
<1>0. /\ TypeOK /\ Busy /\ Counted
  BY DEF IInv, Numbered
<1>2. conf[r].pc = "linked" /\ r \notin Confirmed /\ n \in Nat
  BY <1>0, <1>1, FS_CardinalityType DEF Confirm, Busy, Confirmed, Counted
<1>3. Confirmed' = Confirmed \cup {r} /\ \A q \in Confirmed : q # r /\ hash'[q] = hash[q]
  BY <1>0, <1>2 DEF Confirm, Confirmed, TypeOK
<1>4. Cardinality(Confirmed') = n + 1
  BY <1>0, <1>1, <1>2, <1>3, FS_AddElement DEF Counted
<1>5. Len(hash'[r]) = n + 1
  <2> DEFINE tip == conf[r].tip
             x == <<r, payload[r]>>
  <2>1. tip \in Chains /\ Len(tip) = n /\ x \in Receipts \X Payloads
    BY <1>0, <1>1, <1>2, TipIsLast DEF TypeOK
  <2>2. hash'[r] = Append(tip, x)
    BY <1>0 DEF Confirm, TypeOK, HashOf
  <2> HIDE DEF tip, x
  <2>3. Len(Append(tip, x)) = Len(tip) + 1
    BY <2>1, ChainFacts
  <2> QED BY <2>1, <2>2, <2>3
<1>6. \A i \in 1..n : At(i) \in Confirmed /\ Len(hash[At(i)]) = i
  BY <1>1, PlaceFacts
<1>7. Counted'
  BY ConfirmNumbered DEF Numbered
<1>8. ASSUME NEW i, NEW q \in Confirmed', Len(hash'[q]) = i PROVE At(i)' = q
  <2>1. \A s \in Confirmed' : Len(hash'[s]) = i => s = q
    BY <1>7, <1>8 DEF Counted
  <2> QED BY <1>8, <2>1 DEF At
<1>9. At(n + 1)' = r /\ \A i \in 1..n : At(i)' = At(i)
  <2>1. At(n + 1)' = r
    BY <1>3, <1>5, <1>8
  <2>2. ASSUME NEW i \in 1..n PROVE At(i)' = At(i)
    <3>1. PICK q \in Confirmed : q = At(i) /\ Len(hash[q]) = i
      BY <1>6
    <3>2. q \in Confirmed' /\ Len(hash'[q]) = i
      BY <1>3, <3>1
    <3>3. At(i)' = q
      BY <1>8, <3>2
    <3> QED BY <3>1, <3>3
  <2> QED BY <2>1, <2>2
<1>10. ChainOrder = [i \in 1..n |-> At(i)] /\ ChainOrder' = [i \in 1..(n + 1) |-> At(i)']
  BY <1>1, <1>4 DEF Placed
<1>11. ChainOrder \in Seq(Receipts) /\ Len(ChainOrder) = n /\ DOMAIN ChainOrder = 1..n
  <2>1. \A i \in 1..n : At(i) \in Receipts
    BY <1>6 DEF Confirmed
  <2> QED BY <1>2, <1>10, <2>1
<1>12. \A i \in DOMAIN ChainOrder : ChainOrder[i] # r
  BY <1>2, <1>6, <1>10, <1>11
<1>13. ChainOrder' = Append(ChainOrder, r)
  <2>1. \A i \in 1..(n + 1) : ChainOrder'[i] = Append(ChainOrder, r)[i]
    <3> SUFFICES ASSUME NEW i \in 1..(n + 1) PROVE ChainOrder'[i] = Append(ChainOrder, r)[i]
      OBVIOUS
    <3>1. CASE i = n + 1
      BY <1>2, <1>9, <1>10, <1>11, <3>1
    <3>2. CASE i # n + 1
      <4>1. i \in 1..n
        BY <1>2, <3>2
      <4>2. ChainOrder'[i] = At(i) /\ ChainOrder[i] = At(i)
        BY <1>9, <1>10, <4>1
      <4>3. Append(ChainOrder, r)[i] = ChainOrder[i]
        BY <1>2, <1>11, <4>1
      <4> QED BY <4>2, <4>3
    <3> QED BY <3>1, <3>2
  <2>2. DOMAIN ChainOrder' = 1..(n + 1) /\ ChainOrder' = [i \in 1..(n + 1) |-> ChainOrder'[i]]
    BY <1>10
  <2>3. DOMAIN Append(ChainOrder, r) = 1..(n + 1)
        /\ Append(ChainOrder, r) = [i \in 1..(n + 1) |-> Append(ChainOrder, r)[i]]
    <3>1. ASSUME NEW s \in Seq(Receipts) PROVE DOMAIN s = 1..Len(s) /\ s = [i \in 1..Len(s) |-> s[i]]
      OBVIOUS
    <3>2. Append(ChainOrder, r) \in Seq(Receipts) /\ Len(Append(ChainOrder, r)) = n + 1
      BY <1>11
    <3> QED BY <3>1, <3>2
  <2> QED BY <2>1, <2>2, <2>3
<1> QED BY <1>12, <1>13 DEF Ledger!LedgerAppend

\* The confirmed receipts, in the order their links spell out, are a ledger to
\* which receipts are appended and in which nothing is changed or removed.
THEOREM ChainIsLedger == Spec => LedgerRefined
<1>1. Init => Ledger!LedgerInit
  <2> SUFFICES ASSUME Init PROVE ChainOrder = << >>
    BY DEF Ledger!LedgerInit
  <2>1. Cardinality(Confirmed) = 0
    <3>1. Confirmed = {}
      BY DEF Init, Confirmed
    <3> QED BY <3>1, FS_EmptySet
  <2>2. 1..Cardinality(Confirmed) = {}
    BY <2>1
  <2> QED BY <2>2 DEF ChainOrder
<1>2. IInv /\ Numbered => Placed
  BY OrderIsPlaces DEF Placed
<1>3. IInv /\ Numbered /\ Placed /\ Placed' /\ [Next]_vars => [Ledger!LedgerAppend]_ChainOrder
  <2> SUFFICES ASSUME IInv, Numbered, Placed, Placed', [Next]_vars PROVE [Ledger!LedgerAppend]_ChainOrder
    OBVIOUS
  <2>1. UNCHANGED rows \/ \E r \in Receipts : Confirm(r)
    BY DEF Next, Execute, LockChain, ReadTip, Fail, vars, rows
  <2> QED BY <2>1, OnlyConfirmCounts, ConfirmAppends
<1> QED BY <1>1, <1>2, <1>3, Numbers, PTL DEF Spec, LedgerRefined, Ledger!LedgerSpec

-----------------------------------------------------------------------------
(* An operator who rewrites and deletes rows.                              *)

\* What rewriting cannot change: the links, what the worker signed, and what an
\* export covers.  Until the first intervention the chain is the worker's own.
TInv ==
    /\ TypeOK /\ Busy /\ IsFiniteSet(Confirmed)
    /\ altered \subseteq Confirmed /\ dropped \subseteq Confirmed
    /\ \A r \in Confirmed : /\ prev[r] \in Chains /\ hash[r] \in Chains
                            /\ r \in altered <=> signature[r] # HashOf(r, prev[r])
    /\ anchor.tip # Unsigned => /\ anchor.covers \subseteq Confirmed /\ anchor.tip \in Chains
                                /\ \A q \in anchor.covers : Names(anchor.tip, q)
    /\ (altered = {} /\ dropped = {}) => (IInv /\ Numbered)

LEMMA TamperInitially == TamperInit => TInv
<1> SUFFICES ASSUME TamperInit PROVE TInv
  OBVIOUS
<1>1. IInv /\ Numbered
  BY InitIInv, InitNumbered DEF TamperInit
<1>2. Confirmed = {}
  BY DEF TamperInit, Init, Confirmed
<1>3. TypeOK /\ Busy /\ IsFiniteSet(Confirmed)
  BY <1>1 DEF IInv, Numbered, Counted
<1> QED BY <1>1, <1>2, <1>3 DEF TInv, TamperInit

\* The rows a reader verifies, in any state.
LEMMA PresentStored == TInv => Stored(Present)
<1> SUFFICES ASSUME TInv PROVE Stored(Present)
  OBVIOUS
<1>1. IsFiniteSet(Present)
  BY FS_Subset DEF TInv, Present
<1> QED BY <1>1 DEF TInv, Stored, Present, Confirmed, TypeOK

\* An untouched table is the worker's, and the worker goes on as on any other.
LEMMA Untouched ==
  ASSUME altered = {}, dropped = {}, WorkerStep
  PROVE  Next
<1>1. Present = Confirmed
  BY DEF Present
<1>2. TamperTips = Tips
  BY <1>1 DEF TamperTips, Tips
<1>3. \A r \in Receipts : ReadTipOfRest(r) => ReadTip(r)
  BY <1>2 DEF ReadTipOfRest, ReadTip, TipHash
<1> QED BY <1>3 DEF WorkerStep, Next

\* The tip of the whole chain names every receipt of it.
LEMMA TipNames ==
  ASSUME IInv, Numbered, Confirmed # {}
  PROVE  TipHash \in Chains /\ \A q \in Confirmed : Names(TipHash, q)
<1> DEFINE N == Cardinality(Confirmed)
<1>0. /\ TypeOK /\ HashesCommit /\ SingleTip /\ NoCycle /\ Counted /\ Telling
  BY DEF IInv, Numbered
<1>1. N \in Nat /\ N # 0
  BY <1>0, FS_CardinalityType, FS_EmptySet DEF Counted
<1>2. PICK s \in Confirmed : Len(hash[s]) = N
  BY <1>0, <1>1 DEF Counted
<1>3. \A x \in Confirmed : prev[x] # hash[s]
  <2> SUFFICES ASSUME NEW x \in Confirmed, prev[x] = hash[s] PROVE FALSE
    OBVIOUS
  <2>1. PICK p \in Chains, y \in Receipts \X Payloads : p = prev[x] /\ y = <<x, payload[x]>>
    BY <1>0 DEF HashesCommit, Confirmed, TypeOK
  <2>2. hash[x] = Append(p, y) /\ Len(p) = N
    BY <1>0, <1>2, <2>1 DEF HashesCommit
  <2>3. Len(hash[x]) = N + 1
    BY <2>2, ChainFacts
  <2> QED BY <1>0, <1>1, <2>3 DEF Counted
<1>4. s \in Tips
  BY <1>2, <1>3 DEF Tips
<1>5. TipHash = hash[s]
  BY <1>0, <1>4 DEF TipHash, SingleTip
<1>6. hash[s] \in Chains
  <2>1. hash[s] \in Chains \cup {Unsigned} /\ hash[s] = HashOf(s, prev[s]) /\ prev[s] \in Chains /\ s \in Receipts
    BY <1>0, <1>2 DEF HashesCommit, HashOf, TypeOK, Confirmed
  <2> QED BY <1>0, <2>1, HashOfType DEF TypeOK
<1> QED BY <1>0, <1>2, <1>5, <1>6 DEF Telling

LEMMA WorkerKeeps ==
  ASSUME TInv, WorkerStep, UNCHANGED tvars
  PROVE  TInv'
<1>0. TypeOK /\ Busy /\ IsFiniteSet(Confirmed) /\ altered \subseteq Confirmed /\ dropped \subseteq Confirmed
  BY DEF TInv
<1>1. UNCHANGED <<tampers, altered, dropped, anchor>>
  BY DEF tvars
<1>2. (altered' = {} /\ dropped' = {}) => (IInv' /\ Numbered')
  BY <1>1, Untouched, NextIInv, NextNumbered DEF TInv
<1>3. ASSUME UNCHANGED rows, TypeOK', Busy' PROVE TInv'
  <2>1. Confirmed' = Confirmed
    BY <1>3 DEF rows, Confirmed
  <2> QED BY <1>1, <1>2, <1>3, <2>1 DEF TInv, rows, HashOf, Names
<1>4. ASSUME NEW r \in Receipts, Execute(r) \/ LockChain(r) PROVE TInv'
  BY <1>0, <1>3, <1>4 DEF Execute, LockChain, rows, TypeOK, Busy
<1>5. ASSUME NEW r \in Receipts, ReadTipOfRest(r) PROVE TInv'
  <2>1. \A q \in TamperTips : hash[q] \in Chains
    BY DEF TInv, TamperTips, Present
  <2>2. TypeOK' /\ Busy'
    BY <1>0, <1>5, <2>1, GenesisIsChain DEF ReadTipOfRest, rows, TypeOK, Busy
  <2> QED BY <1>3, <1>5, <2>2 DEF ReadTipOfRest
<1>6. ASSUME NEW r \in Receipts, Confirm(r) PROVE TInv'
  <2> DEFINE tip == conf[r].tip
             new == HashOf(r, tip)
  <2>1. conf[r].pc = "linked" /\ r \notin Confirmed /\ tip \in Chains
    BY <1>0, <1>6 DEF Confirm, Busy, Confirmed, TypeOK
  <2>2. new \in Chains
    BY <1>0, <2>1, HashOfType DEF TypeOK
  <2>3. /\ Confirmed' = Confirmed \cup {r} /\ payload' = payload
        /\ prev'[r] = tip /\ hash'[r] = new /\ signature'[r] = new
        /\ \A q \in Confirmed : prev'[q] = prev[q] /\ hash'[q] = hash[q] /\ signature'[q] = signature[q]
    BY <1>0, <1>6, <2>1 DEF Confirm, Confirmed, TypeOK
  <2>4. TypeOK' /\ Busy'
    BY <1>0, <1>6, <2>1, <2>2, GenesisIsChain DEF Confirm, TypeOK, Busy, NoConf
  <2>5. IsFiniteSet(Confirmed')
    BY <1>0, <2>3, FS_AddElement
  <2>6. \A q \in Confirmed' : /\ prev'[q] \in Chains /\ hash'[q] \in Chains
                              /\ q \in altered' <=> signature'[q] # HashOf(q, prev[q])'
    <3>0. HashOf(r, prev[r])' = new
      BY <2>3 DEF HashOf
    <3> HIDE DEF tip, new
    <3> SUFFICES ASSUME NEW q \in Confirmed'
                 PROVE  /\ prev'[q] \in Chains /\ hash'[q] \in Chains
                        /\ q \in altered' <=> signature'[q] # HashOf(q, prev[q])'
      OBVIOUS
    <3>1. CASE q = r
      BY <1>0, <1>1, <2>1, <2>2, <2>3, <3>0, <3>1
    <3>2. CASE q \in Confirmed
      BY <1>1, <2>3, <3>2 DEF TInv, HashOf
    <3> QED BY <2>3, <3>1, <3>2
  <2>7. anchor'.tip # Unsigned => /\ anchor'.covers \subseteq Confirmed' /\ anchor'.tip \in Chains
                                  /\ \A q \in anchor'.covers : Names(anchor'.tip, q)
    BY <1>1, <2>3 DEF TInv
  <2> QED BY <1>0, <1>1, <1>2, <2>3, <2>4, <2>5, <2>6, <2>7 DEF TInv, Names
<1> QED BY <1>4, <1>5, <1>6 DEF WorkerStep

LEMMA OperatorKeeps ==
  ASSUME TInv, Export \/ \E r \in Receipts : Rewrite(r) \/ Drop(r)
  PROVE  TInv'
<1>1. CASE Export
  <2>1. UNCHANGED <<status, payload, prev, hash, signature, conf, altered, dropped>>
    BY <1>1 DEF Export, vars
  <2>2. Confirmed' = Confirmed
    BY <2>1 DEF Confirmed
  <2>3. TypeOK' /\ Busy' /\ (\A r \in Receipts : \A p : HashOf(r, p)' = HashOf(r, p))
    BY <2>1 DEF TInv, TypeOK, Busy, HashOf
  <2>4. IInv /\ Numbered /\ [Next]_vars
    BY <1>1 DEF Export, TInv, vars
  <2>5. IInv' /\ Numbered'
    BY <2>4, NextIInv, NextNumbered
  <2>6. anchor'.covers = Confirmed /\ anchor'.tip = TipHash /\ Confirmed # {}
    BY <1>1 DEF Export
  <2>7. anchor'.tip \in Chains /\ \A q \in anchor'.covers : Names(anchor'.tip, q)
    BY <2>4, <2>6, TipNames
  <2> QED BY <2>1, <2>2, <2>3, <2>5, <2>6, <2>7 DEF TInv, HashOf, Names
<1>2. ASSUME NEW r \in Receipts, Rewrite(r) PROVE TInv'
  <2>0. r \in Confirmed /\ r \in Receipts /\ r \notin altered
    BY <1>2 DEF Rewrite, Present, Confirmed
  <2>1. PICK p \in Payloads : /\ p # payload[r] /\ payload' = [payload EXCEPT ![r] = p]
                              /\ hash' \in {hash, [hash EXCEPT ![r] = Append(prev[r], <<r, p>>)]}
    BY <1>2 DEF Rewrite
  <2>2. UNCHANGED <<status, prev, signature, conf, dropped, anchor>> /\ altered' = altered \cup {r}
    BY <1>2 DEF Rewrite
  <2>3. Confirmed' = Confirmed
    BY <2>2 DEF Confirmed
  <2>4. \A q \in Receipts : payload'[q] = IF q = r THEN p ELSE payload[q]
    BY <2>1 DEF TInv, TypeOK
  <2>5. /\ prev[r] \in Chains /\ signature[r] = Append(prev[r], <<r, payload[r]>>)
        /\ <<r, payload[r]>> \in Receipts \X Payloads /\ <<r, p>> \in Receipts \X Payloads
    BY <2>0 DEF TInv, TypeOK, HashOf
  <2>6. Append(prev[r], <<r, p>>) \in Chains
    BY <2>5, ChainFacts
  <2>7. signature[r] # Append(prev[r], <<r, p>>)
    BY <2>1, <2>5, AppendInjective
  <2>8. \A q \in Confirmed : hash'[q] \in Chains
    BY <2>1, <2>6 DEF TInv, TypeOK, Confirmed
  <2>9. hash' \in [Receipts -> Chains \cup {Unsigned}] /\ payload' \in [Receipts -> Payloads]
    BY <2>1, <2>6 DEF TInv, TypeOK
  <2>10. TypeOK' /\ Busy'
    BY <2>2, <2>9 DEF TInv, TypeOK, Busy
  <2>11. ASSUME NEW q \in Confirmed
         PROVE  q \in altered' <=> signature'[q] # HashOf(q, prev[q])'
    <3>1. CASE q = r
      BY <2>2, <2>4, <2>7, <3>1 DEF HashOf, Confirmed
    <3>2. CASE q # r
      <4>1. payload'[q] = payload[q]
        BY <2>4, <3>2 DEF Confirmed
      <4> QED BY <2>2, <3>2, <4>1 DEF TInv, HashOf
    <3> QED BY <3>1, <3>2
  <2>12. altered' # {} /\ altered' \subseteq Confirmed' /\ dropped' \subseteq Confirmed'
    BY <2>0, <2>2, <2>3 DEF TInv
  <2>13. \A q \in Confirmed' : /\ prev'[q] \in Chains /\ hash'[q] \in Chains
                               /\ q \in altered' <=> signature'[q] # HashOf(q, prev[q])'
    BY <2>2, <2>3, <2>8, <2>11 DEF TInv
  <2>14. IsFiniteSet(Confirmed') /\ (anchor'.tip # Unsigned =>
            /\ anchor'.covers \subseteq Confirmed' /\ anchor'.tip \in Chains
            /\ \A q \in anchor'.covers : Names(anchor'.tip, q))
    BY <2>2, <2>3 DEF TInv
  <2> QED BY <2>10, <2>12, <2>13, <2>14 DEF TInv, Names
<1>3. ASSUME NEW r \in Receipts, Drop(r) PROVE TInv'
  <2>1. UNCHANGED <<status, payload, prev, hash, signature, conf, altered, anchor>>
        /\ dropped' = dropped \cup {r} /\ r \in Confirmed
    BY <1>3 DEF Drop, vars, Present
  <2>2. Confirmed' = Confirmed
    BY <2>1 DEF Confirmed
  <2>3. TypeOK' /\ Busy' /\ dropped' # {}
    BY <2>1 DEF TInv, TypeOK, Busy
  <2> QED BY <2>1, <2>2, <2>3 DEF TInv, HashOf, Names
<1> QED BY <1>1, <1>2, <1>3

LEMMA TamperInductive == TInv /\ [TamperNext]_<<vars, tvars>> => TInv'
<1> SUFFICES ASSUME TInv, [TamperNext]_<<vars, tvars>> PROVE TInv'
  OBVIOUS
<1>1. CASE UNCHANGED <<vars, tvars>>
  <2>1. UNCHANGED <<status, payload, prev, hash, signature, conf, altered, dropped, anchor>> /\ UNCHANGED vars
    BY <1>1 DEF vars, tvars
  <2>2. Confirmed' = Confirmed
    BY <2>1 DEF Confirmed
  <2>3. TypeOK' /\ Busy'
    BY <2>1 DEF TInv, TypeOK, Busy
  <2>4. (altered' = {} /\ dropped' = {}) => (IInv' /\ Numbered')
    BY <2>1, NextIInv, NextNumbered DEF TInv
  <2> QED BY <2>1, <2>2, <2>3, <2>4 DEF TInv, HashOf, Names
<1> QED BY <1>1, WorkerKeeps, OperatorKeeps DEF TamperNext

LEMMA Tampering == TamperSpec => []TInv
<1> QED BY TamperInitially, TamperInductive, PTL DEF TamperSpec

\* "Any tampering with a stored payload, hash, or signature breaks it": however
\* often rows are rewritten, also with hashes recomputed, and deleted, a chain
\* that verifies holds no rewritten receipt.
THEOREM RewritesShow == TamperSpec => []RewriteDetected
<1>1. TInv => RewriteDetected
  <2> SUFFICES ASSUME TInv, VerifyOK(Present), NEW r \in altered \cap Present PROVE FALSE
    BY DEF RewriteDetected
  <2>1. Valid(r)
    BY PresentStored, VerifiedMeans
  <2>2. signature[r] # HashOf(r, prev[r])
    BY DEF TInv
  <2> QED BY <2>1, <2>2 DEF Valid
<1> QED BY <1>1, Tampering, PTL

\* "If the tip you recorded no longer appears, or the confirmed count has gone
\* down, a receipt was removed": when the check of an export passes, every
\* receipt confirmed before it is still there.
THEOREM RemovalsShow == TamperSpec => []RemovalDetected
<1>1. TInv => RemovalDetected
  <2> SUFFICES ASSUME TInv, anchor.tip # Unsigned, AnchorHolds, NEW q \in anchor.covers PROVE q \in Present
    BY DEF RemovalDetected
  <2>1. PICK r \in Present : anchor.tip = hash[r]
    BY DEF AnchorHolds
  <2>2. \A i \in 1..Len(hash[r]) : hash[r][i][1] \in Present
    BY PresentStored, VerifiedMeans DEF AnchorHolds
  <2>3. Names(hash[r], q)
    BY <2>1 DEF TInv
  <2> QED BY <2>2, <2>3 DEF Names
<1> QED BY <1>1, Tampering, PTL
=============================================================================
