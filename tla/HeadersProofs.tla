---------------------------- MODULE HeadersProofs ----------------------------
(***************************************************************************)
(* What follows from the parent hashes: the ancestors of a block are a     *)
(* linear order, and the schedule only names members of its list.          *)
(*                                                                         *)
(* The proofs by induction along a chain take a smallest counterexample:   *)
(* AncestryAssumption gives, of the blocks for which a claim fails, one    *)
(* whose parent is not among them.                                         *)
(***************************************************************************)
EXTENDS Headers, TLAPS

\* Time for the provers on a slow machine.
USE ZenonT(40), SMTT(40)

\* A block is one of the blocks its hash chain commits to, and has no others but
\* its parent's.
LEMMA AncUnfold ==
    ASSUME NEW b \in Block
    PROVE  /\ Anc[b] \subseteq Block
           /\ b \in Anc[b]
           /\ Parent[b] \in Block =>
                 /\ Anc[b] = Anc[Parent[b]] \cup {b}
                 /\ Parent[b] \in Anc[b]
           /\ \A a \in Anc[b] \ {b} : Parent[b] \in Block /\ a \in Anc[Parent[b]]
<1>1. Parent[b] \in Block \/ Parent[b] = NoBlock
  BY HeaderAssumption
<1>2. \A c \in Block : c \in Anc[c]
  <2> TAKE c \in Block
  <2>1. Parent[c] \in Block \/ Parent[c] = NoBlock
    BY HeaderAssumption
  <2> QED
    BY SMTT(40), <2>1, AncestryAssumption
<1> QED
  BY SMTT(40), <1>1, <1>2, AncestryAssumption

\* An ancestor's ancestors are ancestors.
LEMMA AncTransitive ==
    ASSUME NEW n \in Block, NEW a \in Anc[n]
    PROVE  Anc[a] \subseteq Anc[n]
<1> DEFINE S == {c \in Block : \E d \in Anc[c] : ~(Anc[d] \subseteq Anc[c])}
<1>1. SUFFICES ASSUME S # {} PROVE FALSE
  OBVIOUS
<1>2. PICK b \in S : Parent[b] \notin S
  BY <1>1, AncestryAssumption
<1>3. PICK d \in Anc[b] : ~(Anc[d] \subseteq Anc[b])
  BY <1>2
<1>4. Parent[b] \in Block /\ d \in Anc[Parent[b]]
  BY <1>2, <1>3, AncUnfold
<1>5. Anc[d] \subseteq Anc[Parent[b]]
  BY <1>2, <1>4
<1> QED
  BY SMTT(40), <1>2, <1>3, <1>4, <1>5, AncUnfold

\* No two blocks are each other's ancestors.
LEMMA AncAntisymmetric ==
    ASSUME NEW a \in Block, NEW c \in Anc[a], a \in Anc[c]
    PROVE  a = c
<1> DEFINE S == {x \in Anc[a] : a \in Anc[x]}
<1>1. S \subseteq Block /\ a \in S /\ c \in S
  BY AncUnfold
<1>2. PICK b \in S : Parent[b] \notin S
  BY <1>1, AncestryAssumption
<1>3. SUFFICES ASSUME a # c PROVE FALSE
  OBVIOUS
<1>4. b \in Block /\ Anc[b] \subseteq Anc[a]
  BY <1>1, AncTransitive
<1>5. CASE b = a
  <2>1. Parent[a] \in Block /\ c \in Anc[Parent[a]] /\ Parent[a] \in Anc[a]
    BY <1>3, AncUnfold
  <2>2. a \in Anc[Parent[a]]
    BY <2>1, AncTransitive
  <2> QED
    BY <1>2, <1>5, <2>1, <2>2
<1>6. CASE b # a
  <2>1. Parent[b] \in Block /\ a \in Anc[Parent[b]] /\ Parent[b] \in Anc[b]
    BY <1>4, <1>6, AncUnfold
  <2> QED
    BY <1>2, <1>4, <2>1
<1> QED
  BY <1>5, <1>6

\* A block is not an ancestor of its parent, nor its own parent.
LEMMA ParentBelow ==
    ASSUME NEW b \in Block, Parent[b] \in Block
    PROVE  b \notin Anc[Parent[b]] /\ Parent[b] # b
<1>1. Parent[b] # b
  BY AncestryAssumption, {b} \in SUBSET Block
<1> QED
  BY <1>1, AncUnfold, AncAntisymmetric

\* Of two ancestors of a block, one is an ancestor of the other.
LEMMA AncLinear ==
    ASSUME NEW n \in Block, NEW a \in Anc[n], NEW c \in Anc[n]
    PROVE  a \in Anc[c] \/ c \in Anc[a]
<1> DEFINE S == {m \in Block : \E d, e \in Anc[m] : d \notin Anc[e] /\ e \notin Anc[d]}
<1>1. SUFFICES ASSUME S # {} PROVE FALSE
  OBVIOUS
<1>2. PICK b \in S : Parent[b] \notin S
  BY <1>1, AncestryAssumption
<1>3. PICK d \in Anc[b], e \in Anc[b] : d \notin Anc[e] /\ e \notin Anc[d]
  BY <1>2
<1>4. Parent[b] \in Block /\ d \in Anc[Parent[b]] /\ e \in Anc[Parent[b]]
  BY <1>2, <1>3, AncUnfold
<1> QED
  BY <1>2, <1>3, <1>4

\* The chain of a block leads from each of its ancestors to the next.
LEMMA AncStep ==
    ASSUME NEW n \in Block, NEW r \in Anc[n], r # n
    PROVE  \E s \in Anc[n] : Parent[s] = r
<1> DEFINE S == {m \in Block : \E d \in Anc[m] \ {m} : \A s \in Anc[m] : Parent[s] # d}
<1>1. SUFFICES ASSUME S # {} PROVE FALSE
  OBVIOUS
<1>2. PICK b \in S : Parent[b] \notin S
  BY <1>1, AncestryAssumption
<1>3. PICK d \in Anc[b] \ {b} : \A s \in Anc[b] : Parent[s] # d
  BY <1>2
<1>4. /\ Parent[b] \in Block
      /\ d \in Anc[Parent[b]]
      /\ Anc[Parent[b]] \subseteq Anc[b]
      /\ d # Parent[b]
  BY <1>2, <1>3, AncUnfold
<1>5. \E s \in Anc[Parent[b]] : Parent[s] = d
  BY <1>2, <1>4
<1> QED
  BY <1>3, <1>4, <1>5

\* WitnessOfNanoSec names a member of the list, if there is one.
LEMMA ScheduledIsMember ==
    ASSUME NEW L \in Seq(Producer), L # <<>>, NEW t \in Nat
    PROVE  WitnessOfNanoSec(t, L) \in Members(L)
<1>1. Len(L) \in Nat \ {0}
  BY SMTT(40)
<1>2. SlotOfUnixNano(t) \in Nat
  BY SMTT(40), ScheduleAssumption DEF SlotOfUnixNano
<1>3. (SlotOfUnixNano(t) % Len(L)) + 1 \in 1..Len(L)
  BY SMTT(40), <1>1, <1>2
<1> QED
  BY SMTT(40), <1>3 DEF WitnessOfNanoSec, Members, Range
=============================================================================
