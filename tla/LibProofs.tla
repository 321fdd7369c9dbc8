----------------------------- MODULE LibProofs ------------------------------
(***************************************************************************)
(* The last irreversible block.  What is counted: the root moves only      *)
(* under enough confirmations, and as far as they allow.  What stops do to *)
(* it: the cache stays in order, the stores hold a chain that only grows,  *)
(* and a block that is stored is never replaced.                           *)
(***************************************************************************)
EXTENDS RecoveryProofs, FiniteSetTheorems

\* Time for the provers on a slow machine.
USE ZenonT(40), SMTT(40)

\* confirmLimit, a quotient plus one, is what more than two thirds of the witnesses are.
LEMMA TwoThirds ==
    ASSUME NEW c \in Nat
    PROVE  /\ ConfirmLimit \in Int /\ WitnessNum \in Nat
           /\ c >= ConfirmLimit <=> 3 * c > 2 * WitnessNum
<1>1. WitnessNum \in Nat
  BY SMTT(40), HeaderAssumption DEF WitnessNum
<1> QED
  BY SMTT(40), <1>1 DEF ConfirmLimit

\* A step that moves the root is an iteration of updateLib's loop, whose node has
\* enough confirmations, all real.
LEMMA LibConfirmedStep ==
    ASSUME Structure, ConfirmationsReal, [Next]_vars, linkedRoot' # linkedRoot
    PROVE  \E n \in linked :
              /\ linkedRoot' \in Anc[n] \cap linked
              /\ Parent[linkedRoot'] = linkedRoot
              /\ 3 * Cardinality(Confirming(linkedRoot, n) \cap Members(pending[linkedRoot]))
                   > 2 * WitnessNum
<1>1. /\ TypeOK /\ LinkedTree /\ Apart /\ Control
      /\ linked \subseteq Block /\ linkedRoot \in linked
  BY DEF Structure, TypeOK
<1>2. AdvanceRoot
  BY TreeSteps DEF LinkBlock
<1>3. /\ linkedRoot' \in Anc[node] \cap linked
      /\ Parent[linkedRoot'] = linkedRoot
      /\ node \in linked
  BY <1>1, <1>2, AdvanceEffect DEF Control, AdvanceRoot
<1>4. /\ Cardinality(validWitness[node]) >= ConfirmLimit
      /\ active[node] = pending[linkedRoot]
  BY <1>2 DEF AdvanceRoot, CanAdvance, Reached
<1> DEFINE C == Confirming(linkedRoot, node) \cap Members(pending[linkedRoot])
<1>5. validWitness[node] \subseteq C
  BY <1>3, <1>4 DEF ConfirmationsReal
<1>6. C \subseteq Producer
  <2>1. pending[linkedRoot] \in Seq(Producer)
    BY <1>1 DEF TypeOK
  <2> QED
    BY SMTT(40), <2>1 DEF Members, Range
<1> HIDE DEF C
<1>7. IsFiniteSet(C)
  BY <1>6, FiniteAssumption, FS_Subset
<1>8. Cardinality(validWitness[node]) <= Cardinality(C)
  BY <1>5, <1>7, FS_Subset
<1>9. /\ Cardinality(C) \in Nat /\ Cardinality(validWitness[node]) \in Nat
  <2>1. IsFiniteSet(validWitness[node])
    BY <1>5, <1>7, FS_Subset
  <2> QED
    BY <1>7, <2>1, FS_CardinalityType
<1>10. 3 * Cardinality(C) > 2 * WitnessNum
  <2>1. ConfirmLimit \in Int
    BY <1>9, TwoThirds
  <2>2. Cardinality(C) >= ConfirmLimit
    BY SMTT(40), <1>4, <1>8, <1>9, <2>1
  <2> QED
    BY <1>9, <2>2, TwoThirds
<1> QED
  BY <1>3, <1>10 DEF C

\* The root moves only under the confirmation of more than two thirds.
THEOREM LibConfirmedTheorem == Spec => LibConfirmed
<1>1. Structure /\ ConfirmationsReal /\ [Next]_vars =>
        [linkedRoot' # linkedRoot =>
         \E n \in linked :
            /\ linkedRoot' \in Anc[n] \cap linked
            /\ Parent[linkedRoot'] = linkedRoot
            /\ 3 * Cardinality(Confirming(linkedRoot, n) \cap Members(pending[linkedRoot]))
                 > 2 * WitnessNum]_vars
  BY LibConfirmedStep
<1> QED
  BY <1>1, StructureInvariant, ConfirmationsRealTheorem, PTL DEF Spec, LibConfirmed

\* The node that UpdateLib is working on.
Updating(n) == pc \in {"lib", "loop", "flush"} /\ n = node

\* No node has enough confirmations to move the root, but the one in work.
NoneReached == \A n \in linked \ {linkedRoot} : Updating(n) \/ ~Reached(n)

\* Cardinalities of sets of producers.
LEMMA ProducerCount ==
    ASSUME NEW S \in SUBSET Producer, NEW T \in SUBSET S
    PROVE  /\ Cardinality(S) \in Nat /\ Cardinality(T) \in Nat
           /\ Cardinality(T) <= Cardinality(S)
<1>1. IsFiniteSet(S) /\ IsFiniteSet(T)
  BY FiniteAssumption, FS_Subset
<1> QED
  BY <1>1, FS_Subset, FS_CardinalityType

\* updateLib moves the root until its node has too few confirmations left, and takes
\* confirmations away from all others.
LEMMA NoneReachedStep ==
    ASSUME Structure, OneList, ConfirmationsReal, NoneReached, [Next]_vars
    PROVE  NoneReached'
<1>1. /\ TypeOK /\ LinkedTree /\ Apart /\ Control
      /\ linked \subseteq hash2node /\ hash2node \subseteq Block
      /\ linkedRoot \in linked /\ linkedRoot \in Block
  BY DEF Structure, TypeOK
<1>2. CASE LinkBlock
  <2>1. node \in Block /\ node \notin linked
    BY <1>2, LinkChecks
  <2>2. /\ linked' = linked \cup {node}
        /\ linkedRoot' = linkedRoot
        /\ \A n \in linked : validWitness'[n] = validWitness[n]
    BY <1>1, <1>2, <2>1 DEF LinkBlock, Link, TypeOK
  <2>3. pc = "exist" /\ pc' = "lib" /\ node' = node
    BY <1>2 DEF LinkBlock
  <2> QED
    BY <2>2, <2>3 DEF NoneReached, Updating, Reached
<1>3. CASE AdvanceRoot
  <2>1. /\ linkedRoot' \in linked \ {linkedRoot}
        /\ linked' \subseteq linked \ {linkedRoot}
        /\ \A n \in linked' : validWitness'[n] = RemoveValidWitness(linkedRoot')[n]
    BY <1>1, <1>3, AdvanceEffect
  <2>2. pc = "loop" /\ pc' = "flush" /\ node' = node
    BY <1>3 DEF AdvanceRoot
  <2>3. ConfirmLimit \in Int
    <3>1. Len(PendingOf[Genesis]) \in Nat
      BY SMTT(40), HeaderAssumption
    <3> QED
      BY SMTT(40), <3>1 DEF ConfirmLimit, WitnessNum
  <2>4. ASSUME NEW n \in linked', ~Reached(n) PROVE ~Reached(n)'
    <3>1. n \in Block /\ validWitness[n] \in SUBSET Producer
      BY <1>1, <2>1 DEF TypeOK
    <3>2. validWitness'[n] \in SUBSET validWitness[n]
      BY <2>1, <3>1 DEF RemoveValidWitness
    <3>3. /\ Cardinality(validWitness[n]) \in Nat /\ Cardinality(validWitness'[n]) \in Nat
          /\ Cardinality(validWitness'[n]) <= Cardinality(validWitness[n])
      BY <3>1, <3>2, ProducerCount
    <3>4. ~(Cardinality(validWitness'[n]) >= ConfirmLimit)
      BY SMTT(40), <2>3, <2>4, <3>3 DEF Reached
    <3> QED
      BY <3>4 DEF Reached, ConfirmLimit, WitnessNum
  <2> QED
    BY <2>1, <2>2, <2>4 DEF NoneReached, Updating
<1>4. CASE ~LinkBlock /\ ~AdvanceRoot
  <2>1. linked' = linked /\ linkedRoot' = linkedRoot
    BY <1>4, TreeSteps
  <2>2. \A n \in linked : Reached(n)' <=> Reached(n)
    BY <1>4, ConfirmationsLeft DEF Reached, ConfirmLimit, WitnessNum
  <2>3. CASE UpdateLibShort \/ UpdateLibExit
    <3>1. pc \in {"lib", "loop"} /\ node \in linked
      BY <1>1, <2>3 DEF Control, UpdateLibShort, UpdateLibExit
    <3>2. ~Reached(node) \/ node = linkedRoot
      BY <1>1, <2>3, <3>1 DEF UpdateLibShort, UpdateLibExit, CanAdvance, OneList
    <3> QED
      BY <2>1, <2>2, <3>1, <3>2 DEF NoneReached, Updating
  <2>4. CASE ~UpdateLibShort /\ ~UpdateLibExit
    <3>1. \A n : Updating(n) => Updating(n)'
      <4>1. ASSUME NEW b \in Block, AddBlock(b) \/ AddDuplicate(b) \/ GenerateBlock(b)
            PROVE  pc = "idle"
        BY <4>1 DEF AddBlock, AddDuplicate, GenerateBlock
      <4>2. CASE \/ RejectOutOfLimit \/ RejectInvalid \/ EndChildren
                 \/ \E c \in Block : NextChild(c)
        BY <4>2 DEF RejectOutOfLimit, RejectInvalid, EndChildren, NextChild, Updating
      <4>3. CASE UNCHANGED vars \/ UpdateLibEnter \/ Flush
        BY <4>3 DEF UpdateLibEnter, Flush, Updating, vars, ctlVars
      <4> QED
        BY <1>4, <2>4, <4>1, <4>2, <4>3 DEF Next, Step, Updating
    <3> QED
      BY <2>1, <2>2, <3>1 DEF NoneReached
  <2> QED
    BY <2>3, <2>4
<1> QED
  BY <1>2, <1>3, <1>4

\* While the producers stay the same, the root is as far as the confirmations allow
\* whenever no Add is running: updateLib never stops early, and no later block makes
\* up for one that it has missed.
THEOREM LibMaximalTheorem == ASSUME FixedLists PROVE Spec => []LibMaximal
<1>1. Init => NoneReached
  BY DEF Init, NoneReached
<1>2. Structure /\ OneList /\ ConfirmationsReal /\ NoneReached /\ [Next]_vars => NoneReached'
  BY NoneReachedStep
<1>3. Structure /\ NoneReached => LibMaximal
  <2> SUFFICES ASSUME Structure, NoneReached, pc = "idle", NEW n \in linked \ {linkedRoot}
               PROVE  3 * Cardinality(validWitness[n]) <= 2 * WitnessNum
    BY DEF LibMaximal
  <2>1. ~(Cardinality(validWitness[n]) >= ConfirmLimit)
    BY DEF NoneReached, Updating, Reached
  <2>2. validWitness[n] \in SUBSET Producer
    BY DEF Structure, TypeOK
  <2>3. Cardinality(validWitness[n]) \in Nat
    BY <2>2, ProducerCount
  <2>4. ~(3 * Cardinality(validWitness[n]) > 2 * WitnessNum) /\ WitnessNum \in Nat
    BY <2>1, <2>3, TwoThirds
  <2> QED
    BY SMTT(40), <2>3, <2>4
<1> QED
  BY <1>1, <1>2, <1>3, StructureInvariant, OneListInvariant, ConfirmationsRealTheorem, PTL
     DEF Spec

-----------------------------------------------------------------------------
(* Under stops. *)

\* A step is one of the cache, or changes lists only, or is a restart.
LEMMA RecoverySteps ==
    ASSUME RInv, [RNext]_rvars
    PROVE  \/ [Next]_vars
           \/ UNCHANGED <<treeVars, linkedRoot, head, dbVars>>
           \/ Crash \/ CrashInFlush
<1>1. CASE LogStep \/ \E b \in Block : Receive(b)
  BY <1>1, StepsOfCache
<1>2. CASE ApplyLink /\ Entry.blk \notin hash2node
  BY <1>2, ReplayAdds DEF RInv
<1>3. CASE ReplayStep /\ ~(ApplyLink /\ Entry.blk \notin hash2node)
  BY <1>3 DEF ReplayStep, ApplyLink, ApplyUpdateActive, ApplyUpdateLinkedRootWitness, Recovered,
     rootVars, vars
<1>4. CASE UNCHANGED rvars
  BY <1>4 DEF rvars
<1> QED
  BY <1>1, <1>2, <1>3, <1>4 DEF RNext, ReplayStep

\* No stop and no replay costs the state of a linked block: the cache starts again
\* from the block whose state the state DB holds.
THEOREM StateAvailableAfterStops == RSpec => []StateAvailable
<1>1. RInit => CommitOrder /\ StateAvailable
  <2>1. Range(<<Genesis>>) = {Genesis} /\ DOMAIN <<Genesis>> = {1}
    BY SMTT(40) DEF Range
  <2> QED
    BY SMTT(40), <2>1 DEF RInit, Init, CommitOrder, StateAvailable
<1>2. ASSUME RInv, CommitOrder, StateAvailable, [RNext]_rvars
      PROVE  CommitOrder' /\ StateAvailable'
  <2>1. CASE [Next]_vars
    BY <2>1, <1>2, StateAvailableStep DEF RInv
  <2>2. CASE UNCHANGED <<treeVars, linkedRoot, head, dbVars>>
    BY <2>2, <1>2 DEF treeVars, dbVars, CommitOrder, StateAvailable
  <2>3. CASE Crash \/ CrashInFlush
    <3>1. linked' = {tag} /\ commits' = <<tag>>
      BY <2>3, <1>2, RestartTree
    <3>2. Range(commits') = {tag} /\ DOMAIN commits' = {1}
      BY SMTT(40), <3>1 DEF Range
    <3> QED
      BY SMTT(40), <3>1, <3>2 DEF CommitOrder, StateAvailable
  <2> QED
    BY <1>2, <2>1, <2>2, <2>3, RecoverySteps
<1> QED
  BY <1>1, <1>2, RecoveryInvariant, PTL DEF RSpec

\* What the cache relies on survives stops and replays: one tree of linked nodes,
\* its leaves, the virtual nodes, and a head that no linked node is longer than.
TreeInOrder == LinkedTree /\ LeafExact /\ SingleRootExact /\ HeadLongest

\* However often the process stops, the tree, its leaves, the virtual nodes and the
\* head stay in order (Link, updateLinkedRoot, Recover).
THEOREM TreeInOrderAfterStops == RSpec => []TreeInOrder
<1> DEFINE T == LeafExact /\ SingleRootExact /\ HeadLongest
<1>1. RInit => T
  BY SMTT(40), HeaderAssumption DEF RInit, Init, LeafExact, SingleRootExact, HeadLongest, Longer
<1>2. ASSUME RInv, T, [RNext]_rvars
      PROVE  T'
  <2>1. CASE [Next]_vars
    BY <2>1, <1>2, LeafExactStep, SingleRootStep, HeadLongestStep DEF RInv
  <2>2. CASE UNCHANGED <<treeVars, linkedRoot, head, dbVars>>
    BY <2>2, <1>2 DEF treeVars, LeafExact, SingleRootExact, HeadLongest
  <2>3. CASE Crash \/ CrashInFlush
    <3>1. /\ linked' = {tag} /\ hash2node' = {tag} /\ leaf' = {tag} /\ singleRoot' = {}
          /\ linkedRoot' = tag /\ head' = tag /\ tag \in Block
      BY <2>3, <1>2, RestartTree
    <3>2. ~Longer(tag, tag)
      BY SMTT(40), <3>1, HeaderAssumption DEF Longer
    <3> QED
      BY <3>1, <3>2 DEF LeafExact, SingleRootExact, HeadLongest
  <2> QED
    BY <1>2, <2>1, <2>2, <2>3, RecoverySteps
<1>3. RInv /\ T => TreeInOrder
  BY DEF RInv, Structure, TreeInOrder
<1> HIDE DEF T
<1> QED
  BY <1>1, <1>2, <1>3, RecoveryInvariant, PTL DEF RSpec

-----------------------------------------------------------------------------
(* The durable chain. *)

\* The chain up to the state DB's block.
DurableChain == SubSeq(stored, 1, Place(stored, tag))

\* Cut at the tag's block, the block chain DB is a chain of blocks up to that one.
LEMMA CutChain ==
    ASSUME NEW db \in Seq(Block), FiledByNumber(db), NEW t \in Block,
           Number[t] + 1 \in DOMAIN db, db[Number[t] + 1] = t
    PROVE  LET c == SubSeq(db, 1, Place(db, t))
           IN  /\ Number[t] \in Nat
               /\ c \in Seq(Block)
               /\ Len(c) = Number[t] + 1
               /\ \A i \in 1..(Number[t] + 1) : c[i] = db[i]
               /\ c[Len(c)] = t
<1> DEFINE c == SubSeq(db, 1, Place(db, t))
<1>1. Number[t] \in Nat
  BY HeaderAssumption
<1>2. c = SubSeq(db, 1, Number[t] + 1)
  BY PlaceOfTag
<1>3. \A i \in 1..(Number[t] + 1) : i \in DOMAIN db /\ db[i] \in Block
  BY SMTT(40), <1>1
<1> HIDE DEF c
<1>4. /\ c \in Seq(Block)
      /\ Len(c) = Number[t] + 1
      /\ \A i \in 1..(Number[t] + 1) : c[i] = db[i]
  BY SMTT(40), <1>1, <1>2, <1>3
<1> QED
  BY SMTT(40), <1>1, <1>4 DEF c

\* It has the block of each number at its place.
LEMMA DurableBlocks ==
    ASSUME RInv
    PROVE  /\ tag \in Block /\ Number[tag] \in Nat
           /\ DurableChain \in Seq(Block)
           /\ Len(DurableChain) = Number[tag] + 1
           /\ \A i \in 1..(Number[tag] + 1) : DurableChain[i] = stored[i]
           /\ DurableChain[Len(DurableChain)] = tag
<1>1. /\ stored \in Seq(Block) /\ tag \in Block /\ FiledByNumber(stored)
      /\ Number[tag] + 1 \in DOMAIN stored /\ stored[Number[tag] + 1] = tag
  BY DEF RInv, RTypeOK, DiskOK
<1> QED
  BY <1>1, CutChain DEF DurableChain

\* And after a step.
LEMMA DurableBlocksNext ==
    ASSUME RInv'
    PROVE  /\ tag' \in Block /\ Number[tag'] \in Nat
           /\ DurableChain' \in Seq(Block)
           /\ Len(DurableChain') = Number[tag'] + 1
           /\ \A i \in 1..(Number[tag'] + 1) : DurableChain'[i] = stored'[i]
           /\ DurableChain'[Len(DurableChain')] = tag'
<1>1. /\ stored' \in Seq(Block) /\ tag' \in Block /\ FiledByNumber(stored')
      /\ Number[tag'] + 1 \in DOMAIN stored' /\ stored'[Number[tag'] + 1] = tag'
  BY DEF RInv, RTypeOK, DiskOK, FiledByNumber
<1>2. DurableChain' = SubSeq(stored', 1, Place(stored', tag'))
  BY DEF DurableChain, Place
<1> QED
  BY <1>1, <1>2, CutChain

\* The state DB's block changes only when flush saves the root.
LEMMA DurableSteps ==
    ASSUME RInv, [RNext]_rvars, ~LogFlush
    PROVE  /\ tag' = tag
           /\ \A i \in 1..(Number[tag] + 1) : stored'[i] = stored[i]
<1>1. CASE CrashInFlush
  <2>1. pc = "flush" /\ stored' = Push(stored, linkedRoot) /\ tag' = tag
    BY <1>1 DEF CrashInFlush, Restart
  <2> QED
    BY <2>1, PushNext DEF RInv
<1>2. CASE ~CrashInFlush
  <2>1. stored' = stored /\ tag' = tag
    BY <1>2 DEF RNext, LogStep, Receive, LogLinkBlock, LogUpdateActive, PlainStep, ReplayStep,
       ApplyLink, ApplyUpdateActive, ApplyUpdateLinkedRootWitness, Recovered, Crash, Restart,
       rvars, walVars
  <2> QED
    BY <2>1
<1> QED
  BY <1>1, <1>2

\* The stores implement an irreversible chain: whatever a stop leaves half done, the
\* chain up to the state DB's block only ever grows, by one child of its last block
\* (flush, recoverDB).
THEOREM DurableTheorem == RSpec => DurableIrreversible
<1>1. RInit => Durable!Init
  <2> SUFFICES ASSUME RInit PROVE DurableChain = <<Genesis>>
    BY DEF Durable!Init, DurableChain
  <2>1. tag = Genesis /\ stored = <<Genesis>> /\ Number[Genesis] = 0
    BY GenesisAssumption DEF RInit, Init
  <2>2. /\ DurableChain \in Seq(Block) /\ Len(DurableChain) = 1
        /\ DurableChain[1] = Genesis
    BY SMTT(40), <2>1, RInvInit, DurableBlocks
  <2> QED
    BY SMTT(40), <2>2
<1>2. ASSUME RInv, RInv', [RNext]_rvars
      PROVE  [Durable!Next]_DurableChain
  <2>1. /\ tag \in Block /\ Number[tag] \in Nat
        /\ DurableChain \in Seq(Block)
        /\ Len(DurableChain) = Number[tag] + 1
        /\ \A i \in 1..(Number[tag] + 1) : DurableChain[i] = stored[i]
        /\ DurableChain[Len(DurableChain)] = tag
    BY <1>2, DurableBlocks
  <2>2. /\ tag' \in Block /\ Number[tag'] \in Nat
        /\ DurableChain' \in Seq(Block)
        /\ Len(DurableChain') = Number[tag'] + 1
        /\ \A i \in 1..(Number[tag'] + 1) : DurableChain'[i] = stored'[i]
        /\ DurableChain'[Len(DurableChain')] = tag'
    BY <1>2, DurableBlocksNext
  <2>3. CASE ~LogFlush
    <3>1. tag' = tag /\ \A i \in 1..(Number[tag] + 1) : stored'[i] = stored[i]
      BY <1>2, <2>3, DurableSteps
    <3>2. Len(DurableChain') = Len(DurableChain)
          /\ \A i \in 1..Len(DurableChain') : DurableChain'[i] = DurableChain[i]
      BY <2>1, <2>2, <3>1
    <3>3. DurableChain' = DurableChain
      BY <2>1, <2>2, <3>2, SameSeq
    <3> QED
      BY <3>3
  <2>4. CASE LogFlush
    <3>1. pc = "flush" /\ tag' = linkedRoot /\ stored' = Push(stored, linkedRoot)
      BY <2>4 DEF LogFlush, Flush
    <3>2. Parent[linkedRoot] = tag /\ Number[linkedRoot] = Number[tag] + 1
      BY <1>2, <3>1 DEF RInv, DiskOK
    <3>3. linkedRoot \in Block /\ \A i \in 1..(Number[tag] + 1) : stored'[i] = stored[i]
      BY <1>2, <3>1, PushNext DEF RInv
    <3>4. PICK u \in Seq(Block) : u = Append(DurableChain, linkedRoot)
      BY <2>1, <3>3, AppendFacts
    <3>5. /\ Len(u) = Number[tag] + 2
          /\ \A i \in 1..(Number[tag] + 1) : u[i] = stored[i]
          /\ u[Number[tag] + 2] = linkedRoot
      BY SMTT(40), <2>1, <3>3, <3>4, AppendFacts
    <3>6. Len(DurableChain') = Len(u)
      BY SMTT(40), <2>1, <2>2, <3>1, <3>2, <3>5
    <3>7. \A i \in 1..(Number[tag] + 2) : i \in 1..(Number[tag] + 1) \/ i = Number[tag] + 2
      BY SMTT(40), <2>1
    <3>8. \A i \in 1..Len(DurableChain') : DurableChain'[i] = u[i]
      BY <2>1, <2>2, <3>1, <3>2, <3>3, <3>5, <3>6, <3>7
    <3>9. DurableChain' = Append(DurableChain, linkedRoot)
      BY <2>2, <3>4, <3>6, <3>8, SameSeq
    <3> QED
      BY <2>1, <3>2, <3>3, <3>9 DEF Durable!Next, Durable!Confirm, Durable!Last, DurableChain
  <2> QED
    BY <2>3, <2>4
<1> QED
  BY <1>1, <1>2, RecoveryInvariant, PTL
     DEF RSpec, DurableIrreversible, Durable!Spec, DurableChain

-----------------------------------------------------------------------------
(* Under stops: what flush has pushed is pushed again, not replaced. *)

\* The chain from r to n has the confirmations that move the root off r.
Enough(r, n) == Cardinality(Confirming(r, n)) >= ConfirmLimit

\* A logged block that can move the root off the state DB's block.
Mover(n) == HasEntry(n) /\ tag \in Anc[n] \ {n} /\ Enough(tag, n)

\* There is at most one: the process that logged it has moved the root before it has
\* linked another block.
AtMostOne == \A m, n \in Block : Mover(m) /\ Mover(n) => m = n

\* The root that flush is about to push is on the chain of such a block.
FlushEnough == pc = "flush" => node \in Block /\ Mover(node) /\ linkedRoot \in Anc[node]

\* What a stop inside flush leaves in the block chain DB beyond the state DB's block:
\* one block, on the chain of a block that will move the root to it.
Leftover ==
    /\ Len(stored) <= Number[tag] + 2
    /\ Number[tag] + 2 \in DOMAIN stored =>
         /\ mode = "replay"
         /\ Parent[stored[Number[tag] + 2]] = tag
         /\ \E n \in Block : Mover(n) /\ stored[Number[tag] + 2] \in Anc[n]

\* The confirmations, and the stores: the two parts of the invariant.
Counted == ConfirmationsReal /\ ConfirmationsExact /\ NoneReached
Pushed == AtMostOne /\ FlushEnough /\ Leftover

\* Moving up the chain, confirmations only get fewer.
LEMMA EnoughBelow ==
    ASSUME NEW n \in Block, NEW r \in Block, NEW s \in Block, r \in Anc[s], Enough(s, n)
    PROVE  Enough(r, n)
<1>1. Anc[r] \subseteq Anc[s] /\ Anc[n] \subseteq Block
  BY AncTransitive, AncUnfold
<1>2. Confirming(s, n) \in SUBSET Confirming(r, n)
  BY <1>1 DEF Confirming, PathAbove
<1>3. Confirming(r, n) \in SUBSET Producer
  BY SMTT(40), <1>1, HeaderAssumption DEF Confirming, PathAbove
<1>4. /\ Cardinality(Confirming(s, n)) \in Nat /\ Cardinality(Confirming(r, n)) \in Nat
      /\ Cardinality(Confirming(s, n)) <= Cardinality(Confirming(r, n))
  BY <1>2, <1>3, ProducerCount
<1>5. ConfirmLimit \in Int
  <2>1. Len(PendingOf[Genesis]) \in Nat
    BY SMTT(40), HeaderAssumption
  <2> QED
    BY SMTT(40), <2>1 DEF ConfirmLimit, WitnessNum
<1> QED
  BY SMTT(40), <1>4, <1>5 DEF Enough

\* One child of a block is on a chain.
LEMMA OneChild ==
    ASSUME NEW n \in Block, NEW a \in Anc[n], NEW c \in Anc[n],
           Parent[a] = Parent[c], Parent[a] \in Block
    PROVE  a = c
<1>1. a \in Block /\ c \in Block
  BY AncUnfold
<1>2. a \notin Anc[Parent[a]] /\ c \notin Anc[Parent[a]]
  BY <1>1, ParentBelow
<1>3. Anc[a] = Anc[Parent[a]] \cup {a} /\ Anc[c] = Anc[Parent[a]] \cup {c}
  BY <1>1, AncUnfold
<1> QED
  BY <1>2, <1>3, AncLinear

\* The replay does to the confirmations what the running process does.
LEMMA CountedStep ==
    ASSUME FixedLists, RInv, FInv, FInv', Counted, [RNext]_rvars
    PROVE  Counted'
<1>1. Structure /\ OneList /\ OneList' /\ ConfirmationsReal /\ ConfirmationsExact /\ NoneReached
  BY DEF RInv, FInv, Counted
<1>2. CASE [Next]_vars
  BY <1>1, <1>2, ConfirmationsRealStep, ConfirmationsExactStep, NoneReachedStep DEF Counted
<1>3. CASE Crash \/ CrashInFlush
  <2>1. linked' = {tag} /\ linkedRoot' = tag /\ tag \in Block
    BY <1>3, RestartTree
  <2>2. validWitness' = [b \in Block |-> {}]
    BY <1>3 DEF Crash, CrashInFlush, Restart
  <2>3. Confirming(tag, tag) = {}
    BY DEF Confirming, PathAbove
  <2> QED
    BY <2>1, <2>2, <2>3 DEF Counted, ConfirmationsReal, ConfirmationsExact, NoneReached
<1>4. CASE ReplayStep /\ ~(ApplyLink /\ Entry.blk \notin hash2node)
  <2>1. UNCHANGED <<linked, linkedRoot, validWitness, pc, node>>
    BY <1>4 DEF ReplayStep, ApplyLink, ApplyUpdateActive, ApplyUpdateLinkedRootWitness, ApplyRoot,
       Recovered, rootVars, vars, treeVars, nodeVars, ctlVars
  <2>2. \A n \in linked : active'[n] = active[n]
    BY <1>1, <2>1 DEF OneList
  <2> QED
    BY <1>1, <2>1, <2>2
       DEF Counted, ConfirmationsReal, ConfirmationsExact, NoneReached, Updating, Reached
<1>5. CASE LogStep \/ \E b \in Block : Receive(b)
  BY <1>2, <1>5, StepsOfCache
<1>6. CASE ApplyLink /\ Entry.blk \notin hash2node
  BY <1>2, <1>6, ReplayAdds DEF RInv
<1>7. CASE UNCHANGED rvars
  BY <1>2, <1>7 DEF rvars
<1> QED
  BY <1>2, <1>3, <1>4, <1>5, <1>6, <1>7 DEF RNext, ReplayStep

\* When every logged block above the root is linked and UpdateLib is not running, no
\* block can move the root.
LEMMA NoMover ==
    ASSUME RInv, Counted, pc \notin {"lib", "loop", "flush"},
           \A i \in DOMAIN log : LinksAbove(i, linkedRoot) => log[i].blk \in linked,
           NEW n \in Block
    PROVE  ~Mover(n)
<1> SUFFICES ASSUME Mover(n) PROVE FALSE
  OBVIOUS
<1>1. linkedRoot = tag
  BY DEF RInv, DiskOK
<1>2. n \in linked \ {linkedRoot}
  BY <1>1 DEF Mover, HasEntry, LinkedAt, LinksAbove
<1>3. validWitness[n] = Confirming(tag, n) /\ ~Reached(n)
  BY <1>1, <1>2 DEF Counted, ConfirmationsExact, NoneReached, Updating
<1> QED
  BY <1>3 DEF Mover, Enough, Reached

LEMMA MoverSame ==
    ASSUME UNCHANGED <<log, tag>>
    PROVE  \A n : Mover(n)' <=> Mover(n)
BY DEF Mover, HasEntry, LinkedAt, Enough, Confirming, PathAbove, ConfirmLimit, WitnessNum

\* A step that neither writes nor moves the root.
LEMMA PushedQuiet ==
    ASSUME Pushed, UNCHANGED <<log, tag, stored>>, mode' \in {mode, "replay"},
           pc' # "flush" \/ UNCHANGED <<pc, node, linkedRoot>>
    PROVE  Pushed'
<1>1. \A n : Mover(n)' <=> Mover(n)
  BY MoverSame
<1>2. AtMostOne' /\ FlushEnough'
  BY <1>1 DEF Pushed, AtMostOne, FlushEnough
<1>3. Leftover'
  BY <1>1 DEF Pushed, Leftover
<1> QED
  BY <1>2, <1>3 DEF Pushed

\* Link: the new block may be one, since the others are none.
LEMMA PushedLink ==
    ASSUME RInv, FInv, Counted, Pushed, LogLinkBlock, mode = "run"
    PROVE  Pushed'
<1>1. pc = "exist" /\ pc' = "lib" /\ UNCHANGED <<stored, tag, mode>>
  BY DEF LogLinkBlock, LinkBlock, recVars
<1>2. \A n \in Block : ~Mover(n)
  BY <1>1, NoMover DEF FInv, RunComplete
<1>3. \A n : HasEntry(n)' => HasEntry(n) \/ n = node
  <2>1. PICK e : log' = Append(log, e) /\ e.blk = node
    BY SMTT(40) DEF LogLinkBlock, AddNodeToWAL, LinkEntry
  <2>2. \A i \in DOMAIN log' : (i \in DOMAIN log /\ log'[i] = log[i]) \/ log'[i] = e
    BY SMTT(40), <2>1 DEF RInv, RTypeOK
  <2> QED
    BY <2>1, <2>2 DEF HasEntry, LinkedAt
<1>4. \A n \in Block : Mover(n)' => n = node
  BY <1>1, <1>2, <1>3 DEF Mover, Enough, Confirming, PathAbove, ConfirmLimit, WitnessNum
<1>5. AtMostOne' /\ FlushEnough'
  BY <1>1, <1>4 DEF AtMostOne, FlushEnough
<1>6. Leftover'
  BY <1>1 DEF Pushed, Leftover
<1> QED
  BY <1>5, <1>6 DEF Pushed

\* updateLinkedRoot: the node has the confirmations.
LEMMA PushedMove ==
    ASSUME RInv, Counted, Pushed, AdvanceRoot, UNCHANGED <<walVars, recVars>>
    PROVE  Pushed'
<1>1. /\ pc = "loop" /\ node' = node /\ UNCHANGED <<log, tag, stored, mode>>
      /\ Reached(node) /\ linkedRoot # node
  BY DEF AdvanceRoot, CanAdvance, walVars, recVars
<1>2. /\ linkedRoot = tag /\ node \in linked /\ node \in Block /\ linkedRoot \in Anc[node]
  BY <1>1 DEF RInv, DiskOK, Structure, TypeOK, Control, LinkedTree
<1>3. Mover(node)
  <2>1. HasEntry(node)
    BY <1>1, <1>2 DEF RInv, LogOK
  <2>2. Enough(tag, node)
    BY <1>1, <1>2 DEF Counted, ConfirmationsExact, Reached, Enough
  <2> QED
    BY <1>1, <1>2, <2>1, <2>2 DEF Mover
<1>4. linkedRoot' \in Anc[node]
  BY AdvanceEffect DEF RInv, Structure
<1>5. \A n : Mover(n)' <=> Mover(n)
  BY <1>1, MoverSame
<1>6. AtMostOne' /\ FlushEnough'
  BY <1>1, <1>2, <1>3, <1>4, <1>5 DEF Pushed, AtMostOne, FlushEnough
<1>7. Leftover'
  BY <1>1, <1>5 DEF Pushed, Leftover
<1> QED
  BY <1>6, <1>7 DEF Pushed

\* Push extends the block chain DB by the root, which it may already hold.
LEMMA PushIsNext ==
    ASSUME RInv, Pushed, pc = "flush"
    PROVE  /\ Len(Push(stored, linkedRoot)) = Number[tag] + 2
           /\ Push(stored, linkedRoot)[Number[tag] + 2] = linkedRoot
           /\ \A i \in DOMAIN stored : /\ i \in DOMAIN Push(stored, linkedRoot)
                                       /\ Push(stored, linkedRoot)[i] = stored[i]
<1>1. /\ stored \in Seq(Block) /\ FiledByNumber(stored) /\ Number[tag] + 1 \in DOMAIN stored
      /\ Parent[linkedRoot] = tag /\ Number[linkedRoot] = Number[tag] + 1
      /\ linkedRoot \in Block /\ tag \in Block
  BY DEF RInv, RTypeOK, DiskOK, Structure, TypeOK
<1>2. /\ Number[tag] \in Nat /\ Len(stored) \in Nat /\ DOMAIN stored = 1..Len(stored)
      /\ Len(stored) <= Number[tag] + 2
  BY SMTT(40), <1>1, HeaderAssumption DEF Pushed, Leftover
<1>3. Number[linkedRoot] <= Len(stored) /\ Number[linkedRoot] + 1 = Number[tag] + 2
  BY SMTT(40), <1>1, <1>2
<1>4. /\ DOMAIN stored \subseteq DOMAIN Push(stored, linkedRoot)
      /\ Push(stored, linkedRoot)[Number[tag] + 2] = linkedRoot
      /\ \A i \in DOMAIN stored : i # Number[tag] + 2 => Push(stored, linkedRoot)[i] = stored[i]
  BY SMTT(40), <1>1, <1>3, PushFacts
<1>5. Len(Push(stored, linkedRoot)) = Number[tag] + 2
  <2>1. (IF Len(stored) > Number[linkedRoot] THEN Len(stored) ELSE Number[linkedRoot] + 1)
          = Number[tag] + 2
    BY SMTT(40), <1>1, <1>2, <1>3
  <2> QED
    BY SMTT(40), <1>2, <2>1 DEF Push
<1>6. ASSUME Number[tag] + 2 \in DOMAIN stored PROVE stored[Number[tag] + 2] = linkedRoot
  <2>1. PICK n \in Block : Mover(n) /\ stored[Number[tag] + 2] \in Anc[n]
    BY <1>6 DEF Pushed, Leftover
  <2>2. n = node /\ linkedRoot \in Anc[node]
    BY <2>1 DEF Pushed, AtMostOne, FlushEnough
  <2>3. Parent[stored[Number[tag] + 2]] = tag
    BY <1>6 DEF Pushed, Leftover
  <2> QED
    BY <1>1, <2>1, <2>2, <2>3, OneChild
<1> QED
  BY <1>4, <1>5, <1>6

\* flush: from the new root on, fewer blocks have enough confirmations.
LEMMA PushedFlush ==
    ASSUME RInv, Pushed, LogFlush
    PROVE  Pushed'
<1>1. /\ pc = "flush" /\ pc' = "loop" /\ tag' = linkedRoot
      /\ stored' = Push(stored, linkedRoot)
  BY DEF LogFlush, Flush
<1>2. /\ linkedRoot \in Block /\ tag \in Block /\ Parent[linkedRoot] = tag
      /\ Number[linkedRoot] = Number[tag] + 1 /\ Number[tag] \in Nat
  BY <1>1, HeaderAssumption DEF RInv, RTypeOK, DiskOK, Structure, TypeOK
<1>3. tag \in Anc[linkedRoot] /\ tag # linkedRoot /\ linkedRoot \notin Anc[tag]
  BY <1>2, AncUnfold, ParentBelow
<1>4. \A n : HasEntry(n)' => HasEntry(n)
  <2>1. PICK k \in Nat : \A i \in DOMAIN log' :
                            \/ log'[i].type = "rootWitness"
                            \/ i + k \in DOMAIN log /\ log'[i] = log[i + k]
    BY RemovedEntries
  <2> QED
    BY <2>1 DEF HasEntry, LinkedAt
<1>5. ASSUME NEW n \in Block, Mover(n)' PROVE Mover(n)
  <2>1. HasEntry(n) /\ linkedRoot \in Anc[n] /\ Enough(linkedRoot, n)
    BY <1>1, <1>4, <1>5
       DEF Mover, Enough, Confirming, PathAbove, ConfirmLimit, WitnessNum
  <2>2. tag \in Anc[n] /\ tag # n
    BY <1>2, <1>3, <2>1, AncTransitive
  <2>3. Enough(tag, n)
    BY <1>2, <1>3, <2>1, EnoughBelow
  <2> QED
    BY <2>1, <2>2, <2>3 DEF Mover
<1>6. AtMostOne' /\ FlushEnough'
  BY <1>1, <1>5 DEF Pushed, AtMostOne, FlushEnough
<1>7. Leftover'
  <2>1. Len(stored') = Number[tag'] + 1 /\ Number[tag'] \in Nat
    BY SMTT(40), <1>1, <1>2, PushIsNext
  <2>2. DOMAIN stored' = 1..Len(stored')
    <3>1. stored' \in Seq(Block)
      BY <1>1, PushNext DEF RInv
    <3> QED
      BY SMTT(40), <3>1
  <2>3. Len(stored') <= Number[tag'] + 2 /\ Number[tag'] + 2 \notin DOMAIN stored'
    BY SMTT(40), <2>1, <2>2
  <2> QED
    BY <2>3 DEF Leftover
<1> QED
  BY <1>6, <1>7 DEF Pushed

\* A stop inside flush leaves the root pushed, and in the log the block that moved it.
LEMMA PushedStop ==
    ASSUME RInv, Pushed, CrashInFlush
    PROVE  Pushed'
<1>1. /\ pc = "flush" /\ pc' = "idle" /\ tag' = tag /\ mode' = "replay"
      /\ stored' = Push(stored, linkedRoot)
      /\ log' = log \/ log' = WithRootWitness
  BY DEF CrashInFlush, Restart
<1>2. \A n : HasEntry(n)' <=> HasEntry(n)
  <2>1. CASE log' = log
    BY <2>1 DEF HasEntry, LinkedAt
  <2>2. CASE log' = WithRootWitness
    <3>1. PICK e : log' = Append(log, e) /\ e.type = "rootWitness"
      BY SMTT(40), <2>2 DEF WithRootWitness, RootWitnessEntry
    <3>2. /\ \A i \in DOMAIN log' : (i \in DOMAIN log /\ log'[i] = log[i]) \/ log'[i] = e
          /\ \A i \in DOMAIN log : i \in DOMAIN log' /\ log'[i] = log[i]
      BY SMTT(40), <3>1 DEF RInv, RTypeOK
    <3> QED
      BY <3>1, <3>2 DEF HasEntry, LinkedAt
  <2> QED
    BY <1>1, <2>1, <2>2
<1>3. \A n : Mover(n)' <=> Mover(n)
  BY <1>1, <1>2 DEF Mover, Enough, Confirming, PathAbove, ConfirmLimit, WitnessNum
<1>4. AtMostOne' /\ FlushEnough'
  BY <1>1, <1>3 DEF Pushed, AtMostOne, FlushEnough
<1>5. Leftover'
  <2>1. Len(stored') <= Number[tag'] + 2
    <3>1. Number[tag] \in Nat
      BY HeaderAssumption DEF RInv, RTypeOK
    <3> QED
      BY SMTT(40), <1>1, <3>1, PushIsNext
  <2>2. stored'[Number[tag'] + 2] = linkedRoot
    BY <1>1, PushIsNext
  <2>3. Parent[linkedRoot] = tag
    BY <1>1 DEF RInv, DiskOK
  <2>4. PICK n \in Block : Mover(n) /\ linkedRoot \in Anc[n]
    BY <1>1 DEF Pushed, FlushEnough
  <2>5. Mover(n)'
    BY <1>3, <2>4
  <2> QED
    BY <1>1, <2>1, <2>2, <2>3, <2>4, <2>5 DEF Leftover
<1> QED
  BY <1>4, <1>5 DEF Pushed

\* When the replay ends, nothing is left over: the replay has moved the root.
LEMMA PushedRecovered ==
    ASSUME RInv, FInv, Counted, Pushed, Recovered
    PROVE  Pushed'
<1>1. pc = "idle" /\ UNCHANGED <<log, tag, stored, pc, node, linkedRoot>>
  BY DEF Recovered, walVars, vars, rootVars, ctlVars
<1>2. \A n \in Block : ~Mover(n)
  BY <1>1, RecoveredKeeps, NoMover
<1>3. \A n : Mover(n)' <=> Mover(n)
  BY <1>1, MoverSame
<1>4. Number[tag] + 2 \notin DOMAIN stored
  BY <1>2 DEF Pushed, Leftover
<1> QED
  BY <1>1, <1>3, <1>4 DEF Pushed, AtMostOne, FlushEnough, Leftover

LEMMA PushedNext ==
    ASSUME RInv, FInv, FInv', Counted, Pushed, [RNext]_rvars
    PROVE  Pushed'
<1>1. CASE LogLinkBlock
  <2>1. CASE mode = "run"
    BY <1>1, <2>1, PushedLink
  <2>2. CASE mode # "run"
    <3>1. UNCHANGED <<log, tag, stored, mode>> /\ pc' = "lib"
      BY <1>1, <2>2 DEF LogLinkBlock, AddNodeToWAL, LinkBlock, recVars
    <3> QED
      BY <3>1, PushedQuiet
  <2> QED
    BY <2>1, <2>2
<1>2. CASE LogUpdateActive
  <2>1. /\ UNCHANGED <<tag, stored, mode, linked>> /\ pc \in {"lib", "loop"} /\ pc' # "flush"
    BY <1>2 DEF LogUpdateActive, UpdateLibShort, UpdateLibExit, Descend, Return, recVars, treeVars
  <2>2. node \in linked
    BY <2>1 DEF RInv, Structure, Control
  <2>3. active'[node] = active[node]
    BY <2>1, <2>2 DEF FInv, OneList
  <2>4. log' = log
    BY <1>2, <2>3 DEF LogUpdateActive
  <2> QED
    BY <2>1, <2>4, PushedQuiet
<1>3. CASE LogFlush
  BY <1>3, PushedFlush
<1>4. CASE PlainStep
  <2>1. CASE AdvanceRoot
    BY <1>4, <2>1, PushedMove DEF PlainStep
  <2>2. CASE ~AdvanceRoot
    <3>1. UNCHANGED <<log, tag, stored, mode>>
      BY <1>4 DEF PlainStep, walVars, recVars
    <3>2. pc' # "flush"
      BY <1>4, <2>2 DEF PlainStep, RejectOutOfLimit, RejectInvalid, UpdateLibEnter, NextChild,
         EndChildren, Return
    <3> QED
      BY <3>1, <3>2, PushedQuiet
  <2> QED
    BY <2>1, <2>2
<1>5. CASE \E b \in Block : Receive(b)
  <2>1. UNCHANGED <<log, tag, stored, mode>> /\ pc' # "flush"
    BY <1>5 DEF Receive, AddBlock, AddDuplicate, GenerateBlock, EnterAdd, walVars, recVars, vars,
       ctlVars
  <2> QED
    BY <2>1, PushedQuiet
<1>6. CASE ReplayStep
  <2>1. CASE Recovered
    BY <2>1, PushedRecovered
  <2>2. CASE ~Recovered
    <3>1. UNCHANGED <<log, tag, stored, mode>> /\ pc' # "flush"
      BY <1>6, <2>2 DEF ReplayStep, ApplyLink, ApplyUpdateActive, ApplyUpdateLinkedRootWitness,
         Applying, EnterAdd, walVars, ctlVars
    <3> QED
      BY <3>1, PushedQuiet
  <2> QED
    BY <2>1, <2>2
<1>7. CASE Crash
  <2>1. UNCHANGED <<log, tag, stored>> /\ mode' = "replay" /\ pc' = "idle"
    BY <1>7 DEF Crash, Restart
  <2> QED
    BY <2>1, PushedQuiet
<1>8. CASE CrashInFlush
  BY <1>8, PushedStop
<1>9. CASE UNCHANGED rvars
  <2>1. UNCHANGED <<log, tag, stored, mode, pc, node, linkedRoot>>
    BY <1>9 DEF rvars, vars, walVars, recVars, ctlVars, rootVars
  <2> QED
    BY <2>1, PushedQuiet
<1> QED
  BY <1>1, <1>2, <1>3, <1>4, <1>5, <1>6, <1>7, <1>8, <1>9 DEF RNext, LogStep

\* While elections change no list, a block stored as irreversible is never replaced: a
\* process that stopped inside flush has pushed the block that the replay of its log
\* pushes again, and no other comes between (updateLib, flush, recoverDB, Recover).
THEOREM NeverRewrittenTheorem ==
    ASSUME Steady PROVE RSpec => NeverRewritten
<1>1. FixedLists
  BY DEF Steady
<1>2. RInit => Counted /\ Pushed
  <2> SUFFICES ASSUME RInit PROVE Counted /\ Pushed
    OBVIOUS
  <2>1. /\ linked = {Genesis} /\ linkedRoot = Genesis /\ tag = Genesis /\ log = <<>>
        /\ stored = <<Genesis>> /\ pc = "idle" /\ validWitness = [b \in Block |-> {}]
        /\ Genesis \in Block /\ Number[Genesis] = 0
    BY HeaderAssumption, GenesisAssumption DEF RInit, Init
  <2>2. DOMAIN log = {} /\ Len(stored) <= Number[tag] + 2 /\ Number[tag] + 2 \notin DOMAIN stored
    BY SMTT(40), <2>1
  <2>3. Confirming(Genesis, Genesis) = {}
    BY DEF Confirming, PathAbove
  <2>4. Counted
    BY <2>1, <2>3 DEF Counted, ConfirmationsReal, ConfirmationsExact, NoneReached
  <2>5. Pushed
    BY <2>1, <2>2 DEF Pushed, AtMostOne, FlushEnough, Leftover, Mover, HasEntry
  <2> QED
    BY <2>4, <2>5
<1>3. RInv /\ FInv /\ FInv' /\ Counted /\ Pushed /\ [RNext]_rvars => Counted' /\ Pushed'
  BY <1>1, CountedStep, PushedNext
<1>4. RInv /\ Pushed /\ [RNext]_rvars =>
        [\A i \in DOMAIN stored : i \in DOMAIN stored' /\ stored'[i] = stored[i]]_rvars
  <2> SUFFICES ASSUME RInv, Pushed, RNext
               PROVE  \A i \in DOMAIN stored : i \in DOMAIN stored' /\ stored'[i] = stored[i]
    OBVIOUS
  <2>1. CASE LogFlush \/ CrashInFlush
    <3>1. pc = "flush" /\ stored' = Push(stored, linkedRoot)
      BY <2>1 DEF LogFlush, Flush, CrashInFlush, Restart
    <3> QED
      BY <3>1, PushIsNext
  <2>2. CASE ~(LogFlush \/ CrashInFlush)
    <3>1. stored' = stored
      BY <2>2 DEF RNext, Receive, LogStep, LogLinkBlock, LogUpdateActive, PlainStep, ReplayStep,
         ApplyLink, ApplyUpdateActive, ApplyUpdateLinkedRootWitness, Recovered, Crash, Restart,
         walVars
    <3> QED
      BY <3>1
  <2> QED
    BY <2>1, <2>2
<1> QED
  BY <1>2, <1>3, <1>4, FixedListsInvariant, PTL DEF RSpec, NeverRewritten
=============================================================================
