---------------------------- MODULE SynchroProofs ----------------------------
(***************************************************************************)
(* Proofs about block synchronisation: the range a node asks for never     *)
(* begins above the next block of its chain.                               *)
(*                                                                         *)
(* The head never falls and is never below the root.  NewRoot's CHOOSE has *)
(* something to choose because the singles are finite: they arrived one    *)
(* after the other.                                                        *)
(***************************************************************************)
EXTENDS Synchro, HeadersProofs, FiniteSetTheorems, WellFoundedInduction

\* Time for the provers on a slow machine.
USE ZenonT(40), SMTT(40)

-----------------------------------------------------------------------------
(* Blocks and their numbers. *)

\* Of finitely many blocks, one confirms a highest block.
LEMMA HighestConfirmed ==
    ASSUME NEW S \in SUBSET Block, IsFiniteSet(S), S # {}
    PROVE  \E m \in S : \A q \in S : Number[Confirms[q]] <= Number[Confirms[m]]
<1> DEFINE num(q) == Number[Confirms[q]]
           Max(X) == \E m \in X : \A q \in X : num(q) <= num(m)
           T == {X \in SUBSET S : X # {} /\ ~Max(X)}
<1>1. \A q \in S : num(q) \in Nat
  BY HeaderAssumption, SyncAssumption
<1> HIDE DEF num
<1>2. SUFFICES ASSUME S \in T PROVE FALSE
  BY DEF num
<1>3. T \subseteq FiniteSubsetsOf(S)
  BY FS_Subset DEF FiniteSubsetsOf
<1>4. PICK X \in T : \A Y \in T : <<Y, X>> \notin StrictSubsetOrdering(S)
  <2> HIDE DEF T
  <2> QED
    BY <1>2, <1>3, FS_StrictSubsetOrderingWellFounded, WFMin
<1>5. PICK x \in X : TRUE
  BY <1>4
<1>6. CASE X = {x}
  BY SMTT(40), <1>1, <1>4, <1>5, <1>6
<1>7. CASE X # {x}
  <2> DEFINE Y == X \ {x}
  <2>1. Y \in SUBSET S /\ Y # {} /\ <<Y, X>> \in StrictSubsetOrdering(S)
    BY SMTT(40), <1>4, <1>5, <1>7 DEF StrictSubsetOrdering
  <2>2. PICK m \in Y : \A q \in Y : num(q) <= num(m)
    BY <1>4, <2>1
  <2>3. num(m) \in Nat /\ num(x) \in Nat /\ m \in X
    BY <1>1, <1>4, <1>5, <2>1, <2>2
  <2>4. CASE num(x) <= num(m)
    BY <1>4, <2>2, <2>3, <2>4
  <2>5. CASE num(m) < num(x)
    <3>1. \A q \in X : num(q) <= num(x)
      <4> TAKE q \in X
      <4>1. num(q) \in Nat
        BY <1>1, <1>4
      <4> QED
        BY SMTT(40), <2>2, <2>3, <2>5, <4>1
    <3> QED
      BY <1>4, <1>5, <3>1
  <2> QED
    BY SMTT(40), <2>3, <2>4, <2>5
<1> QED
  BY <1>6, <1>7

\* The head that Link and updateLinkedRoot choose is not below the old one, nor below
\* any of the blocks they choose from.
LEMMA HeadsRise ==
    ASSUME NEW h \in Block, NEW S \in SUBSET Block, NEW g \in Heads(h, S)
    PROVE  /\ g \in Block
           /\ Number[h] <= Number[g]
           /\ \A b \in S : Number[b] <= Number[g]
<1> DEFINE longer == {b \in S : Longer(b, h)}
<1>1. \A b \in Block : Number[b] \in Nat /\ Time[b] \in Nat
  BY HeaderAssumption
<1>2. CASE longer = {}
  <2>1. g = h /\ \A b \in S : ~Longer(b, h)
    BY <1>2 DEF Heads
  <2> QED
    BY SMTT(40), <1>1, <2>1 DEF Longer
<1>3. CASE longer # {}
  <2>1. g \in S /\ Longer(g, h) /\ \A c \in S : Longer(c, h) => ~Longer(c, g)
    BY <1>3 DEF Heads
  <2>2. Number[h] <= Number[g]
    BY SMTT(40), <1>1, <2>1 DEF Longer
  <2>3. ASSUME NEW b \in S PROVE Number[b] <= Number[g]
    BY SMTT(40), <1>1, <2>1, <2>2, <2>3 DEF Longer
  <2> QED
    BY <2>1, <2>2, <2>3
<1> QED
  BY <1>2, <1>3

-----------------------------------------------------------------------------
(* The chain. *)

\* The chain the node has, and the blocks that wait.
ChainOK ==
    /\ linked \subseteq Block /\ single \subseteq Block /\ IsFiniteSet(single)
    /\ root \in Block /\ head \in Block
    /\ Number[root] <= Number[head]
    /\ valid \in Seq(Block)
    /\ \A m \in net : m.block \in Block

\* UpdateLib moves the root to a block that one of the new blocks confirms.
LEMMA NewRootConfirmed ==
    ASSUME root \in Block, NEW S \in SUBSET Block, IsFiniteSet(S)
    PROVE  NewRoot(S) = root \/ \E c \in S : NewRoot(S) = Confirms[c]
<1> DEFINE D == {d \in S : Number[Confirms[d]] > Number[root]}
           higher == {Confirms[c] : c \in D}
<1>1. CASE higher = {}
  BY <1>1 DEF NewRoot
<1>2. CASE higher # {}
  <2>1. D \in SUBSET Block /\ IsFiniteSet(D) /\ D # {}
    BY <1>2, FS_Subset
  <2>2. PICK m \in D : \A q \in D : Number[Confirms[q]] <= Number[Confirms[m]]
    <3> HIDE DEF D
    <3> QED
      BY <2>1, HighestConfirmed
  <2>3. \E r \in higher : \A q \in higher : Number[q] <= Number[r]
    BY <2>2
  <2>4. NewRoot(S) = CHOOSE r \in higher : \A q \in higher : Number[q] <= Number[r]
    BY <1>2 DEF NewRoot
  <2>5. NewRoot(S) \in higher
    <3> HIDE DEF higher
    <3> QED
      BY <2>3, <2>4
  <2> QED
    BY <2>5
<1> QED
  BY <1>1, <1>2

\* addExistingBlock: the head does not fall, and the root stays at or below it.
LEMMA AddExistingBlockRises ==
    ASSUME ChainOK, NEW b \in Block, AddExistingBlock(b)
    PROVE  /\ linked' \subseteq Block /\ single' \subseteq Block /\ IsFiniteSet(single')
           /\ root' \in Block /\ head' \in Block
           /\ Number[head] <= Number[head'] /\ Number[root'] <= Number[head']
<1>0. PICK new : new = Subtree(b)
  OBVIOUS
<1>1. /\ new \in SUBSET Block /\ IsFiniteSet(new)
      /\ linked \subseteq Block /\ single \subseteq Block /\ IsFiniteSet(single)
      /\ root \in Block /\ head \in Block /\ Number[root] <= Number[head]
  <2>1. new \in SUBSET (single \cup {b})
    BY <1>0 DEF Subtree
  <2>2. IsFiniteSet(single \cup {b})
    BY FS_AddElement DEF ChainOK
  <2> QED
    BY <2>1, <2>2, FS_Subset DEF ChainOK
<1>2. /\ root' = NewRoot(new)
      /\ linked' = {a \in linked \cup new : root' \in Anc[a]}
      /\ single' = DelSingle(single \ new, root')
  BY <1>0 DEF AddExistingBlock
<1>3. PICK h \in Heads(head, new) \cup Heads(head, linked' \cap new) :
            head' \in IF h \in linked' THEN {h} ELSE Heads(h, linked')
  BY <1>0, <1>2 DEF AddExistingBlock
<1>4. linked' \subseteq Block /\ single' \subseteq Block /\ IsFiniteSet(single')
  <2>1. single' \subseteq single
    BY <1>2 DEF DelSingle
  <2> QED
    BY <1>1, <1>2, <2>1, FS_Subset
<1>5. /\ h \in Block /\ Number[head] <= Number[h]
      /\ \A c \in linked' \cap new : Number[c] <= Number[h]
  BY <1>1, <1>3, HeadsRise
<1>6. head' \in Block /\ Number[h] <= Number[head']
  <2>1. CASE h \in linked'
    BY SMTT(40), <1>3, <1>5, <2>1, HeaderAssumption
  <2>2. CASE h \notin linked'
    BY <1>3, <1>4, <1>5, <2>2, HeadsRise
  <2> QED
    BY <2>1, <2>2
<1>7. \A c \in Block : Number[c] \in Nat
  BY HeaderAssumption
<1>8. CASE root' = root
  BY SMTT(40), <1>1, <1>4, <1>5, <1>6, <1>7, <1>8
<1>9. CASE root' # root
  <2>1. PICK c \in new : root' = Confirms[c]
    BY <1>1, <1>2, <1>9, NewRootConfirmed
  <2>2. c \in Block /\ root' \in Block /\ root' \in Anc[c] /\ Number[root'] <= Number[c]
    BY <1>1, <2>1, NumberAssumption, SyncAssumption
  <2>3. c \in linked' \cap new
    BY <1>2, <2>1, <2>2
  <2> QED
    BY SMTT(40), <1>1, <1>4, <1>5, <1>6, <1>7, <2>2, <2>3
<1> QED
  BY <1>8, <1>9

\* ChainBase.Add of any block.
LEMMA AddRises ==
    ASSUME ChainOK, NEW b \in Block, Add(b)
    PROVE  /\ linked' \subseteq Block /\ single' \subseteq Block /\ IsFiniteSet(single')
           /\ root' \in Block /\ head' \in Block
           /\ Number[head] <= Number[head'] /\ Number[root'] <= Number[head']
<1>1. Number[head] \in Nat
  BY HeaderAssumption DEF ChainOK
<1>2. CASE b \in linked \cup single
  BY SMTT(40), <1>1, <1>2 DEF Add, ChainOK, chainVars
<1>3. CASE b \notin linked \cup single /\ Parent[b] \notin linked
  <2>1. single' = single \cup {b} /\ UNCHANGED <<linked, root, head>>
    BY <1>3 DEF Add
  <2>2. IsFiniteSet(single')
    BY <2>1, FS_AddElement DEF ChainOK
  <2> QED
    BY SMTT(40), <1>1, <2>1, <2>2 DEF ChainOK
<1>4. CASE b \notin linked \cup single /\ Parent[b] \in linked
  <2>1. AddExistingBlock(b)
    BY <1>4 DEF Add
  <2> QED
    BY <2>1, AddExistingBlockRises
<1> QED
  BY <1>2, <1>3, <1>4

\* What is in flight are blocks and hashes of blocks.
LEMMA TransferBlocks ==
    ASSUME \A m \in net : m.block \in Block, NEW taken, NEW sent,
           \A m \in sent : m.block \in Block, Transfer(taken, sent)
    PROVE  \A m \in net' : m.block \in Block
<1>1. net' \subseteq net \cup sent
  BY DEF Transfer
<1> QED
  BY <1>1

-----------------------------------------------------------------------------
(* The range. *)

\* rangeController asks for no more than it may while it sleeps.
RangeOK ==
    /\ start \in Int /\ rangeHead \in Nat /\ sweeping \in BOOLEAN
    /\ sweeping => start < rangeHead - HalfRange

SyncInv == ChainOK /\ RangeOK /\ RangeBelowHead

\* rangeController's own steps.
LEMMA RangeStepInv ==
    ASSUME SyncInv, UpdateStart \/ SweepStep
    PROVE  SyncInv'
<1>1. /\ UNCHANGED <<linked, single, root, head, valid, net>>
  BY DEF UpdateStart, SweepStep, chainVars, netVars
<1>2. ChainOK'
  BY <1>1 DEF SyncInv, ChainOK
<1>3. /\ Number[head] \in Nat /\ Number[root] \in Nat /\ Number[root] <= Number[head]
      /\ HalfRange \in Nat /\ RangeStep \in Nat /\ RangeStep <= HalfRange + 1
      /\ start \in Int /\ rangeHead \in Nat
      /\ start <= Number[head] + 1 /\ rangeHead <= Number[head]
  BY SMTT(40), HeaderAssumption, SyncAssumption DEF SyncInv, ChainOK, RangeOK, RangeBelowHead
<1>4. CASE UpdateStart
  <2>1. \/ /\ Number[head] > rangeHead
           /\ rangeHead' = Number[head]
           /\ start' = IF Number[root] + 1 < Number[head] - HalfRange
                         THEN Number[head] - HalfRange ELSE Number[root] + 1
           /\ sweeping' = sweeping /\ sweeping = FALSE
        \/ /\ rangeHead' = rangeHead
           /\ start' = Number[root] + 1
           /\ sweeping' = (Number[root] + 1 < rangeHead - HalfRange)
    BY <1>4 DEF UpdateStart, SyncInv, RangeOK
  <2>1a. (Number[root] + 1 < rangeHead - HalfRange) \in BOOLEAN
    BY SMTT(40), <1>3
  <2>2. sweeping' \in BOOLEAN
    BY <2>1, <2>1a DEF SyncInv, RangeOK
  <2>3. /\ start' \in Int /\ rangeHead' \in Nat
        /\ start' <= Number[head] + 1 /\ rangeHead' <= Number[head]
    BY SMTT(40), <1>3, <2>1
  <2>4. sweeping' => start' < rangeHead' - HalfRange
    BY <2>1
  <2>5. RangeOK'
    BY <2>2, <2>3, <2>4 DEF RangeOK
  <2> QED
    BY <1>1, <1>2, <2>3, <2>5 DEF SyncInv, RangeBelowHead
<1>5. CASE SweepStep
  <2>1. /\ start < rangeHead - HalfRange
        /\ start' = start + RangeStep /\ rangeHead' = rangeHead
        /\ sweeping' = (start' < rangeHead - HalfRange)
    BY <1>5 DEF SweepStep, SyncInv, RangeOK
  <2>2. sweeping' \in BOOLEAN
    BY SMTT(40), <1>3, <2>1 DEF SyncInv, RangeOK
  <2>3. /\ start' \in Int /\ rangeHead' \in Nat
        /\ start' <= Number[head] + 1 /\ rangeHead' <= Number[head]
    BY SMTT(40), <1>3, <2>1
  <2>4. sweeping' => start' < rangeHead' - HalfRange
    BY <2>1
  <2>5. RangeOK'
    BY <2>2, <2>3, <2>4 DEF RangeOK
  <2> QED
    BY <1>1, <1>2, <2>3, <2>5 DEF SyncInv, RangeBelowHead
<1> QED
  BY <1>4, <1>5

\* A step of the chain base: the range stays where it is, and the head does not fall.
LEMMA ChainStepInv ==
    ASSUME SyncInv, NEW b \in Block, Add(b) \/ AddExistingBlock(b),
           UNCHANGED <<rangeVars, net>>, valid' \in Seq(Block)
    PROVE  SyncInv'
<1>1. /\ linked' \subseteq Block /\ single' \subseteq Block /\ IsFiniteSet(single')
      /\ root' \in Block /\ head' \in Block
      /\ Number[head] <= Number[head'] /\ Number[root'] <= Number[head']
  BY AddRises, AddExistingBlockRises DEF SyncInv
<1>2. ChainOK'
  BY <1>1 DEF SyncInv, ChainOK
<1>3. UNCHANGED <<rangeHead, start, sweeping>>
  BY DEF rangeVars
<1>4. Number[head] \in Nat /\ Number[head'] \in Nat
  BY <1>1, HeaderAssumption DEF SyncInv, ChainOK
<1>5. RangeBelowHead'
  BY SMTT(40), <1>1, <1>3, <1>4 DEF SyncInv, RangeOK, RangeBelowHead
<1> QED
  BY <1>2, <1>3, <1>5 DEF SyncInv, RangeOK

\* A step that leaves chain and range alone.
LEMMA OtherStepInv ==
    ASSUME SyncInv, UNCHANGED <<chainVars, rangeVars>>, valid' \in Seq(Block),
           \A m \in net' : m.block \in Block
    PROVE  SyncInv'
BY DEF SyncInv, ChainOK, RangeOK, RangeBelowHead, chainVars, rangeVars

LEMMA SyncStep == SyncInv /\ [SyNext]_svars => SyncInv'
<1> SUFFICES ASSUME SyncInv, [SyNext]_svars PROVE SyncInv'
  OBVIOUS
<1>1. valid \in Seq(Block) /\ \A m \in net : m.block \in Block
  BY DEF SyncInv, ChainOK
<1>2. CASE UpdateStart \/ SweepStep
  BY <1>2, RangeStepInv
<1>3. ASSUME NEW m \in net, DoNewBlockSync(m) PROVE SyncInv'
  <2>1. m.block \in Block /\ Request(m.peer, m.block).block = m.block
    BY <1>1 DEF Request
  <2>2. Transfer({m}, {Request(m.peer, m.block)}) \/ Transfer({m}, {})
    BY <1>3 DEF DoNewBlockSync
  <2>3. \A x \in net' : x.block \in Block
    BY SMTT(40), <1>1, <2>1, <2>2, TransferBlocks
  <2> QED
    BY <1>1, <1>3, <2>3, OtherStepInv DEF DoNewBlockSync
<1>4. ASSUME NEW m \in net, HandleBlockRequest(m) PROVE SyncInv'
  <2>1. m.block \in Block /\ Response(m.block).block = m.block
    BY <1>1 DEF Response
  <2>2. Transfer({m}, {Response(m.block)})
    BY <1>4 DEF HandleBlockRequest
  <2>3. \A x \in net' : x.block \in Block
    BY <1>1, <2>1, <2>2, TransferBlocks
  <2> QED
    BY <1>1, <1>4, <2>3, OtherStepInv DEF HandleBlockRequest
<1>5. ASSUME NEW m \in net, HandleBlock(m) PROVE SyncInv'
  <2>1. Transfer({m}, {}) /\ m.block \in Block
    BY <1>1, <1>5 DEF HandleBlock
  <2>2. \A x \in net' : x.block \in Block
    BY SMTT(40), <1>1, <2>1, TransferBlocks
  <2>3. valid' \in Seq(Block)
    BY SMTT(40), <1>1, <1>5, <2>1 DEF HandleBlock
  <2> QED
    BY <1>5, <2>2, <2>3, OtherStepInv DEF HandleBlock
<1>6. CASE DoVerifyBlock
  <2>1. Head(valid) \in Block /\ valid' \in Seq(Block) /\ Add(Head(valid))
    BY SMTT(40), <1>1, <1>6 DEF DoVerifyBlock
  <2>2. UNCHANGED <<rangeVars, net>>
    BY <1>6 DEF DoVerifyBlock, netVars
  <2> QED
    BY <2>1, <2>2, ChainStepInv
<1>7. ASSUME NEW b \in Block, DoGenerateBlock(b) PROVE SyncInv'
  BY <1>1, <1>7, ChainStepInv DEF DoGenerateBlock, netVars
<1>8. ASSUME NEW p \in Peer, NEW b \in Block, PeerAdopt(p, b) \/ DoBlockSync(p, b)
      PROVE  SyncInv'
  <2>1. /\ Request(p, b).block = b /\ Response(b).block = b /\ Info(p, b).block = b
    BY DEF Request, Response, Info
  <2>2. Transfer({}, {Request(p, b)}) \/ Transfer({}, {Response(b)}) \/ Transfer({}, {Info(p, b)})
    BY <1>8 DEF PeerAdopt, DoBlockSync
  <2>3. \A x \in net' : x.block \in Block
    BY <1>1, <2>1, <2>2, TransferBlocks
  <2> QED
    BY <1>1, <1>8, <2>3, OtherStepInv DEF PeerAdopt, DoBlockSync
<1>9. CASE \/ \E b \in Block : ExpireRequest(b) \/ ExpireResponse(b)
           \/ \E p \in Peer : DoBlockhashSync(p) \/ ExpireHashes(p)
           \/ UNCHANGED svars
  <2>1. UNCHANGED <<chainVars, rangeVars, valid, netVars>>
    BY <1>9 DEF ExpireRequest, ExpireResponse, DoBlockhashSync, ExpireHashes, svars
  <2> QED
    BY <1>1, <2>1, OtherStepInv DEF netVars
<1> QED
  BY <1>2, <1>3, <1>4, <1>5, <1>6, <1>7, <1>8, <1>9 DEF SyNext

LEMMA SyncInit == SyInit => SyncInv
<1> SUFFICES ASSUME SyInit PROVE SyncInv
  OBVIOUS
<1>1. /\ Genesis \in Block /\ StartHead \in Block /\ Number[Genesis] <= Number[StartHead]
      /\ Number[StartHead] \in Nat
  BY HeaderAssumption, SyncAssumption, StartAssumption
<1>2. ChainOK
  BY SMTT(40), <1>1, SyncAssumption, FS_EmptySet DEF SyInit, ChainOK
<1>3. sweeping = FALSE
  BY DEF SyInit
<1>4. RangeOK
  <2>1. start \in Int /\ rangeHead \in Nat
    BY SMTT(40), <1>1 DEF SyInit
  <2> QED
    BY <1>3, <2>1 DEF RangeOK
<1>5. RangeBelowHead
  BY SMTT(40), <1>1 DEF SyInit, RangeBelowHead
<1> QED
  BY <1>2, <1>4, <1>5 DEF SyncInv

\* For every tree of blocks, every number of neighbours and every size of the range:
\* although updateStart sleeps while head and root move, the range never begins above
\* the block after the head, so no block between the chain and the range is passed over.
THEOREM RangeBelowHeadTheorem == SySpec => []RangeBelowHead
<1>1. SyncInv => RangeBelowHead
  BY DEF SyncInv
<1> QED
  BY <1>1, SyncInit, SyncStep, PTL DEF SySpec

\* The head of the node never falls, however blocks arrive and the root moves.
THEOREM HeadNeverFalls == SySpec => [][Number[head'] >= Number[head]]_svars
<1>1. SyncInv /\ [SyNext]_svars => [Number[head'] >= Number[head]]_svars
  <2> SUFFICES ASSUME SyncInv, SyNext PROVE Number[head'] >= Number[head]
    OBVIOUS
  <2>1. head \in Block /\ Number[head] \in Nat /\ valid \in Seq(Block)
    BY HeaderAssumption DEF SyncInv, ChainOK
  <2>2. CASE DoVerifyBlock
    <3>1. Head(valid) \in Block /\ Add(Head(valid))
      BY SMTT(40), <2>1, <2>2 DEF DoVerifyBlock
    <3>2. head' \in Block /\ Number[head] <= Number[head']
      BY <3>1, AddRises DEF SyncInv
    <3> QED
      BY <2>1, <3>2, HeaderAssumption
  <2>3. ASSUME NEW b \in Block, DoGenerateBlock(b) PROVE Number[head'] >= Number[head]
    <3>1. head' \in Block /\ Number[head] <= Number[head']
      BY <2>3, AddExistingBlockRises DEF DoGenerateBlock, SyncInv
    <3> QED
      BY <2>1, <3>1, HeaderAssumption
  <2>4. CASE ~DoVerifyBlock /\ ~\E b \in Block : DoGenerateBlock(b)
    <3>1. head' = head
      BY <2>4 DEF SyNext, UpdateStart, SweepStep, DoNewBlockSync, HandleBlockRequest, HandleBlock,
         ExpireRequest, ExpireResponse, DoBlockhashSync, ExpireHashes, PeerAdopt, DoBlockSync,
         chainVars
    <3> QED
      BY SMTT(40), <2>1, <3>1
  <2> QED
    BY <2>2, <2>3, <2>4
<1> QED
  BY <1>1, SyncInit, SyncStep, PTL DEF SySpec
=============================================================================
