---------------------------- MODULE TxPoolProofs ----------------------------
(***************************************************************************)
(* No transaction is on a chain twice, none is pending that the chain has, *)
(* and none is lost but with a block of our own that is not linked, for    *)
(* any tree of blocks.                                                     *)
(*                                                                         *)
(* A walk of the pool that comes to an end before some block of the chain  *)
(* has met a block that is too old, or one that is no longer listed.  The  *)
(* invariant says what is known of the latter (ListedLate, ListedChain),   *)
(* and how far the time of a block can be behind an ancestor's (TimesOK):  *)
(* whatever the walk has missed is as good as expired.  A block of our own *)
(* is on the head of the cache, unless that is pruned, and becomes the     *)
(* head: MadeOK says what is known of it until then.                       *)
(***************************************************************************)
EXTENDS TxPool, HeadersProofs

\* Time for the provers on a slow machine.
USE ZenonT(40), SMTT(40)

\* The blocks whose chains the pool walks along.
Tips == linked \cup {cacheHead, newHead}

TTypeOK ==
    /\ now \in Nat
    /\ linked \subseteq Block /\ root \in linked
    /\ cacheHead \in Block /\ newHead \in Block
    /\ adding \in linked \cup {NoBlock}
    /\ blockList \subseteq Block /\ pending \subseteq Tx /\ accepted \subseteq Tx
    /\ made \in Block \cup {NoBlock} /\ own \subseteq Block /\ gap \in BOOLEAN

\* The linked blocks are a tree with the root at the bottom, and a head outside it
\* has been pruned: it does not descend from the root.
TreeOK ==
    /\ \A n \in linked :
          root \in Anc[n] /\ \A k \in Anc[n] : root \in Anc[k] => k \in linked
    /\ \A h \in {cacheHead, newHead} : h \in linked \/ root \notin Anc[h]
    /\ adding \notin Anc[newHead]

\* Blocks are not further in the future than MaxBlockTimeGap, so that our own blocks
\* are not further behind their ancestors.
ChainTimes(x, t) ==
    \A k \in Anc[x] :
       /\ Time[k] <= t + MaxBlockTimeGap
       /\ \A u \in Txs[k] : TxTime[u] <= Time[k]
       /\ \A a \in Anc[k] : Time[a] <= Time[k] + MaxBlockTimeGap

TimesOK ==
    /\ \A x \in Tips : ChainTimes(x, now)
    /\ \A b \in own : Time[b] <= now

\* What is not listed is old by the clock, ...
ListedLate ==
    \A x \in Tips : \A k \in Anc[x] \ {Genesis, adding} :
       k \in blockList \/ Time[k] < now + MaxBlockTimeGap - FilterTime

\* ... and, as long as no restart has left a gap, by the blocks of its own chain.
ListedChain ==
    ~gap => \A x \in linked : \A k \in Anc[x] \ {Genesis, adding} :
               k \in blockList \/ \E r \in Anc[x] : Time[k] < Time[r] - FilterTime

\* The pool's head is the cache's head, which is as high as any new block.
HeadsOK ==
    /\ adding = NoBlock => newHead = cacheHead
    /\ adding \in Block => Number[adding] <= Number[cacheHead]

\* The block of our own is made on the pool's head, and repeats of its chain only what
\* is about to expire; once it is linked it is the head.
MadeOK ==
    made \in Block =>
       /\ Parent[made] = newHead /\ Number[made] = Number[newHead] + 1
       /\ made \in own
       /\ \A u \in Txs[made] : TxTime[u] <= Time[made]
       /\ \A a \in Anc[newHead] : Time[a] <= Time[made] + MaxBlockTimeGap
       /\ gap \/ \A a \in Anc[newHead] : \A t \in Txs[a] \cap Txs[made] :
                    IsExpired(t, Time[made] + 3 * MaxBlockTimeGap)
       /\ \/ adding = NoBlock /\ made \notin linked
          \/ adding = made /\ cacheHead = made

TInv ==
    /\ TTypeOK /\ TreeOK /\ TimesOK /\ ListedLate /\ ListedChain /\ HeadsOK /\ MadeOK
    /\ NoDoubleTx /\ PendingNotOnChain /\ NothingDropped

-----------------------------------------------------------------------------
(* Transactions expire for good, and walks miss what is below a block that *)
(* ends them.                                                              *)

LEMMA ConstantTypes ==
    /\ MaxBlockTimeGap \in Nat /\ FilterTime \in Nat /\ MaxExpiration \in Nat
    /\ MaxExpiration <= FilterTime
    /\ \A b \in Block : Time[b] \in Nat /\ Txs[b] \subseteq Tx /\ Number[b] \in Nat
    /\ \A t \in Tx : TxTime[t] \in Nat /\ Expiration[t] \in Nat
BY HeaderAssumption, TxAssumption, FilterAssumption

\* IsExpired: what is expired stays expired.
LEMMA ExpiredLater ==
    ASSUME NEW t \in Tx, NEW c \in Int, NEW d \in Int, c <= d, IsExpired(t, c)
    PROVE  IsExpired(t, d)
BY SMTT(40), ConstantTypes DEF IsExpired

\* A transaction that is older than FilterTime is expired.
LEMMA ExpiredOld ==
    ASSUME NEW t \in Tx, NEW c \in Int, TxTime[t] < c - FilterTime
    PROVE  IsExpired(t, c)
BY SMTT(40), ConstantTypes DEF IsExpired

\* No block is below the genesis block.
LEMMA GenesisAlone == Genesis \in Block /\ Anc[Genesis] = {Genesis}
BY HeaderAssumption, AncestryAssumption, TxAssumption

\* A walk that does not come to block a has met a block k above it, or a itself, that
\* it could not pass.
LEMMA WalkEnds ==
    ASSUME NEW b \in Block, NEW a \in Anc[b], NEW S, NEW l \in Int,
           a \notin Since(S, b, l)
    PROVE  \E k \in Anc[b] : /\ a \in Anc[k]
                             /\ k \notin S \/ Time[k] < l
<1>1. PICK k \in Down(b, a) : ~(k \in S /\ Time[k] >= l)
  BY DEF Since
<1>2. k \in Anc[b] /\ k \in Block /\ a \in Block
  BY SMTT(40), <1>1, AncUnfold DEF Down
<1>3. a \in Anc[k]
  <2>1. CASE k = a
    BY <2>1, <1>2, AncUnfold
  <2>2. CASE k # a
    <3>1. k \notin Anc[a]
      BY <2>2, <1>1 DEF Down
    <3> QED
      BY <3>1, <1>2, AncLinear
  <2> QED
    BY <2>1, <2>2
<1>4. k \notin S \/ Time[k] < l
  BY SMTT(40), <1>1, <1>2, ConstantTypes
<1> QED
  BY <1>2, <1>3, <1>4

\* On a growing chain no block is earlier than an ancestor.
LEMMA GrowsOrders ==
    ASSUME NEW n \in Block, Grows(n), NEW k \in Anc[n], NEW a \in Anc[k]
    PROVE  Time[a] <= Time[k]
<1> DEFINE S == {c \in Anc[n] : a \in Anc[c] /\ ~(Time[a] <= Time[c])}
<1>1. SUFFICES ASSUME k \in S PROVE FALSE
  OBVIOUS
<1>2. S \subseteq Block
  BY AncUnfold
<1>3. PICK c \in S : Parent[c] \notin S
  BY <1>1, <1>2, AncestryAssumption
<1>4. c \in Block /\ a \in Block
  BY <1>2, <1>3, AncUnfold
<1>5. a # c
  BY SMTT(40), <1>3, <1>4, ConstantTypes
<1>6. Parent[c] \in Block /\ a \in Anc[Parent[c]]
  BY <1>3, <1>4, <1>5, AncUnfold
<1>7. Parent[c] \in Anc[n]
  BY <1>3, <1>4, <1>6, AncUnfold, AncTransitive
<1>8. Time[c] > Time[Parent[c]]
  BY <1>3, <1>6 DEF Grows
<1>9. Time[a] <= Time[Parent[c]]
  BY <1>3, <1>6, <1>7
<1> QED
  BY SMTT(40), <1>3, <1>4, <1>6, <1>8, <1>9, ConstantTypes

\* Txs: the transactions of the genesis block.
LEMMA GenesisEmpty == Txs[Genesis] = {}
BY TxAssumption

\* The blocks of Tips are blocks.
LEMMA TipsAreBlocks ==
    ASSUME TTypeOK, NEW x \in Tips
    PROVE  x \in Block /\ Anc[x] \subseteq Block
BY AncUnfold DEF TTypeOK, Tips

\* A transaction at or below a block that is FilterTime older than c is expired
\* MaxBlockTimeGap after c.
LEMMA OldBelow ==
    ASSUME TTypeOK, TimesOK, NEW x \in Tips, NEW k \in Anc[x], NEW a \in Anc[k],
           NEW t \in Txs[a], NEW c \in Int, Time[k] < c - FilterTime
    PROVE  t \in Tx /\ IsExpired(t, c + MaxBlockTimeGap)
<1>1. x \in Block /\ k \in Block
  BY TipsAreBlocks
<1>2. a \in Block /\ a \in Anc[x]
  BY <1>1, AncUnfold, AncTransitive
<1>3. t \in Tx
  BY <1>2, ConstantTypes
<1>4. TxTime[t] <= Time[a]
  BY <1>2 DEF TimesOK, ChainTimes
<1>5. Time[a] <= Time[k] + MaxBlockTimeGap
  BY DEF TimesOK, ChainTimes
<1>6. TxTime[t] < (c + MaxBlockTimeGap) - FilterTime
  BY SMTT(40), <1>1, <1>2, <1>3, <1>4, <1>5, ConstantTypes
<1> QED
  BY SMTT(40), <1>3, <1>6, ConstantTypes, ExpiredOld

\* What a walk through the listed blocks misses, back to `l`, expires within twice
\* MaxBlockTimeGap, if l is not later than FilterTime before a block may be.
LEMMA MissedLate ==
    ASSUME TInv, NEW x \in Tips, NEW a \in Anc[x], NEW t \in Txs[a],
           NEW list, blockList \subseteq list,
           adding \in list \/ adding \notin Anc[x],
           NEW l \in Int, l <= now + MaxBlockTimeGap - FilterTime,
           a \notin Since(list, x, l)
    PROVE  IsExpired(t, now + 2 * MaxBlockTimeGap)
<1> /\ TTypeOK /\ TreeOK /\ TimesOK /\ ListedLate /\ ListedChain /\ HeadsOK /\ MadeOK
    /\ NoDoubleTx /\ PendingNotOnChain /\ NothingDropped
  BY DEF TInv
<1>1. x \in Block /\ Anc[x] \subseteq Block
  BY TipsAreBlocks
<1>2. PICK k \in Anc[x] : a \in Anc[k] /\ (k \notin list \/ Time[k] < l)
  BY <1>1, WalkEnds
<1>3. now \in Nat
  BY DEF TTypeOK
<1>4. k # Genesis
  BY <1>2, GenesisAlone, GenesisEmpty
<1>5. Time[k] < now + MaxBlockTimeGap - FilterTime
  <2>1. CASE k \notin list
    BY <2>1, <1>4 DEF ListedLate
  <2>2. CASE Time[k] < l
    BY SMTT(40), <2>2, <1>1, <1>3, ConstantTypes
  <2> QED
    BY <1>2, <2>1, <2>2
<1>6. IsExpired(t, (now + MaxBlockTimeGap) + MaxBlockTimeGap)
  <2> DEFINE c == now + MaxBlockTimeGap
  <2>1. c \in Int /\ Time[k] < c - FilterTime
    BY SMTT(40), <1>3, <1>5, ConstantTypes
  <2> HIDE DEF c
  <2>2. IsExpired(t, c + MaxBlockTimeGap)
    BY <1>2, <2>1, OldBelow
  <2> QED
    BY <2>2 DEF c
<1>7. (now + MaxBlockTimeGap) + MaxBlockTimeGap = now + 2 * MaxBlockTimeGap
  BY SMTT(40), <1>3, ConstantTypes
<1> QED
  BY <1>6, <1>7

-----------------------------------------------------------------------------
(* The steps that leave the blocks alone. *)

\* What TreeOK says depends on the cache, on `adding` and on the head only.
LEMMA TreeKept ==
    ASSUME TreeOK, UNCHANGED <<cacheVars, adding, newHead>>
    PROVE  TreeOK'
BY DEF TreeOK, cacheVars

\* What HeadsOK and MadeOK say depends on the heads and on the new block only.
LEMMA MadeKept ==
    ASSUME HeadsOK, MadeOK, UNCHANGED <<cacheVars, adding, newHead, made, own, gap>>
    PROVE  HeadsOK' /\ MadeOK'
<1>1. UNCHANGED <<linked, cacheHead, adding, newHead, made, own, gap>>
  BY DEF cacheVars
<1> QED
  BY <1>1 DEF HeadsOK, MadeOK

LEMMA TickInvariant == TInv /\ Tick => TInv'
<1> SUFFICES ASSUME TInv, Tick PROVE TInv'
  OBVIOUS
<1> /\ TTypeOK /\ TreeOK /\ TimesOK /\ ListedLate /\ ListedChain /\ HeadsOK /\ MadeOK
    /\ NoDoubleTx /\ PendingNotOnChain /\ NothingDropped
  BY DEF TInv
<1>1. /\ now \in Nat /\ now' = now + 1
      /\ UNCHANGED <<linked, root, cacheHead, adding, blockList, pending, newHead, made, own,
                     accepted, lost, gap>>
  BY DEF Tick, TTypeOK, cacheVars, poolVars, ownVars
<1>2. TTypeOK' /\ Tips' = Tips /\ TreeOK'
  BY SMTT(40), <1>1, TreeKept DEF TTypeOK, Tips, cacheVars
<1>3. TimesOK'
  <2>1. ASSUME NEW x \in Tips, NEW k \in Anc[x]
        PROVE  Time[k] <= now' + MaxBlockTimeGap
    <3>1. Time[k] <= now + MaxBlockTimeGap
      BY DEF TimesOK, ChainTimes
    <3>2. k \in Block
      BY TipsAreBlocks
    <3> QED
      BY SMTT(40), <1>1, <3>1, <3>2, ConstantTypes
  <2>2. ASSUME NEW b \in own PROVE Time[b] <= now'
    <3>1. b \in Block /\ Time[b] <= now
      BY DEF TTypeOK, TimesOK
    <3> QED
      BY SMTT(40), <1>1, <3>1, ConstantTypes
  <2>3. \A x \in Tips : ChainTimes(x, now')
    BY <2>1 DEF TimesOK, ChainTimes
  <2>4. (\A x \in Tips : ChainTimes(x, now))' <=> \A x \in Tips : ChainTimes(x, now')
    BY <1>2 DEF ChainTimes
  <2> QED
    BY <1>1, <2>2, <2>3, <2>4 DEF TimesOK
<1>4. ListedLate'
  <2> SUFFICES ASSUME NEW x \in Tips, NEW k \in Anc[x] \ {Genesis, adding}
               PROVE  \/ k \in blockList
                      \/ Time[k] < now' + MaxBlockTimeGap - FilterTime
    BY <1>1, <1>2 DEF ListedLate
  <2>1. k \in Block
    BY TipsAreBlocks
  <2>2. k \in blockList \/ Time[k] < now + MaxBlockTimeGap - FilterTime
    BY DEF ListedLate
  <2>3. now + MaxBlockTimeGap - FilterTime < now' + MaxBlockTimeGap - FilterTime
    BY SMTT(40), <1>1, ConstantTypes
  <2>4. /\ now + MaxBlockTimeGap - FilterTime \in Int
        /\ now' + MaxBlockTimeGap - FilterTime \in Int
        /\ Time[k] \in Int
    BY SMTT(40), <1>1, <2>1, ConstantTypes
  <2> QED
    BY SMTT(40), <2>2, <2>3, <2>4
<1>5. ListedChain' /\ NoDoubleTx'
  BY <1>1 DEF ListedChain, NoDoubleTx
<1>6. ASSUME NEW t \in Tx, NEW j \in Nat, IsExpired(t, now + j * MaxBlockTimeGap)
      PROVE  IsExpired(t, now' + j * MaxBlockTimeGap)
  <2>1. j * MaxBlockTimeGap \in Nat
    BY SMTT(40), ConstantTypes
  <2>2. /\ now + j * MaxBlockTimeGap \in Int
        /\ now' + j * MaxBlockTimeGap \in Int
        /\ now + j * MaxBlockTimeGap <= now' + j * MaxBlockTimeGap
    BY SMTT(40), <1>1, <2>1
  <2> QED
    BY <1>6, <2>2, ExpiredLater
<1>7. PendingNotOnChain'
  BY <1>1, <1>6 DEF PendingNotOnChain, TTypeOK
<1>8. NothingDropped'
  BY <1>1, <1>6 DEF NothingDropped, TTypeOK
<1>9. HeadsOK' /\ MadeOK'
  BY <1>1, MadeKept DEF cacheVars
<1> QED
  BY <1>2, <1>3, <1>4, <1>5, <1>7, <1>8, <1>9 DEF TInv

\* The conjuncts of the invariant that are about blocks and times, if a step leaves
\* these alone and drops only old blocks from blockList.
LEMMA BlocksKept ==
    ASSUME TInv, UNCHANGED <<now, cacheVars, adding, newHead, own, gap>>,
           blockList' \subseteq blockList,
           \A k \in blockList \ blockList' : Time[k] < Time[root] - FilterTime
    PROVE  TreeOK' /\ TimesOK' /\ ListedLate' /\ ListedChain' /\ NoDoubleTx'
<1> /\ TTypeOK /\ TreeOK /\ TimesOK /\ ListedLate /\ ListedChain /\ HeadsOK /\ MadeOK
    /\ NoDoubleTx /\ PendingNotOnChain /\ NothingDropped
  BY DEF TInv
<1>1. UNCHANGED <<now, linked, root, cacheHead, adding, newHead, own, gap>>
  BY DEF cacheVars
<1>2. Tips' = Tips
  BY <1>1 DEF Tips
<1>3. TreeOK' /\ NoDoubleTx'
  BY SMTT(40), <1>1, TreeKept DEF NoDoubleTx, cacheVars
<1>4. TimesOK'
  BY <1>1, <1>2 DEF TimesOK, ChainTimes
<1>5. ListedLate'
  <2> SUFFICES ASSUME NEW x \in Tips, NEW k \in Anc[x] \ {Genesis, adding},
                      k \notin blockList'
               PROVE  Time[k] < now + MaxBlockTimeGap - FilterTime
    BY <1>1, <1>2 DEF ListedLate
  <2>1. CASE k \notin blockList
    BY <2>1 DEF ListedLate
  <2>2. CASE k \in blockList
    <3>1. Time[k] < Time[root] - FilterTime
      BY <2>2
    <3>2. now \in Nat /\ root \in Tips /\ root \in Block /\ k \in Block
      BY TipsAreBlocks DEF TTypeOK, Tips
    <3>3. Time[root] <= now + MaxBlockTimeGap
      BY <3>2, AncUnfold DEF TimesOK, ChainTimes
    <3> QED
      BY SMTT(40), <3>1, <3>2, <3>3, ConstantTypes
  <2> QED
    BY <2>1, <2>2
<1>6. ListedChain'
  <2> SUFFICES ASSUME ~gap, NEW x \in linked, NEW k \in Anc[x] \ {Genesis, adding},
                      k \notin blockList'
               PROVE  \E r \in Anc[x] : Time[k] < Time[r] - FilterTime
    BY SMTT(40), <1>1 DEF ListedChain
  <2>1. CASE k \notin blockList
    BY <2>1 DEF ListedChain
  <2>2. CASE k \in blockList
    BY <2>2 DEF TreeOK
  <2> QED
    BY <2>1, <2>2
<1> QED
  BY <1>3, <1>4, <1>5, <1>6

LEMMA AddTxInvariant ==
    ASSUME TInv, NEW t \in Tx, AddTx(t)
    PROVE  TInv'
<1> /\ TTypeOK /\ TreeOK /\ TimesOK /\ ListedLate /\ ListedChain /\ HeadsOK /\ MadeOK
    /\ NoDoubleTx /\ PendingNotOnChain /\ NothingDropped
  BY DEF TInv
<1>1. /\ ~ExistTxs(t, newHead)
      /\ pending' = pending \cup {t} /\ accepted' = accepted \cup {t} /\ lost' = lost \ {t}
      /\ UNCHANGED <<now, cacheVars, adding, blockList, newHead, made, own, gap>>
  BY DEF AddTx, VerifyDuplicate
<1>2. TTypeOK'
  BY <1>1 DEF TTypeOK, cacheVars
<1>3. TreeOK' /\ TimesOK' /\ ListedLate' /\ ListedChain' /\ NoDoubleTx'
  BY <1>1, BlocksKept
<1>4. NothingDropped'
  BY <1>1 DEF NothingDropped
<1>5. ASSUME NEW a \in Anc[newHead], t \in Txs[a]
      PROVE  IsExpired(t, now + 3 * MaxBlockTimeGap)
  <2> DEFINE l == Time[newHead] - FilterTime
  <2>1. newHead \in Tips /\ newHead \in Block /\ now \in Nat
    BY DEF Tips, TTypeOK
  <2>2. l \in Int /\ l <= now + MaxBlockTimeGap - FilterTime
    <3>1. Time[newHead] <= now + MaxBlockTimeGap
      BY <2>1, AncUnfold DEF TimesOK, ChainTimes
    <3> QED
      BY SMTT(40), <2>1, <3>1, ConstantTypes
  <2>3. a \notin Since(blockList, newHead, l)
    BY <1>1, <1>5 DEF ExistTxs, Walked
  <2>4. adding \notin Anc[newHead]
    BY DEF TreeOK
  <2> HIDE DEF l
  <2>5. IsExpired(t, now + 2 * MaxBlockTimeGap)
    BY <1>5, <2>1, <2>2, <2>3, <2>4, MissedLate
  <2>6. /\ now + 2 * MaxBlockTimeGap \in Int /\ now + 3 * MaxBlockTimeGap \in Int
        /\ now + 2 * MaxBlockTimeGap <= now + 3 * MaxBlockTimeGap
    BY SMTT(40), <2>1, ConstantTypes
  <2> QED
    BY <2>5, <2>6, ExpiredLater
<1>6. PendingNotOnChain'
  BY <1>1, <1>5 DEF PendingNotOnChain
<1>7. HeadsOK' /\ MadeOK'
  BY <1>1, MadeKept
<1> QED
  BY <1>2, <1>3, <1>4, <1>6, <1>7 DEF TInv

LEMMA ClearInvariant == TInv /\ Clear => TInv'
<1> SUFFICES ASSUME TInv, Clear PROVE TInv'
  OBVIOUS
<1> /\ TTypeOK /\ TreeOK /\ TimesOK /\ ListedLate /\ ListedChain /\ HeadsOK /\ MadeOK
    /\ NoDoubleTx /\ PendingNotOnChain /\ NothingDropped
  BY DEF TInv
<1>1. /\ blockList' = {b \in blockList : Time[b] >= Time[root] - FilterTime}
      /\ pending' = {t \in pending : ~IsExpired(t, now)}
      /\ UNCHANGED <<now, cacheVars, adding, newHead, made, own, accepted, lost, gap>>
  BY DEF Clear, ownVars
<1>2. TTypeOK'
  BY <1>1 DEF TTypeOK, cacheVars
<1>3. \A k \in blockList \ blockList' : Time[k] < Time[root] - FilterTime
  BY SMTT(40), <1>1, ConstantTypes DEF TTypeOK
<1>4. TreeOK' /\ TimesOK' /\ ListedLate' /\ ListedChain' /\ NoDoubleTx'
  BY <1>1, <1>3, BlocksKept
<1>5. PendingNotOnChain'
  BY <1>1 DEF PendingNotOnChain
<1>6. \A t \in Tx : IsExpired(t, now) => IsExpired(t, now + 2 * MaxBlockTimeGap)
  <2>1. now \in Int /\ now + 2 * MaxBlockTimeGap \in Int /\ now <= now + 2 * MaxBlockTimeGap
    BY SMTT(40), ConstantTypes DEF TTypeOK
  <2> QED
    BY <2>1, ExpiredLater
<1>7. NothingDropped'
  BY <1>1, <1>6 DEF NothingDropped, TTypeOK
<1>8. HeadsOK' /\ MadeOK'
  BY <1>1, MadeKept
<1> QED
  BY <1>2, <1>4, <1>5, <1>7, <1>8 DEF TInv

-----------------------------------------------------------------------------
(* New blocks. *)

\* Heads: the head stays or is one of the given blocks.
LEMMA HeadsChoice ==
    ASSUME NEW h, NEW S, NEW g \in Heads(h, S)
    PROVE  g = h \/ g \in S
BY DEF Heads

\* LinkBlock keeps the tree in order, whatever block of the chain becomes the root.
LEMMA LinkTree ==
    ASSUME TInv, NEW b \in Block, adding = NoBlock, b \notin linked,
           Parent[b] \in linked, LinkBlock(b)
    PROVE  /\ linked' \subseteq linked \cup {b} /\ root' \in linked'
           /\ cacheHead' \in linked' \cup {b, cacheHead}
           /\ Number[b] <= Number[cacheHead'] /\ (Longer(b, cacheHead) => cacheHead' = b)
           /\ adding' = b /\ b \in linked'
           /\ UNCHANGED <<now, blockList, pending, newHead, made, own, accepted, lost, gap>>
           /\ TreeOK'
<1> /\ TTypeOK /\ TreeOK /\ TimesOK /\ ListedLate /\ ListedChain /\ HeadsOK /\ MadeOK
    /\ NoDoubleTx /\ PendingNotOnChain /\ NothingDropped
  BY DEF TInv
<1>1. PICK h \in Heads(cacheHead, {b}), r \in Anc[b] \cap (linked \cup {b}) :
         /\ root' = r
         /\ linked' = {a \in linked \cup {b} : r \in Anc[a]}
         /\ cacheHead' \in IF h \in linked' THEN {h} ELSE Heads(h, linked')
  BY DEF LinkBlock
<1>2. /\ adding' = b
      /\ UNCHANGED <<now, blockList, pending, newHead, made, own, accepted, lost, gap>>
  BY DEF LinkBlock, poolVars, ownVars
<1>3. /\ linked \subseteq Block /\ Parent[b] \in Block /\ cacheHead \in Block
      /\ newHead \in Block /\ root \in Block /\ r \in Block
  BY DEF TTypeOK
<1>4. b \in Anc[b] /\ r \in Anc[r] /\ Anc[b] = Anc[Parent[b]] \cup {b}
  BY <1>3, AncUnfold
<1>5. root \in Anc[b] /\ \A k \in linked \cup {b} : root \in Anc[k]
  BY <1>3, <1>4 DEF TreeOK
<1>6. \A k \in Anc[b] : root \in Anc[k] => k \in linked \cup {b}
  BY <1>4 DEF TreeOK
<1>7. root' \in linked' /\ b \in linked' /\ linked' \subseteq linked \cup {b}
  BY <1>1, <1>4
<1>8. h = cacheHead \/ h = b
  BY <1>1, HeadsChoice
<1>9. cacheHead' = h \/ cacheHead' \in linked'
  <2>1. CASE h \in linked'
    BY <2>1, <1>1
  <2>2. CASE h \notin linked'
    BY <2>2, <1>1, HeadsChoice
  <2> QED
    BY <2>1, <2>2
<1>10. ASSUME NEW n \in linked'
       PROVE  /\ r \in Anc[n]
              /\ \A k \in Anc[n] : r \in Anc[k] => k \in linked'
  <2>1. r \in Anc[n] /\ n \in linked \cup {b}
    BY <1>1
  <2>2. ASSUME NEW k \in Anc[n], r \in Anc[k] PROVE k \in linked'
    <3>1. k \in Block
      BY <1>3, <2>1, AncUnfold
    <3>2. root \in Anc[r]
      BY <1>5
    <3>3. root \in Anc[k]
      BY <2>2, <3>1, <3>2, AncTransitive
    <3>4. k \in linked \cup {b}
      BY <1>6, <2>1, <3>3 DEF TreeOK
    <3> QED
      BY <1>1, <2>2, <3>4
  <2> QED
    BY <2>1, <2>2
<1>11. ASSUME NEW g \in {cacheHead, newHead}
       PROVE  g \in linked' \/ r \notin Anc[g]
  <2>1. g \in Block /\ (g \in linked \/ root \notin Anc[g])
    BY <1>3 DEF TreeOK
  <2>2. CASE g \in linked
    BY <2>2, <1>1
  <2>3. CASE root \notin Anc[g]
    <3>1. root \in Anc[r]
      BY <1>5
    <3> QED
      BY <2>1, <2>3, <3>1, AncTransitive
  <2> QED
    BY <2>1, <2>2, <2>3
<1>12. b \notin Anc[newHead]
  <2> SUFFICES ASSUME b \in Anc[newHead] PROVE FALSE
    OBVIOUS
  <2>1. root \in Anc[newHead]
    BY <1>3, <1>5, AncTransitive
  <2>2. newHead \in linked
    BY <2>1 DEF TreeOK
  <2> QED
    BY <2>2, <1>5 DEF TreeOK
<1>13. TreeOK'
  <2>1. \A g \in {cacheHead', newHead'} : g \in linked' \/ r \notin Anc[g]
    BY <1>2, <1>7, <1>8, <1>9, <1>11
  <2> QED
    BY <2>1, <1>1, <1>2, <1>10, <1>12 DEF TreeOK
<1>14. /\ h \in Block /\ Number[b] <= Number[h]
       /\ Longer(b, cacheHead) => h = b
  BY SMTT(40), <1>1, <1>3, ConstantTypes DEF Heads, Longer
<1>15. Longer(b, cacheHead) => cacheHead' = b
  BY <1>1, <1>7, <1>14
<1>16. Number[b] <= Number[cacheHead']
  <2>1. CASE cacheHead' = h
    BY <2>1, <1>14
  <2>2. CASE cacheHead' # h
    <3>1. cacheHead' \in linked' /\ Longer(cacheHead', h)
      BY <1>1, <2>2 DEF Heads
    <3>2. cacheHead' \in Block
      BY <1>3, <1>7, <3>1
    <3> QED
      BY SMTT(40), <1>14, <3>1, <3>2, ConstantTypes DEF Longer
  <2> QED
    BY <2>1, <2>2
<1> QED
  BY <1>2, <1>7, <1>8, <1>9, <1>13, <1>15, <1>16

\* What remains to be shown of a new block is that its times are in order, and that
\* it repeats no transaction.
LEMMA LinkInvariant ==
    ASSUME TInv, NEW b \in Block, adding = NoBlock, b \notin linked,
           Parent[b] \in linked, LinkBlock(b),
           made = NoBlock \/ (made = b /\ cacheHead' = b),
           Time[b] <= now + MaxBlockTimeGap,
           \A u \in Txs[b] : TxTime[u] <= Time[b],
           \A a \in Anc[Parent[b]] : Time[a] <= Time[b] + MaxBlockTimeGap,
           \/ gap
           \/ \A a \in Anc[b] \ {b} : \A t \in Txs[a] \cap Txs[b] :
                 \/ b \in own /\ IsExpired(t, Time[b] + 3 * MaxBlockTimeGap)
                 \/ ~Grows(b) /\ IsExpired(t, Time[b] + 2 * MaxBlockTimeGap)
    PROVE  TInv'
<1> /\ TTypeOK /\ TreeOK /\ TimesOK /\ ListedLate /\ ListedChain /\ HeadsOK /\ MadeOK
    /\ NoDoubleTx /\ PendingNotOnChain /\ NothingDropped
  BY DEF TInv
<1>1. /\ linked' \subseteq linked \cup {b} /\ root' \in linked'
      /\ cacheHead' \in linked' \cup {b, cacheHead} /\ Number[b] <= Number[cacheHead']
      /\ adding' = b /\ b \in linked'
      /\ UNCHANGED <<now, blockList, pending, newHead, made, own, accepted, lost, gap>>
      /\ TreeOK'
  BY LinkTree
<1>2. TTypeOK'
  BY <1>1 DEF TTypeOK
<1>3. Tips' \subseteq Tips \cup {b}
  BY <1>1 DEF Tips
<1>4. /\ Parent[b] \in Block /\ Parent[b] \in Tips
      /\ Anc[b] = Anc[Parent[b]] \cup {b}
  BY AncUnfold DEF TTypeOK, Tips
<1>5. ChainTimes(b, now)
  <2> SUFFICES ASSUME NEW k \in Anc[b]
               PROVE  /\ Time[k] <= now + MaxBlockTimeGap
                      /\ \A u \in Txs[k] : TxTime[u] <= Time[k]
                      /\ \A a \in Anc[k] : Time[a] <= Time[k] + MaxBlockTimeGap
    BY DEF ChainTimes
  <2>1. CASE k = b
    <3>1. Time[b] <= Time[b] + MaxBlockTimeGap
      BY SMTT(40), ConstantTypes
    <3> QED
      BY <2>1, <1>4, <3>1
  <2>2. CASE k \in Anc[Parent[b]]
    BY <2>2, <1>4 DEF TimesOK, ChainTimes
  <2> QED
    BY <1>4, <2>1, <2>2
<1>6. TimesOK'
  <2>1. \A x \in Tips' : ChainTimes(x, now)
    BY <1>3, <1>5 DEF TimesOK
  <2>2. (\A x \in Tips : ChainTimes(x, now))' <=> \A x \in Tips' : ChainTimes(x, now')
    BY DEF ChainTimes
  <2> QED
    BY <1>1, <2>1, <2>2 DEF TimesOK
<1>7. ListedLate'
  <2> SUFFICES ASSUME NEW x \in Tips', NEW k \in Anc[x] \ {Genesis, b}
               PROVE  k \in blockList \/ Time[k] < now + MaxBlockTimeGap - FilterTime
    BY <1>1 DEF ListedLate
  <2>1. \E y \in Tips : k \in Anc[y]
    BY SMTT(40), <1>3, <1>4
  <2>2. k # adding
    <3>1. k \in Block
      BY <2>1, TipsAreBlocks
    <3> QED
      BY <3>1, HeaderAssumption
  <2> QED
    BY <2>1, <2>2 DEF ListedLate
<1>8. ListedChain'
  <2> SUFFICES ASSUME ~gap, NEW x \in linked', NEW k \in Anc[x] \ {Genesis, b}
               PROVE  k \in blockList \/ \E r \in Anc[x] : Time[k] < Time[r] - FilterTime
    BY <1>1 DEF ListedChain
  <2>1. \E y \in linked : k \in Anc[y] /\ Anc[y] \subseteq Anc[x]
    BY SMTT(40), <1>1, <1>4
  <2>2. k # adding
    <3>1. k \in Block
      BY <2>1, AncUnfold DEF TTypeOK
    <3> QED
      BY <3>1, HeaderAssumption
  <2> QED
    BY <2>1, <2>2 DEF ListedChain
<1>9. NoDoubleTx'
  BY <1>1 DEF NoDoubleTx
<1>10. PendingNotOnChain' /\ NothingDropped'
  BY <1>1 DEF PendingNotOnChain, NothingDropped
<1>11. HeadsOK'
  BY <1>1, HeaderAssumption DEF HeadsOK
<1>12. MadeOK'
  BY <1>1, HeaderAssumption DEF MadeOK
<1> QED
  BY <1>1, <1>2, <1>6, <1>7, <1>8, <1>9, <1>10, <1>11, <1>12 DEF TInv

\* verifyBlock: what ExistTxs does not find on the parent's chain is on it only below
\* a block that is FilterTime older than another block of the chain.
LEMMA MissedChain ==
    ASSUME TInv, ~gap, adding = NoBlock, NEW p \in linked, NEW a \in Anc[p],
           NEW t \in Txs[a], ~ExistTxs(t, p)
    PROVE  \E k, r \in Anc[p] : a \in Anc[k] /\ Time[k] < Time[r] - FilterTime
<1> /\ TTypeOK /\ TreeOK /\ TimesOK /\ ListedLate /\ ListedChain /\ HeadsOK /\ MadeOK
    /\ NoDoubleTx /\ PendingNotOnChain /\ NothingDropped
  BY DEF TInv
<1>1. p \in Block /\ Anc[p] \subseteq Block /\ p \in Anc[p]
  BY AncUnfold DEF TTypeOK
<1> DEFINE l == Time[p] - FilterTime
<1>2. l \in Int
  BY SMTT(40), <1>1, ConstantTypes
<1>3. a \notin Since(blockList, p, l)
  BY DEF ExistTxs, Walked
<1>4. PICK k \in Anc[p] : a \in Anc[k] /\ (k \notin blockList \/ Time[k] < l)
  BY <1>1, <1>2, <1>3, WalkEnds
<1>5. CASE k \notin blockList
  <2>1. k # Genesis /\ k # adding
    BY <1>1, <1>4, GenesisAlone, GenesisEmpty, HeaderAssumption
  <2>2. \E r \in Anc[p] : Time[k] < Time[r] - FilterTime
    BY <1>5, <2>1 DEF ListedChain
  <2> QED
    BY <1>4, <2>2
<1>6. CASE Time[k] < l
  BY <1>1, <1>4, <1>6
<1> QED
  BY <1>4, <1>5, <1>6

LEMMA AddBlockInvariant ==
    ASSUME TInv, NEW b \in Block, AddBlock(b)
    PROVE  TInv'
<1> DEFINE p == Parent[b]
           G == MaxBlockTimeGap
<1>1. /\ adding = NoBlock /\ made = NoBlock /\ b \notin linked /\ p \in linked
      /\ Time[b] <= now + G /\ Time[b] > Time[p]
      /\ \A t \in Txs[b] :
            ~ExistTxs(t, p) /\ TxTime[t] <= Time[b] /\ ~IsExpired(t, Time[b])
      /\ LinkBlock(b)
  BY DEF AddBlock, VerifyBlock
<1>2. TTypeOK /\ TimesOK /\ p \in Tips
  BY <1>1 DEF TInv, Tips
<1>3. p \in Block /\ Anc[p] \subseteq Block /\ p \in Anc[p] /\ Anc[b] = Anc[p] \cup {b}
  <2>1. p \in Block
    BY <1>2, TipsAreBlocks
  <2> QED
    BY <2>1, AncUnfold
<1>4. ASSUME NEW a \in Anc[p] PROVE Time[a] <= Time[b] + G
  <2>1. Time[a] <= Time[p] + G
    BY <1>2, <1>3 DEF TimesOK, ChainTimes
  <2> QED
    BY SMTT(40), <1>1, <1>3, <2>1, ConstantTypes
<1>5. ASSUME ~gap, NEW a \in Anc[b] \ {b}, NEW t \in Txs[a] \cap Txs[b]
      PROVE  ~Grows(b) /\ IsExpired(t, Time[b] + 2 * G)
  <2>1. a \in Anc[p] /\ a \in Block /\ t \in Tx
    BY <1>3, <1>5, ConstantTypes
  <2>2. PICK k \in Anc[p], r \in Anc[p] : a \in Anc[k] /\ Time[k] < Time[r] - FilterTime
    BY <1>1, <1>5, <2>1, MissedChain
  <2>3. k \in Block /\ r \in Block
    BY <1>3, <2>2
  <2>4. TxTime[t] <= Time[a]
    BY <1>2, <2>1 DEF TimesOK, ChainTimes
  <2>5. ~Grows(b)
    <3> SUFFICES ASSUME Grows(b) PROVE FALSE
      OBVIOUS
    <3>1. Time[a] <= Time[k]
      BY <1>3, <2>2, GrowsOrders
    <3>2. Time[r] <= Time[p]
      BY <1>3, <2>2, GrowsOrders
    <3>3. TxTime[t] < Time[b] - FilterTime
      BY SMTT(40), <1>1, <1>3, <2>1, <2>2, <2>3, <2>4, <3>1, <3>2, ConstantTypes
    <3>4. IsExpired(t, Time[b])
      BY SMTT(40), <2>1, <3>3, ConstantTypes, ExpiredOld
    <3> QED
      BY <1>1, <1>5, <3>4
  <2>6. IsExpired(t, Time[b] + 2 * G)
    <3>1. Time[a] <= Time[k] + G
      BY <1>2, <2>2 DEF TimesOK, ChainTimes
    <3>2. Time[r] <= Time[b] + G
      BY <1>4
    <3>3. TxTime[t] < (Time[b] + 2 * G) - FilterTime
      BY SMTT(40), <2>1, <2>2, <2>3, <2>4, <3>1, <3>2, ConstantTypes
    <3>4. Time[b] + 2 * G \in Int
      BY SMTT(40), ConstantTypes
    <3> QED
      BY <2>1, <3>3, <3>4, ExpiredOld
  <2> QED
    BY <2>5, <2>6
<1>6. \/ gap
      \/ \A a \in Anc[b] \ {b} : \A t \in Txs[a] \cap Txs[b] :
            ~Grows(b) /\ IsExpired(t, Time[b] + 2 * G)
  BY <1>5
<1> QED
  BY <1>1, <1>4, <1>6, LinkInvariant

LEMMA GenerateBlockInvariant ==
    ASSUME TInv, NEW b \in Block, GenerateBlock(b)
    PROVE  TInv'
<1> DEFINE G == MaxBlockTimeGap
<1> /\ TTypeOK /\ TreeOK /\ TimesOK /\ ListedLate /\ ListedChain /\ HeadsOK /\ MadeOK
    /\ NoDoubleTx /\ PendingNotOnChain /\ NothingDropped
  BY DEF TInv
<1>1. /\ adding = NoBlock /\ made = NoBlock
      /\ b \notin linked /\ Parent[b] = newHead /\ Number[b] = Number[newHead] + 1
      /\ Time[b] = now
      /\ \A t \in Txs[b] : t \in pending /\ TxTime[t] <= Time[b]
      /\ made' = b /\ own' = own \cup {b}
      /\ UNCHANGED <<now, linked, root, cacheHead, adding, blockList, newHead, lost, gap>>
  BY DEF GenerateBlock, cacheVars
<1>2. PICK bad : pending' = pending \ (Txs[b] \cup bad) /\ accepted' = accepted \ bad
  BY DEF GenerateBlock, Close
<1>3. now \in Nat /\ newHead \in Block /\ newHead \in Tips
  BY DEF TTypeOK, Tips
<1>4. TTypeOK'
  BY <1>1, <1>2 DEF TTypeOK
<1>5. Tips' = Tips
  BY <1>1 DEF Tips
<1>6. TreeOK' /\ HeadsOK'
  BY SMTT(40), <1>1, TreeKept DEF HeadsOK, cacheVars
<1>7. TimesOK'
  <2>1. \A c \in own' : Time[c] <= now
    <3>1. Time[b] <= now
      BY SMTT(40), <1>1, <1>3
    <3> QED
      BY <1>1, <3>1 DEF TimesOK
  <2> QED
    BY <1>1, <1>5, <2>1 DEF TimesOK, ChainTimes
<1>8. ListedLate' /\ ListedChain'
  BY <1>1, <1>5 DEF ListedLate, ListedChain
<1>9. NoDoubleTx' /\ PendingNotOnChain' /\ NothingDropped'
  <2>1. NoDoubleTx' /\ PendingNotOnChain'
    BY <1>1, <1>2 DEF NoDoubleTx, PendingNotOnChain
  <2>2. made \notin Block
    BY <1>1, HeaderAssumption
  <2>3. NothingDropped'
    BY <1>1, <1>2, <2>2 DEF NothingDropped
  <2> QED
    BY <2>1, <2>3
<1>10. MadeOK'
  <2>1. \A a \in Anc[newHead] : Time[a] <= Time[b] + G
    BY <1>1, <1>3 DEF TimesOK, ChainTimes
  <2>2. gap \/ \A a \in Anc[newHead] : \A t \in Txs[a] \cap Txs[b] :
                  IsExpired(t, Time[b] + 3 * G)
    BY <1>1 DEF PendingNotOnChain
  <2> QED
    BY <1>1, <2>1, <2>2 DEF MadeOK
<1> QED
  BY <1>4, <1>6, <1>7, <1>8, <1>9, <1>10 DEF TInv

\* Our own block is higher than the head of the cache, which is its parent.
LEMMA AddOwnInvariant == TInv /\ AddOwn => TInv'
<1> SUFFICES ASSUME TInv, AddOwn PROVE TInv'
  OBVIOUS
<1> DEFINE G == MaxBlockTimeGap
<1>1. PICK b \in Block : b = made
  BY DEF AddOwn
<1>2. /\ adding = NoBlock /\ Parent[b] \in linked /\ LinkBlock(b) /\ NoBlock \notin Block
  BY <1>1, HeaderAssumption DEF AddOwn
<1>3. /\ Parent[b] = newHead /\ Number[b] = Number[newHead] + 1 /\ newHead = cacheHead
      /\ b \in own /\ b \notin linked
      /\ \A u \in Txs[b] : TxTime[u] <= Time[b]
      /\ \A a \in Anc[newHead] : Time[a] <= Time[b] + G
      /\ gap \/ \A a \in Anc[newHead] : \A t \in Txs[a] \cap Txs[b] :
                   IsExpired(t, Time[b] + 3 * G)
  BY <1>1, <1>2 DEF TInv, MadeOK, HeadsOK
<1>4. now \in Nat /\ cacheHead \in Block /\ Time[b] <= now
  BY <1>3 DEF TInv, TTypeOK, TimesOK
<1>5. Time[b] <= now + G
  BY SMTT(40), <1>4, ConstantTypes
<1>6. Longer(b, cacheHead)
  BY SMTT(40), <1>3, <1>4, ConstantTypes DEF Longer
<1>7. cacheHead' = b
  BY <1>2, <1>3, <1>6, LinkTree
<1>8. \A a \in Anc[b] \ {b} : a \in Anc[newHead]
  BY <1>3, <1>4, AncUnfold
<1>9. \/ gap
      \/ \A a \in Anc[b] \ {b} : \A t \in Txs[a] \cap Txs[b] :
            b \in own /\ IsExpired(t, Time[b] + 3 * G)
  BY <1>3, <1>8
<1> QED
  BY <1>1, <1>2, <1>3, <1>5, <1>7, <1>9, LinkInvariant

LEMMA AddOwnFailsInvariant == TInv /\ AddOwnFails => TInv'
<1> SUFFICES ASSUME TInv, AddOwnFails PROVE TInv'
  OBVIOUS
<1> /\ TTypeOK /\ TreeOK /\ TimesOK /\ ListedLate /\ ListedChain /\ HeadsOK /\ MadeOK
    /\ NoDoubleTx /\ PendingNotOnChain /\ NothingDropped
  BY DEF TInv
<1>1. /\ made' = NoBlock /\ lost' = lost \cup Txs[made]
      /\ UNCHANGED <<now, cacheVars, linked, cacheHead, root, adding, blockList, pending,
                     newHead, own, accepted, gap>>
  BY DEF AddOwnFails, cacheVars, poolVars
<1>2. TTypeOK' /\ HeadsOK' /\ MadeOK'
  BY <1>1, HeaderAssumption DEF TTypeOK, HeadsOK, MadeOK
<1>3. TreeOK' /\ TimesOK' /\ ListedLate' /\ ListedChain' /\ NoDoubleTx'
  BY <1>1, BlocksKept
<1>4. PendingNotOnChain' /\ NothingDropped'
  BY <1>1 DEF PendingNotOnChain, NothingDropped
<1> QED
  BY <1>2, <1>3, <1>4 DEF TInv

-----------------------------------------------------------------------------
(* The pool follows the head. *)

\* findForkBCN: a fork is only found between heads that are both in the cache.
LEMMA ForkInCache ==
    ASSUME NEW x, NEW y, x # y, Up(x) \cap Up(y) # {}
    PROVE  x \in linked /\ y \in linked
BY DEF Up

\* Of two chains in the cache, what is on one and not on the other is in the cache.
LEMMA ForkAboveRoot ==
    ASSUME TInv, NEW x \in linked, NEW y \in linked, NEW a \in Anc[x], a \notin Anc[y]
    PROVE  a \in Up(x) \ Up(y)
<1> /\ TTypeOK /\ TreeOK /\ TimesOK /\ ListedLate /\ ListedChain /\ HeadsOK /\ MadeOK
    /\ NoDoubleTx /\ PendingNotOnChain /\ NothingDropped
  BY DEF TInv
<1>1. /\ x \in Block /\ y \in Block /\ a \in Block
      /\ root \in Anc[x] /\ root \in Anc[y]
  BY AncUnfold DEF TTypeOK, TreeOK
<1>2. root \in Anc[a]
  <2>1. a \in Anc[root] \/ root \in Anc[a]
    BY <1>1, AncLinear
  <2>2. Anc[root] \subseteq Anc[y]
    BY <1>1, AncTransitive
  <2> QED
    BY <2>1, <2>2
<1>3. a \in linked
  BY <1>2 DEF TreeOK
<1> QED
  BY <1>3 DEF Up

\* doChainChangeByForkBCN: the walk down to the fork only misses what is expired soon.
LEMMA MissedFork ==
    ASSUME TInv, NEW x \in linked, NEW y \in linked, NEW a \in Anc[x], a \notin Anc[y],
           NEW t \in Txs[a], a \notin Since(Up(x) \ Up(y), x, now - FilterTime)
    PROVE  IsExpired(t, now + MaxBlockTimeGap)
<1>1. TTypeOK /\ TimesOK /\ x \in Tips /\ now \in Int
  BY SMTT(40) DEF TInv, TTypeOK, Tips
<1>2. x \in Block /\ y \in Block
  BY <1>1 DEF TTypeOK
<1> DEFINE l == now - FilterTime
<1>3. l \in Int
  BY SMTT(40), <1>1, ConstantTypes
<1>4. PICK k \in Anc[x] : a \in Anc[k] /\ (k \notin Up(x) \ Up(y) \/ Time[k] < l)
  BY <1>2, <1>3, WalkEnds
<1>5. k \notin Anc[y]
  BY <1>2, <1>4, AncTransitive
<1>6. k \in Up(x) \ Up(y)
  BY <1>4, <1>5, ForkAboveRoot
<1> QED
  BY <1>1, <1>4, <1>6, OldBelow

\* A transaction that comes back from the old fork and is on the common part of the
\* chains was repeated on the old one.
LEMMA RepeatedOnFork ==
    ASSUME TInv, ~gap, NEW x \in linked, NEW y \in linked, NEW a \in Anc[x] \cap Anc[y],
           NEW t \in Txs[a], t \in Recent(Up(y) \ Up(x), y)
    PROVE  IsExpired(t, now + 3 * MaxBlockTimeGap)
<1> DEFINE G == MaxBlockTimeGap
<1> /\ TTypeOK /\ TreeOK /\ TimesOK /\ ListedLate /\ ListedChain /\ HeadsOK /\ MadeOK
    /\ NoDoubleTx /\ PendingNotOnChain /\ NothingDropped
  BY DEF TInv
<1>1. x \in Block /\ y \in Block /\ now \in Nat
  BY DEF TTypeOK
<1>2. PICK c \in Since(Up(y) \ Up(x), y, now - FilterTime) : t \in Txs[c]
  BY DEF Recent
<1>3. c \in Anc[y] /\ c \in Up(y) \ Up(x)
  <2>1. c \in Anc[y]
    BY <1>2 DEF Since
  <2> QED
    BY <1>2, <2>1 DEF Since, Down
<1>4. c \in Block /\ c \in linked /\ c \notin Anc[x] /\ t \in Tx
  BY <1>1, <1>2, <1>3, AncUnfold, ConstantTypes DEF Up
<1>5. a \in Anc[c] \ {c}
  <2>1. a \in Anc[c] \/ c \in Anc[a]
    BY <1>1, <1>3, AncLinear
  <2>2. c \notin Anc[a]
    BY <1>1, <1>4, AncTransitive
  <2> QED
    BY <2>1, <2>2, <1>4
<1>6. \/ c \in own /\ IsExpired(t, Time[c] + 3 * G)
      \/ IsExpired(t, Time[c] + 2 * G)
  BY <1>2, <1>4, <1>5 DEF NoDoubleTx
<1>7. CASE c \in own /\ IsExpired(t, Time[c] + 3 * G)
  <2>1. Time[c] <= now
    BY <1>7 DEF TimesOK
  <2>2. /\ Time[c] + 3 * G \in Int /\ now + 3 * G \in Int
        /\ Time[c] + 3 * G <= now + 3 * G
    BY SMTT(40), <2>1, <1>1, <1>4, ConstantTypes
  <2> QED
    BY <1>4, <1>7, <2>2, ExpiredLater
<1>8. CASE IsExpired(t, Time[c] + 2 * G)
  <2>1. Time[c] <= now + G
    BY <1>4, AncUnfold DEF TimesOK, ChainTimes, Tips
  <2>2. /\ Time[c] + 2 * G \in Int /\ now + 3 * G \in Int
        /\ Time[c] + 2 * G <= now + 3 * G
    BY SMTT(40), <2>1, <1>1, <1>4, ConstantTypes
  <2> QED
    BY <1>4, <1>8, <2>2, ExpiredLater
<1> QED
  BY <1>6, <1>7, <1>8

\* AddLinkedNode lists the block: what is known of blocks and times is kept.
LEMMA NodeBlocks ==
    ASSUME TInv, AddLinkedNode
    PROVE  /\ newHead' = cacheHead /\ newHead' \in Tips
           /\ blockList' = blockList \cup {adding} /\ adding' = NoBlock /\ made' = NoBlock
           /\ UNCHANGED <<now, linked, root, cacheHead, own, accepted, lost, gap>>
           /\ HeadsOK' /\ MadeOK'
           /\ TreeOK' /\ TimesOK' /\ ListedLate' /\ ListedChain' /\ NoDoubleTx'
<1> /\ TTypeOK /\ TreeOK /\ TimesOK /\ ListedLate /\ ListedChain /\ HeadsOK /\ MadeOK
    /\ NoDoubleTx /\ PendingNotOnChain /\ NothingDropped
  BY DEF TInv
<1>1. /\ adding \in linked /\ adding \in Block
      /\ blockList' = blockList \cup {adding} /\ adding' = NoBlock /\ made' = NoBlock
      /\ UNCHANGED <<now, linked, root, cacheHead, own, accepted, lost, gap>>
  <2>1. adding \in Block
    BY DEF AddLinkedNode
  <2>2. adding \in linked
    BY <2>1, HeaderAssumption DEF TTypeOK
  <2> QED
    BY <2>1, <2>2 DEF AddLinkedNode, cacheVars
<1>2. newHead' = cacheHead
  <2>1. cacheHead \in Block /\ Number[adding] <= Number[cacheHead]
    BY <1>1 DEF TTypeOK, HeadsOK
  <2>2. ~(Number[adding] > Number[cacheHead])
    BY SMTT(40), <1>1, <2>1, ConstantTypes
  <2> QED
    BY <2>2 DEF AddLinkedNode
<1>3. newHead' \in Tips /\ Tips' \subseteq Tips
  BY <1>1, <1>2 DEF Tips
<1>4. newHead' \in Block /\ NoBlock \notin Anc[newHead']
  BY <1>3, TipsAreBlocks, HeaderAssumption
<1>5. TreeOK'
  <2>1. newHead' \in linked \/ root \notin Anc[newHead']
    BY <1>1, <1>2 DEF TreeOK
  <2> QED
    BY <1>1, <1>4, <2>1 DEF TreeOK
<1>6. TimesOK'
  BY <1>1, <1>3 DEF TimesOK, ChainTimes
<1>7. ListedLate'
  BY <1>1, <1>3 DEF ListedLate
<1>8. ListedChain' /\ NoDoubleTx'
  BY <1>1 DEF ListedChain, NoDoubleTx
<1>9. HeadsOK' /\ MadeOK'
  BY <1>1, <1>2, HeaderAssumption DEF HeadsOK, MadeOK
<1> QED
  BY <1>1, <1>2, <1>3, <1>5, <1>6, <1>7, <1>8, <1>9

\* Recent: the transactions of some blocks of the chain.
LEMMA RecentOnChain ==
    ASSUME NEW S, NEW b \in Block
    PROVE  /\ Recent(S, b) \subseteq Tx
           /\ \A t \in Recent(S, b) : \E a \in Anc[b] : t \in Txs[a]
<1>1. Since(S, b, now - FilterTime) \subseteq Anc[b]
  BY DEF Since
<1> QED
  BY SMTT(40), <1>1, AncUnfold, ConstantTypes DEF Recent

\* Grace periods: what is expired after one or two gaps is expired after two or three.
LEMMA Graces ==
    ASSUME now \in Nat, NEW t \in Tx
    PROVE  /\ IsExpired(t, now + MaxBlockTimeGap) =>
                 IsExpired(t, now + 2 * MaxBlockTimeGap)
           /\ IsExpired(t, now + 2 * MaxBlockTimeGap) =>
                 IsExpired(t, now + 3 * MaxBlockTimeGap)
<1> DEFINE c == now + MaxBlockTimeGap
           d == now + 2 * MaxBlockTimeGap
           e == now + 3 * MaxBlockTimeGap
<1>1. c \in Int /\ d \in Int /\ e \in Int /\ c <= d /\ d <= e
  BY SMTT(40), ConstantTypes
<1> HIDE DEF c, d, e
<1>2. (IsExpired(t, c) => IsExpired(t, d)) /\ (IsExpired(t, d) => IsExpired(t, e))
  BY <1>1, ExpiredLater
<1> QED
  BY <1>2 DEF c, d, e

\* A change of head within the cache.
LEMMA ForkChange ==
    ASSUME TInv, NEW x \in linked, newHead \in linked,
           pending' = DoChainChangeByForkBCN(x, newHead)
    PROVE  /\ pending' \subseteq Tx
           /\ \/ gap
              \/ \A t \in pending' :
                    \/ IsExpired(t, now + 3 * MaxBlockTimeGap)
                    \/ \A a \in Anc[x] : t \notin Txs[a]
           /\ \A t \in Tx :
                    t \in pending \/ (\E a \in Anc[newHead] : t \in Txs[a]) =>
                       \/ IsExpired(t, now + 2 * MaxBlockTimeGap)
                       \/ t \in pending'
                       \/ \E a \in Anc[x] : t \in Txs[a]
<1> DEFINE y == newHead
           back == Recent(Up(y) \ Up(x), y)
           gone == Recent(Up(x) \ Up(y), x)
<1>1. /\ x \in Block /\ y \in Block /\ now \in Nat
      /\ pending \subseteq Tx /\ accepted \subseteq Tx
  BY DEF TInv, TTypeOK
<1>2. pending' = (pending \cup back) \ gone
  BY DEF DoChainChangeByForkBCN
<1>3. back \subseteq Tx /\ \A t \in gone : \E a \in Anc[x] : t \in Txs[a]
  BY <1>1, RecentOnChain
<1>4. ASSUME ~gap, NEW t \in pending', NEW a \in Anc[x], t \in Txs[a]
      PROVE  IsExpired(t, now + 3 * MaxBlockTimeGap)
  <2>1. t \in Tx
    BY <1>1, <1>2, <1>3, <1>4
  <2>2. CASE a \notin Anc[y]
    <3>1. a \notin Since(Up(x) \ Up(y), x, now - FilterTime)
      BY <1>2, <1>4 DEF Recent
    <3>2. IsExpired(t, now + MaxBlockTimeGap)
      BY <1>4, <2>2, <3>1, MissedFork
    <3> QED
      BY <1>1, <2>1, <3>2, Graces
  <2>3. CASE a \in Anc[y] /\ t \in pending
    BY <1>4, <2>3 DEF TInv, PendingNotOnChain
  <2>4. CASE a \in Anc[y] /\ t \in back
    BY <1>4, <2>4, RepeatedOnFork
  <2> QED
    BY <1>2, <1>4, <2>2, <2>3, <2>4
<1>5. ASSUME NEW t \in Tx, t \in pending \/ \E a \in Anc[y] : t \in Txs[a]
      PROVE  \/ IsExpired(t, now + 2 * MaxBlockTimeGap)
             \/ t \in pending'
             \/ \E a \in Anc[x] : t \in Txs[a]
  <2>1. CASE t \in pending
    BY <2>1, <1>2, <1>3
  <2>2. ASSUME NEW a \in Anc[y], t \in Txs[a], a \notin Anc[x]
        PROVE  t \in back \/ IsExpired(t, now + 2 * MaxBlockTimeGap)
    <3>1. CASE a \in Since(Up(y) \ Up(x), y, now - FilterTime)
      BY <2>2, <3>1 DEF Recent
    <3>2. CASE a \notin Since(Up(y) \ Up(x), y, now - FilterTime)
      <4>1. IsExpired(t, now + MaxBlockTimeGap)
        BY <2>2, <3>2, MissedFork
      <4> QED
        BY <4>1, <1>1, <1>5, Graces
    <3> QED
      BY <3>1, <3>2
  <2> QED
    BY <1>2, <1>3, <1>5, <2>1, <2>2
<1> QED
  BY <1>1, <1>2, <1>3, <1>4, <1>5

\* A change of head away from a pruned fork.
LEMMA TimeoutChange ==
    ASSUME TInv, NEW x \in Tips, adding \in Block,
           pending' = DoChainChangeByTimeout(blockList \cup {adding}, x, newHead)
    PROVE  /\ pending' \subseteq Tx
           /\ \A t \in pending' :
                    \/ IsExpired(t, now + 3 * MaxBlockTimeGap)
                    \/ \A a \in Anc[x] : t \notin Txs[a]
           /\ \A t \in Tx :
                    t \in pending \/ (\E a \in Anc[newHead] : t \in Txs[a]) =>
                       \/ IsExpired(t, now + 2 * MaxBlockTimeGap)
                       \/ t \in pending'
                       \/ \E a \in Anc[x] : t \in Txs[a]
<1> DEFINE y == newHead
           list == blockList \cup {adding}
           back == Recent(list, y)
           gone == Recent(list, x)
           l == now - FilterTime
<1>1. /\ x \in Block /\ y \in Block /\ y \in Tips /\ now \in Nat
      /\ pending \subseteq Tx /\ accepted \subseteq Tx
  BY TipsAreBlocks DEF TInv, TTypeOK, Tips
<1>2. pending' = (pending \cup back) \ gone
  BY DEF DoChainChangeByTimeout
<1>3. back \subseteq Tx /\ \A t \in gone : \E a \in Anc[x] : t \in Txs[a]
  BY <1>1, RecentOnChain
<1>4. l \in Int /\ l <= now + MaxBlockTimeGap - FilterTime
  BY SMTT(40), <1>1, ConstantTypes
<1>5. ASSUME NEW z \in Tips, NEW a \in Anc[z], NEW t \in Txs[a], a \notin Since(list, z, l)
      PROVE  IsExpired(t, now + 2 * MaxBlockTimeGap)
  <2>1. blockList \subseteq list /\ adding \in list
    OBVIOUS
  <2> HIDE DEF list, l
  <2> QED
    BY <1>4, <1>5, <2>1, MissedLate
<1>6. ASSUME NEW t \in pending', NEW a \in Anc[x], t \in Txs[a]
      PROVE  IsExpired(t, now + 3 * MaxBlockTimeGap)
  <2>1. t \in Tx
    BY <1>1, <1>2, <1>3, <1>6
  <2>2. a \notin Since(list, x, l)
    BY <1>2, <1>6 DEF Recent
  <2>3. IsExpired(t, now + 2 * MaxBlockTimeGap)
    BY <1>5, <1>6, <2>2
  <2> QED
    BY <1>1, <2>1, <2>3, Graces
<1>7. ASSUME NEW t \in Tx, t \in pending \/ \E a \in Anc[y] : t \in Txs[a]
      PROVE  \/ IsExpired(t, now + 2 * MaxBlockTimeGap)
             \/ t \in pending'
             \/ \E a \in Anc[x] : t \in Txs[a]
  <2>1. ASSUME NEW a \in Anc[y], t \in Txs[a]
        PROVE  t \in back \/ IsExpired(t, now + 2 * MaxBlockTimeGap)
    <3>1. CASE a \in Since(list, y, l)
      BY <2>1, <3>1 DEF Recent
    <3>2. CASE a \notin Since(list, y, l)
      BY <1>1, <1>5, <2>1, <3>2
    <3> QED
      BY <3>1, <3>2
  <2> QED
    BY <1>2, <1>3, <1>7, <2>1
<1> QED
  BY <1>1, <1>2, <1>3, <1>6, <1>7

LEMMA AddLinkedNodeInvariant == TInv /\ AddLinkedNode => TInv'
<1> SUFFICES ASSUME TInv, AddLinkedNode PROVE TInv'
  OBVIOUS
<1> DEFINE x == newHead'
<1>1. /\ x = cacheHead /\ x \in Tips
      /\ blockList' = blockList \cup {adding} /\ adding' = NoBlock /\ made' = NoBlock
      /\ UNCHANGED <<now, linked, root, cacheHead, own, accepted, lost, gap>>
      /\ TreeOK' /\ TimesOK' /\ ListedLate' /\ ListedChain' /\ NoDoubleTx'
      /\ HeadsOK' /\ MadeOK'
  BY NodeBlocks
<1>2. adding \in Block /\ x \in Block
  BY <1>1, TipsAreBlocks DEF AddLinkedNode, TInv
<1>3. /\ pending' \subseteq Tx
      /\ \/ gap
         \/ \A t \in pending' :
               \/ IsExpired(t, now + 3 * MaxBlockTimeGap)
               \/ \A a \in Anc[x] : t \notin Txs[a]
      /\ \A t \in Tx :
               t \in pending \/ (\E a \in Anc[newHead] : t \in Txs[a]) =>
                  \/ IsExpired(t, now + 2 * MaxBlockTimeGap)
                  \/ t \in pending'
                  \/ \E a \in Anc[x] : t \in Txs[a]
  <2>1. CASE x = newHead
    <3>1. pending' = pending
      BY <2>1 DEF AddLinkedNode
    <3> QED
      BY <2>1, <3>1 DEF TInv, TTypeOK, PendingNotOnChain
  <2>2. CASE x # newHead /\ Up(x) \cap Up(newHead) # {}
    <3>1. pending' = DoChainChangeByForkBCN(x, newHead)
      BY <2>2 DEF AddLinkedNode
    <3>2. x \in linked /\ newHead \in linked
      BY <2>2, ForkInCache
    <3> HIDE DEF x
    <3> QED
      BY <3>1, <3>2, ForkChange
  <2>3. CASE x # newHead /\ Up(x) \cap Up(newHead) = {}
    <3>1. pending' = DoChainChangeByTimeout(blockList \cup {adding}, x, newHead)
      BY <2>3, <1>1 DEF AddLinkedNode
    <3> HIDE DEF x
    <3> QED
      BY <3>1, <1>1, <1>2, TimeoutChange
  <2> QED
    BY <2>1, <2>2, <2>3
<1>4. TTypeOK'
  BY <1>1, <1>2, <1>3 DEF TInv, TTypeOK
<1>5. made \in Block => \A t \in Txs[made] : \E a \in Anc[x] : t \in Txs[a]
  <2> SUFFICES ASSUME made \in Block PROVE made \in Anc[x]
    OBVIOUS
  <2>1. cacheHead = made
    BY <1>2, HeaderAssumption DEF TInv, MadeOK
  <2> QED
    BY <1>1, <1>2, <2>1, AncUnfold
<1>6. PendingNotOnChain'
  BY <1>1, <1>3 DEF PendingNotOnChain
<1>7. NothingDropped'
  <2> SUFFICES ASSUME NEW t \in accepted
               PROVE  \/ IsExpired(t, now + 2 * MaxBlockTimeGap)
                      \/ t \in pending'
                      \/ \E a \in Anc[x] : t \in Txs[a]
                      \/ t \in lost
    BY <1>1 DEF NothingDropped
  <2>1. t \in Tx /\ NothingDropped
    BY DEF TInv, TTypeOK
  <2> QED
    BY <1>3, <1>5, <2>1 DEF NothingDropped
<1> QED
  BY <1>1, <1>4, <1>6, <1>7 DEF TInv

-----------------------------------------------------------------------------
(* The start, and a restart. *)

LEMMA InitInvariant == TInit => TInv
<1> SUFFICES ASSUME TInit PROVE TInv
  OBVIOUS
<1>1. /\ now = Time[Genesis] /\ linked = {Genesis} /\ root = Genesis
      /\ cacheHead = Genesis /\ newHead = Genesis /\ adding = NoBlock
      /\ made = NoBlock /\ blockList = {} /\ pending = {} /\ own = {} /\ accepted = {} /\ gap = FALSE
  BY DEF TInit
<1>2. /\ Genesis \in Block /\ Anc[Genesis] = {Genesis} /\ NoBlock # Genesis
      /\ Time[Genesis] \in Nat /\ MaxBlockTimeGap \in Nat /\ Txs[Genesis] = {}
  BY GenesisAlone, GenesisEmpty, ConstantTypes, HeaderAssumption
<1>3. TTypeOK /\ TreeOK
  BY <1>1, <1>2 DEF TTypeOK, TreeOK
<1>4. Tips = {Genesis}
  BY <1>1 DEF Tips
<1>5. TimesOK
  BY SMTT(40), <1>1, <1>2, <1>4 DEF TimesOK, ChainTimes
<1>6. ListedLate /\ ListedChain
  BY <1>1, <1>2, <1>4 DEF ListedLate, ListedChain
<1>7. NoDoubleTx /\ PendingNotOnChain /\ NothingDropped
  BY <1>1, <1>2 DEF NoDoubleTx, PendingNotOnChain, NothingDropped
<1>8. HeadsOK /\ MadeOK
  BY <1>1, HeaderAssumption DEF HeadsOK, MadeOK
<1> QED
  BY <1>3, <1>5, <1>6, <1>7, <1>8 DEF TInv

LEMMA RestartInvariant == TInv /\ Restart => TInv'
<1> SUFFICES ASSUME TInv, Restart PROVE TInv'
  OBVIOUS
<1> /\ TTypeOK /\ TreeOK /\ TimesOK /\ ListedLate /\ ListedChain /\ HeadsOK /\ MadeOK
    /\ NoDoubleTx /\ PendingNotOnChain /\ NothingDropped
  BY DEF TInv
<1>1. /\ linked' = {root} /\ cacheHead' = root /\ newHead' = root /\ adding' = NoBlock
      /\ made' = NoBlock
      /\ blockList' = InitBlockTx /\ pending' = {} /\ accepted' = {}
      /\ UNCHANGED <<now, root, own>>
  BY DEF Restart
<1>2. ~gap' => /\ ~gap
               /\ \A k \in Anc[root] \ {Genesis} :
                     k \in InitBlockTx \/ ~(Time[k] >= Time[root] - FilterTime)
  BY DEF Restart
<1>3. /\ root \in Block /\ Anc[root] \subseteq Block /\ root \in Anc[root]
      /\ root \in linked /\ root \in Tips /\ now \in Nat
  BY AncUnfold DEF TTypeOK, Tips
<1>4. InitBlockTx \subseteq Block
  BY <1>3 DEF InitBlockTx, Since
<1>5. gap' \in BOOLEAN
  BY DEF Restart, TTypeOK
<1>6. TTypeOK'
  BY <1>1, <1>3, <1>4, <1>5 DEF TTypeOK
<1>7. TreeOK'
  <2>1. \A k \in Anc[root] : root \in Anc[k] => k = root
    BY <1>3, AncAntisymmetric
  <2>2. NoBlock \notin Anc[root]
    BY <1>3, HeaderAssumption
  <2> QED
    BY <1>1, <1>3, <2>1, <2>2 DEF TreeOK
<1>8. Tips' = {root}
  BY <1>1 DEF Tips
<1>9. TimesOK'
  BY <1>1, <1>3, <1>8 DEF TimesOK, ChainTimes
<1>10. ASSUME NEW k \in Anc[root], k # Genesis, k \notin InitBlockTx
       PROVE  Time[k] < now + MaxBlockTimeGap - FilterTime
  <2> DEFINE l == now - FilterTime
  <2>1. l \in Int
    BY SMTT(40), <1>3, ConstantTypes
  <2>2. PICK j \in Anc[root] :
           k \in Anc[j] /\ (j \notin Anc[root] \ {Genesis} \/ Time[j] < l)
    BY <1>3, <1>10, <2>1, WalkEnds DEF InitBlockTx
  <2>3. Time[j] < l
    BY SMTT(40), <1>10, <2>2, GenesisAlone
  <2>4. Time[k] <= Time[j] + MaxBlockTimeGap
    BY <1>3, <2>2 DEF TimesOK, ChainTimes
  <2> QED
    BY SMTT(40), <1>3, <2>1, <2>2, <2>3, <2>4, ConstantTypes
<1>11. ListedLate'
  BY <1>1, <1>8, <1>10 DEF ListedLate
<1>12. ListedChain'
  <2> SUFFICES ASSUME ~gap', NEW k \in Anc[root] \ {Genesis}, k \notin InitBlockTx
               PROVE  Time[k] < Time[root] - FilterTime
    BY <1>1, <1>3 DEF ListedChain
  <2>1. ~(Time[k] >= Time[root] - FilterTime)
    BY <1>2
  <2> QED
    BY SMTT(40), <1>3, <2>1, ConstantTypes
<1>13. NoDoubleTx'
  BY <1>1, <1>2, <1>3 DEF NoDoubleTx
<1>14. PendingNotOnChain' /\ NothingDropped'
  BY <1>1 DEF PendingNotOnChain, NothingDropped
<1>15. HeadsOK' /\ MadeOK'
  BY <1>1, HeaderAssumption DEF HeadsOK, MadeOK
<1> QED
  BY <1>6, <1>7, <1>9, <1>11, <1>12, <1>13, <1>14, <1>15 DEF TInv

-----------------------------------------------------------------------------
\* Every step of the pool and of the cache beside it keeps the invariant.
THEOREM TxPoolInvariant == TSpec => []TInv
<1>1. TInv /\ [TNext]_tvars => TInv'
  <2> SUFFICES ASSUME TInv, [TNext]_tvars PROVE TInv'
    OBVIOUS
  <2>1. CASE Tick
    BY <2>1, TickInvariant
  <2>2. ASSUME NEW t \in Tx, AddTx(t) PROVE TInv'
    BY <2>2, AddTxInvariant
  <2>3. CASE Clear
    BY <2>3, ClearInvariant
  <2>4. ASSUME NEW b \in Block, AddBlock(b) PROVE TInv'
    BY <2>4, AddBlockInvariant
  <2>5. ASSUME NEW b \in Block, GenerateBlock(b) PROVE TInv'
    BY <2>5, GenerateBlockInvariant
  <2>6. CASE AddOwn
    BY <2>6, AddOwnInvariant
  <2>7. CASE AddOwnFails
    BY <2>7, AddOwnFailsInvariant
  <2>8. CASE AddLinkedNode
    BY <2>8, AddLinkedNodeInvariant
  <2>9. CASE Restart
    BY <2>9, RestartInvariant
  <2>10. CASE UNCHANGED tvars
    <3>1. UNCHANGED <<now, linked, root, cacheHead, adding, blockList, pending, newHead,
                      made, own, accepted, lost, gap>>
      BY <2>10 DEF tvars, cacheVars, poolVars, ownVars
    <3>2. TreeOK' /\ TimesOK' /\ ListedLate' /\ ListedChain' /\ NoDoubleTx'
      BY <3>1, BlocksKept DEF cacheVars
    <3>3. TTypeOK' /\ PendingNotOnChain' /\ NothingDropped'
      BY <3>1 DEF TInv, TTypeOK, PendingNotOnChain, NothingDropped
    <3>4. HeadsOK' /\ MadeOK'
      BY <3>1, MadeKept DEF TInv, cacheVars
    <3> QED
      BY <3>2, <3>3, <3>4 DEF TInv
  <2> QED
    BY <2>1, <2>2, <2>3, <2>4, <2>5, <2>6, <2>7, <2>8, <2>9, <2>10 DEF TNext
<1> QED
  BY <1>1, InitInvariant, PTL DEF TSpec

\* ExistTxs, verifyBlock, generateBlock: a block from the network repeats no
\* transaction of its chain, and our own repeats one only while it is expiring.
THEOREM NoDoubleTxTheorem == TSpec => []NoDoubleTx
<1>1. TInv => NoDoubleTx
  BY DEF TInv
<1> QED
  BY <1>1, TxPoolInvariant, PTL

\* AddTx, doChainChangeByForkBCN, doChainChangeByTimeout: nothing is pending that the
\* chain of the head has, however often the head changes.
THEOREM PendingNotOnChainTheorem == TSpec => []PendingNotOnChain
<1>1. TInv => PendingNotOnChain
  BY DEF TInv
<1> QED
  BY <1>1, TxPoolInvariant, PTL

\* The same walks lose no transaction: it is pending, on the chain, in the block being
\* added or expiring, unless a block of our own with it was made and not linked.
THEOREM NothingDroppedTheorem == TSpec => []NothingDropped
<1>1. TInv => NothingDropped
  BY DEF TInv
<1> QED
  BY <1>1, TxPoolInvariant, PTL
=============================================================================
