------------------------------- MODULE TxPool -------------------------------
(***************************************************************************)
(* The transaction pool (core/txpool) beside the block cache: transactions *)
(* come from the network, blocks are received or generated, heads change   *)
(* between forks and forks are pruned.  ChainBase.Add first changes the    *)
(* cache and then calls AddLinkedNode, and the transactions of a block of  *)
(* our own leave the pool before ChainBase.Add; transactions may arrive,   *)
(* and the clearing loop may run, in between.                              *)
(*                                                                         *)
(* The cache is given by what the pool sees of it: the linked blocks, the  *)
(* root, the head (BlockCache is its model).  Which ancestor of a new      *)
(* block becomes the root is left open.  A block from the network whose    *)
(* parent is not linked is left out: it is added once the parent is.       *)
(***************************************************************************)
EXTENDS Headers

CONSTANTS
    Account,        \* p.account: the key this node signs its blocks with
    Tx,
    Txs,            \* the transactions of each block, without its base tx
    TxTime, Expiration,
    FilterTime, MaxExpiration, MaxTxTimeGap, MaxBlockTimeGap, MaxCacheTxs

ASSUME TxAssumption ==
    /\ Txs \in [Block -> SUBSET Tx]
    /\ Parent[Genesis] = NoBlock /\ Txs[Genesis] = {}
    /\ TxTime \in [Tx -> Nat] /\ Expiration \in [Tx -> Nat]
    /\ FilterTime \in Nat /\ MaxExpiration \in Nat
    /\ MaxTxTimeGap \in Nat /\ MaxBlockTimeGap \in Nat /\ MaxCacheTxs \in Nat

\* filterTime and tx.MaxExpiration are both 90 seconds.
ASSUME FilterAssumption == MaxExpiration <= FilterTime

VARIABLES
    now,
    linked, root, cacheHead,    \* the block cache
    made,           \* the block doGenerateBlock has made and is adding
    adding,         \* the block ChainBase.Add has linked, before AddLinkedNode
    blockList,
    pending,        \* pendingTx
    newHead,        \* forkChain.NewHead
    own,            \* history: the blocks this node has generated
    accepted,       \* history: the transactions AddTx has taken since the start,
                    \* without those that block generation has found bad
    lost,           \* history: of these, the ones in a block of our own that was
                    \* not linked, until AddTx takes them again
    gap             \* history: NewTxPoolImpl has left out a block that is not older
                    \* than FilterTime before the root

cacheVars == <<linked, root, cacheHead>>
poolVars == <<blockList, pending, newHead>>
ownVars == <<made, own, accepted, lost>>
tvars == <<now, cacheVars, adding, poolVars, ownVars, gap>>

-----------------------------------------------------------------------------
(* Transactions in a chain. *)

IsExpired(t, ct) == Expiration[t] <= ct \/ ct - TxTime[t] > MaxExpiration

\* The chain from b down to its ancestor a.
Down(b, a) == (Anc[b] \ Anc[a]) \cup {a}

\* What a walk from b towards the genesis block comes to: it goes through `blocks`
\* and ends at the first block that is older than `limit`.
Since(blocks, b, limit) ==
    {a \in Anc[b] : \A k \in Down(b, a) : k \in blocks /\ Time[k] >= limit}

\* MUTANT: the walk ends at blocks older than half the limit.
Walked_Short(b) == Since(blockList, b, Time[b] - (FilterTime \div 2))

\* The blocks getTxAndReceiptInChain looks into.
Walked(b) == Since(blockList, b, Time[b] - FilterTime)

\* ExistTxs
ExistTxs(t, b) == \E a \in Walked(b) : t \in Txs[a]

-----------------------------------------------------------------------------
TInit ==
    /\ now = Time[Genesis]
    /\ linked = {Genesis}
    /\ root = Genesis
    /\ cacheHead = Genesis
    /\ made = NoBlock
    /\ adding = NoBlock
    /\ blockList = {}
    /\ pending = {}
    /\ newHead = Genesis
    /\ own = {}
    /\ accepted = {}
    /\ lost = {}
    /\ gap = FALSE

Tick ==
    /\ now' = now + 1
    /\ UNCHANGED <<cacheVars, adding, poolVars, ownVars, gap>>

VerifyDuplicate(t) == t \notin pending /\ ~ExistTxs(t, newHead)

\* AddTx, with verifyDuplicate and verifyTx.
AddTx(t) ==
    /\ VerifyDuplicate(t)
    /\ Cardinality(pending) <= MaxCacheTxs
    /\ TxTime[t] <= now + MaxTxTimeGap
    /\ ~IsExpired(t, now)
    /\ pending' = pending \cup {t}
    /\ accepted' = accepted \cup {t}
    /\ lost' = lost \ {t}
    /\ UNCHANGED <<now, cacheVars, adding, blockList, newHead, made, own, gap>>

\* loop: clearBlock and clearTimeoutTx.
Clear ==
    /\ blockList' = {b \in blockList : Time[b] >= Time[root] - FilterTime}
    /\ pending' = {t \in pending : ~IsExpired(t, now)}
    /\ UNCHANGED <<now, cacheVars, adding, newHead, ownVars, gap>>

-----------------------------------------------------------------------------
(* Blocks. *)

\* The head of a cache with these blocks, if it was h: a longer leaf, or h even if
\* it is pruned (Link, updateLinkedRoot).
Heads(h, blocks) ==
    LET longer == {b \in blocks : Longer(b, h)}
    IN  IF longer = {} THEN {h} ELSE {b \in longer : \A c \in longer : ~Longer(c, b)}

\* Link and UpdateLib: b is linked, and a block of its chain is the root.
LinkBlock(b) ==
    /\ \E h \in Heads(cacheHead, {b}), r \in Anc[b] \cap (linked \cup {b}) :
          /\ root' = r
          /\ linked' = {a \in linked \cup {b} : r \in Anc[a]}
          /\ cacheHead' \in IF h \in linked' THEN {h} ELSE Heads(h, linked')
    /\ adding' = b
    /\ UNCHANGED <<now, poolVars, ownVars, gap>>

\* verifyBlock, and what Verify requires of a transaction's times.
VerifyBlock(b, parent) ==
    /\ Time[b] <= now + MaxBlockTimeGap
    /\ Time[b] > Time[parent]
    /\ \A t \in Txs[b] :
          /\ ~ExistTxs(t, parent)
          /\ TxTime[t] <= Time[b]
          /\ ~IsExpired(t, Time[b])

\* ChainBase.Add of a block from the network.
AddBlock(b) ==
    /\ adding = NoBlock /\ made = NoBlock
    /\ b \notin linked /\ Parent[b] \in linked
    /\ VerifyBlock(b, Parent[b])
    /\ LinkBlock(b)

\* What Provider.Close leaves in the pool: Drop was called for the transactions of the
\* block and for the bad ones.
Close(b, bad) == pending \ (Txs[b] \cup bad)

\* generateBlock: Gen fills a block from the pool and closes the provider.  Bad are
\* some transactions that have arrived: those that are expired or cannot be run or
\* paid for.
GenerateBlock(b) ==
    /\ adding = NoBlock /\ made = NoBlock
    /\ b \notin linked /\ Parent[b] = newHead /\ Number[b] = Number[newHead] + 1
    /\ Witness[b] = Account /\ Time[b] = now
    /\ \A t \in Txs[b] : t \in pending /\ TxTime[t] <= Time[b] /\ ~IsExpired(t, Time[b])
    /\ \E bad \in SUBSET {t \in pending \ Txs[b] : TxTime[t] <= Time[b]} :
          /\ pending' = Close(b, bad)
          /\ accepted' = accepted \ bad
    /\ made' = b
    /\ own' = own \cup {b}
    /\ UNCHANGED <<now, cacheVars, adding, blockList, newHead, lost, gap>>

\* ChainBase.Add of our own block, which is not verified: its state is in the DB.
AddOwn ==
    /\ made \in Block /\ adding = NoBlock
    /\ Parent[made] \in linked
    /\ LinkBlock(made)

\* ChainBase.Add of our own block fails: on a head that has been pruned (errSingle),
\* or one too many in a slot (errOutOfLimit; BlockCache has the count, here it is
\* left open).
AddOwnFails ==
    /\ made \in Block /\ adding = NoBlock
    /\ made' = NoBlock
    /\ lost' = lost \cup Txs[made]
    /\ UNCHANGED <<now, cacheVars, adding, poolVars, own, accepted, gap>>

\* The nodes that are reached through GetParent: pruned nodes and the root have none.
Up(b) == IF b \in linked THEN Anc[b] \cap linked ELSE {b}

\* The transactions of the chain of b, through `blocks` and back to FilterTime ago.
Recent(blocks, b) == UNION {Txs[a] : a \in Since(blocks, b, now - FilterTime)}

\* MUTANT: transactions of the old fork do not come back.
DoChainChangeByForkBCN_NoReturn(new, old) ==
    pending \ Recent(Up(new) \ Up(old), new)

\* findForkBCN and doChainChangeByForkBCN: the fork is where both ways meet.
DoChainChangeByForkBCN(new, old) ==
    (pending \cup Recent(Up(old) \ Up(new), old)) \ Recent(Up(new) \ Up(old), new)

\* MUTANT: only the transactions of the new head itself are removed.
DoChainChangeByTimeout_Head(list, new, old) ==
    (pending \cup Recent(list, old)) \ Recent({new}, new)

\* doChainChangeByTimeout
DoChainChangeByTimeout(list, new, old) ==
    (pending \cup Recent(list, old)) \ Recent(list, new)

\* AddLinkedNode: the block is listed, and the pool follows the cache's head.
AddLinkedNode ==
    /\ adding \in Block
    /\ blockList' = blockList \cup {adding}
    /\ newHead' = IF Number[adding] > Number[cacheHead] THEN adding ELSE cacheHead
    /\ pending' = CASE newHead' = newHead -> pending
                    [] newHead' # newHead /\ Up(newHead') \cap Up(newHead) # {} ->
                         DoChainChangeByForkBCN(newHead', newHead)
                    [] OTHER -> DoChainChangeByTimeout(blockList', newHead', newHead)
    /\ adding' = NoBlock
    /\ made' = NoBlock
    /\ UNCHANGED <<now, cacheVars, own, accepted, lost, gap>>

\* initBlockTx: the recent blocks of the block chain DB, without the genesis block.
InitBlockTx == Since(Anc[root] \ {Genesis}, root, now - FilterTime)

\* The process is started again: NewTxPoolImpl, on a cache that has the root.
Restart ==
    /\ linked' = {root}
    /\ cacheHead' = root
    /\ made' = NoBlock
    /\ adding' = NoBlock
    /\ blockList' = InitBlockTx
    /\ pending' = {}
    /\ newHead' = root
    /\ accepted' = {}
    /\ lost' = {}
    /\ gap' = (gap \/ \E b \in Anc[root] \ ({Genesis} \cup InitBlockTx) :
                        Time[b] >= Time[root] - FilterTime)
    /\ UNCHANGED <<now, root, own>>

TNext ==
    \/ Tick
    \/ \E t \in Tx : AddTx(t)
    \/ Clear
    \/ \E b \in Block : AddBlock(b) \/ GenerateBlock(b)
    \/ AddOwn
    \/ AddOwnFails
    \/ AddLinkedNode
    \/ Restart

TSpec == TInit /\ [][TNext]_tvars

-----------------------------------------------------------------------------
(* Properties. *)

\* A chain on which every block is later than its parent.  (VerifyBlock requires it,
\* generateBlock does not: our own block is earlier than a head from the future.)
Grows(b) == \A a \in Anc[b] : Parent[a] \in Block => Time[a] > Time[Parent[a]]

\* No block from the network repeats a transaction of its chain, whatever forks there
\* are and although blockList is cleared: ExistTxs looks far enough back.  Our own
\* blocks, and blocks on a chain that has one of these earlier than its parent, may
\* only repeat a transaction that is about to expire.  Not so after a restart at which
\* initBlockTx has left out a block that a next block may still repeat.
NoDoubleTx ==
    gap \/ \A b \in linked : \A a \in Anc[b] \ {b} : \A t \in Txs[a] \cap Txs[b] :
              \/ b \in own /\ IsExpired(t, Time[b] + 3 * MaxBlockTimeGap)
              \/ ~Grows(b) /\ IsExpired(t, Time[b] + 2 * MaxBlockTimeGap)

\* A pending transaction is not on the chain the next block is generated on, unless
\* it is about to expire: generateBlock does not look.
PendingNotOnChain ==
    gap \/ \A t \in pending :
              \/ IsExpired(t, now + 3 * MaxBlockTimeGap)
              \/ \A a \in Anc[newHead] : t \notin Txs[a]

\* A transaction that was taken, and that block generation has not found bad, is
\* pending, on the chain of the head or in the block we are adding until it is about
\* to expire, however heads change and forks are pruned.  The one way to lose it is
\* a block of our own that ChainBase.Add does not link: Gen has deleted it from the
\* pool by then, and nothing puts it back.
NothingDropped ==
    \A t \in accepted :
        \/ IsExpired(t, now + 2 * MaxBlockTimeGap)
        \/ t \in pending
        \/ \E a \in Anc[newHead] : t \in Txs[a]
        \/ made \in Block /\ t \in Txs[made]
        \/ t \in lost
=============================================================================
