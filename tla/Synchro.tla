------------------------------ MODULE Synchro ------------------------------
(***************************************************************************)
(* Block synchronisation (consensus/synchro): a node asks its neighbours   *)
(* for the hashes of a range of numbers, asks one of them for each block   *)
(* it does not know, and hands what arrives to the chain base.  The loops  *)
(* of Sync, rangeController, blockHashSync, blockSync and PoB.verifyLoop   *)
(* run concurrently.  Messages are delayed, reordered and lost.            *)
(*                                                                         *)
(* The neighbours are given by the head of their chain; they run the same  *)
(* requestHandler.  IsCatchingUp, which suppresses generation and requests *)
(* for announced blocks, may give either answer at any time.  The caches'  *)
(* entries expire at any time.  All blocks pass verification.              *)
(***************************************************************************)
EXTENDS Headers

CONSTANTS
    Peer,
    Start,          \* the linked blocks at start-up, the genesis block among them
    StartHead,
    PeerStart,      \* the neighbours' heads at start-up
    Own,            \* the blocks the node itself may generate
    Confirms,       \* the block that is irreversible once a block is linked
    MaxSyncRange,
    HalfRange,      \* maxSyncRange / 2: how far below the head the range begins
    RangeStep,      \* maxSyncRange / 10
    DelSingleBlockTime,
    MaxInFlight,    \* bound: messages in flight
    MaxLosses,      \* bound: messages lost
    QueueLen        \* bound: blocks in the channels

ASSUME SyncAssumption ==
    /\ Genesis \in Start /\ Start \subseteq Block /\ StartHead \in Start
    /\ PeerStart \in [Peer -> Block]
    /\ Own \subseteq Block
    /\ Confirms \in [Block -> Block]
    /\ MaxSyncRange \in Nat /\ HalfRange \in 0 .. (MaxSyncRange - 2)
    /\ RangeStep \in 1 .. (HalfRange + 1)
    /\ DelSingleBlockTime \in Nat \ {0}

\* Linking a block confirms a block of its chain; numbers count the chain.
ASSUME NumberAssumption ==
    \A b \in Block :
        /\ Confirms[b] \in Anc[b]
        /\ \A a \in Anc[b] : Number[a] <= Number[b]

ASSUME StartAssumption ==
    \A b \in Start : Number[Genesis] <= Number[b]

VARIABLES
    linked, single, root, head,     \* the block cache
    rangeHead, start, sweeping,     \* rangeController
    hashs,          \* neighborBlockHashs: the blocks each neighbour reported
    requested,      \* requestCache
    received,       \* responseCache
    valid,          \* the blocks in blockSync.blockCh and Sync.blockCh
    peerHead,
    net,            \* the messages in flight
    losses          \* the messages lost so far

chainVars == <<linked, single, root, head>>
rangeVars == <<rangeHead, start, sweeping>>
syncVars == <<hashs, requested, received>>
netVars == <<net, losses>>
svars == <<chainVars, rangeVars, syncVars, valid, peerHead, netVars>>

-----------------------------------------------------------------------------
(* Messages. *)

Request(p, b) == [type |-> "BlockRequest", peer |-> p, block |-> b]
Response(b) == [type |-> "Block", block |-> b]
Info(p, b) == [type |-> "NewBlockHash", peer |-> p, block |-> b]

\* Of these messages, some are taken and sent; some of those in flight are lost.
Transfer(taken, sent) ==
    LET all == (net \ taken) \cup sent
    IN  \E kept \in SUBSET all :
          /\ Cardinality(kept) <= MaxInFlight
          /\ losses + Cardinality(all \ kept) <= MaxLosses
          /\ net' = kept
          /\ losses' = losses + Cardinality(all \ kept)

-----------------------------------------------------------------------------
(* The chain base. *)

\* The head that Link and updateLinkedRoot choose from blocks, if it was h.
Heads(h, blocks) ==
    LET longer == {b \in blocks : Longer(b, h)}
    IN  IF longer = {} THEN {h} ELSE {b \in longer : \A c \in longer : ~Longer(c, b)}

\* b and the single blocks that hang on it.
Subtree(b) == {c \in single \cup {b} : b \in Anc[c] /\ Anc[c] \ Anc[b] \subseteq single}

\* UpdateLib: the root after these blocks are linked.
NewRoot(blocks) ==
    LET higher == {Confirms[c] : c \in {d \in blocks : Number[Confirms[d]] > Number[root]}}
    IN  IF higher = {} THEN root ELSE CHOOSE r \in higher : \A q \in higher : Number[q] <= Number[r]

\* delSingle, for every root up to r: single trees that begin at or below the last
\* root whose number is a multiple of DelSingleBlockTime.
DelSingle(blocks, r) ==
    LET n == Number[r] - (Number[r] % DelSingleBlockTime)
    IN  {b \in blocks : n > Number[root] => \A a \in Anc[b] \cap blocks : Number[a] > n}

\* addExistingBlock of b and of the single blocks above it.
AddExistingBlock(b) ==
    LET new == Subtree(b)
        r == NewRoot(new)
    IN  /\ root' = r
        /\ linked' = {a \in linked \cup new : r \in Anc[a]}
        /\ single' = DelSingle(single \ new, r)
        /\ \E h \in Heads(head, new) \cup Heads(head, linked' \cap new) :
              head' \in IF h \in linked' THEN {h} ELSE Heads(h, linked')

\* ChainBase.Add
Add(b) ==
    CASE b \in linked \cup single -> UNCHANGED chainVars
      [] b \notin linked \cup single /\ Parent[b] \notin linked ->
            single' = single \cup {b} /\ UNCHANGED <<linked, root, head>>
      [] OTHER -> AddExistingBlock(b)

-----------------------------------------------------------------------------
SyInit ==
    /\ linked = Start /\ single = {} /\ root = Genesis /\ head = StartHead
    /\ rangeHead = 0 /\ start = 0 /\ sweeping = FALSE
    /\ hashs = [p \in Peer |-> {}]
    /\ requested = {} /\ received = {}
    /\ valid = <<>>
    /\ peerHead = PeerStart
    /\ net = {} /\ losses = 0

\* MUTANT: the sweep does not stop below the head.
SweepStep_Past ==
    /\ sweeping
    /\ start' = start + RangeStep
    /\ sweeping' = (start < rangeHead + MaxSyncRange)
    /\ UNCHANGED <<rangeHead, chainVars, syncVars, valid, peerHead, netVars>>

\* updateStart, up to its sleep: a range from the block after the root, or near the
\* head while the head is moving.
UpdateStart ==
    /\ ~sweeping
    /\ LET n == Number[head]
           lib == Number[root]
       IN  \/ /\ n > rangeHead
              /\ rangeHead' = n
              /\ start' = IF lib + 1 < n - HalfRange THEN n - HalfRange ELSE lib + 1
              /\ UNCHANGED sweeping
           \/ /\ n <= rangeHead
              /\ start' = lib + 1
              /\ sweeping' = (lib + 1 < rangeHead - HalfRange)
              /\ UNCHANGED rangeHead
    /\ UNCHANGED <<chainVars, syncVars, valid, peerHead, netVars>>

\* updateStart, after a sleep of the loop.
SweepStep ==
    /\ sweeping
    /\ start' = start + RangeStep
    /\ sweeping' = (start' < rangeHead - HalfRange)
    /\ UNCHANGED <<rangeHead, chainVars, syncVars, valid, peerHead, netVars>>

\* MUTANT: the end is not included.
SyncRange_Short == start .. (start + MaxSyncRange - 2)

\* SyncRange
SyncRange == start .. (start + MaxSyncRange - 1)

-----------------------------------------------------------------------------
(* Hashes. *)

\* A neighbour's handleBlockHashRequest: the blocks of its chain in the range.
HandleBlockHashRequest(p) == {b \in Anc[peerHead[p]] : Number[b] \in SyncRange}

\* doBlockhashSync, for a neighbour that receives the request and whose answer is
\* received (handleSyncBlockHashResponse): what it reported before is forgotten.
\* There is no answer if its head is below the range.
DoBlockhashSync(p) ==
    /\ start <= Number[peerHead[p]]
    /\ hashs' = [hashs EXCEPT ![p] = HandleBlockHashRequest(p)]
    /\ UNCHANGED <<chainVars, rangeVars, requested, received, valid, peerHead, netVars>>

\* blockHashSync.doExpiration
ExpireHashes(p) ==
    /\ hashs[p] # {}
    /\ hashs' = [hashs EXCEPT ![p] = {}]
    /\ UNCHANGED <<chainVars, rangeVars, requested, received, valid, peerHead, netVars>>

-----------------------------------------------------------------------------
(* Blocks. *)

\* doBlockSync, one turn of its loop: RequestBlock for a reported block of the range
\* that is not in the cache, to any of the neighbours that reported it.
DoBlockSync(p, b) ==
    /\ b \in hashs[p] /\ Number[b] \in SyncRange
    /\ b \notin linked \cup single \cup requested
    /\ requested' = requested \cup {b}
    /\ Transfer({}, {Request(p, b)})
    /\ UNCHANGED <<chainVars, rangeVars, hashs, received, valid, peerHead>>

\* handleNewBlockHash and doNewBlockSync, with the request unless the node is
\* catching up, the number is out of range, or the block is known or requested.
DoNewBlockSync(m) ==
    /\ m.type = "NewBlockHash"
    /\ \/ /\ Number[m.block] > Number[root]
          /\ Number[m.block] <= Number[head] + MaxSyncRange
          /\ m.block \notin linked \cup single \cup requested
          /\ requested' = requested \cup {m.block}
          /\ Transfer({m}, {Request(m.peer, m.block)})
       \/ /\ Transfer({m}, {})
          /\ UNCHANGED requested
    /\ UNCHANGED <<chainVars, rangeVars, hashs, received, valid, peerHead>>

\* requestCache: an entry is 10 seconds old.
ExpireRequest(b) ==
    /\ b \in requested
    /\ requested' = requested \ {b}
    /\ UNCHANGED <<chainVars, rangeVars, hashs, received, valid, peerHead, netVars>>

\* A neighbour's handleBlockRequest.  (If the neighbour has left the block's fork and
\* deleted it, the response is one of those lost.)
HandleBlockRequest(m) ==
    /\ m.type = "BlockRequest"
    /\ Transfer({m}, {Response(m.block)})
    /\ UNCHANGED <<chainVars, rangeVars, syncVars, valid, peerHead>>

\* doBlockFilter lets blocks of the range above the root through.
DoBlockFilter(b) == Number[b] <= Number[head] + MaxSyncRange /\ Number[b] > Number[root]

\* handleBlock and doBlockFilter.  The response cache has the block, though the filter
\* drops it.
HandleBlock(m) ==
    /\ m.type = "Block"
    /\ Len(valid) < QueueLen
    /\ valid' = IF m.block \notin received /\ DoBlockFilter(m.block)
                THEN Append(valid, m.block)
                ELSE valid
    /\ received' = received \cup {m.block}
    /\ Transfer({m}, {})
    /\ UNCHANGED <<chainVars, rangeVars, hashs, requested, peerHead>>

\* responseCache: an entry is 10 seconds old.
ExpireResponse(b) ==
    /\ b \in received
    /\ received' = received \ {b}
    /\ UNCHANGED <<chainVars, rangeVars, hashs, requested, valid, peerHead, netVars>>

\* doVerifyBlock.  Since the filter, the root and the head may have moved.
DoVerifyBlock ==
    /\ valid # <<>>
    /\ Add(Head(valid))
    /\ valid' = Tail(valid)
    /\ UNCHANGED <<rangeVars, syncVars, peerHead, netVars>>

\* doGenerateBlock: a block on the head.
DoGenerateBlock(b) ==
    /\ b \in Own \ (linked \cup single) /\ Parent[b] = head /\ head \in linked
    /\ AddExistingBlock(b)
    /\ UNCHANGED <<rangeVars, syncVars, valid, peerHead, netVars>>

\* A neighbour's chain base takes a longer chain, not the node's own; doVerifyBlock announces its hash,
\* doGenerateBlock sends the block itself.
PeerAdopt(p, b) ==
    /\ b \notin Own /\ Number[b] > Number[peerHead[p]]
    /\ peerHead' = [peerHead EXCEPT ![p] = b]
    /\ \/ Transfer({}, {Info(p, b)})
       \/ Transfer({}, {Response(b)})
    /\ UNCHANGED <<chainVars, rangeVars, syncVars, valid>>

SyNext ==
    \/ UpdateStart
    \/ SweepStep
    \/ \E m \in net :
          \/ DoNewBlockSync(m)
          \/ HandleBlockRequest(m)
          \/ HandleBlock(m)
    \/ DoVerifyBlock
    \/ \E b \in Block :
          \/ ExpireRequest(b)
          \/ ExpireResponse(b)
          \/ DoGenerateBlock(b)
    \/ \E p \in Peer : DoBlockhashSync(p) \/ ExpireHashes(p)
    \/ \E p \in Peer, b \in Block : PeerAdopt(p, b) \/ DoBlockSync(p, b)

SySpec == SyInit /\ [][SyNext]_svars

-----------------------------------------------------------------------------
(* Fairness. *)

Handle(m) ==
    \/ DoNewBlockSync(m)
    \/ HandleBlockRequest(m)
    \/ HandleBlock(m)

\* What doBlockSync would ask for.
Wanted ==
    {b \in UNION {hashs[p] : p \in Peer} : Number[b] \in SyncRange}
        \ (linked \cup single \cup requested)

\* The loops run for ever, messages that are not lost are handled and the caches'
\* entries expire.  A range stays for 2 seconds, which is the period of the other loops
\* too; as their periods drift, now and then the hashes of a range that has blocks the
\* node does not know are asked for, and the blocks are asked for before it moves.
Fairness ==
    /\ WF_svars(UpdateStart \/ SweepStep)
    /\ WF_svars(DoVerifyBlock)
    /\ WF_svars(\E m \in net : Handle(m))
    /\ \A b \in Block \ (Start \cup Own) :
          WF_svars(ExpireRequest(b)) /\ WF_svars(ExpireResponse(b))
    /\ SF_svars(\E p \in Peer : DoBlockhashSync(p) /\ Wanted' # {})
    /\ SF_svars(\E p \in Peer, b \in Block : DoBlockSync(p, b))

FairSySpec == SySpec /\ Fairness

-----------------------------------------------------------------------------
(* Properties. *)

\* The range never begins above the next block, although it is computed from a head
\* and a root that move while updateStart sleeps: no block between the chain and the
\* range is passed over.  The head the range was computed from is not above the head.
RangeBelowHead ==
    start <= Number[head] + 1 /\ rangeHead <= Number[head]

\* A node does not stay behind its neighbours: again and again its head is as high as
\* theirs, though messages are lost, answers come late or for an old range, blocks
\* come before their parents, and the node has generated a fork of its own that
\* begins further back than the range does while the head moves.
CatchesUp == []<>(\A p \in Peer : Number[head] >= Number[peerHead[p]])
=============================================================================
