----------------------------- MODULE BlockCache -----------------------------
(***************************************************************************)
(* The block cache (core/blockcache) under ChainBase.Add (chainbase):      *)
(* blocks arrive in any order, wait as singles until their parent is       *)
(* linked, are verified and linked, confirm their ancestors, and move the  *)
(* linked root (the last irreversible block, LIB) forward.                 *)
(*                                                                         *)
(* PoB calls ChainBase.Add under one mutex (PoB.mu), so one call runs at a *)
(* time; `pc` is where that call is.  Its steps are separate actions       *)
(* because other goroutines read the cache, and the process may stop,      *)
(* between them.                                                           *)
(*                                                                         *)
(* A node is named by its block.  Parent pointers and Children maps are    *)
(* not stored: a node's parent is the node of its parent hash, except that *)
(* the linked root has none (SetParent(nil)).  ValidWitness and            *)
(* linkedRootWitness have no repetitions in the code and are sets here.    *)
(***************************************************************************)
EXTENDS Headers

CONSTANT DelSingleBlockTime
ASSUME DelSingleAssumption == DelSingleBlockTime \in Nat \ {0}

VARIABLES
    hash2node,          \* the blocks that have a node
    linked,             \* those whose Type is Linked; the others are Single
    leaf,               \* keys of the leaf map
    singleRoot,         \* the hashes that have a virtual node
    validWitness,       \* ValidWitness of every node
    active, pending,    \* WitnessList of every node
    serialNum,          \* SerialNum of every node
    linkedRoot,
    linkedRootWitness,
    head,
    commits,            \* CommitManager.commits: tags in the order of commit
    chain,              \* the block chain: blocks pushed so far
    pc,                 \* where the running ChainBase.Add is
    node,               \* the node addExistingBlock works on, or NoBlock
    stack               \* for each addExistingBlock that is iterating over
                        \* node.Children: the children still to come

treeVars == <<hash2node, linked, leaf, singleRoot>>
nodeVars == <<validWitness, active, pending, serialNum>>
rootVars == <<linkedRoot, linkedRootWitness, head>>
dbVars == <<commits, chain>>
ctlVars == <<pc, node, stack>>
vars == <<treeVars, nodeVars, rootVars, dbVars, ctlVars>>

-----------------------------------------------------------------------------
(* The node graph. *)

\* Children of a node (of a virtual node, if n is a key of singleRoot).
Children(n) == {m \in hash2node \ {linkedRoot} : Parent[m] = n}

\* MUTANT: del does not recurse.
Subtree_Shallow(nodes, r, n) == {m \in nodes \ {r} : m = n}

\* The nodes del(n) reaches through Children, when `nodes` have a node and r is
\* the linked root: no path leads through r, whose parent pointer is nil.
Subtree(nodes, r, n) ==
    {m \in nodes : /\ n \in Anc[m]
                   /\ \A k \in Anc[m] : n \in Anc[k] => k \in nodes \ {r}}

\* All that is deleted when del is called on every node of `tops`.
Del(nodes, r, tops) == UNION {Subtree(nodes, r, n) : n \in tops}

\* A per-node field once the nodes of `dead` are gone.
Cleared(field, dead, nil) ==
    [b \in Block |-> IF b \in dead THEN nil ELSE field[b]]

ClearNodes(dead) ==
    /\ validWitness' = Cleared(validWitness, dead, {})
    /\ active' = Cleared(active, dead, <<>>)
    /\ pending' = Cleared(pending, dead, <<>>)
    /\ serialNum' = Cleared(serialNum, dead, 0)

-----------------------------------------------------------------------------
\* witnessNum is taken from the root's pending list at start-up and never again.
WitnessNum == Len(PendingOf[Genesis])

\* MUTANT: the limit is rounded down.
ConfirmLimit_Floor == (WitnessNum * 2) \div 3
ConfirmLimit == ((WitnessNum * 2) \div 3) + 1

Reached(n) == Cardinality(validWitness[n]) >= ConfirmLimit

Init ==
    /\ hash2node = {Genesis}
    /\ linked = {Genesis}
    /\ leaf = {Genesis}
    /\ singleRoot = {}
    /\ validWitness = [b \in Block |-> {}]
    /\ active = [b \in Block |-> IF b = Genesis THEN PendingOf[b] ELSE <<>>]
    /\ pending = active
    /\ serialNum = [b \in Block |-> 0]
    /\ linkedRoot = Genesis
    /\ linkedRootWitness = {}
    /\ head = Genesis
    /\ commits = <<Genesis>>
    /\ chain = <<Genesis>>
    /\ pc = "idle"
    /\ node = NoBlock
    /\ stack = <<>>

-----------------------------------------------------------------------------
(* ChainBase.Add up to addExistingBlock. *)

\* BlockCacheImpl.Add: the block gets a node (its virtual node, if it has one)
\* and, if need be, its parent a virtual one.
AddNode(b) ==
    /\ hash2node' = hash2node \cup {b}
    /\ singleRoot' = (singleRoot \cup ({Parent[b]} \ hash2node)) \ {b}
    /\ UNCHANGED <<linked, leaf>>

\* The rest of ChainBase.Add: errSingle, or on to addExistingBlock.
EnterAdd(b) ==
    /\ AddNode(b)
    /\ IF Parent[b] \in linked
         THEN pc' = "exist" /\ node' = b /\ UNCHANGED stack
         ELSE UNCHANGED ctlVars
    /\ UNCHANGED <<nodeVars, rootVars, chain>>

\* doVerifyBlock: a block from the network.
AddBlock(b) ==
    /\ pc = "idle"
    /\ b \notin hash2node
    /\ EnterAdd(b)
    /\ UNCHANGED commits

\* errDuplicate.
AddDuplicate(b) ==
    /\ pc = "idle"
    /\ b \in hash2node
    /\ UNCHANGED vars

\* doGenerateBlock: a block of our own on the head, whose state the producer's
\* fork of the state DB has committed.  (The pool's head, which generateBlock
\* uses, equals `head` whenever no Add is running.  The clock is read for the
\* witness check and again for the block's time; the two reads are one here.
\* A head that has been pruned keeps its active list, of which there is no trace
\* here: any witness may then turn out to be scheduled.)
GenerateBlock(b) ==
    /\ pc = "idle"
    /\ b \notin hash2node \cup Range(commits)
    /\ Parent[b] = head
    /\ Number[b] = Number[head] + 1
    /\ head \in linked => WitnessOfNanoSec(Time[b], active[head]) = Witness[b]
    /\ EnterAdd(b)
    /\ commits' = Append(commits, b)

-----------------------------------------------------------------------------
(* addExistingBlock. *)

\* Return from addExistingBlock to the loop that called it, if there is one.
Return(callers) ==
    /\ stack' = callers
    /\ pc' = IF callers = <<>> THEN "idle" ELSE "next"
    /\ node' = NoBlock

\* The node's position in its witness's slot.
SerialNum(n) ==
    LET p == Parent[n]
    IN  IF \/ Witness[p] # Witness[n]
           \/ SlotOfUnixNano(Time[p]) # SlotOfUnixNano(Time[n])
          THEN 0
          ELSE serialNum[p] + 1

\* errOutOfLimit: the node stays in the cache as a single.
RejectOutOfLimit ==
    /\ pc = "exist"
    /\ SerialNum(node) >= BlockNumPerWitness
    /\ serialNum' = [serialNum EXCEPT ![node] = SerialNum(node)]
    /\ Return(stack)
    /\ UNCHANGED <<treeVars, validWitness, active, pending, rootVars, dbVars>>

\* verifyBlock fails.  Besides its head a block may fail for its transactions,
\* their execution, or the local clock, so any unverified block may.
RejectInvalid ==
    /\ pc = "exist"
    /\ SerialNum(node) < BlockNumPerWitness
    /\ node \notin Range(commits)
    /\ LET dead == Del(hash2node, linkedRoot, {node})
       IN  /\ hash2node' = hash2node \ dead
           /\ linked' = linked \ dead
           /\ leaf' = leaf \ dead
           /\ ClearNodes(dead)
    /\ Return(stack)
    /\ UNCHANGED <<singleRoot, rootVars, dbVars>>

\* MUTANT: Link leaves the parent in the leaf map.
Link_ParentLeaf(n) ==
    LET p == Parent[n]
    IN  /\ linked' = linked \cup {n}
        /\ leaf' = leaf \cup {n}
        /\ validWitness' = [validWitness EXCEPT ![n] = validWitness[p] \cup {Witness[n]}]
        /\ active' = [active EXCEPT ![n] = active[p]]
        /\ pending' = [pending EXCEPT ![n] =
                         IF Number[n] % VoteInterval = 0 THEN PendingOf[n] ELSE pending[p]]
        /\ head' = IF Longer(n, head) THEN n ELSE head

\* MUTANT: Link does not prefer the earlier of two blocks of one height.
Link_NoTieBreak(n) ==
    LET p == Parent[n]
    IN  /\ linked' = linked \cup {n}
        /\ leaf' = (leaf \ {p}) \cup {n}
        /\ validWitness' = [validWitness EXCEPT ![n] = validWitness[p] \cup {Witness[n]}]
        /\ active' = [active EXCEPT ![n] = active[p]]
        /\ pending' = [pending EXCEPT ![n] =
                         IF Number[n] % VoteInterval = 0 THEN PendingOf[n] ELSE pending[p]]
        /\ head' = IF Number[n] > Number[head] THEN n ELSE head

\* BlockCacheImpl.Link.
Link(n) ==
    LET p == Parent[n]
    IN  /\ linked' = linked \cup {n}
        /\ leaf' = (leaf \ {p}) \cup {n}
        /\ validWitness' = [validWitness EXCEPT ![n] = validWitness[p] \cup {Witness[n]}]
        /\ active' = [active EXCEPT ![n] = active[p]]
        /\ pending' = [pending EXCEPT ![n] =
                         IF Number[n] % VoteInterval = 0 THEN PendingOf[n] ELSE pending[p]]
        /\ head' = IF Longer(n, head) THEN n ELSE head

\* The block is verified (one of our own was committed by the producer and is
\* not), its state committed, and its node linked.
LinkBlock ==
    /\ pc = "exist"
    /\ SerialNum(node) < BlockNumPerWitness
    /\ \/ node \in Range(commits) /\ UNCHANGED commits
       \/ /\ node \notin Range(commits)
          /\ HeadOK(node, Parent[node], active[Parent[node]])
          /\ commits' = Append(commits, node)
    /\ serialNum' = [serialNum EXCEPT ![node] = SerialNum(node)]
    /\ Link(node)
    /\ pc' = "lib"
    /\ UNCHANGED <<hash2node, singleRoot, linkedRoot, linkedRootWitness, chain, node, stack>>

-----------------------------------------------------------------------------
(* UpdateLib. *)

\* MUTANT: addExistingBlock does not go on to the children.
Descend_NoChildren == Return(stack)

\* The end of addExistingBlock: iterate over the children.
Descend ==
    LET kids == Children(node)
    IN  Return(IF kids = {} THEN stack ELSE Append(stack, kids))

\* MUTANT: updateActive keeps the confirmations of retired producers.
UpdateActive_NoFilter(n) ==
    /\ active' = [active EXCEPT ![n] = pending[linkedRoot]]
    /\ UNCHANGED <<validWitness, pending, serialNum>>

\* updateActive: the node takes over the root's pending list and forgets the
\* confirmations of producers that are not in it.
UpdateActive(n) ==
    /\ validWitness' = [validWitness EXCEPT ![n] = @ \cap Members(pending[linkedRoot])]
    /\ active' = [active EXCEPT ![n] = pending[linkedRoot]]
    /\ UNCHANGED <<pending, serialNum>>

\* MUTANT: the confirmations of the blocks up to the root are forgotten.
CheckUpdateActive_NoRoot(n) ==
    /\ active[n] # pending[linkedRoot]
    /\ Cardinality(validWitness[n]) >= ConfirmLimit

\* checkUpdateActive, with the test that precedes it.
CheckUpdateActive(n) ==
    /\ Cardinality(validWitness[n]) + Cardinality(linkedRootWitness) >= ConfirmLimit
    /\ active[n] # pending[linkedRoot]
    /\ validWitness[n] # {}
    /\ Cardinality(validWitness[n] \cup linkedRootWitness) >= ConfirmLimit

\* Not enough confirmations for a new LIB, perhaps enough for a new active list.
UpdateLibShort ==
    /\ pc = "lib"
    /\ ~Reached(node)
    /\ IF CheckUpdateActive(node) THEN UpdateActive(node) ELSE UNCHANGED nodeVars
    /\ Descend
    /\ UNCHANGED <<treeVars, rootVars, dbVars>>

UpdateLibEnter ==
    /\ pc = "lib"
    /\ Reached(node)
    /\ pc' = "loop"
    /\ UNCHANGED <<treeVars, nodeVars, rootVars, dbVars, node, stack>>

\* MUTANT: the loop stops one confirmation early.
CanAdvance_Strict ==
    /\ Cardinality(validWitness[node]) > ConfirmLimit
    /\ active[node] = pending[linkedRoot]
    /\ linkedRoot # node

\* MUTANT: the loop does not look at the lists.
CanAdvance_AnyList ==
    /\ Reached(node)
    /\ linkedRoot # node

\* The condition of updateLib's loop.
CanAdvance ==
    /\ Reached(node)
    /\ active[node] = pending[linkedRoot]
    /\ linkedRoot # node

\* The end of UpdateLib once the loop has ended (or was not entered).
UpdateLibExit ==
    /\ pc = "loop"
    /\ ~CanAdvance
    /\ IF active[node] # pending[linkedRoot] THEN UpdateActive(node) ELSE UNCHANGED nodeVars
    /\ Descend
    /\ UNCHANGED <<treeVars, rootVars, dbVars>>

-----------------------------------------------------------------------------
(* One iteration of updateLib's loop: updateLinkedRoot, then flush. *)

\* MUTANT: removeValidWitness is not called.
RemoveValidWitness_None(b) == validWitness

\* MUTANT: it does not stop at a block of the same witness.
RemoveValidWitness_All(b) ==
    [m \in Block |->
        IF m \in hash2node /\ b \in Anc[m]
          THEN validWitness[m] \ {Witness[b]}
          ELSE validWitness[m]]

\* removeValidWitness: below the new root, its witness no longer counts, until
\* a block of the same witness is met.
RemoveValidWitness(b) ==
    [m \in Block |->
        IF /\ m \in hash2node
           /\ b \in Anc[m]
           /\ \A k \in PathAbove(b, m) : Witness[k] # Witness[b]
          THEN validWitness[m] \ {Witness[b]}
          ELSE validWitness[m]]

\* delSingle: the children of virtual nodes that are not above the root r.
OldSingles(nodes, r) ==
    IF Number[r] % DelSingleBlockTime = 0
      THEN {m \in nodes \ {r} : Parent[m] \in singleRoot /\ Number[m] <= Number[r]}
      ELSE {}

\* MUTANT: delSingle removes no virtual node.
VirtualLeft_All(old, nodes, r) == singleRoot

\* The virtual nodes left once `nodes` are the nodes: delSingle removes those
\* it took the last child of.
VirtualLeft(old, nodes, r) ==
    {v \in singleRoot : \/ \A m \in old : Parent[m] # v
                        \/ \E m \in nodes \ {r} : Parent[m] = v}

\* "Update Longest": only when the head's node is gone, and then only a leaf
\* that is longer than that head.
UpdateLongest(nodes, leaves) ==
    LET longer == {l \in leaves : Longer(l, head)}
    IN  IF head \in nodes \/ longer = {}
          THEN {head}
          ELSE {l \in longer : \A k \in longer : ~Longer(k, l)}

UpdateLinkedRootWitness(r, b) ==
    (IF pending[r] # pending[b] THEN {} ELSE linkedRootWitness) \cup {Witness[b]}

\* What is left when the forks beside b and the old root are gone.
Surviving(b) ==
    (hash2node \ Del(hash2node, linkedRoot, Children(linkedRoot) \ {b})) \ {linkedRoot}

\* And when delSingle has run as well.
Kept(b) ==
    Surviving(b) \ Del(Surviving(b), b, OldSingles(Surviving(b), b))

\* MUTANT: del leaves the leaf map alone.
UpdateLinkedRoot_Leaves(b) ==
    LET dead == hash2node \ Kept(b)
    IN  /\ hash2node' = Kept(b)
        /\ linked' = linked \ dead
        /\ singleRoot' = VirtualLeft(OldSingles(Surviving(b), b), Kept(b), b)
        /\ validWitness' = Cleared(RemoveValidWitness(b), dead, {})
        /\ active' = Cleared(active, dead, <<>>)
        /\ pending' = Cleared(pending, dead, <<>>)
        /\ serialNum' = Cleared(serialNum, dead, 0)
        /\ linkedRoot' = b
        /\ linkedRootWitness' = UpdateLinkedRootWitness(linkedRoot, b)
        /\ head' \in UpdateLongest(Kept(b), leaf)
        /\ UNCHANGED leaf

\* updateLinkedRoot.
UpdateLinkedRoot(b) ==
    LET dead == hash2node \ Kept(b)
    IN  /\ hash2node' = Kept(b)
        /\ linked' = linked \ dead
        /\ leaf' = leaf \ dead
        /\ singleRoot' = VirtualLeft(OldSingles(Surviving(b), b), Kept(b), b)
        /\ validWitness' = Cleared(RemoveValidWitness(b), dead, {})
        /\ active' = Cleared(active, dead, <<>>)
        /\ pending' = Cleared(pending, dead, <<>>)
        /\ serialNum' = Cleared(serialNum, dead, 0)
        /\ linkedRoot' = b
        /\ linkedRootWitness' = UpdateLinkedRootWitness(linkedRoot, b)
        /\ head' \in UpdateLongest(Kept(b), leaf \ dead)

\* The block of the path to `node` that comes after the root becomes the root.
AdvanceRoot ==
    /\ pc = "loop"
    /\ CanAdvance
    /\ \E b \in Anc[node] : Parent[b] = linkedRoot /\ UpdateLinkedRoot(b)
    /\ pc' = "flush"
    /\ UNCHANGED <<dbVars, node, stack>>

\* MUTANT: the tag itself is freed too.
FreeBefore_Inclusive(tags, t) ==
    IF t \in Range(tags)
      THEN SubSeq(tags, (CHOOSE i \in DOMAIN tags : tags[i] = t) + 1, Len(tags))
      ELSE tags

\* CommitManager.FreeBefore: all that was committed before the tag is freed.
FreeBefore(tags, t) ==
    IF t \in Range(tags)
      THEN SubSeq(tags, CHOOSE i \in DOMAIN tags : tags[i] = t, Len(tags))
      ELSE tags

\* MUTANT: flush pushes the block that is being added.
Flush_Node ==
    /\ pc = "flush"
    /\ chain' = Append(chain, node)
    /\ commits' = FreeBefore(commits, linkedRoot)
    /\ pc' = "loop"
    /\ UNCHANGED <<treeVars, nodeVars, rootVars, node, stack>>

\* flush: the new root goes to the block chain and its state to the state DB.
Flush ==
    /\ pc = "flush"
    /\ chain' = Append(chain, linkedRoot)
    /\ commits' = FreeBefore(commits, linkedRoot)
    /\ pc' = "loop"
    /\ UNCHANGED <<treeVars, nodeVars, rootVars, node, stack>>

-----------------------------------------------------------------------------
(* The loop over node.Children, in any order (a Go map).  A child that is   *)
(* deleted before its turn does not come up.                                *)

Remaining == stack[Len(stack)]
Callers == SubSeq(stack, 1, Len(stack) - 1)

NextChild(c) ==
    /\ pc = "next"
    /\ c \in Remaining \cap hash2node
    /\ LET rest == Remaining \ {c}
       IN  stack' = IF rest = {} THEN Callers ELSE Append(Callers, rest)
    /\ pc' = "exist"
    /\ node' = c
    /\ UNCHANGED <<treeVars, nodeVars, rootVars, dbVars>>

\* MUTANT: the finished loop is not left.
EndChildren_Stays ==
    /\ pc = "next"
    /\ Remaining \cap hash2node = {}
    /\ Return(stack)
    /\ UNCHANGED <<treeVars, nodeVars, rootVars, dbVars>>

EndChildren ==
    /\ pc = "next"
    /\ Remaining \cap hash2node = {}
    /\ Return(Callers)
    /\ UNCHANGED <<treeVars, nodeVars, rootVars, dbVars>>

-----------------------------------------------------------------------------
\* The steps of a running ChainBase.Add.
Step ==
    \/ RejectOutOfLimit
    \/ RejectInvalid
    \/ LinkBlock
    \/ UpdateLibShort
    \/ UpdateLibEnter
    \/ AdvanceRoot
    \/ Flush
    \/ UpdateLibExit
    \/ \E c \in Block : NextChild(c)
    \/ EndChildren

Next ==
    \/ \E b \in Block : AddBlock(b) \/ AddDuplicate(b) \/ GenerateBlock(b)
    \/ Step

Spec == Init /\ [][Next]_vars

-----------------------------------------------------------------------------
(* Properties. *)

TypeOK ==
    /\ hash2node \subseteq Block
    /\ linked \subseteq hash2node
    /\ leaf \subseteq linked
    /\ singleRoot \subseteq Block \cup {NoBlock}
    /\ validWitness \in [Block -> SUBSET Producer]
    /\ active \in [Block -> Seq(Producer)]
    /\ pending \in [Block -> Seq(Producer)]
    /\ serialNum \in [Block -> Nat]
    /\ linkedRoot \in linked
    /\ linkedRootWitness \subseteq Producer
    /\ head \in Block
    /\ commits \in Seq(Block)
    /\ chain \in Seq(Block)
    /\ pc \in {"idle", "exist", "lib", "loop", "flush", "next"}
    /\ node \in hash2node \cup {NoBlock}
    /\ stack \in Seq(SUBSET Block)

\* The linked nodes are one tree: each descends from the root through linked
\* nodes, and numbers grow by one along it (Link, updateLinkedRoot and del keep
\* Type, parent pointers and hash2node in step).
LinkedTree ==
    \A n \in linked \ {linkedRoot} :
        /\ Parent[n] \in linked
        /\ Number[n] = Number[Parent[n]] + 1
        /\ linkedRoot \in Anc[n]

\* The leaf map holds exactly the linked nodes without a linked child.
LeafExact ==
    leaf = {n \in linked : \A m \in linked \ {linkedRoot} : Parent[m] # n}

\* The virtual nodes are exactly the missing parents of nodes in the cache: none
\* is leaked by delSingle and none is missing when its block arrives.
SingleRootExact ==
    singleRoot = {Parent[m] : m \in hash2node \ {linkedRoot}} \ hash2node

\* A confirmation counted on a node was given by a producer of the node's active
\* list, with a block between the root and the node (updateValidWitness,
\* removeValidWitness, updateActive).
ConfirmationsReal ==
    \A n \in linked : validWitness[n] \subseteq
                        Confirming(linkedRoot, n) \cap Members(active[n])

\* And none is missing: however often the root has moved, removeValidWitness
\* has not taken away a confirmation that a later block gives again.
ConfirmationsExact ==
    \A n \in linked : validWitness[n] = Confirming(linkedRoot, n)

\* No linked node is longer than the head.
HeadLongest == \A n \in linked : ~Longer(n, head)

\* The state of every linked block is still there to build the next block on:
\* FreeBefore, which frees by order of commit, frees none that is needed.
StateAvailable == linked \subseteq Range(commits)

\* When no Add is running, a single whose parent is linked is one that is out of
\* its witness's limit: no block that could be linked has been left behind.
NoneLeftBehind ==
    pc = "idle" =>
        \A n \in hash2node \ linked :
            Parent[n] \in linked => SerialNum(n) >= BlockNumPerWitness

\* When no Add is running, the root is as far as the confirmations allow, as long
\* as the lists do not change.  (When they do it may lag: the block at which a new
\* list takes effect keeps the confirmations it has from members of that list, but
\* it moves the root no further.)
LibMaximal ==
    pc = "idle" =>
        \A n \in linked \ {linkedRoot} :
            active[n] = pending[linkedRoot] =>
               3 * Cardinality(validWitness[n]) <= 2 * WitnessNum

\* The root moves only to a child, on a linked chain on which more than two
\* thirds of the elected producers have built since the old root.
LibConfirmed ==
    [][linkedRoot' # linkedRoot =>
         \E n \in linked :
            /\ linkedRoot' \in Anc[n] \cap linked
            /\ Parent[linkedRoot'] = linkedRoot
            /\ 3 * Cardinality(Confirming(linkedRoot, n) \cap Members(pending[linkedRoot]))
                 > 2 * WitnessNum]_vars

\* A running Add ends.
AddTerminates == pc # "idle" ~> pc = "idle"

\* "Update Longest": the head is a block the cache still has.
HeadCached == head \in hash2node

\* The block chain the cache writes is an irreversible chain.
Irreversible == INSTANCE IrreversibleChain
ChainIrreversible == Irreversible!Spec
=============================================================================
