---------------------------- MODULE CacheProofs -----------------------------
(***************************************************************************)
(* Proofs about the block cache, for any tree of blocks delivered in any   *)
(* order.  First the structural invariant: the lemmas it needs (the linked *)
(* tree, the operators on the state, what updateLinkedRoot does to the     *)
(* tree), then that it is inductive, one lemma per action or kind of       *)
(* action.  On it rest the leaf map and the head, the confirmations, the   *)
(* irreversible chain, the states that must stay available, and the        *)
(* singles, the blocks that wait for their parents.                        *)
(***************************************************************************)
EXTENDS BlockCache, HeadersProofs

\* Time for the provers on a slow machine.
USE ZenonT(40), SMTT(40)

-----------------------------------------------------------------------------
(* The inductive invariant. *)

\* A virtual node stands for a block that has no node.
Apart == singleRoot \cap hash2node = {}

\* Where the running Add stands: addExistingBlock has a node whose parent is
\* linked, and until it iterates over the children none of them is.
Control ==
    /\ pc = "idle" => stack = <<>>
    /\ pc = "next" => stack # <<>>
    /\ pc = "exist" => node \in hash2node \ linked /\ Parent[node] \in linked
    /\ pc \in {"lib", "loop", "flush"} =>
          /\ node \in linked
          /\ \A m \in linked \ {linkedRoot} : Parent[m] # node

\* A child that an iteration has still to come to is a single whose parent is
\* linked, it is not the node in work, and no other iteration comes to it.
StackOK ==
    \A i \in DOMAIN stack : \A c \in stack[i] \cap hash2node :
        /\ c \notin linked
        /\ c # node
        /\ Parent[c] \in linked \ {node}
        /\ \A j \in DOMAIN stack \ {i} : c \notin stack[j]

\* Of our own blocks, those that could still be linked were made on a linked head
\* by its active list, which has not changed since.
Own ==
    \A b \in Range(commits) \ linked :
        linkedRoot \in Anc[b] =>
            /\ Parent[b] \in linked \ {node}
            /\ Number[b] = Number[Parent[b]] + 1
            /\ WitnessOfNanoSec(Time[b], active[Parent[b]]) = Witness[b]

\* A head that is not linked any more never will be.
HeadPruned == head \in linked \/ linkedRoot \notin Anc[head]

\* The lists of linked nodes are not empty.
Lists == \A n \in linked : active[n] # <<>> /\ pending[n] # <<>>

Structure ==
    /\ TypeOK
    /\ LinkedTree
    /\ Apart
    /\ Control
    /\ StackOK
    /\ Own
    /\ HeadPruned
    /\ Lists

-----------------------------------------------------------------------------
(* The linked tree. *)

\* Every linked node descends from the root.
LEMMA RootIsAncestor ==
    ASSUME TypeOK, LinkedTree, NEW n \in linked
    PROVE  n \in Block /\ linkedRoot \in Block /\ linkedRoot \in Anc[n]
BY AncUnfold DEF TypeOK, LinkedTree

\* The chain from the root to a linked node is linked.
LEMMA LinkedPath ==
    ASSUME TypeOK, LinkedTree, NEW n \in linked, NEW k \in Anc[n], linkedRoot \in Anc[k]
    PROVE  k \in linked
<1> DEFINE S == {m \in linked : \E d \in Anc[m] : linkedRoot \in Anc[d] /\ d \notin linked}
<1>1. SUFFICES ASSUME S # {} PROVE FALSE
  OBVIOUS
<1>2. linked \subseteq Block /\ linkedRoot \in linked
  BY DEF TypeOK
<1>3. PICK b \in S : Parent[b] \notin S
  BY <1>1, <1>2, AncestryAssumption
<1>4. PICK d \in Anc[b] : linkedRoot \in Anc[d] /\ d \notin linked
  BY <1>3
<1>5. b # linkedRoot
  BY <1>2, <1>4, AncAntisymmetric
<1>6. Parent[b] \in linked /\ d \in Anc[Parent[b]]
  BY <1>2, <1>3, <1>4, <1>5, AncUnfold DEF LinkedTree
<1> QED
  BY <1>3, <1>4, <1>6

\* A block whose parent is linked descends from the root, is not one of its
\* ancestors and, if it is not linked, has no linked descendant.
LEMMA ChildOfLinked ==
    ASSUME TypeOK, LinkedTree, NEW b \in Block, Parent[b] \in linked, b # linkedRoot
    PROVE  /\ Parent[b] \in Block
           /\ Anc[b] = Anc[Parent[b]] \cup {b}
           /\ linkedRoot \in Anc[b]
           /\ b \notin Anc[linkedRoot]
           /\ b \notin linked => \A m \in linked : b \notin Anc[m]
<1>1. Parent[b] \in Block /\ linkedRoot \in Block
  BY DEF TypeOK
<1>2. Anc[b] = Anc[Parent[b]] \cup {b} /\ linkedRoot \in Anc[b]
  BY <1>1, RootIsAncestor, AncUnfold
<1>3. b \notin Anc[linkedRoot]
  BY <1>1, <1>2, AncAntisymmetric
<1>4. b \notin linked => \A m \in linked : b \notin Anc[m]
  BY <1>2, LinkedPath
<1> QED
  BY <1>1, <1>2, <1>3, <1>4

\* updateLinkedRoot keeps exactly the linked nodes that descend from the new root.
LEMMA KeptLinked ==
    ASSUME TypeOK, LinkedTree, Apart, NEW b \in linked, b # linkedRoot,
           Parent[b] = linkedRoot, NEW n \in linked
    PROVE  n \in Kept(b) <=> b \in Anc[n]
<1>1. /\ linked \subseteq hash2node
      /\ hash2node \subseteq Block
      /\ n \in Block /\ b \in Block /\ linkedRoot \in Block
      /\ linkedRoot \in linked
  BY DEF TypeOK
<1>2. Anc[b] = Anc[linkedRoot] \cup {b} /\ b \notin Anc[linkedRoot]
  BY <1>1, AncUnfold, ParentBelow
<1>3. ASSUME b \notin Anc[n]
      PROVE  n \notin Kept(b)
  <2>1. CASE n = linkedRoot
    BY <2>1 DEF Kept, Surviving
  <2>2. CASE n # linkedRoot
    <3>1. linkedRoot \in Anc[n]
      BY RootIsAncestor
    <3>2. PICK s \in Anc[n] : Parent[s] = linkedRoot
      BY <1>1, <2>2, <3>1, AncStep
    <3>3. s \in Block /\ linkedRoot \in Anc[s] /\ s \notin Anc[linkedRoot]
      BY SMTT(40), <1>1, <3>2, AncUnfold, ParentBelow
    <3>4. s \in linked /\ s # linkedRoot /\ s # b
      BY <1>1, <1>3, <3>2, <3>3, LinkedPath, AncUnfold
    <3>5. s \in Children(linkedRoot) \ {b}
      BY <1>1, <3>2, <3>4 DEF Children
    <3>6. ASSUME NEW k \in Anc[n], s \in Anc[k]
          PROVE  k \in hash2node \ {linkedRoot}
      <4>1. k \in Block /\ linkedRoot \in Anc[k]
        BY <1>1, <3>3, <3>6, AncUnfold, AncTransitive
      <4> QED
        BY <1>1, <3>3, <3>6, <4>1, LinkedPath
    <3>7. n \in Subtree(hash2node, linkedRoot, s)
      BY <1>1, <3>2, <3>6 DEF Subtree
    <3> QED
      BY <3>5, <3>7 DEF Kept, Surviving, Del
  <2> QED
    BY <2>1, <2>2
<1>4. ASSUME b \in Anc[n]
      PROVE  n \in Surviving(b)
  <2>1. n # linkedRoot
    BY <1>2, <1>4
  <2>2. ASSUME NEW s \in Children(linkedRoot) \ {b}, n \in Subtree(hash2node, linkedRoot, s)
        PROVE  FALSE
    <3>1. s \in Block /\ s \in Anc[n] /\ Parent[s] = linkedRoot /\ s # b
      BY <1>1, <2>2 DEF Children, Subtree
    <3>2. s \in Anc[b] \/ b \in Anc[s]
      BY <1>1, <1>4, <3>1, AncLinear
    <3>3. s \notin Anc[linkedRoot] /\ Anc[s] = Anc[linkedRoot] \cup {s}
      BY SMTT(40), <1>1, <3>1, AncUnfold, ParentBelow
    <3> QED
      BY <1>2, <3>1, <3>2, <3>3
  <2> QED
    BY <1>1, <2>1, <2>2 DEF Surviving, Del
<1>5. ASSUME b \in Anc[n], NEW m \in OldSingles(Surviving(b), b),
             n \in Subtree(Surviving(b), b, m)
      PROVE  FALSE
  <2>1. /\ m \in hash2node /\ m \in Block /\ m # b
        /\ Parent[m] \in singleRoot
        /\ m \in Anc[n]
        /\ \A k \in Anc[n] : m \in Anc[k] => k # b
    BY <1>1, <1>5 DEF OldSingles, Surviving, Subtree
  <2>2. b \in Anc[m]
    BY <1>1, <1>5, <2>1, AncLinear
  <2>3. Parent[m] \in Block /\ b \in Anc[Parent[m]] /\ Parent[m] \in Anc[m]
    BY <2>1, <2>2, AncUnfold
  <2>4. Parent[m] \in Anc[n] /\ linkedRoot \in Anc[Parent[m]]
    BY <1>1, <1>2, <2>1, <2>3, AncTransitive, AncUnfold
  <2>5. Parent[m] \in hash2node
    BY <1>1, <2>4, LinkedPath
  <2> QED
    BY <2>1, <2>5 DEF Apart
<1> QED
  BY <1>3, <1>4, <1>5 DEF Kept, Del

-----------------------------------------------------------------------------
(* What the operators on the state compute. *)

\* What Append does to the length and the elements of a sequence (Commit,
\* flush's push).
LEMMA AppendFacts ==
    ASSUME NEW S, NEW s \in Seq(S), NEW e \in S
    PROVE  /\ Append(s, e) \in Seq(S)
           /\ Len(s) \in Nat
           /\ DOMAIN s = 1..Len(s)
           /\ DOMAIN Append(s, e) = 1..(Len(s) + 1)
           /\ \A i \in 1..Len(s) : Append(s, e)[i] = s[i]
           /\ Append(s, e)[Len(s) + 1] = e
BY SMTT(40)

\* Committing a tag adds that tag and no other.
LEMMA RangeAppend ==
    ASSUME NEW S, NEW s \in Seq(S), NEW e \in S
    PROVE  Range(Append(s, e)) = Range(s) \cup {e}
<1>1. /\ \A i \in 1..Len(s) : Append(s, e)[i] = s[i]
      /\ Append(s, e)[Len(s) + 1] = e
      /\ DOMAIN Append(s, e) = 1..(Len(s) + 1)
      /\ DOMAIN s = 1..Len(s)
      /\ Len(s) \in Nat
  BY SMTT(40), AppendFacts
<1>2. ASSUME NEW i \in 1..(Len(s) + 1)
      PROVE  Append(s, e)[i] \in Range(s) \cup {e}
  <2>1. CASE i = Len(s) + 1
    BY <1>1, <2>1
  <2>2. CASE i \in 1..Len(s)
    BY <1>1, <2>2 DEF Range
  <2> QED
    BY SMTT(40), <1>1, <2>1, <2>2
<1>3. ASSUME NEW x \in Range(s)
      PROVE  x \in Range(Append(s, e))
  <2>1. PICK i \in 1..Len(s) : x = s[i]
    BY <1>1 DEF Range
  <2>2. i \in 1..(Len(s) + 1) /\ Append(s, e)[i] = x
    BY SMTT(40), <1>1, <2>1
  <2> QED
    BY <1>1, <2>2 DEF Range
<1>4. e \in Range(Append(s, e))
  <2>1. Len(s) + 1 \in 1..(Len(s) + 1)
    BY SMTT(40), <1>1
  <2> QED
    BY <1>1, <2>1 DEF Range
<1> QED
  BY <1>1, <1>2, <1>3, <1>4 DEF Range

\* FreeBefore leaves a suffix of the tags, and all of them if the tag is not there.
LEMMA FreeBeforeSuffix ==
    ASSUME NEW s \in Seq(Block), NEW t
    PROVE  \E d \in 0..Len(s) :
              /\ FreeBefore(s, t) \in Seq(Block)
              /\ Len(FreeBefore(s, t)) = Len(s) - d
              /\ \A i \in 1..(Len(s) - d) : FreeBefore(s, t)[i] = s[i + d]
              /\ d # 0 => d + 1 \in DOMAIN s /\ s[d + 1] = t
<1>1. CASE t \notin Range(s)
  <2>1. FreeBefore(s, t) = s
    BY <1>1 DEF FreeBefore
  <2>2. 0 \in 0..Len(s) /\ Len(s) \in Nat
    BY SMTT(40)
  <2> QED
    BY SMTT(40), <2>1, <2>2
<1>2. CASE t \in Range(s)
  <2> DEFINE k == CHOOSE i \in DOMAIN s : s[i] = t
  <2>1. k \in DOMAIN s /\ s[k] = t
    BY <1>2 DEF Range
  <2>2. k \in 1..Len(s) /\ Len(s) \in Nat
    BY SMTT(40), <2>1
  <2>3. FreeBefore(s, t) = SubSeq(s, k, Len(s))
    BY <1>2 DEF FreeBefore
  <2> HIDE DEF k
  <2>4. /\ SubSeq(s, k, Len(s)) \in Seq(Block)
        /\ Len(SubSeq(s, k, Len(s))) = Len(s) - k + 1
        /\ \A i \in 1..(Len(s) - k + 1) : SubSeq(s, k, Len(s))[i] = s[k + i - 1]
    BY SMTT(40), <2>2
  <2>5. /\ k - 1 \in 0..Len(s)
        /\ Len(FreeBefore(s, t)) = Len(s) - (k - 1)
        /\ \A i \in 1..(Len(s) - (k - 1)) : FreeBefore(s, t)[i] = s[i + (k - 1)]
        /\ (k - 1) + 1 = k
    BY SMTT(40), <2>2, <2>3, <2>4
  <2> QED
    BY <2>1, <2>3, <2>4, <2>5
<1> QED
  BY <1>1, <1>2

\* FreeBefore keeps no tag that was not there.
LEMMA FreeBeforeRange ==
    ASSUME NEW s \in Seq(Block), NEW t
    PROVE  FreeBefore(s, t) \in Seq(Block) /\ Range(FreeBefore(s, t)) \subseteq Range(s)
<1>1. PICK d \in 0..Len(s) :
              /\ FreeBefore(s, t) \in Seq(Block)
              /\ Len(FreeBefore(s, t)) = Len(s) - d
              /\ \A i \in 1..(Len(s) - d) : FreeBefore(s, t)[i] = s[i + d]
  BY SMTT(40), FreeBeforeSuffix
<1>2. ASSUME NEW i \in 1..(Len(s) - d)
      PROVE  FreeBefore(s, t)[i] \in Range(s)
  <2>1. i + d \in DOMAIN s
    BY SMTT(40)
  <2> QED
    BY <1>1, <2>1 DEF Range
<1>3. DOMAIN FreeBefore(s, t) = 1..(Len(s) - d)
  BY SMTT(40), <1>1
<1> QED
  BY <1>1, <1>2, <1>3 DEF Range

\* The values Cleared gives to the fields of deleted nodes have the fields' types.
LEMMA NilTypes == {} \in SUBSET Producer /\ <<>> \in Seq(Producer) /\ 0 \in Nat
BY SMTT(40)

\* Clearing the fields of deleted nodes keeps their type.
LEMMA ClearedType ==
    ASSUME NEW S, NEW f \in [Block -> S], NEW dead, NEW nil \in S
    PROVE  Cleared(f, dead, nil) \in [Block -> S]
BY DEF Cleared

-----------------------------------------------------------------------------
(* A step of the root. *)

\* A node is not deleted before its parent is, unless the parent is the old root:
\* a single whose linked parent is kept or was kept so far is not orphaned.
LEMMA KeptChild ==
    ASSUME TypeOK, LinkedTree, Apart, NEW b \in linked, b # linkedRoot,
           Parent[b] = linkedRoot,
           NEW c \in Kept(b) \ {b}, Parent[c] \in hash2node
    PROVE  Parent[c] \in Kept(b)
<1>1. /\ hash2node \subseteq Block /\ linkedRoot \in hash2node
      /\ c \in hash2node /\ c \in Block /\ c # linkedRoot
      /\ Parent[c] \in Block
  BY DEF TypeOK, Kept, Surviving
<1>2. Anc[c] = Anc[Parent[c]] \cup {c} /\ c \notin Anc[Parent[c]]
  BY <1>1, AncUnfold, ParentBelow
<1>3. Parent[c] # linkedRoot
  <2>1. SUFFICES ASSUME Parent[c] = linkedRoot PROVE FALSE
    OBVIOUS
  <2>2. c \in Children(linkedRoot) \ {b}
    BY <1>1, <2>1 DEF Children
  <2>3. ASSUME NEW k \in Anc[c], c \in Anc[k]
        PROVE  k \in hash2node \ {linkedRoot}
    BY <1>1, <2>3, AncAntisymmetric
  <2>4. c \in Subtree(hash2node, linkedRoot, c)
    BY <1>1, <2>3, AncUnfold DEF Subtree
  <2> QED
    BY SMTT(40), <2>2, <2>4 DEF Kept, Surviving, Del
<1>4. Parent[c] \in Surviving(b)
  <2>1. ASSUME NEW s \in Children(linkedRoot) \ {b},
               Parent[c] \in Subtree(hash2node, linkedRoot, s)
        PROVE  FALSE
    <3>1. s \in Anc[c]
      BY <1>2, <2>1 DEF Subtree
    <3>2. \A k \in Anc[c] : s \in Anc[k] => k \in hash2node \ {linkedRoot}
      BY <1>1, <1>2, <2>1 DEF Subtree
    <3>3. c \in Subtree(hash2node, linkedRoot, s)
      BY <1>1, <3>1, <3>2 DEF Subtree
    <3> QED
      BY SMTT(40), <2>1, <3>3 DEF Kept, Surviving, Del
  <2> QED
    BY <1>3, <2>1 DEF Surviving, Del
<1>5. ASSUME NEW m \in OldSingles(Surviving(b), b),
             Parent[c] \in Subtree(Surviving(b), b, m)
      PROVE  FALSE
  <2>1. c \in Surviving(b)
    BY DEF Kept
  <2>2. \A k \in Anc[c] : m \in Anc[k] => k \in Surviving(b) \ {b}
    BY <1>2, <1>5, <2>1 DEF Subtree
  <2>3. c \in Subtree(Surviving(b), b, m)
    BY <1>2, <1>5, <2>1, <2>2 DEF Subtree
  <2> QED
    BY <1>5, <2>3 DEF Kept, Del
<1> QED
  BY <1>4, <1>5 DEF Kept, Del

\* What AdvanceRoot does to the tree: the new root is a linked child of the old
\* one on the chain of `node`, the linked nodes that are left are those that
\* descend from it, and their fields, confirmations apart, do not change.
LEMMA AdvanceEffect ==
    ASSUME TypeOK, LinkedTree, Apart, Control, AdvanceRoot
    PROVE  /\ linkedRoot' \in linked \ {linkedRoot}
           /\ linkedRoot' \in Anc[node]
           /\ Parent[linkedRoot'] = linkedRoot
           /\ linked' = {n \in linked : linkedRoot' \in Anc[n]}
           /\ hash2node' = Kept(linkedRoot')
           /\ hash2node' \subseteq hash2node \ {linkedRoot}
           /\ linked' \subseteq hash2node'
           /\ leaf' = leaf \cap linked'
           /\ singleRoot' = VirtualLeft(OldSingles(Surviving(linkedRoot'), linkedRoot'),
                                        Kept(linkedRoot'), linkedRoot')
           /\ \A n \in linked' : /\ active'[n] = active[n]
                                 /\ pending'[n] = pending[n]
                                 /\ serialNum'[n] = serialNum[n]
                                 /\ validWitness'[n] = RemoveValidWitness(linkedRoot')[n]
           /\ \A c \in hash2node' \ linked : Parent[c] \in linked => Parent[c] \in linked'
           /\ head' = head \/ (head' \in leaf' /\ Longer(head', head))
<1>1. PICK b \in Anc[node] : Parent[b] = linkedRoot /\ UpdateLinkedRoot(b)
  BY DEF AdvanceRoot
<1>2. /\ linked \subseteq hash2node
      /\ hash2node \subseteq Block
      /\ leaf \subseteq linked
      /\ linkedRoot \in linked /\ linkedRoot \in Block
      /\ node \in linked /\ node \in Block
  BY DEF TypeOK, Control, AdvanceRoot
<1>3. b \in Block /\ linkedRoot \in Anc[b] /\ b # linkedRoot
  BY <1>1, <1>2, AncUnfold, ParentBelow
<1>4. b \in linked
  BY <1>1, <1>2, <1>3, LinkedPath
<1>5. linkedRoot' = b /\ hash2node' = Kept(b)
  BY <1>1 DEF UpdateLinkedRoot
<1>6. Kept(b) \subseteq hash2node \ {linkedRoot}
  BY DEF Kept, Surviving
<1>7. linked' = {n \in linked : b \in Anc[n]}
  <2>1. linked' = linked \ (hash2node \ Kept(b))
    BY <1>1 DEF UpdateLinkedRoot
  <2> QED
    BY <1>1, <1>2, <1>3, <1>4, <2>1, KeptLinked
<1>8. linked' \subseteq Kept(b)
  BY <1>1, <1>2, <1>3, <1>4, <1>7, KeptLinked
<1>9. leaf' = leaf \cap linked'
  BY <1>1, <1>2, <1>3, <1>4, <1>7, KeptLinked DEF UpdateLinkedRoot
<1>10. ASSUME NEW n \in linked'
       PROVE  /\ active'[n] = active[n]
              /\ pending'[n] = pending[n]
              /\ serialNum'[n] = serialNum[n]
              /\ validWitness'[n] = RemoveValidWitness(b)[n]
  <2>1. n \in Block /\ n \notin hash2node \ Kept(b)
    BY <1>2, <1>7, <1>8
  <2> QED
    BY <1>1, <2>1 DEF UpdateLinkedRoot, Cleared
<1>11. ASSUME NEW c \in Kept(b) \ linked, Parent[c] \in linked
       PROVE  Parent[c] \in linked'
  <2>1. Parent[c] \in Kept(b)
    BY <1>1, <1>2, <1>3, <1>4, <1>11, KeptChild
  <2> QED
    BY <1>1, <1>3, <1>4, <1>7, <1>11, <2>1, KeptLinked
<1>12. head' = head \/ (head' \in leaf' /\ Longer(head', head))
  BY <1>1 DEF UpdateLinkedRoot, UpdateLongest
<1>13. singleRoot' = VirtualLeft(OldSingles(Surviving(b), b), Kept(b), b)
  BY <1>1 DEF UpdateLinkedRoot
<1> QED
  BY <1>1, <1>3, <1>4, <1>5, <1>6, <1>7, <1>8, <1>9, <1>10, <1>11, <1>12, <1>13

-----------------------------------------------------------------------------
(* The structural invariant is inductive. *)

\* NewBlockCache's cache of one linked node satisfies the structural invariant.
LEMMA StructureInit == Init => Structure
<1> SUFFICES ASSUME Init PROVE Structure
  OBVIOUS
<1>1. Genesis \in Block /\ PendingOf[Genesis] \in Seq(Producer) \ {<<>>}
  BY HeaderAssumption
<1>2. Range(<<Genesis>>) = {Genesis}
  BY SMTT(40) DEF Range
<1>3. TypeOK
  BY SMTT(40), <1>1 DEF Init, TypeOK
<1>4. LinkedTree /\ Apart /\ Control /\ StackOK
  BY SMTT(40) DEF Init, LinkedTree, Apart, Control, StackOK
<1>5. Own /\ HeadPruned /\ Lists
  BY <1>1, <1>2 DEF Init, Own, HeadPruned, Lists
<1> QED
  BY <1>3, <1>4, <1>5 DEF Structure

\* The actions that start an Add.
LEMMA StructureEnter ==
    ASSUME Structure, NEW b \in Block, AddBlock(b) \/ GenerateBlock(b)
    PROVE  Structure'
<1>1. /\ TypeOK /\ LinkedTree /\ Apart /\ Control /\ StackOK /\ Own /\ HeadPruned /\ Lists
      /\ pc = "idle" /\ stack = <<>>
      /\ b \notin hash2node
      /\ EnterAdd(b)
  BY DEF Structure, Control, AddBlock, GenerateBlock
<1>2. /\ UNCHANGED <<linked, leaf, validWitness, active, pending, serialNum, linkedRoot,
                      linkedRootWitness, head, chain>>
      /\ hash2node' = hash2node \cup {b}
      /\ singleRoot' = (singleRoot \cup ({Parent[b]} \ hash2node)) \ {b}
      /\ \/ Parent[b] \in linked /\ pc' = "exist" /\ node' = b /\ stack' = <<>>
         \/ pc' = "idle" /\ node' = node /\ stack' = <<>>
  BY <1>1 DEF EnterAdd, AddNode, nodeVars, rootVars, ctlVars
<1>3. \/ commits' = commits
      \/ /\ commits' = Append(commits, b)
         /\ Parent[b] = head
         /\ Number[b] = Number[head] + 1
         /\ head \in linked => WitnessOfNanoSec(Time[b], active[head]) = Witness[b]
  BY DEF AddBlock, GenerateBlock
<1>4. /\ linked \subseteq hash2node /\ hash2node \subseteq Block
      /\ linkedRoot \in linked /\ linkedRoot \in Block /\ head \in Block
      /\ commits \in Seq(Block)
      /\ Parent[b] \in Block \cup {NoBlock}
  BY <1>1, HeaderAssumption DEF TypeOK
<1>5. TypeOK'
  <2>1. commits' \in Seq(Block)
    BY SMTT(40), <1>3, <1>4
  <2> QED
    BY <1>1, <1>2, <1>4, <2>1 DEF TypeOK
<1>6. LinkedTree' /\ HeadPruned' /\ Lists'
  BY <1>1, <1>2 DEF LinkedTree, HeadPruned, Lists
<1>7. Apart'
  BY <1>1, <1>2 DEF Apart
<1>8. Control' /\ StackOK'
  BY SMTT(40), <1>1, <1>2, <1>4 DEF Control, StackOK
<1>9. Own'
  <2>1. ASSUME NEW c \in Range(commits) \ linked, linkedRoot \in Anc[c]
        PROVE  /\ Parent[c] \in linked \ {node'}
               /\ Number[c] = Number[Parent[c]] + 1
               /\ WitnessOfNanoSec(Time[c], active[Parent[c]]) = Witness[c]
    BY <1>1, <1>2, <1>4, <2>1 DEF Own
  <2>2. CASE commits' = commits
    BY <1>2, <2>1, <2>2 DEF Own
  <2>3. CASE /\ commits' = Append(commits, b)
             /\ Parent[b] = head
             /\ Number[b] = Number[head] + 1
             /\ head \in linked => WitnessOfNanoSec(Time[b], active[head]) = Witness[b]
    <3>1. Range(commits') = Range(commits) \cup {b}
      BY SMTT(40), <1>4, <2>3, RangeAppend
    <3>2. ASSUME linkedRoot \in Anc[b]
          PROVE  head \in linked
      <4>1. linkedRoot \in Anc[head]
        BY SMTT(40), <1>1, <1>4, <2>3, <3>2, AncUnfold
      <4> QED
        BY <1>1, <4>1 DEF HeadPruned
    <3>3. head \in linked => node' = b
      BY <1>1, <1>2, <2>3 DEF EnterAdd
    <3>4. head \in linked => head # b
      BY <1>1, <1>4
    <3> QED
      BY <1>2, <2>1, <2>3, <3>1, <3>2, <3>3, <3>4 DEF Own
  <2> QED
    BY <1>3, <2>2, <2>3
<1> QED
  BY <1>5, <1>6, <1>7, <1>8, <1>9 DEF Structure

\* The return from addExistingBlock, and the steps of the loop over the children:
\* the tree stays, and each level of the stack loses children or stays.
LEMMA StructureStack ==
    ASSUME Structure,
           UNCHANGED <<linked, leaf, singleRoot, linkedRoot, linkedRootWitness, head, dbVars>>,
           linked \subseteq hash2node', hash2node' \subseteq hash2node,
           validWitness' \in [Block -> SUBSET Producer],
           active' \in [Block -> Seq(Producer)],
           pending' \in [Block -> Seq(Producer)],
           serialNum' \in [Block -> Nat],
           \A n \in linked : pending'[n] = pending[n],
           \A n \in linked \ {node} : active'[n] = active[n],
           node \in linked => active'[node] # <<>>,
           stack' \in Seq(SUBSET Block),
           pc' \in {"idle", "next", "exist"},
           pc' = "exist" => node' \in hash2node' \ linked /\ Parent[node'] \in linked,
           pc' # "exist" => node' = NoBlock,
           pc' = "idle" => stack' = <<>>,
           pc' = "next" => stack' # <<>>,
           StackOK'
    PROVE  Structure'
<1>1. /\ TypeOK /\ LinkedTree /\ Apart /\ Control /\ Own /\ HeadPruned /\ Lists
      /\ linked \subseteq Block /\ hash2node \subseteq Block
      /\ NoBlock \notin Block
  BY HeaderAssumption DEF Structure, TypeOK
<1>2. UNCHANGED <<commits, chain>>
  BY DEF dbVars
<1>3. TypeOK'
  BY <1>1, <1>2 DEF TypeOK
<1>4. LinkedTree' /\ Apart' /\ HeadPruned'
  BY <1>1 DEF LinkedTree, Apart, HeadPruned
<1>5. Control'
  BY <1>1 DEF Control
<1>6. Own'
  <2>1. ASSUME NEW b \in Range(commits) \ linked, linkedRoot \in Anc[b]
        PROVE  /\ Parent[b] \in linked \ {node'}
               /\ Number[b] = Number[Parent[b]] + 1
               /\ WitnessOfNanoSec(Time[b], active'[Parent[b]]) = Witness[b]
    <3>1. /\ Parent[b] \in linked \ {node}
          /\ Number[b] = Number[Parent[b]] + 1
          /\ WitnessOfNanoSec(Time[b], active[Parent[b]]) = Witness[b]
      BY <1>1, <2>1 DEF Own
    <3>2. node' \notin linked
      BY <1>1
    <3> QED
      BY <3>1, <3>2
  <2> QED
    BY <1>2, <2>1 DEF Own
<1>7. Lists'
  BY <1>1 DEF Lists
<1> QED
  BY <1>3, <1>4, <1>5, <1>6, <1>7 DEF Structure

\* errOutOfLimit only sets a serial number and returns.
LEMMA StructureRejectOutOfLimit ==
    ASSUME Structure, RejectOutOfLimit
    PROVE  Structure'
<1>1. /\ TypeOK /\ Control /\ StackOK /\ Lists
      /\ node \in hash2node \ linked /\ Parent[node] \in linked
      /\ linked \subseteq hash2node /\ hash2node \subseteq Block
      /\ NoBlock \notin Block
      /\ node \in Block
      /\ stack \in Seq(SUBSET Block)
  BY HeaderAssumption DEF Structure, TypeOK, Control, RejectOutOfLimit
<1>2. SerialNum(node) \in Nat
  BY SMTT(40), <1>1 DEF SerialNum, TypeOK
<1>3. /\ UNCHANGED <<linked, leaf, singleRoot, hash2node, validWitness, active, pending,
                      linkedRoot, linkedRootWitness, head, dbVars>>
      /\ serialNum' = [serialNum EXCEPT ![node] = SerialNum(node)]
      /\ Return(stack)
  BY DEF RejectOutOfLimit, treeVars, rootVars
<1>4. serialNum' \in [Block -> Nat]
  BY <1>1, <1>2, <1>3 DEF TypeOK
<1>5. StackOK'
  BY SMTT(40), <1>1, <1>3 DEF StackOK, Return
<1> QED
  BY <1>1, <1>3, <1>4, <1>5, StructureStack DEF Return, TypeOK

\* A failed verifyBlock deletes the node and the singles above it, no linked node.
LEMMA StructureRejectInvalid ==
    ASSUME Structure, RejectInvalid
    PROVE  Structure' /\ linked' = linked /\ leaf' = leaf
<1>1. /\ TypeOK /\ LinkedTree /\ Control /\ StackOK /\ Lists
      /\ node \in hash2node \ linked /\ Parent[node] \in linked
      /\ linked \subseteq hash2node /\ hash2node \subseteq Block /\ leaf \subseteq linked
      /\ NoBlock \notin Block
      /\ node \in Block
      /\ linkedRoot \in linked
      /\ stack \in Seq(SUBSET Block)
  BY HeaderAssumption DEF Structure, TypeOK, Control, RejectInvalid
<1> DEFINE dead == Del(hash2node, linkedRoot, {node})
<1>2. /\ hash2node' = hash2node \ dead
      /\ linked' = linked \ dead
      /\ leaf' = leaf \ dead
      /\ validWitness' = Cleared(validWitness, dead, {})
      /\ active' = Cleared(active, dead, <<>>)
      /\ pending' = Cleared(pending, dead, <<>>)
      /\ serialNum' = Cleared(serialNum, dead, 0)
      /\ Return(stack)
      /\ UNCHANGED <<singleRoot, linkedRoot, linkedRootWitness, head, dbVars>>
  BY DEF RejectInvalid, ClearNodes, rootVars
<1>3. \A d \in dead : node \in Anc[d]
  BY DEF Del, Subtree
<1>4. linked \cap dead = {}
  BY <1>1, <1>3, ChildOfLinked
<1> HIDE DEF dead
<1>5. linked' = linked /\ leaf' = leaf
  BY <1>1, <1>2, <1>4
<1>6. /\ validWitness' \in [Block -> SUBSET Producer]
      /\ active' \in [Block -> Seq(Producer)]
      /\ pending' \in [Block -> Seq(Producer)]
      /\ serialNum' \in [Block -> Nat]
  BY <1>1, <1>2, ClearedType, NilTypes
     DEF TypeOK
<1>7. \A n \in linked : active'[n] = active[n] /\ pending'[n] = pending[n]
  BY <1>1, <1>2, <1>4 DEF Cleared
<1>8. StackOK'
  BY SMTT(40), <1>1, <1>2, <1>5 DEF StackOK, Return
<1>9. Structure'
  BY <1>1, <1>2, <1>4, <1>5, <1>6, <1>7, <1>8, StructureStack DEF Return
<1> QED
  BY <1>5, <1>9

\* What LinkBlock knows of the block it links, verified or our own.
LEMMA LinkChecks ==
    ASSUME Structure, LinkBlock
    PROVE  /\ node \in hash2node \ linked
           /\ node \in Block /\ node # linkedRoot
           /\ Parent[node] \in linked
           /\ Parent[node] # node
           /\ Number[node] = Number[Parent[node]] + 1
           /\ WitnessOfNanoSec(Time[node], active[Parent[node]]) = Witness[node]
           /\ commits' \in Seq(Block)
           /\ Range(commits') = Range(commits) \cup {node}
<1>1. /\ TypeOK /\ LinkedTree /\ Own
      /\ node \in hash2node \ linked /\ node \in Block /\ node # linkedRoot
      /\ Parent[node] \in linked /\ Parent[node] # node
      /\ commits \in Seq(Block)
  BY DEF Structure, TypeOK, Control, LinkBlock
<1>2. CASE node \in Range(commits) /\ UNCHANGED commits
  <2>1. linkedRoot \in Anc[node]
    BY <1>1, ChildOfLinked
  <2> QED
    BY <1>1, <1>2, <2>1 DEF Own
<1>3. CASE /\ HeadOK(node, Parent[node], active[Parent[node]])
           /\ commits' = Append(commits, node)
  <2>1. commits' \in Seq(Block) /\ Range(commits') = Range(commits) \cup {node}
    BY SMTT(40), <1>1, <1>3, RangeAppend
  <2> QED
    BY <1>1, <1>3, <2>1 DEF HeadOK
<1> QED
  BY <1>2, <1>3 DEF LinkBlock

\* Link adds to the tree a child of a linked node with the next number: by
\* verifyBlock, or by generateBlock for one of our own.
LEMMA StructureLinkBlock ==
    ASSUME Structure, LinkBlock
    PROVE  Structure'
<1>1. /\ TypeOK /\ LinkedTree /\ Apart /\ Control /\ StackOK /\ Own /\ HeadPruned /\ Lists
      /\ linked \subseteq hash2node /\ hash2node \subseteq Block /\ linkedRoot \in linked
  BY DEF Structure, TypeOK
<1>2. /\ node \in hash2node \ linked
      /\ node \in Block /\ node # linkedRoot
      /\ Parent[node] \in linked /\ Parent[node] \in Block
      /\ Parent[node] # node
      /\ Number[node] = Number[Parent[node]] + 1
      /\ commits' \in Seq(Block)
      /\ Range(commits') = Range(commits) \cup {node}
  BY <1>1, LinkChecks
<1>3. /\ serialNum' = [serialNum EXCEPT ![node] = SerialNum(node)]
      /\ Link(node)
      /\ pc' = "lib"
      /\ UNCHANGED <<hash2node, singleRoot, linkedRoot, linkedRootWitness, chain, node, stack>>
  BY DEF LinkBlock
<1>4. /\ linked' = linked \cup {node}
      /\ leaf' = (leaf \ {Parent[node]}) \cup {node}
      /\ head' \in {head, node}
  BY <1>3 DEF Link
<1>5. /\ validWitness' \in [Block -> SUBSET Producer]
      /\ active' \in [Block -> Seq(Producer)]
      /\ pending' \in [Block -> Seq(Producer)]
      /\ active'[node] = active[Parent[node]]
      /\ pending'[node] # <<>>
      /\ \A n \in Block \ {node} : active'[n] = active[n] /\ pending'[n] = pending[n]
  <2>1. Witness[node] \in Producer /\ PendingOf[node] \in Seq(Producer) \ {<<>>}
    BY <1>2, HeaderAssumption
  <2> QED
    BY <1>1, <1>2, <1>3, <2>1 DEF TypeOK, Lists, Link
<1>6. serialNum' \in [Block -> Nat]
  <2>1. SerialNum(node) \in Nat
    BY SMTT(40), <1>1, <1>2 DEF SerialNum, TypeOK
  <2> QED
    BY <1>1, <1>2, <1>3, <2>1 DEF TypeOK
<1>7. TypeOK'
  BY <1>1, <1>2, <1>3, <1>4, <1>5, <1>6 DEF TypeOK
<1>8. LinkedTree'
  <2>1. linkedRoot \in Anc[node]
    BY <1>1, <1>2, ChildOfLinked
  <2> QED
    BY <1>1, <1>2, <1>3, <1>4, <2>1 DEF LinkedTree
<1>9. Apart' /\ HeadPruned'
  BY <1>1, <1>3, <1>4 DEF Apart, HeadPruned
<1>10. Control'
  BY <1>1, <1>2, <1>3, <1>4 DEF Control, LinkedTree
<1>11. StackOK'
  BY SMTT(40), <1>1, <1>3, <1>4 DEF StackOK
<1>12. Own'
  <2>1. ASSUME NEW b \in Range(commits') \ linked', linkedRoot \in Anc[b]
        PROVE  /\ Parent[b] \in linked \ {node}
               /\ Number[b] = Number[Parent[b]] + 1
               /\ WitnessOfNanoSec(Time[b], active'[Parent[b]]) = Witness[b]
    <3>1. b \in Range(commits) \ linked
      BY <1>2, <1>4, <2>1
    <3>2. /\ Parent[b] \in linked \ {node}
          /\ Number[b] = Number[Parent[b]] + 1
          /\ WitnessOfNanoSec(Time[b], active[Parent[b]]) = Witness[b]
      BY <1>1, <2>1, <3>1 DEF Own
    <3> QED
      BY <1>1, <1>5, <3>2
  <2> QED
    BY <1>3, <1>4, <2>1 DEF Own
<1>13. Lists'
  BY <1>1, <1>2, <1>4, <1>5 DEF Lists
<1> QED
  BY <1>7, <1>8, <1>9, <1>10, <1>11, <1>12, <1>13 DEF Structure

\* The two ends of UpdateLib, after which the children have their turn.
LEMMA StructureUpdateLibEnd ==
    ASSUME Structure, UpdateLibShort \/ UpdateLibExit
    PROVE  Structure'
<1>1. /\ TypeOK /\ Control /\ StackOK /\ Lists
      /\ linked \subseteq hash2node /\ hash2node \subseteq Block /\ linkedRoot \in linked
      /\ NoBlock \notin Block
      /\ node \in linked /\ node \in Block
      /\ \A m \in linked \ {linkedRoot} : Parent[m] # node
      /\ stack \in Seq(SUBSET Block)
  BY HeaderAssumption DEF Structure, TypeOK, Control, UpdateLibShort, UpdateLibExit
<1>2. /\ UNCHANGED <<hash2node, linked, leaf, singleRoot, linkedRoot, linkedRootWitness, head,
                      dbVars>>
      /\ Descend
      /\ UpdateActive(node) \/ UNCHANGED nodeVars
  BY DEF UpdateLibShort, UpdateLibExit, treeVars, rootVars
<1>3. /\ validWitness' \in [Block -> SUBSET Producer]
      /\ active' \in [Block -> Seq(Producer)]
      /\ UNCHANGED <<pending, serialNum>>
      /\ \A n \in Block \ {node} : active'[n] = active[n]
      /\ active'[node] # <<>>
  <2>1. CASE UpdateActive(node)
    BY <1>1, <2>1 DEF UpdateActive, TypeOK, Lists
  <2>2. CASE UNCHANGED nodeVars
    BY <1>1, <2>2 DEF nodeVars, TypeOK, Lists
  <2> QED
    BY <1>2, <2>1, <2>2
<1>4. /\ Children(node) \in SUBSET Block
      /\ \A c \in Children(node) : c \in hash2node \ linked /\ Parent[c] = node
  BY <1>1 DEF Children
<1>5. /\ stack' = stack \/ stack' = Append(stack, Children(node))
      /\ stack' \in Seq(SUBSET Block)
      /\ node' = NoBlock
      /\ pc' = IF stack' = <<>> THEN "idle" ELSE "next"
  BY SMTT(40), <1>1, <1>2, <1>4 DEF Descend, Return
<1>6. StackOK'
  <2>1. CASE stack' = stack
    BY SMTT(40), <1>1, <1>2, <1>5, <2>1 DEF StackOK
  <2>2. CASE stack' = Append(stack, Children(node))
    <3>1. /\ DOMAIN stack' = 1..(Len(stack) + 1) /\ DOMAIN stack = 1..Len(stack)
          /\ Len(stack) \in Nat
          /\ \A i \in 1..Len(stack) : stack'[i] = stack[i]
          /\ stack'[Len(stack) + 1] = Children(node)
      BY SMTT(40), <1>1, <2>2
    <3>2. ASSUME NEW i \in 1..Len(stack), NEW c \in stack[i] \cap hash2node
          PROVE  /\ c \notin linked
                 /\ Parent[c] \in linked
                 /\ \A j \in DOMAIN stack' \ {i} : c \notin stack'[j]
      BY SMTT(40), <1>1, <1>4, <3>1, <3>2 DEF StackOK
    <3>3. ASSUME NEW c \in Children(node)
          PROVE  /\ c \notin linked
                 /\ Parent[c] \in linked
                 /\ \A j \in 1..Len(stack) : c \notin stack'[j]
      BY <1>1, <1>4, <3>1, <3>3 DEF StackOK
    <3>4. ASSUME NEW i \in DOMAIN stack', NEW c \in stack'[i] \cap hash2node
          PROVE  /\ c \notin linked /\ Parent[c] \in linked
                 /\ \A j \in DOMAIN stack' \ {i} : c \notin stack'[j]
      <4>1. CASE i \in 1..Len(stack)
        BY <3>1, <3>2, <3>4, <4>1
      <4>2. CASE i = Len(stack) + 1
        BY SMTT(40), <3>1, <3>3, <3>4, <4>2
      <4> QED
        BY SMTT(40), <3>1, <4>1, <4>2
    <3> QED
      BY SMTT(40), <1>1, <1>2, <1>5, <3>4 DEF StackOK
  <2> QED
    BY <1>5, <2>1, <2>2
<1> QED
  BY <1>1, <1>2, <1>3, <1>5, <1>6, StructureStack DEF TypeOK

\* The steps of the loop over the children.
LEMMA StructureChildren ==
    ASSUME Structure, (\E c \in Block : NextChild(c)) \/ EndChildren
    PROVE  Structure'
<1>1. /\ TypeOK /\ StackOK /\ Lists
      /\ linked \subseteq hash2node /\ hash2node \subseteq Block
      /\ NoBlock \notin Block
      /\ stack \in Seq(SUBSET Block) /\ stack # <<>>
  BY HeaderAssumption DEF Structure, TypeOK, Control, NextChild, EndChildren
<1>2. UNCHANGED <<hash2node, linked, leaf, singleRoot, validWitness, active, pending, serialNum,
                  linkedRoot, linkedRootWitness, head, dbVars>>
  BY DEF NextChild, EndChildren, treeVars, nodeVars, rootVars
<1>3. /\ Len(stack) \in Nat \ {0}
      /\ DOMAIN stack = 1..Len(stack)
      /\ Callers \in Seq(SUBSET Block)
      /\ DOMAIN Callers = 1..(Len(stack) - 1)
      /\ Len(Callers) = Len(stack) - 1
      /\ \A i \in 1..(Len(stack) - 1) : Callers[i] = stack[i]
      /\ Remaining = stack[Len(stack)]
      /\ Remaining \in SUBSET Block
  <2>1. Len(stack) \in Nat \ {0} /\ DOMAIN stack = 1..Len(stack)
    BY SMTT(40), <1>1
  <2>2. Len(stack) \in DOMAIN stack
    BY SMTT(40), <2>1
  <2>3. Remaining = stack[Len(stack)] /\ Remaining \in SUBSET Block
    BY SMTT(40), <1>1, <2>2 DEF Remaining
  <2>4. /\ Callers \in Seq(SUBSET Block)
        /\ Len(Callers) = Len(stack) - 1
        /\ \A i \in 1..(Len(stack) - 1) : Callers[i] = stack[i]
    BY SMTT(40), <1>1, <2>1 DEF Callers
  <2>5. DOMAIN Callers = 1..(Len(stack) - 1)
    BY SMTT(40), <2>4
  <2> QED
    BY <2>1, <2>3, <2>4, <2>5
<1>4. CASE EndChildren
  <2>1. /\ stack' = Callers
        /\ node' = NoBlock
        /\ pc' = IF stack' = <<>> THEN "idle" ELSE "next"
    BY <1>4 DEF EndChildren, Return
  <2>2. \A i \in DOMAIN stack' : i \in DOMAIN stack /\ stack'[i] = stack[i]
    BY SMTT(40), <1>3, <2>1
  <2>3. StackOK'
    BY SMTT(40), <1>1, <1>2, <2>1, <2>2 DEF StackOK
  <2> QED
    BY <1>1, <1>2, <1>3, <2>1, <2>3, StructureStack DEF TypeOK, Lists
<1>5. ASSUME NEW c \in Block, NextChild(c)
      PROVE  Structure'
  <2> DEFINE rest == Remaining \ {c}
  <2>1. /\ c \in Remaining /\ c \in hash2node
        /\ stack' = Callers \/ stack' = Append(Callers, rest)
        /\ pc' = "exist"
        /\ node' = c
    BY <1>5 DEF NextChild
  <2>2. c \in stack[Len(stack)] /\ Len(stack) \in DOMAIN stack
    BY SMTT(40), <1>3, <2>1 DEF Remaining
  <2>3. /\ c \notin linked /\ Parent[c] \in linked
        /\ \A j \in 1..(Len(stack) - 1) : c \notin stack[j]
    BY SMTT(40), <1>1, <1>3, <2>1, <2>2 DEF StackOK
  <2>4. /\ stack' \in Seq(SUBSET Block)
        /\ \A i \in DOMAIN stack' :
              /\ i \in DOMAIN stack
              /\ stack'[i] \subseteq stack[i]
              /\ c \notin stack'[i]
    <3>1. CASE stack' = Callers
      BY SMTT(40), <1>3, <2>3, <3>1
    <3>2. CASE stack' = Append(Callers, rest)
      <4>1. rest \in SUBSET Block /\ rest \subseteq stack[Len(stack)] /\ c \notin rest
        BY <1>3
      <4> HIDE DEF rest
      <4>2. /\ DOMAIN stack' = 1..Len(stack)
            /\ \A i \in 1..(Len(stack) - 1) : stack'[i] = stack[i]
            /\ stack'[Len(stack)] = rest
            /\ stack' \in Seq(SUBSET Block)
        <5>1. /\ Append(Callers, rest) \in Seq(SUBSET Block)
              /\ DOMAIN Append(Callers, rest) = 1..(Len(Callers) + 1)
              /\ \A i \in 1..Len(Callers) : Append(Callers, rest)[i] = Callers[i]
              /\ Append(Callers, rest)[Len(Callers) + 1] = rest
          <6>1. Callers \in Seq(SUBSET Block) /\ rest \in SUBSET Block
            BY <1>3, <4>1
          <6> QED
            BY SMTT(40), <6>1
        <5>2. Len(Callers) + 1 = Len(stack) /\ Len(Callers) = Len(stack) - 1
          BY SMTT(40), <1>3
        <5> QED
          BY <1>3, <3>2, <5>1, <5>2
      <4>3. ASSUME NEW i \in DOMAIN stack'
            PROVE  i \in DOMAIN stack /\ stack'[i] \subseteq stack[i] /\ c \notin stack'[i]
        <5>1. CASE i \in 1..(Len(stack) - 1)
          BY <1>3, <2>3, <4>2, <5>1
        <5>2. CASE i = Len(stack)
          BY <1>3, <4>1, <4>2, <5>2
        <5> QED
          BY SMTT(40), <1>3, <4>2, <4>3, <5>1, <5>2
      <4> QED
        BY <4>2, <4>3
    <3> QED
      BY <2>1, <3>1, <3>2
  <2>5. StackOK'
    BY SMTT(40), <1>1, <1>2, <2>1, <2>3, <2>4 DEF StackOK
  <2> QED
    BY <1>1, <1>2, <2>1, <2>3, <2>4, <2>5, StructureStack DEF TypeOK, Lists
<1> QED
  BY <1>4, <1>5

\* flush only moves blocks and states to disk.
LEMMA StructureFlush ==
    ASSUME Structure, UpdateLibEnter \/ Flush
    PROVE  Structure'
<1>1. /\ TypeOK /\ LinkedTree /\ Apart /\ Control /\ StackOK /\ Own /\ HeadPruned /\ Lists
      /\ commits \in Seq(Block) /\ chain \in Seq(Block) /\ linkedRoot \in Block
  BY DEF Structure, TypeOK
<1>2. /\ UNCHANGED <<hash2node, linked, leaf, singleRoot, validWitness, active, pending, serialNum,
                      linkedRoot, linkedRootWitness, head, node, stack>>
      /\ pc \in {"lib", "flush"} /\ pc' = "loop"
  BY DEF UpdateLibEnter, Flush, treeVars, nodeVars, rootVars
<1>3. /\ commits' \in Seq(Block) /\ Range(commits') \subseteq Range(commits)
      /\ chain' \in Seq(Block)
  <2>1. CASE UpdateLibEnter
    BY <1>1, <2>1 DEF UpdateLibEnter, dbVars
  <2>2. CASE Flush
    <3>1. commits' = FreeBefore(commits, linkedRoot) /\ chain' = Append(chain, linkedRoot)
      BY <2>2 DEF Flush
    <3> QED
      BY SMTT(40), <1>1, <3>1, FreeBeforeRange
  <2> QED
    BY <2>1, <2>2
<1>4. TypeOK'
  BY <1>1, <1>2, <1>3 DEF TypeOK
<1>5. LinkedTree' /\ Apart' /\ HeadPruned' /\ Lists'
  BY <1>1, <1>2 DEF LinkedTree, Apart, HeadPruned, Lists
<1>6. Control' /\ StackOK'
  BY SMTT(40), <1>1, <1>2 DEF Control, StackOK
<1>7. Own'
  BY <1>1, <1>2, <1>3 DEF Own
<1> QED
  BY <1>4, <1>5, <1>6, <1>7 DEF Structure

\* updateLinkedRoot keeps the tree above the new root, and of the nodes that are
\* being worked on all those that are still in the cache.
LEMMA StructureAdvanceRoot ==
    ASSUME Structure, AdvanceRoot
    PROVE  Structure'
<1>1. /\ TypeOK /\ LinkedTree /\ Apart /\ Control /\ StackOK /\ Own /\ HeadPruned /\ Lists
      /\ linked \subseteq hash2node /\ hash2node \subseteq Block /\ leaf \subseteq linked
      /\ linkedRoot \in linked /\ linkedRoot \in Block
      /\ node \in linked /\ pc' = "flush"
      /\ UNCHANGED <<commits, chain, node, stack>>
  BY DEF Structure, TypeOK, Control, AdvanceRoot, dbVars
<1> DEFINE r == linkedRoot'
<1>2. /\ r \in linked /\ r # linkedRoot /\ r \in Block
      /\ r \in Anc[node]
      /\ Parent[r] = linkedRoot
      /\ linked' = {n \in linked : r \in Anc[n]}
      /\ hash2node' \subseteq hash2node
      /\ linked' \subseteq hash2node'
      /\ leaf' = leaf \cap linked'
      /\ \A n \in linked' : active'[n] = active[n] /\ pending'[n] = pending[n]
      /\ \A c \in hash2node' \ linked : Parent[c] \in linked => Parent[c] \in linked'
      /\ head' = head \/ head' \in leaf'
  BY <1>1, AdvanceEffect
<1>3. /\ singleRoot' \subseteq singleRoot
      /\ linkedRootWitness' \subseteq Producer
  <2>1. PICK b \in Anc[node] : UpdateLinkedRoot(b)
    BY DEF AdvanceRoot
  <2>2. b \in Block /\ Witness[b] \in Producer
    BY <1>1, <2>1, AncUnfold, HeaderAssumption
  <2> QED
    BY <1>1, <2>1, <2>2 DEF UpdateLinkedRoot, VirtualLeft, UpdateLinkedRootWitness, TypeOK
<1>4. /\ validWitness' \in [Block -> SUBSET Producer]
      /\ active' \in [Block -> Seq(Producer)]
      /\ pending' \in [Block -> Seq(Producer)]
      /\ serialNum' \in [Block -> Nat]
  <2>1. PICK b \in Anc[node] : UpdateLinkedRoot(b)
    BY DEF AdvanceRoot
  <2>2. RemoveValidWitness(b) \in [Block -> SUBSET Producer]
    BY <1>1 DEF RemoveValidWitness, TypeOK
  <2> QED
    BY <1>1, <2>1, <2>2, ClearedType, NilTypes
       DEF UpdateLinkedRoot, TypeOK
<1>5. Anc[r] = Anc[linkedRoot] \cup {r} /\ r \notin Anc[linkedRoot] /\ r \in Anc[r]
  BY <1>1, <1>2, AncUnfold, ParentBelow
<1>6. \A n \in Block : r \in Anc[n] => linkedRoot \in Anc[n]
  BY <1>1, <1>5, AncUnfold, AncTransitive
<1> HIDE DEF r
<1>7. TypeOK'
  BY <1>1, <1>2, <1>3, <1>4, <1>5 DEF TypeOK, r
<1>8. LinkedTree'
  <2>1. ASSUME NEW n \in linked' \ {r}
        PROVE  Parent[n] \in linked' /\ Number[n] = Number[Parent[n]] + 1 /\ r \in Anc[n]
    <3>1. n \in linked \ {linkedRoot} /\ r \in Anc[n] /\ n \in Block
      BY <1>1, <1>2, <1>5
    <3>2. Parent[n] \in linked /\ Number[n] = Number[Parent[n]] + 1
      BY <1>1, <3>1 DEF LinkedTree
    <3>3. r \in Anc[Parent[n]]
      BY <2>1, <3>1, AncUnfold
    <3> QED
      BY <1>2, <3>1, <3>2, <3>3
  <2> QED
    BY <2>1 DEF LinkedTree, r
<1>9. Apart' /\ Lists'
  BY <1>1, <1>2, <1>3 DEF Apart, Lists
<1>10. Control'
  <2>1. node \in linked' /\ linkedRoot \notin linked'
    BY <1>1, <1>2, <1>5
  <2> QED
    BY <1>1, <1>2, <2>1 DEF Control, AdvanceRoot
<1>11. StackOK'
  BY SMTT(40), <1>1, <1>2 DEF StackOK
<1>12. HeadPruned'
  BY <1>1, <1>2, <1>6 DEF HeadPruned, TypeOK, r
<1>13. Own'
  <2>1. ASSUME NEW b \in Range(commits) \ linked', r \in Anc[b]
        PROVE  /\ Parent[b] \in linked' \ {node}
               /\ Number[b] = Number[Parent[b]] + 1
               /\ WitnessOfNanoSec(Time[b], active'[Parent[b]]) = Witness[b]
    <3>1. b \in Block
      BY SMTT(40), <1>1 DEF Range, TypeOK
    <3>2. b \notin linked /\ linkedRoot \in Anc[b] /\ b # r
      BY <1>2, <1>6, <2>1, <3>1
    <3>3. /\ Parent[b] \in linked \ {node}
          /\ Number[b] = Number[Parent[b]] + 1
          /\ WitnessOfNanoSec(Time[b], active[Parent[b]]) = Witness[b]
      BY <1>1, <2>1, <3>2 DEF Own
    <3>4. Parent[b] \in linked'
      BY <1>2, <2>1, <3>1, <3>2, <3>3, AncUnfold
    <3> QED
      BY <1>2, <3>3, <3>4
  <2> QED
    BY <1>1, <2>1 DEF Own, r
<1> QED
  BY <1>7, <1>8, <1>9, <1>10, <1>11, <1>12, <1>13 DEF Structure

\* Every step keeps the structural invariant.
LEMMA StructureNext == Structure /\ [Next]_vars => Structure'
<1> SUFFICES ASSUME Structure, [Next]_vars PROVE Structure'
  OBVIOUS
<1>1. ASSUME NEW b \in Block, AddBlock(b) \/ GenerateBlock(b)
      PROVE  Structure'
  BY <1>1, StructureEnter
<1>2. CASE UNCHANGED vars
  <2>1. UNCHANGED <<hash2node, linked, leaf, singleRoot, validWitness, active, pending, serialNum,
                    linkedRoot, linkedRootWitness, head, commits, chain, pc, node, stack>>
    BY <1>2 DEF vars, treeVars, nodeVars, rootVars, dbVars, ctlVars
  <2>2. TypeOK'
    BY <2>1 DEF Structure, TypeOK
  <2>3. LinkedTree' /\ Apart' /\ HeadPruned' /\ Lists'
    BY <2>1 DEF Structure, LinkedTree, Apart, HeadPruned, Lists
  <2>4. Control'
    BY <2>1 DEF Structure, Control
  <2>5. StackOK'
    BY SMTT(40), <2>1 DEF Structure, StackOK
  <2>6. Own'
    BY <2>1 DEF Structure, Own
  <2> QED
    BY <2>2, <2>3, <2>4, <2>5, <2>6 DEF Structure
<1>3. ASSUME NEW b \in Block, AddDuplicate(b)
      PROVE  UNCHANGED vars
  BY <1>3 DEF AddDuplicate
<1>4. CASE RejectOutOfLimit
  BY <1>4, StructureRejectOutOfLimit
<1>5. CASE RejectInvalid
  BY <1>5, StructureRejectInvalid
<1>6. CASE LinkBlock
  BY <1>6, StructureLinkBlock
<1>7. CASE UpdateLibShort \/ UpdateLibExit
  BY <1>7, StructureUpdateLibEnd
<1>8. CASE UpdateLibEnter \/ Flush
  BY <1>8, StructureFlush
<1>9. CASE AdvanceRoot
  BY <1>9, StructureAdvanceRoot
<1>10. CASE (\E c \in Block : NextChild(c)) \/ EndChildren
  BY <1>10, StructureChildren
<1> QED
  BY <1>1, <1>2, <1>3, <1>4, <1>5, <1>6, <1>7, <1>8, <1>9, <1>10 DEF Next, Step

\* The inductive invariant holds in every reachable state.
THEOREM StructureInvariant == Spec => []Structure
<1> QED
  BY StructureInit, StructureNext, PTL DEF Spec

\* Type correctness.
THEOREM TypeCorrect == Spec => []TypeOK
<1>1. Structure => TypeOK
  BY DEF Structure
<1> QED
  BY <1>1, StructureInvariant, PTL

\* The linked nodes are one tree below the root, whatever arrives in whatever
\* order and however the root moves (Link, del, updateLinkedRoot).
THEOREM LinkedTreeTheorem == Spec => []LinkedTree
<1>1. Structure => LinkedTree
  BY DEF Structure
<1> QED
  BY <1>1, StructureInvariant, PTL


-----------------------------------------------------------------------------
(* The leaf map. *)

\* Only LinkBlock and AdvanceRoot change the linked tree and the head.
LEMMA TreeSteps ==
    ASSUME Structure, [Next]_vars, ~LinkBlock, ~AdvanceRoot
    PROVE  UNCHANGED <<linked, leaf, linkedRoot, head>>
<1>1. ASSUME NEW b \in Block, AddBlock(b) \/ AddDuplicate(b) \/ GenerateBlock(b)
      PROVE  UNCHANGED <<linked, leaf, linkedRoot, head>>
  BY <1>1 DEF AddBlock, AddDuplicate, GenerateBlock, EnterAdd, AddNode, vars, treeVars, rootVars
<1>2. CASE RejectInvalid
  <2>1. linked' = linked /\ leaf' = leaf
    BY <1>2, StructureRejectInvalid
  <2> QED
    BY <1>2, <2>1 DEF RejectInvalid, rootVars
<1>3. CASE \/ UNCHANGED vars
           \/ RejectOutOfLimit \/ UpdateLibShort \/ UpdateLibExit \/ UpdateLibEnter
           \/ Flush \/ EndChildren \/ \E c \in Block : NextChild(c)
  BY <1>3 DEF RejectOutOfLimit, UpdateLibShort, UpdateLibExit, UpdateLibEnter, Flush,
     EndChildren, NextChild, vars, treeVars, rootVars
<1> QED
  BY <1>1, <1>2, <1>3 DEF Next, Step

\* Link puts the new leaf for its parent, and del takes deleted leaves away.
LEMMA LeafExactStep ==
    ASSUME Structure, LeafExact, [Next]_vars
    PROVE  LeafExact'
<1>1. /\ TypeOK /\ LinkedTree /\ Apart /\ Control
      /\ linked \subseteq Block /\ linkedRoot \in linked
  BY DEF Structure, TypeOK
<1>2. CASE LinkBlock
  <2>1. /\ linked' = linked \cup {node}
        /\ leaf' = (leaf \ {Parent[node]}) \cup {node}
        /\ linkedRoot' = linkedRoot
    BY <1>2 DEF LinkBlock, Link
  <2>2. node \notin linked /\ Parent[node] \in linked /\ Parent[node] # node
    BY <1>2, LinkChecks
  <2> QED
    BY <1>1, <2>1, <2>2 DEF LeafExact, LinkedTree
<1>3. CASE AdvanceRoot
  <2>1. /\ linkedRoot' \in linked \ {linkedRoot} /\ linkedRoot' \in Block
        /\ Parent[linkedRoot'] = linkedRoot
        /\ linked' = {n \in linked : linkedRoot' \in Anc[n]}
        /\ leaf' = leaf \cap linked'
    BY <1>1, <1>3, AdvanceEffect
  <2>2. linkedRoot \notin linked'
    BY <1>1, <2>1, ParentBelow
  <2>3. ASSUME NEW n \in linked', NEW m \in linked \ {linkedRoot}, Parent[m] = n
        PROVE  m \in linked' \ {linkedRoot'}
    <3>1. n \in Block /\ m \in Block /\ linkedRoot' \in Anc[n]
      BY <1>1, <2>1
    <3>2. linkedRoot' \in Anc[m]
      BY <2>3, <3>1, AncUnfold
    <3> QED
      BY <2>1, <2>2, <2>3, <3>2
  <2> QED
    BY <2>1, <2>2, <2>3 DEF LeafExact
<1>4. CASE ~LinkBlock /\ ~AdvanceRoot
  BY <1>4, TreeSteps DEF LeafExact
<1> QED
  BY <1>2, <1>3, <1>4

\* The leaf map is exact in every reachable state.
THEOREM LeafExactTheorem == Spec => []LeafExact
<1>1. Init => LeafExact
  BY DEF Init, LeafExact
<1>2. Structure /\ LeafExact /\ [Next]_vars => LeafExact'
  BY LeafExactStep
<1> QED
  BY <1>1, <1>2, StructureInvariant, PTL DEF Spec

-----------------------------------------------------------------------------
(* The head. *)

\* Link moves the head to a longer block, and updateLinkedRoot, which meets no leaf
\* that is longer than the head, leaves it.
LEMMA HeadLongestStep ==
    ASSUME Structure, HeadLongest, [Next]_vars
    PROVE  HeadLongest' /\ (AdvanceRoot => head' = head)
<1>1. /\ TypeOK /\ LinkedTree /\ Apart /\ Control
      /\ linked \subseteq Block /\ leaf \subseteq linked /\ head \in Block
  BY DEF Structure, TypeOK
<1>2. \A n \in Block : Number[n] \in Nat /\ Time[n] \in Nat
  BY HeaderAssumption
<1>3. CASE LinkBlock
  <2>1. linked' = linked \cup {node} /\ head' = IF Longer(node, head) THEN node ELSE head
    BY <1>3 DEF LinkBlock, Link
  <2>2. node \in Block
    BY <1>3, LinkChecks
  <2>3. ~AdvanceRoot
    BY <1>3 DEF LinkBlock, AdvanceRoot
  <2> QED
    BY SMTT(40), <1>1, <1>2, <2>1, <2>2, <2>3 DEF HeadLongest, Longer
<1>4. CASE AdvanceRoot
  <2>1. /\ linked' \subseteq linked
        /\ leaf' \subseteq leaf
        /\ head' = head \/ (head' \in leaf' /\ Longer(head', head))
    BY <1>1, <1>4, AdvanceEffect
  <2>2. head' = head
    BY <1>1, <2>1 DEF HeadLongest
  <2> QED
    BY <2>1, <2>2 DEF HeadLongest
<1>5. CASE ~LinkBlock /\ ~AdvanceRoot
  BY <1>5, TreeSteps DEF HeadLongest
<1> QED
  BY <1>3, <1>4, <1>5

\* No linked node is ever longer than the head.
THEOREM HeadLongestTheorem == Spec => []HeadLongest
<1>1. Init => HeadLongest
  BY SMTT(40), HeaderAssumption DEF Init, HeadLongest, Longer
<1>2. Structure /\ HeadLongest /\ [Next]_vars => HeadLongest'
  BY HeadLongestStep
<1> QED
  BY <1>1, <1>2, StructureInvariant, PTL DEF Spec

\* So updateLinkedRoot never replaces the head, not even one it has just deleted:
\* no leaf is longer than the old head, and "Update Longest" asks for a longer one.
THEOREM HeadNeverReplaced == Spec => [][AdvanceRoot => head' = head]_vars
<1>1. Structure /\ HeadLongest /\ [Next]_vars => [AdvanceRoot => head' = head]_vars
  BY HeadLongestStep
<1> QED
  BY <1>1, StructureInvariant, HeadLongestTheorem, PTL DEF Spec

-----------------------------------------------------------------------------
(* Confirmations. *)

\* What a step may do to the confirmations and the active list of a node that is
\* linked and stays so, when it neither links a node nor moves the root: nothing,
\* or replace the list by the root's pending list and drop the others' confirmations.
LEMMA ListSteps ==
    ASSUME Structure, [Next]_vars, ~LinkBlock, ~AdvanceRoot, NEW n \in linked
    PROVE  \/ validWitness'[n] = validWitness[n] /\ active'[n] = active[n]
           \/ /\ validWitness'[n] = validWitness[n] \cap Members(pending[linkedRoot])
              /\ active'[n] = pending[linkedRoot]
<1>1. /\ TypeOK /\ LinkedTree /\ Control
      /\ linked \subseteq Block
  BY DEF Structure, TypeOK
<1>2. ASSUME NEW b \in Block, AddBlock(b) \/ AddDuplicate(b) \/ GenerateBlock(b)
      PROVE  UNCHANGED nodeVars
  BY <1>2 DEF AddBlock, AddDuplicate, GenerateBlock, EnterAdd, vars
<1>3. CASE RejectInvalid
  <2> DEFINE dead == Del(hash2node, linkedRoot, {node})
  <2>1. /\ linked' = linked
        /\ linked' = linked \ dead
        /\ validWitness' = Cleared(validWitness, dead, {})
        /\ active' = Cleared(active, dead, <<>>)
    BY <1>3, StructureRejectInvalid DEF RejectInvalid, ClearNodes
  <2> QED
    BY <1>1, <2>1 DEF Cleared
<1>4. CASE UpdateLibShort \/ UpdateLibExit
  <2>1. UpdateActive(node) \/ UNCHANGED nodeVars
    BY <1>4 DEF UpdateLibShort, UpdateLibExit
  <2> QED
    BY <1>1, <2>1 DEF UpdateActive, nodeVars, TypeOK
<1>5. CASE RejectOutOfLimit
  BY <1>5 DEF RejectOutOfLimit
<1>6. CASE \/ UNCHANGED vars \/ UpdateLibEnter \/ Flush \/ EndChildren
           \/ \E c \in Block : NextChild(c)
  BY <1>6 DEF UpdateLibEnter, Flush, EndChildren, NextChild, vars, nodeVars
<1> QED
  BY <1>2, <1>3, <1>4, <1>5, <1>6 DEF Next, Step, nodeVars

\* Link, removeValidWitness, updateActive and del keep every counted confirmation
\* real: the chain above the root gave it, and the node's active list has its witness.
LEMMA ConfirmationsRealStep ==
    ASSUME Structure, ConfirmationsReal, [Next]_vars
    PROVE  ConfirmationsReal'
<1>1. /\ TypeOK /\ LinkedTree /\ Apart /\ Control /\ Lists
      /\ linked \subseteq hash2node /\ hash2node \subseteq Block
      /\ linkedRoot \in linked /\ linkedRoot \in Block
  BY DEF Structure, TypeOK
<1>2. CASE LinkBlock
  <2>1. /\ node \notin linked
        /\ node \in Block /\ node # linkedRoot
        /\ Parent[node] \in linked /\ Parent[node] \in Block
        /\ WitnessOfNanoSec(Time[node], active[Parent[node]]) = Witness[node]
    BY <1>1, <1>2, LinkChecks
  <2>2. /\ linked' = linked \cup {node}
        /\ linkedRoot' = linkedRoot
        /\ validWitness'[node] = validWitness[Parent[node]] \cup {Witness[node]}
        /\ active'[node] = active[Parent[node]]
        /\ \A n \in linked : validWitness'[n] = validWitness[n] /\ active'[n] = active[n]
    BY <1>1, <1>2, <2>1 DEF LinkBlock, Link, TypeOK
  <2>3. Anc[node] = Anc[Parent[node]] \cup {node} /\ node \notin Anc[linkedRoot]
    BY <1>1, <2>1, ChildOfLinked
  <2>4. Witness[node] \in Members(active[Parent[node]])
    <3>1. active[Parent[node]] \in Seq(Producer) /\ active[Parent[node]] # <<>>
      BY <1>1, <2>1 DEF TypeOK, Lists
    <3>2. Time[node] \in Nat
      BY <2>1, HeaderAssumption
    <3> QED
      BY <2>1, <3>1, <3>2, ScheduledIsMember
  <2>5. Confirming(linkedRoot, node) = Confirming(linkedRoot, Parent[node]) \cup {Witness[node]}
    BY <2>3 DEF Confirming, PathAbove
  <2>6. validWitness'[node] \subseteq Confirming(linkedRoot, node) \cap Members(active'[node])
    BY <2>1, <2>2, <2>4, <2>5 DEF ConfirmationsReal
  <2> QED
    BY <2>2, <2>6 DEF ConfirmationsReal
<1>3. CASE AdvanceRoot
  <2> DEFINE r == linkedRoot'
  <2>1. /\ r \in linked /\ r \in Block
        /\ Parent[r] = linkedRoot
        /\ linked' = {n \in linked : r \in Anc[n]}
        /\ \A n \in linked' : /\ active'[n] = active[n]
                              /\ validWitness'[n] = RemoveValidWitness(r)[n]
    BY <1>1, <1>3, AdvanceEffect
  <2>2. Anc[r] = Anc[linkedRoot] \cup {r}
    BY <1>1, <2>1, AncUnfold
  <2> HIDE DEF r
  <2>3. ASSUME NEW n \in linked', NEW w \in validWitness'[n]
        PROVE  w \in Confirming(r, n) /\ w \in Members(active'[n])
    <3>1. /\ n \in linked /\ n \in hash2node /\ n \in Block /\ r \in Anc[n]
          /\ w \in RemoveValidWitness(r)[n]
      BY <1>1, <2>1, <2>3
    <3>2. w \in validWitness[n]
      BY <3>1 DEF RemoveValidWitness
    <3>3. w \in Confirming(linkedRoot, n) /\ w \in Members(active[n])
      BY <3>1, <3>2 DEF ConfirmationsReal
    <3>4. PICK k \in Anc[n] \ Anc[linkedRoot] : w = Witness[k]
      BY <3>3 DEF Confirming, PathAbove
    <3>5. CASE k # r
      BY <2>1, <2>2, <2>3, <3>3, <3>4, <3>5 DEF Confirming, PathAbove
    <3>6. CASE k = r
      <4>1. \E m \in PathAbove(r, n) : Witness[m] = Witness[r]
        BY <3>1, <3>4, <3>6 DEF RemoveValidWitness
      <4> QED
        BY <2>1, <2>3, <3>3, <3>4, <3>6, <4>1 DEF Confirming
    <3> QED
      BY <3>5, <3>6
  <2> QED
    BY <2>3 DEF ConfirmationsReal, r
<1>4. CASE ~LinkBlock /\ ~AdvanceRoot
  <2>1. linked' = linked /\ linkedRoot' = linkedRoot
    BY <1>4, TreeSteps
  <2> QED
    BY <1>4, <2>1, ListSteps DEF ConfirmationsReal
<1> QED
  BY <1>2, <1>3, <1>4

\* Every confirmation the cache counts is the work of an active producer on the
\* chain between the root and the node.
THEOREM ConfirmationsRealTheorem == Spec => []ConfirmationsReal
<1>1. Init => ConfirmationsReal
  BY HeaderAssumption DEF Init, ConfirmationsReal
<1>2. Structure /\ ConfirmationsReal /\ [Next]_vars => ConfirmationsReal'
  BY ConfirmationsRealStep
<1> QED
  BY <1>1, <1>2, StructureInvariant, PTL DEF Spec

-----------------------------------------------------------------------------
(* The last irreversible block. *)

\* The block chain ends with the root, or with its parent just before flush.
ChainTop ==
    /\ chain # <<>>
    /\ pc # "flush" => chain[Len(chain)] = linkedRoot
    /\ pc = "flush" => /\ Parent[linkedRoot] = chain[Len(chain)]
                       /\ Number[linkedRoot] = Number[chain[Len(chain)]] + 1

\* flush pushes the new root before updateLib moves the root again, and nothing else
\* pushes: a step leaves the chain or appends a child of its last block.
LEMMA ChainTopStep ==
    ASSUME Structure, ChainTop, [Next]_vars
    PROVE  /\ ChainTop'
           /\ \/ chain' = chain
              \/ /\ Flush
                 /\ linkedRoot \in Block
                 /\ Parent[linkedRoot] = chain[Len(chain)]
                 /\ Number[linkedRoot] = Number[chain[Len(chain)]] + 1
                 /\ chain' = Append(chain, linkedRoot)
<1>1. /\ TypeOK /\ LinkedTree /\ Apart /\ Control
      /\ linkedRoot \in Block
      /\ chain \in Seq(Block) /\ chain # <<>>
  BY DEF Structure, TypeOK, ChainTop
<1>2. CASE AdvanceRoot
  <2>1. pc = "loop" /\ pc' = "flush" /\ chain' = chain
    BY <1>2 DEF AdvanceRoot, dbVars
  <2>2. linkedRoot' \in linked \ {linkedRoot} /\ Parent[linkedRoot'] = linkedRoot
    BY <1>1, <1>2, AdvanceEffect
  <2>3. Number[linkedRoot'] = Number[linkedRoot] + 1
    BY <1>1, <2>2 DEF LinkedTree
  <2> QED
    BY <2>1, <2>2, <2>3 DEF ChainTop
<1>3. CASE Flush
  <2>1. /\ pc = "flush" /\ pc' = "loop" /\ linkedRoot' = linkedRoot
        /\ chain' = Append(chain, linkedRoot)
    BY <1>3 DEF Flush, rootVars
  <2>2. chain' # <<>> /\ chain'[Len(chain')] = linkedRoot
    BY SMTT(40), <1>1, <2>1
  <2> QED
    BY <1>1, <1>3, <2>1, <2>2 DEF ChainTop
<1>4. CASE ~AdvanceRoot /\ ~Flush
  <2>1. linkedRoot' = linkedRoot
    <3>1. CASE LinkBlock
      BY <3>1 DEF LinkBlock
    <3> QED
      BY <1>4, <3>1, TreeSteps
  <2>2. /\ chain' = chain
        /\ pc = "flush" => pc' = "flush"
        /\ pc' = "flush" => pc = "flush"
    <3>1. ASSUME NEW b \in Block, AddBlock(b) \/ AddDuplicate(b) \/ GenerateBlock(b)
          PROVE  chain' = chain /\ (pc = "flush" <=> pc' = "flush")
      BY <3>1 DEF AddBlock, AddDuplicate, GenerateBlock, EnterAdd, vars, dbVars, ctlVars
    <3>2. CASE \/ RejectOutOfLimit \/ RejectInvalid \/ UpdateLibShort \/ UpdateLibExit
               \/ EndChildren
      BY <3>2 DEF RejectOutOfLimit, RejectInvalid, UpdateLibShort, UpdateLibExit, EndChildren,
         Descend, Return, dbVars
    <3>3. CASE \/ UNCHANGED vars \/ LinkBlock \/ UpdateLibEnter
               \/ \E c \in Block : NextChild(c)
      BY <3>3 DEF LinkBlock, UpdateLibEnter, NextChild, vars, dbVars, ctlVars
    <3> QED
      BY <1>4, <3>1, <3>2, <3>3 DEF Next, Step
  <2> QED
    BY <2>1, <2>2 DEF ChainTop
<1> QED
  BY <1>2, <1>3, <1>4

\* The block chain always ends with the root or, before its flush, the root's parent.
THEOREM ChainTopTheorem == Spec => []ChainTop
<1>1. Init => ChainTop
  BY SMTT(40) DEF Init, ChainTop
<1>2. Structure /\ ChainTop /\ [Next]_vars => ChainTop'
  BY ChainTopStep
<1> QED
  BY <1>1, <1>2, StructureInvariant, PTL DEF Spec

\* The cache with its block chain implements an irreversible chain: what flush has
\* pushed is never rewritten, and each push extends the last block by a child.
THEOREM ChainIrreversibleTheorem == Spec => ChainIrreversible
<1>1. Init => Irreversible!Init
  BY DEF Init, Irreversible!Init
<1>2. Structure /\ ChainTop /\ [Next]_vars => [Irreversible!Next]_chain
  BY ChainTopStep DEF Irreversible!Next, Irreversible!Confirm, Irreversible!Last
<1> QED
  BY <1>1, <1>2, StructureInvariant, ChainTopTheorem, PTL
     DEF Spec, ChainIrreversible, Irreversible!Spec

-----------------------------------------------------------------------------
(* The states in the state DB. *)

\* States are committed after those of the ancestors they are computed from.
CommitOrder ==
    \A i, j \in DOMAIN commits :
        /\ commits[i] \in Anc[commits[j]]
        /\ linkedRoot \in Anc[commits[i]]
        => i <= j

\* A block that is not linked, and that is new or has its state committed, is no
\* ancestor of a committed block above the root.
LEMMA UnlinkedAboveNone ==
    ASSUME Structure, NEW b \in Block \ linked, linkedRoot \in Anc[b],
           NEW c \in Range(commits) \ {b}
    PROVE  b \notin Anc[c]
<1>1. /\ TypeOK /\ LinkedTree /\ Own
      /\ c \in Block /\ linkedRoot \in Block
  <2>1. TypeOK /\ LinkedTree /\ Own
    BY DEF Structure
  <2>2. commits \in Seq(Block) /\ linkedRoot \in Block
    BY <2>1 DEF TypeOK
  <2>3. c \in Block
    BY SMTT(40), <2>2 DEF Range
  <2> QED
    BY <2>1, <2>2, <2>3
<1>2. SUFFICES ASSUME b \in Anc[c] PROVE FALSE
  OBVIOUS
<1>3. linkedRoot \in Anc[c]
  BY <1>1, <1>2, AncTransitive
<1>4. CASE c \in linked
  BY <1>1, <1>2, <1>4, LinkedPath
<1>5. CASE c \notin linked
  <2>1. Parent[c] \in linked
    BY <1>1, <1>3, <1>5 DEF Own
  <2>2. b \in Anc[Parent[c]]
    BY <1>1, <1>2, AncUnfold
  <2> QED
    BY <1>1, <2>1, <2>2, LinkedPath
<1> QED
  BY <1>4, <1>5

\* Committing such a block keeps the order.
LEMMA CommitOrderAppend ==
    ASSUME Structure, CommitOrder, NEW b \in Block \ linked, b \notin Range(commits)
    PROVE  \A i, j \in DOMAIN Append(commits, b) :
              /\ Append(commits, b)[i] \in Anc[Append(commits, b)[j]]
              /\ linkedRoot \in Anc[Append(commits, b)[i]]
              => i <= j
<1> DEFINE s == Append(commits, b)
<1>1. commits \in Seq(Block)
  BY DEF Structure, TypeOK
<1>2. /\ DOMAIN commits = 1..Len(commits) /\ Len(commits) \in Nat
      /\ DOMAIN s = 1..(Len(commits) + 1)
      /\ \A i \in 1..Len(commits) : s[i] = commits[i]
      /\ s[Len(commits) + 1] = b
  BY SMTT(40), <1>1, AppendFacts
<1> HIDE DEF s
<1>3. SUFFICES ASSUME NEW i \in DOMAIN s, NEW j \in DOMAIN s,
                      s[i] \in Anc[s[j]], linkedRoot \in Anc[s[i]]
               PROVE  i <= j
  BY DEF s
<1>4. CASE j = Len(commits) + 1
  BY SMTT(40), <1>2, <1>3, <1>4
<1>5. CASE i \in 1..Len(commits) /\ j \in 1..Len(commits)
  BY <1>2, <1>3, <1>5 DEF CommitOrder
<1>6. CASE i = Len(commits) + 1 /\ j \in 1..Len(commits)
  <2>1. s[i] = b /\ s[j] \in Range(commits) /\ s[j] # b
    BY <1>2, <1>6 DEF Range
  <2> QED
    BY <1>3, <2>1, UnlinkedAboveNone
<1> QED
  BY SMTT(40), <1>2, <1>4, <1>5, <1>6

\* Only these steps touch the committed states.
LEMMA CommitSteps ==
    ASSUME [Next]_vars, ~LinkBlock, ~Flush, \A b \in Block : ~GenerateBlock(b)
    PROVE  commits' = commits
BY DEF Next, Step, AddBlock, AddDuplicate, RejectOutOfLimit, RejectInvalid, UpdateLibShort,
   UpdateLibExit, UpdateLibEnter, AdvanceRoot, EndChildren, NextChild, vars, dbVars

\* The commits that FreeBefore frees in flush were made before the new root's, so
\* none is of a block that descends from it.
LEMMA FlushKeepsStates ==
    ASSUME Structure, CommitOrder, StateAvailable, Flush
    PROVE  CommitOrder' /\ StateAvailable'
<1>1. /\ TypeOK /\ LinkedTree
      /\ commits \in Seq(Block) /\ linkedRoot \in linked /\ linkedRoot \in Block
  BY DEF Structure, TypeOK
<1>2. /\ commits' = FreeBefore(commits, linkedRoot)
      /\ linked' = linked /\ linkedRoot' = linkedRoot
  BY DEF Flush, treeVars, rootVars
<1>3. PICK d \in 0..Len(commits) :
         /\ commits' \in Seq(Block)
         /\ Len(commits') = Len(commits) - d
         /\ \A i \in 1..(Len(commits) - d) : commits'[i] = commits[i + d]
         /\ d # 0 => d + 1 \in DOMAIN commits /\ commits[d + 1] = linkedRoot
  <2> DEFINE f == FreeBefore(commits, linkedRoot)
  <2>1. \E d \in 0..Len(commits) :
           /\ f \in Seq(Block)
           /\ Len(f) = Len(commits) - d
           /\ \A i \in 1..(Len(commits) - d) : f[i] = commits[i + d]
           /\ d # 0 => d + 1 \in DOMAIN commits /\ commits[d + 1] = linkedRoot
    BY <1>1, FreeBeforeSuffix
  <2> HIDE DEF f
  <2>2. commits' = f
    BY <1>2 DEF f
  <2> QED
    BY <2>1, <2>2, Zenon
<1>4. /\ DOMAIN commits = 1..Len(commits) /\ Len(commits) \in Nat
      /\ DOMAIN commits' = 1..(Len(commits) - d)
  BY SMTT(40), <1>1, <1>3
<1>5. CommitOrder'
  <2>1. ASSUME NEW i \in DOMAIN commits', NEW j \in DOMAIN commits',
               commits'[i] \in Anc[commits'[j]], linkedRoot \in Anc[commits'[i]]
        PROVE  i <= j
    <3>1. i + d \in DOMAIN commits /\ j + d \in DOMAIN commits
      BY SMTT(40), <1>4
    <3>2. commits'[i] = commits[i + d] /\ commits'[j] = commits[j + d]
      BY <1>3, <1>4
    <3>3. i + d <= j + d
      BY <2>1, <3>1, <3>2 DEF CommitOrder
    <3> QED
      BY SMTT(40), <1>4, <3>3
  <2> QED
    BY <1>2, <2>1 DEF CommitOrder
<1>6. ASSUME NEW n \in linked
      PROVE  n \in Range(commits')
  <2>1. PICK j \in DOMAIN commits : commits[j] = n
    BY DEF StateAvailable, Range
  <2>2. d = 0 \/ d + 1 <= j
    <3>1. linkedRoot \in Anc[n] /\ linkedRoot \in Anc[linkedRoot]
      BY <1>1, RootIsAncestor
    <3> QED
      BY <1>3, <2>1, <3>1 DEF CommitOrder
  <2>3. j - d \in 1..(Len(commits) - d) /\ (j - d) + d = j
    BY SMTT(40), <1>4, <2>2
  <2>4. commits'[j - d] = n
    BY <1>3, <2>1, <2>3
  <2> QED
    BY <1>4, <2>3, <2>4 DEF Range
<1> QED
  BY <1>2, <1>5, <1>6 DEF StateAvailable

\* Blocks are committed before Link links them, and flush frees no linked block's
\* state.
LEMMA StateAvailableStep ==
    ASSUME Structure, CommitOrder, StateAvailable, [Next]_vars
    PROVE  CommitOrder' /\ StateAvailable'
<1>1. /\ TypeOK /\ LinkedTree /\ Apart /\ Control
      /\ linked \subseteq hash2node /\ linked \subseteq Block
      /\ linkedRoot \in linked
      /\ commits \in Seq(Block)
  BY DEF Structure, TypeOK
<1>2. ASSUME NEW b \in Block, GenerateBlock(b)
      PROVE  CommitOrder' /\ StateAvailable'
  <2>1. /\ b \notin linked /\ b \notin Range(commits)
        /\ commits' = Append(commits, b)
        /\ linked' = linked /\ linkedRoot' = linkedRoot
    BY <1>1, <1>2 DEF GenerateBlock, EnterAdd, AddNode, rootVars
  <2>2. CommitOrder'
    BY <2>1, CommitOrderAppend DEF CommitOrder
  <2> QED
    BY SMTT(40), <1>1, <2>1, <2>2, RangeAppend DEF StateAvailable
<1>3. CASE LinkBlock
  <2>1. /\ node \in Block \ linked
        /\ Range(commits') = Range(commits) \cup {node}
    BY <1>3, LinkChecks
  <2>2. linked' = linked \cup {node} /\ linkedRoot' = linkedRoot
    BY <1>3 DEF LinkBlock, Link
  <2>3. CommitOrder'
    <3>1. CASE commits' = commits
      BY <2>2, <3>1 DEF CommitOrder
    <3>2. CASE node \notin Range(commits) /\ commits' = Append(commits, node)
      BY <2>1, <2>2, <3>2, CommitOrderAppend DEF CommitOrder
    <3> QED
      BY <1>3, <3>1, <3>2 DEF LinkBlock
  <2> QED
    BY <2>1, <2>2, <2>3 DEF StateAvailable
<1>4. CASE Flush
  BY <1>4, FlushKeepsStates
<1>5. CASE AdvanceRoot
  <2>1. commits' = commits
    BY <1>5 DEF AdvanceRoot, dbVars
  <2>2. /\ linked' \subseteq linked
        /\ linkedRoot' \in Block /\ Parent[linkedRoot'] = linkedRoot
    BY <1>1, <1>5, AdvanceEffect
  <2>3. ASSUME NEW i \in DOMAIN commits, linkedRoot' \in Anc[commits[i]]
        PROVE  linkedRoot \in Anc[commits[i]]
    <3>1. commits[i] \in Block
      BY SMTT(40), <1>1
    <3>2. linkedRoot \in Anc[linkedRoot']
      BY <1>1, <2>2, AncUnfold
    <3> QED
      BY <2>3, <3>1, <3>2, AncTransitive
  <2> QED
    BY <2>1, <2>2, <2>3 DEF CommitOrder, StateAvailable
<1>6. CASE ~LinkBlock /\ ~Flush /\ ~AdvanceRoot /\ \A b \in Block : ~GenerateBlock(b)
  <2>1. commits' = commits /\ linked' = linked /\ linkedRoot' = linkedRoot
    BY <1>6, CommitSteps, TreeSteps
  <2> QED
    BY <2>1 DEF CommitOrder, StateAvailable
<1> QED
  BY <1>2, <1>3, <1>4, <1>5, <1>6

\* FreeBefore frees by order of commit, and yet no state that a linked node needs:
\* that is because a state is committed after the states of the block's ancestors.
THEOREM StateAvailableTheorem == Spec => []StateAvailable
<1>1. Init => CommitOrder /\ StateAvailable
  <2>1. Range(<<Genesis>>) = {Genesis} /\ DOMAIN <<Genesis>> = {1}
    BY SMTT(40) DEF Range
  <2> QED
    BY SMTT(40), <2>1 DEF Init, CommitOrder, StateAvailable
<1>2. Structure /\ CommitOrder /\ StateAvailable /\ [Next]_vars => CommitOrder' /\ StateAvailable'
  BY StateAvailableStep
<1> QED
  BY <1>1, <1>2, StructureInvariant, PTL DEF Spec

-----------------------------------------------------------------------------
(* What del deletes. *)

\* del reaches the children of what it reaches.
LEMMA SubtreeDown ==
    ASSUME NEW nodes \in SUBSET Block, NEW r, NEW n, NEW m \in nodes \ {r},
           Parent[m] \in Subtree(nodes, r, n)
    PROVE  m \in Subtree(nodes, r, n)
<1>1. m \in Block /\ Parent[m] \in Block
  BY DEF Subtree
<1>2. Anc[m] = Anc[Parent[m]] \cup {m}
  BY <1>1, AncUnfold
<1> QED
  BY <1>2 DEF Subtree

\* And but for the node it is called on, only those.
LEMMA SubtreeUp ==
    ASSUME NEW nodes \in SUBSET Block, NEW r, NEW n, NEW m \in Subtree(nodes, r, n), m # n
    PROVE  Parent[m] \in nodes
<1>1. m \in Block /\ n \in Anc[m] /\ \A k \in Anc[m] : n \in Anc[k] => k \in nodes
  BY DEF Subtree
<1>2. Parent[m] \in Block /\ n \in Anc[Parent[m]] /\ Parent[m] \in Anc[m]
  BY <1>1, AncUnfold
<1> QED
  BY <1>1, <1>2

-----------------------------------------------------------------------------
(* The virtual nodes. *)

\* The missing parents stay the same when del removes whole subtrees: none of the
\* removed nodes but the tops was the child of a missing parent, and no removed
\* node leaves a child behind.
LEMMA MissingAfterDel ==
    ASSUME NEW nodes \in SUBSET Block, NEW r, NEW n, NEW dead, dead = Subtree(nodes, r, n),
           NEW m \in nodes \ {r}
    PROVE  /\ m \notin dead /\ Parent[m] \notin nodes \ dead => Parent[m] \notin nodes
           /\ m \in dead /\ m # n => Parent[m] \in nodes
BY SubtreeDown, SubtreeUp

\* The Del after a failed verifyBlock takes a whole subtree, so it orphans no node
\* and leaves the virtual nodes right.
LEMMA SingleRootRejectInvalid ==
    ASSUME Structure, SingleRootExact, RejectInvalid
    PROVE  SingleRootExact'
<1>1. /\ hash2node \in SUBSET Block
      /\ node \in hash2node /\ Parent[node] \in hash2node
  BY DEF Structure, TypeOK, Control, RejectInvalid
<1> DEFINE dead == Subtree(hash2node, linkedRoot, node)
<1>2. Del(hash2node, linkedRoot, {node}) = dead
  BY DEF Del
<1>3. /\ hash2node' = hash2node \ dead
      /\ singleRoot' = singleRoot /\ linkedRoot' = linkedRoot
  BY <1>2 DEF RejectInvalid, rootVars
<1>4. \A m \in hash2node \ {linkedRoot} :
        /\ m \notin dead /\ Parent[m] \notin hash2node \ dead => Parent[m] \notin hash2node
        /\ m \in dead => Parent[m] \in hash2node
  BY SMTT(40), <1>1, MissingAfterDel
<1> HIDE DEF dead
<1>5. {Parent[m] : m \in hash2node' \ {linkedRoot}} \ hash2node'
        = {Parent[m] : m \in hash2node \ {linkedRoot}} \ hash2node
  BY <1>3, <1>4
<1> QED
  BY <1>3, <1>5 DEF SingleRootExact

\* updateLinkedRoot and delSingle take whole subtrees, and with the last child of a
\* virtual node the virtual node.
LEMMA SingleRootAdvance ==
    ASSUME Structure, SingleRootExact, AdvanceRoot
    PROVE  SingleRootExact'
<1>1. /\ TypeOK /\ LinkedTree /\ Apart /\ Control
      /\ hash2node \in SUBSET Block
      /\ linkedRoot \in hash2node
  BY DEF Structure, TypeOK
<1> DEFINE r == linkedRoot'
           old == OldSingles(Surviving(r), r)
<1>2. /\ r \in linked /\ r # linkedRoot /\ r \in hash2node
      /\ Parent[r] = linkedRoot
      /\ hash2node' = Kept(r)
      /\ Kept(r) \subseteq hash2node \ {linkedRoot}
      /\ singleRoot' = VirtualLeft(old, Kept(r), r)
  BY <1>1, AdvanceEffect DEF TypeOK
<1>3. Surviving(r) \in SUBSET Block
  BY <1>1 DEF Surviving
<1> HIDE DEF r
<1>4. ASSUME NEW m \in Kept(r) \ {r}, Parent[m] \notin Kept(r)
      PROVE  Parent[m] \in singleRoot
  <2>1. Parent[m] \notin hash2node
    BY <1>1, <1>2, <1>4, KeptChild
  <2> QED
    BY <1>2, <1>4, <2>1 DEF SingleRootExact
<1>5. ASSUME NEW v \in singleRoot, \A m \in old : Parent[m] # v
      PROVE  \E m \in Kept(r) \ {r} : Parent[m] = v
  <2>1. v \notin hash2node
    BY <1>1 DEF Apart
  <2>2. PICK m \in hash2node \ {linkedRoot} : Parent[m] = v
    BY DEF SingleRootExact
  <2>3. m # r
    BY <1>1, <1>2, <2>1, <2>2
  <2>4. m \in Surviving(r)
    <3>1. ASSUME NEW s \in Children(linkedRoot) \ {r}, m \in Subtree(hash2node, linkedRoot, s)
          PROVE  FALSE
      <4>1. m # s
        BY <1>1, <2>1, <2>2, <3>1 DEF Children
      <4> QED
        BY <1>1, <2>1, <2>2, <3>1, <4>1, SubtreeUp
    <3> QED
      BY <2>2, <3>1 DEF Surviving, Del
  <2>5. ASSUME NEW o \in old, m \in Subtree(Surviving(r), r, o)
        PROVE  FALSE
    <3>1. m # o
      BY <1>5, <2>2, <2>5
    <3>2. Parent[m] \in Surviving(r)
      BY <1>3, <2>5, <3>1, SubtreeUp
    <3> QED
      BY <2>1, <2>2, <3>2 DEF Surviving
  <2> QED
    BY <2>2, <2>3, <2>4, <2>5 DEF Kept, Del
<1> HIDE DEF old
<1>6. singleRoot' = {Parent[m] : m \in Kept(r) \ {r}} \ Kept(r)
  <2>1. singleRoot \cap Kept(r) = {}
    BY <1>1, <1>2 DEF Apart
  <2> QED
    BY SMTT(40), <1>2, <1>4, <1>5, <2>1 DEF VirtualLeft
<1> QED
  BY <1>2, <1>6 DEF SingleRootExact, r

\* Every step keeps the virtual nodes exact.
LEMMA SingleRootStep ==
    ASSUME Structure, SingleRootExact, [Next]_vars
    PROVE  SingleRootExact'
<1>1. linkedRoot \in hash2node
  BY DEF Structure, TypeOK
<1>2. ASSUME NEW b \in Block, AddBlock(b) \/ GenerateBlock(b)
      PROVE  SingleRootExact'
  <2>1. /\ hash2node' = hash2node \cup {b}
        /\ singleRoot' = (singleRoot \cup ({Parent[b]} \ hash2node)) \ {b}
        /\ linkedRoot' = linkedRoot
        /\ b # linkedRoot
    BY <1>1, <1>2 DEF AddBlock, GenerateBlock, EnterAdd, AddNode, rootVars
  <2> QED
    BY <2>1 DEF SingleRootExact
<1>3. CASE RejectInvalid
  BY <1>3, SingleRootRejectInvalid
<1>4. CASE AdvanceRoot
  BY <1>4, SingleRootAdvance
<1>5. CASE \/ UNCHANGED vars \/ (\E b \in Block : AddDuplicate(b))
           \/ RejectOutOfLimit \/ LinkBlock \/ UpdateLibShort \/ UpdateLibExit
           \/ UpdateLibEnter \/ Flush \/ EndChildren \/ \E c \in Block : NextChild(c)
  <2>1. UNCHANGED <<hash2node, singleRoot, linkedRoot>>
    BY <1>5 DEF AddDuplicate, RejectOutOfLimit, LinkBlock, UpdateLibShort, UpdateLibExit,
       UpdateLibEnter, Flush, EndChildren, NextChild, vars, treeVars, rootVars
  <2> QED
    BY <2>1 DEF SingleRootExact
<1> QED
  BY <1>2, <1>3, <1>4, <1>5 DEF Next, Step

\* The virtual nodes are the missing parents, in every reachable state.
THEOREM SingleRootExactTheorem == Spec => []SingleRootExact
<1>1. Init => SingleRootExact
  BY DEF Init, SingleRootExact
<1>2. Structure /\ SingleRootExact /\ [Next]_vars => SingleRootExact'
  BY SingleRootStep
<1> QED
  BY <1>1, <1>2, StructureInvariant, PTL DEF Spec

-----------------------------------------------------------------------------
(* Nothing that could be linked is left behind. *)

\* A node that has its turn, is in the loop over its parent, or is in one still to
\* be run.
Awaited(n) ==
    \/ pc = "exist" /\ n = node
    \/ pc \in {"lib", "loop", "flush"} /\ Parent[n] = node
    \/ \E i \in DOMAIN stack : n \in stack[i]

\* A single whose parent is linked is out of its witness's limit, or the running
\* Add is at it or will come to it.
Attended ==
    \A n \in hash2node \ linked :
        Parent[n] \in linked => SerialNum(n) >= BlockNumPerWitness \/ Awaited(n)

\* A step that leaves the parents' serial numbers alone keeps Attended if the nodes
\* that were awaited stay so or are gone, and every new single is awaited.
LEMMA AttendedKept ==
    ASSUME Attended,
           \A n \in hash2node' \ linked' : Parent[n] \in linked' =>
              \/ Awaited(n)'
              \/ /\ n \in hash2node \ linked /\ Parent[n] \in linked
                 /\ serialNum'[Parent[n]] = serialNum[Parent[n]]
                 /\ ~Awaited(n) \/ SerialNum(n) >= BlockNumPerWitness
    PROVE  Attended'
<1>1. ASSUME NEW n \in hash2node' \ linked', Parent[n] \in linked'
      PROVE  SerialNum(n)' >= BlockNumPerWitness \/ Awaited(n)'
  <2>1. CASE Awaited(n)'
    BY <2>1
  <2>2. CASE /\ n \in hash2node \ linked /\ Parent[n] \in linked
             /\ serialNum'[Parent[n]] = serialNum[Parent[n]]
             /\ ~Awaited(n) \/ SerialNum(n) >= BlockNumPerWitness
    <3>1. SerialNum(n) >= BlockNumPerWitness
      BY <2>2 DEF Attended, Awaited
    <3>2. SerialNum(n)' = SerialNum(n)
      BY <2>2 DEF SerialNum
    <3> QED
      BY <3>1, <3>2
  <2> QED
    BY <1>1, <2>1, <2>2
<1> QED
  BY <1>1 DEF Attended, Awaited

\* ChainBase.Add goes on to addExistingBlock when the new node's parent is linked.
LEMMA AttendedEnter ==
    ASSUME Structure, Attended, NEW b \in Block, AddBlock(b) \/ GenerateBlock(b)
    PROVE  Attended'
<1>1. pc = "idle" /\ stack = <<>>
  BY DEF Structure, Control, AddBlock, GenerateBlock
<1>2. /\ hash2node' = hash2node \cup {b}
      /\ UNCHANGED <<linked, serialNum>>
      /\ Parent[b] \in linked => pc' = "exist" /\ node' = b
  BY DEF AddBlock, GenerateBlock, EnterAdd, AddNode, nodeVars
<1>3. \A n \in Block : ~Awaited(n)
  BY SMTT(40), <1>1 DEF Awaited
<1>4. Parent[b] \in linked => Awaited(b)'
  BY <1>2 DEF Awaited
<1>5. hash2node \subseteq Block
  BY DEF Structure, TypeOK
<1> QED
  BY <1>2, <1>3, <1>4, <1>5, AttendedKept

\* A node that addExistingBlock turns down is out of limit or gone.
LEMMA AttendedReject ==
    ASSUME Structure, Attended, RejectOutOfLimit \/ RejectInvalid
    PROVE  Attended'
<1>1. /\ TypeOK /\ linked \subseteq hash2node /\ hash2node \subseteq Block
      /\ pc = "exist" /\ stack' = stack
      /\ node \in hash2node \ linked /\ node \in Block
      /\ linkedRoot \in linked
  BY DEF Structure, TypeOK, Control, RejectOutOfLimit, RejectInvalid, Return
<1>2. \A n : Awaited(n) /\ n # node => Awaited(n)'
  BY <1>1 DEF Awaited
<1>3. CASE RejectOutOfLimit
  <2>1. /\ UNCHANGED <<hash2node, linked>>
        /\ SerialNum(node) >= BlockNumPerWitness
        /\ \A n \in linked : serialNum'[n] = serialNum[n]
    BY <1>1, <1>3 DEF RejectOutOfLimit, treeVars, TypeOK
  <2> QED
    BY <1>2, <2>1, AttendedKept
<1>4. CASE RejectInvalid
  <2> DEFINE dead == Del(hash2node, linkedRoot, {node})
  <2>1. /\ hash2node' = hash2node \ dead
        /\ linked' = linked
        /\ linked' = linked \ dead
        /\ serialNum' = Cleared(serialNum, dead, 0)
    BY <1>4, StructureRejectInvalid DEF RejectInvalid, ClearNodes
  <2>2. node \in dead
    <3>1. node \in Subtree(hash2node, linkedRoot, node)
      BY <1>1, AncUnfold, AncAntisymmetric DEF Subtree
    <3> QED
      BY <3>1 DEF Del
  <2> HIDE DEF dead
  <2>3. \A n \in linked : serialNum'[n] = serialNum[n]
    BY <1>1, <2>1 DEF Cleared
  <2> QED
    BY <1>2, <2>1, <2>2, <2>3, AttendedKept
<1> QED
  BY <1>3, <1>4

\* The children of a node that has just been linked are awaited until its loop over
\* them begins.
LEMMA AttendedLinkBlock ==
    ASSUME Structure, Attended, LinkBlock
    PROVE  Attended'
<1>1. /\ TypeOK /\ linked \subseteq Block
      /\ node \in Block \ linked
      /\ pc = "exist" /\ pc' = "lib"
      /\ UNCHANGED <<hash2node, node, stack>>
      /\ linked' = linked \cup {node}
      /\ serialNum' = [serialNum EXCEPT ![node] = SerialNum(node)]
  BY LinkChecks DEF Structure, TypeOK, LinkBlock, Link
<1>2. \A n : Awaited(n) /\ n # node => Awaited(n)'
  BY <1>1 DEF Awaited
<1>3. \A n : Parent[n] = node => Awaited(n)'
  BY <1>1 DEF Awaited
<1>4. \A n \in linked : serialNum'[n] = serialNum[n]
  BY <1>1 DEF TypeOK
<1> QED
  BY <1>1, <1>2, <1>3, <1>4, AttendedKept

\* When UpdateLib is done, addExistingBlock iterates over all children of the node.
LEMMA AttendedUpdateLib ==
    ASSUME Structure, Attended,
           UpdateLibShort \/ UpdateLibExit \/ UpdateLibEnter \/ Flush
    PROVE  Attended'
<1>1. /\ linkedRoot \in linked /\ hash2node \subseteq Block
      /\ stack \in Seq(SUBSET Block)
  BY DEF Structure, TypeOK
<1>2. UNCHANGED <<hash2node, linked, serialNum>>
  BY DEF UpdateLibShort, UpdateLibExit, UpdateLibEnter, Flush, UpdateActive, treeVars, nodeVars
<1>3. ASSUME NEW n \in hash2node \ linked, Awaited(n)
      PROVE  Awaited(n)'
  <2>1. CASE UpdateLibEnter \/ Flush
    BY <1>3, <2>1 DEF Awaited, UpdateLibEnter, Flush
  <2>2. CASE UpdateLibShort \/ UpdateLibExit
    <3>1. /\ pc \in {"lib", "loop"}
          /\ stack' = IF Children(node) = {} THEN stack ELSE Append(stack, Children(node))
      BY <2>2 DEF UpdateLibShort, UpdateLibExit, Descend, Return
    <3>2. Children(node) \in SUBSET Block
      BY <1>1 DEF Children
    <3>3. CASE Parent[n] = node
      <4>1. n \in Children(node)
        BY <1>1, <1>3, <3>3 DEF Children
      <4>2. /\ stack' = Append(stack, Children(node))
            /\ Len(stack) + 1 \in DOMAIN Append(stack, Children(node))
            /\ Append(stack, Children(node))[Len(stack) + 1] = Children(node)
        BY SMTT(40), <1>1, <3>1, <3>2, <4>1
      <4> QED
        BY <4>1, <4>2 DEF Awaited
    <3>4. CASE \E i \in DOMAIN stack : n \in stack[i]
      <4>1. \A i \in DOMAIN stack : i \in DOMAIN stack' /\ stack'[i] = stack[i]
        BY SMTT(40), <1>1, <3>1, <3>2
      <4> QED
        BY <3>4, <4>1 DEF Awaited
    <3> QED
      BY <1>3, <3>1, <3>3, <3>4 DEF Awaited
  <2> QED
    BY <2>1, <2>2
<1> QED
  BY <1>2, <1>3, AttendedKept

\* The loop over node.Children hands each child that is still there to
\* addExistingBlock before it ends.
LEMMA AttendedChildren ==
    ASSUME Structure, Attended, (\E c \in Block : NextChild(c)) \/ EndChildren
    PROVE  Attended'
<1>1. /\ stack \in Seq(SUBSET Block) /\ stack # <<>>
      /\ hash2node \subseteq Block
      /\ pc = "next"
  BY DEF Structure, TypeOK, Control, NextChild, EndChildren
<1>2. UNCHANGED <<hash2node, linked, serialNum>>
  BY DEF NextChild, EndChildren, treeVars, nodeVars
<1>3. /\ Len(stack) \in Nat \ {0}
      /\ DOMAIN stack = 1..Len(stack)
      /\ Callers \in Seq(SUBSET Block)
      /\ Len(Callers) = Len(stack) - 1
      /\ \A i \in 1..(Len(stack) - 1) : i \in DOMAIN Callers /\ Callers[i] = stack[i]
  <2>1. Len(stack) \in Nat \ {0} /\ DOMAIN stack = 1..Len(stack)
    BY SMTT(40), <1>1
  <2>2. /\ Callers \in Seq(SUBSET Block)
        /\ Len(Callers) = Len(stack) - 1
        /\ \A i \in 1..(Len(stack) - 1) : Callers[i] = stack[i]
    BY SMTT(40), <1>1, <2>1 DEF Callers
  <2> QED
    BY SMTT(40), <2>1, <2>2
<1>4. ASSUME NEW n \in hash2node \ linked, Awaited(n)
      PROVE  Awaited(n)'
  <2>1. PICK i \in DOMAIN stack : n \in stack[i]
    BY <1>1, <1>4 DEF Awaited
  <2>2. CASE EndChildren
    <3>1. stack' = Callers /\ Remaining \cap hash2node = {}
      BY <2>2 DEF EndChildren, Return
    <3>2. i \in 1..(Len(stack) - 1)
      BY SMTT(40), <1>3, <1>4, <2>1, <3>1 DEF Remaining
    <3> QED
      BY <1>3, <2>1, <3>1, <3>2 DEF Awaited
  <2>3. ASSUME NEW c \in Block, NextChild(c), n # c
        PROVE  Awaited(n)'
    <3> DEFINE rest == Remaining \ {c}
    <3>1. stack' = IF rest = {} THEN Callers ELSE Append(Callers, rest)
      BY <2>3 DEF NextChild
    <3>2. rest \in SUBSET Block
      <4>1. Len(stack) \in DOMAIN stack
        BY SMTT(40), <1>3
      <4> QED
        BY SMTT(40), <1>1, <4>1 DEF Remaining
    <3>3. CASE i = Len(stack)
      <4>1. n \in rest
        BY <2>1, <2>3, <3>3 DEF Remaining
      <4> HIDE DEF rest
      <4>2. /\ Len(Callers) + 1 \in DOMAIN Append(Callers, rest)
            /\ Append(Callers, rest)[Len(Callers) + 1] = rest
        BY SMTT(40), <1>3, <3>2
      <4> QED
        BY <3>1, <4>1, <4>2 DEF Awaited
    <3>4. CASE i # Len(stack)
      <4>1. i \in DOMAIN Callers /\ Callers[i] = stack[i]
        BY SMTT(40), <1>3, <3>4
      <4> HIDE DEF rest
      <4>2. \A j \in DOMAIN Callers : /\ j \in DOMAIN Append(Callers, rest)
                                     /\ Append(Callers, rest)[j] = Callers[j]
        BY SMTT(40), <1>3, <3>2
      <4> QED
        BY <2>1, <3>1, <4>1, <4>2 DEF Awaited
    <3> QED
      BY <3>3, <3>4
  <2>4. ASSUME NextChild(n)
        PROVE  Awaited(n)'
    BY <2>4 DEF NextChild, Awaited
  <2> QED
    BY <2>2, <2>3, <2>4
<1> QED
  BY <1>2, <1>4, AttendedKept

\* updateLinkedRoot links nothing, so it leaves no new single below a linked node.
LEMMA AttendedAdvanceRoot ==
    ASSUME Structure, Attended, AdvanceRoot
    PROVE  Attended'
<1>1. /\ TypeOK /\ LinkedTree /\ Apart /\ Control
      /\ hash2node \subseteq Block
      /\ pc = "loop" /\ pc' = "flush"
      /\ UNCHANGED <<node, stack>>
  BY DEF Structure, TypeOK, AdvanceRoot
<1>2. /\ linkedRoot' \in Block
      /\ linked' = {n \in linked : linkedRoot' \in Anc[n]}
      /\ hash2node' \subseteq hash2node
      /\ \A n \in linked' : serialNum'[n] = serialNum[n]
  BY <1>1, AdvanceEffect DEF TypeOK
<1>3. \A n : Awaited(n) => Awaited(n)'
  BY <1>1 DEF Awaited
<1>4. ASSUME NEW n \in hash2node' \ linked', Parent[n] \in linked'
      PROVE  n \in hash2node \ linked /\ Parent[n] \in linked
  <2>1. n \in Block /\ Parent[n] \in Block /\ linkedRoot' \in Anc[Parent[n]]
    BY <1>1, <1>2, <1>4 DEF TypeOK
  <2>2. linkedRoot' \in Anc[n]
    BY <2>1, AncUnfold
  <2> QED
    BY <1>2, <1>4, <2>2
<1> QED
  BY <1>2, <1>3, <1>4, AttendedKept

\* Every step keeps the singles below linked nodes attended.
LEMMA AttendedStep ==
    ASSUME Structure, Attended, [Next]_vars
    PROVE  Attended'
<1>1. CASE UNCHANGED vars \/ \E b \in Block : AddDuplicate(b)
  BY <1>1 DEF AddDuplicate, vars, treeVars, nodeVars, ctlVars, Attended, Awaited, SerialNum
<1> QED
  BY <1>1, AttendedEnter, AttendedReject, AttendedLinkBlock, AttendedUpdateLib,
     AttendedChildren, AttendedAdvanceRoot DEF Next, Step

\* Between calls of Add, no block that could be linked is left waiting.
THEOREM NoneLeftBehindTheorem == Spec => []NoneLeftBehind
<1>1. Init => Attended
  BY DEF Init, Attended
<1>2. Structure /\ Attended /\ [Next]_vars => Attended'
  BY AttendedStep
<1>3. Structure /\ Attended => NoneLeftBehind
  BY SMTT(40) DEF Structure, Control, Attended, Awaited, NoneLeftBehind
<1> QED
  BY <1>1, <1>2, <1>3, StructureInvariant, PTL DEF Spec

-----------------------------------------------------------------------------
(* While the producers stay the same. *)

\* Every election returns the producers of the genesis block.
FixedLists == \A b \in Block : PendingOf[b] = PendingOf[Genesis]

\* Then there is only one list.
OneList ==
    \A n \in linked : active[n] = PendingOf[Genesis] /\ pending[n] = PendingOf[Genesis]

\* Only LinkBlock and AdvanceRoot touch the pending list of a linked node.
LEMMA PendingSteps ==
    ASSUME Structure, [Next]_vars, ~LinkBlock, ~AdvanceRoot, NEW n \in linked
    PROVE  pending'[n] = pending[n]
<1>1. n \in Block
  BY DEF Structure, TypeOK
<1>2. ASSUME NEW b \in Block, AddBlock(b) \/ AddDuplicate(b) \/ GenerateBlock(b)
      PROVE  UNCHANGED nodeVars
  BY <1>2 DEF AddBlock, AddDuplicate, GenerateBlock, EnterAdd, vars
<1>3. CASE RejectInvalid
  <2> DEFINE dead == Del(hash2node, linkedRoot, {node})
  <2>1. /\ linked' = linked
        /\ linked' = linked \ dead
        /\ pending' = Cleared(pending, dead, <<>>)
    BY <1>3, StructureRejectInvalid DEF RejectInvalid, ClearNodes
  <2> QED
    BY <1>1, <2>1 DEF Cleared
<1>4. CASE UpdateLibShort \/ UpdateLibExit
  BY <1>4 DEF UpdateLibShort, UpdateLibExit, UpdateActive, nodeVars
<1>5. CASE RejectOutOfLimit
  BY <1>5 DEF RejectOutOfLimit
<1>6. CASE \/ UNCHANGED vars \/ UpdateLibEnter \/ Flush \/ EndChildren
           \/ \E c \in Block : NextChild(c)
  BY <1>6 DEF UpdateLibEnter, Flush, EndChildren, NextChild, vars, nodeVars
<1> QED
  BY <1>2, <1>3, <1>4, <1>5, <1>6 DEF Next, Step, nodeVars

\* No list but the one enters the cache.
LEMMA OneListStep ==
    ASSUME FixedLists, Structure, OneList, [Next]_vars
    PROVE  OneList'
<1>1. TypeOK /\ LinkedTree /\ Apart /\ Control /\ linked \subseteq Block /\ linkedRoot \in linked
  BY DEF Structure, TypeOK
<1>2. CASE LinkBlock
  <2>1. node \in Block /\ node \notin linked /\ Parent[node] \in linked
    BY <1>2, LinkChecks
  <2>2. /\ linked' = linked \cup {node}
        /\ active'[node] = active[Parent[node]]
        /\ pending'[node] \in {PendingOf[node], pending[Parent[node]]}
        /\ \A n \in linked : active'[n] = active[n] /\ pending'[n] = pending[n]
    BY <1>1, <1>2, <2>1 DEF LinkBlock, Link, TypeOK
  <2> QED
    BY <2>1, <2>2 DEF OneList, FixedLists
<1>3. CASE AdvanceRoot
  BY <1>1, <1>3, AdvanceEffect DEF OneList
<1>4. CASE ~LinkBlock /\ ~AdvanceRoot
  <2>1. linked' = linked
    BY <1>4, TreeSteps
  <2> QED
    BY <1>1, <1>4, <2>1, ListSteps, PendingSteps DEF OneList
<1> QED
  BY <1>2, <1>3, <1>4

\* A step that neither links a node nor moves the root leaves all confirmations: the
\* only list there is has every producer that was counted.
LEMMA ConfirmationsLeft ==
    ASSUME Structure, OneList, ConfirmationsReal, [Next]_vars, ~LinkBlock, ~AdvanceRoot,
           NEW n \in linked
    PROVE  validWitness'[n] = validWitness[n]
<1>1. linkedRoot \in linked
  BY DEF Structure, TypeOK
<1>2. validWitness[n] \subseteq Members(pending[linkedRoot])
  BY <1>1 DEF OneList, ConfirmationsReal
<1> QED
  BY <1>2, ListSteps

\* removeValidWitness takes the new root's witness away exactly where no later block
\* gives the confirmation again.
LEMMA ConfirmationsExactStep ==
    ASSUME Structure, OneList, ConfirmationsReal, ConfirmationsExact, [Next]_vars
    PROVE  ConfirmationsExact'
<1>1. /\ TypeOK /\ LinkedTree /\ Apart /\ Control
      /\ linked \subseteq hash2node /\ hash2node \subseteq Block
      /\ linkedRoot \in linked /\ linkedRoot \in Block
  BY DEF Structure, TypeOK
<1>2. CASE LinkBlock
  <2>1. /\ node \notin linked
        /\ node \in Block /\ node # linkedRoot
        /\ Parent[node] \in linked /\ Parent[node] \in Block
    BY <1>1, <1>2, LinkChecks
  <2>2. /\ linked' = linked \cup {node}
        /\ linkedRoot' = linkedRoot
        /\ validWitness'[node] = validWitness[Parent[node]] \cup {Witness[node]}
        /\ \A n \in linked : validWitness'[n] = validWitness[n]
    BY <1>1, <1>2, <2>1 DEF LinkBlock, Link, TypeOK
  <2>3. Anc[node] = Anc[Parent[node]] \cup {node} /\ node \notin Anc[linkedRoot]
    BY <1>1, <2>1, ChildOfLinked
  <2>4. Confirming(linkedRoot, node) = Confirming(linkedRoot, Parent[node]) \cup {Witness[node]}
    BY <2>3 DEF Confirming, PathAbove
  <2> QED
    BY <2>1, <2>2, <2>4 DEF ConfirmationsExact
<1>3. CASE AdvanceRoot
  <2> DEFINE r == linkedRoot'
  <2>1. /\ r \in linked /\ r \in Block /\ r # linkedRoot
        /\ Parent[r] = linkedRoot
        /\ linked' = {n \in linked : r \in Anc[n]}
        /\ \A n \in linked' : validWitness'[n] = RemoveValidWitness(r)[n]
    BY <1>1, <1>3, AdvanceEffect
  <2>2. Anc[r] = Anc[linkedRoot] \cup {r} /\ r \notin Anc[linkedRoot]
    BY <1>1, <2>1, AncUnfold, ParentBelow
  <2> HIDE DEF r
  <2>3. ASSUME NEW n \in linked' PROVE validWitness'[n] = Confirming(r, n)
    <3>1. /\ n \in linked /\ n \in hash2node /\ n \in Block /\ r \in Anc[n]
          /\ validWitness[n] = Confirming(linkedRoot, n)
      BY <1>1, <2>1 DEF ConfirmationsExact
    <3>2. PathAbove(linkedRoot, n) = PathAbove(r, n) \cup {r}
      BY <2>2, <3>1 DEF PathAbove
    <3>3. Confirming(linkedRoot, n) = Confirming(r, n) \cup {Witness[r]}
      BY <3>2 DEF Confirming
    <3>4. CASE \A k \in PathAbove(r, n) : Witness[k] # Witness[r]
      <4>1. Witness[r] \notin Confirming(r, n)
        BY <3>4 DEF Confirming
      <4>2. validWitness'[n] = validWitness[n] \ {Witness[r]}
        BY <2>1, <3>1, <3>4 DEF RemoveValidWitness
      <4> QED
        BY SMTT(40), <3>1, <3>3, <4>1, <4>2
    <3>5. CASE ~\A k \in PathAbove(r, n) : Witness[k] # Witness[r]
      <4>1. Witness[r] \in Confirming(r, n)
        BY <3>5 DEF Confirming
      <4>2. validWitness'[n] = validWitness[n]
        BY <2>1, <3>1, <3>5 DEF RemoveValidWitness
      <4> QED
        BY <3>1, <3>3, <4>1, <4>2
    <3> QED
      BY <3>4, <3>5
  <2> QED
    BY <2>3 DEF ConfirmationsExact, r
<1>4. CASE ~LinkBlock /\ ~AdvanceRoot
  <2>1. linked' = linked /\ linkedRoot' = linkedRoot
    BY <1>4, TreeSteps
  <2> QED
    BY <1>4, <2>1, ConfirmationsLeft DEF ConfirmationsExact
<1> QED
  BY <1>2, <1>3, <1>4

LEMMA OneListInvariant == ASSUME FixedLists PROVE Spec => []OneList
<1>1. Init => OneList
  BY HeaderAssumption DEF Init, OneList
<1>2. Structure /\ OneList /\ [Next]_vars => OneList'
  BY OneListStep
<1> QED
  BY <1>1, <1>2, StructureInvariant, PTL DEF Spec

\* While the producers stay the same, the confirmations of a node are exactly the
\* producers of the blocks between the root and the node: Link and
\* removeValidWitness count none twice, and forget none.
THEOREM ConfirmationsExactTheorem == ASSUME FixedLists PROVE Spec => []ConfirmationsExact
<1>1. Init => ConfirmationsExact
  BY SMTT(40), HeaderAssumption DEF Init, ConfirmationsExact, Confirming, PathAbove
<1>2. Structure /\ OneList /\ ConfirmationsReal /\ ConfirmationsExact /\ [Next]_vars
        => ConfirmationsExact'
  BY ConfirmationsExactStep
<1> QED
  BY <1>1, <1>2, StructureInvariant, OneListInvariant, ConfirmationsRealTheorem, PTL DEF Spec

=============================================================================
