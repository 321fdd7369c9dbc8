------------------------------ MODULE Headers ------------------------------
(***************************************************************************)
(* Block headers and the witness schedule.                                 *)
(*                                                                         *)
(* A block is identified with its head hash.  The hash covers the parent   *)
(* hash, the number, the witness and the time, so those are constant       *)
(* functions of the block, and so is its ancestry.  Bodies (transactions,  *)
(* receipts, signatures) are left out: what the modules need from them is  *)
(* whether a block passes verification and which producers the vote        *)
(* contract has elected in the state after it.                             *)
(***************************************************************************)
EXTENDS Integers, FiniteSets, Sequences, Functions

CONSTANTS
    Block,        \* the blocks (head hashes) that exist in the network
    Genesis,      \* the block at the top of the block chain at start-up
    NoBlock,      \* the parent hash of a block whose parent is not a block
    Producer,     \* the witnesses' account keys
    Parent,       \* Head.ParentHash
    Anc,          \* the block and everything its hash chain commits to
    Number,       \* Head.Number
    Witness,      \* Head.Witness
    Time,         \* Head.Time
    PendingOf,    \* pendingProducerList of vote_producer.iost in the state
                  \* after the block
    VoteInterval, SlotInterval, BlockNumPerWitness

ASSUME HeaderAssumption ==
    /\ Genesis \in Block
    /\ NoBlock \notin Block
    /\ Parent \in [Block -> Block \cup {NoBlock}]
    /\ Number \in [Block -> Nat]
    /\ Witness \in [Block -> Producer]
    /\ Time \in [Block -> Nat]
    /\ PendingOf \in [Block -> Seq(Producer) \ {<<>>}]

\* Parent hashes do not lead round in a circle, nor back without end: of any
\* blocks, there is one whose parent is not among them.
ASSUME AncestryAssumption ==
    /\ Anc \in [Block -> SUBSET Block]
    /\ \A b \in Block :
          /\ Parent[b] = NoBlock => Anc[b] = {b}
          /\ Parent[b] \in Block => Anc[b] = Anc[Parent[b]] \cup {b}
    /\ \A S \in SUBSET Block : S # {} => \E b \in S : Parent[b] \notin S

ASSUME ScheduleAssumption ==
    /\ VoteInterval \in Nat \ {0}
    /\ SlotInterval \in Nat \ {0}
    /\ BlockNumPerWitness \in Nat \ {0}

ASSUME FiniteAssumption == IsFiniteSet(Producer)

-----------------------------------------------------------------------------
\* common/witness.go: the slot a time falls in, and the witness whose slot it is.
SlotOfUnixNano(t) == t \div SlotInterval

WitnessOfNanoSec(t, witnessList) ==
    witnessList[(SlotOfUnixNano(t) % Len(witnessList)) + 1]

\* The members of an active or pending list.
Members(witnessList) == Range(witnessList)

\* The blocks of the chain that ends in n, above r.
PathAbove(r, n) == Anc[n] \ Anc[r]

\* The producers that made them.
Confirming(r, n) == {Witness[k] : k \in PathAbove(r, n)}

-----------------------------------------------------------------------------
\* The order in which Link and updateLinkedRoot prefer heads: the higher block,
\* and of two blocks of one height the earlier.
Longer(n, h) ==
    \/ Number[n] > Number[h]
    \/ Number[n] = Number[h] /\ Time[n] < Time[h]

\* What VerifyBlockHead and verifyBlock require of a block's head, given its
\* parent and the parent's active witness list.
HeadOK(b, p, activeList) ==
    /\ Time[b] > Time[p]
    /\ Parent[b] = p
    /\ Number[b] = Number[p] + 1
    /\ WitnessOfNanoSec(Time[b], activeList) = Witness[b]
=============================================================================
