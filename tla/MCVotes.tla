------------------------------ MODULE MCVotes ------------------------------
(***************************************************************************)
(* One given block tree, delivered in every order.  Row i of `Tree` is     *)
(* block i: parent (0 for none), time, witness and the list elected in its *)
(* state.                                                                  *)
(***************************************************************************)
EXTENDS BlockCache

CONSTANT Tree

\* A function on 1..n as a sequence, which TLC evaluates once.  (A constant that
\* a cfg replaces is evaluated at every use, hence the second name of each.)
Table(f) == <<>> \o f

Blocks == DOMAIN Tree
ParentTable == Table([b \in Blocks |-> IF Tree[b][1] = 0 THEN NoBlock ELSE Tree[b][1]])
anc[b \in Blocks] == {b} \cup IF Tree[b][1] = 0 THEN {} ELSE anc[Tree[b][1]]
AncTable == Table([b \in Blocks |-> anc[b]])
NumberTable == Table([b \in Blocks |-> Cardinality(AncTable[b]) - 1])
TimeTable == Table([b \in Blocks |-> Tree[b][2]])
WitnessTable == Table([b \in Blocks |-> Tree[b][3]])
PendingTable == Table([b \in Blocks |-> Tree[b][4]])

MCBlock == Blocks
MCParent == ParentTable
MCAnc == AncTable
MCNumber == NumberTable
MCTime == TimeTable
MCWitness == WitnessTable
MCPendingOf == PendingTable

-----------------------------------------------------------------------------
(* The active list as a function of the chain: what a cache computes that   *)
(* is given the blocks of one chain, in order, and nothing else.            *)

PendingAt[b \in Blocks] ==
    IF ParentTable[b] = NoBlock \/ NumberTable[b] % VoteInterval = 0
      THEN PendingTable[b]
      ELSE PendingAt[ParentTable[b]]

\* The block that follows r on the chain of n.
After(r, n) == CHOOSE k \in AncTable[n] : ParentTable[k] = r

\* The root and the confirmations of n once updateLib's loop has run.
RECURSIVE SoloLib(_, _, _, _)
SoloLib(n, root, list, valid) ==
    IF /\ Cardinality(valid) >= ConfirmLimit
       /\ list = PendingAt[root]
       /\ root # n
      THEN LET k == After(root, n)
               again == {WitnessTable[m] : m \in AncTable[n] \ AncTable[k]}
           IN  SoloLib(n, k, list, valid \ ({WitnessTable[k]} \ again))
      ELSE [root |-> root, list |-> list, valid |-> valid]

Solo[n \in Blocks] ==
    IF ParentTable[n] = NoBlock
      THEN [root |-> n, list |-> PendingAt[n], valid |-> {}]
      ELSE LET p == Solo[ParentTable[n]]
               s == SoloLib(n, p.root, p.list, p.valid \cup {WitnessTable[n]})
           IN  IF s.list # PendingAt[s.root]
                 THEN [root |-> s.root, list |-> PendingAt[s.root],
                       valid |-> s.valid \cap Members(PendingAt[s.root])]
                 ELSE s

SoloTable == Table([b \in Blocks |-> Solo[b].list])

-----------------------------------------------------------------------------
\* The active list a cache gives a block depends on the block's chain alone, not
\* on the forks it has seen or the order in which blocks came: "after UpdateLib,
\* the block head active witness list will be right".
ActiveByChain == \A n \in linked \ {node} : active[n] = SoloTable[n]

-----------------------------------------------------------------------------
AB == <<"A", "B">>
BC == <<"B", "C">>
CB == <<"C", "B">>
CA == <<"C", "A">>

\* Two elections: BC in block 4 (number 3) and, in another order, CB in block 7
\* (number 6).  Blocks 1..10 are a chain on which each list takes over in turn;
\* C misses a slot after the second.  The others fork off where the lists change:
\* the new list takes effect at 11 as it does at 5, of 12 and 13 one is right under
\* BC and the other under AB, and 15 takes over BC with a confirmation of A, who is
\* retired.
VoteTree ==
    << <<0, 0, "A", AB>>,
       <<1, 2, "A", AB>>,  <<2, 3, "B", AB>>,  <<3, 4, "A", BC>>,
       <<4, 5, "B", BC>>,  <<5, 7, "C", BC>>,  <<6, 8, "B", CB>>,
       <<7, 10, "B", CB>>, <<8, 11, "C", CB>>, <<9, 13, "B", CB>>,
       <<4, 7, "B", BC>>,  <<11, 8, "B", BC>>, <<11, 8, "A", BC>>,
       <<4, 6, "A", BC>>,  <<14, 7, "B", BC>> >>

\* The LIB stalls for more than a vote interval: A makes blocks 2..5 alone, over
\* the elections of BC in 3 and of CA in 5.  B and C then confirm them in 6 and 7,
\* and 8 forks off beside 7.
StallTree ==
    << <<0, 0, "A", AB>>,
       <<1, 2, "A", AB>>, <<2, 4, "A", BC>>, <<3, 6, "A", BC>>, <<4, 8, "A", CA>>,
       <<5, 9, "B", CA>>, <<6, 11, "C", CA>>, <<6, 12, "B", CA>> >>
=============================================================================
