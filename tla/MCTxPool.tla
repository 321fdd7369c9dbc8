------------------------------ MODULE MCTxPool ------------------------------
(***************************************************************************)
(* The pool beside one given block tree.  Row i of `Tree` is block i:      *)
(* parent (0 for none), time, transactions and producer.                   *)
(***************************************************************************)
EXTENDS TxPool

CONSTANTS MaxTime, MaxRestarts

VARIABLE restarts

\* Blocks of "w" come from the network, blocks of "me" are generated here: 10 on a
\* head that is still in the future, 12 with a transaction taken under that head.
\* Block 14 is made on 13, which may have been pruned by then.
Tree == << <<0, 0, {}, "w">>,
           <<1, 1, {1}, "w">>,
           <<2, 2, {2}, "w">>,
           <<2, 4, {}, "w">>,
           <<4, 6, {1, 2}, "w">>,
           <<4, 6, {2}, "w">>,
           <<1, 3, {2}, "w">>,
           <<7, 5, {1}, "me">>,
           <<2, 7, {}, "w">>,
           <<9, 6, {2}, "me">>,
           <<3, 4, {}, "w">>,
           <<11, 6, {1}, "me">>,
           <<7, 4, {}, "w">>,
           <<13, 4, {1}, "me">> >>

Table(f) == <<>> \o f
Blocks == DOMAIN Tree
ParentTable == Table([b \in Blocks |-> IF Tree[b][1] = 0 THEN NoBlock ELSE Tree[b][1]])
anc[b \in Blocks] == {b} \cup IF Tree[b][1] = 0 THEN {} ELSE anc[Tree[b][1]]
AncTable == Table([b \in Blocks |-> anc[b]])
NumberTable == Table([b \in Blocks |-> Cardinality(AncTable[b]) - 1])
TimeTable == Table([b \in Blocks |-> Tree[b][2]])
TxsTable == Table([b \in Blocks |-> Tree[b][3]])
WitnessTable == Table([b \in Blocks |-> Tree[b][4]])
PendingTable == Table([b \in Blocks |-> <<"w">>])

MCBlock == Blocks
MCParent == ParentTable
MCAnc == AncTable
MCNumber == NumberTable
MCTime == TimeTable
MCWitness == WitnessTable
MCPendingOf == PendingTable
MCTxs == TxsTable
MCTxTime == <<1, 2>>
MCExpiration == <<18, 7>>

MCTInit == TInit /\ restarts = 0

MCTNext ==
    \/ /\ \/ now < MaxTime /\ Tick
          \/ \E t \in Tx : AddTx(t)
          \/ Clear
          \/ \E b \in Block : AddBlock(b) \/ GenerateBlock(b)
          \/ AddOwn
          \/ AddOwnFails
          \/ AddLinkedNode
       /\ UNCHANGED restarts
    \/ /\ restarts < MaxRestarts
       /\ Restart
       /\ restarts' = restarts + 1

MCTSpec == MCTInit /\ [][MCTNext]_<<tvars, restarts>>
=============================================================================
