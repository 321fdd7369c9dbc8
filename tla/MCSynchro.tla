----------------------------- MODULE MCSynchro -----------------------------
(***************************************************************************)
(* A node that may generate a fork of its own, blocks 5 and 6, and a       *)
(* neighbour on the chain of 2, 3 and 4.  Row i of `Tree` is block i: its  *)
(* parent (0 for none) and the block it confirms.                          *)
(***************************************************************************)
EXTENDS Synchro

Tree == << <<0, 1>>, <<1, 1>>, <<2, 1>>, <<3, 2>>, <<1, 1>>, <<5, 1>> >>

Table(f) == <<>> \o f
Blocks == DOMAIN Tree
ParentTable == Table([b \in Blocks |-> IF Tree[b][1] = 0 THEN NoBlock ELSE Tree[b][1]])
anc[b \in Blocks] == {b} \cup IF Tree[b][1] = 0 THEN {} ELSE anc[Tree[b][1]]
AncTable == Table([b \in Blocks |-> anc[b]])
NumberTable == Table([b \in Blocks |-> Cardinality(AncTable[b]) - 1])
TimeTable == Table([b \in Blocks |-> b])
ConfirmsTable == Table([b \in Blocks |-> Tree[b][2]])
WitnessTable == Table([b \in Blocks |-> "w"])
PendingTable == Table([b \in Blocks |-> <<"w">>])

MCBlock == Blocks
MCParent == ParentTable
MCAnc == AncTable
MCNumber == NumberTable
MCTime == TimeTable
MCWitness == WitnessTable
MCPendingOf == PendingTable
MCConfirms == ConfirmsTable
MCPeer == {"p1"}
MCPeerStart == [p1 |-> 3]
=============================================================================
