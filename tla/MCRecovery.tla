---------------------------- MODULE MCRecovery ----------------------------
(***************************************************************************)
(* One given block tree, delivered in every order to a process that stops  *)
(* a bounded number of times.  Row i of `Tree` is block i: parent (0 for   *)
(* none), time, witness and the list elected in its state.                 *)
(***************************************************************************)
EXTENDS Recovery

CONSTANTS Tree,
          MaxCrashes,  \* how often the process stops
          Early        \* the blocks that may come before their parent

VARIABLE crashes

\* A function on 1..n as a sequence, which TLC evaluates once.  (A constant that
\* a cfg replaces is evaluated at every use, hence the second name of each.)
Table(f) == <<>> \o f

Blocks == DOMAIN Tree
ParentTable == Table([b \in Blocks |-> IF Tree[b][1] = 0 THEN NoBlock ELSE Tree[b][1]])
anc[b \in Blocks] == {b} \cup IF Tree[b][1] = 0 THEN {} ELSE anc[Tree[b][1]]
AncTable == Table([b \in Blocks |-> anc[b]])
NumberTable == Table([b \in Blocks |-> Cardinality(AncTable[b]) - 1])
TimeTable == Table([b \in Blocks |-> Tree[b][2]])
WitnessTable == Table([b \in Blocks |-> Tree[b][3]])
PendingTable == Table([b \in Blocks |-> Tree[b][4]])

MCBlock == Blocks
MCParent == ParentTable
MCAnc == AncTable
MCNumber == NumberTable
MCTime == TimeTable
MCWitness == WitnessTable
MCPendingOf == PendingTable

MCRInit == RInit /\ crashes = 0

\* RNext, with at most MaxCrashes crashes, and blocks above the root only (an old
\* block is a single that is never linked).
MCRNext ==
    \/ /\ UNCHANGED crashes
       /\ \/ \E b \in Block :
               /\ \/ b \in hash2node
                  \/ /\ Number[b] > Number[linkedRoot]
                     /\ Parent[b] \in linked \/ b \in Early
               /\ Receive(b)
          \/ LogStep
          \/ ReplayStep
    \/ /\ crashes < MaxCrashes
       /\ crashes' = crashes + 1
       /\ Crash \/ CrashInFlush

MCRSpec == MCRInit /\ [][MCRNext]_<<rvars, crashes>>

\* A running Add, of a block or of a block of the log, is never suspended forever: it
\* waits for nobody.
MCRFairSpec == MCRSpec /\ WF_<<rvars, crashes>>(LogStep /\ UNCHANGED crashes)

AB == <<"A", "B">>
BC == <<"B", "C">>
CB == <<"C", "B">>

\* Block 4 confirms two blocks of A at once.  Two elections: BC in block 4 (number 3)
\* and CB in block 7 (number 6), which take over in turn.  At 9 the first takes
\* effect as it does at 5; 10 and 11 are a fork that is confirmed when 4 is not, and
\* 12 is one block too many in its slot.
ElectionTree ==
    << <<0, 0, "A", AB>>,
       <<1, 2, "A", AB>>,  <<2, 4, "A", AB>>,  <<3, 5, "B", BC>>,
       <<4, 6, "A", BC>>,  <<5, 7, "C", BC>>,  <<6, 8, "B", CB>>,
       <<7, 10, "C", CB>>,
       <<4, 8, "A", BC>>,  <<3, 7, "B", BC>>,  <<10, 8, "A", BC>>,
       <<2, 2, "A", AB>> >>
=============================================================================
