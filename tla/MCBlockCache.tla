---------------------------- MODULE MCBlockCache ----------------------------
(***************************************************************************)
(* Every block tree on a few times.  A block stands for the set of times   *)
(* of its chain: time t is in the chain of b iff bit t - 1 of b - 1 is set, *)
(* so its parent is that set without its last time.  Witnesses are         *)
(* scheduled round robin and no vote takes effect.                         *)
(***************************************************************************)
EXTENDS BlockCache, FiniteSetsExt

CONSTANTS MaxTime,    \* blocks are made at the first MaxTime times after the genesis slot
          MaxNodes,   \* bound on the number of nodes in the cache
          Schedule    \* the producers, in the order of their slots

\* A function on 1..n as a sequence, which TLC evaluates once.  (A constant that
\* a cfg replaces is evaluated at every use, hence the second name of each.)
Table(f) == <<>> \o f

Times(b) == {t \in 1..MaxTime : ((b - 1) \div 2^(t - 1)) % 2 = 1}

Blocks == 1..2^MaxTime
TimeTable == Table([b \in Blocks |-> IF b = 1 THEN 0 ELSE Max(Times(b)) + SlotInterval])
ParentTable == Table([b \in Blocks |-> IF b = 1 THEN NoBlock ELSE b - 2^(Max(Times(b)) - 1)])
AncTable == Table([b \in Blocks |-> {((b - 1) % 2^t) + 1 : t \in 0..MaxTime}])
NumberTable == Table([b \in Blocks |-> Cardinality(Times(b))])
WitnessTable == Table([b \in Blocks |-> WitnessOfNanoSec(TimeTable[b], Schedule)])
PendingTable == Table([b \in Blocks |-> Schedule])
Producers == Range(Schedule)

MCBlock == Blocks
MCTime == TimeTable
MCParent == ParentTable
MCAnc == AncTable
MCNumber == NumberTable
MCWitness == WitnessTable
MCPendingOf == PendingTable
MCProducer == Producers

TwoProducers == <<"A", "B">>
ThreeProducers == <<"A", "B", "C">>

\* Next, while there is room in the bounded cache.
MCNext ==
    \/ \E b \in Block :
          \/ Cardinality(hash2node) < MaxNodes /\ AddBlock(b)
          \/ Cardinality(hash2node) < MaxNodes /\ GenerateBlock(b)
          \/ AddDuplicate(b)
    \/ Step

MCSpec == Init /\ [][MCNext]_vars
=============================================================================
