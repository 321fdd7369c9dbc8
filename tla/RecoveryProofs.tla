--------------------------- MODULE RecoveryProofs ---------------------------
(***************************************************************************)
(* The cache, its stores and its log under a process that may stop at any  *)
(* moment.  Every step of the running process and of the replay is a step  *)
(* of the cache or changes a witness list or a serial number only, and a   *)
(* restart leaves a cache of one node: so what the tree relies on          *)
(* (Structure) survives.  `DiskOK` relates the stores to the root and      *)
(* `LogOK` the log to the nodes.                                           *)
(*                                                                         *)
(* While elections change no list, the log determines what Recover builds: *)
(* `FInv` says what an entry holds, in which order the entries are, and    *)
(* which of them the running replay has applied.                           *)
(***************************************************************************)
EXTENDS Recovery, CacheProofs

\* Time for the provers on a slow machine.
USE ZenonT(40), SMTT(40)

-----------------------------------------------------------------------------
(* The inductive invariant. *)

WitnessLists == Seq(Producer) \ {<<>>}
Entries ==
    [type : {"link"}, blk : Block, active : WitnessLists, pending : WitnessLists, serialNum : Nat]
      \cup [type : {"active"}, blk : Block, active : WitnessLists]
      \cup [type : {"rootWitness"}, blk : Block, witness : SUBSET Producer]

RTypeOK ==
    /\ stored \in Seq(Block)
    /\ tag \in Block
    /\ log \in Seq(Entries)
    /\ walIndex \in [Block -> Nat]
    /\ mode \in {"run", "replay"}
    /\ replay \in Seq(Entries)

\* The block chain DB holds every block under its number.
FiledByNumber(db) == \A i \in DOMAIN db : Number[db[i]] = i - 1

\* The state DB's block is among the stored ones; it is the root or, until flush has
\* run, the root's parent, whose node is gone.
DiskOK ==
    /\ FiledByNumber(stored)
    /\ Number[tag] + 1 \in DOMAIN stored
    /\ stored[Number[tag] + 1] = tag
    /\ pc # "flush" => linkedRoot = tag
    /\ pc = "flush" => /\ Parent[linkedRoot] = tag
                       /\ Number[linkedRoot] = Number[tag] + 1
                       /\ tag \notin hash2node

HasEntry(n) == \E i \in DOMAIN log : LinkedAt(i, n)

\* walIndex leads to the node's entry and grows along the chain, from the first
\* node that has been logged by this process on: RemoveFilesBefore(root) takes no
\* entry of a node above the root.
LogOK ==
    /\ \A n \in Block : walIndex[n] # 0 => walIndex[n] \in DOMAIN log /\ LinkedAt(walIndex[n], n)
    /\ \A n \in linked : \A a \in linked \cap Anc[n] :
          a # n /\ walIndex[a] # 0 => walIndex[n] > walIndex[a]
    /\ \A n \in linked \ {tag} : HasEntry(n)

\* In a replay every node comes from the log, no entry is written for a node, and
\* a committed block that is not linked has been pruned.
ReplayOK ==
    mode = "replay" =>
        /\ \A n \in Block : walIndex[n] = 0
        /\ \A n \in hash2node \ {tag} : HasEntry(n)
        /\ \A e \in Range(replay) : e.type = "link" => HasEntry(e.blk)
        /\ \A b \in Range(commits) \ linked : linkedRoot \notin Anc[b]

RInv == Structure /\ RTypeOK /\ DiskOK /\ LogOK /\ ReplayOK

-----------------------------------------------------------------------------
(* The stores. *)

\* recoverDB finds the tag's block under its number.
LEMMA PlaceOfTag ==
    ASSUME NEW db \in Seq(Block), FiledByNumber(db), NEW t \in Block,
           Number[t] + 1 \in DOMAIN db, db[Number[t] + 1] = t
    PROVE  Place(db, t) = Number[t] + 1
<1>1. Place(db, t) \in DOMAIN db /\ db[Place(db, t)] = t
  BY DEF Place
<1>2. Number[t] = Place(db, t) - 1
  BY <1>1 DEF FiledByNumber
<1>3. Place(db, t) \in Int
  BY SMTT(40), <1>1
<1> QED
  BY SMTT(40), <1>2, <1>3

\* So recoverDB leaves the blocks up to the tag's, which is the last.
LEMMA RecoverDBCuts ==
    ASSUME NEW db \in Seq(Block), FiledByNumber(db), NEW t \in Block,
           Number[t] + 1 \in DOMAIN db, db[Number[t] + 1] = t
    PROVE  /\ RecoverDB(db, t) = SubSeq(db, 1, Number[t] + 1)
           /\ RecoverDB(db, t) \in Seq(Block)
           /\ Len(RecoverDB(db, t)) = Number[t] + 1
           /\ RecoverDB(db, t)[Len(RecoverDB(db, t))] = t
<1>1. RecoverDB(db, t) = SubSeq(db, 1, Number[t] + 1)
  BY PlaceOfTag DEF RecoverDB
<1>2. Number[t] \in Nat
  BY HeaderAssumption
<1>3. DOMAIN db = 1..Len(db) /\ Len(db) \in Nat
  BY SMTT(40)
<1> QED
  BY SMTT(40), <1>1, <1>2, <1>3

\* BlockChain.Push puts a block in its place, and moves none of the others.
LEMMA PushFacts ==
    ASSUME NEW db \in Seq(Block), FiledByNumber(db), NEW b \in Block, Number[b] <= Len(db)
    PROVE  /\ Push(db, b) \in Seq(Block)
           /\ FiledByNumber(Push(db, b))
           /\ DOMAIN db \subseteq DOMAIN Push(db, b)
           /\ Number[b] + 1 \in DOMAIN Push(db, b)
           /\ Push(db, b)[Number[b] + 1] = b
           /\ \A i \in DOMAIN db : i # Number[b] + 1 => Push(db, b)[i] = db[i]
<1> DEFINE n == IF Len(db) > Number[b] THEN Len(db) ELSE Number[b] + 1
<1>1. Number[b] \in Nat /\ Len(db) \in Nat /\ DOMAIN db = 1..Len(db)
  BY SMTT(40), HeaderAssumption
<1>2. n \in Nat /\ Len(db) <= n /\ Number[b] + 1 \in 1..n
      /\ \A i \in 1..n : i # Number[b] + 1 => i \in DOMAIN db
  BY SMTT(40), <1>1
<1>3. Push(db, b) = [i \in 1..n |-> IF i = Number[b] + 1 THEN b ELSE db[i]]
  BY DEF Push
<1> HIDE DEF n
<1>4. \A i \in 1..n : (IF i = Number[b] + 1 THEN b ELSE db[i]) \in Block
  BY SMTT(40), <1>2
<1>5. Push(db, b) \in [1..n -> Block]
  BY <1>3, <1>4
<1>6. Push(db, b) \in Seq(Block) /\ DOMAIN Push(db, b) = 1..n
  BY SMTT(40), <1>2, <1>5
<1>7. \A i \in 1..n : Number[Push(db, b)[i]] = i - 1
  <2> TAKE i \in 1..n
  <2>1. CASE i = Number[b] + 1
    BY SMTT(40), <2>1, <1>1, <1>3
  <2>2. CASE i # Number[b] + 1
    BY <2>2, <1>2, <1>3 DEF FiledByNumber
  <2> QED
    BY <2>1, <2>2
<1>8. DOMAIN db \subseteq 1..n
  BY SMTT(40), <1>1, <1>2
<1> QED
  BY <1>2, <1>3, <1>6, <1>7, <1>8 DEF FiledByNumber

\* flush pushes the child of the tag's block, right after it.
LEMMA PushNext ==
    ASSUME Structure, RTypeOK, DiskOK, pc = "flush"
    PROVE  /\ linkedRoot \in Block
           /\ FiledByNumber(stored)
           /\ Push(stored, linkedRoot) \in Seq(Block)
           /\ FiledByNumber(Push(stored, linkedRoot))
           /\ Number[linkedRoot] + 1 \in DOMAIN Push(stored, linkedRoot)
           /\ Push(stored, linkedRoot)[Number[linkedRoot] + 1] = linkedRoot
           /\ \A i \in 1..(Number[tag] + 1) : /\ i \in DOMAIN Push(stored, linkedRoot)
                                              /\ Push(stored, linkedRoot)[i] = stored[i]
<1>1. linkedRoot \in Block
  BY DEF Structure, TypeOK
<1>2. FiledByNumber(stored)
  BY DEF DiskOK
<1>3. Number[tag] \in Nat /\ Number[linkedRoot] \in Nat
  BY <1>1, HeaderAssumption DEF RTypeOK
<1>4. stored \in Seq(Block) /\ Len(stored) \in Nat /\ DOMAIN stored = 1..Len(stored)
  BY SMTT(40) DEF RTypeOK
<1>5. Number[linkedRoot] = Number[tag] + 1 /\ Number[tag] + 1 \in DOMAIN stored
  BY DEF DiskOK
<1>6. Number[linkedRoot] <= Len(stored)
  BY SMTT(40), <1>3, <1>4, <1>5
<1>7. \A i \in 1..(Number[tag] + 1) : i \in DOMAIN stored /\ i # Number[linkedRoot] + 1
  BY SMTT(40), <1>3, <1>4, <1>5
<1> QED
  BY <1>1, <1>2, <1>4, <1>6, <1>7, PushFacts

-----------------------------------------------------------------------------
(* The structural invariant of the cache. *)

\* What the process does between two stops is a step of the cache.
LEMMA StepsOfCache ==
    ASSUME LogStep \/ (\E b \in Block : Receive(b))
    PROVE  Next
BY DEF LogStep, Receive, LogLinkBlock, LogUpdateActive, LogFlush, PlainStep, Next, Step

\* In a replay a new block comes as one from the network does.
LEMMA ReplayAdds ==
    ASSUME RTypeOK, ApplyLink, Entry.blk \notin hash2node
    PROVE  /\ Entry.blk \in Block
           /\ AddBlock(Entry.blk)
           /\ Next
<1>1. Entry \in Entries
  BY SMTT(40) DEF RTypeOK, ApplyLink, Applying, Entry
<1>2. Entry.blk \in Block
  BY <1>1 DEF Entries
<1>3. AddBlock(Entry.blk)
  BY DEF ApplyLink, Applying, AddBlock
<1> QED
  BY <1>2, <1>3 DEF Next

\* The other entries change the lists and serial numbers of nodes, and the root's
\* witnesses: not our own blocks' parents, since in a replay there are none.
LEMMA StructureRelist ==
    ASSUME Structure, ReplayOK, mode = "replay", pc = "idle",
           UNCHANGED <<treeVars, validWitness, linkedRoot, head, dbVars, ctlVars>>,
           linkedRootWitness' \subseteq Producer,
           active' \in [Block -> Seq(Producer)],
           pending' \in [Block -> Seq(Producer)],
           serialNum' \in [Block -> Nat],
           \A n \in linked : active'[n] # <<>> /\ pending'[n] # <<>>
    PROVE  Structure'
<1> USE DEF treeVars, dbVars, ctlVars
<1>1. TypeOK'
  BY DEF Structure, TypeOK
<1>2. LinkedTree' /\ Apart' /\ HeadPruned'
  BY DEF Structure, LinkedTree, Apart, HeadPruned
<1>3. Control'
  BY DEF Structure, Control
<1>4. StackOK'
  BY SMTT(40) DEF Structure, StackOK
<1>5. Own'
  BY DEF ReplayOK, Own
<1>6. Lists'
  BY DEF Lists
<1> QED
  BY <1>1, <1>2, <1>3, <1>4, <1>5, <1>6 DEF Structure

\* A restart leaves a cache of one linked node, the tag's block.
LEMMA StructureRestart ==
    ASSUME NEW db \in Seq(Block), FiledByNumber(db), NEW t \in Block,
           Number[t] + 1 \in DOMAIN db, db[Number[t] + 1] = t,
           NEW entries, Restart(db, t, entries)
    PROVE  Structure' /\ linkedRoot' = t /\ chain' = SubSeq(db, 1, Number[t] + 1)
<1>1. chain' \in Seq(Block) /\ linkedRoot' = t /\ chain' = SubSeq(db, 1, Number[t] + 1)
  BY RecoverDBCuts DEF Restart
<1>2. PendingOf[t] \in Seq(Producer) /\ PendingOf[t] # <<>>
  BY HeaderAssumption
<1>3. active' = [b \in Block |-> IF b = t THEN PendingOf[b] ELSE <<>>] /\ pending' = active'
  BY <1>1 DEF Restart
<1>4. active' \in [Block -> Seq(Producer)] /\ pending' \in [Block -> Seq(Producer)]
  BY SMTT(40), <1>2, <1>3
<1>5. commits' = <<t>> /\ commits' \in Seq(Block) /\ Range(commits') = {t}
  BY SMTT(40) DEF Restart, Range
<1>6. validWitness' \in [Block -> SUBSET Producer] /\ serialNum' \in [Block -> Nat]
  BY DEF Restart
<1>7. /\ hash2node' = {t} /\ linked' = {t} /\ leaf' = {t} /\ singleRoot' = {}
      /\ linkedRootWitness' = {} /\ head' = t
      /\ pc' = "idle" /\ node' = NoBlock /\ stack' = <<>>
  BY <1>1 DEF Restart
<1>8. TypeOK'
  BY SMTT(40), <1>1, <1>4, <1>5, <1>6, <1>7 DEF TypeOK
<1>9. LinkedTree' /\ Apart' /\ HeadPruned' /\ Own'
  BY <1>1, <1>5, <1>7 DEF LinkedTree, Apart, HeadPruned, Own
<1>10. Control' /\ StackOK'
  BY SMTT(40), <1>7 DEF Control, StackOK
<1>11. Lists'
  BY <1>2, <1>3, <1>7 DEF Lists
<1> QED
  BY <1>1, <1>8, <1>9, <1>10, <1>11 DEF Structure

\* Both stops find the stores in order.
LEMMA RestartStores ==
    ASSUME RInv, Crash \/ CrashInFlush
    PROVE  \E db \in Seq(Block), entries \in Seq(Entries) :
              /\ FiledByNumber(db)
              /\ Number[tag] + 1 \in DOMAIN db
              /\ db[Number[tag] + 1] = tag
              /\ Restart(db, tag, entries)
<1>1. CASE Crash
  <2>1. FiledByNumber(stored)
    BY DEF RInv, DiskOK
  <2>2. Restart(stored, tag, log) /\ stored \in Seq(Block) /\ log \in Seq(Entries)
    BY <1>1 DEF Crash, RInv, RTypeOK
  <2>3. Number[tag] + 1 \in DOMAIN stored /\ stored[Number[tag] + 1] = tag
    BY DEF RInv, DiskOK
  <2> QED
    BY <2>1, <2>2, <2>3
<1>2. CASE CrashInFlush
  <2>1. pc = "flush"
    BY <1>2 DEF CrashInFlush
  <2>2. tag \in Block /\ Number[tag] \in Nat /\ Number[tag] + 1 \in 1..(Number[tag] + 1)
    BY SMTT(40), HeaderAssumption DEF RInv, RTypeOK
  <2>3. stored[Number[tag] + 1] = tag
    BY DEF RInv, DiskOK
  <2>4. /\ Push(stored, linkedRoot) \in Seq(Block)
        /\ FiledByNumber(Push(stored, linkedRoot))
        /\ Number[tag] + 1 \in DOMAIN Push(stored, linkedRoot)
        /\ Push(stored, linkedRoot)[Number[tag] + 1] = tag
    BY <2>1, <2>2, <2>3, PushNext DEF RInv
  <2>5. RootWitnessEntry(linkedRoot, linkedRootWitness) \in Entries
    BY DEF RootWitnessEntry, Entries, RInv, Structure, TypeOK
  <2>6. log \in Seq(Entries) /\ WithRootWitness \in Seq(Entries)
    BY SMTT(40), <2>5 DEF WithRootWitness, RInv, RTypeOK
  <2> QED
    BY <1>2, <2>4, <2>6 DEF CrashInFlush
<1> QED
  BY <1>1, <1>2

-----------------------------------------------------------------------------
(* The log. *)

\* A step that writes at most one entry leaves the others where they are.
LEMMA LogGrows ==
    ASSUME RTypeOK, log' = log \/ \E e \in Entries : log' = Append(log, e)
    PROVE  /\ log' \in Seq(Entries)
           /\ \A i \in DOMAIN log : i \in DOMAIN log' /\ log'[i] = log[i]
           /\ \A n : HasEntry(n) => HasEntry(n)'
<1>1. log \in Seq(Entries)
  BY DEF RTypeOK
<1>2. log' \in Seq(Entries) /\ \A i \in DOMAIN log : i \in DOMAIN log' /\ log'[i] = log[i]
  <2>1. CASE log' = log
    BY <1>1, <2>1
  <2>2. ASSUME NEW e \in Entries, log' = Append(log, e)
        PROVE  /\ log' \in Seq(Entries)
               /\ \A i \in DOMAIN log : i \in DOMAIN log' /\ log'[i] = log[i]
    BY SMTT(40), <1>1, <2>2, AppendFacts
  <2> QED
    BY <2>1, <2>2
<1> QED
  BY <1>2 DEF HasEntry, LinkedAt

\* A step that leaves walIndex and the linked nodes, or takes some away, and writes
\* at most one entry, keeps the log in order.
LEMMA LogOKKept ==
    ASSUME RTypeOK, LogOK, log' = log \/ \E e \in Entries : log' = Append(log, e),
           walIndex' = walIndex, linked' \subseteq linked, tag' = tag
    PROVE  LogOK'
<1>1. \A n \in Block : walIndex'[n] # 0 =>
         walIndex'[n] \in DOMAIN log' /\ log'[walIndex'[n]] = log[walIndex[n]]
  BY LogGrows DEF LogOK
<1>2. \A n \in Block : walIndex'[n] # 0 =>
         walIndex'[n] \in DOMAIN log' /\ LinkedAt(walIndex[n], n)'
  BY <1>1 DEF LogOK, LinkedAt
<1>3. \A n \in linked' \ {tag'} : HasEntry(n)'
  BY LogGrows DEF LogOK
<1> QED
  BY <1>2, <1>3 DEF LogOK

\* A step that leaves the stores leaves them in order with the root, unless it moves
\* the root.
LEMMA DiskOKKept ==
    ASSUME DiskOK, UNCHANGED <<stored, tag, linkedRoot>>, pc # "flush", pc' # "flush"
    PROVE  DiskOK'
BY DEF DiskOK, FiledByNumber

\* The same for the clauses about a replay.
LEMMA ReplayOKKept ==
    ASSUME RTypeOK, ReplayOK, log' = log \/ \E e \in Entries : log' = Append(log, e),
           UNCHANGED <<walIndex, mode, tag, linked, linkedRoot, commits>>,
           hash2node' \subseteq hash2node,
           replay' \in Seq(Entries), Range(replay') \subseteq Range(replay)
    PROVE  ReplayOK'
<1>1. \A n : HasEntry(n) => HasEntry(n)'
  BY LogGrows
<1> QED
  BY <1>1 DEF ReplayOK

-----------------------------------------------------------------------------
(* The steps of the running process. *)

\* A block arrives.
LEMMA ReceiveStep ==
    ASSUME RInv, NEW b \in Block, Receive(b)
    PROVE  RInv'
<1>1. Structure'
  BY StepsOfCache, StructureNext DEF RInv
<1>2. UNCHANGED <<linked, linkedRoot, stored, tag, log, walIndex, mode, replay>> /\ mode = "run"
      /\ pc = "idle" /\ pc' # "flush"
  BY DEF Receive, walVars, recVars, AddBlock, AddDuplicate, GenerateBlock, EnterAdd, AddNode,
     vars, treeVars, rootVars, ctlVars
<1>3. RTypeOK'
  BY <1>2 DEF RInv, RTypeOK
<1>4. DiskOK'
  BY <1>2, DiskOKKept DEF RInv
<1>5. LogOK'
  BY <1>2, LogOKKept DEF RInv
<1>6. ReplayOK'
  BY <1>2 DEF ReplayOK
<1> QED
  BY <1>1, <1>3, <1>4, <1>5, <1>6 DEF RInv

\* AddNodeToWAL appends a proper entry, or nothing in a replay.
LEMMA NodeEntry ==
    ASSUME RInv, LogLinkBlock
    PROVE  LET e == LinkEntry(node, active'[node], pending'[node], serialNum'[node])
           IN  /\ e \in Entries /\ e.type = "link" /\ e.blk = node
               /\ mode = "run" =>
                    log' = Append(log, e) /\ walIndex' = [walIndex EXCEPT ![node] = Len(log) + 1]
               /\ mode # "run" => log' = log /\ walIndex' = walIndex
<1> DEFINE e == LinkEntry(node, active'[node], pending'[node], serialNum'[node])
<1>1. Structure' /\ node \in Block /\ node \in linked'
  BY StepsOfCache, StructureNext, LinkChecks DEF RInv, LogStep, LogLinkBlock, LinkBlock, Link
<1>2. active'[node] \in WitnessLists /\ pending'[node] \in WitnessLists /\ serialNum'[node] \in Nat
  BY <1>1 DEF Structure, TypeOK, Lists, WitnessLists
<1>3. e \in Entries /\ e.type = "link" /\ e.blk = node
  BY <1>1, <1>2 DEF LinkEntry, Entries
<1> QED
  BY <1>3 DEF LogLinkBlock, AddNodeToWAL

\* The entry of a new node is the last; its parent and all nodes below have earlier
\* ones, if they have been logged by this process, and no linked node is above it.
LEMMA LogLinkBlockStep ==
    ASSUME RInv, LogLinkBlock
    PROVE  RInv'
<1>1. Structure'
  BY StepsOfCache, StructureNext DEF RInv, LogStep
<1>2. /\ linked' = linked \cup {node} /\ pc = "exist" /\ pc' = "lib"
      /\ UNCHANGED <<stored, tag, mode, replay, hash2node, linkedRoot, node>>
  BY DEF LogLinkBlock, LinkBlock, Link, recVars
<1>3. /\ node \in hash2node \ linked /\ node \in Block /\ node # linkedRoot
      /\ Parent[node] \in linked
      /\ Range(commits') = Range(commits) \cup {node}
  BY LinkChecks DEF RInv, LogLinkBlock
<1>4. \A m \in linked : node \notin Anc[m]
  BY <1>3, ChildOfLinked DEF RInv, Structure
<1>5. linkedRoot = tag
  BY <1>2 DEF RInv, DiskOK
<1>6. PICK e \in Entries :
         /\ e.type = "link" /\ e.blk = node
         /\ mode = "run" =>
              log' = Append(log, e) /\ walIndex' = [walIndex EXCEPT ![node] = Len(log) + 1]
         /\ mode # "run" => log' = log /\ walIndex' = walIndex
  BY NodeEntry
<1>7. log \in Seq(Entries) /\ walIndex \in [Block -> Nat] /\ Len(log) \in Nat
      /\ DOMAIN log = 1..Len(log) /\ mode \in {"run", "replay"}
  BY SMTT(40) DEF RInv, RTypeOK
<1>8. /\ log' \in Seq(Entries)
      /\ \A i \in DOMAIN log : i \in DOMAIN log' /\ log'[i] = log[i]
      /\ \A n : HasEntry(n) => HasEntry(n)'
  BY <1>6, <1>7, LogGrows DEF RInv
<1>9. walIndex' \in [Block -> Nat]
  BY SMTT(40), <1>6, <1>7
<1>10. RTypeOK'
  BY <1>2, <1>8, <1>9 DEF RInv, RTypeOK
<1>11. DiskOK'
  BY <1>2, DiskOKKept DEF RInv
<1>12. HasEntry(node)'
  <2>1. CASE mode = "run"
    <3>1. Len(log) + 1 \in DOMAIN log' /\ log'[Len(log) + 1] = e
      BY SMTT(40), <1>6, <1>7, <2>1, AppendFacts
    <3> QED
      BY <3>1, <1>2, <1>6 DEF HasEntry, LinkedAt
  <2>2. CASE mode = "replay"
    BY <2>2, <1>2, <1>3, <1>5, <1>8 DEF RInv, ReplayOK
  <2> QED
    BY <2>1, <2>2, <1>7
<1>13. \A n \in Block : walIndex'[n] # 0 => walIndex'[n] \in DOMAIN log' /\ LinkedAt(walIndex[n], n)'
  <2> SUFFICES ASSUME NEW n \in Block, walIndex'[n] # 0
               PROVE  /\ walIndex'[n] \in DOMAIN log'
                      /\ log'[walIndex'[n]].type = "link" /\ log'[walIndex'[n]].blk = n
    BY DEF LinkedAt
  <2>1. CASE mode = "run" /\ n = node
    <3>1. walIndex'[n] = Len(log) + 1
      BY <1>3, <1>6, <1>7, <2>1
    <3>2. Len(log) + 1 \in DOMAIN log' /\ log'[Len(log) + 1] = e
      BY SMTT(40), <1>6, <1>7, <2>1, AppendFacts
    <3> QED
      BY <3>1, <3>2, <1>6, <2>1
  <2>2. CASE ~(mode = "run" /\ n = node)
    <3>1. walIndex'[n] = walIndex[n]
      BY <1>6, <1>7, <2>2
    <3> QED
      BY <3>1, <1>8 DEF RInv, LogOK, LinkedAt
  <2> QED
    BY <2>1, <2>2
<1>14. \A n \in linked' : \A a \in linked' \cap Anc[n] :
          a # n /\ walIndex'[a] # 0 => walIndex'[n] > walIndex'[a]
  <2> SUFFICES ASSUME NEW n \in linked', NEW a \in linked' \cap Anc[n], a # n, walIndex'[a] # 0
               PROVE  walIndex'[n] > walIndex'[a]
    OBVIOUS
  <2>1. a \in linked /\ a # node
    BY <1>2, <1>4
  <2>2. a \in Block /\ n \in Block /\ linked \subseteq Block
    BY <1>2, <1>3 DEF RInv, Structure, TypeOK
  <2>3. mode = "run" /\ walIndex'[a] = walIndex[a]
    BY <2>1, <2>2, <1>6, <1>7 DEF RInv, ReplayOK
  <2>4. CASE n = node
    <3>1. walIndex'[n] = Len(log) + 1
      BY <1>6, <1>7, <2>2, <2>3, <2>4
    <3>2. walIndex[a] \in 1..Len(log)
      BY <1>7, <2>2, <2>3 DEF RInv, LogOK
    <3> QED
      BY SMTT(40), <3>1, <3>2, <2>3, <1>7
  <2>5. CASE n # node
    <3>1. n \in linked /\ walIndex'[n] = walIndex[n]
      BY <1>2, <1>6, <1>7, <2>2, <2>3, <2>5
    <3> QED
      BY <3>1, <2>1, <2>3 DEF RInv, LogOK
  <2> QED
    BY <2>4, <2>5
<1>15. LogOK'
  <2>1. \A n \in linked' \ {tag'} : HasEntry(n)'
    BY <1>2, <1>8, <1>12 DEF RInv, LogOK
  <2> QED
    BY <2>1, <1>13, <1>14 DEF LogOK
<1>16. ReplayOK'
  <2> SUFFICES ASSUME mode = "replay" PROVE ReplayOK'
    BY <1>2 DEF ReplayOK
  <2>1. walIndex' = walIndex
    BY <1>6
  <2>2. Range(commits') \ linked' \subseteq Range(commits) \ linked
    BY <1>2, <1>3
  <2> QED
    BY <2>1, <2>2, <1>2, <1>8 DEF RInv, ReplayOK
<1> QED
  BY <1>1, <1>10, <1>11, <1>15, <1>16 DEF RInv

\* updateActive changes one node's list, and says so in the log.
LEMMA LogUpdateActiveStep ==
    ASSUME RInv, LogUpdateActive
    PROVE  RInv'
<1>1. Structure'
  BY StepsOfCache, StructureNext DEF RInv, LogStep
<1>2. /\ UNCHANGED <<hash2node, linked, linkedRoot, commits, stored, tag, walIndex, mode, replay>>
      /\ pc \in {"lib", "loop"} /\ pc' # "flush"
  BY DEF LogUpdateActive, UpdateLibShort, UpdateLibExit, Descend, Return, treeVars, rootVars,
     dbVars, recVars
<1>3. node \in linked /\ node \in Block
  BY <1>2 DEF RInv, Structure, Control, TypeOK
<1>4. active'[node] \in WitnessLists
  BY <1>1, <1>2, <1>3 DEF Structure, TypeOK, Lists, WitnessLists
<1>5. ActiveEntry(node, active'[node]) \in Entries
  BY <1>3, <1>4 DEF ActiveEntry, Entries
<1>6. log' = log \/ \E e \in Entries : log' = Append(log, e)
  BY <1>5 DEF LogUpdateActive
<1>7. RTypeOK'
  BY <1>2, <1>6, LogGrows DEF RInv, RTypeOK
<1>8. DiskOK'
  BY <1>2, DiskOKKept DEF RInv
<1>9. LogOK'
  BY <1>2, <1>6, LogOKKept DEF RInv
<1>10. ReplayOK'
  <2>1. replay' \in Seq(Entries)
    BY <1>2 DEF RInv, RTypeOK
  <2> QED
    BY <2>1, <1>2, <1>6, ReplayOKKept DEF RInv
<1> QED
  BY <1>1, <1>7, <1>8, <1>9, <1>10 DEF RInv

\* Removing the first k entries moves the others up.
LEMMA SuffixFacts ==
    ASSUME NEW S, NEW s \in Seq(S), NEW k \in Nat, k <= Len(s)
    PROVE  /\ SubSeq(s, k + 1, Len(s)) \in Seq(S)
           /\ Len(SubSeq(s, k + 1, Len(s))) = Len(s) - k
           /\ \A i \in 1..(Len(s) - k) : SubSeq(s, k + 1, Len(s))[i] = s[i + k]
BY SMTT(40)

\* Two sequences with the same elements are one.
LEMMA SameSeq ==
    ASSUME NEW S, NEW s \in Seq(S), NEW t \in Seq(S), Len(s) = Len(t),
           \A i \in 1..Len(s) : s[i] = t[i]
    PROVE  s = t
BY SMTT(40)

\* What RemoveFilesBefore(root) may take away: nothing, unless this process has
\* logged the root, and then the entries before the root's.
LEMMA RemovedEntries ==
    ASSUME RInv, LogFlush
    PROVE  \E k \in Nat :
              /\ k <= Len(log)
              /\ k # 0 => walIndex[linkedRoot] > k
              /\ log' \in Seq(Entries)
              /\ \A i \in DOMAIN log : i > k => i - k \in DOMAIN log' /\ log'[i - k] = log[i]
              /\ \A i \in DOMAIN log' : \/ log'[i].type = "rootWitness"
                                        \/ i + k \in DOMAIN log /\ log'[i] = log[i + k]
              /\ walIndex' = [b \in Block |-> IF walIndex[b] > k THEN walIndex[b] - k ELSE 0]
<1> DEFINE e == RootWitnessEntry(linkedRoot, linkedRootWitness)
           w == walIndex[linkedRoot]
<1>1. linkedRoot \in Block /\ e \in Entries
  BY DEF RootWitnessEntry, Entries, RInv, Structure, TypeOK
<1>2. log \in Seq(Entries) /\ w \in Nat /\ Len(log) \in Nat /\ DOMAIN log = 1..Len(log)
  BY SMTT(40), <1>1 DEF RInv, RTypeOK
<1>3. w # 0 => w \in DOMAIN log
  BY <1>1 DEF RInv, LogOK
<1>4. PICK k \in 0..(IF w = 0 THEN 0 ELSE w - 1) :
         /\ log' = SubSeq(Append(log, e), k + 1, Len(Append(log, e)))
         /\ walIndex' = [b \in Block |-> IF walIndex[b] > k THEN walIndex[b] - k ELSE 0]
  BY DEF LogFlush, RemoveFilesBefore, WithRootWitness
<1> HIDE DEF e, w
<1>5. k \in Nat /\ k <= Len(log) /\ (k # 0 => w > k)
  BY SMTT(40), <1>2, <1>3, <1>4
<1>6. /\ Append(log, e) \in Seq(Entries) /\ Len(Append(log, e)) = Len(log) + 1
      /\ \A i \in DOMAIN log : Append(log, e)[i] = log[i]
      /\ Append(log, e)[Len(log) + 1] = e
  BY SMTT(40), <1>1, <1>2, AppendFacts
<1>7. /\ log' \in Seq(Entries)
      /\ Len(log') = Len(log) + 1 - k
      /\ \A i \in 1..(Len(log) + 1 - k) : log'[i] = Append(log, e)[i + k]
  <2>1. PICK s \in Seq(Entries) : s = Append(log, e)
    BY <1>6
  <2>2. k <= Len(s) /\ Len(s) = Len(log) + 1
    BY SMTT(40), <2>1, <1>2, <1>5, <1>6
  <2>3. log' = SubSeq(s, k + 1, Len(s))
    BY <2>1, <1>4
  <2>4. /\ log' \in Seq(Entries)
        /\ Len(log') = Len(s) - k
        /\ \A i \in 1..(Len(s) - k) : log'[i] = s[i + k]
    BY <2>2, <2>3, <1>5, SuffixFacts
  <2>5. Len(s) - k = Len(log) + 1 - k
    BY SMTT(40), <2>2
  <2> QED
    BY <2>1, <2>4, <2>5
<1>8. \A i \in DOMAIN log : i > k => i - k \in DOMAIN log' /\ log'[i - k] = log[i]
  <2> TAKE i \in DOMAIN log
  <2> HAVE i > k
  <2>1. i - k \in 1..(Len(log) + 1 - k) /\ (i - k) + k = i
    BY SMTT(40), <1>2, <1>5
  <2> QED
    BY SMTT(40), <2>1, <1>2, <1>5, <1>6, <1>7
<1>9. \A i \in DOMAIN log' : \/ log'[i].type = "rootWitness"
                             \/ i + k \in DOMAIN log /\ log'[i] = log[i + k]
  <2> TAKE i \in DOMAIN log'
  <2>1. i \in 1..(Len(log) + 1 - k) /\ (i + k = Len(log) + 1 \/ i + k \in DOMAIN log)
    BY SMTT(40), <1>2, <1>5, <1>7
  <2>2. e.type = "rootWitness"
    BY DEF e, RootWitnessEntry
  <2> QED
    BY <2>1, <2>2, <1>6, <1>7
<1>10. k # 0 => walIndex[linkedRoot] > k
  BY <1>5 DEF w
<1> QED
  BY <1>4, <1>5, <1>7, <1>8, <1>9, <1>10

\* flush saves the root, and takes no entry of a node above it out of the log.
LEMMA LogFlushStep ==
    ASSUME RInv, LogFlush
    PROVE  RInv'
<1>1. Structure'
  BY StepsOfCache, StructureNext DEF RInv, LogStep
<1>2. /\ UNCHANGED <<hash2node, linked, linkedRoot, mode, replay>>
      /\ pc = "flush" /\ pc' = "loop"
      /\ stored' = Push(stored, linkedRoot) /\ tag' = linkedRoot
      /\ commits' = FreeBefore(commits, linkedRoot)
  BY DEF LogFlush, Flush, treeVars, rootVars, recVars
<1>3. linkedRoot \in Block /\ linkedRoot \in linked /\ linked \subseteq hash2node /\ linked \subseteq Block
      /\ tag \notin hash2node
  BY <1>2 DEF RInv, DiskOK, Structure, TypeOK
<1>4. DiskOK' /\ stored' \in Seq(Block)
  <2>1. /\ stored' \in Seq(Block)
        /\ FiledByNumber(stored')
        /\ Number[tag'] + 1 \in DOMAIN stored'
        /\ stored'[Number[tag'] + 1] = tag'
    BY <1>2, PushNext DEF RInv
  <2>2. FiledByNumber(stored)'
    BY <2>1 DEF FiledByNumber
  <2> QED
    BY <2>1, <2>2, <1>2 DEF DiskOK
<1>5. PICK k \in Nat :
         /\ k <= Len(log)
         /\ k # 0 => walIndex[linkedRoot] > k
         /\ log' \in Seq(Entries)
         /\ \A i \in DOMAIN log : i > k => i - k \in DOMAIN log' /\ log'[i - k] = log[i]
         /\ walIndex' = [b \in Block |-> IF walIndex[b] > k THEN walIndex[b] - k ELSE 0]
  BY RemovedEntries
<1>6. walIndex \in [Block -> Nat] /\ \A n \in Block : walIndex[n] \in Nat
  BY DEF RInv, RTypeOK
<1>7. walIndex' \in [Block -> Nat]
  <2>1. \A b \in Block : (IF walIndex[b] > k THEN walIndex[b] - k ELSE 0) \in Nat
    BY SMTT(40), <1>6
  <2> QED
    BY <2>1, <1>5
<1>8. RTypeOK'
  BY <1>2, <1>3, <1>4, <1>5, <1>7 DEF RInv, RTypeOK
<1>9. \A n \in Block : walIndex'[n] # 0 => walIndex[n] > k /\ walIndex'[n] = walIndex[n] - k
  BY <1>5
<1>10. \A n \in Block : walIndex'[n] # 0 =>
          /\ walIndex'[n] \in DOMAIN log'
          /\ log'[walIndex'[n]].type = "link" /\ log'[walIndex'[n]].blk = n
  <2> SUFFICES ASSUME NEW n \in Block, walIndex'[n] # 0
               PROVE  /\ walIndex'[n] \in DOMAIN log'
                      /\ log'[walIndex'[n]].type = "link" /\ log'[walIndex'[n]].blk = n
    OBVIOUS
  <2>1. walIndex[n] # 0 /\ walIndex[n] > k /\ walIndex'[n] = walIndex[n] - k
    BY SMTT(40), <1>6, <1>9
  <2>2. walIndex[n] \in DOMAIN log /\ log[walIndex[n]].type = "link" /\ log[walIndex[n]].blk = n
    BY <2>1 DEF RInv, LogOK, LinkedAt
  <2> QED
    BY <2>1, <2>2, <1>5
<1>11. \A n \in linked : \A a \in linked \cap Anc[n] :
          a # n /\ walIndex'[a] # 0 => walIndex'[n] > walIndex'[a]
  <2> SUFFICES ASSUME NEW n \in linked, NEW a \in linked \cap Anc[n], a # n, walIndex'[a] # 0
               PROVE  walIndex'[n] > walIndex'[a]
    OBVIOUS
  <2>1. a \in Block /\ n \in Block
    BY <1>3
  <2>2. walIndex[a] > k /\ walIndex'[a] = walIndex[a] - k /\ walIndex[a] # 0
    BY SMTT(40), <1>6, <1>9, <2>1
  <2>3. walIndex[n] > walIndex[a]
    BY <2>2 DEF RInv, LogOK
  <2>4. walIndex'[n] = walIndex[n] - k
    BY SMTT(40), <1>5, <1>6, <2>1, <2>2, <2>3
  <2> QED
    BY SMTT(40), <1>6, <2>1, <2>2, <2>3, <2>4
<1>12. k = 0 => \A n : HasEntry(n) => HasEntry(n)'
  <2> SUFFICES ASSUME k = 0, NEW n, NEW i \in DOMAIN log, LinkedAt(i, n) PROVE HasEntry(n)'
    BY DEF HasEntry
  <2>1. i \in Nat /\ i > k /\ i - k = i
    BY SMTT(40) DEF RInv, RTypeOK
  <2>2. i \in DOMAIN log' /\ log'[i] = log[i]
    BY <2>1, <1>5
  <2> QED
    BY <2>2 DEF HasEntry, LinkedAt
<1>13. \A n \in linked \ {linkedRoot} : HasEntry(n)'
  <2> TAKE n \in linked \ {linkedRoot}
  <2>1. CASE k = 0
    BY <2>1, <1>3, <1>12 DEF RInv, LogOK
  <2>2. CASE k # 0
    <3>1. n \in Block /\ linkedRoot \in Anc[n]
      BY RootIsAncestor DEF RInv, Structure
    <3>2. walIndex[linkedRoot] > k /\ walIndex[linkedRoot] # 0
      BY SMTT(40), <2>2, <1>3, <1>5, <1>6
    <3>3. walIndex[n] > walIndex[linkedRoot]
      BY <3>1, <3>2, <1>3 DEF RInv, LogOK
    <3>4. walIndex'[n] # 0
      BY SMTT(40), <3>1, <3>2, <3>3, <1>3, <1>5, <1>6
    <3> QED
      BY <3>1, <3>4, <1>10 DEF HasEntry, LinkedAt
  <2> QED
    BY <2>1, <2>2
<1>14. LogOK'
  BY <1>2, <1>10, <1>11, <1>13 DEF LogOK, LinkedAt
<1>15. ReplayOK'
  <2> SUFFICES ASSUME mode = "replay" PROVE ReplayOK'
    BY <1>2 DEF ReplayOK
  <2>1. \A n \in Block : walIndex[n] = 0
    BY DEF RInv, ReplayOK
  <2>2. k = 0
    BY SMTT(40), <2>1, <1>3, <1>5
  <2>3. \A n \in Block : walIndex'[n] = 0
    BY SMTT(40), <2>1, <2>2, <1>5
  <2>4. Range(commits') \subseteq Range(commits)
    BY <1>2, FreeBeforeRange DEF RInv, Structure, TypeOK
  <2>5. \A n \in hash2node' \ {tag'} : HasEntry(n)'
    BY <2>2, <1>2, <1>3, <1>12 DEF RInv, ReplayOK
  <2>6. \A x \in Range(replay') : x.type = "link" => HasEntry(x.blk)'
    BY <2>2, <1>2, <1>12 DEF RInv, ReplayOK
  <2> QED
    BY <2>3, <2>4, <2>5, <2>6, <1>2 DEF RInv, ReplayOK
<1> QED
  BY <1>1, <1>4, <1>8, <1>14, <1>15 DEF RInv

\* The root moves, and nothing is written.
LEMMA MoveStep ==
    ASSUME RInv, AdvanceRoot, UNCHANGED <<walVars, recVars>>
    PROVE  RInv'
<1>1. Structure'
  BY StructureAdvanceRoot DEF RInv
<1>2. UNCHANGED <<stored, tag, log, walIndex, mode, replay, commits>> /\ pc = "loop" /\ pc' = "flush"
  BY DEF walVars, recVars, AdvanceRoot, dbVars
<1>3. /\ linkedRoot' \in linked \ {linkedRoot} /\ Parent[linkedRoot'] = linkedRoot
      /\ linked' = {n \in linked : linkedRoot' \in Anc[n]}
      /\ hash2node' \subseteq hash2node \ {linkedRoot}
  BY AdvanceEffect DEF RInv, Structure
<1>4. RTypeOK'
  BY <1>2 DEF RInv, RTypeOK
<1>5. DiskOK'
  <2>1. linkedRoot = tag /\ FiledByNumber(stored)'
    BY <1>2 DEF RInv, DiskOK, FiledByNumber
  <2>2. Number[linkedRoot'] = Number[linkedRoot] + 1
    BY <1>3 DEF RInv, Structure, LinkedTree
  <2> QED
    BY <2>1, <2>2, <1>2, <1>3 DEF RInv, DiskOK
<1>6. LogOK'
  BY <1>2, <1>3, LogOKKept DEF RInv
<1>7. ReplayOK'
  <2> SUFFICES ASSUME mode = "replay" PROVE ReplayOK'
    BY <1>2 DEF ReplayOK
  <2>1. \A b \in Range(commits) \ linked' : linkedRoot' \notin Anc[b]
    <3> SUFFICES ASSUME NEW b \in Range(commits), b \notin linked', linkedRoot' \in Anc[b]
                 PROVE  FALSE
      OBVIOUS
    <3>1. b \notin linked
      BY <1>3
    <3>2. linkedRoot \notin Anc[b]
      BY <3>1 DEF RInv, ReplayOK
    <3>3. b \in Block /\ linkedRoot' \in Block /\ linkedRoot \in Block
      BY SMTT(40), <1>3 DEF RInv, Structure, TypeOK, Range
    <3>4. linkedRoot \in Anc[linkedRoot']
      BY <1>3, <3>3, AncUnfold
    <3> QED
      BY <3>2, <3>3, <3>4, AncTransitive
  <2>2. \A n : HasEntry(n) => HasEntry(n)'
    BY <1>2 DEF HasEntry, LinkedAt
  <2> QED
    BY <2>1, <2>2, <1>2, <1>3 DEF RInv, ReplayOK
<1> QED
  BY <1>1, <1>4, <1>5, <1>6, <1>7 DEF RInv

\* The other steps that write nothing.
LEMMA PlainStepKeeps ==
    ASSUME RInv, PlainStep, ~AdvanceRoot
    PROVE  RInv'
<1>1. Structure'
  BY StepsOfCache, StructureNext DEF RInv, LogStep
<1>2. UNCHANGED <<stored, tag, log, walIndex, mode, replay>>
  BY DEF PlainStep, walVars, recVars
<1>3. /\ UNCHANGED <<linked, linkedRoot, commits>> /\ hash2node' \subseteq hash2node
      /\ pc # "flush" /\ pc' # "flush"
  <2>1. CASE RejectOutOfLimit \/ UpdateLibEnter \/ (\E c \in Block : NextChild(c)) \/ EndChildren
    BY <2>1 DEF RejectOutOfLimit, UpdateLibEnter, NextChild, EndChildren, Return, treeVars,
       rootVars, dbVars
  <2>2. CASE RejectInvalid
    <3>1. linked' = linked
      BY <2>2, StructureRejectInvalid DEF RInv
    <3> QED
      BY <2>2, <3>1 DEF RejectInvalid, Return, rootVars, dbVars
  <2> QED
    BY <2>1, <2>2 DEF PlainStep
<1>4. RTypeOK'
  BY <1>2 DEF RInv, RTypeOK
<1>5. DiskOK'
  BY <1>2, <1>3, DiskOKKept DEF RInv
<1>6. LogOK'
  BY <1>2, <1>3, LogOKKept DEF RInv
<1>7. ReplayOK'
  <2>1. replay' \in Seq(Entries)
    BY <1>2 DEF RInv, RTypeOK
  <2> QED
    BY <2>1, <1>2, <1>3, ReplayOKKept DEF RInv
<1> QED
  BY <1>1, <1>4, <1>5, <1>6, <1>7 DEF RInv

-----------------------------------------------------------------------------
(* Stops and the replay. *)

\* A stop at any moment leaves stores and a log that the next process can start from.
LEMMA RestartStep ==
    ASSUME RInv, Crash \/ CrashInFlush
    PROVE  RInv'
<1>1. PICK db \in Seq(Block), entries \in Seq(Entries) :
         /\ FiledByNumber(db)
         /\ Number[tag] + 1 \in DOMAIN db
         /\ db[Number[tag] + 1] = tag
         /\ Restart(db, tag, entries)
  BY RestartStores
<1>2. tag \in Block
  BY DEF RInv, RTypeOK
<1>3. Structure' /\ linkedRoot' = tag
  BY <1>1, <1>2, StructureRestart
<1>4. /\ stored' = db /\ tag' = tag /\ log' = entries /\ replay' = entries /\ mode' = "replay"
      /\ walIndex' = [b \in Block |-> 0]
      /\ hash2node' = {linkedRoot'} /\ linked' = {linkedRoot'} /\ commits' = <<tag>>
      /\ pc' = "idle"
  BY <1>1 DEF Restart
<1>5. RTypeOK'
  BY <1>2, <1>4 DEF RTypeOK
<1>6. DiskOK'
  <2>1. FiledByNumber(stored)'
    BY <1>1, <1>4 DEF FiledByNumber
  <2> QED
    BY <2>1, <1>1, <1>3, <1>4 DEF DiskOK
<1>7. LogOK'
  BY <1>3, <1>4 DEF LogOK
<1>8. ReplayOK'
  <2>1. \A x \in Range(replay') : x.type = "link" => HasEntry(x.blk)'
    BY <1>4 DEF Range, HasEntry, LinkedAt
  <2>2. Range(commits') \subseteq linked'
    BY SMTT(40), <1>3, <1>4 DEF Range
  <2> QED
    BY <2>1, <2>2, <1>3, <1>4 DEF ReplayOK
<1> QED
  BY <1>3, <1>5, <1>6, <1>7, <1>8 DEF RInv

\* Recover takes the entries one by one.
LEMMA ReplayTail ==
    ASSUME RTypeOK, NEW type, Applying(type)
    PROVE  /\ Entry \in Entries /\ Entry \in Range(replay)
           /\ replay' \in Seq(Entries) /\ Range(replay') \subseteq Range(replay)
<1>1. replay \in Seq(Entries) /\ replay # <<>> /\ replay' = Tail(replay)
  BY DEF RTypeOK, Applying
<1>2. Entry = replay[1] /\ 1 \in DOMAIN replay /\ replay' \in Seq(Entries)
      /\ \A i \in DOMAIN replay' : i + 1 \in DOMAIN replay /\ replay'[i] = replay[i + 1]
  BY SMTT(40), <1>1 DEF Entry
<1> QED
  BY SMTT(40), <1>1, <1>2 DEF Range

\* Recover's loop keeps the invariant.
LEMMA ReplayStepKeeps ==
    ASSUME RInv, ReplayStep
    PROVE  RInv'
<1>1. /\ UNCHANGED <<stored, tag, log, walIndex, linked, linkedRoot, commits>>
      /\ mode = "replay" /\ pc = "idle" /\ pc' # "flush"
  BY DEF ReplayStep, ApplyLink, ApplyUpdateActive, ApplyUpdateLinkedRootWitness, Recovered,
     Applying, EnterAdd, AddNode, walVars, vars, treeVars, rootVars, dbVars, ctlVars
<1>2. DiskOK'
  BY <1>1, DiskOKKept DEF RInv
<1>3. LogOK'
  BY <1>1, LogOKKept DEF RInv
<1>4. CASE Recovered
  <2>1. Structure'
    BY <1>4, StructureNext DEF RInv, Recovered
  <2>2. RTypeOK' /\ ReplayOK'
    BY <1>1, <1>4 DEF RInv, RTypeOK, ReplayOK, Recovered
  <2> QED
    BY <2>1, <2>2, <1>2, <1>3 DEF RInv
<1>5. CASE ApplyLink \/ ApplyUpdateActive \/ ApplyUpdateLinkedRootWitness
  <2>1. PICK type : Applying(type)
    BY <1>5 DEF ApplyLink, ApplyUpdateActive, ApplyUpdateLinkedRootWitness
  <2>2. /\ Entry \in Entries /\ Entry \in Range(replay)
        /\ replay' \in Seq(Entries) /\ Range(replay') \subseteq Range(replay)
    BY <2>1, ReplayTail DEF RInv
  <2>3. mode' = mode
    BY <1>5 DEF ApplyLink, ApplyUpdateActive, ApplyUpdateLinkedRootWitness
  <2>4. RTypeOK'
    BY <1>1, <2>2, <2>3 DEF RInv, RTypeOK
  <2>5. CASE ApplyLink /\ Entry.blk \notin hash2node
    <3>1. Structure'
      BY <2>5, ReplayAdds, StructureNext DEF RInv
    <3>2. hash2node' = hash2node \cup {Entry.blk} /\ Entry.type = "link"
      BY <2>5 DEF ApplyLink, Applying, EnterAdd, AddNode
    <3>3. \A n : HasEntry(n) => HasEntry(n)'
      BY <1>1 DEF HasEntry, LinkedAt
    <3>4. HasEntry(Entry.blk)
      BY <1>1, <2>2, <3>2 DEF RInv, ReplayOK
    <3>5. \A n \in hash2node' \ {tag'} : HasEntry(n)'
      BY <1>1, <3>2, <3>3, <3>4 DEF RInv, ReplayOK
    <3>6. ReplayOK'
      BY <1>1, <2>2, <2>3, <3>3, <3>5 DEF RInv, ReplayOK
    <3> QED
      BY <1>2, <1>3, <2>4, <3>1, <3>6 DEF RInv
  <2>6. CASE ~(ApplyLink /\ Entry.blk \notin hash2node)
    <3>1. UNCHANGED <<treeVars, validWitness, linkedRoot, head, dbVars, ctlVars>>
      BY <1>5, <2>6 DEF ApplyLink, ApplyRoot, ApplyUpdateActive, ApplyUpdateLinkedRootWitness,
         nodeVars, rootVars
    <3>2. active \in [Block -> Seq(Producer)] /\ pending \in [Block -> Seq(Producer)]
          /\ serialNum \in [Block -> Nat] /\ linkedRootWitness \subseteq Producer
          /\ linkedRoot \in Block /\ linked \subseteq Block
          /\ \A n \in linked : active[n] # <<>> /\ pending[n] # <<>>
      BY DEF RInv, Structure, TypeOK, Lists
    <3>3. /\ Entry.blk \in Block
          /\ Entry.type = "link" =>
               /\ Entry.active \in WitnessLists /\ Entry.pending \in WitnessLists
               /\ Entry.serialNum \in Nat
          /\ Entry.type = "active" => Entry.active \in WitnessLists
          /\ Entry.type = "rootWitness" => Entry.witness \subseteq Producer
      BY <2>2 DEF Entries
    <3>4. /\ active' \in [Block -> Seq(Producer)] /\ \A n \in linked : active'[n] # <<>>
          /\ pending' \in [Block -> Seq(Producer)] /\ \A n \in linked : pending'[n] # <<>>
          /\ serialNum' \in [Block -> Nat] /\ linkedRootWitness' \subseteq Producer
      <4>1. CASE ApplyLink
        BY <4>1, <2>6, <3>2, <3>3 DEF ApplyLink, Applying, ApplyRoot, nodeVars, rootVars, WitnessLists
      <4>2. CASE ApplyUpdateActive
        BY <4>2, <3>2, <3>3 DEF ApplyUpdateActive, Applying, rootVars, WitnessLists
      <4>3. CASE ApplyUpdateLinkedRootWitness
        BY <4>3, <3>2, <3>3 DEF ApplyUpdateLinkedRootWitness, Applying, nodeVars
      <4> QED
        BY <1>5, <4>1, <4>2, <4>3
    <3>5. Structure'
      BY <1>1, <3>1, <3>4, StructureRelist DEF RInv
    <3>6. hash2node' = hash2node
      BY <3>1 DEF treeVars
    <3>7. ReplayOK'
      BY <1>1, <2>2, <2>3, <3>6, ReplayOKKept DEF RInv
    <3> QED
      BY <1>2, <1>3, <2>4, <3>5, <3>7 DEF RInv
  <2> QED
    BY <2>5, <2>6
<1> QED
  BY <1>4, <1>5 DEF ReplayStep

-----------------------------------------------------------------------------
(* The theorems. *)

LEMMA RInvInit == RInit => RInv
<1> SUFFICES ASSUME RInit PROVE RInv
  OBVIOUS
<1>1. Structure
  BY StructureInit DEF RInit
<1>2. /\ stored = <<Genesis>> /\ tag = Genesis /\ log = <<>> /\ walIndex = [b \in Block |-> 0]
      /\ mode = "run" /\ replay = <<>> /\ linked = {Genesis} /\ linkedRoot = Genesis
      /\ pc = "idle"
  BY DEF RInit, Init
<1>3. Genesis \in Block /\ Number[Genesis] = 0
  BY HeaderAssumption, GenesisAssumption
<1>4. RTypeOK
  BY SMTT(40), <1>2, <1>3 DEF RTypeOK
<1>5. DiskOK
  BY SMTT(40), <1>2, <1>3 DEF DiskOK, FiledByNumber
<1>6. LogOK /\ ReplayOK
  BY <1>2 DEF LogOK, ReplayOK
<1> QED
  BY <1>1, <1>4, <1>5, <1>6 DEF RInv

\* Every step, stops and replays included, keeps the invariant.
LEMMA RInvNext == RInv /\ [RNext]_rvars => RInv'
<1> SUFFICES ASSUME RInv, [RNext]_rvars PROVE RInv'
  OBVIOUS
<1>1. CASE \E b \in Block : Receive(b)
  BY <1>1, ReceiveStep
<1>2. CASE LogLinkBlock
  BY <1>2, LogLinkBlockStep
<1>3. CASE LogUpdateActive
  BY <1>3, LogUpdateActiveStep
<1>4. CASE LogFlush
  BY <1>4, LogFlushStep
<1>5. CASE PlainStep
  BY <1>5, MoveStep, PlainStepKeeps DEF PlainStep
<1>6. CASE ReplayStep
  BY <1>6, ReplayStepKeeps
<1>7. CASE Crash \/ CrashInFlush
  BY <1>7, RestartStep
<1>8. CASE UNCHANGED rvars
  <2>1. UNCHANGED vars /\ UNCHANGED <<stored, tag, log, walIndex, mode, replay>>
    BY <1>8 DEF rvars, walVars, recVars
  <2>2. Structure'
    BY <2>1, StructureNext DEF RInv
  <2>3. UNCHANGED <<hash2node, linked, linkedRoot, commits, pc>>
    BY <2>1 DEF vars, treeVars, rootVars, dbVars, ctlVars
  <2>4. \A n : HasEntry(n) => HasEntry(n)'
    BY <2>1 DEF HasEntry, LinkedAt
  <2>5. RTypeOK' /\ DiskOK'
    BY <2>1, <2>3 DEF RInv, RTypeOK, DiskOK, FiledByNumber
  <2>6. LogOK'
    BY <2>1, <2>3, LogOKKept DEF RInv
  <2>7. ReplayOK'
    BY <2>1, <2>3, <2>4 DEF RInv, ReplayOK
  <2> QED
    BY <2>2, <2>5, <2>6, <2>7 DEF RInv
<1> QED
  BY <1>1, <1>2, <1>3, <1>4, <1>5, <1>6, <1>7, <1>8 DEF RNext, LogStep

\* However often the process stops, and wherever: the cache, the stores and the log
\* stay in the relation that the next start relies on.
THEOREM RecoveryInvariant == RSpec => []RInv
<1> QED
  BY RInvInit, RInvNext, PTL DEF RSpec

\* Nothing that a restart needs is missing from the log: every linked block above
\* the state DB's block has an entry, whatever RemoveFilesBefore has removed
\* (AddNodeToWAL, flush).
THEOREM LoggedTheorem == RSpec => []Logged
<1>1. RInv => Logged
  BY DEF RInv, LogOK, HasEntry, Logged
<1> QED
  BY <1>1, RecoveryInvariant, PTL

\* What a restart leaves of the tree.
LEMMA RestartTree ==
    ASSUME RInv, Crash \/ CrashInFlush
    PROVE  /\ linked' = {tag} /\ hash2node' = {tag} /\ leaf' = {tag} /\ singleRoot' = {}
           /\ linkedRoot' = tag /\ head' = tag /\ commits' = <<tag>> /\ tag \in Block
           /\ tag' = tag
<1>1. tag \in Block
  BY DEF RInv, RTypeOK
<1>2. PICK db \in Seq(Block), entries \in Seq(Entries) :
         /\ FiledByNumber(db)
         /\ Number[tag] + 1 \in DOMAIN db
         /\ db[Number[tag] + 1] = tag
         /\ Restart(db, tag, entries)
  BY RestartStores
<1>3. linkedRoot' = tag
  BY <1>1, <1>2, StructureRestart
<1> QED
  BY <1>1, <1>2, <1>3 DEF Restart

-----------------------------------------------------------------------------
(* While the producers stay the same: what the replay gives back. *)

\* No election changes the list, and a block is later than its parent.  (The replay
\* verifies our own blocks, which were linked without: it would turn one down that is
\* not later than its parent.)
Steady ==
    /\ FixedLists
    /\ \A b \in Block : Parent[b] \in Block => Time[b] > Time[Parent[b]]

\* A block begins the series of its witness's slot, unless it goes on with its parent's.
Begins(b) ==
    \/ b = Genesis
    \/ Witness[Parent[b]] # Witness[b]
    \/ SlotOfUnixNano(Time[Parent[b]]) # SlotOfUnixNano(Time[b])

\* The serial number that the chain of a block gives it, whoever computes it.
Serial(n, s) ==
    \E a \in Anc[n] :
        /\ Genesis \in Anc[a] /\ Begins(a)
        /\ \A k \in PathAbove(a, n) : ~Begins(k)
        /\ s = Number[n] - Number[a]

\* There is one.
LEMMA SerialUnique ==
    ASSUME NEW n \in Block, NEW s, NEW t, Serial(n, s), Serial(n, t)
    PROVE  s = t
<1>1. PICK a \in Anc[n] : /\ Begins(a)
                          /\ \A k \in PathAbove(a, n) : ~Begins(k)
                          /\ s = Number[n] - Number[a]
  BY DEF Serial
<1>2. PICK c \in Anc[n] : /\ Begins(c)
                          /\ \A k \in PathAbove(c, n) : ~Begins(k)
                          /\ t = Number[n] - Number[c]
  BY DEF Serial
<1>3. a \in Block /\ c \in Block
  BY AncUnfold
<1>4. a \in Anc[c] /\ c \in Anc[a]
  BY <1>1, <1>2 DEF PathAbove
<1>5. a = c
  BY <1>3, <1>4, AncAntisymmetric
<1> QED
  BY <1>1, <1>2, <1>5

\* It is what SerialNum computes from the parent's.
LEMMA SerialOfChild ==
    ASSUME NEW n \in Block, Parent[n] \in Block, n # Genesis,
           Number[n] = Number[Parent[n]] + 1, Genesis \in Anc[n],
           Serial(Parent[n], serialNum[Parent[n]])
    PROVE  Serial(n, SerialNum(n))
<1> DEFINE p == Parent[n]
<1>1. /\ Anc[n] = Anc[p] \cup {n} /\ n \notin Anc[p] /\ p \in Block
      /\ Number[n] \in Nat /\ Number[p] \in Nat
  BY AncUnfold, ParentBelow, HeaderAssumption
<1>2. CASE Begins(n)
  <2>1. SerialNum(n) = Number[n] - Number[n]
    <3>1. SerialNum(n) = 0
      BY <1>2 DEF Begins, SerialNum
    <3> QED
      BY SMTT(40), <3>1, <1>1
  <2>2. PathAbove(n, n) = {} /\ n \in Anc[n]
    BY <1>1 DEF PathAbove
  <2> QED
    BY <1>2, <2>1, <2>2 DEF Serial
<1>3. CASE ~Begins(n)
  <2>1. PICK a \in Anc[p] : /\ Genesis \in Anc[a] /\ Begins(a)
                            /\ \A k \in PathAbove(a, p) : ~Begins(k)
                            /\ serialNum[p] = Number[p] - Number[a]
    BY DEF Serial
  <2>2. SerialNum(n) = serialNum[p] + 1
    BY <1>3 DEF Begins, SerialNum
  <2>3. SerialNum(n) = Number[n] - Number[a]
    <3>1. a \in Block /\ Number[a] \in Nat
      BY <1>1, <2>1, AncUnfold, HeaderAssumption
    <3> QED
      BY SMTT(40), <1>1, <2>1, <2>2, <3>1
  <2>4. \A k \in PathAbove(a, n) : ~Begins(k)
    BY <1>1, <1>3, <2>1 DEF PathAbove
  <2> QED
    BY <1>1, <2>1, <2>3, <2>4 DEF Serial
<1> QED
  BY <1>2, <1>3

LEMMA SerialOfGenesis == Serial(Genesis, 0)
<1>1. Genesis \in Block /\ Number[Genesis] \in Nat
  BY HeaderAssumption
<1>2. Genesis \in Anc[Genesis] /\ PathAbove(Genesis, Genesis) = {}
  BY <1>1, AncUnfold DEF PathAbove
<1>3. 0 = Number[Genesis] - Number[Genesis]
  BY SMTT(40), <1>1
<1> QED
  BY <1>2, <1>3 DEF Serial, Begins

\* Entry i links a block that descends from r.
LinksAbove(i, r) == log[i].type = "link" /\ r \in Anc[log[i].blk]

\* One of the first m entries links n.
EntryUpTo(m, n) == \E i \in DOMAIN log : i <= m /\ LinkedAt(i, n)

\* What a process writes for a block, another would write too.  Lists do not change,
\* so no entry says that one has.
GoodEntry(e) ==
    /\ e.type # "active"
    /\ e.type = "link" =>
         /\ e.active = PendingOf[Genesis] /\ e.pending = PendingOf[Genesis]
         /\ Serial(e.blk, e.serialNum) /\ e.serialNum < BlockNumPerWitness
         /\ HeadOK(e.blk, Parent[e.blk], PendingOf[Genesis])

LogGood == \A i \in DOMAIN log : GoodEntry(log[i])

\* Above the state DB's block a parent is logged before its children, and no block
\* is logged twice.
LogOrdered ==
    /\ \A i \in DOMAIN log :
          LinksAbove(i, tag) /\ log[i].blk # tag =>
              Parent[log[i].blk] = Genesis \/ EntryUpTo(i - 1, Parent[log[i].blk])
    /\ \A n \in Block : tag \in Anc[n] =>
          \A i, j \in DOMAIN log : LinkedAt(i, n) /\ LinkedAt(j, n) => i = j

TagLogged ==
    /\ Genesis \in Anc[tag]
    /\ tag = Genesis \/ HasEntry(tag)

Serials == \A n \in linked \ {linkedRoot} : Serial(n, serialNum[n])

\* When the process is running, all that the log has above the root is linked.
RunComplete ==
    mode = "run" =>
        /\ Serial(linkedRoot, serialNum[linkedRoot])
        /\ \A i \in DOMAIN log : LinksAbove(i, linkedRoot) => log[i].blk \in linked

\* Recover has applied the first m entries, and what it has still to apply follows in
\* the log.
Applied(m) ==
    /\ \A i \in DOMAIN replay : m + i \in DOMAIN log /\ log[m + i] = replay[i]
    /\ \A i \in DOMAIN log : log[i].type = "link" /\ i > m => i - m \in DOMAIN replay
    /\ \A i \in DOMAIN log : i <= m /\ LinksAbove(i, linkedRoot) =>
          log[i].blk \in linked \/ (pc = "exist" /\ log[i].blk = node)
    /\ \A n \in hash2node \ {tag} : EntryUpTo(m, n)
    /\ \/ Serial(linkedRoot, serialNum[linkedRoot])
       \/ linkedRoot # Genesis /\ ~EntryUpTo(m, linkedRoot)

ReplayComplete == mode = "replay" => \E m \in Nat : Applied(m)

\* What the process has forgotten is in the log.
BeforeLogged ==
    mode = "replay" =>
        \A n \in DOMAIN before :
            /\ n \in Block
            /\ tag \in Anc[n] => n = tag \/ HasEntry(n)
            /\ \/ before[n] = <<>>
               \/ \E s : /\ Serial(n, s)
                         /\ before[n] = <<PendingOf[Genesis], PendingOf[Genesis], s>>

FInv ==
    /\ OneList /\ LogGood /\ LogOrdered /\ TagLogged
    /\ Serials /\ RunComplete /\ ReplayComplete /\ BeforeLogged

-----------------------------------------------------------------------------
\* A node at which addExistingBlock begins has a parent with the right serial number.
LEMMA ParentSerial ==
    ASSUME RInv, FInv, pc = "exist"
    PROVE  /\ node \in Block /\ Parent[node] \in Block /\ Parent[node] \in linked
           /\ node # Genesis /\ Genesis \in Anc[node]
           /\ node \notin linked /\ linkedRoot = tag /\ tag \in Anc[node] /\ node # tag
           /\ Serial(Parent[node], serialNum[Parent[node]])
<1>1. /\ node \in hash2node \ linked /\ Parent[node] \in linked /\ node \in Block
      /\ linkedRoot \in linked /\ linkedRoot \in Block /\ node # linkedRoot
  BY DEF RInv, Structure, TypeOK, Control
<1>2. linkedRoot = tag /\ Genesis \in Anc[tag]
  BY DEF RInv, DiskOK, FInv, TagLogged
<1>3. Parent[node] \in Block /\ linkedRoot \in Anc[node] /\ node \notin Anc[linkedRoot]
  BY <1>1, ChildOfLinked DEF RInv, Structure
<1>4. Genesis \in Anc[node] /\ node # Genesis
  BY <1>1, <1>2, <1>3, AncTransitive
<1>5. Serial(Parent[node], serialNum[Parent[node]])
  <2>1. CASE Parent[node] # linkedRoot
    BY <1>1, <2>1 DEF FInv, Serials
  <2>2. CASE Parent[node] = linkedRoot /\ mode = "run"
    BY <2>2 DEF FInv, RunComplete
  <2>3. CASE Parent[node] = linkedRoot /\ mode = "replay"
    <3>1. PICK m \in Nat : Applied(m)
      BY <2>3 DEF FInv, ReplayComplete
    <3>2. PICK i \in DOMAIN log : i <= m /\ LinkedAt(i, node)
      BY <1>1, <1>2, <3>1 DEF Applied, EntryUpTo
    <3>3. linkedRoot = Genesis \/ EntryUpTo(i - 1, linkedRoot)
      BY <1>1, <1>2, <1>3, <2>3, <3>2 DEF FInv, LogOrdered, LinksAbove, LinkedAt
    <3>4. ASSUME EntryUpTo(i - 1, linkedRoot) PROVE EntryUpTo(m, linkedRoot)
      <4>1. PICK j \in DOMAIN log : j <= i - 1 /\ LinkedAt(j, linkedRoot)
        BY <3>4 DEF EntryUpTo
      <4>2. i \in Int /\ j \in Int
        BY SMTT(40) DEF RInv, RTypeOK
      <4>3. j <= m
        BY SMTT(40), <3>2, <4>1, <4>2
      <4> QED
        BY <4>1, <4>3 DEF EntryUpTo
    <3> QED
      BY <2>3, <3>1, <3>3, <3>4 DEF Applied
  <2>4. mode \in {"run", "replay"}
    BY DEF RInv, RTypeOK
  <2> QED
    BY <2>1, <2>2, <2>3, <2>4
<1> QED
  BY <1>1, <1>2, <1>3, <1>4, <1>5

\* So a replay turns no block down: it was within the limit and its head was right
\* when it was logged, and nothing that decides that has changed.
LEMMA NoneTurnedDown ==
    ASSUME RInv, FInv, pc = "exist", mode = "replay"
    PROVE  /\ SerialNum(node) < BlockNumPerWitness
           /\ HeadOK(node, Parent[node], active[Parent[node]])
<1>1. /\ node \in Block /\ Parent[node] \in Block /\ Parent[node] \in linked
      /\ node # Genesis /\ Genesis \in Anc[node] /\ node # tag
      /\ Serial(Parent[node], serialNum[Parent[node]])
      /\ node \in hash2node
  BY ParentSerial DEF RInv, Structure, Control
<1>2. PICK m \in Nat : Applied(m)
  BY DEF FInv, ReplayComplete
<1>3. PICK i \in DOMAIN log : LinkedAt(i, node)
  BY <1>1, <1>2 DEF Applied, EntryUpTo
<1>4. /\ Serial(node, log[i].serialNum) /\ log[i].serialNum < BlockNumPerWitness
      /\ HeadOK(node, Parent[node], PendingOf[Genesis])
  BY <1>3 DEF FInv, LogGood, GoodEntry, LinkedAt
<1>5. Number[node] = Number[Parent[node]] + 1
  BY <1>4 DEF HeadOK
<1>6. SerialNum(node) = log[i].serialNum
  BY <1>1, <1>4, <1>5, SerialOfChild, SerialUnique
<1>7. active[Parent[node]] = PendingOf[Genesis]
  BY <1>1 DEF FInv, OneList
<1> QED
  BY <1>4, <1>6, <1>7

\* A step that neither writes nor links, nor moves the root.
LEMMA QuietStep ==
    ASSUME RInv, FInv, OneList',
           UNCHANGED <<log, tag, linked, linkedRoot, mode, replay, before>>,
           \A n \in linked : serialNum'[n] = serialNum[n],
           mode = "run" \/ (pc # "exist" /\ hash2node' \subseteq hash2node)
    PROVE  FInv'
<1>1. LogGood' /\ LogOrdered' /\ TagLogged' /\ BeforeLogged'
  <2>1. \A m, n : EntryUpTo(m, n)' <=> EntryUpTo(m, n)
    BY DEF EntryUpTo, LinkedAt
  <2>2. \A n : HasEntry(n)' <=> HasEntry(n)
    BY DEF HasEntry, LinkedAt
  <2>3. LogGood' /\ LogOrdered'
    BY <2>1 DEF FInv, LogGood, LogOrdered, LinksAbove, LinkedAt
  <2>4. TagLogged' /\ BeforeLogged'
    BY <2>2 DEF FInv, TagLogged, BeforeLogged
  <2> QED
    BY <2>3, <2>4
<1>2. linkedRoot \in linked
  BY DEF RInv, Structure, TypeOK
<1>3. Serials' /\ RunComplete'
  BY <1>2 DEF FInv, Serials, RunComplete, LinksAbove
<1>4. ReplayComplete'
  <2> SUFFICES ASSUME mode = "replay" PROVE \E m \in Nat : Applied(m)'
    BY DEF ReplayComplete
  <2>1. PICK m \in Nat : Applied(m)
    BY DEF FInv, ReplayComplete
  <2>2. \A n : EntryUpTo(m, n)' <=> EntryUpTo(m, n)
    BY DEF EntryUpTo, LinkedAt
  <2>3. Applied(m)'
    BY <1>2, <2>1, <2>2 DEF Applied, LinksAbove
  <2> QED
    BY <2>3
<1> QED
  BY <1>1, <1>3, <1>4 DEF FInv

\* What the process does while it neither links a block nor moves the root nor flushes.
\* With one list updateActive changes nothing, so there is nothing to write.
LEMMA OtherStepsKeep ==
    ASSUME FixedLists, RInv, FInv,
           (\E b \in Block : Receive(b)) \/ LogUpdateActive \/ PlainStep, ~AdvanceRoot
    PROVE  FInv'
<1>1. /\ Structure /\ linked \subseteq Block /\ linkedRoot \in linked
      /\ serialNum \in [Block -> Nat]
  BY DEF RInv, Structure, TypeOK
<1>2. Next
  BY StepsOfCache DEF LogStep
<1>3. OneList'
  BY <1>1, <1>2, OneListStep DEF FInv
<1>4. CASE \E b \in Block : Receive(b)
  <2>1. /\ UNCHANGED <<log, tag, linked, linkedRoot, mode, replay, before, serialNum>>
        /\ mode = "run"
    BY <1>4 DEF Receive, walVars, recVars, AddBlock, AddDuplicate, GenerateBlock, EnterAdd,
       AddNode, vars, treeVars, nodeVars, rootVars
  <2> QED
    BY <1>3, <2>1, QuietStep
<1>5. CASE LogUpdateActive
  <2>1. /\ UNCHANGED <<tag, hash2node, linked, linkedRoot, mode, replay, before, serialNum>>
        /\ pc \in {"lib", "loop"}
    BY <1>5 DEF LogUpdateActive, UpdateLibShort, UpdateLibExit, UpdateActive, treeVars,
       nodeVars, rootVars, recVars
  <2>2. node \in linked
    BY <1>1, <2>1 DEF Structure, Control
  <2>3. active'[node] = active[node]
    BY <1>3, <2>1, <2>2 DEF FInv, OneList
  <2>4. log' = log
    BY <1>5, <2>3 DEF LogUpdateActive
  <2> QED
    BY <1>3, <2>1, <2>4, QuietStep
<1>6. CASE PlainStep
  <2>1. UNCHANGED <<log, tag, mode, replay, before>>
    BY <1>6 DEF PlainStep, walVars, recVars
  <2>2. CASE UpdateLibEnter \/ (\E c \in Block : NextChild(c)) \/ EndChildren
    <3>1. UNCHANGED <<hash2node, linked, linkedRoot, serialNum>> /\ pc # "exist"
      BY <2>2 DEF UpdateLibEnter, NextChild, EndChildren, treeVars, nodeVars, rootVars
    <3> QED
      BY <1>3, <2>1, <3>1, QuietStep
  <2>3. CASE RejectOutOfLimit
    <3>1. /\ pc = "exist" /\ UNCHANGED <<linked, linkedRoot>>
          /\ serialNum' = [serialNum EXCEPT ![node] = SerialNum(node)]
          /\ ~(SerialNum(node) < BlockNumPerWitness)
      <4>1. SerialNum(node) >= BlockNumPerWitness
        BY <2>3 DEF RejectOutOfLimit
      <4>2. pc = "exist"
        BY <2>3 DEF RejectOutOfLimit
      <4>3. Parent[node] \in Block
        BY <4>2, ParentSerial
      <4>4. SerialNum(node) \in Int /\ BlockNumPerWitness \in Int
        BY SMTT(40), <1>1, <4>3, ScheduleAssumption DEF SerialNum
      <4>5. ~(SerialNum(node) < BlockNumPerWitness)
        BY SMTT(40), <4>1, <4>4
      <4> QED
        BY <2>3, <4>2, <4>5 DEF RejectOutOfLimit, treeVars, rootVars
    <3>2. mode # "replay"
      BY <3>1, NoneTurnedDown
    <3>3. mode = "run"
      BY <3>2 DEF RInv, RTypeOK
    <3>4. node \notin linked
      BY <3>1, ParentSerial
    <3>5. \A n \in linked : serialNum'[n] = serialNum[n]
      BY <1>1, <3>1, <3>4
    <3> QED
      BY <1>3, <2>1, <3>1, <3>3, <3>5, QuietStep
  <2>4. CASE RejectInvalid /\ ~HeadOK(node, Parent[node], active[Parent[node]])
    <3>1. pc = "exist" /\ linkedRoot' = linkedRoot
      BY <2>4 DEF RejectInvalid, rootVars
    <3>2. mode # "replay"
      BY <2>4, <3>1, NoneTurnedDown
    <3>3. mode = "run"
      BY <3>2 DEF RInv, RTypeOK
    <3>4. linked' = linked
      BY <1>1, <2>4, StructureRejectInvalid
    <3>5. linked' = linked \ Del(hash2node, linkedRoot, {node})
      BY <2>4 DEF RejectInvalid
    <3>6. \A n \in linked : serialNum'[n] = serialNum[n]
      BY <1>1, <2>4, <3>4, <3>5 DEF RejectInvalid, ClearNodes, Cleared
    <3> QED
      BY <1>3, <2>1, <3>1, <3>3, <3>4, <3>6, QuietStep
  <2> QED
    BY <1>6, <2>2, <2>3, <2>4 DEF PlainStep
<1> QED
  BY <1>4, <1>5, <1>6

\* The root moves: its descendants in the log are its descendants in the tree.
LEMMA MoveKeeps ==
    ASSUME FixedLists, RInv, FInv, AdvanceRoot, UNCHANGED <<walVars, recVars>>
    PROVE  FInv'
<1>1. /\ Structure /\ TypeOK /\ LinkedTree /\ Apart /\ Control /\ linked \subseteq Block
      /\ linkedRoot \in Block
  BY DEF RInv, Structure, TypeOK
<1>2. UNCHANGED <<log, tag, mode, replay, before>> /\ pc = "loop" /\ pc' = "flush"
  BY DEF walVars, recVars, AdvanceRoot
<1>3. /\ linkedRoot' \in linked \ {linkedRoot} /\ Parent[linkedRoot'] = linkedRoot
      /\ linked' = {n \in linked : linkedRoot' \in Anc[n]}
      /\ hash2node' \subseteq hash2node
      /\ \A n \in linked' : serialNum'[n] = serialNum[n]
  BY <1>1, AdvanceEffect
<1>4. linkedRoot' \in Block /\ linkedRoot \in Anc[linkedRoot'] /\ linkedRoot' \in linked'
      /\ linkedRoot' # Genesis
  <2>1. linkedRoot' \in Block /\ linkedRoot \in Anc[linkedRoot'] /\ linkedRoot' \in linked'
    BY <1>1, <1>3, AncUnfold
  <2>2. linkedRoot = tag /\ Genesis \in Anc[linkedRoot]
    BY <1>2 DEF RInv, DiskOK, FInv, TagLogged
  <2> QED
    BY <1>1, <1>3, <2>1, <2>2, ParentBelow
<1>5. \A n \in Block : linkedRoot' \in Anc[n] => linkedRoot \in Anc[n]
  BY <1>4, AncTransitive
<1>6. \A i \in DOMAIN log : log[i].type = "link" => log[i].blk \in Block
  BY SMTT(40) DEF RInv, RTypeOK, Entries
<1>7. OneList'
  <2>1. Next
    BY DEF Next, Step
  <2> QED
    BY <1>1, <2>1, OneListStep DEF FInv
<1>8. LogGood' /\ LogOrdered' /\ TagLogged' /\ BeforeLogged'
  <2>1. \A m, n : EntryUpTo(m, n)' <=> EntryUpTo(m, n)
    BY <1>2 DEF EntryUpTo, LinkedAt
  <2>2. \A n : HasEntry(n)' <=> HasEntry(n)
    BY <1>2 DEF HasEntry, LinkedAt
  <2>3. LogGood' /\ LogOrdered'
    BY <1>2, <2>1 DEF FInv, LogGood, LogOrdered, LinksAbove, LinkedAt
  <2>4. TagLogged' /\ BeforeLogged'
    BY <1>2, <2>2 DEF FInv, TagLogged, BeforeLogged
  <2> QED
    BY <2>3, <2>4
<1>9. Serials' /\ Serial(linkedRoot', serialNum'[linkedRoot'])
  <2>1. linkedRoot \notin linked'
    BY <1>1, <1>3, <1>4, ParentBelow
  <2> QED
    BY <1>3, <1>4, <2>1 DEF FInv, Serials
<1>10. RunComplete'
  BY <1>2, <1>3, <1>5, <1>6, <1>9 DEF FInv, RunComplete, LinksAbove
<1>11. ReplayComplete'
  <2> SUFFICES ASSUME mode = "replay" PROVE \E m \in Nat : Applied(m)'
    BY <1>2 DEF ReplayComplete
  <2>1. PICK m \in Nat : Applied(m)
    BY DEF FInv, ReplayComplete
  <2>2. \A n : EntryUpTo(m, n)' <=> EntryUpTo(m, n)
    BY <1>2 DEF EntryUpTo, LinkedAt
  <2>3. Applied(m)'
    BY <1>2, <1>3, <1>5, <1>6, <1>9, <2>1, <2>2 DEF Applied, LinksAbove
  <2> QED
    BY <2>3
<1> QED
  BY <1>7, <1>8, <1>9, <1>10, <1>11 DEF FInv

\* flush takes no entry of the new root or above it out of the log.
LEMMA KeptEntries ==
    ASSUME RInv, FInv, LogFlush, NEW k \in Nat, k # 0 => walIndex[linkedRoot] > k,
           NEW n \in Block, linkedRoot \in Anc[n], NEW j \in DOMAIN log, LinkedAt(j, n)
    PROVE  j > k
<1>1. /\ linkedRoot \in linked /\ linkedRoot \in Block /\ linked \subseteq Block
      /\ Structure /\ TypeOK /\ LinkedTree
  BY DEF RInv, Structure, TypeOK
<1>2. log \in Seq(Entries) /\ j \in Nat \ {0} /\ walIndex \in [Block -> Nat]
  BY SMTT(40) DEF RInv, RTypeOK
<1>3. CASE k = 0
  BY SMTT(40), <1>2, <1>3
<1>4. CASE k # 0
  <2>1. walIndex[linkedRoot] > k /\ walIndex[linkedRoot] # 0
    BY SMTT(40), <1>1, <1>2, <1>4
  <2>2. mode = "run"
    BY <1>1, <2>1 DEF RInv, ReplayOK, RTypeOK
  <2>3. n \in linked
    BY <2>2 DEF FInv, RunComplete, LinksAbove, LinkedAt
  <2>4. walIndex[n] # 0 /\ walIndex[n] > k
    <3>1. CASE n = linkedRoot
      BY <2>1, <3>1
    <3>2. CASE n # linkedRoot
      <4>1. walIndex[n] > walIndex[linkedRoot]
        BY <1>1, <2>1, <2>3, <3>2 DEF RInv, LogOK
      <4> QED
        BY SMTT(40), <1>1, <1>2, <2>1, <4>1
    <3> QED
      BY <3>1, <3>2
  <2>5. walIndex[n] \in DOMAIN log /\ LinkedAt(walIndex[n], n)
    BY <2>4 DEF RInv, LogOK
  <2>6. tag \in Anc[n]
    <3>1. Parent[linkedRoot] = tag /\ tag \in Block
      BY DEF LogFlush, Flush, RInv, DiskOK, RTypeOK
    <3>2. tag \in Anc[linkedRoot]
      BY <1>1, <3>1, AncUnfold
    <3> QED
      BY <1>1, <3>2, AncTransitive
  <2>7. walIndex[n] = j
    BY <2>5, <2>6 DEF FInv, LogOrdered
  <2> QED
    BY <2>4, <2>7
<1> QED
  BY <1>3, <1>4

\* flush.
LEMMA FlushKeeps ==
    ASSUME FixedLists, RInv, FInv, LogFlush
    PROVE  FInv'
<1>1. /\ Structure /\ linkedRoot \in linked /\ linkedRoot \in Block /\ linked \subseteq Block
      /\ tag \in Block /\ log \in Seq(Entries) /\ walIndex \in [Block -> Nat]
      /\ mode \in {"run", "replay"}
  BY DEF RInv, RTypeOK, Structure, TypeOK
<1>2. /\ UNCHANGED <<hash2node, linked, linkedRoot, serialNum, mode, replay, before>>
      /\ pc = "flush" /\ pc' = "loop" /\ tag' = linkedRoot
  BY DEF LogFlush, Flush, treeVars, nodeVars, rootVars, recVars
<1>3. Parent[linkedRoot] = tag /\ linkedRoot # tag /\ tag \in Anc[linkedRoot]
      /\ linkedRoot \notin Anc[tag] /\ tag \notin hash2node
  <2>1. Parent[linkedRoot] = tag /\ tag \notin hash2node
    BY <1>2 DEF RInv, DiskOK
  <2> QED
    BY <1>1, <2>1, AncUnfold, ParentBelow
<1>4. PICK k \in Nat :
         /\ k <= Len(log)
         /\ k # 0 => walIndex[linkedRoot] > k
         /\ log' \in Seq(Entries)
         /\ \A i \in DOMAIN log : i > k => i - k \in DOMAIN log' /\ log'[i - k] = log[i]
         /\ \A i \in DOMAIN log' : \/ log'[i].type = "rootWitness"
                                   \/ i + k \in DOMAIN log /\ log'[i] = log[i + k]
         /\ walIndex' = [b \in Block |-> IF walIndex[b] > k THEN walIndex[b] - k ELSE 0]
  BY RemovedEntries
<1>5. \A n \in Block : \A j \in DOMAIN log : linkedRoot \in Anc[n] /\ LinkedAt(j, n) => j > k
  BY <1>4, KeptEntries
<1>6. /\ \A i \in DOMAIN log : i \in Nat /\ (log[i].type = "link" => log[i].blk \in Block)
      /\ \A i \in DOMAIN log' : i \in Nat /\ (log'[i].type = "link" => log'[i].blk \in Block)
  BY SMTT(40), <1>1, <1>4 DEF Entries
<1>7. OneList'
  <2>1. Next
    BY DEF LogFlush, Next, Step
  <2> QED
    BY <1>1, <2>1, OneListStep DEF FInv
<1>8. LogGood'
  <2>1. \A i \in DOMAIN log' : GoodEntry(log'[i])
    BY SMTT(40), <1>4 DEF FInv, LogGood, GoodEntry
  <2> QED
    BY <2>1 DEF LogGood
<1>9. \A n \in Block : linkedRoot \in Anc[n] => tag \in Anc[n] /\ n # tag
  BY <1>1, <1>3, AncTransitive
<1>10. \A i \in DOMAIN log' : log'[i].type = "link" => i + k \in DOMAIN log /\ log'[i] = log[i + k]
  BY <1>4
<1>11. LogOrdered'
  <2>1. ASSUME NEW i \in DOMAIN log', log'[i].type = "link", linkedRoot \in Anc[log'[i].blk],
               log'[i].blk # linkedRoot, Parent[log'[i].blk] # Genesis
        PROVE  \E j \in DOMAIN log' : /\ j <= i - 1
                                      /\ log'[j].type = "link" /\ log'[j].blk = Parent[log'[i].blk]
    <3> DEFINE x == log'[i].blk
    <3>1. i + k \in DOMAIN log /\ log[i + k].type = "link" /\ log[i + k].blk = x /\ x \in Block
      BY <1>6, <1>10, <2>1
    <3>2. tag \in Anc[x] /\ x # tag /\ Parent[x] \in Block /\ linkedRoot \in Anc[Parent[x]]
      BY <1>9, <2>1, <3>1, AncUnfold
    <3>3. EntryUpTo((i + k) - 1, Parent[x])
      BY <2>1, <3>1, <3>2 DEF FInv, LogOrdered, LinksAbove
    <3>4. PICK j \in DOMAIN log : j <= (i + k) - 1 /\ LinkedAt(j, Parent[x])
      BY <3>3 DEF EntryUpTo
    <3>5. j > k
      BY <1>5, <3>2, <3>4
    <3>6. j - k \in DOMAIN log' /\ log'[j - k] = log[j]
      BY <1>4, <3>5
    <3>7. j - k <= i - 1
      BY SMTT(40), <1>6, <2>1, <3>4
    <3> QED
      BY <3>4, <3>6, <3>7 DEF LinkedAt
  <2>2. ASSUME NEW n \in Block, linkedRoot \in Anc[n], NEW i \in DOMAIN log', NEW j \in DOMAIN log',
               log'[i].type = "link" /\ log'[i].blk = n, log'[j].type = "link" /\ log'[j].blk = n
        PROVE  i = j
    <3>1. /\ i + k \in DOMAIN log /\ LinkedAt(i + k, n)
          /\ j + k \in DOMAIN log /\ LinkedAt(j + k, n)
      BY <1>10, <2>2 DEF LinkedAt
    <3>2. i + k = j + k
      BY <1>9, <2>2, <3>1 DEF FInv, LogOrdered
    <3> QED
      BY SMTT(40), <1>6, <3>2
  <2> QED
    BY <1>2, <2>1, <2>2 DEF LogOrdered, LinksAbove, EntryUpTo, LinkedAt
<1>12. TagLogged'
  <2>1. Genesis \in Anc[linkedRoot]
    BY <1>1, <1>3, AncTransitive DEF FInv, TagLogged
  <2>2. PICK j \in DOMAIN log : LinkedAt(j, linkedRoot)
    BY <1>1, <1>3 DEF RInv, LogOK, HasEntry
  <2>3. j > k
    BY <1>1, <1>5, <2>2, AncUnfold
  <2>4. HasEntry(linkedRoot)'
    <3>1. j - k \in DOMAIN log' /\ log'[j - k] = log[j]
      BY <1>4, <2>3
    <3> QED
      BY <1>2, <2>2, <3>1 DEF HasEntry, LinkedAt
  <2> QED
    BY <1>2, <2>1, <2>4 DEF TagLogged, HasEntry, LinkedAt
<1>13. Serials' /\ RunComplete'
  BY <1>2, <1>10 DEF FInv, Serials, RunComplete, LinksAbove
<1>14. mode = "replay" => k = 0
  BY SMTT(40), <1>1, <1>4 DEF RInv, ReplayOK
<1>15. k = 0 => /\ \A i \in DOMAIN log : i \in DOMAIN log' /\ log'[i] = log[i]
                /\ \A i \in DOMAIN log' : log'[i].type = "link" => i \in DOMAIN log /\ log'[i] = log[i]
  <2> SUFFICES ASSUME k = 0
               PROVE  /\ \A i \in DOMAIN log : i \in DOMAIN log' /\ log'[i] = log[i]
                      /\ \A i \in DOMAIN log' : log'[i].type = "link" =>
                            i \in DOMAIN log /\ log'[i] = log[i]
    OBVIOUS
  <2>1. \A i \in Nat : i - k = i /\ i + k = i
    BY SMTT(40)
  <2>2. \A i \in DOMAIN log : i > k
    BY SMTT(40), <1>1
  <2> QED
    BY <1>4, <1>6, <1>10, <2>1, <2>2
<1>16. ReplayComplete'
  <2> SUFFICES ASSUME mode = "replay" PROVE \E m \in Nat : Applied(m)'
    BY <1>2 DEF ReplayComplete
  <2>1. PICK m \in Nat : Applied(m)
    BY DEF FInv, ReplayComplete
  <2>2. \A n : EntryUpTo(m, n)' <=> EntryUpTo(m, n)
    BY <1>14, <1>15 DEF EntryUpTo, LinkedAt
  <2>3. Applied(m)'
    BY <1>2, <1>3, <1>14, <1>15, <2>1, <2>2 DEF Applied, LinksAbove
  <2> QED
    BY <2>3
<1>17. BeforeLogged'
  <2> SUFFICES ASSUME mode = "replay" PROVE BeforeLogged'
    BY <1>2 DEF BeforeLogged
  <2>1. \A n : HasEntry(n) => HasEntry(n)'
    BY <1>14, <1>15 DEF HasEntry, LinkedAt
  <2> QED
    BY <1>2, <1>9, <2>1 DEF FInv, BeforeLogged
<1> QED
  BY <1>7, <1>8, <1>11, <1>12, <1>13, <1>16, <1>17 DEF FInv

\* A block is linked, and logged if this is not a replay: with the serial number its
\* chain gives it, after its parent, and for the first time.
LEMMA LinkKeeps ==
    ASSUME Steady, RInv, FInv, LogLinkBlock
    PROVE  FInv'
<1> DEFINE e == LinkEntry(node, active'[node], pending'[node], serialNum'[node])
<1>1. /\ Structure /\ linkedRoot \in linked /\ linkedRoot \in Block /\ linked \subseteq Block
      /\ tag \in Block /\ log \in Seq(Entries) /\ serialNum \in [Block -> Nat]
      /\ mode \in {"run", "replay"}
  BY DEF RInv, RTypeOK, Structure, TypeOK
<1>2. /\ UNCHANGED <<hash2node, linkedRoot, tag, mode, replay, before, node>>
      /\ linked' = linked \cup {node} /\ pc = "exist" /\ pc' = "lib" /\ LinkBlock
      /\ serialNum' = [serialNum EXCEPT ![node] = SerialNum(node)]
      /\ SerialNum(node) < BlockNumPerWitness
  BY DEF LogLinkBlock, LinkBlock, Link, recVars
<1>3. /\ node \in Block /\ Parent[node] \in Block /\ Parent[node] \in linked
      /\ node # Genesis /\ Genesis \in Anc[node]
      /\ node \notin linked /\ linkedRoot = tag /\ tag \in Anc[node] /\ node # tag
      /\ Serial(Parent[node], serialNum[Parent[node]])
  BY <1>2, ParentSerial
<1>4. /\ Number[node] = Number[Parent[node]] + 1
      /\ WitnessOfNanoSec(Time[node], active[Parent[node]]) = Witness[node]
  BY <1>1, <1>2, LinkChecks
<1>5. serialNum'[node] = SerialNum(node) /\ Serial(node, serialNum'[node])
  BY <1>1, <1>2, <1>3, <1>4, SerialOfChild
<1>6. \A n \in linked : serialNum'[n] = serialNum[n]
  BY <1>1, <1>2, <1>3
<1>7. OneList'
  <2>1. Next
    BY StepsOfCache DEF LogStep
  <2> QED
    BY <1>1, <2>1, OneListStep DEF FInv, Steady
<1>8. Serials'
  BY <1>2, <1>5, <1>6 DEF FInv, Serials
<1>9. GoodEntry(e) /\ e.type = "link" /\ e.blk = node
  <2>1. e.type = "link" /\ e.blk = node /\ e.active = active'[node] /\ e.pending = pending'[node]
        /\ e.serialNum = serialNum'[node]
    BY DEF LinkEntry
  <2>2. active'[node] = PendingOf[Genesis] /\ pending'[node] = PendingOf[Genesis]
    BY <1>2, <1>7 DEF OneList
  <2>3. active[Parent[node]] = PendingOf[Genesis]
    BY <1>3 DEF FInv, OneList
  <2>4. HeadOK(node, Parent[node], PendingOf[Genesis])
    BY <1>3, <1>4, <2>3 DEF HeadOK, Steady
  <2> QED
    BY <1>2, <1>5, <2>1, <2>2, <2>4 DEF GoodEntry
<1>10. /\ mode = "run" => log' = Append(log, e) /\ e \in Entries
       /\ mode = "replay" => log' = log
  BY NodeEntry
<1> HIDE DEF e
<1>11. CASE mode = "run"
  <2>1. /\ Len(log) \in Nat /\ DOMAIN log = 1..Len(log)
        /\ DOMAIN log' = 1..(Len(log) + 1)
        /\ \A i \in DOMAIN log : log'[i] = log[i]
        /\ log'[Len(log) + 1] = e
    BY SMTT(40), <1>1, <1>10, <1>11, AppendFacts
  <2>2. \A i \in DOMAIN log' : i \in DOMAIN log \/ i = Len(log) + 1
    BY SMTT(40), <2>1
  <2>3. \A i \in DOMAIN log : i \in DOMAIN log' /\ i <= (Len(log) + 1) - 1 /\ i \in Nat
    BY SMTT(40), <2>1
  <2>4. LogGood'
    BY <1>9, <2>1, <2>2 DEF FInv, LogGood
  <2>5. \A n : HasEntry(n) => HasEntry(n)'
    BY <2>1, <2>3 DEF HasEntry, LinkedAt
  <2>6. \A i \in DOMAIN log : log[i].type = "link" /\ linkedRoot \in Anc[log[i].blk] =>
           log[i].blk \in linked
    BY <1>11 DEF FInv, RunComplete, LinksAbove
  <2>7. \A i \in DOMAIN log : ~LinkedAt(i, node)
    BY <1>3, <2>6 DEF LinkedAt
  <2>8. LogOrdered'
    <3>1. ASSUME NEW i \in DOMAIN log', log'[i].type = "link", tag \in Anc[log'[i].blk],
                 log'[i].blk # tag, Parent[log'[i].blk] # Genesis
          PROVE  \E j \in DOMAIN log' :
                    /\ j <= i - 1
                    /\ log'[j].type = "link" /\ log'[j].blk = Parent[log'[i].blk]
      <4>1. CASE i \in DOMAIN log
        <5>1. EntryUpTo(i - 1, Parent[log[i].blk]) /\ log'[i] = log[i]
          BY <2>1, <3>1, <4>1 DEF FInv, LogOrdered, LinksAbove
        <5> QED
          BY <2>1, <2>3, <5>1 DEF EntryUpTo, LinkedAt
      <4>2. CASE i = Len(log) + 1
        <5>1. log'[i].blk = node /\ Parent[node] # Genesis
          BY <1>9, <2>1, <3>1, <4>2
        <5>2. HasEntry(Parent[node])
          BY <1>3, <5>1 DEF FInv, TagLogged, RInv, LogOK
        <5> QED
          BY <2>1, <2>3, <4>2, <5>1, <5>2 DEF HasEntry, LinkedAt
      <4> QED
        BY <2>2, <4>1, <4>2
    <3>2. ASSUME NEW n \in Block, tag \in Anc[n], NEW i \in DOMAIN log', NEW j \in DOMAIN log',
                 log'[i].type = "link" /\ log'[i].blk = n, log'[j].type = "link" /\ log'[j].blk = n
          PROVE  i = j
      <4>1. CASE n = node
        BY <1>9, <2>1, <2>2, <2>7, <3>2, <4>1 DEF LinkedAt
      <4>2. CASE n # node
        <5>1. i \in DOMAIN log /\ LinkedAt(i, n) /\ j \in DOMAIN log /\ LinkedAt(j, n)
          BY <1>9, <2>1, <2>2, <3>2, <4>2 DEF LinkedAt
        <5> QED
          BY <3>2, <5>1 DEF FInv, LogOrdered
      <4> QED
        BY <4>1, <4>2
    <3> QED
      BY <1>2, <3>1, <3>2 DEF LogOrdered, LinksAbove, EntryUpTo, LinkedAt
  <2>9. TagLogged'
    BY <1>2, <2>5 DEF FInv, TagLogged
  <2>10. RunComplete'
    <3>1. Serial(linkedRoot, serialNum[linkedRoot])
      BY <1>11 DEF FInv, RunComplete
    <3>2. \A i \in DOMAIN log' : log'[i].type = "link" /\ linkedRoot \in Anc[log'[i].blk] =>
             log'[i].blk \in linked'
      BY <1>2, <1>9, <2>1, <2>2, <2>6
    <3> QED
      BY <1>1, <1>2, <1>6, <3>1, <3>2 DEF RunComplete, LinksAbove
  <2>11. ReplayComplete' /\ BeforeLogged'
    BY <1>2, <1>11 DEF ReplayComplete, BeforeLogged
  <2> QED
    BY <1>7, <1>8, <2>4, <2>8, <2>9, <2>10, <2>11 DEF FInv
<1>12. CASE mode = "replay"
  <2>1. log' = log
    BY <1>10, <1>12
  <2>2. \A m, n : EntryUpTo(m, n)' <=> EntryUpTo(m, n)
    BY <2>1 DEF EntryUpTo, LinkedAt
  <2>3. \A n : HasEntry(n)' <=> HasEntry(n)
    BY <2>1 DEF HasEntry, LinkedAt
  <2>4. LogGood' /\ LogOrdered'
    BY <1>2, <2>1, <2>2 DEF FInv, LogGood, LogOrdered, LinksAbove, LinkedAt
  <2>5. TagLogged' /\ BeforeLogged' /\ RunComplete'
    BY <1>2, <1>12, <2>3 DEF FInv, TagLogged, BeforeLogged, RunComplete
  <2>6. ReplayComplete'
    <3>1. PICK m \in Nat : Applied(m)
      BY <1>12 DEF FInv, ReplayComplete
    <3>2. Applied(m)'
      BY <1>1, <1>2, <1>6, <2>1, <2>2, <3>1 DEF Applied, LinksAbove
    <3> QED
      BY <3>2 DEF ReplayComplete
  <2> QED
    BY <1>7, <1>8, <2>4, <2>5, <2>6 DEF FInv
<1> QED
  BY <1>1, <1>11, <1>12

\* A stop: the log has it all, and nothing of it is applied yet.
LEMMA RestartKeeps ==
    ASSUME FixedLists, RInv, FInv, Crash \/ CrashInFlush
    PROVE  FInv'
<1>1. /\ linkedRoot \in linked /\ linked \subseteq Block /\ tag \in Block
      /\ log \in Seq(Entries) /\ mode \in {"run", "replay"}
  BY DEF RInv, RTypeOK, Structure, TypeOK
<1>2. linked' = {tag} /\ hash2node' = {tag} /\ linkedRoot' = tag /\ tag' = tag
  BY RestartTree
<1>3. PICK w : /\ log' = log \/ log' = Append(log, w)
               /\ w = RootWitnessEntry(linkedRoot, linkedRootWitness)
  BY DEF Crash, CrashInFlush, Restart, WithRootWitness
<1>4. /\ mode' = "replay" /\ replay' = log' /\ serialNum' = [b \in Block |-> 0]
      /\ active' = [b \in Block |-> IF b = linkedRoot' THEN PendingOf[b] ELSE <<>>]
      /\ pending' = active' /\ pc' = "idle"
      /\ before' = IF mode = "run" THEN Known ELSE before
  BY DEF Crash, CrashInFlush, Restart
<1>5. /\ w \in Entries /\ w.type = "rootWitness"
  BY <1>3 DEF RootWitnessEntry, Entries, RInv, Structure, TypeOK
<1>6. /\ \A i \in DOMAIN log : i \in DOMAIN log' /\ log'[i] = log[i]
      /\ \A i \in DOMAIN log' : \/ i \in DOMAIN log /\ log'[i] = log[i]
                                \/ log'[i].type = "rootWitness"
      /\ \A i \in DOMAIN log' : i \in Nat \ {0}
  <2>1. CASE log' = log
    BY SMTT(40), <1>1, <2>1
  <2>2. CASE log' = Append(log, w)
    <3>1. /\ Len(log) \in Nat /\ DOMAIN log = 1..Len(log)
          /\ DOMAIN log' = 1..(Len(log) + 1)
          /\ \A i \in 1..Len(log) : log'[i] = log[i]
          /\ log'[Len(log) + 1] = w
      BY SMTT(40), <1>1, <1>5, <2>2, AppendFacts
    <3>2. \A i \in DOMAIN log' : (i \in DOMAIN log \/ i = Len(log) + 1) /\ i \in Nat \ {0}
      BY SMTT(40), <3>1
    <3>3. \A i \in DOMAIN log : i \in DOMAIN log'
      BY SMTT(40), <3>1
    <3> QED
      BY <1>5, <3>1, <3>2, <3>3
  <2> QED
    BY <1>3, <2>1, <2>2
<1>7. /\ \A m, n : EntryUpTo(m, n) => EntryUpTo(m, n)'
      /\ \A n : HasEntry(n) => HasEntry(n)'
  BY <1>6 DEF EntryUpTo, HasEntry, LinkedAt
<1>8. OneList'
  BY <1>1, <1>2, <1>4 DEF OneList, FixedLists
<1>9. LogGood'
  BY <1>6 DEF FInv, LogGood, GoodEntry
<1>10. LogOrdered'
  <2>1. ASSUME NEW i \in DOMAIN log', log'[i].type = "link", tag \in Anc[log'[i].blk],
               log'[i].blk # tag, Parent[log'[i].blk] # Genesis
        PROVE  \E j \in DOMAIN log' :
                  /\ j <= i - 1
                  /\ log'[j].type = "link" /\ log'[j].blk = Parent[log'[i].blk]
    <3>1. i \in DOMAIN log /\ log'[i] = log[i]
      BY <1>6, <2>1
    <3>2. EntryUpTo(i - 1, Parent[log[i].blk])
      BY <2>1, <3>1 DEF FInv, LogOrdered, LinksAbove
    <3> QED
      BY <1>6, <3>1, <3>2 DEF EntryUpTo, LinkedAt
  <2>2. ASSUME NEW n \in Block, tag \in Anc[n], NEW i \in DOMAIN log', NEW j \in DOMAIN log',
               log'[i].type = "link" /\ log'[i].blk = n, log'[j].type = "link" /\ log'[j].blk = n
        PROVE  i = j
    <3>1. i \in DOMAIN log /\ LinkedAt(i, n) /\ j \in DOMAIN log /\ LinkedAt(j, n)
      BY <1>6, <2>2 DEF LinkedAt
    <3> QED
      BY <2>2, <3>1 DEF FInv, LogOrdered
  <2> QED
    BY <1>2, <2>1, <2>2 DEF LogOrdered, LinksAbove, EntryUpTo, LinkedAt
<1>11. TagLogged'
  BY <1>2, <1>7 DEF FInv, TagLogged
<1>12. Serials' /\ RunComplete'
  BY <1>2, <1>4 DEF Serials, RunComplete
<1>13. ReplayComplete'
  <2>1. 0 \in Nat /\ \A i \in DOMAIN log' : 0 + i = i /\ i - 0 = i /\ ~(i <= 0)
    BY SMTT(40), <1>6
  <2>2. ~EntryUpTo(0, linkedRoot)'
    BY <2>1 DEF EntryUpTo
  <2>3. linkedRoot' # Genesis \/ Serial(linkedRoot', serialNum'[linkedRoot'])
    BY <1>1, <1>2, <1>4, SerialOfGenesis
  <2>4. Applied(0)'
    BY <1>2, <1>4, <2>1, <2>2, <2>3 DEF Applied, LinksAbove
  <2> QED
    BY <2>1, <2>4 DEF ReplayComplete
<1>14. BeforeLogged'
  <2>1. CASE mode = "run"
    <3>1. before' = [b \in linked |->
                       IF b = node THEN <<>> ELSE <<active[b], pending[b], serialNum[b]>>]
      BY <1>4, <2>1 DEF Known
    <3>2. ASSUME NEW n \in linked
          PROVE  /\ n \in Block
                 /\ n = tag \/ HasEntry(n)'
                 /\ \/ before'[n] = <<>>
                    \/ \E s : /\ Serial(n, s)
                              /\ before'[n] = <<PendingOf[Genesis], PendingOf[Genesis], s>>
      <4>1. Serial(n, serialNum[n])
        BY <2>1 DEF FInv, Serials, RunComplete
      <4>2. active[n] = PendingOf[Genesis] /\ pending[n] = PendingOf[Genesis]
        BY DEF FInv, OneList
      <4>3. n = tag \/ HasEntry(n)'
        BY <1>7 DEF RInv, LogOK
      <4> QED
        BY <1>1, <3>1, <4>1, <4>2, <4>3
    <3>3. DOMAIN before' = linked
      BY <3>1
    <3> QED
      BY <1>2, <3>2, <3>3 DEF BeforeLogged
  <2>2. CASE mode = "replay"
    BY <1>2, <1>4, <1>7, <2>2 DEF FInv, BeforeLogged
  <2> QED
    BY <1>1, <2>1, <2>2
<1> QED
  BY <1>8, <1>9, <1>10, <1>11, <1>12, <1>13, <1>14 DEF FInv

\* Recover takes the next entry.
LEMMA NextEntry ==
    ASSUME RInv, NEW type, Applying(type), NEW m \in Nat, Applied(m)
    PROVE  /\ m + 1 \in Nat /\ m + 1 \in DOMAIN log /\ log[m + 1] = Entry /\ Entry.type = type
           /\ \A i \in DOMAIN replay' : /\ (m + 1) + i \in DOMAIN log
                                        /\ log[(m + 1) + i] = replay'[i]
           /\ \A i \in DOMAIN log : log[i].type = "link" /\ i > m + 1 =>
                 i - (m + 1) \in DOMAIN replay'
           /\ \A i \in DOMAIN log : i \in Nat /\ (i <= m + 1 <=> i <= m \/ i = m + 1)
<1>1. replay \in Seq(Entries) /\ log \in Seq(Entries)
      /\ replay # <<>> /\ replay' = Tail(replay) /\ Entry = Head(replay) /\ Entry.type = type
  BY DEF RInv, RTypeOK, Applying, Entry
<1>2. /\ \A i \in DOMAIN replay : m + i \in DOMAIN log /\ log[m + i] = replay[i]
      /\ \A i \in DOMAIN log : log[i].type = "link" /\ i > m => i - m \in DOMAIN replay
  BY DEF Applied
<1>3. /\ Len(replay) \in Nat \ {0} /\ DOMAIN replay = 1..Len(replay)
      /\ DOMAIN replay' = 1..(Len(replay) - 1)
      /\ \A i \in 1..(Len(replay) - 1) : replay'[i] = replay[i + 1]
      /\ Entry = replay[1]
  BY SMTT(40), <1>1
<1>4. \A i \in DOMAIN log : i \in Nat
  BY SMTT(40), <1>1
<1>5. m + 1 \in DOMAIN log /\ log[m + 1] = Entry
  BY SMTT(40), <1>2, <1>3
<1>6. ASSUME NEW i \in DOMAIN replay'
      PROVE  (m + 1) + i \in DOMAIN log /\ log[(m + 1) + i] = replay'[i]
  <2>1. i \in 1..(Len(replay) - 1) /\ replay'[i] = replay[i + 1]
    BY <1>3
  <2>2. PICK l \in Nat : l = Len(replay)
    BY <1>3
  <2>3. i \in 1..(l - 1)
    BY <2>1, <2>2
  <2>4. i + 1 \in 1..l /\ m + (i + 1) = (m + 1) + i
    BY SMTT(40), <2>3
  <2> QED
    BY <1>2, <1>3, <2>1, <2>2, <2>4
<1>7. ASSUME NEW i \in DOMAIN log, log[i].type = "link", i > m + 1
      PROVE  i - (m + 1) \in DOMAIN replay'
  <2>1. i > m
    BY SMTT(40), <1>4, <1>7
  <2>2. i - m \in DOMAIN replay
    BY <1>2, <1>7, <2>1
  <2> QED
    BY SMTT(40), <1>3, <1>4, <1>7, <2>2
<1>8. \A i \in DOMAIN log : i <= m + 1 <=> i <= m \/ i = m + 1
  BY SMTT(40), <1>4
<1>9. m + 1 \in Nat
  BY SMTT(40)
<1> QED
  BY <1>1, <1>4, <1>5, <1>6, <1>7, <1>8, <1>9

\* applyLink, for a block that has no node: its parent is linked, unless the root has
\* left the block behind.
LEMMA ApplyNewKeeps ==
    ASSUME FixedLists, RInv, FInv, ApplyLink, Entry.blk \notin hash2node
    PROVE  ReplayComplete' /\ OneList'
<1>1. PICK b \in Block : b = Entry.blk /\ b \notin hash2node /\ Next
  BY ReplayAdds DEF RInv
<1>2. /\ Structure /\ linkedRoot \in linked /\ linked \subseteq hash2node
      /\ linkedRoot \in Block /\ linked \subseteq Block
  BY DEF RInv, Structure, TypeOK
<1>3. /\ Applying("link") /\ pc = "idle" /\ mode = "replay" /\ mode' = mode
      /\ UNCHANGED <<log, tag, linked, linkedRoot, serialNum>>
      /\ hash2node' = hash2node \cup {b}
      /\ IF Parent[b] \in linked THEN pc' = "exist" /\ node' = b ELSE pc' = pc
  BY <1>1 DEF ApplyLink, Applying, EnterAdd, AddNode, walVars, nodeVars, rootVars, ctlVars
<1>4. OneList'
  BY <1>1, <1>2, OneListStep DEF FInv
<1>5. linkedRoot = tag /\ Genesis \in Anc[tag]
  BY <1>3 DEF RInv, DiskOK, FInv, TagLogged
<1>6. PICK m \in Nat : Applied(m)
  BY <1>3 DEF FInv, ReplayComplete
<1>7. /\ m + 1 \in Nat /\ m + 1 \in DOMAIN log /\ log[m + 1].blk = b /\ log[m + 1].type = "link"
      /\ \A i \in DOMAIN replay' : /\ (m + 1) + i \in DOMAIN log
                                   /\ log[(m + 1) + i] = replay'[i]
      /\ \A i \in DOMAIN log : log[i].type = "link" /\ i > m + 1 => i - (m + 1) \in DOMAIN replay'
      /\ \A i \in DOMAIN log : i \in Nat /\ (i <= m + 1 <=> i <= m \/ i = m + 1)
  BY <1>1, <1>3, <1>6, NextEntry
<1>8. b \notin linked /\ b # linkedRoot
  BY <1>1, <1>2
<1>9. ASSUME linkedRoot \in Anc[b] PROVE Parent[b] \in linked
  <2>1. Parent[b] \in Block /\ linkedRoot \in Anc[Parent[b]]
    BY <1>8, <1>9, AncUnfold
  <2>2. CASE Parent[b] = Genesis
    <3>1. linkedRoot = Genesis
      BY <1>2, <1>5, <2>1, <2>2, AncAntisymmetric
    <3> QED
      BY <1>2, <2>2, <3>1
  <2>3. CASE Parent[b] # Genesis
    <3>1. EntryUpTo((m + 1) - 1, Parent[b])
      BY <1>5, <1>7, <1>8, <1>9, <2>3 DEF FInv, LogOrdered, LinksAbove
    <3>2. PICK j \in DOMAIN log : j <= (m + 1) - 1 /\ LinkedAt(j, Parent[b])
      BY <3>1 DEF EntryUpTo
    <3>3. j <= m
      BY SMTT(40), <1>7, <3>2
    <3> QED
      BY <1>3, <1>6, <2>1, <3>2, <3>3 DEF Applied, LinksAbove, LinkedAt
  <2> QED
    BY <2>2, <2>3
<1>10. \A n : EntryUpTo(m, n) => EntryUpTo(m + 1, n)'
  BY <1>3, <1>7 DEF EntryUpTo, LinkedAt
<1>11. EntryUpTo(m + 1, b)'
  BY <1>3, <1>7 DEF EntryUpTo, LinkedAt
<1>12. EntryUpTo(m + 1, linkedRoot)' => EntryUpTo(m, linkedRoot)
  BY <1>3, <1>7, <1>8 DEF EntryUpTo, LinkedAt
<1>13. \A i \in DOMAIN log : i <= m + 1 /\ LinksAbove(i, linkedRoot) =>
          log[i].blk \in linked \/ (pc' = "exist" /\ log[i].blk = node')
  BY <1>3, <1>6, <1>7, <1>9 DEF Applied, LinksAbove
<1>14. Applied(m + 1)'
  BY <1>3, <1>6, <1>7, <1>10, <1>11, <1>12, <1>13 DEF Applied, LinksAbove
<1> QED
  BY <1>4, <1>7, <1>14 DEF ReplayComplete

\* The other entries: the root gets its lists and serial number back, or nothing changes.
LEMMA ApplyOldKeeps ==
    ASSUME RInv, FInv,
           ApplyLink \/ ApplyUpdateActive \/ ApplyUpdateLinkedRootWitness,
           ApplyLink => Entry.blk \in hash2node
    PROVE  ReplayComplete' /\ OneList' /\ Serials'
<1>1. /\ linkedRoot \in linked /\ linkedRoot \in Block /\ linked \subseteq Block
      /\ active \in [Block -> Seq(Producer)] /\ pending \in [Block -> Seq(Producer)]
      /\ serialNum \in [Block -> Nat]
  BY DEF RInv, Structure, TypeOK
<1>2. PICK type : Applying(type) /\ (type = "link" <=> ApplyLink)
                  /\ (ApplyUpdateActive => type = "active")
  BY DEF ApplyLink, ApplyUpdateActive, ApplyUpdateLinkedRootWitness, Applying
<1>3. /\ UNCHANGED <<log, tag, hash2node, linked, linkedRoot, pc, node, mode>>
      /\ pc = "idle" /\ mode = "replay"
  BY DEF ApplyLink, ApplyUpdateActive, ApplyUpdateLinkedRootWitness, Applying, walVars,
     treeVars, rootVars, ctlVars
<1>4. linkedRoot = tag
  BY <1>3 DEF RInv, DiskOK
<1>5. PICK m \in Nat : Applied(m)
  BY <1>3 DEF FInv, ReplayComplete
<1>6. /\ m + 1 \in Nat /\ m + 1 \in DOMAIN log /\ log[m + 1] = Entry /\ Entry.type = type
      /\ \A i \in DOMAIN replay' : /\ (m + 1) + i \in DOMAIN log
                                   /\ log[(m + 1) + i] = replay'[i]
      /\ \A i \in DOMAIN log : log[i].type = "link" /\ i > m + 1 => i - (m + 1) \in DOMAIN replay'
      /\ \A i \in DOMAIN log : i \in Nat /\ (i <= m + 1 <=> i <= m \/ i = m + 1)
  BY <1>2, <1>5, NextEntry
<1>7. GoodEntry(Entry) /\ ~ApplyUpdateActive
  BY <1>2, <1>6 DEF FInv, LogGood, GoodEntry
<1>8. CASE ApplyLink /\ Entry.blk = linkedRoot
  <2>1. /\ active' = [active EXCEPT ![linkedRoot] = PendingOf[Genesis]]
        /\ pending' = [pending EXCEPT ![linkedRoot] = PendingOf[Genesis]]
        /\ serialNum' = [serialNum EXCEPT ![linkedRoot] = Entry.serialNum]
        /\ Serial(linkedRoot, Entry.serialNum)
    BY <1>2, <1>6, <1>7, <1>8 DEF ApplyLink, ApplyRoot, GoodEntry
  <2>2. OneList' /\ Serials' /\ Serial(linkedRoot, serialNum'[linkedRoot])
    BY <1>1, <1>3, <2>1 DEF FInv, OneList, Serials
  <2>3. \A n : EntryUpTo(m, n) => EntryUpTo(m + 1, n)'
    BY <1>3, <1>6 DEF EntryUpTo, LinkedAt
  <2>4. \A i \in DOMAIN log : i <= m + 1 /\ LinksAbove(i, linkedRoot) => log[i].blk \in linked
    BY <1>1, <1>3, <1>5, <1>6, <1>8 DEF Applied, LinksAbove
  <2>5. Applied(m + 1)'
    BY <1>3, <1>5, <1>6, <2>2, <2>3, <2>4 DEF Applied, LinksAbove
  <2> QED
    BY <1>6, <2>2, <2>5 DEF ReplayComplete
<1>9. CASE ~(ApplyLink /\ Entry.blk = linkedRoot)
  <2>1. UNCHANGED <<active, pending, serialNum>>
    BY <1>7, <1>9 DEF ApplyLink, ApplyUpdateLinkedRootWitness, nodeVars
  <2>2. OneList' /\ Serials'
    BY <1>3, <2>1 DEF FInv, OneList, Serials
  <2>3. \A n : EntryUpTo(m, n) => EntryUpTo(m + 1, n)'
    BY <1>3, <1>6 DEF EntryUpTo, LinkedAt
  <2>4. log[m + 1].type = "link" => log[m + 1].blk \in hash2node \ {linkedRoot}
    BY <1>2, <1>6, <1>9
  <2>5. EntryUpTo(m + 1, linkedRoot)' => EntryUpTo(m, linkedRoot)
    BY <1>3, <1>6, <2>4 DEF EntryUpTo, LinkedAt
  <2>6. ASSUME LinksAbove(m + 1, linkedRoot) PROVE log[m + 1].blk \in linked
    <3>1. EntryUpTo(m, log[m + 1].blk)
      BY <1>4, <1>5, <2>4, <2>6 DEF Applied, LinksAbove
    <3> QED
      BY <1>3, <1>5, <2>6, <3>1 DEF Applied, EntryUpTo, LinkedAt, LinksAbove
  <2>7. \A i \in DOMAIN log : i <= m + 1 /\ LinksAbove(i, linkedRoot) => log[i].blk \in linked
    BY <1>3, <1>5, <1>6, <2>6 DEF Applied
  <2>8. Applied(m + 1)'
    BY <1>3, <1>5, <1>6, <2>1, <2>3, <2>5, <2>7 DEF Applied, LinksAbove
  <2> QED
    BY <1>6, <2>2, <2>8 DEF ReplayComplete
<1> QED
  BY <1>8, <1>9

\* The end of the replay: all is applied.
LEMMA RecoveredKeeps ==
    ASSUME RInv, FInv, Recovered
    PROVE  /\ Serial(linkedRoot, serialNum[linkedRoot])
           /\ \A i \in DOMAIN log : LinksAbove(i, linkedRoot) => log[i].blk \in linked
<1>1. mode = "replay" /\ pc = "idle" /\ replay = <<>> /\ linkedRoot = tag
  BY DEF Recovered, RInv, DiskOK
<1>2. PICK m \in Nat : Applied(m)
  BY <1>1 DEF FInv, ReplayComplete
<1>3. \A i \in DOMAIN log : log[i].type = "link" => i <= m
  <2>1. DOMAIN replay = {} /\ \A i \in DOMAIN log : i \in Nat
    BY SMTT(40), <1>1 DEF RInv, RTypeOK
  <2>2. \A i \in DOMAIN log : log[i].type = "link" => ~(i > m)
    BY <1>2, <2>1 DEF Applied
  <2> QED
    BY SMTT(40), <2>1, <2>2
<1>4. tag = Genesis \/ EntryUpTo(m, tag)
  BY <1>3 DEF FInv, TagLogged, HasEntry, EntryUpTo, LinkedAt
<1> QED
  BY <1>1, <1>2, <1>3, <1>4 DEF Applied, LinksAbove

\* Recover's loop.
LEMMA ReplayKeeps ==
    ASSUME FixedLists, RInv, FInv, ReplayStep
    PROVE  FInv'
<1>1. UNCHANGED <<log, tag, linked, linkedRoot, before>> /\ mode = "replay"
  BY DEF ReplayStep, ApplyLink, ApplyUpdateActive, ApplyUpdateLinkedRootWitness, Recovered,
     Applying, EnterAdd, AddNode, walVars, vars, treeVars, rootVars
<1>2. LogGood' /\ LogOrdered' /\ TagLogged' /\ BeforeLogged'
  <2>1. \A m, n : EntryUpTo(m, n)' <=> EntryUpTo(m, n)
    BY <1>1 DEF EntryUpTo, LinkedAt
  <2>2. \A n : HasEntry(n)' <=> HasEntry(n)
    BY <1>1 DEF HasEntry, LinkedAt
  <2>3. LogGood' /\ LogOrdered'
    BY <1>1, <2>1 DEF FInv, LogGood, LogOrdered, LinksAbove, LinkedAt
  <2>4. TagLogged' /\ BeforeLogged'
    BY <1>1, <2>2 DEF FInv, TagLogged, BeforeLogged
  <2> QED
    BY <2>3, <2>4
<1>3. CASE Recovered
  <2>1. mode' = "run" /\ UNCHANGED <<serialNum, active, pending>>
    BY <1>3 DEF Recovered, vars, nodeVars
  <2>2. OneList' /\ Serials' /\ ReplayComplete'
    BY <1>1, <2>1 DEF FInv, OneList, Serials, ReplayComplete
  <2>3. RunComplete'
    BY <1>1, <1>3, <2>1, RecoveredKeeps DEF RunComplete, LinksAbove
  <2> QED
    BY <1>2, <2>2, <2>3 DEF FInv
<1>4. CASE ApplyLink /\ Entry.blk \notin hash2node
  <2>1. serialNum' = serialNum /\ mode' = mode
    BY <1>4 DEF ApplyLink, EnterAdd, nodeVars
  <2>2. Serials' /\ RunComplete'
    BY <1>1, <2>1 DEF FInv, Serials, RunComplete
  <2> QED
    BY <1>2, <1>4, <2>2, ApplyNewKeeps DEF FInv
<1>5. CASE /\ ApplyLink \/ ApplyUpdateActive \/ ApplyUpdateLinkedRootWitness
           /\ ApplyLink => Entry.blk \in hash2node
  <2>1. RunComplete'
    BY <1>1, <1>5 DEF ApplyLink, ApplyUpdateActive, ApplyUpdateLinkedRootWitness, RunComplete
  <2> QED
    BY <1>2, <1>5, <2>1, ApplyOldKeeps DEF FInv
<1> QED
  BY <1>3, <1>4, <1>5 DEF ReplayStep

LEMMA FInvInit == FixedLists /\ RInit => FInv
<1> SUFFICES ASSUME FixedLists, RInit PROVE FInv
  OBVIOUS
<1>1. /\ linked = {Genesis} /\ linkedRoot = Genesis /\ tag = Genesis /\ log = <<>>
      /\ mode = "run" /\ serialNum[Genesis] = 0 /\ Genesis \in Block
      /\ active[Genesis] = PendingOf[Genesis] /\ pending[Genesis] = PendingOf[Genesis]
  BY HeaderAssumption DEF RInit, Init
<1>2. DOMAIN log = {}
  BY SMTT(40), <1>1
<1>3. OneList /\ LogGood /\ LogOrdered /\ ReplayComplete /\ BeforeLogged
  BY <1>1, <1>2 DEF OneList, LogGood, LogOrdered, ReplayComplete, BeforeLogged
<1>4. TagLogged /\ Serials /\ RunComplete
  BY <1>1, <1>2, AncUnfold, SerialOfGenesis DEF TagLogged, Serials, RunComplete
<1> QED
  BY <1>3, <1>4 DEF FInv

LEMMA FInvNext == Steady /\ RInv /\ FInv /\ [RNext]_rvars => FInv'
<1> SUFFICES ASSUME Steady, RInv, FInv, [RNext]_rvars PROVE FInv'
  OBVIOUS
<1>1. FixedLists
  BY DEF Steady
<1>2. CASE LogLinkBlock
  BY <1>2, LinkKeeps
<1>3. CASE LogFlush
  BY <1>1, <1>3, FlushKeeps
<1>4. CASE PlainStep /\ AdvanceRoot
  BY <1>1, <1>4, MoveKeeps DEF PlainStep
<1>5. CASE (LogUpdateActive \/ PlainStep \/ \E b \in Block : Receive(b)) /\ ~AdvanceRoot
  BY <1>1, <1>5, OtherStepsKeep
<1>6. CASE (LogUpdateActive \/ \E b \in Block : Receive(b)) /\ AdvanceRoot
  BY <1>6 DEF LogUpdateActive, Receive, UpdateLibShort, UpdateLibExit, AdvanceRoot, AddBlock,
     AddDuplicate, GenerateBlock
<1>7. CASE ReplayStep
  BY <1>1, <1>7, ReplayKeeps
<1>8. CASE Crash \/ CrashInFlush
  BY <1>1, <1>8, RestartKeeps
<1>9. CASE UNCHANGED rvars
  <2>1. /\ UNCHANGED <<log, tag, linked, linkedRoot, mode, replay, before, serialNum>>
        /\ UNCHANGED <<hash2node, active, pending, pc, node>>
    BY <1>9 DEF rvars, vars, treeVars, nodeVars, rootVars, ctlVars, walVars, recVars
  <2>2. OneList' /\ LogGood' /\ Serials' /\ RunComplete'
    BY <2>1 DEF FInv, OneList, LogGood, Serials, RunComplete, LinksAbove
  <2>3. \A m, n : EntryUpTo(m, n)' <=> EntryUpTo(m, n)
    BY <2>1 DEF EntryUpTo, LinkedAt
  <2>4. LogOrdered' /\ TagLogged' /\ BeforeLogged'
    BY <2>1, <2>3 DEF FInv, LogOrdered, TagLogged, BeforeLogged, LinksAbove, LinkedAt, HasEntry
  <2>5. ReplayComplete'
    BY <2>1, <2>3 DEF FInv, ReplayComplete, Applied, LinksAbove
  <2> QED
    BY <2>2, <2>4, <2>5 DEF FInv
<1> QED
  BY <1>2, <1>3, <1>4, <1>5, <1>6, <1>7, <1>8, <1>9 DEF RNext, LogStep

\* While elections change no list, and however often the process stops: what it has
\* linked above the state DB's block is in the log, as any other process would write
\* it, parents first and once.
THEOREM FixedListsInvariant ==
    ASSUME Steady PROVE RSpec => [](RInv /\ FInv)
<1>1. FixedLists
  BY DEF Steady
<1>2. RInit => FInv
  BY <1>1, FInvInit
<1>3. RInv /\ FInv /\ [RNext]_rvars => FInv'
  BY FInvNext
<1> QED
  BY <1>2, <1>3, RecoveryInvariant, PTL DEF RSpec

\* While elections change no list, the log gives the replay every linked block above
\* the state DB's block, and its parent before it (AddNodeToWAL writes after Link;
\* RemoveFilesBefore takes neither).
THEOREM LogCompleteTheorem ==
    ASSUME Steady PROVE RSpec => []LogComplete
<1>1. ASSUME RInv, FInv PROVE LogComplete
  <2>1. Logged
    BY <1>1 DEF RInv, LogOK, HasEntry, Logged
  <2>2. ASSUME NEW n \in linked, tag \in Anc[n] \ {n}
        PROVE  \E i \in DOMAIN log :
                  /\ LinkedAt(i, n)
                  /\ Parent[n] # tag => \E j \in 1..(i - 1) : LinkedAt(j, Parent[n])
    <3>1. PICK i \in DOMAIN log : LinkedAt(i, n)
      BY <2>1, <2>2 DEF Logged
    <3>2. Parent[n] = Genesis \/ EntryUpTo(i - 1, Parent[n])
      BY <1>1, <2>2, <3>1 DEF FInv, LogOrdered, LinksAbove, LinkedAt
    <3>3. CASE Parent[n] = Genesis
      <4>1. n \in Block /\ Genesis \in Block /\ tag \in Block
        BY <1>1, HeaderAssumption DEF RInv, Structure, TypeOK, RTypeOK
      <4>2. tag \in Anc[Genesis] /\ Genesis \in Anc[tag]
        BY <1>1, <2>2, <3>3, <4>1, AncUnfold DEF FInv, TagLogged
      <4> QED
        BY <3>1, <3>3, <4>1, <4>2, AncAntisymmetric
    <3>4. CASE EntryUpTo(i - 1, Parent[n])
      <4>1. PICK j \in DOMAIN log : j <= i - 1 /\ LinkedAt(j, Parent[n])
        BY <3>4 DEF EntryUpTo
      <4>2. j \in 1..(i - 1)
        BY SMTT(40), <1>1, <4>1 DEF RInv, RTypeOK
      <4> QED
        BY <3>1, <4>1, <4>2
    <3> QED
      BY <3>2, <3>3, <3>4
  <2> QED
    BY <2>1, <2>2 DEF LogComplete
<1> QED
  BY <1>1, FixedListsInvariant, PTL

\* What the end of Recover finds.
LEMMA AllBack ==
    ASSUME RInv, FInv, mode = "replay", mode' = "run", [RNext]_rvars
    PROVE  /\ Recovered /\ linkedRoot = tag
           /\ Serial(linkedRoot, serialNum[linkedRoot])
           /\ \A n : HasEntry(n) /\ linkedRoot \in Anc[n] => n \in linked
<1>1. Recovered
  BY DEF RNext, Receive, LogStep, LogLinkBlock, LogUpdateActive, LogFlush, PlainStep, ReplayStep,
     ApplyLink, ApplyUpdateActive, ApplyUpdateLinkedRootWitness, Crash, CrashInFlush, Restart,
     rvars, recVars
<1> QED
  BY <1>1, RecoveredKeeps DEF Recovered, RInv, DiskOK, HasEntry, LinkedAt, LinksAbove

\* While elections change no list, a restart loses no block: Recover ends with every
\* block linked again that was linked when the process stopped and that descends from
\* the root.
THEOREM NothingLostTheorem ==
    ASSUME Steady PROVE RSpec => NothingLost
<1>1. ASSUME RInv, FInv, mode = "replay", mode' = "run", [RNext]_rvars,
             NEW n \in DOMAIN before, linkedRoot \in Anc[n]
      PROVE  n \in linked
  <2>1. linkedRoot = tag /\ linkedRoot \in linked
    <3>1. linkedRoot = tag
      BY <1>1, AllBack
    <3> QED
      BY <1>1, <3>1 DEF RInv, Structure, TypeOK
  <2>2. n = tag \/ HasEntry(n)
    BY <1>1, <2>1 DEF FInv, BeforeLogged
  <2> QED
    BY <1>1, <2>1, <2>2, AllBack
<1>2. RInv /\ FInv /\ [RNext]_rvars =>
        [mode = "replay" /\ mode' = "run" =>
            {n \in DOMAIN before : linkedRoot \in Anc[n]} \subseteq linked]_rvars
  BY <1>1
<1> QED
  BY <1>2, FixedListsInvariant, PTL DEF RSpec, NothingLost

\* And Recover gives each of them back the lists and the serial number it had.
THEOREM ListsRestoredTheorem ==
    ASSUME Steady PROVE RSpec => ListsRestored
<1>1. ASSUME RInv, FInv, mode = "replay", mode' = "run", [RNext]_rvars,
             NEW n \in DOMAIN before \cap linked
      PROVE  before[n] \in {<<>>, <<active[n], pending[n], serialNum[n]>>}
  <2>1. n \in Block /\ active[n] = PendingOf[Genesis] /\ pending[n] = PendingOf[Genesis]
    BY <1>1 DEF FInv, OneList, RInv, Structure, TypeOK
  <2>2. Serial(n, serialNum[n])
    BY <1>1, AllBack DEF FInv, Serials
  <2>3. \/ before[n] = <<>>
        \/ \E s : /\ Serial(n, s)
                  /\ before[n] = <<PendingOf[Genesis], PendingOf[Genesis], s>>
    BY <1>1 DEF FInv, BeforeLogged
  <2>4. ASSUME NEW s, Serial(n, s),
               before[n] = <<PendingOf[Genesis], PendingOf[Genesis], s>>
        PROVE  before[n] = <<active[n], pending[n], serialNum[n]>>
    <3>1. s = serialNum[n]
      BY <2>1, <2>2, <2>4, SerialUnique
    <3> QED
      BY <2>1, <2>4, <3>1
  <2> QED
    BY <2>3, <2>4
<1>2. RInv /\ FInv /\ [RNext]_rvars =>
        [mode = "replay" /\ mode' = "run" =>
            \A n \in DOMAIN before \cap linked :
                before[n] \in {<<>>, <<active[n], pending[n], serialNum[n]>>}]_rvars
  BY <1>1
<1> QED
  BY <1>2, FixedListsInvariant, PTL DEF RSpec, ListsRestored
=============================================================================
