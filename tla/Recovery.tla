------------------------------ MODULE Recovery ------------------------------
(***************************************************************************)
(* The block cache with its write-ahead log (WAL) and a process that may   *)
(* stop at any moment: what addExistingBlock, updateActive and flush leave *)
(* on disk, and how chainbase.New builds the cache again from it.          *)
(*                                                                         *)
(* Three stores outlive the process: the block chain DB (`stored`), the    *)
(* state DB (`tag` is the block whose state it holds) and the log.  Each   *)
(* write to a store is atomic (a LevelDB batch; a log record, see Wal),    *)
(* and flush makes three of them one after the other.  The log is the      *)
(* abstract one here: its entries in order.  Wal shows that the segment    *)
(* files hold such a log.                                                  *)
(*                                                                         *)
(* Bodies of blocks are valid: verification is the check of the head.      *)
(***************************************************************************)
EXTENDS BlockCache

\* Push files a block under its number, the genesis block under 0.
ASSUME GenesisAssumption == Number[Genesis] = 0

\* NewBlockCache takes witnessNum from the list of the root it starts on.  The vote
\* contract elects as many producers each time, so a restart does not change it.
ASSUME LengthAssumption == \A b \in Block : Len(PendingOf[b]) = WitnessNum

VARIABLES
    stored,     \* block chain DB: the hash stored under each number; `chain` is
                \* the part below the length that SetLength and Push set
    tag,        \* state DB: the value of "/tag"
    log,        \* the entries of the WAL, oldest first
    walIndex,   \* walIndex of every node: the place of its entry, 0 if the
                \* process has not written one
    mode,       \* "replay" in BlockCacheImpl.Recover, "run" after it
    replay,     \* the entries Recover has read and not yet applied
    before      \* what the process forgets when it stops: the lists and the
                \* serial number of every linked block (none for the block
                \* whose Add was running)

walVars == <<stored, tag, log, walIndex>>
recVars == <<mode, replay, before>>
rvars == <<vars, walVars, recVars>>

Place(c, b) == CHOOSE i \in DOMAIN c : c[i] = b

-----------------------------------------------------------------------------
(* The entries of the log. *)

\* encodeBCN, encodeUpdateActive, encodeUpdateLinkedRootWitness
LinkEntry(b, act, pend, ser) ==
    [type |-> "link", blk |-> b, active |-> act, pending |-> pend, serialNum |-> ser]
ActiveEntry(b, act) == [type |-> "active", blk |-> b, active |-> act]
RootWitnessEntry(b, wits) == [type |-> "rootWitness", blk |-> b, witness |-> wits]

RInit ==
    /\ Init
    /\ stored = chain
    /\ tag = Genesis
    /\ log = <<>>
    /\ walIndex = [b \in Block |-> 0]
    /\ mode = "run"
    /\ replay = <<>>
    /\ before = <<>>

-----------------------------------------------------------------------------
(* The steps of the running process that write to the log or to the stores. *)

\* MUTANT: a block that does not become the head is not logged.
AddNodeToWAL_HeadOnly ==
    IF mode = "run" /\ head' = node
      THEN /\ log' = Append(log, LinkEntry(node, active'[node], pending'[node], serialNum'[node]))
           /\ walIndex' = [walIndex EXCEPT ![node] = Len(log) + 1]
      ELSE UNCHANGED <<log, walIndex>>

\* MUTANT: nothing is logged.
AddNodeToWAL_None == UNCHANGED <<log, walIndex>>

\* AddNodeToWAL: after Link and before UpdateLib, unless this is a replay.
AddNodeToWAL ==
    IF mode = "run"
      THEN /\ log' = Append(log, LinkEntry(node, active'[node], pending'[node], serialNum'[node]))
           /\ walIndex' = [walIndex EXCEPT ![node] = Len(log) + 1]
      ELSE UNCHANGED <<log, walIndex>>

LogLinkBlock ==
    /\ LinkBlock
    /\ AddNodeToWAL
    /\ UNCHANGED <<stored, tag, recVars>>

\* updateActive ends in writeUpdateActiveWAL.
LogUpdateActive ==
    /\ UpdateLibShort \/ UpdateLibExit
    /\ log' = IF active'[node] # active[node]
                THEN Append(log, ActiveEntry(node, active'[node]))
                ELSE log
    /\ UNCHANGED <<stored, tag, walIndex, recVars>>

\* BlockChain.Push: the hash is stored under the block's number.
Push(db, b) ==
    [i \in 1..(IF Len(db) > Number[b] THEN Len(db) ELSE Number[b] + 1) |->
        IF i = Number[b] + 1 THEN b ELSE db[i]]

\* MUTANT: the files up to the head's entry are removed.
RemoveFilesBefore_Head(entries, n) ==
    \E k \in 0..(IF walIndex[head] = 0 THEN 0 ELSE walIndex[head] - 1) :
        /\ log' = SubSeq(entries, k + 1, Len(entries))
        /\ walIndex' = [b \in Block |-> IF walIndex[b] > k THEN walIndex[b] - k ELSE 0]

\* RemoveFilesBefore(walIndex of n): whole files go, so some entries before that
\* of n go, and none from it on.
RemoveFilesBefore(entries, n) ==
    \E k \in 0..(IF walIndex[n] = 0 THEN 0 ELSE walIndex[n] - 1) :
        /\ log' = SubSeq(entries, k + 1, Len(entries))
        /\ walIndex' = [b \in Block |-> IF walIndex[b] > k THEN walIndex[b] - k ELSE 0]

\* writeUpdateLinkedRootWitnessWAL
WithRootWitness == Append(log, RootWitnessEntry(linkedRoot, linkedRootWitness))

\* MUTANT: flush saves the block that is being added.
LogFlush_Node ==
    /\ Flush
    /\ stored' = Append(stored, node)
    /\ tag' = node
    /\ RemoveFilesBefore(WithRootWitness, linkedRoot)
    /\ UNCHANGED recVars

\* flush: Push, writeUpdateLinkedRootWitnessWAL, stateDB.Flush, RemoveFilesBefore.
LogFlush ==
    /\ Flush
    /\ stored' = Push(stored, linkedRoot)
    /\ tag' = linkedRoot
    /\ RemoveFilesBefore(WithRootWitness, linkedRoot)
    /\ UNCHANGED recVars

\* The steps that write nothing.
PlainStep ==
    /\ \/ RejectOutOfLimit
       \/ RejectInvalid /\ ~HeadOK(node, Parent[node], active[Parent[node]])
       \/ UpdateLibEnter
       \/ AdvanceRoot
       \/ \E c \in Block : NextChild(c)
       \/ EndChildren
    /\ UNCHANGED <<walVars, recVars>>

LogStep == LogLinkBlock \/ LogUpdateActive \/ LogFlush \/ PlainStep

\* A block from the network or of our own: PoB is started when Recover has returned.
Receive(b) ==
    /\ mode = "run"
    /\ AddBlock(b) \/ AddDuplicate(b) \/ GenerateBlock(b)
    /\ UNCHANGED <<walVars, recVars>>

-----------------------------------------------------------------------------
(* The process stops, and is started again. *)

Known == [b \in linked |->
            IF b = node THEN <<>> ELSE <<active[b], pending[b], serialNum[b]>>]

\* MUTANT: recoverDB is left out and the root is the last block pushed.
RecoverDB_Top(db, t) == db

\* recoverDB cuts the chain at the block of the state DB's tag.
RecoverDB(db, t) == SubSeq(db, 1, Place(db, t))

\* chainbase.New up to the loop of Recover, on the stores `db`, `t` and the log
\* `entries`: after recoverDB, NewBlockCache makes the last block of the chain the
\* root, with the list of its state.
Restart(db, t, entries) ==
    /\ stored' = db
    /\ tag' = t
    /\ log' = entries
    /\ chain' = RecoverDB(db, t)
    /\ commits' = <<t>>
    /\ linkedRoot' = chain'[Len(chain')]
    /\ hash2node' = {linkedRoot'}
    /\ linked' = {linkedRoot'}
    /\ leaf' = {linkedRoot'}
    /\ singleRoot' = {}
    /\ validWitness' = [b \in Block |-> {}]
    /\ active' = [b \in Block |-> IF b = linkedRoot' THEN PendingOf[b] ELSE <<>>]
    /\ pending' = active'
    /\ serialNum' = [b \in Block |-> 0]
    /\ linkedRootWitness' = {}
    /\ head' = linkedRoot'
    /\ pc' = "idle"
    /\ node' = NoBlock
    /\ stack' = <<>>
    /\ walIndex' = [b \in Block |-> 0]
    /\ mode' = "replay"
    /\ replay' = entries
    /\ before' = IF mode = "run" THEN Known ELSE before

Crash == Restart(stored, tag, log)

\* Between Push and the log entry, or between that and stateDB.Flush.
CrashInFlush ==
    /\ pc = "flush"
    /\ \/ Restart(Push(stored, linkedRoot), tag, log)
       \/ Restart(Push(stored, linkedRoot), tag, WithRootWitness)

-----------------------------------------------------------------------------
(* One iteration of Recover's loop. *)

Entry == Head(replay)

Applying(type) ==
    /\ mode = "replay"
    /\ pc = "idle"
    /\ replay # <<>>
    /\ Entry.type = type
    /\ replay' = Tail(replay)

\* MUTANT: the root does not get its own witness list back.
ApplyRoot_None == UNCHANGED nodeVars

\* The root's own entry gives it back its witness list and serial number.
ApplyRoot ==
    /\ active' = [active EXCEPT ![linkedRoot] = Entry.active]
    /\ pending' = [pending EXCEPT ![linkedRoot] = Entry.pending]
    /\ serialNum' = [serialNum EXCEPT ![linkedRoot] = Entry.serialNum]
    /\ UNCHANGED validWitness

\* applyLink: the block is added as a block from the network is.
ApplyLink ==
    /\ Applying("link")
    /\ IF Entry.blk \in hash2node
         THEN /\ IF Entry.blk = linkedRoot THEN ApplyRoot ELSE UNCHANGED nodeVars
              /\ UNCHANGED <<treeVars, rootVars, dbVars, ctlVars>>
         ELSE EnterAdd(Entry.blk) /\ UNCHANGED commits
    /\ UNCHANGED <<walVars, mode, before>>

\* applyUpdateActive
ApplyUpdateActive ==
    /\ Applying("active")
    /\ active' = IF Entry.blk \in hash2node
                   THEN [active EXCEPT ![Entry.blk] = Entry.active]
                   ELSE active
    /\ UNCHANGED <<treeVars, validWitness, pending, serialNum, rootVars, dbVars, ctlVars>>
    /\ UNCHANGED <<walVars, mode, before>>

\* applyUpdateLinkedRootWitness
ApplyUpdateLinkedRootWitness ==
    /\ Applying("rootWitness")
    /\ linkedRootWitness' = IF Entry.blk = linkedRoot THEN Entry.witness ELSE linkedRootWitness
    /\ UNCHANGED <<treeVars, nodeVars, linkedRoot, head, dbVars, ctlVars>>
    /\ UNCHANGED <<walVars, mode, before>>

Recovered ==
    /\ mode = "replay"
    /\ pc = "idle"
    /\ replay = <<>>
    /\ mode' = "run"
    /\ UNCHANGED <<vars, walVars, replay, before>>

ReplayStep == ApplyLink \/ ApplyUpdateActive \/ ApplyUpdateLinkedRootWitness \/ Recovered

RNext ==
    \/ \E b \in Block : Receive(b)
    \/ LogStep
    \/ ReplayStep
    \/ Crash
    \/ CrashInFlush

RSpec == RInit /\ [][RNext]_rvars

-----------------------------------------------------------------------------
(* Properties. *)

LinkedAt(i, b) == log[i].type = "link" /\ log[i].blk = b

\* The log holds what a restart needs: between flushes, every linked block above
\* the block of the state DB has its entry (AddNodeToWAL; RemoveFilesBefore takes
\* none of these away).
Logged ==
    \A n \in linked : tag \in Anc[n] \ {n} => \E i \in DOMAIN log : LinkedAt(i, n)

\* And it has it after that of its parent.
LogComplete ==
    /\ Logged
    /\ \A n \in linked :
          tag \in Anc[n] \ {n} =>
              \E i \in DOMAIN log :
                  /\ LinkedAt(i, n)
                  /\ Parent[n] # tag => \E j \in 1..(i - 1) : LinkedAt(j, Parent[n])

\* A block once stored as irreversible is never replaced by another: what a crash
\* inside flush has pushed, the replay pushes again.
NeverRewritten ==
    [][\A i \in DOMAIN stored : i \in DOMAIN stored' /\ stored'[i] = stored[i]]_rvars

\* No block is lost: when the replay ends, every block that was linked when the
\* process stopped and is not cut off by the root is linked again.
NothingLost ==
    [][mode = "replay" /\ mode' = "run" =>
         {n \in DOMAIN before : linkedRoot \in Anc[n]} \subseteq linked]_rvars

\* And each has the witness lists and the serial number it had, which decide what
\* may be built on it.  (Not the block whose Add was running: the replay does not
\* repeat the end of UpdateLib once flush has saved the root.)
ListsRestored ==
    [][mode = "replay" /\ mode' = "run" =>
         \A n \in DOMAIN before \cap linked :
            before[n] \in {<<>>, <<active[n], pending[n], serialNum[n]>>}]_rvars

\* The chain up to the state DB's tag is an irreversible chain, however often the
\* process stops.
Durable == INSTANCE IrreversibleChain WITH chain <- SubSeq(stored, 1, Place(stored, tag))
DurableIrreversible == Durable!Spec
=============================================================================
