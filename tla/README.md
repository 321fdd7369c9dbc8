# go-iost in TLA+

A TLA+ model of the consensus core of go-iost (`src/`), checked with TLC on
small instances; its safety properties are proved with TLAPS for all instances,
but for the write-ahead log's and two others, and some of them only while elections
change no list (see *Model-checked only*). It covers the block cache under `ChainBase.Add`, its
recovery after a stop, the write-ahead log, the state database, the transaction
pool, block synchronisation, and the execution of a transaction with its two
threads in C++ and its replay by the nodes that verify the block.

## Inventory

| part | code | state | operations | what makes it hard |
|---|---|---|---|---|
| block cache | `core/blockcache` | node graph, leaf map, virtual nodes, root, head, witness lists, confirmations | Add, Link, UpdateLib, Del, flush, Recover, GetBlockByNumber/Hash | any order of arrival, recursion over maps that change, lists that change with the LIB, readers in other goroutines |
| chain base | `chainbase` | the above plus both databases and the pool | New (recovery), Add | failure of one block in a recursion, crash between two stores |
| PoB | `consensus/pob`, `common/witness.go` | a mutex, the clock | doVerifyBlock, doGenerateBlock | slot boundaries, own blocks skip verification |
| state database | `db/mvccdb.go`, `db/mvcc` | commits in a list, a stage per fork | Checkout, Commit, Flush, Fork, Get/Put | states freed by order of commit, several forks |
| block chain store | `core/block` | blocks by number and hash, length | Push, SetLength, CheckLength | cut back at recovery |
| write-ahead log | `db/wal` | segments, last index | SaveSingle, cut, RemoveFilesBefore, ReadAll | torn tail, removal of segments, replay |
| transaction pool | `core/txpool`, `consensus/txmanager` | pending transactions, recent blocks, fork chain | AddTx, deletion by Gen, AddLinkedNode, ExistTxs, expiry | switch of heads, heads that were pruned, expiry against duplicates |
| synchronisation | `consensus/synchro` | request/response caches, neighbour heights, range | controllers and handlers | lost and late answers, filters that expire |
| p2p | `p2p` | neighbour table, limits, routing table | HandleStream, Add/RemoveNeighbor, read/write loops | check-then-act on limits, old loops against new connections |
| execution | `verifier`, `vm`, `config/genesis/contract` | world state | Gen, Verify, contract calls | time limits, rollback, deferred transactions |

What each should guarantee: one tree of verified blocks and an append-only
irreversible chain (block cache); the same after a crash (chain base, log,
stores); one active list per chain, so that nodes agree on the schedule (block
cache, PoB); the state of every block that may be built on is there (state
database); a transaction is pending iff it is not on the head's chain (pool);
a missing block is asked for until it comes (synchronisation); a transaction has
one outcome on all nodes (execution).

`PROJECT.json` lists the parts with their files and status, and the hazards, each
at its line, with the properties that cover it.

## Modules

| module | models |
|---|---|
| `Headers` | block heads and the witness schedule: constants, `WitnessOfNanoSec`, the preference between heads, the head checks |
| `BlockCache` | `core/blockcache` under `ChainBase.Add`, with the commit list of the state database and the pushed chain |
| `IrreversibleChain` | what a node promises about irreversible blocks: an append-only chain |
| `MCBlockCache`, `MCVotes` | instances for TLC |
| `HeadersProofs` | ancestry: transitive, antisymmetric, linear |
| `CacheProofs` | the inductive invariant `Structure`; tree, leaf map, head, confirmations, states, virtual nodes, refinement of `IrreversibleChain` |
| `Recovery` | `BlockCache` composed with the log and the two databases, and a process that stops: `chainbase.New`, `recoverDB`, `Recover` |
| `RecoveryProofs` | its inductive invariant; what the log has and what the replay gives back |
| `LibProofs` | the last irreversible block: when the root moves, and what stops do to it and to the stored chain |
| `Wal` | `db/wal`: tail and segment files, checksums, cut, removal, `ReadAll`, stops and power failures |
| `EntryLog` | what a log promises; `Wal` implements it, `Recovery` relies on it |
| `MvccDB` | `db/mvccdb.go`: layers, handles, commits, `Flush`, restart |
| `VersionedStore` | what the state database promises: immutable versions and private views |
| `MvccProofs` | its inductive invariant; that it implements `VersionedStore` |
| `TxPool` | `core/txpool` beside a block cache |
| `TxPoolProofs` | its inductive invariant; duplicates, pending and dropped transactions |
| `Synchro` | `consensus/synchro` of one node, with the answers of its neighbours |
| `SynchroProofs` | the range and the head |
| `Sandbox` | `vm/v8vm/v8/sandbox.cc` and its host functions: script threads and pollers |
| `Isolator` | `vm/isolator.go` over `Sandbox`, on the producer and on a verifier |
| `IsolatorProofs` | its inductive invariant; sandboxes, gas, rollback |
| `MCRecovery`, `MCWal`, `MCMvccDB`, `MCTxPool`, `MCSynchro`, `MCIsolator` | instances for TLC |

### How BlockCache corresponds to the code

A node is named by its block (its head hash). Parent pointers and `Children` are
derived from parent hashes: `Add` and `del` keep them so, and the root's nil
parent is the one exception. `hash2node`, `leaf`, `singleRoot`, `linkedRoot`,
`linkedRootWitness` and `head` are the fields of `BlockCacheImpl`; `linked`
(`Type`), `validWitness`, `active`, `pending` and `serialNum` those of the nodes.
`ValidWitness` and `linkedRootWitness` never hold a name twice and are sets.
`commits` is `CommitManager.commits`, `chain` what `BlockChain.Push` was given.

`PoB.mu` lets one `ChainBase.Add` run at a time; `pc`, `node` and `stack` say where
it is. The actions of a call:

| action | code |
|---|---|
| `AddBlock`, `AddDuplicate` | `doVerifyBlock`, `ChainBase.Add`, `BlockCacheImpl.Add` |
| `GenerateBlock` | `doGenerateBlock` and `generateBlock`, then `ChainBase.Add` |
| `RejectOutOfLimit`, `RejectInvalid`, `LinkBlock` | `addExistingBlock` up to `Link` |
| `UpdateLibShort`, `UpdateLibEnter`, `UpdateLibExit` | `UpdateLib` with `checkUpdateActive`, `updateActive` |
| `AdvanceRoot` | one `updateLinkedRoot`: `del`, `removeValidWitness`, `delSingle`, Update Longest |
| `Flush` | `flush` |
| `NextChild`, `EndChildren` | the loop over `node.Children`, in any order |

Abstractions. Blocks have no bodies: whether a block passes verification beyond its
head is an arbitrary choice at each attempt, except that a block whose state is
already committed is not verified. `VerifySelf` (signature, sizes) comes before
anything changes; blocks that fail it do not occur. The list the vote contract has
elected after a block is the constant `PendingOf`. Fields of deleted nodes are reset;
the pruned head's active list is therefore unknown, and `GenerateBlock` allows any
witness on it. `generateBlock`'s two readings of the clock are one. `flush` is one
step here; `Recovery` has the stops inside it. SPV mode is left out.

### Recovery

Extends `BlockCache`: every step of it that writes to the log or to a database is
conjoined with what it writes (`LogLinkBlock`, `LogUpdateActive`, `LogFlush`), the
others are `PlainStep`. `stored`, `tag` and `log` outlive the process. `Crash` may
come between any two steps, in the replay too, and `CrashInFlush` at the two places
inside `flush` that differ on disk. `Restart` is `chainbase.New` up to the loop of
`Recover`; the loop is `ApplyLink` (which enters `addExistingBlock` as a received
block does), `ApplyUpdateActive`, `ApplyUpdateLinkedRootWitness` and `Recovered`.
Which whole segment files `RemoveFilesBefore` removes is left open here: any number
of entries before the given one. Blocks have valid bodies. `NewBlockCache` reads
`witnessNum` again from the list of the root it starts on; it is the constant
`WitnessNum` here, and elected lists are assumed to have one length
(`LengthAssumption`).

### Wal and EntryLog

A file is a sequence of slots, one a record, and a checksum is the sequence of what
was hashed into it. `tmps` are the `.wal.tmp` files, the tail and the one `genFile`
has allocated in advance. `cut` is two actions, because a stop between the rename
and the header of the next file leaves a different disk. `Crash` keeps all that was
flushed. `PowerFailure` may damage each slot that was not synced: zero it, or leave
a record with a zeroed sector that does or does not unmarshal. `Open` is `Create` on
an existing directory with `ReadAll`, which zeroes the tail after the last good
record and goes on with the decoder's checksum. `lastEntryIndex` after `ReadAll` is
one less than what `SaveSingle` had returned; the index is given twice. A rename that
does not survive a power failure, and a truncation that is undone by one, are left
out.

### MvccDB and VersionedStore

A cache of `db/mvcc/map` is a layer of items; `link` is the set of layers its parent
pointers reach, nearest first by number. `Put` (also `Del`, an `Absent` item),
`Checkout`, `Commit` and `ForkHandle` are atomic under the code's locks. `Get` is
two actions, the cache (`GetCache`) and the storage (`GetStorage`), with no lock over
both. `Flush` is three: `FlushWrite` (the batch), `FreeBefore` for one commit at a
time, `FlushReturn`. `Reopen` is a restart. `line` and `snap` are history: all layers
a layer was ever forked from, and what should be read through it. In `VersionedStore`
a commit is a whole map and a handle has a copy; the mapping sends the commits that
build on the durable one to their views. Nothing is promised about commits that do
not build on it, nor does the code.

### TxPool

`AddBlock` and `AddOwn` change the cache (`LinkBlock`), and `AddLinkedNode` then the
pool, as `addExistingBlock` does; `AddTx` and the clearing loop may come between.
`GenerateBlock` is `generateBlock` with `Gen`, which deletes from the pool the
transactions of the block and those it could not run or found expired (`Close`)
before anything is linked. `ChainBase.Add` of that block is a step of its own: `AddOwn`,
or `AddOwnFails` when its parent is a pruned head or the slot is full. Chains change in two ways: by the nodes while both heads reach a common
node through their parents (`DoChainChangeByForkBCN`), otherwise by the block list
(`DoChainChangeByTimeout`). The code's loops along a chain end at a block that is too
old or not in their map; `Since` is the set of blocks such a walk comes to, `Down` the
chain between two blocks. The cache is given by its linked blocks, root and head;
which ancestor of a new block becomes the root is left open. `Restart` is
`NewTxPoolImpl`, with `initBlockTx` as the code has it (by the clock). `own`,
`accepted`, `lost` and `gap` are history; `Account` is the key the node's own blocks are
signed with.

### Synchro

The range (`UpdateStart`, `SweepStep`), hash requests with their answers in one step
(`DoBlockhashSync`), block requests (`DoBlockSync`, `DoNewBlockSync`), a neighbour's
`HandleBlockRequest`, `HandleBlock` with the filter, and `DoVerifyBlock` are separate
actions, as they are separate goroutines. Cache entries and reported hashes expire at
any time. `Transfer` loses messages. Heights of neighbours, which decide
`IsCatchingUp`, are a free choice. Neighbours do not adopt the node's own blocks, and
all blocks pass verification.

### Sandbox and Isolator

`Execution` starts a thread for the script and polls, without a lock, the strings,
flags and gas that thread writes. Both are modelled: `TakeLock`, `Preload`,
`resetSandbox`, `RealExecute` and `Terminated` are the script's steps; `Look`,
`GasCheck` and `TimeCheck` the poller's. A contract that calls another waits while a
second pair of threads runs, so the sandboxes in use are a stack (`frames`). A script
is a sequence of the instructions that host functions and injected counters make
visible. V8 is external: it ends a script at any point after it was asked to, and may
forget a request that came before the thread had entered the isolate. `Isolator` runs
a transaction's actions, charges, rolls back and pays, first on the producer with the
time that is left for its block (`Produce`), then on a verifier (`Verify`) with the
time the receipt calls for. `Begin` is `PrepareTx` and the beginning of `Run`: the size
is charged, the limit is checked against that and against the publisher's gas, with the
exception `CheckTxGasLimitValid` makes for a pledge, and `checkAuth` charges for the
accounts it reads. `PayCost` may fail twice, with the writes and without; the producer
then drops the transaction and a verifier refuses the block. The publisher's gas
(`TotalGas`) is that at the time of the block, with what the transaction's own pledge
or withdrawal makes of it. The rules are those from fork 3.3.0 on. Amount limits are
a set of contracts whose call is refused after it ran. A contract in Go is the keys it
writes, its gas and whether it fails; those that call contracts in JavaScript themselves
are left out.

## Runs

| run | instance | shows |
|---|---|---|
| `block_cache` | two producers, two times a slot, one block a slot; all 16 blocks on four times, up to six nodes | structure, confirmations, head, states and irreversible chain, for every order of arrival |
| `votes` | a tree of 15 blocks with elections AB, BC, CB (vote interval 3) and forks where lists change | the active list is a function of the chain; the root moves by the list in force |
| `recovery` | a tree of 12 blocks with two elections (vote interval 3), three of which may come early; two stops | the replay gives back every block and its lists; no stored block is replaced; the durable chain is an `IrreversibleChain`; a running `Add` ends |
| `wal` | six entries, three slots a file, two stops, at most one of them a power failure | what `ReadAll` returns is what is on disk; names of files stay ordered; `Wal` implements `EntryLog`; the log is unreadable only after two named kinds of stop |
| `state_db` | two handles, one key, two values, six layers, two writes, one restart | reads see their snapshot; commits in use are not freed; `MvccDB` implements `VersionedStore` |
| `tx_pool` | two transactions, a tree of 14 blocks, four of them own, times to 8, one restart | no transaction twice on a chain; the pool has what the head's chain has not, and loses nothing but with an own block that is not linked |
| `contract_vm` | 37 transactions over 16 contracts in JavaScript and five in Go | the verifier's receipt and writes are the producer's; all actions or none; when the two assertions of `Isolator` hold; every transaction ends |
| `synchro` | a neighbour with three blocks, two own blocks on a fork, one message in flight, one loss | the node does not stay behind; the range passes over no block |
| `wal_readable` | as `wal` | **violated**, see *Findings* |
| `vm_gas` | as `contract_vm` | **violated**, see *Findings* |
| `head_cached` | as `block_cache`, up to five nodes | **violated**, see *Findings* |
| `active_by_chain` | a tree of 8 blocks, LIB stalled over two elections (vote interval 2) | **violated**, see *Findings* |

Bounds. In `block_cache` a block is a subset of the times, so that every tree on
four times, with forks at every height, blocks of one height with different times
and blocks beyond their witness's limit (two times in a slot, one block allowed)
occurs. With two producers the limit is two confirmations; six nodes suffice for
the root to move more than once in one `Add` (a late parent links its child, too),
for the head's fork to be pruned, and for singles to be deleted
(`DelSingleBlockTime` 2). In `votes` the root also moves several blocks in one
`updateLib`. The real constants (vote interval
1200, 6 blocks a slot of 3 s) enter only by comparisons these values decide both
ways.

In `recovery` two stops let one fall into the replay after another; the tree makes the
root move by two blocks in one `Add`, two lists take over in turn and a fork compete
with the confirmed chain. In `wal` six entries fill two files and part of a third, so
a removal, a cut after a restart and an index given twice occur together. In
`state_db` six layers allow two forks from one commit, a flush of one and a reader on
each; the proofs do away with the bounds. In `tx_pool` times reach beyond
`FilterTime` (5) and the expiry of one transaction, nine of the blocks hold the same
two transactions on competing forks, one own block is made on a head that is still in
the future, another on a head that is pruned before it is linked, and the pool's limit
is reached. In `contract_vm` there are limits below, inside and above the range that
the charge for accounts makes, and publishers with more and with less gas than the
limit; two sandboxes
on the stack suffice for a poller that watches a waiting script; `MaxGas` lies above
the gas any of the transactions has, `MaxTime` above every producer's deadline. In
`synchro` the node's fork begins below the range it asks for first; with one message
in flight messages are lost and late but not reordered.

Deadlock is checked in the runs of `BlockCache` and in `recovery`; the other instances
end when their bounded inputs are used up.

`ConfirmationsExact` and `LibMaximal` are stated for unchanging lists. With elections,
confirmations of members who leave a list and come back are lost, and the block at
which a list takes effect does not move the root further; `ConfirmationsReal` and
`LibConfirmed` are the parts that hold always.

`LibConfirmed` and `LibMaximal` say two thirds as three times the producers against
twice their number, not by the code's `witnessNum*2/3+1`; that the two agree is lemma
`TwoThirds`.

Fairness. `AddTerminates` assumes weak fairness of `LogStep`, the steps of a call that
is running. They wait for no message and no other lock holder, so a Go scheduler that
runs every runnable goroutine gives it. Nothing is assumed of arrivals, nor that the
process goes on.

`TxEnds` assumes weak fairness of each thread, of the clock and of V8's termination of
a script that it has been asked to end; each is a thread that waits for nothing but
what it models. It excepts a request V8 has forgotten (`Forgotten`).

`CatchesUp` assumes weak fairness of the range's loop, of the handlers, of
`verifyLoop` and of the expiry of cache entries (a timer each), and strong fairness of
two loops: that now and then the hashes of a range with unknown blocks are asked for
and answered, and that the blocks are asked for, before the range moves. A range
stays for 2 seconds, which is the period of the two loops, too, and tickers drift
against each other; weak fairness would let them miss every such range for ever.
Losses are bounded (`MaxLosses`): if every message is lost nothing can be promised.

## Findings

* `HeadCached`: "Update Longest" in `updateLinkedRoot` never changes the head (theorem
  `HeadNeverReplaced`): when the root moves along a fork that is not the longest, the
  head is deleted from the cache and stays head, and own blocks are made on it until
  the other fork outgrows it.
* `ActiveByChain`: after the LIB has stalled over two elections, witnesses in
  `linkedRootWitness` who are not on the list elected last are counted towards it, and
  the active list of a block depends on the order in which it and its sibling came.
  The `votes` run shows that with the LIB keeping up it does not.
* `NoCrcErrors`: a record with a hole is hashed into the decoder's checksum before it
  is found bad. `ReadAll` zeroes it and hands the checksum to the encoder; the next
  entry is chained to data that is gone, and the `ReadAll` after that fails with a
  checksum error.
* `NeverFatal`: `Run` ends the process when no gas is left for the actions, which, its
  message says, should not happen. `PrepareTx` checks the limit before `checkAuth`
  charges for the accounts it reads, and multiplies by the gas ratio where `Run`
  divides. `FatalOnlyByAuthCharge` gives the limits this concerns: from the cost of the
  size up to that of size, accounts and one unit of gas. `PayCost`'s assertion holds.

One more behaviour is worth knowing, though nothing in the repository says otherwise:
`Gen` deletes the transactions of the block it makes from the pool before the block is
linked. When `ChainBase.Add` then does not link it (a pruned head, see `HeadCached`, or
a full slot), they are neither pending nor on a chain. `NothingDropped` shows that this
is the only way to lose one.

Some properties hold up to a case that they name. `ReadableUnlessHurt` excepts a stop
between the rename in `cut` and the header of the next file. `ListsRestored` excepts
the block whose `Add` was running, which keeps its inherited list if `flush` had saved
the root already. `NoDoubleTx` and `PendingNotOnChain` except a start long after the
last block: `initBlockTx` goes by the clock, `ExistTxs` by the block's time. The three
properties of the pool also except a transaction that expires within a few times
`MaxBlockTimeGap`: a head may be that far in the future, our own next block is then
earlier than its parent, and `filterTime` is `MaxExpiration` (90 s) and leaves no
room, so such a transaction may be pending, or be repeated, although the chain has it.
`NothingDropped` excepts the transactions of own blocks that were not linked.

## Proofs

Every theorem holds for every value of the constants under the assumptions of the
modules it is about, which TLC evaluates in each run. Those of `Headers` and
`BlockCache`: heads are functions of the block, parent hashes are well founded, `Anc`
is what they unfold to, intervals are positive, elected lists are not empty, there are
finitely many producers. The others are named below where they are used.

### Block cache (`CacheProofs`, `LibProofs`)

`TypeOK /\ LinkedTree` is not inductive: that `Link` extends the tree depends on the
node being a single with a linked parent, which for a child taken from an iteration
depends on what happened since the iteration began, and for an own block on the head
it was made on. `Structure` adds what is needed: virtual nodes stand for missing blocks
(`Apart`), where the call stands (`Control`), each child still to come is a single with
a linked parent and is in one iteration only (`StackOK`), an own block that may still be
linked fits its parent (`Own`), a pruned head never comes back (`HeadPruned`), lists are
not empty (`Lists`). Each conjunct was checked with TLC before it was proved.

On top of it:

* `LeafExactTheorem`, `HeadLongestTheorem`, `HeadNeverReplaced`;
* `ConfirmationsRealTheorem`, and from it `LibConfirmedTheorem`: since confirmations are
  real and of the list in force, a root that moves has its two thirds;
* `ConfirmationsExactTheorem` and `LibMaximalTheorem`, while elections change no list
  (`FixedLists`): the confirmations are the producers between root and node, so none
  is left to move the root when `UpdateLib` returns (`NoneReached`);
* `ChainIrreversibleTheorem`: the root is the last block pushed, except between
  `AdvanceRoot` and `Flush` where it is its child (`ChainTop`), so `BlockCache`
  implements `IrreversibleChain`;
* `StateAvailableTheorem`: a block's state is committed after its parent's
  (`CommitOrder`), so what was committed before the new root is not above it;
* `SingleRootExactTheorem`, and `NoneLeftBehindTheorem` by `Attended`: the call is at
  each linkable single or will come to it.

### Recovery (`RecoveryProofs`, `LibProofs`)

For any number of stops, at any step, in the replay and inside `flush` too.

`RInv` (`RecoveryInvariant`) is `Structure` with the stores and the log: blocks are
filed by number and the state DB's block, `tag`, is among them and is the root or, until
`flush` has run, its parent (`DiskOK`); `walIndex` leads to a node's entry and grows
along the chain, so that `RemoveFilesBefore` takes no entry that is needed (`LogOK`); in
a replay every node comes from the log (`ReplayOK`). `Structure` survives because every
step is one of the cache, or changes a list or a serial number only, or leaves a cache
of one node. From it, with elections and all: `LoggedTheorem` (every linked block above
`tag` has an entry), `StateAvailableAfterStops`, `TreeInOrderAfterStops` and
`DurableTheorem` (the stored chain up to `tag` is an `IrreversibleChain`).

What the replay gives back also depends on what the entries say. The theorems about it
assume `Steady`: elections change no list, and a block is later than its parent. The
second is there because the replay verifies own blocks, which were linked without, and
would turn down one that is not later than its parent. `FInv` (`FixedListsInvariant`)
says that an entry holds the lists and the serial number that the chain of its block
determines (`LogGood`, `Serials`; `Serial` is that number, stated without recursion as
the distance to the block that began the witness's series), that a parent's entry comes
first (`LogOrdered`), that a running process has linked all the log has above the root
(`RunComplete`), and that a replay has applied a first part of the log and has the rest
before it (`ReplayComplete`). `LogCompleteTheorem`, `NothingLostTheorem` and
`ListsRestoredTheorem` follow.

`NeverRewrittenTheorem`, also for `Steady`: a stop inside `flush` leaves one block in
the block chain DB above `tag` (`Leftover`). It lies on the chain of a logged block that
has the confirmations to move the root off `tag` (`Mover`). There is at most one such
block in the log (`AtMostOne`), because the process that wrote its entry moved the root
before it linked another. So the replay moves the root when it comes to that entry, and
to the same block, and `Push` puts in its place what is there already.

### State database

For every set of keys, values and handles, with no bound on layers, writes and
restarts; the constants `Absent` and `Unset` are only assumed to be different from
what they stand beside (`MvccAssumption`).

`ReadsSnapshot` and `Available` are not inductive: that a read is unchanged by a flush
depends on the chain of parent layers being cut in the right place, and that in turn
on the order of the commits. `MInv` adds: links are an initial part of the history of
a layer and agree along it (`Links`); a stage belongs to one handle, nothing was forked
from it, and a key a pending `Get` has missed is still not there (`Leaves`); commits
are in the order of their making, and a layer above a commit that builds on the
durable one is still linked to it (`Ordered`); a read finds the nearest layer, reads
through live layers give their snapshots, and the storage is the durable commit's
snapshot (`Reads`). `StateInvariant` proves it inductive, with one lemma per action;
`StateTypes`, `SnapshotReads` and `CommitsAvailable` follow.

`StateRefinement`: by `MInv` the refinement mapping, which is stated
with views, can be stated with snapshots (`Mapping`). Each action is then a step of
`VersionedStore` or changes no live snapshot (`Unseen`): `FlushWrite` is the abstract
flush, `FreeBefore`, `FlushReturn` and the two halves of `Get` are stutters.

### Transaction pool

For every tree of blocks, every set of transactions and any number of restarts, under
`FilterAssumption` (`MaxExpiration <= FilterTime`; both are 90 s). A walk that does not
come to a block of the chain has met a block that is too old, or one that is not in
`blockList` (`WalkEnds`). `TInv` says of the latter that it is old by the clock
(`ListedLate`) and, unless a restart has left a gap, by the blocks of its own chain
(`ListedChain`), and that a block is never further behind an ancestor than
`MaxBlockTimeGap` (`TimesOK`). What a walk has missed is therefore expired or about to,
and the three properties are inductive together, with what holds of a block that was
made and not yet added (`MadeOK`): `NoDoubleTxTheorem`, `PendingNotOnChainTheorem`,
`NothingDroppedTheorem`.

### Synchronisation

`RangeBelowHeadTheorem`: the range begins at the root or a step further, as long as that
is below the head it was taken from (`RangeOK`); the root is not above the head
(`ChainOK`), and the head never falls (`HeadNeverFalls`). Assumed are the relations
between the constants of `rangeController` (`SyncAssumption`), and that a block confirms
one of its own chain and numbers do not fall along it (`NumberAssumption`).

### Execution

For every set of contracts and transactions, every depth of the stack and size of the
pool. `SandboxInv` says of every sandbox on the stack that it is at an instruction of its
contract and that all but the top one wait in a call, and that sandboxes and idle virtual
machines together are no more than the pool has. `TxInv` says where the transaction
stands, and that what is paid and what is left of the gas add up to the limit while the
actions succeed. `ITypeOKTheorem`, `FatalOnlyByAuthChargeTheorem` and
`AllOrNothingTheorem` follow.

### Model-checked only

* Liveness under fairness is out of the prover's reach: `AddTerminates`, `TxEnds`,
  `CatchesUp`.
* `ActiveByChain` does not hold for all instances (see *Findings*), and its reference
  definition is recursive.
* `SameReceipt` compares two executions. That they end alike is not a matter of one
  state: it would take a definition of what a script computes, by induction over it.
* The properties of `Wal`: `ReadAll` is a fold over records, and what a fold computes
  for every file needs induction over data.
* `LogComplete`, `NothingLost`, `ListsRestored` and `NeverRewritten` where elections
  change lists: the theorems are for `Steady`; the `recovery` run has two elections.
  `ConfirmationsExact` and `LibMaximal` do not hold then.

## Not modelled

* The engine itself (V8), compilation and validation of contracts, `console`, `require`,
  crypto, the memory check (it depends on the garbage collector), and the system
  contracts: their interface is a script's instructions, the verdict on a block and the
  list it elects.
* Most lines of C and C++ under `src/` are not the program's logic: JavaScript
  libraries and snapshots as byte arrays in generated headers and V8's own headers,
  more than 200,000 lines. The hand-written C++ is some 3,500 lines in `vm/v8vm/v8`;
  what of it changes the course of an execution is in `Sandbox`, the rest are argument
  checks and conversions.
* Deferred transactions (`DeferServer`, delay transactions) and the block base
  transaction; rules before fork 3.3.0.
* The p2p layer: its connections and queues decide which messages arrive, and `Synchro`
  lets them get lost. Height synchronisation is a free choice there.
* Readers of the block cache (`GetBlockByNumber`, `number2node`), `Keys` and
  `KeysByRange` of the state database, SPV mode, the creation of the genesis block.
* Agreement between nodes: `IrreversibleChain` is a promise of one node.
* Cryptography, encodings, snapshots as files, events, RPC, wallet, metrics, logging.
