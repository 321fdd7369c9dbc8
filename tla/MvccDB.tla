------------------------------- MODULE MvccDB -------------------------------
(***************************************************************************)
(* The state database (db/mvccdb.go over db/mvcc/map and LevelDB): handles *)
(* that fork the same database, each with a stage to write to; commits     *)
(* under tags (the hashes of blocks); Flush, which makes one of them       *)
(* durable and frees the commits before it, while other handles go on      *)
(* reading.                                                                *)
(*                                                                         *)
(* A cache is a layer of items and a chain of parent layers.  The chain is *)
(* given here by the set of its layers: layers are numbered in the order   *)
(* of their creation, so the nearest layer is the one with the greatest    *)
(* number.  A layer that is committed is named by its number in place of   *)
(* its tag: a tag is committed once (addExistingBlock commits a block      *)
(* whose tag could not be checked out, generateBlock a new one).           *)
(***************************************************************************)
EXTENDS Integers, Sequences, Functions

CONSTANTS Key, Value, Handle,
          Main,     \* the handle NewCacheMVCCDB returns
          Absent,   \* a deleted item, or no value
          Unset     \* no item under a key in a layer

Item == Value \cup {Absent}

ASSUME MvccAssumption ==
    /\ Main \in Handle
    /\ Absent \notin Value
    /\ Unset \notin Item
    /\ Unset \notin Key
    /\ Unset \notin [Key -> Item]

VARIABLES
    storage,    \* LevelDB: the state
    diskTag,    \* LevelDB: "/tag"
    data,       \* data of every layer
    link,       \* the layers that are found from a layer through parent
    commits,    \* CommitManager.commits
    tags,       \* the keys of CommitManager.tags
    head,       \* CacheMVCCDB.head of every handle, 0 if there is no handle
    stage,      \* CacheMVCCDB.stage of every handle, 0 if there is no handle
    flushing,   \* "no"; "written" in Flush, after CommitBatch; "free" in FreeBefore
    rd,         \* the key of a handle's Get that has not found it in the cache
    line,       \* history: all layers a layer was ever forked from, and itself
    snap        \* history: what should be read through a layer

dbVars == <<storage, diskTag>>
layerVars == <<data, link, line, snap>>
mvars == <<dbVars, layerVars, commits, tags, head, stage, flushing, rd>>

Layer == DOMAIN data

-----------------------------------------------------------------------------
(* Reading. *)

\* The layers in which getFromLink finds a key.
Holding(x, k) == {y \in link[x] : data[y][k] # Unset}

\* getFromLink: the nearest layer that has the key.
Nearest(x, k) == CHOOSE y \in Holding(x, k) : \A z \in Holding(x, k) : z <= y

\* CacheMVCCDB.Get and Has: from the cache, or else from the storage.
Get(x, k) == IF Holding(x, k) = {} THEN storage[k] ELSE data[Nearest(x, k)][k]

View(x) == [k \in Key |-> Get(x, k)]

-----------------------------------------------------------------------------
(* Layers. *)

NewLayer == Len(data) + 1

\* MUTANT: the fork does not know its parent.
Fork_Alone(c) ==
    /\ data' = Append(data, [k \in Key |-> Unset])
    /\ link' = Append(link, {NewLayer})
    /\ line' = Append(line, line[c] \cup {NewLayer})
    /\ snap' = Append(snap, snap[c])

\* MVCCMap.Fork
Fork(c) ==
    /\ data' = Append(data, [k \in Key |-> Unset])
    /\ link' = Append(link, link[c] \cup {NewLayer})
    /\ line' = Append(line, line[c] \cup {NewLayer})
    /\ snap' = Append(snap, snap[c])

\* MVCCMap.Free: the layer and all its parents lose their items, and the layers
\* forked from them lose their parent.
Free(v) ==
    /\ data' = [x \in Layer |-> IF x \in link[v] THEN [k \in Key |-> Unset] ELSE data[x]]
    /\ link' = [x \in Layer |-> IF x \in link[v] THEN {x} ELSE link[x] \ link[v]]
    /\ UNCHANGED <<line, snap>>

-----------------------------------------------------------------------------
(* The operations of a handle. *)

Open(h) == stage[h] # 0

\* NewCacheMVCCDB on an empty LevelDB: the stage is committed under the tag found.
MInit ==
    /\ storage = [k \in Key |-> Absent]
    /\ diskTag = 1
    /\ data = <<[k \in Key |-> Unset], [k \in Key |-> Unset]>>
    /\ link = <<{1}, {1, 2}>>
    /\ line = link
    /\ snap = <<storage, storage>>
    /\ commits = <<1>>
    /\ tags = {1}
    /\ head = [h \in Handle |-> IF h = Main THEN 1 ELSE 0]
    /\ stage = [h \in Handle |-> IF h = Main THEN 2 ELSE 0]
    /\ flushing = "no"
    /\ rd = [h \in Handle |-> Unset]

\* Put, and Del for Absent.
Put(h, k, i) ==
    /\ Open(h)
    /\ rd[h] = Unset
    /\ data' = [data EXCEPT ![stage[h]][k] = i]
    /\ snap' = [snap EXCEPT ![stage[h]][k] = i]
    /\ UNCHANGED <<dbVars, link, line, commits, tags, head, stage, flushing, rd>>

\* The first half of a Get, when the key is in no layer; another goroutine may
\* flush before the second half.
GetCache(h, k) ==
    /\ Open(h)
    /\ rd[h] = Unset
    /\ Holding(stage[h], k) = {}
    /\ rd' = [rd EXCEPT ![h] = k]
    /\ UNCHANGED <<dbVars, layerVars, commits, tags, head, stage, flushing>>

GetStorage(h) ==
    /\ rd[h] # Unset
    /\ rd' = [rd EXCEPT ![h] = Unset]
    /\ UNCHANGED <<dbVars, layerVars, commits, tags, head, stage, flushing>>

\* Checkout of a tag that CommitManager.Get finds; it waits for FreeBefore.
Checkout(h, t) ==
    /\ Open(h)
    /\ rd[h] = Unset
    /\ flushing # "free"
    /\ t \in tags
    /\ Fork(t)
    /\ head' = [head EXCEPT ![h] = t]
    /\ stage' = [stage EXCEPT ![h] = NewLayer]
    /\ UNCHANGED <<dbVars, commits, tags, flushing, rd>>

\* MUTANT: the commit is known by its tag only, so that it is never freed.
Commit_TagOnly(h) ==
    /\ Open(h)
    /\ rd[h] = Unset
    /\ flushing # "free"
    /\ Fork(stage[h])
    /\ head' = [head EXCEPT ![h] = stage[h]]
    /\ stage' = [stage EXCEPT ![h] = NewLayer]
    /\ tags' = tags \cup {stage[h]}
    /\ UNCHANGED <<dbVars, commits, flushing, rd>>

\* Commit, with CommitManager.Add.
Commit(h) ==
    /\ Open(h)
    /\ rd[h] = Unset
    /\ flushing # "free"
    /\ Fork(stage[h])
    /\ head' = [head EXCEPT ![h] = stage[h]]
    /\ stage' = [stage EXCEPT ![h] = NewLayer]
    /\ commits' = Append(commits, stage[h])
    /\ tags' = tags \cup {stage[h]}
    /\ UNCHANGED <<dbVars, flushing, rd>>

\* CacheMVCCDB.Fork: another handle on the same commit, in place of an old one.
ForkHandle(h, g) ==
    /\ Open(h)
    /\ g # Main
    /\ rd[g] = Unset
    /\ Fork(head[h])
    /\ head' = [head EXCEPT ![g] = head[h]]
    /\ stage' = [stage EXCEPT ![g] = NewLayer]
    /\ UNCHANGED <<dbVars, commits, tags, flushing, rd>>

-----------------------------------------------------------------------------
(* Flush. *)

\* Nothing is promised about what does not build on the durable version.
Live(x) == diskTag \in line[x]

\* MUTANT: the items of the commit's own layer are saved.
Batch_OwnLayer(t) == [k \in Key |-> IF data[t][k] # Unset THEN data[t][k] ELSE storage[k]]

\* The batch of Flush: Commit.All gives parents before children, so that the
\* nearest item is written last.
Batch(t) == View(t)

\* Flush up to CommitBatch, which is atomic.  The block cache flushes a commit
\* that builds on the last one flushed.
FlushWrite(t) ==
    /\ flushing = "no"
    /\ t \in tags
    /\ Live(t)
    /\ storage' = Batch(t)
    /\ diskTag' = t
    /\ flushing' = "written"
    /\ UNCHANGED <<layerVars, commits, tags, head, stage, rd>>

\* MUTANT: the commit itself is freed, too.
Freed_Too == diskTag \in Range(commits)

\* Does FreeBefore go on?
Freed == Head(commits) # diskTag

\* One iteration of FreeBefore, which holds the commit manager's lock.
FreeBefore ==
    /\ flushing \in {"written", "free"}
    /\ Freed
    /\ flushing' = "free"
    /\ Free(Head(commits))
    /\ tags' = tags \ {Head(commits)}
    /\ commits' = Tail(commits)
    /\ UNCHANGED <<dbVars, head, stage, rd>>

FlushReturn ==
    /\ flushing \in {"written", "free"}
    /\ ~Freed
    /\ flushing' = "no"
    /\ UNCHANGED <<dbVars, layerVars, commits, tags, head, stage, rd>>

\* The process stops, at any moment, and NewCacheMVCCDB opens the LevelDB again.
Reopen ==
    /\ data' = [x \in 1..NewLayer |-> [k \in Key |-> Unset]]
    /\ link' = [x \in 1..NewLayer |-> IF x = NewLayer THEN {diskTag, x} ELSE {x}]
    /\ line' = link'
    /\ snap' = [x \in 1..NewLayer |-> IF x = NewLayer THEN snap[diskTag] ELSE snap[x]]
    /\ commits' = <<diskTag>>
    /\ tags' = {diskTag}
    /\ head' = [h \in Handle |-> IF h = Main THEN diskTag ELSE 0]
    /\ stage' = [h \in Handle |-> IF h = Main THEN NewLayer ELSE 0]
    /\ flushing' = "no"
    /\ rd' = [h \in Handle |-> Unset]
    /\ UNCHANGED dbVars

MNext ==
    \/ \E h \in Handle :
          \/ \E k \in Key : GetCache(h, k) \/ \E i \in Item : Put(h, k, i)
          \/ GetStorage(h)
          \/ \E t \in tags : Checkout(h, t)
          \/ Commit(h)
          \/ \E g \in Handle : ForkHandle(h, g)
    \/ \E t \in tags : FlushWrite(t)
    \/ FreeBefore
    \/ FlushReturn
    \/ Reopen

MSpec == MInit /\ [][MNext]_mvars

-----------------------------------------------------------------------------
(* Properties. *)

MTypeOK ==
    /\ storage \in [Key -> Item]
    /\ diskTag \in Layer
    /\ data \in Seq([Key -> Item \cup {Unset}])
    /\ link \in Seq(SUBSET Layer)
    /\ line \in Seq(SUBSET Layer)
    /\ snap \in Seq([Key -> Item])
    /\ DOMAIN link = Layer /\ DOMAIN line = Layer /\ DOMAIN snap = Layer
    /\ commits \in Seq(Layer) /\ diskTag \in Range(commits)
    /\ tags \subseteq Layer
    /\ head \in [Handle -> Layer \cup {0}]
    /\ stage \in [Handle -> Layer \cup {0}]
    /\ flushing \in {"no", "written", "free"}
    /\ rd \in [Handle -> Key \cup {Unset}]

\* Every Get and Has through a commit or a handle that builds on the durable
\* version reads its snapshot: what was committed below it and what the handle has
\* put itself, never what another handle has put, and nothing is missing or older
\* while Flush writes and frees.  A Get that was between cache and storage when
\* Flush wrote reads the snapshot, too.
ReadsSnapshot ==
    /\ \A x \in Layer : Live(x) => View(x) = snap[x]
    /\ \A h \in Handle :
          Open(h) /\ Live(stage[h]) /\ rd[h] # Unset => storage[rd[h]] = snap[stage[h]][rd[h]]

\* FreeBefore goes by the order of the commits, not by ancestry; yet no commit that
\* builds on the durable version is freed: what a handle's head was, and the durable
\* version itself, can be checked out.
Available ==
    /\ diskTag \in tags
    /\ \A h \in Handle : Open(h) /\ Live(head[h]) => head[h] \in tags

\* The layers, the storage and Flush are a versioned store.
LiveTags == {t \in tags : Live(t)}
Store ==
    INSTANCE VersionedStore WITH
        NoView <- Unset,
        versions <- [t \in LiveTags |-> View(t)],
        views <- [h \in Handle |-> IF Open(h) /\ Live(stage[h]) THEN View(stage[h]) ELSE Unset],
        durable <- storage
ImplementsVersionedStore == Store!Spec
=============================================================================
