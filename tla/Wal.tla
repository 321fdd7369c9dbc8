-------------------------------- MODULE Wal --------------------------------
(***************************************************************************)
(* The write-ahead log (db/wal): records in a tail file ".wal.tmp", which  *)
(* is sealed by renaming it once it has reached the segment size; files    *)
(* that are no longer needed are removed; after a stop everything is read  *)
(* back, and checked against a chain of checksums.                         *)
(*                                                                         *)
(* A file is a sequence of slots, one per record; its offset is their      *)
(* number.  A checksum is the sequence of what has been hashed into it, so *)
(* two are equal only if they cover the same data in the same order.  The  *)
(* checksum record and the metadata record that a file starts with are one *)
(* slot: they are written by one flush.  An entry is the number of the     *)
(* SaveSingle that wrote it.                                               *)
(***************************************************************************)
EXTENDS Integers, SequencesExt

CONSTANT SegmentSize    \* SegmentSizeBytes, in slots
ASSUME SegmentAssumption == SegmentSize \in Nat \ {0, 1}

VARIABLES
    sealed,         \* the .wal files: the index in their name, and their slots
    tmps,           \* the .wal.tmp files, oldest first: the tail, and the file
                    \* that StreamFile has allocated in advance
    synced,         \* how many slots of the tail have reached the disk
    crc,            \* encoder.crc
    lastEntryIndex,
    off,            \* offset of the tail
    index,          \* what SaveSingle has returned to this process for an entry
                    \* (bcn.walIndex), 0 if nothing
    saves,          \* number of calls of SaveSingle so far
    from,           \* the entry RemoveFilesBefore was last called for
    ents,           \* what ReadAll has returned last
    pc,             \* "up", "cut" and "newfile" inside cut, "down", or why the
                    \* log could not be opened: "mismatch", "nofile"
    outages,        \* how often the power has failed
    hurt            \* a stop has left what recovery does not handle

diskVars == <<sealed, tmps, synced>>
memVars == <<crc, lastEntryIndex, off, index>>
wvars == <<diskVars, memVars, saves, from, ents, pc, outages, hurt>>

Up == pc \in {"up", "cut", "newfile"}

-----------------------------------------------------------------------------
(* Records. *)

Header(prev) == [kind |-> "head", val |-> 0, index |-> 0, prev |-> prev, sum |-> Append(prev, 0)]
EntryRec(d, i, c) == [kind |-> "entry", val |-> d, index |-> i, prev |-> <<>>, sum |-> Append(c, d)]

\* What a power failure may leave of a slot that was not synced: nothing; or, of an
\* entry, which may be longer than a sector, a record with a zeroed sector that
\* unmarshals ("holed") or does not ("torn").
Damage(rec, how) ==
    IF how = "kept" THEN rec
    ELSE [rec EXCEPT !.kind = IF @ = "head" THEN "zero" ELSE how]

-----------------------------------------------------------------------------
(* Reading. *)

\* MUTANT: the checksum chain is not started anew by a file's first record.
DecodeRecord_NoReset(s, rec) ==
    IF s.st # "ok" THEN s
    ELSE CASE
         rec.kind \in {"zero", "torn"} -> [s EXCEPT !.st = "end"]
      [] rec.kind = "holed" -> [s EXCEPT !.st = "end", !.crc = Append(@, -1)]
      [] rec.kind = "head" ->
           IF rec.prev # s.crc
             THEN [s EXCEPT !.st = "mismatch"]
             ELSE [s EXCEPT !.crc = rec.sum, !.good = @ + 1]
      [] rec.kind = "entry" ->
           IF Append(s.crc, rec.val) # rec.sum
             THEN [s EXCEPT !.st = "mismatch"]
             ELSE [s EXCEPT !.crc = rec.sum, !.good = @ + 1,
                            !.ents = Append(@, rec.val), !.last = rec.index]

\* decodeRecord, and what ReadAll does with the record.  A record with a hole has
\* been hashed into the decoder's checksum before the two are compared.
DecodeRecord(s, rec) ==
    IF s.st # "ok" THEN s
    ELSE CASE
         rec.kind \in {"zero", "torn"} -> [s EXCEPT !.st = "end"]
      [] rec.kind = "holed" -> [s EXCEPT !.st = "end", !.crc = Append(@, -1)]
      [] rec.kind = "head" ->
           IF s.crc # <<>> /\ rec.prev # s.crc
             THEN [s EXCEPT !.st = "mismatch"]
             ELSE [s EXCEPT !.crc = rec.sum, !.good = @ + 1]
      [] rec.kind = "entry" ->
           IF Append(s.crc, rec.val) # rec.sum
             THEN [s EXCEPT !.st = "mismatch"]
             ELSE [s EXCEPT !.crc = rec.sum, !.good = @ + 1,
                            !.ents = Append(@, rec.val), !.last = rec.index]

SealedSlots == FlattenSeq([i \in DOMAIN sealed |-> sealed[i].recs])

\* The loop of ReadAll over all records of all files, `tail` being the last.
Decode(tail) ==
    FoldLeft(DecodeRecord,
             [st |-> "ok", crc |-> <<>>, ents |-> <<>>, last |-> 0, good |-> 0],
             SealedSlots \o tail)

\* MUTANT: the entries that are left are counted.
LastIndex_Count(d) == Len(d.ents)

\* lastEntryIndex after ReadAll: the index in the last entry, which is one less than
\* what SaveSingle had returned for it.
LastIndex(d) == d.last

\* MUTANT: of the temporary files the newest is kept.
TailName_Newest == tmps[Len(tmps)]

\* checkWalNames: the first of the temporary files, by name and so by age, is the
\* tail; the others are removed.
TailName == tmps[1]

\* MUTANT: the rest of the tail is not zeroed.
ZeroToEnd_None(tail, at) == tail

\* What is on the tail once ReadAll has zeroed it from the last good record on.
ZeroToEnd(tail, at) == SubSeq(tail, 1, at)

-----------------------------------------------------------------------------
\* Create in an empty directory.
WInit ==
    /\ sealed = <<>>
    /\ tmps = << <<Header(<<>>)>> >>
    /\ synced = 0
    /\ crc = <<0>>
    /\ lastEntryIndex = 0
    /\ off = 1
    /\ index = <<>>
    /\ saves = 0
    /\ from = 0
    /\ ents = <<>>
    /\ pc = "up"
    /\ outages = 0
    /\ hurt = FALSE

\* genFile, the goroutine of StreamFile: one file is allocated in advance.
GenFile ==
    /\ Up
    /\ Len(tmps) = (IF pc = "newfile" THEN 0 ELSE 1)
    /\ tmps' = Append(tmps, <<>>)
    /\ UNCHANGED <<sealed, synced, memVars, saves, from, ents, pc, outages, hurt>>

\* Write a record at the file's offset.
Write(file, rec) == SubSeq(file, 1, off) \o <<rec>> \o SubSeq(file, off + 2, Len(file))

\* SaveSingle: write, flush, and cut if the segment is full.
SaveSingle ==
    /\ pc = "up"
    /\ saves' = saves + 1
    /\ tmps' = [tmps EXCEPT ![1] = Write(@, EntryRec(saves', lastEntryIndex, crc))]
    /\ off' = off + 1
    /\ crc' = Append(crc, saves')
    /\ lastEntryIndex' = lastEntryIndex + 1
    /\ index' = Append(index, lastEntryIndex')
    /\ pc' = IF off' < SegmentSize THEN "up" ELSE "cut"
    /\ UNCHANGED <<sealed, synced, from, ents, outages, hurt>>

\* cut, first part: truncate, sync, and rename the tail after the last index.
CutRename ==
    /\ pc = "cut"
    /\ sealed' = Append(sealed, [last |-> lastEntryIndex, recs |-> SubSeq(tmps[1], 1, off)])
    /\ tmps' = Tail(tmps)
    /\ synced' = 0
    /\ off' = 0
    /\ pc' = "newfile"
    /\ UNCHANGED <<crc, lastEntryIndex, index, saves, from, ents, outages, hurt>>

\* cut, second part: wait for the next file, write its header, and sync.
CutNewFile ==
    /\ pc = "newfile"
    /\ tmps # <<>>
    /\ tmps' = << <<Header(crc)>> >>
    /\ synced' = 1
    /\ off' = 1
    /\ crc' = Append(crc, 0)
    /\ pc' = "up"
    /\ UNCHANGED <<sealed, lastEntryIndex, index, saves, from, ents, outages, hurt>>

\* MUTANT: a file whose last entry is the given one is removed too.
Needed_Strict(file, i) == file.last > i

\* The files RemoveFilesBefore keeps.
Needed(file, i) == file.last >= i

\* RemoveFilesBefore, for an entry that this process has written.
RemoveFilesBefore(d) ==
    /\ pc = "up"
    /\ index[d] # 0
    /\ from' = d
    /\ sealed' = SelectSeq(sealed, LAMBDA file : Needed(file, index[d]))
    /\ UNCHANGED <<tmps, synced, memVars, saves, ents, pc, outages, hurt>>

-----------------------------------------------------------------------------
(* Stops and restarts. *)

Stop ==
    /\ Up
    /\ pc' = "down"
    /\ index' = [d \in DOMAIN index |-> 0]
    /\ hurt' = (hurt \/ pc = "newfile")
    /\ UNCHANGED <<sealed, crc, lastEntryIndex, off, saves, from, ents>>

\* The process stops: what was flushed is with the operating system.
Crash ==
    /\ Stop
    /\ UNCHANGED <<tmps, synced, outages>>

\* The power fails: what was not synced may be damaged, each slot in its own way.
PowerFailure ==
    /\ Stop
    /\ IF tmps = <<>>
         THEN UNCHANGED tmps
         ELSE \E how \in [synced + 1..Len(tmps[1]) -> {"kept", "zero", "torn", "holed"}] :
                tmps' = [tmps EXCEPT ![1] =
                          [i \in DOMAIN @ |-> IF i <= synced THEN @[i] ELSE Damage(@[i], how[i])]]
    /\ synced' = IF tmps = <<>> THEN 0 ELSE Len(tmps[1])
    /\ outages' = outages + 1

\* Create on a directory with files, and ReadAll.
Open ==
    /\ pc = "down"
    /\ tmps # <<>>
    /\ LET d == Decode(TailName)
           at == d.good - Len(SealedSlots)
       IN  IF d.st = "mismatch"
             THEN /\ pc' = "mismatch"
                  /\ UNCHANGED <<diskVars, memVars, ents, hurt>>
             ELSE /\ pc' = "up"
                  /\ tmps' = <<ZeroToEnd(TailName, at)>>
                  /\ synced' = IF synced < at THEN synced ELSE at
                  /\ off' = at
                  /\ crc' = d.crc
                  /\ lastEntryIndex' = LastIndex(d)
                  /\ ents' = d.ents
                  /\ hurt' = (hurt \/ (d.crc # <<>> /\ d.crc[Len(d.crc)] = -1))
                  /\ UNCHANGED <<sealed, index>>
    /\ UNCHANGED <<saves, from, outages>>

\* There is no temporary file: the directory itself is opened in its place.
OpenFails ==
    /\ pc = "down"
    /\ tmps = <<>>
    /\ pc' = "nofile"
    /\ UNCHANGED <<diskVars, memVars, saves, from, ents, outages, hurt>>

WNext ==
    \/ GenFile
    \/ SaveSingle
    \/ CutRename
    \/ CutNewFile
    \/ \E d \in DOMAIN index : RemoveFilesBefore(d)
    \/ Crash
    \/ PowerFailure
    \/ Open
    \/ OpenFails

WSpec == WInit /\ [][WNext]_wvars

-----------------------------------------------------------------------------
(* Properties. *)

\* The entries that are on disk: all slots up to the first damaged one.
OnDisk ==
    LET slots == SealedSlots \o (IF tmps = <<>> THEN <<>> ELSE tmps[1])
        bad == SelectInSeq(slots, LAMBDA rec : rec.kind \notin {"head", "entry"})
        good == IF bad = 0 THEN slots ELSE SubSeq(slots, 1, bad - 1)
        entries == SelectSeq(good, LAMBDA rec : rec.kind = "entry")
    IN  [i \in DOMAIN entries |-> entries[i].val]

WTypeOK ==
    /\ Len(tmps) \in 0..2
    /\ off \in Nat
    /\ synced \in Nat
    /\ pc \in {"up", "cut"} => synced <= off /\ off = Len(tmps[1])
    /\ \A i \in DOMAIN sealed : Len(sealed[i].recs) >= SegmentSize
    /\ pc \in {"up", "cut", "newfile", "down", "mismatch", "nofile"}

\* ReadAll returns the entries that are on disk, whatever a stop has left behind.
ReadAllExact == [][pc = "down" /\ pc' = "up" => ents' = OnDisk]_wvars

\* The names of the sealed files are in the order of their entries, although an
\* index is given twice after each restart (RemoveFilesBefore goes by the names).
NamesOrdered ==
    \A i \in DOMAIN sealed :
        /\ i > 1 => sealed[i - 1].last <= sealed[i].last
        /\ pc # "down" => sealed[i].last <= lastEntryIndex + 1

\* The log is readable unless a stop fell into cut, after the rename, or left a
\* record with a hole: new writes after a restart cause no checksum errors.
ReadableUnlessHurt == pc \in {"mismatch", "nofile"} => hurt

\* "it's safe to zero them out to avoid any CRC errors from new writes": the log
\* can always be read back.
NoCrcErrors == pc # "mismatch"

\* The segment files hold a log as EntryLog has it.
Abstract == INSTANCE EntryLog WITH log <- OnDisk
ImplementsEntryLog == Abstract!Spec
=============================================================================
