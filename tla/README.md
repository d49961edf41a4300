# A TLA+ model of the VernKV storage engine

VernKV is a log-structured merge-tree store in Go. This directory holds TLA+
modules that model it, TLC configurations that check them on small
instances, and proofs checked by TLAPS. `PROJECT.json` lists components, runs,
mutants, findings, hazards and theorems, and maps every modelling definition to
the lines it stands for.

## The system

| Component | State | Operations | Correct when |
|---|---|---|---|
| Write path, `engine/db.go` | `nextSeq`, `memtable`, `immutables`, `bgErr`, `db.mu` | `Put`, `Write`, `Delete` | a call that returned nil is never lost; sequence numbers are fresh; batches are atomic |
| WAL, `wal/` | segments of records, active segment, what is fsynced | `Append`, `Sync`, rotation, `Truncate`, `Close` | a segment goes only when all of it is in tables |
| Flush, `engine/db.go`, `engine/flush.go` | `flushMu`, the memtable being written, `nextFileNum` | `MaybeScheduleFlush`, `flushMemtable` | every frozen memtable reaches the MANIFEST; reads do not change |
| MANIFEST and version set, `manifest/`, `engine/version_set.go`, `engine/manifest_replay.go` | edits on disk; live tables, obsolete numbers, cutoff in memory | `Append`, `Rewrite`, `ReplayManifest`, `AddTable`, `RemoveTable`, `SetWALCutoff`, `CompactManifest` | memory and MANIFEST agree; live files are never touched; the cutoff does not go back |
| Open and recovery, `engine/db.go`, `engine/recovery.go` | position in the log, memtable being rebuilt | `Open`, `Recover`, paging | any crash, during recovery too, is repaired by the next `Open` |
| Reads, `engine/db.go`, `engine/snapshot.go`, `iterators/` | snapshots; iterators over memtables and tables | `Get`, `GetSnapshot`, `NewIterator`, scans | a read at a sequence number has one answer |
| Compaction, `engine/compaction.go` | `compactionMu`, inputs and outputs, snapshots held | `PickCompaction`, `CompactLevel` | no visible version is lost or resurrected; a crash leaves the old or the new tables |
| Memtable, `memtable/` | skip list | `Insert`, iteration | sorted by internal key at every step an iterator can see |
| SSTable, `sstable/` | blocks, index, filter, footer | `Builder`, `Reader`, iterators | reads back what was added, also past a failed read |
| Block cache, `internal/cache/` | LRU list and map | `Get`, `Put` | never above capacity; never a block of another file |
| Command line, `cmd/vern-cli` | history, input line, terminal mode, session | keys, commands, signal | draft and terminal given back; engine never called through nil; database closed |

How they interact. Callers hold `db.mu` from the assignment of a sequence
number to the return of the call: WAL append, fsync, memtable insert. A caller
that fills the memtable freezes it and starts a goroutine. The goroutines
compete for `flushMu`; the one that has it writes tables without `db.mu` and
takes `db.mu` only to pick a memtable and to commit a table (version, Add
record, cutoff record, list of immutables). The WAL is truncated, compaction run
and obsolete files removed without `db.mu`. After a crash `Open` rebuilds the
version from the MANIFEST and the memtable from the WAL. Readers take `db.mu` to
collect memtables and tables and move over them without it; table iterators share
the block cache. The command line calls the engine from its main goroutine, while
a second goroutine closes it on a signal.

What is hard: interleavings of writers, flush and `CompactManifest`; a crash
between any two file operations, of the recovery too; failures of one of
several file operations; records cut short at the end of a file that is then
appended to; what a loss of power takes; merges that look at the version before
and after others change it; iterators under which a list is being linked.
`PROJECT.json` lists these hazards by
line with the properties that watch them.

## The modules

- `InternalKey`: internal keys, the comparator, and what a read of a set of
  entries returns (`Lookup`). User keys are naturals, because the code only
  compares them. A value is identified by the sequence number of the write that
  stored it, so a read that returns the right number returns the right value.
- `VersionSet`: table metadata, the version, the MANIFEST as a sequence of edits
  and its replay. The replay is written as what the sequence of edits amounts to
  (a table is live when no later edit removes its number), not as a loop.
- `Engine`: the state machine. Variables are the directory (`wal`, `dirty`,
  `manifest`, `files`), the `DB` struct, the goroutines (`checked`, `wr`,
  `spawned`, `fl`, `cursor`) and the ghosts `acked`, `crashes`, `faults`.
- `KVStore`: what the store promises, a map changed by whole batches.
- `EngineRefinement`: the engine implements `KVStore`; the abstract map is what
  a recovery from the present directory would give each key.
- `EngineInvariant`: the inductive invariants `IndInv`, `ReadInv`, `NoGapInv` and `OrderInv`.
- `KeyLemmas`: lemmas about internal keys and `Lookup` that several proofs use.
- `EngineProofs`, `EngineReadProofs`, `EngineRefinementProofs`: the
  proofs about `Engine`, each extending the one before.
- `Compaction`: flush, compaction, snapshots, crash and restart over the tables and
  the MANIFEST. It takes a write and the flush of a memtable as one step each,
  because `Engine` covers what happens within them, and keeps the MANIFEST as the
  version its replay gives. Overlap is decided on the bytes of encoded keys
  (`BytesBefore`), as in the code.
- `CompactionInvariant`, `CompactionProofs`: the inductive invariant of `Compaction`
  and the proofs.
- `Skiplist`, `Readers`: the skip list of a memtable, and gets, snapshots and scans
  that move along it while a writer links entries. `Readers` extends `Skiplist`.
- `ReadersInvariant`, `ReadersProofs`: the inductive invariant of `Readers` and the
  proofs.
- `Block`, `LRUCache`, `SSTable`: blocks with prefix compression and restart points,
  the cache, and the builder, reader and iterators that use both. `SSTable`
  extends the other two.
- `SSTableInvariant`, `SSTableProofs`: the inductive invariant of `SSTable` and the
  proofs.
- `CLI`: the line editor, the commands and the signal goroutine; `CLIProofs`: its
  inductive invariant and the proofs.
- `MCEngine`, `MCCompaction`, `MCReaders`, `MCSSTable`, `MCCLI`: instances for TLC.

A step of the model is the code between two points where another goroutine or a
crash can look: a lock operation or a change of a file.

| Code | Actions |
|---|---|
| `Put`, `Write`, `Delete` | `WriteCheck`, `WriteAppend`, `WriteSync`, `WriteApply`, and `WriteAppendFails`, `WriteAppendTorn`, `WriteSyncFails` |
| `MaybeScheduleFlush` | `FlushStart`, `FlushPick`, `FlushBuild`, `FlushManifestAdd`, `FlushManifestCutoff`, `FlushTruncate`, `FlushRemoveSegment`, `FlushTruncated`, `FlushDrained`, `SkipCompaction`, `FlushCleanup`, a `...Fails` for each file operation whose error is handled, and `FlushSetError` |
| `CompactManifest`, `Close` | `CompactManifest`, `Close` |
| `Open`, `Recover` | `OpenNew`, `RecoverStart`, `ReplaySkip`, `ReplayApply`, `ReplayNextSegment`, `PageBuild`, `PageCommit`, `ReplayDone`, `OpenDone`, `OpenMissing`, and `PageBuildFails`, `PageCommitFails` |
| environment | `Crash`, `PowerLoss`, `TableLoss` |
| `MaybeScheduleCompaction`, `CompactLevel` | `CompactSkip`, `CompactPick`, `CompactStartFile`, `CompactFillFile`, `CompactRemove`, `CompactAdd`, `CompactReadFails`, `CompactBuildFails`, `CompactCommitFails`, `Cleanup` |
| `GetSnapshot`, `ReleaseSnapshot` | the same names in `Compaction` (a list) and `Readers` (one snapshot) |
| `memtable.Insert` | `WriteBegin`, `InsertFind`, one `InsertLink` per level, `WriteEnd` |
| `GetWithOptions`, `NewIterator`, `SeekToFirst`, `Next` | `GetWithOptions`, `NewIterator`, one `ReadAdvance` per `MergeIterator.advance`, `ReadEnd`, `ReadClose` |
| `sstable.NewIterator`, `ReadBlock`, `loadFilter` | `NewIterator`, `CacheHit`, `CacheMiss`, `ReadFile`, `ReadFails`, `ReadFilter` |
| `TableIterator.SeekToFirst`, `Seek`, `Next`, `Close` | `Seek`, `Advance`, `Close` |
| `runInputLoop`, `runSimpleInputLoop` | `Start`, `Entered`, `Edit`, `KeyUp`, `KeyDown`, `KeyEnter`, `KeyCtrl`, `InputEnds`, `SimpleLine`, `Ready`, `Reentered`, `ReadyFails`, `ReadySimple` |
| `handleCommand`, `exec...` | `HandleCommand`, `Open`, `Opened`, `Call`, `Exit` |
| signal goroutine of `main` | `Signal`, `SignalRestore`, `SignalClose`, `SignalExit` |

The three calls share their actions: they differ in the batch and in that
`Delete` never rotates the memtable (`MustRotate`). Memtable and segment sizes
are counted in entries and records. A flush that fails unlocks `db.mu` first and sets the
background error next (`FlushSetError`): in between, callers and `CompactManifest` run
with `bgErr` still nil.

The file system is external. What is written is seen by the next process at
once; it survives a loss of power once fsynced; creating, renaming and removing
files is atomic and durable. `Faults` chooses which failures may happen:
an append that writes nothing, an fsync that fails, a table or a MANIFEST append
that fails (with or without its record on disk), appends cut short
(`tornwal`, `tornmanifest`), a block that cannot be read by a merge (`read`), a loss of power that takes the unsynced tail of the
WAL (`power`), a loss of power that takes a table, none of which is ever fsynced
(`lostsst`).

## What the runs check

Passing runs:

| Run | Distinct states | Shows |
|---|---|---|
| `engine_safety` | 790 thousand | `TypeOK`; `Durable`: every acknowledged write can be recovered at every step; `ReadsSurviveCrash`: what a reader sees now is what it would see after a crash; `SeqFresh`; `VersionMatchesManifest`; `LiveFilesImmutable`; `CutoffMonotone` |
| `engine_refinement` | 86 thousand | `ImplementsKVStore`: the recoverable contents change only by whole batches; `IndInv`, `ReadInv`, `NoGapInv`, the invariants of the proofs |
| `engine_nosync` | 283 thousand | without `SyncWrites`: `Durable` for the writes a loss of power left, `LossIsSuffix`: what it took is a suffix; under fairness `FrozenIsFlushed` and `OpenCompletes` |
| `engine_faults` | 366 thousand | `SnapshotReadsStable` with every kind of fault |
| `compaction` | 2.5 million | `ValuesKept` and `DeletesKept`: reads at every snapshot held are those of the whole history; `TablesBacked`; `ManifestAgrees`; `SeqNotReused`; `CompactionInv`, the invariant of the proofs |
| `readers` | 1.7 million | `ListsSorted`: every level is a sorted list at every step of an insertion; `SnapshotScanExact`; `GetLinearizable`; `ScanComplete`; `ReadersInv`, the invariant of the proofs |
| `sstable` | 1.4 million | `CacheBounded`; `CacheCoherent`; `ScanPrefix`; `ScanExact`; `FilterComplete` |
| `cli` | 881 thousand | `DraftKept`; `CallsHaveDatabase`; `TerminalRestored`; `ClosedAtExit` |

Four properties of `compaction` are conditional, because the code breaks them
otherwise: `ValuesKept`, `DeletesKept`, `TablesBacked` and `ManifestAgrees` except after
a commit that was cut short (`cut`), by a crash, or by a failed append that left
something changed; `ValuesKept` and `DeletesKept` except for the keys with an entry a merge
could not read (`unread`); `DeletesKept` also except after a compaction that left out a
table of its two levels with a user key of its inputs (`missed`). The conditions are
ghosts of the model; the two violation runs on compaction show what happens under
`cut` and `missed`. So collecting tombstones against the oldest snapshot, splitting
outputs and reusing file numbers are sound, and what is lost is lost by the overlap
test, by the commit of several records, or by a merge that takes a read error for the
end of a table; and the last loses nothing of other keys.

`VersionMatchesManifest` and `CutoffMonotone` also cover the time after a failed flush.
The version may then hold a table the MANIFEST does not name, which is the oldest
immutable memtable (or whose entries are in tables the MANIFEST has), and its cutoff may be
behind; and a `CompactManifest` may take the cutoff of the MANIFEST back to that one.
Without a failed flush since `Open` version and MANIFEST are equal.

Each property has a mutant, a plausible slip in one definition (an off-by-one in
the cutoff test, a cutoff too high, a file number handed out again, an order of
versions reversed), under which TLC finds the property violated.

Bounds. `MemLimit` and `SegLimit` of 1 or 2 make memtables, segments and tables
turn over every one or two writes, so three or four sequence numbers give
several frozen memtables, several segments, truncation of some of them and a
batch that straddles a limit. Two crashes give a crash during the recovery from
a crash. One fault at a time, because the code ends the flush or the call at the
first error. `Writers` is 1: a caller waits between the error check and `db.mu`
while the flush fails. In the runs of `Engine` `L0Trigger` is above the number of
tables they create, so no compaction starts there. `MaxSeq`, `MaxCrashes`,
`MaxFaults` and `Writers` only bound the exploration. `engine_faults` does not check for
deadlock: a database that lost a table file cannot be opened again.

`compaction`: a trigger of one table, an `L1Max` of two one-entry tables (a table
counts its entries and one for the rest of the file) and a split after
each entry let three writes reach L2, with versions of one key in several tables
of a level, a tombstone above and below the bottom-most level, and empty outputs.
Its `VIEW` hides the locals of `CompactLevel` that are not read again, so states
that differ only in those are explored once.
One snapshot is taken and released at any time, between the pick and the merge too.
`readers`: two levels of the skip list, memtables of two entries, and four sequence
numbers, so that a rotation falls within a scan and a batch has entries on both
sides of a cursor. There is one writer because `db.mu` admits one, and one reader
because readers share nothing they change. `sstable`: a restart point every two
entries, blocks of four, a table of two data blocks, one with two versions of a key
and one without entries; a cache smaller than the blocks of one table; two
interchangeable readers; a hash of 16 bits (the rotation is by 17 of 32 in the code,
9 of 16 here). It does not check for deadlock: with all files built and removed
there is nothing left to iterate. `cli`: a history of two lines and five edits give
trimming, a draft above an edited line of the history, and several commands; it
does not check for deadlock because the process ends.

Fairness (`FairSpec`). A caller that holds `db.mu` finishes and `Open` runs on
(weak fairness): both are straight-line code of a running goroutine. The flush
competes for `db.mu` with callers that come back again and again; a Go mutex
switches to starvation mode and hands itself to a waiter after a millisecond, so
strong fairness is justified. Calls, faults and crashes are not fair.

Violations. Four runs state what the documentation says and TLC shows that the
code does something else:

- `engine_torn_wal`: a record cut short stays in the segment and the next process
  appends behind it, where no replay reads: writes acknowledged later are lost.
- `engine_lost_table`: the WAL is truncated although the table is not fsynced.
- `compaction_tombstone`: a put of a key is in L1, its delete is compacted from L0. The
  two tables do not overlap by the bytes of their internal keys, the delete is
  collected because nothing lies below L1, and the put is read again.
- `compaction_crash`: a crash between the Remove and the Add records of a commit
  loses the inputs.

Further differences from the documentation can be seen by changing the constants of a
run or dropping the condition of a property, or follow from the code:

- A MANIFEST record cut short has the effect of one in the WAL: tables added behind it
  are not found by the next `Open`, and the WAL was truncated for them. `Durable` is
  violated with `Faults = {"tornmanifest"}` (27 steps).
- `Invariants.md:13` says that a sequence number is never reused even if the write
  fails. A failed fsync leaves the record in the log and the number to the next
  write: `SeqFresh` is violated with `"sync"` in `Faults` (6 steps). `Durable` is proved
  with it.
- `Invariants.md:12` says that the cutoff never decreases. A cutoff record whose append
  failed may be in the MANIFEST and is not in the version, and a `CompactManifest` after
  it writes the smaller one: `CutoffMonotone` without its exception is violated (13 steps).
  No segment was truncated for the lost one, so `Durable` holds.
- `Architecture.md:810` says that compaction keeps the newest version of a key. A block that
  cannot be read ends its table for the merge, without an error (`reader.go:260`,
  `merge_iterator.go:88`, `compaction.go:160`); the compaction commits what it has and
  removes the inputs. `ValuesKept` without the exception for `unread` is violated (10
  steps).
- `Invariants.md:38` says that recovery stops at the first corruption. `Recover` leaves
  the segment there and goes on with the next one (`ReplayNextSegment`).
- `Invariants.md:62` says that file numbers are never reused. The number of a table
  that was written and not recorded before a crash is handed out again
  (`RecoveredFileNum`); `LiveFilesImmutable` and `TablesBacked` show that no live table
  is touched by it. After a commit that was cut, a number may also be handed out
  while it is on the obsolete list of the replayed version; then cleanup may delete
  the new table, which is why `TablesBacked` excepts cut commits.
- Snapshot isolation (`README.md:28` of the repository) holds for reads at a snapshot.
  A scan without one may return half of a batch.
- In `cli`, the signal goroutine may restore the terminal before the main goroutine's
  `MakeRaw`, or within the first `enterRawMode`, when the terminal is raw and `termState`
  still nil: the process then ends in raw mode. A signal during `OPEN` may end the
  process without `Close`. `TerminalRestored` (ghost `late`) and `ClosedAtExit`
  (`openAtSignal`) except exactly these. The end of the input and the fatal error never
  close the database.

## What is proved

All theorems hold for every set of keys and calls, every limit and every bound. They
assume the named `ASSUME`s on the constants and, where the table says so, that some
kinds of fault do not happen:

- `NoTearing`: none of `tornwal`, `tornmanifest`, `lostsst`. None of the three can be
  dropped: `Durable` is violated with each (`engine_torn_wal`, `engine_lost_table`, and
  the MANIFEST case above).
- `SyncsSucceed`: no fsync of the log fails; without `SyncWrites` there is none that
  could. After one, the record is in the log, the
  caller was told of an error, and the number goes to the next write; `SeqFresh`
  and with it the reads of a recovery are violated.
- `PowerStays`: no loss of power. One that takes the unsynced tail of the log takes
  whole batches back, which the abstract store does not do.

Failing appends, table writes and MANIFEST appends and crashes at any step are inside
every theorem.

| Theorem | Says | Assumes |
|---|---|---|
| `EngineInvariantHolds`, `EngineTypeCorrect`, `EngineDurable` | `[]IndInv`, `[]TypeOK`, `[]Durable` | `NoTearing` |
| `EngineVersionMatchesManifest` | `[]VersionMatchesManifest` | `NoTearing` |
| `EngineCutoffMonotone`, `EngineLiveFilesImmutable` | the action properties of the same names | `NoTearing` |
| `EngineReadInvariantHolds`, `EngineSeqFresh`, `EngineReadsSurviveCrash` | `[]ReadInv`, `[]SeqFresh`, `[]ReadsSurviveCrash` | `NoTearing`, `SyncsSucceed` |
| `EngineSnapshotReadsStable` | the action property | `NoTearing`, `SyncsSucceed` |
| `EngineNoGapHolds` | `[]NoGapInv` | `NoTearing`, `SyncsSucceed` |
| `EngineOrderHolds` | `[]OrderInv` | `NoTearing`, `SyncsSucceed` |
| `EngineLossIsSuffix` | the action property `LossIsSuffix` | `NoTearing` |
| `EngineImplementsKVStore` | the refinement of `KVStore` | all three |
| `CompactionInvariantHolds`, `CompactionTypeCorrect` | `[]CompactionInv`, `[]TypeOK` | - |
| `CompactionValuesKept`, `CompactionDeletesKept`, `CompactionTablesBacked`, `CompactionManifestAgrees`, `CompactionSeqNotReused` | the invariants of the run | - |
| `ReadersListInv`, `ReadersInvariantHolds`, `ReadersTypeCorrect` | `[]ListInv`, `[]ReadersInv`, `[]TypeOK` | - |
| `ReadersListsSorted`, `ReadersGetLinearizable`, `ReadersScanComplete`, `ReadersSnapshotScanExact` | the invariants of the run | - |
| `SSTableInvariantHolds`, `TypesHold` | `[]SSTableInv`, `[]TypeOK` | - |
| `CacheStaysBounded`, `CacheStaysCoherent`, `ScansArePrefixes`, `ScansAreExact`, `FilterIsComplete` | the invariants `CacheBounded`, `CacheCoherent`, `ScanPrefix`, `ScanExact`, `FilterComplete` of the run | - |
| `CLITypeCorrect`, `CLIDraftKept`, `CLICallsHaveDatabase`, `CLITerminalRestored`, `CLIClosedAtExit` | the invariants of the run | - |

### Durability (`EngineProofs`)

`Durable` alone is not inductive: a flush raises the cutoff past records of the log,
which is safe only because of where the entries went. `IndInv` says where they are.

- `ManifestInv`, `VersionInv`: the MANIFEST is intact, its tables have files, the
  version has at least its tables and at most its cutoff, and all numbers it names
  are below the counters. (After a failed append the two may differ; hence
  inclusions, not equalities.)
- `MemInv`: frozen memtables and the active one hold consecutive generations of
  sequence numbers. So when the cutoff rises to the largest number of the oldest
  one, no younger memtable has an entry at or below it.
- `WalInv`, `WriterInv`: records are whole, the record of the call in progress is
  the last one, and it is fsynced before the call is acknowledged.
- `FlushInv`: the table being committed holds exactly the oldest memtable under a
  number no live table has; the segments chosen for removal hold nothing above
  the cutoff.
- `ReplayInv`: what recovery has passed is in a table or in its memtable, or
  superseded.
- `AckedInv`: an acknowledged entry is in a table of the MANIFEST or in a record
  of the log above the cutoff that a loss of power spares; and while the database
  is open it is in a table or in a memtable. The second half is what makes the
  cutoff step safe: an acknowledged entry whose record falls under the cutoff is
  in the memtable just flushed or in an older table.

One lemma per action (`XPreserves`) shows that the action preserves `IndInv`;
the lemmas at the beginning of the module are what they share: largest elements, the effect of an edit on
what the MANIFEST says, the effect of an append on the log.

Without `SyncWrites` the ghost `acked` is cut to what survived at a loss of power
(`PowerLoss`), so there `Durable` speaks of everything but that; that the cut is a
suffix is `LossIsSuffix`, below.

### Reads and the refinement (`EngineReadProofs`, `EngineRefinementProofs`)

`IndInv` speaks of acknowledged entries only; what a read answers depends on all of
them. `ReadInv` adds that the version and the MANIFEST agree until a flush fails, from the
failing step on and not only once its error is set (`MatchInv`), that a table's metadata describes its file (`DescribedInv`, from which the
bounds skip no table that holds the key), that everything is finite, and `CoverInv`:
the log up to the cutoff is in tables, memtables are in the log or in tables, and the
log of an open database is in tables, in memtables or the record of the call in
progress. So what a Get merges and what a recovery would rebuild are the same versions
of a key, and `Lookup` depends on nothing else.

For the refinement the next number must also be the one the abstract store expects.
`NoGapInv` says that the number before it is that of an entry in the directory, and a
cutoff that of an entry in a table, so a recovery continues where the numbers stopped.
The one step that changes the abstract map is the append of the record; every other
step leaves the recoverable versions as they are.

### What a loss of power takes (`EngineRefinementProofs`)

With `SyncWrites` nothing acknowledged is lost, so `LossIsSuffix` says nothing new.
Without, a loss of power takes records off the end of the log, and the claim is that
everything left is older, also what has gone to tables. `OrderInv` adds to `ReadInv`:

- `LogOrdered`: a record's numbers are above those of all records before it, across
  segments and restarts.
- `TablesOlder`: what a table of the MANIFEST holds is older than what only the log holds.
- `UnrecordedIsOldest`: a table in the version whose record failed holds the oldest
  immutable memtable. Such a table gets into the MANIFEST by a later
  `CompactManifest`, out of turn, which is safe only because it is the oldest. It is
  also what `EngineVersionMatchesManifest` needs.
- `ReplayedIsBehind`: what `Recover` has in its memtable is from records it has passed, so
  a page it writes is older than what it has not read.

`OrderInv` was checked with TLC on the instances of `engine_refinement` and
`engine_nosync` before it was proved; it is not an invariant of a run of its own because
`LossIsSuffix`, which it is for, is checked there.

### Compaction (`CompactionProofs`)

`ValuesKept` is not inductive: a merge drops entries long before the commit makes it
visible, and a snapshot may come and go in between. `CompactionInv` has a part for each
stage.

- `TypeInv`, `SeqInv`: hold always, also after a commit that was cut. The memtables hold
  the entries above the cutoff, files and the merge those up to it.
- `FileInv`, `CompactInv`: live tables have distinct numbers and their files; numbers of
  obsolete tables are below a live one, so the counter a restart computes is above
  them; the outputs of a merge have numbers nothing else has.
- `MergeInv`: what is written and what is left to merge are inputs, in order; what was
  dropped has a key with an unread entry, or lies behind a tombstone of the inputs that every snapshot sees, and nothing
  kept lies behind that tombstone. Snapshots taken after the pick are newer than the
  inputs, so looking the oldest one up before the merge is sound.
- `SoundInv`: whenever `db.mu` is free, every entry ever written is in a memtable or a
  table, or behind a tombstone that every reader sees, or has a key a merge could not read
  all of (`Kept`). As long as no
  compaction left out a table (`missed`), nothing readable lies behind that tombstone
  and the versions of a key get older from level to level (`Ordered`), which is what
  makes a tombstone above empty levels collectable. From the end of the merge to the
  commit the same is claimed of the tables as they will be (`Planned`).

The three ghosts stay conditions of the theorems because the code does break the
properties under them.

### Reads beside writes (`ReadersProofs`)

The search of the skip list (`Walk`, `Update`) and the moves of a cursor (`Fetch`,
`SkipKey`) are recursive functions on the nodes of a list. The provers have no
induction, but a list is finite and ordered, which is enough: if the function and
the value it should have differed at a node, they would differ at a last such node,
and one unfolding there is a contradiction. So `Walk` gives the last node before the
entry (`WalkIs`), `Fetch` the first visible node (`FetchIs`), and `SkipKey` the first
visible node with another key (`SkipKeyIs`).

The invariant has two layers. `ListInv` does not mention the reader's position: each
level of a memtable is a `Chain` (sorted, from the head to nil, nothing left out), each
within the one below; the entry being inserted is on the levels below `wr.level` and
fits behind `update[i]` on the others; sequence numbers are handed out once, the
older ones in the older memtables. `ReadersInv` adds the reader:

- `CursorOK`: a cursor shows a visible node of its list, and its child iterator
  stands at or before the next visible one.
- `Behind`: for some key `last` the read has passed, no visible version of a later key
  is behind a cursor. Without a snapshot the keys written meanwhile are excepted, in
  the memtable that was active at the start only, since the others are frozen.
- `Returned`: what a scan has returned is right up to `last`.
- for a Get without a snapshot, the lookup of its key in front of its cursors (`Ahead`)
  is one of the answers that were current since the call. An insertion in front of
  the cursors changes it to the current answer, one behind them leaves it alone.

`Best` is the first visible node in front of all cursors, so a read learns what there
is up to `Best.key` (`BestLookup`); each advance moves `last` there (`AdvanceCursor`).

### Tables, iterators and the cache (`SSTableProofs`)

`ScanExact` speaks of an iterator that is done. While it runs, whether it will be right
depends on every byte it has yet to decode and on every cached block it will be given,
so `SSTableInv` says what the bytes mean and where the iterator stands.

- `Encodes`: a block holds a stretch of a sequence of entries. What an entry shares
  with its predecessor and the rest of its key make its key, and an entry at a restart
  point shares nothing, so decoding may start there. Data blocks encode the entries
  of the table, the index block the last key and the place of each data block.
- `TableOK`: the builder cut the entries into the data blocks at growing places
  (`CutAt`), left none out, and put every user key into the filter.
- `BlockIterOK`: a block iterator holds the key its next entry was compressed against,
  or that entry shares nothing.
- `IteratorOK`: the block an iterator has asked for is the one its index is on
  (`Phase`); it has returned the entries from its start up to the one it is on
  (`ScanOK`, `At`), or, while a seek waits for its block, the first entry not before the
  target is in that block (`TargetIn`). That is what the index's last keys are for.
- `FilesOK`: a number names one file, in the directory and for all who have it open,
  until a restart. A removed file may still be open, so the directory alone does not
  say it.
- `CacheOK`: the cache's usage is the sum of its sizes, a key has one element, and an
  element is a block of the file of its number.

The builder, the binary search over restart points, the scan behind it and the eviction
loop are recursive functions on numbers. That such a function has the value its
definition gives is shown first (a function defined on 0 to N extends to N + 1), and
what it computes by induction on the numbers up to a bound (`UpTo`), with the loop's
invariant in the role of the induction hypothesis: `BuilderAt` for the builder,
`Searching` for the binary search.

`SSTableInv` was checked with TLC on the instance of `sstable` with one reader (11.5
thousand states); it is no invariant of the run itself, because evaluating it for two
readers takes more time than a run has.

### Only model-checked

Liveness (`FrozenIsFlushed`, `OpenCompletes`) and `ENABLED`: outside the prover's reach.

## What is not modelled

- The composition of all parts in one state space. `Engine` has no compaction,
  `Compaction` takes a write and a flush as one step, `Readers` has no tables of its
  own (a flushed memtable holds the same entries, and a reader keeps the file it
  opened), `SSTable` knows no versions. Each module states what it takes from the
  others, and the properties of the others show it: that a live table keeps its file
  (`LiveFilesImmutable`, `TablesBacked`), that a table reads back as its entries
  (`ScanExact`), that reads do not change with a flush (`SnapshotReadsStable`).
- `CompactLevel` called directly, beside the background compaction: it is exported,
  but only tests call it. `freezeMemtable`, which only tests call. `Memtable.Get`, and
  the iterator `Seek`s of the memtable, which nothing calls on the read path.
- Encodings (varints, little-endian fields, checksums, zlib) are modelled by their
  result, except the byte order of encoded keys, on which `GetOverlappingInputs`
  depends. Values and key bytes elsewhere; the widths of sequence and segment numbers
  (2^56 writes, 10^6 segments).
- Weak memory: stores of the writer become visible in program order. The code reads
  `next` pointers without synchronization, which the Go memory model does not allow.
- File descriptors: table iterators are never closed by the engine.
- The text the command line prints.
- Errors that leave nothing behind (a failed `os.Remove`), and those of `CompactManifest`
  before the rename. When the MANIFEST cannot be reopened after a rewrite, every later
  append to it fails, which is the failing MANIFEST append the model has.
- The `recover` of `MaybeScheduleFlush`: no step of the model panics.
- A database used again in the process after `Close`. `Close` is taken together with the
  end of the process, although a flush goroutine outlives it; and the two `Close` calls of
  the command line, by the main and the signal goroutine, do not overlap in the model.

## Plan

1. Done: `InternalKey`, `VersionSet`, `Engine`, `KVStore`, refinement, inductive
   invariant, proofs of type correctness and durability.
2. Done: `Compaction`, `Skiplist` and `Readers`, `Block`, `LRUCache` and `SSTable`, `CLI`.
3. Done: the other safety and action properties of `Engine`, the refinement, and the
   invariants of `Compaction` and `CLI` as theorems.
4. Done: the invariants of `Readers` as theorems.
5. Done: the invariants of `SSTable` and `LossIsSuffix` as theorems. No safety property a
   passing run checks is left without one.
