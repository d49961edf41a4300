------------------------------- MODULE Engine -------------------------------
(***************************************************************************)
(* The storage engine's write, flush, close, crash and recovery paths      *)
(* (engine/db.go, engine/flush.go, engine/recovery.go, wal/, manifest/).   *)
(*                                                                         *)
(* Three kinds of goroutine share the database: callers of Put, Write and  *)
(* Delete, serialised by db.mu; MaybeScheduleFlush, serialised by flushMu, *)
(* which takes db.mu only to pick a memtable and to commit a table; and,   *)
(* after a restart, the single-threaded Open.  A crash may fall between    *)
(* any two steps.                                                          *)
(*                                                                         *)
(* The steps of a goroutine are the pieces of its code between two         *)
(* operations another goroutine or a crash can observe: a lock operation,  *)
(* or a change of a file.                                                  *)
(*                                                                         *)
(* The file system (external): a write is visible to the next process at   *)
(* once; it survives a loss of power once the file has been fsynced;       *)
(* creating, renaming and removing files is atomic and durable.            *)
(***************************************************************************)
EXTENDS VersionSet

CONSTANTS
    Keys,           \* user keys
    Ops,            \* calls: [kind : {"Put","Write","Delete"}, batch : Seq(...)]
    SyncWrites,     \* Config.SyncWrites
    MemLimit,       \* Config.MemtableSizeLimit, in entries
    SegLimit,       \* the size limit of a WAL segment, in records
    L0Trigger,      \* Config.L0CompactionTrigger
    L1Max,          \* Config.L1MaxBytes, in units of TableMeta.size
    Writers,        \* bound: callers between the error check and db.mu
    Faults,         \* the kinds of fault the environment may inject
    MaxSeq,         \* bound: no write starts past this sequence number
    MaxCrashes,     \* bound on crashes and orderly restarts
    MaxFaults       \* bound on injected faults

\* The operations of a batch: what the caller passes in wal.LogicalRecord.
Logical == [key : Keys, typ : RecordTypes]

FaultKinds ==
    {"append",      \* WAL append fails and writes nothing
     "sync",        \* WAL fsync fails
     "tornwal",     \* a WAL append is cut short (error or crash)
     "build",       \* writing an SSTable fails
     "manifest",    \* MANIFEST append fails, with or without the record
     "tornmanifest",\* a MANIFEST append is cut short (error or crash)
     "power",       \* loss of power: the unsynced tail of the WAL is lost
     "lostsst"}     \* loss of power: an SSTable that was not synced is lost

ASSUME KeysAssumption == Keys \subseteq Nat
ASSUME OpsAssumption ==
    Ops \subseteq [kind : {"Put", "Write", "Delete"}, batch : Seq(Logical) \ {<<>>}]
ASSUME SyncAssumption == SyncWrites \in BOOLEAN
ASSUME LimitsAssumption ==
    /\ MemLimit \in Nat \ {0} /\ SegLimit \in Nat \ {0}
    /\ L0Trigger \in Nat \ {0} /\ L1Max \in Nat \ {0}
ASSUME BoundsAssumption ==
    /\ Writers \in Nat \ {0} /\ MaxSeq \in Nat
    /\ MaxCrashes \in Nat /\ MaxFaults \in Nat
ASSUME FaultsAssumption == Faults \subseteq FaultKinds

VARIABLES
    \* The directory.
    wal,            \* segments in order of number; a segment is a sequence of records
    dirty,          \* records at the end of the last segment not yet fsynced
    manifest,       \* the edits of the MANIFEST
    files,          \* file number -> entries of the SSTable
    \* The DB struct.
    phase,          \* "new", "down", "replay", "page", "pagecommit", "open", "up"
    nextSeq, nextFileNum, memtable, immutables, version,
    bgErr,          \* db.bgErr # nil
    mu,             \* who holds db.mu: "free", "writer", "flush"
    \* Goroutines.
    checked,        \* callers past checkBackgroundError, waiting for db.mu
    wr,             \* the caller that holds db.mu
    spawned,        \* goroutines waiting for flushMu
    fl,             \* the goroutine that holds flushMu
    cursor,         \* Recover's position: <<segment, record>>
    \* Ghosts.
    acked,          \* entries of the calls that returned nil
    crashes, faults

disk == <<wal, dirty, manifest, files>>
memory == <<nextSeq, nextFileNum, memtable, immutables, version>>
locks == <<bgErr, mu, checked, wr, spawned, fl>>
counters == <<crashes, faults>>
vars == <<disk, phase, memory, locks, cursor, acked, counters>>

-----------------------------------------------------------------------------
(* WAL records and segments.                                               *)

\* The entries of a batch whose first sequence number is seq.
EntriesOf(batch, seq) ==
    {InternalKeyOf(batch[i].key, seq + i - 1, batch[i].typ) : i \in DOMAIN batch}

\* A whole record, and what a cut-short append leaves.
WalRecord(batch, seq) ==
    [ok |-> TRUE, ents |-> EntriesOf(batch, seq), last |-> seq + Len(batch) - 1]
TornWalRecord == [ok |-> FALSE, ents |-> {}, last |-> 0]

\* WAL.Append starts a new segment when the record does not fit.
SegmentFull == Len(wal[Len(wal)]) >= SegLimit

\* The log with a record added, and how many records are then unsynced:
\* rotate() closes the old segment, and Segment.Close fsyncs it.
Rotated == IF SegmentFull THEN Append(wal, <<>>) ELSE wal
RotatedDirty == IF SegmentFull THEN 0 ELSE dirty
Appended(w, rec) == [w EXCEPT ![Len(w)] = Append(@, rec)]

\* Recover and Truncate read a segment up to the first bad record.
Readable(i, j) == \A k \in 1..j : wal[i][k].ok

\* Mutant: the replay also skips the batch just above the cutoff.
SupersededOffByOne(rec, cutoff) == rec.last <= cutoff + 1

\* Recover skips a batch when all of it is at or below the cutoff.
Superseded(rec, cutoff) == rec.last <= cutoff

\* Mutant: only the first record of a segment is looked at.
TruncatableFirstOnly(seg, cutoff) ==
    seg # <<>> => seg[1].ok /\ seg[1].last <= cutoff

\* A segment Truncate may delete: no bad record, nothing above the cutoff.
Truncatable(seg, cutoff) ==
    \A j \in DOMAIN seg : seg[j].ok /\ seg[j].last <= cutoff

\* Mutant: the last segment of the prefix is not deleted.
DeletableKeepOne(cutoff) ==
    Cardinality({n \in 0..(Len(wal) - 1) :
                    \A i \in 1..n : Truncatable(wal[i], cutoff)}) - 2

\* Mutant: the active segment is a candidate too.
DeletableWithActive(cutoff) ==
    IF \E i \in 1..Len(wal) : \E j \in DOMAIN wal[i] : ~wal[i][j].ok THEN 0
    ELSE CHOOSE n \in 0..Len(wal) :
             /\ \A i \in 1..n : Truncatable(wal[i], cutoff)
             /\ n < Len(wal) => ~Truncatable(wal[n + 1], cutoff)

(***************************************************************************)
(* wal.Truncate deletes a prefix of the segments, never the last one.  It  *)
(* gives up without deleting when it meets a bad record before the end of  *)
(* that prefix.                                                            *)
(***************************************************************************)
Deletable(cutoff) ==
    LET prefix == {n \in 0..(Len(wal) - 1) :
                      \A i \in 1..n : Truncatable(wal[i], cutoff)}
        n == CHOOSE n \in prefix : \A p \in prefix : p <= n
    IN  IF n < Len(wal) - 1 /\ \E j \in DOMAIN wal[n + 1] : ~wal[n + 1][j].ok
        THEN 0 ELSE n

-----------------------------------------------------------------------------
(* SSTable files.                                                          *)

\* NewBuilder creates or truncates the file, Close completes it.
WriteFile(num, S) ==
    [n \in DOMAIN files \cup {num} |-> IF n = num THEN S ELSE files[n]]

RemoveFiles(nums) == [n \in DOMAIN files \ nums |-> files[n]]

\* cleanupObsoleteFiles: remove the files of the obsolete numbers.
CleanupObsoleteFiles ==
    /\ files' = RemoveFiles(version.obsolete)
    /\ version' = [version EXCEPT !.obsolete = {}]

-----------------------------------------------------------------------------
(* What a process starts with, and what is left of it when it ends.        *)

IdleWriter == [pc |-> "idle", kind |-> "Put", batch |-> <<>>]
IdleFlush == [pc |-> "idle", num |-> 0, seq |-> 0, ndel |-> 0]

\* A flush that met an error and has not yet reported it.
FailedFlush == [pc |-> "error", num |-> 0, seq |-> 0, ndel |-> 0]

Init ==
    /\ wal = <<>> /\ dirty = 0 /\ manifest = <<>>
    /\ files = [n \in {} |-> {}]
    /\ phase = "new"
    /\ nextSeq = 1 /\ nextFileNum = 1
    /\ memtable = {} /\ immutables = <<>> /\ version = NewVersionSet
    /\ bgErr = FALSE /\ mu = "free" /\ checked = 0 /\ wr = IdleWriter
    /\ spawned = 0 /\ fl = IdleFlush
    /\ cursor = <<1, 1>>
    /\ acked = {}
    /\ crashes = 0 /\ faults = 0

\* The process is gone, or Open has returned an error.
ProcessEnds ==
    /\ phase' = "down"
    /\ nextSeq' = 1 /\ nextFileNum' = 1
    /\ memtable' = {} /\ immutables' = <<>> /\ version' = NewVersionSet
    /\ bgErr' = FALSE /\ mu' = "free" /\ checked' = 0 /\ wr' = IdleWriter
    /\ spawned' = 0 /\ fl' = IdleFlush
    /\ cursor' = <<1, 1>>

\* The environment injects a fault of one of the given kinds.
Fault(kind) ==
    /\ kind \in Faults
    /\ faults < MaxFaults
    /\ faults' = faults + 1
    /\ UNCHANGED crashes

-----------------------------------------------------------------------------
(* Put, Write and Delete.                                                  *)

\* checkBackgroundError, before db.mu is taken.
WriteCheck ==
    /\ phase = "up"
    /\ ~bgErr
    /\ checked < Writers
    /\ checked' = checked + 1
    /\ UNCHANGED <<disk, phase, memory, bgErr, mu, wr, spawned, fl, cursor, acked, counters>>

\* A caller takes db.mu with the operation op in hand.
CanWrite(op) ==
    /\ phase = "up" /\ mu = "free" /\ checked > 0
    /\ nextSeq + Len(op.batch) - 1 <= MaxSeq

\* db.mu.Lock and wal.Append: the batch gets the sequence numbers from nextSeq.
WriteAppend(op) ==
    /\ CanWrite(op)
    /\ checked' = checked - 1
    /\ mu' = "writer"
    /\ wal' = Appended(Rotated, WalRecord(op.batch, nextSeq))
    /\ dirty' = RotatedDirty + 1
    /\ wr' = [pc |-> IF SyncWrites THEN "appended" ELSE "synced",
              kind |-> op.kind, batch |-> op.batch]
    /\ UNCHANGED <<manifest, files, phase, memory, bgErr, spawned, fl, cursor, acked, counters>>

\* wal.Append fails before the record is written, perhaps after the rotation:
\* the call returns the error.
WriteAppendFails(op) ==
    /\ CanWrite(op)
    /\ Fault("append")
    /\ checked' = checked - 1
    /\ \/ UNCHANGED <<wal, dirty>>
       \/ wal' = Rotated /\ dirty' = RotatedDirty
    /\ UNCHANGED <<manifest, files, phase, memory, bgErr, mu, wr, spawned, fl, cursor, acked>>

\* Only a part of the record reaches the file.
WriteAppendTorn(op) ==
    /\ CanWrite(op)
    /\ Fault("tornwal")
    /\ checked' = checked - 1
    /\ wal' = Appended(Rotated, TornWalRecord)
    /\ dirty' = RotatedDirty + 1
    /\ UNCHANGED <<manifest, files, phase, memory, bgErr, mu, wr, spawned, fl, cursor, acked>>

\* wal.Sync, when SyncWrites is set.
WriteSync ==
    /\ wr.pc = "appended"
    /\ dirty' = 0
    /\ wr' = [wr EXCEPT !.pc = "synced"]
    /\ UNCHANGED <<wal, manifest, files, phase, memory, bgErr, mu, checked, spawned, fl,
                   cursor, acked, counters>>

\* wal.Sync fails: the call returns without advancing nextSeq.
WriteSyncFails ==
    /\ wr.pc = "appended"
    /\ Fault("sync")
    /\ wr' = IdleWriter /\ mu' = "free"
    /\ UNCHANGED <<disk, phase, memory, bgErr, checked, spawned, fl, cursor, acked>>

\* Mutant: a batch takes one sequence number.
SeqAfterSingle(batch) == nextSeq + 1

\* nextSeq after a batch.
SeqAfter(batch) == nextSeq + Len(batch)

\* Put and Write rotate a memtable that reached the limit; Delete does not look.
MustRotate(kind, S) == kind # "Delete" /\ Cardinality(S) >= MemLimit

\* Mutant: a flush already under way is trusted to see the new immutable.
SpawnIfIdle == IF fl.pc = "idle" THEN spawned + 1 ELSE spawned

\* Every rotation starts a goroutine.
SpawnFlush == spawned + 1

\* memtable.Insert, rotation with "go MaybeScheduleFlush", nextSeq, return nil.
WriteApply ==
    LET ents == EntriesOf(wr.batch, nextSeq)
        full == MustRotate(wr.kind, memtable \cup ents)
    IN  /\ wr.pc = "synced"
        /\ memtable' = IF full THEN {} ELSE memtable \cup ents
        /\ immutables' = IF full THEN Append(immutables, memtable \cup ents) ELSE immutables
        /\ spawned' = IF full THEN SpawnFlush ELSE spawned
        /\ nextSeq' = SeqAfter(wr.batch)
        /\ acked' = acked \cup ents
        /\ wr' = IdleWriter /\ mu' = "free"
        /\ UNCHANGED <<disk, phase, nextFileNum, version, bgErr, checked, fl, cursor, counters>>

-----------------------------------------------------------------------------
(* MaybeScheduleFlush.                                                     *)

\* flushMu.Lock by one of the goroutines started by a rotation.  The deferred
\* recover() reports a panic as setBackgroundError does; no step here panics.
FlushStart ==
    /\ phase = "up" /\ fl.pc = "idle" /\ spawned > 0
    /\ spawned' = spawned - 1
    /\ fl' = [fl EXCEPT !.pc = "loop"]
    /\ UNCHANGED <<disk, phase, memory, bgErr, mu, checked, wr, cursor, acked, counters>>

\* Under db.mu: take the oldest immutable memtable and a file number.
FlushPick ==
    /\ fl.pc = "loop" /\ mu = "free" /\ immutables # <<>>
    /\ fl' = [fl EXCEPT !.pc = "build", !.num = nextFileNum]
    /\ nextFileNum' = nextFileNum + 1
    /\ UNCHANGED <<disk, phase, nextSeq, memtable, immutables, version,
                   bgErr, mu, checked, wr, spawned, cursor, acked, counters>>

\* Under db.mu: nothing left to flush, leave the loop.
FlushDrained ==
    /\ fl.pc = "loop" /\ mu = "free" /\ immutables = <<>>
    /\ fl' = [fl EXCEPT !.pc = "compact"]
    /\ UNCHANGED <<disk, phase, memory, bgErr, mu, checked, wr, spawned, cursor, acked, counters>>

\* flushMemtable, without a lock: write the table.  The file is not fsynced.
FlushBuild ==
    /\ fl.pc = "build"
    /\ files' = WriteFile(fl.num, Head(immutables))
    /\ fl' = [fl EXCEPT !.pc = "commit", !.seq = LargestSeq(Head(immutables))]
    /\ UNCHANGED <<wal, dirty, manifest, phase, memory, bgErr, mu, checked, wr, spawned,
                   cursor, acked, counters>>

\* The goroutine has given up with the memtable unflushed; db.mu is free, and
\* the error is not yet where the callers look for it.
FlushAborts == fl' = FailedFlush

FlushBuildFails ==
    /\ fl.pc = "build"
    /\ Fault("build")
    /\ files' = WriteFile(fl.num, {})
    /\ FlushAborts
    /\ UNCHANGED <<wal, dirty, manifest, phase, memory, bgErr, mu, checked, wr, spawned,
                   cursor, acked>>

\* The metadata flushMemtable returned.
FlushedTable == TableMeta(fl.num, 0, Head(immutables))

\* db.mu.Lock, version.AddTable and the Add record, fsynced.
FlushManifestAdd ==
    /\ fl.pc = "commit" /\ mu = "free"
    /\ mu' = "flush"
    /\ version' = AddTable(version, FlushedTable)
    /\ manifest' = Append(manifest, AddRecord(FlushedTable))
    /\ fl' = [fl EXCEPT !.pc = "cutoff"]
    /\ UNCHANGED <<wal, dirty, files, phase, nextSeq, nextFileNum, memtable, immutables,
                   bgErr, checked, wr, spawned, cursor, acked, counters>>

\* What a failed MANIFEST append of rec leaves: nothing, or the record when
\* only the fsync failed, or a part of it.
ManifestAppendFails(rec) ==
    \/ Fault("manifest") /\ manifest' \in {manifest, Append(manifest, rec)}
    \/ Fault("tornmanifest") /\ manifest' = Append(manifest, TornRecord)

\* Mutant: the memtable is dropped although its record failed.
FlushManifestAddFailsDrops ==
    /\ fl.pc = "commit" /\ mu = "free"
    /\ version' = AddTable(version, FlushedTable)
    /\ ManifestAppendFails(AddRecord(FlushedTable))
    /\ immutables' = Tail(immutables)
    /\ FlushAborts
    /\ UNCHANGED <<wal, dirty, files, phase, nextSeq, nextFileNum, memtable,
                   bgErr, mu, checked, wr, spawned, cursor, acked>>

\* The table stays in the version although the append failed; db.mu.Unlock.
FlushManifestAddFails ==
    /\ fl.pc = "commit" /\ mu = "free"
    /\ version' = AddTable(version, FlushedTable)
    /\ ManifestAppendFails(AddRecord(FlushedTable))
    /\ FlushAborts
    /\ UNCHANGED <<wal, dirty, files, phase, nextSeq, nextFileNum, memtable, immutables,
                   bgErr, mu, checked, wr, spawned, cursor, acked>>

\* Mutant: the cutoff is the last sequence number handed out.
FlushCutoffLatest == nextSeq - 1

\* The sequence number up to which the flushed table supersedes the WAL.
FlushCutoff == fl.seq

\* The SetWALCutoff record, fsynced; version and list of immutables; unlock.
FlushManifestCutoff ==
    /\ fl.pc = "cutoff"
    /\ manifest' = Append(manifest, CutoffRecord(FlushCutoff))
    /\ version' = SetWALCutoff(version, FlushCutoff)
    /\ immutables' = Tail(immutables)
    /\ mu' = "free"
    /\ fl' = [fl EXCEPT !.pc = "truncate"]
    /\ UNCHANGED <<wal, dirty, files, phase, nextSeq, nextFileNum, memtable,
                   bgErr, checked, wr, spawned, cursor, acked, counters>>

\* db.mu.Unlock without the cutoff in the version: the MANIFEST may have it.
FlushManifestCutoffFails ==
    /\ fl.pc = "cutoff"
    /\ ManifestAppendFails(CutoffRecord(FlushCutoff))
    /\ mu' = "free"
    /\ FlushAborts
    /\ UNCHANGED <<wal, dirty, files, phase, memory, bgErr, checked, wr, spawned, cursor, acked>>

\* setBackgroundError, under bgErrMu alone, and return: flushMu.Unlock.
FlushSetError ==
    /\ fl.pc = "error"
    /\ bgErr' = TRUE
    /\ fl' = IdleFlush
    /\ UNCHANGED <<disk, phase, memory, mu, checked, wr, spawned, cursor, acked, counters>>

\* wal.Truncate lists and reads the segments, without a lock.
FlushTruncate ==
    /\ fl.pc = "truncate"
    /\ fl' = [fl EXCEPT !.pc = "remove",
                        !.ndel = IF fl.seq > 0 THEN Deletable(fl.seq) ELSE 0]
    /\ UNCHANGED <<disk, phase, memory, bgErr, mu, checked, wr, spawned, cursor, acked, counters>>

\* wal.Truncate removes the segments it found, oldest first.
FlushRemoveSegment ==
    /\ fl.pc = "remove" /\ fl.ndel > 0
    /\ wal' = Tail(wal)
    /\ fl' = [fl EXCEPT !.ndel = @ - 1]
    /\ UNCHANGED <<dirty, manifest, files, phase, memory, bgErr, mu, checked, wr, spawned,
                   cursor, acked, counters>>

\* Back to the head of the loop.
FlushTruncated ==
    /\ fl.pc = "remove" /\ fl.ndel = 0
    /\ fl' = [fl EXCEPT !.pc = "loop"]
    /\ UNCHANGED <<disk, phase, memory, bgErr, mu, checked, wr, spawned, cursor, acked, counters>>

\* MaybeScheduleCompaction finds no level over its target.
SkipCompaction ==
    /\ fl.pc = "compact"
    /\ ~NeedsCompaction(version, L0Trigger, L1Max)
    /\ fl' = [fl EXCEPT !.pc = "cleanup"]
    /\ UNCHANGED <<disk, phase, memory, bgErr, mu, checked, wr, spawned, cursor, acked, counters>>

\* cleanupObsoleteFiles; flushMu.Unlock.
FlushCleanup ==
    /\ fl.pc = "cleanup"
    /\ CleanupObsoleteFiles
    /\ fl' = IdleFlush
    /\ UNCHANGED <<wal, dirty, manifest, phase, nextSeq, nextFileNum, memtable, immutables,
                   bgErr, mu, checked, wr, spawned, cursor, acked, counters>>

-----------------------------------------------------------------------------
(* CompactManifest and Close.                                              *)

\* The sequences that list each member of a finite set once.
Listings(S) == {s \in [1..Cardinality(S) -> S] : {s[i] : i \in DOMAIN s} = S}

\* Rewrite the MANIFEST (tmp file, fsync, rename) as the live tables and the
\* cutoff.  It looks at no background error.  A failure before the rename
\* leaves the file as it was; one after it may leave a closed handle, whose
\* appends then fail as those of the fault "manifest" do.
CompactManifest ==
    /\ phase = "up" /\ mu = "free"
    /\ \E tables \in Listings(version.tables) :
          manifest' = Append([i \in DOMAIN tables |-> AddRecord(tables[i])],
                             CutoffRecord(version.cutoff))
    /\ UNCHANGED <<wal, dirty, files, phase, memory, locks, cursor, acked, counters>>

\* Close by the last caller, followed by the end of the process: the WAL is
\* fsynced, obsolete files are removed, a flush in progress is not awaited.
Close ==
    /\ phase = "up" /\ mu # "writer" /\ checked = 0
    /\ crashes < MaxCrashes
    /\ crashes' = crashes + 1
    /\ dirty' = 0
    /\ files' = RemoveFiles(version.obsolete)
    /\ ProcessEnds
    /\ UNCHANGED <<wal, manifest, acked, faults>>

-----------------------------------------------------------------------------
(* What a restart would rebuild from the directory as it is.               *)

\* The WAL records above the cutoff that Recover would reach.
ReplayableEntries ==
    LET cutoff == ManifestCutoff(manifest)
    IN  UNION {UNION {wal[i][j].ents :
                      j \in {k \in DOMAIN wal[i] : Readable(i, k) /\ wal[i][k].last > cutoff}}
               : i \in DOMAIN wal}

\* The entries of the tables the MANIFEST names.
TableEntries ==
    UNION {files[t.num] : t \in {u \in ManifestTables(manifest) : u.num \in DOMAIN files}}

Recoverable == TableEntries \cup ReplayableEntries

-----------------------------------------------------------------------------
(* Crashes.                                                                *)

\* The process dies; what it wrote is still there.
Crash ==
    /\ phase \notin {"new", "down"}
    /\ crashes < MaxCrashes
    /\ crashes' = crashes + 1
    /\ ProcessEnds
    /\ UNCHANGED <<disk, acked, faults>>

(***************************************************************************)
(* The machine loses power: records of the last WAL segment that were not  *)
(* fsynced may be gone.  Without SyncWrites the calls they belong to       *)
(* returned nil all the same, and acked keeps what is left of them.        *)
(***************************************************************************)
PowerLoss ==
    /\ phase # "new" /\ wal # <<>>
    /\ "power" \in Faults
    /\ crashes < MaxCrashes
    /\ crashes' = crashes + 1
    /\ \E lost \in 0..dirty :
          wal' = [wal EXCEPT ![Len(wal)] = SubSeq(@, 1, Len(@) - lost)]
    /\ dirty' = 0
    /\ UNCHANGED <<manifest, files, faults>>
    /\ acked' = IF SyncWrites THEN acked ELSE acked \cap Recoverable'
    /\ ProcessEnds

\* The machine loses power: no SSTable was ever fsynced, nor was the
\* directory, so the contents of one, or the file itself, may be gone.
TableLoss ==
    /\ phase # "new"
    /\ crashes < MaxCrashes
    /\ crashes' = crashes + 1
    /\ "lostsst" \in Faults
    /\ faults < MaxFaults
    /\ faults' = faults + 1
    /\ \E n \in DOMAIN files : files' \in {WriteFile(n, {}), RemoveFiles({n})}
    /\ ProcessEnds
    /\ UNCHANGED <<wal, dirty, manifest, acked>>

-----------------------------------------------------------------------------
(* Open: a new database, or Recover.                                       *)

\* No MANIFEST: create the WAL directory and an empty MANIFEST.
OpenNew ==
    /\ phase = "new"
    /\ phase' = "open"
    /\ UNCHANGED <<disk, memory, locks, cursor, acked, counters>>

\* The largest of a set of numbers, or 0.
MaxOrZero(S) == IF S = {} THEN 0 ELSE CHOOSE n \in S : \A m \in S : m <= n

\* The largest sequence number Recover finds before it reads the WAL.
RecoveredSeq(v) == MaxOrZero({t.largestSeq : t \in v.tables} \cup {v.cutoff})

\* Mutant: the largest number in use is handed out again.
RecoveredFileNumOffByOne(v) == MaxOrZero(FileNums(v) \cup {1})

\* The first file number above those of the live tables.
RecoveredFileNum(v) == MaxOrZero(FileNums(v)) + 1

\* Replay the MANIFEST; start behind the last sequence and file number it names.
RecoverStart ==
    LET v == ReplayManifest(manifest)
    IN  /\ phase = "down" /\ crashes <= MaxCrashes
        /\ phase' = "replay"
        /\ version' = v
        /\ nextSeq' = RecoveredSeq(v) + 1
        /\ nextFileNum' = RecoveredFileNum(v)
        /\ cursor' = <<1, 1>>
        /\ UNCHANGED <<disk, memtable, immutables, locks, acked, counters>>

\* The record under the cursor, and whether there is one to apply.
CursorSeg == cursor[1]
CursorRec == wal[CursorSeg][cursor[2]]
AtRecord ==
    /\ phase = "replay" /\ CursorSeg <= Len(wal)
    /\ cursor[2] <= Len(wal[CursorSeg])
    /\ CursorRec.ok

\* End of the segment, or a bad record: go on with the next segment.
ReplayNextSegment ==
    /\ phase = "replay" /\ CursorSeg <= Len(wal)
    /\ ~AtRecord
    /\ cursor' = <<CursorSeg + 1, 1>>
    /\ UNCHANGED <<disk, phase, memory, locks, acked, counters>>

\* Mutant: "continue" without advancing the offset.
ReplaySkipInPlace ==
    /\ AtRecord
    /\ Superseded(CursorRec, version.cutoff)
    /\ UNCHANGED vars

\* The batch is at or below the cutoff.
ReplaySkip ==
    /\ AtRecord
    /\ Superseded(CursorRec, version.cutoff)
    /\ cursor' = <<CursorSeg, cursor[2] + 1>>
    /\ UNCHANGED <<disk, phase, memory, locks, acked, counters>>

\* Insert the batch; page the memtable out when it outgrows the limit.
ReplayApply ==
    /\ AtRecord
    /\ ~Superseded(CursorRec, version.cutoff)
    /\ memtable' = memtable \cup CursorRec.ents
    /\ nextSeq' = IF CursorRec.last >= nextSeq THEN CursorRec.last + 1 ELSE nextSeq
    /\ cursor' = <<CursorSeg, cursor[2] + 1>>
    /\ phase' = IF Cardinality(memtable') > MemLimit THEN "page" ELSE "replay"
    /\ UNCHANGED <<disk, nextFileNum, immutables, version, locks, acked, counters>>

\* writeMemtableToSSTable.
PageBuild ==
    /\ phase = "page"
    /\ files' = WriteFile(nextFileNum, memtable)
    /\ phase' = "pagecommit"
    /\ UNCHANGED <<wal, dirty, manifest, memory, locks, cursor, acked, counters>>

\* The table could not be written: Recover and Open return the error.
PageBuildFails ==
    /\ phase = "page"
    /\ Fault("build")
    /\ files' = WriteFile(nextFileNum, {})
    /\ ProcessEnds
    /\ UNCHANGED <<wal, dirty, manifest, acked>>

PagedTable == TableMeta(nextFileNum, 0, memtable)

\* AddTable, the Add record, and a fresh memtable; the cutoff stays.
PageCommit ==
    /\ phase = "pagecommit"
    /\ version' = AddTable(version, PagedTable)
    /\ manifest' = Append(manifest, AddRecord(PagedTable))
    /\ nextFileNum' = nextFileNum + 1
    /\ memtable' = {}
    /\ phase' = "replay"
    /\ UNCHANGED <<wal, dirty, files, nextSeq, immutables, locks, cursor, acked, counters>>

PageCommitFails ==
    /\ phase = "pagecommit"
    /\ ManifestAppendFails(AddRecord(PagedTable))
    /\ ProcessEnds
    /\ UNCHANGED <<wal, dirty, files, acked>>

\* Every segment has been read.
ReplayDone ==
    /\ phase = "replay" /\ CursorSeg > Len(wal)
    /\ phase' = "open"
    /\ UNCHANGED <<disk, memory, locks, cursor, acked, counters>>

\* Every live table has a file.
TablesPresent == FileNums(version) \subseteq DOMAIN files

\* OpenWAL: the last segment is appended to as it stands; one is created if
\* there is none.  Then Open returns the database.
OpenDone ==
    /\ phase = "open" /\ TablesPresent
    /\ wal' = IF wal = <<>> THEN << <<>> >> ELSE wal
    /\ phase' = "up"
    /\ UNCHANGED <<dirty, manifest, files, memory, locks, cursor, acked, counters>>

\* "missing sstable": Close, which fsyncs the WAL and cleans up, and an error.
\* It counts as a restart, which bounds how often Open is tried again.
OpenMissing ==
    /\ phase = "open" /\ ~TablesPresent
    /\ wal' = IF wal = <<>> THEN << <<>> >> ELSE wal
    /\ dirty' = 0
    /\ files' = RemoveFiles(version.obsolete)
    /\ ProcessEnds
    /\ crashes' = crashes + 1
    /\ UNCHANGED <<manifest, acked, faults>>

-----------------------------------------------------------------------------
Write ==
    \/ WriteCheck
    \/ \E op \in Ops : WriteAppend(op) \/ WriteAppendFails(op) \/ WriteAppendTorn(op)
    \/ WriteSync \/ WriteSyncFails \/ WriteApply

Flush ==
    \/ FlushStart \/ FlushPick \/ FlushDrained
    \/ FlushBuild \/ FlushBuildFails
    \/ FlushManifestAdd \/ FlushManifestAddFails
    \/ FlushManifestCutoff \/ FlushManifestCutoffFails
    \/ FlushSetError
    \/ FlushTruncate \/ FlushRemoveSegment \/ FlushTruncated
    \/ SkipCompaction \/ FlushCleanup

Recover ==
    \/ RecoverStart \/ ReplayNextSegment \/ ReplaySkip \/ ReplayApply
    \/ PageBuild \/ PageBuildFails \/ PageCommit \/ PageCommitFails
    \/ ReplayDone

Open == OpenNew \/ Recover \/ OpenDone \/ OpenMissing

Stop == Close \/ Crash \/ PowerLoss \/ TableLoss

Next == Write \/ Flush \/ CompactManifest \/ Open \/ Stop

Spec == Init /\ [][Next]_vars

(***************************************************************************)
(* Fairness.  A caller that holds db.mu finishes its call, and Open runs   *)
(* on: weak fairness.  MaybeScheduleFlush competes for db.mu with callers  *)
(* that may come again and again; a Go mutex hands itself to a waiter that *)
(* has starved for a millisecond, hence strong fairness.  Nothing forces a *)
(* caller to call, a fault or a crash to happen.                           *)
(***************************************************************************)
WriterStep == WriteSync \/ WriteApply

FlushStep ==
    \/ FlushStart \/ FlushPick \/ FlushDrained \/ FlushBuild
    \/ FlushManifestAdd \/ FlushManifestCutoff \/ FlushSetError
    \/ FlushTruncate \/ FlushRemoveSegment \/ FlushTruncated
    \/ SkipCompaction \/ FlushCleanup

OpenStep ==
    \/ RecoverStart \/ ReplayNextSegment \/ ReplaySkip \/ ReplayApply
    \/ PageBuild \/ PageCommit \/ ReplayDone \/ OpenDone

FairSpec ==
    /\ Spec
    /\ WF_vars(WriterStep) /\ WF_vars(OpenStep)
    /\ SF_vars(FlushStep)

-----------------------------------------------------------------------------
(* Properties.                                                             *)

LogRecord == [ok : BOOLEAN, ents : SUBSET Entry(Keys), last : Nat]
Segment == Seq(LogRecord)

Phases == {"new", "down", "replay", "page", "pagecommit", "open", "up"}

FlushPCs == {"idle", "loop", "build", "commit", "cutoff", "error", "truncate", "remove",
             "compact", "cleanup"}

\* A function that is a sequence over its own range.
IsSequence(m) == m \in Seq({m[i] : i \in DOMAIN m})

\* The numbers in a table's metadata and in an edit.
TableOK(t) == t.num \in Nat /\ t.largestSeq \in Nat
EditOK(r) ==
    \/ r.type = "add" /\ TableOK(r.table)
    \/ r.type = "remove" /\ r.num \in Nat
    \/ r.type = "cutoff" /\ r.seq \in Nat
    \/ r.type = "torn"

ManifestOK(m) == IsSequence(m) /\ \A i \in DOMAIN m : EditOK(m[i])

FilesOK(f) == f \in [DOMAIN f -> SUBSET Entry(Keys)] /\ DOMAIN f \subseteq Nat

VersionOK(v) ==
    /\ v = [tables |-> v.tables, obsolete |-> v.obsolete, cutoff |-> v.cutoff]
    /\ IsFiniteSet(v.tables) /\ \A t \in v.tables : TableOK(t)
    /\ v.obsolete \subseteq Nat /\ v.cutoff \in Nat

WriterState ==
    [pc : {"idle", "appended", "synced"}, kind : {"Put", "Write", "Delete"},
     batch : Seq(Logical)]
FlushState == [pc : FlushPCs, num : Nat, seq : Nat, ndel : Nat]

\* Every variable of the engine has its type.
TypeOK ==
    /\ wal \in Seq(Segment) /\ dirty \in Nat
    /\ ManifestOK(manifest) /\ FilesOK(files)
    /\ phase \in Phases
    /\ nextSeq \in Nat \ {0} /\ nextFileNum \in Nat \ {0}
    /\ memtable \subseteq Entry(Keys) /\ immutables \in Seq(SUBSET Entry(Keys))
    /\ VersionOK(version)
    /\ bgErr \in BOOLEAN /\ mu \in {"free", "writer", "flush"}
    /\ checked \in Nat /\ spawned \in Nat
    /\ wr \in WriterState /\ fl \in FlushState
    /\ cursor \in Nat \X Nat
    /\ acked \subseteq Entry(Keys)
    /\ crashes \in Nat /\ faults \in Nat

(***************************************************************************)
(* Every write that returned nil is still in the directory, in a table the *)
(* MANIFEST names or in a WAL record that recovery reads and does not      *)
(* skip: at every step of writes, flushes, truncations, crashes and of the *)
(* recovery itself.                                                        *)
(***************************************************************************)
Durable == acked \subseteq Recoverable

\* The entries a Get of userKey merges: memtable, immutables, and the tables
\* whose key range may hold the key.
ReadSet(userKey) ==
    memtable
      \cup (UNION {immutables[i] : i \in DOMAIN immutables})
      \cup UNION {files[t.num] : t \in {u \in version.tables :
                                           u.num \in DOMAIN files /\ MayHoldKey(u, userKey)}}

(***************************************************************************)
(* Whenever a reader may take db.mu, what it reads at any snapshot is what *)
(* it would read after a crash at this moment and a recovery: no flush,    *)
(* truncation, paging or restart changes the answer of a Get.              *)
(***************************************************************************)
ReadsSurviveCrash ==
    phase = "up" /\ mu = "free" =>
        \A k \in Keys, readSeq \in 0..MaxSeq :
            Lookup(ReadSet(k), k, readSeq) = Lookup(Recoverable, k, readSeq)

\* The number the next write takes is above every number in the directory.
SeqFresh ==
    phase = "up" /\ mu = "free" => \A e \in Recoverable : e.seq < nextSeq

\* A flush has failed since the database was opened, whether or not the
\* callers can see it yet.
FlushFailed == bgErr \/ fl.pc = "error"

(***************************************************************************)
(* Whenever db.mu is free, the version kept in memory edit by edit names   *)
(* every table a replay of the MANIFEST would.  What it names beyond them, *)
(* after an Add record failed, is in tables of the MANIFEST all the same   *)
(* or in the oldest immutable memtable, which is flushed again; its cutoff *)
(* is never ahead.  Until a flush fails both are equal.                    *)
(***************************************************************************)
VersionMatchesManifest ==
    phase = "up" /\ mu = "free" =>
        /\ ManifestTables(manifest) \subseteq version.tables
        /\ \A t \in version.tables :
              \/ files[t.num] \subseteq TableEntries
              \/ immutables # <<>> /\ files[t.num] = Head(immutables)
        /\ version.cutoff <= ManifestCutoff(manifest)
        /\ ~FlushFailed => /\ version.tables = ManifestTables(manifest)
                           /\ version.cutoff = ManifestCutoff(manifest)

\* No step overwrites or removes the file of a table that stays in the
\* MANIFEST: file numbers are handed out again only when nothing uses them.
LiveFilesImmutable ==
    [][\A t \in ManifestTables(manifest) \cap ManifestTables(manifest') :
          t.num \in DOMAIN files =>
              t.num \in DOMAIN files' /\ files'[t.num] = files[t.num]]_vars

(***************************************************************************)
(* The WAL cutoff in the MANIFEST goes back only when a cutoff record that *)
(* was reported as failed had reached the file and CompactManifest drops   *)
(* it again; and then to no less than the version's cutoff, up to which    *)
(* wal.Truncate may have deleted segments: no batch that was deleted would *)
(* have to be replayed.                                                    *)
(***************************************************************************)
CutoffMonotone ==
    [][ManifestCutoff(manifest') < ManifestCutoff(manifest) =>
          FlushFailed /\ ManifestCutoff(manifest') >= version.cutoff]_vars

\* When SyncWrites is off, a loss of power takes the newest writes: nothing
\* older than a surviving write is lost.
LossIsSuffix ==
    [][\A e \in acked \ Recoverable', f \in Recoverable' : f.seq < e.seq]_vars

(***************************************************************************)
(* While the database stays open, a read at a sequence number that was     *)
(* handed out answers the same for ever, whatever else happens: a memtable *)
(* moving into a table, a failed flush and its repetition, a truncation, a *)
(* rewrite of the MANIFEST, later writes.                                  *)
(***************************************************************************)
SnapshotReadsStable ==
    [][phase = "up" /\ phase' = "up" =>
          \A k \in Keys, readSeq \in 0..(nextSeq - 1) :
              Lookup(ReadSet(k)', k, readSeq) = Lookup(ReadSet(k), k, readSeq)]_vars

(***************************************************************************)
(* Every frozen memtable reaches the MANIFEST, unless a background error   *)
(* stops the flushes or the process ends: no rotation is missed by the     *)
(* flush goroutines, whichever way they interleave with the writers.       *)
(***************************************************************************)
FrozenIsFlushed ==
    \A n \in 1..MaxSeq :
        (phase = "up" /\ \E i \in DOMAIN immutables : LargestSeq(immutables[i]) = n)
            ~> (ManifestCutoff(manifest) >= n \/ bgErr \/ phase # "up")

\* A database that is down comes up again: the recovery gets through every
\* WAL it can find, however often it was itself interrupted.
OpenCompletes == phase = "down" ~> phase = "up"
=============================================================================
