----------------------------- MODULE Compaction -----------------------------
(***************************************************************************)
(* Compaction (engine/compaction.go), the snapshots that hold it back      *)
(* (engine/db.go), and the MANIFEST edits it commits with.                 *)
(*                                                                         *)
(* The goroutine that ran MaybeScheduleFlush goes on, under flushMu and    *)
(* compactionMu, to pick one level, merge some of its tables with tables   *)
(* of the next level into new ones, and swap them in the version and in    *)
(* the MANIFEST.  It holds db.mu only while it picks, while it takes a     *)
(* file number and while it commits: writers and snapshots fall between.   *)
(*                                                                         *)
(* The steps of writes and flushes are those of Engine, which shows that   *)
(* no unflushed write is lost in a crash; here a write and the flush of a  *)
(* memtable are one step each, and mem survives a crash.  ReplayManifest   *)
(* applies the edits of the MANIFEST one after the other with the version's *)
(* own operations, so the MANIFEST is kept as the version it describes.    *)
(***************************************************************************)
EXTENDS VersionSet

CONSTANTS
    Keys,           \* user keys
    Ops,            \* the puts and deletes callers make: [key, typ]
    L0Trigger,      \* Config.L0CompactionTrigger
    L1Max,          \* Config.L1MaxBytes, in units of TableMeta.size
    SplitSize,      \* size at which an output table is closed, in entries
    Faults,         \* the kinds of fault the environment may inject
    MaxSeq,         \* bound on sequence numbers
    MaxSnapshots,   \* bound on snapshots held at a time
    MaxEvents       \* bound on faults, crashes, orderly restarts and MANIFEST rewrites

FaultKinds ==
    {"build",       \* opening an input or writing an output fails
     "read",        \* blocks of the inputs cannot be read during the merge
     "manifest"}    \* a MANIFEST append fails, with or without the record

ASSUME KeysAssumption == Keys \subseteq Nat /\ Ops \subseteq [key : Keys, typ : RecordTypes]
ASSUME LimitsAssumption ==
    L0Trigger \in Nat \ {0} /\ L1Max \in Nat \ {0} /\ SplitSize \in Nat \ {0}
ASSUME BoundsAssumption ==
    MaxSeq \in Nat /\ MaxSnapshots \in Nat /\ MaxEvents \in Nat
ASSUME FaultsAssumption == Faults \subseteq FaultKinds

VARIABLES
    manifest,       \* the version a replay of the MANIFEST gives
    files,          \* file number -> entries of the SSTable
    phase,          \* "up" or "down"
    nextSeq, nextFileNum, version,
    mem,            \* entries of the memtables, which the WAL also holds
    snapshots,      \* the list of snapshots: their ReadSeq, newest first
    mu,             \* who holds db.mu across steps: "free" or "compact"
    co,             \* the goroutine that holds flushMu
    \* Ghosts.
    history,        \* every entry ever written
    missed,         \* a compaction left out a table that shares a key with its inputs
    cut,            \* a commit stopped between its first and its last edit
    unread,         \* keys of entries that a committed merge could not read
    events

memory == <<nextSeq, nextFileNum, version>>
ghosts == <<history, missed, cut, unread>>
vars == <<manifest, files, phase, memory, mem, snapshots, mu, co, ghosts, events>>

Idle == [pc |-> "idle", level |-> 0, inputs |-> {}, oldest |-> 0,
         rest |-> {}, num |-> 0, out |-> {}, unread |-> {}]

Init ==
    /\ manifest = NewVersionSet /\ files = [n \in {} |-> {}]
    /\ phase = "up"
    /\ nextSeq = 1 /\ nextFileNum = 1 /\ version = NewVersionSet
    /\ mem = {} /\ snapshots = <<>>
    /\ mu = "free" /\ co = Idle
    /\ history = {} /\ missed = FALSE /\ cut = FALSE /\ unread = {}
    /\ events = 0

Event ==
    /\ events < MaxEvents
    /\ events' = events + 1

Fault(kind) == kind \in Faults /\ Event

WriteFile(num, S) ==
    [n \in DOMAIN files \cup {num} |-> IF n = num THEN S ELSE files[n]]

RemoveFiles(nums) == [n \in DOMAIN files \ nums |-> files[n]]

-----------------------------------------------------------------------------
(* Writers and snapshots.                                                  *)

\* A Put or a Delete.
Write(op) ==
    LET e == InternalKeyOf(op.key, nextSeq, op.typ)
    IN  /\ phase = "up" /\ mu = "free" /\ nextSeq <= MaxSeq
        /\ mem' = mem \cup {e}
        /\ history' = history \cup {e}
        /\ nextSeq' = nextSeq + 1
        /\ UNCHANGED <<manifest, files, phase, nextFileNum, version, snapshots, mu, co,
                       missed, cut, unread, events>>

\* Mutant: one sequence number too low.
GetSnapshotOffByOne ==
    /\ phase = "up" /\ mu = "free" /\ Len(snapshots) < MaxSnapshots
    /\ snapshots' = <<nextSeq - 2>> \o snapshots
    /\ UNCHANGED <<manifest, files, phase, memory, mem, mu, co, ghosts, events>>

GetSnapshot ==
    /\ phase = "up" /\ mu = "free" /\ Len(snapshots) < MaxSnapshots
    /\ snapshots' = <<nextSeq - 1>> \o snapshots
    /\ UNCHANGED <<manifest, files, phase, memory, mem, mu, co, ghosts, events>>

\* Unlink the i-th snapshot of the list.
ReleaseSnapshot(i) ==
    /\ phase = "up" /\ mu = "free"
    /\ snapshots' = SubSeq(snapshots, 1, i - 1) \o SubSeq(snapshots, i + 1, Len(snapshots))
    /\ UNCHANGED <<manifest, files, phase, memory, mem, mu, co, ghosts, events>>

ReadSeqs == {snapshots[i] : i \in DOMAIN snapshots}

getOldestSnapshotSeq ==
    CHOOSE s \in ReadSeqs \cup {nextSeq} : \A r \in ReadSeqs \cup {nextSeq} : s <= r

-----------------------------------------------------------------------------
(* The flush loop of MaybeScheduleFlush.                                   *)

\* flushMu.Lock by one of the goroutines the rotations started.
FlushStart ==
    /\ phase = "up" /\ co.pc = "idle"
    /\ co' = [Idle EXCEPT !.pc = "loop"]
    /\ UNCHANGED <<manifest, files, phase, memory, mem, snapshots, mu, ghosts, events>>

\* One memtable, the oldest entries, becomes a table of L0.
FlushMemtable ==
    \E seq \in 1..(nextSeq - 1) :
        LET S == {e \in mem : e.seq <= seq}
            t == TableMeta(nextFileNum, 0, S)
        IN  /\ co.pc = "loop" /\ mu = "free"
            /\ S # {} /\ LargestSeq(S) = seq
            /\ files' = WriteFile(nextFileNum, S)
            /\ nextFileNum' = nextFileNum + 1
            /\ version' = SetWALCutoff(AddTable(version, t), seq)
            /\ manifest' = SetWALCutoff(AddTable(manifest, t), seq)
            /\ mem' = mem \ S
            /\ UNCHANGED <<phase, nextSeq, snapshots, mu, co, ghosts, events>>

-----------------------------------------------------------------------------
(* CompactLevel: inputs.                                                   *)

\* The smallest and the largest bound of the tables of L0, by Comparator.
Smallest(T) == First({t.smallest : t \in T})
Largest(T) == Last({t.largest : t \in T})

\* The inputs CompactLevel may take for a level: all of L0, or the first
\* table of a deeper level, with what overlaps it in the level below.
InputChoices(level) ==
    LET own == IF level = 0 THEN {Level(version, 0)}
               ELSE {{t} : t \in SortedFirst(Level(version, level))}
    IN  {T \cup GetOverlappingInputs(version, level + 1, Smallest(T), Largest(T)) : T \in own}

Opens(T) == \A t \in T : t.num \in DOMAIN files
EntriesOf(T) == UNION {files[t.num] : t \in {u \in T : u.num \in DOMAIN files}}
UserKeys(S) == {e.key : e \in S}

\* A table of the two levels stays behind and shares a user key with the inputs.
Misses(level, inputs) ==
    \E t \in (Level(version, level) \cup Level(version, level + 1)) \ inputs :
        UserKeys(EntriesOf({t})) \cap UserKeys(EntriesOf(inputs)) # {}

\* MaybeScheduleCompaction picks a level, CompactLevel its inputs and the
\* oldest snapshot, under db.mu; an empty level or an input that cannot be
\* opened ends it.
CompactPick ==
    \E level \in 0..(NumLevels - 2) :
        /\ co.pc = "loop" /\ mu = "free"
        /\ NeedsCompaction(version, L0Trigger, L1Max)
        /\ PickCompaction(version, level, L0Trigger, L1Max)
        /\ \E inputs \in InputChoices(level) :
              /\ co' = IF inputs # {} /\ Opens(inputs)
                       THEN [Idle EXCEPT !.pc = "start", !.level = level,
                                         !.inputs = inputs,
                                         !.oldest = getOldestSnapshotSeq,
                                         !.rest = EntriesOf(inputs)]
                       ELSE [Idle EXCEPT !.pc = "cleanup"]
              /\ missed' = (missed \/ Misses(level, inputs))
        /\ UNCHANGED <<manifest, files, phase, memory, mem, snapshots, mu, history, cut,
                       unread, events>>

\* No level has reached its target.
CompactSkip ==
    /\ co.pc = "loop" /\ mu = "free"
    /\ ~NeedsCompaction(version, L0Trigger, L1Max)
    /\ co' = [co EXCEPT !.pc = "cleanup"]
    /\ UNCHANGED <<manifest, files, phase, memory, mem, snapshots, mu, ghosts, events>>

-----------------------------------------------------------------------------
(* CompactLevel: merge.                                                    *)

TargetLevel == co.level + 1

\* Mutant: the level just below is not looked at.
BottomMostOffByOne ==
    \A l \in (TargetLevel + 2)..(NumLevels - 1) : Level(version, l) = {}

\* No table lies deeper than the target level.
BottomMost ==
    \A l \in (TargetLevel + 1)..(NumLevels - 1) : Level(version, l) = {}

\* Mutant: snapshots are not considered.
CollectableAlways(t) == t.typ = RecordTypeTombstone

\* A tombstone every snapshot sees.
Collectable(t) == t.typ = RecordTypeTombstone /\ t.seq <= co.oldest

\* Such a tombstone goes, with every older version of its key behind it.
Dropped(S) ==
    IF ~BottomMost THEN {}
    ELSE {e \in S : \E t \in S : Collectable(t) /\ t.key = e.key /\ (e = t \/ Before(t, e))}

\* The first n entries of S in the order of the merge.
FirstN(S, n) == {e \in S : Cardinality({f \in S : Before(f, e)}) < n}

\* The merged entries that go into the file being built, and what is left
\* for the next one when this one is full.
Chunk == FirstN(co.rest \ Dropped(co.rest), SplitSize)
AfterChunk ==
    IF Cardinality(Chunk) < SplitSize THEN {}
    ELSE {e \in co.rest : Before(Last(Chunk), e)}

\* startFile: a file number, under db.mu.
CompactStartFile ==
    /\ co.pc = "start" /\ mu = "free"
    /\ co' = [co EXCEPT !.pc = "fill", !.num = nextFileNum]
    /\ nextFileNum' = nextFileNum + 1
    /\ UNCHANGED <<manifest, files, phase, nextSeq, version, mem, snapshots, mu, ghosts, events>>

\* Entries the merge gets from its sources when some of their blocks cannot be
\* read: of each table what lies before the first such block.
PartlyRead(got) ==
    \A e \in got : \E t \in co.inputs :
        e \in files[t.num] /\ \A f \in files[t.num] : Before(f, e) => f \in got

(***************************************************************************)
(* loadDataBlock keeps the error to itself and makes the table's iterator  *)
(* invalid, MergeIterator goes on without it, and the loop ends as if the  *)
(* table had no more entries.  Which blocks fail is settled before the     *)
(* first of them is merged: each is read once, and until the commit nobody *)
(* sees how far the merge has come.                                        *)
(***************************************************************************)
CompactReadFails ==
    /\ co.pc = "start" /\ co.out = {}
    /\ Fault("read")
    /\ \E got \in SUBSET co.rest \ {co.rest} :
          /\ PartlyRead(got)
          /\ co' = [co EXCEPT !.rest = got, !.unread = @ \cup UserKeys(co.rest \ got)]
    /\ UNCHANGED <<manifest, files, phase, memory, mem, snapshots, mu, ghosts>>

\* The merge loop up to the next split or the end, and finishFile.
CompactFillFile ==
    /\ co.pc = "fill"
    /\ files' = WriteFile(co.num, Chunk)
    /\ co' = [co EXCEPT !.pc = IF AfterChunk = {} THEN "remove" ELSE "start",
                        !.rest = AfterChunk,
                        !.out = @ \cup {TableMeta(co.num, TargetLevel, Chunk)}]
    /\ UNCHANGED <<manifest, phase, memory, mem, snapshots, mu, ghosts, events>>

\* Opening an input or writing an output fails: the error is dropped by
\* MaybeScheduleCompaction.
CompactBuildFails ==
    /\ co.pc \in {"start", "fill"}
    /\ Fault("build")
    /\ files' \in IF co.pc = "fill" THEN {files, WriteFile(co.num, {})} ELSE {files}
    /\ co' = [Idle EXCEPT !.pc = "cleanup"]
    /\ UNCHANGED <<manifest, phase, memory, mem, snapshots, mu, ghosts>>

-----------------------------------------------------------------------------
(* CompactLevel: commit, under db.mu, one fsynced MANIFEST record per edit. *)

\* The tables the next removal may be of: the inputs of the source level come
\* first, L0 in the order of its flushes, then those of the target level.
FirstInputs ==
    LET own == {t \in co.inputs : t.level = co.level}
    IN  IF own = {} THEN SortedFirst(co.inputs)
        ELSE IF co.level = 0 THEN {t \in own : \A u \in own : t.num <= u.num}
        ELSE own

CompactRemove ==
    /\ co.pc = "remove"
    /\ \E t \in FirstInputs :
          /\ manifest' = RemoveTable(manifest, t.num)
          /\ version' = RemoveTable(version, t.num)
          /\ co' = [co EXCEPT !.inputs = @ \ {t},
                              !.pc = IF co.inputs = {t} THEN "add" ELSE "remove"]
    /\ mu' = "compact"
    /\ unread' = unread \cup co.unread
    /\ UNCHANGED <<files, phase, nextSeq, nextFileNum, mem, snapshots,
                   history, missed, cut, events>>

\* The outputs are added in the order they were built.
Oldest(T) == CHOOSE t \in T : \A u \in T : t.num <= u.num

\* Mutant: the new table is not recorded in the MANIFEST.
CompactAddUnlogged ==
    /\ co.pc = "add"
    /\ \E t \in {Oldest(co.out)} :
          /\ version' = AddTable(version, t)
          /\ co' = [co EXCEPT !.out = @ \ {t},
                              !.pc = IF co.out = {t} THEN "cleanup" ELSE "add"]
          /\ mu' = IF co.out = {t} THEN "free" ELSE "compact"
    /\ UNCHANGED <<manifest, files, phase, nextSeq, nextFileNum, mem, snapshots, ghosts, events>>

CompactAdd ==
    /\ co.pc = "add"
    /\ \E t \in {Oldest(co.out)} :
          /\ manifest' = AddTable(manifest, t)
          /\ version' = AddTable(version, t)
          /\ co' = [co EXCEPT !.out = @ \ {t},
                              !.pc = IF co.out = {t} THEN "cleanup" ELSE "add"]
          /\ mu' = IF co.out = {t} THEN "free" ELSE "compact"
    /\ UNCHANGED <<files, phase, nextSeq, nextFileNum, mem, snapshots, ghosts, events>>

\* An append fails: CompactLevel returns with the edits made so far, the commit
\* is cut short unless there are none.
CompactCommitFails ==
    /\ \/ /\ co.pc = "remove"
          /\ \E t \in FirstInputs : manifest' \in {manifest, RemoveTable(manifest, t.num)}
       \/ /\ co.pc = "add"
          /\ \E t \in {Oldest(co.out)} : manifest' \in {manifest, AddTable(manifest, t)}
    /\ Fault("manifest")
    /\ mu' = "free"
    /\ co' = [Idle EXCEPT !.pc = "cleanup"]
    /\ cut' = (cut \/ mu = "compact" \/ manifest' # manifest)
    /\ UNCHANGED <<files, phase, memory, mem, snapshots, history, missed, unread>>

cleanupObsoleteFiles ==
    /\ files' = RemoveFiles(version.obsolete)
    /\ version' = [version EXCEPT !.obsolete = {}]

\* The end of MaybeScheduleFlush.
Cleanup ==
    /\ co.pc = "cleanup"
    /\ cleanupObsoleteFiles
    /\ co' = Idle
    /\ UNCHANGED <<manifest, phase, nextSeq, nextFileNum, mem, snapshots, mu, ghosts, events>>

-----------------------------------------------------------------------------
(* CompactManifest, Close, crash and restart.                              *)

\* The MANIFEST is rewritten as the live tables and the cutoff.
CompactManifest ==
    /\ phase = "up" /\ mu = "free" /\ Event
    /\ manifest' = [version EXCEPT !.obsolete = {}]
    /\ UNCHANGED <<files, phase, memory, mem, snapshots, mu, co, ghosts>>

ProcessEnds ==
    /\ phase = "up" /\ Event
    /\ phase' = "down" /\ mu' = "free" /\ co' = Idle
    /\ nextSeq' = 1 /\ nextFileNum' = 1 /\ version' = NewVersionSet
    /\ snapshots' = <<>>
    /\ cut' = (cut \/ mu = "compact")

Crash ==
    /\ ProcessEnds
    /\ UNCHANGED <<manifest, files, mem, history, missed, unread>>

\* Close does not wait for the flush goroutine; the process ends.
Close ==
    /\ ProcessEnds
    /\ files' = RemoveFiles(version.obsolete)
    /\ UNCHANGED <<manifest, mem, history, missed, unread>>

MaxOrZero(S) == IF S = {} THEN 0 ELSE CHOOSE n \in S : \A m \in S : m <= n

\* Mutant: the cutoff is left out.
RecoveredSeqTablesOnly(v) ==
    MaxOrZero({t.largestSeq : t \in v.tables} \cup {e.seq : e \in mem})

\* The largest sequence number of the tables, the cutoff and the WAL.
RecoveredSeq(v) ==
    MaxOrZero({t.largestSeq : t \in v.tables} \cup {v.cutoff} \cup {e.seq : e \in mem})

\* Mutant: the first number above the tables of L0.
RecoveredFileNumL0(v) == MaxOrZero({t.num : t \in Level(v, 0)}) + 1

RecoveredFileNum(v) == MaxOrZero(FileNums(v)) + 1

\* Open: Recover, and the check that every live table has a file.
Restart ==
    LET v == manifest
    IN  /\ phase = "down"
        /\ FileNums(v) \subseteq DOMAIN files
        /\ phase' = "up"
        /\ version' = v
        /\ nextSeq' = RecoveredSeq(v) + 1
        /\ nextFileNum' = RecoveredFileNum(v)
        /\ UNCHANGED <<manifest, files, mem, snapshots, mu, co, ghosts, events>>

-----------------------------------------------------------------------------
CompactLevel ==
    \/ CompactPick \/ CompactStartFile \/ CompactReadFails
    \/ CompactFillFile \/ CompactBuildFails
    \/ CompactRemove \/ CompactAdd \/ CompactCommitFails

MaybeScheduleFlush == FlushStart \/ FlushMemtable \/ CompactSkip \/ CompactLevel \/ Cleanup

Next ==
    \/ \E op \in Ops : Write(op)
    \/ GetSnapshot \/ \E i \in DOMAIN snapshots : ReleaseSnapshot(i)
    \/ MaybeScheduleFlush
    \/ CompactManifest \/ Crash \/ Close \/ Restart

Spec == Init /\ [][Next]_vars

-----------------------------------------------------------------------------
(* Properties.                                                             *)

CompactPCs == {"idle", "loop", "start", "fill", "remove", "add", "cleanup"}

\* Every variable of the compaction model has its type.
TypeOK ==
    /\ phase \in {"up", "down"} /\ mu \in {"free", "compact"}
    /\ nextSeq \in Nat \ {0} /\ nextFileNum \in Nat \ {0}
    /\ mem \subseteq history /\ history \subseteq Entry(Keys)
    /\ snapshots \in Seq(Nat)
    /\ co.pc \in CompactPCs /\ co.level \in 0..(NumLevels - 2)
    /\ \A n \in DOMAIN files : files[n] \subseteq history
    /\ missed \in BOOLEAN /\ cut \in BOOLEAN
    /\ unread \subseteq Keys /\ co.unread \subseteq Keys

\* What a Get of userKey merges.
ReadSet(userKey) ==
    mem \cup EntriesOf({t \in version.tables :
                           t.num \in DOMAIN files /\ MayHoldKey(t, userKey)})

\* The sequence numbers a reader may read at: the snapshots held, and now.
LiveSeqs == ReadSeqs \cup {nextSeq - 1}

Readable == phase = "up" /\ mu = "free"

(***************************************************************************)
(* Compaction loses no value: as long as no commit is cut short, a key     *)
(* whose newest version at a snapshot that is held, or now, is a value is  *)
(* read as that value, whatever was merged, split, collected or restarted, *)
(* and although the oldest snapshot was looked up before the merge.  What  *)
(* a merge could not read costs the keys of the entries it did not get,    *)
(* and no other.                                                           *)
(***************************************************************************)
ValuesKept ==
    Readable /\ ~cut =>
        \A k \in Keys \ unread, r \in LiveSeqs :
            Lookup(history, k, r) # ErrNotFound =>
                Lookup(ReadSet(k), k, r) = Lookup(history, k, r)

(***************************************************************************)
(* A deleted key stays deleted at every snapshot that is held, and now, if *)
(* no compaction has left out a table of its two levels that shares a user *)
(* key with the inputs, and none of its own entries was lost to a block    *)
(* that could not be read: collecting a tombstone above empty levels is    *)
(* safe in itself.                                                         *)
(***************************************************************************)
DeletesKept ==
    Readable /\ ~missed /\ ~cut =>
        \A k \in Keys \ unread, r \in LiveSeqs :
            Lookup(history, k, r) = ErrNotFound => Lookup(ReadSet(k), k, r) = ErrNotFound

(***************************************************************************)
(* Every table of the version and of the MANIFEST has its file, with the   *)
(* entries its metadata was computed from: cleanup, orphans of interrupted *)
(* compactions and file numbers handed out again after a restart never     *)
(* touch it, unless a commit was cut short.                                *)
(***************************************************************************)
TablesBacked ==
    ~cut => \A t \in version.tables \cup manifest.tables :
        t.num \in DOMAIN files /\ t = TableMeta(t.num, t.level, files[t.num])

\* Whenever db.mu is free and no commit was cut short, a replay of the
\* MANIFEST gives the version's tables.
ManifestAgrees ==
    Readable /\ ~cut => version.tables = manifest.tables

(***************************************************************************)
(* No sequence number is handed out twice, although a compaction may drop  *)
(* the newest entry, a tombstone, and Recover computes the next number     *)
(* from what is left; nor after a commit that was cut short.               *)
(***************************************************************************)
SeqNotReused == phase = "up" => \A e \in history : e.seq < nextSeq

-----------------------------------------------------------------------------
(* What the documentation says and the code does not do.                   *)

\* Invariants.md, Compaction 4: "`Tombstones` are removed only when no older
\* versions exist in deeper levels."  A deleted key is not found.
TombstonesShadow ==
    Readable => \A k \in Keys :
        Lookup(history, k, nextSeq - 1) = ErrNotFound =>
            Lookup(ReadSet(k), k, nextSeq - 1) = ErrNotFound

\* Invariants.md, Compaction 5: "Readers must never observe a partial
\* compaction state."  What is newest of a key in the history, and a value,
\* is in the memtables or in a table.
NoPartialCompaction ==
    Readable => \A k \in Keys :
        Lookup(history, k, nextSeq - 1) # ErrNotFound =>
            \E e \in ReadSet(k) : e.key = k
=============================================================================
