----------------------- MODULE EngineRefinementProofs -----------------------
(***************************************************************************)
(* The engine implements the abstract store, for every value of its        *)
(* constants: proof of ImplementsKVStore, provided no append is cut short, *)
(* no table file is lost, no fsync of the log fails and power stays on.    *)
(* (A loss of power takes writes back that no caller was told of, or, when *)
(* SyncWrites is off, any recent ones.)  Then reads at a snapshot, and     *)
(* that what a loss of power takes is a suffix.                            *)
(***************************************************************************)
EXTENDS EngineRefinement, EngineReadProofs

PowerStays == "power" \notin Faults

-----------------------------------------------------------------------------
(* What a step may do to the log and to the tables of the MANIFEST.        *)

\* Every record of the log v is a record of the log w.
SameRecords(v, w) ==
    \A i \in DOMAIN v : \A j \in DOMAIN v[i] :
        \E k \in DOMAIN w : \E l \in DOMAIN w[k] : v[i][j] = w[k][l]

\* Then it holds no other entries.
LEMMA SameRecordsEntries ==
    ASSUME NEW v, NEW w, SameRecords(v, w)
    PROVE  LogEntries(v) \subseteq LogEntries(w)
<1>1. ASSUME NEW e \in LogEntries(v) PROVE e \in LogEntries(w)
    <2>1. PICK i \in DOMAIN v : \E j \in DOMAIN v[i] : e \in v[i][j].ents
        BY <1>1, InLog
    <2>2. PICK j \in DOMAIN v[i] : e \in v[i][j].ents
        BY <2>1
    <2>3. PICK k \in DOMAIN w : \E l \in DOMAIN w[k] : v[i][j] = w[k][l]
        BY DEF SameRecords
    <2>4. PICK l \in DOMAIN w[k] : v[i][j] = w[k][l]
        BY <2>3
    <2> QED BY <2>2, <2>4, InLog
<1> QED BY <1>1

\* The steps that leave the log alone.
LEMMA LogUnchanged ==
    ASSUME NoTearing, IndInv, [Next]_vars,
           ~(\E op \in Ops : WriteAppend(op) \/ WriteAppendFails(op)),
           ~FlushRemoveSegment, ~OpenDone, ~PowerLoss
    PROVE  wal' = wal
<1>1. CASE Write
    BY <1>1 DEF Write, WriteCheck, WriteAppendTorn, Fault, NoTearing, WriteSync,
        WriteSyncFails, WriteApply, disk
<1>2. CASE Flush \/ CompactManifest
    BY <1>2 DEF Flush, FlushStart, FlushPick, FlushDrained, FlushBuild, FlushBuildFails,
        FlushManifestAdd, FlushManifestAddFails, FlushManifestCutoff,
        FlushManifestCutoffFails, FlushSetError, FlushTruncate, FlushTruncated, SkipCompaction,
        FlushCleanup, CompactManifest, disk
<1>3. CASE Open
    <2>1. ~OpenMissing
        BY NeverMissing DEF OpenMissing
    <2> QED BY <1>3, <2>1 DEF Open, Recover, OpenNew, RecoverStart, ReplayNextSegment,
        ReplaySkip, ReplayApply, PageBuild, PageBuildFails, PageCommit, PageCommitFails,
        ReplayDone, disk
<1>4. CASE Stop
    BY <1>4 DEF Stop, Close, Crash, TableLoss, disk
<1>5. CASE UNCHANGED vars
    BY <1>5 DEF vars, disk
<1> QED BY <1>1, <1>2, <1>3, <1>4, <1>5 DEF Next

(***************************************************************************)
(* Only WriteAppend adds records; what else than a loss of power takes     *)
(* out of the log is in tables.                                            *)
(***************************************************************************)
LEMMA LogStep ==
    ASSUME NoTearing, IndInv, IndInv', ReadInv, [Next]_vars,
           ~(\E op \in Ops : WriteAppend(op))
    PROVE  /\ SameRecords(wal', wal)
           /\ ~PowerLoss => WalEntries \subseteq WalEntries' \cup TableEntries
<1>1. CASE \E op \in Ops : WriteAppendFails(op)
    <2>1. phase = "up" /\ (wal' = wal \/ (wal' = Rotated /\ dirty' = RotatedDirty))
        BY <1>1 DEF WriteAppendFails, CanWrite
    <2>2. CASE wal' = wal
        BY <2>2 DEF SameRecords, WalEntries
    <2>3. CASE wal' = Rotated /\ dirty' = RotatedDirty
        <3>1. LogExtends(wal, dirty, wal', dirty', {})
            BY <2>1, <2>3, LogRotates DEF IndInv, TypeOK, WalInv
        <3> QED BY <3>1, ExtendedLogEntries DEF SameRecords
    <2> QED BY <2>1, <2>2, <2>3
<1>2. CASE FlushRemoveSegment
    BY <1>2, SegmentRemoved DEF SameRecords
<1>3. CASE OpenDone
    BY <1>3, LogOpened DEF SameRecords
<1>4. CASE PowerLoss
    BY <1>4, PowerLossKeepsRecords DEF SameRecords
<1>5. CASE ~(\E op \in Ops : WriteAppendFails(op)) /\ ~FlushRemoveSegment /\ ~OpenDone
           /\ ~PowerLoss
    <2>1. wal' = wal
        BY <1>5, LogUnchanged
    <2> QED BY <2>1 DEF SameRecords, WalEntries
<1> QED BY <1>1, <1>2, <1>3, <1>4, <1>5

\* The steps that leave the MANIFEST alone.
LEMMA ManifestUnchanged ==
    ASSUME IndInv, [Next]_vars,
           ~(FlushManifestAdd \/ FlushManifestAddFails \/ FlushManifestCutoff
             \/ FlushManifestCutoffFails \/ CompactManifest \/ PageCommit \/ PageCommitFails)
    PROVE  manifest' = manifest
<1>1. CASE Write
    BY <1>1 DEF Write, WriteCheck, WriteAppend, WriteAppendFails, WriteAppendTorn, WriteSync,
        WriteSyncFails, WriteApply, disk
<1>2. CASE Flush
    BY <1>2 DEF Flush, FlushStart, FlushPick, FlushDrained, FlushBuild, FlushBuildFails,
        FlushSetError, FlushTruncate, FlushRemoveSegment, FlushTruncated, SkipCompaction, FlushCleanup, disk
<1>3. CASE Open
    BY <1>3 DEF Open, Recover, OpenNew, RecoverStart, ReplayNextSegment, ReplaySkip,
        ReplayApply, PageBuild, PageBuildFails, ReplayDone, OpenDone, OpenMissing, disk
<1>4. CASE Stop
    BY <1>4 DEF Stop, Close, Crash, PowerLoss, TableLoss, disk
<1>5. CASE UNCHANGED vars
    BY <1>5 DEF vars, disk
<1> QED BY <1>1, <1>2, <1>3, <1>4, <1>5 DEF Next

\* What the Add record of a table adds, if it got into the MANIFEST.
LEMMA AddedEntries ==
    ASSUME IndInv, IndInv', files' = files, NEW t, TableOK(t),
           manifest' \in {manifest, Append(manifest, AddRecord(t))}
    PROVE  /\ TableEntries' \in {TableEntries, TableEntries \cup files[t.num]}
           /\ manifest' = Append(manifest, AddRecord(t)) =>
                 TableEntries' = TableEntries \cup files[t.num]
<1> DEFINE M == ManifestTables(manifest)
<1>1. GoodManifest(manifest) /\ TableEntries = FileEntries(files, M)
    BY ManifestIsGood, TablesNow DEF IndInv
<1>2. TableEntries' = FileEntries(files, ManifestTables(manifest'))
    BY TablesNext
<1>3. FileEntries(files, M \cup {t}) = FileEntries(files, M) \cup files[t.num]
    BY FileEntriesAdd
<1>4. manifest' = Append(manifest, AddRecord(t)) => ManifestTables(manifest') = M \cup {t}
    BY <1>1, EditAdd
<1>5. manifest' = manifest => ManifestTables(manifest') = M
    OBVIOUS
<1> QED BY <1>1, <1>2, <1>3, <1>4, <1>5

\* The steps that add no table to the MANIFEST.
LEMMA EntriesUnchanged ==
    ASSUME NoTearing, IndInv, IndInv', [Next]_vars,
           ~(FlushManifestAdd \/ FlushManifestAddFails \/ CompactManifest \/ PageCommit
             \/ PageCommitFails)
    PROVE  TableEntries' = TableEntries
<1> DEFINE M == ManifestTables(manifest)
<1>1. GoodManifest(manifest) /\ TableEntries = FileEntries(files, M)
    BY ManifestIsGood, TablesNow DEF IndInv
<1>2. ManifestTables(manifest') = M
    <2>1. CASE FlushManifestCutoff \/ FlushManifestCutoffFails
        <3>1. manifest' \in {manifest, Append(manifest, CutoffRecord(FlushCutoff))}
            BY <2>1 DEF FlushManifestCutoff, FlushManifestCutoffFails, ManifestAppendFails,
                Fault, NoTearing
        <3>2. FlushCutoff \in Nat
            BY DEF FlushCutoff, IndInv, TypeOK, FlushState
        <3> QED BY <1>1, <3>1, <3>2, EditCutoff
    <2>2. CASE ~(FlushManifestCutoff \/ FlushManifestCutoffFails)
        BY <2>2, ManifestUnchanged
    <2> QED BY <2>1, <2>2
<1>3. FileEntries(files', M) = FileEntries(files, M)
    BY TableFilesKept, FileEntriesSame
<1> QED BY <1>1, <1>2, <1>3, TablesNext

\* The MANIFEST loses no table, whether or not an fsync of the log fails.
LEMMA TablesGrow ==
    ASSUME NoTearing, IndInv, IndInv', [Next]_vars
    PROVE  TableEntries \subseteq TableEntries'
<1>1. CASE FlushManifestAdd \/ FlushManifestAddFails
    <2>1. /\ fl.pc = "commit" /\ files' = files
          /\ manifest' \in {manifest, Append(manifest, AddRecord(FlushedTable))}
        BY <1>1 DEF FlushManifestAdd, FlushManifestAddFails, ManifestAppendFails, Fault, NoTearing
    <2> QED BY <2>1, FlushedIsFrozen, AddedEntries
<1>2. CASE PageCommit \/ PageCommitFails
    <2>1. /\ phase = "pagecommit" /\ files' = files
          /\ manifest' \in {manifest, Append(manifest, AddRecord(PagedTable))}
        BY <1>2 DEF PageCommit, PageCommitFails, ManifestAppendFails, Fault, NoTearing
    <2> QED BY <2>1, PagedIsMemtable, AddedEntries
<1>3. CASE CompactManifest
    <2>1. files' = files /\ ManifestTables(manifest') = version.tables /\ Alive
        BY <1>3, RewrittenIsVersion DEF CompactManifest, Alive
    <2> QED BY <2>1, TablesNow, TablesNext, FileEntriesGrow, VersionWithinManifest
<1>4. CASE ~(FlushManifestAdd \/ FlushManifestAddFails \/ CompactManifest \/ PageCommit
             \/ PageCommitFails)
    BY <1>4, EntriesUnchanged
<1> QED BY <1>1, <1>2, <1>3, <1>4

\* A table the MANIFEST gains holds what is in memory.
LEMMA TableStep ==
    ASSUME NoTearing, IndInv, IndInv', ReadInv, [Next]_vars
    PROVE  /\ TableEntries \subseteq TableEntries'
           /\ TableEntries' \subseteq TableEntries \cup MemEntries
<1>1. CASE FlushManifestAdd \/ FlushManifestAddFails
    <2>1. /\ fl.pc = "commit" /\ files' = files
          /\ manifest' \in {manifest, Append(manifest, AddRecord(FlushedTable))}
        BY <1>1 DEF FlushManifestAdd, FlushManifestAddFails, ManifestAppendFails, Fault, NoTearing
    <2>2. TableOK(FlushedTable) /\ files[FlushedTable.num] \subseteq MemEntries
        BY <2>1, FlushedIsFrozen DEF FlushedTable, TableMeta
    <2> QED BY <2>1, <2>2, AddedEntries
<1>2. CASE PageCommit \/ PageCommitFails
    <2>1. /\ phase = "pagecommit" /\ files' = files
          /\ manifest' \in {manifest, Append(manifest, AddRecord(PagedTable))}
        BY <1>2 DEF PageCommit, PageCommitFails, ManifestAppendFails, Fault, NoTearing
    <2>2. TableOK(PagedTable) /\ files[PagedTable.num] \subseteq MemEntries
        BY <2>1, PagedIsMemtable DEF MemEntries
    <2> QED BY <2>1, <2>2, AddedEntries
<1>3. CASE CompactManifest
    <2>1. files' = files /\ ManifestTables(manifest') = version.tables /\ Alive
        BY <1>3, RewrittenIsVersion DEF CompactManifest, Alive
    <2>2. TableEntries' = LiveEntries
        BY <2>1, TablesNext DEF LiveEntries
    <2>3. TableEntries \subseteq LiveEntries
        BY <2>1, TablesNow, FileEntriesGrow, VersionWithinManifest DEF LiveEntries
    <2> QED BY <2>2, <2>3 DEF ReadInv, CoverInv
<1>4. CASE ~(FlushManifestAdd \/ FlushManifestAddFails \/ CompactManifest \/ PageCommit
             \/ PageCommitFails)
    BY <1>4, EntriesUnchanged
<1> QED BY <1>1, <1>2, <1>3, <1>4

\* WriteAppend adds one record, that of its batch, to the log.
LEMMA AppendedEntries ==
    ASSUME IndInv, IndInv', NEW op \in Ops, WriteAppend(op)
    PROVE  /\ op.batch \in Seq(Logical) /\ op.batch # <<>>
           /\ WalRecord(op.batch, nextSeq) \in LogRecord
           /\ \A i \in DOMAIN wal' : \A j \in DOMAIN wal'[i] :
                 \/ i \in DOMAIN wal /\ j \in DOMAIN wal[i] /\ wal'[i][j] = wal[i][j]
                 \/ wal'[i][j] = WalRecord(op.batch, nextSeq)
           /\ WalEntries' = WalEntries \cup EntriesOf(op.batch, nextSeq)
<1> DEFINE r == WalRecord(op.batch, nextSeq)
<1>1. op.batch \in Seq(Logical) /\ op.batch # <<>> /\ nextSeq \in Nat
    BY OpsAssumption DEF IndInv, TypeOK
<1>2. /\ phase = "up" /\ wal' = Appended(Rotated, r) /\ dirty' = RotatedDirty + 1
    BY DEF WriteAppend, CanWrite
<1>3. r \in LogRecord /\ r.ents = EntriesOf(op.batch, nextSeq)
    BY <1>1, BatchRecord DEF LogRecord
<1>4. wal \in Seq(Segment) /\ wal # <<>> /\ dirty \in Nat /\ dirty <= Len(wal[Len(wal)])
    BY <1>2 DEF IndInv, TypeOK, WalInv
<1> HIDE DEF r
<1>5. /\ LogExtends(wal, dirty, wal', dirty', {r})
      /\ wal'[Len(wal')] # <<>> /\ wal'[Len(wal')][Len(wal'[Len(wal')])] = r
    BY <1>2, <1>3, <1>4, LogGrows
<1>6. /\ WalEntries \subseteq WalEntries'
      /\ \A i \in DOMAIN wal' : \A j \in DOMAIN wal'[i] :
            \/ i \in DOMAIN wal /\ j \in DOMAIN wal[i] /\ wal'[i][j] = wal[i][j]
            \/ wal'[i][j] \in {r}
    BY <1>5, ExtendedLogEntries
<1>7. r.ents \subseteq WalEntries'
    <2> DEFINE n == Len(wal')
    <2>1. wal' \in Seq(Segment) /\ wal' # <<>>
        BY <1>5 DEF LogExtends
    <2>2. n \in DOMAIN wal' /\ wal'[n] \in Seq(LogRecord)
        BY <2>1, Segments, LenProperties, EmptySeq
    <2>3. Len(wal'[n]) \in DOMAIN wal'[n]
        BY <1>5, <2>2, LenProperties, EmptySeq
    <2> QED BY <1>5, <2>2, <2>3, InLog DEF WalEntries
<1>8. WalEntries' \subseteq WalEntries \cup r.ents
    <2>1. ASSUME NEW e \in WalEntries' PROVE e \in WalEntries \cup r.ents
        <3>1. PICK i \in DOMAIN wal' : \E j \in DOMAIN wal'[i] : e \in wal'[i][j].ents
            BY <2>1, InLog DEF WalEntries
        <3>2. PICK j \in DOMAIN wal'[i] : e \in wal'[i][j].ents
            BY <3>1
        <3> QED BY <1>6, <3>2, InLog DEF WalEntries
    <2> QED BY <2>1
<1> QED BY <1>1, <1>3, <1>6, <1>7, <1>8 DEF r

\* All that is on disk stays there, and nothing but a call adds to it.
LEMMA DiskStep ==
    ASSUME NoTearing, IndInv, IndInv', ReadInv, [Next]_vars
    PROVE  /\ ~PowerLoss =>
                 TableEntries \cup WalEntries \subseteq TableEntries' \cup WalEntries'
           /\ ~(\E op \in Ops : WriteAppend(op)) =>
                 TableEntries' \cup WalEntries' \subseteq TableEntries \cup WalEntries
<1>1. TableEntries \subseteq TableEntries' /\ TableEntries' \subseteq TableEntries \cup WalEntries
    BY TableStep DEF ReadInv, CoverInv
<1>2. CASE ~(\E op \in Ops : WriteAppend(op))
    <2>1. WalEntries' \subseteq WalEntries
        BY <1>2, LogStep, SameRecordsEntries DEF WalEntries
    <2>2. ~PowerLoss => WalEntries \subseteq WalEntries' \cup TableEntries
        BY <1>2, LogStep
    <2> QED BY <1>1, <1>2, <2>1, <2>2
<1>3. CASE \E op \in Ops : WriteAppend(op)
    <2>1. PICK op \in Ops : WriteAppend(op)
        BY <1>3
    <2>2. WalEntries \subseteq WalEntries'
        BY <2>1, AppendedEntries
    <2> QED BY <1>1, <1>3, <2>2
<1> QED BY <1>2, <1>3

-----------------------------------------------------------------------------
(* No gap in the numbers.                                                  *)

\* What is attained in a set is attained in a larger one.
LEMMA AttainedGrows ==
    ASSUME NEW n, NEW S, NEW T, S \subseteq T, Attained(n, S)
    PROVE  Attained(n, T)
BY DEF Attained

\* The sequence number a flush records as cutoff is in the table it wrote.
LEMMA FlushedCutoffAttained ==
    ASSUME IndInv, ReadInv, fl.pc = "cutoff"
    PROVE  fl.seq \in Nat /\ Attained(fl.seq, TableEntries)
<1> DEFINE S == Head(immutables)
<1>1. /\ immutables # <<>> /\ fl.num \in DOMAIN files /\ files[fl.num] = S
      /\ fl.seq = LargestSeq(S) /\ \E t \in ManifestTables(manifest) : t.num = fl.num
    BY DEF IndInv, FlushInv
<1>2. S \subseteq Entry(Keys) /\ IsFiniteSet(S) /\ fl.seq \in Nat
    BY <1>1, OldestMemtable DEF ReadInv, FiniteInv
<1>3. S \subseteq TableEntries
    BY <1>1 DEF TableEntries
<1> HIDE DEF S
<1>4. CASE S = {}
    BY <1>1, <1>2, <1>4 DEF LargestSeq, Attained
<1>5. CASE S # {}
    BY <1>1, <1>2, <1>3, <1>5, LargestSeqOfFinite, KeysAssumption DEF Attained
<1> QED BY <1>2, <1>4, <1>5

\* A step sets a cutoff to one there was, to none or to that of the flush.
LEMMA CutoffStep ==
    ASSUME NoTearing, IndInv, [Next]_vars
    PROVE  LET old == {0, ManifestCutoff(manifest), version.cutoff}
                        \cup {s \in {fl.seq} : fl.pc = "cutoff"}
           IN  ManifestCutoff(manifest') \in old /\ version'.cutoff \in old
<1> DEFINE old == {0, ManifestCutoff(manifest), version.cutoff}
                    \cup {s \in {fl.seq} : fl.pc = "cutoff"}
<1> SUFFICES ManifestCutoff(manifest') \in old /\ version'.cutoff \in old
    OBVIOUS
<1>0. /\ GoodManifest(manifest) /\ ManifestCutoff(manifest) \in old /\ version.cutoff \in old
      /\ version = [tables |-> version.tables, obsolete |-> version.obsolete,
                    cutoff |-> version.cutoff]
      /\ fl.seq \in Nat
    BY ManifestIsGood DEF IndInv, TypeOK, VersionOK, FlushState
<1>a. fl.pc = "cutoff" => fl.seq \in old
    OBVIOUS
<1>b. ManifestCutoff(manifest) \in old /\ version.cutoff \in old /\ 0 \in old
    OBVIOUS
<1>c. \A t : AddTable(version, t).cutoff = version.cutoff
    BY <1>0 DEF AddTable
<1> HIDE DEF old
<1>1. CASE NoEditStep
    BY <1>b, <1>1, NoEditStepEdits
<1>2. CASE FlushManifestAdd \/ FlushManifestAddFails
    <2>1. /\ fl.pc = "commit" /\ version' = AddTable(version, FlushedTable)
          /\ manifest' \in {manifest, Append(manifest, AddRecord(FlushedTable))}
        BY <1>2 DEF FlushManifestAdd, FlushManifestAddFails, ManifestAppendFails, Fault, NoTearing
    <2>2. ManifestCutoff(manifest') = ManifestCutoff(manifest)
        BY <1>0, <2>1, FlushedIsFrozen, EditAdd
    <2> QED BY <1>b, <1>c, <2>1, <2>2
<1>3. CASE FlushManifestCutoff \/ FlushManifestCutoffFails
    <2>1. /\ fl.pc = "cutoff"
          /\ manifest' \in {manifest, Append(manifest, CutoffRecord(fl.seq))}
          /\ version' \in {version, SetWALCutoff(version, fl.seq)}
        BY <1>3 DEF FlushManifestCutoff, FlushManifestCutoffFails, ManifestAppendFails, Fault,
            NoTearing, FlushCutoff, memory
    <2>2. ManifestCutoff(manifest') \in {ManifestCutoff(manifest), fl.seq}
        BY <1>0, <2>1, EditCutoff
    <2>3. version'.cutoff \in {version.cutoff, fl.seq}
        BY <1>0, <2>1 DEF SetWALCutoff
    <2> QED BY <1>a, <1>b, <2>1, <2>2, <2>3
<1>4. CASE FlushCleanup
    <2>1. manifest' = manifest /\ version'.cutoff = version.cutoff
        BY <1>0, <1>4 DEF FlushCleanup, CleanupObsoleteFiles
    <2> QED BY <1>b, <2>1
<1>5. CASE CompactManifest
    BY <1>b, <1>5, RewrittenIsVersion DEF CompactManifest, memory
<1>6. CASE OpenNew
    BY <1>b, <1>6 DEF OpenNew, disk, memory
<1>7. CASE RecoverStart
    BY <1>b, <1>7 DEF RecoverStart, ReplayManifest, disk
<1>8. CASE PageCommit
    <2>1. /\ phase = "pagecommit" /\ version' = AddTable(version, PagedTable)
          /\ manifest' = Append(manifest, AddRecord(PagedTable))
        BY <1>8 DEF PageCommit
    <2>2. ManifestCutoff(manifest') = ManifestCutoff(manifest)
        BY <1>0, <2>1, PagedIsMemtable, EditAdd
    <2> QED BY <1>b, <1>c, <2>1, <2>2
<1>9. CASE PageBuildFails \/ PageCommitFails \/ OpenMissing \/ Stop
    <2>1. /\ version'.cutoff = 0
          /\ \/ manifest' = manifest
             \/ phase = "pagecommit" /\ manifest' = Append(manifest, AddRecord(PagedTable))
        BY <1>9 DEF PageBuildFails, PageCommitFails, OpenMissing, Stop, Close, Crash, PowerLoss,
            TableLoss, ProcessEnds, NewVersionSet, ManifestAppendFails, Fault, NoTearing, disk
    <2>2. ManifestCutoff(manifest') = ManifestCutoff(manifest)
        BY <1>0, <2>1, PagedIsMemtable, EditAdd
    <2> QED BY <1>b, <2>1, <2>2
<1> QED BY <1>1, <1>2, <1>3, <1>4, <1>5, <1>6, <1>7, <1>8, <1>9
        DEF Next, NoEditStep, Flush, Open, Recover

\* The other steps hand out no number, or end the process.
LEMMA NextSeqUnchanged ==
    ASSUME [Next]_vars, ~WriteApply, ~RecoverStart, ~ReplayApply
    PROVE  /\ nextSeq' = 1 \/ (nextSeq' = nextSeq /\ ~PowerLoss)
           /\ phase = "up" /\ phase' = "up" => nextSeq' = nextSeq
<1>0. PowerLoss => nextSeq' = 1
    BY DEF PowerLoss, ProcessEnds
<1>1. CASE Write
    BY <1>0, <1>1 DEF Write, WriteCheck, WriteAppend, WriteAppendFails, WriteAppendTorn,
        WriteSync, WriteSyncFails, memory
<1>2. CASE Flush \/ CompactManifest
    BY <1>0, <1>2 DEF Flush, FlushStart, FlushPick, FlushDrained, FlushBuild,
        FlushBuildFails, FlushManifestAdd, FlushManifestAddFails, FlushManifestCutoff,
        FlushManifestCutoffFails, FlushSetError, FlushTruncate, FlushRemoveSegment, FlushTruncated,
        SkipCompaction, FlushCleanup, CompactManifest, memory
<1>3. CASE Open
    BY <1>0, <1>3 DEF Open, Recover, OpenNew, ReplayNextSegment, ReplaySkip, PageBuild,
        PageBuildFails, PageCommit, PageCommitFails, ReplayDone, OpenDone, OpenMissing,
        ProcessEnds, memory
<1>4. CASE Stop
    BY <1>4 DEF Stop, Close, Crash, PowerLoss, TableLoss, ProcessEnds
<1>5. CASE UNCHANGED vars
    BY <1>0, <1>5 DEF vars, memory
<1> QED BY <1>1, <1>2, <1>3, <1>4, <1>5 DEF Next

\* The last number of a batch is that of its last entry.
LEMMA BatchAttained ==
    ASSUME NEW batch \in Seq(Logical), batch # <<>>, NEW seq \in Nat
    PROVE  \E e \in EntriesOf(batch, seq) : e.seq = seq + Len(batch) - 1
<1>1. Len(batch) \in DOMAIN batch
    BY LenProperties, EmptySeq
<1>2. InternalKeyOf(batch[Len(batch)].key, seq + Len(batch) - 1, batch[Len(batch)].typ)
        \in EntriesOf(batch, seq)
    BY <1>1 DEF EntriesOf
<1> QED BY <1>2 DEF InternalKeyOf

\* Recover starts behind a number of an entry in a table.
LEMMA RecoveredSeqAttained ==
    ASSUME IndInv, ReadInv, NoGapInv
    PROVE  LET n == RecoveredSeq(ReplayManifest(manifest))
           IN  n \in Nat /\ Attained(n, TableEntries)
<1> DEFINE M == ManifestTables(manifest)
           c == ManifestCutoff(manifest)
           N == {t.largestSeq : t \in M} \cup {c}
           n == MaxOrZero(N)
<1>1. RecoveredSeq(ReplayManifest(manifest)) = n
    BY DEF RecoveredSeq, ReplayManifest
<1>2. /\ GoodManifest(manifest) /\ c \in Nat /\ \A t \in M : TableOK(t)
    BY ManifestIsGood, GoodManifestFacts DEF IndInv
<1>3. HasMax(N)
    <2> DEFINE A == {t.largestSeq : t \in M}
    <2>1. HasMax(A) /\ A \subseteq Nat
        BY <1>2 DEF GoodManifest, TableOK
    <2> HIDE DEF A
    <2>2. HasMax(A \cup {c})
        BY <1>2, <2>1, HasMaxAdd
    <2> QED BY <2>2 DEF A
<1>4. N \subseteq Nat /\ N # {}
    BY <1>2 DEF TableOK
<1>5. n \in N
    <2> HIDE DEF N
    <2> QED BY <1>3, <1>4 DEF HasMax, MaxOrZero
<1>6. ASSUME NEW t \in M PROVE Attained(t.largestSeq, TableEntries)
    <2> DEFINE S == files[t.num]
    <2>1. t.num \in DOMAIN files /\ t.largestSeq = LargestSeq(S)
        BY DEF IndInv, VersionInv, ReadInv, DescribedInv, TableMeta
    <2>2. S \subseteq TableEntries
        BY <2>1 DEF TableEntries
    <2>3. S \subseteq Entry(Keys) /\ IsFiniteSet(S)
        BY <2>1 DEF IndInv, TypeOK, FilesOK, ReadInv, FiniteInv
    <2> HIDE DEF S
    <2>4. CASE S = {}
        BY <2>1, <2>4 DEF LargestSeq, Attained
    <2>5. CASE S # {}
        BY <2>1, <2>2, <2>3, <2>5, LargestSeqOfFinite, KeysAssumption DEF Attained
    <2> QED BY <2>4, <2>5
<1>7. Attained(c, TableEntries)
    BY DEF NoGapInv, CutoffsAttained
<1>8. Attained(n, TableEntries) /\ n \in Nat
    <2> HIDE DEF n, c
    <2> QED BY <1>4, <1>5, <1>6, <1>7
<1> QED BY <1>1, <1>8

\* Every step preserves NoGapInv.
LEMMA NextLeavesNoGap ==
    ASSUME NoTearing, IndInv, IndInv', ReadInv, NoGapInv, [Next]_vars
    PROVE  NoGapInv'
<1> DEFINE D == TableEntries \cup WalEntries
<1>0. nextSeq \in Nat \ {0} /\ wal \in Seq(Segment)
    BY DEF IndInv, TypeOK
<1>1. RecordsAttained'
    <2>1. CASE ~(\E op \in Ops : WriteAppend(op))
        <3>1. SameRecords(wal', wal)
            BY <2>1, LogStep
        <3> QED BY <3>1 DEF SameRecords, NoGapInv, RecordsAttained
    <2>2. ASSUME NEW op \in Ops, WriteAppend(op) PROVE RecordsAttained'
        <3>1. /\ op.batch \in Seq(Logical) /\ op.batch # <<>>
              /\ \A i \in DOMAIN wal' : \A j \in DOMAIN wal'[i] :
                    \/ i \in DOMAIN wal /\ j \in DOMAIN wal[i] /\ wal'[i][j] = wal[i][j]
                    \/ wal'[i][j] = WalRecord(op.batch, nextSeq)
            BY <2>2, AppendedEntries
        <3>2. \E e \in WalRecord(op.batch, nextSeq).ents :
                  e.seq = WalRecord(op.batch, nextSeq).last
            BY <1>0, <3>1, BatchAttained DEF WalRecord
        <3> QED BY <3>1, <3>2 DEF NoGapInv, RecordsAttained
    <2> QED BY <2>1, <2>2
<1>2. CutoffsAttained'
    <2> DEFINE old == {0, ManifestCutoff(manifest), version.cutoff}
                        \cup {s \in {fl.seq} : fl.pc = "cutoff"}
    <2>1. \A c \in old : Attained(c, TableEntries)
        BY FlushedCutoffAttained DEF NoGapInv, CutoffsAttained, Attained
    <2>2. ManifestCutoff(manifest') \in old /\ version'.cutoff \in old
        BY CutoffStep
    <2>3. TableEntries \subseteq TableEntries'
        BY TableStep
    <2> HIDE DEF old
    <2>4. \A c \in old : Attained(c, TableEntries')
        BY <2>1, <2>3, AttainedGrows
    <2> QED BY <2>2, <2>4 DEF CutoffsAttained, Attained
<1>3. NextAttained'
    <2>1. CASE nextSeq' = 1
        BY <2>1 DEF NextAttained, Attained
    <2>2. ASSUME ~PowerLoss, Attained(nextSeq' - 1, D) PROVE NextAttained'
        <3>1. D \subseteq TableEntries' \cup WalEntries'
            BY <2>2, DiskStep
        <3>2. Attained(nextSeq' - 1, TableEntries' \cup WalEntries')
            BY <2>2, <3>1, AttainedGrows
        <3> QED BY <3>2 DEF NextAttained, Attained
    <2>3. WriteApply \/ RecoverStart \/ ReplayApply => ~PowerLoss
        BY DEF WriteApply, RecoverStart, ReplayApply, PowerLoss, counters, ProcessEnds,
            IndInv, TypeOK, AtRecord, WriterInv
    <2>5. CASE WriteApply
        <3> DEFINE r == wal[Len(wal)][Len(wal[Len(wal)])]
        <3>1. /\ wr.batch \in Seq(Logical) /\ nextSeq' = nextSeq + Len(wr.batch)
              /\ wal # <<>> /\ wal[Len(wal)] # <<>> /\ r = WalRecord(wr.batch, nextSeq)
              /\ wr.batch # <<>>
            BY <2>5 DEF WriteApply, SeqAfter, IndInv, WriterInv, TypeOK, WriterState
        <3>2. Len(wal) \in DOMAIN wal /\ Len(wal[Len(wal)]) \in DOMAIN wal[Len(wal)]
            BY <1>0, <3>1, Segments, LenProperties, EmptySeq
        <3>3. EntriesOf(wr.batch, nextSeq) \subseteq WalEntries
            BY <3>1, <3>2, InLog DEF WalEntries, WalRecord
        <3>4. PICK e \in EntriesOf(wr.batch, nextSeq) : e.seq = nextSeq + Len(wr.batch) - 1
            BY <1>0, <3>1, BatchAttained
        <3>5. e \in D /\ e.seq = nextSeq' - 1
            <4>1. Len(wr.batch) \in Nat
                BY <3>1, LenProperties
            <4>2. e \in D
                BY <3>3, <3>4
            <4>3. e.seq = nextSeq' - 1
                BY <1>0, <3>1, <3>4, <4>1
            <4> QED BY <4>2, <4>3
        <3>6. Attained(nextSeq' - 1, D)
            BY <3>5 DEF Attained
        <3> QED BY <2>2, <2>3, <2>5, <3>6
    <2>6. CASE RecoverStart
        <3>1. nextSeq' = RecoveredSeq(ReplayManifest(manifest)) + 1
            BY <2>6 DEF RecoverStart
        <3>2. /\ RecoveredSeq(ReplayManifest(manifest)) \in Nat
              /\ Attained(RecoveredSeq(ReplayManifest(manifest)), TableEntries)
            BY RecoveredSeqAttained
        <3>3. nextSeq' - 1 = RecoveredSeq(ReplayManifest(manifest))
            BY <3>1, <3>2
        <3>4. Attained(nextSeq' - 1, D)
            BY <3>2, <3>3, AttainedGrows
        <3> QED BY <2>2, <2>3, <2>6, <3>4
    <2>7. CASE ReplayApply
        <3>1. /\ phase = "replay" /\ CursorSeg <= Len(wal) /\ cursor[2] <= Len(wal[CursorSeg])
              /\ nextSeq' = IF CursorRec.last >= nextSeq THEN CursorRec.last + 1 ELSE nextSeq
            BY <2>7 DEF ReplayApply, AtRecord
        <3>2. cursor[1] \in DOMAIN wal /\ cursor[2] \in DOMAIN wal[cursor[1]]
            BY <3>1, Reading DEF CursorSeg
        <3>3. CursorRec.ents \subseteq WalEntries /\ \E e \in CursorRec.ents : e.seq = CursorRec.last
            BY <3>2, InLog DEF CursorRec, CursorSeg, WalEntries, NoGapInv, RecordsAttained
        <3>4. CursorRec.last \in Nat
            BY <1>0, <3>2, Segments DEF CursorRec, CursorSeg, LogRecord
        <3>5. CASE nextSeq' = nextSeq
            <4>1. Attained(nextSeq - 1, D)
                BY DEF NoGapInv, NextAttained
            <4> QED BY <2>2, <2>3, <2>7, <3>5, <4>1
        <3>6. CASE nextSeq' = CursorRec.last + 1
            <4>1. nextSeq' - 1 = CursorRec.last
                BY <3>4, <3>6
            <4>2. Attained(nextSeq' - 1, D)
                BY <3>3, <4>1 DEF Attained
            <4> QED BY <2>2, <2>3, <2>7, <4>2
        <3> QED BY <3>1, <3>5, <3>6
    <2>8. CASE ~WriteApply /\ ~RecoverStart /\ ~ReplayApply
        <3>1. nextSeq' = 1 \/ (nextSeq' = nextSeq /\ ~PowerLoss)
            BY <2>8, NextSeqUnchanged
        <3>2. Attained(nextSeq - 1, D)
            BY DEF NoGapInv, NextAttained
        <3> QED BY <2>1, <2>2, <3>1, <3>2
    <2> QED BY <2>5, <2>6, <2>7, <2>8
<1> QED BY <1>1, <1>2, <1>3 DEF NoGapInv

\* NoGapInv holds to begin with.
LEMMA InitLeavesNoGap ==
    ASSUME Init
    PROVE  NoGapInv
<1>1. wal = <<>> /\ manifest = <<>> /\ version = NewVersionSet /\ nextSeq = 1
    BY DEF Init
<1>2. RecordsAttained
    BY <1>1 DEF RecordsAttained
<1>3. CutoffsAttained
    BY <1>1, EmptyManifest DEF CutoffsAttained, Attained, NewVersionSet
<1>4. NextAttained
    BY <1>1 DEF NextAttained, Attained
<1> QED BY <1>2, <1>3, <1>4 DEF NoGapInv

\* All three invariants hold in every reachable state.
THEOREM EngineNoGapHolds ==
    ASSUME NoTearing, SyncsSucceed
    PROVE  Spec => [](IndInv /\ ReadInv /\ NoGapInv)
<1>1. Init => IndInv /\ ReadInv /\ NoGapInv
    BY InitEstablishes, InitReads, InitLeavesNoGap
<1>2. IndInv /\ ReadInv /\ NoGapInv /\ [Next]_vars => (IndInv /\ ReadInv /\ NoGapInv)'
    BY NextPreserves, NextKeepsReads, NextLeavesNoGap
<1> QED BY <1>1, <1>2, PTL DEF Spec

-----------------------------------------------------------------------------
(* The refinement.                                                         *)

\* The largest sequence number of a set is the one nothing exceeds.
LEMMA LargestSeqIs ==
    ASSUME NEW S, NEW n \in Nat, \A e \in S : e.seq \in Nat /\ e.seq <= n, Attained(n, S)
    PROVE  LargestSeq(S) = n
<1>1. /\ LargestSeq(S) \in Nat /\ LargestSeq(S) <= n
      /\ \A e \in S : e.seq <= LargestSeq(S)
    BY LargestSeqMax
<1> QED BY <1>1 DEF Attained

(***************************************************************************)
(* Between calls, what is on disk ends at the number before the next one.  *)
(***************************************************************************)
LEMMA DiskEndsBelowNext ==
    ASSUME IndInv, ReadInv, NoGapInv, phase = "up", mu = "free"
    PROVE  /\ LargestSeq(Recoverable) + 1 = nextSeq
           /\ \A e \in Recoverable : e \in Entry(Keys) /\ e.seq \in Nat /\ e.seq < nextSeq
<1>1. wr.pc = "idle" /\ Alive
    BY DEF IndInv, WriterInv, Alive
<1>2. \A e \in Recoverable : e \in Entry(Keys) /\ e.seq \in Nat /\ e.seq < nextSeq
    BY <1>1, RecoverableIsLive, LiveBelowNext
<1>3. nextSeq \in Nat \ {0}
    BY DEF IndInv, TypeOK
<1>4. Attained(nextSeq - 1, Recoverable)
    BY RecoverableIsOnDisk DEF NoGapInv, NextAttained
<1>5. nextSeq - 1 \in Nat /\ \A e \in Recoverable : e.seq \in Nat /\ e.seq <= nextSeq - 1
    BY <1>2, <1>3
<1>6. LargestSeq(Recoverable) = nextSeq - 1
    BY <1>4, <1>5, LargestSeqIs
<1> QED BY <1>2, <1>3, <1>6

\* The entries of a batch, one for each of its records.
LEMMA EntriesOfRecords ==
    ASSUME NEW batch, NEW seq
    PROVE  /\ \A e \in EntriesOf(batch, seq) : \E i \in DOMAIN batch :
                 /\ e.key = batch[i].key /\ e.seq = seq + i - 1 /\ e.typ = batch[i].typ
                 /\ e = InternalKeyOf(batch[i].key, seq + i - 1, batch[i].typ)
           /\ \A i \in DOMAIN batch :
                 InternalKeyOf(batch[i].key, seq + i - 1, batch[i].typ) \in EntriesOf(batch, seq)
<1> DEFINE B == EntriesOf(batch, seq)
<1>1. \A e \in B : \E i \in DOMAIN batch :
          e = InternalKeyOf(batch[i].key, seq + i - 1, batch[i].typ)
    BY DEF EntriesOf
<1>2. \A x, y, z : /\ InternalKeyOf(x, y, z).key = x /\ InternalKeyOf(x, y, z).seq = y
                   /\ InternalKeyOf(x, y, z).typ = z
    BY DEF InternalKeyOf
<1>3. \A i \in DOMAIN batch : InternalKeyOf(batch[i].key, seq + i - 1, batch[i].typ) \in B
    BY DEF EntriesOf
<1> HIDE DEF B
<1>4. /\ \A e \in B : \E i \in DOMAIN batch :
            e.key = batch[i].key /\ e.seq = seq + i - 1 /\ e.typ = batch[i].typ
            /\ e = InternalKeyOf(batch[i].key, seq + i - 1, batch[i].typ)
      /\ \A i \in DOMAIN batch : InternalKeyOf(batch[i].key, seq + i - 1, batch[i].typ) \in B
    BY <1>1, <1>2, <1>3
<1> QED BY <1>4 DEF B

\* A batch leaves a key it does not write as it was.
LEMMA LookupUntouched ==
    ASSUME NEW S, NEW batch, NEW seq, NEW top, NEW k,
           \A i \in DOMAIN batch : batch[i].key # k
    PROVE  Lookup(S \cup EntriesOf(batch, seq), k, top) = Lookup(S, k, top)
<1> DEFINE B == EntriesOf(batch, seq)
<1>1. \A e \in B : \E i \in DOMAIN batch : e.key = batch[i].key
    BY EntriesOfRecords
<1> HIDE DEF B
<1>2. \A e : e.key = k => (e \in S \cup B <=> e \in S)
    BY <1>1
<1>3. Lookup(S \cup B, k, top) = Lookup(S, k, top)
    BY <1>2, LookupOfKey
<1> QED BY <1>3 DEF B

\* The same of the next state.
LEMMA RecoverableIsOnDiskNext ==
    IndInv' /\ ReadInv' => (Recoverable = TableEntries \cup WalEntries)'
<1>1. IndInv /\ ReadInv => Recoverable = TableEntries \cup WalEntries
    BY RecoverableIsOnDisk
<1> QED BY <1>1, PTL

\* WriteAppend is the abstract step of its batch.
LEMMA AppendApplies ==
    ASSUME IndInv, ReadInv, NoGapInv, IndInv', ReadInv',
           TableEntries' = TableEntries, NEW op \in Ops, WriteAppend(op)
    PROVE  Store!Apply(op.batch)
<1> DEFINE B == EntriesOf(op.batch, nextSeq)
<1>1. phase = "up" /\ mu = "free" /\ nextSeq + Len(op.batch) - 1 <= MaxSeq
    BY DEF WriteAppend, CanWrite
<1>2. op.batch \in Seq(Logical) /\ op.batch # <<>> /\ WalEntries' = WalEntries \cup B
    BY AppendedEntries
<1>3. Recoverable' = Recoverable \cup B
    <2>1. Recoverable' = TableEntries' \cup WalEntries'
        BY RecoverableIsOnDiskNext
    <2> QED BY <1>2, <2>1, RecoverableIsOnDisk
<1>4. /\ LargestSeq(Recoverable) + 1 = nextSeq
      /\ \A e \in Recoverable : e \in Entry(Keys) /\ e.seq \in Nat /\ e.seq < nextSeq
    BY <1>1, DiskEndsBelowNext
<1>5. nextSeq \in Nat \ {0} /\ MaxSeq \in Nat /\ Len(op.batch) \in Nat /\ Len(op.batch) > 0
    BY <1>2, BoundsAssumption, LenProperties, EmptySeq DEF IndInv, TypeOK
<1>6. LargestSeq(Recoverable') = nextSeq + Len(op.batch) - 1
    <2> DEFINE n == nextSeq + Len(op.batch) - 1
    <2>1. n \in Nat
        BY <1>5
    <2>2. \A e \in B : e.seq \in Nat /\ e.seq <= n
        BY <1>2, <1>5, BatchEntries
    <2>3. \A e \in Recoverable : e.seq \in Nat /\ e.seq <= n
        BY <1>4, <1>5
    <2>4. \E e \in B : e.seq = n
        BY <1>2, <1>5, BatchAttained
    <2> HIDE DEF n
    <2>5. Attained(n, Recoverable \cup B)
        BY <2>4 DEF Attained
    <2>6. LargestSeq(Recoverable \cup B) = n
        BY <2>1, <2>2, <2>3, <2>5, LargestSeqIs
    <2> QED BY <1>3, <2>6 DEF n
<1>7. LargestSeq(Recoverable') + 1 = LargestSeq(Recoverable) + 1 + Len(op.batch)
    BY <1>4, <1>5, <1>6
<1>8. ASSUME NEW k \in Keys
      PROVE  Lookup(Recoverable', k, MaxSeq) =
                IF Store!WritesOf(op.batch, k) = {} THEN Lookup(Recoverable, k, MaxSeq)
                ELSE LET i == CHOOSE i \in Store!WritesOf(op.batch, k) :
                                  \A j \in Store!WritesOf(op.batch, k) : j <= i
                     IN  IF RecordIsDelete(op.batch[i]) THEN 0
                         ELSE LargestSeq(Recoverable) + 1 + i - 1
    <2> DEFINE W == {i \in DOMAIN op.batch : op.batch[i].key = k}
    <2>1. Store!WritesOf(op.batch, k) = W
        BY DEF Store!WritesOf
    <2>2. /\ W = {} => Lookup(Recoverable \cup B, k, MaxSeq) = Lookup(Recoverable, k, MaxSeq)
          /\ \A i \in W : (\A j \in W : j <= i) =>
                Lookup(Recoverable \cup B, k, MaxSeq) =
                    IF op.batch[i].typ = RecordTypeTombstone THEN 0 ELSE nextSeq + i - 1
        <3>1. op.batch \in Seq(Logical) /\ nextSeq \in Nat /\ MaxSeq \in Nat
            BY <1>2, <1>5
        <3>2. \A e \in Recoverable : e \in Entry(Keys) /\ e.seq < nextSeq
            BY <1>4
        <3>3. nextSeq + Len(op.batch) - 1 <= MaxSeq
            BY <1>1
        <3>4. ASSUME W = {}
              PROVE  Lookup(Recoverable \cup B, k, MaxSeq) = Lookup(Recoverable, k, MaxSeq)
            <4>1. \A i \in DOMAIN op.batch : op.batch[i].key # k
                BY <3>4
            <4> QED BY <4>1, LookupUntouched
        <3>5. ASSUME NEW i \in W, \A j \in W : j <= i
              PROVE  Lookup(Recoverable \cup B, k, MaxSeq) =
                        IF op.batch[i].typ = RecordTypeTombstone THEN 0 ELSE nextSeq + i - 1
            <4>1. i \in DOMAIN op.batch /\ op.batch[i].key = k
                OBVIOUS
            <4>2. \A j \in DOMAIN op.batch : op.batch[j].key = k => j <= i
                BY <3>5
            <4> DEFINE T == Recoverable \cup B
                       e == InternalKeyOf(k, nextSeq + i - 1, op.batch[i].typ)
                       V == {f \in Visible(T, MaxSeq) : f.key = k}
            <4>3. Len(op.batch) \in Nat /\ DOMAIN op.batch = 1..Len(op.batch)
                BY <3>1, LenProperties
            <4>4. /\ \A f \in B : \E j \in DOMAIN op.batch :
                        f.key = op.batch[j].key /\ f.seq = nextSeq + j - 1 /\ f.typ = op.batch[j].typ
                        /\ f = InternalKeyOf(op.batch[j].key, nextSeq + j - 1, op.batch[j].typ)
                  /\ \A j \in DOMAIN op.batch :
                        InternalKeyOf(op.batch[j].key, nextSeq + j - 1, op.batch[j].typ) \in B
                BY EntriesOfRecords
            <4>5. B \subseteq Entry(Keys)
                BY <3>1, BatchEntries
            <4> HIDE DEF B, W
            <4>6. e.key = k /\ e.seq = nextSeq + i - 1 /\ e.typ = op.batch[i].typ
                BY DEF InternalKeyOf
            <4>7. e.seq \in Nat /\ e.seq <= MaxSeq /\ nextSeq <= e.seq
                BY <3>1, <3>3, <4>1, <4>3, <4>6
            <4>8. e \in V
                BY <4>1, <4>4, <4>6, <4>7 DEF Visible
            <4>9. V \subseteq Entry(Keys) /\ \A f \in V : f.key = e.key
                BY <3>2, <4>5, <4>6 DEF Visible
            <4>10. ASSUME NEW f \in V \ {e} PROVE f.seq < e.seq
                <5>1. f \in Recoverable \/ f \in B
                    BY DEF Visible
                <5>2. CASE f \in Recoverable
                    <6>1. f.seq \in Nat /\ f.seq < nextSeq
                        BY <3>2, <5>2 DEF Entry
                    <6> QED BY <3>1, <4>7, <6>1
                <5>3. CASE f \in B
                    <6>1. PICK j \in DOMAIN op.batch : f.key = op.batch[j].key /\ f.seq = nextSeq + j - 1
                            /\ f = InternalKeyOf(op.batch[j].key, nextSeq + j - 1, op.batch[j].typ)
                        BY <4>4, <5>3
                    <6>2. op.batch[j].key = k
                        BY <6>1 DEF Visible
                    <6>3. j # i
                        BY <4>1, <4>10, <6>1, <6>2
                    <6>4. j <= i /\ j \in Nat /\ i \in Nat
                        BY <4>1, <4>2, <4>3, <6>2
                    <6> QED BY <3>1, <4>6, <6>1, <6>3, <6>4
                <5> QED BY <5>1, <5>2, <5>3
            <4> HIDE DEF V
            <4>11. First(V) = e
                <5> HIDE DEF e
                <5> QED BY <4>8, <4>9, <4>10, FirstIs, KeysAssumption
            <4>12. Lookup(T, k, MaxSeq) = IF V = {} \/ First(V).typ = RecordTypeTombstone
                                          THEN ErrNotFound ELSE First(V).seq
                BY DEF Lookup, V
            <4> QED BY <4>6, <4>8, <4>11, <4>12 DEF ErrNotFound
        <3> QED BY <3>4, <3>5
    <2>3. W \subseteq Nat /\ \A i \in W : i <= Len(op.batch)
        BY <1>2, LenProperties
    <2>4. W # {} => \E i \in W : \A j \in W : j <= i
        <3> HIDE DEF W
        <3> QED BY <1>5, <2>3, MaxExists
    <2> HIDE DEF W
    <2>5. CASE W = {}
        BY <1>3, <2>1, <2>2, <2>5
    <2>6. CASE W # {}
        <3> DEFINE i == CHOOSE i \in W : \A j \in W : j <= i
        <3>1. i \in W /\ \A j \in W : j <= i
            BY <2>4, <2>6
        <3>2. LargestSeq(Recoverable) + 1 + i - 1 = nextSeq + i - 1
            BY <1>4
        <3> HIDE DEF i
        <3>3. Lookup(Recoverable', k, MaxSeq) =
                  IF RecordIsDelete(op.batch[i]) THEN 0 ELSE LargestSeq(Recoverable) + 1 + i - 1
            BY <1>3, <2>2, <3>1, <3>2 DEF RecordIsDelete
        <3> QED BY <2>1, <2>6, <3>3 DEF i
    <2> QED BY <2>5, <2>6
<1> QED BY <1>7, <1>8 DEF Store!Apply

(***************************************************************************)
(* The engine implements the abstract store: every step leaves what a      *)
(* recovery would give each key as it is, or applies one whole batch to    *)
(* it, in the order in which the batches were numbered.                    *)
(***************************************************************************)
THEOREM EngineImplementsKVStore ==
    ASSUME NoTearing, SyncsSucceed, PowerStays
    PROVE  Spec => ImplementsKVStore
<1> DEFINE Inv == IndInv /\ ReadInv /\ NoGapInv
<1>1. Init => Store!KVInit
    <2>1. SUFFICES ASSUME Init PROVE Store!KVInit
        OBVIOUS
    <2>2. Recoverable = {}
        <3>1. wal = <<>> /\ manifest = <<>>
            BY <2>1 DEF Init
        <3>2. TableEntries = {}
            BY <3>1, EmptyManifest DEF TableEntries
        <3>3. \A e : e \notin WalEntries
            BY <3>1, InLog DEF WalEntries
        <3> QED BY <2>1, <3>2, <3>3, RecoverableIsOnDisk, InitEstablishes, InitReads
    <2>3. LargestSeq(Recoverable) = 0
        BY <2>2 DEF LargestSeq
    <2>4. \A k \in Keys : Lookup(Recoverable, k, MaxSeq) = 0
        BY <2>2 DEF Lookup, Visible, ErrNotFound
    <2> QED BY <2>3, <2>4 DEF Store!KVInit
<1>2. Inv /\ Inv' /\ [Next]_vars =>
        [Store!KVNext]_<<[k \in Keys |-> Lookup(Recoverable, k, MaxSeq)], LargestSeq(Recoverable) + 1>>
    <2>1. SUFFICES ASSUME Inv, Inv', [Next]_vars
                   PROVE  \/ Store!KVNext
                          \/ Recoverable' = Recoverable
        OBVIOUS
    <2>2. CASE \E op \in Ops : WriteAppend(op)
        <3>1. PICK op \in Ops : WriteAppend(op)
            BY <2>2
        <3>2. TableEntries' = TableEntries
            BY <3>1 DEF WriteAppend, TableEntries
        <3>3. Store!Apply(op.batch)
            BY <2>1, <3>1, <3>2, AppendApplies DEF IndInv
        <3> QED BY <3>3 DEF Store!KVNext
    <2>3. CASE ~(\E op \in Ops : WriteAppend(op))
        <3>1. ~PowerLoss
            BY DEF PowerLoss, PowerStays
        <3>2. TableEntries' \cup WalEntries' = TableEntries \cup WalEntries
            BY <2>1, <2>3, <3>1, DiskStep
        <3>3. Recoverable = TableEntries \cup WalEntries /\ Recoverable' = TableEntries' \cup WalEntries'
            BY <2>1, RecoverableIsOnDisk, RecoverableIsOnDiskNext
        <3> QED BY <3>2, <3>3
    <2> QED BY <2>2, <2>3
<1>3. Spec => []Inv
    BY EngineNoGapHolds
<1> QED BY <1>1, <1>2, <1>3, PTL DEF Spec, ImplementsKVStore, Store!KVSpec

-----------------------------------------------------------------------------
(* What a snapshot reads.                                                  *)

\* A read at a number that was handed out finds what is on disk, the record
\* of the call in progress aside.
LEMMA ReadIsOfDisk ==
    ASSUME IndInv, ReadInv, phase = "up", NEW k, NEW r \in 0..(nextSeq - 1)
    PROVE  Lookup(ReadSet(k), k, r) = Lookup(TableEntries \cup WalEntries, k, r)
<1>1. nextSeq \in Nat \ {0} /\ r \in Nat /\ r < nextSeq
    BY DEF IndInv, TypeOK
<1>2. TableEntries \subseteq LiveEntries
    BY TablesNow, FileEntriesGrow DEF LiveEntries, IndInv, VersionInv, Alive
<1>3. ASSUME NEW e \in Pending PROVE ~(e.seq <= r)
    <2>1. wr.pc # "idle" /\ e \in EntriesOf(wr.batch, nextSeq)
        BY <1>3 DEF Pending
    <2>2. wr.batch \in Seq(Logical)
        BY DEF IndInv, TypeOK, WriterState
    <2>3. e.seq \in Nat /\ nextSeq <= e.seq
        BY <1>1, <2>1, <2>2, BatchEntries
    <2> QED BY <1>1, <2>3
<1>4. ASSUME NEW e, e.key = k, e.seq <= r
      PROVE  e \in ReadSet(k) <=> e \in TableEntries \cup WalEntries
    <2>1. e \in ReadSet(k) <=> e \in LiveEntries \cup MemEntries
        BY <1>4, ReadSetOfKey
    <2> QED BY <1>2, <1>3, <1>4, <2>1 DEF ReadInv, CoverInv
<1> QED BY <1>4, LookupUpTo

\* Now, and in the next state.
LEMMA ReadsAreOfDisk ==
    IndInv /\ ReadInv /\ phase = "up" =>
        \A k \in Keys : \A r \in 0..(nextSeq - 1) :
            Lookup(ReadSet(k), k, r) = Lookup(TableEntries \cup WalEntries, k, r)
BY ReadIsOfDisk

LEMMA ReadsAreOfDiskNext ==
    (IndInv /\ ReadInv /\ phase = "up")' =>
        (\A k \in Keys : \A r \in 0..(nextSeq - 1) :
            Lookup(ReadSet(k), k, r) = Lookup(TableEntries \cup WalEntries, k, r))'
BY ReadsAreOfDisk, PTL

\* While the database stays open, the next number does not go back.
LEMMA NextSeqGrows ==
    ASSUME IndInv, [Next]_vars, phase = "up", phase' = "up"
    PROVE  nextSeq' \in Nat /\ nextSeq <= nextSeq' /\ ~PowerLoss
<1>0. nextSeq \in Nat /\ wr.batch \in Seq(Logical)
    BY DEF IndInv, TypeOK, WriterState
<1>1. CASE WriteApply
    <2>1. nextSeq' = nextSeq + Len(wr.batch) /\ faults' = faults /\ crashes' = crashes
        BY <1>1 DEF WriteApply, SeqAfter, counters
    <2> QED BY <1>0, <2>1, LenProperties DEF PowerLoss, IndInv, TypeOK
<1>2. CASE ~WriteApply
    <2>1. ~RecoverStart /\ ~ReplayApply
        BY DEF RecoverStart, ReplayApply
    <2> QED BY <1>0, <1>2, <2>1, NextSeqUnchanged DEF PowerLoss, ProcessEnds
<1> QED BY <1>1, <1>2

(***************************************************************************)
(* While the database stays open, no step changes what a read at a number  *)
(* that was handed out finds: neither a rotation, a flush or one that      *)
(* fails halfway, a truncation or the rewrite of the MANIFEST, nor a write *)
(* that is appended, applied or given up.                                  *)
(***************************************************************************)
THEOREM EngineSnapshotReadsStable ==
    ASSUME NoTearing, SyncsSucceed
    PROVE  Spec => SnapshotReadsStable
<1> DEFINE Inv == IndInv /\ ReadInv
<1>1. ASSUME Inv, Inv', [Next]_vars, phase = "up", phase' = "up",
             NEW k \in Keys, NEW r \in Nat, r < nextSeq
      PROVE  Lookup(ReadSet(k)', k, r) = Lookup(ReadSet(k), k, r)
    <2> DEFINE D == TableEntries \cup WalEntries
    <2>1. nextSeq \in Nat /\ nextSeq' \in Nat /\ nextSeq <= nextSeq' /\ ~PowerLoss
        BY <1>1, NextSeqGrows DEF IndInv, TypeOK
    <2>2. r \in 0..(nextSeq - 1) /\ r \in 0..(nextSeq' - 1)
        <3>1. \A m, n \in Nat : m <= n /\ r < m => r \in 0..(m - 1) /\ r \in 0..(n - 1)
            OBVIOUS
        <3>2. r < nextSeq
            BY <1>1
        <3> QED BY <2>1, <3>1, <3>2
    <2>3. Lookup(ReadSet(k), k, r) = Lookup(D, k, r)
        BY <1>1, <2>2, ReadsAreOfDisk
    <2>4. Lookup(ReadSet(k)', k, r) = Lookup(D', k, r)
        BY <1>1, <2>2, ReadsAreOfDiskNext
    <2>5. ASSUME NEW e, e.seq <= r PROVE e \in D' <=> e \in D
        <3>1. CASE \E op \in Ops : WriteAppend(op)
            <4>1. PICK op \in Ops : WriteAppend(op)
                BY <3>1
            <4>2. /\ WalEntries' = WalEntries \cup EntriesOf(op.batch, nextSeq)
                  /\ op.batch \in Seq(Logical)
                BY <1>1, <4>1, AppendedEntries
            <4>3. TableEntries' = TableEntries
                BY <4>1 DEF WriteAppend, TableEntries
            <4>4. \A f \in EntriesOf(op.batch, nextSeq) : f.seq \in Nat /\ nextSeq <= f.seq
                BY <2>1, <4>2, BatchEntries
            <4>5. e \notin EntriesOf(op.batch, nextSeq)
                BY <1>1, <2>1, <2>5, <4>4
            <4> QED BY <4>2, <4>3, <4>5
        <3>2. CASE ~(\E op \in Ops : WriteAppend(op))
            BY <1>1, <2>1, <3>2, DiskStep
        <3> QED BY <3>1, <3>2
    <2> HIDE DEF D
    <2>6. Lookup(D', k, r) = Lookup(D, k, r)
        BY <2>5, LookupUpTo
    <2> QED BY <2>3, <2>4, <2>6
<1>2. Inv /\ Inv' /\ [Next]_vars =>
        [phase = "up" /\ phase' = "up" =>
            \A k \in Keys, readSeq \in 0..(nextSeq - 1) :
                Lookup(ReadSet(k)', k, readSeq) = Lookup(ReadSet(k), k, readSeq)]_vars
    <2>1. Inv => nextSeq \in Nat
        BY DEF IndInv, TypeOK
    <2>2. nextSeq \in Nat => \A r \in 0..(nextSeq - 1) : r \in Nat /\ r < nextSeq
        OBVIOUS
    <2> QED BY <1>1, <2>1, <2>2
<1>3. Spec => []Inv
    BY EngineReadInvariantHolds
<1> QED BY <1>2, <1>3, PTL DEF Spec, SnapshotReadsStable

-----------------------------------------------------------------------------
(* What a loss of power takes.                                             *)

\* The entries of a record that is in the log, and of one after it.
LEMMA LogOrder ==
    ASSUME NEW w, LogOrdered(w), NEW i \in DOMAIN w, NEW j \in DOMAIN w[i],
           NEW k \in DOMAIN w, NEW l \in DOMAIN w[k], Earlier(i, j, k, l),
           NEW e \in w[i][j].ents, NEW f \in w[k][l].ents
    PROVE  e.seq < f.seq
BY DEF LogOrdered

\* No entry in the directory has a number that is about to be handed out.
LEMMA DiskBelowNext ==
    ASSUME IndInv, ReadInv, phase = "up", mu = "free", NEW e \in TableEntries \cup WalEntries
    PROVE  e.seq \in Nat /\ e.seq < nextSeq
<1>1. wr.pc = "idle" /\ Alive
    BY DEF IndInv, WriterInv, Alive
<1> QED BY <1>1, RecoverableIsOnDisk, RecoverableIsLive, LiveBelowNext

(***************************************************************************)
(* The log stays in order: a record is appended behind the others with the *)
(* next numbers, and records are only taken away at the two ends.          *)
(***************************************************************************)
LEMMA LogStaysOrdered ==
    ASSUME NoTearing, IndInv, IndInv', ReadInv, LogOrdered(wal), [Next]_vars
    PROVE  LogOrdered(wal')
<1>0. /\ wal \in Seq(Segment) /\ wal' \in Seq(Segment) /\ nextSeq \in Nat
      /\ dirty \in Nat /\ (wal # <<>> => dirty <= Len(wal[Len(wal)]))
    BY DEF IndInv, TypeOK, WalInv
<1>1. ASSUME \A i \in DOMAIN wal' : \A j \in DOMAIN wal'[i] :
                i \in DOMAIN wal /\ j \in DOMAIN wal[i] /\ wal'[i][j] = wal[i][j]
      PROVE  LogOrdered(wal')
    BY <1>1 DEF LogOrdered
<1>2. ASSUME NEW op \in Ops, WriteAppend(op) PROVE LogOrdered(wal')
    <2> DEFINE r == WalRecord(op.batch, nextSeq)
    <2>1. /\ phase = "up" /\ mu = "free" /\ wal' = Appended(Rotated, r)
          /\ dirty' = RotatedDirty + 1 /\ op.batch \in Seq(Logical) /\ op.batch # <<>>
        BY <1>2, OpsAssumption DEF WriteAppend, CanWrite
    <2>2. r \in LogRecord /\ r.ents = EntriesOf(op.batch, nextSeq)
        BY <1>0, <2>1, BatchRecord DEF LogRecord
    <2>3. \A f \in r.ents : f.seq \in Nat /\ nextSeq <= f.seq
        BY <1>0, <2>1, <2>2, BatchEntries
    <2>4. wal # <<>>
        BY <2>1 DEF IndInv, WalInv
    <2> HIDE DEF r
    <2>5. LogExtends(wal, dirty, wal', dirty', {r})
        BY <1>0, <2>1, <2>2, <2>4, LogGrows
    <2>6. /\ Len(wal') \in Nat /\ DOMAIN wal' = 1..Len(wal')
          /\ \A i \in DOMAIN wal' : Len(wal'[i]) \in Nat /\ DOMAIN wal'[i] = 1..Len(wal'[i])
        BY <1>0, Segments
    <2>7. \A i \in DOMAIN wal' : \A j \in DOMAIN wal'[i] :
              \/ i \in DOMAIN wal /\ j \in DOMAIN wal[i] /\ wal'[i][j] = wal[i][j]
              \/ i = Len(wal') /\ j = Len(wal'[i]) /\ wal'[i][j] = r
        BY <2>5, ExtendedLogEntries
    <2>8. SUFFICES ASSUME NEW i \in DOMAIN wal', NEW k \in DOMAIN wal', NEW j \in DOMAIN wal'[i],
                          NEW l \in DOMAIN wal'[k], Earlier(i, j, k, l),
                          NEW e \in wal'[i][j].ents, NEW f \in wal'[k][l].ents
                   PROVE  e.seq < f.seq
        BY DEF LogOrdered
    <2>9. ~(i = Len(wal') /\ j = Len(wal'[i]))
        BY <2>6, <2>8 DEF Earlier
    <2>10. i \in DOMAIN wal /\ j \in DOMAIN wal[i] /\ wal'[i][j] = wal[i][j]
        BY <2>7, <2>9
    <2>11. CASE k \in DOMAIN wal /\ l \in DOMAIN wal[k] /\ wal'[k][l] = wal[k][l]
        BY <2>8, <2>10, <2>11, LogOrder
    <2>12. CASE wal'[k][l] = r
        <3>1. e \in WalEntries
            BY <2>8, <2>10, InLog DEF WalEntries
        <3>2. e.seq \in Nat /\ e.seq < nextSeq
            BY <2>1, <3>1, DiskBelowNext
        <3>3. f.seq \in Nat /\ nextSeq <= f.seq
            BY <2>3, <2>8, <2>12
        <3> QED BY <1>0, <3>2, <3>3
    <2> QED BY <2>7, <2>11, <2>12
<1>3. ASSUME NEW op \in Ops, WriteAppendFails(op) PROVE LogOrdered(wal')
    <2>1. phase = "up" /\ (wal' = wal \/ (wal' = Rotated /\ dirty' = RotatedDirty))
        BY <1>3 DEF WriteAppendFails, CanWrite
    <2>2. CASE wal' = wal
        BY <2>2
    <2>3. CASE wal' = Rotated /\ dirty' = RotatedDirty
        <3>1. LogExtends(wal, dirty, wal', dirty', {})
            BY <1>0, <2>1, <2>3, LogRotates DEF IndInv, WalInv
        <3> QED BY <1>1, <3>1, ExtendedLogEntries
    <2> QED BY <2>1, <2>2, <2>3
<1>4. CASE FlushRemoveSegment
    <2>1. \A i \in DOMAIN wal' : i + 1 \in DOMAIN wal /\ wal'[i] = wal[i + 1]
        BY <1>4, SegmentRemoved
    <2>2. SUFFICES ASSUME NEW i \in DOMAIN wal', NEW k \in DOMAIN wal', NEW j \in DOMAIN wal'[i],
                          NEW l \in DOMAIN wal'[k], Earlier(i, j, k, l),
                          NEW e \in wal'[i][j].ents, NEW f \in wal'[k][l].ents
                   PROVE  e.seq < f.seq
        BY DEF LogOrdered
    <2>3. i \in Nat /\ k \in Nat
        BY <1>0, Segments
    <2>4. Earlier(i + 1, j, k + 1, l)
        BY <2>2, <2>3 DEF Earlier
    <2> QED BY <2>1, <2>2, <2>4, LogOrder
<1>5. CASE OpenDone
    BY <1>1, <1>5, LogOpened
<1>6. CASE PowerLoss
    BY <1>1, <1>6, PowerLossKeepsRecords
<1>7. CASE ~(\E op \in Ops : WriteAppend(op) \/ WriteAppendFails(op)) /\ ~FlushRemoveSegment
           /\ ~OpenDone /\ ~PowerLoss
    BY <1>7, LogUnchanged
<1> QED BY <1>2, <1>3, <1>4, <1>5, <1>6, <1>7

\* While the database is open, what only the log holds is in a memtable or of
\* the call in progress, hence newer than the oldest immutable memtable or in it.
LEMMA OldestIsOlder ==
    ASSUME IndInv, ReadInv, phase = "up", immutables # <<>>,
           NEW e \in Head(immutables), NEW f \in WalEntries \ TableEntries, f \notin Head(immutables)
    PROVE  e.seq < f.seq
<1>1. /\ DOMAIN immutables = 1..Len(immutables) /\ Len(immutables) \in Nat
      /\ 1 \in DOMAIN immutables /\ e \in immutables[1] /\ e.seq \in Nat
      /\ Head(immutables) = immutables[1]
    BY OldestMemtable
<1>2. f \in memtable \/ f \in Frozen(immutables) \/ f \in Pending
    BY DEF ReadInv, CoverInv, MemEntries
<1>3. CASE f \in memtable
    BY <1>1, <1>3 DEF IndInv, MemInv
<1>4. CASE f \in Frozen(immutables)
    <2>1. PICK i \in DOMAIN immutables : f \in immutables[i]
        BY <1>4, InSome
    <2>2. 1 < i
        BY <1>1, <2>1
    <2> QED BY <1>1, <2>1, <2>2 DEF IndInv, MemInv
<1>5. CASE f \in Pending
    <2>1. wr.pc # "idle" /\ f \in EntriesOf(wr.batch, nextSeq)
        BY <1>5 DEF Pending
    <2>2. wr.batch \in Seq(Logical) /\ nextSeq \in Nat
        BY DEF IndInv, TypeOK, WriterState
    <2>3. f.seq \in Nat /\ nextSeq <= f.seq
        BY <2>1, <2>2, BatchEntries
    <2>4. e.seq < nextSeq
        BY <1>1 DEF IndInv, MemInv
    <2> QED BY <1>1, <2>2, <2>3, <2>4
<1> QED BY <1>2, <1>3, <1>4, <1>5

\* What Recover pages out is older than what it has not read.
LEMMA PagedIsOlder ==
    ASSUME IndInv, ReadInv, LogOrdered(wal), ReplayedIsBehind, phase = "pagecommit",
           NEW e \in memtable, NEW f \in WalEntries \ TableEntries, f \notin memtable
    PROVE  e.seq < f.seq
<1>1. Replaying /\ Alive
    BY DEF Replaying, Alive
<1>2. /\ wal \in Seq(Segment) /\ cursor[1] \in Nat /\ cursor[2] \in Nat
      /\ ManifestCutoff(manifest) \in Nat
    BY <1>1, VersionWithinManifest DEF IndInv, TypeOK
<1>3. PICK i \in DOMAIN wal : \E j \in DOMAIN wal[i] :
          Earlier(i, j, cursor[1], cursor[2]) /\ e \in wal[i][j].ents
    BY <1>1 DEF ReplayedIsBehind
<1>4. PICK j \in DOMAIN wal[i] : Earlier(i, j, cursor[1], cursor[2]) /\ e \in wal[i][j].ents
    BY <1>3
<1>5. PICK k \in DOMAIN wal : \E l \in DOMAIN wal[k] : f \in wal[k][l].ents
    BY InLog DEF WalEntries
<1>6. PICK l \in DOMAIN wal[k] : f \in wal[k][l].ents
    BY <1>5
<1>7. i \in Nat /\ j \in Nat /\ k \in Nat /\ l \in Nat /\ wal[k][l].last \in Nat
    <2>1. /\ DOMAIN wal = 1..Len(wal) /\ DOMAIN wal[i] = 1..Len(wal[i])
          /\ DOMAIN wal[k] = 1..Len(wal[k]) /\ wal[k][l] \in LogRecord
        BY <1>2, <1>4, <1>6, Segments
    <2> QED BY <1>4, <1>6, <2>1 DEF LogRecord
<1>8. ~Earlier(k, l, cursor[1], cursor[2])
    <2> SUFFICES ASSUME Earlier(k, l, cursor[1], cursor[2])
                 PROVE  FALSE
        OBVIOUS
    <2>1. Recovered(k, l)
        BY <1>1, <1>6 DEF IndInv, ReplayInv, Earlier
    <2>2. CASE wal[k][l].last > ManifestCutoff(manifest)
        BY <1>6, <2>1, <2>2 DEF Recovered
    <2>3. CASE wal[k][l].last <= ManifestCutoff(manifest)
        BY <1>6, <2>3 DEF ReadInv, CoverInv
    <2> QED BY <1>2, <1>7, <2>2, <2>3
<1>9. Earlier(i, j, k, l)
    BY <1>2, <1>4, <1>7, <1>8 DEF Earlier
<1> QED BY <1>4, <1>6, <1>9, LogOrder

(***************************************************************************)
(* Whatever is added to the tables of the MANIFEST, by a flush, a rewrite  *)
(* or a recovery, is older than what is then only in the log.              *)
(***************************************************************************)
LEMMA TablesStayOlder ==
    ASSUME NoTearing, IndInv, IndInv', ReadInv, OrderInv, [Next]_vars
    PROVE  TablesOlder'
<1> SUFFICES ASSUME NEW e \in TableEntries', NEW f \in WalEntries', f \notin TableEntries'
             PROVE  e.seq < f.seq
    BY DEF TablesOlder
<1>0. /\ TableEntries \subseteq TableEntries' /\ f \notin TableEntries
      /\ TablesOlder /\ LogOrdered(wal) /\ ReplayedIsBehind
    BY TableStep DEF OrderInv
<1>1. ASSUME NEW op \in Ops, WriteAppend(op) PROVE e.seq < f.seq
    <2>1. /\ WalEntries' = WalEntries \cup EntriesOf(op.batch, nextSeq)
          /\ op.batch \in Seq(Logical)
        BY <1>1, AppendedEntries
    <2>2. TableEntries' = TableEntries /\ phase = "up" /\ mu = "free" /\ nextSeq \in Nat
        BY <1>1 DEF WriteAppend, CanWrite, TableEntries, IndInv, TypeOK
    <2>3. e \in TableEntries /\ e.seq \in Nat /\ e.seq < nextSeq
        BY <2>2, DiskBelowNext
    <2>4. CASE f \in WalEntries
        BY <1>0, <2>3, <2>4 DEF TablesOlder
    <2>5. CASE f \in EntriesOf(op.batch, nextSeq)
        BY <2>1, <2>2, <2>3, <2>5, BatchEntries
    <2> QED BY <2>1, <2>4, <2>5
<1>2. CASE ~(\E op \in Ops : WriteAppend(op))
    <2>1. f \in WalEntries \ TableEntries
        BY <1>0, <1>2, LogStep, SameRecordsEntries DEF WalEntries
    <2>2. CASE e \in TableEntries
        BY <1>0, <2>1, <2>2 DEF TablesOlder
    <2>3. CASE e \notin TableEntries
        <3>1. CASE FlushManifestAdd \/ FlushManifestAddFails
            <4>1. /\ fl.pc = "commit" /\ files' = files
                  /\ manifest' \in {manifest, Append(manifest, AddRecord(FlushedTable))}
                BY <3>1 DEF FlushManifestAdd, FlushManifestAddFails, ManifestAppendFails, Fault,
                    NoTearing
            <4>2. /\ phase = "up" /\ immutables # <<>> /\ TableOK(FlushedTable)
                  /\ files[FlushedTable.num] = Head(immutables)
                BY <4>1, FlushedIsFrozen, FlushedTableFacts
            <4>3. TableEntries' \in {TableEntries, TableEntries \cup Head(immutables)}
                BY <4>1, <4>2, AddedEntries
            <4> QED BY <2>1, <2>3, <4>2, <4>3, OldestIsOlder
        <3>2. CASE PageCommit \/ PageCommitFails
            <4>1. /\ phase = "pagecommit" /\ files' = files
                  /\ manifest' \in {manifest, Append(manifest, AddRecord(PagedTable))}
                BY <3>2 DEF PageCommit, PageCommitFails, ManifestAppendFails, Fault, NoTearing
            <4>2. TableOK(PagedTable) /\ files[PagedTable.num] = memtable
                BY <4>1, PagedIsMemtable
            <4>3. TableEntries' \in {TableEntries, TableEntries \cup memtable}
                BY <4>1, <4>2, AddedEntries
            <4> QED BY <1>0, <2>1, <2>3, <4>1, <4>3, PagedIsOlder
        <3>3. CASE CompactManifest
            <4>1. files' = files /\ ManifestTables(manifest') = version.tables
                  /\ phase = "up" /\ Alive
                BY <3>3, RewrittenIsVersion DEF CompactManifest, Alive
            <4>2. TableEntries' = FileEntries(files, version.tables)
                BY <4>1, TablesNext
            <4>3. PICK t \in version.tables : e \in files[t.num]
                BY <4>2 DEF FileEntries
            <4>4. files[t.num] \subseteq TableEntries'
                BY <4>2 DEF FileEntries
            <4>5. immutables # <<>> /\ files[t.num] = Head(immutables)
                BY <2>3, <4>1, <4>3 DEF OrderInv, UnrecordedIsOldest
            <4> QED BY <2>1, <4>1, <4>3, <4>4, <4>5, OldestIsOlder
        <3>4. CASE ~(FlushManifestAdd \/ FlushManifestAddFails \/ CompactManifest \/ PageCommit
                     \/ PageCommitFails)
            BY <2>3, <3>4, EntriesUnchanged
        <3> QED BY <3>1, <3>2, <3>3, <3>4
    <2> QED BY <2>2, <2>3
<1> QED BY <1>1, <1>2

\* A file written under a number that no table of the version has.
LEMMA LiveFilesKept ==
    ASSUME FilesOK(files), NEW num, NEW S, files' = WriteFile(num, S),
           \A t \in version.tables : t.num # num /\ t.num \in DOMAIN files
    PROVE  \A t \in version.tables : files'[t.num] = files[t.num]
BY DEF WriteFile

(***************************************************************************)
(* A table of the version comes from the MANIFEST, or from the oldest      *)
(* immutable memtable, which leaves the list only when the MANIFEST has a  *)
(* table of it.                                                            *)
(***************************************************************************)
LEMMA UnrecordedStaysOldest ==
    ASSUME NoTearing, IndInv, IndInv', UnrecordedIsOldest, [Next]_vars
    PROVE  UnrecordedIsOldest'
<1>0. /\ TableEntries \subseteq TableEntries' /\ VersionOK(version) /\ FilesOK(files)
      /\ immutables \in Seq(SUBSET Entry(Keys)) /\ version.obsolete = {}
      /\ TableEntries' = FileEntries(files', ManifestTables(manifest'))
    BY TablesGrow, TablesNext DEF IndInv, TypeOK, VersionInv
<1>1. ASSUME Alive, version'.tables \subseteq version.tables,
             \A t \in version.tables : files'[t.num] = files[t.num],
             immutables # <<>> => immutables' # <<>> /\ Head(immutables') = Head(immutables)
      PROVE  UnrecordedIsOldest'
    BY <1>0, <1>1 DEF UnrecordedIsOldest
<1>2. ASSUME \A t \in version'.tables : files'[t.num] \subseteq TableEntries'
      PROVE  UnrecordedIsOldest'
    BY <1>2 DEF UnrecordedIsOldest
<1>3. CASE FlushBuild \/ FlushBuildFails
    <2>1. /\ fl.pc = "build" /\ \E S : files' = WriteFile(fl.num, S)
          /\ version' = version /\ immutables' = immutables
        BY <1>3 DEF FlushBuild, FlushBuildFails, memory
    <2>2. Alive /\ \A t \in version.tables : t.num # fl.num /\ t.num \in DOMAIN files
        BY <2>1 DEF IndInv, FlushInv, VersionInv, Alive
    <2> QED BY <1>0, <1>1, <2>1, <2>2, LiveFilesKept
<1>4. CASE PageBuild
    <2>1. /\ phase = "page" /\ files' = WriteFile(nextFileNum, memtable)
          /\ version' = version /\ immutables' = immutables
        BY <1>4 DEF PageBuild, memory
    <2>2. Alive /\ \A t \in version.tables : t.num # nextFileNum /\ t.num \in DOMAIN files
        BY <2>1, Paging
    <2> QED BY <1>0, <1>1, <2>1, <2>2, LiveFilesKept
<1>5. CASE FlushCleanup
    <2>1. fl.pc = "cleanup" /\ CleanupObsoleteFiles /\ immutables' = immutables
        BY <1>5 DEF FlushCleanup
    <2>2. files' = files /\ version'.tables = version.tables /\ Alive
        BY <1>0, <2>1, RemoveNothing DEF CleanupObsoleteFiles, VersionOK, IndInv, FlushInv, Alive
    <2> QED BY <1>1, <2>1, <2>2
<1>6. CASE WriteApply
    <2>1. /\ files' = files /\ version' = version /\ wr.pc = "synced"
          /\ \/ immutables' = immutables
             \/ immutables' = Append(immutables, memtable \cup EntriesOf(wr.batch, nextSeq))
        BY <1>6 DEF WriteApply, disk
    <2>2. Alive
        BY <2>1 DEF IndInv, WriterInv, Alive
    <2>3. memtable \cup EntriesOf(wr.batch, nextSeq) \subseteq Entry(Keys)
        BY BatchEntries DEF IndInv, TypeOK, WriterState
    <2>4. immutables # <<>> => immutables' # <<>> /\ Head(immutables') = Head(immutables)
        BY <1>0, <2>1, <2>3, AppendProperties, HeadTailProperties, LenProperties, EmptySeq
    <2> QED BY <1>1, <2>1, <2>2, <2>4
<1>7. CASE FlushManifestAdd \/ FlushManifestAddFails
    <2>1. /\ fl.pc = "commit" /\ files' = files /\ version' = AddTable(version, FlushedTable)
          /\ immutables' = immutables
        BY <1>7 DEF FlushManifestAdd, FlushManifestAddFails
    <2>2. Alive /\ immutables # <<>> /\ files[FlushedTable.num] = Head(immutables)
        BY <2>1, FlushedIsFrozen, FlushedTableFacts
    <2>3. version'.tables = version.tables \cup {FlushedTable}
        BY <1>0, <2>1 DEF AddTable, VersionOK
    <2> QED BY <1>0, <2>1, <2>2, <2>3 DEF UnrecordedIsOldest
<1>8. CASE FlushManifestCutoff
    <2>1. /\ fl.pc = "cutoff" /\ files' = files /\ version' = SetWALCutoff(version, FlushCutoff)
        BY <1>8 DEF FlushManifestCutoff
    <2>2. version'.tables = version.tables
        BY <1>0, <2>1 DEF SetWALCutoff, VersionOK
    <2>3. Alive /\ Head(immutables) \subseteq TableEntries
        <3>1. /\ phase = "up" /\ files[fl.num] = Head(immutables)
              /\ \E t \in ManifestTables(manifest) : t.num = fl.num
            BY <2>1 DEF IndInv, FlushInv
        <3> QED BY <3>1, TablesNow DEF FileEntries, Alive
    <2> QED BY <1>0, <1>2, <2>1, <2>2, <2>3 DEF UnrecordedIsOldest
<1>9. CASE CompactManifest
    <2>1. ManifestTables(manifest') = version.tables /\ version' = version
        BY <1>9, RewrittenIsVersion DEF CompactManifest, memory
    <2> QED BY <1>0, <1>2, <2>1 DEF FileEntries
<1>10. CASE OpenNew
    <2>1. version' = version /\ version = NewVersionSet
        BY <1>10 DEF OpenNew, memory, IndInv, NewInv
    <2> QED BY <1>2, <2>1 DEF NewVersionSet
<1>11. CASE RecoverStart
    <2>1. version' = ReplayManifest(manifest) /\ manifest' = manifest
        BY <1>11 DEF RecoverStart, disk
    <2>2. version'.tables = ManifestTables(manifest')
        BY <2>1 DEF ReplayManifest
    <2> QED BY <1>0, <1>2, <2>2 DEF FileEntries
<1>12. CASE PageCommit
    <2>1. /\ phase = "pagecommit" /\ files' = files /\ version' = AddTable(version, PagedTable)
          /\ manifest' = Append(manifest, AddRecord(PagedTable)) /\ immutables' = immutables
        BY <1>12 DEF PageCommit
    <2>2. TableOK(PagedTable) /\ Alive
        BY <2>1, PagedIsMemtable
    <2>3. TableEntries' = TableEntries \cup files[PagedTable.num]
        BY <2>1, <2>2, AddedEntries
    <2>4. version'.tables = version.tables \cup {PagedTable}
        BY <1>0, <2>1 DEF AddTable, VersionOK
    <2> QED BY <1>0, <2>1, <2>2, <2>3, <2>4 DEF UnrecordedIsOldest
<1>13. CASE PageBuildFails \/ PageCommitFails \/ OpenMissing \/ Stop
    <2>1. phase' = "down"
        BY <1>13 DEF PageBuildFails, PageCommitFails, OpenMissing, Stop, Close, Crash, PowerLoss,
            TableLoss, ProcessEnds
    <2> QED BY <2>1 DEF UnrecordedIsOldest, Alive, Replaying
<1>14. ASSUME UNCHANGED <<files, version, immutables>>, Alive' => Alive
       PROVE  UnrecordedIsOldest'
    <2>1. CASE Alive
        BY <1>1, <1>14, <2>1
    <2>2. CASE ~Alive
        BY <1>14, <2>2 DEF UnrecordedIsOldest
    <2> QED BY <2>1, <2>2
<1>15. CASE Write /\ ~WriteApply
    BY <1>14, <1>15 DEF Write, WriteCheck, WriteAppend, WriteAppendFails, WriteAppendTorn,
        WriteSync, WriteSyncFails, disk, memory, Alive, Replaying
<1>16. CASE Flush /\ ~(FlushBuild \/ FlushBuildFails \/ FlushCleanup \/ FlushManifestAdd
                       \/ FlushManifestAddFails \/ FlushManifestCutoff)
    BY <1>14, <1>16 DEF Flush, FlushStart, FlushPick, FlushDrained, FlushManifestCutoffFails,
        FlushSetError, FlushTruncate, FlushRemoveSegment, FlushTruncated, SkipCompaction, disk, memory,
        Alive, Replaying
<1>17. CASE ReplayNextSegment \/ ReplaySkip \/ ReplayApply \/ ReplayDone \/ OpenDone
    BY <1>14, <1>17 DEF ReplayNextSegment, ReplaySkip, ReplayApply, AtRecord, ReplayDone,
        OpenDone, disk, memory, Alive, Replaying
<1>18. CASE UNCHANGED vars
    BY <1>14, <1>18 DEF vars, disk, memory, Alive, Replaying
<1> QED BY <1>3, <1>4, <1>5, <1>6, <1>7, <1>8, <1>9, <1>10, <1>11, <1>12, <1>13, <1>15, <1>16,
           <1>17, <1>18 DEF Next, Write, Flush, Open, Recover

(***************************************************************************)
(* Through every flush, failed flush, rewrite of the MANIFEST and          *)
(* recovery, the version kept in memory edit by edit is ahead of the       *)
(* MANIFEST only by tables whose contents the MANIFEST has under another   *)
(* number or the oldest immutable memtable still holds, and behind it only *)
(* in the cutoff; until a flush fails it is what a replay would rebuild.   *)
(***************************************************************************)
THEOREM EngineVersionMatchesManifest ==
    ASSUME NoTearing
    PROVE  Spec => []VersionMatchesManifest
<1>1. Init => UnrecordedIsOldest
    BY DEF Init, UnrecordedIsOldest, Alive, Replaying
<1>2. IndInv /\ IndInv' /\ UnrecordedIsOldest /\ [Next]_vars => UnrecordedIsOldest'
    BY UnrecordedStaysOldest
<1>3. ASSUME IndInv, MatchInv, UnrecordedIsOldest PROVE VersionMatchesManifest
    <2>1. SUFFICES ASSUME phase = "up"
                   PROVE  /\ ManifestTables(manifest) \subseteq version.tables
                          /\ \A t \in version.tables :
                                \/ files[t.num] \subseteq TableEntries
                                \/ immutables # <<>> /\ files[t.num] = Head(immutables)
                          /\ version.cutoff <= ManifestCutoff(manifest)
                          /\ ~FlushFailed => /\ version.tables = ManifestTables(manifest)
                                             /\ version.cutoff = ManifestCutoff(manifest)
        BY DEF VersionMatchesManifest
    <2>2. Alive
        BY <2>1 DEF Alive
    <2> QED BY <1>3, <2>2, VersionWithinManifest DEF MatchInv, UnrecordedIsOldest
<1>4. IndInv /\ MatchInv /\ UnrecordedIsOldest => VersionMatchesManifest
    BY <1>3
<1> QED BY <1>1, <1>2, <1>4, MatchHolds, PTL DEF Spec

(***************************************************************************)
(* Recover inserts the record under its cursor and moves on.               *)
(***************************************************************************)
LEMMA ReplayedStaysBehind ==
    ASSUME NoTearing, IndInv, IndInv', ReadInv, ReplayedIsBehind, [Next]_vars
    PROVE  ReplayedIsBehind'
<1>1. ASSUME Replaying, UNCHANGED wal, memtable' \subseteq memtable,
             \A i \in DOMAIN wal : \A j \in DOMAIN wal[i] :
                 Earlier(i, j, cursor[1], cursor[2]) => Earlier(i, j, cursor'[1], cursor'[2])
      PROVE  ReplayedIsBehind'
    BY <1>1 DEF ReplayedIsBehind
<1>2. ASSUME ~Replaying' \/ memtable' = {} PROVE ReplayedIsBehind'
    BY <1>2 DEF ReplayedIsBehind
<1>3. CASE Write \/ Flush \/ CompactManifest
    <2>1. CASE Write
        <3>1. phase' = phase /\ (phase = "up" \/ wr.pc # "idle")
            BY <2>1 DEF Write, WriteCheck, WriteAppend, WriteAppendFails, WriteAppendTorn,
                CanWrite, WriteSync, WriteSyncFails, WriteApply, disk
        <3>2. phase = "up"
            BY <3>1 DEF IndInv, WriterInv
        <3> QED BY <1>2, <3>1, <3>2 DEF Replaying
    <2>2. CASE Flush
        <3>1. phase' = phase /\ (phase = "up" \/ fl.pc # "idle")
            BY <2>2 DEF Flush, FlushStart, FlushPick, FlushDrained, FlushBuild, FlushBuildFails,
                FlushManifestAdd, FlushManifestAddFails, FlushManifestCutoff,
                FlushManifestCutoffFails, FlushSetError, FlushTruncate, FlushRemoveSegment, FlushTruncated,
                SkipCompaction, FlushCleanup, disk
        <3>2. phase = "up"
            BY <3>1 DEF IndInv, FlushInv
        <3> QED BY <1>2, <3>1, <3>2 DEF Replaying
    <2>3. CASE CompactManifest
        BY <1>2, <2>3 DEF CompactManifest, Replaying
    <2> QED BY <1>3, <2>1, <2>2, <2>3
<1>4. CASE OpenNew \/ ReplayDone \/ OpenDone \/ OpenMissing \/ PageBuildFails \/ PageCommitFails \/ Stop
    <2>1. phase' \in {"open", "up", "down"}
        BY <1>4 DEF OpenNew, ReplayDone, OpenDone, OpenMissing, PageBuildFails, PageCommitFails,
            Stop, Close, Crash, PowerLoss, TableLoss, ProcessEnds
    <2> QED BY <1>2, <2>1 DEF Replaying
<1>5. CASE RecoverStart \/ PageCommit
    <2>1. memtable' = {}
        BY <1>5 DEF RecoverStart, PageCommit, IndInv, MemInv, Alive, Replaying
    <2> QED BY <1>2, <2>1
<1>6. CASE PageBuild \/ UNCHANGED vars
    <2>1. /\ UNCHANGED <<wal, memtable, cursor>>
          /\ phase' = phase \/ (phase = "page" /\ phase' = "pagecommit")
        BY <1>6 DEF PageBuild, vars, disk, memory
    <2> QED BY <2>1 DEF ReplayedIsBehind, Replaying
<1>7. CASE ReplayNextSegment \/ ReplaySkip \/ ReplayApply
    <2>1. /\ phase = "replay" /\ UNCHANGED wal
          /\ \/ cursor' = <<cursor[1] + 1, 1>>
             \/ cursor' = <<cursor[1], cursor[2] + 1>>
        BY <1>7 DEF ReplayNextSegment, ReplaySkip, ReplayApply, AtRecord, CursorSeg, disk
    <2>2. /\ Replaying /\ cursor[1] \in Nat /\ cursor[2] \in Nat
          /\ Len(wal) \in Nat /\ DOMAIN wal = 1..Len(wal)
          /\ \A i \in DOMAIN wal : Len(wal[i]) \in Nat /\ DOMAIN wal[i] = 1..Len(wal[i])
        BY <2>1, Reading
    <2>3. ASSUME NEW i \in DOMAIN wal, NEW j \in DOMAIN wal[i],
                 Earlier(i, j, cursor[1], cursor[2])
          PROVE  Earlier(i, j, cursor'[1], cursor'[2])
        BY <2>1, <2>2, <2>3 DEF Earlier
    <2>4. CASE ReplayNextSegment \/ ReplaySkip
        <3>1. memtable' = memtable
            BY <2>4 DEF ReplayNextSegment, ReplaySkip, memory
        <3> QED BY <1>1, <2>1, <2>2, <2>3, <3>1
    <2>5. CASE ReplayApply
        <3> DEFINE c == cursor[1]
                   d == cursor[2]
        <3>1. /\ memtable' = memtable \cup wal[c][d].ents /\ cursor' = <<c, d + 1>>
              /\ c <= Len(wal) /\ d <= Len(wal[c])
            BY <2>5 DEF ReplayApply, AtRecord, CursorRec, CursorSeg
        <3>2. c \in DOMAIN wal /\ d \in DOMAIN wal[c]
            BY <2>1, <3>1, Reading
        <3>3. Earlier(c, d, cursor'[1], cursor'[2])
            BY <2>2, <3>1 DEF Earlier
        <3> HIDE DEF c, d
        <3>4. ASSUME NEW e \in memtable'
              PROVE  \E i \in DOMAIN wal' : \E j \in DOMAIN wal'[i] :
                        Earlier(i, j, cursor'[1], cursor'[2]) /\ e \in wal'[i][j].ents
            <4>1. CASE e \in memtable
                BY <2>1, <2>2, <2>3, <4>1 DEF ReplayedIsBehind
            <4>2. CASE e \in wal[c][d].ents
                BY <2>1, <3>2, <3>3, <4>2
            <4> QED BY <3>1, <3>4, <4>1, <4>2
        <3> QED BY <3>4 DEF ReplayedIsBehind
    <2> QED BY <1>7, <2>4, <2>5
<1> QED BY <1>3, <1>4, <1>5, <1>6, <1>7 DEF Next, Open, Recover

\* To begin with there is nothing to be in order.
LEMMA InitOrdered ==
    ASSUME Init
    PROVE  OrderInv
<1>1. wal = <<>> /\ manifest = <<>> /\ phase = "new"
    BY DEF Init
<1>2. \A i \in DOMAIN wal : FALSE
    BY <1>1
<1>3. \A e : e \notin WalEntries
    BY <1>2, InLog DEF WalEntries
<1> QED BY <1>1, <1>2, <1>3 DEF OrderInv, LogOrdered, TablesOlder, UnrecordedIsOldest,
        ReplayedIsBehind, Alive, Replaying

(***************************************************************************)
(* In every reachable state the log is in order, and what tables hold is   *)
(* older than what only the log holds, whatever flushes, rewrites and      *)
(* interrupted recoveries did before.                                      *)
(***************************************************************************)
THEOREM EngineOrderHolds ==
    ASSUME NoTearing, SyncsSucceed
    PROVE  Spec => [](IndInv /\ ReadInv /\ OrderInv)
<1>1. Init => IndInv /\ ReadInv /\ OrderInv
    BY InitEstablishes, InitReads, InitOrdered
<1>2. IndInv /\ ReadInv /\ OrderInv /\ [Next]_vars => (IndInv /\ ReadInv /\ OrderInv)'
    <2> SUFFICES ASSUME IndInv, ReadInv, OrderInv, [Next]_vars
                 PROVE  (IndInv /\ ReadInv /\ OrderInv)'
        OBVIOUS
    <2>1. IndInv' /\ ReadInv'
        BY NextPreserves, NextKeepsReads
    <2>2. LogOrdered(wal')
        BY <2>1, LogStaysOrdered DEF OrderInv
    <2>3. TablesOlder'
        BY <2>1, TablesStayOlder
    <2>4. UnrecordedIsOldest' /\ ReplayedIsBehind'
        BY <2>1, UnrecordedStaysOldest, ReplayedStaysBehind DEF OrderInv
    <2> QED BY <2>1, <2>2, <2>3, <2>4 DEF OrderInv
<1> QED BY <1>1, <1>2, PTL DEF Spec

\* Only a loss of power, without SyncWrites, takes acknowledged writes back.
LEMMA AckedGrows ==
    ASSUME NoTearing, [Next]_vars, ~(PowerLoss /\ ~SyncWrites)
    PROVE  acked \subseteq acked'
<1>1. CASE Write
    BY <1>1 DEF Write, WriteCheck, WriteAppend, WriteAppendFails, WriteAppendTorn, WriteSync,
        WriteSyncFails, WriteApply
<1>2. CASE Flush \/ CompactManifest
    BY <1>2 DEF Flush, FlushStart, FlushPick, FlushDrained, FlushBuild, FlushBuildFails,
        FlushManifestAdd, FlushManifestAddFails, FlushManifestCutoff,
        FlushManifestCutoffFails, FlushSetError, FlushTruncate, FlushRemoveSegment, FlushTruncated,
        SkipCompaction, FlushCleanup, CompactManifest
<1>3. CASE Open
    BY <1>3 DEF Open, Recover, OpenNew, RecoverStart, ReplayNextSegment, ReplaySkip,
        ReplayApply, PageBuild, PageBuildFails, PageCommit, PageCommitFails, ReplayDone,
        OpenDone, OpenMissing
<1>4. CASE Stop
    BY <1>4 DEF Stop, Close, Crash, PowerLoss, TableLoss
<1>5. CASE UNCHANGED vars
    BY <1>5 DEF vars
<1> QED BY <1>1, <1>2, <1>3, <1>4, <1>5 DEF Next

\* The same invariant makes Durable hold after a step.
LEMMA DurableNext ==
    IndInv' => Durable'
<1>1. IndInv => Durable
    BY InvariantImpliesDurable
<1> QED BY <1>1, PTL

\* What a loss of power takes off the log is newer than all that it leaves.
LEMMA PowerLossTakesNewest ==
    ASSUME IndInv, IndInv', ReadInv, ReadInv', OrderInv, PowerLoss,
           NEW e \in acked \ Recoverable', NEW f \in Recoverable'
    PROVE  f.seq < e.seq
<1>1. Recoverable' = TableEntries' \cup WalEntries' /\ Recoverable = TableEntries \cup WalEntries
    BY RecoverableIsOnDisk, RecoverableIsOnDiskNext
<1>2. TableEntries' = TableEntries
    BY DEF PowerLoss, TableEntries
<1>3. e \in WalEntries \ TableEntries
    BY <1>1, <1>2, InvariantImpliesDurable DEF Durable
<1>4. CASE f \in TableEntries
    BY <1>3, <1>4 DEF OrderInv, TablesOlder
<1>5. CASE f \in WalEntries'
    <2> DEFINE n == Len(wal)
    <2>1. PICK k \in DOMAIN wal' : \E l \in DOMAIN wal'[k] : f \in wal'[k][l].ents
        BY <1>5, InLog DEF WalEntries
    <2>2. PICK l \in DOMAIN wal'[k] : f \in wal'[k][l].ents
        BY <2>1
    <2>3. PICK i \in DOMAIN wal : \E j \in DOMAIN wal[i] : e \in wal[i][j].ents
        BY <1>3, InLog DEF WalEntries
    <2>4. PICK j \in DOMAIN wal[i] : e \in wal[i][j].ents
        BY <2>3
    <2>5. k \in DOMAIN wal /\ l \in DOMAIN wal[k] /\ wal'[k][l] = wal[k][l]
        BY <2>2, PowerLossKeepsRecords
    <2>6. ~(i \in DOMAIN wal' /\ j \in DOMAIN wal'[i] /\ wal'[i][j] = wal[i][j])
        BY <1>1, <2>4, InLog DEF WalEntries
    <2>7. /\ n \in DOMAIN wal /\ DOMAIN wal' = DOMAIN wal
          /\ \A m \in DOMAIN wal : m # n => wal'[m] = wal[m]
        BY PowerLossCutsLast
    <2>8. PICK b \in 0..Len(wal[n]) :
              /\ DOMAIN wal'[n] = 1..b
              /\ \A m \in 1..b : m \in DOMAIN wal[n] /\ wal'[n][m] = wal[n][m]
        BY PowerLossCutsLast
    <2>9. /\ n \in Nat /\ DOMAIN wal = 1..n
          /\ \A m \in DOMAIN wal : Len(wal[m]) \in Nat /\ DOMAIN wal[m] = 1..Len(wal[m])
        BY Segments DEF IndInv, TypeOK
    <2> HIDE DEF n
    <2>10. i = n /\ j \notin 1..b /\ j \in Nat /\ j > 0 /\ b \in Nat
        BY <2>3, <2>4, <2>6, <2>7, <2>8, <2>9
    <2>11. k < n \/ (k = n /\ l \in 1..b)
        BY <2>2, <2>5, <2>8, <2>9
    <2>12. Earlier(k, l, i, j)
        BY <2>10, <2>11 DEF Earlier
    <2> QED BY <2>2, <2>3, <2>4, <2>5, <2>12, LogOrder DEF OrderInv
<1> QED BY <1>1, <1>2, <1>4, <1>5

(***************************************************************************)
(* A loss of power takes the newest writes: no acknowledged write is lost  *)
(* while a newer one is left.  With SyncWrites none is lost at all.        *)
(***************************************************************************)
THEOREM EngineLossIsSuffix ==
    ASSUME NoTearing
    PROVE  Spec => LossIsSuffix
<1> DEFINE Suffix == \A e \in acked \ Recoverable', f \in Recoverable' : f.seq < e.seq
<1>1. ASSUME IndInv', [Next]_vars, ~(PowerLoss /\ ~SyncWrites) PROVE Suffix
    BY <1>1, AckedGrows, DurableNext DEF Durable
<1>2. CASE SyncWrites
    <2>1. IndInv /\ IndInv' /\ [Next]_vars => [Suffix]_vars
        BY <1>1, <1>2
    <2> HIDE DEF Suffix
    <2>2. Spec => [][Suffix]_vars
        BY <2>1, EngineInvariantHolds, PTL DEF Spec
    <2> QED BY <2>2 DEF LossIsSuffix, Suffix
<1>3. CASE ~SyncWrites
    <2> DEFINE Inv == IndInv /\ ReadInv /\ OrderInv
    <2>1. Inv /\ Inv' /\ [Next]_vars => [Suffix]_vars
        BY <1>1, PowerLossTakesNewest
    <2>2. Spec => []Inv
        BY <1>3, EngineOrderHolds DEF SyncsSucceed
    <2> HIDE DEF Suffix, Inv
    <2>3. Spec => [][Suffix]_vars
        BY <2>1, <2>2, PTL DEF Spec
    <2> QED BY <2>3 DEF LossIsSuffix, Suffix
<1> QED BY <1>2, <1>3

=============================================================================
