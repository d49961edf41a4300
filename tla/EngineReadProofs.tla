-------------------------- MODULE EngineReadProofs --------------------------
(***************************************************************************)
(* Proofs about what the engine answers: the version and the MANIFEST, the *)
(* files of live tables, the cutoff, the numbers handed out, and reads.    *)
(* The last ones rest on a second inductive invariant, ReadInv.            *)
(***************************************************************************)
EXTENDS EngineProofs

-----------------------------------------------------------------------------
(* Entries and where they are.                                             *)

\* In a state of the invariant every table of the MANIFEST has its file.
LEMMA TablesNow ==
    ASSUME IndInv
    PROVE  TableEntries = FileEntries(files, ManifestTables(manifest))
<1>1. {u \in ManifestTables(manifest) : u.num \in DOMAIN files} = ManifestTables(manifest)
    BY DEF IndInv, VersionInv
<1> QED BY <1>1 DEF TableEntries, FileEntries

\* The same after a step.
LEMMA TablesNext ==
    ASSUME IndInv'
    PROVE  TableEntries' = FileEntries(files', ManifestTables(manifest'))
<1>1. {u \in ManifestTables(manifest') : u.num \in DOMAIN files'} = ManifestTables(manifest')
    BY DEF IndInv, VersionInv
<1> QED BY <1>1 DEF TableEntries, FileEntries

\* More tables with the same files hold more entries; one more table adds the
\* entries of its file.
LEMMA FileEntriesGrow ==
    ASSUME NEW f, NEW T, NEW U, T \subseteq U
    PROVE  FileEntries(f, T) \subseteq FileEntries(f, U)
BY DEF FileEntries

\* One more table adds the entries of its file.
LEMMA FileEntriesAdd ==
    ASSUME NEW f, NEW T, NEW t
    PROVE  FileEntries(f, T \cup {t}) = FileEntries(f, T) \cup f[t.num]
BY DEF FileEntries

\* Files that agree on a set of tables hold the same entries of them.
LEMMA FileEntriesSame ==
    ASSUME NEW f, NEW g, NEW T, \A t \in T : f[t.num] = g[t.num]
    PROVE  FileEntries(f, T) = FileEntries(g, T)
<1>1. {f[t.num] : t \in T} = {g[t.num] : t \in T}
    OBVIOUS
<1> QED BY <1>1 DEF FileEntries

\* An entry is in the log when some record has it.
LEMMA InLog ==
    ASSUME NEW w, NEW e
    PROVE  e \in LogEntries(w) <=> \E i \in DOMAIN w : \E j \in DOMAIN w[i] : e \in w[i][j].ents
BY DEF LogEntries

\* An entry is in one of a sequence of memtables when some element has it.
LEMMA InSome ==
    ASSUME NEW s, NEW e
    PROVE  e \in Frozen(s) <=> \E i \in DOMAIN s : e \in s[i]
BY DEF Frozen

\* Every version of the manifest the invariant allows is intact.
LEMMA VersionWithinManifest ==
    ASSUME IndInv, Alive
    PROVE  /\ ManifestTables(manifest) \subseteq version.tables
           /\ version.cutoff \in Nat /\ ManifestCutoff(manifest) \in Nat
           /\ version.cutoff <= ManifestCutoff(manifest)
<1>1. GoodManifest(manifest)
    BY ManifestIsGood DEF IndInv
<1>2. ManifestCutoff(manifest) \in Nat
    BY <1>1, GoodManifestFacts
<1> QED BY <1>2 DEF IndInv, VersionInv, TypeOK, VersionOK

-----------------------------------------------------------------------------
(* Steps that preserve ReadInv.                                            *)

(***************************************************************************)
(* A step that changes neither log, MANIFEST, tables nor memtables, and    *)
(* leaves the call in progress as it is.                                   *)
(***************************************************************************)
LEMMA QuietKeepsReads ==
    ASSUME ReadInv,
           UNCHANGED <<wal, manifest, files, memtable, immutables, version>>,
           FlushFailed => FlushFailed', phase' = phase, Pending \subseteq Pending'
    PROVE  ReadInv'
<1>1. TableEntries' = TableEntries /\ MemEntries' = MemEntries /\ LiveEntries' = LiveEntries
      /\ WalEntries' = WalEntries
    BY DEF TableEntries, MemEntries, LiveEntries, WalEntries
<1>2. MatchInv'
    BY DEF ReadInv, MatchInv, Alive, Replaying
<1>3. FiniteInv'
    BY DEF ReadInv, FiniteInv
<1>4. DescribedInv'
    BY DEF ReadInv, DescribedInv
<1>5. CoverInv'
    BY <1>1 DEF ReadInv, CoverInv
<1> QED BY <1>2, <1>3, <1>4, <1>5 DEF ReadInv

\* A rotation of the log, or none, changes no entry of it.
LEMMA ExtendedLogEntries ==
    ASSUME IndInv, IndInv', NEW R, LogExtends(wal, dirty, wal', dirty', R)
    PROVE  /\ WalEntries \subseteq WalEntries'
           /\ \A i \in DOMAIN wal' : \A j \in DOMAIN wal'[i] :
                 \/ i \in DOMAIN wal /\ j \in DOMAIN wal[i] /\ wal'[i][j] = wal[i][j]
                 \/ i = Len(wal') /\ j = Len(wal'[i]) /\ wal'[i][j] \in R
<1>1. /\ DOMAIN wal = 1..Len(wal)
      /\ \A i \in 1..Len(wal) : DOMAIN wal[i] = 1..Len(wal[i])
    BY Segments DEF IndInv, TypeOK
<1>2. /\ DOMAIN wal' = 1..Len(wal')
      /\ \A i \in 1..Len(wal') : DOMAIN wal'[i] = 1..Len(wal'[i])
    BY Segments DEF LogExtends
<1>3. ASSUME NEW e \in WalEntries PROVE e \in WalEntries'
    <2>1. PICK i \in DOMAIN wal : \E j \in DOMAIN wal[i] : e \in wal[i][j].ents
        BY InLog DEF WalEntries
    <2>2. PICK j \in DOMAIN wal[i] : e \in wal[i][j].ents
        BY <2>1
    <2>3. i \in DOMAIN wal' /\ j \in DOMAIN wal'[i] /\ wal'[i][j] = wal[i][j]
        BY <1>1, <1>2 DEF LogExtends
    <2>4. e \in LogEntries(wal')
        BY <2>2, <2>3, InLog
    <2> QED BY <2>4 DEF WalEntries
<1>4. ASSUME NEW i \in DOMAIN wal', NEW j \in DOMAIN wal'[i]
      PROVE  \/ i \in DOMAIN wal /\ j \in DOMAIN wal[i] /\ wal'[i][j] = wal[i][j]
             \/ i = Len(wal') /\ j = Len(wal'[i]) /\ wal'[i][j] \in R
    <2>1. \A m \in 1..Len(wal') : \A l \in 1..Len(wal'[m]) :
              \/ m \in 1..Len(wal) /\ l \in 1..Len(wal[m]) /\ wal'[m][l] = wal[m][l]
              \/ m = Len(wal') /\ l = Len(wal'[m]) /\ wal'[m][l] \in R
        BY DEF LogExtends
    <2>2. i \in 1..Len(wal') /\ j \in 1..Len(wal'[i])
        BY <1>2
    <2>3. CASE i \in 1..Len(wal) /\ j \in 1..Len(wal[i]) /\ wal'[i][j] = wal[i][j]
        BY <1>1, <2>3
    <2> QED BY <2>1, <2>2, <2>3
<1> QED BY <1>3, <1>4

\* The entries of a batch are finitely many.
LEMMA BatchFinite ==
    ASSUME NEW batch \in Seq(Logical), NEW seq \in Nat
    PROVE  IsFiniteSet(EntriesOf(batch, seq))
<1>1. DOMAIN batch = 1..Len(batch) /\ Len(batch) \in Nat
    BY LenProperties
<1>2. IsFiniteSet(DOMAIN batch)
    BY <1>1, FS_Interval
<1> DEFINE S == EntriesOf(batch, seq)
           f == [i \in DOMAIN batch |-> InternalKeyOf(batch[i].key, seq + i - 1, batch[i].typ)]
<1>3. f \in Surjection(DOMAIN batch, S)
    BY DEF EntriesOf, Surjection
<1> QED BY <1>2, <1>3, FS_Surjection

(***************************************************************************)
(* A step of the running database that extends the log: the new entries    *)
(* are above the cutoff, and are those of the call in progress.            *)
(***************************************************************************)
LEMMA LongerLogKeepsReads ==
    ASSUME IndInv, IndInv', ReadInv, phase = "up", phase' = "up",
           NEW R, LogExtends(wal, dirty, wal', dirty', R),
           \A r \in R : /\ IsFiniteSet(r.ents) /\ r.ents \subseteq Pending'
                        /\ ~(r.last <= ManifestCutoff(manifest)),
           wr.pc = "idle",
           UNCHANGED <<manifest, files, memtable, immutables, version>>,
           FlushFailed => FlushFailed'
    PROVE  ReadInv'
<1>0. /\ WalEntries \subseteq WalEntries'
      /\ \A i \in DOMAIN wal' : \A j \in DOMAIN wal'[i] :
            \/ i \in DOMAIN wal /\ j \in DOMAIN wal[i] /\ wal'[i][j] = wal[i][j]
            \/ wal'[i][j] \in R
    BY ExtendedLogEntries
<1>1. TableEntries' = TableEntries /\ MemEntries' = MemEntries /\ LiveEntries' = LiveEntries
    BY DEF TableEntries, MemEntries, LiveEntries
<1>2. MatchInv'
    BY DEF ReadInv, MatchInv, Alive, Replaying
<1>3. FiniteInv'
    BY <1>0 DEF ReadInv, FiniteInv
<1>4. DescribedInv'
    BY DEF ReadInv, DescribedInv
<1>5. CoverInv'
    <2>1. ASSUME NEW i \in DOMAIN wal', NEW j \in DOMAIN wal'[i],
                 wal'[i][j].last <= ManifestCutoff(manifest')
          PROVE  wal'[i][j].ents \subseteq TableEntries'
        BY <1>0, <1>1, <2>1 DEF ReadInv, CoverInv
    <2>2. MemEntries' \subseteq TableEntries' \cup WalEntries'
        BY <1>0, <1>1 DEF ReadInv, CoverInv
    <2>3. LiveEntries' \subseteq TableEntries' \cup MemEntries'
        BY <1>1 DEF ReadInv, CoverInv
    <2>4. ASSUME NEW e \in WalEntries'
          PROVE  e \in TableEntries' \cup MemEntries' \cup Pending'
        <3>1. PICK i \in DOMAIN wal' : \E j \in DOMAIN wal'[i] : e \in wal'[i][j].ents
            BY <2>4, InLog DEF WalEntries
        <3>2. PICK j \in DOMAIN wal'[i] : e \in wal'[i][j].ents
            BY <3>1
        <3>3. CASE i \in DOMAIN wal /\ j \in DOMAIN wal[i] /\ wal'[i][j] = wal[i][j]
            <4>1. e \in WalEntries
                BY <3>2, <3>3, InLog DEF WalEntries
            <4>2. Pending = {}
                BY DEF Pending
            <4> QED BY <4>1, <4>2, <1>1 DEF ReadInv, CoverInv
        <3>4. CASE wal'[i][j] \in R
            BY <3>2, <3>4
        <3> QED BY <3>3, <3>4, <1>0
    <2> QED BY <2>1, <2>2, <2>3, <2>4 DEF CoverInv
<1> QED BY <1>2, <1>3, <1>4, <1>5 DEF ReadInv

\* The record of a call is in the log before its entries are in the memtable.
LEMMA WriteAppendKeepsReads ==
    ASSUME IndInv, IndInv', ReadInv, NEW op \in Ops, WriteAppend(op)
    PROVE  ReadInv'
<1> DEFINE r == WalRecord(op.batch, nextSeq)
<1>1. op.batch \in Seq(Logical) /\ op.batch # <<>> /\ nextSeq \in Nat
    BY OpsAssumption DEF IndInv, TypeOK
<1>2. /\ phase = "up" /\ mu = "free" /\ phase' = "up" /\ nextSeq' = nextSeq
      /\ FlushFailed => FlushFailed'
      /\ wal' = Appended(Rotated, r) /\ dirty' = RotatedDirty + 1
      /\ UNCHANGED <<manifest, files, memtable, immutables, version>>
      /\ wr'.pc # "idle" /\ wr'.batch = op.batch
    BY DEF WriteAppend, CanWrite, memory, FlushFailed
<1>3. wr.pc = "idle"
    BY <1>2 DEF IndInv, WriterInv
<1>4. /\ r \in LogRecord /\ r.ents = EntriesOf(op.batch, nextSeq) /\ r.last >= nextSeq
      /\ r.last \in Nat
    BY <1>1, BatchRecord DEF LogRecord
<1>5. wal \in Seq(Segment) /\ wal # <<>> /\ dirty \in Nat /\ dirty <= Len(wal[Len(wal)])
    BY <1>2 DEF IndInv, TypeOK, WalInv
<1> HIDE DEF r
<1>6. LogExtends(wal, dirty, wal', dirty', {r})
    BY <1>2, <1>4, <1>5, LogGrows
<1>7. r.ents = Pending' /\ IsFiniteSet(r.ents)
    BY <1>1, <1>2, <1>4, BatchFinite DEF Pending
<1>8. ~(r.last <= ManifestCutoff(manifest))
    <2>1. ManifestCutoff(manifest) < nextSeq /\ ManifestCutoff(manifest) \in Nat
        BY <1>2, VersionWithinManifest DEF IndInv, VersionInv, Alive
    <2> QED BY <1>1, <1>4, <2>1
<1> QED BY <1>2, <1>3, <1>6, <1>7, <1>8, LongerLogKeepsReads

\* A failed append leaves at most an empty segment.
LEMMA WriteAppendFailsKeepsReads ==
    ASSUME IndInv, IndInv', ReadInv, NEW op \in Ops, WriteAppendFails(op)
    PROVE  ReadInv'
<1>1. /\ phase = "up" /\ mu = "free" /\ phase' = "up" /\ nextSeq' = nextSeq
      /\ FlushFailed => FlushFailed'
      /\ UNCHANGED <<manifest, files, memtable, immutables, version>> /\ wr' = wr
      /\ \/ UNCHANGED <<wal, dirty>>
         \/ wal' = Rotated /\ dirty' = RotatedDirty
    BY DEF WriteAppendFails, CanWrite, memory, FlushFailed
<1>2. wr.pc = "idle"
    BY <1>1 DEF IndInv, WriterInv
<1>3. Pending' = Pending
    BY <1>1 DEF Pending
<1>4. CASE UNCHANGED <<wal, dirty>>
    BY <1>1, <1>3, <1>4, QuietKeepsReads
<1>5. CASE wal' = Rotated /\ dirty' = RotatedDirty
    <2>1. wal \in Seq(Segment) /\ wal # <<>> /\ dirty \in Nat /\ dirty <= Len(wal[Len(wal)])
        BY <1>1 DEF IndInv, TypeOK, WalInv
    <2>2. LogExtends(wal, dirty, wal', dirty', {})
        BY <1>5, <2>1, LogRotates
    <2> QED BY <1>1, <1>2, <2>2, LongerLogKeepsReads
<1> QED BY <1>1, <1>4, <1>5

\* The entries a call inserts are in its record, the last of the log.
LEMMA WriteApplyKeepsReads ==
    ASSUME IndInv, ReadInv, WriteApply
    PROVE  ReadInv'
<1> DEFINE ents == EntriesOf(wr.batch, nextSeq)
           full == MustRotate(wr.kind, memtable \cup ents)
<1>1. /\ wr.pc = "synced"
      /\ memtable' = IF full THEN {} ELSE memtable \cup ents
      /\ immutables' = IF full THEN Append(immutables, memtable \cup ents) ELSE immutables
      /\ UNCHANGED <<wal, manifest, files, version>> /\ phase' = phase
      /\ wr' = IdleWriter /\ (FlushFailed => FlushFailed')
    BY DEF WriteApply, disk, FlushFailed
<1>2. wr.batch \in Seq(Logical) /\ nextSeq \in Nat /\ immutables \in Seq(SUBSET Entry(Keys))
      /\ wal \in Seq(Segment) /\ memtable \subseteq Entry(Keys)
    BY DEF IndInv, TypeOK, WriterState
<1>3. IsFiniteSet(ents) /\ ents \subseteq Entry(Keys) /\ ents = Pending
    BY <1>1, <1>2, BatchFinite, BatchEntries DEF Pending
<1>4. ents \subseteq WalEntries
    <2>1. /\ wal # <<>> /\ wal[Len(wal)] # <<>>
          /\ wal[Len(wal)][Len(wal[Len(wal)])] = WalRecord(wr.batch, nextSeq)
        BY <1>1 DEF IndInv, WriterInv
    <2>2. Len(wal) \in DOMAIN wal
        BY <1>2, <2>1, Segments
    <2>3. wal[Len(wal)] \in Seq(LogRecord)
        BY <1>2, <2>2, Segments
    <2>4. Len(wal[Len(wal)]) \in DOMAIN wal[Len(wal)]
        BY <2>1, <2>3, EmptySeq, LenProperties
    <2>5. WalRecord(wr.batch, nextSeq).ents = ents
        BY DEF WalRecord
    <2> HIDE DEF ents
    <2> QED BY <2>1, <2>2, <2>4, <2>5, InLog DEF WalEntries
<1> HIDE DEF ents, full
<1>5. /\ MemEntries' = MemEntries \cup ents
      /\ IsFiniteSet(memtable') /\ \A i \in DOMAIN immutables' : IsFiniteSet(immutables'[i])
    <2>1. IsFiniteSet(memtable \cup ents)
        BY <1>3, FS_Union DEF ReadInv, FiniteInv
    <2>2. CASE full
        <3>1. memtable \cup ents \in SUBSET Entry(Keys)
            BY <1>2, <1>3
        <3>2. /\ immutables' = Append(immutables, memtable \cup ents) /\ memtable' = {}
              /\ DOMAIN immutables = 1..Len(immutables) /\ Len(immutables) \in Nat
              /\ DOMAIN immutables' = 1..(Len(immutables) + 1)
              /\ \A i \in 1..Len(immutables) : immutables'[i] = immutables[i]
              /\ immutables'[Len(immutables) + 1] = memtable \cup ents
            BY <1>1, <1>2, <2>2, <3>1, AppendProperties, LenProperties
        <3>3. DOMAIN immutables' = DOMAIN immutables \cup {Len(immutables) + 1}
            BY <3>2
        <3>4. Frozen(immutables') = Frozen(immutables) \cup memtable \cup ents
            <4>1. \A e : (\E i \in DOMAIN immutables' : e \in immutables'[i])
                            <=> \/ \E i \in DOMAIN immutables : e \in immutables[i]
                                \/ e \in memtable \cup ents
                BY <3>2, <3>3
            <4> QED BY <4>1, InSome
        <3>5. IsFiniteSet(memtable')
            BY <3>2, FS_EmptySet
        <3>6. \A i \in DOMAIN immutables' : IsFiniteSet(immutables'[i])
            BY <2>1, <3>2, <3>3 DEF ReadInv, FiniteInv
        <3>7. MemEntries' = MemEntries \cup ents
            BY <3>2, <3>4 DEF MemEntries
        <3> QED BY <3>5, <3>6, <3>7
    <2>3. CASE ~full
        BY <1>1, <2>1, <2>3 DEF MemEntries, ReadInv, FiniteInv
    <2> QED BY <2>2, <2>3
<1>6. TableEntries' = TableEntries /\ WalEntries' = WalEntries /\ LiveEntries' = LiveEntries
    BY <1>1 DEF TableEntries, WalEntries, LiveEntries
<1>7. MatchInv'
    BY <1>1 DEF ReadInv, MatchInv, Alive, Replaying
<1>8. FiniteInv'
    BY <1>1, <1>5 DEF ReadInv, FiniteInv
<1>9. DescribedInv'
    BY <1>1 DEF ReadInv, DescribedInv
<1>10. CoverInv'
    BY <1>1, <1>3, <1>4, <1>5, <1>6 DEF ReadInv, CoverInv
<1> QED BY <1>7, <1>8, <1>9, <1>10 DEF ReadInv

(***************************************************************************)
(* A step that writes a file whose number no table of the version or of    *)
(* the MANIFEST has, and changes nothing else of the state ReadInv is      *)
(* about but, perhaps, the state of the flush and the phase of Open.       *)
(***************************************************************************)
LEMMA FreshFileKeepsReads ==
    ASSUME IndInv, IndInv', ReadInv, NEW num \in Nat, NEW S,
           S \subseteq Entry(Keys), IsFiniteSet(S),
           files' = WriteFile(num, S),
           \A t \in version.tables \cup ManifestTables(manifest) :
              t.num # num /\ t.num \in DOMAIN files,
           UNCHANGED <<wal, manifest, memtable, immutables, version, wr, nextSeq>>,
           FlushFailed => FlushFailed',
           Alive, phase' = phase \/ (Alive' /\ phase' # "up")
    PROVE  ReadInv'
<1>1. /\ \A n \in DOMAIN files' : n = num \/ n \in DOMAIN files
      /\ files'[num] = S
      /\ \A n \in DOMAIN files : n # num => files'[n] = files[n]
    BY FileWritten DEF WriteFile
<1>2. \A t \in version.tables \cup ManifestTables(manifest) : files'[t.num] = files[t.num]
    BY <1>1
<1>3. TableEntries' = TableEntries
    <2>1. FileEntries(files', ManifestTables(manifest)) = FileEntries(files, ManifestTables(manifest))
        BY <1>2, FileEntriesSame
    <2> QED BY <2>1, TablesNow, TablesNext
<1>4. LiveEntries' = LiveEntries
    <2>1. FileEntries(files', version.tables) = FileEntries(files, version.tables)
        BY <1>2, FileEntriesSame
    <2> QED BY <2>1 DEF LiveEntries
<1>5. MemEntries' = MemEntries /\ WalEntries' = WalEntries /\ Pending' = Pending
    BY DEF MemEntries, WalEntries, Pending
<1>6. MatchInv'
    BY DEF ReadInv, MatchInv
<1>7. FiniteInv'
    <2>1. \A n \in DOMAIN files' : IsFiniteSet(files'[n])
        BY <1>1 DEF ReadInv, FiniteInv
    <2> QED BY <2>1 DEF ReadInv, FiniteInv
<1>8. DescribedInv'
    BY <1>2 DEF ReadInv, DescribedInv
<1>9. CoverInv'
    BY <1>3, <1>4, <1>5 DEF ReadInv, CoverInv
<1> QED BY <1>6, <1>7, <1>8, <1>9 DEF ReadInv

\* The flush writes under a number of its own.
LEMMA FlushBuildKeepsReads ==
    ASSUME IndInv, IndInv', ReadInv, FlushBuild
    PROVE  ReadInv'
<1>1. /\ fl.pc = "build" /\ phase = "up" /\ immutables # <<>>
      /\ fl.num \in Nat /\ \A t \in version.tables : t.num # fl.num
    BY DEF FlushBuild, IndInv, FlushInv, TypeOK, FlushState
<1>2. /\ files' = WriteFile(fl.num, Head(immutables)) /\ phase' = phase
      /\ FlushFailed => FlushFailed'
      /\ UNCHANGED <<wal, manifest, memtable, immutables, version, wr, nextSeq>>
    BY DEF FlushBuild, memory, FlushFailed
<1>3. Head(immutables) \subseteq Entry(Keys) /\ IsFiniteSet(Head(immutables))
    BY <1>1, OldestMemtable DEF ReadInv, FiniteInv
<1>4. Alive
    BY <1>1 DEF Alive
<1>5. \A t \in version.tables \cup ManifestTables(manifest) :
          t.num # fl.num /\ t.num \in DOMAIN files
    BY <1>1, <1>4 DEF IndInv, VersionInv
<1> QED BY <1>1, <1>2, <1>3, <1>4, <1>5, FreshFileKeepsReads

\* A table that could not be written leaves a file nothing names.
LEMMA FlushBuildFailsKeepsReads ==
    ASSUME IndInv, IndInv', ReadInv, FlushBuildFails
    PROVE  ReadInv'
<1>1. /\ fl.pc = "build" /\ phase = "up"
      /\ fl.num \in Nat /\ \A t \in version.tables : t.num # fl.num
    BY DEF FlushBuildFails, IndInv, FlushInv, TypeOK, FlushState
<1>2. /\ files' = WriteFile(fl.num, {}) /\ phase' = phase /\ FlushFailed'
      /\ UNCHANGED <<wal, manifest, memtable, immutables, version, wr, nextSeq>>
    BY DEF FlushBuildFails, FlushAborts, FailedFlush, FlushFailed, memory
<1>3. {} \subseteq Entry(Keys) /\ IsFiniteSet({})
    BY FS_EmptySet
<1>4. Alive
    BY <1>1 DEF Alive
<1>5. \A t \in version.tables \cup ManifestTables(manifest) :
          t.num # fl.num /\ t.num \in DOMAIN files
    BY <1>1, <1>4 DEF IndInv, VersionInv
<1> QED BY <1>1, <1>2, <1>3, <1>4, <1>5, FreshFileKeepsReads

\* Recover pages out under the next number.
LEMMA PageBuildKeepsReads ==
    ASSUME IndInv, IndInv', ReadInv, PageBuild
    PROVE  ReadInv'
<1>1. phase = "page" /\ Alive /\ Alive' /\ phase' # "up"
    BY DEF PageBuild, Alive, Replaying
<1>2. /\ files' = WriteFile(nextFileNum, memtable) /\ (FlushFailed => FlushFailed')
      /\ UNCHANGED <<wal, manifest, memtable, immutables, version, wr, nextSeq>>
    BY DEF PageBuild, memory, locks, FlushFailed
<1>3. memtable \subseteq Entry(Keys) /\ IsFiniteSet(memtable) /\ nextFileNum \in Nat
    BY DEF ReadInv, FiniteInv, IndInv, TypeOK
<1>4. \A t \in version.tables \cup ManifestTables(manifest) :
          t.num # nextFileNum /\ t.num \in DOMAIN files
    <2>1. /\ ManifestTables(manifest) \subseteq version.tables
          /\ \A t \in version.tables : t.num \in DOMAIN files /\ t.num < nextFileNum
        BY <1>1 DEF IndInv, VersionInv
    <2>2. \A t \in version.tables : t.num \in Nat
        BY DEF IndInv, TypeOK, VersionOK, TableOK
    <2> QED BY <1>3, <2>1, <2>2
<1> QED BY <1>1, <1>2, <1>3, <1>4, FreshFileKeepsReads

(***************************************************************************)
(* A table is added to the version, and to the MANIFEST if its record got  *)
(* there; its file holds what a memtable holds.                            *)
(***************************************************************************)
LEMMA AddedTableKeepsReads ==
    ASSUME IndInv, IndInv', ReadInv, NEW num, NEW S,
           num \in DOMAIN files, files[num] = S, S \subseteq MemEntries,
           TableOK(TableMeta(num, 0, S)),
           version' = AddTable(version, TableMeta(num, 0, S)),
           manifest' \in {manifest, Append(manifest, AddRecord(TableMeta(num, 0, S)))},
           FlushFailed' \/ (~FlushFailed
                             /\ manifest' = Append(manifest, AddRecord(TableMeta(num, 0, S)))),
           Alive, UNCHANGED <<wal, files, memtable, immutables, wr, nextSeq, phase>>
    PROVE  ReadInv'
<1> DEFINE t == TableMeta(num, 0, S)
<1>1. t.num = num
    BY DEF TableMeta
<1>2. GoodManifest(manifest)
    BY ManifestIsGood DEF IndInv
<1>3. /\ ManifestCutoff(manifest') = ManifestCutoff(manifest)
      /\ ManifestTables(manifest') = ManifestTables(manifest)
           \/ ManifestTables(manifest') = ManifestTables(manifest) \cup {t}
      /\ manifest' = Append(manifest, AddRecord(t))
           => ManifestTables(manifest') = ManifestTables(manifest) \cup {t}
    BY <1>2, EditAdd
<1>4. version'.tables = version.tables \cup {t} /\ version'.cutoff = version.cutoff
    BY DEF AddTable, IndInv, TypeOK, VersionOK
<1>5. t = TableMeta(t.num, 0, files[t.num])
    BY <1>1
<1> HIDE DEF t
<1>6. TableEntries \subseteq TableEntries'
    BY <1>3, TablesNow, TablesNext, FileEntriesGrow
<1>7. LiveEntries' = LiveEntries \cup S
    <2>1. FileEntries(files, version.tables \cup {t}) = FileEntries(files, version.tables) \cup S
        BY <1>1, FileEntriesAdd
    <2> QED BY <1>4, <2>1 DEF LiveEntries
<1>8. MemEntries' = MemEntries /\ WalEntries' = WalEntries /\ Pending' = Pending
    BY DEF MemEntries, WalEntries, Pending
<1>9. MatchInv'
    BY <1>3, <1>4 DEF ReadInv, MatchInv, t
<1>10. FiniteInv'
    BY DEF ReadInv, FiniteInv
<1>11. DescribedInv'
    BY <1>3, <1>4, <1>5 DEF ReadInv, DescribedInv
<1>12. CoverInv'
    BY <1>3, <1>6, <1>7, <1>8 DEF ReadInv, CoverInv
<1> QED BY <1>9, <1>10, <1>11, <1>12 DEF ReadInv

\* The flushed table holds the oldest frozen memtable.
LEMMA FlushedIsFrozen ==
    ASSUME IndInv, fl.pc = "commit"
    PROVE  /\ phase = "up" /\ Alive /\ immutables # <<>>
           /\ fl.num \in DOMAIN files /\ files[fl.num] = Head(immutables)
           /\ Head(immutables) \subseteq MemEntries
           /\ FlushedTable = TableMeta(fl.num, 0, Head(immutables)) /\ TableOK(FlushedTable)
<1>1. /\ phase = "up" /\ immutables # <<>>
      /\ fl.num \in DOMAIN files /\ files[fl.num] = Head(immutables)
    BY DEF IndInv, FlushInv
<1>2. Head(immutables) \subseteq Frozen(immutables)
    BY <1>1, OldestMemtable, InSome
<1> QED BY <1>1, <1>2, FlushedTableFacts DEF Alive, MemEntries, FlushedTable

\* The Add record of a flush.
LEMMA FlushManifestAddKeepsReads ==
    ASSUME IndInv, IndInv', ReadInv, FlushManifestAdd
    PROVE  ReadInv'
<1>1. /\ fl.pc = "commit" /\ version' = AddTable(version, FlushedTable)
      /\ manifest' = Append(manifest, AddRecord(FlushedTable)) /\ (FlushFailed => FlushFailed')
      /\ UNCHANGED <<wal, files, memtable, immutables, wr, nextSeq, phase>>
    BY DEF FlushManifestAdd, FlushFailed
<1> QED BY <1>1, FlushedIsFrozen, AddedTableKeepsReads

\* The Add record fails: the version has the table, the MANIFEST perhaps.
LEMMA FlushManifestAddFailsKeepsReads ==
    ASSUME NoTearing, IndInv, IndInv', ReadInv, FlushManifestAddFails
    PROVE  ReadInv'
<1>1. /\ fl.pc = "commit" /\ version' = AddTable(version, FlushedTable)
      /\ manifest' \in {manifest, Append(manifest, AddRecord(FlushedTable))} /\ FlushFailed'
      /\ UNCHANGED <<wal, files, memtable, immutables, wr, nextSeq, phase>>
    BY DEF FlushManifestAddFails, FlushAborts, FailedFlush, FlushFailed, ManifestAppendFails,
        Fault, NoTearing
<1> QED BY <1>1, FlushedIsFrozen, AddedTableKeepsReads

(***************************************************************************)
(* What a cutoff record supersedes is in tables: an entry of the log that  *)
(* is not is in a younger memtable, hence above the new cutoff.            *)
(***************************************************************************)
LEMMA CutoffCovers ==
    ASSUME IndInv, ReadInv, fl.pc = "cutoff",
           manifest' = Append(manifest, CutoffRecord(FlushCutoff)),
           UNCHANGED <<wal, dirty, files, acked>>,
           NEW i \in DOMAIN wal, NEW j \in DOMAIN wal[i],
           wal[i][j].last <= ManifestCutoff(manifest')
    PROVE  wal[i][j].ents \subseteq TableEntries
<1> DEFINE S == Head(immutables)
<1>1. /\ phase = "up" /\ immutables # <<>> /\ fl.seq \in Nat
      /\ ManifestCutoff(manifest) \in Nat
      /\ ManifestCutoff(manifest') =
           IF fl.seq > ManifestCutoff(manifest) THEN fl.seq ELSE ManifestCutoff(manifest)
      /\ S \subseteq TableEntries
    BY CutoffRecorded
<1>2. CASE ~(fl.seq > ManifestCutoff(manifest))
    BY <1>1, <1>2 DEF ReadInv, CoverInv
<1>3. CASE fl.seq > ManifestCutoff(manifest)
    <2>1. SUFFICES ASSUME NEW e \in wal[i][j].ents, e \notin TableEntries PROVE FALSE
        OBVIOUS
    <2>2. wal[i][j] \in LogRecord
        BY Segments DEF IndInv, TypeOK
    <2>3. /\ e.seq \in Nat /\ wal[i][j].last \in Nat /\ e.seq <= wal[i][j].last
        BY <2>2 DEF LogRecord, Entry, IndInv, WalInv
    <2>4. e.seq <= fl.seq
        BY <1>1, <1>3, <2>3
    <2>5. Pending = {}
        BY DEF Pending, IndInv, FlushInv, WriterInv
    <2>6. e \in memtable \/ e \in Frozen(immutables)
        <3>1. e \in WalEntries
            BY InLog DEF WalEntries
        <3> QED BY <1>1, <2>1, <2>5, <3>1 DEF ReadInv, CoverInv, MemEntries
    <2>7. /\ DOMAIN immutables = 1..Len(immutables) /\ Len(immutables) \in Nat
          /\ 1 \in DOMAIN immutables /\ S = immutables[1]
          /\ S # {} => \E h \in S : h.seq = fl.seq
          /\ S = {} => fl.seq = 0
        <3>1. fl.seq = LargestSeq(S)
            BY DEF IndInv, FlushInv
        <3> QED BY <1>1, <3>1, OldestMemtable
    <2> HIDE DEF S
    <2>8. PICK h \in S : h.seq = fl.seq
        BY <1>1, <1>3, <2>7
    <2>9. CASE e \in memtable
        <3>1. h.seq < e.seq
            BY <2>7, <2>9 DEF IndInv, MemInv
        <3> QED BY <1>1, <2>3, <2>4, <2>8, <3>1
    <2>10. CASE e \in Frozen(immutables)
        <3>1. PICK k \in DOMAIN immutables : e \in immutables[k]
            BY <2>10, InSome
        <3>2. k # 1
            BY <1>1, <2>1, <2>7, <3>1 DEF S
        <3>3. 1 < k
            BY <2>7, <3>1, <3>2
        <3>4. h.seq < e.seq
            BY <2>7, <3>1, <3>3 DEF IndInv, MemInv
        <3> QED BY <1>1, <2>3, <2>4, <2>8, <3>4
    <2> QED BY <2>6, <2>9, <2>10
<1> QED BY <1>2, <1>3

\* The flushed memtable leaves memory, and is in a table of the MANIFEST.
LEMMA FlushManifestCutoffKeepsReads ==
    ASSUME IndInv, IndInv', ReadInv, FlushManifestCutoff
    PROVE  ReadInv'
<1>1. /\ fl.pc = "cutoff"
      /\ manifest' = Append(manifest, CutoffRecord(FlushCutoff))
      /\ version' = SetWALCutoff(version, FlushCutoff)
      /\ immutables' = Tail(immutables) /\ (FlushFailed => FlushFailed')
      /\ UNCHANGED <<wal, dirty, files, phase, memtable, wr, nextSeq, acked>>
    BY DEF FlushManifestCutoff, FlushFailed
<1>2. /\ phase = "up" /\ immutables # <<>> /\ fl.seq \in Nat
      /\ ManifestTables(manifest') = ManifestTables(manifest)
      /\ ManifestCutoff(manifest) \in Nat
      /\ ManifestCutoff(manifest') =
           IF fl.seq > ManifestCutoff(manifest) THEN fl.seq ELSE ManifestCutoff(manifest)
      /\ TableEntries' = TableEntries
      /\ Head(immutables) \subseteq TableEntries
    BY <1>1, CutoffRecorded
<1>3. /\ version'.tables = version.tables
      /\ version'.cutoff = IF fl.seq > version.cutoff THEN fl.seq ELSE version.cutoff
    BY <1>1 DEF SetWALCutoff, FlushCutoff, IndInv, TypeOK, VersionOK
<1>4. /\ immutables \in Seq(SUBSET Entry(Keys))
      /\ DOMAIN immutables = 1..Len(immutables) /\ Len(immutables) \in Nat
      /\ Len(immutables) > 0 /\ Head(immutables) = immutables[1]
      /\ DOMAIN immutables' = 1..(Len(immutables) - 1)
      /\ \A i \in 1..(Len(immutables) - 1) : immutables'[i] = immutables[i + 1]
    <2>1. immutables \in Seq(SUBSET Entry(Keys))
        BY DEF IndInv, TypeOK
    <2> QED BY <1>1, <1>2, <2>1, OldestMemtable, HeadTailProperties, LenProperties, EmptySeq
<1>5. \A i \in DOMAIN immutables' : i + 1 \in DOMAIN immutables /\ immutables'[i] = immutables[i + 1]
    BY <1>4
<1>6. MemEntries' \subseteq MemEntries
    BY <1>1, <1>5, InSome DEF MemEntries
<1>7. MemEntries \subseteq MemEntries' \cup TableEntries
    <2>1. ASSUME NEW e \in Frozen(immutables) PROVE e \in Frozen(immutables') \cup TableEntries
        <3>1. PICK i \in DOMAIN immutables : e \in immutables[i]
            BY <2>1, InSome
        <3>2. CASE i = 1
            BY <1>2, <1>4, <3>1, <3>2
        <3>3. CASE i # 1
            <4>1. i - 1 \in DOMAIN immutables' /\ immutables'[i - 1] = immutables[i]
                BY <1>4, <3>3
            <4> QED BY <3>1, <4>1, InSome
        <3> QED BY <3>2, <3>3
    <2> QED BY <1>1, <2>1 DEF MemEntries
<1>8. LiveEntries' = LiveEntries /\ WalEntries' = WalEntries /\ Pending' = Pending
    BY <1>1, <1>3 DEF LiveEntries, WalEntries, Pending
<1>9. MatchInv'
    BY <1>1, <1>2, <1>3 DEF ReadInv, MatchInv, Alive, Replaying
<1>10. FiniteInv'
    BY <1>1, <1>5 DEF ReadInv, FiniteInv
<1>11. DescribedInv'
    BY <1>1, <1>2, <1>3 DEF ReadInv, DescribedInv
<1>12. CoverInv'
    <2>1. \A i \in DOMAIN wal' : \A j \in DOMAIN wal'[i] :
              wal'[i][j].last <= ManifestCutoff(manifest') => wal'[i][j].ents \subseteq TableEntries'
        BY <1>1, <1>2, CutoffCovers
    <2> QED BY <2>1, <1>1, <1>2, <1>6, <1>7, <1>8 DEF ReadInv, CoverInv
<1> QED BY <1>9, <1>10, <1>11, <1>12 DEF ReadInv

\* The cutoff record fails: the MANIFEST may have it, memory does not.
LEMMA FlushManifestCutoffFailsKeepsReads ==
    ASSUME NoTearing, IndInv, IndInv', ReadInv, FlushManifestCutoffFails
    PROVE  ReadInv'
<1>1. /\ fl.pc = "cutoff" /\ FlushFailed'
      /\ manifest' \in {manifest, Append(manifest, CutoffRecord(FlushCutoff))}
      /\ UNCHANGED <<wal, dirty, files, phase, memtable, immutables, version, wr, nextSeq, acked>>
    BY DEF FlushManifestCutoffFails, FlushAborts, FailedFlush, FlushFailed, ManifestAppendFails,
        Fault, NoTearing, memory
<1>2. ManifestTables(manifest') = ManifestTables(manifest) /\ TableEntries' = TableEntries
    <2>1. CASE manifest' = manifest
        BY <1>1, <2>1 DEF TableEntries
    <2>2. CASE manifest' = Append(manifest, CutoffRecord(FlushCutoff))
        BY <1>1, <2>2, CutoffRecorded
    <2> QED BY <1>1, <2>1, <2>2
<1>3. /\ LiveEntries' = LiveEntries /\ WalEntries' = WalEntries /\ Pending' = Pending
      /\ MemEntries' = MemEntries
    BY <1>1 DEF LiveEntries, WalEntries, Pending, MemEntries
<1>4. MatchInv'
    BY <1>1 DEF MatchInv
<1>5. FiniteInv'
    BY <1>1 DEF ReadInv, FiniteInv
<1>6. DescribedInv'
    BY <1>1, <1>2 DEF ReadInv, DescribedInv
<1>7. CoverInv'
    <2>1. \A i \in DOMAIN wal : \A j \in DOMAIN wal[i] :
              wal[i][j].last <= ManifestCutoff(manifest') => wal[i][j].ents \subseteq TableEntries
        <3>1. CASE manifest' = manifest
            BY <3>1 DEF ReadInv, CoverInv
        <3>2. CASE manifest' = Append(manifest, CutoffRecord(FlushCutoff))
            BY <1>1, <3>2, CutoffCovers
        <3> QED BY <1>1, <3>1, <3>2
    <2> QED BY <1>1, <1>2, <1>3, <2>1 DEF ReadInv, CoverInv
<1> QED BY <1>4, <1>5, <1>6, <1>7 DEF ReadInv

\* What a removed segment held is in tables; the other records stay.
LEMMA SegmentRemoved ==
    ASSUME IndInv, ReadInv, FlushRemoveSegment
    PROVE  /\ \A i \in DOMAIN wal' : i + 1 \in DOMAIN wal /\ wal'[i] = wal[i + 1]
           /\ WalEntries \subseteq WalEntries' \cup TableEntries
           /\ WalEntries' \subseteq WalEntries
<1>1. /\ fl.pc = "remove" /\ phase = "up" /\ Alive
      /\ fl.ndel \in Nat /\ fl.ndel > 0 /\ fl.ndel < Len(wal)
      /\ \A i \in 1..fl.ndel : Truncatable(wal[i], fl.seq)
      /\ fl.seq \in Nat /\ fl.seq <= version.cutoff
    BY DEF FlushRemoveSegment, IndInv, FlushInv, TypeOK, FlushState, Alive
<1>2. /\ wal' = Tail(wal)
      /\ UNCHANGED <<manifest, files, phase, memtable, immutables, version, wr, nextSeq>>
    BY DEF FlushRemoveSegment, memory
<1>3. wal \in Seq(Segment) /\ Len(wal) \in Nat /\ DOMAIN wal = 1..Len(wal) /\ wal # <<>>
    BY <1>1, Segments DEF IndInv, TypeOK
<1>4. /\ DOMAIN wal' = 1..(Len(wal) - 1)
      /\ \A i \in 1..(Len(wal) - 1) : wal'[i] = wal[i + 1]
    BY <1>2, <1>3, HeadTailProperties, LenProperties
<1>5. \A i \in DOMAIN wal' : i + 1 \in DOMAIN wal /\ wal'[i] = wal[i + 1]
    BY <1>3, <1>4
<1>6. \A j \in DOMAIN wal[1] : wal[1][j].ents \subseteq TableEntries
    <2>1. ASSUME NEW j \in DOMAIN wal[1] PROVE wal[1][j].last <= ManifestCutoff(manifest)
        <3>1. Truncatable(wal[1], fl.seq) /\ 1 \in DOMAIN wal
            BY <1>1, <1>3
        <3>2. wal[1][j].last <= fl.seq
            BY <3>1 DEF Truncatable
        <3>3. wal[1][j].last \in Nat
            BY <1>3, <3>1, Segments DEF LogRecord
        <3> QED BY <1>1, <3>2, <3>3, VersionWithinManifest
    <2> QED BY <1>1, <1>3, <2>1 DEF ReadInv, CoverInv
<1>7. WalEntries \subseteq WalEntries' \cup TableEntries
    <2>1. ASSUME NEW e \in WalEntries, e \notin TableEntries PROVE e \in WalEntries'
        <3>1. PICK i \in DOMAIN wal : \E j \in DOMAIN wal[i] : e \in wal[i][j].ents
            BY <2>1, InLog DEF WalEntries
        <3>2. i # 1
            BY <1>6, <2>1, <3>1
        <3>3. i - 1 \in DOMAIN wal' /\ wal'[i - 1] = wal[i]
            BY <1>3, <1>4, <3>2
        <3> QED BY <3>1, <3>3, InLog DEF WalEntries
    <2> QED BY <2>1
<1>8. WalEntries' \subseteq WalEntries
    <2>1. ASSUME NEW e \in WalEntries' PROVE e \in WalEntries
        <3>1. PICK i \in DOMAIN wal' : \E j \in DOMAIN wal'[i] : e \in wal'[i][j].ents
            BY <2>1, InLog DEF WalEntries
        <3> QED BY <1>5, <3>1, InLog DEF WalEntries
    <2> QED BY <2>1
<1> QED BY <1>5, <1>7, <1>8

\* Removing a segment preserves ReadInv.
LEMMA FlushRemoveSegmentKeepsReads ==
    ASSUME IndInv, ReadInv, FlushRemoveSegment
    PROVE  ReadInv'
<1>1. /\ FlushFailed => FlushFailed'
      /\ UNCHANGED <<manifest, files, phase, memtable, immutables, version, wr, nextSeq>>
    BY DEF FlushRemoveSegment, memory, FlushFailed, IndInv, TypeOK, FlushState
<1>2. /\ \A i \in DOMAIN wal' : i + 1 \in DOMAIN wal /\ wal'[i] = wal[i + 1]
      /\ WalEntries \subseteq WalEntries' \cup TableEntries
      /\ WalEntries' \subseteq WalEntries
    BY SegmentRemoved
<1>3. /\ LiveEntries' = LiveEntries /\ Pending' = Pending /\ MemEntries' = MemEntries
      /\ TableEntries' = TableEntries
    BY <1>1 DEF LiveEntries, Pending, MemEntries, TableEntries
<1>4. MatchInv'
    BY <1>1 DEF ReadInv, MatchInv, Alive, Replaying
<1>5. FiniteInv'
    BY <1>1, <1>2 DEF ReadInv, FiniteInv
<1>6. DescribedInv'
    BY <1>1 DEF ReadInv, DescribedInv
<1>7. CoverInv'
    <2>1. \A i \in DOMAIN wal' : \A j \in DOMAIN wal'[i] :
              wal'[i][j].last <= ManifestCutoff(manifest') => wal'[i][j].ents \subseteq TableEntries'
        BY <1>1, <1>2, <1>3 DEF ReadInv, CoverInv
    <2> QED BY <2>1, <1>1, <1>2, <1>3 DEF ReadInv, CoverInv
<1> QED BY <1>4, <1>5, <1>6, <1>7 DEF ReadInv

\* The rewritten MANIFEST names the tables of the version and its cutoff.
LEMMA RewrittenIsVersion ==
    ASSUME IndInv, CompactManifest
    PROVE  /\ GoodManifest(manifest')
           /\ ManifestTables(manifest') = version.tables
           /\ ManifestCutoff(manifest') = version.cutoff
<1>1. PICK tables \in Listings(version.tables) :
          manifest' = Append([i \in DOMAIN tables |-> AddRecord(tables[i])],
                             CutoffRecord(version.cutoff))
    BY DEF CompactManifest
<1>2. /\ nextSeq \in Nat /\ nextFileNum \in Nat /\ version.cutoff \in Nat
      /\ IsFiniteSet(version.tables) /\ \A t \in version.tables : TableOK(t)
    BY DEF IndInv, TypeOK, VersionOK
<1>3. /\ nextSeq + nextFileNum \in Nat
      /\ \A t \in version.tables : /\ t.num <= nextSeq + nextFileNum
                                   /\ t.largestSeq <= nextSeq + nextFileNum
    <2>1. \A t \in version.tables : t.num < nextFileNum /\ t.largestSeq < nextSeq
        BY DEF CompactManifest, Alive, IndInv, VersionInv
    <2> QED BY <1>2, <2>1 DEF TableOK
<1> QED BY <1>1, <1>2, <1>3, RewrittenManifest

\* The tables it names more are held by memtables, or were named before.
LEMMA CompactManifestKeepsReads ==
    ASSUME IndInv, IndInv', ReadInv, CompactManifest
    PROVE  ReadInv'
<1>1. /\ phase = "up" /\ Alive
      /\ UNCHANGED <<wal, files, phase, memtable, immutables, version, wr, nextSeq>>
    BY DEF CompactManifest, Alive, memory, locks
<1>2. /\ ManifestTables(manifest') = version.tables
      /\ ManifestCutoff(manifest') = version.cutoff
    BY RewrittenIsVersion
<1>3. /\ ManifestTables(manifest) \subseteq version.tables
      /\ version.cutoff \in Nat /\ ManifestCutoff(manifest) \in Nat
      /\ version.cutoff <= ManifestCutoff(manifest)
    BY <1>1, VersionWithinManifest
<1>4. TableEntries \subseteq TableEntries' /\ TableEntries' = LiveEntries
    BY <1>1, <1>2, <1>3, TablesNow, TablesNext, FileEntriesGrow DEF LiveEntries
<1>5. /\ LiveEntries' = LiveEntries /\ WalEntries' = WalEntries /\ Pending' = Pending
      /\ MemEntries' = MemEntries
    BY <1>1 DEF LiveEntries, WalEntries, Pending, MemEntries
<1>6. MatchInv'
    BY <1>1, <1>2 DEF MatchInv
<1>7. FiniteInv'
    BY <1>1 DEF ReadInv, FiniteInv
<1>8. DescribedInv'
    BY <1>1, <1>2 DEF ReadInv, DescribedInv
<1>9. CoverInv'
    <2>1. ASSUME NEW i \in DOMAIN wal, NEW j \in DOMAIN wal[i], wal[i][j].last <= version.cutoff
          PROVE  wal[i][j].ents \subseteq TableEntries
        <3>1. wal[i][j].last \in Nat
            BY Segments DEF IndInv, TypeOK, LogRecord
        <3>2. wal[i][j].last <= ManifestCutoff(manifest)
            BY <1>3, <2>1, <3>1
        <3> QED BY <3>2 DEF ReadInv, CoverInv
    <2> QED BY <1>1, <1>2, <1>4, <1>5, <2>1 DEF ReadInv, CoverInv
<1> QED BY <1>6, <1>7, <1>8, <1>9 DEF ReadInv

(***************************************************************************)
(* The end of the process: memory is empty, records and files stay, and    *)
(* the MANIFEST names at most tables it should.                            *)
(***************************************************************************)
LEMMA EndKeepsReads ==
    ASSUME IndInv, IndInv', ReadInv, ProcessEnds,
           \A i \in DOMAIN wal' : \A j \in DOMAIN wal'[i] :
              i \in DOMAIN wal /\ j \in DOMAIN wal[i] /\ wal'[i][j] = wal[i][j],
           ManifestCutoff(manifest') = ManifestCutoff(manifest),
           ManifestTables(manifest) \subseteq ManifestTables(manifest'),
           \A t \in ManifestTables(manifest') :
              t \in ManifestTables(manifest) \/ t = TableMeta(t.num, 0, files'[t.num]),
           \A t \in ManifestTables(manifest) : files'[t.num] = files[t.num],
           \A n \in DOMAIN files' : IsFiniteSet(files'[n])
    PROVE  ReadInv'
<1>1. /\ phase' = "down" /\ memtable' = {} /\ immutables' = <<>>
      /\ version'.tables = {} /\ wr'.pc = "idle"
    BY DEF ProcessEnds, NewVersionSet, IdleWriter
<1>2. MatchInv'
    BY <1>1 DEF MatchInv, Alive, Replaying
<1>3. FiniteInv'
    <2>1. IsFiniteSet(memtable')
        BY <1>1, FS_EmptySet
    <2>2. \A i \in DOMAIN immutables' : FALSE
        BY <1>1
    <2> QED BY <2>1, <2>2 DEF ReadInv, FiniteInv
<1>4. DescribedInv'
    BY <1>1 DEF ReadInv, DescribedInv
<1>5. TableEntries \subseteq TableEntries'
    <2>1. FileEntries(files, ManifestTables(manifest)) = FileEntries(files', ManifestTables(manifest))
        BY FileEntriesSame
    <2> QED BY <2>1, TablesNow, TablesNext, FileEntriesGrow
<1>6. MemEntries' = {}
    <2>1. \A e : e \notin Frozen(immutables')
        BY <1>1, InSome
    <2> QED BY <1>1, <2>1 DEF MemEntries
<1>7. LiveEntries' = {}
    BY <1>1 DEF LiveEntries, FileEntries
<1>8. CoverInv'
    BY <1>1, <1>5, <1>6, <1>7 DEF ReadInv, CoverInv
<1> QED BY <1>2, <1>3, <1>4, <1>8 DEF ReadInv

\* A crash.
LEMMA CrashKeepsReads ==
    ASSUME IndInv, IndInv', ReadInv, Crash
    PROVE  ReadInv'
<1>1. ProcessEnds /\ UNCHANGED <<wal, manifest, files>>
    BY DEF Crash, disk
<1> QED BY <1>1, EndKeepsReads DEF ReadInv, FiniteInv

\* Close, which removes no file: nothing is obsolete.
LEMMA CloseKeepsReads ==
    ASSUME IndInv, IndInv', ReadInv, Close
    PROVE  ReadInv'
<1>1. ProcessEnds /\ UNCHANGED <<wal, manifest>> /\ files' = RemoveFiles(version.obsolete)
    BY DEF Close
<1>2. files' = files
    BY <1>1, RemoveNothing DEF IndInv, VersionInv, TypeOK
<1> QED BY <1>1, <1>2, EndKeepsReads DEF ReadInv, FiniteInv

\* In a state of the invariant no table is ever missing at Open.
LEMMA NeverMissing ==
    ASSUME IndInv, phase = "open"
    PROVE  TablesPresent
BY DEF IndInv, VersionInv, Alive, TablesPresent, FileNums

\* A loss of power shortens the last segment.
LEMMA PowerLossCutsLast ==
    ASSUME IndInv, PowerLoss
    PROVE  LET n == Len(wal)
           IN  /\ n \in DOMAIN wal /\ DOMAIN wal' = DOMAIN wal
               /\ \A i \in DOMAIN wal : i # n => wal'[i] = wal[i]
               /\ \E k \in 0..Len(wal[n]) :
                     /\ DOMAIN wal'[n] = 1..k
                     /\ \A j \in 1..k : j \in DOMAIN wal[n] /\ wal'[n][j] = wal[n][j]
<1> DEFINE n == Len(wal)
<1>1. PICK lost \in 0..dirty :
          wal' = [wal EXCEPT ![Len(wal)] = SubSeq(@, 1, Len(@) - lost)]
    BY DEF PowerLoss
<1>2. /\ wal \in Seq(Segment) /\ dirty \in Nat /\ n \in Nat /\ n > 0 /\ DOMAIN wal = 1..n
      /\ \A i \in 1..n : /\ wal[i] \in Seq(LogRecord)
                         /\ Len(wal[i]) \in Nat /\ DOMAIN wal[i] = 1..Len(wal[i])
      /\ dirty <= Len(wal[n])
    BY Segments DEF PowerLoss, IndInv, TypeOK, WalInv
<1> DEFINE k == Len(wal[n]) - lost
           seg == SubSeq(wal[n], 1, k)
<1>3. k \in Nat /\ k <= Len(wal[n])
    BY <1>1, <1>2
<1>4. wal[n] \in Seq(LogRecord) /\ Len(wal[n]) \in Nat /\ DOMAIN wal[n] = 1..Len(wal[n])
    BY <1>2
<1> HIDE DEF k
<1>5. seg \in Seq(LogRecord) /\ Len(seg) = k /\ \A j \in 1..k : seg[j] = wal[n][j]
    <2>1. \A j \in 1..k : j \in 1..Len(wal[n])
        BY <1>3, <1>4
    <2>2. \A j \in 1..k : wal[n][j] \in LogRecord
        BY <1>4, <2>1, ElementOfSeq
    <2> QED BY <1>3, <1>4, <2>1, <2>2, SubSeqProperties
<1> HIDE DEF seg
<1>6. DOMAIN seg = 1..k
    BY <1>5, LenProperties
<1>7. wal' = [wal EXCEPT ![n] = seg]
    BY <1>1 DEF seg, k
<1>8. DOMAIN wal' = DOMAIN wal /\ \A i \in DOMAIN wal : wal'[i] = IF i = n THEN seg ELSE wal[i]
    BY <1>7
<1>9. \A j \in 1..k : j \in DOMAIN wal[n] /\ seg[j] = wal[n][j]
    BY <1>3, <1>4, <1>5, <1>6
<1>10. n \in DOMAIN wal /\ k \in 0..Len(wal[n])
    BY <1>2, <1>3, <1>4
<1>11. wal'[n] = seg
    BY <1>8, <1>10
<1> QED BY <1>6, <1>8, <1>9, <1>10, <1>11

\* The records it leaves are where they were.
LEMMA PowerLossKeepsRecords ==
    ASSUME IndInv, PowerLoss
    PROVE  \A i \in DOMAIN wal' : \A j \in DOMAIN wal'[i] :
              i \in DOMAIN wal /\ j \in DOMAIN wal[i] /\ wal'[i][j] = wal[i][j]
BY PowerLossCutsLast

\* A loss of power takes records off the end of the log.
LEMMA PowerLossKeepsReads ==
    ASSUME IndInv, IndInv', ReadInv, PowerLoss
    PROVE  ReadInv'
<1>1. ProcessEnds /\ UNCHANGED <<manifest, files>>
    BY DEF PowerLoss
<1> QED BY <1>1, PowerLossKeepsRecords, EndKeepsReads DEF ReadInv, FiniteInv

\* Recover fails to write the table: the file has a number nothing names.
LEMMA PageBuildFailsKeepsReads ==
    ASSUME IndInv, IndInv', ReadInv, PageBuildFails
    PROVE  ReadInv'
<1>1. /\ phase = "page" /\ ProcessEnds /\ UNCHANGED <<wal, manifest>>
      /\ files' = WriteFile(nextFileNum, {})
    BY DEF PageBuildFails
<1>2. /\ nextFileNum \in Nat /\ FilesOK(files)
      /\ \A t \in ManifestTables(manifest) : t.num # nextFileNum /\ t.num \in DOMAIN files
    BY <1>1, Paging
<1>3. /\ \A n \in DOMAIN files' : n = nextFileNum \/ n \in DOMAIN files
      /\ files'[nextFileNum] = {}
      /\ \A n \in DOMAIN files : n # nextFileNum => files'[n] = files[n]
    BY <1>1, <1>2, FileWritten DEF WriteFile
<1>4. \A n \in DOMAIN files' : IsFiniteSet(files'[n])
    BY <1>3, FS_EmptySet DEF ReadInv, FiniteInv
<1>5. \A t \in ManifestTables(manifest) : files'[t.num] = files[t.num]
    BY <1>2, <1>3
<1> QED BY <1>1, <1>4, <1>5, EndKeepsReads

\* The table Recover pages out holds the memtable.
LEMMA PagedIsMemtable ==
    ASSUME IndInv, phase = "pagecommit"
    PROVE  /\ nextFileNum \in DOMAIN files /\ files[nextFileNum] = memtable
           /\ PagedTable = TableMeta(nextFileNum, 0, memtable) /\ TableOK(PagedTable)
           /\ PagedTable.num = nextFileNum
           /\ PagedTable = TableMeta(PagedTable.num, 0, files[PagedTable.num])
           /\ Alive /\ immutables = <<>>
BY Paging DEF IndInv, ReplayInv, PagedTable

\* Recover fails to record the table it wrote: the MANIFEST may name it.
LEMMA PageCommitFailsKeepsReads ==
    ASSUME NoTearing, IndInv, IndInv', ReadInv, PageCommitFails
    PROVE  ReadInv'
<1>1. /\ phase = "pagecommit" /\ ProcessEnds /\ UNCHANGED <<wal, files>>
      /\ manifest' \in {manifest, Append(manifest, AddRecord(PagedTable))}
    BY DEF PageCommitFails, ManifestAppendFails, Fault, NoTearing
<1>2. /\ PagedTable = TableMeta(PagedTable.num, 0, files[PagedTable.num])
      /\ TableOK(PagedTable) /\ GoodManifest(manifest)
    BY <1>1, PagedIsMemtable, ManifestIsGood DEF IndInv
<1>3. /\ ManifestCutoff(manifest') = ManifestCutoff(manifest)
      /\ ManifestTables(manifest') \in
            {ManifestTables(manifest), ManifestTables(manifest) \cup {PagedTable}}
    BY <1>1, <1>2, EditAdd
<1>4. \A n \in DOMAIN files : IsFiniteSet(files[n])
    BY DEF ReadInv, FiniteInv
<1> QED BY <1>1, <1>2, <1>3, <1>4, EndKeepsReads

\* The paged memtable is in a table of the MANIFEST.
LEMMA PageCommitKeepsReads ==
    ASSUME IndInv, IndInv', ReadInv, PageCommit
    PROVE  ReadInv'
<1> DEFINE t == PagedTable
<1>1. /\ phase = "pagecommit" /\ phase' = "replay" /\ (FlushFailed => FlushFailed')
      /\ version' = AddTable(version, t) /\ manifest' = Append(manifest, AddRecord(t))
      /\ memtable' = {} /\ UNCHANGED <<wal, files, immutables, wr>>
    BY DEF PageCommit, locks, FlushFailed
<1>2. /\ files[t.num] = memtable /\ t = TableMeta(t.num, 0, files[t.num])
      /\ TableOK(t) /\ GoodManifest(manifest) /\ Alive
    BY <1>1, PagedIsMemtable, ManifestIsGood DEF IndInv
<1> HIDE DEF t
<1>3. /\ ManifestCutoff(manifest') = ManifestCutoff(manifest)
      /\ ManifestTables(manifest') = ManifestTables(manifest) \cup {t}
    BY <1>1, <1>2, EditAdd
<1>4. version'.tables = version.tables \cup {t} /\ version'.cutoff = version.cutoff
    BY <1>1 DEF AddTable, IndInv, TypeOK, VersionOK
<1>5. TableEntries' = TableEntries \cup memtable
    <2>1. FileEntries(files, ManifestTables(manifest) \cup {t})
            = FileEntries(files, ManifestTables(manifest)) \cup files[t.num]
        BY FileEntriesAdd
    <2> QED BY <1>1, <1>2, <1>3, <2>1, TablesNow, TablesNext
<1>6. LiveEntries' = LiveEntries \cup memtable
    <2>1. FileEntries(files, version.tables \cup {t})
            = FileEntries(files, version.tables) \cup files[t.num]
        BY FileEntriesAdd
    <2> QED BY <1>1, <1>2, <1>4, <2>1 DEF LiveEntries
<1>7. MemEntries' = Frozen(immutables) /\ WalEntries' = WalEntries
    BY <1>1 DEF MemEntries, WalEntries
<1>8. MatchInv'
    BY <1>1, <1>2, <1>3, <1>4 DEF ReadInv, MatchInv
<1>9. FiniteInv'
    BY <1>1, FS_EmptySet DEF ReadInv, FiniteInv
<1>10. DescribedInv'
    BY <1>1, <1>2, <1>3, <1>4 DEF ReadInv, DescribedInv
<1>11. CoverInv'
    BY <1>1, <1>3, <1>5, <1>6, <1>7 DEF ReadInv, CoverInv, MemEntries
<1> QED BY <1>8, <1>9, <1>10, <1>11 DEF ReadInv

\* A new database: nothing anywhere.
LEMMA OpenNewKeepsReads ==
    ASSUME IndInv, ReadInv, OpenNew
    PROVE  ReadInv'
<1>1. /\ phase = "new" /\ phase' = "open" /\ (FlushFailed => FlushFailed')
      /\ UNCHANGED <<wal, manifest, files, memtable, immutables, version, wr>>
    BY DEF OpenNew, disk, memory, locks, FlushFailed
<1>2. manifest = <<>> /\ version = NewVersionSet
    BY <1>1 DEF IndInv, NewInv
<1>3. /\ TableEntries' = TableEntries /\ MemEntries' = MemEntries /\ LiveEntries' = LiveEntries
      /\ WalEntries' = WalEntries
    BY <1>1 DEF TableEntries, MemEntries, LiveEntries, WalEntries
<1>4. MatchInv'
    BY <1>1, <1>2, EmptyManifest DEF MatchInv, NewVersionSet
<1>5. FiniteInv'
    BY <1>1 DEF ReadInv, FiniteInv
<1>6. DescribedInv'
    BY <1>1 DEF ReadInv, DescribedInv
<1>7. CoverInv'
    BY <1>1, <1>3 DEF ReadInv, CoverInv
<1> QED BY <1>4, <1>5, <1>6, <1>7 DEF ReadInv

\* The version is what the MANIFEST says.
LEMMA RecoverStartKeepsReads ==
    ASSUME IndInv, IndInv', ReadInv, RecoverStart
    PROVE  ReadInv'
<1>1. /\ phase = "down" /\ phase' = "replay" /\ (FlushFailed => FlushFailed')
      /\ version' = ReplayManifest(manifest)
      /\ UNCHANGED <<wal, manifest, files, memtable, immutables, wr>>
    BY DEF RecoverStart, disk, locks, FlushFailed
<1>2. /\ version'.tables = ManifestTables(manifest)
      /\ version'.cutoff = ManifestCutoff(manifest)
    BY <1>1 DEF ReplayManifest
<1>3. TableEntries' = TableEntries /\ MemEntries' = MemEntries /\ WalEntries' = WalEntries
    BY <1>1 DEF TableEntries, MemEntries, WalEntries
<1>4. LiveEntries' = TableEntries
    BY <1>1, <1>2, TablesNow DEF LiveEntries
<1>5. MatchInv'
    BY <1>1, <1>2 DEF MatchInv
<1>6. FiniteInv'
    BY <1>1 DEF ReadInv, FiniteInv
<1>7. DescribedInv'
    BY <1>1, <1>2 DEF ReadInv, DescribedInv
<1>8. CoverInv'
    BY <1>1, <1>3, <1>4 DEF ReadInv, CoverInv
<1> QED BY <1>5, <1>6, <1>7, <1>8 DEF ReadInv

\* What is replayed into the memtable is in the log.
LEMMA ReplayApplyKeepsReads ==
    ASSUME IndInv, ReadInv, ReplayApply
    PROVE  ReadInv'
<1>1. /\ phase = "replay" /\ phase' \in {"page", "replay"} /\ (FlushFailed => FlushFailed')
      /\ memtable' = memtable \cup CursorRec.ents
      /\ UNCHANGED <<wal, manifest, files, immutables, version, wr>>
    BY DEF ReplayApply, AtRecord, disk, locks, FlushFailed
<1>2. cursor[1] \in DOMAIN wal /\ cursor[2] \in DOMAIN wal[cursor[1]]
    <2>1. /\ cursor[1] <= Len(wal) /\ cursor[2] <= Len(wal[cursor[1]])
        BY DEF ReplayApply, AtRecord, CursorSeg
    <2> QED BY <1>1, <2>1, Reading
<1>3. CursorRec.ents \subseteq WalEntries /\ IsFiniteSet(CursorRec.ents)
    BY <1>2, InLog DEF CursorRec, CursorSeg, WalEntries, ReadInv, FiniteInv
<1>4. IsFiniteSet(memtable')
    BY <1>1, <1>3, FS_Union DEF ReadInv, FiniteInv
<1>5. TableEntries' = TableEntries /\ WalEntries' = WalEntries /\ LiveEntries' = LiveEntries
    BY <1>1 DEF TableEntries, WalEntries, LiveEntries
<1>6. MemEntries' = MemEntries \cup CursorRec.ents
    BY <1>1 DEF MemEntries
<1>7. MatchInv'
    BY <1>1 DEF ReadInv, MatchInv, Alive, Replaying
<1>8. FiniteInv'
    BY <1>1, <1>4 DEF ReadInv, FiniteInv
<1>9. DescribedInv'
    BY <1>1 DEF ReadInv, DescribedInv
<1>10. CoverInv'
    BY <1>1, <1>3, <1>5, <1>6 DEF ReadInv, CoverInv
<1> QED BY <1>7, <1>8, <1>9, <1>10 DEF ReadInv

\* The end of the log is reached.
LEMMA ReplayDoneKeepsReads ==
    ASSUME IndInv, ReadInv, ReplayDone
    PROVE  ReadInv'
<1>1. /\ phase = "replay" /\ phase' = "open" /\ (FlushFailed => FlushFailed')
      /\ UNCHANGED <<wal, manifest, files, memtable, immutables, version, wr>>
    BY DEF ReplayDone, disk, memory, locks, FlushFailed
<1>2. /\ TableEntries' = TableEntries /\ MemEntries' = MemEntries /\ LiveEntries' = LiveEntries
      /\ WalEntries' = WalEntries
    BY <1>1 DEF TableEntries, MemEntries, LiveEntries, WalEntries
<1>3. MatchInv'
    BY <1>1 DEF ReadInv, MatchInv, Alive, Replaying
<1>4. FiniteInv'
    BY <1>1 DEF ReadInv, FiniteInv
<1>5. DescribedInv'
    BY <1>1 DEF ReadInv, DescribedInv
<1>6. CoverInv'
    BY <1>1, <1>2 DEF ReadInv, CoverInv
<1> QED BY <1>3, <1>4, <1>5, <1>6 DEF ReadInv

\* OpenWAL creates a segment when there is none, and changes no record.
LEMMA LogOpened ==
    ASSUME OpenDone
    PROVE  /\ \A i \in DOMAIN wal' : \A j \in DOMAIN wal'[i] :
                 i \in DOMAIN wal /\ j \in DOMAIN wal[i] /\ wal'[i][j] = wal[i][j]
           /\ WalEntries' = WalEntries
<1>1. wal' = IF wal = <<>> THEN << <<>> >> ELSE wal
    BY DEF OpenDone
<1>2. \A i \in DOMAIN wal' : \A j \in DOMAIN wal'[i] :
          i \in DOMAIN wal /\ j \in DOMAIN wal[i] /\ wal'[i][j] = wal[i][j]
    <2>1. CASE wal = <<>>
        <3>1. DOMAIN wal' = {1} /\ wal'[1] = <<>>
            <4>1. DOMAIN << <<>> >> = 1..1 /\ 1..1 = {1} /\ << <<>> >>[1] = <<>>
                OBVIOUS
            <4> QED BY <1>1, <2>1, <4>1
        <3>2. \A j \in DOMAIN <<>> : FALSE
            OBVIOUS
        <3> QED BY <3>1, <3>2
    <2>2. CASE wal # <<>>
        BY <1>1, <2>2
    <2> QED BY <2>1, <2>2
<1>3. WalEntries' = WalEntries
    <2>1. CASE wal = <<>>
        <3>1. \A e : e \notin WalEntries /\ e \notin WalEntries'
            <4>1. TAKE e
            <4>2. \A i \in DOMAIN wal : FALSE
                BY <2>1
            <4> QED BY <1>2, <4>2, InLog DEF WalEntries
        <3> QED BY <3>1
    <2>2. CASE wal # <<>>
        BY <1>1, <2>2 DEF WalEntries
    <2> QED BY <2>1, <2>2
<1> QED BY <1>2, <1>3

\* Open returns with the whole log in tables or in the memtable.
LEMMA OpenDoneKeepsReads ==
    ASSUME IndInv, ReadInv, OpenDone
    PROVE  ReadInv'
<1>1. /\ phase = "open" /\ phase' = "up" /\ (FlushFailed => FlushFailed')
      /\ wal' = IF wal = <<>> THEN << <<>> >> ELSE wal
      /\ UNCHANGED <<manifest, files, memtable, immutables, version, wr, nextSeq>>
    BY DEF OpenDone, memory, locks, FlushFailed
<1>2. \A i \in DOMAIN wal' : \A j \in DOMAIN wal'[i] :
          i \in DOMAIN wal /\ j \in DOMAIN wal[i] /\ wal'[i][j] = wal[i][j]
    BY LogOpened
<1>3. WalEntries' = WalEntries
    BY LogOpened
<1>4. WalEntries \subseteq TableEntries \cup memtable
    <2>1. ASSUME NEW e \in WalEntries PROVE e \in TableEntries \cup memtable
        <3>1. PICK i \in DOMAIN wal : \E j \in DOMAIN wal[i] : e \in wal[i][j].ents
            BY <2>1, InLog DEF WalEntries
        <3>2. PICK j \in DOMAIN wal[i] : e \in wal[i][j].ents
            BY <3>1
        <3>3. wal[i][j].last \in Nat /\ ManifestCutoff(manifest) \in Nat
            BY <1>1, Segments, VersionWithinManifest DEF IndInv, TypeOK, LogRecord, Alive
        <3>4. CASE wal[i][j].last <= ManifestCutoff(manifest)
            BY <3>2, <3>4 DEF ReadInv, CoverInv
        <3>5. CASE wal[i][j].last > ManifestCutoff(manifest)
            BY <1>1, <3>2, <3>5 DEF IndInv, ReplayInv, Recovered
        <3> QED BY <3>3, <3>4, <3>5
    <2> QED BY <2>1
<1>5. TableEntries' = TableEntries /\ MemEntries' = MemEntries /\ LiveEntries' = LiveEntries
    BY <1>1 DEF TableEntries, MemEntries, LiveEntries
<1>6. MatchInv'
    BY <1>1 DEF ReadInv, MatchInv, Alive, Replaying
<1>7. FiniteInv'
    BY <1>1, <1>2 DEF ReadInv, FiniteInv
<1>8. DescribedInv'
    BY <1>1 DEF ReadInv, DescribedInv
<1>9. CoverInv'
    <2>1. \A i \in DOMAIN wal' : \A j \in DOMAIN wal'[i] :
              wal'[i][j].last <= ManifestCutoff(manifest') => wal'[i][j].ents \subseteq TableEntries'
        BY <1>1, <1>2, <1>5 DEF ReadInv, CoverInv
    <2> QED BY <1>3, <1>4, <1>5, <2>1 DEF ReadInv, CoverInv, MemEntries
<1> QED BY <1>6, <1>7, <1>8, <1>9 DEF ReadInv

\* The steps that move a goroutine or the cursor and touch no entry.
QuietStep ==
    \/ WriteCheck \/ WriteSync
    \/ FlushStart \/ FlushPick \/ FlushDrained \/ FlushTruncate \/ FlushTruncated
    \/ SkipCompaction \/ FlushCleanup \/ FlushSetError
    \/ ReplayNextSegment \/ ReplaySkip

\* They preserve ReadInv.
LEMMA QuietStepKeepsReads ==
    ASSUME IndInv, ReadInv, QuietStep
    PROVE  ReadInv'
<1>1. CASE FlushCleanup
    <2>1. /\ UNCHANGED <<wal, manifest, phase, nextSeq, memtable, immutables, bgErr, wr>>
          /\ CleanupObsoleteFiles /\ (FlushFailed => FlushFailed')
        BY <1>1 DEF FlushCleanup, FlushFailed
    <2>2. version.obsolete = {} /\ VersionOK(version) /\ FilesOK(files)
        BY DEF IndInv, VersionInv, TypeOK
    <2>3. files' = files
        BY <2>1, <2>2, RemoveNothing DEF CleanupObsoleteFiles
    <2>4. version' = version
        BY <2>1, <2>2 DEF CleanupObsoleteFiles, VersionOK
    <2> QED BY <2>1, <2>3, <2>4, QuietKeepsReads DEF Pending
<1>2. CASE WriteSync
    <2>1. /\ UNCHANGED <<wal, manifest, files, phase, nextSeq, memtable, immutables, version>>
          /\ wr.pc = "appended" /\ wr' = [wr EXCEPT !.pc = "synced"]
          /\ FlushFailed => FlushFailed'
        BY <1>2 DEF WriteSync, memory, FlushFailed
    <2>2. wr'.pc # "idle" /\ wr'.batch = wr.batch
        BY <2>1 DEF IndInv, TypeOK, WriterState
    <2> QED BY <2>1, <2>2, QuietKeepsReads DEF Pending
<1>3. CASE ~(FlushCleanup \/ WriteSync)
    <2>1. /\ UNCHANGED <<wal, manifest, files, phase, nextSeq, memtable, immutables, version,
                         wr>>
        BY <1>3 DEF QuietStep, WriteCheck, FlushStart, FlushPick, FlushDrained, FlushTruncate,
            FlushTruncated, SkipCompaction, FlushSetError, ReplayNextSegment, ReplaySkip, disk,
            memory, locks
    <2>2. FlushFailed => FlushFailed'
        BY <1>3 DEF QuietStep, WriteCheck, FlushStart, FlushPick, FlushDrained, FlushTruncate,
            FlushTruncated, SkipCompaction, FlushSetError, ReplayNextSegment, ReplaySkip, locks,
            FlushFailed
    <2> QED BY <2>1, <2>2, QuietKeepsReads DEF Pending
<1> QED BY <1>1, <1>2, <1>3

\* Nothing is anywhere to begin with.
LEMMA InitReads ==
    ASSUME Init
    PROVE  ReadInv
<1>1. /\ wal = <<>> /\ manifest = <<>> /\ files = [n \in {} |-> {}] /\ phase = "new"
      /\ memtable = {} /\ immutables = <<>> /\ version = NewVersionSet
    BY DEF Init
<1>2. ManifestTables(manifest) = {} /\ version.tables = {}
    BY <1>1, EmptyManifest DEF NewVersionSet
<1>3. MatchInv
    BY <1>1 DEF MatchInv, Alive, Replaying
<1>4. FiniteInv
    BY <1>1, FS_EmptySet DEF FiniteInv
<1>5. DescribedInv
    BY <1>2 DEF DescribedInv
<1>6. MemEntries = {} /\ LiveEntries = {}
    <2>1. \A e : e \notin Frozen(immutables)
        BY <1>1, InSome
    <2> QED BY <1>1, <1>2, <2>1 DEF MemEntries, LiveEntries, FileEntries
<1>7. CoverInv
    BY <1>1, <1>6 DEF CoverInv
<1> QED BY <1>3, <1>4, <1>5, <1>7 DEF ReadInv

\* Every step of the engine preserves ReadInv.
LEMMA NextKeepsReads ==
    ASSUME NoTearing, SyncsSucceed, IndInv, ReadInv, [Next]_vars
    PROVE  ReadInv'
<1>0. IndInv'
    BY NextPreserves
<1>1. CASE Write
    <2>1. ASSUME NEW op \in Ops, WriteAppendTorn(op) PROVE FALSE
        BY <2>1 DEF WriteAppendTorn, Fault, NoTearing
    <2>2. ~WriteSyncFails
        BY DEF WriteSyncFails, Fault, SyncsSucceed, IndInv, WriterInv
    <2> QED BY <1>0, <1>1, <2>1, <2>2, WriteAppendKeepsReads, WriteAppendFailsKeepsReads,
               WriteApplyKeepsReads, QuietStepKeepsReads DEF Write, QuietStep
<1>2. CASE Flush
    BY <1>0, <1>2, QuietStepKeepsReads, FlushBuildKeepsReads, FlushBuildFailsKeepsReads,
       FlushManifestAddKeepsReads, FlushManifestAddFailsKeepsReads,
       FlushManifestCutoffKeepsReads, FlushManifestCutoffFailsKeepsReads,
       FlushRemoveSegmentKeepsReads DEF Flush, QuietStep
<1>3. CASE CompactManifest
    BY <1>0, <1>3, CompactManifestKeepsReads
<1>4. CASE Open
    <2>1. ~OpenMissing
        BY NeverMissing DEF OpenMissing
    <2> QED BY <1>0, <1>4, <2>1, QuietStepKeepsReads, OpenNewKeepsReads, RecoverStartKeepsReads,
               ReplayApplyKeepsReads, PageBuildKeepsReads, PageBuildFailsKeepsReads,
               PageCommitKeepsReads, PageCommitFailsKeepsReads, ReplayDoneKeepsReads,
               OpenDoneKeepsReads DEF Open, Recover, QuietStep
<1>5. CASE Stop
    <2>1. ~TableLoss
        BY DEF TableLoss, NoTearing
    <2> QED BY <1>0, <1>5, <2>1, CloseKeepsReads, CrashKeepsReads, PowerLossKeepsReads DEF Stop
<1>6. CASE UNCHANGED vars
    BY <1>6, QuietKeepsReads DEF vars, disk, memory, locks, Pending, FlushFailed
<1> QED BY <1>1, <1>2, <1>3, <1>4, <1>5, <1>6 DEF Next

(***************************************************************************)
(* When moreover every fsync of the log succeeds, both invariants hold in  *)
(* every reachable state.                                                  *)
(***************************************************************************)
THEOREM EngineReadInvariantHolds ==
    ASSUME NoTearing, SyncsSucceed
    PROVE  Spec => [](IndInv /\ ReadInv)
<1>1. Init => IndInv /\ ReadInv
    BY InitEstablishes, InitReads
<1>2. IndInv /\ ReadInv /\ [Next]_vars => (IndInv /\ ReadInv)'
    BY NextPreserves, NextKeepsReads
<1> QED BY <1>1, <1>2, PTL DEF Spec

-----------------------------------------------------------------------------
(* The version and the MANIFEST, whether or not an fsync of the log fails. *)

\* The steps that leave alone what the version and the MANIFEST say.
NoEditStep ==
    \/ Write
    \/ FlushStart \/ FlushPick \/ FlushDrained \/ FlushBuild \/ FlushBuildFails
    \/ FlushSetError
    \/ FlushTruncate \/ FlushRemoveSegment \/ FlushTruncated \/ SkipCompaction
    \/ ReplayNextSegment \/ ReplaySkip \/ ReplayApply \/ PageBuild \/ ReplayDone \/ OpenDone
    \/ UNCHANGED vars

\* They may fail a flush, and never make a failure forgotten.
LEMMA NoEditStepEdits ==
    ASSUME IndInv, NoEditStep
    PROVE  UNCHANGED <<manifest, version>> /\ (FlushFailed => FlushFailed')
           /\ (Alive' => Alive)
<1>1. CASE Write
    BY <1>1 DEF Write, WriteCheck, WriteAppend, WriteAppendFails, WriteAppendTorn, WriteSync,
        WriteSyncFails, WriteApply, disk, memory, Alive, Replaying, FlushFailed
<1>2. CASE FlushStart \/ FlushPick \/ FlushDrained \/ FlushBuild \/ FlushBuildFails
           \/ FlushSetError
           \/ FlushTruncate \/ FlushRemoveSegment \/ FlushTruncated \/ SkipCompaction
    <2>1. UNCHANGED <<manifest, version>> /\ (Alive' => Alive)
        BY <1>2 DEF FlushStart, FlushPick, FlushDrained, FlushBuild, FlushBuildFails,
            FlushSetError, FlushTruncate, FlushRemoveSegment, FlushTruncated, SkipCompaction,
            disk, memory, Alive, Replaying
    <2>2. FlushFailed => FlushFailed'
        BY <1>2 DEF FlushStart, FlushPick, FlushDrained, FlushBuild, FlushBuildFails, FlushAborts,
            FailedFlush, FlushSetError, FlushTruncate, FlushRemoveSegment, FlushTruncated,
            SkipCompaction, FlushFailed, IndInv, TypeOK, FlushState
    <2> QED BY <2>1, <2>2
<1>3. CASE ReplayNextSegment \/ ReplaySkip \/ ReplayApply \/ PageBuild \/ ReplayDone \/ OpenDone
    BY <1>3 DEF ReplayNextSegment, ReplaySkip, ReplayApply, PageBuild, ReplayDone, OpenDone,
        AtRecord, disk, memory, locks, Alive, Replaying, FlushFailed
<1>4. CASE UNCHANGED vars
    BY <1>4 DEF vars, disk, memory, locks, Alive, Replaying, FlushFailed
<1> QED BY <1>1, <1>2, <1>3, <1>4 DEF NoEditStep

\* Until a flush fails every step keeps the version equal to what the MANIFEST
\* says; the cutoff in the MANIFEST goes back, if at all, after such a failure
\* and to that of the version.
LEMMA EditsMatch ==
    ASSUME NoTearing, IndInv, MatchInv, [Next]_vars
    PROVE  /\ MatchInv'
           /\ ManifestCutoff(manifest') < ManifestCutoff(manifest) =>
                 FlushFailed /\ ManifestCutoff(manifest') >= version.cutoff
<1>0. /\ GoodManifest(manifest) /\ ManifestCutoff(manifest) \in Nat
      /\ ~(ManifestCutoff(manifest) < ManifestCutoff(manifest))
      /\ version = [tables |-> version.tables, obsolete |-> version.obsolete,
                    cutoff |-> version.cutoff]
    BY ManifestIsGood, GoodManifestFacts DEF IndInv, TypeOK, VersionOK
<1>1. CASE NoEditStep
    BY <1>0, <1>1, NoEditStepEdits DEF MatchInv
<1>2. CASE FlushManifestAdd \/ FlushManifestAddFails
    <2>1. /\ fl.pc = "commit" /\ version' = AddTable(version, FlushedTable) /\ phase' = phase
          /\ manifest' \in {manifest, Append(manifest, AddRecord(FlushedTable))}
          /\ \/ FlushFailed'
             \/ ~FlushFailed /\ manifest' = Append(manifest, AddRecord(FlushedTable))
        BY <1>2 DEF FlushManifestAdd, FlushManifestAddFails, FlushAborts, FailedFlush,
            FlushFailed, ManifestAppendFails, Fault, NoTearing
    <2>2. TableOK(FlushedTable) /\ Alive /\ Alive'
        BY <2>1, FlushedIsFrozen DEF Alive, Replaying
    <2>3. /\ ManifestCutoff(manifest') = ManifestCutoff(manifest)
          /\ manifest' = Append(manifest, AddRecord(FlushedTable))
               => ManifestTables(manifest') = ManifestTables(manifest) \cup {FlushedTable}
        BY <1>0, <2>1, <2>2, EditAdd
    <2>4. /\ version'.tables = version.tables \cup {FlushedTable}
          /\ version'.cutoff = version.cutoff
        BY <1>0, <2>1 DEF AddTable
    <2> QED BY <1>0, <2>1, <2>2, <2>3, <2>4 DEF MatchInv
<1>3. CASE FlushManifestCutoff \/ FlushManifestCutoffFails
    <2>1. /\ fl.pc = "cutoff" /\ phase' = phase
          /\ manifest' \in {manifest, Append(manifest, CutoffRecord(FlushCutoff))}
          /\ \/ FlushFailed'
             \/ /\ ~FlushFailed /\ manifest' = Append(manifest, CutoffRecord(FlushCutoff))
                /\ version' = SetWALCutoff(version, FlushCutoff)
        BY <1>3 DEF FlushManifestCutoff, FlushManifestCutoffFails, FlushAborts, FailedFlush,
            FlushFailed, ManifestAppendFails, Fault, NoTearing
    <2>2. FlushCutoff \in Nat /\ Alive
        BY <2>1 DEF FlushCutoff, IndInv, TypeOK, FlushState, FlushInv, Alive
    <2>3. manifest' = Append(manifest, CutoffRecord(FlushCutoff)) =>
            /\ ManifestTables(manifest') = ManifestTables(manifest)
            /\ ManifestCutoff(manifest') = IF FlushCutoff > ManifestCutoff(manifest)
                                           THEN FlushCutoff ELSE ManifestCutoff(manifest)
        BY <1>0, <2>2, EditCutoff
    <2>4. version' = SetWALCutoff(version, FlushCutoff) =>
            /\ version'.tables = version.tables
            /\ version'.cutoff = IF FlushCutoff > version.cutoff THEN FlushCutoff ELSE version.cutoff
        BY <1>0 DEF SetWALCutoff
    <2>5. MatchInv'
        BY <1>0, <2>1, <2>2, <2>3, <2>4 DEF MatchInv
    <2> QED BY <1>0, <2>1, <2>2, <2>3, <2>5
<1>4. CASE FlushCleanup
    <2>1. /\ UNCHANGED <<manifest, phase>> /\ version' = [version EXCEPT !.obsolete = {}]
          /\ FlushFailed => FlushFailed'
        BY <1>4 DEF FlushCleanup, CleanupObsoleteFiles, FlushFailed
    <2>2. version'.tables = version.tables /\ version'.cutoff = version.cutoff
        BY <1>0, <2>1
    <2> QED BY <1>0, <2>1, <2>2 DEF MatchInv, Alive, Replaying
<1>5. CASE CompactManifest
    <2>1. /\ ManifestTables(manifest') = version.tables /\ ManifestCutoff(manifest') = version.cutoff
          /\ UNCHANGED version /\ Alive
        BY <1>5, RewrittenIsVersion DEF CompactManifest, memory, Alive
    <2>2. version.cutoff \in Nat
        BY DEF IndInv, TypeOK, VersionOK
    <2> QED BY <1>0, <2>1, <2>2 DEF MatchInv
<1>6. CASE OpenNew
    <2>1. UNCHANGED <<manifest, version>> /\ manifest = <<>> /\ version = NewVersionSet
        BY <1>6 DEF OpenNew, disk, memory, IndInv, NewInv
    <2> QED BY <1>0, <2>1, EmptyManifest DEF MatchInv, NewVersionSet
<1>7. CASE RecoverStart
    <2>1. manifest' = manifest /\ version' = ReplayManifest(manifest)
        BY <1>7 DEF RecoverStart, disk
    <2> QED BY <1>0, <2>1 DEF MatchInv, ReplayManifest
<1>8. CASE PageCommit
    <2>1. /\ phase = "pagecommit" /\ (FlushFailed => FlushFailed')
          /\ version' = AddTable(version, PagedTable)
          /\ manifest' = Append(manifest, AddRecord(PagedTable))
        BY <1>8 DEF PageCommit, locks, FlushFailed
    <2>2. TableOK(PagedTable) /\ Alive
        BY <2>1, PagedIsMemtable
    <2>3. /\ ManifestCutoff(manifest') = ManifestCutoff(manifest)
          /\ ManifestTables(manifest') = ManifestTables(manifest) \cup {PagedTable}
        BY <1>0, <2>1, <2>2, EditAdd
    <2>4. /\ version'.tables = version.tables \cup {PagedTable}
          /\ version'.cutoff = version.cutoff
        BY <1>0, <2>1 DEF AddTable
    <2> QED BY <1>0, <2>1, <2>2, <2>3, <2>4 DEF MatchInv
<1>9. CASE PageBuildFails \/ PageCommitFails \/ OpenMissing \/ Stop
    <2>1. /\ phase' = "down"
          /\ \/ manifest' = manifest
             \/ phase = "pagecommit" /\ manifest' = Append(manifest, AddRecord(PagedTable))
        BY <1>9 DEF PageBuildFails, PageCommitFails, OpenMissing, Stop, Close, Crash, PowerLoss,
            TableLoss, ProcessEnds, ManifestAppendFails, Fault, NoTearing, disk
    <2>2. MatchInv'
        BY <2>1 DEF MatchInv, Alive, Replaying
    <2>3. ManifestCutoff(manifest') = ManifestCutoff(manifest)
        BY <1>0, <2>1, PagedIsMemtable, EditAdd
    <2> QED BY <1>0, <2>2, <2>3
<1> QED BY <1>1, <1>2, <1>3, <1>4, <1>5, <1>6, <1>7, <1>8, <1>9
        DEF Next, NoEditStep, Flush, Open, Recover

\* MatchInv needs no assumption about the fsyncs of the log.
LEMMA MatchHolds ==
    ASSUME NoTearing
    PROVE  Spec => [](IndInv /\ MatchInv)
<1>1. Init => IndInv /\ MatchInv
    BY InitEstablishes, InitReads DEF ReadInv
<1>2. IndInv /\ MatchInv /\ [Next]_vars => (IndInv /\ MatchInv)'
    BY NextPreserves, EditsMatch
<1> QED BY <1>1, <1>2, PTL DEF Spec

(***************************************************************************)
(* The WAL cutoff the MANIFEST records goes back only after a flush has    *)
(* failed, and never below the cutoff of the version, up to which segments *)
(* may have been deleted: no batch a truncation has deleted would have to  *)
(* be replayed.                                                            *)
(***************************************************************************)
THEOREM EngineCutoffMonotone ==
    ASSUME NoTearing
    PROVE  Spec => CutoffMonotone
<1>1. IndInv /\ MatchInv /\ [Next]_vars
        => [ManifestCutoff(manifest') < ManifestCutoff(manifest) =>
              FlushFailed /\ ManifestCutoff(manifest') >= version.cutoff]_vars
    BY EditsMatch
<1> QED BY <1>1, MatchHolds, PTL DEF Spec, CutoffMonotone

\* A file written under a number that no table of the MANIFEST has.
LEMMA OtherFilesKept ==
    ASSUME FilesOK(files), NEW num \in Nat, NEW S, files' = WriteFile(num, S),
           \A t \in ManifestTables(manifest) : t.num # num /\ t.num \in DOMAIN files
    PROVE  \A t \in ManifestTables(manifest) :
              t.num \in DOMAIN files' /\ files'[t.num] = files[t.num]
BY DEF WriteFile

\* No step touches the file of a table of the MANIFEST.
LEMMA TableFilesKept ==
    ASSUME NoTearing, IndInv, [Next]_vars
    PROVE  \A t \in ManifestTables(manifest) :
              t.num \in DOMAIN files' /\ files'[t.num] = files[t.num]
<1>0. /\ \A t \in ManifestTables(manifest) : t.num \in DOMAIN files
      /\ FilesOK(files) /\ version.obsolete = {}
      /\ nextFileNum \in Nat /\ fl.num \in Nat
    BY DEF IndInv, TypeOK, VersionInv, FlushState
<1>1. CASE FlushBuild \/ FlushBuildFails
    <2>1. fl.pc = "build" /\ \E S : files' = WriteFile(fl.num, S)
        BY <1>1 DEF FlushBuild, FlushBuildFails
    <2>2. \A t \in ManifestTables(manifest) : t.num # fl.num
        BY <2>1 DEF IndInv, FlushInv, VersionInv, Alive
    <2> QED BY <1>0, <2>1, <2>2, OtherFilesKept
<1>2. CASE PageBuild \/ PageBuildFails
    <2>1. phase = "page" /\ \E S : files' = WriteFile(nextFileNum, S)
        BY <1>2 DEF PageBuild, PageBuildFails
    <2> QED BY <1>0, <2>1, Paging, OtherFilesKept
<1>3. CASE FlushCleanup \/ Close \/ OpenMissing
    <2>1. files' = RemoveFiles(version.obsolete)
        BY <1>3 DEF FlushCleanup, CleanupObsoleteFiles, Close, OpenMissing
    <2>2. files' = files
        BY <1>0, <2>1, RemoveNothing
    <2> QED BY <1>0, <2>2
<1>4. CASE ~(FlushBuild \/ FlushBuildFails \/ PageBuild \/ PageBuildFails \/ FlushCleanup
             \/ Close \/ OpenMissing)
    <2>1. CASE Write
        BY <1>0, <2>1 DEF Write, WriteCheck, WriteAppend, WriteAppendFails, WriteAppendTorn,
            WriteSync, WriteSyncFails, WriteApply, disk
    <2>2. CASE Flush \/ CompactManifest
        BY <1>0, <1>4, <2>2 DEF Flush, FlushStart, FlushPick, FlushDrained, FlushManifestAdd,
            FlushManifestAddFails, FlushManifestCutoff, FlushManifestCutoffFails,
            FlushSetError, FlushTruncate, FlushRemoveSegment, FlushTruncated, SkipCompaction,
            CompactManifest, disk
    <2>3. CASE Open
        BY <1>0, <1>4, <2>3 DEF Open, Recover, OpenNew, RecoverStart, ReplayNextSegment,
            ReplaySkip, ReplayApply, PageCommit, PageCommitFails, ReplayDone, OpenDone, disk
    <2>4. CASE Stop
        BY <1>0, <1>4, <2>4 DEF Stop, Crash, PowerLoss, TableLoss, NoTearing, disk
    <2>5. CASE UNCHANGED vars
        BY <1>0, <2>5 DEF vars, disk
    <2> QED BY <2>1, <2>2, <2>3, <2>4, <2>5 DEF Next
<1> QED BY <1>1, <1>2, <1>3, <1>4

(***************************************************************************)
(* The file of a live table is never overwritten or removed, by a flush,   *)
(* by a recovery that hands out file numbers again, or by the clean-up.    *)
(***************************************************************************)
THEOREM EngineLiveFilesImmutable ==
    ASSUME NoTearing
    PROVE  Spec => LiveFilesImmutable
<1>1. IndInv /\ [Next]_vars
        => [\A t \in ManifestTables(manifest) \cap ManifestTables(manifest') :
              t.num \in DOMAIN files =>
                  t.num \in DOMAIN files' /\ files'[t.num] = files[t.num]]_vars
    BY TableFilesKept
<1> QED BY <1>1, EngineInvariantHolds, PTL DEF Spec, LiveFilesImmutable

-----------------------------------------------------------------------------
(* What a crash would leave, and what a reader sees.                       *)

\* What a restart rebuilds is all that is in tables and in the log.
LEMMA RecoverableIsOnDisk ==
    ASSUME IndInv, ReadInv
    PROVE  Recoverable = TableEntries \cup WalEntries
<1>0. wal \in Seq(Segment)
    BY DEF IndInv, TypeOK
<1>1. ASSUME NEW e \in ReplayableEntries PROVE e \in WalEntries
    BY <1>1, InLog DEF ReplayableEntries, WalEntries
<1>2. ASSUME NEW e \in WalEntries PROVE e \in TableEntries \cup ReplayableEntries
    <2>1. PICK i \in DOMAIN wal : \E j \in DOMAIN wal[i] : e \in wal[i][j].ents
        BY <1>2, InLog DEF WalEntries
    <2>2. PICK j \in DOMAIN wal[i] : e \in wal[i][j].ents
        BY <2>1
    <2>3. /\ wal[i][j].last \in Nat /\ ManifestCutoff(manifest) \in Nat
          /\ DOMAIN wal[i] = 1..Len(wal[i]) /\ Len(wal[i]) \in Nat
        BY <1>0, Segments, ManifestIsGood, GoodManifestFacts DEF LogRecord, IndInv
    <2>4. CASE wal[i][j].last <= ManifestCutoff(manifest)
        BY <2>2, <2>4 DEF ReadInv, CoverInv
    <2>5. CASE wal[i][j].last > ManifestCutoff(manifest)
        <3>1. \A k \in 1..j : k \in DOMAIN wal[i]
            BY <2>3
        <3>2. Readable(i, j)
            BY <3>1 DEF Readable, IndInv, WalInv
        <3> QED BY <2>2, <2>5, <3>2 DEF ReplayableEntries
    <2> QED BY <2>3, <2>4, <2>5
<1> QED BY <1>1, <1>2 DEF Recoverable

\* While the database is open and no call is in progress, what memory gives
\* access to is what a restart would rebuild.
LEMMA RecoverableIsLive ==
    ASSUME IndInv, ReadInv, phase = "up", wr.pc = "idle"
    PROVE  Recoverable = LiveEntries \cup MemEntries
<1>1. TableEntries \subseteq LiveEntries
    BY TablesNow, FileEntriesGrow DEF LiveEntries, IndInv, VersionInv, Alive
<1>2. Pending = {}
    BY DEF Pending
<1> QED BY <1>1, <1>2, RecoverableIsOnDisk DEF ReadInv, CoverInv

\* No entry in memory or in a live table has a number not yet handed out.
LEMMA LiveBelowNext ==
    ASSUME IndInv, ReadInv, Alive, NEW e \in LiveEntries \cup MemEntries
    PROVE  e.seq \in Nat /\ e.seq < nextSeq /\ e \in Entry(Keys)
<1>0. /\ FilesOK(files) /\ memtable \subseteq Entry(Keys) /\ nextSeq \in Nat
      /\ immutables \in Seq(SUBSET Entry(Keys)) /\ VersionOK(version)
    BY DEF IndInv, TypeOK
<1>1. CASE e \in memtable
    BY <1>0, <1>1 DEF IndInv, MemInv, Entry
<1>2. CASE e \in Frozen(immutables)
    <2>1. PICK i \in DOMAIN immutables : e \in immutables[i]
        BY <1>2, InSome
    <2>2. immutables[i] \subseteq Entry(Keys)
        BY <1>0, LenProperties, ElementOfSeq
    <2> QED BY <2>1, <2>2 DEF IndInv, MemInv, Entry
<1>3. CASE e \in LiveEntries
    <2>1. PICK t \in version.tables : e \in files[t.num]
        BY <1>3 DEF LiveEntries, FileEntries
    <2>2. t.num \in DOMAIN files /\ t.largestSeq < nextSeq /\ t.largestSeq \in Nat
        BY <1>0 DEF IndInv, VersionInv, VersionOK, TableOK
    <2>3. IsFiniteSet(files[t.num]) /\ files[t.num] \subseteq Entry(Keys)
        BY <1>0, <2>2 DEF ReadInv, FiniteInv, FilesOK
    <2>4. t.largestSeq = LargestSeq(files[t.num])
        BY DEF ReadInv, DescribedInv, TableMeta
    <2>5. e.seq <= t.largestSeq
        BY <2>1, <2>3, <2>4, LargestSeqOfFinite, KeysAssumption
    <2> QED BY <1>0, <2>1, <2>2, <2>3, <2>5 DEF Entry
<1> QED BY <1>1, <1>2, <1>3 DEF MemEntries

(***************************************************************************)
(* Whenever a caller may take db.mu, the number its batch will get is      *)
(* above every number in the directory: no two writes share one, however   *)
(* often the process was restarted and its recovery interrupted.           *)
(***************************************************************************)
THEOREM EngineSeqFresh ==
    ASSUME NoTearing, SyncsSucceed
    PROVE  Spec => []SeqFresh
<1>1. ASSUME IndInv, ReadInv PROVE SeqFresh
    <2>1. SUFFICES ASSUME phase = "up", mu = "free", NEW e \in Recoverable
                   PROVE  e.seq < nextSeq
        BY DEF SeqFresh
    <2>2. wr.pc = "idle" /\ Alive
        BY <1>1, <2>1 DEF IndInv, WriterInv, Alive
    <2> QED BY <1>1, <2>1, <2>2, RecoverableIsLive, LiveBelowNext
<1>2. IndInv /\ ReadInv => SeqFresh
    BY <1>1
<1> QED BY <1>2, EngineReadInvariantHolds, PTL

\* A live table that holds a version of a key is not skipped by its bounds.
LEMMA BoundsAdmit ==
    ASSUME IndInv, ReadInv, Alive, NEW t \in version.tables, NEW e \in files[t.num]
    PROVE  t.num \in DOMAIN files /\ MayHoldKey(t, e.key)
<1>1. t.num \in DOMAIN files /\ FilesOK(files)
    BY DEF IndInv, VersionInv, TypeOK
<1> DEFINE S == files[t.num]
<1>2. IsFiniteSet(S) /\ S \subseteq Entry(Keys) /\ S # {}
    BY <1>1 DEF ReadInv, FiniteInv, FilesOK
<1>3. t.smallest = First(S) /\ t.largest = Last(S)
    BY <1>2 DEF ReadInv, DescribedInv, TableMeta
<1> HIDE DEF S
<1>4. /\ First(S) \in S /\ \A f \in S \ {First(S)} : Before(First(S), f)
      /\ Last(S) \in S /\ \A f \in S \ {Last(S)} : Before(f, Last(S))
    BY <1>2, FirstAndLast, KeysAssumption
<1>5. \A f \in S : f.key \in Int
    <2>1. \A f \in S : f.key \in Keys
        BY <1>2 DEF Entry
    <2>2. \A x \in Keys : x \in Int
        BY KeysAssumption
    <2> QED BY <2>1, <2>2
<1>6. First(S).key <= e.key
    BY <1>4, <1>5 DEF Before, S
<1>7. e.key <= Last(S).key
    BY <1>4, <1>5 DEF Before, S
<1> QED BY <1>1, <1>3, <1>6, <1>7 DEF MayHoldKey

\* A Get merges every version of its key that is live.
LEMMA ReadSetOfKey ==
    ASSUME IndInv, ReadInv, phase = "up", NEW k, NEW e, e.key = k
    PROVE  e \in ReadSet(k) <=> e \in LiveEntries \cup MemEntries
<1>1. Alive
    BY DEF Alive
<1>2. ASSUME e \in LiveEntries PROVE e \in ReadSet(k)
    <2>1. PICK t \in version.tables : e \in files[t.num]
        BY <1>2 DEF LiveEntries, FileEntries
    <2>2. t.num \in DOMAIN files /\ MayHoldKey(t, k)
        BY <1>1, <2>1, BoundsAdmit
    <2> QED BY <2>1, <2>2 DEF ReadSet
<1>3. ASSUME e \in MemEntries PROVE e \in ReadSet(k)
    BY <1>3 DEF MemEntries, Frozen, ReadSet
<1>4. ASSUME e \in ReadSet(k) PROVE e \in LiveEntries \cup MemEntries
    BY <1>4 DEF ReadSet, MemEntries, Frozen, LiveEntries, FileEntries
<1> QED BY <1>2, <1>3, <1>4

(***************************************************************************)
(* Whenever a reader may take db.mu, a Get of any key at any snapshot      *)
(* answers what it would answer after a crash at this moment and a         *)
(* recovery.                                                               *)
(***************************************************************************)
THEOREM EngineReadsSurviveCrash ==
    ASSUME NoTearing, SyncsSucceed
    PROVE  Spec => []ReadsSurviveCrash
<1>1. ASSUME IndInv, ReadInv PROVE ReadsSurviveCrash
    <2>1. SUFFICES ASSUME phase = "up", mu = "free", NEW k \in Keys, NEW r \in 0..MaxSeq
                   PROVE  Lookup(ReadSet(k), k, r) = Lookup(Recoverable, k, r)
        BY DEF ReadsSurviveCrash
    <2>2. wr.pc = "idle"
        BY <1>1, <2>1 DEF IndInv, WriterInv
    <2>3. \A e : e.key = k => (e \in ReadSet(k) <=> e \in Recoverable)
        BY <1>1, <2>1, <2>2, RecoverableIsLive, ReadSetOfKey
    <2> QED BY <2>3, LookupOfKey
<1>2. IndInv /\ ReadInv => ReadsSurviveCrash
    BY <1>1
<1> QED BY <1>2, EngineReadInvariantHolds, PTL

=============================================================================
