-------------------------- MODULE EngineInvariant --------------------------
(***************************************************************************)
(* The inductive invariant behind Durable: why no interleaving of writers, *)
(* flushes, crashes and interrupted recoveries loses an acknowledged       *)
(* write, provided no append is cut short and no table file is lost.       *)
(***************************************************************************)
EXTENDS Engine

\* No append is cut short and no table file is lost.
NoTearing == Faults \cap {"tornwal", "tornmanifest", "lostsst"} = {}

\* Open has read the MANIFEST and not yet returned; the database is open.
Replaying == phase \in {"replay", "page", "pagecommit"}
Alive == Replaying \/ phase \in {"open", "up"}

HasMax(S) == S = {} \/ \E n \in S : \A m \in S : m <= n

\* Nothing is torn, nothing is removed, and the numbers named have a maximum.
ManifestInv ==
    /\ \A i \in DOMAIN manifest : manifest[i].type \in {"add", "cutoff"}
    /\ HasMax(ManifestCutoffs(manifest))
    /\ HasMax({t.num : t \in ManifestTables(manifest)})
    /\ HasMax({t.largestSeq : t \in ManifestTables(manifest)})

\* The version is ahead of the MANIFEST in tables and behind it in cutoff,
\* and every number the MANIFEST or the version names has been handed out.
VersionInv ==
    /\ version.obsolete = {}
    /\ \A t \in ManifestTables(manifest) : t.num \in DOMAIN files
    /\ Alive =>
        /\ ManifestTables(manifest) \subseteq version.tables
        /\ \A t \in version.tables :
              t.num \in DOMAIN files /\ t.num < nextFileNum /\ t.largestSeq < nextSeq
        /\ version.cutoff <= ManifestCutoff(manifest)
        /\ ManifestCutoff(manifest) < nextSeq
    /\ Alive /\ phase # "up" => version.cutoff = ManifestCutoff(manifest)

\* The memtables hold consecutive generations of sequence numbers.
MemInv ==
    /\ phase # "up" => immutables = <<>>
    /\ ~Alive => memtable = {}
    /\ \A e \in memtable : e.seq < nextSeq
    /\ \A i \in DOMAIN immutables : \A e \in immutables[i] :
          /\ e.seq < nextSeq
          /\ \A f \in memtable : e.seq < f.seq
          /\ \A j \in DOMAIN immutables : i < j => \A f \in immutables[j] : e.seq < f.seq

WalInv ==
    /\ \A i \in DOMAIN wal : \A j \in DOMAIN wal[i] :
          wal[i][j].ok /\ \A e \in wal[i][j].ents : e.seq <= wal[i][j].last
    /\ IF wal = <<>> THEN dirty = 0 ELSE dirty <= Len(wal[Len(wal)])
    /\ phase = "up" => wal # <<>>

\* Who holds db.mu; the record of the call in progress ends the log.
WriterInv ==
    /\ mu = "writer" <=> wr.pc # "idle"
    /\ mu # "free" => phase = "up"
    /\ wr.pc = "appended" => SyncWrites
    /\ wr.pc # "idle" =>
        /\ wr.batch # <<>> /\ wal # <<>> /\ wal[Len(wal)] # <<>>
        /\ wal[Len(wal)][Len(wal[Len(wal)])] = WalRecord(wr.batch, nextSeq)
    /\ wr.pc = "synced" /\ SyncWrites => dirty = 0

\* The flush holds the oldest immutable, under a number nobody else uses.
FlushInv ==
    /\ mu = "flush" <=> fl.pc = "cutoff"
    /\ fl.pc # "idle" => phase = "up"
    /\ fl.pc \in {"build", "commit", "cutoff"} => immutables # <<>> /\ fl.num < nextFileNum
    /\ fl.pc \in {"build", "commit"} => \A t \in version.tables : t.num # fl.num
    /\ fl.pc \in {"commit", "cutoff"} =>
        /\ fl.num \in DOMAIN files /\ files[fl.num] = Head(immutables)
        /\ fl.seq = LargestSeq(Head(immutables))
    /\ fl.pc = "cutoff" => \E t \in ManifestTables(manifest) : t.num = fl.num
    /\ fl.pc \in {"truncate", "remove"} => fl.seq <= version.cutoff
    /\ fl.pc = "remove" =>
        fl.ndel < Len(wal) /\ \A i \in 1..fl.ndel : Truncatable(wal[i], fl.seq)

\* The entries of record (i, j) are in a table or in the recovered memtable,
\* or need not be.
Recovered(i, j) ==
    wal[i][j].last > ManifestCutoff(manifest) =>
        wal[i][j].ents \subseteq TableEntries \cup memtable

\* What Recover has passed it has recovered.
ReplayInv ==
    /\ Replaying =>
        /\ cursor[1] > 0 /\ cursor[2] > 0
        /\ \A i \in DOMAIN wal : \A j \in DOMAIN wal[i] :
              i < cursor[1] \/ (i = cursor[1] /\ j < cursor[2]) => Recovered(i, j)
    /\ phase = "pagecommit" =>
        nextFileNum \in DOMAIN files /\ files[nextFileNum] = memtable
    /\ phase = "open" => \A i \in DOMAIN wal : \A j \in DOMAIN wal[i] : Recovered(i, j)

\* A loss of power leaves record (i, j).
Stable(i, j) ==
    SyncWrites /\ i = Len(wal) => j + dirty <= Len(wal[i])

InWal(e) ==
    \E i \in DOMAIN wal : \E j \in DOMAIN wal[i] :
        /\ e \in wal[i][j].ents
        /\ wal[i][j].last > ManifestCutoff(manifest)
        /\ Stable(i, j)

\* An acknowledged write is safe on disk, and while the database is open it
\* is in a table of the MANIFEST or still in a memtable.
AckedInv ==
    /\ \A e \in acked : e \in TableEntries \/ InWal(e)
    /\ phase = "up" =>
        acked \subseteq TableEntries \cup memtable
                          \cup UNION {immutables[i] : i \in DOMAIN immutables}

\* Before the first Open there is nothing.
NewInv ==
    phase = "new" => wal = <<>> /\ manifest = <<>> /\ version = NewVersionSet /\ acked = {}

(***************************************************************************)
(* The inductive invariant: it holds in every reachable state and, unlike  *)
(* Durable alone, is preserved by every step.                              *)
(***************************************************************************)
IndInv ==
    /\ TypeOK /\ ManifestInv /\ VersionInv /\ MemInv /\ WalInv
    /\ WriterInv /\ FlushInv /\ ReplayInv /\ AckedInv /\ NewInv

-----------------------------------------------------------------------------
(* Why a read answers as it would after a crash, provided moreover that no *)
(* fsync of the log fails: a call that returns that error leaves a record  *)
(* in the log that no memtable holds.                                      *)

\* The log is only fsynced when SyncWrites is set.
SyncsSucceed == SyncWrites => "sync" \notin Faults

\* What is in a log, in a sequence of memtables and in the files of tables.
LogEntries(w) == UNION {UNION {w[i][j].ents : j \in DOMAIN w[i]} : i \in DOMAIN w}
Frozen(s) == UNION {s[i] : i \in DOMAIN s}
FileEntries(f, T) == UNION {f[t.num] : t \in T}

\* What is in the log, in the memtables and in the tables of the version.
WalEntries == LogEntries(wal)
MemEntries == memtable \cup Frozen(immutables)
LiveEntries == FileEntries(files, version.tables)

\* What the call in progress has appended and not yet inserted.
Pending == IF wr.pc = "idle" THEN {} ELSE EntriesOf(wr.batch, nextSeq)

\* Until a flush fails the version is what the MANIFEST says.
MatchInv ==
    Alive /\ ~FlushFailed =>
        /\ version.tables = ManifestTables(manifest)
        /\ version.cutoff = ManifestCutoff(manifest)

\* Memtables, tables and records are finite.
FiniteInv ==
    /\ IsFiniteSet(memtable)
    /\ \A i \in DOMAIN immutables : IsFiniteSet(immutables[i])
    /\ \A n \in DOMAIN files : IsFiniteSet(files[n])
    /\ \A i \in DOMAIN wal : \A j \in DOMAIN wal[i] : IsFiniteSet(wal[i][j].ents)

\* The metadata of a live table is that of the file of its number.
DescribedInv ==
    \A t \in version.tables \cup ManifestTables(manifest) :
        t = TableMeta(t.num, 0, files[t.num])

\* What the cutoff supersedes is in tables of the MANIFEST; memory holds only
\* what the directory holds, and, once the database is open, all of it but
\* the call in progress.
CoverInv ==
    /\ \A i \in DOMAIN wal : \A j \in DOMAIN wal[i] :
          wal[i][j].last <= ManifestCutoff(manifest) => wal[i][j].ents \subseteq TableEntries
    /\ MemEntries \subseteq TableEntries \cup WalEntries
    /\ LiveEntries \subseteq TableEntries \cup MemEntries
    /\ phase = "up" => WalEntries \subseteq TableEntries \cup MemEntries \cup Pending

(***************************************************************************)
(* The second inductive invariant, together with IndInv: it relates every  *)
(* place an entry can be in.                                               *)
(***************************************************************************)
ReadInv == MatchInv /\ FiniteInv /\ DescribedInv /\ CoverInv

-----------------------------------------------------------------------------
(* Why the next write continues the numbers in the directory: no recovery  *)
(* leaves a gap, so the abstract store's counter is the engine's.          *)

\* Some entry of S has the number n, or n is 0.
Attained(n, S) == n = 0 \/ \E e \in S : e.seq = n

\* The last number of a record is that of an entry of it.
RecordsAttained ==
    \A i \in DOMAIN wal : \A j \in DOMAIN wal[i] :
        \E e \in wal[i][j].ents : e.seq = wal[i][j].last

\* A cutoff is the number of an entry in a table of the MANIFEST.
CutoffsAttained ==
    /\ Attained(ManifestCutoff(manifest), TableEntries)
    /\ Attained(version.cutoff, TableEntries)

\* The number before the next one is that of an entry in the directory.
NextAttained == Attained(nextSeq - 1, TableEntries \cup WalEntries)

\* The third inductive invariant, together with IndInv and ReadInv.
NoGapInv == RecordsAttained /\ CutoffsAttained /\ NextAttained

-----------------------------------------------------------------------------
(* Why a loss of power takes the newest writes: what is in tables is older *)
(* than what is only in the log, and the log is in order.                  *)

\* Record (i, j) of the log comes before record (k, l).
Earlier(i, j, k, l) == i < k \/ (i = k /\ j < l)

\* The sequence numbers of a record are above those of the records before it.
LogOrdered(w) ==
    \A i, k \in DOMAIN w : \A j \in DOMAIN w[i], l \in DOMAIN w[k] :
        Earlier(i, j, k, l) =>
            \A e \in w[i][j].ents, f \in w[k][l].ents : e.seq < f.seq

\* What a table of the MANIFEST holds is older than what only the log holds.
TablesOlder == \A e \in TableEntries, f \in WalEntries \ TableEntries : e.seq < f.seq

\* A table of the version that the MANIFEST lacks, because its record failed,
\* is that of the oldest immutable memtable, which stays for the next flush.
UnrecordedIsOldest ==
    Alive => \A t \in version.tables :
                \/ files[t.num] \subseteq TableEntries
                \/ immutables # <<>> /\ files[t.num] = Head(immutables)

\* What Recover has in its memtable is from records it has passed.
ReplayedIsBehind ==
    Replaying => \A e \in memtable : \E i \in DOMAIN wal : \E j \in DOMAIN wal[i] :
                    Earlier(i, j, cursor[1], cursor[2]) /\ e \in wal[i][j].ents

\* The fourth inductive invariant, together with IndInv and ReadInv.
OrderInv == LogOrdered(wal) /\ TablesOlder /\ UnrecordedIsOldest /\ ReplayedIsBehind
=============================================================================
