------------------------ MODULE CompactionInvariant ------------------------
(***************************************************************************)
(* The inductive invariant of Compaction, part by part.  TypeInv and       *)
(* SeqInv hold always; the other parts as long as no commit was cut short. *)
(***************************************************************************)
EXTENDS Compaction

Tables == manifest.tables
Merging == co.pc \in {"start", "fill"}
Committing == co.pc \in {"remove", "add"}

\* The entries of some tables, in the given files.
FileEntries(f, T) == UNION {f[t.num] : t \in T}

\* The numbers in the metadata of a table.
MetaOK(t) == t.num \in Nat /\ t.largestSeq \in Nat /\ t.level \in 0..(NumLevels - 1)

VersionOK(v) ==
    /\ v = [tables |-> v.tables, obsolete |-> v.obsolete, cutoff |-> v.cutoff]
    /\ IsFiniteSet(v.tables) /\ v.cutoff \in Nat
    /\ \A t \in v.tables : MetaOK(t)

\* The fields of the goroutine's state.
CoOK(c) == c = [pc |-> c.pc, level |-> c.level, inputs |-> c.inputs, oldest |-> c.oldest,
                rest |-> c.rest, num |-> c.num, out |-> c.out, unread |-> c.unread]

\* The shape of the goroutine's state, and which steps it holds db.mu in.
TypeInv ==
    /\ TypeOK
    /\ IsFiniteSet(history)
    /\ files = [n \in DOMAIN files |-> files[n]]
    /\ VersionOK(version) /\ VersionOK(manifest)
    /\ CoOK(co)
    /\ co.num \in Nat /\ co.oldest \in Nat /\ co.rest \subseteq history
    /\ IsFiniteSet(co.out) /\ \A t \in co.out : MetaOK(t)
    /\ phase = "down" => co.pc = "idle" /\ snapshots = <<>>
    /\ Committing => co.out # {}
    /\ mu = "compact" => Committing /\ co.unread \subseteq unread
    /\ co.pc = "add" => mu = "compact"

\* The memtables hold the entries above the cutoff, the tables those up to it.
SeqInv ==
    /\ phase = "up" => /\ version.cutoff = manifest.cutoff /\ manifest.cutoff < nextSeq
                       /\ \A e \in mem : e.seq < nextSeq
    /\ \A e \in history : e \in mem <=> manifest.cutoff < e.seq
    /\ \A n \in DOMAIN files : \A e \in files[n] : e.seq <= manifest.cutoff
    /\ \A e \in co.rest : e.seq <= manifest.cutoff

\* A table in the file of its number.
Backed(t, level) == t.num \in DOMAIN files /\ t = TableMeta(t.num, level, files[t.num])

\* No number of an obsolete table is one that will be handed out again: a live
\* table, or one about to be added, has a larger one.
Outgrown(v) ==
    \A o \in v.obsolete :
        /\ o \in Nat
        /\ \A t \in Tables : t.num # o
        /\ \E t \in Tables \cup (IF mu = "compact" THEN co.out ELSE {}) : o < t.num

\* Tables, their files and their numbers.
FileInv ==
    /\ version.tables = IF phase = "up" THEN Tables ELSE {}
    /\ \A t \in Tables : Backed(t, t.level)
    /\ \A t, u \in Tables : t.num = u.num => t = u
    /\ phase = "up" => \A t \in Tables : t.num < nextFileNum
    /\ Outgrown(manifest) /\ Outgrown(version)

\* The number n is above those of the inputs and of the obsolete tables, and
\* no table has it.
Unused(n) ==
    /\ n < nextFileNum
    /\ \A t \in co.inputs : t.num < n
    /\ \A t \in Tables : t.num # n
    /\ \A o \in version.obsolete \cup manifest.obsolete : o < n

\* The inputs of a compaction, its outputs, and their numbers.
CompactInv ==
    /\ Merging \/ co.pc = "remove" => co.inputs \subseteq Tables /\ co.inputs # {}
    /\ co.pc = "add" => co.inputs = {}
    /\ co.pc = "fill" => Unused(co.num) /\ \A t \in co.out : t.num # co.num
    /\ Merging \/ Committing =>
          /\ \A t \in co.out : Unused(t.num) /\ Backed(t, TargetLevel)
          /\ \A t, u \in co.out : t.num = u.num => t = u

\* The entries of the inputs, of the outputs, and what is left to merge.
InputEntries == FileEntries(files, co.inputs)
OutEntries == FileEntries(files, co.out)
Merged == OutEntries \cup co.rest

\* What the merge dropped lies behind a tombstone that every snapshot sees, and
\* nothing it keeps lies behind that tombstone.
Collected(e) ==
    /\ BottomMost
    /\ \E t \in InputEntries :
          /\ Collectable(t) /\ t.key = e.key /\ (e = t \/ Before(t, e))
          /\ \A f \in Merged : f.key = t.key => Before(f, t)

\* A table of the two levels stays behind and shares a user key with the inputs.
LeftBehind ==
    \E t \in Tables \ co.inputs :
        /\ t.level \in {co.level, TargetLevel}
        /\ \E e \in files[t.num], f \in InputEntries : e.key = f.key

MergeState ==
    /\ \A t \in co.inputs : t.level \in {co.level, TargetLevel}
    /\ Merged \subseteq InputEntries
    /\ \A f \in OutEntries, g \in co.rest : Before(f, g)
    /\ \A e \in InputEntries \ Merged : e.key \in co.unread \/ Collected(e)
    /\ \A t \in InputEntries, r \in LiveSeqs : t.seq <= co.oldest => t.seq <= r
    /\ ~missed => ~LeftBehind

MergeInv == Merging => MergeState

\* The sequence numbers a read may happen at.
Live == IF phase = "up" THEN LiveSeqs ELSE {}

\* The entry e of the history h lies behind a tombstone that every reader sees;
\* and if ok, S holds nothing behind that tombstone.
Gone(e, S, h, live, ok) ==
    \E t \in h :
        /\ t.typ = RecordTypeTombstone /\ t.key = e.key /\ (e = t \/ Before(t, e))
        /\ \A r \in live : t.seq <= r
        /\ ok => \A g \in S : g.key = t.key => Before(g, t)

\* Every entry is in S or behind such a tombstone, the keys in lost aside.
Kept(S, h, live, ok, lost) ==
    \A e \in h \ S : e.key \in lost \/ Gone(e, S, h, live, ok)

\* The versions of a key get older from level to level.
Ordered(T, f) ==
    \A t, u \in T : t.level < u.level =>
        \A e \in f[t.num], g \in f[u.num] : e.key = g.key => g.seq < e.seq

\* The database would be sound if its tables were T and the keys in lost could
\* not all be read; deletes are kept and the levels ordered as long as no
\* compaction missed a table.
Sound(T, lost) ==
    /\ Kept(mem \cup FileEntries(files, T), history, Live, ~missed, lost)
    /\ ~missed => Ordered(T, files)

\* What the tables will be at the end of the commit.
Planned == (Tables \ co.inputs) \cup co.out

SoundInv ==
    /\ mu = "free" => Sound(Tables, unread)
    /\ Committing => Sound(Planned, unread \cup co.unread)

(***************************************************************************)
(* The inductive invariant.                                                *)
(***************************************************************************)
CompactionInv ==
    /\ TypeInv /\ SeqInv
    /\ ~cut => FileInv /\ CompactInv /\ MergeInv /\ SoundInv
=============================================================================
