----------------------------- MODULE VersionSet -----------------------------
(***************************************************************************)
(* The version set (engine/version_set.go): which SSTables are live, at    *)
(* which level, which file numbers are obsolete and up to which sequence   *)
(* number the WAL has been superseded; and its reconstruction from the     *)
(* MANIFEST (engine/manifest_replay.go, manifest/record.go).               *)
(*                                                                         *)
(* A version is a record [tables, obsolete, cutoff].  A level is the set   *)
(* of the tables that carry its number; the order of the slice the code    *)
(* keeps per level matters to no read and no edit.                         *)
(***************************************************************************)
EXTENDS InternalKey, Sequences
LOCAL INSTANCE FiniteSetsExt

NumLevels == 7

\* Bounds of a table without entries (nil slices in the code).
NoKey == [key |-> -1, seq |-> 0, typ |-> 0]

\* SSTableMeta of a file holding the entries S.  Sizes are in entries; index,
\* filter and footer, which a file without entries has too, count for one.
TableMeta(num, level, S) ==
    [num |-> num, level |-> level,
     smallest |-> IF S = {} THEN NoKey ELSE First(S),
     largest |-> IF S = {} THEN NoKey ELSE Last(S),
     largestSeq |-> LargestSeq(S),
     size |-> Cardinality(S) + 1]

NewVersionSet == [tables |-> {}, obsolete |-> {}, cutoff |-> 0]

AddTable(v, t) == [v EXCEPT !.tables = @ \cup {t}]

RemoveTable(v, num) ==
    [v EXCEPT !.tables = {t \in @ : t.num # num}, !.obsolete = @ \cup {num}]

SetWALCutoff(v, seq) ==
    [v EXCEPT !.cutoff = IF seq > @ THEN seq ELSE @]

Level(v, l) == {t \in v.tables : t.level = l}

FileNums(v) == {t.num : t \in v.tables}

\* Mutant: the bounds of a table are exclusive.
MayHoldKeyExclusive(t, userKey) ==
    t.smallest # NoKey => t.smallest.key < userKey /\ userKey < t.largest.key

(***************************************************************************)
(* GetWithOptions skips a table when the user key lies outside the user    *)
(* keys of its bounds; a table without bounds is never skipped.            *)
(***************************************************************************)
MayHoldKey(t, userKey) ==
    t.smallest # NoKey => t.smallest.key <= userKey /\ userKey <= t.largest.key

-----------------------------------------------------------------------------
(* The MANIFEST: a sequence of edits.  A torn record is one DecodeRecord   *)
(* rejects.                                                                *)

AddRecord(t) == [type |-> "add", table |-> t]
CutoffRecord(seq) == [type |-> "cutoff", seq |-> seq]
TornRecord == [type |-> "torn"]

\* ReplayManifest stops at the first record that does not decode.
Replayed(m) == {i \in DOMAIN m : \A j \in 1..i : m[j].type # "torn"}

(***************************************************************************)
(* The tables, the obsolete numbers and the cutoff after the edits         *)
(* Replayed(m) are applied in order: a table is live when no later edit    *)
(* removes its number, and the cutoff is the largest one recorded.         *)
(***************************************************************************)
ManifestTables(m) ==
    LET R == Replayed(m)
    IN  {m[i].table : i \in {n \in R :
            /\ m[n].type = "add"
            /\ \A j \in R :
                  j > n /\ m[j].type = "remove" => m[j].num # m[n].table.num}}

ManifestCutoffs(m) == {m[i].seq : i \in {n \in Replayed(m) : m[n].type = "cutoff"}}

ManifestCutoff(m) ==
    LET cutoffs == ManifestCutoffs(m)
    IN  IF cutoffs = {} THEN 0 ELSE CHOOSE s \in cutoffs : \A u \in cutoffs : u <= s

ManifestObsolete(m) == {m[i].num : i \in {n \in Replayed(m) : m[n].type = "remove"}}

\* Mutant: cutoff records are not replayed.
ReplayManifestNoCutoff(m) ==
    [tables |-> ManifestTables(m), obsolete |-> ManifestObsolete(m), cutoff |-> 0]

ReplayManifest(m) ==
    [tables |-> ManifestTables(m),
     obsolete |-> ManifestObsolete(m),
     cutoff |-> ManifestCutoff(m)]

-----------------------------------------------------------------------------
(* PickCompaction finds a level when one has reached its target: tables    *)
(* for L0, bytes below it.                                                 *)

LevelSize(v, l) ==
    IF l = 0 THEN Cardinality(Level(v, 0))
    ELSE MapThenSumSet(LAMBDA t : t.size, Level(v, l))

LevelTarget(l, l0Trigger, l1Max) ==
    IF l = 0 THEN l0Trigger ELSE l1Max * 2^(l - 1)

NeedsCompaction(v, l0Trigger, l1Max) ==
    \E l \in 0..(NumLevels - 2) : LevelSize(v, l) >= LevelTarget(l, l0Trigger, l1Max)

\* One level scores higher than another: size over target, in whole numbers.
ScoresAbove(v, l, m, l0Trigger, l1Max) ==
    LevelSize(v, l) * LevelTarget(m, l0Trigger, l1Max)
        > LevelSize(v, m) * LevelTarget(l, l0Trigger, l1Max)

\* PickCompaction returns l: the level with the highest score, the lowest one
\* on a tie.
PickCompaction(v, l, l0Trigger, l1Max) ==
    \A m \in 0..(NumLevels - 2) :
        IF m < l THEN ScoresAbove(v, l, m, l0Trigger, l1Max)
        ELSE ~ScoresAbove(v, m, l, l0Trigger, l1Max)

-----------------------------------------------------------------------------
(* Key ranges of tables, compared byte by byte.                            *)

(***************************************************************************)
(* bytes.Compare(a, b) < 0 on encoded internal keys: the user key, then    *)
(* the trailer uint64(seq << 8 | type) in little-endian order, that is the *)
(* type and then the bytes of the sequence number, the lowest first.  User *)
(* keys have one length here; SeqBytes bounds the sequence numbers.        *)
(***************************************************************************)
SeqBytes == 3
SeqByte(seq, i) == (seq \div 256^i) % 256

LittleEndianBefore(m, n) ==
    \E i \in 0..(SeqBytes - 1) :
        /\ SeqByte(m, i) < SeqByte(n, i)
        /\ \A j \in 0..(i - 1) : SeqByte(m, j) = SeqByte(n, j)

BytesBefore(a, b) ==
    \/ a.key < b.key
    \/ a.key = b.key /\ a.typ < b.typ
    \/ a.key = b.key /\ a.typ = b.typ /\ LittleEndianBefore(a.seq, b.seq)

\* Tables of a level that GetOverlappingInputs returns for the range of two
\* internal keys.  An absent bound (nil) is before every key.
GetOverlappingInputs(v, l, start, end) ==
    {t \in Level(v, l) :
        ~BytesBefore(t.largest, start) /\ ~BytesBefore(end, t.smallest)}

\* The table AddTable's sort puts first among tables of a level below L0: equal
\* bounds, of tables without entries, leave it to the sort.
SortedFirst(T) == {t \in T : \A u \in T : ~BytesBefore(u.smallest, t.smallest)}
=============================================================================
