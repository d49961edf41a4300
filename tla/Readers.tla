------------------------------ MODULE Readers ------------------------------
(***************************************************************************)
(* Reads beside writes: Get, snapshots and iterators (engine/db.go,        *)
(* engine/iterator.go, engine/scan_iterator.go, iterators/) over memtables *)
(* a writer is inserting into (memtable/).                                 *)
(*                                                                         *)
(* A reader takes db.mu only to collect its sources; from then on it moves *)
(* its cursors along the memtables without a lock, while the writer, under *)
(* db.mu, links the entries of a batch one by one.  Stores become visible  *)
(* in program order.                                                       *)
(*                                                                         *)
(* One call of MergeIterator.advance is one step.  The writer could fall   *)
(* between two moves of a cursor within it, but whatever it links there    *)
(* belongs in front of the versions of the key the cursor is moving over,  *)
(* or is above the snapshot the filter skips by: the step could as well    *)
(* have come before or after.                                              *)
(*                                                                         *)
(* A flush turns a frozen memtable into a table with the same entries      *)
(* under db.mu, and a reader keeps the file it opened: a source is a       *)
(* memtable, flushed or not.  Readers do not affect each other; there is   *)
(* one.                                                                    *)
(***************************************************************************)
EXTENDS Skiplist, Sequences

CONSTANTS
    Keys,           \* user keys
    Batches,        \* what writers write: sequences of [key, typ]
    Scans,          \* what readers scan: [kind, start, end, prefix]
    MemLimit,       \* Config.MemtableSizeLimit, in entries
    MaxSeq          \* bound on sequence numbers

ASSUME KeysAssumption == Keys \subseteq Nat
ASSUME BatchesAssumption == Batches \subseteq Seq([key : Keys, typ : RecordTypes]) \ {<<>>}
ASSUME ScansAssumption ==
    Scans \subseteq [kind : {"range", "prefix"}, start : Nat, end : Nat, prefix : SUBSET Keys]
ASSUME BoundsAssumption == MemLimit \in Nat \ {0} /\ MaxSeq \in Nat

VARIABLES
    mems,           \* memtables in order of creation, the last one active
    nextSeq,
    mu,             \* who holds db.mu: "free" or "writer"
    wr,             \* the writer
    snapshot,       \* the ReadSeq of the snapshot taken, or NoSnapshot
    rd              \* the reader; seen and touched are ghosts

vars == <<mems, nextSeq, mu, wr, snapshot, rd>>

NoSnapshot == -1

IdleWriter == [pc |-> "idle", batch |-> <<>>, done |-> 0, height |-> 0, level |-> 0,
               update |-> [i \in Levels |-> HeadNode]]

IdleReader == [pc |-> "idle", kind |-> "get", key |-> 0,
               scan |-> [kind |-> "range", start |-> 0, end |-> 0, prefix |-> {}],
               snap |-> NoSnapshot, src |-> [i \in {} |-> Nil], out |-> <<>>,
               seen |-> {}, touched |-> {}]

Init ==
    /\ mems = <<NewSkiplist>>
    /\ nextSeq = 1
    /\ mu = "free"
    /\ wr = IdleWriter
    /\ snapshot = NoSnapshot
    /\ rd = IdleReader

Active == mems[Len(mems)]

\* Everything a reader could find on level 0 now.
Linked == UNION {Nodes(mems[i]) : i \in DOMAIN mems}

\* What a Get of the key would return if it ran at once.
Current(S, k) == Lookup(S, k, MaxSeq)

-----------------------------------------------------------------------------
(* Put, Write and Delete: memtable.Insert of each entry of the batch.      *)

WriteBegin(batch) ==
    /\ mu = "free" /\ nextSeq + Len(batch) - 1 <= MaxSeq
    /\ mu' = "writer"
    /\ wr' = [IdleWriter EXCEPT !.pc = "find", !.batch = batch]
    /\ UNCHANGED <<mems, nextSeq, snapshot, rd>>

\* The entry being inserted.
Entry1 ==
    LET r == wr.batch[wr.done + 1]
    IN  InternalKeyOf(r.key, nextSeq + wr.done, r.typ)

\* Skiplist.Insert: the search, a random height, the new level of the list.
InsertFind(height) ==
    /\ wr.pc = "find"
    /\ wr' = [wr EXCEPT !.pc = "link", !.height = height, !.level = 0,
                        !.update = Update(Active, Entry1)]
    /\ mems' = [mems EXCEPT ![Len(mems)] = Raise(@, height)]
    /\ UNCHANGED <<nextSeq, mu, snapshot, rd>>

\* What the running read may take for current, and the keys written beside it.
Witness ==
    IF rd.pc = "idle" THEN rd
    ELSE [rd EXCEPT !.seen = IF rd.kind = "get" THEN @ \cup {Current(Linked', rd.key)} ELSE @,
                    !.touched = @ \cup {Entry1.key}]

\* Skiplist.Insert: one level is linked.
InsertLink ==
    /\ wr.pc = "link"
    /\ mems' = [mems EXCEPT ![Len(mems)] = Link(@, wr.level, Entry1, wr.update)]
    /\ rd' = IF wr.level = 0 THEN Witness ELSE rd
    /\ LET last == wr.level + 1 = wr.height
           done == IF last THEN wr.done + 1 ELSE wr.done
       IN  wr' = [wr EXCEPT !.level = @ + 1, !.done = done,
                            !.pc = IF ~last THEN "link"
                                   ELSE IF done = Len(wr.batch) THEN "end" ELSE "find"]
    /\ UNCHANGED <<nextSeq, mu, snapshot>>

\* A batch of one tombstone comes from Delete, or from Write.
MayBeDelete == Len(wr.batch) = 1 /\ wr.batch[1].typ = RecordTypeTombstone

\* Rotation of a full memtable by Put and Write, never by Delete; nextSeq;
\* db.mu.Unlock.
WriteEnd ==
    /\ wr.pc = "end"
    /\ LET full == Cardinality(Nodes(Active)) >= MemLimit
       IN  \/ full /\ mems' = Append(mems, NewSkiplist)
           \/ (~full \/ MayBeDelete) /\ mems' = mems
    /\ nextSeq' = nextSeq + Len(wr.batch)
    /\ mu' = "free"
    /\ wr' = IdleWriter
    /\ UNCHANGED <<snapshot, rd>>

-----------------------------------------------------------------------------
(* Snapshots, and the start of a read.                                     *)

\* ReadSeq of a new snapshot.
SnapshotSeq == nextSeq - 1

GetSnapshot ==
    /\ mu = "free" /\ snapshot = NoSnapshot
    /\ snapshot' = SnapshotSeq
    /\ UNCHANGED <<mems, nextSeq, mu, wr, rd>>

ReleaseSnapshot ==
    /\ mu = "free" /\ snapshot # NoSnapshot /\ rd.snap = NoSnapshot
    /\ snapshot' = NoSnapshot
    /\ UNCHANGED <<mems, nextSeq, mu, wr, rd>>

\* A read begins, under db.mu.RLock: every memtable is a source.
Begin(read) ==
    /\ mu = "free" /\ rd.pc = "idle"
    /\ rd' = read
    /\ UNCHANGED <<mems, nextSeq, mu, wr, snapshot>>

SnapChoice == {NoSnapshot, snapshot}

GetWithOptions(key, snap) ==
    Begin([IdleReader EXCEPT !.pc = "seek", !.kind = "get", !.key = key, !.snap = snap,
                             !.src = [i \in DOMAIN mems |-> Nil],
                             !.seen = {Current(Linked, key)}])

\* NewIterator, wrapped by NewRangeIterator or NewPrefixIterator.
NewIterator(scan, snap) ==
    Begin([IdleReader EXCEPT !.pc = "seek", !.kind = "scan", !.scan = scan, !.snap = snap,
                             !.src = [i \in DOMAIN mems |-> Nil]])

-----------------------------------------------------------------------------
(* The cursors: MemtableIterator, VersionFilterIterator, MergeIterator.    *)

Filtered == rd.snap # NoSnapshot

\* Mutant: the version filter lets nothing at the snapshot itself through.
VisibleBefore(e) == Filtered => e.seq < rd.snap

\* What the version filter lets through.
VisibleAt(e) == Filtered => e.seq <= rd.snap

(***************************************************************************)
(* A cursor on memtable i that looks from node n on: head is the key it    *)
(* shows, pos where its child iterator stands.  The version filter moves   *)
(* the child past what it shows.                                           *)
(***************************************************************************)
Fetch(i, n) ==
    LET at[m \in Nodes(mems[i]) \cup {Nil}] ==
            IF m = Nil \/ VisibleAt(m) THEN m ELSE at[NextNode(mems[i], m)]
        head == at[n]
    IN  [head |-> head, pos |-> IF Filtered THEN NextNode(mems[i], head) ELSE head]

\* Where a cursor goes on from.
After(i, c) == IF Filtered THEN c.pos ELSE NextNode(mems[i], c.head)

\* Mutant: only the version returned is skipped.
SkipKeyOnce(i, c, key) == IF c.head.key = key THEN Fetch(i, After(i, c)) ELSE c

\* Deduplicate: move a cursor past all versions of a user key.
SkipKey(i, c, key) ==
    LET past[n \in Nodes(mems[i]) \cup {Nil}] ==
            LET d == Fetch(i, n)
            IN  IF d.head.key = key THEN past[After(i, d)] ELSE d
    IN  IF c.head.key = key THEN past[After(i, c)] ELSE c

\* SeekToFirst puts every cursor on its first entry.
Cursors ==
    IF rd.pc = "seek" THEN [i \in DOMAIN rd.src |-> Fetch(i, FirstNode(mems[i]))] ELSE rd.src

\* Mutant: user keys alone are compared, the earlier source wins a tie.
BestUserKey ==
    LET shown == {i \in DOMAIN Cursors : Cursors[i].head # Nil}
    IN  IF shown = {} THEN Nil
        ELSE Cursors[CHOOSE i \in shown : \A j \in shown :
                         \/ Cursors[i].head.key < Cursors[j].head.key
                         \/ Cursors[i].head.key = Cursors[j].head.key /\ i <= j].head

\* advance: the smallest key any cursor shows.
Best ==
    LET heads == {Cursors[i].head : i \in DOMAIN Cursors} \ {Nil}
    IN  IF heads = {} THEN Nil ELSE First(heads)

\* scanIterator: end is exclusive, 0 stands for no end.
PastEnd(key) == rd.scan.kind = "range" /\ rd.scan.end > 0 /\ key >= rd.scan.end

\* Where scanIterator stops skipping.
InScan(key) ==
    IF rd.scan.kind = "prefix" THEN key \in rd.scan.prefix ELSE key >= rd.scan.start

\* A read has its answer when Best is e.
GetEnds(e) == rd.kind = "get" /\ (e = Nil \/ e.key >= rd.key)
ScanEnds(e) == rd.kind = "scan" /\ (e = Nil \/ (e.typ # RecordTypeTombstone /\ PastEnd(e.key)))

\* What a Get returns when it ends at e.
GetResult(e) ==
    IF e # Nil /\ e.key = rd.key /\ e.typ = RecordTypeValue THEN e.seq ELSE ErrNotFound

(***************************************************************************)
(* One advance of the merge and what the layers above make of it: Get      *)
(* stops at or behind its key; dbIterator passes over tombstones,          *)
(* scanIterator over what is out of range; the rest is returned.           *)
(***************************************************************************)
ReadAdvance ==
    LET e == Best
    IN  /\ rd.pc \in {"seek", "run"} /\ ~GetEnds(e) /\ ~ScanEnds(e)
        /\ rd' = [rd EXCEPT
                    !.pc = "run",
                    !.src = [i \in DOMAIN Cursors |-> SkipKey(i, Cursors[i], e.key)],
                    !.out = IF /\ rd.kind = "scan" /\ e.typ = RecordTypeValue
                               /\ InScan(e.key)
                            THEN Append(@, e) ELSE @]
        /\ UNCHANGED <<mems, nextSeq, mu, wr, snapshot>>

\* The answer: the result of a Get, or the end of the iteration.
ReadEnd ==
    LET e == Best
    IN  /\ rd.pc \in {"seek", "run"}
        /\ GetEnds(e) \/ ScanEnds(e)
        /\ rd' = [rd EXCEPT !.pc = "end", !.src = [i \in {} |-> Nil],
                            !.out = IF rd.kind = "get" THEN <<GetResult(e)>> ELSE @]
        /\ UNCHANGED <<mems, nextSeq, mu, wr, snapshot>>

\* The caller is done with it.
ReadClose ==
    /\ rd.pc = "end"
    /\ rd' = IdleReader
    /\ UNCHANGED <<mems, nextSeq, mu, wr, snapshot>>

-----------------------------------------------------------------------------
Write ==
    \/ \E batch \in Batches : WriteBegin(batch)
    \/ \E height \in 1..MaxLevel : InsertFind(height)
    \/ InsertLink \/ WriteEnd

Read ==
    \/ GetSnapshot \/ ReleaseSnapshot
    \/ \E key \in Keys, snap \in SnapChoice : GetWithOptions(key, snap)
    \/ \E scan \in Scans, snap \in SnapChoice : NewIterator(scan, snap)
    \/ ReadAdvance \/ ReadEnd \/ ReadClose

Next == Write \/ Read

Spec == Init /\ [][Next]_vars

-----------------------------------------------------------------------------
(* Properties.                                                             *)

Entries == [key : Keys, seq : Nat, typ : RecordTypes]

\* Every variable has its type.
TypeOK ==
    /\ nextSeq \in Nat \ {0} /\ mu \in {"free", "writer"}
    /\ snapshot \in Nat \cup {NoSnapshot}
    /\ Linked \subseteq Entries
    /\ wr.pc \in {"idle", "find", "link", "end"} /\ wr.update \in [Levels -> Entries \cup {HeadNode}]
    /\ rd.pc \in {"idle", "seek", "run", "end"} /\ DOMAIN rd.src \subseteq DOMAIN mems

(***************************************************************************)
(* At every step of an insertion, on every level, each memtable is a       *)
(* sorted list that a lock-free iterator can follow to its end.            *)
(***************************************************************************)
ListsSorted == \A i \in DOMAIN mems : Sorted(mems[i])

\* The keys a scan is asked for.
Wanted(k) ==
    IF rd.scan.kind = "prefix" THEN k \in rd.scan.prefix
    ELSE k >= rd.scan.start /\ (rd.scan.end > 0 => k < rd.scan.end)

\* The newest visible version of each key that is a value, in order of keys.
Expected(S, readSeq) ==
    LET live == {e \in S : e.seq = Lookup(S, e.key, readSeq) /\ Wanted(e.key)}
        keys == {e.key : e \in live}
    IN  [n \in 1..Cardinality(keys) |->
            CHOOSE e \in live : Cardinality({k \in keys : k < e.key}) = n - 1]

(***************************************************************************)
(* A scan at a snapshot returns, in order, exactly the values that were    *)
(* current when the snapshot was taken, whatever is written, rotated and   *)
(* linked under its cursors meanwhile; at each moment it has returned a    *)
(* prefix of them.                                                         *)
(***************************************************************************)
SnapshotScanExact ==
    rd.kind = "scan" /\ Filtered =>
        LET expected == Expected(Linked, rd.snap)
        IN  /\ Len(rd.out) <= Len(expected)
            /\ rd.out = SubSeq(expected, 1, Len(rd.out))
            /\ rd.pc = "end" => rd.out = expected

(***************************************************************************)
(* A Get returns a value that was the current one at some moment between   *)
(* its call and its return, and a Get at a snapshot the one current when   *)
(* the snapshot was taken.                                                 *)
(***************************************************************************)
GetLinearizable ==
    rd.kind = "get" /\ rd.pc = "end" =>
        IF Filtered THEN rd.out[1] = Lookup(Linked, rd.key, rd.snap)
        ELSE rd.out[1] \in rd.seen

(***************************************************************************)
(* A scan without a snapshot returns keys in strictly ascending order, and *)
(* of the keys nobody writes meanwhile it returns each exactly when it has *)
(* a value.                                                                *)
(***************************************************************************)
ScanComplete ==
    rd.kind = "scan" /\ ~Filtered =>
        /\ \A i, j \in DOMAIN rd.out : i < j => rd.out[i].key < rd.out[j].key
        /\ rd.pc = "end" =>
              \A k \in Keys \ rd.touched :
                  (\E i \in DOMAIN rd.out : rd.out[i].key = k)
                      <=> (Wanted(k) /\ Current(Linked, k) # ErrNotFound)
=============================================================================
