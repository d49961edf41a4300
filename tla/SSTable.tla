------------------------------ MODULE SSTable ------------------------------
(***************************************************************************)
(* SSTables and the block cache in front of them: the builder that writes  *)
(* a table (sstable/builder.go, filter.go), the readers that share the     *)
(* cache (sstable/reader.go, iterator.go) and the files they have open     *)
(* while cleanupObsoleteFiles removes them (engine/db.go).                 *)
(*                                                                         *)
(* A file is the sequence of its blocks, and the offset of a block is its  *)
(* place in it.  The compression of a block is undone by the read, and its *)
(* checksum makes a damaged block a block that cannot be read.  A table is *)
(* read only once it is complete, so building it is one step.  The keys    *)
(* are opaque bytes to the table: their last one stands for the trailer of *)
(* an internal key, which the filter leaves out.                           *)
(***************************************************************************)
EXTENDS Block, LRUCache

CONSTANTS
    Tables,         \* the sequences of [key, value] a table may be built from
    Targets,        \* the keys a caller may seek
    BlockSize,      \* blockSize, in entries
    Capacities,     \* sizes the cache may have, in entries and restart points
    Readers,        \* the iterators in use at a time
    Hash(_),        \* hash, a number of WordBits bits
    WordBits,       \* 32 in the code
    Faults,         \* {"read"} when reads of a file may fail
    MaxFiles,       \* bound on the files built
    MaxEvents       \* bound on failed reads and restarts

ASSUME SizesAssumption ==
    /\ BlockSize \in Nat \ {0} /\ Capacities \subseteq Nat /\ WordBits \in Nat \ {0}
    /\ MaxFiles \in Nat /\ MaxEvents \in Nat /\ Faults \subseteq {"read"}

\* A key is a sequence of bytes, a value is opaque.
ASSUME KeysAssumption ==
    /\ \A t \in Tables :
          t \in Seq([key : Seq(Nat), value : {t[i].value : i \in DOMAIN t}])
    /\ Targets \subseteq Seq(Nat)

VARIABLES
    files,          \* path -> the blocks, filter and footer of the file,
                    \* and, a ghost, the entries its builder was given
    built,          \* files built so far
    nextFileNum,
    cache,
    readers,        \* reader -> the table iterator it has open
    events

vars == <<files, built, nextFileNum, cache, readers, events>>

-----------------------------------------------------------------------------
(* The Bloom filter.                                                       *)

Word == 2^WordBits
RotateBy == WordBits \div 2 + 1     \* 17 of 32

\* delta: the hash rotated to the right.
Delta(h) == h \div 2^RotateBy + (h % 2^RotateBy) * 2^(WordBits - RotateBy)

\* The bits a key sets or tests in a filter of so many bits: k probes, each a
\* delta further on.
Probe(h, i) == (h + i * Delta(h)) % Word
Probes(key, bits) == {Probe(Hash(key), i) % bits : i \in 0..5}

\* 10 bits per key, at least 64 of them.
FilterBits(n) == Max({10 * n, 64})

CreateFilter(keys) ==
    LET bytes == (FilterBits(Len(keys)) + 7) \div 8
    IN  [bytes |-> bytes,
         set |-> UNION {Probes(keys[i], 8 * bytes) : i \in DOMAIN keys}]

\* Mutant: the byte with the number of probes counts as bits.
KeyMayMatchLastByte(key, filter) == Probes(key, 8 * (filter.bytes + 1)) \subseteq filter.set

KeyMayMatch(key, filter) == Probes(key, 8 * filter.bytes) \subseteq filter.set

UserKey(key) == SubSeq(key, 1, Len(key) - 1)

-----------------------------------------------------------------------------
(* Builder.                                                                *)

NewBuilder ==
    [blocks |-> <<>>, data |-> NewBlockBuilder, index |-> NewBlockBuilder,
     lastKey |-> <<>>, pending |-> FALSE]

\* Mutant: the separator is the first key of the next block.
FindShortestSeparatorNext(a, b) == b

FindShortestSeparator(a, b) == a

\* The index entry of the block flushed last, with its handle.
AddIndexEntry(b, key) ==
    IF b.pending
    THEN [b EXCEPT !.index = BlockAdd(@, key, Len(b.blocks)), !.pending = FALSE]
    ELSE b

FlushDataBlock(b) ==
    IF CurrentSize(b.data) = 0 THEN b
    ELSE [b EXCEPT !.blocks = Append(@, Finish(b.data)), !.data = NewBlockBuilder,
                   !.pending = TRUE]

BuilderAdd(b, e) ==
    LET i == AddIndexEntry(b, FindShortestSeparator(b.lastKey, e.key))
        d == [i EXCEPT !.data = BlockAdd(@, e.key, e.value), !.lastKey = e.key]
    IN  IF CurrentSize(d.data) >= BlockSize THEN FlushDataBlock(d) ELSE d

\* Close: the last data block and its index entry, the filter if there are
\* keys, the meta index, the index, and the footer with the handles of both.
BuilderClose(b, entries) ==
    LET f == FlushDataBlock(b)
        i == AddIndexEntry(f, f.lastKey)
        keys == [n \in DOMAIN entries |-> UserKey(entries[n].key)]
        meta == IF entries = <<>> THEN NewBlockBuilder
                ELSE BlockAdd(NewBlockBuilder, <<0>>, 0)
    IN  [blocks |-> i.blocks \o <<Finish(meta), Finish(i.index)>>,
         filter |-> CreateFilter(keys),
         footer |-> [meta |-> Len(i.blocks) + 1, index |-> Len(i.blocks) + 2],
         source |-> entries]

BuildTable(entries) ==
    LET after[n \in 0..Len(entries)] ==
            IF n = 0 THEN NewBuilder ELSE BuilderAdd(after[n - 1], entries[n])
    IN  BuilderClose(after[Len(entries)], entries)

-----------------------------------------------------------------------------
(* TableIterator, and the ReadBlock it is in.  pc is "none" (no iterator), *)
(* "ready" (no call under way), "get" (to look in the cache), "read" (to    *)
(* read the file) or "filter"; use says what the block is for.             *)

NoIterator ==
    [pc |-> "none", path |-> 0, file |-> BuildTable(<<>>), filter |-> FALSE,
     use |-> "none", want |-> 0, target |-> <<>>,
     index |-> NewBlockIterator(Finish(NewBlockBuilder)),
     data |-> <<>>, valid |-> FALSE, err |-> FALSE,
     out |-> <<>>, expect |-> <<>>, positioned |-> FALSE]

\* Mutant: Valid reports the data block only.
TableValidNoErr(it) == it.valid

TableValid(it) == it.valid /\ ~it.err

\* The entry under the iterator.
Current(it) == [key |-> it.data[1].key, value |-> it.data[1].value]

AskBlock(it, use, handle) == [it EXCEPT !.pc = "get", !.use = use, !.want = handle]

\* SeekToFirst when there is no target, Seek otherwise.
PositionBlock(b, target) == IF target = <<>> THEN BlockSeekToFirst(b) ELSE BlockSeek(b, target)

\* After loadDataBlock: data is <<>> for nil, or the one block iterator.  The
\* next block is read from its first entry.
PositionData(it) ==
    IF it.data = <<>> THEN [it EXCEPT !.pc = "ready", !.valid = FALSE, !.target = <<>>]
    ELSE LET b == PositionBlock(it.data[1], it.target)
         IN  [it EXCEPT !.pc = "ready", !.data = <<b>>, !.valid = BlockValid(b), !.target = <<>>]

LoadDataBlock(it) ==
    IF BlockValid(it.index) THEN AskBlock(it, "data", it.index.value)
    ELSE PositionData([it EXCEPT !.data = <<>>])

\* What follows a ReadBlock that returned a block: loadFilter, NewIterator,
\* loadDataBlock.  The filter is read next where the meta index names one.
Loaded(it, block) ==
    CASE it.use = "meta" ->
            IF CurrentSize(block) > 0 THEN [it EXCEPT !.pc = "filter"]
            ELSE AskBlock(it, "index", it.file.footer.index)
      [] it.use = "index" -> [it EXCEPT !.index = NewBlockIterator(block), !.pc = "ready"]
      [] it.use = "data" -> PositionData([it EXCEPT !.data = <<NewBlockIterator(block)>>])

\* What follows a ReadBlock that failed: a table without a filter is read all
\* the same, one without an index is not, and loadDataBlock keeps the error and
\* the block it had, which its callers position once more.
LoadFailed(it) ==
    CASE it.use = "meta" -> AskBlock(it, "index", it.file.footer.index)
      [] it.use = "index" -> NoIterator
      [] it.use = "data" -> PositionData([it EXCEPT !.err = TRUE])

MayContain(it, key) == it.filter => KeyMayMatch(key, it.file.filter)

CacheKey(path, offset) == <<path, offset>>

\* len(decoded).
BlockBytes(block) == Len(block.entries) + Len(block.restarts)

-----------------------------------------------------------------------------

Init ==
    /\ files = [p \in {} |-> {}]
    /\ built = 0 /\ nextFileNum = 1
    /\ cache \in {NewLRUCache(c) : c \in Capacities}
    /\ readers = [r \in Readers |-> NoIterator]
    /\ events = 0

Event ==
    /\ events < MaxEvents
    /\ events' = events + 1

\* A flush or a compaction writes a table under the next file number.
Build(entries) ==
    /\ built < MaxFiles
    /\ built' = built + 1
    /\ nextFileNum' = nextFileNum + 1
    /\ files' = [p \in DOMAIN files \cup {nextFileNum} |->
                    IF p = nextFileNum THEN BuildTable(entries) ELSE files[p]]
    /\ UNCHANGED <<cache, readers, events>>

\* cleanupObsoleteFiles unlinks the file of a table that left the version;
\* iterators that have it open keep reading it.
RemoveFile(p) ==
    /\ p \in DOMAIN files
    /\ files' = [q \in DOMAIN files \ {p} |-> files[q]]
    /\ UNCHANGED <<built, nextFileNum, cache, readers, events>>

\* Mutant: the cache outlives the process.
RestartSameCache ==
    /\ Event
    /\ readers' = [r \in Readers |-> NoIterator]
    /\ nextFileNum' = Max({0} \cup DOMAIN files) + 1
    /\ UNCHANGED <<files, built, cache>>

\* The database is closed or crashes, and is opened again: an empty cache, and
\* the file number after the largest of the version.
Restart ==
    /\ Event
    /\ readers' = [r \in Readers |-> NoIterator]
    /\ cache' = NewLRUCache(cache.capacity)
    /\ nextFileNum' = Max({0} \cup DOMAIN files) + 1
    /\ UNCHANGED <<files, built>>

\* NewReader opens the file and goes on to read its meta index.
NewIterator(r, p) ==
    /\ readers[r].pc = "none"
    /\ p \in DOMAIN files
    /\ readers' = [readers EXCEPT ![r] =
                    AskBlock([NoIterator EXCEPT !.path = p, !.file = files[p]],
                             "meta", files[p].footer.meta)]
    /\ UNCHANGED <<files, built, nextFileNum, cache, events>>

\* ReadBlock finds the block in the cache ...
CacheHit(r) ==
    LET it == readers[r]
        key == CacheKey(it.path, it.want)
    IN  /\ it.pc = "get"
        /\ key \in CachedKeys(cache)
        /\ cache' = Touch(cache, key)
        /\ readers' = [readers EXCEPT ![r] = Loaded(it, CachedValue(cache, key))]
        /\ UNCHANGED <<files, built, nextFileNum, events>>

\* ... or does not, and will read the file without the cache's mutex,
CacheMiss(r) ==
    /\ readers[r].pc = "get"
    /\ CacheKey(readers[r].path, readers[r].want) \notin CachedKeys(cache)
    /\ readers' = [readers EXCEPT ![r].pc = "read"]
    /\ UNCHANGED <<files, built, nextFileNum, cache, events>>

\* then put the block in the cache,
ReadFile(r) ==
    LET it == readers[r]
        block == it.file.blocks[it.want]
    IN  /\ it.pc = "read"
        /\ cache' = Put(cache, CacheKey(it.path, it.want), block, BlockBytes(block))
        /\ readers' = [readers EXCEPT ![r] = Loaded(it, block)]
        /\ UNCHANGED <<files, built, nextFileNum, events>>

\* or fail: an error of the read, or a checksum that does not match.
ReadFails(r) ==
    /\ readers[r].pc = "read"
    /\ "read" \in Faults /\ Event
    /\ readers' = [readers EXCEPT ![r] = LoadFailed(@)]
    /\ UNCHANGED <<files, built, nextFileNum, cache>>

\* loadFilter reads the filter from the file, or fails and leaves none.
ReadFilter(r) ==
    LET it == readers[r]
    IN  /\ it.pc = "filter"
        /\ \/ /\ readers' = [readers EXCEPT ![r] =
                        AskBlock([it EXCEPT !.filter = TRUE], "index", it.file.footer.index)]
              /\ UNCHANGED events
           \/ /\ "read" \in Faults /\ Event
              /\ readers' = [readers EXCEPT ![r] = AskBlock(it, "index", it.file.footer.index)]
        /\ UNCHANGED <<files, built, nextFileNum, cache>>

\* The entries from a target on, or all of them.
From(entries, target) ==
    LET ahead == {i \in DOMAIN entries : target = <<>> \/ ~Less(entries[i].key, target)}
    IN  IF ahead = {} THEN <<>> ELSE SubSeq(entries, Min(ahead), Len(entries))

BytesSorted(entries) == \A i \in 1..(Len(entries) - 1) : Less(entries[i].key, entries[i + 1].key)

\* TableIterator.SeekToFirst and Seek, at any time: Seek is for tables whose
\* keys are in byte order.
Seek(r, target) ==
    LET it == readers[r]
        entries == From(it.file.source, target)
    IN  /\ it.pc = "ready"
        /\ target # <<>> => BytesSorted(it.file.source)
        /\ readers' = [readers EXCEPT ![r] =
                LoadDataBlock([it EXCEPT !.index = PositionBlock(@, target), !.target = target,
                                         !.out = <<>>, !.expect = entries, !.positioned = TRUE])]
        /\ UNCHANGED <<files, built, nextFileNum, cache, events>>

\* The caller takes the entry under the iterator and moves it on: within the
\* block, or to the first entry of the next one.
Advance(r) ==
    LET it == readers[r]
        b == BlockNext(it.data[1])
        moved == [it EXCEPT !.data = <<b>>, !.out = Append(@, Current(it))]
    IN  /\ it.pc = "ready" /\ TableValid(it)
        /\ readers' = [readers EXCEPT ![r] =
                IF BlockValid(b) THEN [moved EXCEPT !.valid = TRUE]
                ELSE LoadDataBlock([moved EXCEPT !.index = BlockNext(@)])]
        /\ UNCHANGED <<files, built, nextFileNum, cache, events>>

Close(r) ==
    /\ readers[r].pc = "ready"
    /\ readers' = [readers EXCEPT ![r] = NoIterator]
    /\ UNCHANGED <<files, built, nextFileNum, cache, events>>

Next ==
    \/ \E entries \in Tables : Build(entries)
    \/ \E p \in DOMAIN files : RemoveFile(p)
    \/ Restart
    \/ \E r \in Readers :
          \/ \E p \in DOMAIN files : NewIterator(r, p)
          \/ CacheHit(r) \/ CacheMiss(r)
          \/ ReadFile(r) \/ ReadFails(r) \/ ReadFilter(r)
          \/ \E target \in Targets \cup {<<>>} : Seek(r, target)
          \/ Advance(r) \/ Close(r)

Spec == Init /\ [][Next]_vars

-----------------------------------------------------------------------------
(* Properties.                                                             *)

\* Types: a block iterator never stops on an entry that does not parse, which
\* would end a block early without an error of the table; an index entry leads
\* to a data block.
TypeOK ==
    /\ built \in 0..MaxFiles /\ events \in 0..MaxEvents
    /\ nextFileNum \in 1..(MaxFiles + 1)
    /\ DOMAIN files \subseteq 1..MaxFiles
    /\ \A r \in Readers :
          LET it == readers[r]
          IN  /\ it.pc \in {"none", "ready", "get", "read", "filter"}
              /\ it.pc = "none" <=> it = NoIterator
              /\ it.pc \in {"get", "read"} /\ it.use = "data" => it.want < it.file.footer.meta
              /\ ~it.index.err /\ (it.data = <<>> \/ ~it.data[1].err)

\* The cache (Put, evict) is within its capacity, has an element per key and
\* knows its usage, also when two readers missed on the same block and both put
\* it, and when a block is larger than the cache.
CacheBounded ==
    /\ cache.usage = SizeOf(cache.list)
    /\ cache.usage <= cache.capacity
    /\ Cardinality(CachedKeys(cache)) = Len(cache.list)

\* A cached block (ReadBlock) is the block at that place of the file with that
\* path, though files are removed and their numbers are used again after a
\* restart.
CacheCoherent ==
    \A p \in DOMAIN files : \A i \in DOMAIN cache.list :
        LET key == cache.list[i].key
        IN  key[1] = p => /\ key[2] \in DOMAIN files[p].blocks
                          /\ cache.list[i].value = files[p].blocks[key[2]]

\* An iterator (SeekToFirst, Seek, Next) returns entries of its table in their
\* order, from its target on and without a gap, also past a failed read, after
\* which loadDataBlock keeps the old block and its callers position it again.
ScanPrefix ==
    \A r \in Readers :
        LET it == readers[r]
        IN  IsPrefix(IF it.pc = "ready" /\ TableValid(it) THEN Append(it.out, Current(it)) ELSE it.out,
                     it.expect)

\* An iterator that came to its end without an error has returned every entry
\* from its target on: no block boundary, restart point, cached block or
\* removed file hides one.
ScanExact ==
    \A r \in Readers :
        LET it == readers[r]
        IN  it.pc = "ready" /\ it.positioned /\ ~TableValid(it) /\ ~it.err
                => it.out = it.expect

\* MayContain is true of every key of the table: the filter that was read, or
\* the lack of one, has no false negative.
FilterComplete ==
    \A r \in Readers :
        LET it == readers[r]
        IN  it.pc = "ready" =>
                \A i \in DOMAIN it.file.source : MayContain(it, UserKey(it.file.source[i].key))
=============================================================================
