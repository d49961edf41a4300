-------------------------- MODULE SSTableInvariant --------------------------
(***************************************************************************)
(* The inductive invariant of SSTable: what the bytes of a table mean      *)
(* (Encodes, TableOK), where its iterators stand (ReaderOK) and which file *)
(* a number and a cached block belong to (FilesOK, CacheOK).               *)
(***************************************************************************)
EXTENDS SSTable

-----------------------------------------------------------------------------
(* Blocks.                                                                 *)

\* A block holds the entries es[from + 1] to es[to] (BlockBuilder.Add): what
\* an entry shares with the one before it, and the rest of its key, make its
\* key, and an entry at a restart point shares nothing.
Encodes(block, es, from, to) ==
    /\ Len(block.entries) = to - from
    /\ \A i \in 1..(to - from) :
          LET e == block.entries[i]
          IN  /\ e.shared \in Nat /\ e.rest \in Seq(Nat) /\ e.value = es[from + i].value
              /\ e.shared = 0 => e.rest = es[from + i].key
              /\ e.shared > 0 =>
                    /\ i > 1
                    /\ e.shared <= Len(es[from + i - 1].key)
                    /\ SubSeq(es[from + i - 1].key, 1, e.shared) \o e.rest = es[from + i].key
    /\ block.restarts \in Seq(Nat) /\ Len(block.restarts) > 0 /\ block.restarts[1] = 1
    /\ \A j \in 2..Len(block.restarts) :
          /\ block.restarts[j] \in 1..(to - from)
          /\ block.entries[block.restarts[j]].shared = 0

\* A block iterator has no error, and the key it holds is the one the next
\* entry was compressed against, unless that entry shares nothing.
BlockIterOK(b, es, from, to) ==
    /\ DOMAIN b = {"block", "next", "key", "value", "valid", "err"} /\ b.err = FALSE
    /\ Encodes(b.block, es, from, to)
    /\ b.key \in Seq(Nat) /\ b.valid \in BOOLEAN
    /\ b.next \in 1..(to - from + 1)
    /\ b.next <= to - from =>
          \/ b.block.entries[b.next].shared = 0
          \/ b.next > 1 /\ b.key = es[from + b.next - 1].key
    /\ b.valid => b.next > 1 /\ b.key = es[from + b.next - 1].key /\ b.value = es[from + b.next - 1].value

-----------------------------------------------------------------------------
(* Tables.                                                                 *)

DataBlocks(file) == file.footer.meta - 1

\* The index has, for each data block, its last key and its place.
IndexEntries(file, cut) ==
    [k \in 1..DataBlocks(file) |-> [key |-> file.source[cut[k]].key, value |-> k]]

Cuttings(file) == [0..DataBlocks(file) -> 0..Len(file.source)]

\* The builder cut the entries into the data blocks at these places.
CutAt(file, cut) ==
    /\ cut[0] = 0 /\ cut[DataBlocks(file)] = Len(file.source)
    /\ \A k \in 1..DataBlocks(file) :
          /\ cut[k - 1] < cut[k]
          /\ Encodes(file.blocks[k], file.source, cut[k - 1], cut[k])
    /\ Encodes(file.blocks[file.footer.index], IndexEntries(file, cut), 0, DataBlocks(file))

TableOK(file) ==
    /\ file.source \in Tables
    /\ file.footer.meta \in Nat \ {0}
    /\ file.footer.index = file.footer.meta + 1
    /\ DOMAIN file.blocks = 1..file.footer.index
    /\ \A i \in DOMAIN file.blocks : BlockBytes(file.blocks[i]) \in Nat
    /\ \A i \in DOMAIN file.source : KeyMayMatch(UserKey(file.source[i].key), file.filter)
    /\ \E cut \in Cuttings(file) : CutAt(file, cut)

\* Where a table was cut.
Cut(file) == CHOOSE cut \in Cuttings(file) : CutAt(file, cut)

-----------------------------------------------------------------------------
(* Iterators.                                                              *)

\* The data block the index is on.
OnBlock(it) == it.index.next - 1

IndexIterOK(it) ==
    BlockIterOK(it.index, IndexEntries(it.file, Cut(it.file)), 0, DataBlocks(it.file))

DataIterOK(it, k) == BlockIterOK(it.data[1], it.file.source, Cut(it.file)[k - 1], Cut(it.file)[k])

\* The first entry not before the target is in data block k.
TargetIn(it, k, p) ==
    /\ Cut(it.file)[k - 1] < p /\ p <= Cut(it.file)[k]
    /\ BytesSorted(it.file.source)
    /\ ~Less(it.file.source[p].key, it.target)
    /\ \A i \in 1..(p - 1) : Less(it.file.source[i].key, it.target)

\* An iterator without an error that has returned the entries before entry p
\* stands on it, has asked for its block, or is at the end of the table.
At(it, p) ==
    /\ it.pc = "ready" /\ it.valid =>
          /\ BlockValid(it.index)
          /\ it.data # <<>> /\ DataIterOK(it, OnBlock(it)) /\ it.data[1].valid
          /\ p = Cut(it.file)[OnBlock(it) - 1] + it.data[1].next - 1
    /\ it.pc = "ready" /\ ~it.valid => p = Len(it.file.source) + 1
    /\ it.pc # "ready" =>
          IF it.target = <<>> THEN p = Cut(it.file)[OnBlock(it) - 1] + 1
          ELSE it.out = <<>> /\ TargetIn(it, OnBlock(it), p)

\* What was returned, and what is to be returned, from entry s on.
ScanOK(it) ==
    \E s \in 1..(Len(it.file.source) + 1) : \E p \in s..(Len(it.file.source) + 1) :
        /\ it.expect = SubSeq(it.file.source, s, Len(it.file.source))
        /\ it.out = SubSeq(it.file.source, s, p - 1)
        /\ ~it.err => At(it, p)

\* An iterator that was not positioned yet.
NotPositioned(it) ==
    /\ it.data = <<>> /\ it.out = <<>> /\ it.expect = <<>>
    /\ ~it.valid /\ ~it.err /\ it.target = <<>>

\* What an open iterator is doing, and the block it has asked for.
Phase(it) ==
    \/ /\ it.use = "meta" /\ it.pc \in {"get", "read", "filter"}
       /\ it.want = it.file.footer.meta
    \/ /\ it.use = "index" /\ it.pc \in {"get", "read"}
       /\ it.want = it.file.footer.index
    \/ /\ it.use = "data" /\ it.pc \in {"get", "read"} /\ it.positioned
       /\ BlockValid(it.index) /\ it.want = it.index.value
    \/ it.use \in {"index", "data"} /\ it.pc = "ready" /\ it.target = <<>>

IndexLoaded(it) == it.use = "data" \/ it.pc = "ready"

IteratorOK(it) ==
    /\ DOMAIN it = {"pc", "path", "file", "filter", "use", "want", "target", "index", "data",
                    "valid", "err", "out", "expect", "positioned"}
    /\ TableOK(it.file)
    /\ Phase(it)
    /\ it.valid \in BOOLEAN /\ it.err \in BOOLEAN /\ it.positioned \in BOOLEAN
    /\ it.target \in Seq(Nat)
    /\ IF IndexLoaded(it) THEN IndexIterOK(it)
       ELSE it.index = NoIterator.index /\ ~it.positioned
    /\ it.data # <<>> => \E k \in 1..DataBlocks(it.file) : DataIterOK(it, k)
    /\ IF it.positioned THEN ScanOK(it) ELSE NotPositioned(it)

ReaderOK(it) == it = NoIterator \/ (it.pc # "none" /\ IteratorOK(it))

-----------------------------------------------------------------------------
(* Files and the cache.                                                    *)

\* A file number names one file until the next restart: the one in the
\* directory, the one an iterator has open.
FilesOK ==
    /\ built \in 0..MaxFiles /\ events \in 0..MaxEvents
    /\ nextFileNum \in 1..(built + 1)
    /\ DOMAIN files \subseteq 1..(nextFileNum - 1)
    /\ \A p \in DOMAIN files : TableOK(files[p])
    /\ \A r \in Readers : readers[r].pc # "none" =>
          /\ readers[r].path \in 1..(nextFileNum - 1)
          /\ readers[r].path \in DOMAIN files => readers[r].file = files[readers[r].path]
          /\ \A q \in Readers :
                readers[q].pc # "none" /\ readers[q].path = readers[r].path
                    => readers[q].file = readers[r].file

\* An element of the cache is a block of the file of that number.
BlockOf(element, path, file) ==
    element.key[1] = path =>
        element.key[2] \in DOMAIN file.blocks /\ element.value = file.blocks[element.key[2]]

\* The cache knows the sizes of its elements, has one for a key, and holds
\* blocks of the files above.
CacheOK ==
    /\ DOMAIN cache = {"capacity", "usage", "list"}
    /\ cache.capacity \in Nat
    /\ cache.list \in Seq([key : Nat \X Nat, value : {cache.list[i].value : i \in DOMAIN cache.list},
                           size : Nat])
    /\ cache.usage = SizeOf(cache.list) /\ cache.usage <= cache.capacity
    /\ \A i, j \in DOMAIN cache.list : cache.list[i].key = cache.list[j].key => i = j
    /\ \A i \in DOMAIN cache.list :
          /\ cache.list[i].key[1] < nextFileNum
          /\ \A p \in DOMAIN files : BlockOf(cache.list[i], p, files[p])
          /\ \A r \in Readers : readers[r].pc # "none" =>
                BlockOf(cache.list[i], readers[r].path, readers[r].file)

\* The inductive invariant.
SSTableInv ==
    /\ DOMAIN readers = Readers
    /\ \A r \in Readers : ReaderOK(readers[r])
    /\ FilesOK
    /\ CacheOK
=============================================================================
