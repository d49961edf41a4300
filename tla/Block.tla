------------------------------- MODULE Block -------------------------------
(***************************************************************************)
(* The blocks of an SSTable (sstable/block.go): prefix-compressed entries  *)
(* with restart points, the builder that writes them and the iterator that *)
(* reads them.  A key is a sequence of bytes.  An offset in a block is the *)
(* number of an entry, from 1, and Len(entries) + 1 is where the restart   *)
(* points begin.                                                           *)
(***************************************************************************)
EXTENDS Integers, Sequences, SequencesExt, FiniteSetsExt

CONSTANT RestartInterval    \* restartInterval, 16 in the code

ASSUME RestartIntervalAssumption == RestartInterval \in Nat \ {0}

\* bytes.Compare(a, b) < 0.
Less(a, b) ==
    \/ IsStrictPrefix(a, b)
    \/ \E i \in DOMAIN a \cap DOMAIN b :
          a[i] < b[i] /\ \A j \in 1..(i - 1) : a[j] = b[j]

-----------------------------------------------------------------------------
(* BlockBuilder.  No lastUnsafeKey is the empty key, which shares nothing. *)

NewBlockBuilder == [entries |-> <<>>, restarts |-> <<1>>, counter |-> 0, last |-> <<>>]

SharedPrefix(a, b) ==
    Max({n \in 0..Len(a) : n <= Len(b) /\ SubSeq(a, 1, n) = SubSeq(b, 1, n)})

\* Mutant: the entry at a restart point still shares a prefix.
BlockAddShared(b, key, value) ==
    LET restart == b.counter >= RestartInterval
        shared == SharedPrefix(b.last, key)
    IN  [entries |-> Append(b.entries, [shared |-> shared,
                                        rest |-> SubSeq(key, shared + 1, Len(key)),
                                        value |-> value]),
         restarts |-> IF restart THEN Append(b.restarts, Len(b.entries) + 1) ELSE b.restarts,
         counter |-> IF restart THEN 1 ELSE b.counter + 1,
         last |-> key]

\* BlockBuilder.Add: what the key shares with the one before it is left out,
\* except at a restart point.
BlockAdd(b, key, value) ==
    LET restart == b.counter >= RestartInterval
        shared == IF restart THEN 0 ELSE SharedPrefix(b.last, key)
    IN  [entries |-> Append(b.entries, [shared |-> shared,
                                        rest |-> SubSeq(key, shared + 1, Len(key)),
                                        value |-> value]),
         restarts |-> IF restart THEN Append(b.restarts, Len(b.entries) + 1) ELSE b.restarts,
         counter |-> IF restart THEN 1 ELSE b.counter + 1,
         last |-> key]

\* BlockBuilder.CurrentSize, in entries.
CurrentSize(b) == Len(b.entries)

Finish(b) == [entries |-> b.entries, restarts |-> b.restarts]

-----------------------------------------------------------------------------
(* BlockIterator: next is nextOffset; it.offset is only ever read right    *)
(* after it was set from it.                                               *)

NewBlockIterator(block) ==
    [block |-> block, next |-> 1, key |-> <<>>, value |-> 0, valid |-> FALSE, err |-> FALSE]

BlockValid(it) == it.valid /\ ~it.err

\* ParseEntry fails when the iterator's key is shorter than what is shared.
ParseOk(it, offset) == it.block.entries[offset].shared <= Len(it.key)

ParseKey(it, offset) ==
    LET e == it.block.entries[offset] IN SubSeq(it.key, 1, e.shared) \o e.rest

ParseNext(it) ==
    IF it.next > Len(it.block.entries) THEN [it EXCEPT !.valid = FALSE]
    ELSE IF ~ParseOk(it, it.next) THEN [it EXCEPT !.valid = FALSE, !.err = TRUE]
    ELSE [it EXCEPT !.key = ParseKey(it, it.next),
                    !.value = it.block.entries[it.next].value,
                    !.next = @ + 1,
                    !.valid = TRUE]

\* Next and ParseNext both stop at the end of the entries.
BlockNext(it) == ParseNext(it)

\* SeekToRestartPoint, of an index below numRestarts: Seek and SeekToFirst
\* use no other.
SeekToRestartPoint(it, index) ==
    [it EXCEPT !.next = it.block.restarts[index], !.valid = FALSE]

BlockSeekToFirst(it) == ParseNext(SeekToRestartPoint(it, 1))

\* One round of Seek's binary search of the restart points.
SearchStep(it, target, s) ==
    LET mid == (s.left + s.right + 1) \div 2
        offset == it.block.restarts[mid]
    IN  IF s.left >= s.right \/ ~s.ok THEN s
        ELSE IF ~ParseOk(it, offset) THEN [s EXCEPT !.ok = FALSE]
        ELSE IF Less(ParseKey(it, offset), target) THEN [s EXCEPT !.left = mid]
        ELSE [s EXCEPT !.right = mid - 1]

\* The search: the last restart point whose key is before the target, or the
\* first one; 0 when an entry does not parse.  A round leaves fewer points, so
\* it is over after as many rounds as there are points.
RestartBefore(it, target) ==
    LET points == Len(it.block.restarts)
        search[n \in 0..points] ==
            IF n = 0 THEN [left |-> 1, right |-> points, ok |-> TRUE]
            ELSE SearchStep(it, target, search[n - 1])
    IN  IF search[points].ok THEN search[points].left ELSE 0

\* Seek's linear scan: on to the first entry not before the target.
ScanTo(it, target) ==
    LET left == Len(it.block.entries) - it.next + 1
        walk[n \in 0..left] == IF n = 0 THEN it ELSE ParseNext(walk[n - 1])
        stops == {n \in 1..left : ~BlockValid(walk[n]) \/ ~Less(walk[n].key, target)}
    IN  IF stops = {} THEN ParseNext(walk[left]) ELSE walk[Min(stops)]

BlockSeek(it, target) ==
    LET restart == RestartBefore(it, target)
    IN  IF restart = 0 THEN [it EXCEPT !.err = TRUE]
        ELSE ScanTo(SeekToRestartPoint(it, restart), target)
=============================================================================
