----------------------------- MODULE MCSSTable -----------------------------
(***************************************************************************)
(* Instances of SSTable for TLC.                                           *)
(***************************************************************************)
EXTENDS SSTableInvariant

E(key, value) == [key |-> key, value |-> value]

\* A table of two data blocks, the second of one entry, with keys that share
\* prefixes of several lengths.
LongTable ==
    <<E(<<1, 1, 1>>, 1), E(<<1, 1, 2>>, 2), E(<<1, 2, 1>>, 3), E(<<1, 2, 2>>, 4),
      E(<<2, 2>>, 5)>>

\* Two versions of a key, in the order of internal keys and not of bytes.
VersionsTable == <<E(<<2, 2>>, 8), E(<<2, 1>>, 9)>>

MCTables == {LongTable, VersionsTable, <<>>}

\* A key before the second restart point of its block, one past it, and one
\* between the last key of a block and the first of the next.
MCTargets == {<<1, 1, 2>>, <<1, 2, 2>>, <<1, 3>>}

\* The readers are interchangeable.
ReaderSymmetry == Permutations(Readers)

\* Some hash of the user keys above.
HashTable == [key \in {<<1, 1>>, <<1, 2>>, <<2>>} |->
                 CASE key = <<1, 1>> -> 40503 [] key = <<1, 2>> -> 1021 [] OTHER -> 65399]

MCHash(key) == HashTable[key]
=============================================================================
