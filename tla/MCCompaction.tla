---------------------------- MODULE MCCompaction ----------------------------
(***************************************************************************)
(* Instances of Compaction for TLC.                                        *)
(***************************************************************************)
EXTENDS CompactionInvariant

Val(k) == [key |-> k, typ |-> RecordTypeValue]
Del(k) == [key |-> k, typ |-> RecordTypeTombstone]

\* One key is written and deleted, a second one only written.
MCOps == {Val(1), Del(1), Val(2)}

\* States that differ only in locals of CompactLevel that are not read again
\* are explored once: the number of the file being written matters while it
\* is, the oldest snapshot until the merge ends, the level until the commit
\* does.
MCView ==
    LET local == [co EXCEPT !.num = IF co.pc = "fill" THEN @ ELSE 0,
                            !.oldest = IF Merging THEN @ ELSE 0,
                            !.level = IF Merging \/ Committing THEN @ ELSE 0]
    IN  <<manifest, files, phase, memory, mem, snapshots, mu, local, ghosts, events>>
=============================================================================
