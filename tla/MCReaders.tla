----------------------------- MODULE MCReaders -----------------------------
(***************************************************************************)
(* Instances of Readers for TLC.                                           *)
(***************************************************************************)
EXTENDS ReadersInvariant

Val(k) == [key |-> k, typ |-> RecordTypeValue]
Del(k) == [key |-> k, typ |-> RecordTypeTombstone]

\* A put, a delete, and a batch with a key on either side of the put.
MCBatches == {<<Val(2)>>, <<Del(1)>>, <<Val(1), Val(3)>>}

\* Everything, all but the last key, and a prefix that two keys have.
MCScans ==
    {[kind |-> "range", start |-> 0, end |-> 0, prefix |-> {}],
     [kind |-> "range", start |-> 2, end |-> 3, prefix |-> {}],
     [kind |-> "prefix", start |-> 0, end |-> 0, prefix |-> {1, 2}]}
=============================================================================
