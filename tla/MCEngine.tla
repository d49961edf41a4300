------------------------------ MODULE MCEngine ------------------------------
(***************************************************************************)
(* Instances of Engine for TLC.                                            *)
(***************************************************************************)
EXTENDS EngineRefinement, EngineInvariant

Val(k) == [key |-> k, typ |-> RecordTypeValue]
Del(k) == [key |-> k, typ |-> RecordTypeTombstone]

\* A put, a delete, and a batch that overwrites one key and deletes another.
MCOps ==
    {[kind |-> "Put", batch |-> <<Val(1)>>],
     [kind |-> "Delete", batch |-> <<Del(1)>>],
     [kind |-> "Write", batch |-> <<Val(2), Del(1)>>]}

\* One put and one delete of the same key.
MCOpsPutDelete ==
    {[kind |-> "Put", batch |-> <<Val(1)>>],
     [kind |-> "Delete", batch |-> <<Del(1)>>]}
=============================================================================
