-------------------------- MODULE EngineRefinement --------------------------
(***************************************************************************)
(* The engine implements the abstract store: the abstract map is what a    *)
(* recovery from the present directory would give each key.                *)
(***************************************************************************)
EXTENDS Engine

RecordIsDelete(rec) == rec.typ = RecordTypeTombstone

Store == INSTANCE KVStore WITH
    Batches <- {op.batch : op \in Ops},
    IsDelete <- RecordIsDelete,
    kv <- [k \in Keys |-> Lookup(Recoverable, k, MaxSeq)],
    next <- LargestSeq(Recoverable) + 1

(***************************************************************************)
(* The durable contents change only when a whole batch is appended to the  *)
(* WAL, and then by exactly that batch: no flush, truncation, manifest     *)
(* edit or rewrite, paging, failed call, crash or recovery step adds,      *)
(* drops or splits a write.                                                *)
(***************************************************************************)
ImplementsKVStore == Store!KVSpec
=============================================================================
