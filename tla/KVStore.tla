------------------------------ MODULE KVStore ------------------------------
(***************************************************************************)
(* What the store promises its callers: a map from keys to values that     *)
(* changes only by whole batches, applied one after the other, whatever    *)
(* the engine does underneath (Invariants.md sections 1, 2, 6).            *)
(*                                                                         *)
(* The value a batch stores at its i-th position is the number next+i-1;   *)
(* the number 0 stands for an absent key.                                  *)
(***************************************************************************)
EXTENDS Integers, Sequences

CONSTANTS Keys, Batches, IsDelete(_)

VARIABLES kv, next

KVInit ==
    /\ kv = [k \in Keys |-> 0]
    /\ next = 1

\* The positions of a batch that write key k.
WritesOf(batch, k) == {i \in DOMAIN batch : batch[i].key = k}

\* Apply a batch: the last operation on a key decides.
Apply(batch) ==
    /\ next' = next + Len(batch)
    /\ kv' = [k \in Keys |->
                IF WritesOf(batch, k) = {} THEN kv[k]
                ELSE LET i == CHOOSE i \in WritesOf(batch, k) :
                                  \A j \in WritesOf(batch, k) : j <= i
                     IN  IF IsDelete(batch[i]) THEN 0 ELSE next + i - 1]

KVNext == \E batch \in Batches : Apply(batch)

KVSpec == KVInit /\ [][KVNext]_<<kv, next>>
============================================================================
