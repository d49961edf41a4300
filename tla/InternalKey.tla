---------------------------- MODULE InternalKey ----------------------------
(***************************************************************************)
(* Internal keys and their order (internal/internal_key.go,                *)
(* internal/comparator.go), and what a read of a set of internal keys      *)
(* returns (engine/db.go, iterators/).                                     *)
(*                                                                         *)
(* A user key is a natural number: keys are only ever compared, and        *)
(* bytes.Compare is a total order on them.  The payload of a value is not  *)
(* represented: the write that stored it is identified by the sequence     *)
(* number of the internal key, so a read returns a sequence number.        *)
(***************************************************************************)
EXTENDS Integers, FiniteSets

RecordTypeValue == 1
RecordTypeTombstone == 2

RecordTypes == {RecordTypeValue, RecordTypeTombstone}

\* EncodeInternalKey: user key, sequence number and type in one key.
InternalKeyOf(userKey, seq, typ) == [key |-> userKey, seq |-> seq, typ |-> typ]

\* All the internal keys over a set of user keys.
Entry(UserKeys) == [key : UserKeys, seq : Nat, typ : RecordTypes]

\* Mutant: versions of a key in ascending order of sequence number.
BeforeOldestFirst(a, b) ==
    \/ a.key < b.key
    \/ a.key = b.key /\ a.seq < b.seq
    \/ a.key = b.key /\ a.seq = b.seq /\ a.typ < b.typ

(***************************************************************************)
(* Comparator.Compare(a, b) < 0: user keys ascending, then sequence        *)
(* numbers descending, then types ascending (a value before a tombstone).  *)
(***************************************************************************)
Before(a, b) ==
    \/ a.key < b.key
    \/ a.key = b.key /\ a.seq > b.seq
    \/ a.key = b.key /\ a.seq = b.seq /\ a.typ < b.typ

\* The first and the last key of a non-empty set in the order of Before.
First(S) == CHOOSE e \in S : \A f \in S \ {e} : Before(e, f)
Last(S) == CHOOSE e \in S : \A f \in S \ {e} : Before(f, e)

\* What a read returns when the key has no version, or a tombstone on top.
ErrNotFound == 0

\* What the version filter of a snapshot at readSeq lets through.
Visible(S, readSeq) == {e \in S : e.seq <= readSeq}

(***************************************************************************)
(* The result of merging every source with the version filter at readSeq   *)
(* and stopping at the first version of the user key: its sequence number, *)
(* or ErrNotFound for a tombstone or an absent key.                        *)
(***************************************************************************)
Lookup(S, userKey, readSeq) ==
    LET versions == {e \in Visible(S, readSeq) : e.key = userKey}
    IN  IF versions = {} \/ First(versions).typ = RecordTypeTombstone
        THEN ErrNotFound ELSE First(versions).seq

\* LargestSeq of a set of entries: 0 for the empty set.
LargestSeq(S) ==
    IF S = {} THEN 0
    ELSE CHOOSE n \in {e.seq : e \in S} : \A e \in S : e.seq <= n
============================================================================
