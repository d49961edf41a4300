---------------------------- MODULE EngineProofs ----------------------------
(***************************************************************************)
(* Proofs about Engine for every value of its constants: IndInv, the       *)
(* invariant of EngineInvariant, is established by Init and preserved by   *)
(* every action (one lemma XPreserves per action X); the type of the state *)
(* and the durability of acknowledged writes follow.                       *)
(*                                                                         *)
(* The assumption throughout is NoTearing: no append is cut short and no   *)
(* table file is lost.  Without it Durable does not hold (the runs         *)
(* engine_torn_wal and engine_lost_table).                                 *)
(***************************************************************************)
EXTENDS EngineInvariant, KeyLemmas

-----------------------------------------------------------------------------
(* The pieces of the state: what an edit does to what the MANIFEST says,   *)
(* and what an append does to the log.                                     *)

\* MaxOrZero is the largest number of a bounded set, and 0 of the empty one.
LEMMA MaxOrZeroMax ==
    ASSUME NEW S, S \subseteq Nat, NEW B \in Nat, \A n \in S : n <= B
    PROVE  /\ MaxOrZero(S) \in Nat
           /\ \A n \in S : n <= MaxOrZero(S)
<1>1. CASE S = {}
    BY <1>1 DEF MaxOrZero
<1>2. CASE S # {}
    <2>1. \E n \in S : \A m \in S : m <= n
        BY <1>2, MaxExists
    <2> QED BY <1>2, <2>1 DEF MaxOrZero
<1> QED BY <1>1, <1>2

-----------------------------------------------------------------------------
(* The MANIFEST as a sequence of edits.                                    *)

\* A sequence in the sense of IsSequence is indexed from 1 to its length.
LEMMA SequenceDomain ==
    ASSUME NEW m, IsSequence(m)
    PROVE  Len(m) \in Nat /\ DOMAIN m = 1..Len(m)
BY LenProperties DEF IsSequence

\* The elements of a MANIFEST after one more record.
LEMMA AppendElements ==
    ASSUME NEW m, IsSequence(m), NEW r
    PROVE  /\ IsSequence(Append(m, r))
           /\ Len(Append(m, r)) = Len(m) + 1
           /\ DOMAIN Append(m, r) = 1..(Len(m) + 1)
           /\ \A i \in 1..Len(m) : Append(m, r)[i] = m[i]
           /\ Append(m, r)[Len(m) + 1] = r
<1> DEFINE S == {m[i] : i \in DOMAIN m} \cup {r}
           n == Append(m, r)
<1>1. m \in Seq(S) /\ r \in S
    <2>1. m \in Seq({m[i] : i \in DOMAIN m})
        BY DEF IsSequence
    <2>2. DOMAIN m = 1..Len(m) /\ Len(m) \in Nat /\ m = [i \in 1..Len(m) |-> m[i]]
        BY <2>1, LenProperties
    <2>3. \A i \in 1..Len(m) : m[i] \in S
        BY <2>2
    <2> QED BY <2>2, <2>3
<1>2. /\ n \in Seq(S)
      /\ Len(n) = Len(m) + 1
      /\ \A i \in 1..Len(m) : n[i] = m[i]
      /\ n[Len(m) + 1] = r
    BY <1>1, AppendProperties
<1>3. Len(n) \in Nat /\ DOMAIN n = 1..Len(n) /\ n = [i \in 1..Len(n) |-> n[i]]
    BY <1>2, LenProperties
<1> HIDE DEF n
<1>4. n \in Seq({n[i] : i \in DOMAIN n})
    <2> DEFINE R == {n[i] : i \in DOMAIN n}
    <2>1. \A i \in 1..Len(n) : n[i] \in R
        BY <1>3
    <2> HIDE DEF R
    <2>2. n \in [1..Len(n) -> R]
        BY <1>3, <2>1
    <2>3. n \in Seq(R)
        BY <1>3, <2>2
    <2> QED BY <2>3 DEF R
<1> QED BY <1>2, <1>3, <1>4 DEF IsSequence, n

\* Without torn records and removals every edit counts.
LEMMA ReplayOfIntact ==
    ASSUME NEW m, IsSequence(m), \A i \in DOMAIN m : m[i].type \in {"add", "cutoff"}
    PROVE  /\ ManifestTables(m) = {m[i].table : i \in {n \in DOMAIN m : m[n].type = "add"}}
           /\ ManifestCutoffs(m) = {m[i].seq : i \in {n \in DOMAIN m : m[n].type = "cutoff"}}
           /\ ManifestObsolete(m) = {}
<1>0. Len(m) \in Nat /\ DOMAIN m = 1..Len(m)
    BY SequenceDomain
<1>1. Replayed(m) = DOMAIN m
    <2>1. ASSUME NEW i \in DOMAIN m, NEW j \in 1..i PROVE m[j].type # "torn"
        <3>1. j \in DOMAIN m
            BY <1>0
        <3> QED BY <3>1
    <2> QED BY <2>1 DEF Replayed
<1>2. \A i \in DOMAIN m : m[i].type # "remove"
    OBVIOUS
<1> QED BY <1>1, <1>2 DEF ManifestTables, ManifestCutoffs, ManifestObsolete

\* What an Add record changes.
LEMMA AppendAdd ==
    ASSUME NEW m, IsSequence(m), \A i \in DOMAIN m : m[i].type \in {"add", "cutoff"}, NEW t
    PROVE  LET n == Append(m, AddRecord(t))
           IN  /\ IsSequence(n)
               /\ \A i \in DOMAIN n : n[i] = AddRecord(t) \/ \E j \in DOMAIN m : n[i] = m[j]
               /\ \A i \in DOMAIN n : n[i].type \in {"add", "cutoff"}
               /\ ManifestTables(n) = ManifestTables(m) \cup {t}
               /\ ManifestCutoffs(n) = ManifestCutoffs(m)
<1> DEFINE n == Append(m, AddRecord(t))
<1>1. Len(m) \in Nat /\ DOMAIN m = 1..Len(m)
    BY SequenceDomain
<1>2. /\ IsSequence(n)
      /\ DOMAIN n = 1..(Len(m) + 1)
      /\ \A i \in DOMAIN m : n[i] = m[i]
      /\ n[Len(m) + 1] = AddRecord(t)
    BY AppendElements, <1>1
<1>3. DOMAIN n = DOMAIN m \cup {Len(m) + 1}
    BY <1>1, <1>2
<1>4. AddRecord(t).type = "add" /\ AddRecord(t).table = t
    BY DEF AddRecord
<1>5. \A i \in DOMAIN n : n[i].type \in {"add", "cutoff"}
    BY <1>2, <1>3, <1>4
<1> HIDE DEF n
<1>6. ManifestTables(n) = ManifestTables(m) \cup {t}
    <2>1. ManifestTables(n) = {n[i].table : i \in {k \in DOMAIN n : n[k].type = "add"}}
        BY <1>2, <1>5, ReplayOfIntact
    <2>2. ManifestTables(m) = {m[i].table : i \in {k \in DOMAIN m : m[k].type = "add"}}
        BY ReplayOfIntact
    <2>4. ASSUME NEW x \in ManifestTables(n) PROVE x \in ManifestTables(m) \cup {t}
        <3>1. PICK i \in DOMAIN n : n[i].type = "add" /\ x = n[i].table
            BY <2>1
        <3>2. CASE i \in DOMAIN m
            BY <3>1, <3>2, <2>2, <1>2
        <3>3. CASE i = Len(m) + 1
            BY <3>1, <3>3, <1>2, <1>4
        <3> QED BY <3>2, <3>3, <1>3
    <2>5. ASSUME NEW x \in ManifestTables(m) PROVE x \in ManifestTables(n)
        <3>1. PICK i \in DOMAIN m : m[i].type = "add" /\ x = m[i].table
            BY <2>2
        <3>2. i \in DOMAIN n /\ n[i] = m[i]
            BY <1>2, <1>3
        <3> QED BY <3>1, <3>2, <2>1
    <2>6. t \in ManifestTables(n)
        BY <2>1, <1>2, <1>3, <1>4
    <2> QED BY <2>4, <2>5, <2>6
<1>7. ManifestCutoffs(n) = ManifestCutoffs(m)
    <2>1. ManifestCutoffs(n) = {n[i].seq : i \in {k \in DOMAIN n : n[k].type = "cutoff"}}
        BY <1>2, <1>5, ReplayOfIntact
    <2>2. ManifestCutoffs(m) = {m[i].seq : i \in {k \in DOMAIN m : m[k].type = "cutoff"}}
        BY ReplayOfIntact
    <2>4. ASSUME NEW x \in ManifestCutoffs(n) PROVE x \in ManifestCutoffs(m)
        <3>1. PICK i \in DOMAIN n : n[i].type = "cutoff" /\ x = n[i].seq
            BY <2>1
        <3>2. CASE i \in DOMAIN m
            BY <3>1, <3>2, <2>2, <1>2
        <3>3. CASE i = Len(m) + 1
            BY <3>1, <3>3, <1>2, <1>4
        <3> QED BY <3>2, <3>3, <1>3
    <2>5. ASSUME NEW x \in ManifestCutoffs(m) PROVE x \in ManifestCutoffs(n)
        <3>1. PICK i \in DOMAIN m : m[i].type = "cutoff" /\ x = m[i].seq
            BY <2>2
        <3>2. i \in DOMAIN n /\ n[i] = m[i]
            BY <1>2, <1>3
        <3> QED BY <3>1, <3>2, <2>1
    <2> QED BY <2>4, <2>5
<1> QED BY <1>2, <1>3, <1>5, <1>6, <1>7 DEF n

\* What a cutoff record changes.
LEMMA AppendCutoff ==
    ASSUME NEW m, IsSequence(m), \A i \in DOMAIN m : m[i].type \in {"add", "cutoff"}, NEW s
    PROVE  LET n == Append(m, CutoffRecord(s))
           IN  /\ IsSequence(n)
               /\ \A i \in DOMAIN n : n[i] = CutoffRecord(s) \/ \E j \in DOMAIN m : n[i] = m[j]
               /\ \A i \in DOMAIN n : n[i].type \in {"add", "cutoff"}
               /\ ManifestTables(n) = ManifestTables(m)
               /\ ManifestCutoffs(n) = ManifestCutoffs(m) \cup {s}
<1> DEFINE n == Append(m, CutoffRecord(s))
<1>1. Len(m) \in Nat /\ DOMAIN m = 1..Len(m)
    BY SequenceDomain
<1>2. /\ IsSequence(n)
      /\ DOMAIN n = 1..(Len(m) + 1)
      /\ \A i \in DOMAIN m : n[i] = m[i]
      /\ n[Len(m) + 1] = CutoffRecord(s)
    BY AppendElements, <1>1
<1>3. DOMAIN n = DOMAIN m \cup {Len(m) + 1}
    BY <1>1, <1>2
<1>4. CutoffRecord(s).type = "cutoff" /\ CutoffRecord(s).seq = s
    BY DEF CutoffRecord
<1>5. \A i \in DOMAIN n : n[i].type \in {"add", "cutoff"}
    BY <1>2, <1>3, <1>4
<1> HIDE DEF n
<1>6. ManifestTables(n) = ManifestTables(m)
    <2>1. ManifestTables(n) = {n[i].table : i \in {k \in DOMAIN n : n[k].type = "add"}}
        BY <1>2, <1>5, ReplayOfIntact
    <2>2. ManifestTables(m) = {m[i].table : i \in {k \in DOMAIN m : m[k].type = "add"}}
        BY ReplayOfIntact
    <2>4. ASSUME NEW x \in ManifestTables(n) PROVE x \in ManifestTables(m)
        <3>1. PICK i \in DOMAIN n : n[i].type = "add" /\ x = n[i].table
            BY <2>1
        <3>2. CASE i \in DOMAIN m
            BY <3>1, <3>2, <2>2, <1>2
        <3>3. CASE i = Len(m) + 1
            BY <3>1, <3>3, <1>2, <1>4
        <3> QED BY <3>2, <3>3, <1>3
    <2>5. ASSUME NEW x \in ManifestTables(m) PROVE x \in ManifestTables(n)
        <3>1. PICK i \in DOMAIN m : m[i].type = "add" /\ x = m[i].table
            BY <2>2
        <3>2. i \in DOMAIN n /\ n[i] = m[i]
            BY <1>2, <1>3
        <3> QED BY <3>1, <3>2, <2>1
    <2> QED BY <2>4, <2>5
<1>7. ManifestCutoffs(n) = ManifestCutoffs(m) \cup {s}
    <2>1. ManifestCutoffs(n) = {n[i].seq : i \in {k \in DOMAIN n : n[k].type = "cutoff"}}
        BY <1>2, <1>5, ReplayOfIntact
    <2>2. ManifestCutoffs(m) = {m[i].seq : i \in {k \in DOMAIN m : m[k].type = "cutoff"}}
        BY ReplayOfIntact
    <2>4. ASSUME NEW x \in ManifestCutoffs(n) PROVE x \in ManifestCutoffs(m) \cup {s}
        <3>1. PICK i \in DOMAIN n : n[i].type = "cutoff" /\ x = n[i].seq
            BY <2>1
        <3>2. CASE i \in DOMAIN m
            BY <3>1, <3>2, <2>2, <1>2
        <3>3. CASE i = Len(m) + 1
            BY <3>1, <3>3, <1>2, <1>4
        <3> QED BY <3>2, <3>3, <1>3
    <2>5. ASSUME NEW x \in ManifestCutoffs(m) PROVE x \in ManifestCutoffs(n)
        <3>1. PICK i \in DOMAIN m : m[i].type = "cutoff" /\ x = m[i].seq
            BY <2>2
        <3>2. i \in DOMAIN n /\ n[i] = m[i]
            BY <1>2, <1>3
        <3> QED BY <3>1, <3>2, <2>1
    <2>6. s \in ManifestCutoffs(n)
        BY <2>1, <1>2, <1>3, <1>4
    <2> QED BY <2>4, <2>5, <2>6
<1> QED BY <1>2, <1>3, <1>5, <1>6, <1>7 DEF n

\* A maximum survives the addition of a number.
LEMMA HasMaxAdd ==
    ASSUME NEW S, S \subseteq Nat, HasMax(S), NEW n \in Nat
    PROVE  HasMax(S \cup {n})
<1>1. CASE S = {}
    BY <1>1 DEF HasMax
<1>2. CASE S # {}
    <2>1. PICK k \in S : \A m \in S : m <= k
        BY <1>2 DEF HasMax
    <2>2. CASE n <= k
        BY <2>1, <2>2 DEF HasMax
    <2>3. CASE ~(n <= k)
        BY <2>1, <2>3 DEF HasMax
    <2> QED BY <2>2, <2>3
<1> QED BY <1>1, <1>2

\* The cutoff of the MANIFEST is the largest one it records, or 0.
LEMMA CutoffIsMax ==
    ASSUME NEW m, ManifestCutoffs(m) \subseteq Nat, HasMax(ManifestCutoffs(m))
    PROVE  /\ ManifestCutoff(m) \in Nat
           /\ \A s \in ManifestCutoffs(m) : s <= ManifestCutoff(m)
           /\ ManifestCutoff(m) = 0 \/ ManifestCutoff(m) \in ManifestCutoffs(m)
<1>1. CASE ManifestCutoffs(m) = {}
    BY <1>1 DEF ManifestCutoff
<1>2. CASE ManifestCutoffs(m) # {}
    <2>1. \E s \in ManifestCutoffs(m) : \A u \in ManifestCutoffs(m) : u <= s
        BY <1>2 DEF HasMax
    <2>2. /\ ManifestCutoff(m) \in ManifestCutoffs(m)
          /\ \A u \in ManifestCutoffs(m) : u <= ManifestCutoff(m)
        BY <1>2, <2>1 DEF ManifestCutoff
    <2> QED BY <2>2
<1> QED BY <1>1, <1>2

\* All that TypeOK and ManifestInv say of the MANIFEST.
GoodManifest(m) ==
    /\ IsSequence(m)
    /\ \A i \in DOMAIN m : EditOK(m[i])
    /\ \A i \in DOMAIN m : m[i].type \in {"add", "cutoff"}
    /\ HasMax(ManifestCutoffs(m))
    /\ HasMax({t.num : t \in ManifestTables(m)})
    /\ HasMax({t.largestSeq : t \in ManifestTables(m)})

\* The invariant makes the MANIFEST intact: no torn record, no removal.
LEMMA ManifestIsGood ==
    ASSUME TypeOK, ManifestInv
    PROVE  GoodManifest(manifest)
BY DEF TypeOK, ManifestOK, ManifestInv, GoodManifest

\* What an intact MANIFEST says is well typed and within its maxima.
LEMMA GoodManifestFacts ==
    ASSUME NEW m, GoodManifest(m)
    PROVE  /\ \A t \in ManifestTables(m) : TableOK(t)
           /\ ManifestCutoffs(m) \subseteq Nat
           /\ ManifestCutoff(m) \in Nat
           /\ \A s \in ManifestCutoffs(m) : s <= ManifestCutoff(m)
           /\ ManifestCutoff(m) = 0 \/ ManifestCutoff(m) \in ManifestCutoffs(m)
           /\ ManifestObsolete(m) = {}
<1>1. /\ ManifestTables(m) = {m[i].table : i \in {n \in DOMAIN m : m[n].type = "add"}}
      /\ ManifestCutoffs(m) = {m[i].seq : i \in {n \in DOMAIN m : m[n].type = "cutoff"}}
      /\ ManifestObsolete(m) = {}
    BY ReplayOfIntact DEF GoodManifest
<1>2. \A i \in DOMAIN m : /\ m[i].type = "add" => TableOK(m[i].table)
                          /\ m[i].type = "cutoff" => m[i].seq \in Nat
    BY DEF GoodManifest, EditOK
<1>3. \A t \in ManifestTables(m) : TableOK(t)
    BY <1>1, <1>2
<1>4. ManifestCutoffs(m) \subseteq Nat
    BY <1>1, <1>2
<1> QED BY <1>1, <1>3, <1>4, CutoffIsMax DEF GoodManifest

\* An Add record: one more table, the same cutoff.
LEMMA EditAdd ==
    ASSUME NEW m, GoodManifest(m), NEW t, TableOK(t)
    PROVE  LET n == Append(m, AddRecord(t))
           IN  /\ GoodManifest(n)
               /\ ManifestTables(n) = ManifestTables(m) \cup {t}
               /\ ManifestCutoff(n) = ManifestCutoff(m)
<1> DEFINE n == Append(m, AddRecord(t))
<1>1. /\ IsSequence(n)
      /\ \A i \in DOMAIN n : n[i] = AddRecord(t) \/ \E j \in DOMAIN m : n[i] = m[j]
      /\ \A i \in DOMAIN n : n[i].type \in {"add", "cutoff"}
      /\ ManifestTables(n) = ManifestTables(m) \cup {t}
      /\ ManifestCutoffs(n) = ManifestCutoffs(m)
    BY AppendAdd DEF GoodManifest
<1> HIDE DEF n
<1>2. \A i \in DOMAIN n : EditOK(n[i])
    <2>1. EditOK(AddRecord(t))
        BY DEF EditOK, AddRecord
    <2>2. \A j \in DOMAIN m : EditOK(m[j])
        BY DEF GoodManifest
    <2> QED BY <1>1, <2>1, <2>2
<1>3. HasMax(ManifestCutoffs(n)) /\ ManifestCutoff(n) = ManifestCutoff(m)
    BY <1>1 DEF GoodManifest, ManifestCutoff
<1>4. HasMax({u.num : u \in ManifestTables(n)})
    <2> DEFINE A == {u.num : u \in ManifestTables(m)}
    <2>1. {u.num : u \in ManifestTables(n)} = A \cup {t.num}
        BY <1>1
    <2>2. HasMax(A) /\ A \subseteq Nat /\ t.num \in Nat
        BY GoodManifestFacts DEF GoodManifest, TableOK
    <2> HIDE DEF A
    <2>3. HasMax(A \cup {t.num})
        BY <2>2, HasMaxAdd
    <2> QED BY <2>1, <2>3
<1>5. HasMax({u.largestSeq : u \in ManifestTables(n)})
    <2> DEFINE A == {u.largestSeq : u \in ManifestTables(m)}
    <2>1. {u.largestSeq : u \in ManifestTables(n)} = A \cup {t.largestSeq}
        BY <1>1
    <2>2. HasMax(A) /\ A \subseteq Nat /\ t.largestSeq \in Nat
        BY GoodManifestFacts DEF GoodManifest, TableOK
    <2> HIDE DEF A
    <2>3. HasMax(A \cup {t.largestSeq})
        BY <2>2, HasMaxAdd
    <2> QED BY <2>1, <2>3
<1>6. GoodManifest(n)
    BY <1>1, <1>2, <1>3, <1>4, <1>5 DEF GoodManifest
<1> QED BY <1>1, <1>3, <1>6 DEF n

\* A cutoff record: the same tables, the larger cutoff.
LEMMA EditCutoff ==
    ASSUME NEW m, GoodManifest(m), NEW s \in Nat
    PROVE  LET n == Append(m, CutoffRecord(s))
           IN  /\ GoodManifest(n)
               /\ ManifestTables(n) = ManifestTables(m)
               /\ ManifestCutoff(n) = IF s > ManifestCutoff(m) THEN s ELSE ManifestCutoff(m)
<1> DEFINE n == Append(m, CutoffRecord(s))
<1>1. /\ IsSequence(n)
      /\ \A i \in DOMAIN n : n[i] = CutoffRecord(s) \/ \E j \in DOMAIN m : n[i] = m[j]
      /\ \A i \in DOMAIN n : n[i].type \in {"add", "cutoff"}
      /\ ManifestTables(n) = ManifestTables(m)
      /\ ManifestCutoffs(n) = ManifestCutoffs(m) \cup {s}
    BY AppendCutoff DEF GoodManifest
<1> HIDE DEF n
<1>2. \A i \in DOMAIN n : EditOK(n[i])
    <2>1. EditOK(CutoffRecord(s))
        BY DEF EditOK, CutoffRecord
    <2>2. \A j \in DOMAIN m : EditOK(m[j])
        BY DEF GoodManifest
    <2> QED BY <1>1, <2>1, <2>2
<1>3. ManifestCutoffs(m) \subseteq Nat /\ HasMax(ManifestCutoffs(m))
    BY GoodManifestFacts DEF GoodManifest
<1>4. ManifestCutoffs(n) \subseteq Nat /\ HasMax(ManifestCutoffs(n))
    BY <1>1, <1>3, HasMaxAdd
<1>5. GoodManifest(n)
    BY <1>1, <1>2, <1>4 DEF GoodManifest
<1>6. ManifestCutoff(n) = IF s > ManifestCutoff(m) THEN s ELSE ManifestCutoff(m)
    <2>1. /\ ManifestCutoff(m) \in Nat /\ ManifestCutoff(n) \in Nat
          /\ \A u \in ManifestCutoffs(m) : u <= ManifestCutoff(m)
          /\ \A u \in ManifestCutoffs(n) : u <= ManifestCutoff(n)
          /\ ManifestCutoff(m) = 0 \/ ManifestCutoff(m) \in ManifestCutoffs(m)
          /\ ManifestCutoff(n) = 0 \/ ManifestCutoff(n) \in ManifestCutoffs(n)
        BY <1>3, <1>4, CutoffIsMax
    <2>2. s <= ManifestCutoff(n)
        BY <2>1, <1>1
    <2>3. ManifestCutoff(m) <= ManifestCutoff(n)
        BY <2>1, <1>1
    <2>4. ManifestCutoff(n) = s \/ ManifestCutoff(n) <= ManifestCutoff(m)
        BY <2>1, <1>1
    <2> QED BY <2>1, <2>2, <2>3, <2>4
<1> QED BY <1>1, <1>5, <1>6 DEF n

\* A MANIFEST without records names no table and the cutoff 0.
LEMMA EmptyManifest ==
    /\ GoodManifest(<<>>)
    /\ ManifestTables(<<>>) = {} /\ ManifestCutoff(<<>>) = 0
<1>1. IsSequence(<<>>) /\ DOMAIN <<>> = {}
    BY DEF IsSequence
<1>2. ManifestTables(<<>>) = {} /\ ManifestCutoffs(<<>>) = {}
    BY <1>1, ReplayOfIntact
<1> QED BY <1>1, <1>2 DEF GoodManifest, HasMax, ManifestCutoff

\* CompactManifest writes what is in the version.
LEMMA RewrittenManifest ==
    ASSUME NEW T, IsFiniteSet(T), \A t \in T : TableOK(t),
           NEW B \in Nat, \A t \in T : t.num <= B /\ t.largestSeq <= B,
           NEW c \in Nat,
           NEW s \in Listings(T)
    PROVE  LET n == Append([i \in DOMAIN s |-> AddRecord(s[i])], CutoffRecord(c))
           IN  /\ GoodManifest(n)
               /\ ManifestTables(n) = T
               /\ ManifestCutoff(n) = c
<1> DEFINE m == [i \in DOMAIN s |-> AddRecord(s[i])]
<1>1. Cardinality(T) \in Nat
    BY FS_CardinalityType
<1>2. DOMAIN s = 1..Cardinality(T) /\ {s[i] : i \in DOMAIN s} = T
    BY DEF Listings
<1>3. /\ DOMAIN m = 1..Cardinality(T)
      /\ \A i \in DOMAIN m : m[i] = AddRecord(s[i]) /\ s[i] \in T
    BY <1>2
<1>4. m = [i \in 1..Cardinality(T) |-> m[i]]
    BY <1>2
<1> HIDE DEF m
<1>5. IsSequence(m)
    <2> DEFINE R == {m[i] : i \in DOMAIN m}
    <2>1. \A i \in 1..Cardinality(T) : m[i] \in R
        BY <1>3
    <2> HIDE DEF R
    <2>2. m \in [1..Cardinality(T) -> R]
        BY <1>4, <2>1
    <2>3. m \in Seq(R)
        BY <1>1, <2>2
    <2> QED BY <2>3 DEF R, IsSequence
<1>6. \A i \in DOMAIN m : m[i].type = "add" /\ m[i].table = s[i] /\ EditOK(m[i])
    BY <1>3 DEF AddRecord, EditOK
<1>7. /\ ManifestTables(m) = {m[i].table : i \in {n \in DOMAIN m : m[n].type = "add"}}
      /\ ManifestCutoffs(m) = {m[i].seq : i \in {n \in DOMAIN m : m[n].type = "cutoff"}}
    BY <1>5, <1>6, ReplayOfIntact
<1>8. ManifestCutoffs(m) = {}
    BY <1>6, <1>7
<1>9. ManifestTables(m) = T
    <2>1. ASSUME NEW x \in ManifestTables(m) PROVE x \in T
        BY <1>3, <1>6, <1>7
    <2>2. ASSUME NEW x \in T PROVE x \in ManifestTables(m)
        <3>1. PICK i \in DOMAIN s : x = s[i]
            BY <1>2
        <3> QED BY <3>1, <1>2, <1>3, <1>6, <1>7
    <2> QED BY <2>1, <2>2
<1>10. ASSUME NEW S, S \subseteq Nat, \A n \in S : n <= B PROVE HasMax(S)
    BY <1>10, MaxExists DEF HasMax
<1>11. HasMax({t.num : t \in ManifestTables(m)})
    BY <1>9, <1>10 DEF TableOK
<1>12. HasMax({t.largestSeq : t \in ManifestTables(m)})
    BY <1>9, <1>10 DEF TableOK
<1>13. GoodManifest(m)
    BY <1>5, <1>6, <1>8, <1>11, <1>12 DEF GoodManifest, HasMax
<1>14. ManifestCutoff(m) = 0
    BY <1>8 DEF ManifestCutoff
<1>15. LET n == Append(m, CutoffRecord(c))
       IN  /\ GoodManifest(n)
           /\ ManifestTables(n) = ManifestTables(m)
           /\ ManifestCutoff(n) = IF c > ManifestCutoff(m) THEN c ELSE ManifestCutoff(m)
    BY <1>13, EditCutoff
<1> QED BY <1>9, <1>14, <1>15 DEF m

-----------------------------------------------------------------------------
(* The log.                                                                *)

\* A record added to the last segment leaves all other records in place.
LEMMA AppendToSegment ==
    ASSUME NEW w \in Seq(Segment), w # <<>>, NEW r \in LogRecord
    PROVE  LET v == Appended(w, r)
               n == Len(w)
           IN  /\ v \in Seq(Segment) /\ Len(v) = n /\ n > 0
               /\ \A i \in 1..n : i # n => v[i] = w[i]
               /\ Len(v[n]) = Len(w[n]) + 1
               /\ \A j \in 1..Len(w[n]) : v[n][j] = w[n][j]
               /\ v[n][Len(w[n]) + 1] = r
<1> DEFINE n == Len(w)
           v == Appended(w, r)
<1>1. n \in Nat /\ n > 0 /\ DOMAIN w = 1..n
    BY EmptySeq, LenProperties
<1>2. w[n] \in Seq(LogRecord)
    BY <1>1, ElementOfSeq DEF Segment
<1>3. /\ Append(w[n], r) \in Segment
      /\ Len(Append(w[n], r)) = Len(w[n]) + 1
      /\ \A j \in 1..Len(w[n]) : Append(w[n], r)[j] = w[n][j]
      /\ Append(w[n], r)[Len(w[n]) + 1] = r
    BY <1>2, AppendProperties DEF Segment
<1>4. v = [w EXCEPT ![n] = Append(w[n], r)]
    BY DEF Appended
<1>5. /\ v \in Seq(Segment) /\ Len(v) = n
      /\ \A i \in 1..n : v[i] = IF i = n THEN Append(w[n], r) ELSE w[i]
    BY <1>1, <1>3, <1>4, ExceptSeq
<1> HIDE DEF v, n
<1>6. v[n] = Append(w[n], r)
    <2>1. n \in 1..n
        BY <1>1
    <2> QED BY <2>1, <1>5
<1>7. Len(v[n]) = Len(w[n]) + 1
    BY <1>3, <1>6
<1>8. \A j \in 1..Len(w[n]) : v[n][j] = w[n][j]
    BY <1>3, <1>6
<1>9. v[n][Len(w[n]) + 1] = r
    BY <1>3, <1>6
<1>10. \A i \in 1..n : i # n => v[i] = w[i]
    BY <1>5
<1> QED BY <1>1, <1>5, <1>7, <1>8, <1>9, <1>10 DEF v, n

\* A rotation adds an empty segment and changes no record.
LEMMA RotateLog ==
    ASSUME wal \in Seq(Segment), wal # <<>>
    PROVE  /\ Rotated \in Seq(Segment) /\ Rotated # <<>>
           /\ \A i \in 1..Len(wal) : Rotated[i] = wal[i]
           /\ \/ SegmentFull /\ Len(Rotated) = Len(wal) + 1 /\ Rotated[Len(wal) + 1] = <<>>
              \/ ~SegmentFull /\ Rotated = wal
<1>1. <<>> \in Segment
    BY DEF Segment
<1>2. CASE SegmentFull
    <2>1. Rotated = Append(wal, <<>>)
        BY <1>2 DEF Rotated
    <2>2. /\ Append(wal, <<>>) \in Seq(Segment) /\ Append(wal, <<>>) # <<>>
          /\ Len(Append(wal, <<>>)) = Len(wal) + 1
          /\ \A i \in 1..Len(wal) : Append(wal, <<>>)[i] = wal[i]
          /\ Append(wal, <<>>)[Len(wal) + 1] = <<>>
        BY <1>1, AppendProperties
    <2> QED BY <1>2, <2>1, <2>2
<1>3. CASE ~SegmentFull
    BY <1>3 DEF Rotated
<1> QED BY <1>2, <1>3

\* The segments of a log are sequences of records.
LEMMA Segments ==
    ASSUME NEW w \in Seq(Segment)
    PROVE  /\ Len(w) \in Nat /\ DOMAIN w = 1..Len(w)
           /\ w # <<>> <=> Len(w) > 0
           /\ \A i \in 1..Len(w) :
                 /\ w[i] \in Seq(LogRecord)
                 /\ Len(w[i]) \in Nat /\ DOMAIN w[i] = 1..Len(w[i])
                 /\ \A j \in 1..Len(w[i]) : w[i][j] \in LogRecord
<1>1. Len(w) \in Nat /\ DOMAIN w = 1..Len(w) /\ (w # <<>> <=> Len(w) > 0)
    BY LenProperties, EmptySeq
<1>2. ASSUME NEW i \in 1..Len(w)
      PROVE  /\ w[i] \in Seq(LogRecord)
             /\ Len(w[i]) \in Nat /\ DOMAIN w[i] = 1..Len(w[i])
             /\ \A j \in 1..Len(w[i]) : w[i][j] \in LogRecord
    <2>1. w[i] \in Seq(LogRecord)
        BY ElementOfSeq DEF Segment
    <2> QED BY <2>1, LenProperties, ElementOfSeq
<1> QED BY <1>1, <1>2

(***************************************************************************)
(* The log v with c unsynced records extends the log w with d of them by   *)
(* records in R: every record stays where it is, and what was stable stays *)
(* stable.                                                                 *)
(***************************************************************************)
LogExtends(w, d, v, c, R) ==
    /\ v \in Seq(Segment) /\ v # <<>> /\ Len(v) >= Len(w)
    /\ \A i \in 1..Len(w) : i < Len(w) => v[i] = w[i]
    /\ \A i \in 1..Len(w) : \A j \in 1..Len(w[i]) :
          /\ i \in 1..Len(v) /\ j \in 1..Len(v[i]) /\ v[i][j] = w[i][j]
          /\ (i = Len(w) => j + d <= Len(w[i])) => (i = Len(v) => j + c <= Len(v[i]))
    /\ \A i \in 1..Len(v) : \A j \in 1..Len(v[i]) :
          \/ i \in 1..Len(w) /\ j \in 1..Len(w[i]) /\ v[i][j] = w[i][j]
          \/ i = Len(v) /\ j = Len(v[i]) /\ v[i][j] \in R
    /\ c \in Nat /\ c <= Len(v[Len(v)])

\* WAL.Append adds one record at the end of the log.
LEMMA LogGrows ==
    ASSUME wal \in Seq(Segment), wal # <<>>, dirty \in Nat,
           dirty <= Len(wal[Len(wal)]),
           NEW r \in LogRecord
    PROVE  LET w == Appended(Rotated, r)
           IN  /\ LogExtends(wal, dirty, w, RotatedDirty + 1, {r})
               /\ w[Len(w)] # <<>> /\ w[Len(w)][Len(w[Len(w)])] = r
<1> DEFINE w == Appended(Rotated, r)
           d == RotatedDirty + 1
<1> DEFINE v == Rotated
           n == Len(v)
<1>1. /\ v \in Seq(Segment) /\ v # <<>>
      /\ \A i \in 1..Len(wal) : v[i] = wal[i]
      /\ \/ SegmentFull /\ n = Len(wal) + 1 /\ v[Len(wal) + 1] = <<>>
         \/ ~SegmentFull /\ v = wal
    BY RotateLog
<1> HIDE DEF v
<1>2. /\ w \in Seq(Segment) /\ Len(w) = n /\ n > 0
      /\ \A i \in 1..n : i # n => w[i] = v[i]
      /\ Len(w[n]) = Len(v[n]) + 1
      /\ \A j \in 1..Len(v[n]) : w[n][j] = v[n][j]
      /\ w[n][Len(v[n]) + 1] = r
    BY <1>1, AppendToSegment DEF v
<1> HIDE DEF w, d
<1>3. /\ Len(wal) \in Nat /\ Len(wal) > 0
      /\ \A i \in 1..Len(wal) : Len(wal[i]) \in Nat
    BY Segments
<1>4. /\ Len(w) \in Nat /\ w # <<>>
      /\ \A i \in 1..Len(w) : Len(w[i]) \in Nat
    BY <1>2, Segments
<1> DEFINE Goal == /\ LogExtends(wal, dirty, w, d, {r})
                   /\ w[Len(w)] # <<>> /\ w[Len(w)][Len(w[Len(w)])] = r
<1>5. ASSUME SegmentFull PROVE Goal
    <2>1. n = Len(wal) + 1 /\ v[n] = <<>> /\ Len(v[n]) = 0 /\ d = 1
        BY <1>1, <1>5 DEF RotatedDirty, d
    <2>2. \A i \in 1..Len(wal) : w[i] = wal[i] /\ i # n
        BY <1>1, <1>2, <1>3, <2>1
    <2>3. Len(w[n]) = 1 /\ w[n][1] = r /\ w[n] # <<>>
        BY <1>2, <2>1
    <2>4. \A i \in 1..Len(w) : i \in 1..Len(wal) \/ i = n
        BY <1>2, <1>3, <2>1
    <2>5. n = Len(w) /\ n \in Nat /\ Len(wal) < n
        BY <1>2, <1>3, <2>1
    <2>6. \A i \in 1..Len(wal) : i \in 1..Len(w) /\ w[i] = wal[i] /\ i # Len(w)
        BY <1>3, <2>2, <2>5
    <2>7. \A j \in 1..Len(w[n]) : j = Len(w[n]) /\ w[n][j] = r
        BY <2>3
    <2>8. \A i \in 1..Len(w) : \A j \in 1..Len(w[i]) :
              \/ i \in 1..Len(wal) /\ j \in 1..Len(wal[i]) /\ w[i][j] = wal[i][j]
              \/ i = Len(w) /\ j = Len(w[i]) /\ w[i][j] = r
        BY <2>4, <2>5, <2>6, <2>7
    <2>9. w \in Seq(Segment) /\ w # <<>> /\ Len(w) >= Len(wal)
        BY <1>2, <1>4, <2>5, <1>3
    <2> HIDE DEF n
    <2> QED BY <2>1, <2>3, <2>5, <2>6, <2>8, <2>9 DEF LogExtends
<1>6. ASSUME ~SegmentFull PROVE Goal
    <2>1. v = wal /\ n = Len(wal) /\ d = dirty + 1
        BY <1>1, <1>6 DEF RotatedDirty, d
    <2>2. /\ \A i \in 1..Len(wal) : i # n => w[i] = wal[i]
          /\ Len(w[n]) = Len(wal[n]) + 1
          /\ \A j \in 1..Len(wal[n]) : w[n][j] = wal[n][j]
          /\ w[n][Len(wal[n]) + 1] = r
        BY <1>2, <2>1
    <2>3. w[n] # <<>>
        BY <2>2, <1>3, <1>4, <2>1
    <2>4. \A i \in 1..Len(wal) : \A j \in 1..Len(wal[i]) :
              j \in 1..Len(w[i]) /\ w[i][j] = wal[i][j]
        BY <2>2, <1>3, <1>4, <2>1
    <2>5. \A i \in 1..Len(w) : \A j \in 1..Len(w[i]) :
              \/ i \in 1..Len(wal) /\ j \in 1..Len(wal[i]) /\ w[i][j] = wal[i][j]
              \/ i = Len(w) /\ j = Len(w[i]) /\ w[i][j] = r
        BY <2>2, <1>2, <1>3, <1>4, <2>1
    <2>6. n = Len(w) /\ n \in Nat
        BY <1>2, <1>4
    <2>7. \A i \in 1..Len(wal) : \A j \in 1..Len(wal[i]) :
              (i = Len(wal) => j + dirty <= Len(wal[i]))
                  => (i = Len(w) => j + d <= Len(w[i]))
        BY <1>3, <2>1, <2>2, <2>6
    <2>8. w[n][Len(w[n])] = r /\ d \in Nat /\ d <= Len(w[n])
        BY <1>3, <2>1, <2>2
    <2>9. \A i \in 1..Len(wal) : i \in 1..Len(w) /\ (i < Len(wal) => w[i] = wal[i])
        BY <2>1, <2>2, <2>6
    <2>10. w \in Seq(Segment) /\ w # <<>> /\ Len(w) >= Len(wal)
        BY <1>2, <1>4, <2>1
    <2> HIDE DEF n
    <2> QED BY <2>3, <2>4, <2>5, <2>6, <2>7, <2>8, <2>9, <2>10 DEF LogExtends
<1> QED BY <1>5, <1>6 DEF w, d

-----------------------------------------------------------------------------
(* The actions.                                                            *)

\* Truncate chooses a proper prefix of segments that hold nothing above the cutoff.
LEMMA DeletablePrefix ==
    ASSUME wal \in Seq(Segment), wal # <<>>, NEW c \in Nat
    PROVE  /\ Deletable(c) \in Nat /\ Deletable(c) < Len(wal)
           /\ \A i \in 1..Deletable(c) : Truncatable(wal[i], c)
<1> DEFINE prefix == {n \in 0..(Len(wal) - 1) :
                         \A i \in 1..n : Truncatable(wal[i], c)}
           n == CHOOSE n \in prefix : \A p \in prefix : p <= n
<1>1. Len(wal) \in Nat /\ Len(wal) > 0
    BY Segments
<1>2. prefix \subseteq Nat /\ 0 \in prefix /\ \A p \in prefix : p <= Len(wal) - 1
    BY <1>1
<1> HIDE DEF prefix
<1>3. \E k \in prefix : \A p \in prefix : p <= k
    <2>1. Len(wal) - 1 \in Nat /\ prefix # {}
        BY <1>1, <1>2
    <2> QED BY <1>2, <2>1, MaxExists
<1>4. n \in prefix
    BY <1>3
<1>5. Deletable(c) = 0 \/ Deletable(c) = n
    BY DEF Deletable, prefix
<1> HIDE DEF n
<1>6. n \in Nat /\ n < Len(wal) /\ \A i \in 1..n : Truncatable(wal[i], c)
    BY <1>1, <1>4 DEF prefix
<1> QED BY <1>1, <1>5, <1>6

\* Without obsolete numbers the cleanup removes nothing.
LEMMA RemoveNothing ==
    ASSUME FilesOK(files)
    PROVE  RemoveFiles({}) = files
BY DEF FilesOK, RemoveFiles

\* checkBackgroundError only counts the caller in.
LEMMA WriteCheckPreserves ==
    ASSUME NoTearing, IndInv, WriteCheck
    PROVE  IndInv'
<1>1. TypeOK'
    BY DEF IndInv, TypeOK, WriteCheck, disk, memory, locks, counters
<1>2. ManifestInv'
    BY DEF IndInv, ManifestInv, WriteCheck, disk, memory, locks, counters
<1>3. VersionInv'
    BY DEF IndInv, VersionInv, Alive, Replaying, WriteCheck, disk, memory, locks, counters
<1>4. MemInv'
    BY DEF IndInv, MemInv, Alive, Replaying, WriteCheck, disk, memory, locks, counters
<1>5. WalInv'
    BY DEF IndInv, WalInv, WriteCheck, disk, memory, locks, counters
<1>6. WriterInv'
    BY DEF IndInv, WriterInv, WriteCheck, disk, memory, locks, counters
<1>7. FlushInv'
    BY DEF IndInv, FlushInv, WriteCheck, disk, memory, locks, counters
<1>8. ReplayInv'
    BY DEF IndInv, ReplayInv, Recovered, TableEntries, Replaying, WriteCheck, disk, memory, locks, counters
<1>9. AckedInv'
    BY DEF IndInv, AckedInv, InWal, Stable, TableEntries, WriteCheck, disk, memory, locks, counters
<1>10. NewInv'
    BY DEF IndInv, NewInv, WriteCheck, disk, memory, locks, counters
<1> QED BY <1>1, <1>2, <1>3, <1>4, <1>5, <1>6, <1>7, <1>8, <1>9, <1>10 DEF IndInv

\* An fsync makes every record of the log stable.
LEMMA WriteSyncPreserves ==
    ASSUME NoTearing, IndInv, WriteSync
    PROVE  IndInv'
<1>1. TypeOK'
    <2>1. wr' \in WriterState
        BY DEF IndInv, TypeOK, WriteSync, WriterState
    <2> QED BY <2>1 DEF IndInv, TypeOK, WriteSync, memory, counters
<1>2. ManifestInv'
    BY DEF IndInv, ManifestInv, WriteSync, disk, memory, locks, counters
<1>3. VersionInv'
    BY DEF IndInv, VersionInv, Alive, Replaying, WriteSync, disk, memory, locks, counters
<1>4. MemInv'
    BY DEF IndInv, MemInv, Alive, Replaying, WriteSync, disk, memory, locks, counters
<1>5. WalInv'
    BY DEF IndInv, WalInv, WriteSync, disk, memory, locks, counters
<1>6. WriterInv'
    BY DEF IndInv, WriterInv, WriteSync, disk, memory, locks, counters
<1>7. FlushInv'
    BY DEF IndInv, FlushInv, WriteSync, disk, memory, locks, counters
<1>8. ReplayInv'
    BY DEF IndInv, ReplayInv, Recovered, TableEntries, Replaying, WriteSync, disk, memory, locks, counters
<1>9. AckedInv'
    BY DEF IndInv, AckedInv, InWal, Stable, TableEntries, WriteSync, disk, memory, locks, counters
<1>10. NewInv'
    BY DEF IndInv, NewInv, WriteSync, disk, memory, locks, counters
<1> QED BY <1>1, <1>2, <1>3, <1>4, <1>5, <1>6, <1>7, <1>8, <1>9, <1>10 DEF IndInv

\* A failed fsync leaves an unacknowledged record in the log.
LEMMA WriteSyncFailsPreserves ==
    ASSUME NoTearing, IndInv, WriteSyncFails
    PROVE  IndInv'
<1>1. TypeOK'
    <2>1. wr' \in WriterState /\ faults' \in Nat /\ UNCHANGED crashes
        BY DEF IndInv, TypeOK, WriteSyncFails, WriterState, IdleWriter, Fault
    <2> QED BY <2>1 DEF IndInv, TypeOK, WriteSyncFails, disk, memory, Fault
<1>2. ManifestInv'
    BY DEF IndInv, ManifestInv, WriteSyncFails, disk, memory, locks, counters, Fault, IdleWriter
<1>3. VersionInv'
    BY DEF IndInv, VersionInv, Alive, Replaying, WriteSyncFails, disk, memory, locks, counters, Fault, IdleWriter
<1>4. MemInv'
    BY DEF IndInv, MemInv, Alive, Replaying, WriteSyncFails, disk, memory, locks, counters, Fault, IdleWriter
<1>5. WalInv'
    BY DEF IndInv, WalInv, WriteSyncFails, disk, memory, locks, counters, Fault, IdleWriter
<1>6. WriterInv'
    BY DEF IndInv, WriterInv, WriteSyncFails, disk, memory, locks, counters, Fault, IdleWriter
<1>7. FlushInv'
    BY DEF IndInv, FlushInv, WriterInv, WriteSyncFails, disk, memory
<1>8. ReplayInv'
    BY DEF IndInv, ReplayInv, Recovered, TableEntries, Replaying, WriteSyncFails, disk, memory, locks, counters, Fault, IdleWriter
<1>9. AckedInv'
    BY DEF IndInv, AckedInv, InWal, Stable, TableEntries, WriteSyncFails, disk, memory, locks, counters, Fault, IdleWriter
<1>10. NewInv'
    BY DEF IndInv, NewInv, WriteSyncFails, disk, memory, locks, counters, Fault, IdleWriter
<1> QED BY <1>1, <1>2, <1>3, <1>4, <1>5, <1>6, <1>7, <1>8, <1>9, <1>10 DEF IndInv

\* Taking flushMu changes nothing the flush relies on.
LEMMA FlushStartPreserves ==
    ASSUME NoTearing, IndInv, FlushStart
    PROVE  IndInv'
<1>1. TypeOK'
    <2>1. fl' \in FlushState
        BY DEF IndInv, TypeOK, FlushStart, FlushState, FlushPCs
    <2>2. spawned' \in Nat
        BY DEF IndInv, TypeOK, FlushStart
    <2> QED BY <2>1, <2>2 DEF IndInv, TypeOK, FlushStart, disk, memory, counters
<1>2. ManifestInv'
    BY DEF IndInv, ManifestInv, FlushStart, disk, memory, locks, counters
<1>3. VersionInv'
    BY DEF IndInv, VersionInv, Alive, Replaying, FlushStart, disk, memory, locks, counters
<1>4. MemInv'
    BY DEF IndInv, MemInv, Alive, Replaying, FlushStart, disk, memory, locks, counters
<1>5. WalInv'
    BY DEF IndInv, WalInv, FlushStart, disk, memory, locks, counters
<1>6. WriterInv'
    BY DEF IndInv, WriterInv, FlushStart, disk, memory, locks, counters
<1>7. FlushInv'
    <2>1. fl'.pc = "loop"
        BY DEF IndInv, TypeOK, FlushState, FlushStart
    <2> QED BY <2>1 DEF IndInv, FlushInv, FlushStart, disk, memory
<1>8. ReplayInv'
    BY DEF IndInv, ReplayInv, Recovered, TableEntries, Replaying, FlushStart, disk, memory, locks, counters
<1>9. AckedInv'
    BY DEF IndInv, AckedInv, InWal, Stable, TableEntries, FlushStart, disk, memory, locks, counters
<1>10. NewInv'
    BY DEF IndInv, NewInv, FlushStart, disk, memory, locks, counters
<1> QED BY <1>1, <1>2, <1>3, <1>4, <1>5, <1>6, <1>7, <1>8, <1>9, <1>10 DEF IndInv

\* The file number a flush picks is above that of every live table.
LEMMA FlushPickPreserves ==
    ASSUME NoTearing, IndInv, FlushPick
    PROVE  IndInv'
<1>1. TypeOK'
    <2>1. fl' \in FlushState
        BY DEF IndInv, TypeOK, FlushPick, FlushState, FlushPCs
    <2> QED BY <2>1 DEF IndInv, TypeOK, FlushPick, disk, counters
<1>2. ManifestInv'
    BY DEF IndInv, ManifestInv, FlushPick, disk, memory, locks, counters
<1>3. VersionInv'
    <2>1. \A t \in version.tables : t.num \in Nat
        BY DEF IndInv, TypeOK, VersionOK, TableOK
    <2> QED BY <2>1 DEF IndInv, TypeOK, VersionInv, Alive, Replaying, FlushPick, disk
<1>4. MemInv'
    BY DEF IndInv, MemInv, Alive, Replaying, FlushPick, disk, memory, locks, counters
<1>5. WalInv'
    BY DEF IndInv, WalInv, FlushPick, disk, memory, locks, counters
<1>6. WriterInv'
    BY DEF IndInv, WriterInv, FlushPick, disk, memory, locks, counters
<1>7. FlushInv'
    <2>1. \A t \in version.tables : t.num \in Nat /\ t.num < nextFileNum
        BY DEF IndInv, TypeOK, VersionOK, TableOK, VersionInv, Alive, FlushInv, FlushPick
    <2>2. fl'.pc = "build" /\ fl'.num = nextFileNum /\ nextFileNum \in Nat
        BY DEF IndInv, TypeOK, FlushState, FlushPick
    <2> QED BY <2>1, <2>2 DEF IndInv, FlushInv, FlushPick, disk
<1>8. ReplayInv'
    BY DEF IndInv, FlushInv, ReplayInv, Replaying, FlushPick
<1>9. AckedInv'
    BY DEF IndInv, AckedInv, InWal, Stable, TableEntries, FlushPick, disk, memory, locks, counters
<1>10. NewInv'
    BY DEF IndInv, NewInv, FlushPick, disk, memory, locks, counters
<1> QED BY <1>1, <1>2, <1>3, <1>4, <1>5, <1>6, <1>7, <1>8, <1>9, <1>10 DEF IndInv

\* Leaving the loop needs nothing of the flush's state.
LEMMA FlushDrainedPreserves ==
    ASSUME NoTearing, IndInv, FlushDrained
    PROVE  IndInv'
<1>1. TypeOK'
    BY DEF IndInv, TypeOK, FlushDrained, disk, memory, locks, counters, FlushState, FlushPCs
<1>2. ManifestInv'
    BY DEF IndInv, ManifestInv, FlushDrained, disk, memory, locks, counters, FlushState, FlushPCs
<1>3. VersionInv'
    BY DEF IndInv, VersionInv, Alive, Replaying, FlushDrained, disk, memory, locks, counters, FlushState, FlushPCs
<1>4. MemInv'
    BY DEF IndInv, MemInv, Alive, Replaying, FlushDrained, disk, memory, locks, counters, FlushState, FlushPCs
<1>5. WalInv'
    BY DEF IndInv, WalInv, FlushDrained, disk, memory, locks, counters, FlushState, FlushPCs
<1>6. WriterInv'
    BY DEF IndInv, WriterInv, FlushDrained, disk, memory, locks, counters, FlushState, FlushPCs
<1>7. FlushInv'
    BY DEF IndInv, FlushInv, FlushDrained, disk, memory, locks, counters, FlushState, FlushPCs
<1>8. ReplayInv'
    BY DEF IndInv, ReplayInv, Recovered, TableEntries, Replaying, FlushDrained, disk, memory, locks, counters, FlushState, FlushPCs
<1>9. AckedInv'
    BY DEF IndInv, AckedInv, InWal, Stable, TableEntries, FlushDrained, disk, memory, locks, counters, FlushState, FlushPCs
<1>10. NewInv'
    BY DEF IndInv, NewInv, FlushDrained, disk, memory, locks, counters, FlushState, FlushPCs
<1> QED BY <1>1, <1>2, <1>3, <1>4, <1>5, <1>6, <1>7, <1>8, <1>9, <1>10 DEF IndInv

\* Going back to the head of the loop needs nothing of the flush's state.
LEMMA FlushTruncatedPreserves ==
    ASSUME NoTearing, IndInv, FlushTruncated
    PROVE  IndInv'
<1>1. TypeOK'
    BY DEF IndInv, TypeOK, FlushTruncated, disk, memory, locks, counters, FlushState, FlushPCs
<1>2. ManifestInv'
    BY DEF IndInv, ManifestInv, FlushTruncated, disk, memory, locks, counters, FlushState, FlushPCs
<1>3. VersionInv'
    BY DEF IndInv, VersionInv, Alive, Replaying, FlushTruncated, disk, memory, locks, counters, FlushState, FlushPCs
<1>4. MemInv'
    BY DEF IndInv, MemInv, Alive, Replaying, FlushTruncated, disk, memory, locks, counters, FlushState, FlushPCs
<1>5. WalInv'
    BY DEF IndInv, WalInv, FlushTruncated, disk, memory, locks, counters, FlushState, FlushPCs
<1>6. WriterInv'
    BY DEF IndInv, WriterInv, FlushTruncated, disk, memory, locks, counters, FlushState, FlushPCs
<1>7. FlushInv'
    BY DEF IndInv, FlushInv, FlushTruncated, disk, memory, locks, counters, FlushState, FlushPCs
<1>8. ReplayInv'
    BY DEF IndInv, ReplayInv, Recovered, TableEntries, Replaying, FlushTruncated, disk, memory, locks, counters, FlushState, FlushPCs
<1>9. AckedInv'
    BY DEF IndInv, AckedInv, InWal, Stable, TableEntries, FlushTruncated, disk, memory, locks, counters, FlushState, FlushPCs
<1>10. NewInv'
    BY DEF IndInv, NewInv, FlushTruncated, disk, memory, locks, counters, FlushState, FlushPCs
<1> QED BY <1>1, <1>2, <1>3, <1>4, <1>5, <1>6, <1>7, <1>8, <1>9, <1>10 DEF IndInv

\* A compaction that finds nothing to do changes nothing.
LEMMA SkipCompactionPreserves ==
    ASSUME NoTearing, IndInv, SkipCompaction
    PROVE  IndInv'
<1>1. TypeOK'
    BY DEF IndInv, TypeOK, SkipCompaction, disk, memory, locks, counters, FlushState, FlushPCs
<1>2. ManifestInv'
    BY DEF IndInv, ManifestInv, SkipCompaction, disk, memory, locks, counters, FlushState, FlushPCs
<1>3. VersionInv'
    BY DEF IndInv, VersionInv, Alive, Replaying, SkipCompaction, disk, memory, locks, counters, FlushState, FlushPCs
<1>4. MemInv'
    BY DEF IndInv, MemInv, Alive, Replaying, SkipCompaction, disk, memory, locks, counters, FlushState, FlushPCs
<1>5. WalInv'
    BY DEF IndInv, WalInv, SkipCompaction, disk, memory, locks, counters, FlushState, FlushPCs
<1>6. WriterInv'
    BY DEF IndInv, WriterInv, SkipCompaction, disk, memory, locks, counters, FlushState, FlushPCs
<1>7. FlushInv'
    BY DEF IndInv, FlushInv, SkipCompaction, disk, memory, locks, counters, FlushState, FlushPCs
<1>8. ReplayInv'
    BY DEF IndInv, ReplayInv, Recovered, TableEntries, Replaying, SkipCompaction, disk, memory, locks, counters, FlushState, FlushPCs
<1>9. AckedInv'
    BY DEF IndInv, AckedInv, InWal, Stable, TableEntries, SkipCompaction, disk, memory, locks, counters, FlushState, FlushPCs
<1>10. NewInv'
    BY DEF IndInv, NewInv, SkipCompaction, disk, memory, locks, counters, FlushState, FlushPCs
<1> QED BY <1>1, <1>2, <1>3, <1>4, <1>5, <1>6, <1>7, <1>8, <1>9, <1>10 DEF IndInv

\* The segments chosen for removal stay removable until they are removed.
LEMMA FlushTruncatePreserves ==
    ASSUME NoTearing, IndInv, FlushTruncate
    PROVE  IndInv'
<1>0. /\ wal \in Seq(Segment) /\ wal # <<>> /\ fl.seq \in Nat
      /\ fl' = [fl EXCEPT !.pc = "remove",
                          !.ndel = IF fl.seq > 0 THEN Deletable(fl.seq) ELSE 0]
    BY DEF IndInv, TypeOK, FlushState, FlushInv, WalInv, FlushTruncate
<1>a. /\ fl'.pc = "remove" /\ fl'.seq = fl.seq /\ fl'.ndel \in Nat /\ fl'.ndel < Len(wal)
      /\ \A i \in 1..fl'.ndel : Truncatable(wal[i], fl.seq)
    <2>1. CASE fl.seq > 0
        BY <1>0, <2>1, DeletablePrefix DEF IndInv, TypeOK, FlushState
    <2>2. CASE ~(fl.seq > 0)
        BY <1>0, <2>2, Segments DEF IndInv, TypeOK, FlushState
    <2> QED BY <2>1, <2>2
<1>1. TypeOK'
    <2>1. fl' \in FlushState
        BY <1>0, <1>a DEF IndInv, TypeOK, FlushState, FlushPCs
    <2> QED BY <2>1 DEF IndInv, TypeOK, FlushTruncate, disk, memory, counters
<1>2. ManifestInv'
    BY DEF IndInv, ManifestInv, FlushTruncate, disk, memory, locks, counters
<1>3. VersionInv'
    BY DEF IndInv, VersionInv, Alive, Replaying, FlushTruncate, disk, memory, locks, counters
<1>4. MemInv'
    BY DEF IndInv, MemInv, Alive, Replaying, FlushTruncate, disk, memory, locks, counters
<1>5. WalInv'
    BY DEF IndInv, WalInv, FlushTruncate, disk, memory, locks, counters
<1>6. WriterInv'
    BY DEF IndInv, WriterInv, FlushTruncate, disk, memory, locks, counters
<1>7. FlushInv'
    BY <1>a DEF IndInv, FlushInv, FlushTruncate, disk, memory
<1>8. ReplayInv'
    BY DEF IndInv, ReplayInv, Recovered, TableEntries, Replaying, FlushTruncate, disk, memory, locks, counters
<1>9. AckedInv'
    BY DEF IndInv, AckedInv, InWal, Stable, TableEntries, FlushTruncate, disk, memory, locks, counters
<1>10. NewInv'
    BY DEF IndInv, NewInv, FlushTruncate, disk, memory, locks, counters
<1> QED BY <1>1, <1>2, <1>3, <1>4, <1>5, <1>6, <1>7, <1>8, <1>9, <1>10 DEF IndInv

\* There is no obsolete file, so the cleanup removes none.
LEMMA FlushCleanupPreserves ==
    ASSUME NoTearing, IndInv, FlushCleanup
    PROVE  IndInv'
<1>0. /\ UNCHANGED <<files, version>>
      /\ fl' = IdleFlush
    <2>1. version.obsolete = {} /\ FilesOK(files) /\ VersionOK(version)
        BY DEF IndInv, VersionInv, TypeOK
    <2>2. files' = files
        BY <2>1, RemoveNothing DEF FlushCleanup, CleanupObsoleteFiles
    <2>3. version' = version
        BY <2>1 DEF FlushCleanup, CleanupObsoleteFiles, VersionOK
    <2> QED BY <2>2, <2>3 DEF FlushCleanup
<1>1. TypeOK'
    BY <1>0 DEF IndInv, TypeOK, FlushCleanup, IdleFlush, FlushState, FlushPCs, counters
<1>2. ManifestInv'
    BY <1>0 DEF IndInv, ManifestInv, FlushCleanup, IdleFlush, FlushState, FlushPCs, counters
<1>3. VersionInv'
    BY <1>0 DEF IndInv, VersionInv, Alive, Replaying, FlushCleanup, IdleFlush, FlushState, FlushPCs, counters
<1>4. MemInv'
    BY <1>0 DEF IndInv, MemInv, Alive, Replaying, FlushCleanup, IdleFlush, FlushState, FlushPCs, counters
<1>5. WalInv'
    BY <1>0 DEF IndInv, WalInv, FlushCleanup, IdleFlush, FlushState, FlushPCs, counters
<1>6. WriterInv'
    BY <1>0 DEF IndInv, WriterInv, FlushCleanup, IdleFlush, FlushState, FlushPCs, counters
<1>7. FlushInv'
    BY <1>0 DEF IndInv, FlushInv, FlushCleanup, IdleFlush, FlushState, FlushPCs, counters
<1>8. ReplayInv'
    BY <1>0 DEF IndInv, ReplayInv, Recovered, TableEntries, Replaying, FlushCleanup, IdleFlush, FlushState, FlushPCs, counters
<1>9. AckedInv'
    BY <1>0 DEF IndInv, AckedInv, InWal, Stable, TableEntries, FlushCleanup, IdleFlush, FlushState, FlushPCs, counters
<1>10. NewInv'
    BY <1>0 DEF IndInv, NewInv, FlushCleanup, IdleFlush, FlushState, FlushPCs, counters
<1> QED BY <1>1, <1>2, <1>3, <1>4, <1>5, <1>6, <1>7, <1>8, <1>9, <1>10 DEF IndInv

\* Reporting the error changes nothing the invariant speaks of.
LEMMA FlushSetErrorPreserves ==
    ASSUME IndInv, FlushSetError
    PROVE  IndInv'
<1>a. /\ fl.pc = "error" /\ phase = "up" /\ mu # "flush"
      /\ bgErr' = TRUE /\ fl' = IdleFlush
      /\ UNCHANGED <<wal, dirty, manifest, files, phase, nextSeq, nextFileNum, memtable,
                     immutables, version, mu, checked, wr, spawned, cursor, acked, crashes,
                     faults>>
    BY DEF FlushSetError, IndInv, FlushInv, disk, memory, counters
<1>b. TableEntries' = TableEntries
    BY <1>a DEF TableEntries
<1>1. TypeOK'
    <2>1. fl' \in FlushState
        BY <1>a DEF IdleFlush, FlushState, FlushPCs
    <2>2. bgErr' \in BOOLEAN
        BY <1>a
    <2> QED BY <1>a, <2>1, <2>2 DEF IndInv, TypeOK
<1>2. ManifestInv'
    BY <1>a DEF IndInv, ManifestInv
<1>3. VersionInv'
    BY <1>a DEF IndInv, VersionInv, Alive, Replaying
<1>4. MemInv'
    BY <1>a DEF IndInv, MemInv, Alive, Replaying
<1>5. WalInv'
    BY <1>a DEF IndInv, WalInv
<1>6. WriterInv'
    BY <1>a DEF IndInv, WriterInv
<1>7. FlushInv'
    BY <1>a DEF FlushInv, IdleFlush
<1>8. ReplayInv'
    BY <1>a DEF ReplayInv, Replaying
<1>9. AckedInv'
    <2>1. \A e : InWal(e) => InWal(e)'
        BY <1>a DEF InWal, Stable
    <2> QED BY <1>a, <1>b, <2>1 DEF IndInv, AckedInv
<1>10. NewInv'
    BY <1>a DEF NewInv
<1> QED BY <1>1, <1>2, <1>3, <1>4, <1>5, <1>6, <1>7, <1>8, <1>9, <1>10 DEF IndInv

\* A rotation alone adds an empty segment.
LEMMA LogRotates ==
    ASSUME wal \in Seq(Segment), wal # <<>>, dirty \in Nat,
           dirty <= Len(wal[Len(wal)])
    PROVE  LogExtends(wal, dirty, Rotated, RotatedDirty, {})
<1> DEFINE w == Rotated
           d == RotatedDirty
<1>1. /\ w \in Seq(Segment) /\ w # <<>>
      /\ \A i \in 1..Len(wal) : w[i] = wal[i]
      /\ \/ SegmentFull /\ Len(w) = Len(wal) + 1 /\ w[Len(wal) + 1] = <<>>
         \/ ~SegmentFull /\ w = wal
    BY RotateLog
<1>2. Len(wal) \in Nat /\ Len(wal) > 0
    BY Segments
<1> HIDE DEF w, d
<1>3. ASSUME SegmentFull PROVE LogExtends(wal, dirty, w, d, {})
    <2>1. d = 0 /\ Len(w) = Len(wal) + 1 /\ w[Len(w)] = <<>> /\ Len(w[Len(w)]) = 0
        BY <1>1, <1>3 DEF RotatedDirty, d
    <2>2. \A i \in 1..Len(w) : i \in 1..Len(wal) \/ i = Len(w)
        BY <1>2, <2>1
    <2>3. \A i \in 1..Len(wal) : i \in 1..Len(w) /\ i # Len(w)
        BY <1>2, <2>1
    <2>4. \A j \in 1..Len(w[Len(w)]) : FALSE
        BY <2>1
    <2>5. \A i \in 1..Len(w) : \A j \in 1..Len(w[i]) :
              i \in 1..Len(wal) /\ j \in 1..Len(wal[i]) /\ w[i][j] = wal[i][j]
        BY <1>1, <2>2, <2>4
    <2>6. Len(w) >= Len(wal)
        BY <1>2, <2>1
    <2> QED BY <1>1, <2>1, <2>3, <2>5, <2>6 DEF LogExtends
<1>4. ASSUME ~SegmentFull PROVE LogExtends(wal, dirty, w, d, {})
    <2>1. w = wal /\ d = dirty
        BY <1>1, <1>4 DEF RotatedDirty, d
    <2> QED BY <1>1, <1>2, <2>1 DEF LogExtends
<1> QED BY <1>3, <1>4 DEF w, d

(***************************************************************************)
(* A step of the running database that extends the log by records whose    *)
(* entries are within them, and touches neither tables nor memtables.      *)
(***************************************************************************)
LEMMA ExtendedLog ==
    ASSUME IndInv, phase = "up", phase' = "up",
           NEW R, LogExtends(wal, dirty, wal', dirty', R),
           \A r \in R : r.ok /\ \A e \in r.ents : e.seq <= r.last,
           UNCHANGED <<manifest, files, memory, fl, acked>>
    PROVE  /\ WalInv'
           /\ AckedInv'
           /\ fl.pc = "remove" =>
                 fl.ndel < Len(wal') /\ \A i \in 1..fl.ndel : Truncatable(wal'[i], fl.seq)
<1>1. wal \in Seq(Segment) /\ wal' \in Seq(Segment) /\ wal' # <<>>
    BY DEF IndInv, TypeOK, LogExtends
<1>2. /\ Len(wal) \in Nat /\ DOMAIN wal = 1..Len(wal)
      /\ \A i \in 1..Len(wal) : DOMAIN wal[i] = 1..Len(wal[i])
    BY <1>1, Segments
<1>3. /\ Len(wal') \in Nat /\ DOMAIN wal' = 1..Len(wal')
      /\ \A i \in 1..Len(wal') : DOMAIN wal'[i] = 1..Len(wal'[i])
    BY <1>1, Segments
<1>4. WalInv'
    <2>1. ASSUME NEW i \in 1..Len(wal'), NEW j \in 1..Len(wal'[i])
          PROVE  wal'[i][j].ok /\ \A e \in wal'[i][j].ents : e.seq <= wal'[i][j].last
        <3>1. CASE i \in 1..Len(wal) /\ j \in 1..Len(wal[i]) /\ wal'[i][j] = wal[i][j]
            BY <3>1, <1>2 DEF IndInv, WalInv
        <3>2. CASE wal'[i][j] \in R
            BY <3>2
        <3> QED BY <3>1, <3>2 DEF LogExtends
    <2>2. dirty' <= Len(wal'[Len(wal')])
        BY DEF LogExtends
    <2> QED BY <2>1, <2>2, <1>1, <1>3 DEF WalInv
<1>5. AckedInv'
    <2>1. TableEntries' = TableEntries
        BY DEF TableEntries
    <2>2. ASSUME NEW e, InWal(e) PROVE InWal(e)'
        <3>0. PICK i \in 1..Len(wal) : \E j \in 1..Len(wal[i]) :
                  /\ e \in wal[i][j].ents
                  /\ wal[i][j].last > ManifestCutoff(manifest)
                  /\ SyncWrites => (i = Len(wal) => j + dirty <= Len(wal[i]))
            BY <2>2, <1>2 DEF InWal, Stable
        <3>1. PICK j \in 1..Len(wal[i]) :
                  /\ e \in wal[i][j].ents
                  /\ wal[i][j].last > ManifestCutoff(manifest)
                  /\ SyncWrites => (i = Len(wal) => j + dirty <= Len(wal[i]))
            BY <3>0
        <3>2. /\ i \in 1..Len(wal') /\ j \in 1..Len(wal'[i]) /\ wal'[i][j] = wal[i][j]
              /\ SyncWrites => (i = Len(wal') => j + dirty' <= Len(wal'[i]))
            BY <3>1 DEF LogExtends
        <3>3. e \in wal'[i][j].ents /\ wal'[i][j].last > ManifestCutoff(manifest')
            BY <3>1, <3>2
        <3> QED BY <3>2, <3>3, <1>3 DEF InWal, Stable
    <2> QED BY <2>1, <2>2 DEF IndInv, AckedInv, memory
<1>6. ASSUME fl.pc = "remove"
      PROVE  fl.ndel < Len(wal') /\ \A i \in 1..fl.ndel : Truncatable(wal'[i], fl.seq)
    <2>1. /\ fl.ndel \in Nat /\ fl.ndel < Len(wal)
          /\ \A i \in 1..fl.ndel : Truncatable(wal[i], fl.seq)
        BY <1>6 DEF IndInv, TypeOK, FlushState, FlushInv
    <2>2. /\ Len(wal') >= Len(wal)
          /\ \A i \in 1..Len(wal) : i < Len(wal) => wal'[i] = wal[i]
        BY DEF LogExtends
    <2>3. \A i \in 1..fl.ndel : i \in 1..Len(wal) /\ i < Len(wal)
        BY <2>1, <1>2
    <2>4. fl.ndel < Len(wal')
        BY <2>1, <2>2, <1>2, <1>3
    <2>5. \A i \in 1..fl.ndel : wal'[i] = wal[i]
        BY <2>2, <2>3
    <2> QED BY <2>1, <2>4, <2>5
<1> QED BY <1>4, <1>5, <1>6

\* The entries and the record of a batch.
LEMMA BatchEntries ==
    ASSUME NEW batch \in Seq(Logical), NEW seq \in Nat
    PROVE  /\ Len(batch) \in Nat
           /\ EntriesOf(batch, seq) \subseteq Entry(Keys)
           /\ \A e \in EntriesOf(batch, seq) :
                 e.seq \in Nat /\ seq <= e.seq /\ e.seq <= seq + Len(batch) - 1
<1>1. Len(batch) \in Nat /\ DOMAIN batch = 1..Len(batch)
    BY LenProperties
<1>2. \A i \in 1..Len(batch) : batch[i].key \in Keys /\ batch[i].typ \in RecordTypes
    <2>1. \A i \in 1..Len(batch) : batch[i] \in Logical
        BY ElementOfSeq
    <2> QED BY <2>1 DEF Logical
<1>3. \A e \in EntriesOf(batch, seq) : \E i \in 1..Len(batch) :
          e = [key |-> batch[i].key, seq |-> seq + i - 1, typ |-> batch[i].typ]
    BY <1>1 DEF EntriesOf, InternalKeyOf
<1>4. EntriesOf(batch, seq) \subseteq Entry(Keys)
    BY <1>1, <1>2, <1>3 DEF Entry
<1>5. \A e \in EntriesOf(batch, seq) :
          e.seq \in Nat /\ seq <= e.seq /\ e.seq <= seq + Len(batch) - 1
    BY <1>1, <1>3
<1> QED BY <1>1, <1>4, <1>5

\* The record of a batch is a well-formed record of the log.
LEMMA BatchRecord ==
    ASSUME NEW batch \in Seq(Logical), batch # <<>>, NEW seq \in Nat
    PROVE  LET r == WalRecord(batch, seq)
           IN  /\ r \in LogRecord /\ r.ok /\ r.ents = EntriesOf(batch, seq)
               /\ r.last = seq + Len(batch) - 1 /\ r.last >= seq
               /\ \A e \in r.ents : e.seq <= r.last
<1>1. Len(batch) \in Nat /\ Len(batch) > 0
    BY LenProperties, EmptySeq
<1>2. seq + Len(batch) - 1 \in Nat /\ seq + Len(batch) - 1 >= seq
    BY <1>1
<1> QED BY <1>2, BatchEntries DEF WalRecord, LogRecord

\* The new record is the last of the log and disturbs no other.
LEMMA WriteAppendPreserves ==
    ASSUME IndInv, NEW op \in Ops, WriteAppend(op)
    PROVE  IndInv'
<1> DEFINE r == WalRecord(op.batch, nextSeq)
<1>a. /\ op.kind \in {"Put", "Write", "Delete"}
      /\ op.batch \in Seq(Logical) /\ op.batch # <<>> /\ nextSeq \in Nat
    BY OpsAssumption DEF IndInv, TypeOK
<1>b. /\ r \in LogRecord /\ r.ok
      /\ \A e \in r.ents : e.seq <= r.last
    BY <1>a, BatchRecord
<1>c. /\ phase = "up" /\ phase' = "up" /\ mu = "free" /\ mu' = "writer"
      /\ wal' = Appended(Rotated, r) /\ dirty' = RotatedDirty + 1
      /\ checked > 0 /\ checked' = checked - 1
      /\ wr' = [pc |-> IF SyncWrites THEN "appended" ELSE "synced",
                kind |-> op.kind, batch |-> op.batch]
      /\ UNCHANGED <<manifest, files, memory, bgErr, spawned, fl, cursor, acked, counters>>
    BY DEF WriteAppend, CanWrite
<1>d. wal \in Seq(Segment) /\ wal # <<>> /\ dirty \in Nat /\ dirty <= Len(wal[Len(wal)])
    BY <1>c DEF IndInv, TypeOK, WalInv
<1> HIDE DEF r
<1>e. /\ LogExtends(wal, dirty, wal', dirty', {r})
      /\ wal'[Len(wal')] # <<>> /\ wal'[Len(wal')][Len(wal'[Len(wal')])] = r
    BY <1>b, <1>c, <1>d, LogGrows
<1>f. /\ WalInv' /\ AckedInv'
      /\ fl.pc = "remove" =>
            fl.ndel < Len(wal') /\ \A i \in 1..fl.ndel : Truncatable(wal'[i], fl.seq)
    BY <1>b, <1>c, <1>e, ExtendedLog
<1>1. TypeOK'
    <2>1. wr' \in WriterState
        BY <1>a, <1>c, SyncAssumption DEF WriterState
    <2>2. checked' \in Nat
        BY <1>c DEF IndInv, TypeOK
    <2>3. wal' \in Seq(Segment) /\ dirty' \in Nat
        BY <1>e DEF LogExtends
    <2> QED BY <1>c, <2>1, <2>2, <2>3 DEF IndInv, TypeOK, memory, counters
<1>2. ManifestInv'
    BY <1>c DEF IndInv, ManifestInv
<1>3. VersionInv'
    BY <1>c DEF IndInv, VersionInv, Alive, Replaying, memory
<1>4. MemInv'
    BY <1>c DEF IndInv, MemInv, Alive, Replaying, memory
<1>5. WriterInv'
    <2>1. wal' # <<>>
        BY <1>e DEF LogExtends
    <2> QED BY <1>a, <1>c, <1>e, <2>1 DEF WriterInv, memory, r
<1>6. FlushInv'
    <2>1. fl.pc # "cutoff"
        BY <1>c DEF IndInv, FlushInv
    <2> QED BY <1>c, <1>f, <2>1 DEF IndInv, FlushInv, memory
<1>7. ReplayInv'
    BY <1>c DEF ReplayInv, Replaying
<1>8. NewInv'
    BY <1>c DEF NewInv
<1> QED BY <1>f, <1>1, <1>2, <1>3, <1>4, <1>5, <1>6, <1>7, <1>8 DEF IndInv

\* A failed append adds at most an empty segment.
LEMMA WriteAppendFailsPreserves ==
    ASSUME IndInv, NEW op \in Ops, WriteAppendFails(op)
    PROVE  IndInv'
<1>c. /\ phase = "up" /\ phase' = "up" /\ mu = "free"
      /\ checked > 0 /\ checked' = checked - 1
      /\ UNCHANGED <<manifest, files, memory, bgErr, mu, wr, spawned, fl, cursor, acked, crashes>>
      /\ faults' = faults + 1
      /\ \/ UNCHANGED <<wal, dirty>>
         \/ wal' = Rotated /\ dirty' = RotatedDirty
    BY DEF WriteAppendFails, CanWrite, Fault
<1>d. wal \in Seq(Segment) /\ wal # <<>> /\ dirty \in Nat /\ dirty <= Len(wal[Len(wal)])
    BY <1>c DEF IndInv, TypeOK, WalInv
<1>e. LogExtends(wal, dirty, wal', dirty', {})
    <2>1. CASE UNCHANGED <<wal, dirty>>
        <3>1. Len(wal) \in Nat
            BY <1>d, Segments
        <3> QED BY <1>d, <2>1, <3>1 DEF LogExtends
    <2>2. CASE wal' = Rotated /\ dirty' = RotatedDirty
        BY <1>d, <2>2, LogRotates
    <2> QED BY <1>c, <2>1, <2>2
<1>f. /\ WalInv' /\ AckedInv'
      /\ fl.pc = "remove" =>
            fl.ndel < Len(wal') /\ \A i \in 1..fl.ndel : Truncatable(wal'[i], fl.seq)
    BY <1>c, <1>e, ExtendedLog
<1>1. TypeOK'
    <2>2. checked' \in Nat /\ faults' \in Nat
        BY <1>c DEF IndInv, TypeOK
    <2>3. wal' \in Seq(Segment) /\ dirty' \in Nat
        BY <1>e DEF LogExtends
    <2> QED BY <1>c, <2>2, <2>3 DEF IndInv, TypeOK, memory
<1>2. ManifestInv'
    BY <1>c DEF IndInv, ManifestInv
<1>3. VersionInv'
    BY <1>c DEF IndInv, VersionInv, Alive, Replaying, memory
<1>4. MemInv'
    BY <1>c DEF IndInv, MemInv, Alive, Replaying, memory
<1>5. WriterInv'
    BY <1>c DEF IndInv, WriterInv, TypeOK
<1>6. FlushInv'
    BY <1>c, <1>f DEF IndInv, FlushInv, memory
<1>7. ReplayInv'
    BY <1>c DEF ReplayInv, Replaying
<1>8. NewInv'
    BY <1>c DEF NewInv
<1> QED BY <1>f, <1>1, <1>2, <1>3, <1>4, <1>5, <1>6, <1>7, <1>8 DEF IndInv

-----------------------------------------------------------------------------
(* Steps that end the process.                                             *)

\* The same tables with the same contents hold the same entries.
LEMMA SameTables ==
    ASSUME ManifestTables(manifest') = ManifestTables(manifest),
           \A t \in ManifestTables(manifest) :
              t.num \in DOMAIN files /\ t.num \in DOMAIN files' /\ files'[t.num] = files[t.num]
    PROVE  TableEntries' = TableEntries
<1>1. {u \in ManifestTables(manifest') : u.num \in DOMAIN files'} = ManifestTables(manifest)
    OBVIOUS
<1>2. {u \in ManifestTables(manifest) : u.num \in DOMAIN files} = ManifestTables(manifest)
    OBVIOUS
<1>3. {files'[t.num] : t \in ManifestTables(manifest)} = {files[t.num] : t \in ManifestTables(manifest)}
    OBVIOUS
<1> QED BY <1>1, <1>2, <1>3 DEF TableEntries

\* More tables with the same contents hold no fewer entries.
LEMMA MoreTables ==
    ASSUME ManifestTables(manifest) \subseteq ManifestTables(manifest'),
           \A t \in ManifestTables(manifest) :
              t.num \in DOMAIN files /\ t.num \in DOMAIN files' /\ files'[t.num] = files[t.num]
    PROVE  TableEntries \subseteq TableEntries'
<1>1. ASSUME NEW e \in TableEntries PROVE e \in TableEntries'
    <2>1. PICK t \in ManifestTables(manifest) : e \in files[t.num]
        BY DEF TableEntries
    <2> QED BY <2>1 DEF TableEntries
<1> QED BY <1>1

\* An entry stays in the log when the log stays as it is or is fsynced.
LEMMA StaysInWal ==
    ASSUME TypeOK, wal' = wal, dirty' \in Nat, dirty' <= dirty,
           ManifestCutoff(manifest) \in Nat, ManifestCutoff(manifest') \in Nat,
           ManifestCutoff(manifest') <= ManifestCutoff(manifest),
           NEW e, InWal(e)
    PROVE  InWal(e)'
<1>1. PICK i \in DOMAIN wal : \E j \in DOMAIN wal[i] :
          /\ e \in wal[i][j].ents
          /\ wal[i][j].last > ManifestCutoff(manifest)
          /\ SyncWrites => (i = Len(wal) => j + dirty <= Len(wal[i]))
    BY DEF InWal, Stable
<1>2. PICK j \in DOMAIN wal[i] :
          /\ e \in wal[i][j].ents
          /\ wal[i][j].last > ManifestCutoff(manifest)
          /\ SyncWrites => (i = Len(wal) => j + dirty <= Len(wal[i]))
    BY <1>1
<1>3. /\ j \in Nat /\ Len(wal[i]) \in Nat /\ dirty \in Nat /\ wal[i][j].last \in Nat
    <2>1. wal \in Seq(Segment) /\ dirty \in Nat
        BY DEF TypeOK
    <2>2. j \in Nat /\ Len(wal[i]) \in Nat /\ wal[i][j] \in LogRecord
        BY <2>1, Segments
    <2> QED BY <2>1, <2>2 DEF LogRecord
<1>4. SyncWrites => (i = Len(wal) => j + dirty' <= Len(wal[i]))
    BY <1>2, <1>3
<1>5. wal[i][j].last > ManifestCutoff(manifest')
    BY <1>2, <1>3
<1> QED BY <1>2, <1>4, <1>5 DEF InWal, Stable

(***************************************************************************)
(* After the process ends only the directory matters: whatever a crash or  *)
(* a failed Open leaves satisfies the invariant when the log and the       *)
(* MANIFEST are intact and hold the acknowledged writes.                   *)
(***************************************************************************)
LEMMA EndedProcess ==
    ASSUME ProcessEnds,
           wal' \in Seq(Segment), dirty' \in Nat, WalInv',
           GoodManifest(manifest'), FilesOK(files'),
           \A t \in ManifestTables(manifest') : t.num \in DOMAIN files',
           acked' \subseteq Entry(Keys), crashes' \in Nat, faults' \in Nat,
           \A e \in acked' : e \in TableEntries' \/ InWal(e)'
    PROVE  IndInv'
<1>0. /\ phase' = "down" /\ nextSeq' = 1 /\ nextFileNum' = 1
      /\ memtable' = {} /\ immutables' = <<>> /\ version' = NewVersionSet
      /\ bgErr' = FALSE /\ mu' = "free" /\ checked' = 0 /\ wr' = IdleWriter
      /\ spawned' = 0 /\ fl' = IdleFlush /\ cursor' = <<1, 1>>
    BY DEF ProcessEnds
<1>1. TypeOK'
    <2>1. VersionOK(version') /\ version'.obsolete = {}
        BY <1>0, FS_EmptySet DEF VersionOK, NewVersionSet
    <2>2. wr' \in WriterState
        BY <1>0 DEF WriterState, IdleWriter
    <2>3. fl' \in FlushState
        BY <1>0 DEF FlushState, FlushPCs, IdleFlush
    <2>4. ManifestOK(manifest')
        BY DEF GoodManifest, ManifestOK
    <2>5. phase' \in Phases
        BY <1>0 DEF Phases
    <2>6. /\ nextSeq' \in Nat \ {0} /\ nextFileNum' \in Nat \ {0} /\ bgErr' \in BOOLEAN
          /\ mu' \in {"free", "writer", "flush"} /\ checked' \in Nat /\ spawned' \in Nat
          /\ cursor' \in Nat \X Nat /\ memtable' \subseteq Entry(Keys)
        <3>1. bgErr' \in BOOLEAN
            BY <1>0
        <3>2. mu' \in {"free", "writer", "flush"} /\ memtable' \subseteq Entry(Keys)
            BY <1>0
        <3>3. cursor' \in Nat \X Nat
            BY <1>0
        <3>4. nextSeq' \in Nat \ {0} /\ nextFileNum' \in Nat \ {0} /\ checked' \in Nat /\ spawned' \in Nat
            BY <1>0
        <3> QED BY <3>1, <3>2, <3>3, <3>4
    <2>7. immutables' \in Seq(SUBSET Entry(Keys))
        BY <1>0
    <2> QED BY <2>1, <2>2, <2>3, <2>4, <2>5, <2>6, <2>7 DEF TypeOK
<1>2. ManifestInv'
    BY DEF GoodManifest, ManifestInv
<1>3. VersionInv'
    BY <1>0 DEF VersionInv, Alive, Replaying, NewVersionSet
<1>4. MemInv'
    BY <1>0 DEF MemInv, Alive, Replaying
<1>5. WriterInv'
    BY <1>0 DEF WriterInv, IdleWriter
<1>6. FlushInv'
    BY <1>0 DEF FlushInv, IdleFlush
<1>7. ReplayInv'
    BY <1>0 DEF ReplayInv, Replaying
<1>8. AckedInv'
    BY <1>0 DEF AckedInv
<1>9. NewInv'
    BY <1>0 DEF NewInv
<1> QED BY <1>1, <1>2, <1>3, <1>4, <1>5, <1>6, <1>7, <1>8, <1>9 DEF IndInv

\* A crash leaves the directory, where every acknowledged write is.
LEMMA CrashPreserves ==
    ASSUME IndInv, Crash
    PROVE  IndInv'
<1>1. /\ ProcessEnds /\ phase' = "down" /\ crashes' = crashes + 1
      /\ UNCHANGED <<wal, dirty, manifest, files, acked, faults>>
    BY DEF Crash, ProcessEnds, disk
<1>2. WalInv'
    BY <1>1 DEF IndInv, WalInv
<1>3. TableEntries' = TableEntries
    BY <1>1, SameTables DEF IndInv, VersionInv
<1>5. GoodManifest(manifest')
    BY <1>1, ManifestIsGood DEF IndInv
<1>b. ManifestCutoff(manifest) \in Nat /\ manifest' = manifest /\ wal' = wal
      /\ dirty \in Nat /\ dirty' = dirty
    BY <1>1, <1>5, GoodManifestFacts DEF IndInv, TypeOK
<1>4. \A e \in acked' : e \in TableEntries' \/ InWal(e)'
    BY <1>1, <1>b, <1>3, StaysInWal DEF IndInv, AckedInv
<1>6. /\ wal' \in Seq(Segment) /\ dirty' \in Nat /\ FilesOK(files')
      /\ \A t \in ManifestTables(manifest') : t.num \in DOMAIN files'
      /\ acked' \subseteq Entry(Keys) /\ crashes' \in Nat /\ faults' \in Nat
    BY <1>1 DEF IndInv, TypeOK, VersionInv
<1> QED BY <1>1, <1>2, <1>4, <1>5, <1>6, EndedProcess

\* Close fsyncs the log and leaves a directory a recovery can start from.
LEMMA ClosePreserves ==
    ASSUME IndInv, Close
    PROVE  IndInv'
<1>0. files' = files
    BY RemoveNothing DEF Close, IndInv, VersionInv, TypeOK
<1>1. /\ ProcessEnds /\ phase' = "down" /\ crashes' = crashes + 1 /\ dirty' = 0
      /\ UNCHANGED <<wal, manifest, files, acked, faults>>
    BY <1>0 DEF Close, ProcessEnds
<1>a. wal \in Seq(Segment) /\ dirty \in Nat /\ dirty' \in Nat /\ dirty' <= dirty
    BY <1>1 DEF IndInv, TypeOK
<1>2. WalInv'
    <2>1. wal # <<>> => Len(wal[Len(wal)]) \in Nat
        BY <1>a, Segments
    <2> QED BY <1>1, <2>1 DEF IndInv, WalInv
<1>3. TableEntries' = TableEntries
    BY <1>1, SameTables DEF IndInv, VersionInv
<1>5. GoodManifest(manifest')
    BY <1>1, ManifestIsGood DEF IndInv
<1>b. ManifestCutoff(manifest) \in Nat /\ manifest' = manifest
    BY <1>1, <1>5, GoodManifestFacts
<1>4. \A e \in acked' : e \in TableEntries' \/ InWal(e)'
    BY <1>1, <1>a, <1>b, <1>3, StaysInWal DEF IndInv, AckedInv
<1>6. /\ wal' \in Seq(Segment) /\ dirty' \in Nat /\ FilesOK(files')
      /\ \A t \in ManifestTables(manifest') : t.num \in DOMAIN files'
      /\ acked' \subseteq Entry(Keys) /\ crashes' \in Nat /\ faults' \in Nat
    BY <1>1 DEF IndInv, TypeOK, VersionInv
<1> QED BY <1>1, <1>2, <1>4, <1>5, <1>6, EndedProcess

\* The table check never fails: the MANIFEST names no missing file.
LEMMA OpenMissingPreserves ==
    ASSUME IndInv, OpenMissing
    PROVE  IndInv'
<1>1. phase = "open"
    BY DEF OpenMissing
<1>2. Alive
    BY <1>1 DEF Alive
<1>3. \A t \in version.tables : t.num \in DOMAIN files
    BY <1>2 DEF IndInv, VersionInv
<1>4. TablesPresent
    BY <1>3 DEF TablesPresent, FileNums
<1> QED BY <1>4 DEF OpenMissing

\* A loss of power leaves every record that was fsynced.
LEMMA PowerLossPreserves ==
    ASSUME IndInv, PowerLoss
    PROVE  IndInv'
<1> DEFINE n == Len(wal)
<1>1. /\ ProcessEnds /\ phase' = "down" /\ crashes' = crashes + 1 /\ dirty' = 0
      /\ wal # <<>>
      /\ UNCHANGED <<manifest, files, faults>>
      /\ acked' = IF SyncWrites THEN acked ELSE acked \cap Recoverable'
    BY DEF PowerLoss, ProcessEnds
<1>2. PICK lost \in 0..dirty :
          wal' = [wal EXCEPT ![Len(wal)] = SubSeq(@, 1, Len(@) - lost)]
    BY DEF PowerLoss
<1>3. /\ wal \in Seq(Segment) /\ dirty \in Nat /\ n \in Nat /\ n > 0 /\ DOMAIN wal = 1..n
      /\ \A i \in 1..n : /\ wal[i] \in Seq(LogRecord)
                         /\ Len(wal[i]) \in Nat /\ DOMAIN wal[i] = 1..Len(wal[i])
    BY <1>1, Segments DEF IndInv, TypeOK
<1>4. n \in 1..n /\ dirty <= Len(wal[n])
    BY <1>1, <1>3 DEF IndInv, WalInv
<1> DEFINE k == Len(wal[n]) - lost
           seg == SubSeq(wal[n], 1, k)
<1>5. /\ k \in Nat /\ k <= Len(wal[n]) /\ Len(wal[n]) - dirty <= k
    BY <1>2, <1>3, <1>4
<1>6. /\ seg \in Segment /\ Len(seg) = k
      /\ \A j \in 1..k : seg[j] = wal[n][j]
    <2>1. wal[n] \in Seq(LogRecord) /\ Len(wal[n]) \in Nat
        BY <1>3, <1>4
    <2> HIDE DEF k
    <2>2. \A j \in 1..k : j \in 1..Len(wal[n])
        BY <1>5, <2>1
    <2>3. \A j \in 1..k : wal[n][j] \in LogRecord
        BY <2>1, <2>2, ElementOfSeq
    <2> QED BY <1>5, <2>1, <2>2, <2>3, SubSeqProperties DEF Segment
<1> HIDE DEF seg, k
<1>7. /\ wal' \in Seq(Segment) /\ Len(wal') = n
      /\ \A i \in 1..n : wal'[i] = IF i = n THEN seg ELSE wal[i]
    <2>1. wal' = [wal EXCEPT ![n] = seg]
        BY <1>2 DEF seg, k
    <2> QED BY <1>3, <1>4, <1>6, <2>1, ExceptSeq
<1> HIDE DEF n
<1>8. /\ DOMAIN wal' = 1..n /\ wal' # <<>> /\ wal'[n] = seg
      /\ \A i \in 1..n : /\ DOMAIN wal'[i] = 1..Len(wal'[i]) /\ Len(wal'[i]) \in Nat
                         /\ \A j \in 1..Len(wal'[i]) :
                                j \in 1..Len(wal[i]) /\ wal'[i][j] = wal[i][j]
    <2>1. DOMAIN wal' = 1..n /\ wal' # <<>>
        BY <1>3, <1>7, Segments
    <2>2. ASSUME NEW i \in 1..n
          PROVE  /\ DOMAIN wal'[i] = 1..Len(wal'[i]) /\ Len(wal'[i]) \in Nat
                 /\ \A j \in 1..Len(wal'[i]) :
                        j \in 1..Len(wal[i]) /\ wal'[i][j] = wal[i][j]
        <3>1. DOMAIN wal'[i] = 1..Len(wal'[i]) /\ Len(wal'[i]) \in Nat
            BY <1>7, Segments
        <3>2. CASE i = n
            <4>1. wal'[i] = seg /\ wal[i] = wal[n]
                BY <1>7, <3>2
            <4>2. \A j \in 1..k : j \in 1..Len(wal[n])
                BY <1>3, <1>4, <1>5
            <4> QED BY <3>1, <4>1, <4>2, <1>6
        <3>3. CASE i # n
            BY <3>1, <3>3, <1>7
        <3> QED BY <3>2, <3>3
    <2> QED BY <1>4, <1>7, <2>1, <2>2
<1>9. WalInv'
    <2>1. \A i \in DOMAIN wal' : \A j \in DOMAIN wal'[i] :
              wal'[i][j].ok /\ \A e \in wal'[i][j].ents : e.seq <= wal'[i][j].last
        BY <1>3, <1>8 DEF IndInv, WalInv
    <2>2. dirty' <= Len(wal'[Len(wal')])
        BY <1>1, <1>4, <1>7, <1>8
    <2> QED BY <1>1, <1>8, <2>1, <2>2 DEF WalInv
<1>10. TableEntries' = TableEntries
    BY <1>1, SameTables DEF IndInv, VersionInv
<1>11. ASSUME SyncWrites, NEW e, InWal(e) PROVE InWal(e)'
    <2>1. PICK i \in 1..n : \E j \in 1..Len(wal[i]) :
              /\ e \in wal[i][j].ents
              /\ wal[i][j].last > ManifestCutoff(manifest)
              /\ i = n => j + dirty <= Len(wal[i])
        BY <1>3, <1>11 DEF InWal, Stable, n
    <2>2. PICK j \in 1..Len(wal[i]) :
              /\ e \in wal[i][j].ents
              /\ wal[i][j].last > ManifestCutoff(manifest)
              /\ i = n => j + dirty <= Len(wal[i])
        BY <2>1
    <2>3. j \in 1..Len(wal'[i])
        <3>1. CASE i = n
            <4>1. j <= k
                BY <2>2, <3>1, <1>3, <1>4, <1>5
            <4> QED BY <4>1, <3>1, <1>5, <1>6, <1>8
        <3>2. CASE i # n
            BY <3>2, <1>7
        <3> QED BY <3>1, <3>2
    <2>4. wal'[i][j] = wal[i][j] /\ i \in DOMAIN wal' /\ j \in DOMAIN wal'[i]
        BY <2>3, <1>8
    <2>5. j + dirty' <= Len(wal'[i])
        BY <2>3, <1>1, <1>8
    <2> QED BY <1>1, <2>2, <2>4, <2>5 DEF InWal, Stable
<1>12. ASSUME ~SyncWrites, NEW e \in Recoverable' PROVE e \in TableEntries' \/ InWal(e)'
    <2>1. CASE e \in TableEntries'
        BY <2>1
    <2>2. CASE e \in ReplayableEntries'
        <3>1. PICK i \in DOMAIN wal' : \E j \in DOMAIN wal'[i] :
                  e \in wal'[i][j].ents /\ wal'[i][j].last > ManifestCutoff(manifest')
            BY <2>2 DEF ReplayableEntries
        <3> QED BY <3>1, <1>12 DEF InWal, Stable
    <2> QED BY <2>1, <2>2 DEF Recoverable
<1>13. \A e \in acked' : e \in TableEntries' \/ InWal(e)'
    BY <1>1, <1>10, <1>11, <1>12, SyncAssumption DEF IndInv, AckedInv
<1>14. GoodManifest(manifest')
    BY <1>1, ManifestIsGood DEF IndInv
<1>15. /\ dirty' \in Nat /\ FilesOK(files')
       /\ \A t \in ManifestTables(manifest') : t.num \in DOMAIN files'
       /\ acked' \subseteq Entry(Keys) /\ crashes' \in Nat /\ faults' \in Nat
    BY <1>1 DEF IndInv, TypeOK, VersionInv
<1> QED BY <1>1, <1>7, <1>9, <1>13, <1>14, <1>15, EndedProcess

-----------------------------------------------------------------------------
(* The end of a write.                                                     *)

\* A call is acknowledged when its record is stable in the log and its
\* entries are in the memtable, or in the one just frozen.
LEMMA WriteApplyPreserves ==
    ASSUME IndInv, WriteApply
    PROVE  IndInv'
<1> DEFINE ents == EntriesOf(wr.batch, nextSeq)
           full == MustRotate(wr.kind, memtable \cup ents)
           all == memtable \cup ents
           last == nextSeq + Len(wr.batch) - 1
<1>a. /\ wr.pc = "synced" /\ mu = "writer" /\ phase = "up"
      /\ memtable' = IF full THEN {} ELSE all
      /\ immutables' = IF full THEN Append(immutables, all) ELSE immutables
      /\ spawned' = IF full THEN spawned + 1 ELSE spawned
      /\ nextSeq' = nextSeq + Len(wr.batch)
      /\ acked' = acked \cup ents
      /\ wr' = IdleWriter /\ mu' = "free"
      /\ UNCHANGED <<wal, dirty, manifest, files, phase, nextFileNum, version, bgErr,
                     checked, fl, cursor, crashes, faults>>
    BY DEF IndInv, WriterInv, WriteApply, SpawnFlush, SeqAfter, disk, counters
<1>b. wr.batch \in Seq(Logical) /\ wr.batch # <<>> /\ nextSeq \in Nat \ {0}
    BY <1>a DEF IndInv, TypeOK, WriterState, WriterInv
<1>c. /\ Len(wr.batch) \in Nat /\ Len(wr.batch) > 0
      /\ ents \subseteq Entry(Keys)
      /\ \A e \in ents : e.seq \in Nat /\ nextSeq <= e.seq /\ e.seq <= last
    <2>1. Len(wr.batch) \in Nat /\ Len(wr.batch) > 0
        BY <1>b, EmptySeq, LenProperties
    <2>2. nextSeq \in Nat
        BY <1>b
    <2>3. /\ EntriesOf(wr.batch, nextSeq) \subseteq Entry(Keys)
          /\ \A e \in EntriesOf(wr.batch, nextSeq) :
                e.seq \in Nat /\ nextSeq <= e.seq /\ e.seq <= nextSeq + Len(wr.batch) - 1
        BY <1>b, <2>2, BatchEntries
    <2> QED BY <2>1, <2>3
<1> HIDE DEF full
<1>d. nextSeq' \in Nat \ {0} /\ nextSeq < nextSeq' /\ last = nextSeq' - 1
    <2>1. nextSeq' = nextSeq + Len(wr.batch)
        BY <1>a
    <2>2. Len(wr.batch) \in Nat /\ Len(wr.batch) > 0
        BY <1>c
    <2>3. nextSeq \in Nat \ {0}
        BY <1>b
    <2> QED BY <2>1, <2>2, <2>3
<1> HIDE DEF ents, last
<1>e. /\ memtable \subseteq Entry(Keys) /\ all \subseteq Entry(Keys)
      /\ \A e \in Entry(Keys) : e.seq \in Nat
    BY <1>c DEF IndInv, TypeOK, Entry
<1>f. /\ \A e \in memtable : e.seq < nextSeq
      /\ \A e \in all : e.seq < nextSeq'
    <2>1. \A e \in memtable : e.seq < nextSeq
        BY DEF IndInv, MemInv
    <2>2. \A e \in memtable : e.seq < nextSeq'
        BY <2>1, <1>b, <1>d, <1>e
    <2>3. \A e \in ents : e.seq < nextSeq'
        BY <1>b, <1>c, <1>d
    <2> QED BY <2>1, <2>2, <2>3
<1>g. /\ immutables \in Seq(SUBSET Entry(Keys)) /\ Len(immutables) \in Nat
      /\ DOMAIN immutables = 1..Len(immutables)
      /\ \A i \in 1..Len(immutables) : immutables[i] \subseteq Entry(Keys)
    <2>1. immutables \in Seq(SUBSET Entry(Keys))
        BY DEF IndInv, TypeOK
    <2> QED BY <2>1, LenProperties, ElementOfSeq
<1>h. /\ \A i \in 1..Len(immutables) : \A e \in immutables[i] :
            /\ e.seq \in Nat /\ e.seq < nextSeq /\ e.seq < nextSeq'
            /\ \A f \in all : e.seq < f.seq
      /\ \A i, j \in 1..Len(immutables) : i < j =>
            \A e \in immutables[i] : \A f \in immutables[j] : e.seq < f.seq
    <2>1. ASSUME NEW i \in 1..Len(immutables), NEW e \in immutables[i]
          PROVE  /\ e.seq \in Nat /\ e.seq < nextSeq /\ e.seq < nextSeq'
                 /\ \A f \in all : e.seq < f.seq
        <3>1. e.seq \in Nat
            BY <1>e, <1>g
        <3>2. e.seq < nextSeq /\ \A f \in memtable : e.seq < f.seq
            BY <1>g DEF IndInv, MemInv
        <3>3. \A f \in ents : e.seq < f.seq
            BY <3>1, <3>2, <1>b, <1>c
        <3>4. e.seq < nextSeq'
            BY <3>1, <3>2, <1>b, <1>d
        <3> QED BY <3>1, <3>2, <3>3, <3>4
    <2>2. \A i, j \in 1..Len(immutables) : i < j =>
              \A e \in immutables[i] : \A f \in immutables[j] : e.seq < f.seq
        BY <1>g DEF IndInv, MemInv
    <2> QED BY <2>1, <2>2
<1> HIDE DEF all
<1>i. ASSUME full
      PROVE  /\ immutables' \in Seq(SUBSET Entry(Keys)) /\ immutables' # <<>>
             /\ DOMAIN immutables' = 1..(Len(immutables) + 1)
             /\ \A i \in 1..Len(immutables) : immutables'[i] = immutables[i]
             /\ immutables'[Len(immutables) + 1] = all
             /\ memtable' = {}
    <2>1. immutables' = Append(immutables, all) /\ memtable' = {} /\ all \in SUBSET Entry(Keys)
        BY <1>a, <1>i, <1>e
    <2>2. /\ Append(immutables, all) \in Seq(SUBSET Entry(Keys))
          /\ Append(immutables, all) # <<>>
          /\ Len(Append(immutables, all)) = Len(immutables) + 1
          /\ \A i \in 1..Len(immutables) : Append(immutables, all)[i] = immutables[i]
          /\ Append(immutables, all)[Len(immutables) + 1] = all
        BY <2>1, <1>g, AppendProperties
    <2>3. DOMAIN immutables' = 1..Len(immutables')
        BY <2>1, <2>2, LenProperties
    <2> QED BY <2>1, <2>2, <2>3
<1>j. ASSUME ~full PROVE immutables' = immutables /\ memtable' = all
    BY <1>a, <1>j
<1>k. immutables # <<>> => immutables' # <<>> /\ Head(immutables') = Head(immutables)
    <2>1. CASE full
        <3> SUFFICES ASSUME immutables # <<>>
                     PROVE  immutables' # <<>> /\ Head(immutables') = Head(immutables)
            OBVIOUS
        <3>1. Len(immutables) > 0 /\ Head(immutables) = immutables[1]
            BY <1>g, EmptySeq, HeadTailProperties
        <3>2. 1 \in 1..Len(immutables)
            BY <3>1, <1>g
        <3>3. Head(immutables') = immutables'[1] /\ immutables' # <<>>
            BY <1>i, <2>1, HeadTailProperties
        <3> QED BY <1>i, <2>1, <3>1, <3>2, <3>3
    <2>2. CASE ~full
        BY <1>j, <2>2
    <2> QED BY <2>1, <2>2
<1>1. TypeOK'
    <2>1. wr' \in WriterState
        BY <1>a DEF WriterState, IdleWriter
    <2>2. memtable' \subseteq Entry(Keys) /\ immutables' \in Seq(SUBSET Entry(Keys))
        BY <1>e, <1>g, <1>i, <1>j
    <2>3. spawned' \in Nat
        BY <1>a DEF IndInv, TypeOK
    <2>4. acked' \subseteq Entry(Keys)
        BY <1>a, <1>c DEF IndInv, TypeOK
    <2>5. nextSeq' \in Nat \ {0}
        BY <1>d
    <2>6. mu' \in {"free", "writer", "flush"}
        BY <1>a
    <2> QED BY <1>a, <2>1, <2>2, <2>3, <2>4, <2>5, <2>6 DEF IndInv, TypeOK
<1>2. ManifestInv'
    BY <1>a DEF IndInv, ManifestInv
<1>l. ManifestCutoff(manifest) \in Nat /\ ManifestCutoff(manifest) < nextSeq
    BY <1>a, ManifestIsGood, GoodManifestFacts DEF IndInv, VersionInv, Alive
<1>3. VersionInv'
    <2>1. \A t \in version.tables : t.largestSeq \in Nat /\ t.largestSeq < nextSeq
        BY <1>a DEF IndInv, VersionInv, Alive, TypeOK, VersionOK, TableOK
    <2>2. \A t \in version.tables : t.largestSeq < nextSeq'
        BY <2>1, <1>b, <1>d
    <2>3. ManifestCutoff(manifest) < nextSeq'
        BY <1>l, <1>b, <1>d
    <2> QED BY <1>a, <2>2, <2>3 DEF IndInv, VersionInv, Alive, Replaying
<1>4. MemInv'
    <2>1. CASE full
        <3>1. ASSUME NEW i \in DOMAIN immutables', NEW e \in immutables'[i]
              PROVE  /\ e.seq < nextSeq'
                     /\ \A j \in DOMAIN immutables' : i < j => \A f \in immutables'[j] : e.seq < f.seq
            <4>1. CASE i = Len(immutables) + 1
                BY <1>f, <1>g, <1>i, <2>1, <4>1
            <4>2. CASE i \in 1..Len(immutables)
                <5>1. e \in immutables[i] /\ e.seq < nextSeq'
                    BY <1>h, <1>i, <2>1, <4>2
                <5>2. ASSUME NEW j \in DOMAIN immutables', i < j, NEW f \in immutables'[j]
                      PROVE  e.seq < f.seq
                    <6>1. CASE j = Len(immutables) + 1
                        BY <1>h, <1>i, <2>1, <4>2, <5>1, <5>2, <6>1
                    <6>2. CASE j \in 1..Len(immutables)
                        BY <1>h, <1>i, <2>1, <4>2, <5>1, <5>2, <6>2
                    <6> QED BY <6>1, <6>2, <1>g, <1>i, <2>1
                <5> QED BY <5>1, <5>2
            <4> QED BY <4>1, <4>2, <1>g, <1>i, <2>1
        <3> QED BY <1>a, <1>i, <2>1, <3>1 DEF MemInv, Alive
    <2>2. CASE ~full
        BY <1>a, <1>f, <1>g, <1>h, <1>j, <2>2 DEF MemInv, Alive
    <2> QED BY <2>1, <2>2
<1>5. WalInv'
    BY <1>a DEF IndInv, WalInv
<1>6. WriterInv'
    BY <1>a DEF WriterInv, IdleWriter
<1>7. FlushInv'
    <2>1. fl.pc # "cutoff"
        BY <1>a DEF IndInv, FlushInv
    <2> QED BY <1>a, <1>k, <2>1 DEF IndInv, FlushInv
<1>8. ReplayInv'
    BY <1>a DEF ReplayInv, Replaying
<1>9. AckedInv'
    <2>1. TableEntries' = TableEntries
        BY <1>a DEF TableEntries
    <2>2. ASSUME NEW e, InWal(e) PROVE InWal(e)'
        BY <2>2, <1>a DEF InWal, Stable
    <2>3. ASSUME NEW e \in ents PROVE InWal(e)
        <3> DEFINE i == Len(wal)
                   j == Len(wal[i])
        <3>1. wal # <<>> /\ wal[i] # <<>> /\ wal[i][j] = WalRecord(wr.batch, nextSeq)
            BY <1>a DEF IndInv, WriterInv
        <3>2. wal \in Seq(Segment) /\ dirty \in Nat
            BY DEF IndInv, TypeOK
        <3>3. i \in Nat /\ i > 0 /\ DOMAIN wal = 1..i
            BY <3>1, <3>2, Segments
        <3>4. wal[i] \in Seq(LogRecord) /\ DOMAIN wal[i] = 1..j /\ j \in Nat
            BY <3>2, <3>3, Segments
        <3>5. j > 0
            BY <3>1, <3>4, EmptySeq
        <3>6. e \in wal[i][j].ents /\ wal[i][j].last >= nextSeq /\ wal[i][j].last \in Nat
            BY <3>1, <1>b, BatchRecord DEF ents, LogRecord
        <3>7. wal[i][j].last > ManifestCutoff(manifest)
            BY <3>6, <1>l, <1>b
        <3>8. SyncWrites => j + dirty <= Len(wal[i])
            BY <1>a, <3>4 DEF IndInv, WriterInv
        <3> HIDE DEF i, j
        <3>9. i \in DOMAIN wal /\ j \in DOMAIN wal[i]
            BY <3>3, <3>4, <3>5
        <3> QED BY <3>6, <3>7, <3>8, <3>9 DEF InWal, Stable
    <2>4. ASSUME NEW e \in ents \cup memtable
                            \cup UNION {immutables[i] : i \in DOMAIN immutables}
          PROVE  e \in memtable' \cup UNION {immutables'[i] : i \in DOMAIN immutables'}
        <3>1. CASE full
            <4>1. CASE e \in ents \cup memtable
                <5>1. Len(immutables) + 1 \in DOMAIN immutables'
                    BY <1>g, <1>i, <3>1
                <5> QED BY <5>1, <4>1, <3>1, <1>i DEF all
            <4>2. CASE e \in UNION {immutables[i] : i \in DOMAIN immutables}
                <5>1. PICK i \in DOMAIN immutables : e \in immutables[i]
                    BY <4>2
                <5>2. i \in DOMAIN immutables' /\ immutables'[i] = immutables[i]
                    BY <1>g, <1>i, <3>1
                <5> QED BY <5>1, <5>2
            <4> QED BY <4>1, <4>2
        <3>2. CASE ~full
            BY <1>j, <3>2 DEF all
        <3> QED BY <3>1, <3>2
    <2> HIDE DEF ents
    <2>5. \A e \in acked' : e \in TableEntries' \/ InWal(e)'
        BY <1>a, <2>1, <2>2, <2>3 DEF IndInv, AckedInv
    <2>6. acked \subseteq TableEntries \cup memtable
                             \cup UNION {immutables[i] : i \in DOMAIN immutables}
        BY <1>a DEF IndInv, AckedInv
    <2>7. acked' \subseteq TableEntries' \cup memtable'
                              \cup UNION {immutables'[i] : i \in DOMAIN immutables'}
        BY <1>a, <2>1, <2>4, <2>6
    <2> QED BY <2>5, <2>7 DEF AckedInv
<1>10. NewInv'
    BY <1>a DEF NewInv
<1> QED BY <1>1, <1>2, <1>3, <1>4, <1>5, <1>6, <1>7, <1>8, <1>9, <1>10 DEF IndInv

-----------------------------------------------------------------------------
(* The flush.                                                              *)

\* A file is written next to the others.
LEMMA FileWritten ==
    ASSUME FilesOK(files), NEW num \in Nat, NEW S, S \subseteq Entry(Keys)
    PROVE  LET f == WriteFile(num, S)
           IN  /\ FilesOK(f) /\ num \in DOMAIN f /\ f[num] = S
               /\ \A n \in DOMAIN files : n \in DOMAIN f /\ (n # num => f[n] = files[n])
BY DEF FilesOK, WriteFile

\* The memtable a flush picks: the oldest one.
LEMMA OldestMemtable ==
    ASSUME IndInv, immutables # <<>>
    PROVE  /\ Len(immutables) \in Nat /\ DOMAIN immutables = 1..Len(immutables)
           /\ 1 \in DOMAIN immutables /\ Head(immutables) = immutables[1]
           /\ Head(immutables) \subseteq Entry(Keys)
           /\ LargestSeq(Head(immutables)) \in Nat
           /\ LargestSeq(Head(immutables)) < nextSeq
           /\ \A e \in Head(immutables) : e.seq \in Nat
           /\ Head(immutables) # {} =>
                 \E e \in Head(immutables) : e.seq = LargestSeq(Head(immutables))
           /\ Head(immutables) = {} => LargestSeq(Head(immutables)) = 0
<1> DEFINE S == Head(immutables)
<1>0. immutables \in Seq(SUBSET Entry(Keys))
    BY DEF IndInv, TypeOK
<1>1. /\ Len(immutables) \in Nat /\ DOMAIN immutables = 1..Len(immutables)
      /\ Len(immutables) > 0 /\ S = immutables[1]
    BY <1>0, EmptySeq, LenProperties, HeadTailProperties
<1>2. 1 \in DOMAIN immutables
    BY <1>1
<1>3. S \subseteq Entry(Keys)
    BY <1>0, <1>1, <1>2, ElementOfSeq
<1>4. \A e \in S : e.seq \in Nat /\ e.seq < nextSeq
    BY <1>1, <1>2, <1>3 DEF IndInv, MemInv, Entry
<1>5. nextSeq - 1 \in Nat /\ \A e \in S : e.seq \in Nat /\ e.seq <= nextSeq - 1
    BY <1>4 DEF IndInv, TypeOK
<1> HIDE DEF S
<1>6. /\ LargestSeq(S) \in Nat /\ LargestSeq(S) <= nextSeq - 1
      /\ S # {} => \E e \in S : e.seq = LargestSeq(S)
    BY <1>5, LargestSeqMax
<1>7. LargestSeq(S) < nextSeq
    BY <1>6 DEF IndInv, TypeOK
<1>8. S = {} => LargestSeq(S) = 0
    BY DEF LargestSeq
<1> QED BY <1>1, <1>2, <1>3, <1>4, <1>6, <1>7, <1>8 DEF S

\* The table of the flush is well formed and within the numbers handed out.
LEMMA FlushedTableFacts ==
    ASSUME IndInv, immutables # <<>>
    PROVE  /\ TableOK(FlushedTable) /\ FlushedTable.num = fl.num
           /\ FlushedTable.largestSeq < nextSeq
<1>1. FlushedTable.num = fl.num /\ FlushedTable.largestSeq = LargestSeq(Head(immutables))
    BY DEF FlushedTable, TableMeta
<1>2. fl.num \in Nat
    BY DEF IndInv, TypeOK, FlushState
<1> QED BY <1>1, <1>2, OldestMemtable DEF TableOK

\* Writing the table disturbs no live file: the number is fresh.
LEMMA FlushBuildPreserves ==
    ASSUME IndInv, FlushBuild
    PROVE  IndInv'
<1>a. /\ fl.pc = "build" /\ phase = "up" /\ immutables # <<>> /\ mu # "flush"
      /\ fl.num \in Nat /\ fl.num < nextFileNum
      /\ \A t \in version.tables : t.num # fl.num
      /\ files' = WriteFile(fl.num, Head(immutables))
      /\ UNCHANGED <<wal, dirty, manifest, phase, memory, bgErr, mu, checked, wr, spawned,
                     cursor, acked, counters>>
    BY DEF IndInv, FlushInv, TypeOK, FlushState, FlushBuild
<1>b. /\ fl' \in FlushState /\ fl'.pc = "commit" /\ fl'.num = fl.num
      /\ fl'.seq = LargestSeq(Head(immutables))
    <2>1. LargestSeq(Head(immutables)) \in Nat
        BY <1>a, OldestMemtable
    <2> QED BY <2>1 DEF IndInv, TypeOK, FlushState, FlushPCs, FlushBuild
<1>c. /\ FilesOK(files') /\ fl.num \in DOMAIN files' /\ files'[fl.num] = Head(immutables)
      /\ \A n \in DOMAIN files : n \in DOMAIN files' /\ (n # fl.num => files'[n] = files[n])
    BY <1>a, OldestMemtable, FileWritten DEF IndInv, TypeOK
<1>d. TableEntries' = TableEntries
    <2>1. \A t \in ManifestTables(manifest) : t.num # fl.num /\ t.num \in DOMAIN files
        BY <1>a DEF IndInv, VersionInv, Alive
    <2> QED BY <1>a, <1>c, <2>1, SameTables
<1>1. TypeOK'
    BY <1>a, <1>b, <1>c DEF IndInv, TypeOK, memory, counters
<1>2. ManifestInv'
    BY <1>a DEF IndInv, ManifestInv
<1>3. VersionInv'
    BY <1>a, <1>c DEF IndInv, VersionInv, Alive, Replaying, memory
<1>4. MemInv'
    BY <1>a DEF IndInv, MemInv, Alive, Replaying, memory
<1>5. WalInv'
    BY <1>a DEF IndInv, WalInv
<1>6. WriterInv'
    BY <1>a DEF IndInv, WriterInv, memory
<1>7. FlushInv'
    BY <1>a, <1>b, <1>c DEF FlushInv, memory
<1>8. ReplayInv'
    BY <1>a DEF ReplayInv, Replaying
<1>9. AckedInv'
    <2>1. \A e : InWal(e) => InWal(e)'
        BY <1>a DEF InWal, Stable
    <2> QED BY <1>a, <1>d, <2>1 DEF IndInv, AckedInv, memory
<1>10. NewInv'
    BY <1>a DEF NewInv
<1> QED BY <1>1, <1>2, <1>3, <1>4, <1>5, <1>6, <1>7, <1>8, <1>9, <1>10 DEF IndInv

\* A half-written table has a number no table in the MANIFEST uses.
LEMMA FlushBuildFailsPreserves ==
    ASSUME IndInv, FlushBuildFails
    PROVE  IndInv'
<1>a. /\ fl.pc = "build" /\ phase = "up" /\ mu # "flush"
      /\ fl.num \in Nat
      /\ \A t \in version.tables : t.num # fl.num
      /\ files' = WriteFile(fl.num, {})
      /\ fl' = FailedFlush /\ faults' = faults + 1
      /\ UNCHANGED <<wal, dirty, manifest, phase, memory, bgErr, mu, checked, wr, spawned,
                     cursor, acked, crashes>>
    BY DEF IndInv, FlushInv, TypeOK, FlushState, FlushBuildFails, FlushAborts, Fault
<1>c. /\ FilesOK(files')
      /\ \A n \in DOMAIN files : n \in DOMAIN files' /\ (n # fl.num => files'[n] = files[n])
    BY <1>a, FileWritten DEF IndInv, TypeOK
<1>d. TableEntries' = TableEntries
    <2>1. \A t \in ManifestTables(manifest) : t.num # fl.num /\ t.num \in DOMAIN files
        BY <1>a DEF IndInv, VersionInv, Alive
    <2> QED BY <1>a, <1>c, <2>1, SameTables
<1>1. TypeOK'
    <2>1. fl' \in FlushState
        BY <1>a DEF FailedFlush, FlushState, FlushPCs
    <2>2. faults' \in Nat
        BY <1>a DEF IndInv, TypeOK
    <2> QED BY <1>a, <1>c, <2>1, <2>2 DEF IndInv, TypeOK, memory
<1>2. ManifestInv'
    BY <1>a DEF IndInv, ManifestInv
<1>3. VersionInv'
    BY <1>a, <1>c DEF IndInv, VersionInv, Alive, Replaying, memory
<1>4. MemInv'
    BY <1>a DEF IndInv, MemInv, Alive, Replaying, memory
<1>5. WalInv'
    BY <1>a DEF IndInv, WalInv
<1>6. WriterInv'
    BY <1>a DEF IndInv, WriterInv, memory
<1>7. FlushInv'
    BY <1>a DEF FlushInv, FailedFlush
<1>8. ReplayInv'
    BY <1>a DEF ReplayInv, Replaying
<1>9. AckedInv'
    <2>1. \A e : InWal(e) => InWal(e)'
        BY <1>a DEF InWal, Stable
    <2> QED BY <1>a, <1>d, <2>1 DEF IndInv, AckedInv, memory
<1>10. NewInv'
    BY <1>a DEF NewInv
<1> QED BY <1>1, <1>2, <1>3, <1>4, <1>5, <1>6, <1>7, <1>8, <1>9, <1>10 DEF IndInv

(***************************************************************************)
(* What both outcomes of the Add record share: the version gains the table *)
(* and the MANIFEST names at most that table more.                         *)
(***************************************************************************)
LEMMA TableAdded ==
    ASSUME IndInv, fl.pc = "commit", version' = AddTable(version, FlushedTable),
           manifest' \in {manifest, Append(manifest, AddRecord(FlushedTable))},
           UNCHANGED <<wal, dirty, files, acked, phase, nextSeq, nextFileNum>>
    PROVE  /\ phase = "up" /\ immutables # <<>>
           /\ GoodManifest(manifest') /\ VersionOK(version')
           /\ ManifestInv' /\ VersionInv'
           /\ version'.cutoff = version.cutoff
           /\ TableEntries \subseteq TableEntries'
           /\ \A e \in acked' : e \in TableEntries' \/ InWal(e)'
<1> DEFINE t == FlushedTable
<1>a. /\ phase = "up" /\ Alive /\ immutables # <<>> /\ fl.num < nextFileNum
      /\ fl.num \in DOMAIN files
    BY DEF IndInv, FlushInv, Alive
<1>b. TableOK(t) /\ t.num = fl.num /\ t.largestSeq < nextSeq
    BY <1>a, FlushedTableFacts
<1>c. GoodManifest(manifest)
    BY ManifestIsGood DEF IndInv
<1> HIDE DEF t
<1>d. /\ GoodManifest(manifest') /\ ManifestCutoff(manifest') = ManifestCutoff(manifest)
      /\ ManifestTables(manifest) \subseteq ManifestTables(manifest')
      /\ ManifestTables(manifest') \subseteq ManifestTables(manifest) \cup {t}
    <2>1. CASE manifest' = manifest
        BY <1>c, <2>1
    <2>2. CASE manifest' = Append(manifest, AddRecord(t))
        BY <1>b, <1>c, <2>2, EditAdd
    <2> QED BY <2>1, <2>2 DEF t
<1>e. /\ version'.tables = version.tables \cup {t} /\ version'.obsolete = version.obsolete
      /\ version'.cutoff = version.cutoff
      /\ version' = [tables |-> version'.tables, obsolete |-> version'.obsolete,
                     cutoff |-> version'.cutoff]
    BY DEF AddTable, IndInv, TypeOK, VersionOK, t
<1>f. VersionOK(version')
    <2>1. IsFiniteSet(version.tables)
        BY DEF IndInv, TypeOK, VersionOK
    <2>2. IsFiniteSet(version'.tables)
        BY <1>e, <2>1, FS_AddElement
    <2> QED BY <1>b, <1>e, <2>2 DEF IndInv, TypeOK, VersionOK
<1>g. TableEntries \subseteq TableEntries'
    BY <1>d, MoreTables DEF IndInv, VersionInv
<1>h. ManifestInv'
    BY <1>d DEF GoodManifest, ManifestInv
<1>i. VersionInv'
    <2>1. Alive'
        BY <1>a DEF Alive
    <2>2. \A u \in version'.tables :
              u.num \in DOMAIN files' /\ u.num < nextFileNum' /\ u.largestSeq < nextSeq'
        BY <1>a, <1>b, <1>e DEF IndInv, VersionInv
    <2>3. \A u \in ManifestTables(manifest') : u.num \in DOMAIN files'
        BY <1>a, <1>b, <1>d DEF IndInv, VersionInv
    <2>4. ManifestTables(manifest') \subseteq version'.tables
        BY <1>a, <1>d, <1>e DEF IndInv, VersionInv
    <2> QED BY <1>a, <1>d, <1>e, <2>1, <2>2, <2>3, <2>4 DEF IndInv, VersionInv
<1>j. \A e : InWal(e) => InWal(e)'
    BY <1>d DEF InWal, Stable
<1>k. \A e \in acked' : e \in TableEntries' \/ InWal(e)'
    BY <1>g, <1>j DEF IndInv, AckedInv
<1> QED BY <1>a, <1>d, <1>e, <1>f, <1>g, <1>h, <1>i, <1>k

\* The flushed table is in the MANIFEST while its memtable is still frozen.
LEMMA FlushManifestAddPreserves ==
    ASSUME IndInv, FlushManifestAdd
    PROVE  IndInv'
<1>a. /\ fl.pc = "commit" /\ mu = "free" /\ mu' = "flush"
      /\ version' = AddTable(version, FlushedTable)
      /\ manifest' = Append(manifest, AddRecord(FlushedTable))
      /\ UNCHANGED <<wal, dirty, files, phase, nextSeq, nextFileNum, memtable, immutables,
                     bgErr, checked, wr, spawned, cursor, acked, crashes, faults>>
    BY DEF FlushManifestAdd, counters
<1>b. /\ fl' \in FlushState /\ fl'.pc = "cutoff" /\ fl'.num = fl.num /\ fl'.seq = fl.seq
    BY DEF FlushManifestAdd, IndInv, TypeOK, FlushState, FlushPCs
<1>c. /\ phase = "up" /\ immutables # <<>>
      /\ GoodManifest(manifest') /\ VersionOK(version')
      /\ ManifestInv' /\ VersionInv'
      /\ TableEntries \subseteq TableEntries'
      /\ \A e \in acked' : e \in TableEntries' \/ InWal(e)'
    BY <1>a, TableAdded
<1>1. TypeOK'
    <2>1. ManifestOK(manifest')
        BY <1>c DEF GoodManifest, ManifestOK
    <2>2. mu' \in {"free", "writer", "flush"}
        BY <1>a
    <2> QED BY <1>a, <1>b, <1>c, <2>1, <2>2 DEF IndInv, TypeOK
<1>2. MemInv'
    BY <1>a DEF IndInv, MemInv, Alive, Replaying
<1>3. WalInv'
    BY <1>a DEF IndInv, WalInv
<1>4. WriterInv'
    BY <1>a, <1>c DEF IndInv, WriterInv
<1>5. FlushInv'
    <2>1. FlushedTable \in ManifestTables(manifest') /\ FlushedTable.num = fl.num
        BY <1>a, <1>c, ManifestIsGood, FlushedTableFacts, EditAdd DEF IndInv
    <2> QED BY <1>a, <1>b, <1>c, <2>1 DEF IndInv, FlushInv
<1>6. ReplayInv'
    BY <1>a, <1>c DEF ReplayInv, Replaying
<1>7. AckedInv'
    BY <1>a, <1>c DEF IndInv, AckedInv
<1>8. NewInv'
    BY <1>a, <1>c DEF NewInv
<1> QED BY <1>c, <1>1, <1>2, <1>3, <1>4, <1>5, <1>6, <1>7, <1>8 DEF IndInv

\* The record may be in the MANIFEST or not: both are safe.
LEMMA FlushManifestAddFailsPreserves ==
    ASSUME NoTearing, IndInv, FlushManifestAddFails
    PROVE  IndInv'
<1>a. /\ fl.pc = "commit" /\ mu = "free"
      /\ version' = AddTable(version, FlushedTable)
      /\ fl' = FailedFlush /\ faults' = faults + 1
      /\ UNCHANGED <<wal, dirty, files, phase, nextSeq, nextFileNum, memtable, immutables,
                     bgErr, mu, checked, wr, spawned, cursor, acked, crashes>>
    BY DEF FlushManifestAddFails, FlushAborts, ManifestAppendFails, Fault
<1>b. manifest' \in {manifest, Append(manifest, AddRecord(FlushedTable))}
    BY DEF FlushManifestAddFails, ManifestAppendFails, Fault, NoTearing
<1>c. /\ phase = "up" /\ immutables # <<>>
      /\ GoodManifest(manifest') /\ VersionOK(version')
      /\ ManifestInv' /\ VersionInv'
      /\ TableEntries \subseteq TableEntries'
      /\ \A e \in acked' : e \in TableEntries' \/ InWal(e)'
    BY <1>a, <1>b, TableAdded
<1>1. TypeOK'
    <2>1. ManifestOK(manifest')
        BY <1>c DEF GoodManifest, ManifestOK
    <2>2. fl' \in FlushState
        BY <1>a DEF FailedFlush, FlushState, FlushPCs
    <2>3. faults' \in Nat
        BY <1>a DEF IndInv, TypeOK
    <2> QED BY <1>a, <1>c, <2>1, <2>2, <2>3 DEF IndInv, TypeOK
<1>2. MemInv'
    BY <1>a DEF IndInv, MemInv, Alive, Replaying
<1>3. WalInv'
    BY <1>a DEF IndInv, WalInv
<1>4. WriterInv'
    BY <1>a, <1>c DEF IndInv, WriterInv
<1>5. FlushInv'
    <2>1. phase = "up"
        BY <1>a DEF IndInv, FlushInv
    <2>2. fl'.pc = "error" /\ mu' = "free" /\ phase' = "up"
        BY <1>a, <2>1 DEF FailedFlush
    <2> QED BY <2>2 DEF FlushInv
<1>6. ReplayInv'
    BY <1>a, <1>c DEF ReplayInv, Replaying
<1>7. AckedInv'
    BY <1>a, <1>c DEF IndInv, AckedInv
<1>8. NewInv'
    BY <1>a, <1>c DEF NewInv
<1> QED BY <1>c, <1>1, <1>2, <1>3, <1>4, <1>5, <1>6, <1>7, <1>8 DEF IndInv

(***************************************************************************)
(* The cutoff record.  An acknowledged write that is only in the log is in *)
(* a younger memtable than the flushed one, so its number is above the new *)
(* cutoff: this is where the order of the memtables matters.               *)
(***************************************************************************)
LEMMA CutoffRecorded ==
    ASSUME IndInv, fl.pc = "cutoff",
           manifest' = Append(manifest, CutoffRecord(FlushCutoff)),
           UNCHANGED <<wal, dirty, files, acked>>
    PROVE  /\ phase = "up" /\ immutables # <<>>
           /\ fl.seq \in Nat /\ fl.seq < nextSeq
           /\ GoodManifest(manifest')
           /\ ManifestTables(manifest') = ManifestTables(manifest)
           /\ ManifestCutoff(manifest) \in Nat /\ ManifestCutoff(manifest') \in Nat
           /\ ManifestCutoff(manifest') =
                IF fl.seq > ManifestCutoff(manifest) THEN fl.seq ELSE ManifestCutoff(manifest)
           /\ ManifestCutoff(manifest') < nextSeq
           /\ TableEntries' = TableEntries
           /\ Head(immutables) \subseteq TableEntries
           /\ \A e \in acked' : e \in TableEntries' \/ InWal(e)'
<1> DEFINE S == Head(immutables)
<1>a. /\ phase = "up" /\ Alive /\ immutables # <<>>
      /\ files[fl.num] = S /\ fl.num \in DOMAIN files /\ fl.seq = LargestSeq(S)
      /\ \E t \in ManifestTables(manifest) : t.num = fl.num
    BY DEF IndInv, FlushInv, Alive
<1>b. /\ Len(immutables) \in Nat /\ DOMAIN immutables = 1..Len(immutables)
      /\ 1 \in DOMAIN immutables /\ S = immutables[1]
      /\ fl.seq \in Nat /\ fl.seq < nextSeq
      /\ S # {} => \E h \in S : h.seq = fl.seq
      /\ S = {} => fl.seq = 0
    BY <1>a, OldestMemtable
<1>c. GoodManifest(manifest) /\ ManifestCutoff(manifest) \in Nat
    BY ManifestIsGood, GoodManifestFacts DEF IndInv
<1>d. /\ GoodManifest(manifest')
      /\ ManifestTables(manifest') = ManifestTables(manifest)
      /\ ManifestCutoff(manifest') =
           IF fl.seq > ManifestCutoff(manifest) THEN fl.seq ELSE ManifestCutoff(manifest)
    BY <1>b, <1>c, EditCutoff DEF FlushCutoff
<1>e. ManifestCutoff(manifest') \in Nat /\ ManifestCutoff(manifest') < nextSeq
    BY <1>a, <1>b, <1>c, <1>d DEF IndInv, VersionInv
<1>f. TableEntries' = TableEntries
    BY <1>d, SameTables DEF IndInv, VersionInv
<1> HIDE DEF S
<1>g. S \subseteq TableEntries
    BY <1>a DEF TableEntries
<1>h. ASSUME NEW e \in acked, e \notin TableEntries PROVE InWal(e)'
    <2>1. e \in memtable \cup UNION {immutables[i] : i \in DOMAIN immutables}
        BY <1>a, <1>h DEF IndInv, AckedInv
    <2>2. \A h \in S : h.seq < e.seq
        <3>1. CASE e \in memtable
            BY <1>b, <3>1 DEF IndInv, MemInv
        <3>2. CASE e \in UNION {immutables[i] : i \in DOMAIN immutables}
            <4>1. PICK i \in DOMAIN immutables : e \in immutables[i]
                BY <3>2
            <4>2. i # 1
                BY <4>1, <1>b, <1>g, <1>h
            <4>3. 1 < i
                BY <4>2, <1>b
            <4> QED BY <1>b, <4>1, <4>3 DEF IndInv, MemInv
        <3> QED BY <2>1, <3>1, <3>2
    <2>3. e.seq \in Nat
        BY <1>h DEF IndInv, TypeOK, Entry
    <2>4. S = {} \/ fl.seq < e.seq
        BY <1>b, <2>2
    <2>5. InWal(e)
        BY <1>h DEF IndInv, AckedInv
    <2>6. PICK i \in DOMAIN wal : \E j \in DOMAIN wal[i] :
              /\ e \in wal[i][j].ents
              /\ wal[i][j].last > ManifestCutoff(manifest)
              /\ Stable(i, j)
        BY <2>5 DEF InWal
    <2>7. PICK j \in DOMAIN wal[i] :
              /\ e \in wal[i][j].ents
              /\ wal[i][j].last > ManifestCutoff(manifest)
              /\ Stable(i, j)
        BY <2>6
    <2>8. wal[i][j].last \in Nat /\ e.seq <= wal[i][j].last
        <3>1. wal \in Seq(Segment)
            BY DEF IndInv, TypeOK
        <3>2. wal[i][j] \in LogRecord
            BY <3>1, Segments
        <3> QED BY <2>7, <3>2 DEF LogRecord, IndInv, WalInv
    <2>9. wal[i][j].last > ManifestCutoff(manifest')
        BY <1>b, <1>c, <1>d, <2>3, <2>4, <2>7, <2>8
    <2> QED BY <2>7, <2>9 DEF InWal, Stable
<1>i. \A e \in acked' : e \in TableEntries' \/ InWal(e)'
    BY <1>f, <1>h
<1> QED BY <1>a, <1>b, <1>c, <1>d, <1>e, <1>f, <1>g, <1>i DEF S

\* The cutoff passes the flushed memtable only, all of which is in a table.
LEMMA FlushManifestCutoffPreserves ==
    ASSUME IndInv, FlushManifestCutoff
    PROVE  IndInv'
<1>a. /\ fl.pc = "cutoff" /\ mu' = "free"
      /\ manifest' = Append(manifest, CutoffRecord(FlushCutoff))
      /\ version' = SetWALCutoff(version, FlushCutoff)
      /\ immutables' = Tail(immutables)
      /\ UNCHANGED <<wal, dirty, files, phase, nextSeq, nextFileNum, memtable,
                     bgErr, checked, wr, spawned, cursor, acked, crashes, faults>>
    BY DEF FlushManifestCutoff, counters
<1>b. fl' \in FlushState /\ fl'.pc = "truncate" /\ fl'.seq = fl.seq
    BY DEF FlushManifestCutoff, IndInv, TypeOK, FlushState, FlushPCs
<1>c. /\ phase = "up" /\ immutables # <<>>
      /\ fl.seq \in Nat
      /\ GoodManifest(manifest')
      /\ ManifestTables(manifest') = ManifestTables(manifest)
      /\ ManifestCutoff(manifest) \in Nat
      /\ ManifestCutoff(manifest') =
           IF fl.seq > ManifestCutoff(manifest) THEN fl.seq ELSE ManifestCutoff(manifest)
      /\ ManifestCutoff(manifest') < nextSeq
      /\ TableEntries' = TableEntries
      /\ Head(immutables) \subseteq TableEntries
      /\ \A e \in acked' : e \in TableEntries' \/ InWal(e)'
    BY <1>a, CutoffRecorded
<1>d. /\ version'.tables = version.tables /\ version'.obsolete = version.obsolete
      /\ version'.cutoff = IF fl.seq > version.cutoff THEN fl.seq ELSE version.cutoff
      /\ version' = [tables |-> version'.tables, obsolete |-> version'.obsolete,
                     cutoff |-> version'.cutoff]
    BY <1>a DEF SetWALCutoff, FlushCutoff, IndInv, TypeOK, VersionOK
<1>e. version.cutoff \in Nat /\ version.cutoff <= ManifestCutoff(manifest) /\ Alive /\ Alive'
    BY <1>a, <1>c DEF IndInv, VersionInv, Alive, TypeOK, VersionOK
<1>f. VersionOK(version')
    <2>1. version'.cutoff \in Nat
        BY <1>c, <1>d, <1>e
    <2> QED BY <1>d, <2>1 DEF IndInv, TypeOK, VersionOK
<1>g. /\ Len(immutables) \in Nat /\ DOMAIN immutables = 1..Len(immutables)
      /\ 1 \in DOMAIN immutables /\ Head(immutables) = immutables[1]
    BY <1>c, OldestMemtable
<1>h. /\ immutables' \in Seq(SUBSET Entry(Keys))
      /\ DOMAIN immutables' = 1..(Len(immutables) - 1)
      /\ \A i \in 1..(Len(immutables) - 1) : immutables'[i] = immutables[i + 1]
    <2>1. immutables \in Seq(SUBSET Entry(Keys))
        BY DEF IndInv, TypeOK
    <2>2. /\ immutables' \in Seq(SUBSET Entry(Keys)) /\ Len(immutables') = Len(immutables) - 1
          /\ \A i \in 1..Len(immutables') : immutables'[i] = immutables[i + 1]
        BY <1>a, <1>c, <2>1, HeadTailProperties
    <2>3. DOMAIN immutables' = 1..Len(immutables')
        BY <2>2, LenProperties
    <2> QED BY <2>2, <2>3
<1>1. TypeOK'
    <2>1. ManifestOK(manifest')
        BY <1>c DEF GoodManifest, ManifestOK
    <2>2. mu' \in {"free", "writer", "flush"}
        BY <1>a
    <2> QED BY <1>a, <1>b, <1>f, <1>h, <2>1, <2>2 DEF IndInv, TypeOK
<1>2. ManifestInv'
    BY <1>c DEF GoodManifest, ManifestInv
<1>3. VersionInv'
    <2>1. version'.cutoff <= ManifestCutoff(manifest')
        BY <1>c, <1>d, <1>e
    <2> QED BY <1>a, <1>c, <1>d, <1>e, <2>1 DEF IndInv, VersionInv
<1>4. MemInv'
    <2>1. \A i \in DOMAIN immutables' : i + 1 \in DOMAIN immutables /\ immutables'[i] = immutables[i + 1]
        BY <1>g, <1>h
    <2>2. \A i, j \in DOMAIN immutables' : i < j => i + 1 < j + 1
        BY <1>g, <1>h
    <2>3. ASSUME NEW i \in DOMAIN immutables', NEW e \in immutables'[i]
          PROVE  /\ e.seq < nextSeq'
                 /\ \A f \in memtable' : e.seq < f.seq
                 /\ \A j \in DOMAIN immutables' : i < j => \A f \in immutables'[j] : e.seq < f.seq
        <3>1. i + 1 \in DOMAIN immutables /\ e \in immutables[i + 1]
            BY <2>1
        <3>2. e.seq < nextSeq /\ \A f \in memtable : e.seq < f.seq
            BY <3>1 DEF IndInv, MemInv
        <3>3. ASSUME NEW j \in DOMAIN immutables', i < j, NEW f \in immutables'[j]
              PROVE  e.seq < f.seq
            <4>1. j + 1 \in DOMAIN immutables /\ f \in immutables[j + 1] /\ i + 1 < j + 1
                BY <2>1, <2>2, <3>3
            <4> QED BY <3>1, <4>1 DEF IndInv, MemInv
        <3> QED BY <1>a, <3>2, <3>3
    <2> QED BY <1>a, <1>c, <1>e, <2>3 DEF IndInv, MemInv
<1>5. WalInv'
    BY <1>a DEF IndInv, WalInv
<1>6. WriterInv'
    <2>1. mu = "flush" /\ wr.pc = "idle"
        BY <1>a DEF IndInv, FlushInv, WriterInv
    <2> QED BY <1>a, <1>c, <2>1 DEF WriterInv
<1>7. FlushInv'
    <2>1. fl.seq <= version'.cutoff
        BY <1>c, <1>d, <1>e
    <2> QED BY <1>a, <1>b, <1>c, <2>1 DEF FlushInv
<1>8. ReplayInv'
    BY <1>a, <1>c DEF ReplayInv, Replaying
<1>9. AckedInv'
    <2>1. ASSUME NEW e \in UNION {immutables[i] : i \in DOMAIN immutables}
          PROVE  e \in TableEntries \cup UNION {immutables'[i] : i \in DOMAIN immutables'}
        <3>1. PICK i \in DOMAIN immutables : e \in immutables[i]
            OBVIOUS
        <3>2. CASE i = 1
            BY <1>c, <1>g, <3>1, <3>2
        <3>3. CASE i # 1
            <4>1. i - 1 \in DOMAIN immutables' /\ i = (i - 1) + 1
                BY <1>g, <1>h, <3>3
            <4>2. immutables'[i - 1] = immutables[i]
                BY <1>h, <4>1
            <4> QED BY <3>1, <4>1, <4>2
        <3> QED BY <3>2, <3>3
    <2>2. acked \subseteq TableEntries \cup memtable
                             \cup UNION {immutables[i] : i \in DOMAIN immutables}
        BY <1>c DEF IndInv, AckedInv
    <2>3. acked' \subseteq TableEntries' \cup memtable'
                              \cup UNION {immutables'[i] : i \in DOMAIN immutables'}
        BY <1>a, <1>c, <2>1, <2>2
    <2> QED BY <1>c, <2>3 DEF AckedInv
<1>10. NewInv'
    BY <1>a, <1>c DEF NewInv
<1> QED BY <1>1, <1>2, <1>3, <1>4, <1>5, <1>6, <1>7, <1>8, <1>9, <1>10 DEF IndInv

\* The cutoff record may be in the MANIFEST or not: the version is behind.
LEMMA FlushManifestCutoffFailsPreserves ==
    ASSUME NoTearing, IndInv, FlushManifestCutoffFails
    PROVE  IndInv'
<1>a. /\ fl.pc = "cutoff" /\ mu' = "free"
      /\ fl' = FailedFlush /\ faults' = faults + 1
      /\ UNCHANGED <<wal, dirty, files, phase, nextSeq, nextFileNum, memtable, immutables,
                     version, bgErr, checked, wr, spawned, cursor, acked, crashes>>
    BY DEF FlushManifestCutoffFails, FlushAborts, ManifestAppendFails, Fault, memory
<1>b. manifest' \in {manifest, Append(manifest, CutoffRecord(FlushCutoff))}
    BY DEF FlushManifestCutoffFails, ManifestAppendFails, Fault, NoTearing
<1>c. /\ phase = "up" /\ GoodManifest(manifest')
      /\ ManifestTables(manifest') = ManifestTables(manifest)
      /\ ManifestCutoff(manifest) \in Nat /\ ManifestCutoff(manifest') \in Nat
      /\ ManifestCutoff(manifest') >= ManifestCutoff(manifest)
      /\ ManifestCutoff(manifest') < nextSeq
      /\ TableEntries' = TableEntries
      /\ \A e \in acked' : e \in TableEntries' \/ InWal(e)'
    <2>1. CASE manifest' = manifest
        <3>1. phase = "up" /\ Alive
            BY <1>a DEF IndInv, FlushInv, Alive
        <3>2. GoodManifest(manifest) /\ ManifestCutoff(manifest) \in Nat
            BY ManifestIsGood, GoodManifestFacts DEF IndInv
        <3>3. TableEntries' = TableEntries
            BY <1>a, <2>1 DEF TableEntries
        <3>4. \A e : InWal(e) => InWal(e)'
            BY <1>a, <2>1 DEF InWal, Stable
        <3> QED BY <1>a, <2>1, <3>1, <3>2, <3>3, <3>4 DEF IndInv, VersionInv, AckedInv
    <2>2. CASE manifest' = Append(manifest, CutoffRecord(FlushCutoff))
        <3>1. /\ phase = "up" /\ fl.seq \in Nat /\ GoodManifest(manifest')
              /\ ManifestTables(manifest') = ManifestTables(manifest)
              /\ ManifestCutoff(manifest) \in Nat /\ ManifestCutoff(manifest') \in Nat
              /\ ManifestCutoff(manifest') =
                   IF fl.seq > ManifestCutoff(manifest) THEN fl.seq ELSE ManifestCutoff(manifest)
              /\ ManifestCutoff(manifest') < nextSeq
              /\ TableEntries' = TableEntries
              /\ \A e \in acked' : e \in TableEntries' \/ InWal(e)'
            BY <1>a, <2>2, CutoffRecorded
        <3>2. ManifestCutoff(manifest') >= ManifestCutoff(manifest)
            BY <3>1
        <3> QED BY <3>1, <3>2
    <2> QED BY <1>b, <2>1, <2>2
<1>1. TypeOK'
    <2>1. ManifestOK(manifest')
        BY <1>c DEF GoodManifest, ManifestOK
    <2>2. mu' \in {"free", "writer", "flush"}
        BY <1>a
    <2>3. fl' \in FlushState
        BY <1>a DEF FailedFlush, FlushState, FlushPCs
    <2>4. faults' \in Nat
        BY <1>a DEF IndInv, TypeOK
    <2> QED BY <1>a, <2>1, <2>2, <2>3, <2>4 DEF IndInv, TypeOK
<1>2. ManifestInv'
    BY <1>c DEF GoodManifest, ManifestInv
<1>3. VersionInv'
    <2>1. /\ Alive /\ Alive' /\ version.cutoff \in Nat
          /\ version.cutoff <= ManifestCutoff(manifest)
        BY <1>a, <1>c DEF IndInv, VersionInv, Alive, TypeOK, VersionOK
    <2>2. version.cutoff <= ManifestCutoff(manifest')
        BY <1>c, <2>1
    <2> QED BY <1>a, <1>c, <2>1, <2>2 DEF IndInv, VersionInv
<1>4. MemInv'
    BY <1>a DEF IndInv, MemInv, Alive, Replaying
<1>5. WalInv'
    BY <1>a DEF IndInv, WalInv
<1>6. WriterInv'
    <2>1. mu = "flush" /\ wr.pc = "idle"
        BY <1>a DEF IndInv, FlushInv, WriterInv
    <2> QED BY <1>a, <1>c, <2>1 DEF WriterInv
<1>7. FlushInv'
    <2>1. phase = "up"
        BY <1>a DEF IndInv, FlushInv
    <2>2. fl'.pc = "error" /\ mu' = "free" /\ phase' = "up"
        BY <1>a, <2>1 DEF FailedFlush
    <2> QED BY <2>2 DEF FlushInv
<1>8. ReplayInv'
    BY <1>a, <1>c DEF ReplayInv, Replaying
<1>9. AckedInv'
    BY <1>a, <1>c DEF IndInv, AckedInv
<1>10. NewInv'
    BY <1>a, <1>c DEF NewInv
<1> QED BY <1>1, <1>2, <1>3, <1>4, <1>5, <1>6, <1>7, <1>8, <1>9, <1>10 DEF IndInv

\* A removed segment holds nothing above the cutoff.
LEMMA FlushRemoveSegmentPreserves ==
    ASSUME IndInv, FlushRemoveSegment
    PROVE  IndInv'
<1> DEFINE n == Len(wal)
<1>a. /\ fl.pc = "remove" /\ phase = "up" /\ mu # "flush"
      /\ fl.ndel \in Nat /\ fl.ndel > 0 /\ fl.ndel < n
      /\ \A i \in 1..fl.ndel : Truncatable(wal[i], fl.seq)
      /\ fl.seq \in Nat /\ fl.seq <= version.cutoff
      /\ wal' = Tail(wal)
      /\ UNCHANGED <<dirty, manifest, files, phase, memory, bgErr, mu, checked, wr, spawned,
                     cursor, acked, counters>>
    BY DEF FlushRemoveSegment, IndInv, FlushInv, TypeOK, FlushState
<1>b. fl' \in FlushState /\ fl'.pc = "remove" /\ fl'.seq = fl.seq /\ fl'.ndel = fl.ndel - 1
    <2>1. fl \in FlushState /\ fl' = [fl EXCEPT !.ndel = fl.ndel - 1] /\ fl.ndel - 1 \in Nat
        BY <1>a DEF FlushRemoveSegment, IndInv, TypeOK
    <2> QED BY <1>a, <2>1 DEF FlushState
<1>c. wal \in Seq(Segment) /\ wal # <<>> /\ n \in Nat
    BY <1>a, Segments DEF IndInv, TypeOK, WalInv
<1>d. wal' \in Seq(Segment) /\ Len(wal') = n - 1 /\ \A i \in 1..(n - 1) : wal'[i] = wal[i + 1]
    BY <1>a, <1>c, HeadTailProperties
<1>e. /\ DOMAIN wal = 1..n /\ DOMAIN wal' = 1..(n - 1) /\ wal' # <<>>
      /\ n > 1 /\ wal'[Len(wal')] = wal[n]
    BY <1>a, <1>c, <1>d, Segments
<1> HIDE DEF n
<1>1. TypeOK'
    BY <1>a, <1>b, <1>d DEF IndInv, TypeOK, memory, counters
<1>2. ManifestInv'
    BY <1>a DEF IndInv, ManifestInv
<1>3. VersionInv'
    BY <1>a DEF IndInv, VersionInv, Alive, Replaying, memory
<1>4. MemInv'
    BY <1>a DEF IndInv, MemInv, Alive, Replaying, memory
<1>5. WalInv'
    <2>1. \A i \in DOMAIN wal' : i + 1 \in DOMAIN wal /\ wal'[i] = wal[i + 1]
        BY <1>c, <1>d, <1>e
    <2>2. dirty' <= Len(wal'[Len(wal')])
        BY <1>a, <1>c, <1>e DEF IndInv, WalInv, n
    <2>3. ASSUME NEW i \in DOMAIN wal', NEW j \in DOMAIN wal'[i]
          PROVE  wal'[i][j].ok /\ \A e \in wal'[i][j].ents : e.seq <= wal'[i][j].last
        BY <2>1 DEF IndInv, WalInv
    <2> QED BY <1>e, <2>2, <2>3 DEF WalInv
<1>6. WriterInv'
    BY <1>a, <1>c, <1>e DEF IndInv, WriterInv, memory, n
<1>7. FlushInv'
    <2>1. fl'.ndel < Len(wal')
        BY <1>a, <1>b, <1>c, <1>d
    <2>2. \A i \in 1..fl'.ndel : i + 1 \in 1..fl.ndel /\ i \in 1..(n - 1)
        BY <1>a, <1>b, <1>c
    <2>3. \A i \in 1..fl'.ndel : Truncatable(wal'[i], fl.seq)
        BY <1>a, <1>d, <2>2
    <2> QED BY <1>a, <1>b, <2>1, <2>3 DEF IndInv, FlushInv, memory
<1>8. ReplayInv'
    BY <1>a DEF ReplayInv, Replaying
<1>9. AckedInv'
    <2>1. TableEntries' = TableEntries
        BY <1>a DEF TableEntries
    <2>2. /\ version.cutoff \in Nat /\ ManifestCutoff(manifest) \in Nat
          /\ version.cutoff <= ManifestCutoff(manifest)
        BY <1>a, ManifestIsGood, GoodManifestFacts DEF IndInv, VersionInv, Alive, TypeOK, VersionOK
    <2>3. ASSUME NEW e, InWal(e) PROVE InWal(e)'
        <3>1. PICK i \in 1..n : \E j \in DOMAIN wal[i] :
                  /\ e \in wal[i][j].ents
                  /\ wal[i][j].last > ManifestCutoff(manifest)
                  /\ SyncWrites => (i = n => j + dirty <= Len(wal[i]))
            BY <2>3, <1>e DEF InWal, Stable, n
        <3>2. PICK j \in DOMAIN wal[i] :
                  /\ e \in wal[i][j].ents
                  /\ wal[i][j].last > ManifestCutoff(manifest)
                  /\ SyncWrites => (i = n => j + dirty <= Len(wal[i]))
            BY <3>1
        <3>3. i # 1
            <4>1. SUFFICES ASSUME i = 1 PROVE FALSE
                OBVIOUS
            <4>2. Truncatable(wal[1], fl.seq)
                BY <1>a
            <4>3. wal[i][j].last <= fl.seq
                BY <4>1, <4>2, <3>2 DEF Truncatable
            <4>4. wal[i][j].last \in Nat
                <5>1. wal[i][j] \in LogRecord
                    BY <1>c, Segments DEF n
                <5> QED BY <5>1 DEF LogRecord
            <4> QED BY <4>3, <4>4, <3>2, <2>2, <1>a
        <3>4. i - 1 \in 1..(n - 1) /\ i = (i - 1) + 1
            BY <1>c, <3>3
        <3>5. wal'[i - 1] = wal[i]
            BY <1>d, <3>4
        <3>6. i - 1 = Len(wal') => i = n
            BY <1>c, <1>d
        <3> QED BY <1>a, <1>e, <3>2, <3>4, <3>5, <3>6 DEF InWal, Stable
    <2> QED BY <1>a, <2>1, <2>3 DEF IndInv, AckedInv, memory
<1>10. NewInv'
    BY <1>a DEF NewInv
<1> QED BY <1>1, <1>2, <1>3, <1>4, <1>5, <1>6, <1>7, <1>8, <1>9, <1>10 DEF IndInv

\* The rewritten MANIFEST names every table it named before.
LEMMA CompactManifestPreserves ==
    ASSUME IndInv, CompactManifest
    PROVE  IndInv'
<1>a. /\ phase = "up" /\ mu = "free" /\ Alive
      /\ UNCHANGED <<wal, dirty, files, phase, memory, locks, cursor, acked, counters>>
    BY DEF CompactManifest, Alive
<1>b. PICK tables \in Listings(version.tables) :
          manifest' = Append([i \in DOMAIN tables |-> AddRecord(tables[i])],
                             CutoffRecord(version.cutoff))
    BY DEF CompactManifest
<1>c. /\ nextSeq \in Nat /\ nextFileNum \in Nat /\ version.cutoff \in Nat
      /\ IsFiniteSet(version.tables) /\ \A t \in version.tables : TableOK(t)
    BY DEF IndInv, TypeOK, VersionOK
<1>d. nextSeq + nextFileNum \in Nat
      /\ \A t \in version.tables : /\ t.num <= nextSeq + nextFileNum
                                   /\ t.largestSeq <= nextSeq + nextFileNum
    <2>1. \A t \in version.tables : t.num < nextFileNum /\ t.largestSeq < nextSeq
        BY <1>a DEF IndInv, VersionInv
    <2> QED BY <1>c, <2>1 DEF TableOK
<1>e. /\ GoodManifest(manifest') /\ ManifestTables(manifest') = version.tables
      /\ ManifestCutoff(manifest') = version.cutoff
    BY <1>b, <1>c, <1>d, RewrittenManifest
<1>f. /\ ManifestTables(manifest) \subseteq version.tables
      /\ version.cutoff <= ManifestCutoff(manifest)
      /\ ManifestCutoff(manifest) \in Nat /\ ManifestCutoff(manifest) < nextSeq
    BY <1>a, ManifestIsGood, GoodManifestFacts DEF IndInv, VersionInv
<1>g. TableEntries \subseteq TableEntries'
    BY <1>a, <1>e, <1>f, MoreTables DEF IndInv, VersionInv
<1>1. TypeOK'
    <2>1. ManifestOK(manifest')
        BY <1>e DEF GoodManifest, ManifestOK
    <2> QED BY <1>a, <2>1 DEF IndInv, TypeOK, memory, locks, counters
<1>2. ManifestInv'
    BY <1>e DEF GoodManifest, ManifestInv
<1>3. VersionInv'
    <2>1. version.cutoff < nextSeq
        BY <1>c, <1>f
    <2>2. version' = version /\ Alive' /\ phase' = "up"
        BY <1>a DEF memory, Alive
    <2> QED BY <1>a, <1>c, <1>e, <2>1, <2>2 DEF IndInv, VersionInv, memory
<1>4. MemInv'
    BY <1>a DEF IndInv, MemInv, Alive, Replaying, memory
<1>5. WalInv'
    BY <1>a DEF IndInv, WalInv
<1>6. WriterInv'
    BY <1>a DEF IndInv, WriterInv, memory, locks
<1>7. FlushInv'
    <2>1. fl.pc # "cutoff"
        BY <1>a DEF IndInv, FlushInv
    <2> QED BY <1>a, <2>1 DEF IndInv, FlushInv, memory, locks
<1>8. ReplayInv'
    BY <1>a DEF ReplayInv, Replaying
<1>9. AckedInv'
    <2>1. ASSUME NEW e, InWal(e) PROVE InWal(e)'
        BY <2>1, <1>a, <1>c, <1>e, <1>f, StaysInWal DEF IndInv, TypeOK
    <2> QED BY <1>a, <1>g, <2>1 DEF IndInv, AckedInv, memory
<1>10. NewInv'
    BY <1>a DEF NewInv
<1> QED BY <1>1, <1>2, <1>3, <1>4, <1>5, <1>6, <1>7, <1>8, <1>9, <1>10 DEF IndInv

-----------------------------------------------------------------------------
(* Open and Recover.                                                       *)

\* A new database is empty.
LEMMA OpenNewPreserves ==
    ASSUME IndInv, OpenNew
    PROVE  IndInv'
<1>a. /\ phase = "new" /\ phase' = "open"
      /\ UNCHANGED <<wal, dirty, manifest, files, nextSeq, nextFileNum, memtable, immutables,
                     version, bgErr, mu, checked, wr, spawned, fl, cursor, acked, crashes, faults>>
    BY DEF OpenNew, disk, memory, locks, counters
<1>b. wal = <<>> /\ manifest = <<>> /\ version = NewVersionSet /\ acked = {} /\ nextSeq \in Nat \ {0}
    BY <1>a DEF IndInv, NewInv, TypeOK
<1>c. ManifestTables(manifest) = {} /\ ManifestCutoff(manifest) = 0
    BY <1>b, EmptyManifest
<1>d. mu = "free" /\ wr.pc = "idle" /\ fl.pc = "idle" /\ immutables = <<>> /\ memtable = {}
    BY <1>a DEF IndInv, WriterInv, FlushInv, MemInv, Alive, Replaying, TypeOK
<1>1. TypeOK'
    BY <1>a DEF IndInv, TypeOK, Phases
<1>2. ManifestInv'
    BY <1>a DEF IndInv, ManifestInv
<1>3. VersionInv'
    BY <1>a, <1>b, <1>c DEF VersionInv, NewVersionSet
<1>4. MemInv'
    BY <1>a, <1>d DEF MemInv
<1>5. WalInv'
    BY <1>a DEF IndInv, WalInv
<1>6. WriterInv'
    BY <1>a, <1>d DEF WriterInv
<1>7. FlushInv'
    BY <1>a, <1>d DEF FlushInv
<1>8. ReplayInv'
    BY <1>a, <1>b DEF ReplayInv, Replaying
<1>9. AckedInv'
    BY <1>a, <1>b DEF AckedInv
<1>10. NewInv'
    BY <1>a DEF NewInv
<1> QED BY <1>1, <1>2, <1>3, <1>4, <1>5, <1>6, <1>7, <1>8, <1>9, <1>10 DEF IndInv

\* The tables of an intact MANIFEST are finitely many.
LEMMA TablesFinite ==
    ASSUME NEW m, GoodManifest(m)
    PROVE  IsFiniteSet(ManifestTables(m))
<1> DEFINE S == {i \in DOMAIN m : m[i].type = "add"}
           T == ManifestTables(m)
           f == [i \in S |-> m[i].table]
<1>1. T = {m[i].table : i \in S}
    BY ReplayOfIntact DEF GoodManifest
<1>2. IsFiniteSet(S)
    <2>1. Len(m) \in Nat /\ DOMAIN m = 1..Len(m)
        BY SequenceDomain DEF GoodManifest
    <2>2. IsFiniteSet(DOMAIN m)
        BY <2>1, FS_Interval
    <2> QED BY <2>2, FS_Subset
<1> HIDE DEF S, T
<1>3. f \in Surjection(S, T)
    BY <1>1 DEF Surjection
<1> HIDE DEF f
<1>4. IsFiniteSet(T)
    BY <1>2, <1>3, FS_Surjection
<1> QED BY <1>4 DEF T

\* MaxOrZero bounds every member of a set that has a maximum.
LEMMA MaxOrZeroOfMax ==
    ASSUME NEW S, S \subseteq Nat, HasMax(S)
    PROVE  MaxOrZero(S) \in Nat /\ \A n \in S : n <= MaxOrZero(S)
<1>1. CASE S = {}
    BY <1>1 DEF MaxOrZero
<1>2. CASE S # {}
    <2>1. PICK n \in S : \A m \in S : m <= n
        BY <1>2 DEF HasMax
    <2> QED BY <2>1, MaxOrZeroMax
<1> QED BY <1>1, <1>2

\* The counters start above every number the MANIFEST names.
LEMMA RecoverStartPreserves ==
    ASSUME IndInv, RecoverStart
    PROVE  IndInv'
<1> DEFINE v == ReplayManifest(manifest)
           T == ManifestTables(manifest)
           nums == {t.num : t \in T}
           seqs == {t.largestSeq : t \in T}
           c == ManifestCutoff(manifest)
<1>a. /\ phase = "down" /\ phase' = "replay" /\ version' = v
      /\ nextSeq' = RecoveredSeq(v) + 1
      /\ nextFileNum' = MaxOrZero(FileNums(v)) + 1
      /\ cursor' = <<1, 1>>
      /\ UNCHANGED <<wal, dirty, manifest, files, memtable, immutables,
                     bgErr, mu, checked, wr, spawned, fl, acked, crashes, faults>>
    BY DEF RecoverStart, RecoveredFileNum, disk, locks, counters
<1>b. GoodManifest(manifest)
    BY ManifestIsGood DEF IndInv
<1>c. /\ \A t \in T : TableOK(t)
      /\ c \in Nat /\ ManifestObsolete(manifest) = {} /\ IsFiniteSet(T)
    BY <1>b, GoodManifestFacts, TablesFinite
<1>d. v = [tables |-> T, obsolete |-> {}, cutoff |-> c]
    BY <1>c DEF ReplayManifest
<1>e. RecoveredSeq(v) = MaxOrZero(seqs \cup {c}) /\ FileNums(v) = nums
    BY <1>d DEF RecoveredSeq, FileNums
<1>f. /\ nums \subseteq Nat /\ HasMax(nums)
      /\ seqs \subseteq Nat /\ HasMax(seqs)
    BY <1>b, <1>c DEF GoodManifest, TableOK
<1> HIDE DEF v, T, nums, seqs, c
<1>g. seqs \cup {c} \subseteq Nat /\ HasMax(seqs \cup {c})
    BY <1>c, <1>f, HasMaxAdd
<1>h. /\ MaxOrZero(seqs \cup {c}) \in Nat /\ MaxOrZero(nums) \in Nat
      /\ \A n \in seqs \cup {c} : n <= MaxOrZero(seqs \cup {c})
      /\ \A n \in nums : n <= MaxOrZero(nums)
    BY <1>f, <1>g, MaxOrZeroOfMax
<1>i. nextSeq' \in Nat \ {0} /\ nextFileNum' \in Nat \ {0} /\ c < nextSeq'
    BY <1>a, <1>c, <1>e, <1>h
<1>j. \A t \in T : t.num < nextFileNum' /\ t.largestSeq < nextSeq'
    <2>1. \A t \in T : t.num \in nums /\ t.largestSeq \in seqs
        BY DEF nums, seqs
    <2>2. \A n \in nums : n \in Nat /\ n < nextFileNum'
        BY <1>a, <1>e, <1>f, <1>h
    <2>3. \A n \in seqs : n \in Nat /\ n < nextSeq'
        BY <1>a, <1>e, <1>f, <1>h
    <2> QED BY <2>1, <2>2, <2>3
<1>k. mu = "free" /\ wr.pc = "idle" /\ fl.pc = "idle" /\ immutables = <<>> /\ memtable = {}
    BY <1>a DEF IndInv, WriterInv, FlushInv, MemInv, Alive, Replaying, TypeOK
<1>1. TypeOK'
    <2>1. VersionOK(version')
        BY <1>a, <1>c, <1>d DEF VersionOK
    <2>2. cursor' \in Nat \X Nat
        BY <1>a
    <2>3. phase' \in Phases
        BY <1>a DEF Phases
    <2> QED BY <1>a, <1>i, <2>1, <2>2, <2>3 DEF IndInv, TypeOK
<1>2. ManifestInv'
    BY <1>a DEF IndInv, ManifestInv
<1>3. VersionInv'
    <2>1. Alive' /\ version'.tables = T /\ version'.obsolete = {} /\ version'.cutoff = c
        BY <1>a, <1>d DEF Alive, Replaying
    <2>2. ManifestTables(manifest') = T /\ ManifestCutoff(manifest') = c
        BY <1>a DEF T, c
    <2>3. \A t \in T : t.num \in DOMAIN files'
        BY <1>a DEF IndInv, VersionInv, T
    <2> QED BY <1>c, <1>i, <1>j, <2>1, <2>2, <2>3 DEF VersionInv
<1>4. MemInv'
    BY <1>a, <1>k DEF MemInv
<1>5. WalInv'
    BY <1>a DEF IndInv, WalInv
<1>6. WriterInv'
    BY <1>a, <1>k DEF WriterInv
<1>7. FlushInv'
    BY <1>a, <1>k DEF FlushInv
<1>8. ReplayInv'
    <2>1. wal' \in Seq(Segment)
        BY <1>1 DEF TypeOK
    <2>2. ASSUME NEW i \in DOMAIN wal', NEW j \in DOMAIN wal'[i]
          PROVE  ~(i < 1) /\ ~(j < 1)
        BY <2>1, Segments
    <2> QED BY <1>a, <2>2 DEF ReplayInv, Replaying
<1>9. AckedInv'
    <2>1. TableEntries' = TableEntries
        BY <1>a DEF TableEntries
    <2>2. \A e : InWal(e) => InWal(e)'
        BY <1>a DEF InWal, Stable
    <2> QED BY <1>a, <2>1, <2>2 DEF IndInv, AckedInv
<1>10. NewInv'
    BY <1>a DEF NewInv
<1> QED BY <1>1, <1>2, <1>3, <1>4, <1>5, <1>6, <1>7, <1>8, <1>9, <1>10 DEF IndInv

(***************************************************************************)
(* A step of Recover that reads the log: only the cursor, the memtable,    *)
(* the next sequence number and the phase change, and both the memtable    *)
(* and the number only grow.                                               *)
(***************************************************************************)
LEMMA ReadStep ==
    ASSUME IndInv, Replaying, phase' \in {"replay", "page", "open"},
           UNCHANGED <<wal, dirty, manifest, files, nextFileNum, immutables, version,
                       bgErr, mu, checked, wr, spawned, fl, acked, crashes, faults>>,
           cursor' \in Nat \X Nat,
           memtable' \subseteq Entry(Keys), nextSeq' \in Nat, nextSeq' >= nextSeq,
           \A e \in memtable' : e.seq < nextSeq',
           ReplayInv'
    PROVE  IndInv'
<1>a. mu = "free" /\ wr.pc = "idle" /\ fl.pc = "idle" /\ immutables = <<>> /\ phase # "up" /\ phase # "new"
    BY DEF IndInv, WriterInv, FlushInv, MemInv, Replaying, TypeOK
<1>b. Alive /\ Alive' /\ nextSeq \in Nat \ {0} /\ nextSeq' \in Nat \ {0}
    BY DEF Alive, Replaying, IndInv, TypeOK
<1>1. TypeOK'
    BY <1>b DEF IndInv, TypeOK, Phases
<1>2. ManifestInv'
    BY DEF IndInv, ManifestInv
<1>3. VersionInv'
    <2>1. \A t \in version.tables : t.largestSeq \in Nat /\ t.largestSeq < nextSeq
        BY <1>b DEF IndInv, VersionInv, TypeOK, VersionOK, TableOK
    <2>2. \A t \in version.tables : t.largestSeq < nextSeq'
        BY <2>1, <1>b
    <2>3. ManifestCutoff(manifest) \in Nat /\ ManifestCutoff(manifest) < nextSeq
        BY <1>b, ManifestIsGood, GoodManifestFacts DEF IndInv, VersionInv
    <2>4. ManifestCutoff(manifest) < nextSeq'
        BY <1>b, <2>3
    <2> QED BY <1>a, <1>b, <2>2, <2>4 DEF IndInv, VersionInv
<1>4. MemInv'
    BY <1>a, <1>b DEF MemInv
<1>5. WalInv'
    BY DEF IndInv, WalInv
<1>6. WriterInv'
    BY <1>a DEF WriterInv
<1>7. FlushInv'
    BY <1>a DEF FlushInv
<1>9. AckedInv'
    <2>1. TableEntries' = TableEntries
        BY DEF TableEntries
    <2>2. \A e : InWal(e) => InWal(e)'
        BY DEF InWal, Stable
    <2> QED BY <2>1, <2>2 DEF IndInv, AckedInv
<1>10. NewInv'
    BY DEF NewInv
<1> QED BY <1>1, <1>2, <1>3, <1>4, <1>5, <1>6, <1>7, <1>9, <1>10 DEF IndInv

\* What Recover relies on while it reads.
LEMMA Reading ==
    ASSUME IndInv, phase = "replay"
    PROVE  /\ Replaying /\ wal \in Seq(Segment) /\ Len(wal) \in Nat /\ DOMAIN wal = 1..Len(wal)
           /\ \A i \in 1..Len(wal) :
                 Len(wal[i]) \in Nat /\ DOMAIN wal[i] = 1..Len(wal[i])
           /\ cursor = <<cursor[1], cursor[2]>>
           /\ cursor[1] \in Nat \ {0} /\ cursor[2] \in Nat \ {0}
           /\ \A i \in 1..Len(wal) : \A j \in 1..Len(wal[i]) :
                 i < cursor[1] \/ (i = cursor[1] /\ j < cursor[2]) => Recovered(i, j)
           /\ memtable \subseteq Entry(Keys) /\ nextSeq \in Nat
           /\ \A e \in memtable : e.seq < nextSeq
<1>1. Replaying /\ wal \in Seq(Segment)
    BY DEF Replaying, IndInv, TypeOK
<1>2. /\ Len(wal) \in Nat /\ DOMAIN wal = 1..Len(wal)
      /\ \A i \in 1..Len(wal) : Len(wal[i]) \in Nat /\ DOMAIN wal[i] = 1..Len(wal[i])
    BY <1>1, Segments
<1>3. /\ cursor = <<cursor[1], cursor[2]>>
      /\ cursor[1] \in Nat \ {0} /\ cursor[2] \in Nat \ {0}
    BY <1>1 DEF IndInv, TypeOK, ReplayInv
<1>4. \A i \in 1..Len(wal) : \A j \in 1..Len(wal[i]) :
          i < cursor[1] \/ (i = cursor[1] /\ j < cursor[2]) => Recovered(i, j)
    BY <1>1, <1>2 DEF IndInv, ReplayInv
<1>5. memtable \subseteq Entry(Keys) /\ nextSeq \in Nat /\ \A e \in memtable : e.seq < nextSeq
    BY DEF IndInv, TypeOK, MemInv
<1> QED BY <1>1, <1>2, <1>3, <1>4, <1>5

\* At the end of a segment all of its records have been recovered.
LEMMA ReplayNextSegmentPreserves ==
    ASSUME IndInv, ReplayNextSegment
    PROVE  IndInv'
<1>a. /\ phase = "replay" /\ phase' = "replay" /\ cursor[1] <= Len(wal) /\ ~AtRecord
      /\ cursor' = <<cursor[1] + 1, 1>>
      /\ UNCHANGED <<wal, dirty, manifest, files, nextSeq, nextFileNum, memtable, immutables,
                     version, bgErr, mu, checked, wr, spawned, fl, acked, crashes, faults>>
    BY DEF ReplayNextSegment, CursorSeg, disk, memory, locks, counters
<1>b. /\ Replaying /\ wal \in Seq(Segment) /\ Len(wal) \in Nat /\ DOMAIN wal = 1..Len(wal)
      /\ \A i \in 1..Len(wal) : Len(wal[i]) \in Nat /\ DOMAIN wal[i] = 1..Len(wal[i])
      /\ cursor[1] \in Nat \ {0} /\ cursor[2] \in Nat \ {0}
      /\ \A i \in 1..Len(wal) : \A j \in 1..Len(wal[i]) :
            i < cursor[1] \/ (i = cursor[1] /\ j < cursor[2]) => Recovered(i, j)
      /\ memtable \subseteq Entry(Keys) /\ nextSeq \in Nat
      /\ \A e \in memtable : e.seq < nextSeq
    BY <1>a, Reading
<1>c. cursor[2] > Len(wal[cursor[1]])
    <2>1. cursor[1] \in 1..Len(wal)
        BY <1>a, <1>b
    <2>2. SUFFICES ASSUME cursor[2] <= Len(wal[cursor[1]]) PROVE FALSE
        BY <1>b, <2>1
    <2>3. cursor[2] \in DOMAIN wal[cursor[1]]
        BY <1>b, <2>1, <2>2
    <2>4. wal[cursor[1]][cursor[2]].ok
        BY <1>b, <2>1, <2>3 DEF IndInv, WalInv
    <2> QED BY <1>a, <2>2, <2>4 DEF AtRecord, CursorSeg, CursorRec
<1>d. cursor'[1] = cursor[1] + 1 /\ cursor'[2] = 1 /\ cursor' \in Nat \X Nat
    BY <1>a, <1>b
<1>e. ReplayInv'
    <2>1. ASSUME NEW i \in 1..Len(wal), NEW j \in 1..Len(wal[i]),
                 i < cursor[1] + 1 \/ (i = cursor[1] + 1 /\ j < 1)
          PROVE  Recovered(i, j)
        <3>1. i <= cursor[1]
            BY <2>1, <1>b
        <3>2. i < cursor[1] \/ (i = cursor[1] /\ j < cursor[2])
            BY <3>1, <1>b, <1>c
        <3> QED BY <3>2, <1>b
    <2>2. \A i, j : Recovered(i, j)' <=> Recovered(i, j)
        BY <1>a DEF Recovered, TableEntries
    <2>3. cursor'[1] > 0 /\ cursor'[2] > 0
        BY <1>b, <1>d
    <2> QED BY <1>a, <1>b, <1>d, <2>1, <2>2, <2>3 DEF ReplayInv
<1>f. nextSeq' >= nextSeq /\ phase' \in {"replay", "page", "open"}
    BY <1>a, <1>b
<1> QED BY <1>a, <1>b, <1>d, <1>e, <1>f, ReadStep

\* A record at or below the cutoff need not be recovered.
LEMMA ReplaySkipPreserves ==
    ASSUME IndInv, ReplaySkip
    PROVE  IndInv'
<1>a. /\ phase = "replay" /\ phase' = "replay" /\ cursor[1] <= Len(wal)
      /\ wal[cursor[1]][cursor[2]].last <= version.cutoff
      /\ cursor' = <<cursor[1], cursor[2] + 1>>
      /\ UNCHANGED <<wal, dirty, manifest, files, nextSeq, nextFileNum, memtable, immutables,
                     version, bgErr, mu, checked, wr, spawned, fl, acked, crashes, faults>>
    BY DEF ReplaySkip, AtRecord, Superseded, CursorSeg, CursorRec, disk, memory, locks, counters
<1>b. /\ Replaying /\ wal \in Seq(Segment) /\ Len(wal) \in Nat /\ DOMAIN wal = 1..Len(wal)
      /\ \A i \in 1..Len(wal) : Len(wal[i]) \in Nat /\ DOMAIN wal[i] = 1..Len(wal[i])
      /\ cursor[1] \in Nat \ {0} /\ cursor[2] \in Nat \ {0}
      /\ \A i \in 1..Len(wal) : \A j \in 1..Len(wal[i]) :
            i < cursor[1] \/ (i = cursor[1] /\ j < cursor[2]) => Recovered(i, j)
      /\ memtable \subseteq Entry(Keys) /\ nextSeq \in Nat
      /\ \A e \in memtable : e.seq < nextSeq
    BY <1>a, Reading
<1>d. cursor'[1] = cursor[1] /\ cursor'[2] = cursor[2] + 1 /\ cursor' \in Nat \X Nat
    BY <1>a, <1>b
<1>e. ReplayInv'
    <2>0. version.cutoff = ManifestCutoff(manifest) /\ ManifestCutoff(manifest) \in Nat
        BY <1>a, ManifestIsGood, GoodManifestFacts DEF IndInv, VersionInv, Alive, Replaying
    <2>1. ASSUME NEW i \in 1..Len(wal), NEW j \in 1..Len(wal[i]),
                 i < cursor[1] \/ (i = cursor[1] /\ j < cursor[2] + 1)
          PROVE  Recovered(i, j)
        <3>1. CASE i < cursor[1] \/ (i = cursor[1] /\ j < cursor[2])
            BY <3>1, <1>b
        <3>2. CASE i = cursor[1] /\ j = cursor[2]
            <4>1. wal[i][j].last \in Nat
                <5>1. wal[i][j] \in LogRecord
                    BY <1>b, Segments
                <5> QED BY <5>1 DEF LogRecord
            <4> QED BY <1>a, <2>0, <3>2, <4>1 DEF Recovered
        <3>3. (i < cursor[1] \/ (i = cursor[1] /\ j < cursor[2])) \/ (i = cursor[1] /\ j = cursor[2])
            BY <2>1, <1>b
        <3> QED BY <3>1, <3>2, <3>3
    <2>2. \A i, j : Recovered(i, j)' <=> Recovered(i, j)
        BY <1>a DEF Recovered, TableEntries
    <2>3. cursor'[1] > 0 /\ cursor'[2] > 0
        BY <1>b, <1>d
    <2> QED BY <1>a, <1>b, <1>d, <2>1, <2>2, <2>3 DEF ReplayInv
<1>f. nextSeq' >= nextSeq /\ phase' \in {"replay", "page", "open"}
    BY <1>a, <1>b
<1> QED BY <1>a, <1>b, <1>d, <1>e, <1>f, ReadStep

\* An applied record is in the memtable.
LEMMA ReplayApplyPreserves ==
    ASSUME IndInv, ReplayApply
    PROVE  IndInv'
<1> DEFINE r == wal[cursor[1]][cursor[2]]
<1>a. /\ phase = "replay" /\ phase' \in {"replay", "page"}
      /\ cursor[1] <= Len(wal) /\ cursor[2] <= Len(wal[cursor[1]])
      /\ memtable' = memtable \cup r.ents
      /\ nextSeq' = IF r.last >= nextSeq THEN r.last + 1 ELSE nextSeq
      /\ cursor' = <<cursor[1], cursor[2] + 1>>
      /\ UNCHANGED <<wal, dirty, manifest, files, nextFileNum, immutables,
                     version, bgErr, mu, checked, wr, spawned, fl, acked, crashes, faults>>
    BY DEF ReplayApply, AtRecord, CursorSeg, CursorRec, disk, locks, counters
<1>b. /\ Replaying /\ wal \in Seq(Segment) /\ Len(wal) \in Nat /\ DOMAIN wal = 1..Len(wal)
      /\ \A i \in 1..Len(wal) : Len(wal[i]) \in Nat /\ DOMAIN wal[i] = 1..Len(wal[i])
      /\ cursor[1] \in Nat \ {0} /\ cursor[2] \in Nat \ {0}
      /\ \A i \in 1..Len(wal) : \A j \in 1..Len(wal[i]) :
            i < cursor[1] \/ (i = cursor[1] /\ j < cursor[2]) => Recovered(i, j)
      /\ memtable \subseteq Entry(Keys) /\ nextSeq \in Nat
      /\ \A e \in memtable : e.seq < nextSeq
    BY <1>a, Reading
<1>c. /\ r.ents \subseteq Entry(Keys) /\ r.last \in Nat
      /\ \A e \in r.ents : e.seq <= r.last
    <2>1. cursor[1] \in 1..Len(wal)
        BY <1>a, <1>b
    <2>2. cursor[2] \in 1..Len(wal[cursor[1]])
        BY <1>a, <1>b, <2>1
    <2>3. r \in LogRecord
        BY <1>b, <2>1, <2>2, Segments
    <2> QED BY <1>b, <2>1, <2>2, <2>3 DEF LogRecord, IndInv, WalInv
<1> HIDE DEF r
<1>d. cursor'[1] = cursor[1] /\ cursor'[2] = cursor[2] + 1 /\ cursor' \in Nat \X Nat
    BY <1>a, <1>b
<1>e. ReplayInv'
    <2>1. \A i, j : Recovered(i, j) => Recovered(i, j)'
        BY <1>a DEF Recovered, TableEntries
    <2>2. ASSUME NEW i \in 1..Len(wal), NEW j \in 1..Len(wal[i]),
                 i < cursor[1] \/ (i = cursor[1] /\ j < cursor[2] + 1)
          PROVE  Recovered(i, j)'
        <3>1. CASE i < cursor[1] \/ (i = cursor[1] /\ j < cursor[2])
            BY <3>1, <1>b, <2>1
        <3>2. CASE i = cursor[1] /\ j = cursor[2]
            <4>1. wal'[i][j] = r
                BY <1>a, <3>2 DEF r
            <4> QED BY <1>a, <4>1 DEF Recovered
        <3>3. (i < cursor[1] \/ (i = cursor[1] /\ j < cursor[2])) \/ (i = cursor[1] /\ j = cursor[2])
            BY <2>2, <1>b
        <3> QED BY <3>1, <3>2, <3>3
    <2>3. cursor'[1] > 0 /\ cursor'[2] > 0
        BY <1>b, <1>d
    <2>4. phase' # "pagecommit" /\ phase' # "open"
        BY <1>a
    <2> QED BY <1>a, <1>b, <1>d, <2>2, <2>3, <2>4 DEF ReplayInv
<1>f. nextSeq' \in Nat /\ nextSeq' >= nextSeq /\ r.last < nextSeq'
    BY <1>a, <1>b, <1>c
<1>g. memtable' \subseteq Entry(Keys) /\ \A e \in memtable' : e.seq < nextSeq'
    <2>1. memtable' \subseteq Entry(Keys) /\ \A e \in memtable' : e.seq \in Nat
        BY <1>a, <1>b, <1>c DEF Entry
    <2>2. \A e \in memtable : e.seq < nextSeq'
        BY <1>a, <1>b, <1>f, <2>1
    <2>3. \A e \in r.ents : e.seq < nextSeq'
        BY <1>a, <1>c, <1>f, <2>1
    <2> QED BY <1>a, <2>1, <2>2, <2>3
<1>h. phase' \in {"replay", "page", "open"}
    BY <1>a
<1> QED BY <1>a, <1>b, <1>d, <1>e, <1>f, <1>g, <1>h, ReadStep

\* When every segment has been read every record has been recovered.
LEMMA ReplayDonePreserves ==
    ASSUME IndInv, ReplayDone
    PROVE  IndInv'
<1>a. /\ phase = "replay" /\ phase' = "open" /\ cursor[1] > Len(wal)
      /\ UNCHANGED <<wal, dirty, manifest, files, nextSeq, nextFileNum, memtable, immutables,
                     version, bgErr, mu, checked, wr, spawned, fl, cursor, acked, crashes, faults>>
    BY DEF ReplayDone, CursorSeg, disk, memory, locks, counters
<1>b. /\ Replaying /\ Len(wal) \in Nat /\ DOMAIN wal = 1..Len(wal)
      /\ \A i \in 1..Len(wal) : Len(wal[i]) \in Nat /\ DOMAIN wal[i] = 1..Len(wal[i])
      /\ cursor[1] \in Nat \ {0} /\ cursor[2] \in Nat \ {0}
      /\ cursor = <<cursor[1], cursor[2]>>
      /\ \A i \in 1..Len(wal) : \A j \in 1..Len(wal[i]) :
            i < cursor[1] \/ (i = cursor[1] /\ j < cursor[2]) => Recovered(i, j)
      /\ memtable \subseteq Entry(Keys) /\ nextSeq \in Nat
      /\ \A e \in memtable : e.seq < nextSeq
    BY <1>a, Reading
<1>c. ReplayInv'
    <2>1. \A i \in 1..Len(wal) : \A j \in 1..Len(wal[i]) : Recovered(i, j)
        BY <1>a, <1>b
    <2>2. \A i, j : Recovered(i, j)' <=> Recovered(i, j)
        BY <1>a DEF Recovered, TableEntries
    <2> QED BY <1>a, <1>b, <2>1, <2>2 DEF ReplayInv, Replaying
<1>d. cursor' \in Nat \X Nat /\ nextSeq' >= nextSeq /\ phase' \in {"replay", "page", "open"}
    BY <1>a, <1>b DEF IndInv, TypeOK
<1> QED BY <1>a, <1>b, <1>c, <1>d, ReadStep

\* What Recover relies on while it pages a memtable out.
LEMMA Paging ==
    ASSUME IndInv, phase \in {"page", "pagecommit"}
    PROVE  /\ Replaying /\ Alive
           /\ nextFileNum \in Nat \ {0} /\ FilesOK(files)
           /\ memtable \subseteq Entry(Keys)
           /\ TableOK(PagedTable) /\ PagedTable.num = nextFileNum
           /\ PagedTable.largestSeq < nextSeq
           /\ \A t \in version.tables : t.num # nextFileNum /\ t.num \in DOMAIN files
           /\ ManifestTables(manifest) \subseteq version.tables
           /\ mu = "free" /\ wr.pc = "idle" /\ fl.pc = "idle" /\ immutables = <<>>
<1>1. Replaying /\ Alive
    BY DEF Replaying, Alive
<1>2. /\ nextFileNum \in Nat \ {0} /\ FilesOK(files) /\ nextSeq \in Nat \ {0}
      /\ memtable \subseteq Entry(Keys) /\ VersionOK(version)
    BY DEF IndInv, TypeOK
<1>3. /\ ManifestTables(manifest) \subseteq version.tables
      /\ \A t \in version.tables : t.num \in DOMAIN files /\ t.num < nextFileNum
    BY <1>1 DEF IndInv, VersionInv
<1>4. \A t \in version.tables : t.num # nextFileNum
    BY <1>2, <1>3 DEF VersionOK, TableOK
<1>5. nextSeq - 1 \in Nat /\ \A e \in memtable : e.seq \in Nat /\ e.seq <= nextSeq - 1
    <2>1. \A e \in memtable : e.seq \in Nat /\ e.seq < nextSeq
        BY <1>2 DEF IndInv, MemInv, Entry
    <2> QED BY <1>2, <2>1
<1>6. LargestSeq(memtable) \in Nat /\ LargestSeq(memtable) <= nextSeq - 1
    BY <1>5, LargestSeqMax
<1>7. PagedTable.num = nextFileNum /\ PagedTable.largestSeq = LargestSeq(memtable)
    BY DEF PagedTable, TableMeta
<1>8. TableOK(PagedTable) /\ PagedTable.largestSeq < nextSeq
    BY <1>2, <1>6, <1>7 DEF TableOK
<1>9. mu = "free" /\ wr.pc = "idle" /\ fl.pc = "idle" /\ immutables = <<>>
    BY <1>1 DEF IndInv, WriterInv, FlushInv, MemInv, Replaying, TypeOK
<1> QED BY <1>1, <1>2, <1>3, <1>4, <1>7, <1>8, <1>9

\* The table recovery pages out has a number no table in the MANIFEST uses.
LEMMA PageBuildPreserves ==
    ASSUME IndInv, PageBuild
    PROVE  IndInv'
<1>a. /\ phase = "page" /\ phase' = "pagecommit"
      /\ files' = WriteFile(nextFileNum, memtable)
      /\ UNCHANGED <<wal, dirty, manifest, nextSeq, nextFileNum, memtable, immutables, version,
                     bgErr, mu, checked, wr, spawned, fl, cursor, acked, crashes, faults>>
    BY DEF PageBuild, memory, locks, counters
<1>b. /\ Replaying /\ Alive /\ nextFileNum \in Nat /\ FilesOK(files)
      /\ memtable \subseteq Entry(Keys)
      /\ \A t \in version.tables : t.num # nextFileNum /\ t.num \in DOMAIN files
      /\ ManifestTables(manifest) \subseteq version.tables
      /\ mu = "free" /\ wr.pc = "idle" /\ fl.pc = "idle" /\ immutables = <<>>
    BY <1>a, Paging
<1>c. /\ FilesOK(files') /\ nextFileNum \in DOMAIN files' /\ files'[nextFileNum] = memtable
      /\ \A n \in DOMAIN files : n \in DOMAIN files' /\ (n # nextFileNum => files'[n] = files[n])
    BY <1>a, <1>b, FileWritten
<1>d. TableEntries' = TableEntries
    BY <1>a, <1>b, <1>c, SameTables
<1>e. Alive' /\ Replaying' /\ phase' # "up"
    BY <1>a DEF Alive, Replaying
<1>1. TypeOK'
    BY <1>a, <1>c DEF IndInv, TypeOK, Phases
<1>2. ManifestInv'
    BY <1>a DEF IndInv, ManifestInv
<1>3. VersionInv'
    BY <1>a, <1>b, <1>c, <1>e DEF IndInv, VersionInv
<1>4. MemInv'
    BY <1>a, <1>b, <1>e DEF IndInv, MemInv
<1>5. WalInv'
    BY <1>a DEF IndInv, WalInv
<1>6. WriterInv'
    BY <1>a, <1>b DEF WriterInv
<1>7. FlushInv'
    BY <1>a, <1>b DEF FlushInv
<1>8. ReplayInv'
    <2>1. \A i, j : Recovered(i, j)' <=> Recovered(i, j)
        BY <1>a, <1>d DEF Recovered
    <2> QED BY <1>a, <1>b, <1>c, <2>1 DEF IndInv, ReplayInv
<1>9. AckedInv'
    <2>1. \A e : InWal(e) => InWal(e)'
        BY <1>a DEF InWal, Stable
    <2> QED BY <1>a, <1>d, <2>1 DEF IndInv, AckedInv
<1>10. NewInv'
    BY <1>a DEF NewInv
<1> QED BY <1>1, <1>2, <1>3, <1>4, <1>5, <1>6, <1>7, <1>8, <1>9, <1>10 DEF IndInv

\* Recovery may stop before the table is complete and start again.
LEMMA PageBuildFailsPreserves ==
    ASSUME IndInv, PageBuildFails
    PROVE  IndInv'
<1>a. /\ phase = "page" /\ ProcessEnds /\ phase' = "down" /\ faults' = faults + 1
      /\ files' = WriteFile(nextFileNum, {})
      /\ UNCHANGED <<wal, dirty, manifest, acked, crashes>>
    BY DEF PageBuildFails, ProcessEnds, Fault
<1>b. /\ nextFileNum \in Nat /\ FilesOK(files)
      /\ \A t \in version.tables : t.num # nextFileNum /\ t.num \in DOMAIN files
      /\ ManifestTables(manifest) \subseteq version.tables
    BY <1>a, Paging
<1>c. /\ FilesOK(files')
      /\ \A n \in DOMAIN files : n \in DOMAIN files' /\ (n # nextFileNum => files'[n] = files[n])
    BY <1>a, <1>b, FileWritten
<1>d. TableEntries' = TableEntries
    BY <1>a, <1>b, <1>c, SameTables
<1>1. WalInv'
    BY <1>a DEF IndInv, WalInv
<1>2. GoodManifest(manifest')
    BY <1>a, ManifestIsGood DEF IndInv
<1>3. \A e \in acked' : e \in TableEntries' \/ InWal(e)'
    <2>1. \A e : InWal(e) => InWal(e)'
        BY <1>a DEF InWal, Stable
    <2> QED BY <1>a, <1>d, <2>1 DEF IndInv, AckedInv
<1>4. /\ wal' \in Seq(Segment) /\ dirty' \in Nat
      /\ \A t \in ManifestTables(manifest') : t.num \in DOMAIN files'
      /\ acked' \subseteq Entry(Keys) /\ crashes' \in Nat /\ faults' \in Nat
    BY <1>a, <1>b, <1>c DEF IndInv, TypeOK
<1> QED BY <1>a, <1>c, <1>1, <1>2, <1>3, <1>4, EndedProcess

\* The memtable that was paged out is in a table of the MANIFEST.
LEMMA PageCommitPreserves ==
    ASSUME IndInv, PageCommit
    PROVE  IndInv'
<1> DEFINE t == PagedTable
<1>a. /\ phase = "pagecommit" /\ phase' = "replay"
      /\ version' = AddTable(version, t)
      /\ manifest' = Append(manifest, AddRecord(t))
      /\ nextFileNum' = nextFileNum + 1 /\ memtable' = {}
      /\ UNCHANGED <<wal, dirty, files, nextSeq, immutables,
                     bgErr, mu, checked, wr, spawned, fl, cursor, acked, crashes, faults>>
    BY DEF PageCommit, locks, counters
<1>b. /\ Replaying /\ Alive /\ nextFileNum \in Nat \ {0}
      /\ TableOK(t) /\ t.num = nextFileNum /\ t.largestSeq < nextSeq
      /\ ManifestTables(manifest) \subseteq version.tables
      /\ \A u \in version.tables : u.num \in DOMAIN files
      /\ mu = "free" /\ wr.pc = "idle" /\ fl.pc = "idle" /\ immutables = <<>>
    BY <1>a, Paging
<1>c. nextFileNum \in DOMAIN files /\ files[nextFileNum] = memtable
    BY <1>a DEF IndInv, ReplayInv
<1> HIDE DEF t
<1>d. /\ GoodManifest(manifest')
      /\ ManifestTables(manifest') = ManifestTables(manifest) \cup {t}
      /\ ManifestCutoff(manifest') = ManifestCutoff(manifest)
    BY <1>a, <1>b, ManifestIsGood, EditAdd DEF IndInv
<1>e. /\ version'.tables = version.tables \cup {t} /\ version'.obsolete = version.obsolete
      /\ version'.cutoff = version.cutoff
      /\ version' = [tables |-> version'.tables, obsolete |-> version'.obsolete,
                     cutoff |-> version'.cutoff]
    BY <1>a DEF AddTable, IndInv, TypeOK, VersionOK
<1>f. VersionOK(version')
    <2>0. IsFiniteSet(version.tables)
        BY DEF IndInv, TypeOK, VersionOK
    <2>1. IsFiniteSet(version'.tables)
        BY <1>e, <2>0, FS_AddElement
    <2> QED BY <1>b, <1>e, <2>1 DEF IndInv, TypeOK, VersionOK
<1>g. TableEntries \subseteq TableEntries'
    BY <1>a, <1>b, <1>d, MoreTables
<1>h. memtable \subseteq TableEntries'
    BY <1>a, <1>b, <1>c, <1>d DEF TableEntries
<1>i. Alive' /\ Replaying' /\ phase' # "up"
    BY <1>a DEF Alive, Replaying
<1>1. TypeOK'
    <2>1. ManifestOK(manifest')
        BY <1>d DEF GoodManifest, ManifestOK
    <2>2. nextFileNum' \in Nat \ {0}
        BY <1>a, <1>b
    <2>3. phase' \in Phases /\ memtable' \subseteq Entry(Keys)
        BY <1>a DEF Phases
    <2> QED BY <1>a, <1>f, <2>1, <2>2, <2>3 DEF IndInv, TypeOK
<1>2. ManifestInv'
    BY <1>d DEF GoodManifest, ManifestInv
<1>3. VersionInv'
    <2>1. \A u \in version.tables : u.num \in Nat /\ u.num < nextFileNum /\ u.largestSeq < nextSeq
        BY <1>b DEF IndInv, VersionInv, TypeOK, VersionOK, TableOK
    <2>2. \A u \in version'.tables :
              u.num \in DOMAIN files' /\ u.num < nextFileNum' /\ u.largestSeq < nextSeq'
        <3>1. ASSUME NEW u \in version.tables
              PROVE  u.num \in DOMAIN files' /\ u.num < nextFileNum' /\ u.largestSeq < nextSeq'
            BY <1>a, <1>b, <2>1
        <3>2. t.num \in DOMAIN files' /\ t.num < nextFileNum' /\ t.largestSeq < nextSeq'
            BY <1>a, <1>b, <1>c
        <3> QED BY <1>e, <3>1, <3>2
    <2>3. ManifestTables(manifest') \subseteq version'.tables
        BY <1>b, <1>d, <1>e
    <2> QED BY <1>a, <1>b, <1>d, <1>e, <1>i, <2>2, <2>3 DEF IndInv, VersionInv
<1>4. MemInv'
    BY <1>a, <1>b DEF MemInv
<1>5. WalInv'
    BY <1>a DEF IndInv, WalInv
<1>6. WriterInv'
    BY <1>a, <1>b DEF WriterInv
<1>7. FlushInv'
    BY <1>a, <1>b DEF FlushInv
<1>8. ReplayInv'
    <2>1. \A i, j : Recovered(i, j) => Recovered(i, j)'
        BY <1>a, <1>d, <1>g, <1>h DEF Recovered
    <2> QED BY <1>a, <1>b, <2>1 DEF IndInv, ReplayInv
<1>9. AckedInv'
    <2>1. \A e : InWal(e) => InWal(e)'
        BY <1>a, <1>d DEF InWal, Stable
    <2> QED BY <1>a, <1>g, <2>1 DEF IndInv, AckedInv
<1>10. NewInv'
    BY <1>a DEF NewInv
<1> QED BY <1>1, <1>2, <1>3, <1>4, <1>5, <1>6, <1>7, <1>8, <1>9, <1>10 DEF IndInv

\* The Add record may be in the MANIFEST or not: recovery starts again.
LEMMA PageCommitFailsPreserves ==
    ASSUME NoTearing, IndInv, PageCommitFails
    PROVE  IndInv'
<1> DEFINE t == PagedTable
<1>a. /\ phase = "pagecommit" /\ ProcessEnds /\ phase' = "down" /\ faults' = faults + 1
      /\ manifest' \in {manifest, Append(manifest, AddRecord(t))}
      /\ UNCHANGED <<wal, dirty, files, acked, crashes>>
    BY DEF PageCommitFails, ProcessEnds, ManifestAppendFails, Fault, NoTearing
<1>b. /\ TableOK(t) /\ t.num = nextFileNum
      /\ ManifestTables(manifest) \subseteq version.tables
      /\ \A u \in version.tables : u.num \in DOMAIN files
    BY <1>a, Paging
<1>c. nextFileNum \in DOMAIN files
    BY <1>a DEF IndInv, ReplayInv
<1> HIDE DEF t
<1>d. /\ GoodManifest(manifest')
      /\ ManifestTables(manifest) \subseteq ManifestTables(manifest')
      /\ ManifestTables(manifest') \subseteq ManifestTables(manifest) \cup {t}
      /\ ManifestCutoff(manifest') = ManifestCutoff(manifest)
    <2>1. GoodManifest(manifest)
        BY ManifestIsGood DEF IndInv
    <2>2. CASE manifest' = manifest
        BY <2>1, <2>2
    <2>3. CASE manifest' = Append(manifest, AddRecord(t))
        BY <1>b, <2>1, <2>3, EditAdd
    <2> QED BY <1>a, <2>2, <2>3
<1>e. TableEntries \subseteq TableEntries'
    BY <1>a, <1>b, <1>d, MoreTables
<1>1. WalInv'
    BY <1>a DEF IndInv, WalInv
<1>2. \A e \in acked' : e \in TableEntries' \/ InWal(e)'
    <2>1. \A e : InWal(e) => InWal(e)'
        BY <1>a, <1>d DEF InWal, Stable
    <2> QED BY <1>a, <1>e, <2>1 DEF IndInv, AckedInv
<1>3. /\ wal' \in Seq(Segment) /\ dirty' \in Nat /\ FilesOK(files')
      /\ acked' \subseteq Entry(Keys) /\ crashes' \in Nat /\ faults' \in Nat
    BY <1>a DEF IndInv, TypeOK
<1>4. \A u \in ManifestTables(manifest') : u.num \in DOMAIN files'
    BY <1>a, <1>b, <1>c, <1>d
<1> QED BY <1>a, <1>d, <1>1, <1>2, <1>3, <1>4, EndedProcess

\* All that recovery had to find is in the tables and the memtable.
LEMMA OpenDonePreserves ==
    ASSUME IndInv, OpenDone
    PROVE  IndInv'
<1>a. /\ phase = "open" /\ phase' = "up"
      /\ wal' = IF wal = <<>> THEN << <<>> >> ELSE wal
      /\ UNCHANGED <<dirty, manifest, files, nextSeq, nextFileNum, memtable, immutables, version,
                     bgErr, mu, checked, wr, spawned, fl, cursor, acked, crashes, faults>>
    BY DEF OpenDone, memory, locks, counters
<1>b. /\ mu = "free" /\ wr.pc = "idle" /\ fl.pc = "idle" /\ immutables = <<>>
      /\ Alive /\ Alive' /\ wal \in Seq(Segment)
    BY <1>a DEF IndInv, WriterInv, FlushInv, MemInv, Alive, TypeOK
<1>c. wal = <<>> => /\ wal' \in Seq(Segment) /\ wal' # <<>> /\ dirty = 0
                    /\ Len(wal') = 1 /\ DOMAIN wal' = {1} /\ wal'[1] = <<>>
    <2>1. wal = <<>> => wal' = << <<>> >> /\ dirty = 0
        BY <1>a DEF IndInv, WalInv
    <2>2. << <<>> >> \in Seq(Segment)
        BY DEF Segment
    <2>3. Len(<< <<>> >>) = 1 /\ DOMAIN << <<>> >> = {1} /\ << <<>> >>[1] = <<>> /\ << <<>> >> # <<>>
        <3>1. DOMAIN << <<>> >> = 1..1 /\ 1..1 = {1}
            OBVIOUS
        <3> QED BY <3>1
    <2> QED BY <2>1, <2>2, <2>3
<1>1. TypeOK'
    <2>1. wal' \in Seq(Segment)
        BY <1>a, <1>b, <1>c
    <2> QED BY <1>a, <2>1 DEF IndInv, TypeOK, Phases
<1>2. ManifestInv'
    BY <1>a DEF IndInv, ManifestInv
<1>3. VersionInv'
    <2>1. ManifestCutoff(manifest) \in Nat
        BY ManifestIsGood, GoodManifestFacts DEF IndInv
    <2> QED BY <1>a, <1>b, <2>1 DEF IndInv, VersionInv
<1>4. MemInv'
    BY <1>a, <1>b DEF IndInv, MemInv
<1>5. WalInv'
    <2>1. CASE wal = <<>>
        BY <1>a, <1>c, <2>1 DEF WalInv
    <2>2. CASE wal # <<>>
        BY <1>a, <2>2 DEF IndInv, WalInv
    <2> QED BY <2>1, <2>2
<1>6. WriterInv'
    BY <1>a, <1>b DEF WriterInv
<1>7. FlushInv'
    BY <1>a, <1>b DEF FlushInv
<1>8. ReplayInv'
    BY <1>a DEF ReplayInv, Replaying
<1>9. AckedInv'
    <2>1. TableEntries' = TableEntries
        BY <1>a DEF TableEntries
    <2>2. ASSUME NEW e, InWal(e) PROVE InWal(e)' /\ e \in TableEntries \cup memtable
        <3>1. PICK i \in DOMAIN wal : \E j \in DOMAIN wal[i] :
                  /\ e \in wal[i][j].ents
                  /\ wal[i][j].last > ManifestCutoff(manifest)
                  /\ Stable(i, j)
            BY <2>2 DEF InWal
        <3>2. wal # <<>>
            BY <3>1
        <3>3. wal' = wal
            BY <1>a, <3>2
        <3>4. \A k \in DOMAIN wal : \A j \in DOMAIN wal[k] : Recovered(k, j)
            BY <1>a DEF IndInv, ReplayInv
        <3>5. e \in TableEntries \cup memtable
            BY <3>1, <3>4 DEF Recovered
        <3>6. InWal(e)'
            BY <2>2, <3>3, <1>a DEF InWal, Stable
        <3> QED BY <3>5, <3>6
    <2>3. \A e \in acked : e \in TableEntries \/ InWal(e)
        BY DEF IndInv, AckedInv
    <2>4. \A e \in acked' : e \in TableEntries' \/ InWal(e)'
        BY <1>a, <2>1, <2>2, <2>3
    <2>5. acked' \subseteq TableEntries' \cup memtable'
        BY <1>a, <2>1, <2>2, <2>3
    <2> QED BY <2>4, <2>5 DEF AckedInv
<1>10. NewInv'
    BY <1>a DEF NewInv
<1> QED BY <1>1, <1>2, <1>3, <1>4, <1>5, <1>6, <1>7, <1>8, <1>9, <1>10 DEF IndInv

-----------------------------------------------------------------------------
(* The theorems.                                                           *)

\* The empty directory satisfies the invariant.
LEMMA InitEstablishes ==
    ASSUME Init
    PROVE  IndInv
<1>a. /\ wal = <<>> /\ dirty = 0 /\ manifest = <<>> /\ files = [n \in {} |-> {}]
      /\ phase = "new" /\ nextSeq = 1 /\ nextFileNum = 1
      /\ memtable = {} /\ immutables = <<>> /\ version = NewVersionSet
      /\ bgErr = FALSE /\ mu = "free" /\ checked = 0 /\ wr = IdleWriter
      /\ spawned = 0 /\ fl = IdleFlush /\ cursor = <<1, 1>> /\ acked = {}
      /\ crashes = 0 /\ faults = 0
    BY DEF Init
<1>b. GoodManifest(manifest) /\ ManifestTables(manifest) = {}
    BY <1>a, EmptyManifest
<1>1. TypeOK
    <2>1. VersionOK(version)
        BY <1>a, FS_EmptySet DEF VersionOK, NewVersionSet
    <2>2. wr \in WriterState
        BY <1>a DEF WriterState, IdleWriter
    <2>3. fl \in FlushState
        BY <1>a DEF FlushState, FlushPCs, IdleFlush
    <2>4. ManifestOK(manifest)
        BY <1>b DEF GoodManifest, ManifestOK
    <2>5. FilesOK(files)
        BY <1>a DEF FilesOK
    <2>6. phase \in Phases /\ mu \in {"free", "writer", "flush"}
        BY <1>a DEF Phases
    <2>7. bgErr \in BOOLEAN
        BY <1>a
    <2>8. cursor \in Nat \X Nat
        BY <1>a
    <2>9. /\ nextSeq \in Nat \ {0} /\ nextFileNum \in Nat \ {0} /\ dirty \in Nat
          /\ checked \in Nat /\ spawned \in Nat /\ crashes \in Nat /\ faults \in Nat
        BY <1>a
    <2>10. /\ wal \in Seq(Segment) /\ immutables \in Seq(SUBSET Entry(Keys))
           /\ memtable \subseteq Entry(Keys) /\ acked \subseteq Entry(Keys)
        BY <1>a
    <2> QED BY <2>1, <2>2, <2>3, <2>4, <2>5, <2>6, <2>7, <2>8, <2>9, <2>10 DEF TypeOK
<1>2. ManifestInv
    BY <1>b DEF GoodManifest, ManifestInv
<1>3. VersionInv
    BY <1>a, <1>b DEF VersionInv, Alive, Replaying, NewVersionSet
<1>4. MemInv
    BY <1>a DEF MemInv, Alive, Replaying
<1>5. WalInv
    BY <1>a DEF WalInv
<1>6. WriterInv
    BY <1>a DEF WriterInv, IdleWriter
<1>7. FlushInv
    BY <1>a DEF FlushInv, IdleFlush
<1>8. ReplayInv
    BY <1>a DEF ReplayInv, Replaying
<1>9. AckedInv
    BY <1>a DEF AckedInv
<1>10. NewInv
    BY <1>a DEF NewInv
<1> QED BY <1>1, <1>2, <1>3, <1>4, <1>5, <1>6, <1>7, <1>8, <1>9, <1>10 DEF IndInv

\* A step that changes no variable preserves the invariant.
LEMMA StutterPreserves ==
    ASSUME IndInv, UNCHANGED vars
    PROVE  IndInv'
<1>0. UNCHANGED <<wal, dirty, manifest, files, phase, nextSeq, nextFileNum, memtable,
                  immutables, version, bgErr, mu, checked, wr, spawned, fl, cursor, acked,
                  crashes, faults>>
    BY DEF vars, disk, memory, locks, counters
<1>1. TypeOK'
    BY <1>0 DEF IndInv, TypeOK
<1>2. ManifestInv'
    BY <1>0 DEF IndInv, ManifestInv
<1>3. VersionInv'
    BY <1>0 DEF IndInv, VersionInv, Alive, Replaying
<1>4. MemInv'
    BY <1>0 DEF IndInv, MemInv, Alive, Replaying
<1>5. WalInv'
    BY <1>0 DEF IndInv, WalInv
<1>6. WriterInv'
    BY <1>0 DEF IndInv, WriterInv
<1>7. FlushInv'
    BY <1>0 DEF IndInv, FlushInv
<1>8. ReplayInv'
    BY <1>0 DEF IndInv, ReplayInv, Recovered, TableEntries, Replaying
<1>9. AckedInv'
    BY <1>0 DEF IndInv, AckedInv, InWal, Stable, TableEntries
<1>10. NewInv'
    BY <1>0 DEF IndInv, NewInv
<1> QED BY <1>1, <1>2, <1>3, <1>4, <1>5, <1>6, <1>7, <1>8, <1>9, <1>10 DEF IndInv

\* Every step of the engine preserves the invariant.
LEMMA NextPreserves ==
    ASSUME NoTearing, IndInv, [Next]_vars
    PROVE  IndInv'
<1>1. CASE Write
    <2>1. ASSUME NEW op \in Ops, WriteAppendTorn(op) PROVE FALSE
        BY <2>1 DEF WriteAppendTorn, Fault, NoTearing
    <2> QED BY <1>1, <2>1, WriteCheckPreserves, WriteAppendPreserves, WriteAppendFailsPreserves,
               WriteSyncPreserves, WriteSyncFailsPreserves, WriteApplyPreserves DEF Write
<1>2. CASE Flush
    BY <1>2, FlushStartPreserves, FlushPickPreserves, FlushDrainedPreserves,
       FlushBuildPreserves, FlushBuildFailsPreserves,
       FlushManifestAddPreserves, FlushManifestAddFailsPreserves,
       FlushManifestCutoffPreserves, FlushManifestCutoffFailsPreserves,
       FlushSetErrorPreserves,
       FlushTruncatePreserves, FlushRemoveSegmentPreserves, FlushTruncatedPreserves,
       SkipCompactionPreserves, FlushCleanupPreserves DEF Flush
<1>3. CASE CompactManifest
    BY <1>3, CompactManifestPreserves
<1>4. CASE Open
    BY <1>4, OpenNewPreserves, RecoverStartPreserves, ReplayNextSegmentPreserves,
       ReplaySkipPreserves, ReplayApplyPreserves, PageBuildPreserves, PageBuildFailsPreserves,
       PageCommitPreserves, PageCommitFailsPreserves, ReplayDonePreserves,
       OpenDonePreserves, OpenMissingPreserves DEF Open, Recover
<1>5. CASE Stop
    <2>1. ~TableLoss
        BY DEF TableLoss, NoTearing
    <2> QED BY <1>5, <2>1, ClosePreserves, CrashPreserves, PowerLossPreserves DEF Stop
<1>6. CASE UNCHANGED vars
    BY <1>6, StutterPreserves
<1> QED BY <1>1, <1>2, <1>3, <1>4, <1>5, <1>6 DEF Next

(***************************************************************************)
(* For every set of calls, every limit of memtable and segment size, with  *)
(* and without SyncWrites: the invariant holds in every reachable state,   *)
(* however writers, flush goroutines, failed appends and fsyncs, crashes,  *)
(* losses of power and interrupted recoveries interleave.                  *)
(***************************************************************************)
THEOREM EngineInvariantHolds ==
    ASSUME NoTearing
    PROVE  Spec => []IndInv
<1>1. Init => IndInv
    BY InitEstablishes
<1>2. IndInv /\ [Next]_vars => IndInv'
    BY NextPreserves
<1> QED BY <1>1, <1>2, PTL DEF Spec

\* The state of the engine has its type in every reachable state.
THEOREM EngineTypeCorrect ==
    ASSUME NoTearing
    PROVE  Spec => []TypeOK
<1>1. IndInv => TypeOK
    BY DEF IndInv
<1> QED BY <1>1, EngineInvariantHolds, PTL

\* In a state of the invariant a restart would find every acknowledged write.
LEMMA InvariantImpliesDurable ==
    ASSUME IndInv
    PROVE  Durable
<1>1. ASSUME NEW e, InWal(e) PROVE e \in ReplayableEntries
    <2>1. PICK i \in DOMAIN wal : \E j \in DOMAIN wal[i] :
              e \in wal[i][j].ents /\ wal[i][j].last > ManifestCutoff(manifest)
        BY <1>1 DEF InWal
    <2>2. PICK j \in DOMAIN wal[i] :
              e \in wal[i][j].ents /\ wal[i][j].last > ManifestCutoff(manifest)
        BY <2>1
    <2>3. wal \in Seq(Segment)
        BY DEF IndInv, TypeOK
    <2>4. DOMAIN wal[i] = 1..Len(wal[i]) /\ Len(wal[i]) \in Nat
        BY <2>3, Segments
    <2>5. \A k \in 1..j : k \in DOMAIN wal[i]
        BY <2>4
    <2>6. Readable(i, j)
        BY <2>5 DEF Readable, IndInv, WalInv
    <2> QED BY <2>2, <2>6 DEF ReplayableEntries
<1> QED BY <1>1 DEF Durable, Recoverable, IndInv, AckedInv

(***************************************************************************)
(* No acknowledged write is lost: at every moment it is in a table the     *)
(* MANIFEST names or in a WAL record that recovery reads and applies.      *)
(***************************************************************************)
THEOREM EngineDurable ==
    ASSUME NoTearing
    PROVE  Spec => []Durable
<1>1. IndInv => Durable
    BY InvariantImpliesDurable
<1> QED BY <1>1, EngineInvariantHolds, PTL

=============================================================================
