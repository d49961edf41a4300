-------------------------- MODULE CompactionProofs --------------------------
(***************************************************************************)
(* Compaction keeps what readers can see, for every value of its constants *)
(* and however crashes, failed builds, unreadable blocks and failed        *)
(* commits fall: proofs of the invariants of Compaction from the inductive *)
(* CompactionInv.                                                          *)
(***************************************************************************)
EXTENDS CompactionInvariant, KeyLemmas

-----------------------------------------------------------------------------
(* The merge.                                                              *)

\* The first n of a finite set: closed to the front, and all if fewer than n.
LEMMA FirstNFacts ==
    ASSUME NEW S, IsFiniteSet(S), S \subseteq Entry(Keys), NEW n \in Nat
    PROVE  /\ FirstN(S, n) \subseteq S
           /\ \A e \in FirstN(S, n), f \in S : Before(f, e) => f \in FirstN(S, n)
           /\ Cardinality(FirstN(S, n)) < n => FirstN(S, n) = S
<1> DEFINE Front(e) == {f \in S : Before(f, e)}
           F == FirstN(S, n)
<1>0. /\ \A x, y \in S : x # y => Before(x, y) \/ Before(y, x)
      /\ \A x, y, z \in S : Before(x, y) /\ Before(y, z) => Before(x, z)
      /\ \A x, y \in S : Before(x, y) => ~Before(y, x) /\ x # y
    BY KeysAssumption, BeforeIsOrder, BeforeIsStrict
<1>1. F \subseteq S /\ \A e \in S : e \in F <=> Cardinality(Front(e)) < n
    BY DEF FirstN
<1>2. \A X \in SUBSET S : IsFiniteSet(X) /\ Cardinality(X) \in Nat
    BY FS_Subset, FS_CardinalityType
<1>3. \A X, Y \in SUBSET S : X \subseteq Y => Cardinality(X) <= Cardinality(Y)
    BY <1>2, FS_Subset
<1> HIDE DEF F
<1>4. ASSUME NEW e \in F, NEW f \in S, Before(f, e) PROVE f \in F
    <2>1. Front(f) \subseteq Front(e)
        BY <1>0, <1>1, <1>4
    <2>2. Cardinality(Front(f)) <= Cardinality(Front(e))
        BY <1>3, <2>1
    <2> QED BY <1>1, <1>2, <2>2
<1>5. ASSUME Cardinality(F) < n, F # S PROVE FALSE
    <2> DEFINE L == S \ F
    <2>1. IsFiniteSet(L) /\ L # {} /\ L \subseteq Entry(Keys)
        BY <1>1, <1>2, <1>5
    <2>2. PICK x \in L : \A y \in L \ {x} : Before(x, y)
        <3> HIDE DEF L
        <3> QED BY <2>1, KeysAssumption, FirstAndLast
    <2>3. Front(x) \subseteq F
        BY <1>0, <2>2
    <2>4. Cardinality(Front(x)) <= Cardinality(F)
        BY <1>1, <1>3, <2>3
    <2> QED BY <1>1, <1>2, <1>5, <2>2, <2>4
<1> QED BY <1>1, <1>4, <1>5 DEF F

(***************************************************************************)
(* One file: what goes into it comes before what is left; what goes into   *)
(* neither is behind a tombstone that is collected, and nothing that goes  *)
(* into either is.                                                         *)
(***************************************************************************)
LEMMA MergeStep ==
    ASSUME IsFiniteSet(co.rest), co.rest \subseteq Entry(Keys)
    PROVE  /\ Chunk \subseteq co.rest /\ AfterChunk \subseteq co.rest
           /\ \A f \in Chunk, g \in AfterChunk : Before(f, g)
           /\ \A e \in co.rest \ (Chunk \cup AfterChunk) :
                 /\ BottomMost
                 /\ \E t \in co.rest :
                       /\ Collectable(t) /\ t.key = e.key /\ (e = t \/ Before(t, e))
                       /\ \A f \in Chunk \cup AfterChunk : f.key = t.key => Before(f, t)
<1> DEFINE R == co.rest
           D == Dropped(R)
           C == Chunk
           A == AfterChunk
<1>0. /\ \A x, y \in R : x # y => Before(x, y) \/ Before(y, x)
      /\ \A x, y, z \in R : Before(x, y) /\ Before(y, z) => Before(x, z)
      /\ \A x, y \in R : Before(x, y) => ~Before(y, x) /\ x # y
      /\ \A x, y, z \in R : Before(x, y) /\ Before(y, z) /\ x.key = z.key => y.key = x.key
    BY KeysAssumption, BeforeIsOrder, BeforeIsStrict
<1>1. SplitSize \in Nat \ {0}
    BY LimitsAssumption
<1>2. /\ IsFiniteSet(R \ D) /\ R \ D \subseteq Entry(Keys)
    BY FS_Subset
<1>3. /\ C \subseteq R \ D
      /\ \A e \in C, f \in R \ D : Before(f, e) => f \in C
      /\ Cardinality(C) < SplitSize => C = R \ D
    <2> HIDE DEF D
    <2> QED BY <1>1, <1>2, FirstNFacts DEF Chunk, D
<1>4. IsFiniteSet(C) /\ C \subseteq Entry(Keys)
    BY <1>2, <1>3, FS_Subset
<1>5. ASSUME NEW t \in R, BottomMost, Collectable(t), NEW f \in R, f.key = t.key,
             f = t \/ Before(t, f)
      PROVE  f \in D
    BY <1>5 DEF Dropped
<1>6. ASSUME NEW e \in D
      PROVE  /\ BottomMost
             /\ \E t \in R : Collectable(t) /\ t.key = e.key /\ (e = t \/ Before(t, e))
    BY <1>6 DEF Dropped
<1> HIDE DEF D, C
<1>7. CASE Cardinality(C) < SplitSize
    <2>1. A = {} /\ C = R \ D
        BY <1>3, <1>7 DEF AfterChunk, C
    <2>2. ASSUME NEW e \in R \ C
          PROVE  /\ BottomMost
                 /\ \E t \in R : /\ Collectable(t) /\ t.key = e.key /\ (e = t \/ Before(t, e))
                                 /\ \A f \in C : f.key = t.key => Before(f, t)
        <3>1. PICK t \in R : Collectable(t) /\ t.key = e.key /\ (e = t \/ Before(t, e))
            BY <1>6, <2>1
        <3>2. BottomMost
            BY <1>6, <2>1
        <3>3. ASSUME NEW f \in C, f.key = t.key PROVE Before(f, t)
            BY <1>0, <1>5, <2>1, <3>1, <3>2, <3>3
        <3> QED BY <3>1, <3>2, <3>3
    <2> QED BY <1>3, <2>1, <2>2 DEF C
<1>8. CASE ~(Cardinality(C) < SplitSize)
    <2> DEFINE l == Last(C)
    <2>1. A = {e \in R : Before(l, e)}
        BY <1>8 DEF AfterChunk, C
    <2>2. C # {}
        BY <1>1, <1>8, FS_EmptySet
    <2>3. l \in C /\ \A f \in C \ {l} : Before(f, l)
        BY <1>4, <2>2, KeysAssumption, FirstAndLast
    <2> HIDE DEF l, A
    <2>4. \A f \in C, g \in A : Before(f, g)
        BY <1>0, <1>3, <2>1, <2>3
    <2>5. ASSUME NEW e \in R \ (C \cup A)
          PROVE  /\ BottomMost
                 /\ \E t \in R :
                       /\ Collectable(t) /\ t.key = e.key /\ (e = t \/ Before(t, e))
                       /\ \A f \in C \cup A : f.key = t.key => Before(f, t)
        <3>1. Before(e, l)
            BY <1>0, <1>3, <2>1, <2>3
        <3>2. e \in D
            BY <1>3, <2>3, <3>1
        <3>3. PICK t \in R : Collectable(t) /\ t.key = e.key /\ (e = t \/ Before(t, e))
            BY <1>6, <3>2
        <3>4. BottomMost
            BY <1>6, <3>2
        <3>5. Before(t, l)
            BY <1>0, <1>3, <2>3, <3>1, <3>3
        <3>6. ASSUME NEW f \in C, f.key = t.key PROVE Before(f, t)
            BY <1>0, <1>3, <1>5, <3>3, <3>4, <3>6
        <3>7. ASSUME NEW f \in A, f.key = t.key PROVE FALSE
            <4>1. f \in R /\ Before(l, f)
                BY <2>1, <3>7
            <4>2. l.key = t.key
                BY <1>0, <1>3, <2>3, <3>5, <3>7, <4>1
            <4>3. l \in D
                BY <1>3, <1>5, <2>3, <3>3, <3>4, <3>5, <4>2
            <4> QED BY <1>3, <2>3, <4>3
        <3> QED BY <3>3, <3>4, <3>6, <3>7
    <2>6. A \subseteq R
        BY <2>1
    <2> QED BY <1>3, <2>4, <2>5, <2>6 DEF A, C
<1> QED BY <1>7, <1>8

-----------------------------------------------------------------------------
(* Versions, numbers and their extremes.                                   *)

\* The edits of a version, field by field.
LEMMA AddTableIs ==
    ASSUME NEW v, v = [tables |-> v.tables, obsolete |-> v.obsolete, cutoff |-> v.cutoff], NEW t
    PROVE  AddTable(v, t) = [tables |-> v.tables \cup {t}, obsolete |-> v.obsolete,
                             cutoff |-> v.cutoff]
BY DEF AddTable

LEMMA RemoveTableIs ==
    ASSUME NEW v, v = [tables |-> v.tables, obsolete |-> v.obsolete, cutoff |-> v.cutoff], NEW n
    PROVE  RemoveTable(v, n) = [tables |-> {u \in v.tables : u.num # n},
                                obsolete |-> v.obsolete \cup {n}, cutoff |-> v.cutoff]
<1> DEFINE W == {u \in v.tables : u.num # n}
           O == v.obsolete \cup {n}
           w == [v EXCEPT !.tables = W]
<1>1. RemoveTable(v, n) = [v EXCEPT !.tables = W, !.obsolete = O]
    BY DEF RemoveTable
<1> HIDE DEF W, O
<1>2. w = [tables |-> W, obsolete |-> v.obsolete, cutoff |-> v.cutoff]
    OBVIOUS
<1>3. [w EXCEPT !.obsolete = O] = [tables |-> W, obsolete |-> O, cutoff |-> v.cutoff]
    <2> HIDE DEF w
    <2> QED BY <1>2
<1>4. [v EXCEPT !.tables = W, !.obsolete = O] = [w EXCEPT !.obsolete = O]
    OBVIOUS
<1> QED BY <1>1, <1>3, <1>4 DEF W, O

LEMMA SetWALCutoffIs ==
    ASSUME NEW v, v = [tables |-> v.tables, obsolete |-> v.obsolete, cutoff |-> v.cutoff], NEW s
    PROVE  SetWALCutoff(v, s) = [tables |-> v.tables, obsolete |-> v.obsolete,
                                 cutoff |-> IF s > v.cutoff THEN s ELSE v.cutoff]
BY DEF SetWALCutoff

\* They leave a version well formed.
LEMMA EditsOK ==
    ASSUME NEW v, VersionOK(v)
    PROVE  /\ \A t : MetaOK(t) => VersionOK(AddTable(v, t))
           /\ \A n : VersionOK(RemoveTable(v, n))
           /\ VersionOK([v EXCEPT !.obsolete = {}])
<1>1. /\ v = [tables |-> v.tables, obsolete |-> v.obsolete, cutoff |-> v.cutoff]
      /\ IsFiniteSet(v.tables) /\ v.cutoff \in Nat
      /\ \A u \in v.tables : MetaOK(u)
    BY DEF VersionOK
<1>2. ASSUME NEW t, MetaOK(t) PROVE VersionOK(AddTable(v, t))
    <2>1. IsFiniteSet(v.tables \cup {t})
        BY <1>1, FS_AddElement
    <2>2. AddTable(v, t) = [tables |-> v.tables \cup {t}, obsolete |-> v.obsolete,
                            cutoff |-> v.cutoff]
        BY <1>1, AddTableIs
    <2> QED BY <1>1, <1>2, <2>1, <2>2 DEF VersionOK
<1>3. ASSUME NEW n PROVE VersionOK(RemoveTable(v, n))
    <2> DEFINE W == {u \in v.tables : u.num # n}
    <2>1. IsFiniteSet(W) /\ \A u \in W : MetaOK(u)
        BY <1>1, FS_Subset
    <2>2. RemoveTable(v, n) = [tables |-> W, obsolete |-> v.obsolete \cup {n},
                               cutoff |-> v.cutoff]
        BY <1>1, RemoveTableIs
    <2> HIDE DEF W
    <2> QED BY <1>1, <2>1, <2>2 DEF VersionOK
<1>4. VersionOK([v EXCEPT !.obsolete = {}])
    BY <1>1 DEF VersionOK
<1> QED BY <1>2, <1>3, <1>4

\* A non-empty set of naturals has a least element.
LEMMA MinExists ==
    ASSUME NEW S, S \subseteq Nat, S # {}
    PROVE  \E n \in S : \A m \in S : n <= m
<1>1. PICK x \in S : \A y \in S : ~(<<y, x>> \in OpToRel(<, Nat))
    BY NatLessThanWellFounded, WFMin
<1>2. ASSUME NEW y \in S PROVE x <= y
    <2>1. x \in Nat /\ y \in Nat
        OBVIOUS
    <2>2. ~(y < x)
        BY <1>1, <2>1 DEF OpToRel
    <2> QED BY <2>1, <2>2
<1> QED BY <1>2

\* A finite set of naturals has a largest element.
LEMMA MaxOfFinite ==
    ASSUME NEW S, S \subseteq Nat, IsFiniteSet(S), S # {}
    PROVE  \E n \in S : \A m \in S : m <= n
<1> DEFINE R == {p \in S \X S : p[2] <= p[1]}
<1>1. \A x, y \in S : <<x, y>> \in R <=> y <= x
    OBVIOUS
<1>2. \A x \in S : x \in Nat
    OBVIOUS
<1>3. \A x, y \in S : y <= x \/ x <= y
    BY <1>2
<1>4. \A x, y, z \in S : y <= x /\ z <= y => z <= x
    BY <1>2
<1> HIDE DEF R
<1>5. \A x, y \in S : x # y => <<x, y>> \in R \/ <<y, x>> \in R
    BY <1>1, <1>3
<1>6. \A x, y, z \in S : <<x, y>> \in R /\ <<y, z>> \in R => <<x, z>> \in R
    BY <1>1, <1>4
<1>7. \E x \in S : \A y \in S \ {x} : <<x, y>> \in R
    BY ONLY IsFiniteSet(S), S # {}, <1>5, <1>6, LeastExists
<1>8. PICK x \in S : \A y \in S \ {x} : <<x, y>> \in R
    BY <1>7
<1>9. ASSUME NEW m \in S PROVE m <= x
    <2>1. CASE m = x
        BY <1>2, <2>1
    <2>2. CASE m # x
        <3>1. <<x, m>> \in R
            BY <1>8, <2>2
        <3> QED BY <1>1, <3>1
    <2> QED BY <2>1, <2>2
<1> QED BY <1>9

\* The table an edit is made for.
LEMMA OldestOf ==
    ASSUME NEW T, T # {}, \A t \in T : t.num \in Nat
    PROVE  Oldest(T) \in T /\ \A u \in T : Oldest(T).num <= u.num
<1> DEFINE N == {t.num : t \in T}
<1>1. N \subseteq Nat /\ N # {}
    OBVIOUS
<1>2. \E n \in N : \A m \in N : n <= m
    <2> HIDE DEF N
    <2> QED BY <1>1, MinExists
<1>3. \E t \in T : \A u \in T : t.num <= u.num
    BY <1>2
<1> QED BY <1>3 DEF Oldest

\* The oldest snapshot, or the next sequence number when there is none.
LEMMA OldestSnapshot ==
    ASSUME snapshots \in Seq(Nat), nextSeq \in Nat
    PROVE  /\ getOldestSnapshotSeq \in Nat
           /\ getOldestSnapshotSeq <= nextSeq
           /\ \A r \in ReadSeqs : r \in Nat /\ getOldestSnapshotSeq <= r
<1> DEFINE S == ReadSeqs \cup {nextSeq}
<1>1. S \subseteq Nat /\ S # {}
    BY DEF ReadSeqs
<1>2. \E n \in S : \A m \in S : n <= m
    <2> HIDE DEF S
    <2> QED BY <1>1, MinExists
<1>3. getOldestSnapshotSeq \in S /\ \A m \in S : getOldestSnapshotSeq <= m
    BY <1>2 DEF getOldestSnapshotSeq
<1> QED BY <1>1, <1>3

\* The largest of a finite set of naturals.
LEMMA MaxOrZeroOf ==
    ASSUME NEW S, S \subseteq Nat, IsFiniteSet(S)
    PROVE  MaxOrZero(S) \in Nat /\ \A n \in S : n <= MaxOrZero(S)
<1>1. CASE S = {}
    BY <1>1 DEF MaxOrZero
<1>2. CASE S # {}
    <2>1. \E n \in S : \A m \in S : m <= n
        BY <1>2, MaxOfFinite
    <2>2. MaxOrZero(S) = CHOOSE n \in S : \A m \in S : m <= n
        BY <1>2 DEF MaxOrZero
    <2> QED BY <2>1, <2>2
<1> QED BY <1>1, <1>2

\* What Recover computes the next numbers from.
LEMMA RecoveredNumbers ==
    ASSUME VersionOK(manifest), IsFiniteSet(mem), \A e \in mem : e.seq \in Nat
    PROVE  /\ RecoveredSeq(manifest) \in Nat
           /\ manifest.cutoff <= RecoveredSeq(manifest)
           /\ \A e \in mem : e.seq <= RecoveredSeq(manifest)
           /\ RecoveredFileNum(manifest) \in Nat \ {0}
           /\ \A t \in manifest.tables : t.num < RecoveredFileNum(manifest)
<1> DEFINE A == {t.largestSeq : t \in manifest.tables}
           B == {manifest.cutoff}
           C == {e.seq : e \in mem}
           F == {t.num : t \in manifest.tables}
<1>1. /\ IsFiniteSet(manifest.tables) /\ manifest.cutoff \in Nat
      /\ \A t \in manifest.tables : t.num \in Nat /\ t.largestSeq \in Nat
    BY DEF VersionOK, MetaOK
<1>2. A \subseteq Nat /\ B \subseteq Nat /\ C \subseteq Nat /\ F \subseteq Nat
    BY <1>1
<1>3. IsFiniteSet(A) /\ IsFiniteSet(C) /\ IsFiniteSet(F)
    <2>1. IsFiniteSet(A)
        <3>1. [t \in manifest.tables |-> t.largestSeq] \in Surjection(manifest.tables, A)
            BY DEF Surjection
        <3> QED BY <1>1, <3>1, FS_Surjection
    <2>2. IsFiniteSet(C)
        <3>1. [e \in mem |-> e.seq] \in Surjection(mem, C)
            BY DEF Surjection
        <3> QED BY <3>1, FS_Surjection
    <2>3. IsFiniteSet(F)
        <3>1. [t \in manifest.tables |-> t.num] \in Surjection(manifest.tables, F)
            BY DEF Surjection
        <3> QED BY <1>1, <3>1, FS_Surjection
    <2> QED BY <2>1, <2>2, <2>3
<1>4. IsFiniteSet(A \cup B \cup C)
    <2>1. IsFiniteSet(B)
        BY FS_Singleton
    <2> HIDE DEF A, B, C
    <2>2. IsFiniteSet(A \cup B)
        BY <1>3, <2>1, FS_Union
    <2> QED BY <1>3, <2>2, FS_Union
<1>5. \A n \in A \cup B \cup C : n <= RecoveredSeq(manifest) /\ RecoveredSeq(manifest) \in Nat
    <2>1. RecoveredSeq(manifest) = MaxOrZero(A \cup B \cup C)
        BY DEF RecoveredSeq
    <2> HIDE DEF A, B, C
    <2>2. A \cup B \cup C \subseteq Nat
        BY <1>2
    <2> QED BY <1>4, <2>1, <2>2, MaxOrZeroOf
<1>6. MaxOrZero(F) \in Nat /\ \A n \in F : n <= MaxOrZero(F)
    <2> HIDE DEF F
    <2> QED BY <1>2, <1>3, MaxOrZeroOf
<1>7. RecoveredFileNum(manifest) = MaxOrZero(F) + 1
    BY DEF RecoveredFileNum, FileNums
<1>8. \A t \in manifest.tables : t.num \in F /\ t.num \in Nat
    BY <1>1
<1>9. ASSUME NEW t \in manifest.tables PROVE t.num < RecoveredFileNum(manifest)
    <2> HIDE DEF F
    <2>1. t.num <= MaxOrZero(F) /\ t.num \in Nat
        BY <1>6, <1>8
    <2> QED BY <1>6, <1>7, <2>1
<1>10. RecoveredFileNum(manifest) \in Nat \ {0}
    BY <1>6, <1>7
<1> QED BY <1>5, <1>9, <1>10

-----------------------------------------------------------------------------
(* The state of the goroutine, field by field.                             *)

LEMMA IdleIs ==
    ASSUME NEW p
    PROVE  [Idle EXCEPT !.pc = p] = [pc |-> p, level |-> 0, inputs |-> {}, oldest |-> 0,
                                     rest |-> {}, num |-> 0, out |-> {}, unread |-> {}]
BY DEF Idle

LEMMA PickedIs ==
    ASSUME NEW l, NEW i, NEW o, NEW r
    PROVE  [Idle EXCEPT !.pc = "start", !.level = l, !.inputs = i, !.oldest = o, !.rest = r]
               = [pc |-> "start", level |-> l, inputs |-> i, oldest |-> o,
                  rest |-> r, num |-> 0, out |-> {}, unread |-> {}]
<1> DEFINE a == [Idle EXCEPT !.pc = "start"]
           b == [a EXCEPT !.level = l]
           c == [b EXCEPT !.inputs = i]
           d == [c EXCEPT !.oldest = o]
           e == [d EXCEPT !.rest = r]
<1>1. a = [pc |-> "start", level |-> 0, inputs |-> {}, oldest |-> 0, rest |-> {}, num |-> 0,
           out |-> {}, unread |-> {}]
    BY DEF Idle
<1>2. b = [pc |-> "start", level |-> l, inputs |-> {}, oldest |-> 0, rest |-> {}, num |-> 0,
           out |-> {}, unread |-> {}]
    <2> HIDE DEF a
    <2> QED BY <1>1
<1>3. c = [pc |-> "start", level |-> l, inputs |-> i, oldest |-> 0, rest |-> {}, num |-> 0,
           out |-> {}, unread |-> {}]
    <2> HIDE DEF b
    <2> QED BY <1>2
<1>4. d = [pc |-> "start", level |-> l, inputs |-> i, oldest |-> o, rest |-> {}, num |-> 0,
           out |-> {}, unread |-> {}]
    <2> HIDE DEF c
    <2> QED BY <1>3
<1>5. e = [pc |-> "start", level |-> l, inputs |-> i, oldest |-> o, rest |-> r, num |-> 0,
           out |-> {}, unread |-> {}]
    <2> HIDE DEF d
    <2> QED BY <1>4
<1>6. [Idle EXCEPT !.pc = "start", !.level = l, !.inputs = i, !.oldest = o, !.rest = r] = e
    OBVIOUS
<1> QED BY <1>5, <1>6

LEMMA PartlyReadIs ==
    ASSUME CoOK(co), NEW r, NEW u
    PROVE  [co EXCEPT !.rest = r, !.unread = u]
               = [pc |-> co.pc, level |-> co.level, inputs |-> co.inputs,
                  oldest |-> co.oldest, rest |-> r, num |-> co.num, out |-> co.out,
                  unread |-> u]
<1> DEFINE a == [co EXCEPT !.rest = r]
           b == [a EXCEPT !.unread = u]
<1>1. a = [pc |-> co.pc, level |-> co.level, inputs |-> co.inputs,
           oldest |-> co.oldest, rest |-> r, num |-> co.num, out |-> co.out,
           unread |-> co.unread]
    BY DEF CoOK
<1>2. b = [pc |-> co.pc, level |-> co.level, inputs |-> co.inputs,
           oldest |-> co.oldest, rest |-> r, num |-> co.num, out |-> co.out,
           unread |-> u]
    <2> HIDE DEF a
    <2> QED BY <1>1
<1>3. [co EXCEPT !.rest = r, !.unread = u] = b
    OBVIOUS
<1> QED BY <1>2, <1>3

LEMMA StartedIs ==
    ASSUME CoOK(co), NEW n
    PROVE  [co EXCEPT !.pc = "fill", !.num = n]
               = [pc |-> "fill", level |-> co.level, inputs |-> co.inputs,
                  oldest |-> co.oldest, rest |-> co.rest, num |-> n, out |-> co.out,
                  unread |-> co.unread]
<1> DEFINE a == [co EXCEPT !.pc = "fill"]
           b == [a EXCEPT !.num = n]
<1>1. a = [pc |-> "fill", level |-> co.level, inputs |-> co.inputs,
           oldest |-> co.oldest, rest |-> co.rest, num |-> co.num, out |-> co.out,
           unread |-> co.unread]
    BY DEF CoOK
<1>2. b = [pc |-> "fill", level |-> co.level, inputs |-> co.inputs,
           oldest |-> co.oldest, rest |-> co.rest, num |-> n, out |-> co.out, unread |-> co.unread]
    <2> HIDE DEF a
    <2> QED BY <1>1
<1>3. [co EXCEPT !.pc = "fill", !.num = n] = b
    OBVIOUS
<1> QED BY <1>2, <1>3

LEMMA FilledIs ==
    ASSUME CoOK(co), NEW p, NEW r, NEW o
    PROVE  [co EXCEPT !.pc = p, !.rest = r, !.out = o]
               = [pc |-> p, level |-> co.level, inputs |-> co.inputs,
                  oldest |-> co.oldest, rest |-> r, num |-> co.num, out |-> o, unread |-> co.unread]
<1> DEFINE a == [co EXCEPT !.pc = p]
           b == [a EXCEPT !.rest = r]
           c == [b EXCEPT !.out = o]
<1>1. a = [pc |-> p, level |-> co.level, inputs |-> co.inputs,
           oldest |-> co.oldest, rest |-> co.rest, num |-> co.num, out |-> co.out,
           unread |-> co.unread]
    BY DEF CoOK
<1>2. b = [pc |-> p, level |-> co.level, inputs |-> co.inputs,
           oldest |-> co.oldest, rest |-> r, num |-> co.num, out |-> co.out, unread |-> co.unread]
    <2> HIDE DEF a
    <2> QED BY <1>1
<1>3. c = [pc |-> p, level |-> co.level, inputs |-> co.inputs,
           oldest |-> co.oldest, rest |-> r, num |-> co.num, out |-> o, unread |-> co.unread]
    <2> HIDE DEF b
    <2> QED BY <1>2
<1>4. [co EXCEPT !.pc = p, !.rest = r, !.out = o] = c
    OBVIOUS
<1> QED BY <1>3, <1>4

LEMMA RemovedIs ==
    ASSUME CoOK(co), NEW p, NEW i
    PROVE  [co EXCEPT !.inputs = i, !.pc = p]
               = [pc |-> p, level |-> co.level, inputs |-> i,
                  oldest |-> co.oldest, rest |-> co.rest, num |-> co.num, out |-> co.out,
                  unread |-> co.unread]
<1> DEFINE a == [co EXCEPT !.inputs = i]
           b == [a EXCEPT !.pc = p]
<1>1. a = [pc |-> co.pc, level |-> co.level, inputs |-> i,
           oldest |-> co.oldest, rest |-> co.rest, num |-> co.num, out |-> co.out,
           unread |-> co.unread]
    BY DEF CoOK
<1>2. b = [pc |-> p, level |-> co.level, inputs |-> i,
           oldest |-> co.oldest, rest |-> co.rest, num |-> co.num, out |-> co.out,
           unread |-> co.unread]
    <2> HIDE DEF a
    <2> QED BY <1>1
<1>3. [co EXCEPT !.inputs = i, !.pc = p] = b
    OBVIOUS
<1> QED BY <1>2, <1>3

LEMMA AddedIs ==
    ASSUME CoOK(co), NEW p, NEW o
    PROVE  [co EXCEPT !.out = o, !.pc = p]
               = [pc |-> p, level |-> co.level, inputs |-> co.inputs,
                  oldest |-> co.oldest, rest |-> co.rest, num |-> co.num, out |-> o,
                  unread |-> co.unread]
<1> DEFINE a == [co EXCEPT !.out = o]
           b == [a EXCEPT !.pc = p]
<1>1. a = [pc |-> co.pc, level |-> co.level, inputs |-> co.inputs,
           oldest |-> co.oldest, rest |-> co.rest, num |-> co.num, out |-> o, unread |-> co.unread]
    BY DEF CoOK
<1>2. b = [pc |-> p, level |-> co.level, inputs |-> co.inputs,
           oldest |-> co.oldest, rest |-> co.rest, num |-> co.num, out |-> o, unread |-> co.unread]
    <2> HIDE DEF a
    <2> QED BY <1>1
<1>3. [co EXCEPT !.out = o, !.pc = p] = b
    OBVIOUS
<1> QED BY <1>2, <1>3

-----------------------------------------------------------------------------
(* TypeInv and SeqInv: the shape of the state, and which entries are in    *)
(* the memtables and which in the tables.                                  *)

LEMMA InitTypeSeq == Init => TypeInv /\ SeqInv
<1>1. SUFFICES ASSUME Init PROVE TypeInv /\ SeqInv
    OBVIOUS
<1> USE <1>1
<1>2. IsFiniteSet({})
    BY FS_EmptySet
<1>3. VersionOK(NewVersionSet)
    BY <1>2 DEF VersionOK, NewVersionSet
<1>4. CoOK(co) /\ co.num \in Nat /\ co.oldest \in Nat /\ co.rest = {} /\ co.out = {} /\ co.pc = "idle"
      /\ co.level = 0 /\ co.unread = {}
    BY DEF Init, CoOK, Idle
<1>5. DOMAIN files = {} /\ files = [n \in DOMAIN files |-> files[n]]
    BY DEF Init
<1>6. TypeOK
    <2>1. snapshots \in Seq(Nat)
        BY DEF Init
    <2>2. phase = "up" /\ mu = "free" /\ nextSeq = 1 /\ nextFileNum = 1 /\ mem = {}
          /\ history = {} /\ missed = FALSE /\ cut = FALSE /\ unread = {}
        BY DEF Init
    <2>3. co.pc \in CompactPCs /\ co.level \in 0..(NumLevels - 2)
        BY <1>4 DEF CompactPCs, NumLevels
    <2>4. missed \in BOOLEAN /\ cut \in BOOLEAN /\ unread \subseteq Keys
          /\ co.unread \subseteq Keys
        BY <1>4, <2>2
    <2>5. /\ phase \in {"up", "down"} /\ mu \in {"free", "compact"}
          /\ nextSeq \in Nat \ {0} /\ nextFileNum \in Nat \ {0}
          /\ mem \subseteq history /\ history \subseteq Entry(Keys)
        BY <2>2
    <2>6. \A n \in DOMAIN files : files[n] \subseteq history
        BY <1>5
    <2> QED BY <2>1, <2>3, <2>4, <2>5, <2>6 DEF TypeOK
<1>7. TypeInv
    BY <1>2, <1>3, <1>4, <1>5, <1>6 DEF Init, TypeInv, Committing
<1>8. SeqInv
    BY <1>4, <1>5 DEF Init, SeqInv, NewVersionSet
<1> QED BY <1>7, <1>8

\* What TypeInv says, for the steps below.
LEMMA TypeFacts ==
    ASSUME TypeInv
    PROVE  /\ phase \in {"up", "down"} /\ mu \in {"free", "compact"}
           /\ nextSeq \in Nat /\ nextSeq # 0 /\ nextFileNum \in Nat /\ nextFileNum # 0
           /\ mem \subseteq history /\ history \subseteq Entry(Keys)
           /\ IsFiniteSet(history) /\ IsFiniteSet(mem)
           /\ \A e \in history : e.seq \in Nat
           /\ snapshots \in Seq(Nat)
           /\ co.pc \in CompactPCs /\ co.level \in 0..5
           /\ \A n \in DOMAIN files : files[n] \subseteq history
           /\ files = [n \in DOMAIN files |-> files[n]]
           /\ VersionOK(version) /\ VersionOK(manifest)
           /\ version = [tables |-> version.tables, obsolete |-> version.obsolete,
                         cutoff |-> version.cutoff]
           /\ manifest = [tables |-> manifest.tables, obsolete |-> manifest.obsolete,
                          cutoff |-> manifest.cutoff]
           /\ version.cutoff \in Nat /\ manifest.cutoff \in Nat
           /\ \A t \in version.tables \cup manifest.tables : MetaOK(t)
           /\ CoOK(co) /\ co.num \in Nat /\ co.oldest \in Nat /\ co.rest \subseteq history
           /\ IsFiniteSet(co.rest) /\ IsFiniteSet(co.out) /\ \A t \in co.out : MetaOK(t)
           /\ phase = "down" => co.pc = "idle" /\ snapshots = <<>>
           /\ Committing => co.out # {}
           /\ mu = "compact" => Committing
           /\ co.pc = "add" => mu = "compact"
           /\ missed \in BOOLEAN /\ cut \in BOOLEAN
           /\ unread \subseteq Keys /\ co.unread \subseteq Keys
           /\ mu = "compact" => co.unread \subseteq unread
<1>1. /\ phase \in {"up", "down"} /\ mu \in {"free", "compact"}
      /\ nextSeq \in Nat /\ nextSeq # 0 /\ nextFileNum \in Nat /\ nextFileNum # 0
      /\ snapshots \in Seq(Nat)
      /\ missed \in BOOLEAN /\ cut \in BOOLEAN
      /\ unread \subseteq Keys /\ co.unread \subseteq Keys
    BY DEF TypeInv, TypeOK
<1>2. /\ mem \subseteq history /\ history \subseteq Entry(Keys)
      /\ IsFiniteSet(history) /\ co.rest \subseteq history
      /\ \A n \in DOMAIN files : files[n] \subseteq history
    BY DEF TypeInv, TypeOK
<1>3. IsFiniteSet(mem) /\ IsFiniteSet(co.rest)
    BY <1>2, FS_Subset
<1>4. \A e \in history : e.seq \in Nat
    BY <1>2 DEF Entry
<1>5. co.pc \in CompactPCs /\ co.level \in 0..5
    BY DEF TypeInv, TypeOK, NumLevels
<1>6. /\ files = [n \in DOMAIN files |-> files[n]]
      /\ VersionOK(version) /\ VersionOK(manifest)
      /\ CoOK(co) /\ co.num \in Nat /\ co.oldest \in Nat
      /\ IsFiniteSet(co.out) /\ \A t \in co.out : MetaOK(t)
      /\ phase = "down" => co.pc = "idle" /\ snapshots = <<>>
      /\ Committing => co.out # {}
      /\ mu = "compact" => Committing
      /\ mu = "compact" => co.unread \subseteq unread
      /\ co.pc = "add" => mu = "compact"
    BY DEF TypeInv
<1>7. /\ version = [tables |-> version.tables, obsolete |-> version.obsolete,
                    cutoff |-> version.cutoff]
      /\ version.cutoff \in Nat
      /\ \A t \in version.tables : MetaOK(t)
    BY <1>6 DEF VersionOK
<1>8. /\ manifest = [tables |-> manifest.tables, obsolete |-> manifest.obsolete,
                    cutoff |-> manifest.cutoff]
      /\ manifest.cutoff \in Nat
      /\ \A t \in manifest.tables : MetaOK(t)
    BY <1>6 DEF VersionOK
<1> QED BY <1>1, <1>2, <1>3, <1>4, <1>5, <1>6, <1>7, <1>8

LEMMA RemoveFilesIs ==
    ASSUME NEW nums, NEW w, w = RemoveFiles(nums)
    PROVE  /\ DOMAIN w = DOMAIN files \ nums /\ w = [n \in DOMAIN w |-> w[n]]
           /\ \A n \in DOMAIN w : w[n] = files[n]
BY DEF RemoveFiles

\* The memtable of a flush.
FlushSet(seq) == {e \in mem : e.seq <= seq}

LEMMA FlushEffect ==
    ASSUME TypeInv, SeqInv, FlushMemtable
    PROVE  \E s, t :
               /\ s \in Nat
               /\ phase = "up" /\ mu = "free" /\ co.pc = "loop"
               /\ FlushSet(s) # {} /\ s < nextSeq
               /\ manifest.cutoff < s /\ version.cutoff = manifest.cutoff
               /\ t = TableMeta(nextFileNum, 0, FlushSet(s)) /\ MetaOK(t)
               /\ t.num = nextFileNum /\ t.level = 0
               /\ files' = WriteFile(nextFileNum, FlushSet(s))
               /\ nextFileNum' = nextFileNum + 1
               /\ version' = [tables |-> version.tables \cup {t},
                              obsolete |-> version.obsolete, cutoff |-> s]
               /\ manifest' = [tables |-> manifest.tables \cup {t},
                               obsolete |-> manifest.obsolete, cutoff |-> s]
               /\ VersionOK(version') /\ VersionOK(manifest')
               /\ mem' = mem \ FlushSet(s)
               /\ UNCHANGED <<phase, nextSeq, snapshots, mu, co, ghosts, events>>
<1>1. PICK s \in 1..(nextSeq - 1) :
          LET S == {e \in mem : e.seq <= s}
              t == TableMeta(nextFileNum, 0, S)
          IN  /\ co.pc = "loop" /\ mu = "free"
              /\ S # {} /\ LargestSeq(S) = s
              /\ files' = WriteFile(nextFileNum, S)
              /\ nextFileNum' = nextFileNum + 1
              /\ version' = SetWALCutoff(AddTable(version, t), s)
              /\ manifest' = SetWALCutoff(AddTable(manifest, t), s)
              /\ mem' = mem \ S
              /\ UNCHANGED <<phase, nextSeq, snapshots, mu, co, ghosts, events>>
    BY DEF FlushMemtable
<1> DEFINE S == FlushSet(s)
           t == TableMeta(nextFileNum, 0, S)
<1>2. /\ co.pc = "loop" /\ mu = "free"
      /\ S # {} /\ LargestSeq(S) = s
      /\ files' = WriteFile(nextFileNum, S)
      /\ nextFileNum' = nextFileNum + 1
      /\ version' = SetWALCutoff(AddTable(version, t), s)
      /\ manifest' = SetWALCutoff(AddTable(manifest, t), s)
      /\ mem' = mem \ S
      /\ UNCHANGED <<phase, nextSeq, snapshots, mu, co, ghosts, events>>
    BY <1>1 DEF FlushSet
<1>3. /\ phase \in {"up", "down"} /\ (phase = "down" => co.pc = "idle")
      /\ VersionOK(version) /\ VersionOK(manifest) /\ nextFileNum \in Nat /\ nextSeq \in Nat
      /\ \A e \in history : e.seq \in Nat
      /\ mem \subseteq history /\ manifest.cutoff \in Nat
    BY TypeFacts
<1>4. phase = "up"
    BY <1>2, <1>3
<1>5. s \in Nat /\ s < nextSeq
    BY <1>3
<1>6. version.cutoff = manifest.cutoff
    BY <1>4 DEF SeqInv
<1>7. manifest.cutoff < s
    <2>1. PICK e \in S : TRUE
        BY <1>2
    <2>2. e \in mem /\ e.seq <= s /\ manifest.cutoff < e.seq /\ e.seq \in Nat
        BY <1>3, <2>1 DEF SeqInv, FlushSet
    <2> QED BY <1>3, <1>5, <2>2
<1>8. MetaOK(t) /\ t.num = nextFileNum /\ t.level = 0
    BY <1>2, <1>3, <1>5 DEF MetaOK, TableMeta, NumLevels
<1> HIDE DEF t, S
<1>9. ASSUME NEW v, VersionOK(v), v.cutoff = manifest.cutoff
      PROVE  /\ SetWALCutoff(AddTable(v, t), s)
                    = [tables |-> v.tables \cup {t}, obsolete |-> v.obsolete, cutoff |-> s]
             /\ VersionOK(SetWALCutoff(AddTable(v, t), s))
    <2> DEFINE a == AddTable(v, t)
    <2>1. a = [tables |-> v.tables \cup {t}, obsolete |-> v.obsolete, cutoff |-> v.cutoff]
          /\ VersionOK(a)
        BY <1>8, <1>9, EditsOK, AddTableIs DEF VersionOK
    <2> HIDE DEF a
    <2>2. SetWALCutoff(a, s) = [tables |-> a.tables, obsolete |-> a.obsolete,
                                cutoff |-> IF s > a.cutoff THEN s ELSE a.cutoff]
        BY <2>1, SetWALCutoffIs DEF VersionOK
    <2>3. a.cutoff = manifest.cutoff /\ a.tables = v.tables \cup {t} /\ a.obsolete = v.obsolete
        BY <1>9, <2>1
    <2>4. SetWALCutoff(a, s) = [tables |-> a.tables, obsolete |-> a.obsolete, cutoff |-> s]
        BY <1>7, <2>2, <2>3
    <2>5. VersionOK(SetWALCutoff(a, s))
        <3> DEFINE b == SetWALCutoff(a, s)
        <3>1. IsFiniteSet(a.tables) /\ \A u \in a.tables : MetaOK(u)
            BY <2>1 DEF VersionOK
        <3> HIDE DEF b
        <3>2. b = [tables |-> a.tables, obsolete |-> a.obsolete, cutoff |-> s]
            BY <2>4 DEF b
        <3>3. VersionOK(b)
            BY <1>5, <3>1, <3>2 DEF VersionOK
        <3> QED BY <3>3 DEF b
    <2> QED BY <2>3, <2>4, <2>5 DEF a
<1>10. /\ version' = [tables |-> version.tables \cup {t},
                      obsolete |-> version.obsolete, cutoff |-> s]
       /\ VersionOK(version')
    BY <1>2, <1>3, <1>6, <1>9
<1>11. /\ manifest' = [tables |-> manifest.tables \cup {t},
                       obsolete |-> manifest.obsolete, cutoff |-> s]
       /\ VersionOK(manifest')
    BY <1>2, <1>3, <1>9
<1> QED BY <1>2, <1>4, <1>5, <1>6, <1>7, <1>8, <1>10, <1>11 DEF t, S

LEMMA StartEffect ==
    ASSUME TypeInv, CompactStartFile
    PROVE  /\ co.pc = "start" /\ mu = "free"
           /\ co' = [pc |-> "fill", level |-> co.level, inputs |-> co.inputs,
                     oldest |-> co.oldest, rest |-> co.rest, num |-> nextFileNum,
                     out |-> co.out, unread |-> co.unread]
           /\ nextFileNum' = nextFileNum + 1
           /\ UNCHANGED <<manifest, files, phase, nextSeq, version, mem, snapshots, mu, ghosts,
                          events>>
BY TypeFacts, StartedIs DEF CompactStartFile

LEMMA ReadFailsEffect ==
    ASSUME TypeInv, CompactReadFails
    PROVE  \E got :
               /\ co.pc = "start" /\ co.out = {} /\ mu = "free" /\ got \subseteq co.rest
               /\ co' = [pc |-> co.pc, level |-> co.level, inputs |-> co.inputs,
                         oldest |-> co.oldest, rest |-> got, num |-> co.num, out |-> co.out,
                         unread |-> co.unread \cup UserKeys(co.rest \ got)]
               /\ UNCHANGED <<manifest, files, phase, memory, mem, snapshots, mu, ghosts>>
<1>1. PICK got \in SUBSET co.rest :
          co' = [co EXCEPT !.rest = got, !.unread = co.unread \cup UserKeys(co.rest \ got)]
    BY DEF CompactReadFails
<1>2. /\ co.pc = "start" /\ co.out = {}
      /\ UNCHANGED <<manifest, files, phase, memory, mem, snapshots, mu, ghosts>>
    BY DEF CompactReadFails
<1>3. mu = "free"
    BY <1>2, TypeFacts DEF Committing
<1>4. co' = [pc |-> co.pc, level |-> co.level, inputs |-> co.inputs,
             oldest |-> co.oldest, rest |-> got, num |-> co.num, out |-> co.out,
             unread |-> co.unread \cup UserKeys(co.rest \ got)]
    BY <1>1, TypeFacts, PartlyReadIs
<1> QED BY <1>2, <1>3, <1>4

LEMMA FillEffect ==
    ASSUME TypeInv, SeqInv, CompactFillFile
    PROVE  \E t :
               /\ co.pc = "fill" /\ mu = "free"
               /\ t = TableMeta(co.num, TargetLevel, Chunk) /\ MetaOK(t)
               /\ t.num = co.num /\ t.level = TargetLevel
               /\ files' = WriteFile(co.num, Chunk)
               /\ co' = [pc |-> IF AfterChunk = {} THEN "remove" ELSE "start",
                         level |-> co.level, inputs |-> co.inputs, oldest |-> co.oldest,
                         rest |-> AfterChunk, num |-> co.num, out |-> co.out \cup {t},
                         unread |-> co.unread]
               /\ Chunk \subseteq co.rest /\ AfterChunk \subseteq co.rest
               /\ UNCHANGED <<manifest, phase, memory, mem, snapshots, mu, ghosts, events>>
<1> DEFINE t == TableMeta(co.num, TargetLevel, Chunk)
<1>1. /\ co.pc = "fill"
      /\ files' = WriteFile(co.num, Chunk)
      /\ co' = [co EXCEPT !.pc = IF AfterChunk = {} THEN "remove" ELSE "start",
                          !.rest = AfterChunk,
                          !.out = co.out \cup {t}]
      /\ UNCHANGED <<manifest, phase, memory, mem, snapshots, mu, ghosts, events>>
    BY DEF CompactFillFile
<1>2. mu = "free"
    BY <1>1, TypeFacts DEF Committing
<1>3. Chunk \subseteq co.rest /\ AfterChunk \subseteq co.rest
    BY DEF Chunk, AfterChunk, FirstN
<1>4. LargestSeq(Chunk) \in Nat
    <2>1. manifest.cutoff \in Nat /\ co.rest \subseteq history /\ \A e \in history : e.seq \in Nat
        BY TypeFacts
    <2>2. \A e \in co.rest : e.seq <= manifest.cutoff
        BY DEF SeqInv
    <2>3. \A e \in Chunk : e.seq \in Nat /\ e.seq <= manifest.cutoff
        BY <1>3, <2>1, <2>2
    <2> QED BY <2>1, <2>3, LargestSeqMax
<1>5. MetaOK(t) /\ t.num = co.num /\ t.level = TargetLevel
    <2>1. co.num \in Nat /\ co.level \in 0..5
        BY TypeFacts
    <2> QED BY <1>4, <2>1 DEF MetaOK, TableMeta, TargetLevel, NumLevels
<1> HIDE DEF t
<1>6. co' = [pc |-> IF AfterChunk = {} THEN "remove" ELSE "start",
             level |-> co.level, inputs |-> co.inputs, oldest |-> co.oldest,
             rest |-> AfterChunk, num |-> co.num, out |-> co.out \cup {t}, unread |-> co.unread]
    BY <1>1, TypeFacts, FilledIs
<1> QED BY <1>1, <1>2, <1>3, <1>5, <1>6 DEF t

LEMMA FirstInputsAre == FirstInputs \subseteq co.inputs
BY DEF FirstInputs, SortedFirst

LEMMA RemoveEffect ==
    ASSUME TypeInv, CompactRemove
    PROVE  \E t :
               /\ co.pc = "remove" /\ mu' = "compact" /\ t \in co.inputs
               /\ manifest' = [tables |-> {u \in manifest.tables : u.num # t.num},
                               obsolete |-> manifest.obsolete \cup {t.num},
                               cutoff |-> manifest.cutoff]
               /\ version' = [tables |-> {u \in version.tables : u.num # t.num},
                              obsolete |-> version.obsolete \cup {t.num},
                              cutoff |-> version.cutoff]
               /\ VersionOK(version') /\ VersionOK(manifest')
               /\ co' = [pc |-> IF co.inputs = {t} THEN "add" ELSE "remove",
                         level |-> co.level, inputs |-> co.inputs \ {t}, oldest |-> co.oldest,
                         rest |-> co.rest, num |-> co.num, out |-> co.out, unread |-> co.unread]
               /\ unread' = unread \cup co.unread
               /\ UNCHANGED <<files, phase, nextSeq, nextFileNum, mem, snapshots, history, missed,
                              cut, events>>
<1>1. PICK t \in FirstInputs :
      /\ co.pc = "remove" /\ mu' = "compact"
      /\ manifest' = RemoveTable(manifest, t.num)
      /\ version' = RemoveTable(version, t.num)
      /\ co' = [co EXCEPT !.inputs = co.inputs \ {t},
                          !.pc = IF co.inputs = {t} THEN "add" ELSE "remove"]
      /\ unread' = unread \cup co.unread
      /\ UNCHANGED <<files, phase, nextSeq, nextFileNum, mem, snapshots, history, missed, cut,
                     events>>
    BY DEF CompactRemove
<1>a. t \in co.inputs
    BY FirstInputsAre
<1>2. VersionOK(version') /\ VersionOK(manifest')
    BY <1>1, TypeFacts, EditsOK
<1>3. /\ manifest' = [tables |-> {u \in manifest.tables : u.num # t.num},
                      obsolete |-> manifest.obsolete \cup {t.num},
                      cutoff |-> manifest.cutoff]
      /\ version' = [tables |-> {u \in version.tables : u.num # t.num},
                     obsolete |-> version.obsolete \cup {t.num},
                     cutoff |-> version.cutoff]
    BY <1>1, TypeFacts, RemoveTableIs
<1>4. co' = [pc |-> IF co.inputs = {t} THEN "add" ELSE "remove",
             level |-> co.level, inputs |-> co.inputs \ {t}, oldest |-> co.oldest,
             rest |-> co.rest, num |-> co.num, out |-> co.out, unread |-> co.unread]
    BY <1>1, TypeFacts, RemovedIs
<1> QED BY <1>1, <1>a, <1>2, <1>3, <1>4

LEMMA AddEffect ==
    ASSUME TypeInv, CompactAdd
    PROVE  \E t \in co.out :
               /\ co.pc = "add" /\ mu = "compact" /\ MetaOK(t)
               /\ manifest' = [tables |-> manifest.tables \cup {t},
                               obsolete |-> manifest.obsolete, cutoff |-> manifest.cutoff]
               /\ version' = [tables |-> version.tables \cup {t},
                              obsolete |-> version.obsolete, cutoff |-> version.cutoff]
               /\ VersionOK(version') /\ VersionOK(manifest')
               /\ co' = [pc |-> IF co.out = {t} THEN "cleanup" ELSE "add",
                         level |-> co.level, inputs |-> co.inputs, oldest |-> co.oldest,
                         rest |-> co.rest, num |-> co.num, out |-> co.out \ {t},
                         unread |-> co.unread]
               /\ mu' = IF co.out = {t} THEN "free" ELSE "compact"
               /\ UNCHANGED <<files, phase, nextSeq, nextFileNum, mem, snapshots, ghosts, events>>
<1> DEFINE t == Oldest(co.out)
<1>1. /\ co.pc = "add"
      /\ manifest' = AddTable(manifest, t)
      /\ version' = AddTable(version, t)
      /\ co' = [co EXCEPT !.out = co.out \ {t},
                          !.pc = IF co.out = {t} THEN "cleanup" ELSE "add"]
      /\ mu' = IF co.out = {t} THEN "free" ELSE "compact"
      /\ UNCHANGED <<files, phase, nextSeq, nextFileNum, mem, snapshots, ghosts, events>>
    BY DEF CompactAdd
<1>2. t \in co.out /\ MetaOK(t)
    <2>1. co.out # {} /\ \A u \in co.out : MetaOK(u)
        BY <1>1, TypeFacts DEF Committing
    <2>2. \A u \in co.out : u.num \in Nat
        BY <2>1 DEF MetaOK
    <2> QED BY <2>1, <2>2, OldestOf
<1> HIDE DEF t
<1>3. VersionOK(version') /\ VersionOK(manifest') /\ mu = "compact"
    BY <1>1, <1>2, TypeFacts, EditsOK
<1>4. /\ manifest' = [tables |-> manifest.tables \cup {t},
                      obsolete |-> manifest.obsolete, cutoff |-> manifest.cutoff]
      /\ version' = [tables |-> version.tables \cup {t},
                     obsolete |-> version.obsolete, cutoff |-> version.cutoff]
    BY <1>1, TypeFacts, AddTableIs
<1>5. co' = [pc |-> IF co.out = {t} THEN "cleanup" ELSE "add",
             level |-> co.level, inputs |-> co.inputs, oldest |-> co.oldest,
             rest |-> co.rest, num |-> co.num, out |-> co.out \ {t}, unread |-> co.unread]
    BY <1>1, TypeFacts, AddedIs
<1> QED BY <1>1, <1>2, <1>3, <1>4, <1>5

LEMMA PickEffect ==
    ASSUME TypeInv, SeqInv, CompactPick
    PROVE  \E level, inputs :
               /\ level \in 0..5
               /\ co.pc = "loop" /\ mu = "free" /\ phase = "up"
               /\ inputs \in InputChoices(level)
               /\ \/ /\ inputs # {} /\ Opens(inputs)
                     /\ co' = [pc |-> "start", level |-> level, inputs |-> inputs,
                               oldest |-> getOldestSnapshotSeq, rest |-> EntriesOf(inputs),
                               num |-> 0, out |-> {}, unread |-> {}]
                  \/ co' = [pc |-> "cleanup", level |-> 0, inputs |-> {}, oldest |-> 0,
                            rest |-> {}, num |-> 0, out |-> {}, unread |-> {}]
               /\ missed' = (missed \/ Misses(level, inputs))
               /\ UNCHANGED <<manifest, files, phase, memory, mem, snapshots, mu, history, cut,
                              unread, events>>
<1>1. PICK level \in 0..(NumLevels - 2) :
          /\ co.pc = "loop" /\ mu = "free"
          /\ \E inputs \in InputChoices(level) :
                /\ co' = IF inputs # {} /\ Opens(inputs)
                         THEN [Idle EXCEPT !.pc = "start", !.level = level,
                                           !.inputs = inputs,
                                           !.oldest = getOldestSnapshotSeq,
                                           !.rest = EntriesOf(inputs)]
                         ELSE [Idle EXCEPT !.pc = "cleanup"]
                /\ missed' = (missed \/ Misses(level, inputs))
          /\ UNCHANGED <<manifest, files, phase, memory, mem, snapshots, mu, history, cut,
                         unread, events>>
    BY DEF CompactPick
<1>2. PICK inputs \in InputChoices(level) :
          /\ co' = IF inputs # {} /\ Opens(inputs)
                   THEN [Idle EXCEPT !.pc = "start", !.level = level,
                                     !.inputs = inputs,
                                     !.oldest = getOldestSnapshotSeq,
                                     !.rest = EntriesOf(inputs)]
                   ELSE [Idle EXCEPT !.pc = "cleanup"]
          /\ missed' = (missed \/ Misses(level, inputs))
    BY <1>1
<1>3. level \in 0..5
    BY DEF NumLevels
<1>4. phase = "up"
    BY <1>1, TypeFacts
<1>5. CASE inputs # {} /\ Opens(inputs)
    <2>1. co' = [pc |-> "start", level |-> level, inputs |-> inputs,
                 oldest |-> getOldestSnapshotSeq, rest |-> EntriesOf(inputs),
                 num |-> 0, out |-> {}, unread |-> {}]
        BY <1>2, <1>5, PickedIs
    <2> QED BY <1>1, <1>2, <1>3, <1>4, <1>5, <2>1
<1>6. CASE ~(inputs # {} /\ Opens(inputs))
    <2>1. co' = [pc |-> "cleanup", level |-> 0, inputs |-> {}, oldest |-> 0,
                 rest |-> {}, num |-> 0, out |-> {}, unread |-> {}]
        BY <1>2, <1>6, IdleIs
    <2> QED BY <1>1, <1>2, <1>3, <1>4, <2>1
<1> QED BY <1>5, <1>6

\* An append that fails before anything is written leaves no trace.
LEMMA CommitFailsEffect ==
    ASSUME TypeInv, CompactCommitFails, ~cut'
    PROVE  /\ co.pc = "remove" /\ mu = "free"
           /\ co' = [pc |-> "cleanup", level |-> 0, inputs |-> {}, oldest |-> 0,
                     rest |-> {}, num |-> 0, out |-> {}, unread |-> {}]
           /\ UNCHANGED <<manifest, files, phase, memory, mem, snapshots, mu, history, missed,
                          unread>>
<1>1. cut' = (cut \/ mu = "compact" \/ manifest' # manifest)
    BY DEF CompactCommitFails
<1>2. mu # "compact" /\ manifest' = manifest
    BY <1>1, Zenon
<1>3. co.pc \in {"remove", "add"} /\ mu' = "free"
      /\ co' = [Idle EXCEPT !.pc = "cleanup"]
      /\ UNCHANGED <<files, phase, memory, mem, snapshots, history, missed, unread>>
    BY DEF CompactCommitFails
<1>4. co.pc = "remove" /\ mu = "free"
    BY <1>2, <1>3, TypeFacts
<1> QED BY <1>2, <1>3, <1>4, IdleIs

\* A step that ends a compaction, or the process, resets the goroutine.
LEMMA ResetOK ==
    ASSUME NEW p, NEW c, c = [pc |-> p, level |-> 0, inputs |-> {}, oldest |-> 0,
                              rest |-> {}, num |-> 0, out |-> {}, unread |-> {}]
    PROVE  /\ CoOK(c) /\ c.pc = p /\ c.level = 0 /\ c.num = 0 /\ c.oldest = 0
           /\ c.rest = {} /\ c.out = {} /\ c.inputs = {} /\ IsFiniteSet(c.out)
           /\ c.unread = {}
BY FS_EmptySet DEF CoOK

\* The parts of TypeInv about the goroutine.
CoInv ==
    /\ co.pc \in CompactPCs /\ co.level \in 0..5
    /\ CoOK(co) /\ co.num \in Nat /\ co.oldest \in Nat /\ co.rest \subseteq history
    /\ IsFiniteSet(co.out) /\ \A t \in co.out : MetaOK(t)
    /\ phase = "down" => co.pc = "idle" /\ snapshots = <<>>
    /\ Committing => co.out # {}
    /\ mu = "compact" => Committing
    /\ mu = "compact" => co.unread \subseteq unread
    /\ co.pc = "add" => mu = "compact"
    /\ co.unread \subseteq Keys

\* The parts of TypeInv about the rest of the state.
StoreInv ==
    /\ phase \in {"up", "down"} /\ mu \in {"free", "compact"}
    /\ nextSeq \in Nat \ {0} /\ nextFileNum \in Nat \ {0}
    /\ mem \subseteq history /\ history \subseteq Entry(Keys) /\ IsFiniteSet(history)
    /\ snapshots \in Seq(Nat)
    /\ missed \in BOOLEAN /\ cut \in BOOLEAN /\ unread \subseteq Keys
    /\ \A n \in DOMAIN files : files[n] \subseteq history
    /\ files = [n \in DOMAIN files |-> files[n]]
    /\ VersionOK(version) /\ VersionOK(manifest)

LEMMA TypeParts == TypeInv <=> CoInv /\ StoreInv
<1>1. 5 = NumLevels - 2
    BY DEF NumLevels
<1>2. TypeInv => CoInv
    BY <1>1 DEF TypeInv, TypeOK, CoInv
<1>3. TypeInv => StoreInv
    BY DEF TypeInv, TypeOK, StoreInv
<1>4. CoInv /\ StoreInv => TypeOK
    BY <1>1 DEF TypeOK, CoInv, StoreInv
<1>5. CoInv /\ StoreInv => TypeInv
    BY <1>4 DEF TypeInv, CoInv, StoreInv
<1> QED BY <1>2, <1>3, <1>5

LEMMA TypePartsNext == (CoInv /\ StoreInv)' => TypeInv'
BY TypeParts, PTL

\* One step keeps the shape of the goroutine's state.
LEMMA CoStep ==
    ASSUME TypeInv, SeqInv, Next
    PROVE  CoInv'
<1> USE DEF CompactPCs
<1>1. CoInv /\ StoreInv
    BY TypeParts
<1>2. ASSUME NEW op \in Ops, Write(op) PROVE CoInv'
    BY <1>1, <1>2 DEF Write, CoInv, Committing
<1>3. ASSUME GetSnapshot PROVE CoInv'
    BY <1>1, <1>3 DEF GetSnapshot, CoInv, Committing, ghosts
<1>4. ASSUME NEW i \in DOMAIN snapshots, ReleaseSnapshot(i) PROVE CoInv'
    BY <1>1, <1>4 DEF ReleaseSnapshot, CoInv, Committing, ghosts
<1>5. ASSUME co' = [pc |-> co'.pc, level |-> 0, inputs |-> {}, oldest |-> 0,
                    rest |-> {}, num |-> 0, out |-> {}, unread |-> {}],
             co'.pc \in {"idle", "loop", "cleanup"}, mu' = "free",
             phase' = "down" => co'.pc = "idle" /\ snapshots' = <<>>
      PROVE  CoInv'
    <2>1. /\ CoOK(co') /\ co'.level = 0 /\ co'.num = 0 /\ co'.oldest = 0
          /\ co'.rest = {} /\ co'.out = {} /\ co'.inputs = {} /\ IsFiniteSet(co'.out)
          /\ co'.unread = {}
        BY <1>5, ResetOK
    <2> QED BY <1>5, <2>1 DEF CoInv, Committing
<1>6. ASSUME FlushStart PROVE CoInv'
    <2>1. /\ co' = [pc |-> "loop", level |-> 0, inputs |-> {}, oldest |-> 0,
                    rest |-> {}, num |-> 0, out |-> {}, unread |-> {}]
          /\ phase' = "up" /\ mu' = mu /\ co.pc = "idle"
        BY <1>6, IdleIs DEF FlushStart
    <2>2. mu = "free"
        BY <1>1, <2>1 DEF CoInv, StoreInv, Committing
    <2> QED BY <1>5, <2>1, <2>2
<1>7. ASSUME FlushMemtable PROVE CoInv'
    BY <1>1, <1>7, FlushEffect DEF CoInv, Committing, ghosts
<1>8. ASSUME CompactSkip PROVE CoInv'
    <2>1. co' = [pc |-> "cleanup", level |-> co.level, inputs |-> co.inputs,
                 oldest |-> co.oldest, rest |-> co.rest, num |-> co.num, out |-> co.out,
                 unread |-> co.unread]
        BY <1>1, <1>8 DEF CompactSkip, CoInv, CoOK
    <2>2. /\ CoOK(co') /\ co'.level = co.level /\ co'.num = co.num /\ co'.oldest = co.oldest
          /\ co'.rest = co.rest /\ co'.out = co.out /\ co'.pc = "cleanup"
          /\ co'.unread = co.unread
        BY <2>1 DEF CoOK
    <2> QED BY <1>1, <1>8, <2>2 DEF CompactSkip, CoInv, Committing, ghosts
<1>9. ASSUME CompactPick PROVE CoInv'
    <2>1. PICK level, inputs :
              /\ level \in 0..5
              /\ co.pc = "loop" /\ mu = "free" /\ phase = "up"
              /\ \/ co' = [pc |-> "start", level |-> level, inputs |-> inputs,
                           oldest |-> getOldestSnapshotSeq, rest |-> EntriesOf(inputs),
                           num |-> 0, out |-> {}, unread |-> {}]
                 \/ co' = [pc |-> "cleanup", level |-> 0, inputs |-> {}, oldest |-> 0,
                           rest |-> {}, num |-> 0, out |-> {}, unread |-> {}]
              /\ UNCHANGED <<phase, mu, history>>
        BY <1>9, PickEffect
    <2>2. CASE co' = [pc |-> "cleanup", level |-> 0, inputs |-> {}, oldest |-> 0,
                      rest |-> {}, num |-> 0, out |-> {}, unread |-> {}]
        BY <1>5, <2>1, <2>2
    <2>3. CASE co' = [pc |-> "start", level |-> level, inputs |-> inputs,
                      oldest |-> getOldestSnapshotSeq, rest |-> EntriesOf(inputs),
                      num |-> 0, out |-> {}, unread |-> {}]
        <3>1. getOldestSnapshotSeq \in Nat
            BY TypeFacts, OldestSnapshot
        <3>2. EntriesOf(inputs) \subseteq history
            BY <1>1 DEF EntriesOf, StoreInv
        <3>3. /\ CoOK(co') /\ co'.pc = "start" /\ co'.level = level /\ co'.num = 0
              /\ co'.oldest = getOldestSnapshotSeq /\ co'.rest = EntriesOf(inputs)
              /\ co'.out = {} /\ co'.unread = {}
            BY <2>3 DEF CoOK
        <3>4. IsFiniteSet(co'.out)
            BY <3>3, FS_EmptySet
        <3> QED BY <2>1, <3>1, <3>2, <3>3, <3>4 DEF CoInv, Committing
    <2> QED BY <2>1, <2>2, <2>3
<1>10. ASSUME CompactStartFile PROVE CoInv'
    <2>1. /\ CoOK(co') /\ co'.pc = "fill" /\ co'.level = co.level /\ co'.num = nextFileNum
          /\ co'.oldest = co.oldest /\ co'.rest = co.rest /\ co'.out = co.out
          /\ mu' = mu /\ mu = "free" /\ phase' = phase /\ history' = history
          /\ co.pc = "start" /\ co'.unread = co.unread
        BY <1>10, StartEffect DEF CoOK, ghosts
    <2> QED BY <1>1, <2>1 DEF CoInv, Committing, StoreInv
<1>11. ASSUME CompactFillFile PROVE CoInv'
    <2>1. PICK t :
              /\ co.pc = "fill" /\ mu = "free" /\ MetaOK(t)
              /\ co' = [pc |-> IF AfterChunk = {} THEN "remove" ELSE "start",
                        level |-> co.level, inputs |-> co.inputs, oldest |-> co.oldest,
                        rest |-> AfterChunk, num |-> co.num, out |-> co.out \cup {t},
                        unread |-> co.unread]
              /\ AfterChunk \subseteq co.rest
              /\ mu' = mu /\ phase' = phase /\ history' = history
        BY <1>11, FillEffect DEF ghosts
    <2>2. /\ CoOK(co') /\ co'.pc \in {"remove", "start"} /\ co'.level = co.level
          /\ co'.num = co.num /\ co'.oldest = co.oldest /\ co'.rest = AfterChunk
          /\ co'.out = co.out \cup {t} /\ co'.unread = co.unread
        BY <2>1 DEF CoOK
    <2>3. IsFiniteSet(co.out \cup {t})
        BY <1>1, FS_AddElement DEF CoInv
    <2> QED BY <1>1, <2>1, <2>2, <2>3 DEF CoInv, Committing
<1>12. ASSUME CompactBuildFails PROVE CoInv'
    <2>1. mu = "free" /\ phase = "up"
        BY <1>1, <1>12 DEF CompactBuildFails, CoInv, StoreInv, Committing
    <2> QED BY <1>5, <1>12, <2>1, IdleIs DEF CompactBuildFails
<1>13. ASSUME CompactRemove PROVE CoInv'
    <2>1. PICK t :
              /\ co.pc = "remove" /\ mu' = "compact"
              /\ co' = [pc |-> IF co.inputs = {t} THEN "add" ELSE "remove",
                        level |-> co.level, inputs |-> co.inputs \ {t}, oldest |-> co.oldest,
                        rest |-> co.rest, num |-> co.num, out |-> co.out, unread |-> co.unread]
              /\ phase' = phase /\ history' = history /\ unread' = unread \cup co.unread
        BY <1>13, RemoveEffect DEF ghosts
    <2>2. /\ CoOK(co') /\ co'.pc \in {"remove", "add"} /\ co'.level = co.level
          /\ co'.num = co.num /\ co'.oldest = co.oldest /\ co'.rest = co.rest
          /\ co'.out = co.out /\ co'.unread = co.unread
        BY <2>1 DEF CoOK
    <2> QED BY <1>1, <2>1, <2>2 DEF CoInv, Committing
<1>14. ASSUME CompactAdd PROVE CoInv'
    <2>1. PICK t \in co.out :
              /\ co.pc = "add" /\ mu = "compact"
              /\ co' = [pc |-> IF co.out = {t} THEN "cleanup" ELSE "add",
                        level |-> co.level, inputs |-> co.inputs, oldest |-> co.oldest,
                        rest |-> co.rest, num |-> co.num, out |-> co.out \ {t},
                        unread |-> co.unread]
              /\ mu' = IF co.out = {t} THEN "free" ELSE "compact"
              /\ phase' = phase /\ history' = history /\ unread' = unread
        BY <1>14, AddEffect DEF ghosts
    <2>2. /\ CoOK(co') /\ co'.level = co.level
          /\ co'.num = co.num /\ co'.oldest = co.oldest /\ co'.rest = co.rest
          /\ co'.out = co.out \ {t} /\ co'.unread = co.unread
          /\ co'.pc = IF co.out = {t} THEN "cleanup" ELSE "add"
        BY <2>1 DEF CoOK
    <2>3. IsFiniteSet(co.out \ {t})
        BY <1>1, FS_RemoveElement DEF CoInv
    <2>4. phase = "up"
        BY <1>1, <2>1 DEF CoInv, StoreInv
    <2> QED BY <1>1, <2>1, <2>2, <2>3, <2>4 DEF CoInv, Committing
<1>15. ASSUME CompactCommitFails PROVE CoInv'
    <2>1. phase = "up"
        BY <1>1, <1>15 DEF CompactCommitFails, CoInv, StoreInv
    <2> QED BY <1>5, <1>15, <2>1, IdleIs DEF CompactCommitFails
<1>16. ASSUME Cleanup PROVE CoInv'
    <2>1. mu = "free" /\ phase = "up"
        BY <1>1, <1>16 DEF Cleanup, CoInv, StoreInv, Committing
    <2> QED BY <1>5, <1>16, <2>1 DEF Cleanup, Idle
<1>17. ASSUME CompactManifest PROVE CoInv'
    BY <1>1, <1>17 DEF CompactManifest, CoInv, Committing, ghosts
<1>18. ASSUME ProcessEnds PROVE CoInv'
    BY <1>5, <1>18 DEF ProcessEnds, Idle
<1>19. ASSUME Restart PROVE CoInv'
    BY <1>1, <1>19 DEF Restart, CoInv, Committing, ghosts
<1>20. ASSUME CompactReadFails PROVE CoInv'
    <2>1. PICK got :
              /\ co.pc = "start" /\ mu = "free" /\ got \subseteq co.rest
              /\ co' = [pc |-> co.pc, level |-> co.level, inputs |-> co.inputs,
                        oldest |-> co.oldest, rest |-> got, num |-> co.num, out |-> co.out,
                        unread |-> co.unread \cup UserKeys(co.rest \ got)]
              /\ mu' = mu /\ phase' = phase /\ history' = history
        BY <1>20, ReadFailsEffect DEF ghosts
    <2>2. /\ CoOK(co') /\ co'.pc = "start" /\ co'.level = co.level /\ co'.num = co.num
          /\ co'.oldest = co.oldest /\ co'.rest = got /\ co'.out = co.out
          /\ co'.unread = co.unread \cup UserKeys(co.rest \ got)
        BY <2>1 DEF CoOK
    <2>3. UserKeys(co.rest \ got) \subseteq Keys
        BY TypeFacts DEF UserKeys, Entry
    <2> QED BY <1>1, <2>1, <2>2, <2>3 DEF CoInv, Committing, StoreInv
<1> QED BY <1>2, <1>3, <1>4, <1>6, <1>7, <1>8, <1>9, <1>10, <1>11, <1>12, <1>13, <1>14,
           <1>15, <1>16, <1>17, <1>18, <1>19, <1>20
        DEF Next, MaybeScheduleFlush, CompactLevel, Crash, Close

\* One step keeps the shape of the store.
LEMMA StoreStep ==
    ASSUME TypeInv, SeqInv, Next
    PROVE  StoreInv'
<1>1. CoInv /\ StoreInv
    BY TypeParts
<1>a. VersionOK(NewVersionSet)
    BY FS_EmptySet DEF VersionOK, NewVersionSet
<1>2. ASSUME NEW op \in Ops, Write(op) PROVE StoreInv'
    <2> DEFINE e == InternalKeyOf(op.key, nextSeq, op.typ)
    <2>1. /\ mem' = mem \cup {e} /\ history' = history \cup {e} /\ nextSeq' = nextSeq + 1
          /\ UNCHANGED <<manifest, files, phase, nextFileNum, version, snapshots, mu, missed, cut,
                         unread>>
        BY <1>2 DEF Write
    <2>2. e \in Entry(Keys)
        BY <1>1, KeysAssumption DEF Entry, InternalKeyOf, StoreInv
    <2> HIDE DEF e
    <2>3. IsFiniteSet(history')
        BY <1>1, <2>1, FS_AddElement DEF StoreInv
    <2>4. nextSeq' \in Nat \ {0}
        BY <1>1, <2>1 DEF StoreInv
    <2> QED BY <1>1, <2>1, <2>2, <2>3, <2>4 DEF StoreInv
<1>3. ASSUME GetSnapshot PROVE StoreInv'
    <2>1. snapshots' = <<nextSeq - 1>> \o snapshots
          /\ UNCHANGED <<manifest, files, phase, nextSeq, nextFileNum, version, mem, mu,
                         history, missed, cut, unread>>
        BY <1>3 DEF GetSnapshot, memory, ghosts
    <2>2. nextSeq - 1 \in Nat /\ snapshots \in Seq(Nat)
        BY <1>1 DEF StoreInv
    <2>3. <<nextSeq - 1>> \o snapshots \in Seq(Nat)
        BY <2>2
    <2> QED BY <1>1, <2>1, <2>3 DEF StoreInv
<1>4. ASSUME NEW i \in DOMAIN snapshots, ReleaseSnapshot(i) PROVE StoreInv'
    <2>1. snapshots' = SubSeq(snapshots, 1, i - 1) \o SubSeq(snapshots, i + 1, Len(snapshots))
          /\ UNCHANGED <<manifest, files, phase, nextSeq, nextFileNum, version, mem, mu,
                         history, missed, cut, unread>>
        BY <1>4 DEF ReleaseSnapshot, memory, ghosts
    <2>2. snapshots \in Seq(Nat)
        BY <1>1 DEF StoreInv
    <2>3. i \in 1..Len(snapshots)
        BY <2>2
    <2>4. SubSeq(snapshots, 1, i - 1) \in Seq(Nat)
          /\ SubSeq(snapshots, i + 1, Len(snapshots)) \in Seq(Nat)
        BY <2>2, <2>3
    <2>5. snapshots' \in Seq(Nat)
        BY <2>1, <2>4
    <2> QED BY <1>1, <2>1, <2>5 DEF StoreInv
<1>5. ASSUME UNCHANGED <<manifest, files, phase, nextSeq, version, mem, snapshots, history, cut, unread>>,
             mu' \in {"free", "compact"}, nextFileNum' \in Nat \ {0}, missed' \in BOOLEAN
      PROVE  StoreInv'
    BY <1>1, <1>5 DEF StoreInv
<1>6. ASSUME FlushStart \/ CompactSkip PROVE StoreInv'
    BY <1>1, <1>5, <1>6 DEF FlushStart, CompactSkip, StoreInv, memory, ghosts
<1>7. ASSUME FlushMemtable PROVE StoreInv'
    <2>1. PICK s \in Nat : /\ files' = WriteFile(nextFileNum, FlushSet(s))
                           /\ nextFileNum' = nextFileNum + 1
                           /\ VersionOK(version') /\ VersionOK(manifest')
                           /\ mem' = mem \ FlushSet(s)
                           /\ UNCHANGED <<phase, nextSeq, snapshots, mu, history, missed, cut,
                                          unread>>
        BY <1>7, FlushEffect DEF ghosts
    <2>2. FlushSet(s) \subseteq history
        BY <1>1 DEF FlushSet, StoreInv
    <2>3. /\ DOMAIN files' = DOMAIN files \cup {nextFileNum}
          /\ files' = [n \in DOMAIN files' |-> files'[n]]
          /\ files'[nextFileNum] = FlushSet(s)
          /\ \A n \in DOMAIN files : n # nextFileNum => files'[n] = files[n]
        BY <2>1 DEF WriteFile
    <2>4. \A n \in DOMAIN files' : files'[n] \subseteq history
        BY <1>1, <2>2, <2>3 DEF StoreInv
    <2>5. nextFileNum' \in Nat \ {0} /\ mem' \subseteq history
        BY <1>1, <2>1 DEF StoreInv
    <2> QED BY <1>1, <2>1, <2>3, <2>4, <2>5 DEF StoreInv
<1>8. ASSUME CompactPick PROVE StoreInv'
    <2>1. PICK level, inputs : missed' = (missed \/ Misses(level, inputs))
              /\ UNCHANGED <<manifest, files, phase, memory, mem, snapshots, mu, history, cut,
                             unread>>
        BY <1>8, PickEffect
    <2>2. missed' \in BOOLEAN
        BY <2>1
    <2> QED BY <1>1, <1>5, <2>1, <2>2 DEF StoreInv, memory
<1>9. ASSUME CompactStartFile PROVE StoreInv'
    <2>1. nextFileNum' = nextFileNum + 1
          /\ UNCHANGED <<manifest, files, phase, nextSeq, version, mem, snapshots, mu,
                         history, missed, cut, unread>>
        BY <1>9, StartEffect DEF ghosts
    <2>2. nextFileNum' \in Nat \ {0}
        BY <1>1, <2>1 DEF StoreInv
    <2> QED BY <1>1, <1>5, <2>1, <2>2 DEF StoreInv
<1>10. ASSUME NEW S, S \subseteq history, files' = WriteFile(co.num, S) \/ files' = files,
              UNCHANGED <<manifest, phase, nextSeq, nextFileNum, version, mem, snapshots, mu,
                          history, missed, cut, unread>>
       PROVE  StoreInv'
    <2>1. CASE files' = files
        BY <1>1, <1>10, <2>1 DEF StoreInv
    <2>2. CASE files' = WriteFile(co.num, S)
        <3>1. /\ DOMAIN files' = DOMAIN files \cup {co.num}
              /\ files' = [n \in DOMAIN files' |-> files'[n]]
              /\ files'[co.num] = S
              /\ \A n \in DOMAIN files : n # co.num => files'[n] = files[n]
            BY <2>2 DEF WriteFile
        <3>2. \A n \in DOMAIN files' : files'[n] \subseteq history
            BY <1>1, <1>10, <3>1 DEF StoreInv
        <3> QED BY <1>1, <1>10, <3>1, <3>2 DEF StoreInv
    <2> QED BY <1>10, <2>1, <2>2
<1>11. ASSUME CompactFillFile PROVE StoreInv'
    <2>1. /\ Chunk \subseteq co.rest /\ files' = WriteFile(co.num, Chunk)
          /\ UNCHANGED <<manifest, phase, nextSeq, nextFileNum, version, mem, snapshots, mu,
                          history, missed, cut, unread>>
        BY <1>11, FillEffect DEF memory, ghosts
    <2>2. Chunk \subseteq history
        BY <1>1, <2>1 DEF CoInv
    <2> QED BY <1>10, <2>1, <2>2
<1>12. ASSUME CompactBuildFails PROVE StoreInv'
    <2>1. /\ files' = WriteFile(co.num, {}) \/ files' = files
          /\ UNCHANGED <<manifest, phase, nextSeq, nextFileNum, version, mem, snapshots, mu,
                          history, missed, cut, unread>>
        BY <1>12 DEF CompactBuildFails, memory, ghosts
    <2>2. {} \subseteq history
        OBVIOUS
    <2> QED BY <1>10, <2>1, <2>2
<1>13. ASSUME VersionOK(version'), VersionOK(manifest'), mu' \in {"free", "compact"},
              cut' \in BOOLEAN, phase' \in {"up", "down"},
              nextSeq' \in Nat \ {0}, nextFileNum' \in Nat \ {0}, snapshots' \in Seq(Nat),
              unread' \subseteq Keys, UNCHANGED <<files, mem, history, missed>>
       PROVE  StoreInv'
    BY <1>1, <1>13 DEF StoreInv
<1>14. ASSUME CompactRemove PROVE StoreInv'
    <2>1. /\ mu' = "compact" /\ VersionOK(version') /\ VersionOK(manifest')
          /\ unread' = unread \cup co.unread
          /\ UNCHANGED <<files, phase, nextSeq, nextFileNum, mem, snapshots, history, missed, cut>>
        BY <1>14, RemoveEffect
    <2>2. unread' \subseteq Keys
        BY <2>1, TypeFacts
    <2> QED BY <1>1, <1>13, <2>1, <2>2 DEF StoreInv
<1>15. ASSUME CompactAdd PROVE StoreInv'
    <2>1. /\ mu' \in {"free", "compact"} /\ VersionOK(version') /\ VersionOK(manifest')
          /\ UNCHANGED <<files, phase, nextSeq, nextFileNum, mem, snapshots, history, missed, cut,
                         unread>>
        BY <1>15, AddEffect DEF ghosts
    <2> QED BY <1>1, <1>13, <2>1 DEF StoreInv
<1>16. ASSUME CompactCommitFails PROVE StoreInv'
    <2>1. VersionOK(manifest')
        <3>1. CASE co.pc = "remove"
            <4>1. \E t \in FirstInputs : manifest' \in {manifest, RemoveTable(manifest, t.num)}
                BY <1>16, <3>1 DEF CompactCommitFails
            <4> QED BY <1>1, <4>1, EditsOK DEF StoreInv
        <3>2. CASE co.pc = "add"
            <4>1. co.out # {} /\ \A u \in co.out : MetaOK(u)
                BY <1>1, <3>2 DEF CoInv, Committing
            <4>2. \A u \in co.out : u.num \in Nat
                BY <4>1 DEF MetaOK
            <4>3. MetaOK(Oldest(co.out))
                BY <4>1, <4>2, OldestOf
            <4> QED BY <1>1, <1>16, <3>2, <4>3, EditsOK DEF CompactCommitFails, StoreInv
        <3> QED BY <1>16, <3>1, <3>2 DEF CompactCommitFails
    <2>2. mu' = "free" /\ cut' \in BOOLEAN
          /\ UNCHANGED <<files, phase, nextSeq, nextFileNum, version, mem, snapshots, history,
                         missed, unread>>
        BY <1>16 DEF CompactCommitFails, memory
    <2> QED BY <1>1, <1>13, <2>1, <2>2 DEF StoreInv
<1>17. ASSUME NEW nums, files' = RemoveFiles(nums)
       PROVE  /\ \A n \in DOMAIN files' : files'[n] \subseteq history
              /\ files' = [n \in DOMAIN files' |-> files'[n]]
    <2>1. /\ DOMAIN files' \subseteq DOMAIN files /\ files' = [n \in DOMAIN files' |-> files'[n]]
          /\ \A n \in DOMAIN files' : files'[n] = files[n]
        BY <1>17, RemoveFilesIs
    <2> QED BY <1>1, <2>1 DEF StoreInv
<1>18. ASSUME Cleanup PROVE StoreInv'
    <2>1. files' = RemoveFiles(version.obsolete) /\ version' = [version EXCEPT !.obsolete = {}]
          /\ UNCHANGED <<manifest, phase, nextSeq, nextFileNum, mem, snapshots, mu,
                         history, missed, cut, unread>>
        BY <1>18 DEF Cleanup, cleanupObsoleteFiles, ghosts
    <2>2. VersionOK(version')
        BY <1>1, <2>1, EditsOK DEF StoreInv
    <2> QED BY <1>1, <1>17, <2>1, <2>2 DEF StoreInv
<1>19. ASSUME CompactManifest PROVE StoreInv'
    <2>1. manifest' = [version EXCEPT !.obsolete = {}]
          /\ UNCHANGED <<files, phase, nextSeq, nextFileNum, version, mem, snapshots, mu,
                         history, missed, cut, unread>>
        BY <1>19 DEF CompactManifest, memory, ghosts
    <2>2. VersionOK(manifest')
        BY <1>1, <2>1, EditsOK DEF StoreInv
    <2> QED BY <1>1, <1>13, <2>1, <2>2 DEF StoreInv
<1>20. ASSUME ProcessEnds
       PROVE  /\ VersionOK(version') /\ mu' = "free" /\ phase' = "down" /\ nextSeq' = 1
              /\ nextFileNum' = 1 /\ snapshots' \in Seq(Nat) /\ cut' \in BOOLEAN
    BY <1>a, <1>20 DEF ProcessEnds
<1>21. ASSUME Crash PROVE StoreInv'
    <2>1. UNCHANGED <<manifest, files, mem, history, missed, unread>> /\ ProcessEnds
        BY <1>21 DEF Crash
    <2> QED BY <1>1, <1>13, <1>20, <2>1 DEF StoreInv
<1>22. ASSUME Close PROVE StoreInv'
    <2>1. UNCHANGED <<manifest, mem, history, missed, unread>> /\ ProcessEnds
          /\ files' = RemoveFiles(version.obsolete)
        BY <1>22 DEF Close
    <2> QED BY <1>1, <1>17, <1>20, <2>1 DEF StoreInv
<1>23. ASSUME Restart PROVE StoreInv'
    <2>1. /\ phase' = "up" /\ version' = manifest
          /\ nextSeq' = RecoveredSeq(manifest) + 1 /\ nextFileNum' = RecoveredFileNum(manifest)
          /\ UNCHANGED <<manifest, files, mem, snapshots, mu, history, missed, cut, unread>>
        BY <1>23 DEF Restart, ghosts
    <2>2. RecoveredSeq(manifest) \in Nat /\ RecoveredFileNum(manifest) \in Nat \ {0}
        BY TypeFacts, RecoveredNumbers
    <2>3. nextSeq' \in Nat \ {0}
        BY <2>1, <2>2
    <2> QED BY <1>1, <1>13, <2>1, <2>2, <2>3 DEF StoreInv
<1>24. ASSUME CompactReadFails PROVE StoreInv'
    BY <1>1, <1>5, <1>24 DEF CompactReadFails, StoreInv, memory, ghosts
<1> QED BY <1>2, <1>3, <1>4, <1>6, <1>7, <1>8, <1>9, <1>11, <1>12, <1>14, <1>15,
           <1>16, <1>18, <1>19, <1>21, <1>22, <1>23, <1>24
        DEF Next, MaybeScheduleFlush, CompactLevel

\* One step keeps the memtables above the cutoff and the tables below it.
LEMMA SeqStep ==
    ASSUME TypeInv, SeqInv, Next
    PROVE  SeqInv'
<1>0. /\ nextSeq \in Nat /\ manifest.cutoff \in Nat /\ mem \subseteq history
      /\ \A e \in history : e.seq \in Nat
      /\ \A n \in DOMAIN files : files[n] \subseteq history
      /\ co.rest \subseteq history
      /\ phase \in {"up", "down"} /\ (phase = "down" => co.pc = "idle")
    BY TypeFacts
<1>i. \A n \in DOMAIN files : \A e \in files[n] : e.seq <= manifest.cutoff
    BY DEF SeqInv
<1>1. ASSUME phase' = "up" => /\ phase = "up" /\ nextSeq' = nextSeq
                              /\ version'.cutoff = version.cutoff,
             manifest'.cutoff = manifest.cutoff, mem' = mem, history' = history,
             \A n \in DOMAIN files' : \A e \in files'[n] : e.seq <= manifest.cutoff,
             \A e \in co'.rest : e.seq <= manifest.cutoff
      PROVE  SeqInv'
    BY <1>1 DEF SeqInv
<1>2. ASSUME UNCHANGED <<manifest, files, mem, history>>,
             \A e \in co'.rest : e.seq <= manifest.cutoff,
             phase' = "up" => /\ phase = "up" /\ nextSeq' = nextSeq
                              /\ version'.cutoff = version.cutoff
      PROVE  SeqInv'
    BY <1>1, <1>2, <1>i
<1>r. \A e \in co.rest : e.seq <= manifest.cutoff
    BY DEF SeqInv
<1>3. ASSUME NEW op \in Ops, Write(op) PROVE SeqInv'
    <2> DEFINE e == InternalKeyOf(op.key, nextSeq, op.typ)
    <2>1. /\ mem' = mem \cup {e} /\ history' = history \cup {e} /\ nextSeq' = nextSeq + 1
          /\ phase = "up"
          /\ UNCHANGED <<manifest, files, phase, version, co>>
        BY <1>3 DEF Write
    <2>2. e.seq = nextSeq
        BY DEF InternalKeyOf
    <2> HIDE DEF e
    <2>3. manifest.cutoff < nextSeq /\ version.cutoff = manifest.cutoff
          /\ \A f \in mem : f.seq < nextSeq
        BY <2>1 DEF SeqInv
    <2>4. \A f \in mem' : f.seq < nextSeq'
        BY <1>0, <2>1, <2>2, <2>3
    <2>5. \A f \in history' : f \in mem' <=> manifest.cutoff < f.seq
        BY <1>0, <2>1, <2>2, <2>3 DEF SeqInv
    <2>6. manifest.cutoff < nextSeq'
        BY <1>0, <2>1, <2>3
    <2> QED BY <1>i, <1>r, <2>1, <2>3, <2>4, <2>5, <2>6 DEF SeqInv
<1>4. ASSUME UNCHANGED <<manifest, files, phase, nextSeq, version, mem, history>>,
             \A e \in co'.rest : e.seq <= manifest.cutoff
      PROVE  SeqInv'
    BY <1>2, <1>4
<1>5. ASSUME GetSnapshot PROVE SeqInv'
    BY <1>4, <1>5, <1>r DEF GetSnapshot, memory, ghosts
<1>6. ASSUME NEW i \in DOMAIN snapshots, ReleaseSnapshot(i) PROVE SeqInv'
    BY <1>4, <1>6, <1>r DEF ReleaseSnapshot, memory, ghosts
<1>7. ASSUME FlushStart PROVE SeqInv'
    <2>1. co'.rest = {}
        BY <1>7, IdleIs DEF FlushStart
    <2> QED BY <1>4, <1>7, <2>1 DEF FlushStart, memory, ghosts
<1>8. ASSUME CompactSkip PROVE SeqInv'
    <2>1. co'.rest = co.rest
        BY <1>8, TypeFacts DEF CompactSkip, CoOK
    <2> QED BY <1>4, <1>8, <1>r, <2>1 DEF CompactSkip, memory, ghosts
<1>9. ASSUME FlushMemtable PROVE SeqInv'
    <2>1. PICK s, t :
              /\ s \in Nat
              /\ phase = "up" /\ s < nextSeq
              /\ manifest.cutoff < s /\ version.cutoff = manifest.cutoff
              /\ files' = WriteFile(nextFileNum, FlushSet(s))
              /\ version' = [tables |-> version.tables \cup {t},
                             obsolete |-> version.obsolete, cutoff |-> s]
              /\ manifest' = [tables |-> manifest.tables \cup {t},
                              obsolete |-> manifest.obsolete, cutoff |-> s]
              /\ mem' = mem \ FlushSet(s)
              /\ UNCHANGED <<phase, nextSeq, co, history>>
        BY <1>9, FlushEffect DEF ghosts
    <2>2. version'.cutoff = s /\ manifest'.cutoff = s
        BY <2>1
    <2>3. /\ DOMAIN files' = DOMAIN files \cup {nextFileNum}
          /\ files'[nextFileNum] = FlushSet(s)
          /\ \A n \in DOMAIN files : n # nextFileNum => files'[n] = files[n]
        BY <2>1 DEF WriteFile
    <2>4. \A n \in DOMAIN files, e \in history : e \in files[n] => e.seq <= s
        BY <1>0, <1>i, <2>1
    <2>5. \A n \in DOMAIN files' : \A e \in files'[n] : e.seq <= s
        BY <1>0, <2>3, <2>4 DEF FlushSet
    <2>6. \A e \in co'.rest : e.seq <= s
        BY <1>0, <1>r, <2>1
    <2>7. \A e \in history' : e \in mem' <=> s < e.seq
        BY <1>0, <2>1 DEF SeqInv, FlushSet
    <2>8. \A e \in mem' : e.seq < nextSeq'
        BY <2>1 DEF SeqInv
    <2> QED BY <2>1, <2>2, <2>5, <2>6, <2>7, <2>8 DEF SeqInv
<1>10. ASSUME CompactPick PROVE SeqInv'
    <2>1. PICK level, inputs :
              /\ \/ co' = [pc |-> "start", level |-> level, inputs |-> inputs,
                           oldest |-> getOldestSnapshotSeq, rest |-> EntriesOf(inputs),
                           num |-> 0, out |-> {}, unread |-> {}]
                 \/ co' = [pc |-> "cleanup", level |-> 0, inputs |-> {}, oldest |-> 0,
                           rest |-> {}, num |-> 0, out |-> {}, unread |-> {}]
              /\ UNCHANGED <<manifest, files, phase, nextSeq, version, mem, history>>
        BY <1>10, PickEffect DEF memory
    <2>2. co'.rest = EntriesOf(inputs) \/ co'.rest = {}
        BY <2>1
    <2>3. \A e \in co'.rest : e.seq <= manifest.cutoff
        BY <1>i, <2>2 DEF EntriesOf
    <2> QED BY <1>4, <2>1, <2>3
<1>11. ASSUME CompactStartFile PROVE SeqInv'
    <2>1. co'.rest = co.rest /\ UNCHANGED <<manifest, files, phase, nextSeq, version, mem, history>>
        BY <1>11, StartEffect DEF ghosts
    <2> QED BY <1>4, <1>r, <2>1
<1>12. ASSUME CompactFillFile PROVE SeqInv'
    <2>1. /\ files' = WriteFile(co.num, Chunk) /\ co'.rest = AfterChunk
          /\ Chunk \subseteq co.rest /\ AfterChunk \subseteq co.rest
          /\ UNCHANGED <<manifest, phase, nextSeq, version, mem, history>>
        BY <1>12, FillEffect DEF memory, ghosts
    <2>2. \A n \in DOMAIN files' : \A e \in files'[n] : e.seq <= manifest.cutoff
        BY <1>i, <1>r, <2>1 DEF WriteFile
    <2> QED BY <1>1, <1>r, <2>1, <2>2
<1>13. ASSUME CompactBuildFails PROVE SeqInv'
    <2>1. /\ files' = WriteFile(co.num, {}) \/ files' = files
          /\ co'.rest = {}
          /\ UNCHANGED <<manifest, phase, nextSeq, version, mem, history>>
        BY <1>13, IdleIs DEF CompactBuildFails, memory, ghosts
    <2>2. \A n \in DOMAIN files' : \A e \in files'[n] : e.seq <= manifest.cutoff
        BY <1>i, <2>1 DEF WriteFile
    <2> QED BY <1>1, <2>1, <2>2
<1>14. ASSUME CompactRemove PROVE SeqInv'
    <2>1. /\ manifest'.cutoff = manifest.cutoff /\ version'.cutoff = version.cutoff
          /\ co'.rest = co.rest
          /\ UNCHANGED <<files, phase, nextSeq, mem, history>>
        BY <1>14, RemoveEffect
    <2> QED BY <1>1, <1>i, <1>r, <2>1
<1>15. ASSUME CompactAdd PROVE SeqInv'
    <2>1. /\ manifest'.cutoff = manifest.cutoff /\ version'.cutoff = version.cutoff
          /\ co'.rest = co.rest
          /\ UNCHANGED <<files, phase, nextSeq, mem, history>>
        BY <1>15, AddEffect DEF ghosts
    <2> QED BY <1>1, <1>i, <1>r, <2>1
<1>16. ASSUME CompactCommitFails PROVE SeqInv'
    <2>1. \E t : manifest' \in {manifest, RemoveTable(manifest, t.num), AddTable(manifest, t)}
        BY <1>16 DEF CompactCommitFails
    <2>2. manifest'.cutoff = manifest.cutoff
        BY <2>1, TypeFacts, RemoveTableIs, AddTableIs
    <2>3. co'.rest = {} /\ UNCHANGED <<files, phase, nextSeq, version, mem, history>>
        BY <1>16, IdleIs DEF CompactCommitFails, memory
    <2> QED BY <1>1, <1>i, <2>2, <2>3
<1>17. ASSUME NEW nums, files' = RemoveFiles(nums)
       PROVE  \A n \in DOMAIN files' : \A e \in files'[n] : e.seq <= manifest.cutoff
    BY <1>17, <1>i DEF RemoveFiles
<1>18. ASSUME Cleanup PROVE SeqInv'
    <2>1. files' = RemoveFiles(version.obsolete) /\ version' = [version EXCEPT !.obsolete = {}]
          /\ co' = Idle
          /\ UNCHANGED <<manifest, phase, nextSeq, mem, history>>
        BY <1>18 DEF Cleanup, cleanupObsoleteFiles, ghosts
    <2>2. version'.cutoff = version.cutoff /\ co'.rest = {}
        BY <2>1, TypeFacts DEF Idle
    <2> QED BY <1>1, <1>17, <2>1, <2>2
<1>19. ASSUME CompactManifest PROVE SeqInv'
    <2>1. manifest' = [version EXCEPT !.obsolete = {}] /\ phase = "up"
          /\ UNCHANGED <<files, phase, nextSeq, version, mem, co, history>>
        BY <1>19 DEF CompactManifest, memory, ghosts
    <2>2. manifest'.cutoff = version.cutoff
        BY <2>1, TypeFacts
    <2>3. version.cutoff = manifest.cutoff
        BY <2>1 DEF SeqInv
    <2> QED BY <1>1, <1>i, <1>r, <2>1, <2>2, <2>3
<1>20. ASSUME Crash PROVE SeqInv'
    <2>1. co' = Idle /\ phase' = "down" /\ UNCHANGED <<manifest, files, mem, history>>
        BY <1>20 DEF Crash, ProcessEnds
    <2>2. co'.rest = {}
        BY <2>1 DEF Idle
    <2> QED BY <1>2, <2>1, <2>2
<1>21. ASSUME Close PROVE SeqInv'
    <2>1. co' = Idle /\ phase' = "down" /\ UNCHANGED <<manifest, mem, history>>
          /\ files' = RemoveFiles(version.obsolete)
        BY <1>21 DEF Close, ProcessEnds
    <2>2. co'.rest = {}
        BY <2>1 DEF Idle
    <2> QED BY <1>1, <1>17, <2>1, <2>2
<1>22. ASSUME Restart PROVE SeqInv'
    <2>1. /\ version' = manifest /\ nextSeq' = RecoveredSeq(manifest) + 1
          /\ UNCHANGED <<manifest, files, mem, co, history>>
        BY <1>22 DEF Restart, ghosts
    <2>2. /\ RecoveredSeq(manifest) \in Nat /\ manifest.cutoff <= RecoveredSeq(manifest)
          /\ \A e \in mem : e.seq <= RecoveredSeq(manifest)
        BY TypeFacts, RecoveredNumbers
    <2>3. \A e \in mem : e.seq < nextSeq'
        BY <1>0, <2>1, <2>2
    <2>4. manifest.cutoff < nextSeq'
        BY <1>0, <2>1, <2>2
    <2> QED BY <1>i, <1>r, <2>1, <2>3, <2>4 DEF SeqInv
<1>23. ASSUME CompactReadFails PROVE SeqInv'
    <2>1. PICK got :
              /\ co.pc = "start" /\ mu = "free" /\ got \subseteq co.rest
              /\ co' = [pc |-> co.pc, level |-> co.level, inputs |-> co.inputs,
                        oldest |-> co.oldest, rest |-> got, num |-> co.num, out |-> co.out,
                        unread |-> co.unread \cup UserKeys(co.rest \ got)]
              /\ UNCHANGED <<manifest, files, phase, memory, mem, snapshots, mu, ghosts>>
        BY <1>23, ReadFailsEffect
    <2>2. co'.rest \subseteq co.rest
          /\ UNCHANGED <<manifest, files, phase, nextSeq, version, mem, history>>
        BY <2>1 DEF memory, ghosts
    <2> QED BY <1>4, <1>r, <2>2
<1> QED BY <1>3, <1>5, <1>6, <1>7, <1>8, <1>9, <1>10, <1>11, <1>12, <1>13, <1>14, <1>15,
           <1>16, <1>18, <1>19, <1>20, <1>21, <1>22, <1>23
        DEF Next, MaybeScheduleFlush, CompactLevel

\* TypeInv and SeqInv are inductive by themselves.
LEMMA TypeSeqStep == TypeInv /\ SeqInv /\ [Next]_vars => TypeInv' /\ SeqInv'
<1>1. ASSUME TypeInv, SeqInv, Next PROVE TypeInv' /\ SeqInv'
    <2>1. CoInv' /\ StoreInv'
        BY <1>1, CoStep, StoreStep
    <2> QED BY <1>1, <2>1, SeqStep, TypePartsNext
<1>2. ASSUME TypeInv, SeqInv, UNCHANGED vars PROVE TypeInv' /\ SeqInv'
    BY <1>2 DEF TypeInv, TypeOK, SeqInv, Committing, vars, memory, ghosts
<1> QED BY <1>1, <1>2

-----------------------------------------------------------------------------
(* FileInv and CompactInv: tables, files and their numbers.                *)

\* The inputs of a compaction are tables of its level and of the next one.
LEMMA InputsChosen ==
    ASSUME NEW level, NEW inputs \in InputChoices(level)
    PROVE  inputs \subseteq Level(version, level) \cup Level(version, level + 1)
<1> DEFINE own == IF level = 0 THEN {Level(version, 0)}
                  ELSE {{t} : t \in SortedFirst(Level(version, level))}
<1>1. PICK T \in own :
          inputs = T \cup GetOverlappingInputs(version, level + 1, Smallest(T), Largest(T))
    BY DEF InputChoices
<1>2. T \subseteq Level(version, level)
    BY DEF SortedFirst
<1>3. ASSUME NEW s, NEW l
      PROVE  GetOverlappingInputs(version, level + 1, s, l) \subseteq Level(version, level + 1)
    BY DEF GetOverlappingInputs
<1> QED BY <1>1, <1>2, <1>3

\* The tables, files and numbers of a step, as FileInv and CompactInv see them.
shelf == <<manifest, version, files, phase, nextFileNum, mu, co>>

LEMMA ShelfUnchanged ==
    ASSUME UNCHANGED shelf, FileInv, CompactInv
    PROVE  FileInv' /\ CompactInv'
BY DEF shelf, FileInv, CompactInv, Tables, Backed, Outgrown, Unused, Merging, Committing,
       TargetLevel

\* FileInv for a step that leaves the tables alone, and db.mu free.
LEMMA FileFrame ==
    ASSUME FileInv, UNCHANGED <<phase>>, manifest'.tables = manifest.tables,
           version'.tables = version.tables, mu = "free",
           manifest'.obsolete \subseteq manifest.obsolete,
           version'.obsolete \subseteq version.obsolete,
           nextFileNum \in Nat, \A t \in Tables : t.num \in Nat,
           nextFileNum' \in Nat, nextFileNum <= nextFileNum',
           \A t \in Tables : t.num \in DOMAIN files' /\ files'[t.num] = files[t.num]
    PROVE  FileInv'
<1>1. \A t \in Tables' : Backed(t, t.level)'
    BY DEF FileInv, Tables, Backed
<1>2. Outgrown(manifest)' /\ Outgrown(version)'
    <2>1. \A o \in manifest.obsolete \cup version.obsolete :
              o \in Nat /\ (\A t \in Tables : t.num # o) /\ \E t \in Tables : o < t.num
        BY DEF FileInv, Outgrown
    <2> QED BY <2>1 DEF Outgrown, Tables
<1>3. phase = "up" => \A t \in Tables : t.num < nextFileNum'
    BY DEF FileInv
<1> QED BY <1>1, <1>2, <1>3 DEF FileInv, Tables

\* Numbers are naturals.
LEMMA NumFacts ==
    ASSUME TypeInv
    PROVE  /\ \A t \in Tables : t.num \in Nat /\ t.level \in 0..6
           /\ \A t \in version.tables : t.num \in Nat /\ t.level \in 0..6
           /\ \A t \in co.out : t.num \in Nat
           /\ nextFileNum \in Nat /\ co.num \in Nat
<1>1. /\ \A t \in version.tables \cup manifest.tables : MetaOK(t)
      /\ \A t \in co.out : MetaOK(t)
      /\ nextFileNum \in Nat /\ co.num \in Nat
    BY TypeFacts
<1>2. \A t : MetaOK(t) => t.num \in Nat /\ t.level \in 0..6
    BY DEF MetaOK, NumLevels
<1> QED BY <1>1, <1>2 DEF Tables

LEMMA FlushShelf ==
    ASSUME TypeInv, SeqInv, FileInv, CompactInv, FlushMemtable
    PROVE  FileInv' /\ CompactInv'
<1>1. PICK s, t :
          /\ s \in Nat
          /\ phase = "up" /\ mu = "free" /\ co.pc = "loop"
          /\ t = TableMeta(nextFileNum, 0, FlushSet(s))
          /\ t.num = nextFileNum /\ t.level = 0
          /\ files' = WriteFile(nextFileNum, FlushSet(s))
          /\ nextFileNum' = nextFileNum + 1
          /\ version' = [tables |-> version.tables \cup {t},
                         obsolete |-> version.obsolete, cutoff |-> s]
          /\ manifest' = [tables |-> manifest.tables \cup {t},
                          obsolete |-> manifest.obsolete, cutoff |-> s]
          /\ UNCHANGED <<phase, mu, co>>
    BY FlushEffect
<1>2. /\ version'.tables = version.tables \cup {t} /\ version'.obsolete = version.obsolete
      /\ Tables' = Tables \cup {t} /\ manifest'.obsolete = manifest.obsolete
    BY <1>1 DEF Tables
<1>3. nextFileNum \in Nat /\ \A u \in Tables : u.num \in Nat /\ u.num < nextFileNum
    BY <1>1, NumFacts DEF FileInv
<1>4. /\ DOMAIN files' = DOMAIN files \cup {nextFileNum}
      /\ files'[nextFileNum] = FlushSet(s)
      /\ \A n \in DOMAIN files : n # nextFileNum => files'[n] = files[n]
    BY <1>1 DEF WriteFile
<1>5. \A u \in Tables' : Backed(u, u.level)'
    <2>1. ASSUME NEW u \in Tables PROVE u.num \in DOMAIN files' /\ u = TableMeta(u.num, u.level, files'[u.num])
        <3>1. u.num # nextFileNum
            BY <1>3
        <3>2. u.num \in DOMAIN files /\ u = TableMeta(u.num, u.level, files[u.num])
            BY DEF FileInv, Backed
        <3> QED BY <1>4, <3>1, <3>2
    <2>2. t.num \in DOMAIN files' /\ t = TableMeta(t.num, t.level, files'[t.num])
        BY <1>1, <1>4
    <2> QED BY <1>2, <2>1, <2>2 DEF Backed
<1>6. \A u, v \in Tables' : u.num = v.num => u = v
    BY <1>1, <1>2, <1>3 DEF FileInv
<1>7. \A u \in Tables' : u.num < nextFileNum'
    BY <1>1, <1>2, <1>3
<1>8. Outgrown(manifest)' /\ Outgrown(version)'
    <2>1. \A o \in manifest.obsolete \cup version.obsolete :
              o \in Nat /\ (\A u \in Tables : u.num # o) /\ \E u \in Tables : o < u.num
        BY <1>1 DEF FileInv, Outgrown
    <2>2. \A o \in manifest.obsolete \cup version.obsolete : o # nextFileNum
        BY <1>3, <2>1
    <2> QED BY <1>1, <1>2, <2>1, <2>2 DEF Outgrown
<1>9. FileInv'
    BY <1>1, <1>2, <1>5, <1>6, <1>7, <1>8 DEF FileInv, Tables
<1>10. CompactInv'
    BY <1>1 DEF CompactInv, Merging, Committing
<1> QED BY <1>9, <1>10

LEMMA PickShelf ==
    ASSUME TypeInv, SeqInv, FileInv, CompactInv, CompactPick
    PROVE  FileInv' /\ CompactInv'
<1>1. PICK level, inputs :
          /\ level \in 0..5
          /\ mu = "free" /\ phase = "up"
          /\ inputs \in InputChoices(level)
          /\ \/ /\ inputs # {}
                /\ co' = [pc |-> "start", level |-> level, inputs |-> inputs,
                          oldest |-> getOldestSnapshotSeq, rest |-> EntriesOf(inputs),
                          num |-> 0, out |-> {}, unread |-> {}]
             \/ co' = [pc |-> "cleanup", level |-> 0, inputs |-> {}, oldest |-> 0,
                       rest |-> {}, num |-> 0, out |-> {}, unread |-> {}]
          /\ UNCHANGED <<manifest, files, phase, version, nextFileNum, mu>>
    BY PickEffect DEF memory
<1>2. inputs \subseteq Tables
    BY <1>1, InputsChosen DEF FileInv, Level
<1>3. FileInv'
    BY <1>1 DEF FileInv, Tables, Backed, Outgrown
<1>4. co'.pc = "start" => co'.inputs = inputs /\ co'.out = {} /\ inputs # {}
    BY <1>1
<1>5. co'.pc \in {"start", "cleanup"}
    BY <1>1
<1>6. CompactInv'
    BY <1>1, <1>2, <1>4, <1>5 DEF CompactInv, Merging, Committing, Tables
<1> QED BY <1>3, <1>6

LEMMA StartShelf ==
    ASSUME TypeInv, FileInv, CompactInv, CompactStartFile
    PROVE  FileInv' /\ CompactInv'
<1>1. /\ co.pc = "start" /\ mu = "free"
      /\ co'.pc = "fill" /\ co'.level = co.level /\ co'.inputs = co.inputs
      /\ co'.num = nextFileNum /\ co'.out = co.out
      /\ nextFileNum' = nextFileNum + 1
      /\ UNCHANGED <<manifest, files, phase, version, mu>>
    BY StartEffect
<1>2. /\ \A t \in Tables : t.num \in Nat
      /\ \A t \in co.out : t.num \in Nat
      /\ nextFileNum \in Nat
    BY NumFacts
<1>3. FileInv'
    <2>1. nextFileNum' \in Nat /\ nextFileNum <= nextFileNum'
        BY <1>1, <1>2
    <2>2. \A t \in Tables : t.num \in DOMAIN files' /\ files'[t.num] = files[t.num]
        BY <1>1 DEF FileInv, Backed
    <2> QED BY <1>1, <1>2, <2>1, <2>2, FileFrame
<1>4. phase = "up"
    BY <1>1, TypeFacts
<1>5. \A t \in Tables : t.num < nextFileNum
    BY <1>4 DEF FileInv
<1>6. \A o \in manifest.obsolete \cup version.obsolete :
          o \in Nat /\ \E t \in Tables : o < t.num
    BY <1>1 DEF FileInv, Outgrown
<1>7. \A o \in manifest.obsolete \cup version.obsolete : o < nextFileNum
    BY <1>2, <1>5, <1>6
<1>8. co.inputs \subseteq Tables /\ co.inputs # {}
    BY <1>1 DEF CompactInv, Merging
<1>9. Unused(co.num)'
    <2>1. nextFileNum < nextFileNum' /\ \A t \in Tables : t.num # nextFileNum
        BY <1>1, <1>2, <1>5
    <2> QED BY <1>1, <1>5, <1>7, <1>8, <2>1 DEF Unused, Tables
<1>10. ASSUME NEW t \in co.out PROVE Unused(t.num)' /\ Backed(t, TargetLevel)' /\ t.num # nextFileNum
    <2>1. Unused(t.num) /\ Backed(t, TargetLevel)
        BY <1>1 DEF CompactInv, Merging
    <2>2. t.num \in Nat /\ t.num < nextFileNum
        BY <1>2, <2>1 DEF Unused
    <2>3. t.num < nextFileNum' /\ t.num # nextFileNum
        BY <1>1, <1>2, <2>2
    <2> QED BY <1>1, <2>1, <2>3 DEF Unused, Tables, Backed, TargetLevel
<1>11. \A t, u \in co.out : t.num = u.num => t = u
    BY <1>1 DEF CompactInv, Merging
<1>12. CompactInv'
    BY <1>1, <1>8, <1>9, <1>10, <1>11 DEF CompactInv, Merging, Committing, Tables
<1> QED BY <1>3, <1>12

LEMMA FillShelf ==
    ASSUME TypeInv, SeqInv, FileInv, CompactInv, CompactFillFile
    PROVE  FileInv' /\ CompactInv'
<1>1. PICK t :
          /\ co.pc = "fill" /\ mu = "free"
          /\ t = TableMeta(co.num, TargetLevel, Chunk)
          /\ t.num = co.num /\ t.level = TargetLevel
          /\ files' = WriteFile(co.num, Chunk)
          /\ co' = [pc |-> IF AfterChunk = {} THEN "remove" ELSE "start",
                    level |-> co.level, inputs |-> co.inputs, oldest |-> co.oldest,
                    rest |-> AfterChunk, num |-> co.num, out |-> co.out \cup {t},
                    unread |-> co.unread]
          /\ UNCHANGED <<manifest, phase, version, nextFileNum, mu>>
    BY FillEffect DEF memory
<1>2. /\ co'.pc \in {"remove", "start"} /\ co'.level = co.level /\ co'.inputs = co.inputs
      /\ co'.out = co.out \cup {t}
    BY <1>1
<1>3. /\ DOMAIN files' = DOMAIN files \cup {co.num} /\ files'[co.num] = Chunk
      /\ \A n \in DOMAIN files : n # co.num => files'[n] = files[n]
    BY <1>1 DEF WriteFile
<1>4. Unused(co.num) /\ (\A u \in co.out : u.num # co.num)
      /\ co.inputs \subseteq Tables /\ co.inputs # {}
    BY <1>1 DEF CompactInv, Merging
<1>5. \A u \in Tables : u.num \in DOMAIN files' /\ files'[u.num] = files[u.num]
    BY <1>3, <1>4 DEF Unused, FileInv, Backed
<1>6. FileInv'
    BY <1>1, <1>5, NumFacts, FileFrame
<1>7. ASSUME NEW u \in co.out PROVE Unused(u.num)' /\ Backed(u, TargetLevel)'
    <2>1. Unused(u.num) /\ Backed(u, TargetLevel)
        BY <1>1 DEF CompactInv, Merging
    <2>2. u.num \in DOMAIN files' /\ u = TableMeta(u.num, TargetLevel, files'[u.num])
        BY <1>3, <1>4, <2>1 DEF Backed
    <2> QED BY <1>1, <1>2, <2>1, <2>2 DEF Unused, Tables, Backed, TargetLevel
<1>8. Unused(t.num)' /\ Backed(t, TargetLevel)'
    BY <1>1, <1>2, <1>3, <1>4 DEF Unused, Tables, Backed, TargetLevel
<1>9. \A u, v \in co.out \cup {t} : u.num = v.num => u = v
    BY <1>1, <1>4 DEF CompactInv, Merging
<1>10. CompactInv'
    BY <1>1, <1>2, <1>4, <1>7, <1>8, <1>9 DEF CompactInv, Merging, Committing, Tables
<1> QED BY <1>6, <1>10

LEMMA BuildFailsShelf ==
    ASSUME TypeInv, FileInv, CompactInv, CompactBuildFails
    PROVE  FileInv' /\ CompactInv'
<1>1. /\ co.pc \in {"start", "fill"} /\ co'.pc = "cleanup"
      /\ files' = files \/ (co.pc = "fill" /\ files' = WriteFile(co.num, {}))
      /\ UNCHANGED <<manifest, phase, version, nextFileNum, mu>>
    BY IdleIs DEF CompactBuildFails, memory
<1>2. mu = "free"
    BY <1>1, TypeFacts DEF Committing
<1>3. \A u \in Tables : u.num \in DOMAIN files' /\ files'[u.num] = files[u.num]
    <2>1. CASE files' = files
        BY <2>1 DEF FileInv, Backed
    <2>2. CASE co.pc = "fill" /\ files' = WriteFile(co.num, {})
        <3>1. Unused(co.num)
            BY <2>2 DEF CompactInv
        <3> QED BY <2>2, <3>1 DEF Unused, FileInv, Backed, WriteFile
    <2> QED BY <1>1, <2>1, <2>2
<1>4. FileInv'
    BY <1>1, <1>2, <1>3, NumFacts, FileFrame
<1>5. CompactInv'
    BY <1>1 DEF CompactInv, Merging, Committing
<1> QED BY <1>4, <1>5

LEMMA ReadFailsShelf ==
    ASSUME TypeInv, FileInv, CompactInv, CompactReadFails
    PROVE  FileInv' /\ CompactInv'
<1>1. PICK got :
          /\ co.pc = "start" /\ mu = "free" /\ got \subseteq co.rest
          /\ co' = [pc |-> co.pc, level |-> co.level, inputs |-> co.inputs,
                    oldest |-> co.oldest, rest |-> got, num |-> co.num, out |-> co.out,
                    unread |-> co.unread \cup UserKeys(co.rest \ got)]
          /\ UNCHANGED <<manifest, files, phase, memory, mem, snapshots, mu, ghosts>>
    BY ReadFailsEffect
<1>2. /\ co'.pc = co.pc /\ co'.level = co.level /\ co'.inputs = co.inputs
      /\ co'.num = co.num /\ co'.out = co.out
      /\ UNCHANGED <<manifest, version, files, phase, nextFileNum, mu>>
    BY <1>1 DEF memory
<1> QED BY <1>2 DEF FileInv, CompactInv, Tables, Backed, Outgrown, Unused, Merging, Committing,
                    TargetLevel

LEMMA CommitFailsShelf ==
    ASSUME TypeInv, FileInv, CompactInv, CompactCommitFails, ~cut'
    PROVE  FileInv' /\ CompactInv'
<1>1. /\ co'.pc = "cleanup" /\ mu = "free"
      /\ UNCHANGED <<manifest, version, files, phase, nextFileNum, mu>>
    BY CommitFailsEffect DEF memory
<1>2. FileInv'
    BY <1>1 DEF FileInv, Tables, Backed, Outgrown
<1> QED BY <1>1, <1>2 DEF CompactInv, Merging, Committing

LEMMA RemoveShelf ==
    ASSUME TypeInv, FileInv, CompactInv, CompactRemove
    PROVE  FileInv' /\ CompactInv'
<1>1. PICK t :
          /\ co.pc = "remove" /\ mu' = "compact" /\ t \in co.inputs
          /\ manifest' = [tables |-> {u \in manifest.tables : u.num # t.num},
                          obsolete |-> manifest.obsolete \cup {t.num},
                          cutoff |-> manifest.cutoff]
          /\ version' = [tables |-> {u \in version.tables : u.num # t.num},
                         obsolete |-> version.obsolete \cup {t.num},
                         cutoff |-> version.cutoff]
          /\ co' = [pc |-> IF co.inputs = {t} THEN "add" ELSE "remove",
                    level |-> co.level, inputs |-> co.inputs \ {t}, oldest |-> co.oldest,
                    rest |-> co.rest, num |-> co.num, out |-> co.out, unread |-> co.unread]
          /\ UNCHANGED <<files, phase, nextFileNum>>
    BY RemoveEffect
<1>2. /\ Tables' = {u \in Tables : u.num # t.num}
      /\ version'.tables = {u \in version.tables : u.num # t.num}
      /\ manifest'.obsolete = manifest.obsolete \cup {t.num}
      /\ version'.obsolete = version.obsolete \cup {t.num}
    BY <1>1 DEF Tables
<1>3. /\ co'.pc = IF co.inputs = {t} THEN "add" ELSE "remove"
      /\ co'.level = co.level /\ co'.inputs = co.inputs \ {t} /\ co'.out = co.out
    BY <1>1
<1>4. co.inputs \subseteq Tables /\ co.inputs # {}
    BY <1>1 DEF CompactInv, Merging
<1>5. /\ \A u \in Tables : u.num \in Nat
      /\ \A u \in co.out : u.num \in Nat
    BY NumFacts
<1>6. t \in co.inputs /\ t \in Tables /\ t.num \in Nat
    BY <1>1, <1>4, <1>5
<1>7. \A u \in co.out : Unused(u.num) /\ Backed(u, TargetLevel)
    BY <1>1 DEF CompactInv, Committing
<1>8. PICK w \in co.out : TRUE
    BY <1>1, TypeFacts DEF Committing
<1>9. \A o \in manifest'.obsolete \cup version'.obsolete :
          o \in Nat /\ (\A u \in Tables' : u.num # o) /\ o < w.num
    <2>1. \A o \in manifest.obsolete \cup version.obsolete :
              o \in Nat /\ (\A u \in Tables : u.num # o) /\ o < w.num
        BY <1>7, <1>8 DEF FileInv, Outgrown, Unused
    <2>2. t.num < w.num
        BY <1>6, <1>7, <1>8 DEF Unused
    <2> QED BY <1>2, <1>6, <2>1, <2>2
<1>10. Outgrown(manifest)' /\ Outgrown(version)'
    BY <1>1, <1>3, <1>8, <1>9 DEF Outgrown
<1>11. \A u \in Tables' : Backed(u, u.level)'
    BY <1>1, <1>2 DEF FileInv, Backed
<1>12. FileInv'
    BY <1>1, <1>2, <1>10, <1>11 DEF FileInv
<1>13. \A u \in co.out : Unused(u.num)'
    <2>1. ASSUME NEW u \in co.out PROVE Unused(u.num)'
        <3>1. Unused(u.num)
            BY <1>7
        <3>2. t.num < u.num
            BY <1>6, <3>1 DEF Unused
        <3> QED BY <1>1, <1>2, <1>3, <3>1, <3>2 DEF Unused
    <2> QED BY <2>1
<1>14. \A u \in co.out : Backed(u, TargetLevel)'
    BY <1>1, <1>3, <1>7 DEF Backed, TargetLevel
<1>15. co.inputs \ {t} \subseteq Tables'
    BY <1>2, <1>4, <1>6 DEF FileInv
<1>16. \A u, v \in co.out : u.num = v.num => u = v
    BY <1>1 DEF CompactInv, Committing
<1>17. CompactInv'
    BY <1>3, <1>6, <1>13, <1>14, <1>15, <1>16 DEF CompactInv, Merging, Committing
<1> QED BY <1>12, <1>17

LEMMA AddShelf ==
    ASSUME TypeInv, FileInv, CompactInv, CompactAdd
    PROVE  FileInv' /\ CompactInv'
<1>1. PICK t \in co.out :
          /\ co.pc = "add" /\ mu = "compact"
          /\ manifest' = [tables |-> manifest.tables \cup {t},
                          obsolete |-> manifest.obsolete, cutoff |-> manifest.cutoff]
          /\ version' = [tables |-> version.tables \cup {t},
                         obsolete |-> version.obsolete, cutoff |-> version.cutoff]
          /\ co' = [pc |-> IF co.out = {t} THEN "cleanup" ELSE "add",
                    level |-> co.level, inputs |-> co.inputs, oldest |-> co.oldest,
                    rest |-> co.rest, num |-> co.num, out |-> co.out \ {t}, unread |-> co.unread]
          /\ mu' = IF co.out = {t} THEN "free" ELSE "compact"
          /\ UNCHANGED <<files, phase, nextFileNum>>
    BY AddEffect
<1>2. /\ Tables' = Tables \cup {t}
      /\ version'.tables = version.tables \cup {t}
      /\ manifest'.obsolete = manifest.obsolete
      /\ version'.obsolete = version.obsolete
    BY <1>1 DEF Tables
<1>3. /\ co'.pc = IF co.out = {t} THEN "cleanup" ELSE "add"
      /\ co'.level = co.level /\ co'.inputs = co.inputs /\ co'.out = co.out \ {t}
    BY <1>1
<1>4. co.inputs = {}
    BY <1>1 DEF CompactInv
<1>5. /\ \A u \in Tables : u.num \in Nat
      /\ \A u \in co.out : u.num \in Nat
    BY NumFacts
<1>7. /\ \A u \in co.out : Unused(u.num) /\ Backed(u, TargetLevel)
      /\ \A u, v \in co.out : u.num = v.num => u = v
    BY <1>1 DEF CompactInv, Committing
<1>8. /\ Unused(t.num) /\ t.num \in DOMAIN files
      /\ t = TableMeta(t.num, TargetLevel, files[t.num])
    BY <1>7 DEF Backed
<1>9. t.level = TargetLevel
    BY <1>8 DEF TableMeta
<1>10. \A u \in Tables' : Backed(u, u.level)'
    BY <1>1, <1>2, <1>8, <1>9 DEF FileInv, Backed
<1>11. \A u, v \in Tables' : u.num = v.num => u = v
    BY <1>2, <1>8 DEF FileInv, Unused
<1>12. phase = "up" => \A u \in Tables' : u.num < nextFileNum
    BY <1>2, <1>8 DEF FileInv, Unused
<1>13. Outgrown(manifest)' /\ Outgrown(version)'
    <2>1. ASSUME NEW o \in manifest.obsolete \cup version.obsolete
          PROVE  /\ o \in Nat /\ \A u \in Tables' : u.num # o
                 /\ \E u \in Tables' \cup (IF mu' = "compact" THEN co'.out ELSE {}) : o < u.num
        <3>1. o \in Nat /\ (\A u \in Tables : u.num # o) /\ \E u \in Tables \cup co.out : o < u.num
            BY <1>1 DEF FileInv, Outgrown
        <3>2. o < t.num
            BY <1>8 DEF Unused
        <3>3. o # t.num
            BY <1>5, <3>1, <3>2
        <3> QED BY <1>2, <3>1, <3>2, <3>3
    <2> QED BY <1>2, <2>1 DEF Outgrown
<1>14. FileInv'
    <2>1. phase = "up"
        BY <1>1, TypeFacts
    <2> QED BY <1>1, <1>2, <1>10, <1>11, <1>12, <1>13, <2>1 DEF FileInv
<1>15. ASSUME NEW u \in co.out \ {t} PROVE Unused(u.num)' /\ Backed(u, TargetLevel)'
    <2>1. Unused(u.num) /\ Backed(u, TargetLevel) /\ u.num # t.num
        BY <1>7
    <2> QED BY <1>1, <1>2, <1>3, <2>1 DEF Unused, Backed, TargetLevel
<1>16. CompactInv'
    BY <1>3, <1>4, <1>7, <1>15 DEF CompactInv, Merging, Committing
<1> QED BY <1>14, <1>16

LEMMA CleanupShelf ==
    ASSUME TypeInv, FileInv, CompactInv, Cleanup
    PROVE  FileInv' /\ CompactInv'
<1>1. /\ files' = RemoveFiles(version.obsolete) /\ version' = [version EXCEPT !.obsolete = {}]
      /\ co'.pc = "idle" /\ co.pc = "cleanup"
      /\ UNCHANGED <<manifest, phase, nextFileNum, mu>>
    BY DEF Cleanup, cleanupObsoleteFiles, Idle
<1>2. version'.tables = version.tables /\ version'.obsolete = {} /\ mu = "free"
    BY <1>1, TypeFacts DEF Committing
<1>3. \A u \in Tables : u.num \in DOMAIN files' /\ files'[u.num] = files[u.num]
    BY <1>1 DEF FileInv, Backed, Outgrown, RemoveFiles
<1>4. FileInv'
    BY <1>1, <1>2, <1>3, NumFacts, FileFrame
<1>5. CompactInv'
    BY <1>1 DEF CompactInv, Merging, Committing
<1> QED BY <1>4, <1>5

LEMMA CompactManifestShelf ==
    ASSUME TypeInv, FileInv, CompactInv, CompactManifest
    PROVE  FileInv' /\ CompactInv'
<1>1. /\ manifest' = [version EXCEPT !.obsolete = {}] /\ phase = "up" /\ mu = "free"
      /\ UNCHANGED <<files, phase, version, nextFileNum, mu, co>>
    BY DEF CompactManifest, memory
<1>2. manifest'.tables = Tables /\ manifest'.obsolete = {}
    BY <1>1, TypeFacts DEF FileInv
<1>3. \A u \in Tables : u.num \in DOMAIN files' /\ files'[u.num] = files[u.num]
    BY <1>1 DEF FileInv, Backed
<1>4. FileInv'
    BY <1>1, <1>2, <1>3, NumFacts, FileFrame DEF Tables
<1>5. Tables' = Tables /\ UNCHANGED co
    BY <1>1, <1>2 DEF Tables
<1>6. ASSUME NEW t \in co.out, Merging \/ Committing
      PROVE  Unused(t.num)' /\ Backed(t, TargetLevel)'
    <2>1. Unused(t.num) /\ Backed(t, TargetLevel)
        BY <1>6 DEF CompactInv
    <2> QED BY <1>1, <1>2, <1>5, <2>1 DEF Unused, Backed, TargetLevel
<1>7. ASSUME co.pc = "fill" PROVE Unused(co.num)'
    <2>1. Unused(co.num)
        BY <1>7 DEF CompactInv
    <2> QED BY <1>1, <1>2, <1>5, <2>1 DEF Unused
<1>8. CompactInv'
    BY <1>5, <1>6, <1>7 DEF CompactInv, Merging, Committing
<1> QED BY <1>4, <1>8

LEMMA EndShelf ==
    ASSUME TypeInv, FileInv, CompactInv, Crash \/ Close, ~cut'
    PROVE  FileInv' /\ CompactInv'
<1>1. /\ phase' = "down" /\ mu' = "free" /\ co'.pc = "idle"
      /\ version' = NewVersionSet /\ manifest' = manifest
      /\ mu # "compact"
      /\ files' = files \/ files' = RemoveFiles(version.obsolete)
    <2>1. cut' = (cut \/ mu = "compact")
        BY DEF Crash, Close, ProcessEnds
    <2>2. mu # "compact"
        BY <2>1, Zenon
    <2> QED BY <2>2 DEF Crash, Close, ProcessEnds, Idle
<1>2. version'.obsolete = {} /\ version'.tables = {} /\ mu = "free" /\ Tables' = Tables
    BY <1>1, TypeFacts DEF NewVersionSet, Tables
<1>3. \A u \in Tables : u.num \in DOMAIN files' /\ files'[u.num] = files[u.num]
    BY <1>1 DEF FileInv, Backed, Outgrown, RemoveFiles
<1>4. \A u \in Tables' : Backed(u, u.level)'
    BY <1>2, <1>3 DEF FileInv, Backed
<1>5. Outgrown(manifest)' /\ Outgrown(version)'
    BY <1>1, <1>2 DEF FileInv, Outgrown
<1>6. FileInv'
    BY <1>1, <1>2, <1>4, <1>5 DEF FileInv
<1>7. CompactInv'
    BY <1>1 DEF CompactInv, Merging, Committing
<1> QED BY <1>6, <1>7

LEMMA RestartShelf ==
    ASSUME TypeInv, FileInv, CompactInv, Restart
    PROVE  FileInv' /\ CompactInv'
<1>1. /\ phase = "down" /\ phase' = "up" /\ version' = manifest
      /\ nextFileNum' = RecoveredFileNum(manifest)
      /\ UNCHANGED <<manifest, files, mu, co>>
    BY DEF Restart
<1>2. \A t \in Tables : t.num < nextFileNum'
    BY <1>1, TypeFacts, RecoveredNumbers DEF Tables
<1>3. co.pc = "idle"
    BY <1>1, TypeFacts
<1>4. FileInv'
    BY <1>1, <1>2 DEF FileInv, Backed, Outgrown, Tables
<1>5. CompactInv'
    BY <1>1, <1>3 DEF CompactInv, Merging, Committing
<1> QED BY <1>4, <1>5

\* FileInv and CompactInv hold as long as no commit is cut short.
LEMMA ShelfStep ==
    ASSUME TypeInv, SeqInv, FileInv, CompactInv, Next, ~cut'
    PROVE  FileInv' /\ CompactInv'
<1>1. ASSUME NEW op \in Ops, Write(op) PROVE FileInv' /\ CompactInv'
    BY <1>1, ShelfUnchanged DEF Write, shelf
<1>2. ASSUME GetSnapshot PROVE FileInv' /\ CompactInv'
    BY <1>2, ShelfUnchanged DEF GetSnapshot, shelf, memory
<1>3. ASSUME NEW i \in DOMAIN snapshots, ReleaseSnapshot(i) PROVE FileInv' /\ CompactInv'
    BY <1>3, ShelfUnchanged DEF ReleaseSnapshot, shelf, memory
<1>4. ASSUME FlushStart \/ CompactSkip PROVE FileInv' /\ CompactInv'
    <2>1. /\ co'.pc \in {"loop", "cleanup"} /\ co.pc \in {"idle", "loop"}
          /\ UNCHANGED <<manifest, files, phase, version, nextFileNum, mu>>
        BY <1>4, TypeFacts, IdleIs DEF FlushStart, CompactSkip, CoOK, memory
    <2>2. mu = "free"
        BY <2>1, TypeFacts DEF Committing
    <2>3. FileInv'
        BY <2>1, <2>2 DEF FileInv, Tables, Backed, Outgrown
    <2> QED BY <2>1, <2>3 DEF CompactInv, Merging, Committing
<1> QED BY <1>1, <1>2, <1>3, <1>4, FlushShelf, PickShelf, StartShelf, ReadFailsShelf, FillShelf,
           BuildFailsShelf, CommitFailsShelf, RemoveShelf, AddShelf, CleanupShelf, CompactManifestShelf, EndShelf,
           RestartShelf
        DEF Next, MaybeScheduleFlush, CompactLevel

-----------------------------------------------------------------------------
(* MergeInv: what a merge has kept and what it has dropped.                *)

\* What every reader sees, every reader sees after a write, or after a
\* snapshot is taken or released.
LEMMA LiveStep ==
    ASSUME TypeInv, NEW n \in Nat, \A r \in LiveSeqs : n <= r,
           \/ \E op \in Ops : Write(op)
           \/ GetSnapshot
           \/ \E i \in DOMAIN snapshots : ReleaseSnapshot(i)
           \/ UNCHANGED <<nextSeq, snapshots>>
    PROVE  \A r \in LiveSeqs' : n <= r
<1>1. nextSeq \in Nat /\ nextSeq # 0 /\ snapshots \in Seq(Nat)
    BY TypeFacts
<1>2. n <= nextSeq - 1 /\ \A r \in ReadSeqs : n <= r
    BY DEF LiveSeqs
<1>3. ASSUME NEW op \in Ops, Write(op) PROVE \A r \in LiveSeqs' : n <= r
    <2>1. nextSeq' = nextSeq + 1 /\ snapshots' = snapshots
        BY <1>3 DEF Write
    <2>2. ReadSeqs' = ReadSeqs
        BY <2>1 DEF ReadSeqs
    <2>3. n <= nextSeq' - 1
        BY <1>1, <1>2, <2>1
    <2> QED BY <1>2, <2>2, <2>3 DEF LiveSeqs
<1>4. ASSUME GetSnapshot PROVE \A r \in LiveSeqs' : n <= r
    <2>1. nextSeq' = nextSeq /\ snapshots' = <<nextSeq - 1>> \o snapshots
        BY <1>4 DEF GetSnapshot, memory
    <2>2. \A i \in DOMAIN snapshots' : snapshots'[i] \in ReadSeqs \cup {nextSeq - 1}
        BY <1>1, <2>1 DEF ReadSeqs
    <2>3. \A r \in ReadSeqs' : r \in ReadSeqs \cup {nextSeq - 1}
        BY <2>2 DEF ReadSeqs
    <2> QED BY <1>2, <2>1, <2>3 DEF LiveSeqs
<1>5. ASSUME NEW i \in DOMAIN snapshots, ReleaseSnapshot(i) PROVE \A r \in LiveSeqs' : n <= r
    <2>1. nextSeq' = nextSeq
          /\ snapshots' = SubSeq(snapshots, 1, i - 1) \o SubSeq(snapshots, i + 1, Len(snapshots))
        BY <1>5 DEF ReleaseSnapshot, memory
    <2> DEFINE a == SubSeq(snapshots, 1, i - 1)
               b == SubSeq(snapshots, i + 1, Len(snapshots))
    <2>2. i \in 1..Len(snapshots)
        BY <1>1
    <2>3. a \in Seq(Nat) /\ \A j \in DOMAIN a : a[j] \in ReadSeqs
        <3>1. a \in Seq(Nat) /\ Len(a) = i - 1 /\ \A j \in 1..(i - 1) : a[j] = snapshots[j]
            BY <1>1, <2>2
        <3>2. \A j \in 1..(i - 1) : j \in DOMAIN snapshots
            BY <1>1, <2>2
        <3>3. DOMAIN a = 1..(i - 1)
            BY <3>1
        <3> HIDE DEF a
        <3> QED BY <3>1, <3>2, <3>3 DEF ReadSeqs
    <2>4. b \in Seq(Nat) /\ \A j \in DOMAIN b : b[j] \in ReadSeqs
        <3>0. i + 1 \in Int /\ Len(snapshots) \in Int /\ i \in Int
              /\ \A j \in (i + 1)..Len(snapshots) : snapshots[j] \in Nat
            BY <1>1, <2>2
        <3>a. /\ b \in Seq(Nat)
              /\ Len(b) = IF i + 1 <= Len(snapshots) THEN Len(snapshots) - (i + 1) + 1 ELSE 0
              /\ \A j \in 1..(Len(snapshots) - (i + 1) + 1) : b[j] = snapshots[(i + 1) + j - 1]
            BY <3>0, SubSeqProperties
        <3>b. Len(snapshots) - (i + 1) + 1 = Len(snapshots) - i
              /\ \A j \in Int : (i + 1) + j - 1 = i + j
            BY <3>0
        <3>1. b \in Seq(Nat) /\ Len(b) = Len(snapshots) - i
              /\ \A j \in 1..(Len(snapshots) - i) : b[j] = snapshots[i + j]
            <4> HIDE DEF b
            <4>1. Len(b) = Len(snapshots) - i
                BY <2>2, <3>0, <3>a, <3>b
            <4>2. ASSUME NEW j \in 1..(Len(snapshots) - i) PROVE b[j] = snapshots[i + j]
                <5>1. j \in Int /\ (i + 1) + j - 1 = i + j
                    BY <3>0
                <5>2. b[j] = snapshots[(i + 1) + j - 1]
                    BY <3>a, <3>b
                <5> QED BY <5>1, <5>2
            <4> QED BY <3>a, <4>1, <4>2
        <3>2. \A j \in 1..(Len(snapshots) - i) : i + j \in DOMAIN snapshots
            BY <1>1, <2>2
        <3>3. DOMAIN b = 1..(Len(snapshots) - i)
            BY <3>1
        <3> HIDE DEF b
        <3> QED BY <3>1, <3>2, <3>3 DEF ReadSeqs
    <2> HIDE DEF a, b
    <2>5. \A j \in DOMAIN (a \o b) : (a \o b)[j] \in ReadSeqs
        BY <2>3, <2>4
    <2>6. \A r \in ReadSeqs' : r \in ReadSeqs
        BY <2>1, <2>5 DEF ReadSeqs, a, b
    <2> QED BY <1>2, <2>1, <2>6 DEF LiveSeqs
<1>6. ASSUME UNCHANGED <<nextSeq, snapshots>> PROVE \A r \in LiveSeqs' : n <= r
    BY <1>6 DEF LiveSeqs, ReadSeqs
<1> QED BY <1>3, <1>4, <1>5, <1>6

\* The entries of tables with files are in the history, up to the cutoff.
LEMMA EntriesFacts ==
    ASSUME TypeInv, SeqInv, FileInv
    PROVE  /\ \A t \in Tables : t.num \in DOMAIN files /\ files[t.num] \subseteq history
           /\ \A t \in Tables : \A e \in files[t.num] : e.seq \in Nat /\ e.seq <= manifest.cutoff
<1>1. \A t \in Tables : t.num \in DOMAIN files
    BY DEF FileInv, Backed
<1>2. /\ \A n \in DOMAIN files : files[n] \subseteq history
      /\ \A e \in history : e.seq \in Nat
    BY TypeFacts
<1>3. \A n \in DOMAIN files : \A e \in files[n] : e.seq <= manifest.cutoff
    BY DEF SeqInv
<1> QED BY <1>1, <1>2, <1>3

\* Steps of writers and readers beside a merge, and those that only rewrite
\* the MANIFEST or take a file number.
LEMMA MergeFrame ==
    ASSUME TypeInv, SeqInv, FileInv, CompactInv, MergeState, Merging,
           co'.level = co.level, co'.inputs = co.inputs, co'.oldest = co.oldest,
           co'.rest = co.rest, co'.out = co.out, co'.unread = co.unread,
           UNCHANGED <<files, version, missed>>, manifest'.tables = manifest.tables,
           \/ \E op \in Ops : Write(op)
           \/ GetSnapshot
           \/ \E i \in DOMAIN snapshots : ReleaseSnapshot(i)
           \/ UNCHANGED <<nextSeq, snapshots>>
    PROVE  MergeState'
<1>1. /\ InputEntries' = InputEntries /\ OutEntries' = OutEntries /\ Merged' = Merged
      /\ Tables' = Tables /\ TargetLevel' = TargetLevel /\ BottomMost' = BottomMost
    BY DEF InputEntries, OutEntries, Merged, Tables, TargetLevel, BottomMost
<1>2. \A t \in InputEntries, r \in LiveSeqs' : t.seq <= co.oldest => t.seq <= r
    <2>1. ASSUME NEW t \in InputEntries, t.seq <= co.oldest PROVE \A r \in LiveSeqs' : t.seq <= r
        <3>1. t.seq \in Nat
            BY EntriesFacts DEF InputEntries, FileEntries, CompactInv
        <3>2. \A r \in LiveSeqs : t.seq <= r
            BY <2>1 DEF MergeState
        <3> HIDE DEF InputEntries
        <3> QED BY <3>1, <3>2, LiveStep
    <2> QED BY <2>1
<1>3. \A e \in InputEntries' \ Merged' : e.key \in co'.unread \/ Collected(e)'
    <2>1. \A e : Collected(e)' <=> Collected(e)
        BY <1>1 DEF Collected, Collectable
    <2> QED BY <1>1, <2>1 DEF MergeState
<1>4. LeftBehind' <=> LeftBehind
    BY <1>1 DEF LeftBehind
<1> QED BY <1>1, <1>2, <1>3, <1>4 DEF MergeState

LEMMA PickMerge ==
    ASSUME TypeInv, SeqInv, FileInv, CompactInv, CompactPick
    PROVE  MergeInv'
<1>1. PICK level, inputs :
          /\ level \in 0..5
          /\ phase = "up"
          /\ inputs \in InputChoices(level)
          /\ \/ /\ inputs # {} /\ Opens(inputs)
                /\ co' = [pc |-> "start", level |-> level, inputs |-> inputs,
                          oldest |-> getOldestSnapshotSeq, rest |-> EntriesOf(inputs),
                          num |-> 0, out |-> {}, unread |-> {}]
             \/ co' = [pc |-> "cleanup", level |-> 0, inputs |-> {}, oldest |-> 0,
                       rest |-> {}, num |-> 0, out |-> {}, unread |-> {}]
          /\ missed' = (missed \/ Misses(level, inputs))
          /\ UNCHANGED <<manifest, files, nextSeq, version, snapshots>>
    BY PickEffect DEF memory
<1>2. CASE co' = [pc |-> "cleanup", level |-> 0, inputs |-> {}, oldest |-> 0,
                  rest |-> {}, num |-> 0, out |-> {}, unread |-> {}]
    BY <1>2 DEF MergeInv, Merging
<1>3. CASE co' = [pc |-> "start", level |-> level, inputs |-> inputs,
                  oldest |-> getOldestSnapshotSeq, rest |-> EntriesOf(inputs),
                  num |-> 0, out |-> {}, unread |-> {}]
    <2>1. /\ co'.level = level /\ co'.inputs = inputs /\ co'.oldest = getOldestSnapshotSeq
          /\ co'.rest = EntriesOf(inputs) /\ co'.out = {}
        BY <1>3
    <2>2. version.tables = Tables
        BY <1>1 DEF FileInv
    <2>3. inputs \subseteq Level(version, level) \cup Level(version, level + 1)
        BY <1>1, InputsChosen
    <2>4. inputs \subseteq Tables /\ \A t \in inputs : t.level \in {level, level + 1}
        BY <2>2, <2>3 DEF Level
    <2>5. \A T \in SUBSET Tables : EntriesOf(T) = FileEntries(files, T)
        <3>1. \A t \in Tables : t.num \in DOMAIN files
            BY EntriesFacts
        <3>2. \A T \in SUBSET Tables : {u \in T : u.num \in DOMAIN files} = T
            BY <3>1
        <3> QED BY <3>2 DEF EntriesOf, FileEntries
    <2>6. InputEntries' = FileEntries(files, inputs) /\ OutEntries' = {}
          /\ Merged' = FileEntries(files, inputs) /\ co'.rest = FileEntries(files, inputs)
          /\ Tables' = Tables /\ TargetLevel' = level + 1
        <3>1. InputEntries' = FileEntries(files, inputs) /\ OutEntries' = {}
            BY <1>1, <2>1 DEF InputEntries, OutEntries, FileEntries
        <3>2. co'.rest = FileEntries(files, inputs)
            BY <2>1, <2>4, <2>5
        <3>3. Merged' = FileEntries(files, inputs)
            BY <3>1, <3>2 DEF Merged
        <3> QED BY <1>1, <2>1, <3>1, <3>2, <3>3 DEF Tables, TargetLevel
    <2>7. \A t \in InputEntries', r \in LiveSeqs' : t.seq <= co'.oldest => t.seq <= r
        <3>1. LiveSeqs' = ReadSeqs \cup {nextSeq - 1}
            BY <1>1 DEF LiveSeqs, ReadSeqs
        <3>2. /\ nextSeq \in Nat /\ getOldestSnapshotSeq \in Nat
              /\ \A r \in ReadSeqs : r \in Nat /\ getOldestSnapshotSeq <= r
            BY TypeFacts, OldestSnapshot
        <3>3. manifest.cutoff \in Nat /\ manifest.cutoff < nextSeq
            BY <1>1, TypeFacts DEF SeqInv
        <3>4. \A t \in InputEntries' : t.seq \in Nat /\ t.seq <= manifest.cutoff
            BY <2>4, <2>6, EntriesFacts DEF FileEntries
        <3>5. \A t \in InputEntries' : t.seq <= nextSeq - 1
            BY <3>2, <3>3, <3>4
        <3>6. \A t \in InputEntries', r \in ReadSeqs : t.seq <= getOldestSnapshotSeq => t.seq <= r
            BY <3>2, <3>4
        <3> QED BY <2>1, <3>1, <3>5, <3>6
    <2>8. ~missed' => ~LeftBehind'
        <3>1. SUFFICES ASSUME LeftBehind' PROVE Misses(level, inputs)
            BY <1>1
        <3>a. PICK t \in Tables \ inputs :
                  /\ t.level \in {level, level + 1}
                  /\ \E e \in files[t.num], f \in FileEntries(files, inputs) : e.key = f.key
            BY <1>1, <2>1, <2>6, <3>1 DEF LeftBehind
        <3>2. PICK e \in files[t.num], f \in FileEntries(files, inputs) : e.key = f.key
            BY <3>a
        <3>3. t \in (Level(version, level) \cup Level(version, level + 1)) \ inputs
            BY <2>2, <3>a DEF Level
        <3>4. EntriesOf({t}) = files[t.num] /\ EntriesOf(inputs) = FileEntries(files, inputs)
            <4>1. FileEntries(files, {t}) = files[t.num]
                BY DEF FileEntries
            <4>2. EntriesOf({t}) = FileEntries(files, {t})
                BY <2>5
            <4> QED BY <2>4, <2>5, <4>1, <4>2
        <3>5. e.key \in UserKeys(EntriesOf({t})) /\ e.key \in UserKeys(EntriesOf(inputs))
            BY <3>2, <3>4 DEF UserKeys
        <3> QED BY <3>3, <3>5 DEF Misses
    <2>9. MergeState'
        BY <2>1, <2>4, <2>6, <2>7, <2>8 DEF MergeState
    <2> QED BY <2>9 DEF MergeInv
<1> QED BY <1>1, <1>2, <1>3

\* Some blocks cannot be read: only keys that the step notes lose an entry.
LEMMA ReadFailsMerge ==
    ASSUME TypeInv, SeqInv, FileInv, CompactInv, MergeState, CompactReadFails
    PROVE  MergeState'
<1>1. PICK got :
          /\ co.out = {} /\ got \subseteq co.rest
          /\ co' = [pc |-> co.pc, level |-> co.level, inputs |-> co.inputs,
                    oldest |-> co.oldest, rest |-> got, num |-> co.num, out |-> co.out,
                    unread |-> co.unread \cup UserKeys(co.rest \ got)]
          /\ UNCHANGED <<manifest, files, nextSeq, version, snapshots, missed>>
    BY ReadFailsEffect DEF memory, ghosts
<1>2. /\ co'.level = co.level /\ co'.inputs = co.inputs /\ co'.oldest = co.oldest
      /\ co'.rest = got /\ co'.out = {}
      /\ co'.unread = co.unread \cup UserKeys(co.rest \ got)
    BY <1>1
<1>3. /\ InputEntries' = InputEntries /\ Tables' = Tables /\ TargetLevel' = TargetLevel
      /\ BottomMost' = BottomMost /\ LiveSeqs' = LiveSeqs
    BY <1>1, <1>2 DEF InputEntries, Tables, TargetLevel, BottomMost, LiveSeqs, ReadSeqs
<1>4. OutEntries' = {} /\ Merged = co.rest /\ Merged' = got
    BY <1>1, <1>2 DEF OutEntries, Merged, FileEntries
<1>5. LeftBehind' <=> LeftBehind
    BY <1>1, <1>2, <1>3 DEF LeftBehind
<1>6. \A e : Collectable(e)' <=> Collectable(e)
    BY <1>2 DEF Collectable
<1>7. ASSUME NEW e \in InputEntries, e \notin got PROVE e.key \in co'.unread \/ Collected(e)'
    <2>1. CASE e \in co.rest
        BY <1>2, <1>7, <2>1 DEF UserKeys
    <2>2. CASE e \notin co.rest /\ e.key \notin co.unread
        <3>1. Collected(e)
            BY <1>4, <2>2 DEF MergeState
        <3> QED BY <1>1, <1>3, <1>4, <1>6, <3>1 DEF Collected
    <2> QED BY <1>2, <2>1, <2>2
<1>8. Merged' \subseteq InputEntries'
    BY <1>1, <1>3, <1>4 DEF MergeState
<1>9. \A e \in InputEntries' \ Merged' : e.key \in co'.unread \/ Collected(e)'
    BY <1>3, <1>4, <1>7
<1> QED BY <1>1, <1>2, <1>3, <1>4, <1>5, <1>8, <1>9 DEF MergeState

\* One file is written: what goes into it and what is left keep the merge sound.
LEMMA FillMerge ==
    ASSUME TypeInv, SeqInv, FileInv, CompactInv, MergeState, CompactFillFile
    PROVE  /\ MergeState'
           /\ InputEntries' = InputEntries /\ OutEntries' = OutEntries \cup Chunk
           /\ BottomMost' = BottomMost
<1>1. PICK t :
          /\ co.pc = "fill" /\ t.num = co.num
          /\ files' = WriteFile(co.num, Chunk)
          /\ co' = [pc |-> IF AfterChunk = {} THEN "remove" ELSE "start",
                    level |-> co.level, inputs |-> co.inputs, oldest |-> co.oldest,
                    rest |-> AfterChunk, num |-> co.num, out |-> co.out \cup {t},
                    unread |-> co.unread]
          /\ UNCHANGED <<manifest, nextSeq, version, snapshots, missed>>
    BY FillEffect DEF memory, ghosts
<1>2. /\ co'.level = co.level /\ co'.inputs = co.inputs /\ co'.oldest = co.oldest
      /\ co'.rest = AfterChunk /\ co'.out = co.out \cup {t}
      /\ co'.unread = co.unread
    BY <1>1
<1>3. /\ DOMAIN files' = DOMAIN files \cup {co.num} /\ files'[co.num] = Chunk
      /\ \A n \in DOMAIN files : n # co.num => files'[n] = files[n]
    BY <1>1 DEF WriteFile
<1>4. /\ \A u \in Tables : u.num # co.num
      /\ \A u \in co.out : u.num # co.num /\ u.num \in DOMAIN files
      /\ co.inputs \subseteq Tables
    BY <1>1 DEF CompactInv, Merging, Unused, Backed
<1>5. \A u \in Tables : u.num \in DOMAIN files
    BY EntriesFacts
<1>6. \A u \in Tables \cup co.out : files'[u.num] = files[u.num]
    BY <1>3, <1>4, <1>5
<1>7. InputEntries' = InputEntries
    BY <1>2, <1>4, <1>6 DEF InputEntries, FileEntries
<1>8. OutEntries' = OutEntries \cup Chunk
    BY <1>1, <1>2, <1>3, <1>6 DEF OutEntries, FileEntries
<1>9. /\ Tables' = Tables /\ TargetLevel' = TargetLevel /\ BottomMost' = BottomMost
      /\ LiveSeqs' = LiveSeqs
    BY <1>1, <1>2 DEF Tables, TargetLevel, BottomMost, LiveSeqs, ReadSeqs
<1>10. LeftBehind' => LeftBehind
    BY <1>2, <1>6, <1>7, <1>9 DEF LeftBehind
<1> DEFINE R == co.rest
           C == Chunk
           A == AfterChunk
           Inp == InputEntries
           Out == OutEntries
<1>11. R \subseteq Entry(Keys) /\ IsFiniteSet(R)
    BY TypeFacts
<1>12. /\ C \subseteq R /\ A \subseteq R
       /\ \A f \in C, g \in A : Before(f, g)
       /\ \A e \in R \ (C \cup A) :
             /\ BottomMost
             /\ \E d \in R :
                   /\ Collectable(d) /\ d.key = e.key /\ (e = d \/ Before(d, e))
                   /\ \A f \in C \cup A : f.key = d.key => Before(f, d)
    BY <1>11, MergeStep
<1>13. /\ Merged = Out \cup R /\ Merged' = Out \cup C \cup A /\ Merged \subseteq Inp
       /\ \A f \in Out, g \in R : Before(f, g)
    BY <1>2, <1>8 DEF Merged, MergeState
<1>14. \A f \in OutEntries', g \in co'.rest : Before(f, g)
    <2> HIDE DEF C, A, R, Out
    <2> QED BY <1>2, <1>8, <1>12, <1>13 DEF C, A, R, Out
<1>15. \A e : Collectable(e)' <=> Collectable(e)
    BY <1>2 DEF Collectable
<1>16. ASSUME NEW e \in Inp, e \notin Merged', e.key \notin co.unread PROVE Collected(e)'
    <2>1. SUFFICES /\ BottomMost
                   /\ \E d \in Inp :
                         /\ Collectable(d) /\ d.key = e.key /\ (e = d \/ Before(d, e))
                         /\ \A f \in Merged' : f.key = d.key => Before(f, d)
        BY <1>7, <1>9, <1>15 DEF Collected
    <2>2. Merged' \subseteq Merged
        BY <1>12, <1>13
    <2>3. CASE e \notin Merged
        <3>1. Collected(e)
            BY <1>16, <2>3 DEF MergeState
        <3> QED BY <2>2, <3>1 DEF Collected
    <2>4. CASE e \in Merged
        <3>1. e \in R \ (C \cup A)
            BY <1>13, <1>16, <2>4
        <3> HIDE DEF C, A, R, Out, Inp
        <3>2. PICK d \in R :
                  /\ Collectable(d) /\ d.key = e.key /\ (e = d \/ Before(d, e))
                  /\ \A f \in C \cup A : f.key = d.key => Before(f, d)
            BY <1>12, <3>1
        <3>3. \A f \in Merged' : f.key = d.key => Before(f, d)
            BY <1>13, <3>2
        <3>4. d \in Inp /\ BottomMost
            BY <1>12, <1>13, <3>1
        <3> QED BY <3>2, <3>3, <3>4
    <2> QED BY <2>3, <2>4
<1>17. MergeState'
    <2>1. Merged' \subseteq InputEntries'
        BY <1>7, <1>12, <1>13
    <2>2. \A u \in co'.inputs : u.level \in {co'.level, TargetLevel'}
        BY <1>2, <1>9 DEF MergeState
    <2>3. \A u \in InputEntries', r \in LiveSeqs' : u.seq <= co'.oldest => u.seq <= r
        BY <1>2, <1>7, <1>9 DEF MergeState
    <2>4. ~missed' => ~LeftBehind'
        BY <1>1, <1>10 DEF MergeState
    <2>5. \A e \in InputEntries' \ Merged' : e.key \in co'.unread \/ Collected(e)'
        BY <1>2, <1>7, <1>16
    <2> QED BY <1>14, <2>1, <2>2, <2>3, <2>4, <2>5 DEF MergeState
<1> QED BY <1>7, <1>8, <1>9, <1>17

\* MergeInv holds as long as no commit is cut short.
LEMMA MergeInvStep ==
    ASSUME TypeInv, SeqInv, FileInv, CompactInv, MergeInv, Next
    PROVE  MergeInv'
<1>1. ASSUME UNCHANGED <<files, version, missed, co>>, manifest'.tables = manifest.tables,
             \/ \E op \in Ops : Write(op)
             \/ GetSnapshot
             \/ \E i \in DOMAIN snapshots : ReleaseSnapshot(i)
             \/ UNCHANGED <<nextSeq, snapshots>>
      PROVE  MergeInv'
    <2>1. CASE Merging
        <3>1. MergeState
            BY <2>1 DEF MergeInv
        <3>2. MergeState'
            BY <1>1, <2>1, <3>1, MergeFrame
        <3> QED BY <3>2 DEF MergeInv
    <2>2. CASE ~Merging
        BY <1>1, <2>2 DEF MergeInv, Merging
    <2> QED BY <2>1, <2>2
<1>2. ASSUME NEW op \in Ops, Write(op) PROVE MergeInv'
    <2>1. UNCHANGED <<files, version, missed, co, manifest>>
        BY <1>2 DEF Write
    <2> QED BY <1>1, <1>2, <2>1
<1>3. ASSUME GetSnapshot PROVE MergeInv'
    <2>1. UNCHANGED <<files, version, missed, co, manifest>>
        BY <1>3 DEF GetSnapshot, memory, ghosts
    <2> QED BY <1>1, <1>3, <2>1
<1>4. ASSUME NEW i \in DOMAIN snapshots, ReleaseSnapshot(i) PROVE MergeInv'
    <2>1. UNCHANGED <<files, version, missed, co, manifest>>
        BY <1>4 DEF ReleaseSnapshot, memory, ghosts
    <2> QED BY <1>1, <1>4, <2>1
<1>5. ASSUME co'.pc \notin {"start", "fill"} PROVE MergeInv'
    BY <1>5 DEF MergeInv, Merging
<1>6. ASSUME FlushStart PROVE MergeInv'
    <2>1. co'.pc = "loop"
        BY <1>6, IdleIs DEF FlushStart
    <2> QED BY <1>5, <2>1
<1>7. ASSUME FlushMemtable PROVE MergeInv'
    <2>1. co'.pc = "loop"
        BY <1>7 DEF FlushMemtable
    <2> QED BY <1>5, <2>1
<1>8. ASSUME CompactSkip PROVE MergeInv'
    <2>1. co'.pc = "cleanup"
        BY <1>8, TypeFacts DEF CompactSkip, CoOK
    <2> QED BY <1>5, <2>1
<1>9. ASSUME CompactStartFile PROVE MergeInv'
    <2>1. /\ co.pc = "start"
          /\ co' = [pc |-> "fill", level |-> co.level, inputs |-> co.inputs,
                    oldest |-> co.oldest, rest |-> co.rest, num |-> nextFileNum,
                    out |-> co.out, unread |-> co.unread]
          /\ UNCHANGED <<manifest, files, nextSeq, version, snapshots, missed>>
        BY <1>9, StartEffect DEF ghosts
    <2>2. /\ co'.level = co.level /\ co'.inputs = co.inputs /\ co'.oldest = co.oldest
          /\ co'.rest = co.rest /\ co'.out = co.out /\ co'.unread = co.unread
        BY <2>1
    <2>3. Merging /\ MergeState
        BY <2>1 DEF MergeInv, Merging
    <2>4. MergeState'
        BY <2>1, <2>2, <2>3, MergeFrame
    <2> QED BY <2>4 DEF MergeInv
<1>10. ASSUME CompactFillFile PROVE MergeInv'
    <2>1. co.pc = "fill"
        BY <1>10 DEF CompactFillFile
    <2>2. MergeState
        BY <2>1 DEF MergeInv, Merging
    <2>3. MergeState'
        BY <1>10, <2>2, FillMerge
    <2> QED BY <2>3 DEF MergeInv
<1>11. ASSUME CompactBuildFails \/ CompactCommitFails PROVE MergeInv'
    <2>1. co'.pc = "cleanup"
        BY <1>11, IdleIs DEF CompactBuildFails, CompactCommitFails
    <2> QED BY <1>5, <2>1
<1>12. ASSUME CompactRemove PROVE MergeInv'
    <2>1. co'.pc \in {"add", "remove"}
        BY <1>12, RemoveEffect
    <2> QED BY <1>5, <2>1
<1>13. ASSUME CompactAdd PROVE MergeInv'
    <2>1. co'.pc \in {"add", "cleanup"}
        BY <1>13, AddEffect
    <2> QED BY <1>5, <2>1
<1>14. ASSUME Cleanup \/ Crash \/ Close PROVE MergeInv'
    <2>1. co'.pc = "idle"
        BY <1>14 DEF Cleanup, Crash, Close, ProcessEnds, Idle
    <2> QED BY <1>5, <2>1
<1>15. ASSUME CompactManifest PROVE MergeInv'
    <2>1. phase = "up" /\ manifest' = [version EXCEPT !.obsolete = {}]
          /\ UNCHANGED <<files, version, missed, co, nextSeq, snapshots>>
        BY <1>15 DEF CompactManifest, memory, ghosts
    <2>2. manifest'.tables = manifest.tables
        BY <2>1, TypeFacts DEF FileInv, Tables
    <2> QED BY <1>1, <2>1, <2>2
<1>16. ASSUME Restart PROVE MergeInv'
    <2>1. co'.pc = "idle"
        BY <1>16, TypeFacts DEF Restart
    <2> QED BY <1>5, <2>1
<1>17. ASSUME CompactReadFails PROVE MergeInv'
    <2>1. co.pc = "start"
        BY <1>17 DEF CompactReadFails
    <2>2. MergeState
        BY <2>1 DEF MergeInv, Merging
    <2>3. MergeState'
        BY <1>17, <2>2, ReadFailsMerge
    <2> QED BY <2>3 DEF MergeInv
<1> QED BY <1>2, <1>3, <1>4, <1>6, <1>7, <1>8, <1>9, <1>10, <1>11, <1>12, <1>13, <1>14, <1>15,
           <1>16, <1>17, PickMerge
        DEF Next, MaybeScheduleFlush, CompactLevel

-----------------------------------------------------------------------------
(* SoundInv: nothing a reader can see is lost.                             *)

\* Readers may come and go as long as they see what all of them saw, and a
\* compaction may miss a table.
LEMMA KeptReaders ==
    ASSUME NEW S, NEW h, NEW L, NEW M, NEW ok, NEW ko, NEW lost,
           Kept(S, h, L, ok, lost), ko => ok,
           \A t \in h : (\A r \in L : t.seq <= r) => \A r \in M : t.seq <= r
    PROVE  Kept(S, h, M, ko, lost)
<1>1. SUFFICES ASSUME NEW e \in h \ S, e.key \notin lost PROVE Gone(e, S, h, M, ko)
    BY DEF Kept
<1>2. PICK t \in h :
          /\ t.typ = RecordTypeTombstone /\ t.key = e.key /\ (e = t \/ Before(t, e))
          /\ \A r \in L : t.seq <= r
          /\ ok => \A g \in S : g.key = t.key => Before(g, t)
    BY <1>1 DEF Kept, Gone
<1>3. \A r \in M : t.seq <= r
    BY <1>2
<1>4. ko => \A g \in S : g.key = t.key => Before(g, t)
    BY <1>2
<1> QED BY <1>2, <1>3, <1>4 DEF Gone

\* A newer entry is added.
LEMMA KeptWrite ==
    ASSUME NEW S, NEW h, NEW L, NEW ok, NEW lost, Kept(S, h, L, ok, lost), NEW e,
           \A t \in h : t.key = e.key => Before(e, t)
    PROVE  Kept(S \cup {e}, h \cup {e}, L, ok, lost)
<1>1. SUFFICES ASSUME NEW d \in h \ S, d # e, d.key \notin lost
               PROVE  Gone(d, S \cup {e}, h \cup {e}, L, ok)
    BY DEF Kept
<1>2. PICK t \in h :
          /\ t.typ = RecordTypeTombstone /\ t.key = d.key /\ (d = t \/ Before(t, d))
          /\ \A r \in L : t.seq <= r
          /\ ok => \A g \in S : g.key = t.key => Before(g, t)
    BY <1>1 DEF Kept, Gone
<1>3. ok => \A g \in S \cup {e} : g.key = t.key => Before(g, t)
    BY <1>2
<1> QED BY <1>2, <1>3 DEF Gone

\* FileEntries and Ordered look at the files of the given tables only.
LEMMA SameFiles ==
    ASSUME NEW T, NEW f, NEW g, \A t \in T : f[t.num] = g[t.num]
    PROVE  FileEntries(f, T) = FileEntries(g, T) /\ (Ordered(T, f) <=> Ordered(T, g))
BY DEF FileEntries, Ordered

\* The readers of the next state see what those of this one all saw.
LEMMA LiveKept ==
    ASSUME TypeInv, SeqInv, Next
    PROVE  \A t \in history : (\A r \in Live : t.seq <= r) => \A r \in Live' : t.seq <= r
<1>0. /\ phase \in {"up", "down"} /\ \A t \in history : t.seq \in Nat
    BY TypeFacts
<1>1. SUFFICES ASSUME NEW t \in history, \A r \in Live : t.seq <= r, phase' = "up"
               PROVE  \A r \in LiveSeqs' : t.seq <= r
    BY DEF Live
<1>2. CASE Restart
    <2>1. /\ phase = "down" /\ snapshots' = snapshots /\ nextSeq' = RecoveredSeq(manifest) + 1
          /\ UNCHANGED <<manifest, mem>>
        BY <1>2 DEF Restart
    <2>2. snapshots = <<>>
        BY <2>1, TypeFacts
    <2>3. LiveSeqs' = {nextSeq' - 1}
        BY <2>1, <2>2 DEF LiveSeqs, ReadSeqs
    <2>4. /\ RecoveredSeq(manifest) \in Nat /\ manifest.cutoff <= RecoveredSeq(manifest)
          /\ \A e \in mem : e.seq <= RecoveredSeq(manifest)
        BY TypeFacts, RecoveredNumbers
    <2>5. t.seq <= RecoveredSeq(manifest)
        <3>1. t \in mem \/ t.seq <= manifest.cutoff
            BY <1>0, TypeFacts DEF SeqInv
        <3> QED BY <1>0, <2>4, <3>1, TypeFacts
    <2> QED BY <2>1, <2>3, <2>4, <2>5
<1>3. CASE ~Restart
    <2>1. phase = "up"
        <3>1. Crash \/ Close => phase' = "down"
            BY DEF Crash, Close, ProcessEnds
        <3>2. CASE phase = "down"
            <4>1. co.pc = "idle"
                BY <3>2, TypeFacts
            <4> QED BY <1>1, <1>3, <3>1, <3>2, <4>1
                DEF Next, MaybeScheduleFlush, CompactLevel, Write, GetSnapshot, ReleaseSnapshot,
                    FlushStart, FlushMemtable, CompactSkip, CompactPick, CompactStartFile,
                    CompactReadFails, CompactFillFile, CompactBuildFails, CompactRemove, CompactAdd,
                    CompactCommitFails, Cleanup, CompactManifest
        <3> QED BY <1>0, <3>2
    <2>2. \A r \in LiveSeqs : t.seq <= r
        BY <1>1, <2>1 DEF Live
    <2>3. \/ \E op \in Ops : Write(op)
          \/ GetSnapshot
          \/ \E i \in DOMAIN snapshots : ReleaseSnapshot(i)
          \/ UNCHANGED <<nextSeq, snapshots>>
        BY <1>1, <1>3
           DEF Next, MaybeScheduleFlush, CompactLevel, memory, Crash, Close, ProcessEnds,
               FlushStart, FlushMemtable, CompactSkip, CompactPick, CompactStartFile,
               CompactReadFails, CompactFillFile, CompactBuildFails, CompactRemove, CompactAdd,
               CompactCommitFails, Cleanup, CompactManifest
    <2> QED BY <1>0, <2>2, <2>3, LiveStep
<1> QED BY <1>2, <1>3

\* A step that leaves the memtables and the history alone, and the files of T.
LEMMA SoundFrame ==
    ASSUME TypeInv, SeqInv, Next,
           NEW T, NEW U, NEW lost,
           Kept(mem \cup FileEntries(files, T), history, Live, ~missed, lost),
           ~missed => Ordered(T, files),
           mem' = mem, history' = history, missed => missed', U = T,
           \A t \in T : files'[t.num] = files[t.num]
    PROVE  /\ Kept(mem' \cup FileEntries(files', U), history', Live', ~missed', lost)
           /\ ~missed' => Ordered(U, files')
<1>1. FileEntries(files', T) = FileEntries(files, T) /\ (Ordered(T, files') <=> Ordered(T, files))
    BY SameFiles
<1>2. \A t \in history : (\A r \in Live : t.seq <= r) => \A r \in Live' : t.seq <= r
    BY LiveKept
<1>3. ~missed' => ~missed
    OBVIOUS
<1>4. Kept(mem \cup FileEntries(files, T), history, Live', ~missed', lost)
    <2> DEFINE S == mem \cup FileEntries(files, T)
    <2> HIDE DEF S
    <2>1. Kept(S, history, Live, ~missed, lost)
        BY DEF S
    <2>2. Kept(S, history, Live', ~missed', lost)
        BY <1>2, <1>3, <2>1, KeptReaders
    <2> QED BY <2>2 DEF S
<1> QED BY <1>1, <1>3, <1>4

LEMMA SoundWrite ==
    ASSUME TypeInv, SeqInv, NEW op \in Ops, Write(op),
           NEW T, NEW lost, Kept(mem \cup FileEntries(files, T), history, Live, ~missed, lost)
    PROVE  Kept(mem' \cup FileEntries(files', T), history', Live', ~missed', lost)
<1> DEFINE e == InternalKeyOf(op.key, nextSeq, op.typ)
           S == mem \cup FileEntries(files, T)
<1>1. /\ phase = "up" /\ mem' = mem \cup {e} /\ history' = history \cup {e}
      /\ UNCHANGED <<manifest, files, missed>>
    BY DEF Write
<1>2. e.seq = nextSeq /\ e.key = op.key
    BY DEF InternalKeyOf
<1>3. \A t \in history : t.key = e.key => Before(e, t)
    <2>1. \A t \in history : t.seq \in Nat
        BY TypeFacts
    <2>2. \A t \in history : t.seq < nextSeq
        <3>1. /\ manifest.cutoff < nextSeq /\ manifest.cutoff \in Nat /\ nextSeq \in Nat
              /\ \A t \in mem : t.seq < nextSeq
              /\ \A t \in history : t \in mem <=> manifest.cutoff < t.seq
            BY <1>1, TypeFacts DEF SeqInv
        <3> QED BY <2>1, <3>1
    <2>3. nextSeq \in Nat
        BY TypeFacts
    <2> HIDE DEF e
    <2> QED BY <1>2, <2>1, <2>2, <2>3 DEF Before
<1> HIDE DEF e, S
<1>4. Kept(S, history, Live, ~missed, lost)
    BY DEF S
<1>5. Kept(S, history, Live', ~missed, lost)
    <2>1. Next
        BY DEF Next
    <2>2. \A t \in history : (\A r \in Live : t.seq <= r) => \A r \in Live' : t.seq <= r
        BY <2>1, LiveKept
    <2> QED BY <1>4, <2>2, KeptReaders
<1>6. Kept(S \cup {e}, history \cup {e}, Live', ~missed, lost)
    BY <1>3, <1>5, KeptWrite
<1>7. S \cup {e} = mem' \cup FileEntries(files', T)
    BY <1>1 DEF S
<1> QED BY <1>1, <1>6, <1>7

LEMMA SoundFlush ==
    ASSUME TypeInv, SeqInv, FileInv, FlushMemtable, Sound(Tables, unread)
    PROVE  /\ Kept(mem' \cup FileEntries(files', Tables'), history', Live', ~missed', unread')
           /\ ~missed' => Ordered(Tables', files')
<1>1. PICK s, t :
          /\ s \in Nat
          /\ phase = "up"
          /\ t.num = nextFileNum /\ t.level = 0
          /\ files' = WriteFile(nextFileNum, FlushSet(s))
          /\ manifest' = [tables |-> manifest.tables \cup {t},
                          obsolete |-> manifest.obsolete, cutoff |-> s]
          /\ mem' = mem \ FlushSet(s)
          /\ UNCHANGED <<history, missed, unread>>
    BY FlushEffect DEF ghosts
<1>2. Tables' = Tables \cup {t}
    BY <1>1 DEF Tables
<1>3. \A u \in Tables : u.num \in DOMAIN files /\ u.num # nextFileNum
    BY <1>1, NumFacts, EntriesFacts DEF FileInv
<1>4. /\ files'[nextFileNum] = FlushSet(s)
      /\ \A n \in DOMAIN files : n # nextFileNum => files'[n] = files[n]
    BY <1>1 DEF WriteFile
<1>5. \A u \in Tables : files'[u.num] = files[u.num]
    BY <1>3, <1>4
<1>6. FileEntries(files', Tables') = FileEntries(files, Tables) \cup FlushSet(s)
    BY <1>1, <1>2, <1>4, <1>5 DEF FileEntries
<1>7. mem' \cup FileEntries(files', Tables') = mem \cup FileEntries(files, Tables)
    BY <1>1, <1>6 DEF FlushSet
<1>8. \A u \in history : (\A r \in Live : u.seq <= r) => \A r \in Live' : u.seq <= r
    <2>1. Next
        BY DEF Next, MaybeScheduleFlush
    <2> QED BY <2>1, LiveKept
<1>9. Kept(mem' \cup FileEntries(files', Tables'), history', Live', ~missed', unread')
    <2> DEFINE S == mem \cup FileEntries(files, Tables)
    <2>1. Kept(S, history, Live, ~missed, unread)
        BY DEF Sound
    <2> HIDE DEF S
    <2>2. Kept(S, history, Live', ~missed, unread)
        BY <1>8, <2>1, KeptReaders
    <2> QED BY <1>1, <1>7, <2>2 DEF S
<1>10. ASSUME ~missed' PROVE Ordered(Tables', files')
    <2>1. Ordered(Tables, files)
        BY <1>1, <1>10 DEF Sound
    <2>2. SUFFICES ASSUME NEW u \in Tables', NEW v \in Tables', u.level < v.level,
                          NEW e \in files'[u.num], NEW g \in files'[v.num], e.key = g.key
                   PROVE  g.seq < e.seq
        BY DEF Ordered
    <2>3. \A w \in Tables : w.level \in Nat
        BY NumFacts
    <2>4. v \in Tables
        BY <1>1, <1>2, <2>2, <2>3
    <2>5. CASE u \in Tables
        BY <1>5, <2>1, <2>2, <2>4, <2>5 DEF Ordered
    <2>6. CASE u = t
        <3>1. e \in mem /\ e \in history /\ g \in files[v.num]
            BY <1>1, <1>4, <1>5, <2>2, <2>4, <2>6, TypeFacts DEF FlushSet
        <3>2. manifest.cutoff < e.seq /\ manifest.cutoff \in Nat /\ e.seq \in Nat
            BY <3>1, TypeFacts DEF SeqInv
        <3>3. g.seq <= manifest.cutoff /\ g.seq \in Nat
            BY <2>4, <3>1, EntriesFacts
        <3> QED BY <3>2, <3>3
    <2> QED BY <1>2, <2>5, <2>6
<1> QED BY <1>9, <1>10

\* The end of a merge: what the tables will be after the commit is sound.
LEMMA SoundMerge ==
    ASSUME TypeInv, SeqInv, FileInv, CompactInv, MergeState, CompactFillFile, AfterChunk = {},
           Sound(Tables, unread)
    PROVE  /\ Kept(mem' \cup FileEntries(files', Planned'), history', Live', ~missed',
                   unread' \cup co'.unread)
           /\ ~missed' => Ordered(Planned', files')
<1>1. PICK t :
          /\ co.pc = "fill" /\ t.num = co.num /\ t.level = TargetLevel
          /\ files' = WriteFile(co.num, Chunk)
          /\ co' = [pc |-> IF AfterChunk = {} THEN "remove" ELSE "start",
                    level |-> co.level, inputs |-> co.inputs, oldest |-> co.oldest,
                    rest |-> AfterChunk, num |-> co.num, out |-> co.out \cup {t},
                    unread |-> co.unread]
          /\ UNCHANGED <<manifest, phase, nextSeq, version, mem, snapshots, history, missed,
                         unread>>
    BY FillEffect DEF memory, ghosts
<1>2. /\ co'.inputs = co.inputs /\ co'.rest = {} /\ co'.out = co.out \cup {t} /\ Tables' = Tables
      /\ co'.level = co.level /\ co'.oldest = co.oldest /\ co'.unread = co.unread
    BY <1>1 DEF Tables
<1>3. /\ MergeState' /\ InputEntries' = InputEntries /\ BottomMost' = BottomMost
    BY FillMerge
<1> DEFINE Rest == Tables \ co.inputs
           Inp == InputEntries
           Out == OutEntries'
           S == mem \cup FileEntries(files, Tables)
           P == mem \cup FileEntries(files', Planned')
<1>4. /\ co.inputs \subseteq Tables
      /\ \A u \in Tables : u.num # co.num
      /\ \A u \in co.out : Backed(u, TargetLevel)
    BY <1>1 DEF CompactInv, Merging, Unused
<1>5. phase = "up" /\ version.tables = Tables
    BY <1>1, TypeFacts DEF FileInv
<1>6. \A u \in Tables : /\ u.num \in DOMAIN files /\ files[u.num] \subseteq history
                        /\ \A e \in files[u.num] : e.seq \in Nat /\ e.seq <= manifest.cutoff
    BY EntriesFacts
<1>7. \A u \in Tables : files'[u.num] = files[u.num]
    BY <1>1, <1>4, <1>6 DEF WriteFile
<1>8. \A u \in co'.out : u.level = TargetLevel
    BY <1>1, <1>2, <1>4 DEF Backed, TableMeta
<1>9. Planned' = Rest \cup co'.out
    BY <1>2 DEF Planned
<1>10. P = mem \cup FileEntries(files, Rest) \cup Out
    BY <1>7, <1>9 DEF FileEntries, OutEntries
<1>11. /\ S = mem \cup FileEntries(files, Rest) \cup Inp
       /\ Out \subseteq Inp
       /\ \A e \in Inp \ Out : e.key \in co.unread \/ Collected(e)'
    <2>1. Merged' = Out
        BY <1>2 DEF Merged
    <2>2. FileEntries(files, Tables) = FileEntries(files, Rest) \cup Inp
        BY <1>4 DEF FileEntries, InputEntries
    <2> QED BY <1>2, <1>3, <2>1, <2>2 DEF MergeState
<1>12. Inp \subseteq history /\ \A e \in Inp : \E u \in co.inputs : e \in files[u.num]
    BY <1>4, <1>6 DEF InputEntries, FileEntries
<1>13. \A e \in history : e.seq \in Nat /\ e.key \in Int
    <2>1. \A e \in history : e.seq \in Nat /\ e.key \in Keys
        BY TypeFacts DEF Entry
    <2>2. Keys \subseteq Int
        BY KeysAssumption
    <2> QED BY <2>1, <2>2
<1>14. co.level \in 0..5 /\ TargetLevel = co.level + 1
       /\ \A u \in Tables : u.level \in 0..6
    BY TypeFacts, NumFacts DEF TargetLevel
<1>15. \A u \in co.inputs : u.level \in {co.level, TargetLevel}
    BY DEF MergeState
<1>16. ~missed => Ordered(Tables, files) /\ ~LeftBehind
    BY DEF MergeState, Sound
<1>17. Live' = Live /\ Live = LiveSeqs
    BY <1>1, <1>5 DEF Live, LiveSeqs, ReadSeqs
<1> HIDE DEF S, P, Out, Inp
<1>18. ASSUME NEW e \in history \ P, e.key \notin unread \cup co.unread
       PROVE  Gone(e, P, history, Live, ~missed)
    <2>1. P \subseteq S
        BY <1>10, <1>11
    <2>2. CASE e \notin S
        <3>1. Gone(e, S, history, Live, ~missed)
            BY <1>18, <2>2 DEF Sound, Kept, S
        <3> QED BY <2>1, <3>1 DEF Gone
    <2>3. CASE e \in S
        <3>1. e \in Inp \ Out
            BY <1>10, <1>11, <1>18, <2>3
        <3>2. Collected(e)'
            BY <1>11, <1>18, <3>1
        <3>3. PICK d \in Inp :
                  /\ BottomMost /\ d.typ = RecordTypeTombstone /\ d.seq <= co.oldest
                  /\ d.key = e.key /\ (e = d \/ Before(d, e))
                  /\ \A f \in Out : f.key = d.key => Before(f, d)
            BY <1>2, <1>3, <3>2 DEF Collected, Collectable, Merged, Inp, Out
        <3>4. d \in history /\ d.seq <= manifest.cutoff
            BY <1>4, <1>6, <1>12, <3>3
        <3>5. \A r \in Live : d.seq <= r
            BY <1>17, <3>3 DEF MergeState, Inp
        <3>6. ASSUME ~missed, NEW f \in P, f.key = d.key PROVE Before(f, d)
            <4>1. CASE f \in mem
                <5>1. manifest.cutoff < f.seq /\ f \in history /\ manifest.cutoff \in Nat
                    BY <4>1, TypeFacts DEF SeqInv
                <5> QED BY <1>13, <3>4, <3>6, <5>1 DEF Before
            <4>2. CASE f \in Out
                BY <3>3, <3>6, <4>2
            <4>3. CASE f \in FileEntries(files, Rest)
                <5>1. PICK u \in Rest : f \in files[u.num]
                    BY <4>3 DEF FileEntries
                <5>2. u.level \notin {co.level, TargetLevel}
                    BY <1>16, <3>3, <3>6, <5>1 DEF LeftBehind, Inp
                <5>3. ~(TargetLevel < u.level)
                    <6>1. SUFFICES ASSUME TargetLevel < u.level PROVE FALSE
                        OBVIOUS
                    <6>2. u.level \in (TargetLevel + 1)..(NumLevels - 1)
                        BY <1>14, <5>1, <6>1 DEF NumLevels
                    <6>3. Level(version, u.level) = {}
                        BY <3>3, <6>2 DEF BottomMost
                    <6> QED BY <1>5, <5>1, <6>3 DEF Level
                <5>4. u.level < co.level
                    BY <1>14, <5>1, <5>2, <5>3
                <5>5. PICK v \in co.inputs : d \in files[v.num]
                    BY <1>12, <3>3
                <5>6. v \in Tables /\ u.level < v.level
                    BY <1>4, <1>14, <1>15, <5>1, <5>4, <5>5
                <5>7. d.seq < f.seq
                    BY <1>16, <3>6, <5>1, <5>5, <5>6 DEF Ordered
                <5>8. f \in history
                    BY <1>6, <5>1
                <5> QED BY <1>13, <3>4, <3>6, <5>7, <5>8 DEF Before
            <4> QED BY <1>10, <3>6, <4>1, <4>2, <4>3
        <3> QED BY <3>3, <3>4, <3>5, <3>6 DEF Gone
    <2> QED BY <2>2, <2>3
<1>19. ASSUME ~missed PROVE Ordered(Planned', files')
    <2>1. SUFFICES ASSUME NEW u \in Planned', NEW v \in Planned', u.level < v.level,
                          NEW e \in files'[u.num], NEW g \in files'[v.num], e.key = g.key
                   PROVE  g.seq < e.seq
        BY DEF Ordered
    <2>2. Ordered(Tables, files) /\ ~LeftBehind
        BY <1>16, <1>19
    <2>3. \A w \in co'.out : files'[w.num] \subseteq Out
        BY DEF Out, OutEntries, FileEntries
    <2>4. CASE u \in Rest /\ v \in Rest
        BY <1>7, <2>1, <2>2, <2>4 DEF Ordered
    <2>5. CASE u \in co'.out /\ v \in co'.out
        BY <1>8, <1>14, <2>1, <2>5
    <2>6. CASE u \in co'.out /\ v \in Rest
        <3>1. e \in Inp
            BY <1>11, <2>1, <2>3, <2>6
        <3>2. PICK w \in co.inputs : e \in files[w.num]
            BY <1>12, <3>1
        <3>3. w \in Tables /\ w.level < v.level
            <4>1. w \in Tables /\ w.level \in {co.level, TargetLevel}
                BY <1>4, <1>15
            <4>2. TargetLevel < v.level /\ v.level \in 0..6
                BY <1>8, <1>14, <2>1, <2>6
            <4> QED BY <1>14, <4>1, <4>2
        <3> QED BY <1>7, <2>1, <2>2, <2>6, <3>2, <3>3 DEF Ordered
    <2>7. CASE u \in Rest /\ v \in co'.out
        <3>1. g \in Inp
            BY <1>11, <2>1, <2>3, <2>7
        <3>2. PICK w \in co.inputs : g \in files[w.num]
            BY <1>12, <3>1
        <3>3. e \in files[u.num]
            BY <1>7, <2>1, <2>7
        <3>4. u.level # co.level
            BY <2>1, <2>2, <2>7, <3>1, <3>3 DEF LeftBehind, Inp
        <3>5. w \in Tables /\ u.level < w.level
            <4>1. u \in Tables /\ w \in Tables
                BY <1>4, <2>7
            <4>2. u.level \in 0..6 /\ w.level \in {co.level, TargetLevel}
                BY <1>14, <1>15, <4>1
            <4>3. u.level < TargetLevel
                BY <1>8, <2>1, <2>7
            <4>4. u.level < co.level
                BY <1>14, <3>4, <4>2, <4>3
            <4> QED BY <1>14, <4>1, <4>2, <4>4
        <3> QED BY <2>1, <2>2, <2>7, <3>2, <3>3, <3>5 DEF Ordered
    <2> QED BY <1>9, <2>4, <2>5, <2>6, <2>7
<1>20. Kept(P, history, Live, ~missed, unread \cup co.unread)
    BY <1>18 DEF Kept
<1> QED BY <1>1, <1>2, <1>17, <1>19, <1>20 DEF P

\* SoundInv holds as long as no commit is cut short.
LEMMA SoundStep ==
    ASSUME TypeInv, SeqInv, FileInv, CompactInv, MergeInv, SoundInv, Next, ~cut'
    PROVE  SoundInv'
<1>0. mu \in {"free", "compact"} /\ (mu = "compact" => Committing)
    BY TypeFacts
<1>m. \A t \in Tables : t.num \in DOMAIN files
    BY EntriesFacts
<1>s. Sound(Tables, unread) <=>
          /\ Kept(mem \cup FileEntries(files, Tables), history, Live, ~missed, unread)
          /\ ~missed => Ordered(Tables, files)
    BY DEF Sound
<1>p. Sound(Planned, unread \cup co.unread) <=>
          /\ Kept(mem \cup FileEntries(files, Planned), history, Live, ~missed,
                  unread \cup co.unread)
          /\ ~missed => Ordered(Planned, files)
    BY DEF Sound
<1>1. ASSUME mem' = mem, history' = history, missed => missed', Tables' = Tables, mu = "free",
             unread' = unread,
             ~Committing', \A t \in Tables : files'[t.num] = files[t.num]
      PROVE  SoundInv'
    <2>1. Sound(Tables, unread)
        BY <1>1 DEF SoundInv
    <2>2. Sound(Tables, unread)'
        BY <1>1, <1>s, <2>1, SoundFrame DEF Sound
    <2> QED BY <1>1, <2>2 DEF SoundInv
<1>2. ASSUME UNCHANGED <<mem, history, missed, unread, files, co, mu>>, Tables' = Tables
      PROVE  SoundInv'
    <2>1. ASSUME mu = "free" PROVE Sound(Tables, unread)'
        BY <1>2, <1>s, <2>1, SoundFrame DEF Sound, SoundInv
    <2>2. ASSUME Committing PROVE Sound(Planned, unread \cup co.unread)'
        <3>1. Planned' = Planned
            BY <1>2 DEF Planned
        <3> QED BY <1>2, <1>p, <2>2, <3>1, SoundFrame DEF Sound, SoundInv
    <2> QED BY <1>2, <2>1, <2>2 DEF SoundInv, Committing
<1>3. ASSUME NEW op \in Ops, Write(op) PROVE SoundInv'
    <2>1. UNCHANGED <<manifest, files, co, mu, missed, unread>> /\ mu = "free"
        BY <1>3 DEF Write
    <2>2. Tables' = Tables /\ Planned' = Planned
        BY <2>1 DEF Tables, Planned
    <2>3. Sound(Tables, unread)'
        BY <1>3, <1>s, <2>1, <2>2, SoundWrite DEF Sound, SoundInv
    <2>4. ASSUME Committing PROVE Sound(Planned, unread \cup co.unread)'
        BY <1>3, <1>p, <2>1, <2>2, <2>4, SoundWrite DEF Sound, SoundInv
    <2> QED BY <2>1, <2>3, <2>4 DEF SoundInv, Committing
<1>4. ASSUME GetSnapshot PROVE SoundInv'
    BY <1>2, <1>4 DEF GetSnapshot, ghosts, Tables
<1>5. ASSUME NEW i \in DOMAIN snapshots, ReleaseSnapshot(i) PROVE SoundInv'
    BY <1>2, <1>5 DEF ReleaseSnapshot, ghosts, Tables
<1>6. ASSUME FlushStart \/ CompactSkip PROVE SoundInv'
    <2>1. /\ co'.pc \in {"loop", "cleanup"} /\ co.pc \in {"idle", "loop"}
          /\ UNCHANGED <<manifest, files, mem, history, missed, unread>>
        BY <1>6, TypeFacts, IdleIs DEF FlushStart, CompactSkip, CoOK, ghosts
    <2>2. mu = "free" /\ ~Committing' /\ Tables' = Tables
        BY <1>0, <2>1 DEF Committing, Tables
    <2> QED BY <1>1, <2>1, <2>2
<1>7. ASSUME FlushMemtable PROVE SoundInv'
    <2>1. co' = co /\ co.pc = "loop" /\ mu = "free"
        BY <1>7 DEF FlushMemtable
    <2>2. Sound(Tables, unread)
        BY <2>1 DEF SoundInv
    <2>3. Sound(Tables, unread)'
        BY <1>7, <2>2, SoundFlush DEF Sound
    <2> QED BY <2>1, <2>3 DEF SoundInv, Committing
<1>8. ASSUME CompactPick PROVE SoundInv'
    <2>1. /\ co'.pc \in {"start", "cleanup"} /\ mu = "free"
          /\ UNCHANGED <<manifest, files, mem, history, unread>>
          /\ \E level, inputs : missed' = (missed \/ Misses(level, inputs))
        BY <1>8, PickEffect
    <2>2. missed => missed'
        BY <2>1, Zenon
    <2>3. ~Committing' /\ Tables' = Tables
        BY <2>1 DEF Committing, Tables
    <2> QED BY <1>1, <2>1, <2>2, <2>3
<1>9. ASSUME CompactStartFile PROVE SoundInv'
    <2>1. /\ co'.pc = "fill" /\ mu = "free"
          /\ UNCHANGED <<manifest, files, mem, history, missed, unread>>
        BY <1>9, StartEffect DEF ghosts
    <2>2. ~Committing' /\ Tables' = Tables
        BY <2>1 DEF Committing, Tables
    <2> QED BY <1>1, <2>1, <2>2
<1>10. ASSUME NEW S, files' = WriteFile(co.num, S), co.pc = "fill"
       PROVE  \A t \in Tables : files'[t.num] = files[t.num]
    <2>1. \A t \in Tables : t.num # co.num
        BY <1>10 DEF CompactInv, Unused
    <2> QED BY <1>10, <1>m, <2>1 DEF WriteFile
<1>11. ASSUME CompactFillFile PROVE SoundInv'
    <2>1. /\ co.pc = "fill" /\ mu = "free" /\ mu' = mu
          /\ files' = WriteFile(co.num, Chunk)
          /\ co'.pc = IF AfterChunk = {} THEN "remove" ELSE "start"
          /\ UNCHANGED <<manifest, mem, history, missed, unread>>
        BY <1>11, FillEffect DEF ghosts
    <2>2. \A t \in Tables : files'[t.num] = files[t.num]
        BY <1>10, <2>1
    <2>3. Tables' = Tables /\ Sound(Tables, unread)
        BY <2>1 DEF Tables, SoundInv
    <2>4. Sound(Tables, unread)'
        BY <1>s, <2>1, <2>2, <2>3, SoundFrame DEF Sound
    <2>5. ASSUME Committing' PROVE Sound(Planned, unread \cup co.unread)'
        <3>1. AfterChunk = {}
            BY <2>1, <2>5 DEF Committing
        <3>2. MergeState
            BY <2>1 DEF MergeInv, Merging
        <3> QED BY <1>11, <2>3, <3>1, <3>2, SoundMerge DEF Sound
    <2> QED BY <2>4, <2>5 DEF SoundInv
<1>12. ASSUME CompactBuildFails PROVE SoundInv'
    <2>1. /\ co.pc \in {"start", "fill"} /\ co'.pc = "cleanup"
          /\ files' = files \/ (co.pc = "fill" /\ files' = WriteFile(co.num, {}))
          /\ UNCHANGED <<manifest, mem, history, missed, unread>>
        BY <1>12, IdleIs DEF CompactBuildFails, ghosts
    <2>2. \A t \in Tables : files'[t.num] = files[t.num]
        BY <1>10, <2>1
    <2>3. mu = "free" /\ ~Committing' /\ Tables' = Tables
        BY <1>0, <2>1 DEF Committing, Tables
    <2> QED BY <1>1, <2>1, <2>2, <2>3
<1>13. ASSUME CompactRemove PROVE SoundInv'
    <2>1. PICK t :
              /\ co.pc = "remove" /\ mu' = "compact" /\ t \in co.inputs
              /\ manifest' = [tables |-> {u \in manifest.tables : u.num # t.num},
                              obsolete |-> manifest.obsolete \cup {t.num},
                              cutoff |-> manifest.cutoff]
              /\ co' = [pc |-> IF co.inputs = {t} THEN "add" ELSE "remove",
                        level |-> co.level, inputs |-> co.inputs \ {t}, oldest |-> co.oldest,
                        rest |-> co.rest, num |-> co.num, out |-> co.out, unread |-> co.unread]
              /\ unread' = unread \cup co.unread
              /\ UNCHANGED <<files, mem, history, missed>>
        BY <1>13, RemoveEffect
    <2>2. Tables' = {u \in Tables : u.num # t.num} /\ co'.inputs = co.inputs \ {t}
          /\ co'.out = co.out /\ unread' \cup co'.unread = unread \cup co.unread
        BY <2>1 DEF Tables
    <2>3. co.inputs \subseteq Tables /\ co.inputs # {}
        BY <2>1 DEF CompactInv
    <2>5. Planned' = Planned
        BY <2>1, <2>2, <2>3 DEF Planned, FileInv
    <2>6. Sound(Planned, unread \cup co.unread)
        BY <2>1 DEF SoundInv, Committing
    <2>7. Sound(Planned, unread \cup co.unread)'
        BY <1>p, <2>1, <2>2, <2>5, <2>6, SoundFrame DEF Sound
    <2> QED BY <2>1, <2>7 DEF SoundInv
<1>14. ASSUME CompactAdd PROVE SoundInv'
    <2>1. PICK t \in co.out :
              /\ co.pc = "add"
              /\ manifest' = [tables |-> manifest.tables \cup {t},
                              obsolete |-> manifest.obsolete, cutoff |-> manifest.cutoff]
              /\ co' = [pc |-> IF co.out = {t} THEN "cleanup" ELSE "add",
                        level |-> co.level, inputs |-> co.inputs, oldest |-> co.oldest,
                        rest |-> co.rest, num |-> co.num, out |-> co.out \ {t},
                        unread |-> co.unread]
              /\ mu' = IF co.out = {t} THEN "free" ELSE "compact"
              /\ UNCHANGED <<files, mem, history, missed, unread>>
        BY <1>14, AddEffect DEF ghosts
    <2>2. /\ Tables' = Tables \cup {t} /\ co'.inputs = co.inputs /\ co'.out = co.out \ {t}
          /\ co'.pc = IF co.out = {t} THEN "cleanup" ELSE "add"
          /\ co'.unread = co.unread
        BY <2>1 DEF Tables
    <2>3. co.inputs = {} /\ Sound(Planned, unread \cup co.unread)
        BY <2>1 DEF CompactInv, SoundInv, Committing
    <2>4. Planned' = Planned
        BY <2>2, <2>3 DEF Planned
    <2>5. Sound(Planned, unread \cup co.unread)'
        BY <1>p, <2>1, <2>2, <2>3, <2>4, SoundFrame DEF Sound
    <2>6. ASSUME mu' = "free" PROVE Sound(Tables, unread)'
        <3>1. co.out = {t}
            BY <2>1, <2>6
        <3>2. Tables' = Planned'
            BY <2>2, <2>3, <3>1 DEF Planned
        <3>3. co.unread \subseteq unread
            BY <2>1, TypeFacts
        <3>4. unread' \cup co'.unread = unread'
            BY <2>1, <2>2, <3>3
        <3> QED BY <2>5, <3>2, <3>4 DEF Sound
    <2> QED BY <2>5, <2>6 DEF SoundInv
<1>15. ASSUME CompactCommitFails PROVE SoundInv'
    <2>1. /\ co'.pc = "cleanup" /\ mu = "free"
          /\ UNCHANGED <<manifest, files, mem, history, missed, unread>>
        BY <1>15, CommitFailsEffect
    <2>2. ~Committing' /\ Tables' = Tables
        BY <2>1 DEF Committing, Tables
    <2> QED BY <1>1, <2>1, <2>2
<1>16. ASSUME files' = files \/ files' = RemoveFiles(version.obsolete)
       PROVE  \A t \in Tables : files'[t.num] = files[t.num]
    <2>1. \A t \in Tables : t.num \notin version.obsolete
        BY DEF FileInv, Outgrown
    <2> QED BY <1>16, <1>m, <2>1 DEF RemoveFiles
<1>17. ASSUME Cleanup PROVE SoundInv'
    <2>1. files' = RemoveFiles(version.obsolete) /\ co.pc = "cleanup" /\ co'.pc = "idle"
          /\ UNCHANGED <<manifest, mem, history, missed, unread>>
        BY <1>17 DEF Cleanup, cleanupObsoleteFiles, Idle, ghosts
    <2>2. mu = "free" /\ ~Committing' /\ Tables' = Tables
        BY <1>0, <2>1 DEF Committing, Tables
    <2> QED BY <1>1, <1>16, <2>1, <2>2
<1>18. ASSUME CompactManifest PROVE SoundInv'
    <2>1. /\ phase = "up" /\ manifest' = [version EXCEPT !.obsolete = {}]
          /\ UNCHANGED <<files, mem, co, mu, history, missed, unread>>
        BY <1>18 DEF CompactManifest, ghosts
    <2>2. Tables' = Tables
        BY <2>1, TypeFacts DEF FileInv, Tables
    <2> QED BY <1>2, <2>1, <2>2
<1>19. ASSUME Crash \/ Close PROVE SoundInv'
    <2>1. cut' = (cut \/ mu = "compact")
        BY <1>19 DEF Crash, Close, ProcessEnds
    <2>2. mu # "compact"
        BY <2>1, Zenon
    <2>3. co'.pc = "idle" /\ UNCHANGED <<manifest, mem, history, missed, unread>>
          /\ (files' = files \/ files' = RemoveFiles(version.obsolete))
        BY <1>19 DEF Crash, Close, ProcessEnds, Idle
    <2>4. mu = "free" /\ ~Committing' /\ Tables' = Tables
        BY <1>0, <2>2, <2>3 DEF Committing, Tables
    <2> QED BY <1>1, <1>16, <2>3, <2>4
<1>20. ASSUME Restart PROVE SoundInv'
    BY <1>2, <1>20 DEF Restart, ghosts, Tables
<1>21. ASSUME CompactReadFails PROVE SoundInv'
    <2>1. PICK got :
              /\ co.pc = "start" /\ mu = "free" /\ got \subseteq co.rest
              /\ co' = [pc |-> co.pc, level |-> co.level, inputs |-> co.inputs,
                        oldest |-> co.oldest, rest |-> got, num |-> co.num, out |-> co.out,
                        unread |-> co.unread \cup UserKeys(co.rest \ got)]
              /\ UNCHANGED <<manifest, files, phase, memory, mem, snapshots, mu, ghosts>>
        BY <1>21, ReadFailsEffect
    <2>2. /\ co'.pc = "start" /\ mu = "free"
          /\ UNCHANGED <<manifest, files, mem, history, missed, unread>>
        BY <2>1 DEF ghosts
    <2>3. ~Committing' /\ Tables' = Tables
        BY <2>2 DEF Committing, Tables
    <2> QED BY <1>1, <2>2, <2>3
<1> QED BY <1>3, <1>4, <1>5, <1>6, <1>7, <1>8, <1>9, <1>11, <1>12, <1>13, <1>14, <1>15, <1>17,
           <1>18, <1>19, <1>20, <1>21
        DEF Next, MaybeScheduleFlush, CompactLevel

-----------------------------------------------------------------------------
(* The theorems.                                                           *)

LEMMA InitCompactionInv == Init => CompactionInv
<1>1. SUFFICES ASSUME Init PROVE CompactionInv
    OBVIOUS
<1>2. TypeInv /\ SeqInv
    BY <1>1, InitTypeSeq
<1>3. /\ Tables = {} /\ version.tables = {} /\ manifest.obsolete = {} /\ version.obsolete = {}
      /\ history = {} /\ phase = "up"
    BY <1>1 DEF Init, Tables, NewVersionSet
<1>4. co.pc = "idle"
    BY <1>1 DEF Init, Idle
<1>5. FileInv
    BY <1>3 DEF FileInv, Outgrown
<1>6. CompactInv /\ MergeInv
    BY <1>4 DEF CompactInv, MergeInv, Merging, Committing
<1>7. SoundInv
    BY <1>3, <1>4 DEF SoundInv, Sound, Kept, Ordered, Committing
<1> QED BY <1>2, <1>5, <1>6, <1>7 DEF CompactionInv

LEMMA CompactionInvStep == CompactionInv /\ [Next]_vars => CompactionInv'
<1>1. ASSUME CompactionInv, Next PROVE CompactionInv'
    <2>1. TypeInv /\ SeqInv /\ TypeInv' /\ SeqInv'
        BY <1>1, TypeSeqStep DEF CompactionInv
    <2>2. ASSUME ~cut' PROVE FileInv' /\ CompactInv' /\ MergeInv' /\ SoundInv'
        <3>1. \E b : cut' = cut \/ cut' = (cut \/ b)
            BY <1>1 DEF Next, MaybeScheduleFlush, CompactLevel, ghosts, Crash, Close, ProcessEnds,
               Restart, Write, GetSnapshot, ReleaseSnapshot, FlushStart, FlushMemtable,
               CompactSkip, CompactPick, CompactStartFile, CompactReadFails, CompactFillFile, CompactBuildFails,
               CompactRemove, CompactAdd, CompactCommitFails, Cleanup, CompactManifest
        <3>2. ~cut
            BY <2>2, <3>1, Zenon
        <3>3. FileInv /\ CompactInv /\ MergeInv /\ SoundInv
            BY <1>1, <3>2 DEF CompactionInv
        <3> QED BY <1>1, <2>1, <2>2, <3>3, ShelfStep, MergeInvStep, SoundStep
    <2> QED BY <2>1, <2>2 DEF CompactionInv
<1>2. ASSUME CompactionInv, UNCHANGED vars PROVE CompactionInv'
    <2>1. UNCHANGED <<manifest, files, phase, nextSeq, nextFileNum, version, mem, snapshots, mu,
                      co, history, missed, cut, unread>>
        BY <1>2 DEF vars, memory, ghosts
    <2>2. TypeInv' /\ SeqInv'
        BY <1>2, TypeSeqStep DEF CompactionInv
    <2>3. ASSUME ~cut PROVE FileInv' /\ CompactInv' /\ MergeInv' /\ SoundInv'
        <3>1. FileInv /\ CompactInv /\ MergeInv /\ SoundInv
            BY <1>2, <2>3 DEF CompactionInv
        <3>2. FileInv' /\ CompactInv'
            BY <2>1, <3>1, ShelfUnchanged DEF shelf
        <3>3. MergeInv'
            BY <2>1, <3>1 DEF MergeInv, Merging, MergeState, Merged, InputEntries, OutEntries,
               FileEntries, Collected, Collectable, BottomMost, TargetLevel, LeftBehind, Tables,
               LiveSeqs, ReadSeqs
        <3>4. SoundInv'
            BY <2>1, <3>1 DEF SoundInv, Sound, FileEntries, Planned, Tables, Committing, Live,
               LiveSeqs, ReadSeqs
        <3> QED BY <3>2, <3>3, <3>4
    <2> QED BY <2>1, <2>2, <2>3 DEF CompactionInv
<1> QED BY <1>1, <1>2

(***************************************************************************)
(* The inductive invariant of Compaction holds in every reachable state.   *)
(***************************************************************************)
THEOREM CompactionInvariantHolds == Spec => []CompactionInv
BY InitCompactionInv, CompactionInvStep, PTL DEF Spec

(***************************************************************************)
(* Every variable has its type: a recovery always computes numbers, and    *)
(* every file holds entries that were written.                             *)
(***************************************************************************)
THEOREM CompactionTypeCorrect == Spec => []TypeOK
<1>1. CompactionInv => TypeOK
    BY DEF CompactionInv, TypeInv
<1> QED BY <1>1, CompactionInvariantHolds, PTL

(***************************************************************************)
(* No sequence number is handed out twice: Recover finds the newest one    *)
(* in the memtables or in the cutoff, even when a compaction collected it, *)
(* and even after a commit that was cut short.                             *)
(***************************************************************************)
THEOREM CompactionSeqNotReused == Spec => []SeqNotReused
<1>1. ASSUME CompactionInv PROVE SeqNotReused
    <2>1. TypeInv /\ SeqInv
        BY <1>1 DEF CompactionInv
    <2>2. SUFFICES ASSUME phase = "up", NEW e \in history PROVE e.seq < nextSeq
        BY DEF SeqNotReused
    <2>3. e.seq \in Nat /\ nextSeq \in Nat /\ manifest.cutoff \in Nat
        BY <2>1, TypeFacts
    <2>4. /\ manifest.cutoff < nextSeq /\ \A f \in mem : f.seq < nextSeq
          /\ e \in mem <=> manifest.cutoff < e.seq
        BY <2>1, <2>2 DEF SeqInv
    <2> QED BY <2>3, <2>4
<1> QED BY <1>1, CompactionInvariantHolds, PTL

(***************************************************************************)
(* As long as no commit is cut short, every table of the version and of    *)
(* the MANIFEST has its file with the entries its metadata describes:      *)
(* neither cleanup, nor orphans, nor numbers handed out again touch it.    *)
(***************************************************************************)
THEOREM CompactionTablesBacked == Spec => []TablesBacked
<1>1. ASSUME CompactionInv PROVE TablesBacked
    <2>1. SUFFICES ASSUME ~cut, NEW t \in version.tables \cup manifest.tables
                   PROVE  t.num \in DOMAIN files /\ t = TableMeta(t.num, t.level, files[t.num])
        BY DEF TablesBacked
    <2>2. FileInv
        BY <1>1, <2>1 DEF CompactionInv
    <2>3. t \in Tables
        BY <2>1, <2>2 DEF FileInv, Tables
    <2> QED BY <2>2, <2>3 DEF FileInv, Backed
<1> QED BY <1>1, CompactionInvariantHolds, PTL

(***************************************************************************)
(* As long as no commit is cut short, a replay of the MANIFEST gives the   *)
(* version's tables whenever a reader may take db.mu.                      *)
(***************************************************************************)
THEOREM CompactionManifestAgrees == Spec => []ManifestAgrees
<1>1. ASSUME CompactionInv PROVE ManifestAgrees
    BY <1>1 DEF CompactionInv, FileInv, ManifestAgrees, Readable, Tables
<1> QED BY <1>1, CompactionInvariantHolds, PTL

-----------------------------------------------------------------------------
(* Reads.                                                                  *)

\* A Get merges every version of its key: the bounds skip none.
LEMMA ReadSetOfKey ==
    ASSUME TypeInv, FileInv, phase = "up", NEW k, NEW e, e.key = k
    PROVE  e \in ReadSet(k) <=> e \in mem \cup FileEntries(files, Tables)
<1>1. version.tables = Tables
    BY DEF FileInv
<1>2. ASSUME NEW t \in Tables, e \in files[t.num]
      PROVE  t.num \in DOMAIN files /\ MayHoldKey(t, k)
    <2> DEFINE S == files[t.num]
    <2>1. t.num \in DOMAIN files /\ t = TableMeta(t.num, t.level, S)
        BY <1>2 DEF FileInv, Backed
    <2>2. IsFiniteSet(S) /\ S \subseteq Entry(Keys) /\ S # {}
        <3>1. S \subseteq history /\ IsFiniteSet(history) /\ history \subseteq Entry(Keys)
            BY <2>1 DEF TypeInv, TypeOK
        <3> QED BY <1>2, <3>1, FS_Subset
    <2>3. t.smallest = First(S) /\ t.largest = Last(S)
        <3> HIDE DEF S
        <3> QED BY <2>1, <2>2 DEF TableMeta
    <2>4. e \in S
        BY <1>2
    <2> HIDE DEF S
    <2>5. /\ First(S) \in S /\ \A f \in S \ {First(S)} : Before(First(S), f)
          /\ Last(S) \in S /\ \A f \in S \ {Last(S)} : Before(f, Last(S))
        BY <2>2, FirstAndLast, KeysAssumption
    <2>6. \A f \in S : f.key \in Int
        <3>1. \A f \in S : f.key \in Keys
            BY <2>2 DEF Entry
        <3>2. \A x \in Keys : x \in Int
            BY KeysAssumption
        <3> QED BY <3>1, <3>2
    <2>7. First(S).key <= e.key /\ e.key <= Last(S).key
        BY <2>4, <2>5, <2>6 DEF Before
    <2>8. First(S).key <= k /\ k <= Last(S).key
        BY <2>7
    <2> QED BY <2>1, <2>3, <2>8 DEF MayHoldKey
<1>3. ASSUME e \in FileEntries(files, Tables) PROVE e \in ReadSet(k)
    <2>1. PICK t \in Tables : e \in files[t.num]
        BY <1>3 DEF FileEntries
    <2>2. t.num \in DOMAIN files /\ MayHoldKey(t, k)
        BY <1>2, <2>1
    <2> QED BY <1>1, <2>1, <2>2 DEF ReadSet, EntriesOf
<1>4. ASSUME e \in ReadSet(k) PROVE e \in mem \cup FileEntries(files, Tables)
    BY <1>1, <1>4 DEF ReadSet, EntriesOf, FileEntries
<1> QED BY <1>3, <1>4 DEF ReadSet

\* What is there to be read, at a moment when a reader may take db.mu.
LEMMA ReadFacts ==
    ASSUME CompactionInv, Readable, ~cut, NEW k \in Keys, NEW r \in LiveSeqs,
           NEW S, S = mem \cup FileEntries(files, Tables)
    PROVE  /\ Lookup(ReadSet(k), k, r) = Lookup(S, k, r)
           /\ S \subseteq history /\ IsFiniteSet(history) /\ history \subseteq Entry(Keys)
           /\ Kept(S, history, LiveSeqs, ~missed, unread)
<1>1. TypeInv /\ FileInv /\ SoundInv /\ phase = "up" /\ mu = "free"
    BY DEF CompactionInv, Readable
<1>2. \A e : e.key = k => (e \in ReadSet(k) <=> e \in S)
    BY <1>1, ReadSetOfKey
<1>3. Lookup(ReadSet(k), k, r) = Lookup(S, k, r)
    BY <1>2, LookupOfKey
<1>4. FileEntries(files, Tables) \subseteq history
    BY <1>1 DEF FileEntries, FileInv, Backed, TypeInv, TypeOK
<1>5. mem \subseteq history /\ IsFiniteSet(history) /\ history \subseteq Entry(Keys)
    BY <1>1 DEF TypeInv, TypeOK
<1>6. Kept(S, history, LiveSeqs, ~missed, unread)
    BY <1>1 DEF SoundInv, Sound, Live
<1> QED BY <1>3, <1>4, <1>5, <1>6

(***************************************************************************)
(* Compaction loses no value: as long as no commit is cut short, a key     *)
(* whose newest version at a live snapshot, or now, is a value is read as  *)
(* that value, whatever was merged, split or collected, unless one of its  *)
(* own entries was in a block that a committed merge could not read.       *)
(***************************************************************************)
THEOREM CompactionValuesKept == Spec => []ValuesKept
<1>1. ASSUME CompactionInv PROVE ValuesKept
    <2>1. SUFFICES ASSUME Readable, ~cut, NEW k \in Keys \ unread, NEW r \in LiveSeqs,
                          Lookup(history, k, r) # ErrNotFound
                   PROVE  Lookup(ReadSet(k), k, r) = Lookup(history, k, r)
        BY DEF ValuesKept
    <2> DEFINE S == mem \cup FileEntries(files, Tables)
               H == VersionsAt(history, k, r)
    <2>2. /\ Lookup(ReadSet(k), k, r) = Lookup(S, k, r)
          /\ S \subseteq history /\ IsFiniteSet(history) /\ history \subseteq Entry(Keys)
          /\ Kept(S, history, LiveSeqs, ~missed, unread)
        BY <1>1, <2>1, ReadFacts
    <2> HIDE DEF S
    <2>3. H # {} /\ First(H).typ # RecordTypeTombstone
        BY <2>1, LookupIs
    <2>4. First(H) \in S
        <3>1. H \subseteq history /\ IsFiniteSet(H) /\ H \subseteq Entry(Keys)
            BY <2>2, FS_Subset DEF VersionsAt
        <3>2. First(H) \in H /\ \A f \in H \ {First(H)} : Before(First(H), f)
            BY <2>3, <3>1, FirstAndLast, KeysAssumption
        <3>3. SUFFICES ASSUME First(H) \notin S PROVE FALSE
            OBVIOUS
        <3>4. PICK t \in history :
                 /\ t.typ = RecordTypeTombstone /\ t.key = First(H).key
                 /\ First(H) = t \/ Before(t, First(H))
                 /\ \A x \in LiveSeqs : t.seq <= x
            <4>1. First(H) \in history \ S /\ First(H).key \notin unread
                BY <3>1, <3>2, <3>3 DEF VersionsAt
            <4> QED BY <2>2, <4>1 DEF Kept, Gone
        <3>5. t \in H
            BY <2>1, <3>2, <3>4 DEF VersionsAt
        <3>6. t # First(H)
            BY <2>3, <3>4
        <3>7. ~Before(t, First(H))
            BY <3>1, <3>2, <3>5, <3>6, BeforeIsStrict, KeysAssumption
        <3> QED BY <3>4, <3>6, <3>7
    <2>5. Lookup(S, k, r) = Lookup(history, k, r)
        <3>1. Keys \subseteq Nat
            BY KeysAssumption
        <3>2. VersionsAt(history, k, r) # {} /\ First(VersionsAt(history, k, r)) \in S
            BY <2>3, <2>4
        <3>3. S \subseteq history /\ IsFiniteSet(history) /\ history \subseteq Entry(Keys)
            BY <2>2
        <3>4. \A x, y : VersionsAt(history, x, y) # {} /\ First(VersionsAt(history, x, y)) \in S =>
                            Lookup(S, x, y) = Lookup(history, x, y)
            BY <3>1, <3>3, LookupOfPart
        <3> QED BY <3>2, <3>4
    <2> QED BY <2>2, <2>5
<1> QED BY <1>1, CompactionInvariantHolds, PTL

(***************************************************************************)
(* A deleted key stays deleted at every live snapshot, and now, as long as *)
(* no commit is cut short and no compaction left out a table of its two    *)
(* levels that shares a user key with its inputs: collecting a tombstone   *)
(* above empty levels brings no older version back.  The keys of entries   *)
(* that a committed merge could not read are left out.                     *)
(***************************************************************************)
THEOREM CompactionDeletesKept == Spec => []DeletesKept
<1>1. ASSUME CompactionInv PROVE DeletesKept
    <2>1. SUFFICES ASSUME Readable, ~missed, ~cut, NEW k \in Keys \ unread, NEW r \in LiveSeqs,
                          Lookup(history, k, r) = ErrNotFound
                   PROVE  Lookup(ReadSet(k), k, r) = ErrNotFound
        BY DEF DeletesKept
    <2> DEFINE S == mem \cup FileEntries(files, Tables)
               H == VersionsAt(history, k, r)
               V == VersionsAt(S, k, r)
    <2>2. /\ Lookup(ReadSet(k), k, r) = Lookup(S, k, r)
          /\ S \subseteq history /\ IsFiniteSet(history) /\ history \subseteq Entry(Keys)
          /\ Kept(S, history, LiveSeqs, ~missed, unread)
        BY <1>1, <2>1, ReadFacts
    <2> HIDE DEF S
    <2>3. H \subseteq history /\ IsFiniteSet(H) /\ H \subseteq Entry(Keys) /\ V \subseteq H
        BY <2>2, FS_Subset DEF VersionsAt
    <2>4. CASE H = {}
        BY <2>2, <2>3, <2>4, LookupIs
    <2>5. CASE H # {} /\ First(H) \in S
        <3>1. Keys \subseteq Nat
            BY KeysAssumption
        <3>2. VersionsAt(history, k, r) # {} /\ First(VersionsAt(history, k, r)) \in S
            BY <2>5
        <3>3. S \subseteq history /\ IsFiniteSet(history) /\ history \subseteq Entry(Keys)
            BY <2>2
        <3>4. \A x, y : VersionsAt(history, x, y) # {} /\ First(VersionsAt(history, x, y)) \in S =>
                            Lookup(S, x, y) = Lookup(history, x, y)
            BY <3>1, <3>3, LookupOfPart
        <3> QED BY <2>1, <2>2, <3>2, <3>4
    <2>6. CASE H # {} /\ First(H) \notin S
        <3>1. First(H) \in H /\ \A f \in H \ {First(H)} : Before(First(H), f)
            BY <2>3, <2>6, FirstAndLast, KeysAssumption
        <3>2. PICK t \in history :
                 /\ t.typ = RecordTypeTombstone /\ t.key = First(H).key
                 /\ First(H) = t \/ Before(t, First(H))
                 /\ \A x \in LiveSeqs : t.seq <= x
                 /\ \A g \in S : g.key = t.key => Before(g, t)
            <4>1. First(H) \in history \ S /\ First(H).key \notin unread
                BY <2>3, <2>6, <3>1 DEF VersionsAt
            <4> QED BY <2>1, <2>2, <4>1 DEF Kept, Gone
        <3>3. t \in H
            BY <2>1, <3>1, <3>2 DEF VersionsAt
        <3>4. \A x, y \in H : Before(x, y) => ~Before(y, x)
            BY <2>3, BeforeIsStrict, KeysAssumption
        <3>5. t = First(H)
            BY <3>1, <3>2, <3>3, <3>4
        <3>6. V = {}
            <4>1. SUFFICES ASSUME NEW g \in V PROVE FALSE
                OBVIOUS
            <4>2. g \in S /\ g \in H /\ g.key = t.key
                BY <2>3, <3>3 DEF VersionsAt
            <4>3. Before(g, t) /\ g # t
                BY <2>6, <3>2, <3>5, <4>2
            <4> QED BY <3>1, <3>3, <3>4, <3>5, <4>2, <4>3
        <3> QED BY <2>2, <3>6, LookupIs
    <2> QED BY <2>4, <2>5, <2>6
<1> QED BY <1>1, CompactionInvariantHolds, PTL

=============================================================================
