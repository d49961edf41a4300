----------------------------- MODULE KeyLemmas -----------------------------
(***************************************************************************)
(* Facts about numbers, internal keys and reads that the proofs about the  *)
(* engine and about compaction share: largest and first elements of sets,  *)
(* and what a read depends on.                                             *)
(***************************************************************************)
EXTENDS VersionSet, WellFoundedInduction, NaturalsInduction, SequenceTheorems,
        FiniteSetTheorems, TLAPS

\* A bounded non-empty set of naturals has a largest element.
LEMMA MaxExists ==
    ASSUME NEW S, S \subseteq Nat, S # {},
           NEW B \in Nat, \A n \in S : n <= B
    PROVE  \E n \in S : \A m \in S : m <= n
<1> DEFINE T == {B - n : n \in S}
<1>0. PICK a \in S : TRUE
    OBVIOUS
<1>1. T \subseteq Nat /\ T # {}
    <2>1. \A n \in S : n \in Nat /\ B - n \in Nat
        OBVIOUS
    <2>2. B - a \in T
        BY <1>0
    <2> QED BY <2>1, <2>2
<1>2. PICK x \in T : \A y \in T : ~(<<y, x>> \in OpToRel(<, Nat))
    BY <1>1, NatLessThanWellFounded, WFMin
<1>3. PICK n \in S : x = B - n
    OBVIOUS
<1>4. ASSUME NEW m \in S PROVE m <= n
    <2>1. B - m \in T
        OBVIOUS
    <2>2. ~(B - m < x)
        BY <1>1, <1>2, <2>1 DEF OpToRel
    <2> QED BY <1>3, <2>2
<1> QED BY <1>4

\* The largest sequence number of a bounded set of entries.
LEMMA LargestSeqMax ==
    ASSUME NEW S, NEW B \in Nat, \A e \in S : e.seq \in Nat /\ e.seq <= B
    PROVE  /\ LargestSeq(S) \in Nat /\ LargestSeq(S) <= B
           /\ \A e \in S : e.seq <= LargestSeq(S)
           /\ S # {} => \E e \in S : e.seq = LargestSeq(S)
<1>1. CASE S = {}
    BY <1>1 DEF LargestSeq
<1>2. CASE S # {}
    <2> DEFINE T == {e.seq : e \in S}
    <2>1. T \subseteq Nat /\ T # {} /\ \A n \in T : n <= B
        BY <1>2
    <2>2. \E n \in T : \A m \in T : m <= n
        BY <2>1, MaxExists
    <2>3. \E n \in T : \A e \in S : e.seq <= n
        BY <2>2
    <2>4. LargestSeq(S) = CHOOSE n \in T : \A e \in S : e.seq <= n
        BY <1>2 DEF LargestSeq
    <2>5. LargestSeq(S) \in T /\ \A e \in S : e.seq <= LargestSeq(S)
        BY <2>3, <2>4
    <2>6. \E e \in S : e.seq = LargestSeq(S)
        BY <2>5
    <2> QED BY <2>5, <2>6, <2>1
<1> QED BY <1>1, <1>2

-----------------------------------------------------------------------------
(* First and last elements of finite sets.                                 *)

(***************************************************************************)
(* A finite non-empty set has a first element in every order of its        *)
(* elements: take a smallest non-empty subset without one and remove one   *)
(* element.                                                                *)
(***************************************************************************)
LEMMA LeastExists ==
    ASSUME NEW S, IsFiniteSet(S), S # {}, NEW R,
           \A x, y \in S : x # y => <<x, y>> \in R \/ <<y, x>> \in R,
           \A x, y, z \in S : <<x, y>> \in R /\ <<y, z>> \in R => <<x, z>> \in R
    PROVE  \E x \in S : \A y \in S \ {x} : <<x, y>> \in R
<1> DEFINE HasLeast(X) == \E x \in X : \A y \in X \ {x} : <<x, y>> \in R
           Bad == {X \in SUBSET S : X # {} /\ ~HasLeast(X)}
           Sizes == {Cardinality(X) : X \in Bad}
<1>1. SUFFICES ASSUME ~HasLeast(S) PROVE FALSE
    OBVIOUS
<1>2. S \in Bad
    BY <1>1
<1>3. \A X \in SUBSET S : IsFiniteSet(X) /\ Cardinality(X) \in Nat
    BY FS_Subset, FS_CardinalityType
<1>4. Sizes \subseteq Nat /\ Sizes # {}
    BY <1>2, <1>3
<1>5. PICK c \in Sizes : \A d \in Sizes : ~(<<d, c>> \in OpToRel(<, Nat))
    <2> HIDE DEF Sizes
    <2> QED BY <1>4, NatLessThanWellFounded, WFMin
<1>6. PICK X \in Bad : c = Cardinality(X)
    BY <1>5
<1>7. PICK a \in X : TRUE
    BY <1>6
<1> DEFINE Y == X \ {a}
<1>8. Y \in SUBSET S /\ Cardinality(Y) = Cardinality(X) - 1 /\ Cardinality(X) \in Nat
      /\ Cardinality(Y) \in Nat
    BY <1>3, <1>6, <1>7, FS_RemoveElement
<1>9. Y \notin Bad
    <2>1. Cardinality(Y) < c
        BY <1>6, <1>8
    <2>2. Cardinality(Y) \notin Sizes
        BY <1>4, <1>5, <1>8, <2>1 DEF OpToRel
    <2> QED BY <2>2
<1>10. CASE Y = {}
    BY <1>6, <1>7, <1>10
<1>11. CASE Y # {}
    <2>1. PICK m \in Y : \A y \in Y \ {m} : <<m, y>> \in R
        BY <1>8, <1>9, <1>11
    <2>2. m \in S /\ a \in S /\ m # a /\ X \subseteq S
        BY <1>6, <1>7, <2>1
    <2>3. CASE <<m, a>> \in R
        <3>1. \A y \in X \ {m} : <<m, y>> \in R
            BY <2>1, <2>3
        <3> QED BY <1>6, <2>1, <3>1
    <2>4. CASE <<a, m>> \in R
        <3>1. \A y \in X \ {a} : <<a, y>> \in R
            BY <2>1, <2>2, <2>4
        <3> QED BY <1>6, <1>7, <3>1
    <2> QED BY <2>2, <2>3, <2>4
<1> QED BY <1>10, <1>11

\* The comparator orders the internal keys.
LEMMA BeforeIsOrder ==
    ASSUME NEW Keys, Keys \subseteq Nat, NEW S, S \subseteq Entry(Keys)
    PROVE  /\ \A x, y \in S : x # y => Before(x, y) \/ Before(y, x)
           /\ \A x, y, z \in S : Before(x, y) /\ Before(y, z) => Before(x, z)
<1>0. \A e \in S : /\ e.key \in Int /\ e.seq \in Int /\ e.typ \in Int
                   /\ e = [key |-> e.key, seq |-> e.seq, typ |-> e.typ]
    <2>1. \A e \in S : e.key \in Keys /\ e.seq \in Nat /\ e.typ \in RecordTypes
                      /\ e = [key |-> e.key, seq |-> e.seq, typ |-> e.typ]
        BY DEF Entry
    <2>2. Keys \subseteq Int /\ RecordTypes \subseteq Int
        BY DEF RecordTypes, RecordTypeValue, RecordTypeTombstone
    <2> QED BY <2>1, <2>2
<1>1. \A x, y \in S : x # y => Before(x, y) \/ Before(y, x)
    BY <1>0 DEF Before
<1>2. \A x, y, z \in S : Before(x, y) /\ Before(y, z) => Before(x, z)
    BY <1>0 DEF Before
<1> QED BY <1>1, <1>2

\* It is strict, and keeps the versions of a key together, the newest first.
LEMMA BeforeIsStrict ==
    ASSUME NEW Keys, Keys \subseteq Nat, NEW S, S \subseteq Entry(Keys)
    PROVE  /\ \A x, y \in S : Before(x, y) => ~Before(y, x) /\ x # y
           /\ \A x, y, z \in S :
                 Before(x, y) /\ Before(y, z) /\ x.key = z.key => y.key = x.key
           /\ \A x, y \in S : x.key = y.key /\ y.seq < x.seq => Before(x, y)
           /\ \A x, y \in S : x.key = y.key /\ Before(x, y) => y.seq <= x.seq
<1>0. \A e \in S : e.key \in Int /\ e.seq \in Int /\ e.typ \in Int
    <2>1. \A e \in S : e.key \in Keys /\ e.seq \in Nat /\ e.typ \in RecordTypes
                      /\ e = [key |-> e.key, seq |-> e.seq, typ |-> e.typ]
        BY DEF Entry
    <2>2. Keys \subseteq Int /\ RecordTypes \subseteq Int
        BY DEF RecordTypes, RecordTypeValue, RecordTypeTombstone
    <2> QED BY <2>1, <2>2
<1>1. \A x, y \in S : Before(x, y) => ~Before(y, x) /\ x # y
    BY <1>0 DEF Before
<1>2. \A x, y, z \in S : Before(x, y) /\ Before(y, z) /\ x.key = z.key => y.key = x.key
    BY <1>0 DEF Before
<1>3. \A x, y \in S : x.key = y.key /\ y.seq < x.seq => Before(x, y)
    BY <1>0 DEF Before
<1>4. \A x, y \in S : x.key = y.key /\ Before(x, y) => y.seq <= x.seq
    BY <1>0 DEF Before
<1> QED BY <1>1, <1>2, <1>3, <1>4

\* The first and the last key of a finite set of entries.
LEMMA FirstAndLast ==
    ASSUME NEW Keys, Keys \subseteq Nat,
           NEW S, IsFiniteSet(S), S # {}, S \subseteq Entry(Keys)
    PROVE  /\ First(S) \in S /\ \A f \in S \ {First(S)} : Before(First(S), f)
           /\ Last(S) \in S /\ \A f \in S \ {Last(S)} : Before(f, Last(S))
<1>1. \A x, y \in S : x # y => Before(x, y) \/ Before(y, x)
    BY BeforeIsOrder
<1>2. \A x, y, z \in S : Before(x, y) /\ Before(y, z) => Before(x, z)
    BY BeforeIsOrder
<1>3. \E x \in S : \A y \in S \ {x} : Before(x, y)
    <2> DEFINE R == {p \in S \X S : Before(p[1], p[2])}
    <2>1. \A x, y \in S : <<x, y>> \in R <=> Before(x, y)
        OBVIOUS
    <2> HIDE DEF R
    <2>2. \E x \in S : \A y \in S \ {x} : <<x, y>> \in R
        BY <1>1, <1>2, <2>1, LeastExists
    <2> QED BY <2>1, <2>2
<1>4. \E x \in S : \A y \in S \ {x} : Before(y, x)
    <2> DEFINE R == {p \in S \X S : Before(p[2], p[1])}
    <2>1. \A x, y \in S : <<x, y>> \in R <=> Before(y, x)
        OBVIOUS
    <2> HIDE DEF R
    <2>2. \E x \in S : \A y \in S \ {x} : <<x, y>> \in R
        BY <1>1, <1>2, <2>1, LeastExists
    <2> QED BY <2>1, <2>2
<1>5. First(S) \in S /\ \A f \in S \ {First(S)} : Before(First(S), f)
    BY <1>3 DEF First
<1>6. Last(S) \in S /\ \A f \in S \ {Last(S)} : Before(f, Last(S))
    BY <1>4 DEF Last
<1> QED BY <1>5, <1>6

\* The largest sequence number of a finite set of entries: that of the first
\* one in the order by descending number.
LEMMA LargestSeqOfFinite ==
    ASSUME NEW Keys, Keys \subseteq Nat,
           NEW S, IsFiniteSet(S), S \subseteq Entry(Keys)
    PROVE  /\ \A e \in S : e.seq <= LargestSeq(S)
           /\ S # {} => \E e \in S : e.seq = LargestSeq(S)
<1>1. SUFFICES ASSUME S # {} PROVE \E e \in S : e.seq = LargestSeq(S)
                                     /\ \A d \in S : d.seq <= LargestSeq(S)
    OBVIOUS
<1> DEFINE Newer(x, y) == x.seq > y.seq \/ (x.seq = y.seq /\ Before(x, y))
           R == {p \in S \X S : Newer(p[1], p[2])}
<1>0. \A e \in S : e.seq \in Int
    BY DEF Entry
<1>a. /\ \A x, y \in S : x # y => Before(x, y) \/ Before(y, x)
      /\ \A x, y, z \in S : Before(x, y) /\ Before(y, z) => Before(x, z)
    BY BeforeIsOrder
<1>2. \A x, y \in S : x # y => Newer(x, y) \/ Newer(y, x)
    BY <1>0, <1>a
<1>3. \A x, y, z \in S : Newer(x, y) /\ Newer(y, z) => Newer(x, z)
    BY <1>0, <1>a
<1>4. \A x, y \in S : <<x, y>> \in R <=> Newer(x, y)
    OBVIOUS
<1> HIDE DEF R
<1>5. PICK x \in S : \A y \in S \ {x} : <<x, y>> \in R
    <2> HIDE DEF Newer
    <2> QED BY <1>1, <1>2, <1>3, <1>4, LeastExists
<1>6. \A y \in S : y.seq <= x.seq
    <2>1. \A y \in S \ {x} : Newer(x, y)
        <3> HIDE DEF Newer
        <3> QED BY <1>4, <1>5
    <2>2. \A y \in S \ {x} : y.seq <= x.seq
        BY <1>0, <2>1
    <2> QED BY <1>0, <2>2
<1> DEFINE T == {e.seq : e \in S}
<1>7. \E n \in T : \A e \in S : e.seq <= n
    BY <1>6
<1>8. LargestSeq(S) = CHOOSE m \in T : \A e \in S : e.seq <= m
    BY <1>1 DEF LargestSeq
<1>9. LargestSeq(S) \in T /\ \A e \in S : e.seq <= LargestSeq(S)
    BY <1>7, <1>8
<1> QED BY <1>9

-----------------------------------------------------------------------------
(* Reads.                                                                  *)

\* The first of a set is the one all others come after.
LEMMA FirstIs ==
    ASSUME NEW Keys, Keys \subseteq Nat, NEW S, S \subseteq Entry(Keys), NEW e \in S, \A f \in S \ {e} : f.seq < e.seq,
           \A f \in S : f.key = e.key
    PROVE  First(S) = e
<1>0. \A f \in S : f.seq \in Nat /\ f.key \in Int
    <2>1. \A f \in S : f.seq \in Nat /\ f.key \in Keys
        BY DEF Entry
    <2>2. \A k \in Keys : k \in Int
        OBVIOUS
    <2> QED BY <2>1, <2>2
<1>1. \A f \in S \ {e} : Before(e, f) /\ ~Before(f, e)
    BY <1>0 DEF Before
<1>2. First(S) \in S /\ \A f \in S \ {First(S)} : Before(First(S), f)
    <2>1. \E x \in S : \A f \in S \ {x} : Before(x, f)
        BY <1>1
    <2> QED BY <2>1 DEF First
<1> QED BY <1>1, <1>2

\* A read of a key depends on the versions of that key only.
LEMMA LookupOfKey ==
    ASSUME NEW S, NEW T, NEW k, NEW r,
           \A e : e.key = k => (e \in S <=> e \in T)
    PROVE  Lookup(S, k, r) = Lookup(T, k, r)
<1>1. {e \in Visible(S, r) : e.key = k} = {e \in Visible(T, r) : e.key = k}
    BY DEF Visible
<1> QED BY <1>1 DEF Lookup

\* A read at r depends on the versions up to r only.
LEMMA LookupUpTo ==
    ASSUME NEW S, NEW T, NEW k, NEW r,
           \A e : e.key = k /\ e.seq <= r => (e \in S <=> e \in T)
    PROVE  Lookup(S, k, r) = Lookup(T, k, r)
<1>1. {e \in Visible(S, r) : e.key = k} = {e \in Visible(T, r) : e.key = k}
    BY DEF Visible
<1> QED BY <1>1 DEF Lookup

\* The versions of a key a read at r may return.
VersionsAt(S, k, r) == {e \in S : e.key = k /\ e.seq <= r}

\* A part of a set that has the first key of the set has the same first key.
LEMMA FirstOfPart ==
    ASSUME NEW Keys, Keys \subseteq Nat, NEW S, IsFiniteSet(S), S # {}, S \subseteq Entry(Keys),
           NEW T, T \subseteq S, First(S) \in T
    PROVE  First(T) = First(S)
<1>1. First(S) \in S /\ \A f \in S \ {First(S)} : Before(First(S), f)
    BY FirstAndLast
<1>2. \A x, y \in S : Before(x, y) => ~Before(y, x)
    BY BeforeIsStrict
<1>3. \E x \in T : \A f \in T \ {x} : Before(x, f)
    BY <1>1
<1>4. First(T) \in T /\ \A f \in T \ {First(T)} : Before(First(T), f)
    BY <1>3 DEF First
<1>5. First(T) # First(S) => Before(First(S), First(T)) /\ Before(First(T), First(S))
    BY <1>1, <1>4
<1> QED BY <1>1, <1>2, <1>4, <1>5

\* A read finds the first of those versions.
LEMMA LookupIs ==
    ASSUME NEW S, NEW k, NEW r
    PROVE  Lookup(S, k, r) =
              IF VersionsAt(S, k, r) = {} \/ First(VersionsAt(S, k, r)).typ = RecordTypeTombstone
              THEN ErrNotFound ELSE First(VersionsAt(S, k, r)).seq
<1>1. {e \in Visible(S, r) : e.key = k} = VersionsAt(S, k, r)
    BY DEF Visible, VersionsAt
<1> QED BY <1>1 DEF Lookup

\* A read of a part of a set that has the newest visible version returns the
\* same.
LEMMA LookupOfPart ==
    ASSUME NEW Keys, Keys \subseteq Nat, NEW S, IsFiniteSet(S), S \subseteq Entry(Keys),
           NEW T, T \subseteq S
    PROVE  \A k, r : VersionsAt(S, k, r) # {} /\ First(VersionsAt(S, k, r)) \in T =>
                         Lookup(T, k, r) = Lookup(S, k, r)
<1>0. SUFFICES ASSUME NEW k, NEW r, VersionsAt(S, k, r) # {}, First(VersionsAt(S, k, r)) \in T
               PROVE  Lookup(T, k, r) = Lookup(S, k, r)
    OBVIOUS
<1> DEFINE H == VersionsAt(S, k, r)
           V == VersionsAt(T, k, r)
<1>1. V \subseteq H /\ H \subseteq Entry(Keys) /\ H \subseteq S /\ V = H \cap T
    BY DEF VersionsAt
<1>2. IsFiniteSet(H)
    BY <1>1, FS_Subset
<1>3. First(H) \in H
    BY <1>0, <1>1, <1>2, FirstAndLast
<1>4. First(H) \in V
    BY <1>0, <1>1, <1>3
<1>5. First(V) = First(H)
    <2> HIDE DEF H, V
    <2>1. H # {}
        BY <1>0 DEF H
    <2> QED BY <1>1, <1>2, <1>4, <2>1, FirstOfPart
<1> QED BY <1>0, <1>4, <1>5, LookupIs

=============================================================================
