--------------------------- MODULE SSTableProofs ---------------------------
(***************************************************************************)
(* What is proved about SSTable: the block cache keeps its bounds and      *)
(* never serves a block of another file, a table decodes to the entries it *)
(* was built from, and an iterator returns them without a gap.             *)
(*                                                                         *)
(* The functions of the model that are defined by recursion on a number    *)
(* (sizes, evictions, the builder, the two searches of a block) are shown  *)
(* to exist, and what they compute, by induction on a set of numbers       *)
(* (UpTo).                                                                 *)
(***************************************************************************)
EXTENDS SSTableInvariant, WellFoundedInduction, NaturalsInduction, SequenceTheorems,
        FiniteSetTheorems, TLAPS

-----------------------------------------------------------------------------
(* Numbers.                                                                *)

\* A non-empty set of naturals has a smallest element.
LEMMA SmallestExists ==
    ASSUME NEW S, S \subseteq Nat, S # {}
    PROVE  \E n \in S : \A m \in S : n <= m
<1>1. PICK n \in S : \A m \in S : ~(<<m, n>> \in OpToRel(<, Nat))
    BY NatLessThanWellFounded, WFMin
<1>2. \A m \in S : ~(m < n)
    BY <1>1 DEF OpToRel
<1> QED BY <1>2

\* A non-empty set of numbers up to B has a largest element.
LEMMA LargestExists ==
    ASSUME NEW B \in Nat, NEW S, S \subseteq 0..B, S # {}
    PROVE  \E n \in S : \A m \in S : m <= n
<1> DEFINE T == {B - n : n \in S}
<1>1. T \subseteq Nat /\ T # {}
    <2>1. \A n \in S : n \in 0..B
        OBVIOUS
    <2>2. \A n \in S : B - n \in Nat
        BY <2>1
    <2> QED BY <2>2
<1>2. PICK x \in T : \A y \in T : x <= y
    <2> HIDE DEF T
    <2> QED BY <1>1, SmallestExists
<1>3. PICK n \in S : x = B - n
    OBVIOUS
<1>4. \A m \in S : B - n <= B - m
    BY <1>2, <1>3
<1> QED BY <1>4

LEMMA MinIs ==
    ASSUME NEW S, S \subseteq Nat, S # {}
    PROVE  Min(S) \in S /\ \A m \in S : Min(S) <= m
<1>1. \E n \in S : \A m \in S : n <= m
    BY SmallestExists
<1> QED BY <1>1 DEF Min

LEMMA MaxIs ==
    ASSUME NEW B \in Nat, NEW S, S \subseteq 0..B, S # {}
    PROVE  Max(S) \in S /\ \A m \in S : m <= Max(S)
<1>1. \E n \in S : \A m \in S : n >= m
    BY LargestExists
<1>2. Max(S) \in S /\ \A m \in S : Max(S) >= m
    BY <1>1 DEF Max
<1> QED BY <1>2

\* Induction on the numbers up to N, over the set of those a fact holds for.
LEMMA UpTo ==
    ASSUME NEW N \in Nat, NEW S, 0 \in S, \A n \in 1..N : n - 1 \in S => n \in S
    PROVE  \A n \in 0..N : n \in S
<1> DEFINE B == {n \in 0..N : n \notin S}
<1>1. SUFFICES ASSUME B # {} PROVE FALSE
    OBVIOUS
<1>2. PICK n \in B : \A m \in B : n <= m
    <2>1. B \subseteq Nat
        OBVIOUS
    <2> HIDE DEF B
    <2> QED BY <1>1, <2>1, SmallestExists
<1>3. n \in 1..N /\ n - 1 \in 0..N /\ n - 1 \notin B
    BY <1>2
<1> QED BY <1>2, <1>3

-----------------------------------------------------------------------------
(* The size of a list of cached elements.                                  *)

\* The sizes of the first elements of a list.
Sums(list, f) ==
    f = [n \in 0..Len(list) |-> IF n = 0 THEN 0 ELSE f[n - 1] + list[n].size]

Sized(list) == Len(list) \in Nat /\ \A i \in 1..Len(list) : list[i].size \in Nat

LEMMA SumsExist ==
    ASSUME NEW list, Len(list) \in Nat
    PROVE  \E f : Sums(list, f)
<1> DEFINE Is(f, n) == f = [i \in 0..n |-> IF i = 0 THEN 0 ELSE f[i - 1] + list[i].size]
           S == {n \in 0..Len(list) : \E f : Is(f, n)}
<1>0. \A n \in 0..Len(list) : n \in S <=> \E f : Is(f, n)
    <2> HIDE DEF Is
    <2> QED OBVIOUS
<1> HIDE DEF S
<1>1. 0 \in S
    <2>1. Is([i \in 0..0 |-> 0], 0)
        OBVIOUS
    <2> HIDE DEF Is
    <2>2. \E f : Is(f, 0)
        BY <2>1
    <2> QED BY <1>0, <2>2
<1>2. ASSUME NEW n \in 1..Len(list), n - 1 \in S PROVE n \in S
    <2>0. n \in 0..Len(list) /\ n - 1 \in 0..Len(list)
        OBVIOUS
    <2>1. PICK f : Is(f, n - 1)
        BY <1>0, <1>2, <2>0, Zenon
    <2> DEFINE g == [i \in 0..n |-> IF i < n THEN f[i] ELSE f[n - 1] + list[n].size]
    <2>2. ASSUME NEW i \in 0..n PROVE g[i] = IF i = 0 THEN 0 ELSE g[i - 1] + list[i].size
        <3>1. CASE i < n
            BY <2>1, <3>1
        <3>2. CASE i = n
            BY <3>2
        <3> QED BY <3>1, <3>2
    <2>3. Is(g, n)
        BY <2>2
    <2> HIDE DEF Is, g
    <2> QED BY <1>0, <2>0, <2>3
<1>3. \A n \in 0..Len(list) : n \in S
    BY <1>1, <1>2, UpTo
<1>4. PICK f : Is(f, Len(list))
    BY <1>0, <1>3
<1> QED BY <1>4 DEF Sums

LEMMA SumsAre ==
    ASSUME NEW list, Sized(list), NEW f, Sums(list, f)
    PROVE  f \in [0..Len(list) -> Nat] /\ SizeOf(list) = f[Len(list)]
<1> DEFINE h == CHOOSE g : g = [n \in 0..Len(list) |-> IF n = 0 THEN 0 ELSE g[n - 1] + list[n].size]
<1>1. SizeOf(list) = h[Len(list)]
    BY DEF SizeOf
<1>2. h = [n \in 0..Len(list) |-> IF n = 0 THEN 0 ELSE h[n - 1] + list[n].size]
    BY DEF Sums
<1> HIDE DEF h
<1> DEFINE S == {n \in 0..Len(list) : f[n] \in Nat /\ h[n] = f[n]}
<1>3. 0 \in S
    BY <1>2 DEF Sums, Sized
<1>4. ASSUME NEW n \in 1..Len(list), n - 1 \in S PROVE n \in S
    <2>0. n \in 0..Len(list) /\ n # 0
        BY DEF Sized
    <2>1. f[n] = f[n - 1] + list[n].size /\ h[n] = h[n - 1] + list[n].size
        <3> HIDE DEF S
        <3> QED BY <1>2, <2>0 DEF Sums
    <2>2. list[n].size \in Nat
        BY DEF Sized
    <2> QED BY <1>4, <2>1, <2>2 DEF Sized
<1>5. \A n \in 0..Len(list) : n \in S
    <2> HIDE DEF S
    <2> QED BY <1>3, <1>4, UpTo DEF Sized
<1>6. DOMAIN f = 0..Len(list) /\ f = [n \in DOMAIN f |-> f[n]]
    BY DEF Sums
<1> QED BY <1>1, <1>5, <1>6 DEF Sized

\* The elements of a cache.
Element(V) == [key : Nat \X Nat, value : V, size : Nat]

LEMMA ElementsSized ==
    ASSUME NEW V, NEW list \in Seq(Element(V))
    PROVE  Sized(list) /\ DOMAIN list = 1..Len(list)
<1>1. Len(list) \in Nat /\ DOMAIN list = 1..Len(list)
    OBVIOUS
<1>2. \A i \in 1..Len(list) : list[i] \in Element(V)
    OBVIOUS
<1>3. \A e \in Element(V) : e.size \in Nat
    BY DEF Element
<1> QED BY <1>1, <1>2, <1>3 DEF Sized

LEMMA SizeOfCons ==
    ASSUME NEW V, NEW list \in Seq(Element(V)), NEW e \in Element(V)
    PROVE  /\ <<e>> \o list \in Seq(Element(V)) /\ Len(<<e>> \o list) = Len(list) + 1
           /\ SizeOf(<<e>> \o list) = e.size + SizeOf(list)
           /\ SizeOf(list) \in Nat
<1> DEFINE longer == <<e>> \o list
<1>1. /\ longer \in Seq(Element(V)) /\ Len(longer) = Len(list) + 1
      /\ longer[1] = e /\ \A i \in 1..Len(list) : longer[i + 1] = list[i]
    OBVIOUS
<1>2. PICK f : Sums(list, f)
    BY SumsExist
<1>3. Sized(list) /\ Sized(longer) /\ e.size \in Nat
    BY <1>1, ElementsSized DEF Element
<1>4. f \in [0..Len(list) -> Nat] /\ SizeOf(list) = f[Len(list)]
    BY <1>2, <1>3, SumsAre
<1> DEFINE g == [n \in 0..Len(longer) |-> IF n = 0 THEN 0 ELSE e.size + f[n - 1]]
<1> HIDE DEF longer
<1>5. ASSUME NEW n \in 0..Len(longer)
      PROVE  g[n] = IF n = 0 THEN 0 ELSE g[n - 1] + longer[n].size
    <2>1. CASE n = 0
        BY <2>1
    <2>2. CASE n = 1
        <3>1. f[0] = 0
            BY <1>2 DEF Sums
        <3> QED BY <1>1, <1>3, <2>2, <3>1
    <2>3. CASE n > 1
        <3>1. n - 1 \in 1..Len(list) /\ n - 1 \in 0..Len(longer)
            BY <1>1, <2>3
        <3>2. f[n - 1] = f[n - 2] + list[n - 1].size
            BY <1>2, <3>1 DEF Sums
        <3>3. longer[n] = list[n - 1]
            BY <1>1, <3>1
        <3>4. f[n - 2] \in Nat /\ list[n - 1].size \in Nat
            <4>1. n - 2 \in 0..Len(list)
                BY <3>1
            <4> QED BY <1>3, <1>4, <3>1, <4>1 DEF Sized
        <3> QED BY <1>3, <2>3, <3>1, <3>2, <3>3, <3>4
    <2> QED BY <2>1, <2>2, <2>3, <1>1
<1>6. Sums(longer, g)
    BY <1>5 DEF Sums
<1>7. SizeOf(longer) = g[Len(longer)]
    BY <1>3, <1>6, SumsAre
<1> QED BY <1>1, <1>3, <1>4, <1>7 DEF longer

LEMMA SizeOfPart ==
    ASSUME NEW V, NEW list \in Seq(Element(V)), NEW f, Sums(list, f), NEW k \in 0..Len(list)
    PROVE  SubSeq(list, 1, k) \in Seq(Element(V)) /\ SizeOf(SubSeq(list, 1, k)) = f[k]
<1> DEFINE part == SubSeq(list, 1, k)
           g == [n \in 0..k |-> f[n]]
<1>1. part \in Seq(Element(V)) /\ Len(part) = k /\ \A i \in 1..k : part[i] = list[i]
    OBVIOUS
<1>2. Sized(part)
    BY <1>1, ElementsSized
<1>3. Sums(part, g)
    <2>1. ASSUME NEW n \in 0..k PROVE g[n] = IF n = 0 THEN 0 ELSE g[n - 1] + part[n].size
        <3>1. CASE n = 0
            BY <3>1 DEF Sums
        <3>2. CASE n # 0
            <4>1. n \in 1..k /\ n - 1 \in 0..k /\ n \in 0..Len(list)
                BY <3>2
            <4>2. f[n] = f[n - 1] + list[n].size
                BY <3>2, <4>1 DEF Sums
            <4> QED BY <1>1, <3>2, <4>1, <4>2
        <3> QED BY <3>1, <3>2
    <2> HIDE DEF part
    <2> QED BY <1>1, <2>1 DEF Sums
<1> HIDE DEF part
<1>4. SizeOf(part) = g[k]
    BY <1>1, <1>2, <1>3, SumsAre
<1> QED BY <1>1, <1>4 DEF part

LEMMA SizeOfRemove ==
    ASSUME NEW V, NEW list \in Seq(Element(V)), NEW i \in 1..Len(list)
    PROVE  /\ RemoveAt(list, i) \in Seq(Element(V)) /\ Len(RemoveAt(list, i)) = Len(list) - 1
           /\ \A j \in 1..(Len(list) - 1) :
                 RemoveAt(list, i)[j] = IF j < i THEN list[j] ELSE list[j + 1]
           /\ SizeOf(RemoveAt(list, i)) = SizeOf(list) - list[i].size
<1> DEFINE less == RemoveAt(list, i)
<1>1. /\ less \in Seq(Element(V)) /\ Len(less) = Len(list) - 1
      /\ \A j \in 1..(Len(list) - 1) : less[j] = IF j < i THEN list[j] ELSE list[j + 1]
    <2> DEFINE a == SubSeq(list, 1, i - 1)
               b == SubSeq(list, i + 1, Len(list))
    <2>1. a \in Seq(Element(V)) /\ Len(a) = i - 1 /\ \A j \in 1..(i - 1) : a[j] = list[j]
        OBVIOUS
    <2>2. b \in Seq(Element(V)) /\ Len(b) = Len(list) - i
          /\ \A j \in 1..(Len(list) - i) : b[j] = list[i + j]
        OBVIOUS
    <2>3. less = a \o b
        BY DEF RemoveAt
    <2> HIDE DEF less, a, b
    <2>4. less \in Seq(Element(V)) /\ Len(less) = Len(list) - 1
        BY <2>1, <2>2, <2>3
    <2>5. ASSUME NEW j \in 1..(Len(list) - 1)
          PROVE  less[j] = IF j < i THEN list[j] ELSE list[j + 1]
        <3>1. less[j] = IF j <= Len(a) THEN a[j] ELSE b[j - Len(a)]
            BY <2>1, <2>2, <2>3
        <3>2. CASE j < i
            BY <2>1, <3>1, <3>2
        <3>3. CASE j >= i
            <4>1. j - Len(a) \in 1..(Len(list) - i) /\ i + (j - Len(a)) = j + 1
                BY <2>1, <3>3
            <4>2. ~(j <= Len(a)) /\ ~(j < i)
                BY <2>1, <3>3
            <4>3. b[j - Len(a)] = list[i + (j - Len(a))]
                BY <2>2, <4>1
            <4> QED BY <3>1, <4>1, <4>2, <4>3
        <3> QED BY <3>2, <3>3
    <2> QED BY <2>4, <2>5
<1>2. PICK f : Sums(list, f)
    BY SumsExist
<1>3. Sized(list) /\ Sized(less) /\ Len(list) \in Nat
    BY <1>1, ElementsSized
<1>4. f \in [0..Len(list) -> Nat] /\ SizeOf(list) = f[Len(list)]
    BY <1>2, <1>3, SumsAre
<1>5. \A n \in 1..Len(list) : /\ f[n] = f[n - 1] + list[n].size
                              /\ f[n - 1] \in Nat /\ list[n].size \in Nat /\ f[n] \in Nat
    <2>1. \A n \in 1..Len(list) : f[n] = f[n - 1] + list[n].size
        BY <1>2 DEF Sums
    <2>2. \A n \in 1..Len(list) : f[n - 1] \in Nat /\ f[n] \in Nat
        BY <1>4
    <2> QED BY <1>3, <2>1, <2>2 DEF Sized
<1> HIDE DEF less
<1> DEFINE g == [n \in 0..Len(less) |-> IF n < i THEN f[n] ELSE f[n + 1] - list[i].size]
<1>6. ASSUME NEW n \in 0..Len(less)
      PROVE  g[n] = IF n = 0 THEN 0 ELSE g[n - 1] + less[n].size
    <2>1. CASE n = 0
        BY <1>2, <2>1 DEF Sums
    <2>2. CASE n # 0 /\ n < i
        BY <1>1, <1>5, <2>2
    <2>3. CASE n # 0 /\ n >= i
        <3>1. n + 1 \in 1..Len(list) /\ less[n] = list[n + 1] /\ n - 1 \in 0..Len(less)
            BY <1>1, <1>3, <2>3
        <3>2. f[n + 1] = f[n] + list[n + 1].size
            BY <1>5, <3>1
        <3>3. CASE n - 1 < i
            <4>1. n = i
                BY <2>3, <3>3
            <4>2. f[n] = f[n - 1] + list[n].size
                BY <1>5, <4>1
            <4> QED BY <1>5, <2>3, <3>1, <3>2, <4>1, <4>2
        <3>4. CASE n - 1 >= i
            BY <1>5, <2>3, <3>1, <3>2, <3>4
        <3> QED BY <3>3, <3>4
    <2> QED BY <2>1, <2>2, <2>3
<1>7. Sums(less, g)
    BY <1>6 DEF Sums
<1>8. SizeOf(less) = g[Len(less)]
    BY <1>3, <1>7, SumsAre
<1>9. g[Len(less)] = f[Len(list)] - list[i].size
    BY <1>1, <1>3, <1>5
<1> QED BY <1>1, <1>4, <1>8, <1>9 DEF less

-----------------------------------------------------------------------------
(* The operations of the cache.                                            *)

IsCache(c, V) ==
    /\ DOMAIN c = {"capacity", "usage", "list"}
    /\ c.capacity \in Nat
    /\ c.list \in Seq(Element(V))
    /\ c.usage = SizeOf(c.list)

Distinct(list) == \A i, j \in DOMAIN list : list[i].key = list[j].key => i = j

\* evict stops within the capacity, and leaves the front of the list.
LEMMA EvictKeeps ==
    ASSUME NEW V, NEW c, IsCache(c, V)
    PROVE  \E k \in 0..Len(c.list) :
              /\ DOMAIN Evict(c) = {"capacity", "usage", "list"}
              /\ Evict(c).capacity = c.capacity
              /\ Evict(c).usage = SizeOf(SubSeq(c.list, 1, k))
              /\ Evict(c).list = SubSeq(c.list, 1, k)
              /\ SizeOf(SubSeq(c.list, 1, k)) <= c.capacity
<1> DEFINE L == Len(c.list)
           Step(u) == [n \in 0..L |-> IF n = 0 THEN c.usage ELSE u[n - 1] - c.list[L - n + 1].size]
           u == CHOOSE v : v = Step(v)
           Within == {n \in 0..L : u[n] <= c.capacity \/ n = L}
           gone == Min(Within)
<1>1. PICK f : Sums(c.list, f)
    BY SumsExist DEF IsCache
<1>2. Sized(c.list) /\ L \in Nat
    BY ElementsSized DEF IsCache
<1>3. f \in [0..L -> Nat] /\ c.usage = f[L]
    BY <1>1, <1>2, SumsAre DEF IsCache
<1>4. ASSUME NEW n \in 1..L
      PROVE  /\ L - n + 1 \in 1..L /\ L - n \in 0..L /\ L - (n - 1) \in 0..L
             /\ f[L - n] = f[L - (n - 1)] - c.list[L - n + 1].size
    <2>1. L - n + 1 \in 1..L /\ L - n \in 0..L /\ L - n + 1 = L - (n - 1)
        BY <1>2
    <2>2. f[L - n + 1] = f[L - n] + c.list[L - n + 1].size
        <3>1. \A m \in 1..L : f[m] = f[m - 1] + c.list[m].size
            BY <1>1, <1>2 DEF Sums
        <3>2. (L - n + 1) - 1 = L - n
            BY <1>2
        <3> HIDE DEF L
        <3> QED BY <2>1, <3>1, <3>2
    <2>3. c.list[L - n + 1].size \in Nat /\ f[L - n] \in Nat
        BY <1>2, <1>3, <2>1 DEF Sized
    <2> QED BY <2>1, <2>2, <2>3
<1>5. u = Step(u)
    <2> DEFINE v == [n \in 0..L |-> f[L - n]]
    <2>1. ASSUME NEW n \in 0..L PROVE v[n] = Step(v)[n]
        <3>1. CASE n = 0
            BY <1>2, <1>3, <3>1
        <3>2. CASE n # 0
            <4>1. n \in 1..L /\ n - 1 \in 0..L
                BY <1>2, <3>2
            <4> QED BY <1>4, <3>2, <4>1
        <3> QED BY <3>1, <3>2
    <2>2. v = Step(v)
        BY <2>1
    <2> HIDE DEF v, Step
    <2> QED BY <2>2
<1> HIDE DEF u, L
<1>6. \A n \in 0..L : u[n] = f[L - n]
    <2> DEFINE S == {n \in 0..L : u[n] = f[L - n]}
    <2>1. 0 \in S
        BY <1>2, <1>3, <1>5
    <2>2. ASSUME NEW n \in 1..L, n - 1 \in S PROVE n \in S
        <3>1. u[n] = u[n - 1] - c.list[L - n + 1].size
            BY <1>2, <1>5
        <3> QED BY <1>4, <2>2, <3>1
    <2>3. \A n \in 0..L : n \in S
        <3> HIDE DEF S
        <3> QED BY <1>2, <2>1, <2>2, UpTo
    <2> QED BY <2>3
<1>7. gone \in 0..L /\ u[gone] <= c.capacity
    <2>1. Within \subseteq Nat /\ L \in Within
        BY <1>2
    <2>2. gone \in Within
        <3> HIDE DEF Within
        <3> QED BY <2>1, MinIs
    <2>3. u[L] = 0
        <3>1. f[0] = 0
            BY <1>1, <1>2 DEF Sums, L
        <3> QED BY <1>2, <1>6, <3>1
    <2> QED BY <2>2, <2>3 DEF IsCache
<1>8. Evict(c) = [c EXCEPT !.list = SubSeq(c.list, 1, L - gone), !.usage = u[gone]]
    BY DEF Evict, L, u
<1> HIDE DEF gone
<1> DEFINE k == L - gone
<1>9. k \in 0..L /\ u[gone] = f[k]
    BY <1>2, <1>6, <1>7
<1>10. SizeOf(SubSeq(c.list, 1, k)) = f[k]
    BY <1>1, <1>9, SizeOfPart DEF IsCache, L
<1>11. /\ DOMAIN Evict(c) = {"capacity", "usage", "list"} /\ Evict(c).capacity = c.capacity
       /\ Evict(c).usage = u[gone] /\ Evict(c).list = SubSeq(c.list, 1, k)
    BY <1>8 DEF IsCache
<1> HIDE DEF k
<1> QED BY <1>7, <1>9, <1>10, <1>11 DEF L

\* Get moves an element to the front.
LEMMA TouchKeeps ==
    ASSUME NEW V, NEW c, IsCache(c, V), Distinct(c.list), NEW key \in CachedKeys(c)
    PROVE  /\ IsCache(Touch(c, key), V) /\ Distinct(Touch(c, key).list)
           /\ Touch(c, key).capacity = c.capacity /\ Touch(c, key).usage = c.usage
           /\ \A i \in DOMAIN Touch(c, key).list : \E j \in DOMAIN c.list :
                 Touch(c, key).list[i] = c.list[j]
           /\ \E j \in DOMAIN c.list : c.list[j].key = key /\ CachedValue(c, key) = c.list[j].value
<1> DEFINE i == ItemOf(c, key)
           L == Len(c.list)
           rest == RemoveAt(c.list, i)
           moved == <<c.list[i]>> \o rest
<1>1. i \in 1..L /\ c.list[i].key = key /\ DOMAIN c.list = 1..L /\ L \in Nat
    <2>1. DOMAIN c.list = 1..L /\ L \in Nat
        BY ElementsSized DEF IsCache, Sized
    <2>2. \E j \in DOMAIN c.list : c.list[j].key = key
        BY DEF CachedKeys
    <2> QED BY <2>1, <2>2 DEF ItemOf
<1>2. c.list \in Seq(Element(V)) /\ c.list[i] \in Element(V) /\ c.list[i].size \in Nat
    <2>1. c.list[i] \in Element(V)
        BY <1>1 DEF IsCache
    <2> QED BY <2>1 DEF IsCache, Element
<1> HIDE DEF i
<1>3. /\ rest \in Seq(Element(V)) /\ Len(rest) = L - 1
      /\ \A j \in 1..(L - 1) : rest[j] = IF j < i THEN c.list[j] ELSE c.list[j + 1]
      /\ SizeOf(rest) = SizeOf(c.list) - c.list[i].size
    BY <1>1, <1>2, SizeOfRemove
<1> HIDE DEF rest
<1>4. /\ moved \in Seq(Element(V)) /\ Len(moved) = L
      /\ SizeOf(moved) = c.list[i].size + SizeOf(rest) /\ SizeOf(rest) \in Nat
    BY <1>1, <1>2, <1>3, SizeOfCons
<1>5. DOMAIN moved = 1..L /\ moved[1] = c.list[i] /\ \A j \in 2..L : moved[j] = rest[j - 1]
    BY <1>1, <1>2, <1>3, <1>4
<1>6. /\ DOMAIN Touch(c, key) = {"capacity", "usage", "list"}
      /\ Touch(c, key).capacity = c.capacity /\ Touch(c, key).usage = c.usage
      /\ Touch(c, key).list = moved
    <2>2. Touch(c, key) = [c EXCEPT !.list = moved]
        BY DEF Touch, MoveToFront, i, rest
    <2> HIDE DEF moved
    <2> QED BY <2>2 DEF IsCache
<1>7. SizeOf(moved) = SizeOf(c.list)
    <2>1. SizeOf(c.list) \in Nat
        BY <1>2, SizeOfCons
    <2> QED BY <1>2, <1>3, <1>4, <2>1
<1> HIDE DEF moved
<1>8. ASSUME NEW j \in 1..L
      PROVE  \E m \in 1..L : /\ moved[j] = c.list[m]
                             /\ m = IF j = 1 THEN i ELSE IF j - 1 < i THEN j - 1 ELSE j
    <2>1. CASE j = 1
        BY <1>1, <1>5, <2>1
    <2>2. CASE j # 1
        <3>1. j \in 2..L /\ j - 1 \in 1..(L - 1)
            BY <1>1, <2>2
        <3>2. moved[j] = rest[j - 1] /\ rest[j - 1] = IF j - 1 < i THEN c.list[j - 1] ELSE c.list[(j - 1) + 1]
            BY <1>3, <1>5, <3>1
        <3>3. (j - 1) + 1 = j
            OBVIOUS
        <3> QED BY <1>1, <2>2, <3>1, <3>2, <3>3
    <2> QED BY <2>1, <2>2
<1>9. Distinct(moved)
    <2>1. SUFFICES ASSUME NEW a \in 1..L, NEW b \in 1..L, moved[a].key = moved[b].key PROVE a = b
        BY <1>5 DEF Distinct
    <2>2. PICK m \in 1..L : moved[a] = c.list[m] /\ m = IF a = 1 THEN i ELSE IF a - 1 < i THEN a - 1 ELSE a
        BY <1>8
    <2>3. PICK n \in 1..L : moved[b] = c.list[n] /\ n = IF b = 1 THEN i ELSE IF b - 1 < i THEN b - 1 ELSE b
        BY <1>8
    <2>4. m = n
        BY <1>1, <2>1, <2>2, <2>3 DEF Distinct
    <2> QED BY <1>1, <2>2, <2>3, <2>4
<1>10. CachedValue(c, key) = c.list[i].value
    BY DEF CachedValue, i
<1>11. IsCache(Touch(c, key), V)
    BY <1>4, <1>6, <1>7 DEF IsCache
<1>12. \A a \in DOMAIN Touch(c, key).list : \E j \in DOMAIN c.list : Touch(c, key).list[a] = c.list[j]
    <2>1. Touch(c, key).list = moved
        BY <1>6
    <2>2. \A a \in DOMAIN moved : \E j \in DOMAIN c.list : moved[a] = c.list[j]
        BY <1>1, <1>5, <1>8
    <2> QED BY <2>1, <2>2
<1> QED BY <1>1, <1>6, <1>9, <1>10, <1>11, <1>12

\* Put has one element for the key, in front, and keeps the bound.
LEMMA PutKeeps ==
    ASSUME NEW V, NEW c, IsCache(c, V), Distinct(c.list),
           NEW key \in Nat \X Nat, NEW value \in V, NEW size \in Nat
    PROVE  /\ IsCache(Put(c, key, value, size), V)
           /\ Distinct(Put(c, key, value, size).list)
           /\ Put(c, key, value, size).capacity = c.capacity
           /\ Put(c, key, value, size).usage <= c.capacity
           /\ \A i \in DOMAIN Put(c, key, value, size).list :
                 \/ Put(c, key, value, size).list[i] = [key |-> key, value |-> value, size |-> size]
                 \/ \E j \in DOMAIN c.list : Put(c, key, value, size).list[i] = c.list[j]
<1> DEFINE e == [key |-> key, value |-> value, size |-> size]
           L == Len(c.list)
           i == ItemOf(c, key)
           rest == IF key \in CachedKeys(c) THEN RemoveAt(c.list, i) ELSE c.list
           usage == IF key \in CachedKeys(c) THEN c.usage - c.list[i].size + size ELSE c.usage + size
           d == [c EXCEPT !.list = <<e>> \o rest, !.usage = usage]
<1>0. e \in Element(V) /\ e.size \in Nat /\ e.size = size /\ e.key = key
    BY DEF Element
<1>1. DOMAIN c.list = 1..L /\ L \in Nat /\ c.list \in Seq(Element(V))
    BY ElementsSized DEF IsCache, Sized
<1>2. Put(c, key, value, size) = Evict(d)
    <2>2. Put(c, key, value, size)
            = Evict(IF key \in CachedKeys(c)
                    THEN [c EXCEPT !.list = <<e>> \o RemoveAt(c.list, i),
                                   !.usage = c.usage - c.list[i].size + size]
                    ELSE [c EXCEPT !.list = <<e>> \o c.list, !.usage = c.usage + size])
        BY DEF Put
    <2> HIDE DEF i, e
    <2>3. CASE key \in CachedKeys(c)
        <3>1. rest = RemoveAt(c.list, i) /\ usage = c.usage - c.list[i].size + size
            BY <2>3
        <3>2. Put(c, key, value, size) = Evict([c EXCEPT !.list = <<e>> \o rest, !.usage = usage])
            BY <2>2, <2>3, <3>1
        <3> QED BY <3>2
    <2>4. CASE key \notin CachedKeys(c)
        <3>1. rest = c.list /\ usage = c.usage + size
            BY <2>4
        <3>2. Put(c, key, value, size) = Evict([c EXCEPT !.list = <<e>> \o rest, !.usage = usage])
            BY <2>2, <2>4, <3>1
        <3> QED BY <3>2
    <2> QED BY <2>3, <2>4
<1>3. /\ rest \in Seq(Element(V)) /\ DOMAIN rest = 1..Len(rest) /\ Len(rest) \in Nat
      /\ \A j \in 1..Len(rest) : rest[j].key # key
      /\ \A j \in 1..Len(rest) : \E m \in 1..L : rest[j] = c.list[m]
      /\ Distinct(rest)
      /\ usage = SizeOf(rest) + size
    <2>1. CASE key \in CachedKeys(c)
        <3>1. i \in 1..L /\ c.list[i].key = key
            <4>1. \E j \in DOMAIN c.list : c.list[j].key = key
                BY <2>1 DEF CachedKeys
            <4> QED BY <1>1, <4>1 DEF ItemOf
        <3>2. c.list[i].size \in Nat
            <4>1. c.list[i] \in Element(V)
                BY <1>1, <3>1
            <4> QED BY <4>1 DEF Element
        <3> DEFINE r == RemoveAt(c.list, i)
        <3> HIDE DEF i
        <3>3. /\ r \in Seq(Element(V)) /\ Len(r) = L - 1
              /\ \A j \in 1..(L - 1) : r[j] = IF j < i THEN c.list[j] ELSE c.list[j + 1]
              /\ SizeOf(r) = SizeOf(c.list) - c.list[i].size
            BY <1>1, <3>1, SizeOfRemove
        <3>4. rest = r /\ usage = c.usage - c.list[i].size + size
            BY <2>1 DEF i
        <3> HIDE DEF r, rest, usage
        <3>5. ASSUME NEW j \in 1..Len(r)
              PROVE  \E m \in 1..L : m # i /\ r[j] = c.list[m] /\ m = IF j < i THEN j ELSE j + 1
            BY <1>1, <3>1, <3>3
        <3>6. \A j \in 1..Len(r) : r[j].key # key
            <4>1. SUFFICES ASSUME NEW j \in 1..Len(r), r[j].key = key PROVE FALSE
                OBVIOUS
            <4>2. PICK m \in 1..L : m # i /\ r[j] = c.list[m]
                BY <3>5
            <4> QED BY <1>1, <3>1, <4>1, <4>2 DEF Distinct
        <3>7. DOMAIN r = 1..Len(r) /\ Len(r) \in Nat
            BY <3>3
        <3>8. Distinct(r)
            <4>1. SUFFICES ASSUME NEW a \in 1..Len(r), NEW b \in 1..Len(r), r[a].key = r[b].key PROVE a = b
                BY <3>7 DEF Distinct
            <4>2. PICK m \in 1..L : r[a] = c.list[m] /\ m = IF a < i THEN a ELSE a + 1
                BY <3>5
            <4>3. PICK n \in 1..L : r[b] = c.list[n] /\ n = IF b < i THEN b ELSE b + 1
                BY <3>5
            <4>4. m = n
                BY <1>1, <4>1, <4>2, <4>3 DEF Distinct
            <4> QED BY <1>1, <3>1, <3>7, <4>2, <4>3, <4>4
        <3>9. usage = SizeOf(r) + size
            <4>1. SizeOf(c.list) \in Nat
                BY <1>0, <1>1, SizeOfCons
            <4> QED BY <3>2, <3>3, <3>4, <4>1 DEF IsCache
        <3> QED BY <3>3, <3>4, <3>5, <3>6, <3>7, <3>8, <3>9
    <2>2. CASE key \notin CachedKeys(c)
        <3>1. rest = c.list /\ usage = SizeOf(c.list) + size
            BY <2>2 DEF IsCache
        <3>2. \A j \in 1..L : c.list[j].key # key
            BY <1>1, <2>2 DEF CachedKeys
        <3> QED BY <1>1, <3>1, <3>2
    <2> QED BY <2>1, <2>2
<1> HIDE DEF rest, usage, e
<1> DEFINE all == <<e>> \o rest
<1>4. /\ all \in Seq(Element(V)) /\ Len(all) = Len(rest) + 1
      /\ SizeOf(all) = size + SizeOf(rest) /\ SizeOf(rest) \in Nat
    BY <1>0, <1>3, SizeOfCons
<1>5. DOMAIN all = 1..(Len(rest) + 1) /\ all[1] = e /\ \A j \in 2..(Len(rest) + 1) : all[j] = rest[j - 1]
    BY <1>0, <1>3, <1>4
<1> HIDE DEF all
<1>6. IsCache(d, V) /\ d.list = all /\ d.capacity = c.capacity
    <2>1. /\ DOMAIN d = {"capacity", "usage", "list"}
          /\ d.capacity = c.capacity /\ d.usage = usage /\ d.list = all
        BY DEF all, IsCache
    <2> HIDE DEF d
    <2>2. usage = SizeOf(all)
        BY <1>3, <1>4
    <2> QED BY <1>4, <2>1, <2>2 DEF IsCache
<1> HIDE DEF d
<1>7. PICK k \in 0..Len(all) :
        /\ DOMAIN Evict(d) = {"capacity", "usage", "list"}
        /\ Evict(d).capacity = c.capacity
        /\ Evict(d).usage = SizeOf(SubSeq(all, 1, k))
        /\ Evict(d).list = SubSeq(all, 1, k)
        /\ SizeOf(SubSeq(all, 1, k)) <= c.capacity
    BY <1>6, EvictKeeps
<1> DEFINE kept == SubSeq(all, 1, k)
<1>8. /\ kept \in Seq(Element(V)) /\ DOMAIN kept = 1..k /\ k <= Len(rest) + 1
      /\ \A j \in 1..k : kept[j] = all[j]
    BY <1>3, <1>4
<1> HIDE DEF kept
<1>9. ASSUME NEW j \in 1..k
      PROVE  \/ j = 1 /\ kept[j] = e
             \/ j > 1 /\ j - 1 \in 1..Len(rest) /\ kept[j] = rest[j - 1]
    <2>1. j \in 1..(Len(rest) + 1)
        BY <1>3, <1>8
    <2> QED BY <1>3, <1>5, <1>8, <2>1
<1>10. Distinct(kept)
    <2>1. SUFFICES ASSUME NEW a \in 1..k, NEW b \in 1..k, kept[a].key = kept[b].key PROVE a = b
        BY <1>8 DEF Distinct
    <2>2. CASE a = 1 /\ b = 1
        BY <2>2
    <2>3. CASE a # 1 /\ b # 1
        <3>1. /\ a - 1 \in 1..Len(rest) /\ kept[a] = rest[a - 1]
              /\ b - 1 \in 1..Len(rest) /\ kept[b] = rest[b - 1]
            BY <1>9, <2>3
        <3>2. rest[a - 1].key = rest[b - 1].key
            BY <2>1, <3>1
        <3>3. a - 1 = b - 1
            BY <1>3, <3>1, <3>2 DEF Distinct
        <3> QED BY <3>3
    <2>4. CASE a = 1 /\ b # 1
        BY <1>0, <1>3, <1>9, <2>1, <2>4
    <2>5. CASE a # 1 /\ b = 1
        BY <1>0, <1>3, <1>9, <2>1, <2>5
    <2> QED BY <2>2, <2>3, <2>4, <2>5
<1>11. \A j \in 1..k : kept[j] = e \/ \E m \in 1..L : kept[j] = c.list[m]
    BY <1>3, <1>9
<1>12. /\ DOMAIN Put(c, key, value, size) = {"capacity", "usage", "list"}
       /\ Put(c, key, value, size).capacity = c.capacity
       /\ Put(c, key, value, size).usage = SizeOf(kept)
       /\ Put(c, key, value, size).list = kept
    BY <1>2, <1>7 DEF kept
<1>13. SizeOf(kept) <= c.capacity /\ c.capacity \in Nat
    BY <1>7 DEF IsCache, kept
<1>14. IsCache(Put(c, key, value, size), V)
    BY <1>8, <1>12, <1>13 DEF IsCache
<1> QED BY <1>1, <1>8, <1>10, <1>11, <1>12, <1>13, <1>14 DEF e

-----------------------------------------------------------------------------
(* The order of keys.                                                      *)

\* A strict prefix, by its bytes.
LEMMA PrefixIs ==
    ASSUME NEW a \in Seq(Nat), NEW b \in Seq(Nat)
    PROVE  IsStrictPrefix(a, b) <=> Len(a) < Len(b) /\ \A i \in 1..Len(a) : a[i] = b[i]
<1>1. ASSUME Len(a) <= Len(b)
      PROVE  SubSeq(a, 1, Len(a)) = SubSeq(b, 1, Len(a)) <=> \A i \in 1..Len(a) : a[i] = b[i]
    <2> DEFINE c == SubSeq(a, 1, Len(a))
               d == SubSeq(b, 1, Len(a))
    <2>1. c \in Seq(Nat) /\ Len(c) = Len(a) /\ \A i \in 1..Len(a) : c[i] = a[i]
        OBVIOUS
    <2>2. d \in Seq(Nat) /\ Len(d) = Len(a) /\ \A i \in 1..Len(a) : d[i] = b[i]
        BY <1>1
    <2> HIDE DEF c, d
    <2>3. c = d <=> \A i \in 1..Len(a) : c[i] = d[i]
        BY <2>1, <2>2, SeqEqual
    <2> QED BY <2>1, <2>2, <2>3 DEF c, d
<1>2. Len(a) = Len(b) /\ (\A i \in 1..Len(a) : a[i] = b[i]) <=> a = b
    BY SeqEqual
<1>3. IsPrefix(a, b) <=> Len(a) <= Len(b) /\ \A i \in 1..Len(a) : a[i] = b[i]
    BY <1>1 DEF IsPrefix
<1> QED BY <1>2, <1>3 DEF IsStrictPrefix

\* bytes.Compare is transitive.
LEMMA LessTransitive ==
    ASSUME NEW a \in Seq(Nat), NEW b \in Seq(Nat), NEW c \in Seq(Nat), Less(a, b), Less(b, c)
    PROVE  Less(a, c)
<1> DEFINE Shorter(x, y) == Len(x) < Len(y) /\ \A i \in 1..Len(x) : x[i] = y[i]
           Differs(x, y, i) == /\ i \in 1..Len(x) /\ i \in 1..Len(y) /\ x[i] < y[i]
                               /\ \A j \in 1..(i - 1) : x[j] = y[j]
<1>1. \A x, y \in Seq(Nat) : Less(x, y) <=> Shorter(x, y) \/ \E i \in Nat : Differs(x, y, i)
    <2>1. \A x, y \in Seq(Nat) : IsStrictPrefix(x, y) <=> Shorter(x, y)
        BY PrefixIs
    <2>2. \A x, y \in Seq(Nat) : DOMAIN x = 1..Len(x) /\ DOMAIN y = 1..Len(y)
        OBVIOUS
    <2>3. ASSUME NEW x \in Seq(Nat), NEW y \in Seq(Nat)
          PROVE  (\E i \in DOMAIN x \cap DOMAIN y : x[i] < y[i] /\ \A j \in 1..(i - 1) : x[j] = y[j])
                    <=> \E i \in Nat : Differs(x, y, i)
        <3>1. DOMAIN x \cap DOMAIN y \subseteq Nat
            BY <2>2
        <3> QED BY <2>2, <3>1
    <2> HIDE DEF Shorter, Differs
    <2> QED BY <2>1, <2>3 DEF Less
<1>2. /\ Len(a) \in Nat /\ Len(b) \in Nat /\ Len(c) \in Nat
      /\ \A i \in 1..Len(a) : a[i] \in Nat
      /\ \A i \in 1..Len(b) : b[i] \in Nat
      /\ \A i \in 1..Len(c) : c[i] \in Nat
    OBVIOUS
<1>3. CASE Shorter(a, b) /\ Shorter(b, c)
    <2>1. Shorter(a, c)
        BY <1>2, <1>3
    <2> HIDE DEF Shorter, Differs
    <2> QED BY <1>1, <2>1
<1>4. CASE Shorter(a, b) /\ \E i \in Nat : Differs(b, c, i)
    <2>1. PICK i \in Nat : Differs(b, c, i)
        BY <1>4
    <2>2. CASE i <= Len(a)
        <3>1. Differs(a, c, i)
            BY <1>2, <1>4, <2>1, <2>2
        <3> HIDE DEF Shorter, Differs
        <3> QED BY <1>1, <3>1
    <2>3. CASE i > Len(a)
        <3>1. Shorter(a, c)
            BY <1>2, <1>4, <2>1, <2>3
        <3> HIDE DEF Shorter, Differs
        <3> QED BY <1>1, <3>1
    <2> QED BY <1>2, <2>2, <2>3
<1>5. CASE (\E i \in Nat : Differs(a, b, i)) /\ Shorter(b, c)
    <2>1. PICK i \in Nat : Differs(a, b, i)
        BY <1>5
    <2>2. i \in 1..Len(c) /\ c[i] = b[i] /\ i \in 1..Len(a) /\ a[i] < c[i]
        BY <1>2, <1>5, <2>1
    <2>3. \A j \in 1..(i - 1) : j \in 1..Len(b)
        BY <1>2, <2>1
    <2>4. \A j \in 1..(i - 1) : a[j] = c[j]
        BY <1>5, <2>1, <2>3
    <2>5. Differs(a, c, i)
        BY <2>2, <2>4
    <2> HIDE DEF Shorter, Differs
    <2> QED BY <1>1, <2>5
<1>6. CASE (\E i \in Nat : Differs(a, b, i)) /\ \E i \in Nat : Differs(b, c, i)
    <2>1. PICK i \in Nat : Differs(a, b, i)
        BY <1>6
    <2>2. PICK k \in Nat : Differs(b, c, k)
        BY <1>6
    <2>3. CASE i < k
        <3>1. Differs(a, c, i)
            BY <1>2, <2>1, <2>2, <2>3
        <3> HIDE DEF Shorter, Differs
        <3> QED BY <1>1, <3>1
    <2>4. CASE i >= k
        <3>0. k \in 1..Len(a) /\ k \in 1..Len(c) /\ b[k] < c[k] /\ k \in 1..Len(b)
            BY <1>2, <2>1, <2>2, <2>4
        <3>2. a[k] < c[k]
            <4>1. a[k] = b[k] \/ a[k] < b[k]
                BY <2>1, <2>2, <2>4, <3>0
            <4>2. a[k] \in Nat /\ b[k] \in Nat /\ c[k] \in Nat
                BY <1>2, <3>0
            <4> QED BY <3>0, <4>1, <4>2
        <3>3. \A j \in 1..(k - 1) : j \in 1..(i - 1)
            BY <2>4
        <3>4. \A j \in 1..(k - 1) : a[j] = c[j]
            BY <2>1, <2>2, <3>3
        <3>1. Differs(a, c, k)
            BY <3>0, <3>2, <3>4
        <3> HIDE DEF Shorter, Differs
        <3> QED BY <1>1, <3>1
    <2> QED BY <2>3, <2>4
<1>7. /\ Shorter(a, b) \/ \E i \in Nat : Differs(a, b, i)
      /\ Shorter(b, c) \/ \E i \in Nat : Differs(b, c, i)
    <2> HIDE DEF Shorter, Differs
    <2> QED BY <1>1
<1> HIDE DEF Shorter, Differs
<1> QED BY <1>3, <1>4, <1>5, <1>6, <1>7

\* The entries from + 1 to to have keys in byte order.
InOrder(es, from, to) ==
    \A i, j \in (from + 1)..to : i < j => Less(es[i].key, es[j].key)

LEMMA SortedInOrder ==
    ASSUME NEW es, Len(es) \in Nat, \A i \in 1..Len(es) : es[i].key \in Seq(Nat), BytesSorted(es)
    PROVE  InOrder(es, 0, Len(es))
<1> DEFINE S == {n \in 0..Len(es) : \A i \in 1..n : i < n => Less(es[i].key, es[n].key)}
<1>1. 0 \in S
    OBVIOUS
<1>2. ASSUME NEW n \in 1..Len(es), n - 1 \in S PROVE n \in S
    <2>1. ASSUME NEW i \in 1..n, i < n PROVE Less(es[i].key, es[n].key)
        <3>1. n - 1 \in 1..(Len(es) - 1) /\ (n - 1) + 1 = n
            BY <2>1
        <3>2. Less(es[n - 1].key, es[n].key)
            BY <3>1 DEF BytesSorted
        <3>3. CASE i = n - 1
            BY <3>2, <3>3
        <3>4. CASE i < n - 1
            <4>1. Less(es[i].key, es[n - 1].key)
                BY <1>2, <2>1, <3>4
            <4>2. es[i].key \in Seq(Nat) /\ es[n - 1].key \in Seq(Nat) /\ es[n].key \in Seq(Nat)
                BY <2>1, <3>1
            <4> QED BY <3>2, <4>1, <4>2, LessTransitive
        <3> QED BY <2>1, <3>3, <3>4
    <2> QED BY <2>1
<1>3. \A n \in 0..Len(es) : n \in S
    <2> HIDE DEF S
    <2> QED BY <1>1, <1>2, UpTo
<1>4. \A i, j \in 1..Len(es) : i < j => Less(es[i].key, es[j].key)
    BY <1>3
<1> QED BY <1>4 DEF InOrder

-----------------------------------------------------------------------------
(* The builder of a block.                                                 *)

LEMMA SharedPrefixIs ==
    ASSUME NEW a \in Seq(Nat), NEW b \in Seq(Nat)
    PROVE  /\ SharedPrefix(a, b) \in 0..Len(a) /\ SharedPrefix(a, b) <= Len(b)
           /\ SubSeq(a, 1, SharedPrefix(a, b)) = SubSeq(b, 1, SharedPrefix(a, b))
<1> DEFINE S == {n \in 0..Len(a) : n <= Len(b) /\ SubSeq(a, 1, n) = SubSeq(b, 1, n)}
<1>1. S \subseteq 0..Len(a) /\ Len(a) \in Nat
    OBVIOUS
<1>2. 0 \in S
    <2>1. SubSeq(a, 1, 0) = <<>> /\ SubSeq(b, 1, 0) = <<>>
        BY EmptySeq
    <2> QED BY <2>1
<1>3. Max(S) \in S
    <2> HIDE DEF S
    <2> QED BY <1>1, <1>2, MaxIs
<1> QED BY <1>3 DEF SharedPrefix

\* A key is its first bytes and the rest.
LEMMA SplitKey ==
    ASSUME NEW key \in Seq(Nat), NEW n \in 0..Len(key)
    PROVE  /\ SubSeq(key, n + 1, Len(key)) \in Seq(Nat)
           /\ SubSeq(key, 1, n) \o SubSeq(key, n + 1, Len(key)) = key
           /\ n = 0 => SubSeq(key, n + 1, Len(key)) = key
<1> DEFINE a == SubSeq(key, 1, n)
           b == SubSeq(key, n + 1, Len(key))
<1>1. a \in Seq(Nat) /\ Len(a) = n /\ \A i \in 1..n : a[i] = key[i]
    OBVIOUS
<1>0. Len(key) \in Nat /\ n \in Nat /\ n <= Len(key)
    OBVIOUS
<1>2. b \in Seq(Nat) /\ Len(b) = Len(key) - n /\ \A i \in 1..(Len(key) - n) : b[i] = key[n + i]
    <2> DEFINE L == Len(key)
    <2>0. L \in Nat /\ n \in Nat /\ n <= L /\ \A i \in 1..L : key[i] \in Nat
        BY <1>0
    <2> HIDE DEF L
    <2>1. n + 1 \in Int /\ L \in Int /\ \A i \in (n + 1)..L : key[i] \in Nat
        BY <2>0
    <2>2. /\ SubSeq(key, n + 1, L) \in Seq(Nat)
          /\ Len(SubSeq(key, n + 1, L)) = IF n + 1 <= L THEN L - (n + 1) + 1 ELSE 0
          /\ \A i \in 1..(L - (n + 1) + 1) : SubSeq(key, n + 1, L)[i] = key[(n + 1) + i - 1]
        BY <2>1, SubSeqProperties
    <2>3. /\ (IF n + 1 <= L THEN L - (n + 1) + 1 ELSE 0) = L - n /\ L - (n + 1) + 1 = L - n
          /\ \A i \in 1..(L - n) : (n + 1) + i - 1 = n + i
        BY <2>0
    <2> QED BY <2>2, <2>3 DEF L
<1> HIDE DEF a, b
<1>3. a \o b \in Seq(Nat) /\ Len(a \o b) = Len(key)
    <2>1. a \o b \in Seq(Nat) /\ Len(a \o b) = Len(a) + Len(b)
        BY <1>1, <1>2, ConcatProperties
    <2> QED BY <1>0, <1>1, <1>2, <2>1
<1>4. ASSUME NEW i \in 1..Len(key) PROVE (a \o b)[i] = key[i]
    <2>1. (a \o b)[i] = IF i <= n THEN a[i] ELSE b[i - n]
        BY <1>1, <1>2
    <2>2. CASE i <= n
        BY <1>1, <2>1, <2>2
    <2>3. CASE i > n
        <3>1. i - n \in 1..(Len(key) - n) /\ n + (i - n) = i
            BY <1>0, <2>3
        <3> QED BY <1>0, <1>2, <2>1, <2>3, <3>1
    <2>4. i <= n \/ i > n
        BY <1>0
    <2> QED BY <2>2, <2>3, <2>4
<1>5. a \o b = key
    BY <1>3, <1>4, SeqEqual
<1>6. n = 0 => b = key
    BY <1>2, SeqEqual
<1> QED BY <1>2, <1>5, <1>6 DEF a, b

\* A builder that was given the entries from + 1 to to.
Building(b, es, from, to) ==
    /\ Encodes(b, es, from, to)
    /\ \E S : b.entries \in Seq(S)
    /\ b.counter \in Nat /\ (to = from => b.counter = 0)
    /\ b.last = IF to = from THEN <<>> ELSE es[to].key

LEMMA NewBlockEncodes ==
    ASSUME NEW es, NEW n \in Nat
    PROVE  Building(NewBlockBuilder, es, n, n)
<1>1. <<1>> \in Seq(Nat) /\ Len(<<1>>) = 1 /\ <<1>>[1] = 1 /\ <<>> \in Seq({}) /\ Len(<<>>) = 0
    OBVIOUS
<1>2. n - n = 0
    OBVIOUS
<1> DEFINE b == NewBlockBuilder
<1>3. b.entries = <<>> /\ b.restarts = <<1>> /\ b.counter = 0 /\ b.last = <<>>
    BY DEF NewBlockBuilder
<1>4. \A i \in 1..(n - n) : FALSE
    BY <1>2
<1>5. \A j \in 2..Len(b.restarts) : FALSE
    BY <1>1, <1>3
<1> HIDE DEF b
<1>6. Encodes(b, es, n, n)
    BY <1>1, <1>2, <1>3, <1>4, <1>5 DEF Encodes
<1>7. \E S : b.entries \in Seq(S)
    BY <1>1, <1>3
<1> QED BY <1>3, <1>6, <1>7 DEF Building, b

\* BlockBuilder.Add encodes the next entry.
LEMMA BlockAddEncodes ==
    ASSUME NEW es, NEW from \in Nat, NEW to \in Nat, from <= to, NEW b, Building(b, es, from, to),
           es[to + 1].key \in Seq(Nat), to > from => es[to].key \in Seq(Nat)
    PROVE  Building(BlockAdd(b, es[to + 1].key, es[to + 1].value), es, from, to + 1)
<1> DEFINE key == es[to + 1].key
           value == es[to + 1].value
           N == to - from
           restart == b.counter >= RestartInterval
           shared == IF restart THEN 0 ELSE SharedPrefix(b.last, key)
           rest == SubSeq(key, shared + 1, Len(key))
           x == [shared |-> shared, rest |-> rest, value |-> value]
           entries == Append(b.entries, x)
           restarts == IF restart THEN Append(b.restarts, Len(b.entries) + 1) ELSE b.restarts
           d == BlockAdd(b, key, value)
<1>1. /\ d.entries = entries /\ d.restarts = restarts
      /\ d.counter = (IF restart THEN 1 ELSE b.counter + 1) /\ d.last = key
    BY DEF BlockAdd
<1>2. /\ N \in Nat /\ Len(b.entries) = N /\ b.counter \in Nat
      /\ b.last = (IF to = from THEN <<>> ELSE es[to].key) /\ b.last \in Seq(Nat)
      /\ b.restarts \in Seq(Nat) /\ Len(b.restarts) > 0 /\ b.restarts[1] = 1
      /\ restart => to > from /\ N > 0
    <2>1. <<>> \in Seq(Nat)
        OBVIOUS
    <2>2. RestartInterval \in Nat \ {0}
        BY RestartIntervalAssumption
    <2> QED BY <2>1, <2>2 DEF Building, Encodes
<1>3. shared \in 0..Len(key) /\ Len(key) \in Nat
    <2>1. Len(key) \in Nat /\ Len(b.last) \in Nat
        BY <1>2
    <2>2. SharedPrefix(b.last, key) \in 0..Len(b.last) /\ SharedPrefix(b.last, key) <= Len(key)
        BY <1>2, SharedPrefixIs
    <2> QED BY <2>1, <2>2
<1>4. /\ shared \in Nat /\ rest \in Seq(Nat)
      /\ shared = 0 => rest = key
      /\ SubSeq(key, 1, shared) \o rest = key
    <2>1. key \in Seq(Nat)
        OBVIOUS
    <2> HIDE DEF shared, key
    <2>2. shared \in Nat
        BY <1>3
    <2> QED BY <1>3, <2>1, <2>2, SplitKey
<1>5. shared > 0 =>
         /\ to > from /\ shared <= Len(es[to].key)
         /\ SubSeq(es[to].key, 1, shared) \o rest = key
    <2>1. SUFFICES ASSUME shared > 0
                   PROVE  /\ to > from /\ shared <= Len(es[to].key)
                          /\ SubSeq(es[to].key, 1, shared) \o rest = key
        OBVIOUS
    <2>2. shared = SharedPrefix(b.last, key)
        BY <2>1
    <2>3. /\ shared \in 0..Len(b.last)
          /\ SubSeq(b.last, 1, shared) = SubSeq(key, 1, shared)
        BY <1>2, <2>2, SharedPrefixIs
    <2>4. to # from
        <3>1. SUFFICES ASSUME to = from PROVE FALSE
            OBVIOUS
        <3>2. Len(b.last) = 0
            BY <1>2, <3>1
        <3> QED BY <2>1, <2>3, <3>2
    <2>5. b.last = es[to].key
        BY <1>2, <2>4
    <2>6. shared <= Len(es[to].key)
        BY <2>3, <2>5
    <2>7. to > from
        BY <2>4
    <2> HIDE DEF shared, rest, key
    <2> QED BY <1>4, <2>3, <2>5, <2>6, <2>7
<1>6. /\ (\E S : entries \in Seq(S)) /\ Len(entries) = N + 1
      /\ \A i \in 1..N : entries[i] = b.entries[i]
      /\ entries[N + 1] = x
    <2>1. PICK S : b.entries \in Seq(S)
        BY DEF Building
    <2> DEFINE T == S \cup {x}
    <2>2. b.entries \in Seq(T) /\ x \in T
        <3> HIDE DEF x
        <3> QED BY <2>1
    <2> HIDE DEF x, T
    <2>3. /\ entries \in Seq(T) /\ Len(entries) = Len(b.entries) + 1
          /\ \A i \in 1..Len(b.entries) : entries[i] = b.entries[i]
          /\ entries[Len(b.entries) + 1] = x
        BY <2>2
    <2>4. Len(entries) = N + 1 /\ (\A i \in 1..N : entries[i] = b.entries[i]) /\ entries[N + 1] = x
        BY <1>2, <2>3
    <2> QED BY <2>3, <2>4
<1>7. x.shared = shared /\ x.rest = rest /\ x.value = value
    OBVIOUS
<1>8. /\ restarts \in Seq(Nat) /\ Len(restarts) > 0 /\ restarts[1] = 1
      /\ \A j \in 2..Len(restarts) :
            /\ restarts[j] \in 1..(N + 1)
            /\ \/ restarts[j] \in 1..N /\ b.entries[restarts[j]].shared = 0
               \/ restarts[j] = N + 1 /\ shared = 0
    <2>1. \A j \in 2..Len(b.restarts) : b.restarts[j] \in 1..N /\ b.entries[b.restarts[j]].shared = 0
        BY DEF Building, Encodes
    <2>2. CASE restart
        <3>1. restarts = Append(b.restarts, N + 1) /\ shared = 0
            BY <1>2, <2>2
        <3> HIDE DEF restarts, shared, N
        <3>2. /\ restarts \in Seq(Nat) /\ Len(restarts) = Len(b.restarts) + 1
              /\ \A j \in 1..Len(b.restarts) : restarts[j] = b.restarts[j]
              /\ restarts[Len(b.restarts) + 1] = N + 1
            BY <1>2, <3>1
        <3>3. Len(b.restarts) \in Nat
            BY <1>2
        <3>4. Len(restarts) > 0 /\ restarts[1] = 1
            <4>1. 1 \in 1..Len(b.restarts)
                BY <1>2, <3>3
            <4>2. restarts[1] = b.restarts[1]
                BY <3>2, <4>1
            <4> QED BY <1>2, <3>2, <3>3, <4>2
        <3>5. ASSUME NEW j \in 2..Len(restarts)
              PROVE  /\ restarts[j] \in 1..(N + 1)
                     /\ \/ restarts[j] \in 1..N /\ b.entries[restarts[j]].shared = 0
                        \/ restarts[j] = N + 1 /\ shared = 0
            <4>1. CASE j = Len(b.restarts) + 1
                BY <1>2, <3>1, <3>2, <4>1
            <4>2. CASE j \in 2..Len(b.restarts)
                <5>1. restarts[j] = b.restarts[j]
                    BY <3>2, <4>2
                <5> QED BY <1>2, <2>1, <4>2, <5>1
            <4> QED BY <3>2, <3>3, <4>1, <4>2
        <3> QED BY <3>2, <3>4, <3>5
    <2>3. CASE ~restart
        <3>1. restarts = b.restarts
            BY <2>3
        <3> HIDE DEF restarts, N
        <3> QED BY <1>2, <2>1, <3>1
    <2> QED BY <2>2, <2>3
<1> HIDE DEF entries, restarts, x, shared, rest
<1>9. ASSUME NEW i \in 1..(N + 1)
      PROVE  /\ entries[i].shared \in Nat /\ entries[i].rest \in Seq(Nat)
             /\ entries[i].value = es[from + i].value
             /\ entries[i].shared = 0 => entries[i].rest = es[from + i].key
             /\ entries[i].shared > 0 =>
                   /\ i > 1
                   /\ entries[i].shared <= Len(es[from + i - 1].key)
                   /\ SubSeq(es[from + i - 1].key, 1, entries[i].shared) \o entries[i].rest
                        = es[from + i].key
    <2>1. CASE i \in 1..N
        <3>1. entries[i] = b.entries[i]
            BY <1>6, <2>1
        <3> QED BY <2>1, <3>1 DEF Building, Encodes
    <2>2. CASE i = N + 1
        <3>1. entries[i] = x /\ from + i = to + 1 /\ from + i - 1 = to
            BY <1>6, <2>2
        <3>2. to > from => i > 1
            BY <2>2
        <3> HIDE DEF N
        <3> QED BY <1>4, <1>5, <1>7, <3>1, <3>2
    <2>3. i \in 1..N \/ i = N + 1
        BY <1>2
    <2> QED BY <2>1, <2>2, <2>3
<1>10. \A j \in 2..Len(restarts) :
          restarts[j] \in 1..(N + 1) /\ entries[restarts[j]].shared = 0
    BY <1>6, <1>7, <1>8
<1>11. (to + 1) - from = N + 1
    OBVIOUS
<1> HIDE DEF d
<1>12. Encodes(d, es, from, to + 1)
    <2> HIDE DEF N
    <2> QED BY <1>1, <1>6, <1>8, <1>9, <1>10, <1>11 DEF Encodes
<1>13. d.counter \in Nat /\ to + 1 # from
    BY <1>1, <1>2
<1>14. Building(d, es, from, to + 1)
    BY <1>1, <1>6, <1>12, <1>13 DEF Building
<1> QED BY <1>14 DEF d

-----------------------------------------------------------------------------
(* The iterator of a block.                                                *)

\* The entries a block may hold.
Keyed(es, from, to) ==
    /\ from \in Nat /\ to \in Nat /\ from <= to
    /\ \A i \in (from + 1)..to : es[i].key \in Seq(Nat)

\* ParseNext decodes the next entry.
LEMMA ParseNextOK ==
    ASSUME NEW es, NEW from, NEW to, Keyed(es, from, to), NEW b, BlockIterOK(b, es, from, to)
    PROVE  /\ BlockIterOK(ParseNext(b), es, from, to)
           /\ ParseNext(b).block = b.block
           /\ b.next <= to - from => ParseNext(b).valid /\ ParseNext(b).next = b.next + 1
           /\ b.next > to - from => ~ParseNext(b).valid /\ ParseNext(b).next = b.next
<1> DEFINE N == to - from
           c == ParseNext(b)
           e == b.block.entries[b.next]
<1>1. /\ N \in Nat /\ b.next \in 1..(N + 1) /\ Len(b.block.entries) = N
      /\ DOMAIN b = {"block", "next", "key", "value", "valid", "err"}
      /\ b.err = FALSE /\ b.key \in Seq(Nat) /\ Encodes(b.block, es, from, to)
      /\ from \in Nat /\ to \in Nat
    <2>1. /\ b.next \in 1..(to - from + 1) /\ Encodes(b.block, es, from, to)
          /\ DOMAIN b = {"block", "next", "key", "value", "valid", "err"}
          /\ b.err = FALSE /\ b.key \in Seq(Nat)
        BY DEF BlockIterOK
    <2>2. Len(b.block.entries) = N
        BY <2>1 DEF Encodes
    <2>3. N \in Nat /\ from \in Nat /\ to \in Nat
        BY DEF Keyed
    <2> QED BY <2>1, <2>2, <2>3
<1>2. CASE b.next > N
    <2>1. c = [b EXCEPT !.valid = FALSE]
        BY <1>1, <1>2 DEF ParseNext
    <2> HIDE DEF c
    <2>2. /\ DOMAIN c = {"block", "next", "key", "value", "valid", "err"}
          /\ c.block = b.block /\ c.next = b.next /\ c.key = b.key /\ c.err = FALSE /\ c.valid = FALSE
        BY <1>1, <2>1
    <2>3. BlockIterOK(c, es, from, to)
        BY <1>1, <1>2, <2>2 DEF BlockIterOK
    <2> QED BY <1>1, <1>2, <2>2, <2>3 DEF c
<1>3. CASE b.next <= N
    <2> DEFINE key == es[from + b.next].key
    <2>1. b.next \in 1..N /\ b.next \in Nat
        BY <1>1, <1>3
    <2>2. /\ e.shared \in Nat /\ e.rest \in Seq(Nat) /\ e.value = es[from + b.next].value
          /\ e.shared = 0 => e.rest = key
          /\ e.shared > 0 =>
                /\ b.next > 1
                /\ e.shared <= Len(es[from + b.next - 1].key)
                /\ SubSeq(es[from + b.next - 1].key, 1, e.shared) \o e.rest = key
        BY <1>1, <2>1 DEF Encodes
    <2>3. e.shared > 0 => b.key = es[from + b.next - 1].key
        <3>1. \/ e.shared = 0
              \/ b.next > 1 /\ b.key = es[from + b.next - 1].key
            BY <1>3 DEF BlockIterOK
        <3> HIDE DEF e
        <3>2. e.shared > 0 => e.shared # 0
            BY <2>2
        <3> QED BY <3>1, <3>2
    <2>4. key \in Seq(Nat)
        <3>1. from + b.next \in (from + 1)..to
            BY <1>1, <2>1
        <3> QED BY <3>1 DEF Keyed
    <2>5. ParseOk(b, b.next) /\ ParseKey(b, b.next) = key
        <3>1. ParseOk(b, b.next) <=> e.shared <= Len(b.key)
            BY DEF ParseOk
        <3>2. ParseKey(b, b.next) = SubSeq(b.key, 1, e.shared) \o e.rest
            BY DEF ParseKey
        <3>3. CASE e.shared = 0
            <4>1. Len(b.key) \in Nat /\ SubSeq(b.key, 1, 0) = <<>>
                BY <1>1, EmptySeq
            <4>2. <<>> \o e.rest = e.rest
                BY <2>2, ConcatEmptySeq
            <4> HIDE DEF e, key
            <4> QED BY <2>2, <3>1, <3>2, <3>3, <4>1, <4>2
        <3>4. CASE e.shared > 0
            <4> HIDE DEF e, key
            <4> QED BY <2>2, <2>3, <3>1, <3>2, <3>4
        <3> HIDE DEF e
        <3> QED BY <2>2, <3>3, <3>4
    <2>6. c = [b EXCEPT !.key = key, !.value = e.value, !.next = b.next + 1, !.valid = TRUE]
        <3>1. ~(b.next > Len(b.block.entries))
            BY <1>1, <1>3
        <3> HIDE DEF key
        <3> QED BY <2>5, <3>1 DEF ParseNext
    <2> HIDE DEF c, key, e
    <2>7. /\ DOMAIN c = {"block", "next", "key", "value", "valid", "err"}
          /\ c.block = b.block /\ c.next = b.next + 1 /\ c.key = key /\ c.err = FALSE
          /\ c.valid = TRUE /\ c.value = e.value
        BY <1>1, <2>6
    <2>8. from + c.next - 1 = from + b.next /\ c.next \in 1..(N + 1) /\ c.next > 1
        BY <1>1, <2>1, <2>7
    <2>9. BlockIterOK(c, es, from, to)
        BY <1>1, <2>2, <2>4, <2>7, <2>8 DEF BlockIterOK, key
    <2>10. ~(b.next > N)
        BY <1>1, <1>3, <2>1
    <2> QED BY <1>3, <2>7, <2>9, <2>10 DEF c
<1> QED BY <1>1, <1>2, <1>3

LEMMA SeekToRestartOK ==
    ASSUME NEW es, NEW from, NEW to, Keyed(es, from, to), NEW b, BlockIterOK(b, es, from, to),
           NEW j \in 1..Len(b.block.restarts)
    PROVE  /\ BlockIterOK(SeekToRestartPoint(b, j), es, from, to)
           /\ SeekToRestartPoint(b, j).block = b.block
           /\ SeekToRestartPoint(b, j).next = b.block.restarts[j]
           /\ b.block.restarts[j] \in 1..(to - from + 1)
           /\ j = 1 => b.block.restarts[j] = 1
<1> DEFINE N == to - from
           c == SeekToRestartPoint(b, j)
           at == b.block.restarts[j]
<1>1. /\ N \in Nat /\ DOMAIN b = {"block", "next", "key", "value", "valid", "err"}
      /\ b.err = FALSE /\ b.key \in Seq(Nat) /\ Encodes(b.block, es, from, to)
    BY DEF BlockIterOK, Keyed
<1>2. at \in 1..(N + 1) /\ (at <= N => b.block.entries[at].shared = 0) /\ (j = 1 => at = 1)
    <2>1. CASE j = 1
        <3>1. at = 1
            BY <1>1, <2>1 DEF Encodes
        <3>2. ASSUME 1 <= N PROVE b.block.entries[1].shared = 0
            <4>1. 1 \in 1..N
                BY <1>1, <3>2
            <4>2. b.block.entries[1].shared \in Nat /\ ~(b.block.entries[1].shared > 0)
                BY <1>1, <4>1 DEF Encodes
            <4> QED BY <4>2
        <3> QED BY <1>1, <3>1, <3>2
    <2>2. CASE j # 1
        <3>1. j \in 2..Len(b.block.restarts)
            BY <1>1, <2>2 DEF Encodes
        <3>2. at \in 1..N /\ b.block.entries[at].shared = 0
            BY <1>1, <3>1 DEF Encodes
        <3> QED BY <1>1, <2>2, <3>2
    <2> QED BY <2>1, <2>2
<1>3. c = [b EXCEPT !.next = at, !.valid = FALSE]
    BY DEF SeekToRestartPoint
<1> HIDE DEF c, at
<1>4. /\ DOMAIN c = {"block", "next", "key", "value", "valid", "err"}
      /\ c.block = b.block /\ c.next = at /\ c.key = b.key /\ c.err = FALSE /\ c.valid = FALSE
    BY <1>1, <1>3
<1>5. BlockIterOK(c, es, from, to)
    BY <1>1, <1>2, <1>4 DEF BlockIterOK
<1> QED BY <1>2, <1>4, <1>5 DEF c, at

LEMMA SeekToFirstOK ==
    ASSUME NEW es, NEW from, NEW to, Keyed(es, from, to), NEW b, BlockIterOK(b, es, from, to)
    PROVE  /\ BlockIterOK(BlockSeekToFirst(b), es, from, to)
           /\ BlockSeekToFirst(b).block = b.block
           /\ to > from => BlockSeekToFirst(b).valid /\ BlockSeekToFirst(b).next = 2
           /\ to = from => ~BlockSeekToFirst(b).valid
<1> DEFINE s == SeekToRestartPoint(b, 1)
<1>1. 1 \in 1..Len(b.block.restarts)
    <2>1. b.block.restarts \in Seq(Nat) /\ Len(b.block.restarts) > 0
        BY DEF BlockIterOK, Encodes
    <2>2. Len(b.block.restarts) \in Nat
        BY <2>1
    <2> QED BY <2>1, <2>2
<1>2. BlockIterOK(s, es, from, to) /\ s.block = b.block /\ s.next = 1
    BY <1>1, SeekToRestartOK
<1> HIDE DEF s
<1>3. BlockSeekToFirst(b) = ParseNext(s)
    BY DEF BlockSeekToFirst, s
<1>4. from \in Nat /\ to \in Nat /\ from <= to
    BY DEF Keyed
<1>5. /\ BlockIterOK(ParseNext(s), es, from, to) /\ ParseNext(s).block = s.block
      /\ s.next <= to - from => ParseNext(s).valid /\ ParseNext(s).next = s.next + 1
      /\ s.next > to - from => ~ParseNext(s).valid
    BY <1>2, ParseNextOK
<1> QED BY <1>2, <1>3, <1>4, <1>5

\* Seek's scan stops at the first entry that is not before the target.
LEMMA ScanToOK ==
    ASSUME NEW es, NEW from, NEW to, Keyed(es, from, to), NEW b, BlockIterOK(b, es, from, to),
           NEW target
    PROVE  LET c == ScanTo(b, target)
           IN  /\ BlockIterOK(c, es, from, to) /\ c.block = b.block
               /\ c.valid => /\ c.next > b.next
                             /\ ~Less(es[from + c.next - 1].key, target)
                             /\ \A i \in b.next..(c.next - 2) : Less(es[from + i].key, target)
               /\ ~c.valid => \A i \in b.next..(to - from) : Less(es[from + i].key, target)
<1> DEFINE N == to - from
           left == Len(b.block.entries) - b.next + 1
           Step(g, n) == [i \in 0..n |-> IF i = 0 THEN b ELSE ParseNext(g[i - 1])]
           w == CHOOSE g : g = Step(g, left)
           stops == {n \in 1..left : ~BlockValid(w[n]) \/ ~Less(w[n].key, target)}
           c == ScanTo(b, target)
<1>1. /\ N \in Nat /\ b.next \in 1..(N + 1) /\ left \in Nat /\ from \in Nat
      /\ left = N - b.next + 1
    <2>1. Encodes(b.block, es, from, to) /\ b.next \in 1..(to - from + 1)
        BY DEF BlockIterOK
    <2>2. from \in Nat /\ to \in Nat /\ from <= to
        BY DEF Keyed
    <2>3. Len(b.block.entries) = N
        BY <2>1 DEF Encodes
    <2> QED BY <2>1, <2>2, <2>3
<1>2. c = IF stops = {} THEN ParseNext(w[left]) ELSE w[Min(stops)]
    BY DEF ScanTo
<1> HIDE DEF c, left
<1>3. w = Step(w, left)
    <2> DEFINE S == {n \in 0..left : \E g : g = Step(g, n)}
    <2>0. \A n \in 0..left : n \in S <=> \E g : g = Step(g, n)
        <3> HIDE DEF Step
        <3> QED OBVIOUS
    <2> HIDE DEF S
    <2>1. 0 \in S
        <3>1. [i \in 0..0 |-> b] = Step([i \in 0..0 |-> b], 0)
            OBVIOUS
        <3>2. 0 \in 0..left
            BY <1>1
        <3> HIDE DEF Step
        <3> QED BY <2>0, <3>1, <3>2
    <2>2. ASSUME NEW n \in 1..left, n - 1 \in S PROVE n \in S
        <3>0. n \in 0..left /\ n - 1 \in 0..left /\ n \in Nat
            BY <1>1
        <3>1. PICK f : f = Step(f, n - 1)
            BY <2>0, <2>2, <3>0, Zenon
        <3> DEFINE g == [i \in 0..n |-> IF i < n THEN f[i] ELSE ParseNext(f[n - 1])]
        <3>2. ASSUME NEW i \in 0..n PROVE g[i] = IF i = 0 THEN b ELSE ParseNext(g[i - 1])
            <4>1. CASE i = 0
                BY <3>0, <3>1, <4>1
            <4>2. CASE i # 0 /\ i < n
                <5>1. i \in 0..(n - 1) /\ i - 1 \in 0..n /\ i - 1 < n
                    BY <3>0, <4>2
                <5>2. f[i] = ParseNext(f[i - 1])
                    BY <3>1, <4>2, <5>1
                <5> QED BY <4>2, <5>1, <5>2
            <4>3. CASE i = n
                <5>1. n - 1 \in 0..n /\ n - 1 < n /\ n # 0 /\ n \in 0..n /\ ~(n < n)
                    BY <3>0
                <5> QED BY <4>3, <5>1
            <4> QED BY <3>0, <4>1, <4>2, <4>3
        <3>3. g = Step(g, n)
            BY <3>2
        <3> HIDE DEF Step, g
        <3> QED BY <2>0, <3>0, <3>3
    <2>3. \A n \in 0..left : n \in S
        BY <1>1, <2>1, <2>2, UpTo
    <2>4. \E g : g = Step(g, left)
        <3> HIDE DEF Step
        <3> QED BY <1>1, <2>0, <2>3
    <2> HIDE DEF Step
    <2> QED BY <2>4
<1> HIDE DEF w
<1>4. w[0] = b /\ \A n \in 1..left : w[n] = ParseNext(w[n - 1])
    BY <1>1, <1>3
<1> DEFINE Good(n) == /\ BlockIterOK(w[n], es, from, to) /\ w[n].block = b.block
                      /\ w[n].next = b.next + n
                      /\ n > 0 => w[n].valid
           G == {n \in 0..left : Good(n)}
<1>5. 0 \in G
    <2>1. Good(0)
        BY <1>1, <1>4
    <2> HIDE DEF Good
    <2> QED BY <1>1, <2>1
<1>6. ASSUME NEW n \in 1..left, n - 1 \in G PROVE n \in G
    <2>1. Good(n - 1) /\ w[n] = ParseNext(w[n - 1])
        BY <1>4, <1>6
    <2>2. w[n - 1].next = b.next + (n - 1) /\ w[n - 1].next <= N
        BY <1>1, <2>1
    <2>3. /\ BlockIterOK(w[n], es, from, to) /\ w[n].block = w[n - 1].block
          /\ w[n].valid /\ w[n].next = w[n - 1].next + 1
        BY <2>1, <2>2, ParseNextOK
    <2>4. Good(n)
        BY <1>1, <2>1, <2>2, <2>3
    <2> HIDE DEF Good
    <2>5. n \in 0..left
        BY <1>1
    <2> QED BY <2>4, <2>5
<1>7. \A n \in 0..left : Good(n)
    <2>1. \A n \in 0..left : n \in G
        <3> HIDE DEF G
        <3> QED BY <1>1, <1>5, <1>6, UpTo
    <2> HIDE DEF Good
    <2> QED BY <2>1
<1>8. \A n \in 1..left : n \in stops <=> ~Less(es[from + b.next + n - 1].key, target)
    <2> TAKE n \in 1..left
    <2>1. Good(n) /\ n > 0
        BY <1>1, <1>7
    <2>2. w[n].valid /\ w[n].err = FALSE /\ w[n].key = es[from + w[n].next - 1].key
        BY <2>1 DEF BlockIterOK
    <2>3. from + w[n].next - 1 = from + b.next + n - 1
        BY <1>1, <2>1
    <2>4. BlockValid(w[n]) /\ w[n].key = es[from + b.next + n - 1].key
        BY <2>2, <2>3 DEF BlockValid
    <2> QED BY <2>4
<1>9. CASE stops = {}
    <2>1. c = ParseNext(w[left]) /\ Good(left)
        BY <1>1, <1>2, <1>7, <1>9
    <2>2. w[left].next = N + 1
        BY <1>1, <2>1
    <2>3. w[left].next > N
        BY <1>1, <2>2
    <2>4. BlockIterOK(c, es, from, to) /\ c.block = w[left].block /\ ~c.valid
        BY <2>1, <2>3, ParseNextOK
    <2>5. ASSUME NEW i \in b.next..N PROVE Less(es[from + i].key, target)
        <3> DEFINE n == i - b.next + 1
        <3>1. n \in 1..left /\ from + b.next + n - 1 = from + i
            BY <1>1
        <3> HIDE DEF n
        <3> QED BY <1>8, <1>9, <3>1
    <2> QED BY <2>1, <2>4, <2>5 DEF c
<1>10. CASE stops # {}
    <2> DEFINE n == Min(stops)
    <2>1. n \in stops /\ \A m \in stops : n <= m
        <3>1. stops \subseteq Nat
            BY <1>1
        <3> HIDE DEF stops
        <3> QED BY <1>10, <3>1, MinIs
    <2>2. c = w[n] /\ n \in 1..left
        BY <1>2, <1>10, <2>1
    <2> HIDE DEF n
    <2>3. Good(n) /\ n > 0 /\ n \in Nat
        BY <1>1, <1>7, <2>2
    <2>4. ~Less(es[from + b.next + n - 1].key, target)
        BY <1>8, <2>1, <2>2
    <2>5. c.next = b.next + n /\ from + c.next - 1 = from + b.next + n - 1 /\ c.next > b.next
        BY <1>1, <2>2, <2>3
    <2>6. ASSUME NEW i \in b.next..(c.next - 2) PROVE Less(es[from + i].key, target)
        <3> DEFINE m == i - b.next + 1
        <3>1. m \in 1..left /\ m < n /\ from + b.next + m - 1 = from + i
            BY <1>1, <2>2, <2>3, <2>5
        <3> HIDE DEF m
        <3>2. m \notin stops
            <4> HIDE DEF stops
            <4> QED BY <1>1, <2>1, <2>3, <3>1
        <3> QED BY <1>8, <3>1, <3>2
    <2> QED BY <2>2, <2>3, <2>4, <2>5, <2>6 DEF c
<1> QED BY <1>9, <1>10

\* An entry at a restart point parses whatever key the iterator has.
LEMMA RestartParses ==
    ASSUME NEW es, NEW from, NEW to, Keyed(es, from, to), NEW b, BlockIterOK(b, es, from, to),
           NEW j \in 2..Len(b.block.restarts)
    PROVE  /\ ParseOk(b, b.block.restarts[j])
           /\ ParseKey(b, b.block.restarts[j]) = es[from + b.block.restarts[j]].key
           /\ b.block.restarts[j] \in 1..(to - from)
<1> DEFINE at == b.block.restarts[j]
           e == b.block.entries[at]
<1>1. Encodes(b.block, es, from, to) /\ b.key \in Seq(Nat) /\ Len(b.key) \in Nat
    BY DEF BlockIterOK
<1>2. at \in 1..(to - from) /\ e.shared = 0
    BY <1>1 DEF Encodes
<1>3. e.rest \in Seq(Nat) /\ e.rest = es[from + at].key
    BY <1>1, <1>2 DEF Encodes
<1>4. SubSeq(b.key, 1, 0) = <<>>
    BY <1>1, EmptySeq
<1>5. <<>> \o e.rest = e.rest
    BY <1>3
<1>6. ParseKey(b, at) = SubSeq(b.key, 1, e.shared) \o e.rest
    BY DEF ParseKey
<1>7. ParseOk(b, at)
    BY <1>1, <1>2 DEF ParseOk
<1> HIDE DEF e
<1> QED BY <1>2, <1>3, <1>4, <1>5, <1>6, <1>7

\* Where the binary search of the restart points stands after n rounds.
Searching(b, es, from, target, s, n) ==
    /\ DOMAIN s = {"left", "right", "ok"} /\ s.ok = TRUE
    /\ s.left \in 1..Len(b.block.restarts) /\ s.right \in s.left..Len(b.block.restarts)
    /\ s.left > 1 => Less(es[from + b.block.restarts[s.left]].key, target)
    /\ s.left = s.right \/ s.right - s.left < Len(b.block.restarts) - n

LEMMA SearchStepOK ==
    ASSUME NEW es, NEW from, NEW to, Keyed(es, from, to), NEW b, BlockIterOK(b, es, from, to),
           NEW target, NEW s, NEW n \in Nat, Searching(b, es, from, target, s, n)
    PROVE  Searching(b, es, from, target, SearchStep(b, target, s), n + 1)
<1> DEFINE P == Len(b.block.restarts)
           mid == (s.left + s.right + 1) \div 2
           t == SearchStep(b, target, s)
<1>1. /\ DOMAIN s = {"left", "right", "ok"} /\ s.ok = TRUE
      /\ s.left \in 1..P /\ s.right \in s.left..P /\ P \in Nat
    <2>1. b.block.restarts \in Seq(Nat)
        BY DEF BlockIterOK, Encodes
    <2>2. P \in Nat
        BY <2>1
    <2> QED BY <2>2 DEF Searching
<1>2. CASE s.left >= s.right
    <2>1. t = s
        BY <1>2 DEF SearchStep
    <2>2. s.left = s.right
        BY <1>1, <1>2
    <2> QED BY <2>1, <2>2 DEF Searching
<1>3. CASE s.left < s.right
    <2>1. mid \in (s.left + 1)..s.right /\ mid \in 2..P
        BY <1>1, <1>3
    <2>2. /\ ParseOk(b, b.block.restarts[mid])
          /\ ParseKey(b, b.block.restarts[mid]) = es[from + b.block.restarts[mid]].key
        BY <2>1, RestartParses
    <2> DEFINE ahead == Less(es[from + b.block.restarts[mid]].key, target)
    <2>3. t = IF ahead THEN [s EXCEPT !.left = mid] ELSE [s EXCEPT !.right = mid - 1]
        <3>1. ~(s.left >= s.right)
            BY <1>1, <1>3
        <3> HIDE DEF mid
        <3> QED BY <1>1, <2>2, <3>1 DEF SearchStep, mid
    <2>4. s.right - s.left < P - n
        BY <1>1, <1>3 DEF Searching
    <2> HIDE DEF t, mid
    <2>5. CASE ahead
        <3>1. DOMAIN t = {"left", "right", "ok"} /\ t.ok = TRUE /\ t.left = mid /\ t.right = s.right
            BY <1>1, <2>3, <2>5
        <3>2. t.left \in 1..P /\ t.right \in t.left..P /\ t.right - t.left < P - (n + 1)
            BY <1>1, <2>1, <2>4, <3>1
        <3> QED BY <2>5, <3>1, <3>2 DEF Searching, t
    <2>6. CASE ~ahead
        <3>1. DOMAIN t = {"left", "right", "ok"} /\ t.ok = TRUE /\ t.left = s.left /\ t.right = mid - 1
            BY <1>1, <2>3, <2>6
        <3>2. t.left \in 1..P /\ t.right \in t.left..P /\ t.right - t.left < P - (n + 1)
            BY <1>1, <2>1, <2>4, <3>1
        <3>3. t.left > 1 => Less(es[from + b.block.restarts[t.left]].key, target)
            BY <3>1 DEF Searching
        <3> QED BY <3>1, <3>2, <3>3 DEF Searching, t
    <2> QED BY <2>5, <2>6
<1> QED BY <1>1, <1>2, <1>3

\* The restart point the search ends on is the first or before the target.
LEMMA RestartBeforeOK ==
    ASSUME NEW es, NEW from, NEW to, Keyed(es, from, to), NEW b, BlockIterOK(b, es, from, to),
           NEW target
    PROVE  LET j == RestartBefore(b, target)
           IN  /\ j \in 1..Len(b.block.restarts)
               /\ j > 1 => Less(es[from + b.block.restarts[j]].key, target)
<1> DEFINE P == Len(b.block.restarts)
           start == [left |-> 1, right |-> P, ok |-> TRUE]
           Step(g, n) == [i \in 0..n |-> IF i = 0 THEN start ELSE SearchStep(b, target, g[i - 1])]
           f == CHOOSE g : g = Step(g, P)
<1>1. RestartBefore(b, target) = IF f[P].ok THEN f[P].left ELSE 0
    BY DEF RestartBefore
<1>2. P \in Nat /\ P > 0
    <2>1. b.block.restarts \in Seq(Nat) /\ Len(b.block.restarts) > 0
        BY DEF BlockIterOK, Encodes
    <2> QED BY <2>1
<1>3. f = Step(f, P)
    <2> DEFINE S == {n \in 0..P : \E g : g = Step(g, n)}
    <2>0. \A n \in 0..P : n \in S <=> \E g : g = Step(g, n)
        <3> HIDE DEF Step
        <3> QED OBVIOUS
    <2> HIDE DEF S, start, P
    <2>1. 0 \in S
        <3>1. [i \in 0..0 |-> start] = Step([i \in 0..0 |-> start], 0)
            OBVIOUS
        <3>2. 0 \in 0..P
            BY <1>2
        <3> HIDE DEF Step
        <3> QED BY <2>0, <3>1, <3>2
    <2>2. ASSUME NEW n \in 1..P, n - 1 \in S PROVE n \in S
        <3>0. n \in 0..P /\ n - 1 \in 0..P /\ n \in Nat
            BY <1>2
        <3>1. PICK h : h = Step(h, n - 1)
            BY <2>0, <2>2, <3>0, Zenon
        <3> DEFINE g == [i \in 0..n |-> IF i < n THEN h[i] ELSE SearchStep(b, target, h[n - 1])]
        <3>2. ASSUME NEW i \in 0..n PROVE g[i] = IF i = 0 THEN start ELSE SearchStep(b, target, g[i - 1])
            <4>1. CASE i = 0
                BY <3>0, <3>1, <4>1
            <4>2. CASE i # 0 /\ i < n
                <5>1. i \in 0..(n - 1) /\ i - 1 \in 0..n /\ i - 1 < n
                    BY <3>0, <4>2
                <5>2. h[i] = SearchStep(b, target, h[i - 1])
                    BY <3>1, <4>2, <5>1
                <5> QED BY <4>2, <5>1, <5>2
            <4>3. CASE i = n
                <5>1. n - 1 \in 0..n /\ n - 1 < n /\ n # 0 /\ n \in 0..n /\ ~(n < n)
                    BY <3>0
                <5> QED BY <4>3, <5>1
            <4> QED BY <3>0, <4>1, <4>2, <4>3
        <3>3. g = Step(g, n)
            BY <3>2
        <3> HIDE DEF Step, g
        <3> QED BY <2>0, <3>0, <3>3
    <2>3. \A n \in 0..P : n \in S
        BY <1>2, <2>1, <2>2, UpTo
    <2>4. \E g : g = Step(g, P)
        <3> HIDE DEF Step
        <3> QED BY <1>2, <2>0, <2>3
    <2> HIDE DEF Step
    <2> QED BY <2>4
<1> HIDE DEF f
<1>4. f[0] = start /\ \A n \in 1..P : f[n] = SearchStep(b, target, f[n - 1])
    <2> HIDE DEF start, P
    <2> QED BY <1>2, <1>3
<1> DEFINE Good(n) == Searching(b, es, from, target, f[n], n)
           G == {n \in 0..P : Good(n)}
<1>5. 0 \in G
    <2>1. /\ DOMAIN start = {"left", "right", "ok"} /\ start.ok = TRUE
          /\ start.left = 1 /\ start.right = P
        OBVIOUS
    <2> HIDE DEF start
    <2>2. Searching(b, es, from, target, start, 0)
        BY <1>2, <2>1 DEF Searching
    <2>3. Good(0)
        BY <1>4, <2>2
    <2> HIDE DEF Good
    <2> QED BY <1>2, <2>3
<1>6. ASSUME NEW n \in 1..P, n - 1 \in G PROVE n \in G
    <2>1. Good(n - 1) /\ f[n] = SearchStep(b, target, f[n - 1])
        BY <1>4, <1>6
    <2>2. n - 1 \in Nat /\ (n - 1) + 1 = n /\ n \in 0..P
        BY <1>2
    <2>3. Searching(b, es, from, target, SearchStep(b, target, f[n - 1]), (n - 1) + 1)
        BY <2>1, <2>2, SearchStepOK
    <2>4. Good(n)
        BY <2>1, <2>2, <2>3
    <2> HIDE DEF Good
    <2> QED BY <2>2, <2>4
<1>7. Good(P)
    <2>1. \A n \in 0..P : n \in G
        <3> HIDE DEF G
        <3> QED BY <1>2, <1>5, <1>6, UpTo
    <2> HIDE DEF Good
    <2> QED BY <1>2, <2>1
<1>8. f[P].ok = TRUE /\ f[P].left \in 1..P
      /\ (f[P].left > 1 => Less(es[from + b.block.restarts[f[P].left]].key, target))
    BY <1>7 DEF Searching
<1> HIDE DEF P
<1> QED BY <1>1, <1>8 DEF P

\* BlockIterator.Seek stands on the first entry that is not before the target.
LEMMA BlockSeekOK ==
    ASSUME NEW es, NEW from, NEW to, Keyed(es, from, to), NEW b, BlockIterOK(b, es, from, to),
           NEW target \in Seq(Nat)
    PROVE  LET c == BlockSeek(b, target)
           IN  /\ BlockIterOK(c, es, from, to) /\ c.block = b.block
               /\ InOrder(es, from, to) =>
                     /\ c.valid => /\ ~Less(es[from + c.next - 1].key, target)
                                   /\ \A i \in (from + 1)..(from + c.next - 2) : Less(es[i].key, target)
                     /\ ~c.valid => \A i \in (from + 1)..to : Less(es[i].key, target)
<1> DEFINE j == RestartBefore(b, target)
           s == SeekToRestartPoint(b, j)
           c == BlockSeek(b, target)
           at == b.block.restarts[j]
<1>1. /\ j \in 1..Len(b.block.restarts)
      /\ j > 1 => Less(es[from + at].key, target)
    BY RestartBeforeOK
<1>2. c = ScanTo(s, target)
    <2>1. j # 0
        BY <1>1
    <2> QED BY <2>1 DEF BlockSeek
<1> HIDE DEF j
<1>3. /\ BlockIterOK(s, es, from, to) /\ s.block = b.block /\ s.next = at
      /\ at \in 1..(to - from + 1) /\ (j = 1 => at = 1)
    BY <1>1, SeekToRestartOK
<1> HIDE DEF s, c
<1>4. /\ BlockIterOK(c, es, from, to) /\ c.block = s.block
      /\ c.valid => /\ c.next > s.next
                    /\ ~Less(es[from + c.next - 1].key, target)
                    /\ \A i \in s.next..(c.next - 2) : Less(es[from + i].key, target)
      /\ ~c.valid => \A i \in s.next..(to - from) : Less(es[from + i].key, target)
    BY <1>2, <1>3, ScanToOK
<1>5. from \in Nat /\ to \in Nat /\ from <= to /\ at \in Nat /\ c.next \in 1..(to - from + 1)
    BY <1>3, <1>4 DEF Keyed, BlockIterOK
<1>6. ASSUME InOrder(es, from, to), NEW i \in (from + 1)..to, i < from + at
      PROVE  Less(es[i].key, target)
    <2>1. j # 1
        BY <1>3, <1>5, <1>6
    <2>2. j > 1
        <3>1. j \in Nat /\ j >= 1
            BY <1>1
        <3> QED BY <2>1, <3>1
    <2>3. at \in 1..(to - from)
        <3>1. j \in 2..Len(b.block.restarts)
            BY <1>1, <2>2
        <3> QED BY <3>1, RestartParses
    <2>4. from + at \in (from + 1)..to
        BY <1>5, <2>3
    <2>5. Less(es[i].key, es[from + at].key)
        BY <1>6, <2>4 DEF InOrder
    <2>6. es[i].key \in Seq(Nat) /\ es[from + at].key \in Seq(Nat)
        BY <1>6, <2>4 DEF Keyed
    <2> HIDE DEF at
    <2> QED BY <1>1, <2>2, <2>5, <2>6, LessTransitive
<1> HIDE DEF at
<1>7. ASSUME InOrder(es, from, to), c.valid, NEW i \in (from + 1)..(from + c.next - 2)
      PROVE  Less(es[i].key, target)
    <2>0. i \in (from + 1)..to
        BY <1>5
    <2>1. CASE i < from + at
        BY <1>6, <1>7, <2>0, <2>1
    <2>2. CASE i >= from + at
        <3>1. i - from \in at..(c.next - 2) /\ from + (i - from) = i
            BY <1>5, <2>2
        <3> QED BY <1>3, <1>4, <1>7, <3>1
    <2> QED BY <1>5, <2>1, <2>2
<1>8. ASSUME InOrder(es, from, to), ~c.valid, NEW i \in (from + 1)..to
      PROVE  Less(es[i].key, target)
    <2>1. CASE i < from + at
        BY <1>6, <1>8, <2>1
    <2>2. CASE i >= from + at
        <3>1. i - from \in at..(to - from) /\ from + (i - from) = i
            BY <1>5, <2>2
        <3> QED BY <1>3, <1>4, <1>8, <3>1
    <2> QED BY <1>5, <2>1, <2>2
<1> QED BY <1>3, <1>4, <1>7, <1>8 DEF c

-----------------------------------------------------------------------------
(* The builder of a table.                                                 *)

LEMMA EncodesAgree ==
    ASSUME NEW block, NEW es, NEW fs, NEW from \in Nat, NEW to \in Nat, from <= to,
           \A i \in (from + 1)..to : es[i] = fs[i], Encodes(block, es, from, to)
    PROVE  Encodes(block, fs, from, to)
<1>1. ASSUME NEW i \in 1..(to - from)
      PROVE  /\ es[from + i] = fs[from + i]
             /\ i > 1 => es[from + i - 1] = fs[from + i - 1]
    <2>1. from + i \in (from + 1)..to
        OBVIOUS
    <2>2. i > 1 => from + i - 1 \in (from + 1)..to
        OBVIOUS
    <2> QED BY <2>1, <2>2
<1>2. ASSUME NEW i \in 1..(to - from)
      PROVE  LET e == block.entries[i]
             IN  /\ e.shared \in Nat /\ e.rest \in Seq(Nat) /\ e.value = fs[from + i].value
                 /\ e.shared = 0 => e.rest = fs[from + i].key
                 /\ e.shared > 0 =>
                       /\ i > 1
                       /\ e.shared <= Len(fs[from + i - 1].key)
                       /\ SubSeq(fs[from + i - 1].key, 1, e.shared) \o e.rest = fs[from + i].key
    <2> DEFINE e == block.entries[i]
    <2>1. /\ e.shared \in Nat /\ e.rest \in Seq(Nat) /\ e.value = es[from + i].value
          /\ e.shared = 0 => e.rest = es[from + i].key
          /\ e.shared > 0 =>
                /\ i > 1
                /\ e.shared <= Len(es[from + i - 1].key)
                /\ SubSeq(es[from + i - 1].key, 1, e.shared) \o e.rest = es[from + i].key
        BY DEF Encodes
    <2> HIDE DEF e
    <2>2. CASE e.shared > 0
        <3>1. es[from + i] = fs[from + i] /\ es[from + i - 1] = fs[from + i - 1]
            BY <1>1, <2>1, <2>2
        <3> QED BY <2>1, <2>2, <3>1 DEF e
    <2>3. CASE ~(e.shared > 0)
        <3>1. es[from + i] = fs[from + i]
            BY <1>1
        <3> QED BY <2>1, <2>3, <3>1 DEF e
    <2> QED BY <2>2, <2>3
<1> QED BY <1>2 DEF Encodes

LEMMA BuildingAgree ==
    ASSUME NEW b, NEW es, NEW fs, NEW from \in Nat, NEW to \in Nat, from <= to,
           \A i \in (from + 1)..to : es[i] = fs[i], Building(b, es, from, to)
    PROVE  Building(b, fs, from, to)
<1>1. Encodes(b, fs, from, to)
    BY EncodesAgree DEF Building
<1>2. to # from => es[to] = fs[to]
    <2>1. to # from => to \in (from + 1)..to
        OBVIOUS
    <2> QED BY <2>1
<1> QED BY <1>1, <1>2 DEF Building

\* The entries of the index, for the blocks cut so far and the ones to come.
Ix(entries, cut) == [k \in Nat |-> [key |-> entries[cut[k]].key, value |-> k]]

\* A builder that was given the first n entries and cut its blocks there.
BuilderAt(b, entries, n, cut) ==
    /\ DOMAIN b = {"blocks", "data", "index", "lastKey", "pending"}
    /\ b.pending \in BOOLEAN
    /\ n > 0 => b.lastKey = entries[n].key
    /\ cut \in [Nat -> Nat] /\ cut[0] = 0
    /\ \E S : b.blocks \in Seq(S)
    /\ cut[Len(b.blocks)] <= n
    /\ \A k \in 1..Len(b.blocks) :
          /\ cut[k - 1] < cut[k] /\ cut[k] <= n
          /\ Encodes(b.blocks[k], entries, cut[k - 1], cut[k])
    /\ Building(b.data, entries, cut[Len(b.blocks)], n)
    /\ b.pending => Len(b.blocks) > 0 /\ cut[Len(b.blocks)] = n
    /\ Building(b.index, Ix(entries, cut), 0,
                IF b.pending THEN Len(b.blocks) - 1 ELSE Len(b.blocks))

\* The entries of a table.
IsTable(entries) ==
    /\ Len(entries) \in Nat /\ DOMAIN entries = 1..Len(entries)
    /\ \A i \in 1..Len(entries) : /\ entries[i].key \in Seq(Nat)
                                  /\ entries[i] = [key |-> entries[i].key, value |-> entries[i].value]

LEMMA TablesAre ==
    ASSUME NEW t \in Tables
    PROVE  IsTable(t) /\ \E S : t \in Seq(S)
<1> DEFINE R == [key : Seq(Nat), value : {t[i].value : i \in DOMAIN t}]
<1>1. t \in Seq(R)
    BY KeysAssumption
<1>2. \A e \in R : e.key \in Seq(Nat) /\ e = [key |-> e.key, value |-> e.value]
    OBVIOUS
<1> HIDE DEF R
<1>3. Len(t) \in Nat /\ DOMAIN t = 1..Len(t) /\ \A i \in 1..Len(t) : t[i] \in R
    BY <1>1
<1> QED BY <1>1, <1>2, <1>3 DEF IsTable

\* The index entry of a block that was flushed.
LEMMA AddIndexOK ==
    ASSUME NEW entries, IsTable(entries), NEW n \in 0..Len(entries), NEW cut,
           NEW b, BuilderAt(b, entries, n, cut)
    PROVE  /\ BuilderAt(AddIndexEntry(b, b.lastKey), entries, n, cut)
           /\ AddIndexEntry(b, b.lastKey).pending = FALSE
           /\ AddIndexEntry(b, b.lastKey).blocks = b.blocks
           /\ AddIndexEntry(b, b.lastKey).data = b.data
           /\ AddIndexEntry(b, b.lastKey).lastKey = b.lastKey
<1> DEFINE c == AddIndexEntry(b, b.lastKey)
           m == Len(b.blocks)
<1>0. DOMAIN b = {"blocks", "data", "index", "lastKey", "pending"} /\ b.pending \in BOOLEAN
    BY DEF BuilderAt
<1>1. CASE ~b.pending
    <2>1. c = b
        BY <1>1 DEF AddIndexEntry
    <2>2. b.pending = FALSE
        BY <1>0, <1>1
    <2> QED BY <2>1, <2>2
<1>2. CASE b.pending
    <2>1. m \in Nat /\ m > 0 /\ cut[m] = n /\ n \in Nat /\ cut \in [Nat -> Nat]
        <3>1. PICK S : b.blocks \in Seq(S)
            BY DEF BuilderAt
        <3>2. m \in Nat
            BY <3>1
        <3>3. n \in Nat
            BY DEF IsTable
        <3> QED BY <1>2, <3>2, <3>3 DEF BuilderAt
    <2>2. n > 0
        <3>1. m \in 1..m /\ m - 1 \in Nat
            BY <2>1
        <3>2. cut[m - 1] < cut[m] /\ cut[m - 1] \in Nat
            BY <2>1, <3>1 DEF BuilderAt
        <3> QED BY <2>1, <3>2
    <2>3. Building(b.index, Ix(entries, cut), 0, m - 1)
        BY <1>2 DEF BuilderAt
    <2> DEFINE ix == Ix(entries, cut)
    <2>4. \A k \in Nat : ix[k].key = entries[cut[k]].key /\ ix[k].value = k
        BY DEF Ix
    <2> HIDE DEF ix
    <2>5. ix[m].key = b.lastKey /\ ix[m].value = m /\ ix[m].key \in Seq(Nat)
        <3>1. b.lastKey = entries[n].key /\ n \in 1..Len(entries)
            BY <2>1, <2>2 DEF BuilderAt, IsTable
        <3>2. entries[n].key \in Seq(Nat)
            BY <3>1 DEF IsTable
        <3> QED BY <2>1, <2>4, <3>1, <3>2
    <2>6. m - 1 > 0 => ix[m - 1].key \in Seq(Nat)
        <3>1. SUFFICES ASSUME m - 1 > 0 PROVE ix[m - 1].key \in Seq(Nat)
            OBVIOUS
        <3>2. m - 1 \in 1..m /\ m - 1 \in Nat /\ (m - 1) - 1 \in Nat
            <4>1. m \in Nat
                BY <2>1
            <4> HIDE DEF m
            <4> QED BY <3>1, <4>1
        <3>3. /\ cut[(m - 1) - 1] < cut[m - 1] /\ cut[m - 1] <= n
              /\ cut[(m - 1) - 1] \in Nat /\ cut[m - 1] \in Nat
            BY <2>1, <3>2 DEF BuilderAt
        <3>4. cut[m - 1] \in 1..Len(entries)
            <4>1. n \in Nat /\ Len(entries) \in Nat /\ n <= Len(entries)
                BY <2>1 DEF IsTable
            <4> HIDE DEF m
            <4> DEFINE x == cut[m - 1]
                       y == cut[(m - 1) - 1]
            <4>2. y < x /\ x <= n /\ y \in Nat /\ x \in Nat
                BY <3>3
            <4> HIDE DEF x, y
            <4>3. x \in 1..Len(entries)
                BY <4>1, <4>2
            <4> QED BY <4>3 DEF x
        <3> QED BY <2>4, <3>2, <3>4 DEF IsTable
    <2> DEFINE d == BlockAdd(b.index, b.lastKey, m)
    <2>7. Building(d, ix, 0, m)
        <3>1. m - 1 \in Nat /\ (m - 1) + 1 = m /\ 0 <= m - 1 /\ 0 \in Nat
            BY <2>1
        <3>2. Building(b.index, ix, 0, m - 1)
            BY <2>3 DEF ix
        <3>3. Building(BlockAdd(b.index, ix[(m - 1) + 1].key, ix[(m - 1) + 1].value), ix, 0, (m - 1) + 1)
            <4>1. ix[(m - 1) + 1].key \in Seq(Nat)
                BY <2>5, <3>1
            <4> QED BY <2>6, <3>1, <3>2, <4>1, BlockAddEncodes
        <3> QED BY <2>5, <3>1, <3>3
    <2> HIDE DEF d
    <2>8. c = [b EXCEPT !.index = d, !.pending = FALSE]
        BY <1>2 DEF AddIndexEntry, d
    <2> HIDE DEF c
    <2>9. /\ DOMAIN c = {"blocks", "data", "index", "lastKey", "pending"} /\ c.index = d
          /\ c.pending = FALSE /\ c.blocks = b.blocks /\ c.data = b.data /\ c.lastKey = b.lastKey
        BY <1>0, <2>8
    <2>10. BuilderAt(c, entries, n, cut)
        <3>1. Building(c.index, Ix(entries, cut), 0, Len(c.blocks))
            BY <2>7, <2>9 DEF ix
        <3>2. /\ n > 0 => b.lastKey = entries[n].key
              /\ cut \in [Nat -> Nat] /\ cut[0] = 0
              /\ \E S : b.blocks \in Seq(S)
              /\ cut[Len(b.blocks)] <= n
              /\ \A k \in 1..Len(b.blocks) :
                    /\ cut[k - 1] < cut[k] /\ cut[k] <= n
                    /\ Encodes(b.blocks[k], entries, cut[k - 1], cut[k])
              /\ Building(b.data, entries, cut[Len(b.blocks)], n)
            BY DEF BuilderAt
        <3> QED BY <2>9, <3>1, <3>2 DEF BuilderAt
    <2> QED BY <2>9, <2>10 DEF c
<1> QED BY <1>1, <1>2

\* An entry for the data block.
LEMMA AddDataOK ==
    ASSUME NEW entries, IsTable(entries), NEW n \in 0..Len(entries), n < Len(entries), NEW cut,
           NEW b, BuilderAt(b, entries, n, cut), b.pending = FALSE
    PROVE  LET e == entries[n + 1]
               c == [b EXCEPT !.data = BlockAdd(b.data, e.key, e.value), !.lastKey = e.key]
           IN  BuilderAt(c, entries, n + 1, cut) /\ c.pending = FALSE
<1> DEFINE e == entries[n + 1]
           d == BlockAdd(b.data, e.key, e.value)
           c == [b EXCEPT !.data = d, !.lastKey = e.key]
           from == cut[Len(b.blocks)]
<1>0. /\ DOMAIN b = {"blocks", "data", "index", "lastKey", "pending"}
      /\ cut \in [Nat -> Nat] /\ cut[0] = 0
      /\ \E S : b.blocks \in Seq(S)
      /\ from <= n
      /\ \A k \in 1..Len(b.blocks) :
            /\ cut[k - 1] < cut[k] /\ cut[k] <= n
            /\ Encodes(b.blocks[k], entries, cut[k - 1], cut[k])
      /\ Building(b.data, entries, from, n)
      /\ Building(b.index, Ix(entries, cut), 0, Len(b.blocks))
    BY DEF BuilderAt
<1>1. n \in Nat /\ Len(b.blocks) \in Nat /\ from \in Nat
    <2>1. PICK S : b.blocks \in Seq(S)
        BY <1>0
    <2>2. Len(b.blocks) \in Nat
        BY <2>1
    <2> QED BY <1>0, <2>2 DEF IsTable
<1>2. e.key \in Seq(Nat) /\ (n > from => entries[n].key \in Seq(Nat))
    <2>1. n + 1 \in 1..Len(entries)
        BY <1>1 DEF IsTable
    <2>2. n > from => n \in 1..Len(entries)
        BY <1>1 DEF IsTable
    <2> QED BY <2>1, <2>2 DEF IsTable
<1>3. Building(d, entries, from, n + 1)
    BY <1>0, <1>1, <1>2, BlockAddEncodes
<1> HIDE DEF d, e
<1>4. /\ DOMAIN c = {"blocks", "data", "index", "lastKey", "pending"} /\ c.data = d
      /\ c.pending = FALSE /\ c.blocks = b.blocks /\ c.index = b.index /\ c.lastKey = e.key
    BY <1>0
<1> HIDE DEF c
<1>5. from <= n + 1 /\ \A k \in 1..Len(b.blocks) :
            /\ cut[k - 1] < cut[k] /\ cut[k] <= n + 1
            /\ Encodes(b.blocks[k], entries, cut[k - 1], cut[k])
    <2>1. from <= n + 1
        <3> HIDE DEF from
        <3> QED BY <1>0, <1>1
    <2>2. ASSUME NEW k \in 1..Len(b.blocks) PROVE cut[k] <= n + 1
        <3>1. k \in Nat
            BY <1>1
        <3>2. cut[k] \in Nat
            BY <1>0, <3>1
        <3>3. cut[k] <= n
            BY <1>0
        <3> QED BY <1>1, <3>2, <3>3
    <2> QED BY <1>0, <2>1, <2>2
<1>6. BuilderAt(c, entries, n + 1, cut)
    BY <1>0, <1>3, <1>4, <1>5 DEF BuilderAt, e
<1> QED BY <1>4, <1>6 DEF c, d, e

\* A data block is cut off.
LEMMA FlushOK ==
    ASSUME NEW entries, IsTable(entries), NEW n \in 0..Len(entries), NEW cut,
           NEW b, BuilderAt(b, entries, n, cut)
    PROVE  \E next : /\ BuilderAt(FlushDataBlock(b), entries, n, next)
                     /\ next[Len(FlushDataBlock(b).blocks)] = n
                     /\ FlushDataBlock(b).lastKey = b.lastKey
<1> DEFINE m == Len(b.blocks)
           from == cut[m]
           c == FlushDataBlock(b)
<1>0. /\ DOMAIN b = {"blocks", "data", "index", "lastKey", "pending"}
      /\ b.pending \in BOOLEAN
      /\ n > 0 => b.lastKey = entries[n].key
      /\ cut \in [Nat -> Nat] /\ cut[0] = 0
      /\ from <= n
      /\ \A k \in 1..m :
            /\ cut[k - 1] < cut[k] /\ cut[k] <= n
            /\ Encodes(b.blocks[k], entries, cut[k - 1], cut[k])
      /\ Building(b.data, entries, from, n)
      /\ b.pending => from = n
      /\ Building(b.index, Ix(entries, cut), 0, IF b.pending THEN m - 1 ELSE m)
    BY DEF BuilderAt
<1>1. n \in Nat /\ m \in Nat /\ from \in Nat /\ (\E S : b.blocks \in Seq(S)) /\ n <= Len(entries)
    <2>1. PICK S : b.blocks \in Seq(S)
        BY DEF BuilderAt
    <2>2. Len(b.blocks) \in Nat
        BY <2>1
    <2> QED BY <1>0, <2>1, <2>2 DEF IsTable
<1>2. CurrentSize(b.data) = n - from
    BY <1>0 DEF Building, Encodes, CurrentSize
<1>3. CASE n = from
    <2>1. c = b
        BY <1>1, <1>2, <1>3 DEF FlushDataBlock
    <2> QED BY <1>3, <2>1
<1>4. CASE n # from
    <2> DEFINE next == [cut EXCEPT ![m + 1] = n]
               block == Finish(b.data)
    <2>1. b.pending = FALSE /\ from < n
        BY <1>0, <1>1, <1>4
    <2>2. c = [b EXCEPT !.blocks = Append(b.blocks, block), !.data = NewBlockBuilder, !.pending = TRUE]
        <3>1. CurrentSize(b.data) # 0
            BY <1>1, <1>2, <1>4
        <3> QED BY <3>1 DEF FlushDataBlock
    <2>3. Encodes(block, entries, from, n)
        <3>1. block.entries = b.data.entries /\ block.restarts = b.data.restarts
            BY DEF Finish
        <3> HIDE DEF block
        <3> QED BY <1>0, <3>1 DEF Building, Encodes
    <2> HIDE DEF block
    <2>4. /\ (\E S : Append(b.blocks, block) \in Seq(S)) /\ Len(Append(b.blocks, block)) = m + 1
          /\ \A k \in 1..m : Append(b.blocks, block)[k] = b.blocks[k]
          /\ Append(b.blocks, block)[m + 1] = block
        <3>1. PICK S : b.blocks \in Seq(S)
            BY <1>1
        <3>2. b.blocks \in Seq(S \cup {block}) /\ block \in S \cup {block}
            BY <3>1
        <3>3. Append(b.blocks, block) \in Seq(S \cup {block})
            BY <3>2
        <3> QED BY <3>2, <3>3
    <2> HIDE DEF c
    <2>5. /\ DOMAIN c = {"blocks", "data", "index", "lastKey", "pending"}
          /\ c.blocks = Append(b.blocks, block) /\ c.data = NewBlockBuilder /\ c.pending = TRUE
          /\ c.index = b.index /\ c.lastKey = b.lastKey
        BY <1>0, <2>2
    <2>6. /\ next \in [Nat -> Nat] /\ next[0] = 0 /\ next[m + 1] = n
          /\ \A k \in 0..m : next[k] = cut[k]
        <3>1. m \in Nat /\ n \in Nat /\ cut \in [Nat -> Nat] /\ cut[0] = 0
            BY <1>0, <1>1
        <3> HIDE DEF m
        <3>2. m + 1 \in Nat /\ 0 # m + 1 /\ \A k \in 0..m : k \in Nat /\ k # m + 1
            BY <3>1
        <3> QED BY <3>1, <3>2
    <2> HIDE DEF next
    <2>7. ASSUME NEW k \in 1..(m + 1)
          PROVE  /\ next[k - 1] < next[k] /\ next[k] <= n
                 /\ Encodes(c.blocks[k], entries, next[k - 1], next[k])
        <3>1. CASE k \in 1..m
            <4>1. k \in 0..m /\ k - 1 \in 0..m
                BY <1>1, <3>1
            <4> QED BY <1>0, <2>4, <2>5, <2>6, <3>1, <4>1
        <3>2. CASE k = m + 1
            <4>1. k - 1 = m /\ m \in 0..m
                BY <1>1, <3>2
            <4>2. next[k - 1] = from /\ next[k] = n /\ c.blocks[k] = block
                BY <2>4, <2>5, <2>6, <3>2, <4>1
            <4>3. n <= n
                BY <1>1
            <4> QED BY <2>1, <2>3, <4>2, <4>3
        <3> QED BY <1>1, <3>1, <3>2
    <2>8. Building(c.index, Ix(entries, next), 0, m)
        <3>1. Building(b.index, Ix(entries, cut), 0, m)
            BY <1>0, <2>1
        <3>2. \A k \in (0 + 1)..m : Ix(entries, cut)[k] = Ix(entries, next)[k]
            <4> TAKE k \in (0 + 1)..m
            <4>1. k \in Nat /\ k \in 0..m
                BY <1>1
            <4>2. next[k] = cut[k]
                BY <2>6, <4>1
            <4> QED BY <4>1, <4>2 DEF Ix
        <3>3. 0 \in Nat /\ 0 <= m
            BY <1>1
        <3>4. Building(b.index, Ix(entries, next), 0, m)
            BY <1>1, <3>1, <3>2, <3>3, BuildingAgree
        <3> QED BY <2>5, <3>4
    <2>9. Building(c.data, entries, next[m + 1], n)
        BY <1>1, <2>5, <2>6, NewBlockEncodes
    <2>10. Len(c.blocks) = m + 1 /\ m + 1 > 0 /\ (m + 1) - 1 = m /\ n <= n
        BY <1>1, <2>4, <2>5
    <2>11. \E S : c.blocks \in Seq(S)
        BY <2>4, <2>5
    <2>12. BuilderAt(c, entries, n, next)
        BY <1>0, <2>5, <2>6, <2>7, <2>8, <2>9, <2>10, <2>11 DEF BuilderAt
    <2> QED BY <2>5, <2>6, <2>10, <2>12 DEF c
<1> QED BY <1>3, <1>4

\* Add: the index entry of the block before, the entry, and the block if it
\* is large enough.
LEMMA BuilderAddOK ==
    ASSUME NEW entries, IsTable(entries), NEW n \in 0..Len(entries), n < Len(entries), NEW cut,
           NEW b, BuilderAt(b, entries, n, cut)
    PROVE  \E next : BuilderAt(BuilderAdd(b, entries[n + 1]), entries, n + 1, next)
<1> DEFINE e == entries[n + 1]
           i == AddIndexEntry(b, b.lastKey)
           d == [i EXCEPT !.data = BlockAdd(i.data, e.key, e.value), !.lastKey = e.key]
<1>1. BuilderAdd(b, e) = IF CurrentSize(d.data) >= BlockSize THEN FlushDataBlock(d) ELSE d
    BY DEF BuilderAdd, FindShortestSeparator
<1>2. BuilderAt(i, entries, n, cut) /\ i.pending = FALSE
    BY AddIndexOK
<1> HIDE DEF i
<1>3. BuilderAt(d, entries, n + 1, cut)
    BY <1>2, AddDataOK
<1> HIDE DEF d
<1>4. n + 1 \in 0..Len(entries)
    BY DEF IsTable
<1>5. \E next : BuilderAt(FlushDataBlock(d), entries, n + 1, next)
    BY <1>3, <1>4, FlushOK
<1> QED BY <1>1, <1>3, <1>5

LEMMA NewBuilderOK ==
    ASSUME NEW entries
    PROVE  \E cut : BuilderAt(NewBuilder, entries, 0, cut)
<1> DEFINE cut == [k \in Nat |-> 0]
           b == NewBuilder
<1>1. /\ DOMAIN b = {"blocks", "data", "index", "lastKey", "pending"}
      /\ b.pending = FALSE /\ b.blocks = <<>> /\ b.data = NewBlockBuilder /\ b.index = NewBlockBuilder
    BY DEF NewBuilder
<1> HIDE DEF b
<1>2. cut \in [Nat -> Nat] /\ cut[0] = 0
    OBVIOUS
<1> HIDE DEF cut
<1>3. <<>> \in Seq({}) /\ Len(<<>>) = 0 /\ 0 \in Nat /\ ~(0 > 0) /\ 0 <= 0 /\ 1..0 = {}
    OBVIOUS
<1>4. Building(NewBlockBuilder, entries, 0, 0) /\ Building(NewBlockBuilder, Ix(entries, cut), 0, 0)
    BY <1>3, NewBlockEncodes
<1>5. BuilderAt(b, entries, 0, cut)
    <2>1. /\ Len(b.blocks) = 0 /\ \E S : b.blocks \in Seq(S)
        BY <1>1, <1>3
    <2> QED BY <1>1, <1>2, <1>3, <1>4, <2>1 DEF BuilderAt
<1> QED BY <1>5 DEF b

\* What the builder is after its last Add.
LEMMA BuilderAfterOK ==
    ASSUME NEW entries, IsTable(entries)
    PROVE  \E b, cut : /\ BuildTable(entries) = BuilderClose(b, entries)
                       /\ BuilderAt(b, entries, Len(entries), cut)
<1> DEFINE P == Len(entries)
           Step(g, N) == [n \in 0..N |-> IF n = 0 THEN NewBuilder ELSE BuilderAdd(g[n - 1], entries[n])]
           f == CHOOSE g : g = Step(g, P)
<1>1. BuildTable(entries) = BuilderClose(f[P], entries)
    BY DEF BuildTable
<1>2. P \in Nat
    BY DEF IsTable
<1> HIDE DEF P
<1>3. f = Step(f, P)
    <2> DEFINE S == {n \in 0..P : \E g : g = Step(g, n)}
    <2>0. \A n \in 0..P : n \in S <=> \E g : g = Step(g, n)
        <3> HIDE DEF Step
        <3> QED OBVIOUS
    <2> HIDE DEF S
    <2>1. 0 \in S
        <3>1. [i \in 0..0 |-> NewBuilder] = Step([i \in 0..0 |-> NewBuilder], 0)
            OBVIOUS
        <3>2. 0 \in 0..P
            BY <1>2
        <3> HIDE DEF Step
        <3> QED BY <2>0, <3>1, <3>2
    <2>2. ASSUME NEW n \in 1..P, n - 1 \in S PROVE n \in S
        <3>0. n \in 0..P /\ n - 1 \in 0..P /\ n \in Nat
            BY <1>2
        <3>1. PICK h : h = Step(h, n - 1)
            BY <2>0, <2>2, <3>0, Zenon
        <3> DEFINE g == [i \in 0..n |-> IF i < n THEN h[i] ELSE BuilderAdd(h[n - 1], entries[n])]
        <3>2. ASSUME NEW i \in 0..n PROVE g[i] = IF i = 0 THEN NewBuilder ELSE BuilderAdd(g[i - 1], entries[i])
            <4>1. CASE i = 0
                BY <3>0, <3>1, <4>1
            <4>2. CASE i # 0 /\ i < n
                <5>1. i \in 0..(n - 1) /\ i - 1 \in 0..n /\ i - 1 < n
                    BY <3>0, <4>2
                <5>2. h[i] = BuilderAdd(h[i - 1], entries[i])
                    BY <3>1, <4>2, <5>1
                <5> QED BY <4>2, <5>1, <5>2
            <4>3. CASE i = n
                <5>1. n - 1 \in 0..n /\ n - 1 < n /\ n # 0 /\ n \in 0..n /\ ~(n < n)
                    BY <3>0
                <5> QED BY <4>3, <5>1
            <4> QED BY <3>0, <4>1, <4>2, <4>3
        <3>3. g = Step(g, n)
            BY <3>2
        <3> HIDE DEF Step, g
        <3> QED BY <2>0, <3>0, <3>3
    <2>3. \A n \in 0..P : n \in S
        BY <1>2, <2>1, <2>2, UpTo
    <2>4. \E g : g = Step(g, P)
        <3> HIDE DEF Step
        <3> QED BY <1>2, <2>0, <2>3
    <2> HIDE DEF Step
    <2> QED BY <2>4
<1> HIDE DEF f
<1>4. f[0] = NewBuilder /\ \A n \in 1..P : f[n] = BuilderAdd(f[n - 1], entries[n])
    BY <1>2, <1>3
<1> DEFINE Good(n) == \E cut : BuilderAt(f[n], entries, n, cut)
           G == {n \in 0..P : Good(n)}
<1>5. 0 \in G
    <2>1. Good(0)
        BY <1>4, NewBuilderOK
    <2> HIDE DEF Good
    <2> QED BY <1>2, <2>1
<1>6. ASSUME NEW n \in 1..P, n - 1 \in G PROVE n \in G
    <2>1. Good(n - 1) /\ f[n] = BuilderAdd(f[n - 1], entries[n])
        BY <1>4, <1>6
    <2>2. n - 1 \in 0..P /\ n - 1 < P /\ (n - 1) + 1 = n /\ n \in 0..P
        BY <1>2
    <2>3. PICK cut : BuilderAt(f[n - 1], entries, n - 1, cut)
        BY <2>1
    <2>4. \E next : BuilderAt(BuilderAdd(f[n - 1], entries[(n - 1) + 1]), entries, (n - 1) + 1, next)
        BY <2>2, <2>3, BuilderAddOK DEF P
    <2>5. Good(n)
        BY <2>1, <2>2, <2>4
    <2> HIDE DEF Good
    <2> QED BY <2>2, <2>5
<1>7. Good(P)
    <2>1. \A n \in 0..P : n \in G
        <3> HIDE DEF G
        <3> QED BY <1>2, <1>5, <1>6, UpTo
    <2> HIDE DEF Good
    <2> QED BY <1>2, <2>1
<1> QED BY <1>1, <1>7 DEF P

\* The filter of a table has the bits of each of its keys.
LEMMA FilterHasKeys ==
    ASSUME NEW keys, NEW i \in DOMAIN keys
    PROVE  KeyMayMatch(keys[i], CreateFilter(keys))
<1> DEFINE bytes == (FilterBits(Len(keys)) + 7) \div 8
           F == CreateFilter(keys)
<1>1. F.bytes = bytes /\ F.set = UNION {Probes(keys[n], 8 * bytes) : n \in DOMAIN keys}
    BY DEF CreateFilter
<1> HIDE DEF bytes, F
<1>2. Probes(keys[i], 8 * bytes) \subseteq UNION {Probes(keys[n], 8 * bytes) : n \in DOMAIN keys}
    OBVIOUS
<1>3. Probes(keys[i], 8 * F.bytes) \subseteq F.set
    BY <1>1, <1>2
<1> QED BY <1>3 DEF KeyMayMatch, F

LEMMA EncodedSize ==
    ASSUME NEW block, NEW es, NEW from \in Nat, NEW to \in Nat, from <= to, Encodes(block, es, from, to)
    PROVE  BlockBytes(block) \in Nat
<1>1. Len(block.entries) = to - from /\ block.restarts \in Seq(Nat)
    BY DEF Encodes
<1>2. Len(block.restarts) \in Nat
    BY <1>1
<1>3. Len(block.entries) \in Nat
    BY <1>1
<1> DEFINE x == Len(block.entries)
           y == Len(block.restarts)
<1>4. x \in Nat /\ y \in Nat
    BY <1>2, <1>3
<1> HIDE DEF x, y
<1>5. x + y \in Nat
    BY <1>4
<1> QED BY <1>5 DEF BlockBytes, x, y

LEMMA FinishEncodes ==
    ASSUME NEW b, NEW es, NEW from, NEW to, Building(b, es, from, to)
    PROVE  Encodes(Finish(b), es, from, to)
<1> DEFINE block == Finish(b)
<1>1. block.entries = b.entries /\ block.restarts = b.restarts
    BY DEF Finish
<1>2. Encodes(b, es, from, to)
    BY DEF Building
<1> HIDE DEF block
<1>3. Encodes(block, es, from, to)
    BY <1>1, <1>2 DEF Encodes
<1> QED BY <1>3 DEF block

\* What Close writes is the table of the entries.
LEMMA BuildTableOK ==
    ASSUME NEW entries \in Tables
    PROVE  TableOK(BuildTable(entries)) /\ BuildTable(entries).source = entries
<1> DEFINE T == BuildTable(entries)
           L == Len(entries)
<1>1. IsTable(entries)
    BY TablesAre
<1>2. PICK b, start : T = BuilderClose(b, entries) /\ BuilderAt(b, entries, L, start)
    BY <1>1, BuilderAfterOK
<1> HIDE DEF T
<1> DEFINE f == FlushDataBlock(b)
           i == AddIndexEntry(f, f.lastKey)
           M == Len(i.blocks)
           keys == [n \in DOMAIN entries |-> UserKey(entries[n].key)]
           meta == IF entries = <<>> THEN NewBlockBuilder ELSE BlockAdd(NewBlockBuilder, <<0>>, 0)
<1>3. L \in Nat /\ L \in 0..L
    BY <1>1 DEF IsTable
<1>4. PICK cut : BuilderAt(f, entries, L, cut) /\ cut[Len(f.blocks)] = L
    BY <1>1, <1>2, <1>3, FlushOK
<1> HIDE DEF f
<1>5. BuilderAt(i, entries, L, cut) /\ i.pending = FALSE /\ cut[M] = L
    BY <1>1, <1>3, <1>4, AddIndexOK
<1>6. /\ T.blocks = i.blocks \o <<Finish(meta), Finish(i.index)>>
      /\ T.filter = CreateFilter(keys)
      /\ T.footer.meta = M + 1 /\ T.footer.index = M + 2
      /\ T.source = entries
    <2>1. T = [blocks |-> i.blocks \o <<Finish(meta), Finish(i.index)>>,
               filter |-> CreateFilter(keys),
               footer |-> [meta |-> M + 1, index |-> M + 2],
               source |-> entries]
        BY <1>2 DEF BuilderClose, f
    <2> HIDE DEF i, M, keys, meta
    <2> QED BY <2>1
<1> HIDE DEF i
<1>7. PICK S : i.blocks \in Seq(S)
    BY <1>5 DEF BuilderAt
<1>8. M \in Nat
    BY <1>7
<1> DEFINE tail == <<Finish(meta), Finish(i.index)>>
<1>9. /\ DOMAIN T.blocks = 1..(M + 2)
      /\ \A k \in 1..M : T.blocks[k] = i.blocks[k]
      /\ T.blocks[M + 1] = Finish(meta) /\ T.blocks[M + 2] = Finish(i.index)
    <2> HIDE DEF meta
    <2> DEFINE U == S \cup {Finish(meta), Finish(i.index)}
    <2>1. i.blocks \in Seq(U)
        BY <1>7
    <2>2. tail \in Seq(U) /\ Len(tail) = 2 /\ tail[1] = Finish(meta) /\ tail[2] = Finish(i.index)
        OBVIOUS
    <2> HIDE DEF tail, U
    <2>3. /\ Len(i.blocks \o tail) = M + 2 /\ i.blocks \o tail \in Seq(U)
          /\ \A k \in 1..(M + 2) : (i.blocks \o tail)[k] = IF k <= M THEN i.blocks[k] ELSE tail[k - M]
        <3> DEFINE s == i.blocks
        <3>1. s \in Seq(U) /\ tail \in Seq(U) /\ Len(tail) = 2
            BY <2>1, <2>2
        <3> HIDE DEF s
        <3>2. /\ Len(s \o tail) = Len(s) + Len(tail) /\ s \o tail \in Seq(U)
              /\ \A k \in 1..(Len(s) + Len(tail)) : (s \o tail)[k] = IF k <= Len(s) THEN s[k] ELSE tail[k - Len(s)]
            BY <3>1, ConcatProperties
        <3>3. Len(s) = M
            BY DEF s
        <3> HIDE DEF M
        <3>4. /\ Len(s \o tail) = M + 2 /\ s \o tail \in Seq(U)
              /\ \A k \in 1..(M + 2) : (s \o tail)[k] = IF k <= M THEN s[k] ELSE tail[k - M]
            BY <2>2, <3>2, <3>3
        <3> QED BY <3>4 DEF s
    <2>4. T.blocks = i.blocks \o tail
        BY <1>6 DEF tail
    <2> HIDE DEF M
    <2>5. /\ M + 1 \in 1..(M + 2) /\ M + 2 \in 1..(M + 2) /\ ~(M + 1 <= M) /\ ~(M + 2 <= M)
          /\ (M + 1) - M = 1 /\ (M + 2) - M = 2
          /\ \A k \in 1..M : k \in 1..(M + 2) /\ k <= M
        BY <1>8
    <2>6. DOMAIN T.blocks = 1..(M + 2)
        BY <2>3, <2>4
    <2> QED BY <2>2, <2>3, <2>4, <2>5, <2>6
<1> HIDE DEF tail
<1>10. /\ cut \in [Nat -> Nat] /\ cut[0] = 0
       /\ \A k \in 1..M : /\ cut[k - 1] < cut[k] /\ cut[k] <= L
                          /\ Encodes(i.blocks[k], entries, cut[k - 1], cut[k])
       /\ Building(i.index, Ix(entries, cut), 0, M)
    BY <1>5 DEF BuilderAt
<1> HIDE DEF M
<1>11. Encodes(T.blocks[M + 2], Ix(entries, cut), 0, M)
    BY <1>9, <1>10, FinishEncodes
<1>12. /\ T.footer.meta \in Nat \ {0} /\ T.footer.index = T.footer.meta + 1
       /\ DOMAIN T.blocks = 1..T.footer.index /\ DataBlocks(T) = M
    BY <1>6, <1>8, <1>9 DEF DataBlocks
<1>13. ASSUME NEW k \in DOMAIN T.blocks PROVE BlockBytes(T.blocks[k]) \in Nat
    <2>0. k \in 1..(M + 2)
        BY <1>9
    <2>1. CASE k \in 1..M
        <3>1. k \in Nat /\ k - 1 \in Nat
            BY <1>8, <2>1
        <3>2. cut[k - 1] \in Nat /\ cut[k] \in Nat
            BY <1>10, <3>1
        <3>3. cut[k - 1] <= cut[k]
            BY <1>10, <2>1, <3>2
        <3>4. Encodes(T.blocks[k], entries, cut[k - 1], cut[k])
            BY <1>9, <1>10, <2>1
        <3> QED BY <3>2, <3>3, <3>4, EncodedSize
    <2>2. CASE k = M + 1
        <3> DEFINE es == <<[key |-> <<0>>, value |-> 0]>>
        <3>1. es[0 + 1].key = <<0>> /\ es[0 + 1].value = 0 /\ <<0>> \in Seq(Nat)
            OBVIOUS
        <3> HIDE DEF es
        <3>2. Building(NewBlockBuilder, es, 0, 0)
            BY NewBlockEncodes
        <3>3. Building(BlockAdd(NewBlockBuilder, es[0 + 1].key, es[0 + 1].value), es, 0, 0 + 1)
            <4>1. 0 \in Nat /\ 0 <= 0 /\ ~(0 > 0)
                OBVIOUS
            <4> QED BY <3>1, <3>2, <4>1, BlockAddEncodes
        <3>4. Building(BlockAdd(NewBlockBuilder, <<0>>, 0), es, 0, 0 + 1)
            BY <3>1, <3>3
        <3>5. Encodes(Finish(meta), es, 0, 0) \/ Encodes(Finish(meta), es, 0, 0 + 1)
            BY <3>2, <3>4, FinishEncodes
        <3>6. BlockBytes(Finish(meta)) \in Nat
            <4> HIDE DEF meta
            <4> QED BY <3>5, EncodedSize
        <3> QED BY <1>9, <2>2, <3>6
    <2>3. CASE k = M + 2
        <3>1. 0 <= M /\ 0 \in Nat
            BY <1>8
        <3> QED BY <1>8, <1>11, <2>3, <3>1, EncodedSize
    <2> QED BY <1>8, <2>0, <2>1, <2>2, <2>3
<1>14. ASSUME NEW n \in DOMAIN T.source PROVE KeyMayMatch(UserKey(T.source[n].key), T.filter)
    <2>1. n \in DOMAIN keys /\ keys[n] = UserKey(T.source[n].key)
        BY <1>6
    <2> HIDE DEF keys
    <2>2. KeyMayMatch(keys[n], CreateFilter(keys))
        BY <2>1, FilterHasKeys
    <2> QED BY <1>6, <2>1, <2>2
<1> HIDE DEF keys, meta
<1> DEFINE C == [k \in 0..M |-> cut[k]]
<1>15. /\ \A k \in 0..M : C[k] = cut[k] /\ k \in Nat
       /\ \A k \in 1..M : k \in 0..M /\ k - 1 \in 0..M /\ k \in Nat /\ 0 + k = k
       /\ 0 \in 0..M /\ M \in 0..M
    BY <1>8
<1>16. C \in Cuttings(T)
    <2>1. ASSUME NEW k \in 0..M PROVE cut[k] \in 0..L
        <3>1. cut[k] \in Nat
            BY <1>10, <1>15
        <3>2. CASE k = 0
            BY <1>3, <1>10, <3>2
        <3>3. CASE k # 0
            <4>1. k \in 1..M
                BY <1>8, <3>3
            <4> QED BY <1>3, <1>10, <3>1, <4>1
        <3> QED BY <3>2, <3>3
    <2>2. C \in [0..M -> 0..L]
        BY <2>1
    <2> HIDE DEF C
    <2> QED BY <1>6, <1>12, <2>2 DEF Cuttings
<1> HIDE DEF C
<1>17. CutAt(T, C)
    <2>1. C[0] = 0 /\ C[M] = L
        BY <1>5, <1>10, <1>15 DEF M
    <2>2. ASSUME NEW k \in 1..M
          PROVE  C[k - 1] < C[k] /\ Encodes(T.blocks[k], entries, C[k - 1], C[k])
        BY <1>9, <1>10, <1>15
    <2>3. Encodes(T.blocks[M + 2], IndexEntries(T, C), 0, M)
        <3>1. ASSUME NEW k \in (0 + 1)..M PROVE Ix(entries, cut)[k] = IndexEntries(T, C)[k]
            <4>1. k \in 1..M /\ C[k] = cut[k] /\ k \in Nat
                BY <1>15
            <4> QED BY <1>6, <1>12, <4>1 DEF Ix, IndexEntries
        <3>2. 0 \in Nat /\ 0 <= M
            BY <1>8
        <3> HIDE DEF L
        <3> QED BY <1>8, <1>11, <3>1, <3>2, EncodesAgree
    <2> QED BY <1>6, <1>12, <2>1, <2>2, <2>3 DEF CutAt
<1> HIDE DEF L
<1>18. TableOK(T)
    BY <1>6, <1>12, <1>13, <1>14, <1>16, <1>17 DEF TableOK
<1> QED BY <1>6, <1>18 DEF T

-----------------------------------------------------------------------------
(* The places a table was cut at.                                          *)

LEMMA CutIs ==
    ASSUME NEW file, TableOK(file)
    PROVE  /\ Cut(file) \in Cuttings(file) /\ CutAt(file, Cut(file))
           /\ DataBlocks(file) \in Nat
           /\ file.footer.meta = DataBlocks(file) + 1 /\ file.footer.index = DataBlocks(file) + 2
           /\ IsTable(file.source) /\ \E S : file.source \in Seq(S)
<1>1. \E cut \in Cuttings(file) : CutAt(file, cut)
    BY DEF TableOK
<1>2. Cut(file) \in Cuttings(file) /\ CutAt(file, Cut(file))
    BY <1>1 DEF Cut
<1>3. file.source \in Tables /\ file.footer.meta \in Nat \ {0} /\ file.footer.index = file.footer.meta + 1
    BY DEF TableOK
<1>4. IsTable(file.source) /\ \E S : file.source \in Seq(S)
    BY <1>3, TablesAre
<1>5. /\ DataBlocks(file) \in Nat
      /\ file.footer.meta = DataBlocks(file) + 1 /\ file.footer.index = DataBlocks(file) + 2
    BY <1>3 DEF DataBlocks
<1> QED BY <1>2, <1>4, <1>5

\* The cuts of a table grow, from 0 to the number of its entries.
LEMMA CutsGrow ==
    ASSUME NEW file, TableOK(file)
    PROVE  LET M == DataBlocks(file)
               L == Len(file.source)
               c == Cut(file)
           IN  /\ L \in Nat /\ M \in Nat /\ c[0] = 0 /\ c[M] = L
               /\ \A k \in 0..M : c[k] \in Nat /\ c[k] <= L
               /\ \A k \in 1..M : c[k - 1] < c[k]
               /\ \A j \in 0..M : \A k \in 0..j : c[k] <= c[j]
               /\ \A j \in 0..M : \A k \in 0..j : k # j => c[k] < c[j]
<1> DEFINE M == DataBlocks(file)
           L == Len(file.source)
           c == Cut(file)
<1>1. c \in [0..M -> 0..L] /\ CutAt(file, c) /\ M \in Nat /\ L \in Nat
    BY CutIs DEF Cuttings, IsTable
<1>2. c[0] = 0 /\ c[M] = L /\ \A k \in 1..M : c[k - 1] < c[k]
    BY <1>1 DEF CutAt
<1> HIDE DEF c, M, L
<1>3. \A k \in 0..M : c[k] \in Nat /\ c[k] <= L
    BY <1>1
<1> DEFINE Low(j) == \A k \in 0..j : c[k] <= c[j] /\ (k # j => c[k] < c[j])
           S == {j \in 0..M : Low(j)}
<1>4. 0 \in S
    <2>1. Low(0)
        BY <1>1, <1>3
    <2>2. 0 \in 0..M
        BY <1>1
    <2> HIDE DEF Low
    <2> QED BY <2>1, <2>2
<1>5. ASSUME NEW j \in 1..M, j - 1 \in S PROVE j \in S
    <2>1. Low(j - 1) /\ j \in Nat /\ j \in 0..M /\ j - 1 \in 0..M
        BY <1>1, <1>5
    <2>2. c[j - 1] < c[j] /\ c[j - 1] \in Nat /\ c[j] \in Nat
        BY <1>2, <1>3, <2>1
    <2>3. ASSUME NEW k \in 0..j PROVE c[k] <= c[j] /\ (k # j => c[k] < c[j])
        <3>1. CASE k = j
            BY <2>2, <3>1
        <3>2. CASE k # j
            <4>1. k \in 0..(j - 1) /\ k \in 0..M
                BY <1>1, <2>1, <3>2
            <4>2. c[k] <= c[j - 1] /\ c[k] \in Nat
                BY <1>3, <2>1, <4>1
            <4> QED BY <2>2, <4>2
        <3> QED BY <3>1, <3>2
    <2>4. Low(j)
        BY <2>3
    <2> HIDE DEF Low
    <2> QED BY <2>1, <2>4
<1>6. \A j \in 0..M : j \in S
    <2> HIDE DEF S
    <2> QED BY <1>1, <1>4, <1>5, UpTo
<1>7. \A j \in 0..M : Low(j)
    BY <1>6
<1>8. /\ L \in Nat /\ M \in Nat /\ c[0] = 0 /\ c[M] = L
      /\ \A k \in 0..M : c[k] \in Nat /\ c[k] <= L
      /\ \A k \in 1..M : c[k - 1] < c[k]
      /\ \A j \in 0..M : \A k \in 0..j : c[k] <= c[j]
      /\ \A j \in 0..M : \A k \in 0..j : k # j => c[k] < c[j]
    BY <1>1, <1>2, <1>3, <1>7
<1> QED BY <1>8 DEF M, L, c

\* The keys of a data block, and of the index, are keys, and in order where
\* the table is.
LEMMA BlocksKeyed ==
    ASSUME NEW file, TableOK(file)
    PROVE  /\ \A k \in 1..DataBlocks(file) :
                 /\ Keyed(file.source, Cut(file)[k - 1], Cut(file)[k])
                 /\ Encodes(file.blocks[k], file.source, Cut(file)[k - 1], Cut(file)[k])
                 /\ BytesSorted(file.source) => InOrder(file.source, Cut(file)[k - 1], Cut(file)[k])
           /\ Keyed(IndexEntries(file, Cut(file)), 0, DataBlocks(file))
           /\ Encodes(file.blocks[file.footer.index], IndexEntries(file, Cut(file)), 0, DataBlocks(file))
           /\ BytesSorted(file.source) => InOrder(IndexEntries(file, Cut(file)), 0, DataBlocks(file))
           /\ \A k \in 1..DataBlocks(file) :
                 /\ IndexEntries(file, Cut(file))[k].value = k
                 /\ IndexEntries(file, Cut(file))[k].key = file.source[Cut(file)[k]].key
<1> DEFINE M == DataBlocks(file)
           L == Len(file.source)
           c == Cut(file)
           ix == IndexEntries(file, c)
           es == file.source
<1>1. CutAt(file, c) /\ IsTable(es)
    BY CutIs
<1>2. /\ L \in Nat /\ M \in Nat /\ c[0] = 0 /\ c[M] = L
      /\ \A k \in 0..M : c[k] \in Nat /\ c[k] <= L
      /\ \A k \in 1..M : c[k - 1] < c[k]
      /\ \A j \in 0..M : \A k \in 0..j : k # j => c[k] < c[j]
    BY CutsGrow
<1>3. \A i \in 1..L : es[i].key \in Seq(Nat)
    BY <1>1 DEF IsTable
<1>4. /\ \A k \in 1..M : Encodes(file.blocks[k], es, c[k - 1], c[k])
      /\ Encodes(file.blocks[file.footer.index], ix, 0, M)
    BY <1>1 DEF CutAt
<1>5. \A k \in 1..M : ix[k].value = k /\ ix[k].key = es[c[k]].key
    BY DEF IndexEntries
<1>6. BytesSorted(es) => InOrder(es, 0, L)
    BY <1>2, <1>3, SortedInOrder
<1> HIDE DEF M, L, c, ix, es
<1>7. ASSUME NEW k \in 1..M
      PROVE  /\ c[k - 1] \in Nat /\ c[k] \in Nat /\ c[k - 1] < c[k] /\ c[k] <= L
             /\ c[k] \in 1..L
    <2>1. k \in 0..M /\ k - 1 \in 0..M
        BY <1>2
    <2>2. c[k - 1] \in Nat /\ c[k] \in Nat /\ c[k - 1] < c[k] /\ c[k] <= L
        BY <1>2, <2>1
    <2> DEFINE x == c[k - 1]
               y == c[k]
    <2>3. x \in Nat /\ y \in Nat /\ x < y /\ y <= L
        BY <2>2
    <2> HIDE DEF x, y
    <2>4. y \in 1..L
        BY <1>2, <2>3
    <2> QED BY <2>2, <2>4 DEF y
<1>8. ASSUME NEW k \in 1..M PROVE Keyed(es, c[k - 1], c[k]) /\ (BytesSorted(es) => InOrder(es, c[k - 1], c[k]))
    <2> DEFINE x == c[k - 1]
               y == c[k]
    <2>1. x \in Nat /\ y \in Nat /\ x < y /\ y <= L
        BY <1>7
    <2> HIDE DEF x, y
    <2>2. \A i \in (x + 1)..y : i \in 1..L /\ i \in (0 + 1)..L
        BY <1>2, <2>1
    <2>3. Keyed(es, x, y)
        BY <1>3, <2>1, <2>2 DEF Keyed
    <2>4. InOrder(es, 0, L) => InOrder(es, x, y)
        BY <2>2 DEF InOrder
    <2> QED BY <1>6, <2>3, <2>4 DEF x, y
<1>9. Keyed(ix, 0, M)
    <2>1. ASSUME NEW k \in (0 + 1)..M PROVE ix[k].key \in Seq(Nat)
        <3>1. k \in 1..M
            BY <1>2
        <3> QED BY <1>3, <1>5, <1>7, <3>1
    <2> QED BY <1>2, <2>1 DEF Keyed
<1>10. ASSUME BytesSorted(es) PROVE InOrder(ix, 0, M)
    <2> SUFFICES ASSUME NEW i \in (0 + 1)..M, NEW j \in (0 + 1)..M, i < j
                 PROVE  Less(ix[i].key, ix[j].key)
        BY DEF InOrder
    <2>1. i \in 1..M /\ j \in 1..M /\ i \in 0..j /\ i # j /\ j \in 0..M
        BY <1>2
    <2>2. c[i] < c[j]
        BY <1>2, <2>1
    <2>3. c[i] \in 1..L /\ c[j] \in 1..L
        BY <1>7, <2>1
    <2>4. c[i] \in (0 + 1)..L /\ c[j] \in (0 + 1)..L
        BY <2>3
    <2>5. Less(es[c[i]].key, es[c[j]].key)
        BY <1>6, <1>10, <2>2, <2>4 DEF InOrder
    <2> QED BY <1>5, <2>1, <2>5
<1>11. /\ \A k \in 1..M :
             /\ Keyed(es, c[k - 1], c[k])
             /\ Encodes(file.blocks[k], es, c[k - 1], c[k])
             /\ BytesSorted(es) => InOrder(es, c[k - 1], c[k])
       /\ Keyed(ix, 0, M)
       /\ Encodes(file.blocks[file.footer.index], ix, 0, M)
       /\ BytesSorted(es) => InOrder(ix, 0, M)
       /\ \A k \in 1..M : ix[k].value = k /\ ix[k].key = es[c[k]].key
    BY <1>4, <1>5, <1>8, <1>9, <1>10
<1> QED BY <1>11 DEF M, c, ix, es

-----------------------------------------------------------------------------
(* The steps of an iterator.                                               *)

Fields == {"pc", "path", "file", "filter", "use", "want", "target", "index", "data",
           "valid", "err", "out", "expect", "positioned"}

\* Iterator a is iterator it but for some fields.
Changes(a, it, names) == DOMAIN a = Fields /\ \A f \in Fields \ names : a[f] = it[f]

LEMMA AskBlockIs ==
    ASSUME NEW it, DOMAIN it = Fields, NEW use, NEW handle
    PROVE  LET a == AskBlock(it, use, handle)
           IN  /\ Changes(a, it, {"pc", "use", "want"})
               /\ a.pc = "get" /\ a.use = use /\ a.want = handle
BY DEF AskBlock, Changes, Fields

LEMMA PositionDataIs ==
    ASSUME NEW it, DOMAIN it = Fields
    PROVE  LET a == PositionData(it)
               b == PositionBlock(it.data[1], it.target)
           IN  /\ Changes(a, it, {"pc", "data", "valid", "target"})
               /\ a.pc = "ready" /\ a.target = <<>>
               /\ it.data = <<>> => a.data = <<>> /\ a.valid = FALSE
               /\ it.data # <<>> => a.data = <<b>> /\ a.valid = BlockValid(b)
<1> DEFINE b == PositionBlock(it.data[1], it.target)
           a == PositionData(it)
<1>1. CASE it.data = <<>>
    <2>1. a = [it EXCEPT !.pc = "ready", !.valid = FALSE, !.target = <<>>]
        BY <1>1 DEF PositionData
    <2> HIDE DEF a
    <2>2. Changes(a, it, {"pc", "data", "valid", "target"}) /\ a.pc = "ready" /\ a.target = <<>>
          /\ a.valid = FALSE /\ a.data = it.data
        BY <2>1 DEF Changes, Fields
    <2> QED BY <1>1, <2>2 DEF a
<1>2. CASE it.data # <<>>
    <2>1. a = [it EXCEPT !.pc = "ready", !.data = <<b>>, !.valid = BlockValid(b), !.target = <<>>]
        BY <1>2 DEF PositionData
    <2> DEFINE ok == BlockValid(b)
    <2> HIDE DEF a, b, ok
    <2>2. a = [it EXCEPT !.pc = "ready", !.data = <<b>>, !.valid = ok, !.target = <<>>]
        BY <2>1 DEF ok
    <2>3. Changes(a, it, {"pc", "data", "valid", "target"}) /\ a.pc = "ready" /\ a.target = <<>>
          /\ a.valid = ok /\ a.data = <<b>>
        BY <2>2 DEF Changes, Fields
    <2> QED BY <1>2, <2>3 DEF a, b, ok
<1> QED BY <1>1, <1>2

\* An iterator with its index, that was positioned.
Open(it) ==
    /\ DOMAIN it = Fields
    /\ TableOK(it.file)
    /\ it.use \in {"index", "data"}
    /\ it.valid \in BOOLEAN /\ it.err \in BOOLEAN /\ it.positioned = TRUE
    /\ it.target \in Seq(Nat)
    /\ IndexIterOK(it)
    /\ it.data # <<>> => \E k \in 1..DataBlocks(it.file) : DataIterOK(it, k)

\* What it has returned and what is left, with the next entry p.
ScanAt(it, s, p) ==
    /\ s \in 1..(Len(it.file.source) + 1) /\ p \in s..(Len(it.file.source) + 1)
    /\ it.expect = SubSeq(it.file.source, s, Len(it.file.source))
    /\ it.out = SubSeq(it.file.source, s, p - 1)

\* Entry p is the one to stop on in the block the index is on.
Ahead(it, p) ==
    /\ it.target = <<>> => p = Cut(it.file)[OnBlock(it) - 1] + 1
    /\ it.target # <<>> => it.out = <<>> /\ TargetIn(it, OnBlock(it), p)

\* An index iterator on an entry is on a block, whose handle is its value.
LEMMA OnBlockIs ==
    ASSUME NEW it, TableOK(it.file), IndexIterOK(it), BlockValid(it.index)
    PROVE  OnBlock(it) \in 1..DataBlocks(it.file) /\ it.index.value = OnBlock(it)
<1> DEFINE M == DataBlocks(it.file)
           ix == IndexEntries(it.file, Cut(it.file))
<1>1. M \in Nat /\ \A k \in 1..M : ix[k].value = k
    BY CutIs, BlocksKeyed
<1>2. /\ it.index.next \in 1..(M - 0 + 1) /\ it.index.next > 1
      /\ it.index.value = ix[0 + it.index.next - 1].value
    BY DEF IndexIterOK, BlockIterOK, BlockValid
<1> DEFINE n == it.index.next
<1> HIDE DEF M, ix, n
<1>3. n \in 1..(M - 0 + 1) /\ n > 1 /\ it.index.value = ix[0 + n - 1].value
    BY <1>2 DEF n
<1>4. n - 1 \in 1..M /\ 0 + n - 1 = n - 1
    BY <1>1, <1>3
<1>5. it.index.value = n - 1
    BY <1>1, <1>3, <1>4
<1> QED BY <1>4, <1>5 DEF OnBlock, n, M

\* The block iterator of loadDataBlock, positioned by its callers, stands on
\* entry p.
LEMMA PositionBlockOK ==
    ASSUME NEW it, Open(it), BlockValid(it.index), it.data # <<>>, DataIterOK(it, OnBlock(it)),
           NEW p \in Nat, Ahead(it, p)
    PROVE  LET b == PositionBlock(it.data[1], it.target)
           IN  BlockValid(b) /\ b.valid /\ p = Cut(it.file)[OnBlock(it) - 1] + b.next - 1
<1> DEFINE k == OnBlock(it)
           d == it.data[1]
           b == PositionBlock(d, it.target)
           es == it.file.source
           from == Cut(it.file)[k - 1]
           to == Cut(it.file)[k]
<1>1. TableOK(it.file) /\ it.target \in Seq(Nat) /\ IndexIterOK(it)
    BY DEF Open
<1>2. k \in 1..DataBlocks(it.file)
    BY <1>1, OnBlockIs
<1> HIDE DEF k
<1>3. Keyed(es, from, to) /\ (BytesSorted(es) => InOrder(es, from, to)) /\ from < to
      /\ from \in Nat /\ to \in Nat
    <2>1. Cut(it.file)[k - 1] < Cut(it.file)[k]
        BY <1>1, <1>2, CutsGrow
    <2> QED BY <1>1, <1>2, <2>1, BlocksKeyed DEF Keyed
<1>4. BlockIterOK(d, es, from, to)
    BY DEF DataIterOK, k
<1>5. /\ it.target = <<>> => p = from + 1
      /\ it.target # <<>> => TargetIn(it, k, p)
    BY DEF Ahead, k
<1> HIDE DEF d
<1>6. CASE it.target = <<>>
    <2>1. b = BlockSeekToFirst(d)
        BY <1>6 DEF PositionBlock
    <2> HIDE DEF b, from, to, es
    <2>2. b.valid /\ b.next = 2 /\ BlockIterOK(b, es, from, to)
        BY <1>3, <1>4, <2>1, SeekToFirstOK
    <2>3. BlockValid(b)
        BY <2>2 DEF BlockIterOK, BlockValid
    <2>4. p = from + b.next - 1
        BY <1>3, <1>5, <1>6, <2>2
    <2> QED BY <2>2, <2>3, <2>4 DEF b, d, from, k
<1>7. CASE it.target # <<>>
    <2>1. b = BlockSeek(d, it.target)
        BY <1>7 DEF PositionBlock
    <2>2. /\ from < p /\ p <= to /\ BytesSorted(es) /\ ~Less(es[p].key, it.target)
          /\ \A i \in 1..(p - 1) : Less(es[i].key, it.target)
        BY <1>5, <1>7 DEF TargetIn
    <2> HIDE DEF b, from, to, es
    <2>3. /\ BlockIterOK(b, es, from, to)
          /\ b.valid => /\ ~Less(es[from + b.next - 1].key, it.target)
                        /\ \A i \in (from + 1)..(from + b.next - 2) : Less(es[i].key, it.target)
          /\ ~b.valid => \A i \in (from + 1)..to : Less(es[i].key, it.target)
        BY <1>1, <1>3, <1>4, <2>1, <2>2, BlockSeekOK
    <2>5. b.valid
        <3>1. p \in (from + 1)..to
            BY <1>3, <2>2
        <3> QED BY <2>2, <2>3, <3>1
    <2>6. BlockValid(b) /\ b.next \in 1..(to - from + 1) /\ b.next > 1
        BY <2>3, <2>5 DEF BlockIterOK, BlockValid
    <2> DEFINE q == from + b.next - 1
    <2>7. q \in Nat /\ q >= 1 /\ q - 1 = from + b.next - 2 /\ b.next \in Nat
        BY <1>3, <2>6
    <2>8. ~Less(es[q].key, it.target) /\ \A i \in (from + 1)..(q - 1) : Less(es[i].key, it.target)
        BY <2>3, <2>5, <2>7
    <2> HIDE DEF q
    <2>9. ~(p < q)
        <3>1. p < q => p \in (from + 1)..(q - 1)
            BY <1>3, <2>2, <2>7
        <3> QED BY <2>2, <2>8, <3>1
    <2>10. ~(q < p)
        <3>1. q < p => q \in 1..(p - 1)
            BY <2>7
        <3> QED BY <2>2, <2>8, <3>1
    <2>11. p = q
        BY <2>7, <2>9, <2>10
    <2> QED BY <2>5, <2>6, <2>11 DEF q, b, d, from, k
<1> QED BY <1>6, <1>7

LEMMA PositionKeeps ==
    ASSUME NEW es, NEW from, NEW to, Keyed(es, from, to), NEW d, BlockIterOK(d, es, from, to),
           NEW target \in Seq(Nat)
    PROVE  BlockIterOK(PositionBlock(d, target), es, from, to)
<1>1. CASE target = <<>>
    BY <1>1, SeekToFirstOK DEF PositionBlock
<1>2. CASE target # <<>>
    BY <1>2, BlockSeekOK DEF PositionBlock
<1> QED BY <1>1, <1>2

LEMMA ValidIs ==
    ASSUME NEW es, NEW from, NEW to, NEW b, BlockIterOK(b, es, from, to)
    PROVE  BlockValid(b) = b.valid /\ b.valid \in BOOLEAN
<1>1. b.err = FALSE /\ b.valid \in BOOLEAN
    BY DEF BlockIterOK
<1> QED BY <1>1 DEF BlockValid

\* An iterator whose block is loaded, or that has none left, is positioned.
LEMMA PositionDataOK ==
    ASSUME NEW it, Open(it), NEW s, NEW p, ScanAt(it, s, p),
           ~it.err => IF it.data = <<>> THEN p = Len(it.file.source) + 1
                      ELSE BlockValid(it.index) /\ DataIterOK(it, OnBlock(it)) /\ Ahead(it, p)
    PROVE  LET a == PositionData(it)
           IN  IteratorOK(a) /\ a.pc = "ready" /\ a.path = it.path /\ a.file = it.file
<1> DEFINE a == PositionData(it)
           b == PositionBlock(it.data[1], it.target)
           L == Len(it.file.source)
<1>1. /\ DOMAIN it = Fields
      /\ TableOK(it.file)
      /\ it.use \in {"index", "data"}
      /\ it.valid \in BOOLEAN /\ it.err \in BOOLEAN /\ it.positioned = TRUE
      /\ it.target \in Seq(Nat)
      /\ IndexIterOK(it)
      /\ it.data # <<>> => \E k \in 1..DataBlocks(it.file) : DataIterOK(it, k)
    BY DEF Open
<1>2. /\ Changes(a, it, {"pc", "data", "valid", "target"})
      /\ a.pc = "ready" /\ a.target = <<>>
      /\ it.data = <<>> => a.data = <<>> /\ a.valid = FALSE
      /\ it.data # <<>> => a.data = <<b>> /\ a.valid = BlockValid(b)
    BY <1>1, PositionDataIs
<1> HIDE DEF a, b
<1>3. /\ DOMAIN a = Fields /\ a.file = it.file /\ a.path = it.path /\ a.index = it.index
      /\ a.use = it.use /\ a.err = it.err /\ a.out = it.out /\ a.expect = it.expect
      /\ a.positioned = TRUE
    BY <1>1, <1>2 DEF Changes, Fields
<1>4. L \in Nat /\ s \in 1..(L + 1) /\ p \in s..(L + 1) /\ p \in Nat
    <2>1. L \in Nat
        BY <1>1, CutIs DEF IsTable
    <2> QED BY <2>1 DEF ScanAt
<1>5. ASSUME NEW k \in 1..DataBlocks(it.file), DataIterOK(it, k), it.data # <<>>
      PROVE  DataIterOK(a, k) /\ a.data # <<>> /\ a.data[1] = b /\ a.valid = b.valid /\ a.valid \in BOOLEAN
    <2>1. BlockIterOK(it.data[1], it.file.source, Cut(it.file)[k - 1], Cut(it.file)[k])
        BY <1>5 DEF DataIterOK
    <2>2. Keyed(it.file.source, Cut(it.file)[k - 1], Cut(it.file)[k])
        BY <1>1, BlocksKeyed
    <2>3. BlockIterOK(b, it.file.source, Cut(it.file)[k - 1], Cut(it.file)[k])
        BY <1>1, <2>1, <2>2, PositionKeeps DEF b
    <2>4. BlockValid(b) = b.valid /\ b.valid \in BOOLEAN
        BY <2>3, ValidIs
    <2>5. a.data # <<>> /\ a.data[1] = b
        <3>1. a.data = <<b>>
            BY <1>2, <1>5
        <3>2. <<b>> # <<>> /\ <<b>>[1] = b
            OBVIOUS
        <3> QED BY <3>1, <3>2
    <2>6. DataIterOK(a, k)
        BY <1>3, <2>3, <2>5 DEF DataIterOK
    <2> QED BY <1>2, <1>5, <2>4, <2>5, <2>6
<1>6. /\ a.valid \in BOOLEAN
      /\ a.data # <<>> => \E k \in 1..DataBlocks(a.file) : DataIterOK(a, k)
    BY <1>1, <1>2, <1>3, <1>5
<1>7. ASSUME ~a.err PROVE At(a, p)
    <2>1. CASE it.data = <<>>
        <3>1. a.valid = FALSE /\ p = Len(a.file.source) + 1
            BY <1>2, <1>3, <1>7, <2>1
        <3> QED BY <1>2, <3>1 DEF At
    <2>2. CASE it.data # <<>>
        <3>1. BlockValid(it.index) /\ DataIterOK(it, OnBlock(it)) /\ Ahead(it, p)
            BY <1>3, <1>7, <2>2
        <3>2. OnBlock(it) \in 1..DataBlocks(it.file) /\ OnBlock(a) = OnBlock(it)
            BY <1>1, <1>3, <3>1, OnBlockIs DEF OnBlock
        <3>3. b.valid /\ p = Cut(it.file)[OnBlock(it) - 1] + b.next - 1
            BY <1>4, <2>2, <3>1, PositionBlockOK DEF b
        <3>4. DataIterOK(a, OnBlock(a)) /\ a.data # <<>> /\ a.data[1] = b /\ a.valid = b.valid
            BY <1>5, <2>2, <3>1, <3>2
        <3> QED BY <1>2, <1>3, <3>1, <3>2, <3>3, <3>4 DEF At
    <2> QED BY <2>1, <2>2
<1>8. ScanOK(a)
    <2>1. ScanAt(a, s, p)
        BY <1>3 DEF ScanAt
    <2> QED BY <1>7, <2>1 DEF ScanOK, ScanAt
<1>9. Phase(a) /\ IndexLoaded(a) /\ IndexIterOK(a) /\ <<>> \in Seq(Nat)
    BY <1>1, <1>2, <1>3 DEF Phase, IndexLoaded, IndexIterOK
<1>10. IteratorOK(a)
    BY <1>1, <1>2, <1>3, <1>6, <1>8, <1>9 DEF IteratorOK, Fields
<1> QED BY <1>2, <1>3, <1>10 DEF a

\* loadDataBlock: the block the index is on is asked for, or none is left.
LEMMA LoadDataBlockOK ==
    ASSUME NEW it, Open(it), NEW s, NEW p, ScanAt(it, s, p),
           ~it.err => IF BlockValid(it.index) THEN Ahead(it, p) ELSE p = Len(it.file.source) + 1
    PROVE  LET a == LoadDataBlock(it)
           IN  IteratorOK(a) /\ a.pc # "none" /\ a.path = it.path /\ a.file = it.file
<1> DEFINE a == LoadDataBlock(it)
<1>1. /\ DOMAIN it = Fields
      /\ TableOK(it.file)
      /\ it.use \in {"index", "data"}
      /\ it.valid \in BOOLEAN /\ it.err \in BOOLEAN /\ it.positioned = TRUE
      /\ it.target \in Seq(Nat)
      /\ IndexIterOK(it)
      /\ it.data # <<>> => \E k \in 1..DataBlocks(it.file) : DataIterOK(it, k)
    BY DEF Open
<1>2. CASE BlockValid(it.index)
    <2>1. a = AskBlock(it, "data", it.index.value)
        BY <1>2 DEF LoadDataBlock
    <2> HIDE DEF a
    <2>2. /\ Changes(a, it, {"pc", "use", "want"})
          /\ a.pc = "get" /\ a.use = "data" /\ a.want = it.index.value
        BY <1>1, <2>1, AskBlockIs
    <2>3. /\ DOMAIN a = Fields /\ a.file = it.file /\ a.path = it.path /\ a.index = it.index
          /\ a.err = it.err /\ a.out = it.out /\ a.expect = it.expect /\ a.data = it.data
          /\ a.positioned = TRUE /\ a.target = it.target /\ a.valid = it.valid
        BY <1>1, <2>2 DEF Changes, Fields
    <2>4. ASSUME ~a.err PROVE At(a, p)
        <3>1. Ahead(it, p)
            BY <1>2, <2>3, <2>4
        <3>2. Ahead(a, p)
            BY <2>3, <3>1 DEF Ahead, OnBlock, TargetIn
        <3> QED BY <2>2, <3>2 DEF At, Ahead
    <2>5. ScanOK(a)
        <3>1. ScanAt(a, s, p)
            BY <2>3 DEF ScanAt
        <3> QED BY <2>4, <3>1 DEF ScanOK, ScanAt
    <2>6. Phase(a) /\ IndexLoaded(a) /\ IndexIterOK(a)
        BY <1>1, <1>2, <2>2, <2>3 DEF Phase, IndexLoaded, IndexIterOK
    <2>7. a.data # <<>> => \E k \in 1..DataBlocks(a.file) : DataIterOK(a, k)
        BY <1>1, <2>3 DEF DataIterOK
    <2>8. IteratorOK(a)
        BY <1>1, <2>2, <2>3, <2>5, <2>6, <2>7 DEF IteratorOK, Fields
    <2> QED BY <2>2, <2>3, <2>8 DEF a
<1>3. CASE ~BlockValid(it.index)
    <2> DEFINE jt == [it EXCEPT !.data = <<>>]
    <2>1. a = PositionData(jt)
        BY <1>3 DEF LoadDataBlock
    <2> HIDE DEF a
    <2>2. Changes(jt, it, {"data"}) /\ jt.data = <<>>
        BY <1>1 DEF Changes, Fields
    <2> HIDE DEF jt
    <2>3. /\ DOMAIN jt = Fields /\ jt.file = it.file /\ jt.path = it.path /\ jt.index = it.index
          /\ jt.err = it.err /\ jt.out = it.out /\ jt.expect = it.expect /\ jt.use = it.use
          /\ jt.positioned = TRUE /\ jt.target = it.target /\ jt.valid = it.valid
        BY <1>1, <2>2 DEF Changes, Fields
    <2>4. Open(jt)
        <3>1. IndexIterOK(jt)
            BY <1>1, <2>3 DEF IndexIterOK
        <3> QED BY <1>1, <2>2, <2>3, <3>1 DEF Open
    <2>5. ScanAt(jt, s, p)
        BY <2>3 DEF ScanAt
    <2>6. ~jt.err => p = Len(jt.file.source) + 1
        BY <1>3, <2>3
    <2>7. IteratorOK(a) /\ a.pc = "ready" /\ a.path = jt.path /\ a.file = jt.file
        BY <2>1, <2>2, <2>4, <2>5, <2>6, PositionDataOK
    <2> QED BY <2>3, <2>7 DEF a
<1> QED BY <1>2, <1>3

\* An iterator that has no index yet.
Early(it) ==
    /\ DOMAIN it = Fields
    /\ TableOK(it.file)
    /\ it.valid = FALSE /\ it.err = FALSE /\ it.positioned = FALSE
    /\ it.index = NoIterator.index
    /\ NotPositioned(it)

LEMMA MetaIsEarly ==
    ASSUME NEW it, IteratorOK(it), it.use = "meta" \/ (it.use = "index" /\ it.pc # "ready")
    PROVE  Early(it)
<1>1. /\ DOMAIN it = Fields /\ TableOK(it.file)
      /\ it.valid \in BOOLEAN /\ it.err \in BOOLEAN /\ it.positioned \in BOOLEAN
    BY DEF IteratorOK, Fields
<1>2. ~IndexLoaded(it)
    BY DEF IteratorOK, Phase, IndexLoaded
<1>3. it.index = NoIterator.index /\ ~it.positioned
    BY <1>2 DEF IteratorOK
<1>4. NotPositioned(it)
    BY <1>3 DEF IteratorOK
<1>5. it.valid = FALSE /\ it.err = FALSE /\ it.positioned = FALSE
    BY <1>1, <1>3, <1>4 DEF NotPositioned
<1> QED BY <1>1, <1>3, <1>4, <1>5 DEF Early

LEMMA EarlyIsOK ==
    ASSUME NEW it, Early(it), Phase(it), it.use \in {"meta", "index"}, it.pc # "ready"
    PROVE  IteratorOK(it)
<1>1. ~IndexLoaded(it)
    BY DEF IndexLoaded
<1>2. it.target \in Seq(Nat) /\ it.data = <<>>
    <2>1. it.target = <<>> /\ <<>> \in Seq(Nat) /\ it.data = <<>>
        BY DEF Early, NotPositioned
    <2> QED BY <2>1
<1> QED BY <1>1, <1>2 DEF IteratorOK, Early, Fields

LEMMA EarlyAskOK ==
    ASSUME NEW it, Early(it), NEW use, NEW handle,
           \/ use = "meta" /\ handle = it.file.footer.meta
           \/ use = "index" /\ handle = it.file.footer.index
    PROVE  LET a == AskBlock(it, use, handle)
           IN  IteratorOK(a) /\ a.pc # "none" /\ a.path = it.path /\ a.file = it.file
<1> DEFINE a == AskBlock(it, use, handle)
<1>1. /\ Changes(a, it, {"pc", "use", "want"})
      /\ a.pc = "get" /\ a.use = use /\ a.want = handle
    BY AskBlockIs DEF Early
<1> HIDE DEF a
<1>2. /\ DOMAIN a = Fields /\ a.file = it.file /\ a.path = it.path /\ a.index = it.index
      /\ a.err = it.err /\ a.out = it.out /\ a.expect = it.expect /\ a.data = it.data
      /\ a.positioned = it.positioned /\ a.target = it.target /\ a.valid = it.valid
    BY <1>1 DEF Changes, Fields
<1>3. Early(a)
    BY <1>2 DEF Early, NotPositioned
<1>4. Phase(a)
    BY <1>1, <1>2 DEF Phase
<1>5. IteratorOK(a)
    BY <1>1, <1>3, <1>4, EarlyIsOK
<1> QED BY <1>1, <1>2, <1>5 DEF a

\* An iterator for a block has no error and no entry.
LEMMA NewBlockIteratorOK ==
    ASSUME NEW block, NEW es, NEW from \in Nat, NEW to \in Nat, from <= to, Encodes(block, es, from, to)
    PROVE  BlockIterOK(NewBlockIterator(block), es, from, to)
<1> DEFINE b == NewBlockIterator(block)
<1>1. /\ DOMAIN b = {"block", "next", "key", "value", "valid", "err"} /\ b.err = FALSE
      /\ b.block = block /\ b.next = 1 /\ b.key = <<>> /\ b.valid = FALSE
    BY DEF NewBlockIterator
<1> HIDE DEF b
<1>2. <<>> \in Seq(Nat) /\ 1 \in 1..(to - from + 1)
    OBVIOUS
<1>3. 1 <= to - from => b.block.entries[1].shared = 0
    <2> SUFFICES ASSUME 1 <= to - from PROVE block.entries[1].shared = 0
        BY <1>1
    <2>1. 1 \in 1..(to - from) /\ ~(1 > 1)
        OBVIOUS
    <2>2. block.entries[1].shared \in Nat /\ ~(block.entries[1].shared > 0)
        BY <2>1 DEF Encodes
    <2> QED BY <2>2
<1>4. BlockIterOK(b, es, from, to)
    BY <1>1, <1>2, <1>3 DEF BlockIterOK
<1> QED BY <1>4 DEF b

\* An iterator that was positioned and has asked for a data block.
LEMMA DataIsOpen ==
    ASSUME NEW it, IteratorOK(it), it.positioned, it.use = "data" \/ it.pc = "ready"
    PROVE  /\ Open(it)
           /\ \E s, p : ScanAt(it, s, p) /\ (~it.err => At(it, p))
<1>1. IndexLoaded(it) /\ it.use \in {"index", "data"} /\ it.positioned = TRUE
    BY DEF IteratorOK, IndexLoaded, Phase
<1>2. IndexIterOK(it) /\ ScanOK(it)
    BY <1>1 DEF IteratorOK
<1>3. Open(it)
    BY <1>1, <1>2 DEF IteratorOK, Open, Fields
<1>4. \E s, p : ScanAt(it, s, p) /\ (~it.err => At(it, p))
    BY <1>2 DEF ScanOK, ScanAt
<1> QED BY <1>3, <1>4

\* What follows a ReadBlock that returned the block.
LEMMA LoadedOK ==
    ASSUME NEW it, IteratorOK(it), it.pc \in {"get", "read"}
    PROVE  LET a == Loaded(it, it.file.blocks[it.want])
           IN  IteratorOK(a) /\ a.pc # "none" /\ a.path = it.path /\ a.file = it.file
<1> DEFINE block == it.file.blocks[it.want]
           a == Loaded(it, block)
<1>1. DOMAIN it = Fields /\ TableOK(it.file) /\ Phase(it)
    BY DEF IteratorOK, Fields
<1>2. \/ it.use = "meta"
      \/ it.use = "index" /\ it.want = it.file.footer.index
      \/ it.use = "data" /\ it.positioned /\ BlockValid(it.index) /\ it.want = it.index.value
    BY <1>1 DEF Phase
<1>3. CASE it.use = "meta"
    <2>0. Early(it)
        BY <1>3, MetaIsEarly
    <2>1. CASE CurrentSize(block) > 0
        <3>1. a = [it EXCEPT !.pc = "filter"]
            BY <1>3, <2>1 DEF Loaded
        <3> HIDE DEF a, block
        <3>2. /\ DOMAIN a = Fields /\ a.file = it.file /\ a.path = it.path /\ a.index = it.index
              /\ a.err = it.err /\ a.out = it.out /\ a.expect = it.expect /\ a.data = it.data
              /\ a.positioned = it.positioned /\ a.target = it.target /\ a.valid = it.valid
              /\ a.pc = "filter" /\ a.use = "meta" /\ a.want = it.want
            BY <1>1, <1>3, <3>1 DEF Fields
        <3>3. Early(a)
            BY <2>0, <3>2 DEF Early, NotPositioned
        <3>4. Phase(a)
            BY <1>1, <1>3, <3>2 DEF Phase
        <3>5. IteratorOK(a)
            BY <3>2, <3>3, <3>4, EarlyIsOK
        <3> QED BY <3>2, <3>5 DEF a, block
    <2>2. CASE ~(CurrentSize(block) > 0)
        <3>1. a = AskBlock(it, "index", it.file.footer.index)
            BY <1>3, <2>2 DEF Loaded
        <3> HIDE DEF a, block
        <3>2. IteratorOK(a) /\ a.pc # "none" /\ a.path = it.path /\ a.file = it.file
            BY <2>0, <3>1, EarlyAskOK
        <3> QED BY <3>2 DEF a, block
    <2> QED BY <2>1, <2>2
<1>4. CASE it.use = "index"
    <2>0. Early(it)
        <3>1. it.pc # "ready"
            OBVIOUS
        <3> QED BY <1>4, <3>1, MetaIsEarly
    <2>1. a = [it EXCEPT !.index = NewBlockIterator(block), !.pc = "ready"]
        BY <1>4 DEF Loaded
    <2> DEFINE b == NewBlockIterator(block)
    <2>2. a = [it EXCEPT !.index = b, !.pc = "ready"]
        BY <2>1
    <2> HIDE DEF a, b, block
    <2>3. /\ DOMAIN a = Fields /\ a.file = it.file /\ a.path = it.path /\ a.index = b
          /\ a.err = it.err /\ a.out = it.out /\ a.expect = it.expect /\ a.data = it.data
          /\ a.positioned = it.positioned /\ a.target = it.target /\ a.valid = it.valid
          /\ a.pc = "ready" /\ a.use = "index"
        BY <1>1, <1>4, <2>2 DEF Fields
    <2>4. NotPositioned(a) /\ a.positioned = FALSE /\ a.valid = FALSE /\ a.err = FALSE
          /\ a.target = <<>> /\ a.data = <<>>
        BY <2>0, <2>3 DEF Early, NotPositioned
    <2>5. IndexIterOK(a)
        <3> DEFINE ix == IndexEntries(it.file, Cut(it.file))
                   M == DataBlocks(it.file)
        <3>1. Encodes(block, ix, 0, M)
            BY <1>1, <1>2, <1>4, BlocksKeyed DEF block
        <3>2. M \in Nat /\ 0 \in Nat /\ 0 <= M
            <4>1. M \in Nat
                BY <1>1, CutIs
            <4> QED BY <4>1
        <3> HIDE DEF ix, M
        <3>3. BlockIterOK(b, ix, 0, M)
            BY <3>1, <3>2, NewBlockIteratorOK DEF b
        <3> QED BY <2>3, <3>3 DEF IndexIterOK, ix, M
    <2>6. Phase(a) /\ IndexLoaded(a) /\ <<>> \in Seq(Nat)
        BY <2>3, <2>4 DEF Phase, IndexLoaded
    <2>7. IteratorOK(a)
        BY <1>1, <2>3, <2>4, <2>5, <2>6 DEF IteratorOK, Fields
    <2> QED BY <2>3, <2>7 DEF a, block
<1>5. CASE it.use = "data"
    <2>1. Open(it) /\ BlockValid(it.index) /\ it.want = it.index.value
        BY <1>2, <1>5, DataIsOpen
    <2>2. PICK s, p : ScanAt(it, s, p) /\ (~it.err => At(it, p))
        BY <1>2, <1>5, DataIsOpen
    <2>3. OnBlock(it) \in 1..DataBlocks(it.file) /\ it.want = OnBlock(it)
        BY <2>1, OnBlockIs DEF Open
    <2> DEFINE b == NewBlockIterator(block)
               jt == [it EXCEPT !.data = <<b>>]
    <2>4. a = PositionData(jt)
        BY <1>5 DEF Loaded
    <2> HIDE DEF a
    <2>5. BlockIterOK(b, it.file.source, Cut(it.file)[OnBlock(it) - 1], Cut(it.file)[OnBlock(it)])
        <3>1. /\ Keyed(it.file.source, Cut(it.file)[OnBlock(it) - 1], Cut(it.file)[OnBlock(it)])
              /\ Encodes(it.file.blocks[OnBlock(it)], it.file.source,
                         Cut(it.file)[OnBlock(it) - 1], Cut(it.file)[OnBlock(it)])
            BY <1>1, <2>3, BlocksKeyed
        <3> QED BY <2>3, <3>1, NewBlockIteratorOK DEF Keyed
    <2> HIDE DEF b, block
    <2>6. /\ DOMAIN jt = Fields /\ jt.file = it.file /\ jt.path = it.path /\ jt.index = it.index
          /\ jt.err = it.err /\ jt.out = it.out /\ jt.expect = it.expect /\ jt.use = it.use
          /\ jt.positioned = it.positioned /\ jt.target = it.target /\ jt.valid = it.valid
          /\ jt.data = <<b>>
        BY <1>1 DEF Fields
    <2> HIDE DEF jt
    <2>7. jt.data # <<>> /\ jt.data[1] = b
        <3>1. <<b>> # <<>> /\ <<b>>[1] = b
            OBVIOUS
        <3> QED BY <2>6, <3>1
    <2>8. OnBlock(jt) = OnBlock(it) /\ DataIterOK(jt, OnBlock(jt)) /\ OnBlock(jt) \in 1..DataBlocks(jt.file)
        BY <2>3, <2>5, <2>6, <2>7 DEF OnBlock, DataIterOK
    <2>9. Open(jt)
        <3>1. IndexIterOK(jt)
            BY <2>1, <2>6 DEF Open, IndexIterOK
        <3> QED BY <2>1, <2>6, <2>8, <3>1 DEF Open
    <2>10. ScanAt(jt, s, p)
        BY <2>2, <2>6 DEF ScanAt
    <2>11. ~jt.err => Ahead(jt, p)
        <3>1. it.pc # "ready"
            OBVIOUS
        <3>2. ~it.err => Ahead(it, p)
            BY <2>2, <3>1 DEF At, Ahead
        <3> QED BY <2>6, <3>2 DEF Ahead, OnBlock, TargetIn
    <2>12. BlockValid(jt.index)
        BY <2>1, <2>6
    <2>13. IteratorOK(a) /\ a.pc = "ready" /\ a.path = jt.path /\ a.file = jt.file
        BY <2>4, <2>7, <2>8, <2>9, <2>10, <2>11, <2>12, PositionDataOK
    <2> QED BY <2>6, <2>13 DEF a, block
<1> QED BY <1>2, <1>3, <1>4, <1>5

\* What follows a ReadBlock that failed.
LEMMA LoadFailedOK ==
    ASSUME NEW it, IteratorOK(it), it.pc = "read"
    PROVE  LET a == LoadFailed(it)
           IN  \/ a = NoIterator
               \/ IteratorOK(a) /\ a.pc # "none" /\ a.path = it.path /\ a.file = it.file
<1> DEFINE a == LoadFailed(it)
<1>1. DOMAIN it = Fields /\ TableOK(it.file) /\ Phase(it)
    BY DEF IteratorOK, Fields
<1>2. it.use = "meta" \/ it.use = "index" \/ (it.use = "data" /\ it.positioned)
    BY <1>1 DEF Phase
<1>3. CASE it.use = "meta"
    <2>1. a = AskBlock(it, "index", it.file.footer.index)
        BY <1>3 DEF LoadFailed
    <2> HIDE DEF a
    <2>2. Early(it)
        BY <1>3, MetaIsEarly
    <2>3. IteratorOK(a) /\ a.pc # "none" /\ a.path = it.path /\ a.file = it.file
        BY <2>1, <2>2, EarlyAskOK
    <2> QED BY <2>3 DEF a
<1>4. CASE it.use = "index"
    BY <1>4 DEF LoadFailed
<1>5. CASE it.use = "data"
    <2>1. Open(it) /\ \E s, p : ScanAt(it, s, p)
        BY <1>2, <1>5, DataIsOpen
    <2>2. PICK s, p : ScanAt(it, s, p)
        BY <2>1
    <2> DEFINE jt == [it EXCEPT !.err = TRUE]
    <2>3. a = PositionData(jt)
        BY <1>5 DEF LoadFailed
    <2> HIDE DEF a
    <2>4. /\ DOMAIN jt = Fields /\ jt.file = it.file /\ jt.path = it.path /\ jt.index = it.index
          /\ jt.err = TRUE /\ jt.out = it.out /\ jt.expect = it.expect /\ jt.use = it.use
          /\ jt.positioned = it.positioned /\ jt.target = it.target /\ jt.valid = it.valid
          /\ jt.data = it.data
        BY <1>1 DEF Fields
    <2> HIDE DEF jt
    <2>5. Open(jt)
        <3>1. IndexIterOK(jt)
            BY <2>1, <2>4 DEF Open, IndexIterOK
        <3>2. jt.data # <<>> => \E k \in 1..DataBlocks(jt.file) : DataIterOK(jt, k)
            BY <2>1, <2>4 DEF Open, DataIterOK
        <3> QED BY <2>1, <2>4, <3>1, <3>2 DEF Open
    <2>6. ScanAt(jt, s, p)
        BY <2>2, <2>4 DEF ScanAt
    <2>7. IteratorOK(a) /\ a.pc = "ready" /\ a.path = jt.path /\ a.file = jt.file
        BY <2>3, <2>4, <2>5, <2>6, PositionDataOK
    <2> QED BY <2>4, <2>7 DEF a
<1> QED BY <1>2, <1>3, <1>4, <1>5

\* The entries a seek is to return, by their first one.
AheadOf(es, target) == {i \in DOMAIN es : target = <<>> \/ ~Less(es[i].key, target)}

\* A seek in the index comes to the block with the first of them, or to its end
\* where there is none.
LEMMA IndexSeekLands ==
    ASSUME NEW file, TableOK(file), NEW target \in Seq(Nat),
           target # <<>> => BytesSorted(file.source),
           NEW x, BlockIterOK(x, IndexEntries(file, Cut(file)), 0, DataBlocks(file))
    PROVE  LET b == PositionBlock(x, target)
               ahead == AheadOf(file.source, target)
               p == Min(ahead)
               c == Cut(file)
               k == b.next - 1
           IN  /\ ~BlockValid(b) => ahead = {}
               /\ BlockValid(b) =>
                     /\ ahead # {} /\ p \in 1..Len(file.source)
                     /\ target = <<>> => p = c[k - 1] + 1
                     /\ target # <<>> =>
                           /\ c[k - 1] < p /\ p <= c[k] /\ ~Less(file.source[p].key, target)
                           /\ \A i \in 1..(p - 1) : Less(file.source[i].key, target)
<1> DEFINE es == file.source
           L == Len(es)
           M == DataBlocks(file)
           c == Cut(file)
           ix == IndexEntries(file, c)
           b == PositionBlock(x, target)
           ahead == AheadOf(es, target)
           p == Min(ahead)
           k == b.next - 1
<1>1. /\ L \in Nat /\ M \in Nat /\ c[0] = 0 /\ c[M] = L
      /\ \A n \in 0..M : c[n] \in Nat /\ c[n] <= L
      /\ \A n \in 1..M : c[n - 1] < c[n]
    BY CutsGrow
<1>2. /\ DOMAIN es = 1..L /\ \A i \in 1..L : es[i].key \in Seq(Nat)
    BY CutIs DEF IsTable
<1>3. /\ Keyed(ix, 0, M) /\ (BytesSorted(es) => InOrder(ix, 0, M))
      /\ \A n \in 1..M : ix[n].key = es[c[n]].key
    BY BlocksKeyed
<1>4. BytesSorted(es) => InOrder(es, 0, L)
    BY <1>1, <1>2, SortedInOrder
<1>5. BlockIterOK(x, ix, 0, M)
    OBVIOUS
<1> HIDE DEF ix, c, M
<1>6. BlockIterOK(b, ix, 0, M) /\ BlockValid(b) = b.valid /\ b.valid \in BOOLEAN
    <2>1. BlockIterOK(b, ix, 0, M)
        BY <1>3, <1>5, PositionKeeps
    <2> HIDE DEF b
    <2> QED BY <2>1, ValidIs
<1>7. b.valid => k \in 1..M
    <2>1. b.next \in 1..(M - 0 + 1) /\ (b.valid => b.next > 1)
        BY <1>6 DEF BlockIterOK
    <2> DEFINE n == b.next
    <2>2. n \in 1..(M - 0 + 1) /\ (b.valid => n > 1)
        BY <2>1
    <2> HIDE DEF n, b
    <2>3. b.valid => n - 1 \in 1..M
        BY <1>1, <2>2
    <2> QED BY <2>3 DEF n
<1> HIDE DEF es, L
<1>8. /\ ahead \subseteq 1..L /\ ahead \subseteq Nat
      /\ \A i \in 1..L : i \in ahead <=> (target = <<>> \/ ~Less(es[i].key, target))
    BY <1>1, <1>2 DEF AheadOf
<1> HIDE DEF ahead
<1>9. ahead # {} => p \in ahead /\ p \in 1..L /\ p \in Nat /\ \A m \in ahead : p <= m
    BY <1>8, MinIs
<1> HIDE DEF p
<1>10. CASE target = <<>>
    <2>1. b = BlockSeekToFirst(x)
        BY <1>10 DEF PositionBlock
    <2> HIDE DEF b
    <2>2. /\ M > 0 => b.valid /\ b.next = 2
          /\ M = 0 => ~b.valid
        BY <1>1, <1>3, <1>5, <2>1, SeekToFirstOK
    <2>3. CASE M > 0
        <3>1. 1 \in 0..M /\ 1 \in 1..M /\ 1 - 1 = 0
            BY <1>1, <2>3
        <3>2. 1 <= L
            <4>1. c[1] \in Nat /\ c[1] <= L /\ c[0] < c[1]
                BY <1>1, <3>1
            <4> QED BY <1>1, <4>1
        <3>3. 1 \in ahead
            BY <1>1, <1>8, <1>10, <3>2
        <3>4. p = 1
            BY <1>1, <1>9, <3>3
        <3>5. k - 1 = 0
            BY <2>2, <2>3
        <3>6. p = c[k - 1] + 1
            BY <1>1, <3>4, <3>5
        <3>7. b.valid
            BY <2>2, <2>3
        <3> HIDE DEF k
        <3>8. /\ ~BlockValid(b) => ahead = {}
              /\ ahead # {} /\ p \in 1..L /\ p = c[k - 1] + 1
            BY <1>6, <1>9, <3>3, <3>6, <3>7
        <3> QED BY <1>10, <3>8 DEF es, L, c, b, ahead, p, k
    <2>4. CASE ~(M > 0)
        <3>1. M = 0
            BY <1>1, <2>4
        <3>2. ~b.valid /\ L = 0
            BY <1>1, <2>2, <3>1
        <3>3. ahead = {}
            BY <1>8, <3>2
        <3> QED BY <1>6, <3>2, <3>3 DEF es, ahead, b
    <2> QED BY <2>3, <2>4
<1>11. CASE target # <<>>
    <2>1. b = BlockSeek(x, target) /\ InOrder(ix, 0, M) /\ InOrder(es, 0, L)
        BY <1>3, <1>4, <1>11 DEF PositionBlock, es
    <2> HIDE DEF b
    <2>2. /\ b.valid => /\ ~Less(ix[0 + b.next - 1].key, target)
                        /\ \A i \in (0 + 1)..(0 + b.next - 2) : Less(ix[i].key, target)
          /\ ~b.valid => \A i \in (0 + 1)..M : Less(ix[i].key, target)
        BY <1>3, <1>5, <2>1, BlockSeekOK
    \* An entry not after the last of a block that is before the target.
    <2>3. ASSUME NEW n \in 1..M, Less(ix[n].key, target), NEW i \in 1..L, i <= c[n]
          PROVE  Less(es[i].key, target)
        <3>1. n \in 0..M
            BY <1>1
        <3>2. c[n] \in Nat /\ c[n] <= L
            BY <1>1, <3>1
        <3>3. CASE i = c[n]
            BY <1>3, <2>3, <3>3
        <3>4. CASE i # c[n]
            <4>1. i \in Nat /\ i >= 1
                BY <1>1
            <4> DEFINE y == c[n]
            <4>2. y \in Nat /\ y <= L /\ i <= y /\ i # y
                BY <2>3, <3>2, <3>4
            <4> HIDE DEF y
            <4>3. i < y /\ y \in 1..L /\ i \in (0 + 1)..L /\ y \in (0 + 1)..L
                BY <1>1, <4>1, <4>2
            <4>4. Less(es[i].key, es[y].key)
                BY <2>1, <4>3 DEF InOrder
            <4>5. Less(es[y].key, target)
                BY <1>3, <2>3 DEF y
            <4>6. es[i].key \in Seq(Nat) /\ es[y].key \in Seq(Nat)
                BY <1>2, <4>3
            <4> QED BY <4>4, <4>5, <4>6, LessTransitive
        <3> QED BY <3>3, <3>4
    <2>4. CASE ~b.valid
        <3>1. ASSUME NEW i \in 1..L PROVE Less(es[i].key, target)
            <4>1. M # 0
                <5> SUFFICES ASSUME M = 0 PROVE FALSE
                    OBVIOUS
                <5>1. L = 0
                    BY <1>1
                <5> QED BY <5>1
            <4>2. M \in 1..M /\ M \in (0 + 1)..M
                BY <1>1, <4>1
            <4>3. i <= c[M]
                BY <1>1
            <4> QED BY <2>2, <2>3, <2>4, <4>2, <4>3
        <3>2. ahead = {}
            BY <1>8, <1>11, <3>1
        <3> QED BY <1>6, <2>4, <3>2 DEF es, ahead, b
    <2>5. CASE b.valid
        <3>1. k \in 1..M /\ 0 + b.next - 1 = k /\ k \in Nat
            <4>1. k \in 1..M
                BY <1>7, <2>5
            <4>2. b.next \in 1..(M - 0 + 1)
                BY <1>6 DEF BlockIterOK
            <4> QED BY <1>1, <4>1, <4>2
        <3>2. ~Less(ix[k].key, target)
            BY <2>2, <2>5, <3>1
        <3>3. k > 1 => Less(ix[k - 1].key, target)
            <4> SUFFICES ASSUME k > 1 PROVE Less(ix[k - 1].key, target)
                OBVIOUS
            <4>1. k - 1 \in (0 + 1)..(0 + b.next - 2)
                <5>1. b.next \in 1..(M - 0 + 1)
                    BY <1>6 DEF BlockIterOK
                <5>2. b.next \in Nat
                    BY <1>1, <5>1
                <5> QED BY <5>2
            <4> QED BY <2>2, <2>5, <4>1
        <3> HIDE DEF k
        <3>4. k \in 0..M /\ k - 1 \in 0..M /\ (k > 1 => k - 1 \in 1..M) /\ (k = 1 \/ k > 1)
            BY <1>1, <3>1
        <3> DEFINE y == c[k]
                   w == c[k - 1]
        <3>5. y \in Nat /\ w \in Nat /\ w < y /\ y <= L
            BY <1>1, <3>1, <3>4
        <3>6. ~Less(es[y].key, target)
            BY <1>3, <3>1, <3>2
        <3>7. ASSUME NEW i \in 1..L, i <= w PROVE Less(es[i].key, target)
            <4>1. k # 1
                <5> SUFFICES ASSUME k = 1 PROVE FALSE
                    OBVIOUS
                <5>1. w = 0
                    BY <1>1
                <5> QED BY <1>1, <3>7, <5>1
            <4>2. k - 1 \in 1..M /\ Less(ix[k - 1].key, target)
                BY <3>3, <3>4, <4>1
            <4> QED BY <2>3, <3>7, <4>2
        <3> HIDE DEF y, w
        <3>8. y \in 1..L
            BY <1>1, <3>5
        <3>9. y \in ahead
            BY <1>8, <3>6, <3>8
        <3>10. p \in ahead /\ p \in 1..L /\ p \in Nat /\ p <= y /\ \A m \in ahead : p <= m
            BY <1>9, <3>9
        <3>11. ~Less(es[p].key, target)
            BY <1>8, <1>11, <3>10
        <3>12. w < p
            <4>1. ~(p <= w)
                BY <3>7, <3>10, <3>11
            <4> QED BY <3>5, <3>10, <4>1
        <3>13. ASSUME NEW i \in 1..(p - 1) PROVE Less(es[i].key, target)
            <4>1. i \in 1..L /\ ~(p <= i)
                BY <1>1, <3>10
            <4>2. i \notin ahead
                BY <3>10, <4>1
            <4> QED BY <1>8, <4>1, <4>2
        <3>14. /\ ~BlockValid(b) => ahead = {}
               /\ ahead # {} /\ p \in 1..L
               /\ c[k - 1] < p /\ p <= c[k] /\ ~Less(es[p].key, target)
               /\ \A i \in 1..(p - 1) : Less(es[i].key, target)
            BY <1>6, <2>5, <3>9, <3>10, <3>11, <3>12, <3>13 DEF y, w
        <3> QED BY <1>11, <3>14 DEF es, L, c, b, ahead, p, k
    <2> QED BY <1>6, <2>4, <2>5
<1> QED BY <1>10, <1>11

\* Seek and SeekToFirst.
LEMMA SeekOK ==
    ASSUME NEW it, IteratorOK(it), it.pc = "ready", NEW target \in Seq(Nat),
           target # <<>> => BytesSorted(it.file.source)
    PROVE  LET a == LoadDataBlock([it EXCEPT !.index = PositionBlock(it.index, target), !.target = target,
                                             !.out = <<>>, !.expect = From(it.file.source, target),
                                             !.positioned = TRUE])
           IN  IteratorOK(a) /\ a.pc # "none" /\ a.path = it.path /\ a.file = it.file
<1> DEFINE es == it.file.source
           L == Len(es)
           x == PositionBlock(it.index, target)
           todo == From(es, target)
           jt == [it EXCEPT !.index = x, !.target = target, !.out = <<>>, !.expect = todo,
                            !.positioned = TRUE]
           ahead == AheadOf(es, target)
           p == IF ahead = {} THEN L + 1 ELSE Min(ahead)
<1>1. /\ DOMAIN it = Fields /\ TableOK(it.file) /\ it.use \in {"index", "data"}
      /\ it.valid \in BOOLEAN /\ it.err \in BOOLEAN
      /\ it.data # <<>> => \E k \in 1..DataBlocks(it.file) : DataIterOK(it, k)
    BY DEF IteratorOK, Fields, Phase
<1>2. IndexIterOK(it)
    BY DEF IteratorOK, IndexLoaded
<1>3. BlockIterOK(it.index, IndexEntries(it.file, Cut(it.file)), 0, DataBlocks(it.file))
    BY <1>2 DEF IndexIterOK
<1>4. BlockIterOK(x, IndexEntries(it.file, Cut(it.file)), 0, DataBlocks(it.file))
    BY <1>1, <1>3, BlocksKeyed, PositionKeeps
<1>5. L \in Nat /\ DOMAIN es = 1..L
    BY <1>1, CutIs DEF IsTable
<1>6. /\ ~BlockValid(x) => ahead = {}
      /\ BlockValid(x) =>
            /\ ahead # {} /\ Min(ahead) \in 1..L
            /\ target = <<>> => Min(ahead) = Cut(it.file)[(x.next - 1) - 1] + 1
            /\ target # <<>> =>
                  /\ Cut(it.file)[(x.next - 1) - 1] < Min(ahead) /\ Min(ahead) <= Cut(it.file)[x.next - 1]
                  /\ ~Less(es[Min(ahead)].key, target)
                  /\ \A i \in 1..(Min(ahead) - 1) : Less(es[i].key, target)
    BY <1>1, <1>3, IndexSeekLands
<1>7. /\ p \in 1..(L + 1) /\ p \in p..(L + 1)
      /\ todo = SubSeq(es, p, L) /\ <<>> = SubSeq(es, p, p - 1)
    <2>1. CASE ahead = {}
        <3>1. todo = <<>>
            BY <2>1 DEF From, AheadOf
        <3> HIDE DEF L, es, todo, ahead
        <3>2. p = L + 1 /\ (L + 1) - 1 = L /\ L + 1 \in 1..(L + 1) /\ L + 1 \in (L + 1)..(L + 1)
            BY <1>5, <2>1
        <3>3. SubSeq(es, L + 1, L) = <<>>
            BY <1>5, SubSeqEmpty
        <3> QED BY <3>1, <3>2, <3>3
    <2>2. CASE ahead # {}
        <3>1. todo = SubSeq(es, Min(ahead), L)
            BY <2>2 DEF From, AheadOf
        <3>2. Min(ahead) \in 1..L
            BY <1>6, <2>2
        <3> DEFINE q == Min(ahead)
        <3> HIDE DEF L, es, todo, ahead, q
        <3>3. p = q /\ q \in 1..L /\ todo = SubSeq(es, q, L)
            BY <2>2, <3>1, <3>2 DEF q
        <3> HIDE DEF p
        <3>4. q \in 1..(L + 1) /\ q \in q..(L + 1) /\ q \in Int /\ q - 1 \in Int /\ q - 1 < q
            BY <1>5, <3>3
        <3>5. SubSeq(es, q, q - 1) = <<>>
            BY <3>4, SubSeqEmpty
        <3> QED BY <3>3, <3>4, <3>5
    <2> QED BY <2>1, <2>2
<1> HIDE DEF x, todo, ahead
<1>8. /\ DOMAIN jt = Fields /\ jt.file = it.file /\ jt.path = it.path /\ jt.index = x
      /\ jt.err = it.err /\ jt.out = <<>> /\ jt.expect = todo /\ jt.use = it.use
      /\ jt.positioned = TRUE /\ jt.target = target /\ jt.valid = it.valid
      /\ jt.data = it.data
    BY <1>1 DEF Fields
<1>9. LoadDataBlock(jt) = LoadDataBlock([it EXCEPT !.index = PositionBlock(it.index, target), !.target = target,
                                             !.out = <<>>, !.expect = From(it.file.source, target),
                                             !.positioned = TRUE])
    BY DEF x, todo
<1> HIDE DEF jt
<1>10. Open(jt)
    <2>1. IndexIterOK(jt)
        BY <1>4, <1>8 DEF IndexIterOK
    <2>2. jt.data # <<>> => \E k \in 1..DataBlocks(jt.file) : DataIterOK(jt, k)
        BY <1>1, <1>8 DEF DataIterOK
    <2> QED BY <1>1, <1>8, <2>1, <2>2 DEF Open
<1>11. ScanAt(jt, p, p)
    <2> HIDE DEF p
    <2> QED BY <1>7, <1>8 DEF ScanAt
<1>12. ~jt.err => IF BlockValid(jt.index) THEN Ahead(jt, p) ELSE p = Len(jt.file.source) + 1
    <2>1. CASE BlockValid(x)
        <3>1. p = Min(ahead)
            BY <1>6, <2>1
        <3>2. OnBlock(jt) = x.next - 1
            BY <1>8 DEF OnBlock
        <3>3. Ahead(jt, Min(ahead))
            <4> DEFINE q == Min(ahead)
                       k == x.next - 1
                       c == Cut(it.file)
            <4>1. /\ target = <<>> => q = c[k - 1] + 1
                  /\ target # <<>> =>
                        /\ c[k - 1] < q /\ q <= c[k] /\ ~Less(es[q].key, target)
                        /\ \A i \in 1..(q - 1) : Less(es[i].key, target)
                  /\ OnBlock(jt) = k
                BY <1>6, <2>1, <3>2
            <4> HIDE DEF q, k
            <4>2. Ahead(jt, q)
                BY <1>8, <4>1 DEF Ahead, TargetIn
            <4> QED BY <4>2 DEF q
        <3> QED BY <1>8, <2>1, <3>1, <3>3
    <2>2. CASE ~BlockValid(x)
        BY <1>6, <1>8, <2>2
    <2> QED BY <2>1, <2>2
<1>13. LET a == LoadDataBlock(jt)
       IN  IteratorOK(a) /\ a.pc # "none" /\ a.path = jt.path /\ a.file = jt.file
    <2> HIDE DEF p, es, L
    <2> QED BY <1>10, <1>11, <1>12, LoadDataBlockOK
<1> QED BY <1>8, <1>9, <1>13

\* The entry an iterator stands on.
LEMMA CurrentIs ==
    ASSUME NEW it, IteratorOK(it), it.pc = "ready", TableValid(it)
    PROVE  /\ Open(it) /\ it.err = FALSE /\ BlockValid(it.index) /\ it.data # <<>>
           /\ OnBlock(it) \in 1..DataBlocks(it.file) /\ DataIterOK(it, OnBlock(it))
           /\ \E s, p : /\ ScanAt(it, s, p) /\ p \in 1..Len(it.file.source)
                        /\ p = Cut(it.file)[OnBlock(it) - 1] + it.data[1].next - 1
                        /\ Current(it) = it.file.source[p]
<1>0. it.valid /\ ~it.err /\ it.err \in BOOLEAN /\ it.positioned \in BOOLEAN
    BY DEF TableValid, IteratorOK
<1>1. it.positioned
    BY <1>0 DEF IteratorOK, NotPositioned
<1>2. Open(it)
    BY <1>1, DataIsOpen
<1>3. PICK s, p : ScanAt(it, s, p) /\ At(it, p)
    BY <1>0, <1>1, DataIsOpen
<1>4. /\ BlockValid(it.index) /\ it.data # <<>> /\ DataIterOK(it, OnBlock(it)) /\ it.data[1].valid
      /\ p = Cut(it.file)[OnBlock(it) - 1] + it.data[1].next - 1
    BY <1>0, <1>3 DEF At
<1>5. TableOK(it.file) /\ OnBlock(it) \in 1..DataBlocks(it.file)
    BY <1>2, <1>4, OnBlockIs DEF Open
<1> DEFINE k == OnBlock(it)
           es == it.file.source
           L == Len(es)
           from == Cut(it.file)[k - 1]
           to == Cut(it.file)[k]
           d == it.data[1]
<1>6. BlockIterOK(d, es, from, to) /\ d.valid /\ p = from + d.next - 1
    BY <1>4 DEF DataIterOK
<1>7. from \in Nat /\ to \in Nat /\ from < to /\ to <= L /\ L \in Nat
    <2> DEFINE M == DataBlocks(it.file)
               c == Cut(it.file)
    <2>1. /\ L \in Nat /\ M \in Nat
          /\ \A n \in 0..M : c[n] \in Nat /\ c[n] <= L
          /\ \A n \in 1..M : c[n - 1] < c[n]
        BY <1>5, CutsGrow
    <2>2. k \in 1..M
        BY <1>5
    <2> HIDE DEF M, c, k, L
    <2>3. k \in 0..M /\ k - 1 \in 0..M
        BY <2>1, <2>2
    <2>4. c[k - 1] \in Nat /\ c[k] \in Nat /\ c[k - 1] < c[k] /\ c[k] <= L
        BY <2>1, <2>2, <2>3
    <2> QED BY <2>1, <2>4 DEF c
<1> HIDE DEF k, from, to, d
<1>8. d.next \in 1..(to - from + 1) /\ d.next > 1 /\ d.key = es[p].key /\ d.value = es[p].value
    BY <1>6 DEF BlockIterOK
<1>9. p \in 1..L
    <2> HIDE DEF L
    <2> QED BY <1>6, <1>7, <1>8
<1>10. Current(it) = es[p]
    <2>1. es[p] = [key |-> es[p].key, value |-> es[p].value]
        BY <1>5, <1>9, CutIs DEF IsTable
    <2>2. Current(it) = [key |-> d.key, value |-> d.value]
        BY DEF Current, d
    <2> QED BY <1>8, <2>1, <2>2
<1>11. it.err = FALSE
    BY <1>0
<1> QED BY <1>2, <1>3, <1>4, <1>5, <1>9, <1>10, <1>11

\* The entry that was taken is added to what was returned.
LEMMA ScanExtends ==
    ASSUME NEW S, NEW es \in Seq(S), NEW s \in 1..Len(es), NEW p \in s..Len(es)
    PROVE  Append(SubSeq(es, s, p - 1), es[p]) = SubSeq(es, s, p)
<1>1. Len(es) \in Nat /\ s \in Nat /\ p \in Nat /\ s >= 1 /\ p <= Len(es) /\ s <= p
    OBVIOUS
<1>2. SubSeq(es, s, p) = SubSeq(es, s, p - 1) \o <<es[p]>>
    BY SubSeqRecursiveSecond
<1>3. SubSeq(es, s, p - 1) \in Seq(S) /\ es[p] \in S
    <2>1. \A i \in s..(p - 1) : es[i] \in S
        BY <1>1
    <2>2. s \in Int /\ p - 1 \in Int /\ p \in 1..Len(es)
        BY <1>1
    <2>3. SubSeq(es, s, p - 1) \in Seq(S)
        BY <2>1, <2>2, SubSeqProperties
    <2> QED BY <2>2, <2>3
<1> QED BY <1>2, <1>3, AppendIsConcat

\* Next takes the entry and goes on in the block, or to the next block.
LEMMA AdvanceOK ==
    ASSUME NEW it, IteratorOK(it), it.pc = "ready", TableValid(it)
    PROVE  LET b == BlockNext(it.data[1])
               moved == [it EXCEPT !.data = <<b>>, !.out = Append(it.out, Current(it))]
               a == IF BlockValid(b) THEN [moved EXCEPT !.valid = TRUE]
                    ELSE LoadDataBlock([moved EXCEPT !.index = BlockNext(moved.index)])
           IN  IteratorOK(a) /\ a.pc # "none" /\ a.path = it.path /\ a.file = it.file
<1> DEFINE es == it.file.source
           L == Len(es)
           M == DataBlocks(it.file)
           c == Cut(it.file)
           k == OnBlock(it)
           d == it.data[1]
           b == BlockNext(d)
           taken == Append(it.out, Current(it))
           moved == [it EXCEPT !.data = <<b>>, !.out = taken]
           x == BlockNext(it.index)
<1>1. /\ Open(it) /\ it.err = FALSE /\ BlockValid(it.index) /\ it.data # <<>>
      /\ k \in 1..M /\ DataIterOK(it, k)
      /\ \E s, p : /\ ScanAt(it, s, p) /\ p \in 1..L
                   /\ p = c[k - 1] + d.next - 1 /\ Current(it) = es[p]
    BY CurrentIs
<1>2. PICK s, p : /\ ScanAt(it, s, p) /\ p \in 1..L
                  /\ p = c[k - 1] + d.next - 1 /\ Current(it) = es[p]
    BY <1>1
<1>3. /\ DOMAIN it = Fields /\ TableOK(it.file) /\ it.use \in {"index", "data"}
      /\ it.positioned = TRUE /\ IndexIterOK(it) /\ it.target = <<>> /\ <<>> \in Seq(Nat)
    <2>1. it.target = <<>>
        BY DEF IteratorOK, Phase
    <2> QED BY <1>1, <2>1 DEF Open
<1>4. BlockIterOK(d, es, c[k - 1], c[k]) /\ Keyed(es, c[k - 1], c[k])
    BY <1>1, <1>3, BlocksKeyed DEF DataIterOK
<1>5. /\ BlockIterOK(it.index, IndexEntries(it.file, c), 0, M) /\ Keyed(IndexEntries(it.file, c), 0, M)
    BY <1>3, BlocksKeyed DEF IndexIterOK
<1>6. /\ BlockIterOK(b, es, c[k - 1], c[k]) /\ BlockValid(b) = b.valid /\ b.valid \in BOOLEAN
      /\ d.next <= c[k] - c[k - 1] => b.valid /\ b.next = d.next + 1
      /\ d.next > c[k] - c[k - 1] => ~b.valid
    <2>1. b = ParseNext(d)
        BY DEF BlockNext
    <2> HIDE DEF b, d, c, k
    <2>2. /\ BlockIterOK(b, es, c[k - 1], c[k])
          /\ d.next <= c[k] - c[k - 1] => b.valid /\ b.next = d.next + 1
          /\ d.next > c[k] - c[k - 1] => ~b.valid
        BY <1>4, <2>1, ParseNextOK
    <2> QED BY <2>2, ValidIs
<1>7. /\ BlockIterOK(x, IndexEntries(it.file, c), 0, M) /\ BlockValid(x) = x.valid /\ x.valid \in BOOLEAN
      /\ it.index.next <= M - 0 => x.valid /\ x.next = it.index.next + 1
      /\ it.index.next > M - 0 => ~x.valid
    <2>1. x = ParseNext(it.index)
        BY DEF BlockNext
    <2> HIDE DEF x, c, M
    <2>2. /\ BlockIterOK(x, IndexEntries(it.file, c), 0, M)
          /\ it.index.next <= M - 0 => x.valid /\ x.next = it.index.next + 1
          /\ it.index.next > M - 0 => ~x.valid
        BY <1>5, <2>1, ParseNextOK
    <2> QED BY <2>2, ValidIs
<1>8. /\ L \in Nat /\ M \in Nat /\ c[M] = L /\ k \in Nat /\ k - 1 \in 0..M /\ k \in 0..M
      /\ c[k - 1] \in Nat /\ c[k] \in Nat /\ c[k - 1] < c[k]
      /\ d.next \in Nat
    <2>1. /\ L \in Nat /\ M \in Nat /\ c[M] = L
          /\ \A n \in 0..M : c[n] \in Nat /\ c[n] <= L
          /\ \A n \in 1..M : c[n - 1] < c[n]
        BY <1>3, CutsGrow
    <2>2. k \in Nat /\ k - 1 \in 0..M /\ k \in 0..M
        <3>1. k \in 1..M
            BY <1>1
        <3> HIDE DEF k, M
        <3> QED BY <2>1, <3>1
    <2>3. c[k - 1] \in Nat /\ c[k] \in Nat /\ c[k - 1] < c[k]
        BY <1>1, <2>1, <2>2
    <2>4. d.next \in 1..(c[k] - c[k - 1] + 1)
        BY <1>4 DEF BlockIterOK
    <2> HIDE DEF d, c, k, L, M
    <2>5. d.next \in Nat
        BY <2>3, <2>4
    <2> QED BY <2>1, <2>2, <2>3, <2>5
<1>9. /\ s \in 1..(L + 1) /\ p + 1 \in s..(L + 1) /\ p \in Nat
      /\ it.expect = SubSeq(es, s, L) /\ taken = SubSeq(es, s, (p + 1) - 1)
    <2>1. s \in 1..(L + 1) /\ p \in s..(L + 1) /\ it.expect = SubSeq(es, s, L)
          /\ it.out = SubSeq(es, s, p - 1)
        BY <1>2 DEF ScanAt
    <2>2. PICK S : es \in Seq(S)
        BY <1>3, CutIs
    <2>3. p \in 1..L /\ taken = Append(SubSeq(es, s, p - 1), es[p])
        BY <1>2, <2>1
    <2>4. L \in Nat
        BY <1>8
    <2> HIDE DEF taken
    <2>5. s \in 1..L /\ p \in s..L
        <3> HIDE DEF L
        <3> QED BY <2>1, <2>3, <2>4
    <2>6. taken = SubSeq(es, s, p)
        BY <2>2, <2>3, <2>5, ScanExtends
    <2>7. (p + 1) - 1 = p /\ p + 1 \in s..(L + 1) /\ p \in Nat
        <3> HIDE DEF L
        <3> QED BY <2>4, <2>5
    <2> QED BY <2>1, <2>6, <2>7
<1>10. <<b>> # <<>> /\ <<b>>[1] = b
    <2> HIDE DEF b
    <2> QED OBVIOUS
<1> HIDE DEF b, x, taken
<1>11. CASE BlockValid(b)
    <2> DEFINE a == [moved EXCEPT !.valid = TRUE]
    <2>1. /\ DOMAIN a = Fields /\ a.file = it.file /\ a.path = it.path /\ a.index = it.index
          /\ a.err = it.err /\ a.out = taken /\ a.expect = it.expect /\ a.use = it.use
          /\ a.positioned = it.positioned /\ a.target = it.target /\ a.valid = TRUE
          /\ a.data = <<b>> /\ a.pc = "ready"
        BY <1>3 DEF Fields
    <2> HIDE DEF a, moved
    <2>2. a.data # <<>> /\ a.data[1] = b /\ OnBlock(a) = k
        BY <1>10, <2>1 DEF OnBlock
    <2>3. DataIterOK(a, k) /\ IndexIterOK(a) /\ BlockValid(a.index)
        BY <1>1, <1>3, <1>6, <2>1, <2>2 DEF DataIterOK, IndexIterOK
    <2>4. p + 1 = c[k - 1] + b.next - 1 /\ b.valid
        <3>1. b.valid
            BY <1>6, <1>11
        <3> DEFINE v == c[k - 1]
                   w == c[k]
                   n == d.next
        <3>2. v \in Nat /\ w \in Nat /\ n \in Nat /\ p = v + n - 1
            BY <1>2, <1>8
        <3>3. /\ n <= w - v => b.next = n + 1
              /\ n > w - v => ~b.valid
            BY <1>6
        <3> HIDE DEF v, w, n
        <3>4. b.next = n + 1
            BY <3>1, <3>2, <3>3
        <3>5. p + 1 = v + b.next - 1
            BY <3>2, <3>4
        <3> QED BY <3>1, <3>5 DEF v
    <2>5. At(a, p + 1)
        BY <2>1, <2>2, <2>3, <2>4 DEF At
    <2>6. ScanOK(a)
        BY <1>9, <2>1, <2>5 DEF ScanOK
    <2>7. Phase(a) /\ IndexLoaded(a)
        BY <1>3, <2>1 DEF Phase, IndexLoaded
    <2>8. \E n \in 1..DataBlocks(a.file) : DataIterOK(a, n)
        BY <1>1, <2>1, <2>3
    <2>9. IteratorOK(a)
        BY <1>1, <1>3, <2>1, <2>3, <2>6, <2>7, <2>8 DEF IteratorOK, Fields
    <2> QED BY <1>11, <2>1, <2>9 DEF a, moved, b, taken
<1>12. CASE ~BlockValid(b)
    <2> DEFINE jt == [moved EXCEPT !.index = x]
    <2>0. moved.index = it.index
        BY <1>3 DEF Fields
    <2>1. /\ DOMAIN jt = Fields /\ jt.file = it.file /\ jt.path = it.path /\ jt.index = x
          /\ jt.err = it.err /\ jt.out = taken /\ jt.expect = it.expect /\ jt.use = it.use
          /\ jt.positioned = it.positioned /\ jt.target = it.target /\ jt.valid = it.valid
          /\ jt.data = <<b>>
        BY <1>3 DEF Fields
    <2>2. LoadDataBlock(jt) = LoadDataBlock([moved EXCEPT !.index = BlockNext(moved.index)])
        BY <2>0 DEF x
    <2> HIDE DEF jt, moved
    <2>3. jt.data # <<>> /\ jt.data[1] = b
        BY <1>10, <2>1
    <2>4. Open(jt)
        <3>1. IndexIterOK(jt)
            BY <1>7, <2>1 DEF IndexIterOK
        <3>2. DataIterOK(jt, k) /\ k \in 1..DataBlocks(jt.file)
            BY <1>1, <1>6, <2>1, <2>3 DEF DataIterOK
        <3> QED BY <1>1, <2>1, <3>1, <3>2 DEF Open
    <2>5. ScanAt(jt, s, p + 1)
        BY <1>9, <2>1 DEF ScanAt
    <2>6. p = c[k]
        <3> DEFINE v == c[k - 1]
                   w == c[k]
                   n == d.next
        <3>1. v \in Nat /\ w \in Nat /\ n \in Nat /\ p = v + n - 1
            BY <1>2, <1>8
        <3>2. ~(n <= w - v)
            BY <1>6, <1>12
        <3>3. n \in 1..(w - v + 1)
            BY <1>4 DEF BlockIterOK
        <3> HIDE DEF v, w, n
        <3>4. p = w
            BY <3>1, <3>2, <3>3
        <3> QED BY <3>4 DEF w
    <2>7. it.index.next = k + 1 /\ k \in 1..M
        <3>1. it.index.next \in 1..(M - 0 + 1)
            BY <1>5 DEF BlockIterOK
        <3>2. k = it.index.next - 1
            BY DEF OnBlock
        <3>3. M \in Nat /\ k \in 1..M
            BY <1>1, <1>8
        <3> HIDE DEF k, M
        <3> QED BY <3>1, <3>2, <3>3
    <2>8. ~jt.err => IF BlockValid(jt.index) THEN Ahead(jt, p + 1) ELSE p + 1 = Len(jt.file.source) + 1
        <3>1. CASE BlockValid(x)
            <4>1. ~(it.index.next > M - 0)
                BY <1>7, <3>1
            <4>2. x.next = it.index.next + 1
                <5>1. M \in Nat /\ it.index.next = k + 1 /\ k \in Nat
                    BY <1>8, <2>7
                <5> DEFINE n == it.index.next
                <5>2. M \in Nat /\ n = k + 1 /\ k \in Nat /\ ~(n > M - 0) /\ (n <= M - 0 => x.next = n + 1)
                    BY <1>7, <4>1, <5>1
                <5> HIDE DEF n, M, k
                <5>3. x.next = n + 1
                    BY <5>2
                <5> QED BY <5>3 DEF n
            <4>3. OnBlock(jt) - 1 = k
                <5>1. OnBlock(jt) = x.next - 1
                    BY <2>1 DEF OnBlock
                <5>2. k \in Nat /\ x.next = (k + 1) + 1
                    BY <1>8, <2>7, <4>2
                <5> HIDE DEF k
                <5> QED BY <5>1, <5>2
            <4>4. Ahead(jt, p + 1)
                BY <1>3, <2>1, <2>6, <4>3 DEF Ahead
            <4> QED BY <2>1, <3>1, <4>4
        <3>2. CASE ~BlockValid(x)
            <4>1. ~(it.index.next <= M - 0)
                BY <1>7, <3>2
            <4>2. k = M
                <5>1. M \in Nat /\ it.index.next = k + 1 /\ k \in 1..M
                    BY <1>8, <2>7
                <5> HIDE DEF M, k
                <5> QED BY <4>1, <5>1
            <4>3. p = L
                BY <1>8, <2>6, <4>2
            <4> QED BY <2>1, <3>2, <4>3
        <3> QED BY <3>1, <3>2
    <2>9. LET a == LoadDataBlock(jt)
          IN  IteratorOK(a) /\ a.pc # "none" /\ a.path = jt.path /\ a.file = jt.file
        BY <2>4, <2>5, <2>8, LoadDataBlockOK
    <2> QED BY <1>12, <2>1, <2>2, <2>9 DEF moved, b, taken
<1> QED BY <1>11, <1>12

LEMMA NoIteratorIs ==
    /\ DOMAIN NoIterator = Fields /\ NoIterator.pc = "none"
    /\ NoIterator.index = NewBlockIterator(Finish(NewBlockBuilder))
    /\ NoIterator.data = <<>> /\ NoIterator.valid = FALSE /\ NoIterator.err = FALSE
    /\ NoIterator.out = <<>> /\ NoIterator.expect = <<>> /\ NoIterator.positioned = FALSE
    /\ NoIterator.target = <<>>
BY DEF NoIterator, Fields

\* NewReader goes on to the meta index.
LEMMA NewIteratorOK ==
    ASSUME NEW p, NEW file, TableOK(file)
    PROVE  LET a == AskBlock([NoIterator EXCEPT !.path = p, !.file = file], "meta", file.footer.meta)
           IN  IteratorOK(a) /\ a.pc # "none" /\ a.path = p /\ a.file = file
<1> DEFINE it == [NoIterator EXCEPT !.path = p, !.file = file]
<1>1. /\ DOMAIN it = Fields /\ it.file = file /\ it.path = p
      /\ it.index = NoIterator.index
      /\ it.data = <<>> /\ it.valid = FALSE /\ it.err = FALSE
      /\ it.out = <<>> /\ it.expect = <<>> /\ it.positioned = FALSE /\ it.target = <<>>
    BY NoIteratorIs DEF Fields
<1> HIDE DEF it
<1>2. Early(it)
    BY <1>1 DEF Early, NotPositioned
<1>3. LET a == AskBlock(it, "meta", file.footer.meta)
      IN  IteratorOK(a) /\ a.pc # "none" /\ a.path = it.path /\ a.file = it.file
    BY <1>1, <1>2, EarlyAskOK
<1> QED BY <1>1, <1>3 DEF it

\* A reader that did not find the block will read it.
LEMMA CacheMissOK ==
    ASSUME NEW it, IteratorOK(it), it.pc = "get"
    PROVE  LET a == [it EXCEPT !.pc = "read"]
           IN  IteratorOK(a) /\ a.pc # "none" /\ a.path = it.path /\ a.file = it.file
<1> DEFINE a == [it EXCEPT !.pc = "read"]
<1>1. DOMAIN it = Fields
    BY DEF IteratorOK, Fields
<1>2. /\ DOMAIN a = Fields /\ a.file = it.file /\ a.path = it.path /\ a.index = it.index
      /\ a.err = it.err /\ a.out = it.out /\ a.expect = it.expect /\ a.data = it.data
      /\ a.positioned = it.positioned /\ a.target = it.target /\ a.valid = it.valid
      /\ a.use = it.use /\ a.want = it.want /\ a.pc = "read"
    BY <1>1 DEF Fields
<1> HIDE DEF a
<1>3. /\ TableOK(a.file)
      /\ a.valid \in BOOLEAN /\ a.err \in BOOLEAN /\ a.positioned \in BOOLEAN
      /\ a.target \in Seq(Nat)
    BY <1>2 DEF IteratorOK
<1>4. Phase(a)
    BY <1>2 DEF IteratorOK, Phase
<1>5. IndexLoaded(a) <=> IndexLoaded(it)
    BY <1>2 DEF IndexLoaded
<1>6. /\ IndexLoaded(a) => IndexIterOK(a)
      /\ ~IndexLoaded(a) => a.index = NoIterator.index /\ ~a.positioned
    <2>1. IndexIterOK(it) => IndexIterOK(a)
        BY <1>2 DEF IndexIterOK
    <2> QED BY <1>2, <1>5, <2>1 DEF IteratorOK
<1>7. a.data # <<>> => \E k \in 1..DataBlocks(a.file) : DataIterOK(a, k)
    <2>1. \A k : DataIterOK(it, k) => DataIterOK(a, k)
        BY <1>2 DEF DataIterOK
    <2> QED BY <1>2, <2>1 DEF IteratorOK
<1>8. a.positioned => ScanOK(a)
    <2> SUFFICES ASSUME a.positioned PROVE ScanOK(a)
        OBVIOUS
    <2>1. ScanOK(it)
        BY <1>2 DEF IteratorOK
    <2>2. \A p : At(it, p) => At(a, p)
        BY <1>2 DEF At, OnBlock, TargetIn
    <2> QED BY <1>2, <2>1, <2>2 DEF ScanOK
<1>9. ~a.positioned => NotPositioned(a)
    BY <1>2 DEF IteratorOK, NotPositioned
<1>10. IteratorOK(a)
    BY <1>2, <1>3, <1>4, <1>6, <1>7, <1>8, <1>9 DEF IteratorOK, Fields
<1> QED BY <1>2, <1>10 DEF a

\* loadFilter, whether the filter was read or not.
LEMMA ReadFilterOK ==
    ASSUME NEW it, IteratorOK(it), it.pc = "filter"
    PROVE  /\ LET a == AskBlock([it EXCEPT !.filter = TRUE], "index", it.file.footer.index)
              IN  IteratorOK(a) /\ a.pc # "none" /\ a.path = it.path /\ a.file = it.file
           /\ LET a == AskBlock(it, "index", it.file.footer.index)
              IN  IteratorOK(a) /\ a.pc # "none" /\ a.path = it.path /\ a.file = it.file
<1> DEFINE jt == [it EXCEPT !.filter = TRUE]
<1>1. Early(it)
    <2>1. it.use = "meta"
        BY DEF IteratorOK, Phase
    <2> QED BY <2>1, MetaIsEarly
<1>2. /\ DOMAIN jt = Fields /\ jt.file = it.file /\ jt.path = it.path /\ jt.index = it.index
      /\ jt.err = it.err /\ jt.out = it.out /\ jt.expect = it.expect /\ jt.data = it.data
      /\ jt.positioned = it.positioned /\ jt.target = it.target /\ jt.valid = it.valid
    BY <1>1 DEF Early, Fields
<1> HIDE DEF jt
<1>3. Early(jt)
    BY <1>1, <1>2 DEF Early, NotPositioned
<1>4. LET a == AskBlock(jt, "index", jt.file.footer.index)
      IN  IteratorOK(a) /\ a.pc # "none" /\ a.path = jt.path /\ a.file = jt.file
    BY <1>3, EarlyAskOK
<1>5. LET a == AskBlock(it, "index", it.file.footer.index)
      IN  IteratorOK(a) /\ a.pc # "none" /\ a.path = it.path /\ a.file = it.file
    BY <1>1, EarlyAskOK
<1> QED BY <1>2, <1>4, <1>5 DEF jt

\* The block an iterator has asked for is one of its file.
LEMMA WantIsBlock ==
    ASSUME NEW it, IteratorOK(it), it.pc \in {"get", "read"}
    PROVE  it.want \in Nat /\ it.want \in DOMAIN it.file.blocks
<1>1. TableOK(it.file) /\ Phase(it)
    BY DEF IteratorOK
<1> DEFINE M == DataBlocks(it.file)
<1>2. M \in Nat /\ it.file.footer.meta = M + 1 /\ it.file.footer.index = M + 2
      /\ DOMAIN it.file.blocks = 1..it.file.footer.index
    BY <1>1, CutIs DEF TableOK
<1>3. it.want = M + 1 \/ it.want = M + 2 \/ it.want \in 1..M
    <2>1. CASE it.use = "data"
        <3>1. BlockValid(it.index) /\ it.want = it.index.value /\ IndexIterOK(it)
            BY <1>1, <2>1 DEF Phase, IteratorOK, IndexLoaded
        <3> QED BY <1>1, <3>1, OnBlockIs
    <2>2. CASE it.use # "data"
        BY <1>1, <1>2, <2>2 DEF Phase
    <2> QED BY <2>1, <2>2
<1> HIDE DEF M
<1> QED BY <1>2, <1>3

-----------------------------------------------------------------------------
(* The cache and the files.                                                *)

Values(c) == {c.list[i].value : i \in DOMAIN c.list}

\* The cache is within its capacity and has an element for a key.
CacheIs(c) == /\ IsCache(c, Values(c))
              /\ Distinct(c.list)
              /\ c.usage <= c.capacity

\* A list of cached elements has elements of its own values.
LEMMA OwnValues ==
    ASSUME NEW c, NEW V, IsCache(c, V)
    PROVE  IsCache(c, Values(c))
<1> DEFINE l == c.list
           W == Values(c)
<1>1. l \in Seq(Element(V))
    BY DEF IsCache
<1>2. Len(l) \in Nat /\ DOMAIN l = 1..Len(l) /\ \A i \in 1..Len(l) : l[i] \in Element(V)
    BY <1>1
<1>3. \A i \in 1..Len(l) : l[i].value \in W
    BY <1>2 DEF Values
<1> HIDE DEF W
<1>4. \A e \in Element(V) : e.value \in W => e \in Element(W)
    BY DEF Element
<1>5. \A i \in 1..Len(l) : l[i] \in Element(W)
    BY <1>2, <1>3, <1>4
<1>6. l \in Seq(Element(W))
    <2>1. l = [i \in 1..Len(l) |-> l[i]]
        BY <1>1, <1>2
    <2> HIDE DEF l
    <2>2. [i \in 1..Len(l) |-> l[i]] \in [1..Len(l) -> Element(W)]
        BY <1>5
    <2>3. [i \in 1..Len(l) |-> l[i]] \in Seq(Element(W))
        BY <1>2, <2>2
    <2> QED BY <2>1, <2>3
<1> QED BY <1>6 DEF IsCache, W

\* The elements of the cache are blocks of the files and of the readers' files.
CacheHolds(list, n, fs, rs) ==
    \A i \in DOMAIN list :
        /\ list[i].key[1] < n
        /\ \A p \in DOMAIN fs : BlockOf(list[i], p, fs[p])
        /\ \A r \in Readers : rs[r].pc # "none" => BlockOf(list[i], rs[r].path, rs[r].file)

LEMMA CacheOKIs ==
    /\ CacheOK <=> CacheIs(cache) /\ CacheHolds(cache.list, nextFileNum, files, readers)
    /\ CacheOK' <=> CacheIs(cache') /\ CacheHolds(cache'.list, nextFileNum', files', readers')
<1>1. ASSUME NEW c PROVE Element(Values(c)) = [key : Nat \X Nat, value : {c.list[i].value : i \in DOMAIN c.list}, size : Nat]
    BY DEF Element, Values
<1>2. CacheOK <=> CacheIs(cache) /\ CacheHolds(cache.list, nextFileNum, files, readers)
    BY <1>1 DEF CacheOK, CacheIs, CacheHolds, IsCache, Distinct
<1>3. CacheOK' <=> CacheIs(cache') /\ CacheHolds(cache'.list, nextFileNum', files', readers')
    BY <1>1 DEF CacheOK, CacheIs, CacheHolds, IsCache, Distinct
<1> QED BY <1>2, <1>3

LEMMA NewCacheIs ==
    ASSUME NEW n \in Nat
    PROVE  /\ CacheIs(NewLRUCache(n))
           /\ NewLRUCache(n).list = <<>>
<1> DEFINE c == NewLRUCache(n)
<1>1. DOMAIN c = {"capacity", "usage", "list"} /\ c.capacity = n /\ c.usage = 0 /\ c.list = <<>>
    BY DEF NewLRUCache
<1> HIDE DEF c
<1>2. <<>> \in Seq(Element({})) /\ Len(<<>>) = 0 /\ DOMAIN <<>> = {}
    OBVIOUS
<1>3. SizeOf(<<>>) = 0
    <2>1. PICK f : Sums(<<>>, f)
        BY <1>2, SumsExist
    <2>2. SizeOf(<<>>) = f[0]
        BY <1>2, <2>1, ElementsSized, SumsAre
    <2>3. f[0] = 0
        <3>1. 0 \in 0..Len(<<>>)
            BY <1>2
        <3> QED BY <2>1, <3>1 DEF Sums
    <2> QED BY <2>2, <2>3
<1>4. IsCache(c, {})
    BY <1>1, <1>2, <1>3 DEF IsCache
<1>5. CacheIs(c)
    BY <1>1, <1>2, <1>4, OwnValues DEF CacheIs, Distinct
<1> QED BY <1>1, <1>5 DEF c

LEMMA TouchIs ==
    ASSUME NEW c, CacheIs(c), NEW key \in CachedKeys(c)
    PROVE  /\ CacheIs(Touch(c, key))
           /\ \A i \in DOMAIN Touch(c, key).list : \E j \in DOMAIN c.list :
                 Touch(c, key).list[i] = c.list[j]
           /\ \E j \in DOMAIN c.list : c.list[j].key = key /\ CachedValue(c, key) = c.list[j].value
<1> DEFINE d == Touch(c, key)
<1>1. IsCache(c, Values(c)) /\ Distinct(c.list) /\ c.usage <= c.capacity
    BY DEF CacheIs
<1>2. /\ IsCache(d, Values(c)) /\ Distinct(d.list)
      /\ d.capacity = c.capacity /\ d.usage = c.usage
      /\ \A i \in DOMAIN d.list : \E j \in DOMAIN c.list : d.list[i] = c.list[j]
      /\ \E j \in DOMAIN c.list : c.list[j].key = key /\ CachedValue(c, key) = c.list[j].value
    BY <1>1, TouchKeeps
<1> HIDE DEF d
<1>3. CacheIs(d)
    BY <1>1, <1>2, OwnValues DEF CacheIs
<1> QED BY <1>2, <1>3 DEF d

LEMMA PutIs ==
    ASSUME NEW c, CacheIs(c), NEW key \in Nat \X Nat, NEW value, NEW size \in Nat
    PROVE  /\ CacheIs(Put(c, key, value, size))
           /\ \A i \in DOMAIN Put(c, key, value, size).list :
                 \/ Put(c, key, value, size).list[i] = [key |-> key, value |-> value, size |-> size]
                 \/ \E j \in DOMAIN c.list : Put(c, key, value, size).list[i] = c.list[j]
<1> DEFINE d == Put(c, key, value, size)
           V == Values(c) \cup {value}
<1>1. IsCache(c, Values(c)) /\ Distinct(c.list)
    BY DEF CacheIs
<1>2. IsCache(c, V)
    <2>1. Element(Values(c)) \subseteq Element(V)
        BY DEF Element
    <2> HIDE DEF V
    <2>2. c.list \in Seq(Element(V))
        BY <1>1, <2>1 DEF IsCache
    <2> QED BY <1>1, <2>2 DEF IsCache
<1>3. value \in V
    OBVIOUS
<1> HIDE DEF V
<1>4. /\ IsCache(d, V) /\ Distinct(d.list) /\ d.capacity = c.capacity /\ d.usage <= c.capacity
      /\ \A i \in DOMAIN d.list :
            \/ d.list[i] = [key |-> key, value |-> value, size |-> size]
            \/ \E j \in DOMAIN c.list : d.list[i] = c.list[j]
    BY <1>1, <1>2, <1>3, PutKeeps
<1> HIDE DEF d
<1>5. CacheIs(d)
    BY <1>4, OwnValues DEF CacheIs
<1> QED BY <1>4, <1>5 DEF d

\* A file number names one file, in the directory and for the readers.
FilesHold(fs, n, rs) ==
    /\ DOMAIN fs \subseteq 1..(n - 1)
    /\ \A p \in DOMAIN fs : TableOK(fs[p])
    /\ \A r \in Readers : rs[r].pc # "none" =>
          /\ rs[r].path \in 1..(n - 1)
          /\ rs[r].path \in DOMAIN fs => rs[r].file = fs[rs[r].path]
          /\ \A q \in Readers : rs[q].pc # "none" /\ rs[q].path = rs[r].path => rs[q].file = rs[r].file

Counts(b, e, n) == b \in 0..MaxFiles /\ e \in 0..MaxEvents /\ n \in 1..(b + 1)

LEMMA FilesOKIs ==
    /\ FilesOK <=> Counts(built, events, nextFileNum) /\ FilesHold(files, nextFileNum, readers)
    /\ FilesOK' <=> Counts(built', events', nextFileNum') /\ FilesHold(files', nextFileNum', readers')
BY DEF FilesOK, Counts, FilesHold

\* A reader has an iterator, and it is the one it had for its file.
Follows(rs, ss) ==
    /\ DOMAIN rs = Readers
    /\ \A r \in Readers : ReaderOK(rs[r])
    /\ \A r \in Readers : rs[r].pc # "none" =>
          ss[r].pc # "none" /\ rs[r].path = ss[r].path /\ rs[r].file = ss[r].file

\* What holds of the readers and the files still does when a reader goes on or
\* gives its file up, and files are removed.
LEMMA FilesStillHold ==
    ASSUME NEW fs, NEW gs, NEW n, NEW rs, NEW ss, FilesHold(gs, n, ss), Follows(rs, ss),
           DOMAIN fs \subseteq DOMAIN gs, \A p \in DOMAIN fs : fs[p] = gs[p]
    PROVE  FilesHold(fs, n, rs)
<1>1. DOMAIN fs \subseteq 1..(n - 1) /\ \A p \in DOMAIN fs : TableOK(fs[p])
    BY DEF FilesHold
<1>2. ASSUME NEW r \in Readers, rs[r].pc # "none"
      PROVE  /\ rs[r].path \in 1..(n - 1)
             /\ rs[r].path \in DOMAIN fs => rs[r].file = fs[rs[r].path]
             /\ \A q \in Readers : rs[q].pc # "none" /\ rs[q].path = rs[r].path => rs[q].file = rs[r].file
    <2>1. ss[r].pc # "none" /\ rs[r].path = ss[r].path /\ rs[r].file = ss[r].file
        BY <1>2 DEF Follows
    <2>2. rs[r].path \in 1..(n - 1) /\ (rs[r].path \in DOMAIN fs => rs[r].file = fs[rs[r].path])
        BY <2>1 DEF FilesHold
    <2>3. ASSUME NEW q \in Readers, rs[q].pc # "none", rs[q].path = rs[r].path
          PROVE  rs[q].file = rs[r].file
        <3>1. ss[q].pc # "none" /\ rs[q].path = ss[q].path /\ rs[q].file = ss[q].file
            BY <2>3 DEF Follows
        <3> QED BY <2>1, <2>3, <3>1 DEF FilesHold
    <2> QED BY <2>2, <2>3
<1> QED BY <1>1, <1>2 DEF FilesHold

LEMMA CacheStillHolds ==
    ASSUME NEW fs, NEW gs, NEW n, NEW rs, NEW ss, NEW list, NEW old,
           CacheHolds(old, n, gs, ss), Follows(rs, ss),
           DOMAIN fs \subseteq DOMAIN gs, \A p \in DOMAIN fs : fs[p] = gs[p],
           \A i \in DOMAIN list : \E j \in DOMAIN old : list[i] = old[j]
    PROVE  CacheHolds(list, n, fs, rs)
<1> SUFFICES ASSUME NEW i \in DOMAIN list
             PROVE  /\ list[i].key[1] < n
                    /\ \A p \in DOMAIN fs : BlockOf(list[i], p, fs[p])
                    /\ \A r \in Readers : rs[r].pc # "none" => BlockOf(list[i], rs[r].path, rs[r].file)
    BY DEF CacheHolds
<1>1. PICK j \in DOMAIN old : list[i] = old[j]
    OBVIOUS
<1>2. /\ old[j].key[1] < n
      /\ \A p \in DOMAIN gs : BlockOf(old[j], p, gs[p])
      /\ \A r \in Readers : ss[r].pc # "none" => BlockOf(old[j], ss[r].path, ss[r].file)
    BY DEF CacheHolds
<1>3. \A p \in DOMAIN fs : BlockOf(list[i], p, fs[p])
    BY <1>1, <1>2
<1>4. ASSUME NEW r \in Readers, rs[r].pc # "none" PROVE BlockOf(list[i], rs[r].path, rs[r].file)
    <2>1. ss[r].pc # "none" /\ rs[r].path = ss[r].path /\ rs[r].file = ss[r].file
        BY <1>4 DEF Follows
    <2>2. BlockOf(old[j], ss[r].path, ss[r].file)
        BY <1>2, <2>1
    <2> QED BY <1>1, <2>1, <2>2
<1> QED BY <1>1, <1>2, <1>3, <1>4

-----------------------------------------------------------------------------
(* The invariant is inductive.                                             *)

\* An open reader has an iterator that is in order.
LEMMA OpenReader ==
    ASSUME NEW it, ReaderOK(it), it.pc # "none"
    PROVE  IteratorOK(it)
BY NoIteratorIs DEF ReaderOK

\* A reader goes on with its iterator, or is left without one.
LEMMA ReaderGoesOn ==
    ASSUME NEW ss, DOMAIN ss = Readers, \A r \in Readers : ReaderOK(ss[r]),
           NEW r \in Readers, NEW a,
           \/ a = NoIterator
           \/ IteratorOK(a) /\ a.pc # "none" /\ ss[r].pc # "none" /\ a.path = ss[r].path /\ a.file = ss[r].file
    PROVE  Follows([ss EXCEPT ![r] = a], ss)
<1> DEFINE rs == [ss EXCEPT ![r] = a]
<1>1. DOMAIN rs = Readers /\ rs[r] = a /\ \A q \in Readers : q # r => rs[q] = ss[q]
    OBVIOUS
<1>2. ReaderOK(a)
    BY DEF ReaderOK
<1>3. a.pc # "none" => ss[r].pc # "none" /\ a.path = ss[r].path /\ a.file = ss[r].file
    BY NoIteratorIs
<1> HIDE DEF rs
<1>4. \A q \in Readers : ReaderOK(rs[q])
    BY <1>1, <1>2
<1>5. \A q \in Readers : rs[q].pc # "none" =>
          ss[q].pc # "none" /\ rs[q].path = ss[q].path /\ rs[q].file = ss[q].file
    BY <1>1, <1>3
<1> QED BY <1>1, <1>4, <1>5 DEF Follows, rs

\* A step of a reader that leaves the files and the cache alone.
LEMMA ReaderStep ==
    ASSUME SSTableInv, Follows(readers', readers), UNCHANGED <<files, built, nextFileNum, cache>>,
           events' = events \/ Event
    PROVE  SSTableInv'
<1>1. DOMAIN readers' = Readers /\ \A r \in Readers : ReaderOK(readers'[r])
    BY DEF Follows
<1>2. Counts(built, events, nextFileNum) /\ FilesHold(files, nextFileNum, readers)
      /\ CacheIs(cache) /\ CacheHolds(cache.list, nextFileNum, files, readers)
    BY FilesOKIs, CacheOKIs DEF SSTableInv
<1>3. files' = files /\ built' = built /\ nextFileNum' = nextFileNum /\ cache' = cache
    OBVIOUS
<1>4. Counts(built', events', nextFileNum')
    <2>1. events' \in 0..MaxEvents
        BY <1>2, SizesAssumption DEF Counts, Event
    <2> QED BY <1>2, <1>3, <2>1 DEF Counts
<1>5. FilesHold(files', nextFileNum', readers')
    BY <1>2, <1>3, FilesStillHold
<1>6. CacheHolds(cache'.list, nextFileNum', files', readers')
    BY <1>2, <1>3, CacheStillHolds
<1>7. FilesOK' /\ CacheOK'
    BY <1>2, <1>3, <1>4, <1>5, <1>6, FilesOKIs, CacheOKIs
<1> QED BY <1>1, <1>7 DEF SSTableInv

LEMMA InitInv == Init => SSTableInv
<1> SUFFICES ASSUME Init PROVE SSTableInv
    OBVIOUS
<1>1. readers = [r \in Readers |-> NoIterator]
    BY DEF Init
<1>2. DOMAIN readers = Readers /\ \A r \in Readers : readers[r] = NoIterator /\ ReaderOK(readers[r])
    BY <1>1 DEF ReaderOK
<1>3. DOMAIN files = {} /\ built = 0 /\ nextFileNum = 1 /\ events = 0
    BY DEF Init
<1>4. Counts(built, events, nextFileNum)
    BY <1>3, SizesAssumption DEF Counts
<1>5. \A r \in Readers : readers[r].pc = "none"
    BY <1>2, NoIteratorIs
<1>6. FilesHold(files, nextFileNum, readers)
    BY <1>3, <1>5 DEF FilesHold
<1>7. PICK n \in Capacities : cache = NewLRUCache(n)
    BY DEF Init
<1>8. CacheIs(cache) /\ cache.list = <<>>
    BY <1>7, SizesAssumption, NewCacheIs
<1>9. CacheHolds(cache.list, nextFileNum, files, readers)
    <2>1. DOMAIN <<>> = {}
        OBVIOUS
    <2> QED BY <1>8, <2>1 DEF CacheHolds
<1>10. FilesOK /\ CacheOK
    BY <1>4, <1>6, <1>8, <1>9, FilesOKIs, CacheOKIs
<1> QED BY <1>2, <1>10 DEF SSTableInv

\* A new file has a number no cached block and no reader knows.
LEMMA BuildInv ==
    ASSUME SSTableInv, NEW entries \in Tables, Build(entries)
    PROVE  SSTableInv'
<1> DEFINE n == nextFileNum
           T == BuildTable(entries)
<1>1. /\ built < MaxFiles /\ built' = built + 1 /\ nextFileNum' = n + 1
      /\ files' = [p \in DOMAIN files \cup {n} |-> IF p = n THEN T ELSE files[p]]
      /\ cache' = cache /\ readers' = readers /\ events' = events
    BY DEF Build
<1>2. Counts(built, events, n) /\ FilesHold(files, n, readers)
      /\ CacheIs(cache) /\ CacheHolds(cache.list, n, files, readers)
    BY FilesOKIs, CacheOKIs DEF SSTableInv
<1>3. n \in Nat /\ Counts(built', events', nextFileNum')
    BY <1>1, <1>2, SizesAssumption DEF Counts
<1>4. TableOK(T)
    BY BuildTableOK
<1> HIDE DEF n, T
<1>5. /\ DOMAIN files' = DOMAIN files \cup {n} /\ files'[n] = T
      /\ n \notin DOMAIN files /\ \A p \in DOMAIN files : files'[p] = files[p]
    <2>1. n \notin DOMAIN files
        BY <1>2, <1>3 DEF FilesHold
    <2> QED BY <1>1, <2>1
<1>6. \A p \in 1..(n - 1) : p \in 1..((n + 1) - 1) /\ p # n
    BY <1>3
<1>7. n \in 1..((n + 1) - 1)
    BY <1>2, <1>3 DEF Counts
<1>8. FilesHold(files', n + 1, readers)
    <2>1. DOMAIN files' \subseteq 1..((n + 1) - 1) /\ \A p \in DOMAIN files' : TableOK(files'[p])
        BY <1>2, <1>4, <1>5, <1>6, <1>7 DEF FilesHold
    <2>2. ASSUME NEW r \in Readers, readers[r].pc # "none"
          PROVE  /\ readers[r].path \in 1..((n + 1) - 1)
                 /\ readers[r].path \in DOMAIN files' => readers[r].file = files'[readers[r].path]
        BY <1>2, <1>5, <1>6, <2>2 DEF FilesHold
    <2>3. \A r \in Readers : readers[r].pc # "none" => \A q \in Readers :
              readers[q].pc # "none" /\ readers[q].path = readers[r].path => readers[q].file = readers[r].file
        BY <1>2 DEF FilesHold
    <2> QED BY <2>1, <2>2, <2>3 DEF FilesHold
<1>9. CacheHolds(cache.list, n + 1, files', readers)
    <2> SUFFICES ASSUME NEW i \in DOMAIN cache.list
                 PROVE  /\ cache.list[i].key[1] < n + 1
                        /\ \A p \in DOMAIN files' : BlockOf(cache.list[i], p, files'[p])
                        /\ \A r \in Readers : readers[r].pc # "none" =>
                              BlockOf(cache.list[i], readers[r].path, readers[r].file)
        BY DEF CacheHolds
    <2>1. /\ cache.list[i].key[1] < n
          /\ \A p \in DOMAIN files : BlockOf(cache.list[i], p, files[p])
          /\ \A r \in Readers : readers[r].pc # "none" =>
                BlockOf(cache.list[i], readers[r].path, readers[r].file)
        BY <1>2 DEF CacheHolds
    <2>2. cache.list[i].key[1] \in Nat
        <3>1. cache.list \in Seq(Element(Values(cache)))
            BY <1>2 DEF CacheIs, IsCache
        <3>2. cache.list[i] \in Element(Values(cache))
            BY <3>1
        <3>3. cache.list[i].key \in Nat \X Nat
            BY <3>2 DEF Element
        <3> QED BY <3>3
    <2>3. cache.list[i].key[1] < n + 1 /\ cache.list[i].key[1] # n
        BY <1>3, <2>1, <2>2
    <2>4. BlockOf(cache.list[i], n, T)
        BY <2>3 DEF BlockOf
    <2>5. \A p \in DOMAIN files' : BlockOf(cache.list[i], p, files'[p])
        BY <1>5, <2>1, <2>4
    <2> QED BY <2>1, <2>3, <2>5
<1>10. FilesOK' /\ CacheOK'
    BY <1>1, <1>2, <1>3, <1>8, <1>9, FilesOKIs, CacheOKIs
<1>11. DOMAIN readers' = Readers /\ \A r \in Readers : ReaderOK(readers'[r])
    BY <1>1 DEF SSTableInv
<1> QED BY <1>10, <1>11 DEF SSTableInv

\* Readers keep the file they have open when it is removed.
LEMMA RemoveFileInv ==
    ASSUME SSTableInv, NEW p, RemoveFile(p)
    PROVE  SSTableInv'
<1>1. /\ files' = [q \in DOMAIN files \ {p} |-> files[q]]
      /\ built' = built /\ nextFileNum' = nextFileNum /\ cache' = cache /\ readers' = readers
      /\ events' = events
    BY DEF RemoveFile
<1>2. Counts(built, events, nextFileNum) /\ FilesHold(files, nextFileNum, readers)
      /\ CacheIs(cache) /\ CacheHolds(cache.list, nextFileNum, files, readers)
    BY FilesOKIs, CacheOKIs DEF SSTableInv
<1>3. DOMAIN files' \subseteq DOMAIN files /\ \A q \in DOMAIN files' : files'[q] = files[q]
    BY <1>1
<1>4. Follows(readers', readers)
    BY <1>1 DEF Follows, SSTableInv
<1>5. FilesHold(files', nextFileNum', readers')
    BY <1>1, <1>2, <1>3, <1>4, FilesStillHold
<1>6. CacheHolds(cache'.list, nextFileNum', files', readers')
    BY <1>1, <1>2, <1>3, <1>4, CacheStillHolds
<1>7. FilesOK' /\ CacheOK'
    BY <1>1, <1>2, <1>5, <1>6, FilesOKIs, CacheOKIs
<1> QED BY <1>4, <1>7 DEF SSTableInv, Follows

\* The numbers of removed files are used again, and the cache is empty then.
LEMMA RestartInv ==
    ASSUME SSTableInv, Restart
    PROVE  SSTableInv'
<1> DEFINE S == {0} \cup DOMAIN files
           m == Max(S)
<1>1. /\ Event /\ readers' = [r \in Readers |-> NoIterator]
      /\ cache' = NewLRUCache(cache.capacity) /\ nextFileNum' = m + 1
      /\ files' = files /\ built' = built
    BY DEF Restart
<1>2. Counts(built, events, nextFileNum) /\ FilesHold(files, nextFileNum, readers) /\ CacheIs(cache)
    BY FilesOKIs, CacheOKIs DEF SSTableInv
<1>3. built \in Nat /\ built \in 0..MaxFiles /\ nextFileNum \in 1..(built + 1)
    BY <1>2, SizesAssumption DEF Counts
<1>4. DOMAIN files \subseteq 1..built
    <2>1. DOMAIN files \subseteq 1..(nextFileNum - 1)
        BY <1>2 DEF FilesHold
    <2> QED BY <1>3, <2>1
<1>5. S \subseteq 0..built /\ S # {}
    BY <1>3, <1>4
<1>6. m \in S /\ \A q \in S : q <= m
    <2> HIDE DEF S
    <2> QED BY <1>3, <1>5, MaxIs
<1>7. m \in 0..built /\ m \in Nat
    BY <1>3, <1>5, <1>6
<1>8. \A q \in DOMAIN files : q <= m
    BY <1>6
<1> HIDE DEF m
<1>9. Counts(built', events', nextFileNum')
    <2>1. events' \in 0..MaxEvents
        BY <1>1, <1>2, SizesAssumption DEF Counts, Event
    <2>2. m + 1 \in 1..(built + 1)
        BY <1>3, <1>7
    <2> QED BY <1>1, <1>3, <2>1, <2>2 DEF Counts
<1>10. \A r \in Readers : readers'[r] = NoIterator /\ readers'[r].pc = "none"
    BY <1>1, NoIteratorIs
<1>11. FilesHold(files', nextFileNum', readers')
    <2>1. DOMAIN files \subseteq 1..((m + 1) - 1)
        BY <1>3, <1>4, <1>7, <1>8
    <2>2. \A p \in DOMAIN files : TableOK(files[p])
        BY <1>2 DEF FilesHold
    <2> QED BY <1>1, <1>10, <2>1, <2>2 DEF FilesHold
<1>12. CacheIs(cache') /\ cache'.list = <<>>
    <2>1. cache.capacity \in Nat
        BY <1>2 DEF CacheIs, IsCache
    <2> QED BY <1>1, <2>1, NewCacheIs
<1>13. CacheHolds(cache'.list, nextFileNum', files', readers')
    <2>1. DOMAIN <<>> = {}
        OBVIOUS
    <2> QED BY <1>12, <2>1 DEF CacheHolds
<1>14. FilesOK' /\ CacheOK'
    BY <1>9, <1>11, <1>12, <1>13, FilesOKIs, CacheOKIs
<1>15. DOMAIN readers' = Readers /\ \A r \in Readers : ReaderOK(readers'[r])
    BY <1>1, <1>10 DEF ReaderOK
<1> QED BY <1>14, <1>15 DEF SSTableInv

\* A reader opens the file with a number, as every reader of that number has.
LEMMA NewIteratorInv ==
    ASSUME SSTableInv, NEW r \in Readers, NEW p \in DOMAIN files, NewIterator(r, p)
    PROVE  SSTableInv'
<1> DEFINE a == AskBlock([NoIterator EXCEPT !.path = p, !.file = files[p]], "meta", files[p].footer.meta)
<1>1. /\ readers' = [readers EXCEPT ![r] = a]
      /\ files' = files /\ built' = built /\ nextFileNum' = nextFileNum /\ cache' = cache
      /\ events' = events
    BY DEF NewIterator
<1>2. Counts(built, events, nextFileNum) /\ FilesHold(files, nextFileNum, readers)
      /\ CacheIs(cache) /\ CacheHolds(cache.list, nextFileNum, files, readers)
    BY FilesOKIs, CacheOKIs DEF SSTableInv
<1>3. DOMAIN readers = Readers /\ \A q \in Readers : ReaderOK(readers[q])
    BY DEF SSTableInv
<1>4. TableOK(files[p])
    BY <1>2 DEF FilesHold
<1>5. IteratorOK(a) /\ a.pc # "none" /\ a.path = p /\ a.file = files[p]
    BY <1>4, NewIteratorOK
<1> HIDE DEF a
<1>6. DOMAIN readers' = Readers /\ readers'[r] = a /\ \A q \in Readers : q # r => readers'[q] = readers[q]
    BY <1>1, <1>3
<1>7. \A q \in Readers : ReaderOK(readers'[q])
    BY <1>3, <1>5, <1>6 DEF ReaderOK
<1>8. ASSUME NEW q \in Readers, readers'[q].pc # "none"
      PROVE  \/ readers'[q].path = p /\ readers'[q].file = files[p]
             \/ readers'[q] = readers[q] /\ readers[q].pc # "none"
    BY <1>5, <1>6, <1>8
<1>9. FilesHold(files, nextFileNum, readers')
    <2>1. p \in 1..(nextFileNum - 1)
        BY <1>2 DEF FilesHold
    <2>2. \A q \in Readers : readers[q].pc # "none" =>
              /\ readers[q].path \in 1..(nextFileNum - 1)
              /\ readers[q].path \in DOMAIN files => readers[q].file = files[readers[q].path]
        BY <1>2 DEF FilesHold
    <2>3. ASSUME NEW q \in Readers, readers'[q].pc # "none"
          PROVE  /\ readers'[q].path \in 1..(nextFileNum - 1)
                 /\ readers'[q].path \in DOMAIN files => readers'[q].file = files[readers'[q].path]
        BY <1>8, <2>1, <2>2, <2>3
    <2>4. ASSUME NEW q \in Readers, readers'[q].pc # "none",
                 NEW s \in Readers, readers'[s].pc # "none", readers'[s].path = readers'[q].path
          PROVE  readers'[s].file = readers'[q].file
        <3>1. CASE readers'[q].path = p
            BY <2>3, <2>4, <3>1
        <3>2. CASE readers'[q].path # p
            <4>1. readers'[q] = readers[q] /\ readers[q].pc # "none"
                BY <1>8, <2>4, <3>2
            <4>2. readers'[s] = readers[s] /\ readers[s].pc # "none"
                BY <1>8, <2>4, <3>2
            <4> QED BY <1>2, <2>4, <4>1, <4>2 DEF FilesHold
        <3> QED BY <3>1, <3>2
    <2> QED BY <1>2, <2>3, <2>4 DEF FilesHold
<1>10. CacheHolds(cache.list, nextFileNum, files, readers')
    <2>1. ASSUME NEW i \in DOMAIN cache.list
          PROVE  /\ cache.list[i].key[1] < nextFileNum
                 /\ \A s \in DOMAIN files : BlockOf(cache.list[i], s, files[s])
                 /\ \A q \in Readers : readers'[q].pc # "none" =>
                       BlockOf(cache.list[i], readers'[q].path, readers'[q].file)
        <3>1. /\ cache.list[i].key[1] < nextFileNum
              /\ \A s \in DOMAIN files : BlockOf(cache.list[i], s, files[s])
              /\ \A q \in Readers : readers[q].pc # "none" =>
                    BlockOf(cache.list[i], readers[q].path, readers[q].file)
            BY <1>2 DEF CacheHolds
        <3> QED BY <1>8, <3>1
    <2> QED BY <2>1 DEF CacheHolds
<1>11. FilesOK' /\ CacheOK'
    BY <1>1, <1>2, <1>9, <1>10, FilesOKIs, CacheOKIs
<1> QED BY <1>6, <1>7, <1>11 DEF SSTableInv

\* A step of a reader that changes the cache: its elements are blocks of files.
LEMMA CacheStep ==
    ASSUME SSTableInv, Follows(readers', readers), UNCHANGED <<files, built, nextFileNum, events>>,
           CacheIs(cache'), CacheHolds(cache'.list, nextFileNum, files, readers)
    PROVE  SSTableInv'
<1>1. Counts(built, events, nextFileNum) /\ FilesHold(files, nextFileNum, readers)
    BY FilesOKIs DEF SSTableInv
<1>2. files' = files /\ built' = built /\ nextFileNum' = nextFileNum /\ events' = events
    OBVIOUS
<1>3. FilesHold(files', nextFileNum', readers')
    BY <1>1, <1>2, FilesStillHold
<1>4. CacheHolds(cache'.list, nextFileNum', files', readers')
    BY <1>2, CacheStillHolds
<1>5. FilesOK' /\ CacheOK'
    BY <1>1, <1>2, <1>3, <1>4, FilesOKIs, CacheOKIs
<1> QED BY <1>5 DEF SSTableInv, Follows

\* A cached block is the block of the file the reader has open.
LEMMA CacheHitInv ==
    ASSUME SSTableInv, NEW r \in Readers, CacheHit(r)
    PROVE  SSTableInv'
<1> DEFINE it == readers[r]
           key == CacheKey(it.path, it.want)
           a == Loaded(it, CachedValue(cache, key))
<1>1. /\ it.pc = "get" /\ key \in CachedKeys(cache) /\ cache' = Touch(cache, key)
      /\ readers' = [readers EXCEPT ![r] = a]
      /\ files' = files /\ built' = built /\ nextFileNum' = nextFileNum /\ events' = events
    BY DEF CacheHit
<1>2. CacheIs(cache) /\ CacheHolds(cache.list, nextFileNum, files, readers)
    BY CacheOKIs DEF SSTableInv
<1>3. /\ CacheIs(cache')
      /\ \A i \in DOMAIN cache'.list : \E j \in DOMAIN cache.list : cache'.list[i] = cache.list[j]
      /\ \E j \in DOMAIN cache.list : cache.list[j].key = key /\ CachedValue(cache, key) = cache.list[j].value
    BY <1>1, <1>2, TouchIs
<1>4. IteratorOK(it)
    BY <1>1, OpenReader DEF SSTableInv
<1>5. CachedValue(cache, key) = it.file.blocks[it.want]
    <2>1. PICK j \in DOMAIN cache.list : /\ cache.list[j].key = key
                                         /\ CachedValue(cache, key) = cache.list[j].value
        BY <1>3
    <2>2. BlockOf(cache.list[j], it.path, it.file)
        BY <1>1, <1>2 DEF CacheHolds
    <2>3. key[1] = it.path /\ key[2] = it.want
        BY DEF CacheKey
    <2> HIDE DEF key
    <2> QED BY <2>1, <2>2, <2>3 DEF BlockOf
<1>6. IteratorOK(a) /\ a.pc # "none" /\ a.path = it.path /\ a.file = it.file
    <2>1. a = Loaded(it, it.file.blocks[it.want])
        BY <1>5
    <2> HIDE DEF a
    <2> QED BY <1>1, <1>4, <2>1, LoadedOK
<1> HIDE DEF a, key
<1>7. Follows(readers', readers)
    BY <1>1, <1>6, ReaderGoesOn DEF SSTableInv
<1>8. CacheHolds(cache'.list, nextFileNum, files, readers)
    <2>1. Follows(readers, readers)
        BY DEF Follows, SSTableInv
    <2> QED BY <1>2, <1>3, <2>1, CacheStillHolds
<1> QED BY <1>1, <1>3, <1>7, <1>8, CacheStep

\* The block that was read is put into the cache for every reader of the file.
LEMMA ReadFileInv ==
    ASSUME SSTableInv, NEW r \in Readers, ReadFile(r)
    PROVE  SSTableInv'
<1> DEFINE it == readers[r]
           block == it.file.blocks[it.want]
           key == CacheKey(it.path, it.want)
           a == Loaded(it, block)
           e == [key |-> key, value |-> block, size |-> BlockBytes(block)]
<1>1. /\ it.pc = "read" /\ cache' = Put(cache, key, block, BlockBytes(block))
      /\ readers' = [readers EXCEPT ![r] = a]
      /\ files' = files /\ built' = built /\ nextFileNum' = nextFileNum /\ events' = events
    BY DEF ReadFile
<1>2. /\ Counts(built, events, nextFileNum) /\ FilesHold(files, nextFileNum, readers)
      /\ CacheIs(cache) /\ CacheHolds(cache.list, nextFileNum, files, readers)
    BY FilesOKIs, CacheOKIs DEF SSTableInv
<1>3. IteratorOK(it)
    BY <1>1, OpenReader DEF SSTableInv
<1>4. it.want \in Nat /\ it.want \in DOMAIN it.file.blocks
    BY <1>1, <1>3, WantIsBlock
<1>5. BlockBytes(block) \in Nat
    BY <1>3, <1>4 DEF IteratorOK, TableOK
<1>6. nextFileNum \in Nat /\ it.path \in 1..(nextFileNum - 1)
    BY <1>1, <1>2, SizesAssumption DEF Counts, FilesHold
<1>7. it.path \in Nat /\ it.path < nextFileNum
    BY <1>6
<1>8. key \in Nat \X Nat /\ key[1] = it.path /\ key[2] = it.want
    BY <1>4, <1>7 DEF CacheKey
<1>9. e.key = key /\ e.value = block
    OBVIOUS
<1> HIDE DEF key
<1>10. /\ CacheIs(cache')
       /\ \A i \in DOMAIN cache'.list :
             \/ cache'.list[i] = e
             \/ \E j \in DOMAIN cache.list : cache'.list[i] = cache.list[j]
    <2> DEFINE size == BlockBytes(block)
               d == Put(cache, key, block, size)
    <2>1. CacheIs(cache) /\ key \in Nat \X Nat /\ size \in Nat
        BY <1>2, <1>5, <1>8
    <2>2. e = [key |-> key, value |-> block, size |-> size] /\ cache' = d
        BY <1>1
    <2> HIDE DEF size, block, e
    <2>3. /\ CacheIs(d)
          /\ \A i \in DOMAIN d.list :
                \/ d.list[i] = [key |-> key, value |-> block, size |-> size]
                \/ \E j \in DOMAIN cache.list : d.list[i] = cache.list[j]
        BY <2>1, PutIs
    <2> HIDE DEF d
    <2> QED BY <2>2, <2>3
<1>11. IteratorOK(a) /\ a.pc # "none" /\ a.path = it.path /\ a.file = it.file
    BY <1>1, <1>3, LoadedOK
<1> HIDE DEF a, e
<1>12. Follows(readers', readers)
    BY <1>1, <1>11, ReaderGoesOn DEF SSTableInv
<1>13. /\ e.key[1] < nextFileNum
       /\ \A p \in DOMAIN files : BlockOf(e, p, files[p])
       /\ \A q \in Readers : readers[q].pc # "none" => BlockOf(e, readers[q].path, readers[q].file)
    <2>1. it.path \in DOMAIN files => it.file = files[it.path]
        BY <1>1, <1>2 DEF FilesHold
    <2>2. \A q \in Readers : readers[q].pc # "none" /\ readers[q].path = it.path => readers[q].file = it.file
        BY <1>1, <1>2 DEF FilesHold
    <2> HIDE DEF it
    <2>3. \A p \in DOMAIN files : BlockOf(e, p, files[p])
        BY <1>4, <1>8, <1>9, <2>1 DEF BlockOf, block
    <2>4. \A q \in Readers : readers[q].pc # "none" => BlockOf(e, readers[q].path, readers[q].file)
        BY <1>4, <1>8, <1>9, <2>2 DEF BlockOf, block
    <2> QED BY <1>7, <1>8, <1>9, <2>3, <2>4
<1>14. CacheHolds(cache'.list, nextFileNum, files, readers)
    <2>1. ASSUME NEW i \in DOMAIN cache'.list
          PROVE  /\ cache'.list[i].key[1] < nextFileNum
                 /\ \A p \in DOMAIN files : BlockOf(cache'.list[i], p, files[p])
                 /\ \A q \in Readers : readers[q].pc # "none" =>
                       BlockOf(cache'.list[i], readers[q].path, readers[q].file)
        <3>1. CASE cache'.list[i] = e
            BY <1>13, <3>1
        <3>2. CASE \E j \in DOMAIN cache.list : cache'.list[i] = cache.list[j]
            BY <1>2, <3>2 DEF CacheHolds
        <3> QED BY <1>10, <3>1, <3>2
    <2> QED BY <2>1 DEF CacheHolds
<1> QED BY <1>1, <1>10, <1>12, <1>14, CacheStep

\* The other steps of a reader.
LEMMA CacheMissInv ==
    ASSUME SSTableInv, NEW r \in Readers, CacheMiss(r)
    PROVE  SSTableInv'
<1> DEFINE it == readers[r]
           a == [it EXCEPT !.pc = "read"]
<1>1. /\ it.pc = "get" /\ readers' = [readers EXCEPT ![r] = a]
      /\ UNCHANGED <<files, built, nextFileNum, cache, events>>
    BY DEF CacheMiss
<1>2. IteratorOK(it)
    BY <1>1, OpenReader DEF SSTableInv
<1>3. IteratorOK(a) /\ a.pc # "none" /\ a.path = it.path /\ a.file = it.file
    BY <1>1, <1>2, CacheMissOK
<1> HIDE DEF a
<1>4. Follows(readers', readers)
    BY <1>1, <1>3, ReaderGoesOn DEF SSTableInv
<1> QED BY <1>1, <1>4, ReaderStep

LEMMA ReadFailsInv ==
    ASSUME SSTableInv, NEW r \in Readers, ReadFails(r)
    PROVE  SSTableInv'
<1> DEFINE it == readers[r]
           a == LoadFailed(it)
<1>1. /\ it.pc = "read" /\ Event /\ readers' = [readers EXCEPT ![r] = a]
      /\ UNCHANGED <<files, built, nextFileNum, cache>>
    BY DEF ReadFails
<1>2. IteratorOK(it)
    BY <1>1, OpenReader DEF SSTableInv
<1>3. \/ a = NoIterator
      \/ IteratorOK(a) /\ a.pc # "none" /\ a.path = it.path /\ a.file = it.file
    BY <1>1, <1>2, LoadFailedOK
<1> HIDE DEF a
<1>4. Follows(readers', readers)
    BY <1>1, <1>3, ReaderGoesOn DEF SSTableInv
<1> QED BY <1>1, <1>4, ReaderStep

LEMMA ReadFilterInv ==
    ASSUME SSTableInv, NEW r \in Readers, ReadFilter(r)
    PROVE  SSTableInv'
<1> DEFINE it == readers[r]
           a == AskBlock([it EXCEPT !.filter = TRUE], "index", it.file.footer.index)
           b == AskBlock(it, "index", it.file.footer.index)
<1>1. /\ it.pc = "filter"
      /\ readers' = [readers EXCEPT ![r] = a] \/ readers' = [readers EXCEPT ![r] = b]
      /\ UNCHANGED <<files, built, nextFileNum, cache>> /\ (events' = events \/ Event)
    BY DEF ReadFilter
<1>2. IteratorOK(it)
    BY <1>1, OpenReader DEF SSTableInv
<1>3. /\ IteratorOK(a) /\ a.pc # "none" /\ a.path = it.path /\ a.file = it.file
      /\ IteratorOK(b) /\ b.pc # "none" /\ b.path = it.path /\ b.file = it.file
    BY <1>1, <1>2, ReadFilterOK
<1> HIDE DEF a, b
<1>4. Follows([readers EXCEPT ![r] = a], readers) /\ Follows([readers EXCEPT ![r] = b], readers)
    BY <1>1, <1>3, ReaderGoesOn DEF SSTableInv
<1> QED BY <1>1, <1>4, ReaderStep

LEMMA SeekInv ==
    ASSUME SSTableInv, NEW r \in Readers, NEW target \in Targets \cup {<<>>}, Seek(r, target)
    PROVE  SSTableInv'
<1> DEFINE it == readers[r]
           a == LoadDataBlock([it EXCEPT !.index = PositionBlock(it.index, target), !.target = target,
                                         !.out = <<>>, !.expect = From(it.file.source, target),
                                         !.positioned = TRUE])
<1>1. /\ it.pc = "ready" /\ (target # <<>> => BytesSorted(it.file.source))
      /\ readers' = [readers EXCEPT ![r] = a]
      /\ UNCHANGED <<files, built, nextFileNum, cache, events>>
    BY DEF Seek
<1>2. IteratorOK(it)
    BY <1>1, OpenReader DEF SSTableInv
<1>3. target \in Seq(Nat)
    <2>1. <<>> \in Seq(Nat)
        OBVIOUS
    <2> QED BY <2>1, KeysAssumption
<1>4. IteratorOK(a) /\ a.pc # "none" /\ a.path = it.path /\ a.file = it.file
    BY <1>1, <1>2, <1>3, SeekOK
<1> HIDE DEF a
<1>5. Follows(readers', readers)
    BY <1>1, <1>4, ReaderGoesOn DEF SSTableInv
<1> QED BY <1>1, <1>5, ReaderStep

LEMMA AdvanceInv ==
    ASSUME SSTableInv, NEW r \in Readers, Advance(r)
    PROVE  SSTableInv'
<1> DEFINE it == readers[r]
           b == BlockNext(it.data[1])
           moved == [it EXCEPT !.data = <<b>>, !.out = Append(it.out, Current(it))]
           a == IF BlockValid(b) THEN [moved EXCEPT !.valid = TRUE]
                ELSE LoadDataBlock([moved EXCEPT !.index = BlockNext(moved.index)])
<1>1. /\ it.pc = "ready" /\ TableValid(it)
      /\ readers' = [readers EXCEPT ![r] = a]
      /\ UNCHANGED <<files, built, nextFileNum, cache, events>>
    BY DEF Advance
<1>2. IteratorOK(it)
    BY <1>1, OpenReader DEF SSTableInv
<1>3. IteratorOK(a) /\ a.pc # "none" /\ a.path = it.path /\ a.file = it.file
    BY <1>1, <1>2, AdvanceOK
<1> HIDE DEF a
<1>4. Follows(readers', readers)
    BY <1>1, <1>3, ReaderGoesOn DEF SSTableInv
<1> QED BY <1>1, <1>4, ReaderStep

LEMMA CloseInv ==
    ASSUME SSTableInv, NEW r \in Readers, Close(r)
    PROVE  SSTableInv'
<1>1. /\ readers' = [readers EXCEPT ![r] = NoIterator]
      /\ UNCHANGED <<files, built, nextFileNum, cache, events>>
    BY DEF Close
<1>2. Follows(readers', readers)
    BY <1>1, ReaderGoesOn DEF SSTableInv
<1> QED BY <1>1, <1>2, ReaderStep

\* A step that changes nothing.
LEMMA StutterInv ==
    ASSUME SSTableInv, UNCHANGED vars
    PROVE  SSTableInv'
<1>1. UNCHANGED <<files, built, nextFileNum, cache, events>> /\ readers' = readers
    BY DEF vars
<1>2. Follows(readers', readers)
    BY <1>1 DEF Follows, SSTableInv
<1> QED BY <1>1, <1>2, ReaderStep

\* The invariant holds of every reachable state of the tables, their readers
\* and the cache: what a builder wrote, where an iterator stands, and which
\* file a number and a cached block belong to.
THEOREM SSTableInvariantHolds == Spec => []SSTableInv
<1>1. Init => SSTableInv
    BY InitInv
<1>2. SSTableInv /\ [Next]_vars => SSTableInv'
    <2> SUFFICES ASSUME SSTableInv, [Next]_vars PROVE SSTableInv'
        OBVIOUS
    <2>1. CASE \E entries \in Tables : Build(entries)
        BY <2>1, BuildInv
    <2>2. CASE \E p \in DOMAIN files : RemoveFile(p)
        BY <2>2, RemoveFileInv
    <2>3. CASE Restart
        BY <2>3, RestartInv
    <2>4. ASSUME NEW r \in Readers, \E p \in DOMAIN files : NewIterator(r, p) PROVE SSTableInv'
        BY <2>4, NewIteratorInv
    <2>5. ASSUME NEW r \in Readers, CacheHit(r) PROVE SSTableInv'
        BY <2>5, CacheHitInv
    <2>6. ASSUME NEW r \in Readers, CacheMiss(r) PROVE SSTableInv'
        BY <2>6, CacheMissInv
    <2>7. ASSUME NEW r \in Readers, ReadFile(r) PROVE SSTableInv'
        BY <2>7, ReadFileInv
    <2>8. ASSUME NEW r \in Readers, ReadFails(r) PROVE SSTableInv'
        BY <2>8, ReadFailsInv
    <2>9. ASSUME NEW r \in Readers, ReadFilter(r) PROVE SSTableInv'
        BY <2>9, ReadFilterInv
    <2>10. ASSUME NEW r \in Readers, \E target \in Targets \cup {<<>>} : Seek(r, target) PROVE SSTableInv'
        BY <2>10, SeekInv
    <2>11. ASSUME NEW r \in Readers, Advance(r) PROVE SSTableInv'
        BY <2>11, AdvanceInv
    <2>12. ASSUME NEW r \in Readers, Close(r) PROVE SSTableInv'
        BY <2>12, CloseInv
    <2>13. CASE UNCHANGED vars
        BY <2>13, StutterInv
    <2> QED BY <2>1, <2>2, <2>3, <2>4, <2>5, <2>6, <2>7, <2>8, <2>9, <2>10, <2>11, <2>12, <2>13 DEF Next
<1> QED BY <1>1, <1>2, PTL DEF Spec

-----------------------------------------------------------------------------
(* The properties.                                                         *)

LEMMA TypesFollow ==
    ASSUME SSTableInv
    PROVE  TypeOK
<1>1. /\ built \in 0..MaxFiles /\ events \in 0..MaxEvents
      /\ nextFileNum \in 1..(built + 1) /\ DOMAIN files \subseteq 1..(nextFileNum - 1)
    BY DEF SSTableInv, FilesOK
<1>2. nextFileNum \in 1..(MaxFiles + 1) /\ DOMAIN files \subseteq 1..MaxFiles
    BY <1>1, SizesAssumption
<1>3. ASSUME NEW r \in Readers
      PROVE  LET it == readers[r]
             IN  /\ it.pc \in {"none", "ready", "get", "read", "filter"}
                 /\ it.pc = "none" <=> it = NoIterator
                 /\ it.pc \in {"get", "read"} /\ it.use = "data" => it.want < it.file.footer.meta
                 /\ ~it.index.err /\ (it.data = <<>> \/ ~it.data[1].err)
    <2> DEFINE it == readers[r]
    <2>0. ReaderOK(it)
        BY DEF SSTableInv
    <2> HIDE DEF it
    <2>1. CASE it = NoIterator
        <3>1. NoIterator.index.err = FALSE
            BY NoIteratorIs DEF NewBlockIterator
        <3> QED BY <2>1, <3>1, NoIteratorIs DEF it
    <2>2. CASE it # NoIterator
        <3>1. it.pc # "none" /\ IteratorOK(it)
            BY <2>0, <2>2 DEF ReaderOK
        <3>2. it.pc \in {"ready", "get", "read", "filter"}
            BY <3>1 DEF IteratorOK, Phase
        <3>3. it.pc \in {"get", "read"} /\ it.use = "data" => it.want < it.file.footer.meta
            <4> SUFFICES ASSUME it.pc \in {"get", "read"}, it.use = "data"
                         PROVE  it.want < it.file.footer.meta
                OBVIOUS
            <4>1. /\ TableOK(it.file) /\ IndexIterOK(it) /\ BlockValid(it.index)
                  /\ it.want = it.index.value
                BY <3>1 DEF IteratorOK, Phase, IndexLoaded
            <4> DEFINE M == DataBlocks(it.file)
            <4>2. it.want \in 1..M /\ M \in Nat /\ it.file.footer.meta = M + 1
                BY <4>1, OnBlockIs, CutIs
            <4> HIDE DEF M
            <4> QED BY <4>2
        <3>4. ~it.index.err
            <4>1. CASE IndexLoaded(it)
                BY <3>1, <4>1 DEF IteratorOK, IndexIterOK, BlockIterOK
            <4>2. CASE ~IndexLoaded(it)
                <5>1. it.index = NoIterator.index
                    BY <3>1, <4>2 DEF IteratorOK
                <5> QED BY <5>1, NoIteratorIs DEF NewBlockIterator
            <4> QED BY <4>1, <4>2
        <3>5. it.data = <<>> \/ ~it.data[1].err
            BY <3>1 DEF IteratorOK, DataIterOK, BlockIterOK
        <3> QED BY <2>2, <3>1, <3>2, <3>3, <3>4, <3>5 DEF it
    <2> QED BY <2>1, <2>2
<1> QED BY <1>1, <1>2, <1>3 DEF TypeOK

LEMMA KeysCounted ==
    ASSUME NEW c, NEW V, IsCache(c, V), Distinct(c.list)
    PROVE  Cardinality(CachedKeys(c)) = Len(c.list)
<1> DEFINE l == c.list
           K == CachedKeys(c)
           f == [i \in 1..Len(l) |-> l[i].key]
<1>1. l \in Seq(Element(V))
    BY DEF IsCache
<1>2. Len(l) \in Nat /\ DOMAIN l = 1..Len(l)
    BY <1>1
<1>3. K = {l[i].key : i \in 1..Len(l)}
    BY <1>2 DEF CachedKeys
<1>4. \A i, j \in 1..Len(l) : l[i].key = l[j].key => i = j
    BY <1>2 DEF Distinct
<1> HIDE DEF l, K
<1>5. f \in [1..Len(l) -> K] /\ DOMAIN f = 1..Len(l)
    BY <1>3
<1>6. \A i \in 1..Len(l) : f[i] = l[i].key
    OBVIOUS
<1>7. \A k \in K : \E i \in 1..Len(l) : f[i] = k
    BY <1>3
<1> HIDE DEF f
<1>8. f \in Bijection(1..Len(l), K)
    <2>1. IsInjective(f)
        BY <1>4, <1>5, <1>6 DEF IsInjective
    <2> QED BY <1>5, <1>7, <2>1 DEF Bijection, Injection, Surjection
<1>9. ExistsBijection(1..Len(l), K)
    BY <1>8 DEF ExistsBijection
<1>10. Cardinality(K) = Len(l)
    BY <1>2, <1>9, FS_CountingElements
<1> QED BY <1>10 DEF K, l

LEMMA CacheBoundedFollows ==
    ASSUME SSTableInv
    PROVE  CacheBounded
<1>1. CacheIs(cache)
    BY CacheOKIs DEF SSTableInv
<1>2. IsCache(cache, Values(cache)) /\ Distinct(cache.list) /\ cache.usage <= cache.capacity
    BY <1>1 DEF CacheIs
<1>3. Cardinality(CachedKeys(cache)) = Len(cache.list)
    BY <1>2, KeysCounted
<1> QED BY <1>2, <1>3 DEF CacheBounded, IsCache

LEMMA CacheCoherentFollows ==
    ASSUME SSTableInv
    PROVE  CacheCoherent
<1>1. CacheHolds(cache.list, nextFileNum, files, readers)
    BY CacheOKIs DEF SSTableInv
<1> QED BY <1>1 DEF CacheCoherent, CacheHolds, BlockOf

LEMMA PartIsPrefix ==
    ASSUME NEW S, NEW es \in Seq(S), NEW s \in 1..(Len(es) + 1), NEW q \in (s - 1)..Len(es)
    PROVE  IsPrefix(SubSeq(es, s, q), SubSeq(es, s, Len(es)))
<1> DEFINE L == Len(es)
           a == SubSeq(es, s, q)
           b == SubSeq(es, s, L)
           n == q - s + 1
<1>1. L \in Nat /\ s \in Nat /\ q \in Int /\ s \in Int /\ L \in Int /\ n \in Nat
      /\ q <= L /\ s >= 1 /\ s - 1 <= q /\ s <= L + 1
    OBVIOUS
<1>2. \A i \in 1..L : es[i] \in S
    OBVIOUS
<1> HIDE DEF L
<1>3. a \in Seq(S) /\ Len(a) = n /\ \A i \in 1..n : a[i] = es[s + i - 1]
    <2>1. \A i \in s..q : es[i] \in S
        BY <1>1, <1>2
    <2>2. a \in Seq(S) /\ Len(a) = (IF s <= q THEN q - s + 1 ELSE 0) /\ \A i \in 1..(q - s + 1) : a[i] = es[s + i - 1]
        BY <1>1, <2>1, SubSeqProperties
    <2>3. (IF s <= q THEN q - s + 1 ELSE 0) = n
        BY <1>1
    <2> QED BY <2>2, <2>3
<1>4. b \in Seq(S) /\ Len(b) = L - s + 1 /\ \A i \in 1..(L - s + 1) : b[i] = es[s + i - 1]
    <2>1. \A i \in s..L : es[i] \in S
        BY <1>1, <1>2
    <2>2. b \in Seq(S) /\ Len(b) = (IF s <= L THEN L - s + 1 ELSE 0) /\ \A i \in 1..(L - s + 1) : b[i] = es[s + i - 1]
        BY <1>1, <2>1, SubSeqProperties
    <2>3. (IF s <= L THEN L - s + 1 ELSE 0) = L - s + 1
        BY <1>1
    <2> QED BY <2>2, <2>3
<1>5. n <= L - s + 1 /\ \A i \in 1..n : i \in 1..(L - s + 1)
    BY <1>1
<1> HIDE DEF a, b, n
<1>6. SubSeq(a, 1, n) = SubSeq(b, 1, n)
    <2>1. SubSeq(a, 1, n) \in Seq(S) /\ Len(SubSeq(a, 1, n)) = n /\ \A i \in 1..n : SubSeq(a, 1, n)[i] = a[i]
        BY <1>1, <1>3
    <2>2. SubSeq(b, 1, n) \in Seq(S) /\ Len(SubSeq(b, 1, n)) = n /\ \A i \in 1..n : SubSeq(b, 1, n)[i] = b[i]
        BY <1>1, <1>4, <1>5
    <2>3. \A i \in 1..n : a[i] = b[i]
        BY <1>3, <1>4, <1>5
    <2> DEFINE u == SubSeq(a, 1, n)
               v == SubSeq(b, 1, n)
    <2>4. u \in Seq(S) /\ v \in Seq(S) /\ Len(u) = Len(v) /\ \A i \in 1..Len(u) : u[i] = v[i]
        BY <2>1, <2>2, <2>3
    <2> HIDE DEF u, v
    <2>5. u = v
        BY <2>4, SeqEqual
    <2> QED BY <2>5 DEF u, v
<1>7. IsPrefix(a, b)
    BY <1>3, <1>4, <1>5, <1>6 DEF IsPrefix
<1> QED BY <1>7 DEF a, b, L

LEMMA ScanPrefixFollows ==
    ASSUME SSTableInv
    PROVE  ScanPrefix
<1> SUFFICES ASSUME NEW r \in Readers
             PROVE  LET it == readers[r]
                    IN  IsPrefix(IF it.pc = "ready" /\ TableValid(it) THEN Append(it.out, Current(it)) ELSE it.out,
                                 it.expect)
    BY DEF ScanPrefix
<1> DEFINE it == readers[r]
           es == it.file.source
           L == Len(es)
<1>0. ReaderOK(it)
    BY DEF SSTableInv
<1> HIDE DEF it
<1>1. CASE it.out = <<>> /\ it.expect = <<>> /\ ~(it.pc = "ready" /\ TableValid(it))
    <2>1. IsPrefix(<<>>, <<>>)
        BY DEF IsPrefix
    <2> QED BY <1>1, <2>1 DEF it
<1>2. CASE it = NoIterator
    BY <1>1, <1>2, NoIteratorIs
<1>3. CASE it # NoIterator
    <2>1. IteratorOK(it)
        BY <1>0, <1>3 DEF ReaderOK
    <2>2. CASE ~it.positioned
        <3>1. NotPositioned(it)
            BY <2>1, <2>2 DEF IteratorOK
        <3> QED BY <1>1, <3>1 DEF NotPositioned, TableValid
    <2>3. TableOK(it.file)
        BY <2>1 DEF IteratorOK
    <2>4. PICK S : es \in Seq(S)
        BY <2>3, CutIs
    <2>5. L \in Nat
        BY <2>4
    <2>6. CASE it.pc = "ready" /\ TableValid(it)
        <3>1. PICK s, p : ScanAt(it, s, p) /\ p \in 1..L /\ Current(it) = es[p]
            BY <2>1, <2>6, CurrentIs
        <3>2. s \in 1..(L + 1) /\ p \in s..(L + 1) /\ it.expect = SubSeq(es, s, L) /\ it.out = SubSeq(es, s, p - 1)
            BY <3>1 DEF ScanAt
        <3>3. s \in 1..L /\ p \in s..L /\ p \in (s - 1)..L
            <4>1. p \in 1..L
                BY <3>1
            <4> HIDE DEF L
            <4> QED BY <2>5, <3>2, <4>1
        <3>4. Append(it.out, Current(it)) = SubSeq(es, s, p)
            BY <2>4, <3>1, <3>2, <3>3, ScanExtends
        <3>5. IsPrefix(SubSeq(es, s, p), SubSeq(es, s, L))
            BY <2>4, <3>2, <3>3, PartIsPrefix
        <3>6. IsPrefix(Append(it.out, Current(it)), it.expect)
            BY <3>2, <3>4, <3>5
        <3> QED BY <2>6, <3>6 DEF it
    <2>7. CASE it.positioned /\ ~(it.pc = "ready" /\ TableValid(it))
        <3>1. ScanOK(it)
            BY <2>1, <2>7 DEF IteratorOK
        <3>0. PICK s \in 1..(L + 1) : \E p \in s..(L + 1) :
                    it.expect = SubSeq(es, s, L) /\ it.out = SubSeq(es, s, p - 1)
            BY <3>1 DEF ScanOK
        <3>2. PICK p \in s..(L + 1) : it.expect = SubSeq(es, s, L) /\ it.out = SubSeq(es, s, p - 1)
            BY <3>0
        <3>3. p - 1 \in (s - 1)..L
            <4> HIDE DEF L
            <4> QED BY <2>5
        <3>4. IsPrefix(SubSeq(es, s, p - 1), SubSeq(es, s, L))
            BY <2>4, <3>3, PartIsPrefix
        <3>5. IsPrefix(it.out, it.expect)
            BY <3>2, <3>4
        <3> QED BY <2>7, <3>5 DEF it
    <2> QED BY <2>2, <2>6, <2>7
<1> QED BY <1>2, <1>3

LEMMA ScanExactFollows ==
    ASSUME SSTableInv
    PROVE  ScanExact
<1> SUFFICES ASSUME NEW r \in Readers,
                    readers[r].pc = "ready", readers[r].positioned, ~TableValid(readers[r]), ~readers[r].err
             PROVE  readers[r].out = readers[r].expect
    BY DEF ScanExact
<1> DEFINE it == readers[r]
           es == it.file.source
           L == Len(es)
<1>1. ReaderOK(it)
    BY DEF SSTableInv
<1>2. IteratorOK(it)
    BY <1>1, OpenReader
<1>3. ScanOK(it) /\ TableOK(it.file) /\ ~it.valid
    BY <1>2 DEF IteratorOK, TableValid
<1>4. PICK s, p : it.expect = SubSeq(es, s, L) /\ it.out = SubSeq(es, s, p - 1) /\ At(it, p)
    BY <1>3 DEF ScanOK
<1>5. p = L + 1
    BY <1>3, <1>4 DEF At
<1>6. L \in Nat
    BY <1>3, CutIs DEF IsTable
<1>7. p - 1 = L
    <2> HIDE DEF L
    <2> QED BY <1>5, <1>6
<1> QED BY <1>4, <1>7

LEMMA FilterCompleteFollows ==
    ASSUME SSTableInv
    PROVE  FilterComplete
<1> SUFFICES ASSUME NEW r \in Readers, readers[r].pc = "ready",
                    NEW i \in DOMAIN readers[r].file.source
             PROVE  MayContain(readers[r], UserKey(readers[r].file.source[i].key))
    BY DEF FilterComplete
<1>1. ReaderOK(readers[r])
    BY DEF SSTableInv
<1>2. IteratorOK(readers[r])
    BY <1>1, OpenReader
<1>3. TableOK(readers[r].file)
    BY <1>2 DEF IteratorOK
<1>4. KeyMayMatch(UserKey(readers[r].file.source[i].key), readers[r].file.filter)
    BY <1>3 DEF TableOK
<1> QED BY <1>4 DEF MayContain

\* Types: in every reachable state no block iterator has stopped on an entry that
\* does not parse (ParseEntry never fails on what BlockBuilder.Add wrote, whatever
\* the restart interval and the keys), and an index entry leads to a data block.
THEOREM TypesHold == Spec => []TypeOK
BY SSTableInvariantHolds, TypesFollow, PTL

\* The cache (Put, evict) never exceeds its capacity, counts its usage right and
\* has one element per key, for every capacity and any number of readers that
\* miss on the same block.
THEOREM CacheStaysBounded == Spec => []CacheBounded
BY SSTableInvariantHolds, CacheBoundedFollows, PTL

\* A cached block (ReadBlock) is the block at that place of the file with that
\* number, though files are removed and numbers are used again after a restart.
THEOREM CacheStaysCoherent == Spec => []CacheCoherent
BY SSTableInvariantHolds, CacheCoherentFollows, PTL

\* What a table iterator (SeekToFirst, Seek, Next) has returned is a prefix of the
\* entries from its target on, past block boundaries and failed reads, for all
\* tables, block sizes and restart intervals.
THEOREM ScansArePrefixes == Spec => []ScanPrefix
BY SSTableInvariantHolds, ScanPrefixFollows, PTL

\* A table iterator that came to its end without an error has returned every entry
\* from its target on.
THEOREM ScansAreExact == Spec => []ScanExact
BY SSTableInvariantHolds, ScanExactFollows, PTL

\* MayContain has no false negative, for every hash function and filter size.
THEOREM FilterIsComplete == Spec => []FilterComplete
BY SSTableInvariantHolds, FilterCompleteFollows, PTL

=============================================================================
