--------------------------- MODULE ReadersProofs ---------------------------
(***************************************************************************)
(* Reads beside writes, for every value of the constants: the skip list    *)
(* stays sorted at every step of an insertion, and cursors that move along *)
(* it without a lock miss nothing they were to return.  The search of the  *)
(* skip list and the moves of a cursor are recursive functions; the proofs *)
(* show what they compute from the order of the list.                      *)
(***************************************************************************)
EXTENDS KeyLemmas, ReadersInvariant

-----------------------------------------------------------------------------
(* Nodes and their order.                                                  *)

LEMMA NodeFacts ==
    /\ \A x \in NodeSet : /\ x.key \in Int /\ x.seq \in Int /\ x.typ \in Int
                          /\ x = [key |-> x.key, seq |-> x.seq, typ |-> x.typ]
    /\ \A x \in Entries : x.key \in Keys /\ x.key \in Nat /\ x.seq \in Nat /\ x.typ \in RecordTypes
    /\ Nil \notin NodeSet /\ HeadNode \notin Entries /\ Entries \subseteq NodeSet
    /\ HeadNode.key = -1 /\ Nil.key = -2
<1>1. \A x \in Entries : /\ x.key \in Keys /\ x.seq \in Nat /\ x.typ \in RecordTypes
                         /\ x = [key |-> x.key, seq |-> x.seq, typ |-> x.typ]
    BY DEF Entries
<1>2. Keys \subseteq Nat /\ RecordTypes \subseteq Int
    BY KeysAssumption DEF RecordTypes, RecordTypeValue, RecordTypeTombstone
<1>3. \A x \in Entries : /\ x.key \in Nat /\ x.key \in Int /\ x.seq \in Int /\ x.typ \in Int
    BY <1>1, <1>2
<1>4. /\ HeadNode.key = -1 /\ HeadNode.seq = 0 /\ HeadNode.typ = 0 /\ Nil.key = -2
      /\ HeadNode = [key |-> HeadNode.key, seq |-> HeadNode.seq, typ |-> HeadNode.typ]
    BY DEF HeadNode, Nil
<1>5. HeadNode \notin Entries /\ Nil \notin Entries /\ Nil # HeadNode
    BY <1>3, <1>4
<1> QED BY <1>1, <1>3, <1>4, <1>5 DEF NodeSet

LEMMA NodeOrder ==
    /\ \A x, y \in NodeSet : x # y => Before(x, y) \/ Before(y, x)
    /\ \A x, y \in NodeSet : Before(x, y) => ~Before(y, x) /\ x # y
    /\ \A x, y, z \in NodeSet : Before(x, y) /\ Before(y, z) => Before(x, z)
    /\ \A x \in Entries : Before(HeadNode, x)
    /\ \A x \in NodeSet : ~Before(x, HeadNode)
<1>1. \A x \in NodeSet : /\ x.key \in Int /\ x.seq \in Int /\ x.typ \in Int
                         /\ x = [key |-> x.key, seq |-> x.seq, typ |-> x.typ]
    BY NodeFacts
<1>2. \A x, y \in NodeSet : x # y => Before(x, y) \/ Before(y, x)
    BY <1>1 DEF Before
<1>3. \A x, y \in NodeSet : Before(x, y) => ~Before(y, x) /\ x # y
    BY <1>1 DEF Before
<1>4. \A x, y, z \in NodeSet : Before(x, y) /\ Before(y, z) => Before(x, z)
    BY <1>1 DEF Before
<1>5. \A x \in Entries : Before(HeadNode, x)
    <2>1. \A x \in Entries : x.key \in Nat
        BY NodeFacts
    <2>2. HeadNode.key = -1
        BY NodeFacts
    <2> QED BY <2>1, <2>2 DEF Before
<1>6. \A x \in NodeSet : ~Before(x, HeadNode)
    <2>1. ~Before(HeadNode, HeadNode)
        BY <1>3 DEF NodeSet
    <2> QED BY <1>3, <1>5, <2>1 DEF NodeSet
<1> QED BY <1>2, <1>3, <1>4, <1>5, <1>6

\* A finite set of nodes has a last and a first one.
LEMMA EndsExist ==
    ASSUME NEW S, IsFiniteSet(S), S # {}, S \subseteq NodeSet
    PROVE  /\ \E x \in S : \A y \in S \ {x} : Before(y, x)
           /\ \E x \in S : \A y \in S \ {x} : Before(x, y)
<1>1. /\ \A x, y \in S : x # y => Before(x, y) \/ Before(y, x)
      /\ \A x, y, z \in S : Before(x, y) /\ Before(y, z) => Before(x, z)
    BY NodeOrder
<1>3. \E x \in S : \A y \in S \ {x} : Before(x, y)
    <2> DEFINE R == {p \in S \X S : Before(p[1], p[2])}
    <2>1. \A x, y \in S : <<x, y>> \in R <=> Before(x, y)
        OBVIOUS
    <2> HIDE DEF R
    <2>2. \E x \in S : \A y \in S \ {x} : <<x, y>> \in R
        BY <1>1, <2>1, LeastExists
    <2> QED BY <2>1, <2>2
<1>4. \E x \in S : \A y \in S \ {x} : Before(y, x)
    <2> DEFINE R == {p \in S \X S : Before(p[2], p[1])}
    <2>1. \A x, y \in S : <<x, y>> \in R <=> Before(y, x)
        OBVIOUS
    <2> HIDE DEF R
    <2>2. \E x \in S : \A y \in S \ {x} : <<x, y>> \in R
        BY <1>1, <2>1, LeastExists
    <2> QED BY <2>1, <2>2
<1> QED BY <1>3, <1>4

-----------------------------------------------------------------------------
(* The search of the skip list.                                            *)

\* The nodes of a chain before e, and the last one of them.
NodesBefore(f, e) == {m \in DOMAIN f : Before(m, e)}
LastBefore(f, e) ==
    CHOOSE w \in NodesBefore(f, e) : \A y \in NodesBefore(f, e) \ {w} : Before(y, w)

LEMMA ChainFacts ==
    ASSUME NEW f, Chain(f)
    PROVE  /\ IsFiniteSet(DOMAIN f) /\ HeadNode \in DOMAIN f /\ DOMAIN f \subseteq NodeSet
           /\ \A n \in DOMAIN f : f[n] = Nil \/ (f[n] \in DOMAIN f /\ Before(n, f[n]))
           /\ \A n, m \in DOMAIN f : Before(n, m) => f[n] # Nil /\ (m = f[n] \/ Before(f[n], m))
           /\ \A n \in DOMAIN f : f[n] # Nil => f[n] \in Entries
<1>1. /\ IsFiniteSet(DOMAIN f) /\ HeadNode \in DOMAIN f /\ DOMAIN f \subseteq NodeSet
      /\ \A n \in DOMAIN f : f[n] = Nil \/ (f[n] \in DOMAIN f /\ Before(n, f[n]))
      /\ \A n, m \in DOMAIN f : Before(n, m) => f[n] # Nil /\ (m = f[n] \/ Before(f[n], m))
    BY DEF Chain
<1>2. \A n \in DOMAIN f : f[n] # Nil => f[n] # HeadNode
    <2>1. \A n \in DOMAIN f : ~Before(n, HeadNode)
        BY <1>1, NodeOrder
    <2> QED BY <1>1, <2>1
<1> QED BY <1>1, <1>2 DEF NodeSet

LEMMA LastBeforeIs ==
    ASSUME NEW f, Chain(f), NEW e \in Entries
    PROVE  LET w == LastBefore(f, e)
           IN  /\ w \in DOMAIN f /\ Before(w, e)
               /\ \A y \in DOMAIN f : Before(y, e) /\ y # w => Before(y, w)
               /\ f[w] = Nil \/ ~Before(f[w], e)
<1> DEFINE W == NodesBefore(f, e)
           w == LastBefore(f, e)
<1>1. IsFiniteSet(W) /\ W \subseteq NodeSet /\ HeadNode \in W
    BY ChainFacts, NodeOrder, FS_Subset DEF NodesBefore
<1>2. \E x \in W : \A y \in W \ {x} : Before(y, x)
    BY <1>1, EndsExist
<1>3. w \in W /\ \A y \in W \ {w} : Before(y, w)
    BY <1>2 DEF LastBefore
<1>4. w \in DOMAIN f /\ Before(w, e) /\ \A y \in DOMAIN f : Before(y, e) /\ y # w => Before(y, w)
    BY <1>3 DEF NodesBefore
<1>5. f[w] = Nil \/ ~Before(f[w], e)
    BY <1>4, ChainFacts, NodeOrder
<1> QED BY <1>4, <1>5

LEMMA WalkIs ==
    ASSUME NEW l, NEW i, NEW f, f = l.next[i], Chain(f), NEW e \in Entries,
           NEW from \in DOMAIN f, Before(from, e)
    PROVE  Walk(l, i, from, e) = LastBefore(f, e)
<1> DEFINE D == DOMAIN f
           Goes(n) == f[n] # Nil /\ Before(f[n], e)
           Step(g) == [n \in D |-> IF Goes(n) THEN g[f[n]] ELSE n]
           at == CHOOSE g : g = Step(g)
           last == LastBefore(f, e)
           g0 == [n \in D |-> IF Before(n, e) THEN last ELSE n]
<1>1. Walk(l, i, from, e) = at[from]
    BY DEF Walk
<1>2. /\ last \in D /\ Before(last, e)
      /\ \A y \in D : Before(y, e) /\ y # last => Before(y, last)
      /\ f[last] = Nil \/ ~Before(f[last], e)
    BY LastBeforeIs
<1>3. /\ D \subseteq NodeSet /\ IsFiniteSet(D) /\ e \in NodeSet
      /\ \A n \in D : f[n] = Nil \/ (f[n] \in D /\ Before(n, f[n]))
      /\ \A n, m \in D : Before(n, m) => f[n] # Nil /\ (m = f[n] \/ Before(f[n], m))
    BY ChainFacts DEF NodeSet
<1> HIDE DEF last, D
<1>4. ASSUME NEW n \in D, Before(n, e), ~Goes(n) PROVE n = last
    <2>1. SUFFICES ASSUME n # last PROVE FALSE
        OBVIOUS
    <2>2. Before(n, last)
        BY <1>2, <1>4, <2>1
    <2>3. f[n] # Nil /\ f[n] \in D /\ (last = f[n] \/ Before(f[n], last))
        BY <1>2, <1>3, <2>2
    <2>4. Before(f[n], e)
        BY <1>2, <1>3, <2>3, NodeOrder
    <2> QED BY <1>4, <2>3, <2>4
<1>5. ASSUME NEW n \in D, Goes(n) PROVE f[n] \in D /\ Before(n, f[n]) /\ Before(f[n], e) /\ Before(n, e)
    <2>1. f[n] \in D /\ Before(n, f[n]) /\ Before(f[n], e)
        BY <1>3, <1>5
    <2> QED BY <1>3, <2>1, NodeOrder
<1>6. g0 = Step(g0)
    <2>1. ASSUME NEW n \in D PROVE g0[n] = Step(g0)[n]
        <3>1. CASE Goes(n)
            BY <1>5, <3>1
        <3>2. CASE ~Goes(n)
            BY <1>4, <3>2
        <3> QED BY <3>1, <3>2
    <2> QED BY <2>1
<1>7. at = Step(at)
    <2>1. \E g : g = Step(g)
        BY <1>6
    <2> HIDE DEF Step
    <2> QED BY <2>1
<1>8. \A n \in D : at[n] = IF Goes(n) THEN at[f[n]] ELSE n
    <2> HIDE DEF at, Goes
    <2> QED BY <1>7
<1> HIDE DEF at, Goes
<1>9. \A n \in D : Before(n, e) => at[n] = last
    <2> DEFINE B == {n \in D : Before(n, e) /\ at[n] # last}
    <2>1. SUFFICES ASSUME B # {} PROVE FALSE
        OBVIOUS
    <2>2. IsFiniteSet(B) /\ B \subseteq NodeSet
        BY <1>3, FS_Subset
    <2>3. PICK x \in B : \A y \in B \ {x} : Before(y, x)
        BY <2>1, <2>2, EndsExist
    <2>4. CASE Goes(x)
        <3>1. f[x] \in D /\ Before(x, f[x]) /\ Before(f[x], e)
            BY <1>5, <2>4
        <3>2. f[x] \notin B
            BY <1>3, <2>3, <3>1, NodeOrder
        <3> QED BY <1>8, <2>3, <2>4, <3>1, <3>2
    <2>5. CASE ~Goes(x)
        BY <1>4, <1>8, <2>3, <2>5
    <2> QED BY <2>4, <2>5
<1> QED BY <1>1, <1>9 DEF last, D

\* Insert finds the place of e on every level.
LEMMA UpdateIs ==
    ASSUME NEW l, ListOK(l), NEW e \in Entries
    PROVE  /\ Update(l, e) \in [Levels -> NodeSet]
           /\ \A i \in Levels :
                 /\ Update(l, e)[i] \in DOMAIN l.next[i] /\ Before(Update(l, e)[i], e)
                 /\ l.next[i][Update(l, e)[i]] = Nil \/ ~Before(l.next[i][Update(l, e)[i]], e)
<1> DEFINE From(g, i) == IF i = l.level - 1 THEN HeadNode ELSE g[i + 1]
           Step(g) == [i \in Levels |-> IF i >= l.level THEN HeadNode ELSE Walk(l, i, From(g, i), e)]
           u == CHOOSE g : g = Step(g)
           Goal(i) == IF i >= l.level THEN HeadNode ELSE LastBefore(l.next[i], e)
           g0 == [i \in Levels |-> Goal(i)]
<1>1. Update(l, e) = u
    BY DEF Update
<1>2. /\ l.level \in 1..MaxLevel /\ Levels = 0..(MaxLevel - 1) /\ MaxLevel \in Nat
      /\ \A i \in Levels : Chain(l.next[i])
      /\ \A i \in Levels : i > 0 => DOMAIN l.next[i] \subseteq DOMAIN l.next[i - 1]
      /\ \A i \in Levels : i >= l.level => DOMAIN l.next[i] = {HeadNode}
    BY MaxLevelAssumption DEF ListOK, Levels
<1>3. ASSUME NEW i \in Levels
      PROVE  /\ Goal(i) \in DOMAIN l.next[i] /\ Goal(i) \in NodeSet /\ Before(Goal(i), e)
             /\ l.next[i][Goal(i)] = Nil \/ ~Before(l.next[i][Goal(i)], e)
    <2>1. Chain(l.next[i])
        BY <1>2
    <2>2. CASE i >= l.level
        <3>1. DOMAIN l.next[i] = {HeadNode}
            BY <1>2, <2>2
        <3>2. l.next[i][HeadNode] = Nil
            <4>1. ~Before(HeadNode, HeadNode)
                BY NodeOrder DEF NodeSet
            <4> QED BY <2>1, <3>1, <4>1, ChainFacts
        <3> QED BY <2>2, <3>1, <3>2, NodeOrder DEF NodeSet
    <2>3. CASE ~(i >= l.level)
        <3> DEFINE f == l.next[i]
        <3>1. Chain(f)
            BY <2>1
        <3> HIDE DEF f
        <3>2. /\ LastBefore(f, e) \in DOMAIN f /\ Before(LastBefore(f, e), e)
              /\ f[LastBefore(f, e)] = Nil \/ ~Before(f[LastBefore(f, e)], e)
            BY <3>1, LastBeforeIs
        <3>3. DOMAIN f \subseteq NodeSet
            BY <3>1, ChainFacts
        <3> QED BY <2>3, <3>2, <3>3 DEF f
    <2> QED BY <2>2, <2>3
<1>4. ASSUME NEW g, NEW i \in Levels, i < l.level,
             i = l.level - 1 \/ (i + 1 \in Levels /\ g[i + 1] = Goal(i + 1))
      PROVE  Walk(l, i, From(g, i), e) = Goal(i)
    <2>1. Chain(l.next[i]) /\ HeadNode \in DOMAIN l.next[i]
        BY <1>2, ChainFacts
    <2>2. From(g, i) \in DOMAIN l.next[i] /\ Before(From(g, i), e)
        <3>1. CASE i = l.level - 1
            BY <2>1, <3>1, NodeOrder
        <3>2. CASE i # l.level - 1
            <4>1. i + 1 \in Levels /\ g[i + 1] = Goal(i + 1) /\ From(g, i) = Goal(i + 1)
                BY <1>4, <3>2
            <4>2. Goal(i + 1) \in DOMAIN l.next[i + 1] /\ Before(Goal(i + 1), e)
                BY <1>3, <4>1
            <4>3. DOMAIN l.next[i + 1] \subseteq DOMAIN l.next[i]
                <5>1. i + 1 > 0 /\ (i + 1) - 1 = i
                    BY <1>2
                <5> QED BY <1>2, <4>1, <5>1
            <4> QED BY <4>1, <4>2, <4>3
        <3> QED BY <3>1, <3>2
    <2>3. Goal(i) = LastBefore(l.next[i], e)
        BY <1>2, <1>4
    <2> HIDE DEF From, Goal
    <2> QED BY <2>1, <2>2, <2>3, WalkIs
<1>5. ASSUME NEW i \in Levels, i < l.level, i # l.level - 1
      PROVE  i + 1 \in Levels
    BY <1>2, <1>5
<1> HIDE DEF From, Goal
<1>6. g0 = Step(g0)
    <2>1. ASSUME NEW i \in Levels PROVE g0[i] = Step(g0)[i]
        <3>1. CASE i >= l.level
            BY <3>1 DEF Goal
        <3>2. CASE ~(i >= l.level)
            <4>1. i < l.level
                BY <1>2, <3>2
            <4>2. i = l.level - 1 \/ (i + 1 \in Levels /\ g0[i + 1] = Goal(i + 1))
                BY <1>5, <4>1
            <4> HIDE DEF g0
            <4>3. Walk(l, i, From(g0, i), e) = Goal(i)
                BY <1>4, <4>1, <4>2
            <4> QED BY <3>2, <4>3 DEF g0
        <3> QED BY <3>1, <3>2
    <2> QED BY <2>1
<1>7. u = Step(u)
    <2>1. \E g : g = Step(g)
        BY <1>6
    <2> HIDE DEF Step
    <2> QED BY <2>1
<1>8. \A i \in Levels : u[i] = IF i >= l.level THEN HeadNode ELSE Walk(l, i, From(u, i), e)
    <2> HIDE DEF u
    <2> QED BY <1>7
<1>a. u = [i \in Levels |-> u[i]]
    <2> HIDE DEF u
    <2> QED BY <1>7, <1>8
<1> HIDE DEF u
<1>9. \A i \in Levels : u[i] = Goal(i)
    <2> DEFINE B == {i \in Levels : u[i] # Goal(i)}
    <2>1. SUFFICES ASSUME B # {} PROVE FALSE
        OBVIOUS
    <2>2. B \subseteq Nat /\ \A n \in B : n <= MaxLevel
        BY <1>2
    <2>3. PICK i \in B : \A j \in B : j <= i
        BY <1>2, <2>1, <2>2, MaxExists
    <2>4. CASE i >= l.level
        BY <1>8, <2>3, <2>4 DEF Goal
    <2>5. CASE ~(i >= l.level)
        <3>1. i \in Levels /\ i < l.level
            BY <1>2, <2>3, <2>5
        <3>2. i = l.level - 1 \/ (i + 1 \in Levels /\ u[i + 1] = Goal(i + 1))
            <4>1. i + 1 \notin B
                BY <2>2, <2>3
            <4> QED BY <1>5, <3>1, <4>1
        <3>3. u[i] = Goal(i)
            BY <1>4, <1>8, <2>5, <3>1, <3>2
        <3> QED BY <2>3, <3>3
    <2> QED BY <2>4, <2>5
<1>10. u \in [Levels -> NodeSet]
    BY <1>3, <1>9, <1>a
<1> QED BY <1>1, <1>3, <1>9, <1>10

-----------------------------------------------------------------------------
(* The steps of an insertion.                                              *)

\* A level with e linked behind u.
Spliced(f, u, e) ==
    [n \in DOMAIN f \cup {e} |-> IF n = e THEN f[u] ELSE IF n = u THEN e ELSE f[n]]

\* Linking an entry in its place keeps a level in order.
LEMMA SplicedChain ==
    ASSUME NEW f, Chain(f), NEW e \in Entries, e \notin DOMAIN f, NEW u, Fits(f, u, e)
    PROVE  Chain(Spliced(f, u, e)) /\ DOMAIN Spliced(f, u, e) = DOMAIN f \cup {e}
<1> DEFINE g == Spliced(f, u, e)
           D == DOMAIN f
<1>1. DOMAIN g = D \cup {e}
    BY DEF Spliced
<1>2. /\ IsFiniteSet(D) /\ HeadNode \in D /\ D \subseteq NodeSet
      /\ \A n \in D : f[n] = Nil \/ (f[n] \in D /\ Before(n, f[n]))
      /\ \A n, m \in D : Before(n, m) => f[n] # Nil /\ (m = f[n] \/ Before(f[n], m))
    BY ChainFacts
<1>3. u \in D /\ Before(u, e) /\ (f[u] = Nil \/ Before(e, f[u])) /\ e # u
    BY DEF Fits
<1>4. g[e] = f[u] /\ g[u] = e /\ \A n \in D \ {u} : g[n] = f[n]
    <2>1. \A n \in D \ {u} : n # e
        OBVIOUS
    <2> QED BY <1>3, <2>1 DEF Spliced
<1>5. e \in NodeSet /\ e # Nil
    BY NodeFacts
<1>6. IsFiniteSet(D \cup {e})
    BY <1>2, FS_AddElement
<1> HIDE DEF g, D
<1>7. \A n \in D \cup {e} : g[n] = Nil \/ (g[n] \in D \cup {e} /\ Before(n, g[n]))
    BY <1>2, <1>3, <1>4
<1>8. ASSUME NEW n \in D \cup {e}, NEW m \in D \cup {e}, Before(n, m)
      PROVE  g[n] # Nil /\ (m = g[n] \/ Before(g[n], m))
    <2>1. /\ n \in NodeSet /\ m \in NodeSet /\ u \in NodeSet
        BY <1>2, <1>3, <1>5
    <2>2. CASE n = e
        <3>1. m \in D /\ m # e
            BY <1>8, <2>1, <2>2, NodeOrder
        <3>2. Before(u, m)
            BY <1>3, <1>5, <1>8, <2>1, <2>2, NodeOrder
        <3> QED BY <1>2, <1>3, <1>4, <2>2, <3>1, <3>2
    <2>3. CASE n = u /\ m # e
        <3>1. f[u] # Nil /\ (m = f[u] \/ Before(f[u], m)) /\ f[u] \in D
            BY <1>2, <1>3, <1>8, <2>3
        <3>2. Before(e, m)
            BY <1>2, <1>3, <1>5, <2>1, <3>1, NodeOrder
        <3> QED BY <1>4, <1>5, <2>3, <3>2
    <2>4. CASE n = u /\ m = e
        BY <1>4, <1>5, <2>4
    <2>5. CASE n # e /\ n # u /\ m # e
        BY <1>2, <1>4, <1>8, <2>5
    <2>6. CASE n # e /\ n # u /\ m = e
        <3>1. n \in D
            BY <2>6
        <3>2. ~Before(u, n)
            <4>1. SUFFICES ASSUME Before(u, n) PROVE FALSE
                OBVIOUS
            <4>2. f[u] # Nil /\ (n = f[u] \/ Before(f[u], n)) /\ f[u] \in D
                BY <1>2, <1>3, <3>1, <4>1
            <4>3. Before(e, n)
                BY <1>2, <1>3, <1>5, <2>1, <4>2, NodeOrder
            <4> QED BY <1>8, <2>1, <2>6, <4>3, NodeOrder
        <3>3. Before(n, u)
            BY <2>1, <2>6, <3>2, NodeOrder
        <3>4. f[n] # Nil /\ (u = f[n] \/ Before(f[n], u)) /\ f[n] \in D
            BY <1>2, <1>3, <3>1, <3>3
        <3>5. Before(f[n], e)
            BY <1>2, <1>3, <1>5, <2>1, <3>4, NodeOrder
        <3> QED BY <1>4, <2>6, <3>1, <3>4, <3>5
    <2> QED BY <2>2, <2>3, <2>4, <2>5, <2>6
<1>9. Chain(g)
    BY <1>1, <1>2, <1>5, <1>6, <1>7, <1>8 DEF Chain
<1> QED BY <1>1, <1>9 DEF g, D

\* Every node of a level but the head has a predecessor, and the last one has nil.
LEMMA ChainCovers ==
    ASSUME NEW f, Chain(f)
    PROVE  {f[n] : n \in DOMAIN f} = (DOMAIN f \ {HeadNode}) \cup {Nil}
<1> DEFINE D == DOMAIN f
<1>2. /\ IsFiniteSet(D) /\ HeadNode \in D /\ D \subseteq NodeSet
      /\ \A n \in D : f[n] = Nil \/ (f[n] \in D /\ Before(n, f[n]))
      /\ \A n, m \in D : Before(n, m) => f[n] # Nil /\ (m = f[n] \/ Before(f[n], m))
      /\ \A n \in D : f[n] # Nil => f[n] \in Entries
    BY ChainFacts
<1>3. HeadNode \notin Entries
    BY NodeFacts
<1>4. \E n \in D : f[n] = Nil
    <2>1. PICK x \in D : \A y \in D \ {x} : Before(y, x)
        BY <1>2, EndsExist
    <2> QED BY <1>2, <2>1, NodeOrder
<1>5. ASSUME NEW m \in D \ {HeadNode} PROVE \E n \in D : f[n] = m
    <2>1. m \in Entries
        BY <1>2 DEF NodeSet
    <2> DEFINE w == LastBefore(f, m)
    <2>2. /\ w \in D /\ Before(w, m) /\ (f[w] = Nil \/ ~Before(f[w], m))
        BY <2>1, LastBeforeIs
    <2> HIDE DEF w
    <2> QED BY <1>2, <2>2
<1> QED BY <1>2, <1>3, <1>4, <1>5

\* A list in order, as the specification says it.
LEMMA ListIsSorted ==
    ASSUME NEW l, ListOK(l)
    PROVE  Sorted(l)
<1> SUFFICES ASSUME NEW i \in Levels
    PROVE  /\ i > 0 => DOMAIN l.next[i] \subseteq DOMAIN l.next[i - 1]
           /\ \A n \in DOMAIN l.next[i] :
                 LET m == l.next[i][n]
                 IN  m = Nil \/ (m \in DOMAIN l.next[i] /\ (n = HeadNode \/ Before(n, m)))
           /\ {l.next[i][n] : n \in DOMAIN l.next[i]} = (DOMAIN l.next[i] \ {HeadNode}) \cup {Nil}
    BY DEF Sorted
<1>1. Chain(l.next[i]) /\ (i > 0 => DOMAIN l.next[i] \subseteq DOMAIN l.next[i - 1])
    BY DEF ListOK
<1> QED BY <1>1, ChainFacts, ChainCovers

LEMMA NewListOK ==
    ListOK(NewSkiplist) /\ Nodes(NewSkiplist) = {}
<1> DEFINE f == [n \in {HeadNode} |-> Nil]
<1>1. DOMAIN f = {HeadNode} /\ f[HeadNode] = Nil
    OBVIOUS
<1>2. Chain(f)
    <2>1. ~Before(HeadNode, HeadNode) /\ IsFiniteSet({HeadNode})
        BY NodeOrder, FS_Singleton DEF NodeSet
    <2> HIDE DEF f
    <2> QED BY <1>1, <2>1 DEF Chain, NodeSet
<1>3. NewSkiplist = [level |-> 1, next |-> [i \in Levels |-> f]]
    BY DEF NewSkiplist
<1> HIDE DEF f
<1>4. 0 \in Levels /\ 1 \in 1..MaxLevel /\ \A i \in Levels : i > 0 => i - 1 \in Levels
    BY MaxLevelAssumption DEF Levels
<1> QED BY <1>1, <1>2, <1>3, <1>4 DEF ListOK, Nodes

\* A new node may raise the level of the list.
LEMMA RaisedListOK ==
    ASSUME NEW l, ListOK(l), NEW h \in 1..MaxLevel
    PROVE  /\ ListOK(Raise(l, h)) /\ Raise(l, h).next = l.next
           /\ h <= Raise(l, h).level
<1> DEFINE r == Raise(l, h)
<1>1. l = [level |-> l.level, next |-> l.next] /\ l.level \in 1..MaxLevel /\ MaxLevel \in Nat
    BY MaxLevelAssumption DEF ListOK
<1>2. r = [level |-> IF h > l.level THEN h ELSE l.level, next |-> l.next]
    BY <1>1 DEF Raise
<1> HIDE DEF r
<1>3. r.next = l.next /\ r = [level |-> r.level, next |-> r.next]
    BY <1>2
<1>4. r.level \in 1..MaxLevel /\ h <= r.level /\ l.level <= r.level
    BY <1>1, <1>2
<1>5. \A i \in Levels : i >= r.level => i >= l.level
    BY <1>1, <1>4 DEF Levels
<1> QED BY <1>3, <1>4, <1>5 DEF ListOK, r

\* Linking one level of an entry that is on the levels below.
LEMMA LinkedListOK ==
    ASSUME NEW l, ListOK(l), NEW i \in Levels, i < l.level, NEW e \in Entries, NEW update,
           e \notin DOMAIN l.next[i], Fits(l.next[i], update[i], e),
           i > 0 => e \in DOMAIN l.next[i - 1]
    PROVE  LET r == Link(l, i, e, update)
           IN  /\ ListOK(r) /\ r.level = l.level
               /\ r.next[i] = Spliced(l.next[i], update[i], e)
               /\ DOMAIN r.next[i] = DOMAIN l.next[i] \cup {e}
               /\ \A j \in Levels \ {i} : r.next[j] = l.next[j]
<1> DEFINE r == Link(l, i, e, update)
           g == Spliced(l.next[i], update[i], e)
<1>1. /\ l = [level |-> l.level, next |-> l.next] /\ l.level \in 1..MaxLevel
      /\ l.next = [j \in Levels |-> l.next[j]]
      /\ \A j \in Levels : Chain(l.next[j])
      /\ \A j \in Levels : j > 0 => DOMAIN l.next[j] \subseteq DOMAIN l.next[j - 1]
      /\ \A j \in Levels : j >= l.level => DOMAIN l.next[j] = {HeadNode}
    BY DEF ListOK
<1>2. r = [l EXCEPT !.next[i] = g]
    BY DEF Link, Spliced
<1>3. r = [level |-> l.level, next |-> [l.next EXCEPT ![i] = g]]
    BY <1>1, <1>2
<1>4. Chain(g) /\ DOMAIN g = DOMAIN l.next[i] \cup {e}
    BY <1>1, SplicedChain
<1> HIDE DEF g, r
<1>5. /\ r.level = l.level /\ r.next[i] = g /\ \A j \in Levels \ {i} : r.next[j] = l.next[j]
      /\ r = [level |-> r.level, next |-> r.next] /\ r.next = [j \in Levels |-> r.next[j]]
    BY <1>1, <1>3
<1>6. \A j \in Levels : j \in Int /\ (j > 0 => j - 1 \in Levels)
    BY MaxLevelAssumption DEF Levels
<1>7. \A j \in Levels : Chain(r.next[j])
    BY <1>1, <1>4, <1>5
<1>8. \A j \in Levels : j > 0 => DOMAIN r.next[j] \subseteq DOMAIN r.next[j - 1]
    <2>1. SUFFICES ASSUME NEW j \in Levels, j > 0
                   PROVE  DOMAIN r.next[j] \subseteq DOMAIN r.next[j - 1]
        OBVIOUS
    <2>2. DOMAIN l.next[j] \subseteq DOMAIN l.next[j - 1] /\ j - 1 \in Levels /\ j # j - 1
        BY <1>1, <1>6, <2>1
    <2>3. CASE j = i
        BY <1>4, <1>5, <2>1, <2>2, <2>3
    <2>4. CASE j - 1 = i
        BY <1>4, <1>5, <2>2, <2>4
    <2>5. CASE j # i /\ j - 1 # i
        BY <1>5, <2>2, <2>5
    <2> QED BY <2>3, <2>4, <2>5
<1>9. \A j \in Levels : j >= l.level => DOMAIN r.next[j] = {HeadNode}
    <2>1. \A j \in Levels : j >= l.level => j # i
        BY <1>1, <1>6
    <2> QED BY <1>1, <1>5, <2>1
<1>10. ListOK(r)
    BY <1>1, <1>5, <1>7, <1>8, <1>9 DEF ListOK
<1> QED BY <1>4, <1>5, <1>10 DEF r, g

\* Whatever is linked on some level is linked on the lowest one.
LEMMA LevelsNested ==
    ASSUME NEW l, ListOK(l)
    PROVE  \A i \in Levels : DOMAIN l.next[i] \subseteq DOMAIN l.next[0]
<1> DEFINE H == {i \in Levels : \A j \in 0..i : DOMAIN l.next[j] \subseteq DOMAIN l.next[0]}
<1>1. MaxLevel \in Nat \ {0} /\ Levels = 0..(MaxLevel - 1)
    BY MaxLevelAssumption DEF Levels
<1>2. \A i \in Levels : i > 0 => DOMAIN l.next[i] \subseteq DOMAIN l.next[i - 1]
    BY DEF ListOK
<1>3. 0 \in H /\ H \subseteq Nat /\ \A i \in H : i <= MaxLevel
    BY <1>1
<1>4. PICK n \in H : \A m \in H : m <= n
    BY <1>1, <1>3, MaxExists
<1>5. n = MaxLevel - 1
    <2>1. SUFFICES ASSUME n # MaxLevel - 1 PROVE FALSE
        OBVIOUS
    <2>2. n \in 0..(MaxLevel - 1) /\ n + 1 \in Levels /\ n + 1 > 0 /\ (n + 1) - 1 = n
        BY <1>1, <1>4, <2>1
    <2>3. DOMAIN l.next[n + 1] \subseteq DOMAIN l.next[n]
        BY <1>2, <2>2
    <2>4. \A j \in 0..(n + 1) : j \in 0..n \/ j = n + 1
        BY <2>2
    <2>5. \A j \in 0..n : DOMAIN l.next[j] \subseteq DOMAIN l.next[0]
        BY <1>4
    <2>6. n \in 0..n
        BY <2>2
    <2>7. n + 1 \in H
        BY <2>2, <2>3, <2>4, <2>5, <2>6
    <2> QED BY <1>4, <2>2, <2>7
<1> QED BY <1>1, <1>4, <1>5

-----------------------------------------------------------------------------
(* The records of the reader and the writer, field by field.              *)

LEMMA MovedReadIs ==
    ASSUME ReaderShape, NEW p, NEW c, NEW o
    PROVE  [rd EXCEPT !.pc = p, !.src = c, !.out = o]
               = [pc |-> p, kind |-> rd.kind, key |-> rd.key, scan |-> rd.scan,
                  snap |-> rd.snap, src |-> c, out |-> o, seen |-> rd.seen,
                  touched |-> rd.touched]
<1> DEFINE x1 == [rd EXCEPT !.pc = p]
           x2 == [x1 EXCEPT !.src = c]
           x3 == [x2 EXCEPT !.out = o]
<1>1. x1 = [pc |-> p, kind |-> rd.kind, key |-> rd.key, scan |-> rd.scan, snap |-> rd.snap,
            src |-> rd.src, out |-> rd.out, seen |-> rd.seen, touched |-> rd.touched]
    BY DEF ReaderShape
<1>2. x2 = [pc |-> p, kind |-> rd.kind, key |-> rd.key, scan |-> rd.scan, snap |-> rd.snap,
            src |-> c, out |-> rd.out, seen |-> rd.seen, touched |-> rd.touched]
    <2> HIDE DEF x1
    <2> QED BY <1>1
<1>3. x3 = [pc |-> p, kind |-> rd.kind, key |-> rd.key, scan |-> rd.scan, snap |-> rd.snap,
            src |-> c, out |-> o, seen |-> rd.seen, touched |-> rd.touched]
    <2> HIDE DEF x2
    <2> QED BY <1>2
<1>4. [rd EXCEPT !.pc = p, !.src = c, !.out = o] = x3
    OBVIOUS
<1> QED BY <1>3, <1>4

LEMMA WitnessIs ==
    ASSUME ReaderShape, NEW s, NEW t
    PROVE  [rd EXCEPT !.seen = s, !.touched = t]
               = [pc |-> rd.pc, kind |-> rd.kind, key |-> rd.key, scan |-> rd.scan,
                  snap |-> rd.snap, src |-> rd.src, out |-> rd.out, seen |-> s,
                  touched |-> t]
<1> DEFINE x1 == [rd EXCEPT !.seen = s]
           x2 == [x1 EXCEPT !.touched = t]
<1>1. x1 = [pc |-> rd.pc, kind |-> rd.kind, key |-> rd.key, scan |-> rd.scan,
            snap |-> rd.snap, src |-> rd.src, out |-> rd.out, seen |-> s,
            touched |-> rd.touched]
    BY DEF ReaderShape
<1>2. x2 = [pc |-> rd.pc, kind |-> rd.kind, key |-> rd.key, scan |-> rd.scan,
            snap |-> rd.snap, src |-> rd.src, out |-> rd.out, seen |-> s, touched |-> t]
    <2> HIDE DEF x1
    <2> QED BY <1>1
<1>3. [rd EXCEPT !.seen = s, !.touched = t] = x2
    OBVIOUS
<1> QED BY <1>2, <1>3

LEMMA WriteIs ==
    ASSUME NEW b
    PROVE  [IdleWriter EXCEPT !.pc = "find", !.batch = b]
               = [pc |-> "find", batch |-> b, done |-> 0, height |-> 0, level |-> 0,
                  update |-> [i \in Levels |-> HeadNode]]
<1> DEFINE x1 == [IdleWriter EXCEPT !.pc = "find"]
           x2 == [x1 EXCEPT !.batch = b]
<1>1. x1 = [pc |-> "find", batch |-> <<>>, done |-> 0, height |-> 0, level |-> 0,
            update |-> [i \in Levels |-> HeadNode]]
    BY DEF IdleWriter
<1>2. x2 = [pc |-> "find", batch |-> b, done |-> 0, height |-> 0, level |-> 0, update |-> [i
            \in Levels |-> HeadNode]]
    <2> HIDE DEF x1
    <2> QED BY <1>1
<1>3. [IdleWriter EXCEPT !.pc = "find", !.batch = b] = x2
    OBVIOUS
<1> QED BY <1>2, <1>3

LEMMA FoundIs ==
    ASSUME WriterInv, NEW h, NEW u
    PROVE  [wr EXCEPT !.pc = "link", !.height = h, !.level = 0, !.update = u]
               = [pc |-> "link", batch |-> wr.batch, done |-> wr.done, height |-> h,
                  level |-> 0, update |-> u]
<1> DEFINE x1 == [wr EXCEPT !.pc = "link"]
           x2 == [x1 EXCEPT !.height = h]
           x3 == [x2 EXCEPT !.level = 0]
           x4 == [x3 EXCEPT !.update = u]
<1>1. x1 = [pc |-> "link", batch |-> wr.batch, done |-> wr.done, height |-> wr.height,
            level |-> wr.level, update |-> wr.update]
    BY DEF WriterInv
<1>2. x2 = [pc |-> "link", batch |-> wr.batch, done |-> wr.done, height |-> h,
            level |-> wr.level, update |-> wr.update]
    <2> HIDE DEF x1
    <2> QED BY <1>1
<1>3. x3 = [pc |-> "link", batch |-> wr.batch, done |-> wr.done, height |-> h, level |-> 0,
            update |-> wr.update]
    <2> HIDE DEF x2
    <2> QED BY <1>2
<1>4. x4 = [pc |-> "link", batch |-> wr.batch, done |-> wr.done, height |-> h, level |-> 0,
            update |-> u]
    <2> HIDE DEF x3
    <2> QED BY <1>3
<1>5. [wr EXCEPT !.pc = "link", !.height = h, !.level = 0, !.update = u] = x4
    OBVIOUS
<1> QED BY <1>4, <1>5

LEMMA LinkedIs ==
    ASSUME WriterInv, NEW l, NEW d, NEW p
    PROVE  [wr EXCEPT !.level = l, !.done = d, !.pc = p]
               = [pc |-> p, batch |-> wr.batch, done |-> d, height |-> wr.height,
                  level |-> l, update |-> wr.update]
<1> DEFINE x1 == [wr EXCEPT !.level = l]
           x2 == [x1 EXCEPT !.done = d]
           x3 == [x2 EXCEPT !.pc = p]
<1>1. x1 = [pc |-> wr.pc, batch |-> wr.batch, done |-> wr.done, height |-> wr.height,
            level |-> l, update |-> wr.update]
    BY DEF WriterInv
<1>2. x2 = [pc |-> wr.pc, batch |-> wr.batch, done |-> d, height |-> wr.height, level |-> l,
            update |-> wr.update]
    <2> HIDE DEF x1
    <2> QED BY <1>1
<1>3. x3 = [pc |-> p, batch |-> wr.batch, done |-> d, height |-> wr.height, level |-> l,
            update |-> wr.update]
    <2> HIDE DEF x2
    <2> QED BY <1>2
<1>4. [wr EXCEPT !.level = l, !.done = d, !.pc = p] = x3
    OBVIOUS
<1> QED BY <1>3, <1>4

LEMMA IdleReaderIs ==
    /\ IdleReader = [pc |-> IdleReader.pc, kind |-> IdleReader.kind, key |-> IdleReader.key,
                     scan |-> IdleReader.scan, snap |-> IdleReader.snap, src |-> IdleReader.src,
                     out |-> IdleReader.out, seen |-> IdleReader.seen,
                     touched |-> IdleReader.touched]
    /\ IdleReader.pc = "idle" /\ IdleReader.kind = "get" /\ IdleReader.key = 0
    /\ IdleReader.snap = NoSnapshot /\ IdleReader.out = <<>> /\ IdleReader.seen = {}
    /\ IdleReader.touched = {}
BY DEF IdleReader

LEMMA NewGetIs ==
    \A k, s, c, n :
        [IdleReader EXCEPT !.pc = "seek", !.kind = "get", !.key = k, !.snap = s, !.src = c, !.seen = n]
            = [pc |-> "seek", kind |-> "get", key |-> k, scan |-> IdleReader.scan, snap |-> s,
                  src |-> c, out |-> <<>>, seen |-> n, touched |-> {}]
<1> SUFFICES ASSUME NEW k, NEW s, NEW c, NEW n
    PROVE  [IdleReader EXCEPT !.pc = "seek", !.kind = "get", !.key = k, !.snap = s, !.src = c, !.seen = n]
               = [pc |-> "seek", kind |-> "get", key |-> k, scan |-> IdleReader.scan, snap |-> s,
                  src |-> c, out |-> <<>>, seen |-> n, touched |-> {}]
    OBVIOUS
<1> DEFINE r == IdleReader
<1>0. r = [pc |-> r.pc, kind |-> r.kind, key |-> r.key, scan |-> r.scan, snap |-> r.snap,
           src |-> r.src, out |-> r.out, seen |-> r.seen, touched |-> r.touched]
    BY IdleReaderIs
<1>a. r.out = <<>> /\ r.touched = {}
    BY IdleReaderIs
<1> HIDE DEF r
<1> DEFINE x1 == [r EXCEPT !.pc = "seek"]
           x2 == [x1 EXCEPT !.kind = "get"]
           x3 == [x2 EXCEPT !.key = k]
           x4 == [x3 EXCEPT !.snap = s]
           x5 == [x4 EXCEPT !.src = c]
           x6 == [x5 EXCEPT !.seen = n]
<1>1. x1 = [pc |-> "seek", kind |-> r.kind, key |-> r.key, scan |-> r.scan, snap |-> r.snap,
            src |-> r.src, out |-> r.out, seen |-> r.seen, touched |-> r.touched]
    BY <1>0
<1>2. x2 = [pc |-> "seek", kind |-> "get", key |-> r.key, scan |-> r.scan, snap |-> r.snap,
            src |-> r.src, out |-> r.out, seen |-> r.seen, touched |-> r.touched]
    <2> HIDE DEF x1
    <2> QED BY <1>1
<1>3. x3 = [pc |-> "seek", kind |-> "get", key |-> k, scan |-> r.scan, snap |-> r.snap,
            src |-> r.src, out |-> r.out, seen |-> r.seen, touched |-> r.touched]
    <2> HIDE DEF x2
    <2> QED BY <1>2
<1>4. x4 = [pc |-> "seek", kind |-> "get", key |-> k, scan |-> r.scan, snap |-> s,
            src |-> r.src, out |-> r.out, seen |-> r.seen, touched |-> r.touched]
    <2> HIDE DEF x3
    <2> QED BY <1>3
<1>5. x5 = [pc |-> "seek", kind |-> "get", key |-> k, scan |-> r.scan, snap |-> s,
            src |-> c, out |-> r.out, seen |-> r.seen, touched |-> r.touched]
    <2> HIDE DEF x4
    <2> QED BY <1>4
<1>6. x6 = [pc |-> "seek", kind |-> "get", key |-> k, scan |-> r.scan, snap |-> s,
            src |-> c, out |-> r.out, seen |-> n, touched |-> r.touched]
    <2> HIDE DEF x5
    <2> QED BY <1>5
<1>7. [r EXCEPT !.pc = "seek", !.kind = "get", !.key = k, !.snap = s, !.src = c, !.seen = n] = x6
    OBVIOUS
<1>8. [r EXCEPT !.pc = "seek", !.kind = "get", !.key = k, !.snap = s, !.src = c, !.seen = n]
          = [pc |-> "seek", kind |-> "get", key |-> k, scan |-> r.scan, snap |-> s,
                  src |-> c, out |-> <<>>, seen |-> n, touched |-> {}]
    BY <1>a, <1>6, <1>7
<1> QED BY <1>8, Zenon DEF r

LEMMA NewScanIs ==
    \A n, s, c :
        [IdleReader EXCEPT !.pc = "seek", !.kind = "scan", !.scan = n, !.snap = s, !.src = c]
            = [pc |-> "seek", kind |-> "scan", key |-> 0, scan |-> n, snap |-> s,
                  src |-> c, out |-> <<>>, seen |-> {}, touched |-> {}]
<1> SUFFICES ASSUME NEW n, NEW s, NEW c
    PROVE  [IdleReader EXCEPT !.pc = "seek", !.kind = "scan", !.scan = n, !.snap = s, !.src = c]
               = [pc |-> "seek", kind |-> "scan", key |-> 0, scan |-> n, snap |-> s,
                  src |-> c, out |-> <<>>, seen |-> {}, touched |-> {}]
    OBVIOUS
<1> DEFINE r == IdleReader
<1>0. r = [pc |-> r.pc, kind |-> r.kind, key |-> r.key, scan |-> r.scan, snap |-> r.snap,
           src |-> r.src, out |-> r.out, seen |-> r.seen, touched |-> r.touched]
    BY IdleReaderIs
<1>a. r.key = 0 /\ r.out = <<>> /\ r.seen = {} /\ r.touched = {}
    BY IdleReaderIs
<1> HIDE DEF r
<1> DEFINE x1 == [r EXCEPT !.pc = "seek"]
           x2 == [x1 EXCEPT !.kind = "scan"]
           x3 == [x2 EXCEPT !.scan = n]
           x4 == [x3 EXCEPT !.snap = s]
           x5 == [x4 EXCEPT !.src = c]
<1>1. x1 = [pc |-> "seek", kind |-> r.kind, key |-> r.key, scan |-> r.scan, snap |-> r.snap,
            src |-> r.src, out |-> r.out, seen |-> r.seen, touched |-> r.touched]
    BY <1>0
<1>2. x2 = [pc |-> "seek", kind |-> "scan", key |-> r.key, scan |-> r.scan, snap |-> r.snap,
            src |-> r.src, out |-> r.out, seen |-> r.seen, touched |-> r.touched]
    <2> HIDE DEF x1
    <2> QED BY <1>1
<1>3. x3 = [pc |-> "seek", kind |-> "scan", key |-> r.key, scan |-> n, snap |-> r.snap,
            src |-> r.src, out |-> r.out, seen |-> r.seen, touched |-> r.touched]
    <2> HIDE DEF x2
    <2> QED BY <1>2
<1>4. x4 = [pc |-> "seek", kind |-> "scan", key |-> r.key, scan |-> n, snap |-> s,
            src |-> r.src, out |-> r.out, seen |-> r.seen, touched |-> r.touched]
    <2> HIDE DEF x3
    <2> QED BY <1>3
<1>5. x5 = [pc |-> "seek", kind |-> "scan", key |-> r.key, scan |-> n, snap |-> s,
            src |-> c, out |-> r.out, seen |-> r.seen, touched |-> r.touched]
    <2> HIDE DEF x4
    <2> QED BY <1>4
<1>6. [r EXCEPT !.pc = "seek", !.kind = "scan", !.scan = n, !.snap = s, !.src = c] = x5
    OBVIOUS
<1>7. [r EXCEPT !.pc = "seek", !.kind = "scan", !.scan = n, !.snap = s, !.src = c]
          = [pc |-> "seek", kind |-> "scan", key |-> 0, scan |-> n, snap |-> s,
                  src |-> c, out |-> <<>>, seen |-> {}, touched |-> {}]
    BY <1>a, <1>5, <1>6
<1> QED BY <1>7, Zenon DEF r

-----------------------------------------------------------------------------
(* The memtables and the writer: ListInv is inductive.                     *)

LEMMA MemsShape ==
    ASSUME MemsInv
    PROVE  /\ Len(mems) \in Nat \ {0} /\ DOMAIN mems = 1..Len(mems) /\ Len(mems) \in DOMAIN mems
           /\ Active = mems[Len(mems)] /\ ListOK(Active)
<1>1. mems \in Seq({mems[i] : i \in DOMAIN mems}) /\ mems # <<>>
    BY DEF MemsInv, IsSequence
<1>2. Len(mems) \in Nat \ {0} /\ DOMAIN mems = 1..Len(mems)
    BY <1>1
<1>3. Len(mems) \in DOMAIN mems
    BY <1>2
<1>4. ListOK(mems[Len(mems)])
    BY <1>3 DEF MemsInv
<1> QED BY <1>2, <1>3, <1>4 DEF Active

\* The entry being inserted is newer than everything before it.
LEMMA EntryFacts ==
    ASSUME ListInv, wr.pc \in {"find", "link"}
    PROVE  /\ Entry1 \in Entries /\ Entry1.seq = nextSeq + wr.done /\ nextSeq + wr.done \in Nat
           /\ wr.done \in Nat /\ Len(wr.batch) \in Nat /\ wr.done + 1 \in 1..Len(wr.batch)
           /\ nextSeq + wr.done <= MaxSeq
<1>1. /\ wr.batch \in Seq([key : Keys, typ : RecordTypes]) /\ wr.done \in Nat
      /\ wr.done < Len(wr.batch) /\ nextSeq \in Nat
    BY DEF ListInv, WriterInv, TypeOK, Batch
<1>2. Len(wr.batch) \in Nat /\ wr.done + 1 \in 1..Len(wr.batch)
    BY <1>1
<1>3. wr.batch[wr.done + 1] \in [key : Keys, typ : RecordTypes]
    <2> DEFINE R == [key : Keys, typ : RecordTypes]
    <2> HIDE DEF R
    <2>1. wr.batch \in Seq(R)
        BY <1>1 DEF R
    <2>2. wr.batch[wr.done + 1] \in R
        BY <1>2, <2>1, ElementOfSeq
    <2> QED BY <2>2 DEF R
<1>4. nextSeq + wr.done \in Nat
    BY <1>1
<1>5. Entry1 \in Entries /\ Entry1.seq = nextSeq + wr.done
    BY <1>3, <1>4 DEF Entry1, InternalKeyOf, Entries
<1>6. nextSeq - 1 + Len(wr.batch) <= MaxSeq /\ MaxSeq \in Nat
    <2>1. wr.pc # "idle"
        OBVIOUS
    <2> QED BY <2>1, BoundsAssumption DEF ListInv, WriterInv
<1>7. nextSeq + wr.done <= MaxSeq
    BY <1>1, <1>2, <1>6
<1> QED BY <1>1, <1>2, <1>4, <1>5, <1>7

LEMMA MapIsSeq ==
    ASSUME NEW T, NEW n \in Nat, NEW t \in [1..n -> T]
    PROVE  t \in Seq(T) /\ Len(t) = n
<1>1. Seq(T) = UNION {[1..m -> T] : m \in Nat}
    BY SeqDef
<1>2. t \in Seq(T)
    BY <1>1
<1>3. Len(t) \in Nat /\ DOMAIN t = 1..Len(t) /\ DOMAIN t = 1..n
    BY <1>2, LenProperties
<1> QED BY <1>2, <1>3

LEMMA SeqUpdate ==
    ASSUME NEW s, IsSequence(s), NEW t, DOMAIN t = DOMAIN s, t = [i \in DOMAIN t |-> t[i]]
    PROVE  IsSequence(t) /\ Len(t) = Len(s)
<1> DEFINE T == {t[i] : i \in DOMAIN t}
<1>1. Len(s) \in Nat /\ DOMAIN t = 1..Len(s)
    BY DEF IsSequence
<1>2. \A i \in 1..Len(s) : t[i] \in T
    BY <1>1
<1> HIDE DEF T
<1>3. t \in [1..Len(s) -> T]
    BY <1>1, <1>2
<1>4. t \in Seq(T) /\ Len(t) = Len(s)
    BY <1>1, <1>3, MapIsSeq
<1> QED BY <1>4 DEF T, IsSequence

LEMMA SeqAppend ==
    ASSUME NEW s, IsSequence(s), NEW v
    PROVE  \A t : t = Append(s, v) =>
               /\ IsSequence(t) /\ DOMAIN t = DOMAIN s \cup {Len(s) + 1}
               /\ Len(t) = Len(s) + 1 /\ t # <<>>
               /\ t[Len(s) + 1] = v /\ \A i \in DOMAIN s : t[i] = s[i]
<1> SUFFICES ASSUME NEW t, t = Append(s, v)
    PROVE  /\ IsSequence(t) /\ DOMAIN t = DOMAIN s \cup {Len(s) + 1}
           /\ Len(t) = Len(s) + 1 /\ t # <<>>
           /\ t[Len(s) + 1] = v /\ \A i \in DOMAIN s : t[i] = s[i]
    OBVIOUS
<1> DEFINE S == {s[i] : i \in DOMAIN s}
           V == S \cup {v}
<1>1. Len(s) \in Nat /\ DOMAIN s = 1..Len(s)
    BY DEF IsSequence
<1>2. s \in Seq(V)
    <2>1. S \subseteq V /\ s \in Seq(S)
        BY DEF IsSequence
    <2> HIDE DEF S, V
    <2> QED BY <2>1
<1>3. v \in V
    OBVIOUS
<1> HIDE DEF V, S
<1>4. /\ t \in Seq(V) /\ Len(t) = Len(s) + 1 /\ t[Len(s) + 1] = v
      /\ \A i \in 1..Len(s) : t[i] = s[i]
    BY <1>1, <1>2, <1>3
<1>5. DOMAIN t = 1..Len(t) /\ Len(t) \in Nat
    BY <1>4
<1>6. DOMAIN t = DOMAIN s \cup {Len(s) + 1} /\ t # <<>>
    BY <1>1, <1>4, <1>5
<1> DEFINE T == {t[i] : i \in DOMAIN t}
<1>7. \A i \in 1..Len(t) : t[i] \in T
    BY <1>5
<1>8. t = [i \in 1..Len(t) |-> t[i]]
    <2>1. t \in [1..Len(t) -> V]
        BY <1>4, LenProperties
    <2> QED BY <2>1
<1> HIDE DEF T
<1>9. t \in [1..Len(t) -> T]
    BY <1>7, <1>8
<1>10. t \in Seq(T)
    BY <1>5, <1>9, MapIsSeq
<1> QED BY <1>1, <1>4, <1>6, <1>10 DEF T, IsSequence

LEMMA ListInvInit ==
    Init => ListInv
<1> SUFFICES ASSUME Init PROVE ListInv
    OBVIOUS
<1>1. /\ mems = <<NewSkiplist>> /\ nextSeq = 1 /\ mu = "free" /\ wr = IdleWriter
      /\ snapshot = NoSnapshot /\ rd = IdleReader
    BY DEF Init
<1>2. DOMAIN mems = {1} /\ mems[1] = NewSkiplist /\ Len(mems) = 1 /\ mems # <<>>
    BY <1>1
<1>3. ListOK(NewSkiplist) /\ Nodes(NewSkiplist) = {}
    BY NewListOK
<1>4. IsSequence(mems)
    BY <1>1, <1>2 DEF IsSequence
<1>5. Linked = {}
    BY <1>2, <1>3 DEF Linked
<1>6. MemsInv
    BY <1>2, <1>3, <1>4, <1>5 DEF MemsInv
<1>7. /\ wr.pc = "idle" /\ wr.done = 0 /\ wr.update = [i \in Levels |-> HeadNode]
      /\ wr = [pc |-> wr.pc, batch |-> wr.batch, done |-> wr.done, height |-> wr.height,
               level |-> wr.level, update |-> wr.update]
    BY <1>1 DEF IdleWriter
<1>8. WriterInv
    BY <1>1, <1>7, BoundsAssumption DEF WriterInv
<1>9. ReaderShape /\ rd.pc = "idle" /\ DOMAIN rd.src = {}
    BY <1>1 DEF ReaderShape, IdleReader
<1>10. TypeOK
    BY <1>1, <1>5, <1>7, <1>9 DEF TypeOK, NoSnapshot
<1> QED BY <1>6, <1>8, <1>9, <1>10 DEF ListInv

\* Reads and snapshots leave the memtables and the writer alone.
LEMMA ListInvRead ==
    ASSUME ListInv, UNCHANGED <<mems, nextSeq, mu, wr>>,
           snapshot' \in Nat \cup {NoSnapshot}, ReaderShape',
           rd'.pc \in {"idle", "seek", "run", "end"}, DOMAIN rd'.src \subseteq DOMAIN mems
    PROVE  ListInv'
<1>1. Linked' = Linked /\ LastSeq' = LastSeq /\ Active' = Active /\ Entry1' = Entry1
    BY DEF Linked, LastSeq, Linking, Active, Entry1
<1>2. MemsInv'
    BY <1>1 DEF ListInv, MemsInv
<1>3. WriterInv'
    BY <1>1 DEF ListInv, WriterInv
<1>4. TypeOK'
    BY <1>1 DEF ListInv, TypeOK
<1> QED BY <1>2, <1>3, <1>4 DEF ListInv

LEMMA ListInvReads ==
    ASSUME ListInv, Read
    PROVE  ListInv'
<1>1. /\ ReaderShape /\ rd.pc \in {"idle", "seek", "run", "end"}
      /\ DOMAIN rd.src \subseteq DOMAIN mems /\ snapshot \in Nat \cup {NoSnapshot}
      /\ nextSeq \in Nat \ {0}
    BY DEF ListInv, TypeOK
<1>2. CASE GetSnapshot \/ ReleaseSnapshot
    <2>1. UNCHANGED <<mems, nextSeq, mu, wr, rd>> /\ snapshot' \in Nat \cup {NoSnapshot}
        BY <1>1, <1>2 DEF GetSnapshot, ReleaseSnapshot, SnapshotSeq
    <2>2. ReaderShape'
        BY <1>1, <2>1 DEF ReaderShape
    <2> QED BY <1>1, <2>1, <2>2, ListInvRead
<1>3. ASSUME NEW read, Begin(read), read.pc = "seek", DOMAIN read.src = DOMAIN mems,
             read = [pc |-> read.pc, kind |-> read.kind, key |-> read.key, scan |-> read.scan,
                     snap |-> read.snap, src |-> read.src, out |-> read.out,
                     seen |-> read.seen, touched |-> read.touched]
      PROVE  ListInv'
    <2>1. rd' = read /\ UNCHANGED <<mems, nextSeq, mu, wr, snapshot>>
        BY <1>3 DEF Begin
    <2>2. ReaderShape'
        BY <1>3, <2>1 DEF ReaderShape
    <2> QED BY <1>1, <1>3, <2>1, <2>2, ListInvRead
<1>4. CASE \E key \in Keys, snap \in SnapChoice : GetWithOptions(key, snap)
    <2>1. PICK key \in Keys, snap \in SnapChoice : GetWithOptions(key, snap)
        BY <1>4
    <2> DEFINE src == [i \in DOMAIN mems |-> Nil]
               seen == {Current(Linked, key)}
               read == [IdleReader EXCEPT !.pc = "seek", !.kind = "get", !.key = key,
                                          !.snap = snap, !.src = src, !.seen = seen]
    <2>2. Begin(read) /\ DOMAIN src = DOMAIN mems
        BY <2>1 DEF GetWithOptions
    <2> HIDE DEF src, seen
    <2>3. read = [pc |-> "seek", kind |-> "get", key |-> key, scan |-> IdleReader.scan,
                  snap |-> snap, src |-> src, out |-> <<>>, seen |-> seen, touched |-> {}]
        <3>1. \A s, c, n :
                  [IdleReader EXCEPT !.pc = "seek", !.kind = "get", !.key = key, !.snap = s,
                                     !.src = c, !.seen = n]
                      = [pc |-> "seek", kind |-> "get", key |-> key, scan |-> IdleReader.scan,
                         snap |-> s, src |-> c, out |-> <<>>, seen |-> n, touched |-> {}]
            BY NewGetIs, Zenon
        <3>2. \A c, n :
                  [IdleReader EXCEPT !.pc = "seek", !.kind = "get", !.key = key, !.snap = snap,
                                     !.src = c, !.seen = n]
                      = [pc |-> "seek", kind |-> "get", key |-> key, scan |-> IdleReader.scan,
                         snap |-> snap, src |-> c, out |-> <<>>, seen |-> n, touched |-> {}]
            BY <3>1, Zenon
        <3> QED BY <3>2, Zenon
    <2> HIDE DEF read
    <2>4. /\ read.pc = "seek" /\ DOMAIN read.src = DOMAIN mems
          /\ read = [pc |-> read.pc, kind |-> read.kind, key |-> read.key, scan |-> read.scan,
                     snap |-> read.snap, src |-> read.src, out |-> read.out,
                     seen |-> read.seen, touched |-> read.touched]
        BY <2>2, <2>3
    <2> QED BY <1>3, <2>2, <2>4
<1>5. CASE \E scan \in Scans, snap \in SnapChoice : NewIterator(scan, snap)
    <2>1. PICK scan \in Scans, snap \in SnapChoice : NewIterator(scan, snap)
        BY <1>5
    <2> DEFINE src == [i \in DOMAIN mems |-> Nil]
               read == [IdleReader EXCEPT !.pc = "seek", !.kind = "scan", !.scan = scan,
                                          !.snap = snap, !.src = src]
    <2>2. Begin(read) /\ DOMAIN src = DOMAIN mems
        BY <2>1 DEF NewIterator
    <2> HIDE DEF src
    <2>3. read = [pc |-> "seek", kind |-> "scan", key |-> 0, scan |-> scan,
                  snap |-> snap, src |-> src, out |-> <<>>, seen |-> {}, touched |-> {}]
        BY NewScanIs, Zenon
    <2> HIDE DEF read
    <2>4. /\ read.pc = "seek" /\ DOMAIN read.src = DOMAIN mems
          /\ read = [pc |-> read.pc, kind |-> read.kind, key |-> read.key, scan |-> read.scan,
                     snap |-> read.snap, src |-> read.src, out |-> read.out,
                     seen |-> read.seen, touched |-> read.touched]
        BY <2>2, <2>3
    <2> QED BY <1>3, <2>2, <2>4
<1>6. CASE ReadAdvance
    <2>1. DOMAIN Cursors = DOMAIN rd.src
        BY DEF Cursors
    <2> DEFINE src == [i \in DOMAIN Cursors |-> SkipKey(i, Cursors[i], Best.key)]
               out == IF /\ rd.kind = "scan" /\ Best.typ = RecordTypeValue
                         /\ InScan(Best.key)
                      THEN Append(rd.out, Best) ELSE rd.out
    <2>2. rd' = [rd EXCEPT !.pc = "run", !.src = src, !.out = out] /\ DOMAIN src = DOMAIN Cursors
        BY <1>6 DEF ReadAdvance
    <2> HIDE DEF src, out
    <2>3. rd' = [pc |-> "run", kind |-> rd.kind, key |-> rd.key, scan |-> rd.scan,
                 snap |-> rd.snap, src |-> src, out |-> out, seen |-> rd.seen,
                 touched |-> rd.touched]
        BY <1>1, <2>2, MovedReadIs
    <2>4. ReaderShape' /\ rd'.pc = "run" /\ DOMAIN rd'.src = DOMAIN Cursors
        BY <2>2, <2>3 DEF ReaderShape
    <2>5. UNCHANGED <<mems, nextSeq, mu, wr, snapshot>>
        BY <1>6 DEF ReadAdvance
    <2> QED BY <1>1, <2>1, <2>4, <2>5, ListInvRead
<1>7. CASE ReadEnd
    <2> DEFINE src == [i \in {} |-> Nil]
               out == IF rd.kind = "get" THEN <<GetResult(Best)>> ELSE rd.out
    <2>1. DOMAIN src = {}
        OBVIOUS
    <2>2. rd' = [rd EXCEPT !.pc = "end", !.src = src, !.out = out]
        BY <1>7 DEF ReadEnd
    <2> HIDE DEF src, out
    <2>3. rd' = [pc |-> "end", kind |-> rd.kind, key |-> rd.key, scan |-> rd.scan,
                 snap |-> rd.snap, src |-> src, out |-> out, seen |-> rd.seen,
                 touched |-> rd.touched]
        BY <1>1, <2>2, MovedReadIs
    <2>4. ReaderShape' /\ rd'.pc = "end" /\ DOMAIN rd'.src = {}
        BY <2>1, <2>3 DEF ReaderShape
    <2>5. UNCHANGED <<mems, nextSeq, mu, wr, snapshot>>
        BY <1>7 DEF ReadEnd
    <2> QED BY <1>1, <2>4, <2>5, ListInvRead
<1>8. CASE ReadClose
    <2>1. rd' = IdleReader /\ UNCHANGED <<mems, nextSeq, mu, wr, snapshot>>
        BY <1>8 DEF ReadClose
    <2>2. ReaderShape' /\ rd'.pc = "idle" /\ DOMAIN rd'.src = {}
        BY <2>1 DEF ReaderShape, IdleReader
    <2> QED BY <1>1, <2>1, <2>2, ListInvRead
<1> QED BY <1>2, <1>4, <1>5, <1>6, <1>7, <1>8 DEF Read

LEMMA ListInvBegin ==
    ASSUME ListInv, NEW batch \in Batches, WriteBegin(batch)
    PROVE  ListInv'
<1>1. /\ mu = "free" /\ nextSeq + Len(batch) - 1 <= MaxSeq /\ mu' = "writer"
      /\ wr' = [IdleWriter EXCEPT !.pc = "find", !.batch = batch]
      /\ UNCHANGED <<mems, nextSeq, snapshot, rd>>
    BY DEF WriteBegin
<1>2. wr' = [pc |-> "find", batch |-> batch, done |-> 0, height |-> 0, level |-> 0,
             update |-> [i \in Levels |-> HeadNode]]
    BY <1>1, WriteIs
<1>3. /\ wr'.pc = "find" /\ wr'.batch = batch /\ wr'.done = 0
      /\ wr'.update = [i \in Levels |-> HeadNode]
      /\ wr' = [pc |-> wr'.pc, batch |-> wr'.batch, done |-> wr'.done, height |-> wr'.height,
                level |-> wr'.level, update |-> wr'.update]
    BY <1>2
<1>4. wr.pc = "idle" /\ wr.done = 0
    BY <1>1 DEF ListInv, WriterInv
<1>5. batch \in Batch
    BY BatchesAssumption DEF Batch
<1>6. nextSeq \in Nat \ {0} /\ Len(batch) \in Nat \ {0}
    <2>1. batch \in Seq([key : Keys, typ : RecordTypes]) /\ batch # <<>>
        BY <1>5 DEF Batch
    <2>2. Len(batch) \in Nat \ {0}
        BY <2>1, EmptySeq
    <2> QED BY <2>2 DEF ListInv, TypeOK
<1>7. LastSeq' = LastSeq /\ Linked' = Linked
    BY <1>1, <1>3, <1>4 DEF LastSeq, Linking, Linked
<1>8. MemsInv'
    BY <1>1, <1>7 DEF ListInv, MemsInv
<1>9. WriterInv'
    BY <1>1, <1>3, <1>5, <1>6 DEF WriterInv
<1>10. TypeOK' /\ ReaderShape'
    BY <1>1, <1>3, <1>7 DEF ListInv, TypeOK, ReaderShape
<1> QED BY <1>8, <1>9, <1>10 DEF ListInv

\* An entry that is yet to be linked goes where the search of the list stops.
LEMMA EntryFits ==
    ASSUME ListInv, wr.pc = "find", NEW i \in Levels
    PROVE  /\ Entry1 \notin DOMAIN Active.next[i]
           /\ Fits(Active.next[i], Update(Active, Entry1)[i], Entry1)
<1> DEFINE f == Active.next[i]
           u == Update(Active, Entry1)[i]
<1>1. /\ Len(mems) \in DOMAIN mems /\ Active = mems[Len(mems)] /\ ListOK(Active)
    BY MemsShape DEF ListInv
<1>2. /\ Entry1 \in Entries /\ Entry1.seq = nextSeq + wr.done /\ nextSeq \in Nat /\ wr.done \in Nat
    BY EntryFacts DEF ListInv, TypeOK
<1>3. Entry1 \notin Nodes(Active)
    <2>1. LastSeq = nextSeq + wr.done - 1
        BY DEF LastSeq, Linking
    <2>2. \A e \in Nodes(Active) : e.seq <= LastSeq
        BY <1>1 DEF ListInv, MemsInv
    <2>3. SUFFICES ASSUME Entry1 \in Nodes(Active) PROVE FALSE
        OBVIOUS
    <2>4. Entry1.seq <= LastSeq
        BY <2>2, <2>3
    <2> QED BY <1>2, <2>1, <2>4
<1>4. Entry1 # HeadNode /\ Entry1 \in NodeSet
    BY <1>2, NodeFacts
<1>5. Entry1 \notin DOMAIN f
    BY <1>1, <1>3, <1>4, LevelsNested DEF Nodes
<1>6. Chain(f)
    BY <1>1 DEF ListOK
<1>7. u \in DOMAIN f /\ Before(u, Entry1) /\ (f[u] = Nil \/ ~Before(f[u], Entry1))
    BY <1>1, <1>2, UpdateIs
<1> HIDE DEF f, u
<1>8. f[u] = Nil \/ f[u] \in DOMAIN f
    BY <1>6, <1>7, ChainFacts
<1>9. f[u] = Nil \/ Before(Entry1, f[u])
    <2>1. DOMAIN f \subseteq NodeSet
        BY <1>6, ChainFacts
    <2> QED BY <1>4, <1>5, <1>7, <1>8, <2>1, NodeOrder
<1>10. Fits(f, u, Entry1)
    BY <1>7, <1>9 DEF Fits
<1> QED BY <1>5, <1>10 DEF f, u

LEMMA ListInvFind ==
    ASSUME ListInv, NEW height \in 1..MaxLevel, InsertFind(height)
    PROVE  ListInv'
<1> DEFINE N == Len(mems)
           r == Raise(Active, height)
           u == Update(Active, Entry1)
<1>1. /\ wr.pc = "find"
      /\ wr' = [wr EXCEPT !.pc = "link", !.height = height, !.level = 0, !.update = u]
      /\ mems' = [mems EXCEPT ![N] = r]
      /\ UNCHANGED <<nextSeq, mu, snapshot, rd>>
    BY DEF InsertFind, Active
<1>2. TypeOK /\ ReaderShape /\ MemsInv /\ WriterInv
    BY DEF ListInv
<1>3. N \in DOMAIN mems /\ Active = mems[N] /\ ListOK(Active)
    BY <1>2, MemsShape
<1>4. ListOK(r) /\ r.next = Active.next /\ height <= r.level
    BY <1>3, RaisedListOK
<1>5. Entry1 \in Entries /\ nextSeq + wr.done \in Nat
    BY <1>1, EntryFacts
<1>6. u \in [Levels -> NodeSet]
    BY <1>3, <1>5, UpdateIs
<1>7. \A i \in Levels : Entry1 \notin DOMAIN Active.next[i] /\ Fits(Active.next[i], u[i], Entry1)
    BY <1>1, EntryFits
<1> HIDE DEF r, u
<1>8. /\ IsSequence(mems') /\ DOMAIN mems' = DOMAIN mems
      /\ Len(mems') = N /\ mems'[N] = r /\ \A i \in DOMAIN mems \ {N} : mems'[i] = mems[i]
    <2>1. IsSequence(mems)
        BY <1>2 DEF MemsInv
    <2> HIDE DEF N
    <2>2. /\ DOMAIN mems' = DOMAIN mems /\ mems' = [i \in DOMAIN mems' |-> mems'[i]]
          /\ mems'[N] = r /\ \A i \in DOMAIN mems \ {N} : mems'[i] = mems[i]
        BY <1>1, <1>3
    <2>3. IsSequence(mems') /\ Len(mems') = Len(mems)
        BY <2>1, <2>2, SeqUpdate
    <2> QED BY <2>2, <2>3 DEF N
<1>9. wr' = [pc |-> "link", batch |-> wr.batch, done |-> wr.done, height |-> height, level |-> 0,
             update |-> u]
    BY <1>1, <1>2, FoundIs, Zenon
<1>10. /\ wr'.pc = "link" /\ wr'.batch = wr.batch /\ wr'.done = wr.done /\ wr'.height = height
       /\ wr'.level = 0 /\ wr'.update = u
       /\ wr' = [pc |-> wr'.pc, batch |-> wr'.batch, done |-> wr'.done, height |-> wr'.height,
                 level |-> wr'.level, update |-> wr'.update]
    BY <1>9
<1>11. Entry1' = Entry1
    BY <1>1, <1>10 DEF Entry1
<1>12. Active' = r
    BY <1>8 DEF Active
<1>13. LastSeq' = LastSeq
    BY <1>1, <1>10 DEF LastSeq, Linking
<1>14. \A i \in DOMAIN mems : ListOK(mems'[i]) /\ Nodes(mems'[i]) = Nodes(mems[i])
    BY <1>2, <1>3, <1>4, <1>8 DEF MemsInv, Nodes
<1>15. Linked' = Linked
    BY <1>8, <1>14 DEF Linked
<1>16. MemsInv'
    <2>1. mems' # <<>>
        BY <1>3, <1>8
    <2> QED BY <1>2, <1>8, <1>13, <1>14, <1>15, <2>1 DEF MemsInv
<1>17. WriterInv'
    <2>1. height \in 1..MaxLevel /\ 0 \in 0..(height - 1) /\ MaxLevel \in Nat
        BY MaxLevelAssumption
    <2>2. \A i \in 0..(height - 1) : i \in Levels
        BY <2>1 DEF Levels
    <2>3. \A i \in 0..(0 - 1) : FALSE
        OBVIOUS
    <2> QED BY <1>1, <1>2, <1>4, <1>7, <1>10, <1>11, <1>12, <2>1, <2>2, <2>3 DEF WriterInv
<1>18. TypeOK' /\ ReaderShape'
    BY <1>1, <1>2, <1>6, <1>8, <1>10, <1>15 DEF TypeOK, ReaderShape, NodeSet
<1> QED BY <1>16, <1>17, <1>18 DEF ListInv

\* What linking one level does to the memtables.
LEMMA LinkEffect ==
    ASSUME ListInv, InsertLink
    PROVE  /\ IsSequence(mems') /\ DOMAIN mems' = DOMAIN mems /\ Len(mems') = Len(mems)
           /\ Len(mems) \in DOMAIN mems
           /\ \A i \in DOMAIN mems \ {Len(mems)} : mems'[i] = mems[i]
           /\ ListOK(Active) /\ ListOK(Active') /\ Active' = mems'[Len(mems)]
           /\ Active'.level = Active.level
           /\ wr.level \in Levels /\ wr.height \in 1..MaxLevel /\ wr.level \in 0..(wr.height - 1)
           /\ DOMAIN Active'.next[wr.level] = DOMAIN Active.next[wr.level] \cup {Entry1}
           /\ \A j \in Levels \ {wr.level} : Active'.next[j] = Active.next[j]
           /\ Fits(Active.next[wr.level], wr.update[wr.level], Entry1)
           /\ Active'.next[wr.level]
                  = Spliced(Active.next[wr.level], wr.update[wr.level], Entry1)
<1> DEFINE N == Len(mems)
           i == wr.level
           r == Link(Active, i, Entry1, wr.update)
<1>1. wr.pc = "link" /\ mems' = [mems EXCEPT ![N] = r]
    BY DEF InsertLink, Active
<1>2. TypeOK /\ MemsInv /\ WriterInv
    BY DEF ListInv
<1>3. N \in DOMAIN mems /\ Active = mems[N] /\ ListOK(Active) /\ IsSequence(mems)
    BY <1>2, MemsShape DEF MemsInv
<1>4. /\ wr.height \in 1..MaxLevel /\ i \in 0..(wr.height - 1) /\ wr.height <= Active.level
      /\ \A j \in 0..(i - 1) : Entry1 \in DOMAIN Active.next[j]
      /\ \A j \in i..(wr.height - 1) :
            Entry1 \notin DOMAIN Active.next[j] /\ Fits(Active.next[j], wr.update[j], Entry1)
    BY <1>1, <1>2 DEF WriterInv
<1>5. i \in Levels /\ i < Active.level /\ i \in i..(wr.height - 1) /\ (i > 0 => i - 1 \in 0..(i - 1))
    <2>1. MaxLevel \in Nat /\ Active.level \in 1..MaxLevel
        BY <1>3, MaxLevelAssumption DEF ListOK
    <2> QED BY <1>4, <2>1 DEF Levels
<1>6. Entry1 \in Entries
    BY <1>1, EntryFacts
<1>7. Entry1 \notin DOMAIN Active.next[i] /\ Fits(Active.next[i], wr.update[i], Entry1)
      /\ (i > 0 => Entry1 \in DOMAIN Active.next[i - 1])
    BY <1>4, <1>5
<1>8. /\ ListOK(r) /\ r.level = Active.level
      /\ r.next[i] = Spliced(Active.next[i], wr.update[i], Entry1)
      /\ DOMAIN r.next[i] = DOMAIN Active.next[i] \cup {Entry1}
      /\ \A j \in Levels \ {i} : r.next[j] = Active.next[j]
    <2> DEFINE l == Active
               e == Entry1
               u == wr.update
    <2>1. /\ ListOK(l) /\ i \in Levels /\ i < l.level /\ e \in Entries /\ e \notin DOMAIN l.next[i]
          /\ Fits(l.next[i], u[i], e) /\ (i > 0 => e \in DOMAIN l.next[i - 1])
        BY <1>3, <1>5, <1>6, <1>7
    <2> HIDE DEF l, e, u, i
    <2>2. /\ ListOK(Link(l, i, e, u)) /\ Link(l, i, e, u).level = l.level
          /\ Link(l, i, e, u).next[i] = Spliced(l.next[i], u[i], e)
          /\ DOMAIN Link(l, i, e, u).next[i] = DOMAIN l.next[i] \cup {e}
          /\ \A j \in Levels \ {i} : Link(l, i, e, u).next[j] = l.next[j]
        BY <2>1, LinkedListOK
    <2> QED BY <2>2 DEF l, e, u
<1> HIDE DEF r
<1>9. /\ DOMAIN mems' = DOMAIN mems /\ mems' = [j \in DOMAIN mems' |-> mems'[j]]
      /\ mems'[N] = r /\ \A j \in DOMAIN mems \ {N} : mems'[j] = mems[j]
    <2> HIDE DEF N
    <2> QED BY <1>1, <1>3
<1>10. IsSequence(mems') /\ Len(mems') = N
    BY <1>3, <1>9, SeqUpdate
<1>11. Active' = r
    BY <1>9, <1>10 DEF Active
<1> QED BY <1>3, <1>4, <1>5, <1>7, <1>8, <1>9, <1>10, <1>11

\* The writer after it has linked one level.
LEMMA LinkWriter ==
    ASSUME ListInv, InsertLink
    PROVE  /\ wr.pc = "link"
           /\ wr' = [pc |-> wr'.pc, batch |-> wr'.batch, done |-> wr'.done, height |-> wr'.height,
                     level |-> wr'.level, update |-> wr'.update]
           /\ wr'.batch = wr.batch /\ wr'.height = wr.height /\ wr'.update = wr.update
           /\ wr'.level = wr.level + 1
           /\ wr.level + 1 = wr.height =>
                 /\ wr'.done = wr.done + 1
                 /\ wr'.pc = IF wr.done + 1 = Len(wr.batch) THEN "end" ELSE "find"
           /\ wr.level + 1 # wr.height => wr'.done = wr.done /\ wr'.pc = "link"
<1> DEFINE l == wr.level + 1
           d == IF wr.level + 1 = wr.height THEN wr.done + 1 ELSE wr.done
           p == IF wr.level + 1 # wr.height THEN "link"
                ELSE IF d = Len(wr.batch) THEN "end" ELSE "find"
<1>1. wr.pc = "link" /\ wr' = [wr EXCEPT !.level = l, !.done = d, !.pc = p]
    BY DEF InsertLink
<1>2. WriterInv
    BY DEF ListInv
<1>3. /\ wr.level + 1 = wr.height =>
            d = wr.done + 1 /\ p = IF wr.done + 1 = Len(wr.batch) THEN "end" ELSE "find"
      /\ wr.level + 1 # wr.height => d = wr.done /\ p = "link"
    OBVIOUS
<1> HIDE DEF d, p
<1>4. wr' = [pc |-> p, batch |-> wr.batch, done |-> d, height |-> wr.height, level |-> l,
             update |-> wr.update]
    <2> HIDE DEF l
    <2> QED BY <1>1, <1>2, LinkedIs
<1>5. /\ wr'.pc = p /\ wr'.batch = wr.batch /\ wr'.done = d /\ wr'.height = wr.height
      /\ wr'.level = l /\ wr'.update = wr.update
      /\ wr' = [pc |-> wr'.pc, batch |-> wr'.batch, done |-> wr'.done, height |-> wr'.height,
                level |-> wr'.level, update |-> wr'.update]
    BY <1>4
<1> QED BY <1>1, <1>3, <1>5

\* What a reader finds afterwards: the entry, once its lowest level is linked.
LEMMA LinkNodes ==
    ASSUME ListInv, InsertLink
    PROVE  /\ wr.level > 0 => /\ \A i \in DOMAIN mems : mems'[i].next[0] = mems[i].next[0]
                              /\ \A i \in DOMAIN mems : Nodes(mems'[i]) = Nodes(mems[i])
                              /\ Linked' = Linked
           /\ wr.level = 0 => /\ Nodes(Active') = Nodes(Active) \cup {Entry1}
                              /\ \A i \in DOMAIN mems \ {Len(mems)} : Nodes(mems'[i]) = Nodes(mems[i])
                              /\ Linked' = Linked \cup {Entry1}
                              /\ \A e \in Linked : e.seq < Entry1.seq
<1>1. /\ DOMAIN mems' = DOMAIN mems /\ Len(mems') = Len(mems) /\ Len(mems) \in DOMAIN mems
      /\ \A i \in DOMAIN mems \ {Len(mems)} : mems'[i] = mems[i]
      /\ Active' = mems'[Len(mems)] /\ wr.level \in Levels
      /\ DOMAIN Active'.next[wr.level] = DOMAIN Active.next[wr.level] \cup {Entry1}
      /\ \A j \in Levels \ {wr.level} : Active'.next[j] = Active.next[j]
    BY LinkEffect
<1>2. 0 \in Levels /\ Active = mems[Len(mems)] /\ wr.pc = "link"
    BY MaxLevelAssumption DEF Levels, Active, InsertLink
<1>3. Entry1 \in Entries /\ Entry1.seq = nextSeq + wr.done /\ nextSeq \in Nat /\ wr.done \in Nat
    BY <1>2, EntryFacts DEF ListInv, TypeOK
<1>4. Entry1 # HeadNode
    BY <1>3, NodeFacts
<1>5. CASE wr.level > 0
    <2>1. 0 \in Levels \ {wr.level}
        BY <1>2, <1>5
    <2>2. \A i \in DOMAIN mems : mems'[i].next[0] = mems[i].next[0]
        BY <1>1, <1>2, <2>1
    <2>3. \A i \in DOMAIN mems : Nodes(mems'[i]) = Nodes(mems[i])
        BY <2>2 DEF Nodes
    <2>4. Linked' = Linked
        BY <1>1, <2>3 DEF Linked
    <2> QED BY <1>5, <2>2, <2>3, <2>4
<1>6. CASE wr.level = 0
    <2>1. Nodes(Active') = Nodes(Active) \cup {Entry1}
        BY <1>1, <1>4, <1>6 DEF Nodes
    <2>2. \A i \in DOMAIN mems \ {Len(mems)} : Nodes(mems'[i]) = Nodes(mems[i])
        BY <1>1
    <2>3. Linked' = Linked \cup {Entry1}
        BY <1>1, <1>2, <2>1, <2>2 DEF Linked
    <2>4. LastSeq = nextSeq + wr.done - 1
        BY <1>2, <1>6 DEF LastSeq, Linking
    <2>5. \A e \in Linked : e.seq <= LastSeq /\ e.seq \in Nat
        <3>1. Linked \subseteq Entries
            BY DEF ListInv, TypeOK
        <3>2. \A e \in Linked : e.seq \in Nat
            BY <3>1, NodeFacts
        <3> QED BY <3>2 DEF ListInv, MemsInv, Linked
    <2>6. \A e \in Linked : e.seq < Entry1.seq
        BY <1>3, <2>4, <2>5
    <2> QED BY <1>6, <2>1, <2>2, <2>3, <2>6
<1> QED
    <2>1. wr.level \in Nat
        BY <1>1, MaxLevelAssumption DEF Levels
    <2> QED BY <1>5, <1>6, <2>1

\* The ghosts of a read change when the entry can be found.
LEMMA LinkReader ==
    ASSUME ReaderShape, InsertLink
    PROVE  /\ ReaderShape'
           /\ rd'.pc = rd.pc /\ rd'.kind = rd.kind /\ rd'.key = rd.key /\ rd'.scan = rd.scan
           /\ rd'.snap = rd.snap /\ rd'.src = rd.src /\ rd'.out = rd.out
           /\ wr.level # 0 => rd' = rd
           /\ wr.level = 0 /\ rd.pc # "idle" =>
                 /\ rd'.touched = rd.touched \cup {Entry1.key}
                 /\ rd.kind = "get" => rd'.seen = rd.seen \cup {Current(Linked', rd.key)}
           /\ rd.pc = "idle" => rd' = rd
<1>1. rd' = IF wr.level = 0 THEN Witness ELSE rd
    BY DEF InsertLink
<1>2. CASE rd' = rd /\ (wr.level # 0 \/ rd.pc = "idle")
    BY <1>2 DEF ReaderShape
<1>3. CASE wr.level = 0 /\ rd.pc # "idle"
    <2> DEFINE s == IF rd.kind = "get" THEN rd.seen \cup {Current(Linked', rd.key)} ELSE rd.seen
               t == rd.touched \cup {Entry1.key}
    <2>1. rd' = [rd EXCEPT !.seen = s, !.touched = t]
        BY <1>1, <1>3 DEF Witness
    <2>2. rd.kind = "get" => s = rd.seen \cup {Current(Linked', rd.key)}
        OBVIOUS
    <2> HIDE DEF s
    <2>3. rd' = [pc |-> rd.pc, kind |-> rd.kind, key |-> rd.key, scan |-> rd.scan,
                 snap |-> rd.snap, src |-> rd.src, out |-> rd.out, seen |-> s, touched |-> t]
        <3> HIDE DEF t
        <3> QED BY <2>1, WitnessIs
    <2> HIDE DEF t
    <2>4. /\ ReaderShape' /\ rd'.pc = rd.pc /\ rd'.kind = rd.kind /\ rd'.key = rd.key
          /\ rd'.scan = rd.scan /\ rd'.snap = rd.snap /\ rd'.src = rd.src /\ rd'.out = rd.out
          /\ rd'.seen = s /\ rd'.touched = t
        BY <2>3 DEF ReaderShape
    <2> QED BY <1>3, <2>2, <2>4 DEF t
<1> QED BY <1>1, <1>2, <1>3 DEF Witness

LEMMA ListInvLink ==
    ASSUME ListInv, InsertLink
    PROVE  ListInv'
<1> DEFINE N == Len(mems)
           l == wr.level
           e == Entry1
<1>1. TypeOK /\ ReaderShape /\ MemsInv /\ WriterInv
    BY DEF ListInv
<1>2. /\ IsSequence(mems') /\ DOMAIN mems' = DOMAIN mems /\ Len(mems') = N /\ N \in DOMAIN mems
      /\ \A i \in DOMAIN mems \ {N} : mems'[i] = mems[i]
      /\ ListOK(Active') /\ Active' = mems'[N] /\ Active'.level = Active.level
      /\ l \in Levels /\ wr.height \in 1..MaxLevel /\ l \in 0..(wr.height - 1)
      /\ DOMAIN Active'.next[l] = DOMAIN Active.next[l] \cup {e}
      /\ \A j \in Levels \ {l} : Active'.next[j] = Active.next[j]
    BY LinkEffect
<1>3. UNCHANGED <<nextSeq, mu, snapshot>>
    BY DEF InsertLink
<1>4. /\ wr.pc = "link"
      /\ wr' = [pc |-> wr'.pc, batch |-> wr'.batch, done |-> wr'.done, height |-> wr'.height,
                level |-> wr'.level, update |-> wr'.update]
      /\ wr'.batch = wr.batch /\ wr'.height = wr.height /\ wr'.update = wr.update
      /\ wr'.level = l + 1
      /\ l + 1 = wr.height =>
            /\ wr'.done = wr.done + 1
            /\ wr'.pc = IF wr.done + 1 = Len(wr.batch) THEN "end" ELSE "find"
      /\ l + 1 # wr.height => wr'.done = wr.done /\ wr'.pc = "link"
    BY LinkWriter
<1>5. /\ e \in Entries /\ e.seq = nextSeq + wr.done /\ nextSeq \in Nat \ {0} /\ wr.done \in Nat
      /\ Len(wr.batch) \in Nat /\ wr.done + 1 \in 1..Len(wr.batch)
    BY <1>1, <1>4, EntryFacts DEF TypeOK
<1>6. Active = mems[N] /\ l \in Nat
    BY <1>2 DEF Active, Levels
<1>7. /\ LastSeq' = nextSeq + wr.done
      /\ l = 0 => LastSeq = nextSeq + wr.done - 1
      /\ l > 0 => LastSeq = nextSeq + wr.done
    <2>1. l + 1 > 0
        BY <1>6
    <2>2. CASE l + 1 = wr.height
        <3>1. wr'.pc # "link" /\ wr'.done = wr.done + 1
            BY <1>4, <2>2
        <3> QED BY <1>3, <1>4, <1>5, <1>6, <3>1 DEF LastSeq, Linking
    <2>3. CASE l + 1 # wr.height
        BY <1>3, <1>4, <1>5, <1>6, <2>1, <2>3 DEF LastSeq, Linking
    <2> QED BY <2>2, <2>3
<1>8. \A i \in DOMAIN mems : ListOK(mems'[i])
    BY <1>1, <1>2 DEF MemsInv
<1> HIDE DEF N, e
<1>9. MemsInv'
    <2>1. mems' # <<>>
        BY <1>2
    <2>2. CASE l > 0
        <3>1. (\A i \in DOMAIN mems : Nodes(mems'[i]) = Nodes(mems[i])) /\ Linked' = Linked
            BY <2>2, LinkNodes
        <3>2. LastSeq' = LastSeq
            BY <1>7, <2>2
        <3> QED BY <1>1, <1>2, <1>8, <2>1, <3>1, <3>2 DEF MemsInv
    <2>3. CASE l = 0
        <3>1. /\ Nodes(mems'[N]) = Nodes(mems[N]) \cup {e}
              /\ \A i \in DOMAIN mems \ {N} : Nodes(mems'[i]) = Nodes(mems[i])
              /\ Linked' = Linked \cup {e}
              /\ \A f \in Linked : f.seq < e.seq
            BY <1>2, <1>6, <2>3, LinkNodes DEF N, e
        <3>2. LastSeq = e.seq - 1 /\ LastSeq' = e.seq /\ e.seq \in Nat \ {0}
            BY <1>5, <1>7, <2>3
        <3>3. \A i \in DOMAIN mems : \A f \in Nodes(mems[i]) : f \in Linked
            BY DEF Linked
        <3>4. \A f \in Linked : f.seq \in Nat /\ 1 <= f.seq /\ f.seq <= e.seq
            <4>1. \A f \in Linked : f.seq \in Nat
                BY <1>1, NodeFacts DEF TypeOK
            <4>2. \A f \in Linked : 1 <= f.seq
                BY <1>1 DEF MemsInv, Linked
            <4> QED BY <3>1, <3>2, <4>1, <4>2
        <3>5. \A i \in DOMAIN mems : \A f \in Nodes(mems'[i]) : 1 <= f.seq /\ f.seq <= LastSeq'
            <4>1. SUFFICES ASSUME NEW i \in DOMAIN mems, NEW f \in Nodes(mems'[i])
                           PROVE  1 <= f.seq /\ f.seq <= LastSeq'
                OBVIOUS
            <4>2. f = e \/ f \in Linked
                BY <3>1, <3>3
            <4> QED BY <3>2, <3>4, <4>2
        <3>6. \A i, j \in DOMAIN mems : i < j =>
                 \A f \in Nodes(mems'[i]), g \in Nodes(mems'[j]) : f.seq < g.seq
            <4>1. SUFFICES ASSUME NEW i \in DOMAIN mems, NEW j \in DOMAIN mems, i < j,
                                  NEW f \in Nodes(mems'[i]), NEW g \in Nodes(mems'[j])
                           PROVE  f.seq < g.seq
                OBVIOUS
            <4>2. i # N
                <5>1. DOMAIN mems = 1..N /\ N \in Nat
                    BY <1>1, MemsShape DEF N
                <5> QED BY <4>1, <5>1
            <4>3. f \in Nodes(mems[i]) /\ f \in Linked
                BY <3>1, <3>3, <4>2
            <4>4. g \in Nodes(mems[j]) \/ g = e
                BY <3>1
            <4> QED BY <1>1, <3>1, <4>1, <4>3, <4>4 DEF MemsInv
        <3>7. \A f, g \in Linked \cup {e} : f.seq = g.seq => f = g
            <4>1. \A f, g \in Linked : f.seq = g.seq => f = g
                BY <1>1 DEF MemsInv
            <4>2. \A f \in Linked : f.seq # e.seq
                BY <3>1, <3>2, <3>4
            <4> QED BY <4>1, <4>2
        <3> QED BY <1>2, <1>8, <2>1, <3>1, <3>5, <3>6, <3>7 DEF MemsInv
    <2> QED BY <1>6, <2>2, <2>3
<1>10. Linked' \subseteq Entries
    <2>1. Linked \subseteq Entries
        BY <1>1 DEF TypeOK
    <2>2. Linked' \subseteq Linked \cup {e}
        BY <1>6, LinkNodes DEF e
    <2> QED BY <1>5, <2>1, <2>2
<1>11. /\ ReaderShape' /\ rd'.pc = rd.pc /\ rd'.src = rd.src
    BY <1>1, LinkReader
<1>12. TypeOK'
    BY <1>1, <1>2, <1>3, <1>4, <1>10, <1>11 DEF TypeOK
<1>13. WriterInv'
    <2>1. CASE l + 1 = wr.height
        <3>1. /\ wr'.done = wr.done + 1
              /\ wr'.pc = IF wr.done + 1 = Len(wr.batch) THEN "end" ELSE "find"
            BY <1>4, <2>1
        <3> QED BY <1>1, <1>3, <1>4, <1>5, <3>1 DEF WriterInv
    <2>2. CASE l + 1 # wr.height
        <3>1. wr'.done = wr.done /\ wr'.pc = "link"
            BY <1>4, <2>2
        <3>2. Entry1' = e
            BY <1>3, <1>4, <3>1 DEF Entry1, e
        <3>3. l + 1 \in 0..(wr.height - 1) /\ (l + 1) - 1 = l
            BY <1>2, <2>2
        <3>4. /\ wr.height <= Active.level
              /\ \A j \in 0..(l - 1) : e \in DOMAIN Active.next[j]
              /\ \A j \in l..(wr.height - 1) :
                    e \notin DOMAIN Active.next[j] /\ Fits(Active.next[j], wr.update[j], e)
            BY <1>1, <1>4 DEF WriterInv, e
        <3>5. \A j \in 0..(wr.height - 1) : j \in Levels
            BY <1>2, MaxLevelAssumption DEF Levels
        <3>6. \A j \in 0..l : e \in DOMAIN Active'.next[j]
            <4>1. SUFFICES ASSUME NEW j \in 0..l PROVE e \in DOMAIN Active'.next[j]
                OBVIOUS
            <4>2. j = l \/ (j \in 0..(l - 1) /\ j # l /\ j \in Levels)
                BY <1>2, <1>6, <3>3, <3>5
            <4> QED BY <1>2, <3>4, <4>2
        <3>7. \A j \in (l + 1)..(wr.height - 1) :
                 e \notin DOMAIN Active'.next[j] /\ Fits(Active'.next[j], wr.update[j], e)
            <4>1. \A j \in (l + 1)..(wr.height - 1) :
                     j # l /\ j \in Levels /\ j \in l..(wr.height - 1)
                BY <1>2, <1>6, <3>5
            <4> QED BY <1>2, <3>4, <4>1
        <3>8. wr'.level = l + 1 /\ wr'.height = wr.height /\ wr'.batch = wr.batch
              /\ wr'.update = wr.update
            BY <1>4
        <3>9. /\ wr'.height \in 1..MaxLevel /\ wr'.level \in 0..(wr'.height - 1)
              /\ wr'.height <= Active'.level
              /\ \A j \in 0..(wr'.level - 1) : Entry1' \in DOMAIN Active'.next[j]
              /\ \A j \in wr'.level..(wr'.height - 1) :
                    Entry1' \notin DOMAIN Active'.next[j]
                    /\ Fits(Active'.next[j], wr'.update[j], Entry1')
            BY <1>2, <3>2, <3>3, <3>4, <3>6, <3>7, <3>8
        <3> QED BY <1>1, <1>3, <1>4, <3>1, <3>8, <3>9 DEF WriterInv
    <2> QED BY <2>1, <2>2
<1> QED BY <1>9, <1>11, <1>12, <1>13 DEF ListInv

\* A full memtable is followed by an empty one.
LEMMA EndEffect ==
    ASSUME ListInv, WriteEnd
    PROVE  /\ IsSequence(mems') /\ mems' # <<>>
           /\ DOMAIN mems \subseteq DOMAIN mems' /\ \A i \in DOMAIN mems : mems'[i] = mems[i]
           /\ \A i \in DOMAIN mems' \ DOMAIN mems : mems'[i] = NewSkiplist
           /\ Linked' = Linked
<1>1. IsSequence(mems) /\ mems # <<>>
    BY DEF ListInv, MemsInv
<1>2. CASE mems' = mems
    BY <1>1, <1>2 DEF Linked
<1>3. CASE mems' = Append(mems, NewSkiplist)
    <2>1. /\ IsSequence(mems') /\ DOMAIN mems' = DOMAIN mems \cup {Len(mems) + 1} /\ mems' # <<>>
          /\ mems'[Len(mems) + 1] = NewSkiplist /\ \A i \in DOMAIN mems : mems'[i] = mems[i]
        <3>1. \A v, t : t = Append(mems, v) =>
                  /\ IsSequence(t) /\ DOMAIN t = DOMAIN mems \cup {Len(mems) + 1}
                  /\ Len(t) = Len(mems) + 1 /\ t # <<>>
                  /\ t[Len(mems) + 1] = v /\ \A i \in DOMAIN mems : t[i] = mems[i]
            <4>1. IsSequence(mems)
                BY <1>1
            <4> QED BY <4>1, SeqAppend, Zenon
        <3>2. \A t : t = Append(mems, NewSkiplist) =>
                  /\ IsSequence(t) /\ DOMAIN t = DOMAIN mems \cup {Len(mems) + 1} /\ t # <<>>
                  /\ t[Len(mems) + 1] = NewSkiplist /\ \A i \in DOMAIN mems : t[i] = mems[i]
            BY <3>1, Zenon
        <3> QED BY <1>3, <3>2, Zenon
    <2>2. Linked' = Linked
        BY <2>1, NewListOK DEF Linked
    <2> QED BY <2>1, <2>2
<1> QED BY <1>2, <1>3 DEF WriteEnd

LEMMA ListInvEnd ==
    ASSUME ListInv, WriteEnd
    PROVE  ListInv'
<1>1. /\ wr.pc = "end" /\ nextSeq' = nextSeq + Len(wr.batch) /\ mu' = "free" /\ wr' = IdleWriter
      /\ UNCHANGED <<snapshot, rd>>
    BY DEF WriteEnd
<1>2. TypeOK /\ ReaderShape /\ MemsInv /\ WriterInv
    BY DEF ListInv
<1>3. /\ IsSequence(mems') /\ mems' # <<>>
      /\ DOMAIN mems \subseteq DOMAIN mems' /\ \A i \in DOMAIN mems : mems'[i] = mems[i]
      /\ \A i \in DOMAIN mems' \ DOMAIN mems : mems'[i] = NewSkiplist
      /\ Linked' = Linked
    BY EndEffect
<1>4. /\ wr'.pc = "idle" /\ wr'.done = 0 /\ wr'.update = [i \in Levels |-> HeadNode]
      /\ wr' = [pc |-> wr'.pc, batch |-> wr'.batch, done |-> wr'.done, height |-> wr'.height,
                level |-> wr'.level, update |-> wr'.update]
    BY <1>1 DEF IdleWriter
<1>5. /\ nextSeq \in Nat \ {0} /\ Len(wr.batch) \in Nat /\ wr.done = Len(wr.batch)
      /\ nextSeq - 1 + Len(wr.batch) <= MaxSeq
    <2>1. wr.batch \in Seq([key : Keys, typ : RecordTypes]) /\ wr.done = Len(wr.batch)
          /\ nextSeq - 1 + Len(wr.batch) <= MaxSeq
        BY <1>1, <1>2 DEF WriterInv, Batch
    <2> QED BY <1>2, <2>1, LenProperties DEF TypeOK
<1>6. LastSeq' = LastSeq
    BY <1>1, <1>4, <1>5 DEF LastSeq, Linking
<1>7. MemsInv'
    <2>1. ListOK(NewSkiplist) /\ Nodes(NewSkiplist) = {}
        BY NewListOK
    <2>2. \A i \in DOMAIN mems' : ListOK(mems'[i])
        BY <1>2, <1>3, <2>1 DEF MemsInv
    <2>3. \A i \in DOMAIN mems' : \A e \in Nodes(mems'[i]) : i \in DOMAIN mems /\ e \in Nodes(mems[i])
        BY <1>3, <2>1
    <2>4. \A i \in DOMAIN mems' : \A e \in Nodes(mems'[i]) : 1 <= e.seq /\ e.seq <= LastSeq'
        BY <1>2, <1>6, <2>3 DEF MemsInv
    <2>5. \A i, j \in DOMAIN mems' : i < j =>
             \A e \in Nodes(mems'[i]), f \in Nodes(mems'[j]) : e.seq < f.seq
        BY <1>2, <2>3 DEF MemsInv
    <2> QED BY <1>2, <1>3, <2>2, <2>4, <2>5 DEF MemsInv
<1>8. WriterInv'
    BY <1>1, <1>4, <1>5 DEF WriterInv
<1>9. TypeOK' /\ ReaderShape'
    <2>1. nextSeq' \in Nat \ {0}
        BY <1>1, <1>5
    <2>2. wr'.update \in [Levels -> Entries \cup {HeadNode}]
        BY <1>4
    <2> QED BY <1>1, <1>2, <1>3, <1>4, <2>1, <2>2 DEF TypeOK, ReaderShape
<1> QED BY <1>7, <1>8, <1>9 DEF ListInv

LEMMA ListInvStep ==
    ListInv /\ [Next]_vars => ListInv'
<1> SUFFICES ASSUME ListInv, [Next]_vars PROVE ListInv'
    OBVIOUS
<1>1. CASE UNCHANGED vars
    <2>1. UNCHANGED <<mems, nextSeq, mu, wr, snapshot, rd>>
        BY <1>1 DEF vars
    <2>2. ReaderShape'
        BY <2>1 DEF ListInv, ReaderShape
    <2> QED BY <2>1, <2>2, ListInvRead DEF ListInv, TypeOK
<1>2. CASE Write
    BY <1>2, ListInvBegin, ListInvFind, ListInvLink, ListInvEnd DEF Write
<1>3. CASE Read
    BY <1>3, ListInvReads
<1> QED BY <1>1, <1>2, <1>3 DEF Next

(***************************************************************************)
(* At every step of every insertion the memtables are skip lists in order, *)
(* the writer knows where the rest of its entry goes, and each sequence    *)
(* number is in one memtable at most, the older ones in the older.         *)
(***************************************************************************)
THEOREM ReadersListInv == Spec => []ListInv
<1>1. Init => ListInv
    BY ListInvInit
<1>2. ListInv /\ [Next]_vars => ListInv'
    BY ListInvStep
<1> QED BY <1>1, <1>2, PTL DEF Spec

\* Every variable of Readers has its type.
THEOREM ReadersTypeCorrect == Spec => []TypeOK
<1>1. ListInv => TypeOK
    BY DEF ListInv
<1> QED BY <1>1, ReadersListInv, PTL

(***************************************************************************)
(* Skiplist.Insert beside lock-free iterators: whatever the height of the  *)
(* node and wherever the writer is, every level of every memtable is a     *)
(* sorted list from the head to nil with no node left out.                 *)
(***************************************************************************)
THEOREM ReadersListsSorted == Spec => []ListsSorted
<1>1. ListInv => ListsSorted
    BY ListIsSorted DEF ListInv, MemsInv, ListsSorted
<1> QED BY <1>1, ReadersListInv, PTL

-----------------------------------------------------------------------------
(* The cursors of a reader.                                                *)

\* The first of a set of entries, nil when there is none.
Least(S) == IF S = {} THEN Nil ELSE First(S)

LEMMA LeastIs ==
    ASSUME NEW S, IsFiniteSet(S), S \subseteq Entries
    PROVE  /\ S = {} <=> Least(S) = Nil
           /\ S # {} => Least(S) \in S
           /\ \A x \in S : x = Least(S) \/ Before(Least(S), x)
<1>1. CASE S = {}
    BY <1>1 DEF Least
<1>2. CASE S # {}
    <2>1. S \subseteq Entry(Keys) /\ Keys \subseteq Nat
        BY KeysAssumption DEF Entries, Entry
    <2>2. First(S) \in S /\ \A f \in S \ {First(S)} : Before(First(S), f)
        BY <1>2, <2>1, FirstAndLast
    <2>3. Nil \notin S
        BY NodeFacts
    <2> QED BY <1>2, <2>2, <2>3 DEF Least
<1> QED BY <1>1, <1>2

\* The first one is determined by the order.
LEMMA LeastUnique ==
    ASSUME NEW S, IsFiniteSet(S), S \subseteq Entries, NEW x \in S,
           \A y \in S : y = x \/ Before(x, y)
    PROVE  Least(S) = x
<1>1. Least(S) \in S /\ (x = Least(S) \/ Before(Least(S), x))
    BY LeastIs
<1>2. Least(S) \in NodeSet /\ x \in NodeSet
    BY <1>1, NodeFacts
<1> QED BY <1>1, <1>2, NodeOrder

LEMMA MemFacts ==
    ASSUME ListInv, NEW i \in DOMAIN mems
    PROVE  /\ Chain(mems[i].next[0]) /\ Nodes(mems[i]) = DOMAIN mems[i].next[0] \ {HeadNode}
           /\ IsFiniteSet(Nodes(mems[i])) /\ Nodes(mems[i]) \subseteq Entries
           /\ Nodes(mems[i]) \subseteq Linked /\ Nil \notin Nodes(mems[i])
<1>1. 0 \in Levels
    BY MaxLevelAssumption DEF Levels
<1>2. Chain(mems[i].next[0])
    BY <1>1 DEF ListInv, MemsInv, ListOK
<1>3. Nodes(mems[i]) \subseteq Linked
    BY DEF Linked
<1>4. Nodes(mems[i]) \subseteq Entries
    BY <1>3 DEF ListInv, TypeOK
<1>5. IsFiniteSet(DOMAIN mems[i].next[0])
    BY <1>2, ChainFacts
<1>6. IsFiniteSet(Nodes(mems[i]))
    BY <1>5, FS_Subset DEF Nodes
<1>7. Nil \notin Nodes(mems[i])
    BY <1>4, NodeFacts
<1> QED BY <1>2, <1>3, <1>4, <1>6, <1>7 DEF Nodes

LEMMA RestFacts ==
    ASSUME ListInv, NEW i \in DOMAIN mems
    PROVE  /\ Rest(i, Nil) = {} /\ NextNode(mems[i], Nil) = Nil
           /\ \A n : Rest(i, n) \subseteq Nodes(mems[i]) /\ IsFiniteSet(Rest(i, n))
           /\ FirstNode(mems[i]) \in Nodes(mems[i]) \cup {Nil}
           /\ Rest(i, FirstNode(mems[i])) = Nodes(mems[i])
           /\ \A n \in Nodes(mems[i]) :
                 /\ NextNode(mems[i], n) \in Nodes(mems[i]) \cup {Nil}
                 /\ n \in Rest(i, n) /\ Rest(i, NextNode(mems[i], n)) = Rest(i, n) \ {n}
<1> DEFINE f == mems[i].next[0]
           N == Nodes(mems[i])
<1>1. /\ Chain(f) /\ N = DOMAIN f \ {HeadNode} /\ IsFiniteSet(N) /\ N \subseteq Entries
      /\ Nil \notin N
    BY MemFacts
<1>2. /\ HeadNode \in DOMAIN f /\ DOMAIN f \subseteq NodeSet
      /\ \A n \in DOMAIN f : f[n] = Nil \/ (f[n] \in DOMAIN f /\ Before(n, f[n]))
      /\ \A n, m \in DOMAIN f : Before(n, m) => f[n] # Nil /\ (m = f[n] \/ Before(f[n], m))
      /\ \A n \in DOMAIN f : f[n] # Nil => f[n] \in Entries
    BY <1>1, ChainFacts
<1>3. HeadNode \notin Entries /\ HeadNode # Nil
    BY NodeFacts DEF NodeSet
<1>4. Rest(i, Nil) = {} /\ NextNode(mems[i], Nil) = Nil
    BY DEF Rest, NextNode
<1>5. \A n : Rest(i, n) \subseteq N
    BY DEF Rest
<1>6. \A n : IsFiniteSet(Rest(i, n))
    BY <1>1, <1>5, FS_Subset
<1>7. /\ FirstNode(mems[i]) = f[HeadNode] /\ \A n \in N : NextNode(mems[i], n) = f[n]
      /\ \A n : n # Nil => Rest(i, n) = {m \in N : m = n \/ Before(n, m)}
    BY <1>1 DEF FirstNode, NextNode, Rest
<1> HIDE DEF f, N
<1>8. \A n \in DOMAIN f : f[n] \in N \cup {Nil}
    BY <1>1, <1>2, <1>3
<1>9. ASSUME NEW n \in DOMAIN f
      PROVE  Rest(i, f[n]) = {m \in N : Before(n, m)}
    <2>1. CASE f[n] = Nil
        BY <1>1, <1>2, <1>4, <2>1
    <2>2. CASE f[n] # Nil
        <3>1. f[n] \in DOMAIN f /\ Before(n, f[n]) /\ f[n] \in NodeSet /\ n \in NodeSet
            BY <1>2, <2>2
        <3>2. \A m \in N : m \in DOMAIN f /\ m \in NodeSet
            BY <1>1, <1>2
        <3>3. \A m \in N : (m = f[n] \/ Before(f[n], m)) <=> Before(n, m)
            BY <1>2, <3>1, <3>2, NodeOrder
        <3> QED BY <1>7, <2>2, <3>3
    <2> QED BY <2>1, <2>2
<1>10. Rest(i, f[HeadNode]) = N
    BY <1>1, <1>2, <1>9, NodeOrder
<1>11. ASSUME NEW n \in N
       PROVE  n \in Rest(i, n) /\ Rest(i, f[n]) = Rest(i, n) \ {n}
    <2>1. n \in DOMAIN f /\ n # Nil /\ n \in NodeSet
        BY <1>1, <1>2
    <2>2. ~Before(n, n)
        BY <2>1, NodeOrder
    <2> QED BY <1>7, <1>9, <2>1, <2>2
<1> QED BY <1>1, <1>2, <1>4, <1>5, <1>6, <1>7, <1>8, <1>10, <1>11 DEF N

\* What a cursor lets through from n on, and a cursor that shows h.
Shown(i, n) == {m \in Rest(i, n) : VisibleAt(m)}
CursorAt(i, h) == [head |-> h, pos |-> IF Filtered THEN NextNode(mems[i], h) ELSE h]

LEMMA FetchIs ==
    ASSUME ListInv, NEW i \in DOMAIN mems
    PROVE  \A n \in Nodes(mems[i]) \cup {Nil} : Fetch(i, n) = CursorAt(i, Least(Shown(i, n)))
<1> DEFINE N == Nodes(mems[i])
           D == N \cup {Nil}
           Stop(m) == m = Nil \/ VisibleAt(m)
           Step(g) == [m \in D |-> IF Stop(m) THEN m ELSE g[NextNode(mems[i], m)]]
           at == CHOOSE g : g = Step(g)
           Goal(n) == Least(Shown(i, n))
           g0 == [n \in D |-> Goal(n)]
<1>1. \A n : Fetch(i, n) = CursorAt(i, at[n])
    BY DEF Fetch, CursorAt
<1>2. IsFiniteSet(N) /\ N \subseteq Entries /\ Nil \notin N /\ N \subseteq NodeSet
    BY MemFacts, NodeFacts
<1>3. /\ Rest(i, Nil) = {}
      /\ \A n : Rest(i, n) \subseteq N /\ IsFiniteSet(Rest(i, n))
      /\ \A n \in N : /\ NextNode(mems[i], n) \in D
                      /\ n \in Rest(i, n) /\ Rest(i, NextNode(mems[i], n)) = Rest(i, n) \ {n}
    BY RestFacts
<1>4. ASSUME NEW n PROVE IsFiniteSet(Shown(i, n)) /\ Shown(i, n) \subseteq Entries
    <2>1. Shown(i, n) \subseteq Rest(i, n)
        BY DEF Shown
    <2> QED BY <1>2, <1>3, <2>1, FS_Subset
<1>5. ASSUME NEW n \in D, Stop(n) PROVE Goal(n) = n
    <2>1. CASE n = Nil
        BY <1>3, <2>1 DEF Shown, Least
    <2>2. CASE n # Nil
        <3>1. n \in N /\ n \in Shown(i, n)
            BY <1>3, <1>5, <2>2 DEF Shown
        <3>2. \A y \in Shown(i, n) : y = n \/ Before(n, y)
            BY <2>2 DEF Shown, Rest
        <3> QED BY <1>4, <3>1, <3>2, LeastUnique
    <2> QED BY <2>1, <2>2
<1>6. ASSUME NEW n \in D, ~Stop(n)
      PROVE  n \in N /\ NextNode(mems[i], n) \in D /\ Goal(n) = Goal(NextNode(mems[i], n))
    <2>1. n \in N /\ ~VisibleAt(n)
        BY <1>6
    <2>2. Shown(i, n) = Shown(i, NextNode(mems[i], n))
        BY <1>3, <2>1 DEF Shown
    <2> QED BY <1>3, <2>1, <2>2
<1> HIDE DEF Stop, Goal
<1>7. g0 = Step(g0)
    <2>1. ASSUME NEW n \in D PROVE g0[n] = Step(g0)[n]
        <3>1. CASE Stop(n)
            BY <1>5, <3>1
        <3>2. CASE ~Stop(n)
            BY <1>6, <3>2
        <3> QED BY <3>1, <3>2
    <2> QED BY <2>1
<1>8. at = Step(at)
    <2>1. \E g : g = Step(g)
        BY <1>7
    <2> HIDE DEF Step
    <2> QED BY <2>1
<1>9. \A n \in D : at[n] = IF Stop(n) THEN n ELSE at[NextNode(mems[i], n)]
    <2> HIDE DEF at
    <2> QED BY <1>8
<1> HIDE DEF at
<1>10. \A n \in D : at[n] = Goal(n)
    <2> DEFINE B == {n \in D : at[n] # Goal(n)}
    <2>1. SUFFICES ASSUME B # {} PROVE FALSE
        OBVIOUS
    <2>2. \A n \in B : ~Stop(n) /\ n \in N
        BY <1>5, <1>6, <1>9
    <2>3. IsFiniteSet(B) /\ B \subseteq NodeSet
        BY <1>2, <2>2, FS_Subset
    <2>4. PICK x \in B : \A y \in B \ {x} : Before(y, x)
        BY <2>1, <2>3, EndsExist
    <2>5. /\ x \in N /\ ~Stop(x) /\ NextNode(mems[i], x) \in D
          /\ Goal(x) = Goal(NextNode(mems[i], x)) /\ at[x] = at[NextNode(mems[i], x)]
        BY <1>6, <1>9, <2>2, <2>4
    <2>6. NextNode(mems[i], x) \in B
        BY <2>4, <2>5
    <2>7. Before(x, NextNode(mems[i], x)) /\ NextNode(mems[i], x) \in NodeSet
        <3>1. NextNode(mems[i], x) \in N
            BY <2>2, <2>6
        <3>2. NextNode(mems[i], x) \in Rest(i, x) \ {x}
            BY <1>3, <2>5, <3>1
        <3> QED BY <1>2, <2>5, <3>1, <3>2 DEF Rest
    <2> QED BY <2>3, <2>4, <2>6, <2>7, NodeOrder
<1> QED BY <1>1, <1>10 DEF Goal

LEMMA SkipKeyIs ==
    ASSUME ListInv, NEW i \in DOMAIN mems, NEW key \in Nat
    PROVE  \A n \in Nodes(mems[i]) \cup {Nil} : \A c :
               c.head.key = key /\ After(i, c) = n =>
                   SkipKey(i, c, key) = CursorAt(i, Least({m \in Shown(i, n) : m.key # key}))
<1> DEFINE N == Nodes(mems[i])
           D == N \cup {Nil}
           Step(g) == [n \in D |-> LET d == Fetch(i, n)
                                   IN  IF d.head.key = key THEN g[After(i, d)] ELSE d]
           past == CHOOSE g : g = Step(g)
           Top(n) == Least(Shown(i, n))
           Others(n) == {m \in Shown(i, n) : m.key # key}
           Goal(n) == CursorAt(i, Least(Others(n)))
           g0 == [n \in D |-> Goal(n)]
           Goes(n) == Top(n).key = key
           Nxt(n) == NextNode(mems[i], Top(n))
<1>1. \A c : c.head.key = key => SkipKey(i, c, key) = past[After(i, c)]
    BY DEF SkipKey
<1>2. IsFiniteSet(N) /\ N \subseteq Entries /\ Nil \notin N /\ N \subseteq NodeSet
    BY MemFacts, NodeFacts
<1>3. /\ Rest(i, Nil) = {}
      /\ \A n : Rest(i, n) \subseteq N /\ IsFiniteSet(Rest(i, n))
      /\ \A n \in N : /\ NextNode(mems[i], n) \in D
                      /\ n \in Rest(i, n) /\ Rest(i, NextNode(mems[i], n)) = Rest(i, n) \ {n}
    BY RestFacts
<1>4. ASSUME NEW n PROVE /\ IsFiniteSet(Shown(i, n)) /\ Shown(i, n) \subseteq N
                         /\ IsFiniteSet(Others(n)) /\ Others(n) \subseteq Shown(i, n)
                         /\ Shown(i, n) \subseteq Entries /\ Others(n) \subseteq Entries
    <2>1. Shown(i, n) \subseteq Rest(i, n)
        BY DEF Shown
    <2> QED BY <1>2, <1>3, <2>1, FS_Subset
<1>5. \A n \in D : Fetch(i, n) = CursorAt(i, Top(n))
    BY FetchIs
<1>6. \A h : CursorAt(i, h).head = h /\ After(i, CursorAt(i, h)) = NextNode(mems[i], h)
    BY DEF CursorAt, After
<1>7. ASSUME NEW n \in D, ~Goes(n) PROVE Goal(n) = Fetch(i, n)
    <2>1. CASE Shown(i, n) = {}
        <3>1. Others(n) = {} /\ Top(n) = Least(Others(n))
            BY <2>1
        <3> QED BY <1>5, <3>1
    <2>2. CASE Shown(i, n) # {}
        <3>1. Top(n) \in Shown(i, n) /\ \A x \in Shown(i, n) : x = Top(n) \/ Before(Top(n), x)
            BY <1>4, <2>2, LeastIs
        <3>2. Top(n) \in Others(n)
            BY <1>7, <3>1
        <3>3. Least(Others(n)) = Top(n)
            <4> HIDE DEF Top, Others
            <4> QED BY <1>4, <3>1, <3>2, LeastUnique
        <3> QED BY <1>5, <3>3
    <2> QED BY <2>1, <2>2
<1>8. ASSUME NEW n \in D, Goes(n)
      PROVE  /\ n \in N /\ Top(n) \in N /\ Nxt(n) \in D /\ Goal(n) = Goal(Nxt(n))
             /\ Nxt(n) \in N => Before(n, Nxt(n))
    <2>1. Shown(i, n) # {}
        <3>1. Nil.key = -2 /\ key \in Nat
            BY NodeFacts
        <3>2. Top(n) # Nil
            BY <1>8, <3>1
        <3> QED BY <1>4, <3>2, LeastIs
    <2>2. /\ Top(n) \in Shown(i, n)
          /\ \A x \in Shown(i, n) : x = Top(n) \/ Before(Top(n), x)
        BY <1>4, <2>1, LeastIs
    <2>3. n \in N /\ Top(n) \in N /\ n # Nil
        BY <1>2, <1>3, <1>4, <2>1, <2>2 DEF Shown
    <2> DEFINE h == Top(n)
    <2>4. h \in N /\ h \in Shown(i, n) /\ h.key = key
        BY <1>8, <2>2, <2>3
    <2>5. \A x \in Shown(i, n) : x = h \/ Before(h, x)
        BY <2>2
    <2> HIDE DEF Top
    <2>6. Nxt(n) \in D /\ Rest(i, Nxt(n)) = Rest(i, h) \ {h}
        BY <1>3, <2>4
    <2>7. n = h \/ Before(n, h)
        BY <2>3, <2>4 DEF Shown, Rest
    <2>8. Rest(i, h) \subseteq Rest(i, n)
        <3>1. h # Nil
            BY <1>2, <2>4
        <3>2. SUFFICES ASSUME NEW m \in N, m = h \/ Before(h, m) PROVE m = n \/ Before(n, m)
            BY <2>3, <3>1 DEF Rest
        <3>3. m \in NodeSet /\ n \in NodeSet /\ h \in NodeSet
            BY <1>2, <2>3, <2>4
        <3> HIDE DEF h, N
        <3> QED BY <2>7, <3>2, <3>3, NodeOrder
    <2>9. Others(Nxt(n)) = Others(n)
        <3>1. Shown(i, Nxt(n)) = Shown(i, n) \ {h}
            <4>1. \A x \in Shown(i, n) : x \in Rest(i, h)
                <5>1. h # Nil
                    BY <1>2, <2>4
                <5>2. \A x \in Shown(i, n) : x \in N
                    BY <1>4
                <5> HIDE DEF h
                <5> QED BY <2>5, <5>1, <5>2 DEF Rest
            <4> QED BY <2>6, <2>8, <4>1 DEF Shown
        <3> HIDE DEF Nxt
        <3> QED BY <2>4, <3>1
    <2>10. Nxt(n) \in N => Before(n, Nxt(n))
        <3>1. SUFFICES ASSUME Nxt(n) \in N PROVE Before(n, Nxt(n))
            OBVIOUS
        <3>2. Nxt(n) \in Rest(i, h) \ {h}
            BY <1>3, <2>6, <3>1
        <3>3. Before(h, Nxt(n))
            BY <1>2, <2>4, <3>2 DEF Rest
        <3>4. Nxt(n) \in NodeSet /\ n \in NodeSet /\ h \in NodeSet
            BY <1>2, <2>3, <2>4, <3>1
        <3> HIDE DEF h, Nxt
        <3> QED BY <2>7, <3>3, <3>4, NodeOrder
    <2> QED BY <2>3, <2>6, <2>9, <2>10
<1>9. ASSUME NEW g, NEW n \in D
      PROVE  Step(g)[n] = IF Goes(n) THEN g[Nxt(n)] ELSE Fetch(i, n)
    <2>1. Step(g)[n] = IF Fetch(i, n).head.key = key THEN g[After(i, Fetch(i, n))] ELSE Fetch(i, n)
        OBVIOUS
    <2>2. Fetch(i, n).head = Top(n) /\ After(i, Fetch(i, n)) = Nxt(n)
        BY <1>5, <1>6
    <2> QED BY <2>1, <2>2
<1>10. \A g : Step(g) = [n \in D |-> Step(g)[n]]
    OBVIOUS
<1> HIDE DEF Goes, Goal, Step, Nxt
<1>11. g0 = Step(g0)
    <2>1. ASSUME NEW n \in D PROVE g0[n] = Step(g0)[n]
        <3>1. CASE Goes(n)
            BY <1>8, <1>9, <3>1
        <3>2. CASE ~Goes(n)
            BY <1>7, <1>9, <3>2
        <3> QED BY <3>1, <3>2
    <2> QED BY <1>10, <2>1
<1>12. past = Step(past)
    <2>1. \E g : g = Step(g)
        BY <1>11
    <2> QED BY <2>1
<1>13. \A n \in D : past[n] = IF Goes(n) THEN past[Nxt(n)] ELSE Fetch(i, n)
    <2> HIDE DEF past
    <2> QED BY <1>9, <1>12
<1>14. \A n \in D : past[n] = Goal(n)
    <2> HIDE DEF past
    <2> DEFINE B == {n \in D : past[n] # Goal(n)}
    <2>1. SUFFICES ASSUME B # {} PROVE FALSE
        OBVIOUS
    <2>2. \A n \in B : Goes(n) /\ n \in N
        BY <1>7, <1>8, <1>13
    <2>3. IsFiniteSet(B) /\ B \subseteq NodeSet
        BY <1>2, <2>2, FS_Subset
    <2>4. PICK x \in B : \A y \in B \ {x} : Before(y, x)
        BY <2>1, <2>3, EndsExist
    <2>5. /\ Goes(x) /\ x \in N /\ Nxt(x) \in D /\ Goal(x) = Goal(Nxt(x)) /\ past[x] = past[Nxt(x)]
          /\ Nxt(x) \in N => Before(x, Nxt(x))
        BY <1>8, <1>13, <2>2, <2>4
    <2>6. Nxt(x) \in B /\ Nxt(x) \in N
        BY <2>2, <2>4, <2>5
    <2> QED BY <2>3, <2>4, <2>5, <2>6, NodeOrder
<1> QED BY <1>1, <1>14 DEF Goal

LEMMA CursorAtOK ==
    ASSUME ListInv, NEW i \in DOMAIN mems, NEW h \in Nodes(mems[i]) \cup {Nil},
           h # Nil => VisibleAt(h)
    PROVE  CursorOK(i, CursorAt(i, h))
<1> DEFINE c == CursorAt(i, h)
<1>1. /\ c.head = h /\ c.pos = (IF Filtered THEN NextNode(mems[i], h) ELSE h)
      /\ c = [head |-> c.head, pos |-> c.pos]
    BY DEF CursorAt
<1> HIDE DEF c
<1>2. /\ Rest(i, Nil) = {} /\ NextNode(mems[i], Nil) = Nil
      /\ \A n \in Nodes(mems[i]) :
            /\ NextNode(mems[i], n) \in Nodes(mems[i]) \cup {Nil}
            /\ Rest(i, NextNode(mems[i], n)) = Rest(i, n) \ {n}
    BY RestFacts
<1>3. NextNode(mems[i], h) \in Nodes(mems[i]) \cup {Nil}
    BY <1>2
<1>4. Rest(i, NextNode(mems[i], h)) = Rest(i, h) \ {h}
    BY <1>2
<1>5. CursorOK(i, c)
    BY <1>1, <1>3, <1>4 DEF CursorOK
<1> QED BY <1>5 DEF c

\* A visible node is in front of the cursor that shows the first one.
LEMMA RestOfLeast ==
    ASSUME ListInv, NEW i \in DOMAIN mems, NEW S, S \subseteq Nodes(mems[i])
    PROVE  /\ Least(S) \in Nodes(mems[i]) \cup {Nil}
           /\ Least(S) # Nil => Least(S) \in S
           /\ S \subseteq Rest(i, Least(S))
<1>1. IsFiniteSet(S) /\ S \subseteq Entries
    BY MemFacts, FS_Subset
<1>2. /\ S = {} <=> Least(S) = Nil
      /\ S # {} => Least(S) \in S
      /\ \A x \in S : x = Least(S) \/ Before(Least(S), x)
    BY <1>1, LeastIs
<1> QED BY <1>2 DEF Rest

LEMMA RunFacts ==
    ASSUME ReadersInv, rd.pc \in {"seek", "run"}
    PROVE  /\ ListInv /\ RunInv /\ DOMAIN Cursors = DOMAIN rd.src
           /\ DOMAIN rd.src \subseteq DOMAIN mems
           /\ rd.kind \in {"get", "scan"} /\ (rd.kind = "get" => rd.key \in Keys)
           /\ rd.snap \in Int /\ (Filtered => rd.snap \in Nat)
<1>1. ListInv /\ RunInv
    BY DEF ReadersInv, ReaderInv
<1>2. DOMAIN rd.src \subseteq DOMAIN mems
    BY <1>1 DEF ListInv, TypeOK
<1>3. rd.kind \in {"get", "scan"} /\ (rd.kind = "get" => rd.key \in Keys)
    BY DEF ReadersInv, ReaderInv
<1>4. rd.snap \in Nat \cup {NoSnapshot}
    BY <1>1 DEF ReadersInv, ReaderInv, SnapChoice, ListInv, TypeOK
<1>5. NoSnapshot \in Int
    BY DEF NoSnapshot
<1>6. rd.snap \in Int /\ (Filtered => rd.snap \in Nat)
    BY <1>4, <1>5 DEF Filtered
<1>7. DOMAIN Cursors = DOMAIN rd.src
    BY DEF Cursors
<1> QED BY <1>1, <1>2, <1>3, <1>6, <1>7

\* The cursors a step works with.
LEMMA CursorsFacts ==
    ASSUME ReadersInv, rd.pc \in {"seek", "run"}
    PROVE  /\ \A i \in DOMAIN rd.src : CursorOK(i, Cursors[i])
           /\ \E last \in Keys \cup {-1} : /\ Behind(Cursors, last)
                                           /\ rd.kind = "get" => last < rd.key
                                           /\ rd.kind = "scan" => Returned(last)
           /\ ~Filtered => Ahead = UNION {Rest(i, Cursors[i].head) : i \in DOMAIN rd.src}
<1>1. /\ ListInv /\ RunInv /\ DOMAIN Cursors = DOMAIN rd.src /\ DOMAIN rd.src \subseteq DOMAIN mems
      /\ rd.kind \in {"get", "scan"} /\ (rd.kind = "get" => rd.key \in Keys)
    BY RunFacts
<1>2. CASE rd.pc = "run"
    <2>1. Cursors = rd.src
        BY <1>2 DEF Cursors
    <2> QED BY <1>1, <1>2, <2>1 DEF RunInv, Ahead
<1>3. CASE rd.pc = "seek"
    <2> DEFINE V(i) == {m \in Nodes(mems[i]) : VisibleAt(m)}
    <2>1. ASSUME NEW i \in DOMAIN rd.src
          PROVE  Cursors[i] = CursorAt(i, Least(V(i))) /\ Cursors[i].head = Least(V(i))
        <3>1. Cursors[i] = Fetch(i, FirstNode(mems[i])) /\ i \in DOMAIN mems
            BY <1>1, <1>3, <2>1 DEF Cursors
        <3>2. /\ FirstNode(mems[i]) \in Nodes(mems[i]) \cup {Nil}
              /\ Rest(i, FirstNode(mems[i])) = Nodes(mems[i])
            BY <1>1, <3>1, RestFacts
        <3>3. Shown(i, FirstNode(mems[i])) = V(i)
            BY <3>2 DEF Shown
        <3>4. Cursors[i] = CursorAt(i, Least(V(i)))
            BY <1>1, <3>1, <3>2, <3>3, FetchIs
        <3> QED BY <3>4 DEF CursorAt
    <2>2. ASSUME NEW i \in DOMAIN rd.src
          PROVE  /\ Least(V(i)) \in Nodes(mems[i]) \cup {Nil}
                 /\ Least(V(i)) # Nil => VisibleAt(Least(V(i))) /\ -1 < Least(V(i)).key
                 /\ V(i) \subseteq Rest(i, Least(V(i)))
        <3>1. i \in DOMAIN mems /\ V(i) \subseteq Nodes(mems[i])
            BY <1>1, <2>2
        <3>2. /\ Least(V(i)) \in Nodes(mems[i]) \cup {Nil}
              /\ Least(V(i)) # Nil => Least(V(i)) \in V(i)
              /\ V(i) \subseteq Rest(i, Least(V(i)))
            BY <1>1, <3>1, RestOfLeast
        <3>3. \A m \in Nodes(mems[i]) : -1 < m.key
            BY <1>1, <3>1, MemFacts, NodeFacts
        <3> QED BY <3>2, <3>3
    <2>3. \A i \in DOMAIN rd.src : CursorOK(i, Cursors[i])
        BY <1>1, <2>1, <2>2, CursorAtOK
    <2>4. Behind(Cursors, -1)
        BY <1>1, <2>1, <2>2 DEF Behind
    <2>5. rd.kind = "get" => -1 < rd.key
        <3>1. \A k \in Keys : -1 < k
            BY KeysAssumption
        <3> QED BY <1>1, <3>1
    <2>6. Returned(-1)
        <3>1. rd.out = <<>> /\ rd.out \in Seq(Entries) /\ DOMAIN rd.out = {}
            <4>1. rd.out = <<>>
                BY <1>1, <1>3 DEF RunInv
            <4> QED BY <4>1
        <3>2. \A k \in Keys : ~(k <= -1)
            BY KeysAssumption
        <3>3. Linked \subseteq Entries
            BY <1>1 DEF ListInv, TypeOK
        <3>4. \A m \in Linked : ~(m.key <= -1)
            BY <3>2, <3>3, NodeFacts
        <3>5. {m \in Values(Linked, rd.snap) : m.key <= -1} = {}
            BY <3>4 DEF Values
        <3>6. {rd.out[i] : i \in DOMAIN rd.out} = {}
            BY <3>1
        <3> QED BY <3>1, <3>2, <3>5, <3>6 DEF Returned
    <2>7. ~Filtered => Ahead = UNION {Rest(i, Cursors[i].head) : i \in DOMAIN rd.src}
        <3>1. SUFFICES ASSUME ~Filtered
                       PROVE  Ahead = UNION {Rest(i, Cursors[i].head) : i \in DOMAIN rd.src}
            OBVIOUS
        <3>2. \A i \in DOMAIN rd.src : V(i) = Nodes(mems[i])
            BY <3>1 DEF VisibleAt
        <3>3. \A i \in DOMAIN rd.src : Rest(i, Cursors[i].head) = Nodes(mems[i])
            <4>1. SUFFICES ASSUME NEW i \in DOMAIN rd.src
                           PROVE  Rest(i, Cursors[i].head) = Nodes(mems[i])
                OBVIOUS
            <4>2. Cursors[i].head = Least(V(i)) /\ V(i) \subseteq Rest(i, Least(V(i)))
                BY <2>1, <2>2
            <4>3. V(i) = Nodes(mems[i])
                BY <3>2
            <4>5. Rest(i, Cursors[i].head) \subseteq Nodes(mems[i])
                BY DEF Rest
            <4>6. Nodes(mems[i]) \subseteq Rest(i, Cursors[i].head)
                BY <4>2, <4>3
            <4> QED BY <4>5, <4>6
        <3> QED BY <1>3, <3>3 DEF Ahead
    <2> QED BY <2>3, <2>4, <2>5, <2>6, <2>7
<1> QED BY <1>2, <1>3

\* Best is the first node in front of the cursors.
LEMMA BestIs ==
    ASSUME ReadersInv, rd.pc \in {"seek", "run"}
    PROVE  /\ Best # Nil => /\ Best \in Linked /\ Best \in Entries /\ VisibleAt(Best)
                            /\ \E i \in DOMAIN rd.src : Cursors[i].head = Best
           /\ \A i \in DOMAIN rd.src : \A m \in Rest(i, Cursors[i].head) :
                 Best # Nil /\ (m = Best \/ Before(Best, m))
<1>1. /\ ListInv /\ DOMAIN Cursors = DOMAIN rd.src /\ DOMAIN rd.src \subseteq DOMAIN mems
    BY RunFacts
<1> DEFINE heads == {Cursors[i].head : i \in DOMAIN Cursors} \ {Nil}
<1>2. Best = Least(heads)
    BY DEF Best, Least
<1>3. ASSUME NEW i \in DOMAIN rd.src
      PROVE  /\ Cursors[i].head \in Nodes(mems[i]) \cup {Nil}
             /\ Cursors[i].head # Nil => VisibleAt(Cursors[i].head)
             /\ Nodes(mems[i]) \subseteq Entries /\ Nodes(mems[i]) \subseteq Linked
    <2>1. i \in DOMAIN mems
        BY <1>1, <1>3
    <2>2. CursorOK(i, Cursors[i])
        BY <1>3, CursorsFacts
    <2> QED BY <1>1, <2>1, <2>2, MemFacts DEF CursorOK
<1>4. heads \subseteq Entries
    BY <1>1, <1>3
<1>5. IsFiniteSet(heads)
    <2>1. DOMAIN mems = 1..Len(mems) /\ Len(mems) \in Nat
        BY <1>1, MemsShape DEF ListInv
    <2>2. IsFiniteSet(DOMAIN mems)
        BY <2>1, FS_Interval
    <2>3. IsFiniteSet(DOMAIN Cursors)
        BY <1>1, <2>2, FS_Subset
    <2> DEFINE h == [i \in DOMAIN Cursors |-> Cursors[i].head]
               H == {h[i] : i \in DOMAIN Cursors}
    <2>4. IsFiniteSet(H)
        <3>1. h \in Surjection(DOMAIN Cursors, H)
            BY DEF Surjection
        <3> QED BY <2>3, <3>1, FS_Surjection
    <2>5. heads \subseteq H
        OBVIOUS
    <2> QED BY <2>4, <2>5, FS_Subset
<1> HIDE DEF heads
<1>6. /\ heads = {} <=> Best = Nil
      /\ heads # {} => Best \in heads
      /\ \A x \in heads : x = Best \/ Before(Best, x)
    BY <1>2, <1>4, <1>5, LeastIs
<1>7. Best # Nil => /\ Best \in Linked /\ Best \in Entries /\ VisibleAt(Best)
                    /\ \E i \in DOMAIN rd.src : Cursors[i].head = Best
    <2>1. SUFFICES ASSUME Best # Nil
                   PROVE  /\ Best \in Linked /\ Best \in Entries /\ VisibleAt(Best)
                          /\ \E i \in DOMAIN rd.src : Cursors[i].head = Best
        OBVIOUS
    <2>2. PICK i \in DOMAIN rd.src : Cursors[i].head = Best
        BY <1>1, <1>6, <2>1 DEF heads
    <2> QED BY <1>3, <2>1, <2>2
<1>8. ASSUME NEW i \in DOMAIN rd.src, NEW m \in Rest(i, Cursors[i].head)
      PROVE  Best # Nil /\ (m = Best \/ Before(Best, m))
    <2> DEFINE h == Cursors[i].head
    <2>1. h # Nil /\ m \in Nodes(mems[i]) /\ (m = h \/ Before(h, m))
        BY <1>8 DEF Rest
    <2>2. h \in heads
        BY <1>1, <1>8, <2>1 DEF heads
    <2>3. Best # Nil /\ (h = Best \/ Before(Best, h))
        BY <1>6, <2>2
    <2>4. h \in NodeSet /\ m \in NodeSet /\ Best \in NodeSet
        BY <1>3, <1>4, <1>7, <2>1, <2>2, <2>3, NodeFacts
    <2> HIDE DEF h
    <2> QED BY <2>1, <2>3, <2>4, NodeOrder
<1> QED BY <1>7, <1>8

-----------------------------------------------------------------------------
(* What a read finds.                                                      *)

LEMMA LinkedFacts ==
    ASSUME ListInv
    PROVE  /\ IsFiniteSet(Linked) /\ Linked \subseteq Entries
           /\ \A e \in Linked : e.seq \in Nat \ {0} /\ e.seq <= MaxSeq
           /\ \A e, f \in Linked : e.seq = f.seq => e = f
<1>1. Linked \subseteq Entries /\ MemsInv /\ WriterInv /\ nextSeq \in Nat \ {0}
    BY DEF ListInv, TypeOK
<1>2. IsFiniteSet(Linked)
    <2> DEFINE F == {Nodes(mems[i]) : i \in DOMAIN mems}
               f == [i \in DOMAIN mems |-> Nodes(mems[i])]
    <2>1. DOMAIN mems = 1..Len(mems) /\ Len(mems) \in Nat
        BY <1>1, MemsShape
    <2>2. IsFiniteSet(DOMAIN mems)
        BY <2>1, FS_Interval
    <2>3. f \in Surjection(DOMAIN mems, F)
        BY DEF Surjection
    <2>4. IsFiniteSet(F)
        BY <2>2, <2>3, FS_Surjection
    <2>5. \A T \in F : IsFiniteSet(T)
        BY MemFacts
    <2>6. Linked = UNION F
        BY DEF Linked
    <2> HIDE DEF F
    <2> QED BY <2>4, <2>5, <2>6, FS_UNION
<1>3. \A e \in Linked : 1 <= e.seq /\ e.seq <= LastSeq
    BY <1>1 DEF MemsInv, Linked
<1>4. LastSeq <= MaxSeq /\ LastSeq \in Int
    <2>1. /\ wr.done \in Nat /\ MaxSeq \in Nat
          /\ nextSeq - 1 + (IF wr.pc = "idle" THEN 0 ELSE Len(wr.batch)) <= MaxSeq
          /\ wr.pc = "idle" => wr.done = 0
          /\ wr.pc \in {"find", "link"} => wr.done < Len(wr.batch)
          /\ wr.pc = "end" => wr.done = Len(wr.batch)
          /\ wr.pc # "idle" => wr.batch \in Batch
        BY <1>1, BoundsAssumption DEF WriterInv
    <2>2. wr.pc # "idle" => Len(wr.batch) \in Nat
        BY <2>1, LenProperties DEF Batch
    <2>3. wr.pc \in {"idle", "find", "link", "end"}
        BY DEF ListInv, TypeOK
    <2>4. CASE wr.pc = "idle"
        BY <1>1, <2>1, <2>4 DEF LastSeq, Linking
    <2>5. CASE wr.pc # "idle"
        <3>1. nextSeq - 1 + Len(wr.batch) <= MaxSeq /\ Len(wr.batch) \in Nat
            BY <2>1, <2>2, <2>5
        <3>2. CASE Linking
            <4>1. wr.pc = "link"
                BY <3>2 DEF Linking
            <4>2. wr.done < Len(wr.batch) /\ LastSeq = nextSeq + wr.done
                BY <1>1, <2>1, <3>2, <4>1 DEF LastSeq
            <4> QED BY <1>1, <2>1, <3>1, <4>2
        <3>3. CASE ~Linking
            <4>1. wr.done <= Len(wr.batch)
                BY <2>1, <2>3, <2>5, <3>1
            <4>2. LastSeq = nextSeq + wr.done - 1
                BY <3>3 DEF LastSeq
            <4> QED BY <1>1, <2>1, <3>1, <4>1, <4>2
        <3> QED BY <3>2, <3>3
    <2> QED BY <2>4, <2>5
<1>5. \A e \in Linked : e.seq \in Nat
    BY <1>1, NodeFacts
<1>6. \A e \in Linked : e.seq \in Nat \ {0} /\ e.seq <= MaxSeq
    BY <1>3, <1>4, <1>5, BoundsAssumption
<1> QED BY <1>1, <1>2, <1>6 DEF MemsInv

LEMMA FirstLookup ==
    ASSUME NEW S, IsFiniteSet(S), S \subseteq Entries
    PROVE  \A k, r :
              /\ VersionsAt(S, k, r) = {} => Lookup(S, k, r) = ErrNotFound
              /\ \A e \in VersionsAt(S, k, r) :
                    (\A x \in VersionsAt(S, k, r) : x = e \/ Before(e, x)) =>
                        Lookup(S, k, r) = IF e.typ = RecordTypeTombstone THEN ErrNotFound ELSE e.seq
              /\ Lookup(S, k, r) # ErrNotFound =>
                    \E x \in VersionsAt(S, k, r) :
                        x.seq = Lookup(S, k, r) /\ x.typ # RecordTypeTombstone
<1> SUFFICES ASSUME NEW k, NEW r
    PROVE  /\ VersionsAt(S, k, r) = {} => Lookup(S, k, r) = ErrNotFound
           /\ \A e \in VersionsAt(S, k, r) :
                 (\A x \in VersionsAt(S, k, r) : x = e \/ Before(e, x)) =>
                     Lookup(S, k, r) = IF e.typ = RecordTypeTombstone THEN ErrNotFound ELSE e.seq
           /\ Lookup(S, k, r) # ErrNotFound =>
                 \E x \in VersionsAt(S, k, r) :
                     x.seq = Lookup(S, k, r) /\ x.typ # RecordTypeTombstone
    OBVIOUS
<1> DEFINE V == VersionsAt(S, k, r)
<1>1. V \subseteq S
    BY DEF VersionsAt
<1>2. IsFiniteSet(V) /\ V \subseteq Entries
    BY <1>1, FS_Subset
<1>3. Lookup(S, k, r) = IF V = {} \/ First(V).typ = RecordTypeTombstone THEN ErrNotFound
                        ELSE First(V).seq
    BY LookupIs
<1> HIDE DEF V
<1>4. V # {} => First(V) \in V
    BY <1>2, LeastIs DEF Least
<1>5. ASSUME NEW e \in V, \A x \in V : x = e \/ Before(e, x) PROVE First(V) = e
    BY <1>2, <1>5, LeastUnique DEF Least
<1>6. \A e \in V : (\A x \in V : x = e \/ Before(e, x)) =>
          Lookup(S, k, r) = IF e.typ = RecordTypeTombstone THEN ErrNotFound ELSE e.seq
    BY <1>3, <1>5
<1>7. Lookup(S, k, r) # ErrNotFound =>
          \E x \in V : x.seq = Lookup(S, k, r) /\ x.typ # RecordTypeTombstone
    BY <1>3, <1>4
<1> QED BY <1>3, <1>6, <1>7 DEF V

\* The newest sequence number a read sees.
ReadAt == IF Filtered THEN rd.snap ELSE MaxSeq

\* What a cursor lets through is what a read at ReadAt sees.
LEMMA VisibleIs ==
    ASSUME ListInv
    PROVE  \A m \in Linked : VisibleAt(m) <=> m.seq <= ReadAt
<1>1. \A m \in Linked : m.seq <= MaxSeq
    BY LinkedFacts
<1> QED BY <1>1 DEF VisibleAt, ReadAt

\* No visible version of a key behind last comes before Best.
LEMMA BestReaches ==
    ASSUME ReadersInv, rd.pc \in {"seek", "run"}, NEW last, Behind(Cursors, last)
    PROVE  /\ Best # Nil => last < Best.key
           /\ \A m \in Linked :
                 VisibleAt(m) /\ last < m.key /\ (Filtered \/ m.key \notin rd.touched) =>
                     Best # Nil /\ (m = Best \/ Before(Best, m))
<1>1. ListInv /\ RunInv /\ DOMAIN Cursors = DOMAIN rd.src /\ DOMAIN rd.src \subseteq DOMAIN mems
    BY RunFacts
<1>2. Best # Nil => last < Best.key
    <2>1. SUFFICES ASSUME Best # Nil PROVE last < Best.key
        OBVIOUS
    <2>2. PICK i \in DOMAIN rd.src : Cursors[i].head = Best
        BY <2>1, BestIs
    <2> QED BY <1>1, <2>1, <2>2 DEF Behind
<1>3. ASSUME NEW m \in Linked, VisibleAt(m), last < m.key, Filtered \/ m.key \notin rd.touched
      PROVE  Best # Nil /\ (m = Best \/ Before(Best, m))
    <2>1. PICK i \in DOMAIN mems : m \in Nodes(mems[i])
        BY <1>3 DEF Linked
    <2>2. i \in DOMAIN rd.src
        BY <1>1, <1>3, <2>1 DEF RunInv
    <2>3. m \in Rest(i, Cursors[i].head)
        BY <1>1, <1>3, <2>1, <2>2 DEF Behind
    <2> QED BY <2>2, <2>3, BestIs
<1> QED BY <1>2, <1>3

LEMMA KeyOrder ==
    \A x, y \in Entries : x = y \/ Before(x, y) => x.key <= y.key
<1>1. \A x \in Entries : x.key \in Nat /\ x.seq \in Nat
    BY NodeFacts
<1> QED BY <1>1 DEF Before

\* What a read of the key that Best has reached would return.
BestResult(k) ==
    IF Best # Nil /\ Best.key = k /\ Best.typ = RecordTypeValue THEN Best.seq ELSE ErrNotFound

LEMMA BestLookup ==
    ASSUME ReadersInv, rd.pc \in {"seek", "run"}, NEW S, S \subseteq Linked, NEW k,
           \A m \in S : m.key = k /\ VisibleAt(m) => Best # Nil /\ (m = Best \/ Before(Best, m)),
           Best # Nil /\ Best.key = k => Best \in S,
           Best = Nil \/ k <= Best.key, k \in Int
    PROVE  Lookup(S, k, ReadAt) = BestResult(k)
<1>1. ListInv
    BY RunFacts
<1>2. IsFiniteSet(S) /\ S \subseteq Entries
    BY <1>1, LinkedFacts, FS_Subset
<1>3. \A m \in S : VisibleAt(m) <=> m.seq <= ReadAt
    BY <1>1, VisibleIs
<1> DEFINE V == VersionsAt(S, k, ReadAt)
<1>4. \A m \in V : m \in S /\ m.key = k /\ VisibleAt(m)
    BY <1>3 DEF VersionsAt
<1>5. \A m \in V : Best # Nil /\ (m = Best \/ Before(Best, m))
    BY <1>4
<1>6. Best # Nil => Best \in Entries /\ VisibleAt(Best) /\ Best.key \in Int
    BY BestIs, NodeFacts
<1>7. CASE Best = Nil \/ Best.key # k
    <2>1. V = {}
        <3>1. SUFFICES ASSUME NEW m \in V PROVE FALSE
            OBVIOUS
        <3>2. Best # Nil /\ Best.key <= m.key /\ m.key = k
            BY <1>2, <1>4, <1>5, <1>6, KeyOrder
        <3> QED BY <1>6, <1>7, <3>2
    <2>2. Lookup(S, k, ReadAt) = ErrNotFound
        BY <1>2, <2>1, FirstLookup
    <2> QED BY <1>7, <2>2 DEF BestResult
<1>8. CASE Best # Nil /\ Best.key = k
    <2>1. Best \in V
        BY <1>3, <1>6, <1>8 DEF VersionsAt
    <2>2. Lookup(S, k, ReadAt)
              = IF Best.typ = RecordTypeTombstone THEN ErrNotFound ELSE Best.seq
        BY <1>2, <1>5, <2>1, FirstLookup
    <2>3. Best.typ \in RecordTypes
        BY <1>6, <1>8, NodeFacts
    <2>4. Best.typ = RecordTypeValue <=> Best.typ # RecordTypeTombstone
        BY <2>3 DEF RecordTypes, RecordTypeValue, RecordTypeTombstone
    <2> QED BY <1>8, <2>2, <2>4 DEF BestResult
<1> QED BY <1>7, <1>8

-----------------------------------------------------------------------------
(* The reader: ReadersInv is inductive.                                    *)

\* Steps after which a reader finds what it would have found before.
LEMMA ReaderInvSame ==
    ASSUME ReadersInv, rd' = rd, DOMAIN mems \subseteq DOMAIN mems',
           \A i \in DOMAIN mems : Nodes(mems'[i]) = Nodes(mems[i]),
           \A i \in DOMAIN mems' \ DOMAIN mems : Nodes(mems'[i]) = {},
           Linked' = Linked, snapshot' < nextSeq', rd.snap \in SnapChoice'
    PROVE  ReaderInv'
<1>1. ListInv /\ ReaderInv
    BY DEF ReadersInv
<1>2. DOMAIN rd.src \subseteq DOMAIN mems
    BY <1>1 DEF ListInv, TypeOK
<1>3. ASSUME rd.pc \in {"seek", "run"}, RunInv PROVE RunInv'
    <2>1. \E n \in DOMAIN mems' : DOMAIN rd'.src = 1..n
        BY <1>3 DEF RunInv
    <2>2. \A j \in DOMAIN mems' \ DOMAIN rd'.src : \A e \in Nodes(mems'[j]) :
             e.key \in rd'.touched /\ ~(Filtered /\ VisibleAt(e))
        BY <1>3 DEF RunInv
    <2>3. (rd.pc = "seek" => rd.out = <<>>)'
        BY <1>3 DEF RunInv
    <2>4. (rd.pc = "run" =>
             /\ \A i \in DOMAIN rd.src : CursorOK(i, rd.src[i])
             /\ \E last \in Keys : /\ Behind(rd.src, last)
                                   /\ rd.kind = "get" => last < rd.key
                                   /\ rd.kind = "scan" => Returned(last))'
        <3>1. SUFFICES ASSUME rd.pc = "run"
              PROVE  /\ \A i \in DOMAIN rd.src : CursorOK(i, rd.src[i])'
                     /\ \E last \in Keys : /\ Behind(rd.src, last)'
                                           /\ rd.kind = "get" => last < rd.key
                                           /\ rd.kind = "scan" => Returned(last)'
            OBVIOUS
        <3>2. \A i \in DOMAIN rd.src : CursorOK(i, rd.src[i])
            BY <1>3, <3>1 DEF RunInv
        <3>3. \A i \in DOMAIN rd.src : CursorOK(i, rd.src[i])'
            BY <1>2, <3>2 DEF CursorOK, Rest, VisibleAt, Filtered
        <3>4. PICK last \in Keys : /\ Behind(rd.src, last)
                                   /\ rd.kind = "get" => last < rd.key
                                   /\ rd.kind = "scan" => Returned(last)
            BY <1>3, <3>1 DEF RunInv
        <3>5. Behind(rd.src, last)'
            BY <1>2, <3>4 DEF Behind, Rest, VisibleAt, Filtered
        <3>6. rd.kind = "scan" => Returned(last)'
            BY <3>4 DEF Returned, Values, Wanted, Filtered, Current
        <3> QED BY <3>3, <3>4, <3>5, <3>6
    <2>5. (rd.kind = "get" /\ ~Filtered => Lookup(Ahead, rd.key, MaxSeq) \in rd.seen)'
        <3>1. Ahead' = Ahead
            <4>1. \A i \in DOMAIN rd.src : Nodes(mems'[i]) = Nodes(mems[i])
                BY <1>2
            <4>3. CASE rd.pc = "seek"
                BY <4>1, <4>3 DEF Ahead
            <4>4. CASE rd.pc # "seek"
                <5>1. Ahead' = UNION {Rest(i, rd.src[i].head)' : i \in DOMAIN rd.src}
                    BY <4>4 DEF Ahead
                <5>2. \A i \in DOMAIN rd.src : Rest(i, rd.src[i].head)' = Rest(i, rd.src[i].head)
                    BY <4>1 DEF Rest
                <5> QED BY <4>4, <5>1, <5>2 DEF Ahead
            <4> QED BY <4>3, <4>4
        <3> QED BY <1>3, <3>1 DEF RunInv, Filtered
    <2> QED BY <2>1, <2>2, <2>3, <2>4, <2>5 DEF RunInv, Filtered, VisibleAt
<1>4. ASSUME rd.pc = "end", EndInv /\ GetLinearizable /\ ScanComplete
      PROVE  (EndInv /\ GetLinearizable /\ ScanComplete)'
    BY <1>4 DEF EndInv, GetLinearizable, ScanComplete, Values, Wanted, Filtered, Current
<1> QED BY <1>1, <1>3, <1>4 DEF ReaderInv

LEMMA ReaderInvWrites ==
    ASSUME ReadersInv,
           \/ \E batch \in Batches : WriteBegin(batch)
           \/ \E height \in 1..MaxLevel : InsertFind(height)
           \/ InsertLink /\ wr.level # 0
           \/ WriteEnd
           \/ GetSnapshot \/ ReleaseSnapshot
           \/ UNCHANGED vars
    PROVE  ReaderInv'
<1>1. ListInv /\ snapshot < nextSeq /\ rd.snap \in SnapChoice
      /\ snapshot \in Nat \cup {NoSnapshot} /\ nextSeq \in Nat \ {0}
    BY DEF ReadersInv, ReaderInv, ListInv, TypeOK
<1>2. CASE \E batch \in Batches : WriteBegin(batch)
    <2>1. UNCHANGED <<mems, nextSeq, snapshot, rd>>
        BY <1>2 DEF WriteBegin
    <2> QED BY <1>1, <2>1, ReaderInvSame DEF Linked, SnapChoice
<1>3. CASE \E height \in 1..MaxLevel : InsertFind(height)
    <2>1. PICK height \in 1..MaxLevel : InsertFind(height)
        BY <1>3
    <2>2. /\ mems' = [mems EXCEPT ![Len(mems)] = Raise(Active, height)]
          /\ UNCHANGED <<nextSeq, snapshot, rd>>
        BY <2>1 DEF InsertFind, Active
    <2>3. Len(mems) \in DOMAIN mems /\ Active = mems[Len(mems)] /\ ListOK(Active)
        BY <1>1, MemsShape DEF ListInv
    <2>4. Raise(Active, height).next = Active.next
        BY <2>3, RaisedListOK
    <2>5. DOMAIN mems' = DOMAIN mems /\ \A i \in DOMAIN mems : mems'[i].next = mems[i].next
        <3> DEFINE N == Len(mems)
                   r == Raise(Active, height)
        <3>1. mems' = [mems EXCEPT ![N] = r] /\ N \in DOMAIN mems /\ r.next = mems[N].next
            BY <2>2, <2>3, <2>4
        <3> HIDE DEF N, r
        <3> QED BY <3>1
    <2>6. \A i \in DOMAIN mems : Nodes(mems'[i]) = Nodes(mems[i])
        BY <2>5 DEF Nodes
    <2>7. Linked' = Linked
        BY <2>5, <2>6 DEF Linked
    <2> QED BY <1>1, <2>2, <2>5, <2>6, <2>7, ReaderInvSame DEF SnapChoice
<1>4. CASE InsertLink /\ wr.level # 0
    <2>1. wr.level > 0
        BY <1>1, <1>4, LinkEffect DEF Levels
    <2>2. (\A i \in DOMAIN mems : Nodes(mems'[i]) = Nodes(mems[i])) /\ Linked' = Linked
          /\ DOMAIN mems' = DOMAIN mems
        BY <1>1, <1>4, <2>1, LinkNodes, LinkEffect
    <2>3. UNCHANGED <<nextSeq, snapshot, rd>>
        BY <1>4 DEF InsertLink
    <2> QED BY <1>1, <2>2, <2>3, ReaderInvSame DEF SnapChoice
<1>5. CASE WriteEnd
    <2>1. /\ DOMAIN mems \subseteq DOMAIN mems' /\ \A i \in DOMAIN mems : mems'[i] = mems[i]
          /\ \A i \in DOMAIN mems' \ DOMAIN mems : mems'[i] = NewSkiplist
          /\ Linked' = Linked
        BY <1>1, <1>5, EndEffect
    <2>2. Nodes(NewSkiplist) = {}
        BY NewListOK
    <2>3. wr.pc = "end" /\ nextSeq' = nextSeq + Len(wr.batch) /\ UNCHANGED <<snapshot, rd>>
        BY <1>5 DEF WriteEnd
    <2>4. Len(wr.batch) \in Nat
        <3>1. wr.batch \in Batch
            BY <1>1, <2>3 DEF ListInv, WriterInv
        <3> QED BY <3>1, LenProperties DEF Batch
    <2>5. snapshot' < nextSeq'
        BY <1>1, <2>3, <2>4 DEF NoSnapshot
    <2> QED BY <1>1, <2>1, <2>2, <2>3, <2>5, ReaderInvSame DEF SnapChoice
<1>6. CASE GetSnapshot \/ ReleaseSnapshot
    <2>1. UNCHANGED <<mems, nextSeq, rd>>
        BY <1>6 DEF GetSnapshot, ReleaseSnapshot
    <2>2. snapshot' < nextSeq' /\ rd.snap \in SnapChoice'
        BY <1>1, <1>6, <2>1 DEF GetSnapshot, ReleaseSnapshot, SnapshotSeq, SnapChoice, NoSnapshot
    <2> QED BY <2>1, <2>2, ReaderInvSame DEF Linked
<1>7. CASE UNCHANGED vars
    BY <1>1, <1>7, ReaderInvSame DEF vars, Linked, SnapChoice
<1> QED BY <1>2, <1>3, <1>4, <1>5, <1>6, <1>7

\* A read at a snapshot does not see the entry; a later read sees it first.
LEMMA LinkLookup ==
    ASSUME ReadersInv, InsertLink, wr.level = 0
    PROVE  /\ Linked' = Linked \cup {Entry1} /\ Entry1 \notin Linked
           /\ Entry1 \in Entries /\ Linked \subseteq Entries
           /\ Filtered => /\ rd.snap < Entry1.seq
                          /\ \A k : Lookup(Linked', k, rd.snap) = Lookup(Linked, k, rd.snap)
                          /\ Values(Linked, rd.snap)' = Values(Linked, rd.snap)
           /\ \A k : k # Entry1.key => Lookup(Linked', k, MaxSeq) = Lookup(Linked, k, MaxSeq)
           /\ \A S : Entry1 \in S /\ S \subseteq Linked' =>
                 Lookup(S, Entry1.key, MaxSeq) = Lookup(Linked', Entry1.key, MaxSeq)
<1> DEFINE e == Entry1
<1>1. ListInv /\ snapshot < nextSeq /\ rd.snap \in SnapChoice /\ ReaderShape
      /\ snapshot \in Nat \cup {NoSnapshot}
    BY DEF ReadersInv, ReaderInv, ListInv, TypeOK
<1>2. wr.pc = "link"
    BY DEF InsertLink
<1>3. /\ e \in Entries /\ e.seq = nextSeq + wr.done /\ nextSeq + wr.done <= MaxSeq
      /\ nextSeq \in Nat \ {0} /\ wr.done \in Nat
    BY <1>1, <1>2, EntryFacts DEF ListInv, TypeOK
<1>4. Linked' = Linked \cup {e} /\ \A x \in Linked : x.seq < e.seq
    BY <1>1, LinkNodes
<1>5. /\ IsFiniteSet(Linked) /\ Linked \subseteq Entries
      /\ \A x \in Linked : x.seq \in Nat \ {0} /\ x.seq <= MaxSeq
    BY <1>1, LinkedFacts
<1>6. e \notin Linked /\ e.seq \in Nat \ {0} /\ e.seq <= MaxSeq
    BY <1>3, <1>4, <1>5
<1>7. Filtered => rd.snap < e.seq /\ rd.snap \in Nat
    BY <1>1, <1>3 DEF SnapChoice, Filtered, NoSnapshot
<1>8. rd'.snap = rd.snap /\ rd'.scan = rd.scan
    BY <1>1, LinkReader
<1> HIDE DEF e
<1>9. Filtered => \A k : Lookup(Linked', k, rd.snap) = Lookup(Linked, k, rd.snap)
    <2> SUFFICES ASSUME Filtered, NEW k PROVE Lookup(Linked', k, rd.snap) = Lookup(Linked, k, rd.snap)
        OBVIOUS
    <2> DEFINE L == Linked
               M == Linked'
    <2>1. ~(e.seq <= rd.snap) /\ M = L \cup {e}
        BY <1>4, <1>6, <1>7
    <2> HIDE DEF L, M
    <2>2. \A x : x.key = k /\ x.seq <= rd.snap => (x \in M <=> x \in L)
        BY <2>1
    <2>3. Lookup(M, k, rd.snap) = Lookup(L, k, rd.snap)
        BY <2>2, LookupUpTo
    <2> QED BY <2>3 DEF L, M
<1>10. Filtered => Values(Linked, rd.snap)' = Values(Linked, rd.snap)
    <2> SUFFICES ASSUME Filtered PROVE Values(Linked, rd.snap)' = Values(Linked, rd.snap)
        OBVIOUS
    <2> DEFINE W(k) == Wanted(k)
    <2>1. \A k : Wanted(k)' = Wanted(k)
        BY <1>8 DEF Wanted
    <2>2. Values(Linked, rd.snap)'
              = {x \in Linked' : x.seq = Lookup(Linked', x.key, rd.snap) /\ W(x.key)}
        BY <1>8 DEF Values, Wanted
    <2>3. Values(Linked, rd.snap)
              = {x \in Linked : x.seq = Lookup(Linked, x.key, rd.snap) /\ W(x.key)}
        BY DEF Values
    <2>4. e.seq # Lookup(Linked, e.key, rd.snap)
        <3>1. SUFFICES ASSUME e.seq = Lookup(Linked, e.key, rd.snap) PROVE FALSE
            OBVIOUS
        <3>2. Lookup(Linked, e.key, rd.snap) # ErrNotFound
            BY <1>6, <3>1 DEF ErrNotFound
        <3>3. PICK x \in VersionsAt(Linked, e.key, rd.snap) : x.seq = Lookup(Linked, e.key, rd.snap)
            BY <1>5, <3>2, FirstLookup
        <3>4. x \in Linked
            BY <3>3 DEF VersionsAt
        <3> QED BY <1>4, <1>5, <1>6, <3>1, <3>3, <3>4
    <2> HIDE DEF W
    <2> QED BY <1>4, <1>9, <2>2, <2>3, <2>4
<1>11. \A k : k # e.key => Lookup(Linked', k, MaxSeq) = Lookup(Linked, k, MaxSeq)
    <2> SUFFICES ASSUME NEW k, k # e.key PROVE Lookup(Linked', k, MaxSeq) = Lookup(Linked, k, MaxSeq)
        OBVIOUS
    <2> DEFINE L == Linked
               M == Linked'
    <2>1. M = L \cup {e}
        BY <1>4
    <2> HIDE DEF L, M
    <2>2. \A x : x.key = k => (x \in M <=> x \in L)
        BY <2>1
    <2>3. Lookup(M, k, MaxSeq) = Lookup(L, k, MaxSeq)
        BY <2>2, LookupOfKey
    <2> QED BY <2>3 DEF L, M
<1>12. ASSUME NEW S, e \in S, S \subseteq Linked'
       PROVE  Lookup(S, e.key, MaxSeq) = IF e.typ = RecordTypeTombstone THEN ErrNotFound ELSE e.seq
    <2>1. IsFiniteSet(Linked') /\ Linked' \subseteq Entries
        BY <1>3, <1>4, <1>5, FS_AddElement
    <2>2. IsFiniteSet(S) /\ S \subseteq Entries
        BY <1>12, <2>1, FS_Subset
    <2>3. e \in VersionsAt(S, e.key, MaxSeq)
        BY <1>6, <1>12 DEF VersionsAt
    <2>4. \A x \in VersionsAt(S, e.key, MaxSeq) : x = e \/ Before(e, x)
        <3>1. \A x \in VersionsAt(S, e.key, MaxSeq) : x.key = e.key /\ (x = e \/ x \in Linked)
            BY <1>4, <1>12 DEF VersionsAt
        <3>2. \A x \in VersionsAt(S, e.key, MaxSeq) : x.key = e.key /\ (x = e \/ e.seq > x.seq)
            BY <1>4, <1>5, <1>6, <3>1
        <3> QED BY <3>2 DEF Before
    <2> QED BY <2>2, <2>3, <2>4, FirstLookup
<1>13. \A S : e \in S /\ S \subseteq Linked' =>
           Lookup(S, e.key, MaxSeq) = Lookup(Linked', e.key, MaxSeq)
    BY <1>4, <1>12
<1> QED BY <1>3, <1>4, <1>5, <1>6, <1>7, <1>9, <1>10, <1>11, <1>13 DEF e

\* What is in front of a cursor after the entry is linked.
RestThen(i, n) == IF n = Nil THEN {} ELSE {m \in Nodes(mems'[i]) : m = n \/ Before(n, m)}

LEMMA LinkRest ==
    ASSUME ListInv, InsertLink, wr.level = 0, NEW i \in DOMAIN mems,
           NEW n \in Nodes(mems[i]) \cup {Nil}
    PROVE  /\ Rest(i, n) \subseteq RestThen(i, n) /\ RestThen(i, n) \subseteq Rest(i, n) \cup {Entry1}
           /\ Entry1 \in RestThen(i, n) => i = Len(mems) /\ n # Nil /\ Before(n, Entry1)
           /\ i = Len(mems) /\ n # Nil /\ Before(n, Entry1) => Entry1 \in RestThen(i, n)
<1>1. /\ Nodes(Active') = Nodes(Active) \cup {Entry1} /\ Active' = mems'[Len(mems)]
      /\ \A j \in DOMAIN mems \ {Len(mems)} : Nodes(mems'[j]) = Nodes(mems[j])
      /\ Active = mems[Len(mems)]
      /\ \A e \in Linked : e.seq < Entry1.seq
    BY LinkNodes, LinkEffect DEF Active
<1>2. Entry1 \notin Linked
    <2>1. Entry1.seq \in Nat
        BY EntryFacts DEF InsertLink
    <2> QED BY <1>1, <2>1
<1>3. Nodes(mems[i]) \subseteq Linked /\ Nil \notin Nodes(mems[i])
    BY MemFacts
<1> QED BY <1>1, <1>2, <1>3 DEF Rest, RestThen

LEMMA LinkCursor ==
    ASSUME ReadersInv, InsertLink, wr.level = 0, NEW i \in DOMAIN mems, NEW c, CursorOK(i, c)
    PROVE  /\ c = [head |-> c.head, pos |-> c.pos]
           /\ c.head \in Nodes(mems'[i]) \cup {Nil} /\ c.pos \in Nodes(mems'[i]) \cup {Nil}
           /\ c.head # Nil => VisibleAt(c.head)
           /\ Filtered => \A m \in RestThen(i, c.head) \ {c.head} :
                             VisibleAt(m) => m \in RestThen(i, c.pos)
           /\ Filtered => RestThen(i, c.pos) \subseteq RestThen(i, c.head) \ {c.head}
           /\ ~Filtered => c.pos = c.head
<1>1. ListInv
    BY DEF ReadersInv
<1>2. /\ c = [head |-> c.head, pos |-> c.pos]
      /\ c.head \in Nodes(mems[i]) \cup {Nil} /\ c.pos \in Nodes(mems[i]) \cup {Nil}
      /\ c.head # Nil => VisibleAt(c.head)
      /\ Filtered => \A m \in Rest(i, c.head) \ {c.head} : VisibleAt(m) => m \in Rest(i, c.pos)
      /\ Filtered => Rest(i, c.pos) \subseteq Rest(i, c.head) \ {c.head}
      /\ ~Filtered => c.pos = c.head
    BY DEF CursorOK
<1>3. Nodes(mems[i]) \subseteq Nodes(mems'[i])
    BY <1>1, LinkNodes, LinkEffect DEF Active
<1>4. /\ Rest(i, c.head) \subseteq RestThen(i, c.head)
      /\ RestThen(i, c.head) \subseteq Rest(i, c.head) \cup {Entry1}
      /\ i = Len(mems) /\ c.head # Nil /\ Before(c.head, Entry1) => Entry1 \in RestThen(i, c.head)
    BY <1>1, <1>2, LinkRest
<1>5. /\ Rest(i, c.pos) \subseteq RestThen(i, c.pos)
      /\ RestThen(i, c.pos) \subseteq Rest(i, c.pos) \cup {Entry1}
      /\ Entry1 \in RestThen(i, c.pos) => i = Len(mems) /\ c.pos # Nil /\ Before(c.pos, Entry1)
    BY <1>1, <1>2, LinkRest
<1>6. /\ Filtered => rd.snap < Entry1.seq /\ rd.snap \in Int
      /\ Entry1 \notin Linked /\ Entry1 \in Entries
    <2>1. rd.snap \in Nat \cup {NoSnapshot}
        BY <1>1 DEF ReadersInv, ReaderInv, SnapChoice, ListInv, TypeOK
    <2> QED BY <2>1, LinkLookup DEF NoSnapshot
<1>7. Filtered => ~VisibleAt(Entry1)
    <2>1. Entry1.seq \in Int
        BY <1>6, NodeFacts
    <2> QED BY <1>6, <2>1 DEF VisibleAt
<1>8. Filtered => \A m \in RestThen(i, c.head) \ {c.head} : VisibleAt(m) => m \in RestThen(i, c.pos)
    <2>1. SUFFICES ASSUME Filtered, NEW m \in RestThen(i, c.head) \ {c.head}, VisibleAt(m)
                   PROVE  m \in RestThen(i, c.pos)
        OBVIOUS
    <2>2. m # Entry1
        BY <1>7, <2>1
    <2> QED BY <1>2, <1>4, <1>5, <2>1, <2>2
<1>9. Filtered => RestThen(i, c.pos) \subseteq RestThen(i, c.head) \ {c.head}
    <2>1. SUFFICES ASSUME Filtered, NEW m \in RestThen(i, c.pos)
                   PROVE  m \in RestThen(i, c.head) \ {c.head}
        OBVIOUS
    <2>2. CASE m # Entry1
        BY <1>2, <1>4, <1>5, <2>1, <2>2
    <2>3. CASE m = Entry1
        <3>1. i = Len(mems) /\ c.pos # Nil /\ Before(c.pos, Entry1) /\ c.pos \in Nodes(mems[i])
            BY <1>2, <1>5, <2>1, <2>3
        <3>2. c.pos \in Rest(i, c.pos)
            BY <3>1 DEF Rest
        <3>3. c.pos \in Rest(i, c.head) \ {c.head}
            BY <1>2, <2>1, <3>2
        <3>4. c.head # Nil /\ Before(c.head, c.pos) /\ c.head \in Nodes(mems[i])
            BY <1>2, <3>3 DEF Rest
        <3>5. c.head \in NodeSet /\ c.pos \in NodeSet /\ Entry1 \in NodeSet /\ c.head \in Linked
            BY <1>1, <1>6, <3>1, <3>4, MemFacts, NodeFacts
        <3>6. Before(c.head, Entry1)
            BY <3>1, <3>4, <3>5, NodeOrder
        <3>7. Entry1 # c.head
            BY <1>6, <3>5
        <3> QED BY <1>4, <2>3, <3>1, <3>4, <3>6, <3>7
    <2> QED BY <2>2, <2>3
<1> QED BY <1>2, <1>3, <1>8, <1>9

LEMMA ReaderInvLink ==
    ASSUME ReadersInv, InsertLink, wr.level = 0
    PROVE  ReaderInv'
<1> DEFINE e == Entry1
           N == Len(mems)
<1>1. ListInv /\ ReaderInv /\ ReaderShape /\ UNCHANGED <<nextSeq, snapshot>>
    BY DEF ReadersInv, ListInv, InsertLink
<1>2. /\ DOMAIN mems' = DOMAIN mems /\ N \in DOMAIN mems /\ DOMAIN rd.src \subseteq DOMAIN mems
      /\ Nodes(mems'[N]) = Nodes(mems[N]) \cup {e}
      /\ \A i \in DOMAIN mems \ {N} : Nodes(mems'[i]) = Nodes(mems[i])
    BY <1>1, LinkEffect, LinkNodes DEF Active, ListInv, TypeOK
<1>3. /\ Linked' = Linked \cup {e} /\ e \notin Linked /\ e \in Entries
      /\ Filtered => /\ rd.snap < e.seq
                     /\ \A k : Lookup(Linked', k, rd.snap) = Lookup(Linked, k, rd.snap)
                     /\ Values(Linked, rd.snap)' = Values(Linked, rd.snap)
      /\ \A k : k # e.key => Lookup(Linked', k, MaxSeq) = Lookup(Linked, k, MaxSeq)
      /\ \A S : e \in S /\ S \subseteq Linked' =>
            Lookup(S, e.key, MaxSeq) = Lookup(Linked', e.key, MaxSeq)
    BY LinkLookup
<1>4. /\ rd'.pc = rd.pc /\ rd'.kind = rd.kind /\ rd'.key = rd.key /\ rd'.scan = rd.scan
      /\ rd'.snap = rd.snap /\ rd'.src = rd.src /\ rd'.out = rd.out
      /\ rd.pc # "idle" =>
            /\ rd'.touched = rd.touched \cup {e.key}
            /\ rd.kind = "get" => rd'.seen = rd.seen \cup {Current(Linked', rd.key)}
      /\ rd.pc = "idle" => rd' = rd
    BY <1>1, LinkReader
<1>5. Filtered' = Filtered /\ \A x : VisibleAt(x)' <=> VisibleAt(x)
    BY <1>4 DEF Filtered, VisibleAt
<1>6. Filtered => ~VisibleAt(e)
    <2>1. e.seq \in Int /\ rd.snap \in Nat \cup {NoSnapshot}
        BY <1>1, <1>3, NodeFacts DEF ReaderInv, SnapChoice, ListInv, TypeOK
    <2> QED BY <1>3, <2>1 DEF VisibleAt, NoSnapshot
<1>7. \A k : Wanted(k)' <=> Wanted(k)
    BY <1>4 DEF Wanted
<1> HIDE DEF e, N
<1>8. ASSUME rd.pc \in {"seek", "run"}, RunInv PROVE RunInv'
    <2>1. PICK n \in DOMAIN mems : DOMAIN rd.src = 1..n
        BY <1>8 DEF RunInv
    <2>2. \E k \in DOMAIN mems' : DOMAIN rd'.src = 1..k
        BY <1>2, <1>4, <2>1
    <2>3. \A j \in DOMAIN mems' \ DOMAIN rd'.src : \A x \in Nodes(mems'[j]) :
             x.key \in rd'.touched /\ ~(Filtered /\ VisibleAt(x))'
        <3>1. SUFFICES ASSUME NEW j \in DOMAIN mems \ DOMAIN rd.src, NEW x \in Nodes(mems'[j])
                       PROVE  x.key \in rd.touched \cup {e.key} /\ ~(Filtered /\ VisibleAt(x))
            BY <1>2, <1>4, <1>5, <1>8
        <3>2. x = e \/ x \in Nodes(mems[j])
            BY <1>2
        <3> QED BY <1>6, <1>8, <3>2 DEF RunInv
    <2>4. rd'.pc = "seek" => rd'.out = <<>>
        BY <1>4, <1>8 DEF RunInv
    <2>5. rd.pc = "run" => \A i \in DOMAIN rd.src : CursorOK(i, rd.src[i])'
        <3>1. SUFFICES ASSUME rd.pc = "run", NEW i \in DOMAIN rd.src
                       PROVE  CursorOK(i, rd.src[i])'
            OBVIOUS
        <3>2. CursorOK(i, rd.src[i]) /\ i \in DOMAIN mems
            BY <1>2, <1>8, <3>1 DEF RunInv
        <3> DEFINE c == rd.src[i]
        <3>3. /\ c = [head |-> c.head, pos |-> c.pos]
              /\ c.head \in Nodes(mems'[i]) \cup {Nil} /\ c.pos \in Nodes(mems'[i]) \cup {Nil}
              /\ c.head # Nil => VisibleAt(c.head)
              /\ Filtered => \A m \in RestThen(i, c.head) \ {c.head} :
                                VisibleAt(m) => m \in RestThen(i, c.pos)
              /\ Filtered => RestThen(i, c.pos) \subseteq RestThen(i, c.head) \ {c.head}
              /\ ~Filtered => c.pos = c.head
            BY <3>2, LinkCursor
        <3>4. rd'.src[i] = c /\ \A x : Rest(i, x)' = RestThen(i, x)
            BY <1>4 DEF Rest, RestThen
        <3> HIDE DEF c
        <3> QED BY <1>5, <3>3, <3>4 DEF CursorOK
    <2>6. ASSUME rd.pc = "run", NEW last, Behind(rd.src, last) PROVE Behind(rd.src, last)'
        <3>1. SUFFICES ASSUME NEW i \in DOMAIN rd.src
              PROVE  /\ rd.src[i].head # Nil => last < rd.src[i].head.key
                     /\ \A m \in Nodes(mems'[i]) :
                           VisibleAt(m) /\ last < m.key
                             /\ (Filtered \/ m.key \notin rd'.touched \/ i + 1 \in DOMAIN rd.src)
                           => m \in RestThen(i, rd.src[i].head)
            BY <1>4, <1>5 DEF Behind, Rest, RestThen
        <3>2. rd.src[i].head # Nil => last < rd.src[i].head.key
            BY <2>6, <3>1 DEF Behind
        <3>3. SUFFICES ASSUME NEW m \in Nodes(mems'[i]), VisibleAt(m), last < m.key,
                              Filtered \/ m.key \notin rd'.touched \/ i + 1 \in DOMAIN rd.src
                       PROVE  m \in RestThen(i, rd.src[i].head)
            BY <3>2
        <3>4. m \in Nodes(mems[i])
            <4>1. SUFFICES ASSUME m \notin Nodes(mems[i]) PROVE FALSE
                OBVIOUS
            <4>2. m = e /\ i = N
                BY <1>2, <3>1, <3>3, <4>1
            <4>3. N + 1 \notin DOMAIN rd.src
                <5>1. DOMAIN mems = 1..N /\ N \in Nat
                    BY <1>1, MemsShape DEF ListInv, N
                <5> QED BY <1>2, <5>1
            <4> QED BY <1>4, <1>6, <1>8, <3>3, <4>2, <4>3
        <3>5. m \in Rest(i, rd.src[i].head)
            <4>1. Filtered \/ m.key \notin rd.touched \/ i + 1 \in DOMAIN rd.src
                BY <1>4, <1>8, <3>3
            <4> QED BY <2>6, <3>1, <3>3, <3>4, <4>1 DEF Behind
        <3>6. CursorOK(i, rd.src[i]) /\ i \in DOMAIN mems
            BY <1>2, <1>8, <2>6, <3>1 DEF RunInv
        <3>7. rd.src[i].head \in Nodes(mems[i]) \cup {Nil}
            BY <3>6 DEF CursorOK
        <3> QED BY <1>1, <3>5, <3>6, <3>7, LinkRest
    <2>7. ASSUME NEW last, Returned(last) PROVE Returned(last)'
        <3>1. /\ rd'.out \in Seq(Entries)
              /\ \A i, j \in DOMAIN rd'.out : i < j => rd'.out[i].key < rd'.out[j].key
              /\ \A i \in DOMAIN rd'.out : rd'.out[i].key <= last
            BY <1>4, <2>7 DEF Returned
        <3>2. Filtered => {rd'.out[i] : i \in DOMAIN rd'.out}
                             = {x \in Values(Linked, rd.snap)' : x.key <= last}
            BY <1>3, <1>4, <2>7 DEF Returned
        <3>3. ~Filtered => \A k \in Keys \ rd'.touched : k <= last =>
                 ((\E i \in DOMAIN rd'.out : rd'.out[i].key = k)
                      <=> (Wanted(k) /\ Lookup(Linked', k, MaxSeq) # ErrNotFound))
            <4>1. \A k \in Keys \ rd'.touched : k \in Keys \ rd.touched /\ k # e.key
                BY <1>4, <1>8
            <4> QED BY <1>3, <1>4, <2>7, <4>1 DEF Returned, Current
        <3> QED BY <1>5, <1>7, <3>1, <3>2, <3>3 DEF Returned, Current
    <2>8. (rd.pc = "run" =>
             /\ \A i \in DOMAIN rd.src : CursorOK(i, rd.src[i])
             /\ \E last \in Keys : /\ Behind(rd.src, last)
                                   /\ rd.kind = "get" => last < rd.key
                                   /\ rd.kind = "scan" => Returned(last))'
        <3>1. SUFFICES ASSUME rd.pc = "run"
              PROVE  \E last \in Keys : /\ Behind(rd.src, last)'
                                        /\ rd.kind = "get" => last < rd.key
                                        /\ rd.kind = "scan" => Returned(last)'
            BY <1>4, <2>5
        <3>2. PICK last \in Keys : /\ Behind(rd.src, last)
                                   /\ rd.kind = "get" => last < rd.key
                                   /\ rd.kind = "scan" => Returned(last)
            BY <1>8, <3>1 DEF RunInv
        <3> QED BY <2>6, <2>7, <3>1, <3>2
    <2>9. rd.kind = "get" /\ ~Filtered => Lookup(Ahead', rd.key, MaxSeq) \in rd'.seen
        <3>1. SUFFICES ASSUME rd.kind = "get", ~Filtered
                       PROVE  Lookup(Ahead', rd.key, MaxSeq) \in rd'.seen
            OBVIOUS
        <3>2. /\ Lookup(Ahead, rd.key, MaxSeq) \in rd.seen
              /\ rd'.seen = rd.seen \cup {Lookup(Linked', rd.key, MaxSeq)}
            BY <1>4, <1>8, <3>1 DEF RunInv, Current
        <3>3. Ahead \subseteq Ahead' /\ Ahead' \subseteq Ahead \cup {e} /\ Ahead' \subseteq Linked'
            <4>1. CASE rd.pc = "seek"
                <5>1. \A i \in DOMAIN rd.src : /\ Nodes(mems[i]) \subseteq Nodes(mems'[i])
                                               /\ Nodes(mems'[i]) \subseteq Nodes(mems[i]) \cup {e}
                    BY <1>2
                <5>2. Ahead = UNION {Nodes(mems[i]) : i \in DOMAIN rd.src}
                    BY <4>1 DEF Ahead
                <5>3. Ahead' = UNION {Nodes(mems'[i]) : i \in DOMAIN rd.src}
                    BY <1>4, <4>1 DEF Ahead
                <5>4. Ahead' \subseteq Linked'
                    BY <1>2, <5>3 DEF Linked
                <5> QED BY <5>1, <5>2, <5>3, <5>4
            <4>2. CASE rd.pc = "run"
                <5>1. ASSUME NEW i \in DOMAIN rd.src
                      PROVE  /\ Rest(i, rd.src[i].head) \subseteq RestThen(i, rd.src[i].head)
                             /\ RestThen(i, rd.src[i].head) \subseteq Rest(i, rd.src[i].head) \cup {e}
                             /\ RestThen(i, rd.src[i].head) \subseteq Nodes(mems'[i])
                    <6>1. CursorOK(i, rd.src[i]) /\ i \in DOMAIN mems
                        BY <1>2, <1>8, <4>2, <5>1 DEF RunInv
                    <6>2. rd.src[i].head \in Nodes(mems[i]) \cup {Nil}
                        BY <6>1 DEF CursorOK
                    <6>3. RestThen(i, rd.src[i].head) \subseteq Nodes(mems'[i])
                        BY DEF RestThen
                    <6> QED BY <1>1, <6>1, <6>2, <6>3, LinkRest DEF e
                <5>2. Ahead = UNION {Rest(i, rd.src[i].head) : i \in DOMAIN rd.src}
                    BY <4>2 DEF Ahead
                <5>3. Ahead' = UNION {RestThen(i, rd.src[i].head) : i \in DOMAIN rd.src}
                    BY <1>4, <4>2 DEF Ahead, Rest, RestThen
                <5>4. Ahead' \subseteq Linked'
                    BY <1>2, <5>1, <5>3 DEF Linked
                <5> QED BY <5>1, <5>2, <5>3, <5>4
            <4> QED BY <1>8, <4>1, <4>2
        <3>4. CASE e \in Ahead' /\ e.key = rd.key
            BY <1>3, <3>2, <3>3, <3>4
        <3>5. CASE ~(e \in Ahead' /\ e.key = rd.key)
            <4> DEFINE A == Ahead
                       B == Ahead'
            <4>1. A \subseteq B /\ B \subseteq A \cup {e} /\ ~(e \in B /\ e.key = rd.key)
                BY <3>3, <3>5
            <4> HIDE DEF A, B
            <4>2. \A x : x.key = rd.key => (x \in A <=> x \in B)
                BY <4>1
            <4>3. Lookup(A, rd.key, MaxSeq) = Lookup(B, rd.key, MaxSeq)
                BY <4>2, LookupOfKey
            <4> QED BY <3>2, <4>3 DEF A, B
        <3> QED BY <3>4, <3>5
    <2> QED BY <1>4, <1>5, <2>2, <2>3, <2>4, <2>8, <2>9 DEF RunInv
<1>9. ASSUME rd.pc = "end", EndInv /\ GetLinearizable /\ ScanComplete
      PROVE  (EndInv /\ GetLinearizable /\ ScanComplete)'
    <2>1. EndInv'
        BY <1>3, <1>4, <1>5, <1>9 DEF EndInv
    <2>2. GetLinearizable'
        BY <1>3, <1>4, <1>5, <1>9 DEF GetLinearizable
    <2>3. ScanComplete'
        <3>1. \A k \in Keys \ rd'.touched : k \in Keys \ rd.touched /\ k # e.key
            BY <1>4, <1>9
        <3> QED BY <1>3, <1>4, <1>5, <1>7, <1>9, <3>1 DEF ScanComplete, Current
    <2> QED BY <2>1, <2>2, <2>3
<1>10. (rd.kind \in {"get", "scan"} /\ rd.scan \in Scans \cup {IdleReader.scan})'
    BY <1>1, <1>4 DEF ReaderInv
<1>11. (rd.kind = "get" /\ rd.pc # "idle" => rd.key \in Keys)'
    BY <1>1, <1>4 DEF ReaderInv
<1>12. (snapshot < nextSeq /\ rd.snap \in SnapChoice)'
    BY <1>1, <1>4 DEF ReaderInv, SnapChoice
<1>13. (rd.pc = "idle" => rd = IdleReader)'
    BY <1>1, <1>4 DEF ReaderInv
<1> QED BY <1>1, <1>4, <1>8, <1>9, <1>10, <1>11, <1>12, <1>13 DEF ReaderInv

LEMMA ReaderInvInit ==
    Init => ReadersInv
<1> SUFFICES ASSUME Init PROVE ReadersInv
    OBVIOUS
<1>1. ListInv
    BY ListInvInit
<1>2. rd = IdleReader /\ snapshot = NoSnapshot /\ nextSeq = 1
    BY DEF Init
<1>3. rd.pc = "idle" /\ rd.kind = "get" /\ rd.snap = NoSnapshot /\ rd.scan = IdleReader.scan
    BY <1>2, IdleReaderIs
<1>4. snapshot < nextSeq
    BY <1>2 DEF NoSnapshot
<1> QED BY <1>1, <1>2, <1>3, <1>4 DEF ReadersInv, ReaderInv, SnapChoice

\* A read that begins has everything in front of it.
LEMMA ReaderInvSeek ==
    ASSUME ReadersInv, UNCHANGED <<mems, nextSeq, snapshot>>,
           rd'.pc = "seek", rd'.kind \in {"get", "scan"}, rd'.out = <<>>,
           rd'.scan \in Scans \cup {IdleReader.scan}, rd'.snap \in SnapChoice,
           DOMAIN rd'.src = DOMAIN mems,
           rd'.kind = "get" => rd'.key \in Keys /\ rd'.seen = {Current(Linked, rd'.key)}
    PROVE  ReaderInv'
<1>1. ListInv /\ snapshot < nextSeq
    BY DEF ReadersInv, ReaderInv
<1>2. Len(mems) \in DOMAIN mems /\ DOMAIN mems = 1..Len(mems)
    BY <1>1, MemsShape DEF ListInv
<1>3. \E n \in DOMAIN mems' : DOMAIN rd'.src = 1..n
    BY <1>2
<1>4. Ahead' = Linked
    BY DEF Ahead, Linked
<1>5. RunInv'
    BY <1>3, <1>4 DEF RunInv, Current
<1>6. SnapChoice' = SnapChoice
    BY DEF SnapChoice
<1> QED BY <1>1, <1>5, <1>6 DEF ReaderInv

LEMMA ReaderInvGet ==
    ASSUME ReadersInv, NEW key \in Keys, NEW snap \in SnapChoice, GetWithOptions(key, snap)
    PROVE  ReaderInv'
<1> DEFINE src == [i \in DOMAIN mems |-> Nil]
           seen == {Current(Linked, key)}
           read == [IdleReader EXCEPT !.pc = "seek", !.kind = "get", !.key = key,
                                      !.snap = snap, !.src = src, !.seen = seen]
<1>1. Begin(read) /\ DOMAIN src = DOMAIN mems /\ seen = {Current(Linked, key)}
    BY DEF GetWithOptions
<1> HIDE DEF src, seen
<1>2. read = [pc |-> "seek", kind |-> "get", key |-> key, scan |-> IdleReader.scan,
              snap |-> snap, src |-> src, out |-> <<>>, seen |-> seen, touched |-> {}]
    <2>1. \A s, c, n :
              [IdleReader EXCEPT !.pc = "seek", !.kind = "get", !.key = key, !.snap = s,
                                 !.src = c, !.seen = n]
                  = [pc |-> "seek", kind |-> "get", key |-> key, scan |-> IdleReader.scan,
                     snap |-> s, src |-> c, out |-> <<>>, seen |-> n, touched |-> {}]
        BY NewGetIs, Zenon
    <2>2. \A c, n :
              [IdleReader EXCEPT !.pc = "seek", !.kind = "get", !.key = key, !.snap = snap,
                                 !.src = c, !.seen = n]
                  = [pc |-> "seek", kind |-> "get", key |-> key, scan |-> IdleReader.scan,
                     snap |-> snap, src |-> c, out |-> <<>>, seen |-> n, touched |-> {}]
        BY <2>1, Zenon
    <2> QED BY <2>2, Zenon
<1> HIDE DEF read
<1>3. rd' = read /\ UNCHANGED <<mems, nextSeq, snapshot>>
    BY <1>1 DEF Begin
<1>4. /\ rd'.pc = "seek" /\ rd'.kind = "get" /\ rd'.out = <<>> /\ rd'.key = key
      /\ rd'.scan = IdleReader.scan /\ rd'.snap = snap /\ rd'.src = src /\ rd'.seen = seen
    BY <1>2, <1>3
<1> QED BY <1>1, <1>3, <1>4, ReaderInvSeek

LEMMA ReaderInvIterator ==
    ASSUME ReadersInv, NEW scan \in Scans, NEW snap \in SnapChoice, NewIterator(scan, snap)
    PROVE  ReaderInv'
<1> DEFINE src == [i \in DOMAIN mems |-> Nil]
           read == [IdleReader EXCEPT !.pc = "seek", !.kind = "scan", !.scan = scan,
                                      !.snap = snap, !.src = src]
<1>1. Begin(read) /\ DOMAIN src = DOMAIN mems
    BY DEF NewIterator
<1> HIDE DEF src
<1>2. read = [pc |-> "seek", kind |-> "scan", key |-> 0, scan |-> scan,
              snap |-> snap, src |-> src, out |-> <<>>, seen |-> {}, touched |-> {}]
    BY NewScanIs, Zenon
<1> HIDE DEF read
<1>3. rd' = read /\ UNCHANGED <<mems, nextSeq, snapshot>>
    BY <1>1 DEF Begin
<1>4. /\ rd'.pc = "seek" /\ rd'.kind = "scan" /\ rd'.out = <<>>
      /\ rd'.scan = scan /\ rd'.snap = snap /\ rd'.src = src
    BY <1>2, <1>3
<1> QED BY <1>1, <1>3, <1>4, ReaderInvSeek

LEMMA ReaderInvClose ==
    ASSUME ReadersInv, ReadClose
    PROVE  ReaderInv'
<1>1. rd' = IdleReader /\ UNCHANGED <<nextSeq, snapshot>> /\ snapshot < nextSeq
    BY DEF ReadClose, ReadersInv, ReaderInv
<1>2. rd'.pc = "idle" /\ rd'.kind = "get" /\ rd'.snap = NoSnapshot /\ rd'.scan = IdleReader.scan
    BY <1>1, IdleReaderIs
<1> QED BY <1>1, <1>2 DEF ReaderInv, SnapChoice

\* advance moves a cursor past the key of Best and past nothing else.
LEMMA AdvanceCursor ==
    ASSUME ReadersInv, rd.pc \in {"seek", "run"}, Best # Nil, NEW i \in DOMAIN rd.src,
           NEW d, d = SkipKey(i, Cursors[i], Best.key)
    PROVE  /\ CursorOK(i, d)
           /\ d.head # Nil => Best.key < d.head.key
           /\ Rest(i, d.head) \subseteq Rest(i, Cursors[i].head)
           /\ \A m \in Rest(i, Cursors[i].head) :
                 VisibleAt(m) /\ Best.key < m.key => m \in Rest(i, d.head)
<1> DEFINE c == Cursors[i]
           key == Best.key
           N == Nodes(mems[i])
<1>1. ListInv /\ i \in DOMAIN mems
    BY RunFacts
<1>2. CursorOK(i, c)
    BY CursorsFacts
<1>3. /\ c.head \in N \cup {Nil} /\ c.pos \in N \cup {Nil}
      /\ Filtered => \A m \in Rest(i, c.head) \ {c.head} : VisibleAt(m) => m \in Rest(i, c.pos)
      /\ Filtered => Rest(i, c.pos) \subseteq Rest(i, c.head) \ {c.head}
    BY <1>2 DEF CursorOK
<1>4. N \subseteq Entries /\ N \subseteq NodeSet /\ Nil \notin N
    BY <1>1, MemFacts, NodeFacts
<1>5. Best \in Entries /\ key \in Nat
    BY BestIs, NodeFacts
<1>6. \A m \in Rest(i, c.head) : m \in N /\ key <= m.key /\ m.key \in Nat
    <2>1. \A m \in Rest(i, c.head) : m = Best \/ Before(Best, m)
        BY BestIs
    <2>2. Rest(i, c.head) \subseteq N
        BY DEF Rest
    <2> QED BY <1>4, <1>5, <2>1, <2>2, KeyOrder, NodeFacts
<1>7. c.head # Nil => c.head \in Rest(i, c.head)
    BY <1>3 DEF Rest
<1> HIDE DEF c, key, N
<1>8. CASE c.head.key # key
    <2>1. d = c
        BY <1>8 DEF SkipKey, c, key
    <2>2. c.head # Nil => key < c.head.key
        BY <1>5, <1>6, <1>7, <1>8
    <2>3. \A m \in Rest(i, c.head) : VisibleAt(m) /\ key < m.key => m \in Rest(i, d.head)
        BY <2>1
    <2> QED BY <1>2, <2>1, <2>2, <2>3 DEF c, key
<1>9. CASE c.head.key = key
    <2> DEFINE n == After(i, c)
               S == {m \in Shown(i, n) : m.key # key}
               h == Least(S)
    <2>1. c.head # Nil /\ c.head \in N
        <3>1. c.head # Nil
            BY <1>5, <1>9, NodeFacts
        <3> QED BY <1>3, <3>1
    <2>2. /\ n \in N \cup {Nil} /\ Rest(i, n) \subseteq Rest(i, c.head) \ {c.head}
          /\ \A m \in Rest(i, c.head) \ {c.head} : VisibleAt(m) => m \in Rest(i, n)
        <3>1. CASE Filtered
            BY <1>3, <3>1 DEF After
        <3>2. CASE ~Filtered
            <4>1. /\ NextNode(mems[i], c.head) \in N \cup {Nil}
                  /\ Rest(i, NextNode(mems[i], c.head)) = Rest(i, c.head) \ {c.head}
                BY <1>1, <2>1, RestFacts DEF N
            <4> QED BY <3>2, <4>1 DEF After
        <3> QED BY <3>1, <3>2
    <2> HIDE DEF n
    <2>3. d = CursorAt(i, h)
        <3>1. \A k \in Nat : \A p \in Nodes(mems[i]) \cup {Nil} : \A x :
                  x.head.key = k /\ After(i, x) = p =>
                      SkipKey(i, x, k) = CursorAt(i, Least({m \in Shown(i, p) : m.key # k}))
            BY <1>1, SkipKeyIs
        <3>2. \A p \in Nodes(mems[i]) \cup {Nil} : \A x :
                  x.head.key = key /\ After(i, x) = p =>
                      SkipKey(i, x, key) = CursorAt(i, Least({m \in Shown(i, p) : m.key # key}))
            BY <1>5, <3>1
        <3>3. \A x : x.head.key = key /\ After(i, x) = n =>
                      SkipKey(i, x, key) = CursorAt(i, Least({m \in Shown(i, n) : m.key # key}))
            BY <2>2, <3>2 DEF N
        <3>4. SkipKey(i, c, key) = CursorAt(i, Least({m \in Shown(i, n) : m.key # key}))
            BY <1>9, <3>3 DEF n
        <3> QED BY <3>4 DEF c, key
    <2>4. \A m \in S : /\ m \in Rest(i, c.head) /\ m # c.head /\ VisibleAt(m) /\ key < m.key
                       /\ m \in N
        <3>1. \A m \in S : m \in Rest(i, n) /\ VisibleAt(m) /\ m.key # key
            BY DEF Shown
        <3> QED BY <1>5, <1>6, <2>2, <3>1
    <2>5. \A m \in Rest(i, c.head) : VisibleAt(m) /\ key < m.key => m \in S
        <3>1. SUFFICES ASSUME NEW m \in Rest(i, c.head), VisibleAt(m), key < m.key PROVE m \in S
            OBVIOUS
        <3>2. m.key # key /\ m # c.head
            BY <1>5, <1>6, <1>9, <3>1
        <3> QED BY <2>2, <3>1, <3>2 DEF Shown
    <2> HIDE DEF S
    <2>6. /\ h \in N \cup {Nil}
          /\ h # Nil => h \in S
          /\ S \subseteq Rest(i, h)
        <3>1. S \subseteq Nodes(mems[i])
            BY <2>4 DEF N
        <3> QED BY <1>1, <3>1, RestOfLeast DEF N
    <2> HIDE DEF h
    <2>7. CursorOK(i, d)
        <3>1. h # Nil => VisibleAt(h)
            BY <2>4, <2>6
        <3> QED BY <1>1, <2>3, <2>6, <3>1, CursorAtOK DEF N
    <2>8. d.head = h
        BY <2>3 DEF CursorAt
    <2>9. Rest(i, h) \subseteq Rest(i, c.head)
        <3>1. SUFFICES ASSUME NEW m \in Rest(i, h) PROVE m \in Rest(i, c.head)
            OBVIOUS
        <3>2. h # Nil /\ m \in N /\ (m = h \/ Before(h, m))
            BY <3>1 DEF Rest, N
        <3>3. h \in Rest(i, c.head)
            BY <2>4, <2>6, <3>2
        <3>4. h \in N /\ (h = c.head \/ Before(c.head, h))
            BY <3>3 DEF Rest, N
        <3>5. m \in NodeSet /\ h \in NodeSet /\ c.head \in NodeSet
            BY <1>4, <2>1, <3>2, <3>4
        <3>6. m = c.head \/ Before(c.head, m)
            BY <3>2, <3>4, <3>5, NodeOrder
        <3> QED BY <2>1, <3>2, <3>6 DEF Rest, N
    <2>10. d.head # Nil => key < d.head.key
        BY <2>4, <2>6, <2>8
    <2>11. \A m \in Rest(i, c.head) : VisibleAt(m) /\ key < m.key => m \in Rest(i, d.head)
        BY <2>5, <2>6, <2>8
    <2> QED BY <2>7, <2>8, <2>9, <2>10, <2>11 DEF c, key
<1> QED BY <1>8, <1>9

\* Between the last key passed and Best a read finds what is there.
LEMMA ReachedLookup ==
    ASSUME ReadersInv, rd.pc \in {"seek", "run"}, NEW last, Behind(Cursors, last),
           NEW k \in Nat, last < k, Best = Nil \/ k <= Best.key, Filtered \/ k \notin rd.touched
    PROVE  Lookup(Linked, k, ReadAt) = BestResult(k)
<1>1. \A m \in Linked : m.key = k /\ VisibleAt(m) => Best # Nil /\ (m = Best \/ Before(Best, m))
    BY BestReaches
<1>2. Best # Nil => Best \in Linked
    BY BestIs
<1>3. k \in Int /\ Linked \subseteq Linked
    OBVIOUS
<1> QED BY <1>1, <1>2, <1>3, BestLookup

\* The keys a scan is asked for are those it does not skip before its end.
LEMMA WantedIs ==
    ASSUME ReadersInv
    PROVE  /\ \A k \in Nat : Wanted(k) <=> InScan(k) /\ ~PastEnd(k)
           /\ \A j, k \in Nat : PastEnd(j) /\ j <= k => PastEnd(k)
<1>1. rd.scan \in Scans \cup {IdleReader.scan}
    BY DEF ReadersInv, ReaderInv
<1>2. IdleReader.scan.kind = "range" /\ IdleReader.scan.start = 0 /\ IdleReader.scan.end = 0
    BY DEF IdleReader
<1>3. rd.scan.kind \in {"range", "prefix"} /\ rd.scan.start \in Nat /\ rd.scan.end \in Nat
    <2>1. CASE rd.scan \in Scans
        BY <2>1, ScansAssumption
    <2>2. CASE rd.scan = IdleReader.scan
        BY <1>2, <2>2
    <2> QED BY <1>1, <2>1, <2>2
<1>4. rd.scan.kind = "prefix" <=> rd.scan.kind # "range"
    BY <1>3
<1>5. \A k \in Nat : Wanted(k) <=> InScan(k) /\ ~PastEnd(k)
    BY <1>3, <1>4 DEF Wanted, InScan, PastEnd
<1>6. \A j, k \in Nat : PastEnd(j) /\ j <= k => PastEnd(k)
    BY <1>3 DEF PastEnd
<1> QED BY <1>5, <1>6

\* Returned, of the output o.
HasReturned(o, last) ==
    /\ o \in Seq(Entries)
    /\ \A i, j \in DOMAIN o : i < j => o[i].key < o[j].key
    /\ \A i \in DOMAIN o : o[i].key <= last
    /\ Filtered => {o[i] : i \in DOMAIN o} = {e \in Values(Linked, rd.snap) : e.key <= last}
    /\ ~Filtered => \A k \in Keys \ rd.touched : k <= last =>
           ((\E i \in DOMAIN o : o[i].key = k) <=> (Wanted(k) /\ Current(Linked, k) # ErrNotFound))

\* What comes after the last key passed, up to the key of Best.
LEMMA BestReturned ==
    ASSUME ReadersInv, rd.pc \in {"seek", "run"}, Best # Nil, NEW last, Behind(Cursors, last),
           last \in Int
    PROVE  /\ Filtered => \A x \in Linked :
                 last < x.key /\ x.key <= Best.key =>
                     (x \in Values(Linked, rd.snap)
                         <=> x = Best /\ Best.typ = RecordTypeValue /\ Wanted(Best.key))
           /\ ~Filtered => \A k \in Keys \ rd.touched :
                 last < k /\ k <= Best.key =>
                     (Current(Linked, k) # ErrNotFound
                         <=> k = Best.key /\ Best.typ = RecordTypeValue)
<1>1. /\ ListInv /\ Best \in Linked /\ Best \in Entries
    BY BestIs, RunFacts
<1>2. /\ Linked \subseteq Entries
      /\ \A e \in Linked : e.seq \in Nat \ {0}
      /\ \A e, f \in Linked : e.seq = f.seq => e = f
    BY <1>1, LinkedFacts
<1>3. \A x \in Entries : x.key \in Keys /\ x.key \in Nat
    BY NodeFacts
<1>4. ErrNotFound = 0
    BY DEF ErrNotFound
<1>5. Filtered => \A x \in Linked :
          last < x.key /\ x.key <= Best.key =>
              (x \in Values(Linked, rd.snap)
                  <=> x = Best /\ Best.typ = RecordTypeValue /\ Wanted(Best.key))
    <2>1. SUFFICES ASSUME Filtered, NEW x \in Linked, last < x.key, x.key <= Best.key
          PROVE  x \in Values(Linked, rd.snap)
                     <=> x = Best /\ Best.typ = RecordTypeValue /\ Wanted(Best.key)
        OBVIOUS
    <2>2. x.key \in Nat
        BY <1>2, <1>3
    <2>3. ReadAt = rd.snap
        BY <2>1 DEF ReadAt
    <2>4. Lookup(Linked, x.key, rd.snap) = BestResult(x.key)
        BY <2>1, <2>2, <2>3, ReachedLookup
    <2>5. x.seq = BestResult(x.key) <=> x = Best /\ Best.typ = RecordTypeValue
        BY <1>1, <1>2, <1>4 DEF BestResult
    <2>6. x \in Values(Linked, rd.snap) <=> x.seq = BestResult(x.key) /\ Wanted(x.key)
        BY <2>4 DEF Values
    <2> QED BY <2>5, <2>6
<1>6. ~Filtered => \A k \in Keys \ rd.touched :
          last < k /\ k <= Best.key =>
              (Current(Linked, k) # ErrNotFound <=> k = Best.key /\ Best.typ = RecordTypeValue)
    <2>1. SUFFICES ASSUME ~Filtered, NEW k \in Keys \ rd.touched, last < k, k <= Best.key
          PROVE  Current(Linked, k) # ErrNotFound <=> k = Best.key /\ Best.typ = RecordTypeValue
        OBVIOUS
    <2>2. k \in Nat
        BY KeysAssumption
    <2>3. ReadAt = MaxSeq
        BY <2>1 DEF ReadAt
    <2>4. Current(Linked, k) = BestResult(k)
        BY <2>1, <2>2, <2>3, ReachedLookup DEF Current
    <2>5. Best.seq # ErrNotFound
        BY <1>1, <1>2, <1>4
    <2> QED BY <2>4, <2>5 DEF BestResult
<1> QED BY <1>5, <1>6

LEMMA AdvanceReturned ==
    ASSUME ReadersInv, rd.pc \in {"seek", "run"}, Best # Nil, rd.kind = "scan", ~ScanEnds(Best),
           NEW last, last \in Keys \cup {-1}, Behind(Cursors, last), Returned(last),
           NEW o, o = IF Best.typ = RecordTypeValue /\ InScan(Best.key)
                      THEN Append(rd.out, Best) ELSE rd.out
    PROVE  HasReturned(o, Best.key)
<1> DEFINE e == Best
           key == Best.key
           adds == e.typ = RecordTypeValue /\ Wanted(key)
<1>1. ListInv /\ e \in Entries /\ e \in Linked /\ Linked \subseteq Entries
    BY BestIs, RunFacts, LinkedFacts
<1>2. key \in Nat /\ key \in Keys /\ last < key /\ last \in Int
    <2>1. last < key
        BY BestReaches
    <2> QED BY <1>1, <2>1, NodeFacts, KeysAssumption
<1>3. o = IF adds THEN Append(rd.out, e) ELSE rd.out
    <2>1. e.typ = RecordTypeValue => e.typ # RecordTypeTombstone
        BY DEF RecordTypeValue, RecordTypeTombstone
    <2>2. e.typ = RecordTypeValue => ~PastEnd(key)
        BY <2>1 DEF ScanEnds
    <2> QED BY <1>2, <2>2, WantedIs
<1>4. /\ rd.out \in Seq(Entries)
      /\ \A i, j \in DOMAIN rd.out : i < j => rd.out[i].key < rd.out[j].key
      /\ \A i \in DOMAIN rd.out : rd.out[i].key <= last
      /\ Filtered => {rd.out[i] : i \in DOMAIN rd.out}
                         = {x \in Values(Linked, rd.snap) : x.key <= last}
      /\ ~Filtered => \A k \in Keys \ rd.touched : k <= last =>
             ((\E i \in DOMAIN rd.out : rd.out[i].key = k)
                  <=> (Wanted(k) /\ Current(Linked, k) # ErrNotFound))
    BY DEF Returned
<1>5. /\ Filtered => \A x \in Linked : last < x.key /\ x.key <= key =>
                        (x \in Values(Linked, rd.snap) <=> x = e /\ adds)
      /\ ~Filtered => \A k \in Keys \ rd.touched : last < k /\ k <= key =>
            (Current(Linked, k) # ErrNotFound <=> k = key /\ e.typ = RecordTypeValue)
    BY <1>2, BestReturned
<1>6. \A x \in Linked : x.key \in Int
    BY <1>1, NodeFacts
<1>7. \A k \in Keys : k \in Int
    BY KeysAssumption
<1>8. \A i \in DOMAIN rd.out : rd.out[i] \in Entries /\ rd.out[i].key \in Int
    <2>1. \A i \in DOMAIN rd.out : rd.out[i] \in Entries
        BY <1>4
    <2> QED BY <2>1, NodeFacts
<1> DEFINE L == Len(rd.out)
<1>9. L \in Nat /\ DOMAIN rd.out = 1..L
    BY <1>4
<1>10. Values(Linked, rd.snap) \subseteq Linked
    BY DEF Values
<1>11. CASE ~adds
    <2>1. o = rd.out
        BY <1>3, <1>11
    <2>2. \A i \in DOMAIN o : o[i].key <= key
        BY <1>2, <1>4, <1>8, <2>1
    <2>3. Filtered => {o[i] : i \in DOMAIN o} = {x \in Values(Linked, rd.snap) : x.key <= key}
        <3>1. SUFFICES ASSUME Filtered
              PROVE {x \in Values(Linked, rd.snap) : x.key <= last}
                        = {x \in Values(Linked, rd.snap) : x.key <= key}
            BY <1>4, <2>1
        <3>2. \A x \in Values(Linked, rd.snap) : x.key <= key <=> x.key <= last
            BY <1>2, <1>5, <1>6, <1>10, <1>11, <3>1
        <3> QED BY <3>2
    <2>4. ~Filtered => \A k \in Keys \ rd.touched : k <= key =>
              ((\E i \in DOMAIN o : o[i].key = k) <=> (Wanted(k) /\ Current(Linked, k) # ErrNotFound))
        <3>1. SUFFICES ASSUME ~Filtered, NEW k \in Keys \ rd.touched, k <= key
              PROVE  (\E i \in DOMAIN rd.out : rd.out[i].key = k)
                         <=> (Wanted(k) /\ Current(Linked, k) # ErrNotFound)
            BY <2>1
        <3>2. CASE k <= last
            BY <1>4, <3>1, <3>2
        <3>3. CASE last < k
            <4>1. Current(Linked, k) # ErrNotFound <=> k = key /\ e.typ = RecordTypeValue
                BY <1>5, <3>1, <3>3
            <4>2. \A i \in DOMAIN rd.out : rd.out[i].key # k
                BY <1>2, <1>4, <1>7, <1>8, <3>3
            <4> QED BY <1>11, <4>1, <4>2
        <3>4. k <= last \/ last < k
            <4>1. k \in Int /\ last \in Int
                BY <1>2, <1>7
            <4> QED BY <4>1
        <3> QED BY <3>2, <3>3, <3>4
    <2> QED BY <1>4, <2>1, <2>2, <2>3, <2>4 DEF HasReturned
<1>12. CASE adds
    <2>1. /\ o \in Seq(Entries) /\ DOMAIN o = 1..(L + 1) /\ o[L + 1] = e
          /\ \A i \in 1..L : o[i] = rd.out[i]
        <3>1. o = Append(rd.out, e)
            BY <1>3, <1>12
        <3> QED BY <1>1, <1>4, <3>1
    <2>2. \A i, j \in DOMAIN o : i < j => o[i].key < o[j].key
        <3>1. SUFFICES ASSUME NEW i \in DOMAIN o, NEW j \in DOMAIN o, i < j PROVE o[i].key < o[j].key
            OBVIOUS
        <3>2. i \in 1..L /\ o[i] = rd.out[i] /\ rd.out[i].key \in Int /\ rd.out[i].key <= last
            BY <1>4, <1>8, <1>9, <2>1, <3>1
        <3>3. CASE j = L + 1
            BY <1>2, <2>1, <3>2, <3>3
        <3>4. CASE j # L + 1
            <4>1. j \in 1..L /\ o[j] = rd.out[j]
                BY <1>9, <2>1, <3>4
            <4> QED BY <1>4, <1>9, <3>1, <3>2, <4>1
        <3> QED BY <3>3, <3>4
    <2>3. \A i \in DOMAIN o : o[i].key <= key
        <3>1. SUFFICES ASSUME NEW i \in DOMAIN o PROVE o[i].key <= key
            OBVIOUS
        <3>2. CASE i = L + 1
            BY <1>2, <2>1, <3>2
        <3>3. CASE i # L + 1
            <4>1. i \in 1..L
                BY <1>9, <2>1, <3>3
            <4> QED BY <1>2, <1>4, <1>8, <1>9, <2>1, <4>1
        <3> QED BY <3>2, <3>3
    <2>4. \A P : P \in {o[i] : i \in DOMAIN o}
                    <=> P \in {rd.out[i] : i \in DOMAIN rd.out} \/ P = e
        <3>1. DOMAIN o = DOMAIN rd.out \cup {L + 1}
            BY <1>9, <2>1
        <3>2. \A i \in DOMAIN rd.out : o[i] = rd.out[i]
            BY <1>9, <2>1
        <3> QED BY <2>1, <3>1, <3>2
    <2>5. Filtered => {o[i] : i \in DOMAIN o} = {x \in Values(Linked, rd.snap) : x.key <= key}
        <3>1. SUFFICES ASSUME Filtered
              PROVE  \A x : (x \in Values(Linked, rd.snap) /\ x.key <= last) \/ x = e
                               <=> x \in Values(Linked, rd.snap) /\ x.key <= key
            BY <1>4, <2>4
        <3>2. e \in Values(Linked, rd.snap) /\ e.key <= key
            BY <1>1, <1>2, <1>5, <1>12, <3>1
        <3>3. \A x \in Values(Linked, rd.snap) : x.key <= key <=> x.key <= last \/ x = e
            BY <1>2, <1>5, <1>6, <1>10, <3>1
        <3> QED BY <3>2, <3>3
    <2>6. ~Filtered => \A k \in Keys \ rd.touched : k <= key =>
              ((\E i \in DOMAIN o : o[i].key = k) <=> (Wanted(k) /\ Current(Linked, k) # ErrNotFound))
        <3>1. SUFFICES ASSUME ~Filtered, NEW k \in Keys \ rd.touched, k <= key
              PROVE  (\E i \in DOMAIN o : o[i].key = k)
                         <=> (Wanted(k) /\ Current(Linked, k) # ErrNotFound)
            OBVIOUS
        <3>2. (\E i \in DOMAIN o : o[i].key = k)
                  <=> ((\E i \in DOMAIN rd.out : rd.out[i].key = k) \/ key = k)
            <4>1. DOMAIN o = DOMAIN rd.out \cup {L + 1}
                BY <1>9, <2>1
            <4>2. \A i \in DOMAIN rd.out : o[i] = rd.out[i]
                BY <1>9, <2>1
            <4> QED BY <2>1, <4>1, <4>2
        <3>3. CASE k <= last
            <4>1. k # key
                BY <1>2, <1>7, <3>3
            <4> QED BY <1>4, <3>1, <3>2, <3>3, <4>1
        <3>4. CASE last < k
            <4>1. Current(Linked, k) # ErrNotFound <=> k = key /\ e.typ = RecordTypeValue
                BY <1>5, <3>1, <3>4
            <4>2. \A i \in DOMAIN rd.out : rd.out[i].key # k
                BY <1>2, <1>4, <1>7, <1>8, <3>4
            <4> QED BY <1>12, <3>2, <4>1, <4>2
        <3>5. k <= last \/ last < k
            <4>1. k \in Int /\ last \in Int
                BY <1>2, <1>7
            <4> QED BY <4>1
        <3> QED BY <3>3, <3>4, <3>5
    <2> QED BY <2>1, <2>2, <2>3, <2>5, <2>6 DEF HasReturned
<1> QED BY <1>11, <1>12

LEMMA ReaderInvAdvance ==
    ASSUME ReadersInv, ReadAdvance
    PROVE  ReaderInv'
<1> DEFINE e == Best
<1>1. /\ rd.pc \in {"seek", "run"} /\ ~GetEnds(e) /\ ~ScanEnds(e)
      /\ UNCHANGED <<mems, nextSeq, mu, wr, snapshot>>
    BY DEF ReadAdvance
<1>2. /\ ListInv /\ RunInv /\ DOMAIN Cursors = DOMAIN rd.src /\ DOMAIN rd.src \subseteq DOMAIN mems
      /\ rd.kind \in {"get", "scan"} /\ (rd.kind = "get" => rd.key \in Keys)
      /\ ReaderInv /\ ReaderShape
    BY <1>1, RunFacts DEF ReadersInv, ListInv
<1>3. e # Nil /\ (rd.kind = "get" => e.key < rd.key)
    <2>1. e # Nil
        BY <1>1, <1>2 DEF GetEnds, ScanEnds
    <2>2. rd.kind = "get" => ~(e.key >= rd.key)
        BY <1>1 DEF GetEnds
    <2>3. e.key \in Int /\ (rd.kind = "get" => rd.key \in Int)
        BY <1>1, <1>2, <2>1, BestIs, NodeFacts, KeysAssumption
    <2> QED BY <2>1, <2>2, <2>3
<1>4. e \in Entries /\ e.key \in Keys /\ e.key \in Nat
    BY <1>1, <1>3, BestIs, NodeFacts
<1> DEFINE src == [i \in DOMAIN Cursors |-> SkipKey(i, Cursors[i], Best.key)]
           out == IF rd.kind = "scan" /\ e.typ = RecordTypeValue /\ InScan(e.key)
                  THEN Append(rd.out, e) ELSE rd.out
<1>5. rd' = [rd EXCEPT !.pc = "run", !.src = src, !.out = out]
    BY DEF ReadAdvance
<1>6. DOMAIN src = DOMAIN rd.src /\ \A i \in DOMAIN rd.src : src[i] = SkipKey(i, Cursors[i], Best.key)
    BY <1>2
<1>7. rd.kind = "scan" => out = IF Best.typ = RecordTypeValue /\ InScan(Best.key)
                                THEN Append(rd.out, Best) ELSE rd.out
    OBVIOUS
<1> HIDE DEF src, out, e
<1>8. rd' = [pc |-> "run", kind |-> rd.kind, key |-> rd.key, scan |-> rd.scan,
             snap |-> rd.snap, src |-> src, out |-> out, seen |-> rd.seen,
             touched |-> rd.touched]
    BY <1>2, <1>5, MovedReadIs
<1>k. PICK key \in Keys : key = e.key
    BY <1>4
<1>s. PICK s, o : s = src /\ o = out
    OBVIOUS
<1>9. /\ rd'.pc = "run" /\ rd'.kind = rd.kind /\ rd'.key = rd.key /\ rd'.scan = rd.scan
      /\ rd'.snap = rd.snap /\ rd'.src = s /\ rd'.out = o /\ rd'.seen = rd.seen
      /\ rd'.touched = rd.touched
    BY <1>8, <1>s
<1>10. /\ Filtered' = Filtered /\ Linked' = Linked /\ SnapChoice' = SnapChoice
       /\ \A x : VisibleAt(x)' <=> VisibleAt(x)
       /\ \A i, n : Rest(i, n)' = Rest(i, n)
       /\ \A k : Wanted(k)' <=> Wanted(k)
    BY <1>1, <1>9 DEF Filtered, VisibleAt, Linked, Rest, SnapChoice, Wanted
<1>11. ASSUME NEW i \in DOMAIN rd.src
       PROVE  /\ CursorOK(i, s[i])
              /\ s[i].head # Nil => key < s[i].head.key
              /\ Rest(i, s[i].head) \subseteq Rest(i, Cursors[i].head)
              /\ \A m \in Rest(i, Cursors[i].head) :
                    VisibleAt(m) /\ key < m.key => m \in Rest(i, s[i].head)
    <2> DEFINE d == s[i]
    <2>1. d = SkipKey(i, Cursors[i], Best.key)
        BY <1>6, <1>s, <1>11
    <2> HIDE DEF d
    <2>2. /\ CursorOK(i, d)
          /\ d.head # Nil => Best.key < d.head.key
          /\ Rest(i, d.head) \subseteq Rest(i, Cursors[i].head)
          /\ \A m \in Rest(i, Cursors[i].head) :
                VisibleAt(m) /\ Best.key < m.key => m \in Rest(i, d.head)
        BY <1>1, <1>3, <1>11, <2>1, AdvanceCursor DEF e
    <2> QED BY <1>k, <2>2 DEF d, e
<1>12. PICK last \in Keys \cup {-1} : /\ Behind(Cursors, last)
                                      /\ rd.kind = "get" => last < rd.key
                                      /\ rd.kind = "scan" => Returned(last)
    BY <1>1, CursorsFacts
<1>13. last < key /\ last \in Int /\ key \in Int
    <2>1. last < Best.key
        BY <1>1, <1>3, <1>12, BestReaches DEF e
    <2> QED BY <1>k, <2>1, KeysAssumption DEF e
<1>14. \A i \in DOMAIN rd.src : CursorOK(i, s[i])'
    <2>1. SUFFICES ASSUME NEW i \in DOMAIN rd.src PROVE CursorOK(i, s[i])'
        OBVIOUS
    <2>2. CursorOK(i, s[i])
        BY <1>11, <2>1
    <2> QED BY <1>1, <1>10, <2>2 DEF CursorOK
<1>15. Behind(rd.src, key)'
    <2>1. SUFFICES ASSUME NEW i \in DOMAIN rd.src
          PROVE  /\ s[i].head # Nil => key < s[i].head.key
                 /\ \A m \in Nodes(mems[i]) :
                       VisibleAt(m) /\ key < m.key
                         /\ (Filtered \/ m.key \notin rd.touched \/ i + 1 \in DOMAIN rd.src)
                       => m \in Rest(i, s[i].head)
        BY <1>1, <1>6, <1>s, <1>9, <1>10 DEF Behind
    <2>2. SUFFICES ASSUME NEW m \in Nodes(mems[i]), VisibleAt(m), key < m.key,
                          Filtered \/ m.key \notin rd.touched \/ i + 1 \in DOMAIN rd.src
                   PROVE  m \in Rest(i, s[i].head)
        BY <1>11, <2>1
    <2>3. m.key \in Int
        BY <1>2, <2>1, <2>2, MemFacts, NodeFacts
    <2>4. last < m.key
        BY <1>13, <2>2, <2>3
    <2>5. m \in Rest(i, Cursors[i].head)
        BY <1>2, <1>12, <2>1, <2>2, <2>4 DEF Behind
    <2> QED BY <1>11, <2>1, <2>2, <2>5
<1>16. rd.kind = "scan" => Returned(key)'
    <2>1. SUFFICES ASSUME rd.kind = "scan" PROVE Returned(key)'
        OBVIOUS
    <2>2. HasReturned(o, key)
        BY <1>1, <1>3, <1>7, <1>k, <1>s, <1>12, <2>1, AdvanceReturned DEF e
    <2>3. Values(Linked, rd.snap)' = Values(Linked, rd.snap)
        BY <1>9, <1>10 DEF Values, Wanted
    <2> QED BY <1>9, <1>10, <2>2, <2>3 DEF HasReturned, Returned, Current
<1>17. rd.kind = "get" /\ ~Filtered => Lookup(Ahead', rd.key, MaxSeq) \in rd.seen
    <2>1. SUFFICES ASSUME rd.kind = "get", ~Filtered PROVE Lookup(Ahead', rd.key, MaxSeq) \in rd.seen
        OBVIOUS
    <2>2. Lookup(Ahead, rd.key, MaxSeq) \in rd.seen
        BY <1>2, <2>1 DEF RunInv
    <2> DEFINE A == Ahead
               B == Ahead'
    <2>3. A = UNION {Rest(i, Cursors[i].head) : i \in DOMAIN rd.src}
        BY <1>1, <2>1, CursorsFacts
    <2>4. B = UNION {Rest(i, s[i].head) : i \in DOMAIN rd.src}
        <3>1. B = UNION {Rest(i, s[i].head)' : i \in DOMAIN s}
            BY <1>9 DEF Ahead
        <3> QED BY <1>6, <1>s, <1>10, <3>1
    <2> HIDE DEF A, B
    <2>5. \A x : x.key = rd.key => (x \in A <=> x \in B)
        <3>1. \A x \in B : x \in A
            BY <1>11, <2>3, <2>4
        <3>2. \A x : VisibleAt(x)
            BY <2>1 DEF VisibleAt
        <3>3. \A x \in A : x.key = rd.key => x \in B
            BY <1>3, <1>k, <1>11, <2>1, <2>3, <2>4, <3>2
        <3> QED BY <3>1, <3>3
    <2>6. Lookup(A, rd.key, MaxSeq) = Lookup(B, rd.key, MaxSeq)
        BY <2>5, LookupOfKey
    <2> QED BY <2>2, <2>6 DEF A, B
<1>18. RunInv'
    <2>1. \E n \in DOMAIN mems' : DOMAIN rd'.src = 1..n
        BY <1>1, <1>2, <1>6, <1>s, <1>9 DEF RunInv
    <2>2. \A j \in DOMAIN mems' \ DOMAIN rd'.src : \A x \in Nodes(mems'[j]) :
             x.key \in rd'.touched /\ ~(Filtered /\ VisibleAt(x))'
        BY <1>1, <1>2, <1>6, <1>s, <1>9, <1>10 DEF RunInv
    <2>3. \E k \in Keys : /\ Behind(rd.src, k)'
                          /\ rd'.kind = "get" => k < rd'.key
                          /\ rd'.kind = "scan" => Returned(k)'
        BY <1>3, <1>k, <1>9, <1>15, <1>16
    <2>4. \A i \in DOMAIN rd'.src : CursorOK(i, rd.src[i])'
        BY <1>6, <1>s, <1>9, <1>14
    <2>5. (rd.kind = "get" /\ ~Filtered => Lookup(Ahead, rd.key, MaxSeq) \in rd.seen)'
        BY <1>9, <1>10, <1>17
    <2> QED BY <1>9, <2>1, <2>2, <2>3, <2>4, <2>5 DEF RunInv
<1> QED BY <1>1, <1>2, <1>9, <1>10, <1>18 DEF ReaderInv

\* When a scan ends nothing it was asked for is left.
LEMMA EndLookup ==
    ASSUME ReadersInv, rd.pc \in {"seek", "run"}, ScanEnds(Best), NEW last, Behind(Cursors, last),
           NEW k \in Nat, last < k, Wanted(k), Filtered \/ k \notin rd.touched
    PROVE  Lookup(Linked, k, ReadAt) = ErrNotFound
<1>1. CASE Best = Nil
    BY <1>1, ReachedLookup DEF BestResult
<1>2. CASE Best # Nil
    <2>1. PastEnd(Best.key) /\ ~PastEnd(k)
        BY <1>2, WantedIs DEF ScanEnds
    <2>2. Best.key \in Nat
        BY <1>2, BestIs, NodeFacts
    <2>3. ~(Best.key <= k)
        BY <2>1, <2>2, WantedIs
    <2>4. k <= Best.key /\ k # Best.key
        BY <2>2, <2>3
    <2> QED BY <2>4, ReachedLookup DEF BestResult
<1> QED BY <1>1, <1>2

LEMMA ReaderInvReadEnd ==
    ASSUME ReadersInv, ReadEnd
    PROVE  ReaderInv'
<1>1. /\ rd.pc \in {"seek", "run"} /\ (GetEnds(Best) \/ ScanEnds(Best))
      /\ UNCHANGED <<mems, nextSeq, mu, wr, snapshot>>
    BY DEF ReadEnd
<1>2. /\ ListInv /\ RunInv /\ DOMAIN Cursors = DOMAIN rd.src /\ DOMAIN rd.src \subseteq DOMAIN mems
      /\ rd.kind \in {"get", "scan"} /\ (rd.kind = "get" => rd.key \in Keys)
      /\ ReaderInv /\ ReaderShape
    BY <1>1, RunFacts DEF ReadersInv, ListInv
<1> DEFINE src == [i \in {} |-> Nil]
           out == IF rd.kind = "get" THEN <<GetResult(Best)>> ELSE rd.out
<1>3. rd' = [rd EXCEPT !.pc = "end", !.src = src, !.out = out]
    BY DEF ReadEnd
<1>4. /\ rd.kind = "get" => out[1] = GetResult(Best)
      /\ rd.kind = "scan" => out = rd.out
    OBVIOUS
<1> HIDE DEF src, out
<1>5. rd' = [pc |-> "end", kind |-> rd.kind, key |-> rd.key, scan |-> rd.scan,
             snap |-> rd.snap, src |-> src, out |-> out, seen |-> rd.seen,
             touched |-> rd.touched]
    BY <1>2, <1>3, MovedReadIs
<1>6. /\ rd'.pc = "end" /\ rd'.kind = rd.kind /\ rd'.key = rd.key /\ rd'.scan = rd.scan
      /\ rd'.snap = rd.snap /\ rd'.out = out /\ rd'.seen = rd.seen /\ rd'.touched = rd.touched
    BY <1>5
<1>7. /\ Filtered' = Filtered /\ Linked' = Linked /\ SnapChoice' = SnapChoice
      /\ \A k : Wanted(k)' <=> Wanted(k)
    BY <1>1, <1>6 DEF Filtered, Linked, SnapChoice, Wanted
<1>8. PICK last \in Keys \cup {-1} : /\ Behind(Cursors, last)
                                     /\ rd.kind = "get" => last < rd.key
                                     /\ rd.kind = "scan" => Returned(last)
    BY <1>1, CursorsFacts
<1>9. last \in Int /\ \A k \in Keys : k \in Nat
    BY KeysAssumption
<1>10. ASSUME rd.kind = "get"
       PROVE  IF Filtered THEN GetResult(Best) = Lookup(Linked, rd.key, rd.snap)
              ELSE GetResult(Best) \in rd.seen
    <2>1. rd.key \in Nat /\ last < rd.key /\ (Best = Nil \/ rd.key <= Best.key)
        <3>1. rd.key \in Nat /\ last < rd.key
            BY <1>2, <1>8, <1>9, <1>10
        <3>2. Best = Nil \/ Best.key >= rd.key
            BY <1>1, <1>10 DEF GetEnds, ScanEnds
        <3>3. Best # Nil => Best.key \in Nat
            BY <1>1, BestIs, NodeFacts
        <3> QED BY <3>1, <3>2, <3>3
    <2>2. GetResult(Best) = BestResult(rd.key)
        BY DEF GetResult, BestResult
    <2>3. CASE Filtered
        <3>1. Lookup(Linked, rd.key, ReadAt) = BestResult(rd.key)
            BY <1>1, <1>8, <2>1, <2>3, ReachedLookup
        <3> QED BY <2>2, <2>3, <3>1 DEF ReadAt
    <2>4. CASE ~Filtered
        <3> DEFINE S == Ahead
        <3>1. S = UNION {Rest(i, Cursors[i].head) : i \in DOMAIN rd.src}
            BY <1>1, <2>4, CursorsFacts
        <3>2. Lookup(S, rd.key, MaxSeq) \in rd.seen
            BY <1>2, <1>10, <2>4 DEF RunInv
        <3> HIDE DEF S
        <3>3. S \subseteq Linked
            <4>1. \A i \in DOMAIN rd.src : Rest(i, Cursors[i].head) \subseteq Linked
                BY <1>2 DEF Rest, Linked
            <4> QED BY <3>1, <4>1
        <3>4. \A m \in S : Best # Nil /\ (m = Best \/ Before(Best, m))
            BY <1>1, <3>1, BestIs
        <3>5. Best # Nil => Best \in S
            <4>1. SUFFICES ASSUME Best # Nil PROVE Best \in S
                OBVIOUS
            <4>2. PICK i \in DOMAIN rd.src : Cursors[i].head = Best
                BY <1>1, <4>1, BestIs
            <4>3. CursorOK(i, Cursors[i])
                BY <1>1, <4>2, CursorsFacts
            <4>4. Best \in Rest(i, Cursors[i].head)
                BY <4>1, <4>2, <4>3 DEF CursorOK, Rest
            <4> QED BY <3>1, <4>2, <4>4
        <3>6. Lookup(S, rd.key, ReadAt) = BestResult(rd.key)
            BY <1>1, <2>1, <3>3, <3>4, <3>5, BestLookup
        <3> QED BY <2>2, <2>4, <3>2, <3>6 DEF ReadAt
    <2> QED BY <2>3, <2>4
<1>11. GetLinearizable'
    BY <1>4, <1>6, <1>7, <1>10 DEF GetLinearizable
<1>12. rd.kind = "scan" =>
           /\ rd.out \in Seq(Entries)
           /\ \A i, j \in DOMAIN rd.out : i < j => rd.out[i].key < rd.out[j].key
           /\ \A i \in DOMAIN rd.out : rd.out[i].key <= last
           /\ Filtered => {rd.out[i] : i \in DOMAIN rd.out}
                              = {x \in Values(Linked, rd.snap) : x.key <= last}
           /\ ~Filtered => \A k \in Keys \ rd.touched : k <= last =>
                  ((\E i \in DOMAIN rd.out : rd.out[i].key = k)
                       <=> (Wanted(k) /\ Current(Linked, k) # ErrNotFound))
    BY <1>8 DEF Returned
<1>13. rd.kind = "scan" => ScanEnds(Best)
    BY <1>1 DEF GetEnds
<1>14. ASSUME rd.kind = "scan", Filtered, NEW x \in Values(Linked, rd.snap) PROVE x.key <= last
    <2>1. x \in Linked /\ x.seq = Lookup(Linked, x.key, rd.snap) /\ Wanted(x.key)
        BY <1>14 DEF Values
    <2>2. x.key \in Nat /\ x.seq # ErrNotFound
        <3>1. x \in Entries /\ x.seq \in Nat \ {0}
            BY <1>2, <2>1, LinkedFacts
        <3> QED BY <3>1, NodeFacts DEF ErrNotFound
    <2>3. ~(last < x.key)
        <3>1. SUFFICES ASSUME last < x.key PROVE FALSE
            OBVIOUS
        <3>2. Lookup(Linked, x.key, ReadAt) = ErrNotFound
            BY <1>1, <1>8, <1>13, <1>14, <2>1, <2>2, <3>1, EndLookup
        <3> QED BY <1>14, <2>1, <2>2, <3>2 DEF ReadAt
    <2> QED BY <1>9, <2>2, <2>3
<1>15. EndInv'
    <2>1. SUFFICES ASSUME rd.kind = "scan"
          PROVE  /\ rd.out \in Seq(Entries)
                 /\ \A i, j \in DOMAIN rd.out : i < j => rd.out[i].key < rd.out[j].key
                 /\ Filtered => {rd.out[i] : i \in DOMAIN rd.out} = Values(Linked, rd.snap)'
        BY <1>4, <1>6, <1>7 DEF EndInv
    <2>2. Values(Linked, rd.snap)' = Values(Linked, rd.snap)
        BY <1>6, <1>7 DEF Values, Wanted
    <2>3. Filtered => {x \in Values(Linked, rd.snap) : x.key <= last} = Values(Linked, rd.snap)
        BY <1>14, <2>1
    <2> QED BY <1>12, <2>1, <2>2, <2>3
<1>16. ScanComplete'
    <2>1. SUFFICES ASSUME rd.kind = "scan", ~Filtered
          PROVE  /\ \A i, j \in DOMAIN rd.out : i < j => rd.out[i].key < rd.out[j].key
                 /\ \A k \in Keys \ rd.touched :
                       (\E i \in DOMAIN rd.out : rd.out[i].key = k)
                           <=> (Wanted(k) /\ Current(Linked, k) # ErrNotFound)
        BY <1>4, <1>6, <1>7 DEF ScanComplete, Current
    <2>2. SUFFICES ASSUME NEW k \in Keys \ rd.touched
          PROVE  (\E i \in DOMAIN rd.out : rd.out[i].key = k)
                     <=> (Wanted(k) /\ Current(Linked, k) # ErrNotFound)
        BY <1>12, <2>1
    <2>3. k \in Nat /\ last \in Int
        BY <1>9
    <2>4. CASE k <= last
        BY <1>12, <2>1, <2>2, <2>4
    <2>5. CASE last < k
        <3>1. Wanted(k) => Lookup(Linked, k, ReadAt) = ErrNotFound
            BY <1>1, <1>8, <1>13, <2>1, <2>2, <2>3, <2>5, EndLookup
        <3>2. ReadAt = MaxSeq
            BY <2>1 DEF ReadAt
        <3>3. \A i \in DOMAIN rd.out : rd.out[i].key # k
            <4>1. \A i \in DOMAIN rd.out : rd.out[i] \in Entries /\ rd.out[i].key <= last
                BY <1>12, <2>1
            <4>2. \A i \in DOMAIN rd.out : rd.out[i].key \in Int
                BY <4>1, NodeFacts
            <4> QED BY <2>3, <2>5, <4>1, <4>2
        <3> QED BY <3>1, <3>2, <3>3 DEF Current
    <2>6. k <= last \/ last < k
        BY <2>3
    <2> QED BY <2>4, <2>5, <2>6
<1> QED BY <1>1, <1>2, <1>6, <1>7, <1>11, <1>15, <1>16 DEF ReaderInv

LEMMA ReadersInvStep ==
    ReadersInv /\ [Next]_vars => ReadersInv'
<1> SUFFICES ASSUME ReadersInv, [Next]_vars PROVE ReadersInv'
    OBVIOUS
<1>1. ListInv'
    BY ListInvStep DEF ReadersInv
<1>2. ReaderInv'
    <2>1. CASE InsertLink
        BY <2>1, ReaderInvLink, ReaderInvWrites
    <2>2. CASE Write
        BY <2>1, <2>2, ReaderInvWrites DEF Write
    <2>3. CASE Read
        BY <2>3, ReaderInvWrites, ReaderInvGet, ReaderInvIterator, ReaderInvAdvance,
           ReaderInvReadEnd, ReaderInvClose DEF Read
    <2>4. CASE UNCHANGED vars
        BY <2>4, ReaderInvWrites
    <2> QED BY <2>2, <2>3, <2>4 DEF Next
<1> QED BY <1>1, <1>2 DEF ReadersInv

(***************************************************************************)
(* The reader's side of the argument, for any number of keys, memtables    *)
(* and levels: its cursors stand on visible nodes of their lists, nothing  *)
(* visible behind the last key passed is left out except what was written  *)
(* meanwhile, and what it has returned so far is right.                    *)
(***************************************************************************)
THEOREM ReadersInvariantHolds == Spec => []ReadersInv
<1>1. Init => ReadersInv
    BY ReaderInvInit
<1>2. ReadersInv /\ [Next]_vars => ReadersInv'
    BY ReadersInvStep
<1> QED BY <1>1, <1>2, PTL DEF Spec

(***************************************************************************)
(* Get beside writers: it returns a value that was current at some moment  *)
(* between its call and its return, and at a snapshot the one that was     *)
(* current when the snapshot was taken.                                    *)
(***************************************************************************)
THEOREM ReadersGetLinearizable == Spec => []GetLinearizable
<1>1. ReadersInv => GetLinearizable
    BY DEF ReadersInv, ReaderInv, GetLinearizable
<1> QED BY <1>1, ReadersInvariantHolds, PTL

(***************************************************************************)
(* A scan without a snapshot returns its keys in strictly ascending order, *)
(* and of those nobody writes meanwhile exactly the ones with a value.     *)
(***************************************************************************)
THEOREM ReadersScanComplete == Spec => []ScanComplete
<1>1. ReadersInv => ScanComplete
    <2> SUFFICES ASSUME ReadersInv PROVE ScanComplete
        OBVIOUS
    <2>1. rd.pc \in {"idle", "seek", "run", "end"} /\ ReaderInv
        BY DEF ReadersInv, ListInv, TypeOK
    <2>2. CASE rd.pc = "end"
        BY <2>1, <2>2 DEF ReaderInv
    <2>3. CASE rd.pc = "idle"
        <3>1. rd.kind = "get"
            BY <2>1, <2>3, IdleReaderIs DEF ReaderInv
        <3> QED BY <3>1 DEF ScanComplete
    <2>4. CASE rd.pc = "seek"
        <3>1. rd.out = <<>>
            BY <2>1, <2>4 DEF ReaderInv, RunInv
        <3> QED BY <2>4, <3>1 DEF ScanComplete
    <2>5. CASE rd.pc = "run"
        <3>1. RunInv
            BY <2>1, <2>5 DEF ReaderInv
        <3>2. rd.kind = "scan" =>
                  \A i, j \in DOMAIN rd.out : i < j => rd.out[i].key < rd.out[j].key
            BY <2>5, <3>1 DEF RunInv, Returned
        <3> QED BY <2>5, <3>2 DEF ScanComplete
    <2> QED BY <2>1, <2>2, <2>3, <2>4, <2>5
<1> QED BY <1>1, ReadersInvariantHolds, PTL

-----------------------------------------------------------------------------
(* A set of entries with distinct keys, in the order of their keys.        *)

KeysOf(V) == {e.key : e \in V}
Below(V, k) == {j \in KeysOf(V) : j < k}
InOrder(V) ==
    [n \in 1..Cardinality(KeysOf(V)) |-> CHOOSE e \in V : Cardinality(Below(V, e.key)) = n - 1]

LEMMA KeysOfFinite ==
    ASSUME NEW V, IsFiniteSet(V), V \subseteq Entries
    PROVE  /\ IsFiniteSet(KeysOf(V)) /\ KeysOf(V) \subseteq Nat /\ Cardinality(KeysOf(V)) \in Nat
           /\ \A k : IsFiniteSet(Below(V, k)) /\ Cardinality(Below(V, k)) \in Nat
<1> DEFINE f == [e \in V |-> e.key]
<1>1. f \in Surjection(V, KeysOf(V))
    BY DEF Surjection, KeysOf
<1>2. IsFiniteSet(KeysOf(V))
    BY <1>1, FS_Surjection
<1>3. KeysOf(V) \subseteq Nat
    BY NodeFacts DEF KeysOf
<1>4. \A k : Below(V, k) \subseteq KeysOf(V)
    BY DEF Below
<1>5. \A k : IsFiniteSet(Below(V, k))
    BY <1>2, <1>4, FS_Subset
<1> QED BY <1>2, <1>3, <1>5, FS_CardinalityType

\* The number of smaller keys tells entries apart.
LEMMA RankOrder ==
    ASSUME NEW V, IsFiniteSet(V), V \subseteq Entries, NEW x \in V, NEW y \in V, x.key < y.key
    PROVE  Cardinality(Below(V, x.key)) < Cardinality(Below(V, y.key))
<1> DEFINE A == Below(V, x.key)
           B == Below(V, y.key)
<1>1. IsFiniteSet(A) /\ IsFiniteSet(B) /\ Cardinality(A) \in Nat /\ Cardinality(B) \in Nat
    BY KeysOfFinite
<1>2. x.key \in Nat /\ y.key \in Nat /\ x.key \in KeysOf(V) /\ KeysOf(V) \subseteq Nat
    BY KeysOfFinite DEF KeysOf
<1>3. x.key \notin A /\ A \cup {x.key} \subseteq B
    BY <1>2 DEF Below
<1> HIDE DEF A, B
<1>4. Cardinality(A \cup {x.key}) = Cardinality(A) + 1
    BY <1>1, <1>3, FS_AddElement
<1>5. Cardinality(A \cup {x.key}) <= Cardinality(B)
    BY <1>1, <1>3, FS_Subset
<1>6. Cardinality(A) < Cardinality(B)
    BY <1>1, <1>4, <1>5
<1> QED BY <1>6 DEF A, B

LEMMA PrefixKeys ==
    ASSUME NEW o, o \in Seq(Entries), \A i, j \in DOMAIN o : i < j => o[i].key < o[j].key,
           NEW n \in 0..Len(o)
    PROVE  Cardinality({o[j].key : j \in 1..n}) = n
<1> DEFINE f == [j \in 1..n |-> o[j].key]
           K == {o[j].key : j \in 1..n}
<1>1. Len(o) \in Nat /\ DOMAIN o = 1..Len(o) /\ n \in Nat /\ 1..n \subseteq DOMAIN o
    OBVIOUS
<1>2. \A j \in 1..n : o[j].key \in Nat
    <2>1. \A j \in 1..n : o[j] \in Entries
        BY <1>1
    <2> QED BY <2>1, NodeFacts
<1>3. f \in Surjection(1..n, K)
    BY DEF Surjection
<1>4. IsFiniteSet(1..n) /\ Cardinality(1..n) = n
    BY <1>1, FS_Interval
<1>5. f \in Injection(1..n, K)
    <2>1. \A i, j \in 1..n : f[i] = f[j] => i = j
        <3>1. SUFFICES ASSUME NEW i \in 1..n, NEW j \in 1..n, i # j PROVE o[i].key # o[j].key
            OBVIOUS
        <3>2. i < j \/ j < i
            BY <3>1
        <3>3. i \in DOMAIN o /\ j \in DOMAIN o
            BY <1>1, <3>1
        <3>4. o[i].key < o[j].key \/ o[j].key < o[i].key
            BY <3>2, <3>3
        <3>5. o[i].key \in Nat /\ o[j].key \in Nat
            BY <1>2, <3>1
        <3> QED BY <3>4, <3>5
    <2>2. f \in [1..n -> K]
        OBVIOUS
    <2> QED BY <2>1, <2>2 DEF Injection, IsInjective
<1> HIDE DEF f, K
<1>6. Cardinality(K) = Cardinality(1..n)
    BY <1>3, <1>4, <1>5, FS_Surjection
<1>7. Cardinality(K) = n
    BY <1>4, <1>6
<1> QED BY <1>7 DEF K

\* A sequence in the order of keys that has the first entries of V is a prefix
\* of V in order.
LEMMA PrefixInOrder ==
    ASSUME NEW V, IsFiniteSet(V), V \subseteq Entries, \A x, y \in V : x.key = y.key => x = y,
           NEW o, o \in Seq(Entries), \A i, j \in DOMAIN o : i < j => o[i].key < o[j].key,
           \A i \in DOMAIN o : o[i] \in V,
           \A x \in V : \A i \in DOMAIN o : x.key < o[i].key => \E j \in DOMAIN o : x = o[j]
    PROVE  /\ Len(o) <= Len(InOrder(V)) /\ o = SubSeq(InOrder(V), 1, Len(o))
           /\ (\A x \in V : \E j \in DOMAIN o : x = o[j]) => o = InOrder(V)
<1> DEFINE L == Len(o)
           C == Cardinality(KeysOf(V))
<1>1. L \in Nat /\ DOMAIN o = 1..L
    OBVIOUS
<1>2. /\ IsFiniteSet(KeysOf(V)) /\ C \in Nat
      /\ \A k : Cardinality(Below(V, k)) \in Nat
    BY KeysOfFinite
<1>3. \A i \in 1..L : o[i] \in V /\ o[i].key \in Nat /\ o[i].key \in KeysOf(V)
    <2>1. \A i \in 1..L : o[i] \in V
        BY <1>1
    <2>2. \A x \in V : x.key \in Nat
        BY NodeFacts
    <2> QED BY <2>1, <2>2 DEF KeysOf
<1>4. ASSUME NEW n \in 1..L PROVE Cardinality(Below(V, o[n].key)) = n - 1
    <2>1. \A k : k \in Below(V, o[n].key) <=> k \in {o[j].key : j \in 1..(n - 1)}
        <3>1. SUFFICES ASSUME NEW k
              PROVE  k \in Below(V, o[n].key) <=> \E j \in 1..(n - 1) : k = o[j].key
            OBVIOUS
        <3>2. ASSUME k \in Below(V, o[n].key) PROVE \E j \in 1..(n - 1) : k = o[j].key
            <4>1. PICK x \in V : k = x.key /\ x.key < o[n].key
                BY <3>2 DEF Below, KeysOf
            <4>2. PICK j \in 1..L : x = o[j]
                BY <1>1, <1>4, <4>1
            <4>3. ~(n = j) /\ ~(n < j)
                <5>1. n < j => o[n].key < o[j].key
                    BY <1>1, <1>4, <4>2
                <5> QED BY <1>3, <1>4, <4>1, <4>2, <5>1
            <4>4. j \in 1..(n - 1)
                BY <1>1, <1>4, <4>2, <4>3
            <4> QED BY <4>1, <4>2, <4>4
        <3>3. ASSUME NEW j \in 1..(n - 1), k = o[j].key PROVE k \in Below(V, o[n].key)
            <4>1. j \in 1..L /\ j < n
                BY <1>1, <1>4, <3>3
            <4>2. o[j].key < o[n].key
                BY <1>1, <1>4, <4>1
            <4> QED BY <1>3, <3>3, <4>1, <4>2 DEF Below
        <3> QED BY <3>2, <3>3
    <2>2. Below(V, o[n].key) = {o[j].key : j \in 1..(n - 1)}
        BY <2>1
    <2>3. n - 1 \in 0..Len(o)
        BY <1>1, <1>4
    <2> QED BY <2>2, <2>3, PrefixKeys
<1>5. ASSUME NEW n \in 1..L
      PROVE  (CHOOSE e \in V : Cardinality(Below(V, e.key)) = n - 1) = o[n]
    <2>1. o[n] \in V /\ Cardinality(Below(V, o[n].key)) = n - 1
        BY <1>3, <1>4, <1>5
    <2>2. ASSUME NEW x \in V, Cardinality(Below(V, x.key)) = n - 1 PROVE x = o[n]
        <3>1. x.key \in Nat /\ o[n].key \in Nat
            BY <1>3, <1>5, <2>2, NodeFacts
        <3>2. ~(x.key < o[n].key) /\ ~(o[n].key < x.key)
            <4>1. x.key < o[n].key => Cardinality(Below(V, x.key)) < Cardinality(Below(V, o[n].key))
                BY <2>1, <2>2, RankOrder
            <4>2. o[n].key < x.key => Cardinality(Below(V, o[n].key)) < Cardinality(Below(V, x.key))
                BY <2>1, <2>2, RankOrder
            <4> QED BY <1>5, <2>1, <2>2, <4>1, <4>2
        <3>3. x.key = o[n].key
            BY <3>1, <3>2
        <3> QED BY <2>1, <2>2, <3>3
    <2> QED BY <2>1, <2>2
<1>6. L <= C /\ ((\A x \in V : \E j \in DOMAIN o : x = o[j]) => L = C)
    <2> DEFINE K == {o[j].key : j \in 1..L}
    <2>1. Cardinality(K) = L
        <3>1. L \in 0..Len(o)
            BY <1>1
        <3> QED BY <3>1, PrefixKeys
    <2>2. K \subseteq KeysOf(V)
        BY <1>3
    <2>3. (\A x \in V : \E j \in DOMAIN o : x = o[j]) => K = KeysOf(V)
        BY <1>1, <2>2 DEF KeysOf
    <2> HIDE DEF K
    <2>4. Cardinality(K) <= Cardinality(KeysOf(V))
        BY <1>2, <2>2, FS_Subset
    <2> QED BY <2>1, <2>3, <2>4
<1> DEFINE s == InOrder(V)
           T == {s[i] : i \in 1..C}
<1>7. DOMAIN s = 1..C /\ s \in [1..C -> T] /\ \A n \in 1..L : s[n] = o[n]
    BY <1>1, <1>2, <1>5, <1>6 DEF InOrder
<1> HIDE DEF s, T
<1>8. s \in Seq(T) /\ Len(s) = C
    BY <1>2, <1>7, MapIsSeq
<1>9. o = SubSeq(s, 1, L)
    <2>1. \A i \in 1..L : s[i] \in Entries
        BY <1>1, <1>7
    <2>2. /\ SubSeq(s, 1, L) \in Seq(Entries)
          /\ Len(SubSeq(s, 1, L)) = IF 1 <= L THEN L - 1 + 1 ELSE 0
          /\ \A i \in 1..(L - 1 + 1) : SubSeq(s, 1, L)[i] = s[1 + i - 1]
        BY <1>1, <2>1, SubSeqProperties
    <2>3. Len(SubSeq(s, 1, L)) = L /\ \A i \in 1..L : SubSeq(s, 1, L)[i] = o[i]
        BY <1>1, <1>7, <2>2
    <2> QED BY <1>1, <2>2, <2>3, SeqEqual
<1>10. (\A x \in V : \E j \in DOMAIN o : x = o[j]) => o = s
    <2>1. SUFFICES ASSUME L = C PROVE o = s
        BY <1>6
    <2> QED BY <1>8, <1>9, <2>1, SubSeqFull
<1>11. Len(o) <= Len(s)
    BY <1>6, <1>8
<1> QED BY <1>9, <1>10, <1>11 DEF s

(***************************************************************************)
(* A scan at a snapshot returns, in the order of keys, the values that     *)
(* were current when the snapshot was taken: at each moment a prefix of    *)
(* them, at its end all, whatever is written under its cursors.            *)
(***************************************************************************)
THEOREM ReadersSnapshotScanExact == Spec => []SnapshotScanExact
<1>1. ReadersInv => SnapshotScanExact
    <2> SUFFICES ASSUME ReadersInv, rd.kind = "scan", Filtered
        PROVE  LET expected == Expected(Linked, rd.snap)
               IN  /\ Len(rd.out) <= Len(expected)
                   /\ rd.out = SubSeq(expected, 1, Len(rd.out))
                   /\ rd.pc = "end" => rd.out = expected
        BY DEF SnapshotScanExact
    <2> DEFINE V == Values(Linked, rd.snap)
               o == rd.out
    <2>1. ListInv /\ ReaderInv /\ rd.pc \in {"idle", "seek", "run", "end"}
        BY DEF ReadersInv, ListInv, TypeOK
    <2>2. V \subseteq Linked /\ Linked \subseteq Entries /\ IsFiniteSet(Linked)
          /\ \A x, y \in Linked : x.seq = y.seq => x = y
        BY <2>1, LinkedFacts DEF Values
    <2>3. IsFiniteSet(V) /\ V \subseteq Entries
        BY <2>2, FS_Subset
    <2>4. \A x, y \in V : x.key = y.key => x = y
        BY <2>2 DEF Values
    <2>5. Expected(Linked, rd.snap) = InOrder(V)
        BY DEF Expected, InOrder, Values, KeysOf, Below
    <2>6. \A x \in V : x.key \in Int
        BY <2>3, NodeFacts
    <2> HIDE DEF V, o
    <2>7. /\ o \in Seq(Entries)
          /\ \A i, j \in DOMAIN o : i < j => o[i].key < o[j].key
          /\ \A i \in DOMAIN o : o[i] \in V
          /\ \A x \in V : \A i \in DOMAIN o : x.key < o[i].key => \E j \in DOMAIN o : x = o[j]
          /\ rd.pc = "end" => \A x \in V : \E j \in DOMAIN o : x = o[j]
        <3>1. CASE rd.pc = "idle"
            BY <2>1, <3>1, IdleReaderIs DEF ReaderInv
        <3>2. CASE rd.pc = "seek"
            <4>1. o = <<>>
                BY <2>1, <3>2 DEF ReaderInv, RunInv, o
            <4> QED BY <3>2, <4>1
        <3>3. CASE rd.pc = "run"
            <4>1. RunInv
                BY <2>1, <3>3 DEF ReaderInv
            <4>2. PICK last \in Keys : Returned(last)
                BY <3>3, <4>1 DEF RunInv
            <4>3. /\ o \in Seq(Entries)
                  /\ \A i, j \in DOMAIN o : i < j => o[i].key < o[j].key
                  /\ \A i \in DOMAIN o : o[i].key <= last
                  /\ {o[i] : i \in DOMAIN o} = {x \in V : x.key <= last}
                BY <4>2 DEF Returned, V, o
            <4>4. \A i \in DOMAIN o : o[i] \in V
                BY <4>3
            <4>5. \A x \in V : x.key <= last => \E j \in DOMAIN o : x = o[j]
                BY <4>3
            <4>6. last \in Int
                BY KeysAssumption
            <4>7. \A x \in V : \A i \in DOMAIN o : x.key < o[i].key => x.key <= last
                BY <2>6, <4>3, <4>4, <4>6
            <4> QED BY <3>3, <4>3, <4>4, <4>5, <4>7
        <3>4. CASE rd.pc = "end"
            <4>1. EndInv
                BY <2>1, <3>4 DEF ReaderInv
            <4>2. /\ o \in Seq(Entries)
                  /\ \A i, j \in DOMAIN o : i < j => o[i].key < o[j].key
                  /\ {o[i] : i \in DOMAIN o} = V
                BY <4>1 DEF EndInv, V, o
            <4> QED BY <4>2
        <3> QED BY <2>1, <3>1, <3>2, <3>3, <3>4
    <2>8. /\ Len(o) <= Len(InOrder(V)) /\ o = SubSeq(InOrder(V), 1, Len(o))
          /\ (\A x \in V : \E j \in DOMAIN o : x = o[j]) => o = InOrder(V)
        BY <2>3, <2>4, <2>7, PrefixInOrder
    <2> QED BY <2>5, <2>7, <2>8 DEF o
<1> QED BY <1>1, ReadersInvariantHolds, PTL

=============================================================================
