------------------------------ MODULE Skiplist ------------------------------
(***************************************************************************)
(* The skip list of a memtable (memtable/skiplist.go).  A node is the      *)
(* internal key it holds; next[i] maps the nodes linked at level i, and    *)
(* the head, to their successors.  Iterators move along level 0 without a  *)
(* lock while the writer links a node level by level.                      *)
(***************************************************************************)
EXTENDS InternalKey

CONSTANT MaxLevel   \* maxLevel, 12 in the code

ASSUME MaxLevelAssumption == MaxLevel \in Nat \ {0}

Levels == 0..(MaxLevel - 1)

\* The head of the list and the nil pointer.
HeadNode == [key |-> -1, seq |-> 0, typ |-> 0]
Nil == [key |-> -2, seq |-> 0, typ |-> 0]

NewSkiplist == [level |-> 1, next |-> [i \in Levels |-> [n \in {HeadNode} |-> Nil]]]

Nodes(l) == DOMAIN l.next[0] \ {HeadNode}

\* Successor at level 0, and the first node: Iterator.Next and SeekToFirst.
NextNode(l, n) == IF n = Nil THEN Nil ELSE l.next[0][n]
FirstNode(l) == l.next[0][HeadNode]

\* The last node before e at level i, walking on from a given node.
Walk(l, i, from, e) ==
    LET at[n \in DOMAIN l.next[i]] ==
            LET m == l.next[i][n]
            IN  IF m # Nil /\ Before(m, e) THEN at[m] ELSE n
    IN  at[from]

\* Mutant: a level is searched up to the first node not before e.
UpdatePast(l, e) ==
    LET u[i \in Levels] ==
            IF i >= l.level THEN HeadNode
            ELSE LET n == Walk(l, i, IF i = l.level - 1 THEN HeadNode ELSE u[i + 1], e)
                 IN  IF i > 0 /\ l.next[i][n] # Nil THEN l.next[i][n] ELSE n
    IN  u

\* Mutant: the successor of the node where the search stopped, which may be nil.
UpdateNext(l, e) ==
    LET u[i \in Levels] ==
            IF i >= l.level THEN HeadNode
            ELSE Walk(l, i, IF i = l.level - 1 THEN HeadNode ELSE u[i + 1], e)
    IN  [i \in Levels |-> l.next[i][u[i]]]

\* The nodes Insert links e behind: found from the top level down, each level
\* from where the one above stopped; the head on levels not in use yet.
Update(l, e) ==
    LET u[i \in Levels] ==
            IF i >= l.level THEN HeadNode
            ELSE Walk(l, i, IF i = l.level - 1 THEN HeadNode ELSE u[i + 1], e)
    IN  u

\* Insert, before it links: a node of the given height raises the level.
Raise(l, height) == [l EXCEPT !.level = IF height > @ THEN height ELSE @]

\* Insert, one turn of its loop: link e at level i behind update[i].
Link(l, i, e, update) ==
    [l EXCEPT !.next[i] =
        [n \in DOMAIN l.next[i] \cup {e} |->
            IF n = e THEN l.next[i][update[i]]
            ELSE IF n = update[i] THEN e ELSE l.next[i][n]]]

\* Every level is a sorted list of nodes of the level below, from the head to
\* nil, with no node off the list.
Sorted(l) ==
    \A i \in Levels :
        /\ i > 0 => DOMAIN l.next[i] \subseteq DOMAIN l.next[i - 1]
        /\ \A n \in DOMAIN l.next[i] :
              LET m == l.next[i][n]
              IN  m = Nil \/ (m \in DOMAIN l.next[i] /\ (n = HeadNode \/ Before(n, m)))
        /\ {l.next[i][n] : n \in DOMAIN l.next[i]} = (DOMAIN l.next[i] \ {HeadNode}) \cup {Nil}
=============================================================================
