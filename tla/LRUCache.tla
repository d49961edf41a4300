------------------------------ MODULE LRUCache ------------------------------
(***************************************************************************)
(* The block cache (internal/cache/lru.go).  Every operation holds the     *)
(* cache's mutex from its first to its last line, so it is one function    *)
(* of the cache.  The list is kept most recently used first; the map of    *)
(* items finds an element of it by its key.                                *)
(***************************************************************************)
EXTENDS Integers, Sequences, SequencesExt, FiniteSetsExt

NewLRUCache(capacity) == [capacity |-> capacity, usage |-> 0, list |-> <<>>]

CachedKeys(c) == {c.list[i].key : i \in DOMAIN c.list}

\* items[key]: the element with a key.
ItemOf(c, key) == CHOOSE i \in DOMAIN c.list : c.list[i].key = key

MoveToFront(list, i) == <<list[i]>> \o RemoveAt(list, i)

SizeOf(list) ==
    LET sum[n \in 0..Len(list)] == IF n = 0 THEN 0 ELSE sum[n - 1] + list[n].size
    IN  sum[Len(list)]

\* Get: what it returns for a key that is cached, and the cache afterwards.
CachedValue(c, key) == c.list[ItemOf(c, key)].value

Touch(c, key) == [c EXCEPT !.list = MoveToFront(@, ItemOf(c, key))]

\* evict: elements leave from the back until the usage is within the capacity
\* or the list is empty.
Evict(c) ==
    LET usage[n \in 0..Len(c.list)] ==
            IF n = 0 THEN c.usage ELSE usage[n - 1] - c.list[Len(c.list) - n + 1].size
        gone == Min({n \in 0..Len(c.list) : usage[n] <= c.capacity \/ n = Len(c.list)})
    IN  [c EXCEPT !.list = SubSeq(@, 1, Len(@) - gone), !.usage = usage[gone]]

\* Mutant: a key that is cached already is inserted once more.
PutTwice(c, key, value, size) ==
    Evict([c EXCEPT !.list = <<[key |-> key, value |-> value, size |-> size]>> \o @,
                    !.usage = @ + size])

\* Put: a key that is cached already, by a reader that missed at the same
\* time, gets the new value and its size.
Put(c, key, value, size) ==
    LET element == [key |-> key, value |-> value, size |-> size]
        i == ItemOf(c, key)
    IN  Evict(IF key \in CachedKeys(c)
              THEN [c EXCEPT !.list = <<element>> \o RemoveAt(@, i),
                             !.usage = @ - c.list[i].size + size]
              ELSE [c EXCEPT !.list = <<element>> \o @, !.usage = @ + size])
=============================================================================
