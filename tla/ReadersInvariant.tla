-------------------------- MODULE ReadersInvariant --------------------------
(***************************************************************************)
(* The inductive invariant of Readers, part by part.                       *)
(***************************************************************************)
EXTENDS Readers

\* The nodes of a list.
NodeSet == Entries \cup {HeadNode}

\* One level of a skip list: sorted, from the head to nil, nothing left out.
Chain(f) ==
    /\ IsFiniteSet(DOMAIN f) /\ HeadNode \in DOMAIN f
    /\ DOMAIN f \subseteq NodeSet
    /\ \A n \in DOMAIN f : f[n] = Nil \/ (f[n] \in DOMAIN f /\ Before(n, f[n]))
    /\ \A n, m \in DOMAIN f : Before(n, m) => f[n] # Nil /\ (m = f[n] \/ Before(f[n], m))

\* A skip list: its levels are chains, each within the one below, and those not
\* in use yet are empty.
ListOK(l) ==
    /\ l = [level |-> l.level, next |-> l.next] /\ l.level \in 1..MaxLevel
    /\ l.next = [i \in Levels |-> l.next[i]]
    /\ \A i \in Levels : Chain(l.next[i])
    /\ \A i \in Levels : i > 0 => DOMAIN l.next[i] \subseteq DOMAIN l.next[i - 1]
    /\ \A i \in Levels : i >= l.level => DOMAIN l.next[i] = {HeadNode}

\* e belongs between u and the node after it.
Fits(f, u, e) ==
    /\ u \in DOMAIN f /\ Before(u, e)
    /\ f[u] = Nil \/ Before(e, f[u])

\* The writer has linked entries up to here.
Linking == wr.pc = "link" /\ wr.level > 0
LastSeq == nextSeq + wr.done - (IF Linking THEN 0 ELSE 1)

IsSequence(s) == s \in Seq({s[i] : i \in DOMAIN s})

\* The memtables hold the sequence numbers handed out so far, the older ones in
\* the older memtables, each once.
MemsInv ==
    /\ IsSequence(mems) /\ mems # <<>>
    /\ \A i \in DOMAIN mems : ListOK(mems[i])
    /\ \A i \in DOMAIN mems : \A e \in Nodes(mems[i]) : 1 <= e.seq /\ e.seq <= LastSeq
    /\ \A i, j \in DOMAIN mems : i < j =>
          \A e \in Nodes(mems[i]), f \in Nodes(mems[j]) : e.seq < f.seq
    /\ \A e, f \in Linked : e.seq = f.seq => e = f

Batch == Seq([key : Keys, typ : RecordTypes]) \ {<<>>}

\* The call in progress holds db.mu; the entry being linked is on the levels
\* below wr.level, and the search has found its place on the others.
WriterInv ==
    /\ wr = [pc |-> wr.pc, batch |-> wr.batch, done |-> wr.done, height |-> wr.height,
             level |-> wr.level, update |-> wr.update]
    /\ wr.pc = "idle" <=> mu = "free"
    /\ wr.pc = "idle" => wr.done = 0
    /\ wr.pc # "idle" => wr.batch \in Batch
    /\ wr.done \in Nat
    /\ wr.pc \in {"find", "link"} => wr.done < Len(wr.batch)
    /\ wr.pc = "end" => wr.done = Len(wr.batch)
    /\ nextSeq - 1 + (IF wr.pc = "idle" THEN 0 ELSE Len(wr.batch)) <= MaxSeq
    /\ wr.pc = "link" =>
          /\ wr.height \in 1..MaxLevel /\ wr.level \in 0..(wr.height - 1)
          /\ wr.height <= Active.level
          /\ \A i \in 0..(wr.level - 1) : Entry1 \in DOMAIN Active.next[i]
          /\ \A i \in wr.level..(wr.height - 1) :
                Entry1 \notin DOMAIN Active.next[i] /\ Fits(Active.next[i], wr.update[i], Entry1)

ReaderShape ==
    rd = [pc |-> rd.pc, kind |-> rd.kind, key |-> rd.key, scan |-> rd.scan, snap |-> rd.snap,
          src |-> rd.src, out |-> rd.out, seen |-> rd.seen, touched |-> rd.touched]

(***************************************************************************)
(* The memtables and the writer: inductive whatever the reader does.       *)
(***************************************************************************)
ListInv == TypeOK /\ ReaderShape /\ MemsInv /\ WriterInv

-----------------------------------------------------------------------------
(* The reader.                                                             *)

\* What a cursor that shows n has in front of it.
Rest(i, n) == IF n = Nil THEN {} ELSE {m \in Nodes(mems[i]) : m = n \/ Before(n, m)}

\* A cursor shows a visible node; its child iterator stands there, or, under
\* the version filter, at or before the next visible one.
CursorOK(i, c) ==
    /\ c = [head |-> c.head, pos |-> c.pos]
    /\ c.head \in Nodes(mems[i]) \cup {Nil} /\ c.pos \in Nodes(mems[i]) \cup {Nil}
    /\ c.head # Nil => VisibleAt(c.head)
    /\ Filtered => \A m \in Rest(i, c.head) \ {c.head} : VisibleAt(m) => m \in Rest(i, c.pos)
    /\ Filtered => Rest(i, c.pos) \subseteq Rest(i, c.head) \ {c.head}
    /\ ~Filtered => c.pos = c.head

(***************************************************************************)
(* The read is past the key last, and no visible version of a later key    *)
(* is behind its cursors, except of keys that were written meanwhile into  *)
(* the memtable that was active when it began.                             *)
(***************************************************************************)
Behind(cs, last) ==
    \A i \in DOMAIN cs :
        /\ cs[i].head # Nil => last < cs[i].head.key
        /\ \A m \in Nodes(mems[i]) :
              VisibleAt(m) /\ last < m.key
                /\ (Filtered \/ m.key \notin rd.touched \/ i + 1 \in DOMAIN cs)
              => m \in Rest(i, cs[i].head)

\* The values a scan at a snapshot returns.
Values(S, readSeq) == {e \in S : e.seq = Lookup(S, e.key, readSeq) /\ Wanted(e.key)}

\* What a scan has returned once it is past the key last.
Returned(last) ==
    /\ rd.out \in Seq(Entries)
    /\ \A i, j \in DOMAIN rd.out : i < j => rd.out[i].key < rd.out[j].key
    /\ \A i \in DOMAIN rd.out : rd.out[i].key <= last
    /\ Filtered => {rd.out[i] : i \in DOMAIN rd.out}
                       = {e \in Values(Linked, rd.snap) : e.key <= last}
    /\ ~Filtered => \A k \in Keys \ rd.touched : k <= last =>
           ((\E i \in DOMAIN rd.out : rd.out[i].key = k)
                <=> (Wanted(k) /\ Current(Linked, k) # ErrNotFound))

\* What a read has in front of its cursors.
Ahead ==
    IF rd.pc = "seek" THEN UNION {Nodes(mems[i]) : i \in DOMAIN rd.src}
    ELSE UNION {Rest(i, rd.src[i].head) : i \in DOMAIN rd.src}

\* A read under way: its sources, its cursors and what it has returned.
RunInv ==
    /\ \E n \in DOMAIN mems : DOMAIN rd.src = 1..n
    /\ \A j \in DOMAIN mems \ DOMAIN rd.src : \A e \in Nodes(mems[j]) :
          e.key \in rd.touched /\ ~(Filtered /\ VisibleAt(e))
    /\ rd.pc = "seek" => rd.out = <<>>
    /\ rd.pc = "run" =>
          /\ \A i \in DOMAIN rd.src : CursorOK(i, rd.src[i])
          /\ \E last \in Keys : /\ Behind(rd.src, last)
                                /\ rd.kind = "get" => last < rd.key
                                /\ rd.kind = "scan" => Returned(last)
    /\ rd.kind = "get" /\ ~Filtered => Lookup(Ahead, rd.key, MaxSeq) \in rd.seen

\* What a scan has returned in the end, in the order of keys.
EndInv ==
    rd.kind = "scan" =>
        /\ rd.out \in Seq(Entries)
        /\ \A i, j \in DOMAIN rd.out : i < j => rd.out[i].key < rd.out[j].key
        /\ Filtered => {rd.out[i] : i \in DOMAIN rd.out} = Values(Linked, rd.snap)

ReaderInv ==
    /\ rd.kind \in {"get", "scan"} /\ rd.scan \in Scans \cup {IdleReader.scan}
    /\ rd.kind = "get" /\ rd.pc # "idle" => rd.key \in Keys
    /\ snapshot < nextSeq /\ rd.snap \in SnapChoice
    /\ rd.pc = "idle" => rd = IdleReader
    /\ rd.pc \in {"seek", "run"} => RunInv
    /\ rd.pc = "end" => EndInv /\ GetLinearizable /\ ScanComplete

(***************************************************************************)
(* The inductive invariant.                                                *)
(***************************************************************************)
ReadersInv == ListInv /\ ReaderInv
=============================================================================
