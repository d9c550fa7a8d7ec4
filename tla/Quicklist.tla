------------------------------ MODULE Quicklist ------------------------------
(***************************************************************************)
(* quicklist.c: a list of ziplists. A node takes up to a number of entries *)
(* (fill > 0) or of bytes (fill < 0). Nodes further than depth from both   *)
(* ends are kept compressed; a node decompressed for use is marked to be   *)
(* compressed again.                                                       *)
(*                                                                         *)
(* A list is [nodes, count, len, fill, depth] and a node                   *)
(* [e, count, lzf, recompress]; e is what its ziplist holds. Positions of  *)
(* nodes are counted from 1, 0 is NULL; indexes and offsets are as in the  *)
(* code.                                                                   *)
(***************************************************************************)
EXTENDS Container

CONSTANTS
    QlSize,              \* bytes of the entry of a value
    MIN_COMPRESS_BYTES,  \* smaller nodes are not compressed
    QlNodeLimit,         \* bytes of a node when fill is negative
    QlOptions            \* pairs of fill and compress depth

quicklistNew(fill, depth) ==
    [nodes |-> <<>>, count |-> 0, len |-> 0, fill |-> fill, depth |-> depth]

quicklistCreateNode(vs) == [e |-> vs, count |-> Len(vs), lzf |-> FALSE, recompress |-> FALSE]

QlBytes(n) == FoldLeft(LAMBDA b, v : b + QlSize[v], 0, n.e)

__quicklistCompressNode(n) ==
    IF ~n.lzf /\ QlBytes(n) >= MIN_COMPRESS_BYTES
    THEN [n EXCEPT !.lzf = TRUE, !.recompress = FALSE] ELSE n

__quicklistDecompressNode(n) == [n EXCEPT !.lzf = FALSE]

quicklistDecompressNodeForUse(n) ==
    IF n.lzf THEN [n EXCEPT !.lzf = FALSE, !.recompress = TRUE] ELSE n

InDepth(ns, depth, i) == i <= depth \/ i > Len(ns) - depth

(* Faulty: the nodes that come near an end stay compressed. *)
FaultyCompress(q, i) ==
    IF i # 0 /\ q.depth # 0 /\ ~InDepth(q.nodes, q.depth, i)
    THEN [q EXCEPT !.nodes[i] = __quicklistCompressNode(@)] ELSE q

(* Every node that passes the test, after Op. *)
OnNodes(ns, Test(_), Op(_)) ==
    FoldLeftDomain(LAMBDA r, j : Append(r, IF Test(j) THEN Op(ns[j]) ELSE ns[j]), <<>>, ns)

(* Both ends are decompressed to the depth, node i beyond it compressed, and with
   a depth above 1 also the nodes next to the ends. When the ends meet nothing is
   compressed. *)
__quicklistCompress(q, i) ==
    LET n == Len(q.nodes)
        Near(j) == InDepth(q.nodes, q.depth, j)
        Inner(j) == (j = i /\ ~Near(j)) \/ (q.depth > 1 /\ j \in {q.depth + 1, n - q.depth})
        ends == OnNodes(q.nodes, Near, __quicklistDecompressNode)
    IN IF q.depth = 0 \/ q.len < 2 * q.depth THEN q
       ELSE IF \E d \in 1..q.depth : 2 * d = n + 1 THEN [q EXCEPT !.nodes = ends]
       ELSE [q EXCEPT !.nodes = OnNodes(ends, Inner, __quicklistCompressNode)]

quicklistCompress(q, i) ==
    IF q.nodes[i].recompress THEN [q EXCEPT !.nodes[i] = __quicklistCompressNode(@)]
    ELSE __quicklistCompress(q, i)

quicklistRecompressOnly(n) == IF n.recompress THEN __quicklistCompressNode(n) ELSE n

(* A node before or after node i, which is then compressed if it should; len
   grows last. *)
__quicklistInsertNode(q, i, new, after) ==
    LET at == IF after THEN i + 1 ELSE i
        placed == [q EXCEPT !.nodes = InsertAt(@, IF i = 0 THEN 1 ELSE at, new)]
        old == IF after THEN i ELSE i + 1
        compressed == IF i = 0 THEN placed ELSE quicklistCompress(placed, old)
    IN [compressed EXCEPT !.len = @ + 1]

_quicklistNodeSizeMeetsOptimizationRequirement(bytes, fill) == fill < 0 /\ bytes <= QlNodeLimit

_quicklistNodeAllowInsert(q, i, v) ==
    /\ i \in DOMAIN q.nodes
    /\ \/ _quicklistNodeSizeMeetsOptimizationRequirement(QlBytes(q.nodes[i]) + QlSize[v], q.fill)
       \/ q.nodes[i].count < q.fill

_quicklistNodeAllowMerge(q, i, j) ==
    /\ {i, j} \subseteq DOMAIN q.nodes
    /\ \/ _quicklistNodeSizeMeetsOptimizationRequirement(QlBytes(q.nodes[i]) + QlBytes(q.nodes[j]), q.fill)
       \/ q.nodes[i].count + q.nodes[j].count <= q.fill

Enlarge(n, at, v) == [n EXCEPT !.e = InsertAt(@, at, v), !.count = @ + 1]

quicklistPushHead(q, v) ==
    LET p == IF _quicklistNodeAllowInsert(q, 1, v) THEN [q EXCEPT !.nodes[1] = Enlarge(@, 1, v)]
             ELSE __quicklistInsertNode(q, Min({1, Len(q.nodes)}), quicklistCreateNode(<<v>>), FALSE)
    IN [p EXCEPT !.count = @ + 1]

quicklistPushTail(q, v) ==
    LET n == Len(q.nodes)
        p == IF _quicklistNodeAllowInsert(q, n, v)
             THEN [q EXCEPT !.nodes[n] = Enlarge(@, Len(@.e) + 1, v)]
             ELSE __quicklistInsertNode(q, n, quicklistCreateNode(<<v>>), TRUE)
    IN [p EXCEPT !.count = @ + 1]

quicklistAppendZiplist(q, vs) ==
    LET p == __quicklistInsertNode(q, Len(q.nodes), quicklistCreateNode(vs), TRUE)
    IN [p EXCEPT !.count = @ + Len(vs)]

quicklistAppendValuesFromZiplist(q, vs) == FoldLeft(quicklistPushTail, q, vs)

(* The ends are looked after while len still counts the node. *)
__quicklistDelNode(q, i) ==
    LET p == __quicklistCompress([q EXCEPT !.nodes = RemoveAt(@, i)], 0)
    IN [p EXCEPT !.count = @ - q.nodes[i].count, !.len = @ - 1]

(* Entry k of node i; the node goes with its last entry. *)
quicklistDelIndex(q, i, k) ==
    LET less == [q EXCEPT !.nodes[i].e = RemoveAt(@, k), !.nodes[i].count = @ - 1]
        p == IF less.nodes[i].count = 0 THEN __quicklistDelNode(less, i) ELSE less
    IN [p EXCEPT !.count = @ - 1]

(* The node that holds an index, 0 when there is none; the counts of the nodes
   are added from the end the index is relative to. *)
Through(q, i, forward) ==
    LET upto == IF forward THEN 1..i ELSE i..Len(q.nodes)
    IN FoldSet(LAMBDA j, n : n + q.nodes[j].count, 0, upto)

FindNode(q, idx) ==
    LET forward == idx >= 0
        index == IF forward THEN idx ELSE -idx - 1
        holds == {i \in DOMAIN q.nodes : Through(q, i, forward) > index}
    IN IF index >= q.count \/ holds = {} THEN 0
       ELSE IF forward THEN Min(holds) ELSE Max(holds)

(* The offset in node i, negative when counted from its end. *)
OffsetIn(q, i, idx) ==
    IF idx >= 0 THEN idx - (Through(q, i, TRUE) - q.nodes[i].count)
    ELSE idx + (Through(q, i, FALSE) - q.nodes[i].count)

(* Entry number in a node (from 1) of an offset. *)
EntryOf(n, offset) == IF offset >= 0 THEN offset + 1 ELSE Len(n.e) + offset + 1

quicklistIndex(q, idx) ==
    IF FindNode(q, idx) = 0 THEN q
    ELSE [q EXCEPT !.nodes[FindNode(q, idx)] = quicklistDecompressNodeForUse(@)]

quicklistReplaceAtIndex(q, idx, v) ==
    LET i == FindNode(q, idx)
        p == quicklistIndex(q, idx)
    IN quicklistCompress([p EXCEPT !.nodes[i].e[EntryOf(p.nodes[i], OffsetIn(q, i, idx))] = v], i)

(* Nodes i and i + 1 become one, at i. *)
_quicklistZiplistMerge(q, i) ==
    LET a == q.nodes[i]  b == q.nodes[i + 1]
        keep == IF Len(a.e) >= Len(b.e) THEN a ELSE b
        one == [keep EXCEPT !.e = a.e \o b.e, !.count = Len(a.e) + Len(b.e), !.lzf = FALSE]
        gone == [q EXCEPT !.nodes[i + 1] = [one EXCEPT !.count = 0], !.nodes[i] = one]
    IN quicklistCompress(__quicklistDelNode(gone, i + 1), i)

MergeIf(q, i, test) == IF test THEN _quicklistZiplistMerge(q, i) ELSE q

(* Around the node at position i: the two before it, the two after it, then the
   node with the one before and with the one after. *)
_quicklistMergeNodes(q, i) ==
    LET m1 == _quicklistNodeAllowMerge(q, i - 1, i - 2)
        q1 == MergeIf(q, i - 2, m1)
        i1 == IF m1 THEN i - 1 ELSE i
        q2 == MergeIf(q1, i1 + 1, _quicklistNodeAllowMerge(q1, i1 + 1, i1 + 2))
        m3 == _quicklistNodeAllowMerge(q2, i1, i1 - 1)
        q3 == MergeIf(q2, i1 - 1, m3)
        i3 == IF m3 THEN i1 - 1 ELSE i1
    IN MergeIf(q3, i3, _quicklistNodeAllowMerge(q3, i3, i3 + 1))

(* Node n without, and a new node with, the entries after k (or up to k). *)
SplitParts(n, k, after) ==
    LET lo == SubSeq(n.e, 1, IF after THEN k ELSE k - 1)
        hi == SubSeq(n.e, (IF after THEN k ELSE k - 1) + 1, Len(n.e))
    IN IF after THEN [old |-> lo, new |-> hi] ELSE [old |-> hi, new |-> lo]

_quicklistSplitNode(n, k, after, v) ==
    LET parts == SplitParts(n, k, after)
    IN [old |-> [n EXCEPT !.e = parts.old, !.count = Len(parts.old)],
        new |-> quicklistCreateNode(IF after THEN <<v>> \o parts.new ELSE parts.new \o <<v>>)]

WithEntry(q, i, at, v) ==
    [q EXCEPT !.nodes[i] = quicklistRecompressOnly(Enlarge(quicklistDecompressNodeForUse(@), at, v))]

(* v after or before entry k of node i. The entry is taken for the last one of its
   node only when its offset is the count, which no entry has. *)
_quicklistInsert(q, i, k, v, after) ==
    LET n == q.nodes[i]
        full == ~_quicklistNodeAllowInsert(q, i, v)
        atTail == after /\ k - 1 = n.count
        atHead == ~after /\ k = 1
        used == [q EXCEPT !.nodes[i] = quicklistDecompressNodeForUse(@)]
        parts == _quicklistSplitNode(used.nodes[i], k, after, v)
        split == __quicklistInsertNode([used EXCEPT !.nodes[i] = parts.old], i, parts.new, after)
        p == IF ~full THEN WithEntry(q, i, IF after THEN k + 1 ELSE k, v)
             ELSE IF atTail /\ _quicklistNodeAllowInsert(q, i + 1, v) THEN WithEntry(q, i + 1, 1, v)
             ELSE IF atHead /\ _quicklistNodeAllowInsert(q, i - 1, v)
             THEN WithEntry(q, i - 1, Len(q.nodes[i - 1].e) + 1, v)
             ELSE IF (atTail /\ i < Len(q.nodes)) \/ (atHead /\ i > 1)
             THEN __quicklistInsertNode(q, i, quicklistCreateNode(<<v>>), after)
             ELSE _quicklistMergeNodes(split, IF after THEN i ELSE i + 1)
    IN [p EXCEPT !.count = @ + 1]

(* extent entries from the entry at an offset of node i on. *)
RECURSIVE DelFrom(_, _, _, _)
DelFrom(q, i, offset, extent) ==
    LET n == q.nodes[i]
        whole == offset = 0 /\ extent >= n.count
        del == IF whole THEN n.count
               ELSE IF offset >= 0 /\ extent >= n.count THEN n.count - offset
               ELSE IF offset < 0 THEN Min({-offset, extent})
               ELSE extent
        k == EntryOf(n, offset)
        less == [quicklistDecompressNodeForUse(n) EXCEPT
                    !.e = SubSeq(n.e, 1, k - 1) \o SubSeq(n.e, k + del, Len(n.e)), !.count = @ - del]
        part == [q EXCEPT !.nodes[i] = less, !.count = @ - del]
    IN IF extent = 0 THEN q
       ELSE IF whole THEN DelFrom(__quicklistDelNode(q, i), i, 0, extent - del)
       ELSE IF less.count = 0 THEN DelFrom(__quicklistDelNode(part, i), i, 0, extent - del)
       ELSE DelFrom([part EXCEPT !.nodes[i] = quicklistRecompressOnly(@)], i + 1, 0, extent - del)

quicklistDelRange(q, start, count) ==
    LET extent == IF start >= 0 THEN Min({count, q.count - start}) ELSE Min({count, -start})
        i == FindNode(q, start)
    IN IF count <= 0 \/ i = 0 THEN q
       ELSE DelFrom(quicklistIndex(q, start), i, OffsetIn(q, i, start), extent)

(* The walk of an iterator in node i at an offset: the entries equal to v are
   deleted until left of them are (0: all). A node left behind is compressed; the
   one where the walk stops is not. *)
RECURSIVE Sweep(_, _, _, _, _)
Sweep(q0, i, offset, v, left) ==
    LET forward == offset >= 0
        q == [q0 EXCEPT !.nodes[i] = quicklistDecompressNodeForUse(@)]
        k == EntryOf(q.nodes[i], offset)
        less == quicklistDelIndex(q, i, k)
        emptied == less.len < q.len
        over == IF forward THEN i + 1 ELSE i - 1
        start == IF forward THEN 0 ELSE -1
    IN IF i \notin DOMAIN q0.nodes THEN q0
       ELSE IF k \notin DOMAIN q.nodes[i].e THEN Sweep(quicklistCompress(q, i), over, start, v, left)
       ELSE IF q.nodes[i].e[k] # v THEN Sweep(q, i, IF forward THEN offset + 1 ELSE offset - 1, v, left)
       ELSE IF left = 1 THEN less
       ELSE Sweep(less, IF ~emptied THEN i ELSE IF forward THEN i ELSE i - 1,
                  IF emptied THEN start ELSE offset, v, IF left = 0 THEN 0 ELSE left - 1)

(* A walk from node j up to an entry of node i, where it stops: releasing the
   iterator frees it and no more, so that node i stays decompressed and marked. *)
RECURSIVE WalkTo(_, _, _)
WalkTo(q0, j, i) ==
    LET q == [q0 EXCEPT !.nodes[j] = quicklistDecompressNodeForUse(@)]
    IN IF j = i THEN q ELSE WalkTo(quicklistCompress(q, j), j + 1, i)

quicklistRotate(q) ==
    LET p == quicklistPushHead(q, Last(Last(q.nodes).e))
    IN quicklistDelIndex(p, Len(p.nodes), Len(Last(p.nodes).e))

quicklistPopCustom(q, where) ==
    LET i == IF where = "head" THEN 1 ELSE Len(q.nodes)
    IN quicklistDelIndex(q, i, IF where = "head" THEN 1 ELSE Len(q.nodes[i].e))

QlVal(q) == FlattenSeq([i \in DOMAIN q.nodes |-> q.nodes[i].e])
-----------------------------------------------------------------------------
QlValues == DOMAIN QlSize
Room(n) == c.count + n <= MaxLen
QlStep(q, o) == Step("quicklist", q, o)

(* Pushes and pops take the ziplist of an end as it is. On a compressed end their
   outcome is undefined, and nothing is said of what follows it. *)
EndOf(where) == IF where = "head" THEN 1 ELSE Len(c.nodes)
TakesRaw(where) == c.nodes # <<>> => ~c.nodes[EndOf(where)].lzf

QlPush(where, v) ==
    /\ Room(1)
    /\ _quicklistNodeAllowInsert(c, EndOf(where), v) => TakesRaw(where)
    /\ QlStep(IF where = "head" THEN quicklistPushHead(c, v) ELSE quicklistPushTail(c, v),
              [type |-> "insert", at |-> IF where = "head" THEN 1 ELSE c.count + 1, val |-> v])

QlPop(where) ==
    /\ c.count > 0 /\ TakesRaw(where)
    /\ QlStep(quicklistPopCustom(c, where),
              [type |-> "delete", at |-> IF where = "head" THEN 1 ELSE c.count, count |-> 1])

QlLoad(vs) ==
    Room(Len(vs)) /\ QlStep(quicklistAppendZiplist(c, vs), [type |-> "append", all |-> vs])

QlConvert(vs) ==
    /\ Room(Len(vs)) /\ TakesRaw("tail")
    /\ QlStep(quicklistAppendValuesFromZiplist(c, vs), [type |-> "append", all |-> vs])

(* LSET. *)
QlSet(idx, v) ==
    /\ FindNode(c, idx) # 0
    /\ QlStep(quicklistReplaceAtIndex(c, idx, v),
              [type |-> "replace", at |-> IF idx >= 0 THEN idx + 1 ELSE c.count + idx + 1, val |-> v])

(* LINSERT: entry k of node i, found walking from the head. *)
QlInsert(i, k, v, after) ==
    /\ Room(1) /\ i \in DOMAIN c.nodes /\ k \in DOMAIN c.nodes[i].e
    /\ QlStep(_quicklistInsert(WalkTo(c, 1, i), i, k, v, after),
              [type |-> "insert", val |-> v,
               at |-> Through(c, i, TRUE) - c.nodes[i].count + (IF after THEN k + 1 ELSE k)])

(* LTRIM removes count entries at the head and at the tail. *)
QlTrim(start, count) ==
    /\ count <= c.count
    /\ QlStep(quicklistDelRange(c, start, count),
              [type |-> "delete", at |-> IF start = 0 THEN 1 ELSE c.count - count + 1, count |-> count])

(* LREM: all, or the first left ones from either end. *)
QlRem(v, left, forward) ==
    /\ c.count > 0
    /\ QlStep(Sweep(c, IF forward THEN 1 ELSE Len(c.nodes), IF forward THEN 0 ELSE -1, v, left),
              [type |-> "prune", val |-> v, left |-> left, forward |-> forward])

(* LRANGE from an entry of node j to one of node i, and LINDEX when they are one. *)
QlRange(j, i) ==
    /\ j <= i /\ i <= Len(c.nodes)
    /\ QlStep(WalkTo(c, j, i), Internal)

QlRotate ==
    /\ c.count > 1 /\ TakesRaw("head") /\ TakesRaw("tail")
    /\ QlStep(quicklistRotate(c), [type |-> "rotate"])

(* Noted once a step has left a node that is still to be compressed again. *)
HalfWay == [on |-> FALSE, halfway |-> TRUE]

QuicklistNext ==
    /\ \/ \E where \in {"head", "tail"}, v \in QlValues : QlPush(where, v)
       \/ \E where \in {"head", "tail"} : QlPop(where)
       \/ \E v, w \in QlValues : QlLoad(<<v, w>>) \/ QlConvert(<<v, w>>)
       \/ \E idx \in -MaxLen..(MaxLen - 1), v \in QlValues : QlSet(idx, v)
       \/ \E i, k \in 1..MaxLen, v \in QlValues, after \in BOOLEAN : QlInsert(i, k, v, after)
       \/ \E count \in 1..MaxLen : QlTrim(0, count) \/ QlTrim(-count, count)
       \/ \E v \in QlValues, left \in 0..1, forward \in BOOLEAN : QlRem(v, left, forward)
       \/ \E i, j \in 1..MaxLen : QlRange(j, i)
       \/ QlRotate
    /\ walk' = IF \E i \in DOMAIN c'.nodes : c'.nodes[i].recompress THEN HalfWay ELSE walk
-----------------------------------------------------------------------------
(* redis.conf:1087: the head and the tail of a list are always uncompressed, for
   fast pushes and pops, which take them as they are (quicklistPushHead,
   quicklistPopCustom). *)
EndsAreRaw ==
    kind = "quicklist" /\ c.nodes # <<>> => ~Head(c.nodes).lzf /\ ~Last(c.nodes).lzf

(* The counts are right, no node is empty and, as long as every node decompressed
   for use was compressed again by the end of its operation, the ends are raw. *)
QuicklistIsSound ==
    /\ c.len = Len(c.nodes)
    /\ c.count = Len(QlVal(c))
    /\ \A i \in DOMAIN c.nodes : c.nodes[i].count = Len(c.nodes[i].e) /\ c.nodes[i].count > 0
    /\ walk # HalfWay => EndsAreRaw

(* Every index, from either end, finds its entry. *)
QuicklistLookupsAgree ==
    \A idx \in -c.count..(c.count - 1) :
        LET i == FindNode(c, idx)
        IN /\ i # 0
           /\ c.nodes[i].e[EntryOf(c.nodes[i], OffsetIn(c, i, idx))]
                = QlVal(c)[IF idx >= 0 THEN idx + 1 ELSE c.count + idx + 1]
-----------------------------------------------------------------------------
(***************************************************************************)
(* adlist.c: the doubly linked list behind the server's queues (clients,   *)
(* replies, blocked and ready keys), and the iterator that lets the caller *)
(* delete the node it was given. Nodes are addresses, reused once free.    *)
(***************************************************************************)
CONSTANTS
    ListElement,
    ListMax        \* bound on the length, and on the nodes an iteration returns

NULLNODE == 0

listCreate == [head |-> NULLNODE, tail |-> NULLNODE, len |-> 0, node |-> <<>>]

Fresh(l) == Min({a \in 1..(Cardinality(DOMAIN l.node) + 1) : a \notin DOMAIN l.node})

(* Memory at address a holds node n; NULL is written to by nobody. *)
Store(l, a, prev, next, v) == [l EXCEPT !.node = (a :> [prev |-> prev, next |-> next, val |-> v]) @@ @]
SetNext(l, a, b) == IF a = NULLNODE THEN l ELSE [l EXCEPT !.node[a].next = b]
SetPrev(l, a, b) == IF a = NULLNODE THEN l ELSE [l EXCEPT !.node[a].prev = b]

listAddNodeHead(l, v) ==
    LET a == Fresh(l)
    IN IF l.len = 0 THEN [Store(l, a, NULLNODE, NULLNODE, v) EXCEPT !.head = a, !.tail = a, !.len = 1]
       ELSE [SetPrev(Store(l, a, NULLNODE, l.head, v), l.head, a) EXCEPT !.head = a, !.len = @ + 1]

listAddNodeTail(l, v) ==
    LET a == Fresh(l)
    IN IF l.len = 0 THEN [Store(l, a, NULLNODE, NULLNODE, v) EXCEPT !.head = a, !.tail = a, !.len = 1]
       ELSE [SetNext(Store(l, a, l.tail, NULLNODE, v), l.tail, a) EXCEPT !.tail = a, !.len = @ + 1]

listInsertNode(l, old, v, after) ==
    LET a    == Fresh(l)
        prev == IF after THEN old ELSE l.node[old].prev
        next == IF after THEN l.node[old].next ELSE old
    IN [SetPrev(SetNext(Store(l, a, prev, next, v), prev, a), next, a) EXCEPT
          !.tail = IF after /\ @ = old THEN a ELSE @,
          !.head = IF ~after /\ @ = old THEN a ELSE @,
          !.len = @ + 1]

listDelNode(l, a) ==
    LET n == l.node[a]
    IN [SetPrev(SetNext(l, n.prev, n.next), n.next, n.prev) EXCEPT
          !.head = IF n.prev = NULLNODE THEN n.next ELSE @,
          !.tail = IF n.next = NULLNODE THEN n.prev ELSE @,
          !.node = Restrict(@, DOMAIN @ \ {a}),
          !.len = @ - 1]

listRotate(l) ==
    IF l.len <= 1 THEN l
    ELSE LET last == l.node[l.tail].prev
         IN [SetNext(SetPrev(SetPrev(SetNext(l, last, NULLNODE), l.head, l.tail), l.tail, NULLNODE), l.tail, l.head)
               EXCEPT !.tail = last, !.head = l.tail]

(* The nodes of the other list stay where they are: their addresses differ. *)
listJoin(l, o) ==
    LET both == [l EXCEPT !.node = o.node @@ @]
    IN [SetNext(SetPrev(both, o.head, l.tail), l.tail, o.head) EXCEPT
          !.head = IF l.tail = NULLNODE THEN o.head ELSE @,
          !.tail = IF o.tail = NULLNODE THEN @ ELSE o.tail,
          !.len = @ + o.len]

(* The nodes from a on, in either direction. *)
RECURSIVE NodesFrom(_, _, _)
NodesFrom(l, a, forward) ==
    IF a = NULLNODE THEN <<>>
    ELSE <<a>> \o NodesFrom(l, IF forward THEN l.node[a].next ELSE l.node[a].prev, forward)

ListNodes(l) == NodesFrom(l, l.head, TRUE)
ListVal(l) == [i \in DOMAIN ListNodes(l) |-> l.node[ListNodes(l)[i]].val]

listDup(l) == FoldLeft(listAddNodeTail, listCreate, ListVal(l))

(* listIndex: from the head, or with a negative index from the tail. *)
RECURSIVE Advance(_, _, _, _)
Advance(l, a, n, forward) ==
    IF n = 0 \/ a = NULLNODE THEN a
    ELSE Advance(l, IF forward THEN l.node[a].next ELSE l.node[a].prev, n - 1, forward)
listIndex(l, i) == IF i < 0 THEN Advance(l, l.tail, -i - 1, FALSE) ELSE Advance(l, l.head, i, TRUE)

(* The first node with value v. *)
listSearchKey(l, v) ==
    LET match == SelectSeq(ListNodes(l), LAMBDA a : l.node[a].val = v)
    IN IF match = <<>> THEN NULLNODE ELSE match[1]

(* The iterator has looked at the link of the node it returns before the caller
   may delete that node. *)
listRewind(l, forward) ==
    [on |-> TRUE, forward |-> forward, next |-> IF forward THEN l.head ELSE l.tail,
     last |-> NULLNODE, seen |-> <<>>, must |-> DOMAIN l.node]

listNext(l, w) ==
    [w EXCEPT !.last = w.next, !.seen = Append(@, w.next),
              !.next = IF w.forward THEN l.node[w.next].next ELSE l.node[w.next].prev]
-----------------------------------------------------------------------------
ListPush(v, head) ==
    /\ c.len < ListMax /\ (walk.on => Len(walk.seen) + c.len <= ListMax)
    /\ Step("list", IF head THEN listAddNodeHead(c, v) ELSE listAddNodeTail(c, v),
            [type |-> "insert", at |-> IF head THEN 1 ELSE c.len + 1, val |-> v])
    /\ UNCHANGED walk

ListInsert(i, v, after) ==
    /\ ~walk.on /\ c.len < ListMax /\ i <= c.len
    /\ Step("list", listInsertNode(c, ListNodes(c)[i], v, after),
            [type |-> "insert", at |-> IF after THEN i + 1 ELSE i, val |-> v])
    /\ UNCHANGED walk

(* A caller that iterates deletes nothing but the node it was given. *)
ListDel(i) ==
    /\ i <= c.len
    /\ walk.on => ListNodes(c)[i] = walk.last
    /\ Step("list", listDelNode(c, ListNodes(c)[i]), [type |-> "delete", at |-> i, count |-> 1])
    /\ walk' = IF walk.on THEN [walk EXCEPT !.last = NULLNODE, !.must = @ \ {ListNodes(c)[i]}] ELSE walk

ListRotate ==
    /\ ~walk.on /\ c.len > 0
    /\ Step("list", listRotate(c), [type |-> "rotate"])
    /\ UNCHANGED walk

(* Another list of two nodes, or an empty one. *)
ListJoin(v, empty) ==
    LET a == Fresh(c)
        b == Fresh(Store(c, a, NULLNODE, NULLNODE, v))
        o == IF empty THEN listCreate
             ELSE [head |-> a, tail |-> b, len |-> 2,
                   node |-> (a :> [prev |-> NULLNODE, next |-> b, val |-> v])
                            @@ (b :> [prev |-> a, next |-> NULLNODE, val |-> v])]
    IN /\ ~walk.on /\ c.len + o.len <= ListMax
       /\ Step("list", listJoin(c, o), [type |-> "append", all |-> ListVal(o)])
       /\ UNCHANGED walk

listEmpty ==
    /\ ~walk.on /\ c.len > 0
    /\ Step("list", listCreate, [type |-> "clear"])
    /\ UNCHANGED walk

ListWalk(forward) ==
    /\ ~walk.on /\ c.len > 1
    /\ walk' = listRewind(c, forward)
    /\ UNCHANGED <<kind, c, op>>

ListNext ==
    /\ walk.on /\ walk.next # NULLNODE
    /\ walk' = listNext(c, walk)
    /\ UNCHANGED <<kind, c, op>>

ListWalkEnd ==
    /\ walk.on /\ walk.next = NULLNODE
    /\ walk' = NoWalk
    /\ UNCHANGED <<kind, c, op>>

AdlistNext ==
    \/ \E v \in ListElement, head \in BOOLEAN : ListPush(v, head)
    \/ \E i \in 1..ListMax, v \in ListElement, after \in BOOLEAN : ListInsert(i, v, after)
    \/ \E i \in 1..ListMax : ListDel(i)
    \/ ListRotate
    \/ \E v \in ListElement, empty \in BOOLEAN : ListJoin(v, empty)
    \/ listEmpty
    \/ \E forward \in BOOLEAN : ListWalk(forward)
    \/ ListNext
    \/ ListWalkEnd
-----------------------------------------------------------------------------
(* The links of both directions are those of one chain of len nodes, and no
   node outside the chain is still allocated. *)
AdlistIsSound ==
    /\ NodesFrom(c, c.tail, FALSE) = Reverse(ListNodes(c))
    /\ Len(ListNodes(c)) = c.len
    /\ DOMAIN c.node = ToSet(ListNodes(c))

(* Access by position from either end, search and copy agree with the chain. *)
AdlistLookupsAgree ==
    /\ \A i \in -ListMax..(ListMax - 1) :
         LET p == IF i < 0 THEN c.len + i ELSE i
         IN listIndex(c, i) = IF p \in 0..(c.len - 1) THEN ListNodes(c)[p + 1] ELSE NULLNODE
    /\ \A v \in ListElement :
         listSearchKey(c, v) # NULLNODE <=> \E i \in DOMAIN ListVal(c) : ListVal(c)[i] = v
    /\ ListVal(listDup(c)) = ListVal(c)

(* An iteration never follows a link into freed memory, and at its end it has
   returned every node that was there all the time, once. *)
AdlistWalkIsComplete ==
    walk.on =>
        /\ walk.next \in DOMAIN c.node \cup {NULLNODE}
        /\ walk.next = NULLNODE => \A a \in walk.must : Cardinality({i \in DOMAIN walk.seen : walk.seen[i] = a}) = 1
=============================================================================
