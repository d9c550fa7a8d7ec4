------------------------------ MODULE Skiplist ------------------------------
(***************************************************************************)
(* The two encodings of a sorted set (t_zset.c): a ziplist of pairs in     *)
(* order, and a skip list with the spans of its links, together with a     *)
(* dictionary from members to the scores inside the nodes.                 *)
(*                                                                         *)
(* Members are the integers from 1 on, in their lexical order; a node is   *)
(* known by its member and the header is 0. A node is [score, fwd, span,   *)
(* back, id], fwd and span per level, and the dictionary holds the id of   *)
(* the node whose score it points to.                                      *)
(***************************************************************************)
EXTENDS Container

CONSTANTS
    ZMember,             \* members
    ZScore,              \* scores
    ZSKIPLIST_MAXLEVEL,  \* levels of the header
    ZsetMaxZiplist       \* zset_max_ziplist_entries

NULL == -1
Header == 0

zslCreateNode(level, score, id) ==
    [score |-> score, fwd |-> [i \in 1..level |-> NULL], span |-> [i \in 1..level |-> 0],
     back |-> NULL, id |-> id]

zslCreate == [level |-> 1, length |-> 0, tail |-> NULL,
              node |-> (Header :> zslCreateNode(ZSKIPLIST_MAXLEVEL, 0, 0))]

zsetCreate == [enc |-> "ziplist", zl |-> <<>>]

(* A walk along level i from place p, over the nodes of set ahead and up to rank
   lim; a place is [x, r], a node and its rank. *)
RECURSIVE Along(_, _, _, _, _)
Along(z, i, p, ahead, lim) ==
    LET next == z.node[p.x].fwd[i]
        r == p.r + z.node[p.x].span[i]
    IN IF next \in ahead /\ r <= lim THEN Along(z, i, [x |-> next, r |-> r], ahead, lim) ELSE p

(* The places where the walk leaves each level, from the top one down. *)
Descent(z, ahead, lim) ==
    LET path[i \in 1..z.level] ==
            Along(z, i, IF i = z.level THEN [x |-> Header, r |-> 0] ELSE path[i + 1], ahead, lim)
    IN path

Nodes(z) == DOMAIN z.node \ {Header}
Before(z, score, ele) ==
    {e \in Nodes(z) : z.node[e].score < score \/ (z.node[e].score = score /\ e < ele)}

(* Node n at x after a node for ele of some level is linked behind the places up:
   the links of the levels it has lead to it, the ones above pass over it. *)
Linked(n, x, up, level, ele) ==
    LET mine == {i \in 1..Len(up) : up[i].x = x}
        links == {i \in mine : i <= level}
    IN [n EXCEPT !.fwd = [i \in DOMAIN @ |-> IF i \in links THEN ele ELSE @[i]],
                 !.span = [i \in DOMAIN @ |-> IF i \in links THEN up[1].r - up[i].r + 1
                                              ELSE IF i \in mine THEN @[i] + 1 ELSE @[i]]]

(* level is what zslRandomLevel answers. *)
zslInsert(z, score, ele, level, id) ==
    LET path == Descent(z, Before(z, score, ele), z.length)
        up == [i \in 1..Max({level, z.level}) |->
                    IF i <= z.level THEN path[i] ELSE [x |-> Header, r |-> 0]]
        Span(i) == IF i <= z.level THEN z.node[up[i].x].span[i] ELSE z.length
        new == [score |-> score, id |-> id,
                fwd |-> [i \in 1..level |-> z.node[up[i].x].fwd[i]],
                span |-> [i \in 1..level |-> Span(i) - (up[1].r - up[i].r)],
                back |-> IF up[1].x = Header THEN NULL ELSE up[1].x]
        linked == (ele :> new) @@ [x \in DOMAIN z.node |->
                        Linked(z.node[x], x, up, level, ele)]
        next == new.fwd[1]
    IN [level |-> Len(up), length |-> z.length + 1,
        tail |-> IF next = NULL THEN ele ELSE z.tail,
        node |-> IF next = NULL THEN linked ELSE [linked EXCEPT ![next].back = ele]]

(* The top levels without a node are given up. *)
Shrunk(z) ==
    LET used == {i \in 1..z.level : z.node[Header].fwd[i] # NULL}
    IN IF used = {} THEN 1 ELSE Max(used)

(* Node x is taken out; up are the places before it. *)
zslDeleteNode(z, x, up) ==
    LET gone == z.node[x]
        Unlinked(y, n) ==
            LET mine == {i \in 1..z.level : up[i].x = y}
                links == {i \in mine : n.fwd[i] = x}
            IN [n EXCEPT !.fwd = [i \in DOMAIN @ |-> IF i \in links THEN gone.fwd[i] ELSE @[i]],
                         !.span = [i \in DOMAIN @ |-> IF i \in links THEN @[i] + gone.span[i] - 1
                                                      ELSE IF i \in mine THEN @[i] - 1 ELSE @[i]]]
        rest == [y \in DOMAIN z.node \ {x} |-> Unlinked(y, z.node[y])]
        y == [z EXCEPT !.node = IF gone.fwd[1] = NULL THEN rest
                                ELSE [rest EXCEPT ![gone.fwd[1]].back = gone.back],
                       !.tail = IF gone.fwd[1] = NULL THEN gone.back ELSE @,
                       !.length = @ - 1]
    IN [y EXCEPT !.level = Shrunk(y)]

zslDelete(z, score, ele) == zslDeleteNode(z, ele, Descent(z, Before(z, score, ele), z.length))

(* The node keeps its place when the new score allows it; else it is replaced. *)
zslUpdateScore(z, ele, score, level) ==
    LET n == z.node[ele]
        fits == /\ n.back = NULL \/ z.node[n.back].score < score
                /\ n.fwd[1] = NULL \/ z.node[n.fwd[1]].score > score
    IN IF fits THEN [z EXCEPT !.node[ele].score = score]
       ELSE zslInsert(zslDelete(z, n.score, ele), score, ele, level, 1 - n.id)

(* The nodes after the places up are deleted one by one while they are in stop;
   up stays as it is. *)
RECURSIVE DeleteWhile(_, _, _)
DeleteWhile(z, up, stop) ==
    LET x == z.node[up[1].x].fwd[1]
    IN IF x \notin stop THEN z ELSE DeleteWhile(zslDeleteNode(z, x, up), up, stop)

(* Ranges are [min, max, minex, maxex]. *)
GteMinOf(v, range) == IF range.minex THEN v > range.min ELSE v >= range.min
LteMaxOf(v, range) == IF range.maxex THEN v < range.max ELSE v <= range.max
Below(z, range) == {e \in Nodes(z) : ~GteMinOf(z.node[e].score, range)}
UpTo(z, range) == {e \in Nodes(z) : LteMaxOf(z.node[e].score, range)}

zslDeleteRangeByScore(z, range) ==
    DeleteWhile(z, Descent(z, Below(z, range), z.length), UpTo(z, range))

zslDeleteRangeByLex(z, range) ==
    DeleteWhile(z, Descent(z, {e \in Nodes(z) : ~GteMinOf(e, range)}, z.length),
                {e \in Nodes(z) : LteMaxOf(e, range)})

(* Ranks from start to end, counted from 1. *)
RECURSIVE DeleteSome(_, _, _)
DeleteSome(z, up, n) ==
    LET x == z.node[up[1].x].fwd[1]
    IN IF n = 0 \/ x = NULL THEN z ELSE DeleteSome(zslDeleteNode(z, x, up), up, n - 1)

zslDeleteRangeByRank(z, start, end) ==
    LET up == Descent(z, Nodes(z), start - 1)
    IN DeleteSome(z, up, end - up[1].r)

(* 0 when the member is not found on the way. *)
zslGetRank(z, score, ele) ==
    LET path == Descent(z, Before(z, score, ele) \cup {ele}, z.length)
        seen == {i \in 1..z.level : path[i].x = ele}
    IN IF seen = {} THEN 0 ELSE path[Max(seen)].r

zslGetElementByRank(z, rank) ==
    LET path == Descent(z, Nodes(z), rank)
        seen == {i \in 1..z.level : path[i].r = rank}
    IN IF seen = {} THEN NULL ELSE path[Max(seen)].x

EmptyRange(range) ==
    range.min > range.max \/ (range.min = range.max /\ (range.minex \/ range.maxex))

zslIsInRange(z, range) ==
    /\ ~EmptyRange(range)
    /\ z.tail # NULL /\ GteMinOf(z.node[z.tail].score, range)
    /\ z.node[Header].fwd[1] # NULL /\ LteMaxOf(z.node[z.node[Header].fwd[1]].score, range)

zslFirstInRange(z, range) ==
    LET x == z.node[Descent(z, Below(z, range), z.length)[1].x].fwd[1]
    IN IF zslIsInRange(z, range) /\ LteMaxOf(z.node[x].score, range) THEN x ELSE NULL

zslLastInRange(z, range) ==
    LET x == Descent(z, UpTo(z, range), z.length)[1].x
    IN IF zslIsInRange(z, range) /\ GteMinOf(z.node[x].score, range) THEN x ELSE NULL
-----------------------------------------------------------------------------
(* The ziplist encoding: a sequence of pairs. *)
zzlFind(zl, ele) == {i \in DOMAIN zl : zl[i].ele = ele}
zzlDelete(zl, i) == RemoveAt(zl, i)

zzlInsert(zl, ele, score) ==
    LET later == {i \in DOMAIN zl : zl[i].score > score \/ (zl[i].score = score /\ zl[i].ele > ele)}
    IN InsertAt(zl, IF later = {} THEN Len(zl) + 1 ELSE Min(later), [ele |-> ele, score |-> score])

(* The pairs from the first one not below the range on, while they are not above it. *)
DropRun(zl, from, within) ==
    LET first == Min(from)
        past == ((first..Len(zl)) \ within) \cup {Len(zl) + 1}
    IN IF from = {} THEN zl ELSE SubSeq(zl, 1, first - 1) \o SubSeq(zl, Min(past), Len(zl))

zzlDeleteRangeByScore(zl, range) ==
    IF EmptyRange(range) THEN zl
    ELSE DropRun(zl, {i \in DOMAIN zl : GteMinOf(zl[i].score, range)},
                      {i \in DOMAIN zl : LteMaxOf(zl[i].score, range)})

zzlDeleteRangeByLex(zl, range) ==
    IF EmptyRange(range) THEN zl
    ELSE DropRun(zl, {i \in DOMAIN zl : GteMinOf(zl[i].ele, range)},
                      {i \in DOMAIN zl : LteMaxOf(zl[i].ele, range)})

zzlDeleteRangeByRank(zl, start, end) == SubSeq(zl, 1, start - 1) \o SubSeq(zl, end + 1, Len(zl))

(* Each pair in turn, with levels given by the sequence levels. *)
ToSkiplist(zl, levels) ==
    LET all == FoldLeftDomain(
                  LAMBDA z, i : zslInsert(z, zl[i].score, zl[i].ele, levels[i], 0), zslCreate, zl)
    IN [enc |-> "skiplist", zsl |-> all, dict |-> [e \in Nodes(all) |-> 0]]

RECURSIVE Forward(_, _)
Forward(z, x) == IF x = NULL THEN <<>> ELSE <<x>> \o Forward(z, z.node[x].fwd[1])
InOrder(z) == Forward(z, z.node[Header].fwd[1])

zsetConvert(s, levels) ==
    IF s.enc = "ziplist" THEN ToSkiplist(s.zl, levels)
    ELSE [enc |-> "ziplist",
          zl |-> FoldLeft(LAMBDA zl, e : Append(zl, [ele |-> e, score |-> s.zsl.node[e].score]),
                          <<>>, InOrder(s.zsl))]

zsetConvertToZiplistIfNeeded(s) ==
    IF s.enc = "skiplist" /\ s.zsl.length <= ZsetMaxZiplist THEN zsetConvert(s, <<>>) ELSE s

(* zsetScore reads through the dictionary. *)
zsetScore(s) ==
    IF s.enc = "ziplist" THEN [e \in {p.ele : p \in Range(s.zl)} |-> s.zl[Min(zzlFind(s.zl, e))].score]
    ELSE [e \in DOMAIN s.dict |-> s.zsl.node[e].score]

zsetAdd(s, ele, score, level, levels) ==
    IF s.enc = "ziplist"
    THEN LET at == zzlFind(s.zl, ele)
             zl == zzlInsert(IF at = {} THEN s.zl ELSE zzlDelete(s.zl, Min(at)), ele, score)
             more == [s EXCEPT !.zl = zl]
         IN IF at # {} /\ s.zl[Min(at)].score = score THEN s
            ELSE IF at = {} /\ Len(zl) > ZsetMaxZiplist THEN zsetConvert(more, levels) ELSE more
    ELSE IF ele \in DOMAIN s.dict
    THEN LET z == zslUpdateScore(s.zsl, ele, score, level)
         IN IF s.zsl.node[ele].score = score THEN s
            ELSE [s EXCEPT !.zsl = z, !.dict[ele] = z.node[ele].id]
    ELSE [s EXCEPT !.zsl = zslInsert(@, score, ele, level, 0), !.dict = (ele :> 0) @@ @]

zsetDel(s, ele) ==
    IF s.enc = "ziplist" THEN [s EXCEPT !.zl = zzlDelete(@, Min(zzlFind(@, ele)))]
    ELSE [s EXCEPT !.dict = Restrict(@, DOMAIN @ \ {ele}),
                   !.zsl = zslDelete(@, @.node[ele].score, ele)]

(* ZREMRANGEBY...: the members that left the skip list leave the dictionary. *)
OfSkiplist(s, z) == [s EXCEPT !.zsl = z, !.dict = Restrict(@, Nodes(z))]

DeleteByScore(s, range) ==
    IF s.enc = "ziplist" THEN [s EXCEPT !.zl = zzlDeleteRangeByScore(@, range)]
    ELSE OfSkiplist(s, zslDeleteRangeByScore(s.zsl, range))

DeleteByLex(s, range) ==
    IF s.enc = "ziplist" THEN [s EXCEPT !.zl = zzlDeleteRangeByLex(@, range)]
    ELSE OfSkiplist(s, zslDeleteRangeByLex(s.zsl, range))

DeleteByRank(s, start, end) ==
    IF s.enc = "ziplist" THEN [s EXCEPT !.zl = zzlDeleteRangeByRank(@, start, end)]
    ELSE OfSkiplist(s, zslDeleteRangeByRank(s.zsl, start, end))
-----------------------------------------------------------------------------
ZLevels == 1..ZSKIPLIST_MAXLEVEL
ZVal == zsetScore(c)
ZLen == Cardinality(DOMAIN ZVal)
ZRanges == [min : ZScore, max : ZScore, minex : BOOLEAN, maxex : BOOLEAN]
ZLexRanges == [min : ZMember, max : ZMember, minex : BOOLEAN, maxex : BOOLEAN]
(* A key whose sorted set is empty is deleted. *)
ZStep(s, o) == Step("zset", IF DOMAIN zsetScore(s) = {} THEN zsetCreate ELSE s, o)

ZAdd(ele, score, level, levels) ==
    ZStep(zsetAdd(c, ele, score, level, levels),
          [type |-> "put", key |-> ele, val |-> score, found |-> ele \in DOMAIN ZVal])

ZRem(ele) ==
    ele \in DOMAIN ZVal /\ ZStep(zsetDel(c, ele), [type |-> "remove", key |-> ele, found |-> TRUE])

ZRemRangeByScore(range) ==
    \E s \in {DeleteByScore(c, range)} :
        ZStep(s, [type |-> "retain", keys |-> {e \in DOMAIN ZVal :
                    EmptyRange(range) \/ ~GteMinOf(ZVal[e], range) \/ ~LteMaxOf(ZVal[e], range)}])

(* Lexical ranges are for members with one score. *)
ZRemRangeByLex(range) ==
    /\ Cardinality(Range(ZVal)) = 1
    /\ \E s \in {DeleteByLex(c, range)} :
        ZStep(s, [type |-> "retain", keys |-> {e \in DOMAIN ZVal :
                    EmptyRange(range) \/ ~GteMinOf(e, range) \/ ~LteMaxOf(e, range)}])

RankOf(v, e) == Cardinality({d \in DOMAIN v : v[d] < v[e] \/ (v[d] = v[e] /\ d <= e)})

ZRemRangeByRank(start, end) ==
    /\ start <= end /\ end <= ZLen
    /\ \E s \in {DeleteByRank(c, start, end)} :
        ZStep(s, [type |-> "retain", keys |-> {e \in DOMAIN ZVal : RankOf(ZVal, e) \notin start..end}])

(* ZUNIONSTORE: a skip list filled in the order of a dictionary, made a ziplist
   when it is small. *)
ZStore(pairs, levels) ==
    /\ ZLen = 0
    /\ ZStep(zsetConvertToZiplistIfNeeded(ToSkiplist(pairs, levels)),
             [type |-> "load", all |-> [e \in {p.ele : p \in Range(pairs)} |->
                                            pairs[Min(zzlFind(pairs, e))].score]])

SomeLevels == {<<1, 2, 1>>, <<2, 1, 3>>}
SomePairs == {<<[ele |-> 2, score |-> 1], [ele |-> 1, score |-> 1]>>,
              <<[ele |-> 3, score |-> 1], [ele |-> 1, score |-> 2], [ele |-> 2, score |-> 1]>>}

ZsetNext ==
    /\ \/ \E ele \in ZMember, score \in ZScore, level \in ZLevels, levels \in SomeLevels :
            /\ c.enc = "skiplist" => levels = <<1, 2, 1>>
            /\ c.enc = "ziplist" => level = 1
            /\ ZAdd(ele, score, level, levels)
       \/ \E ele \in ZMember : ZRem(ele)
       \/ \E range \in ZRanges : ZRemRangeByScore(range)
       \/ \E range \in ZLexRanges : range.minex # range.maxex /\ ZRemRangeByLex(range)
       \/ \E start, end \in 1..Cardinality(ZMember) : ZRemRangeByRank(start, end)
       \/ \E pairs \in SomePairs, levels \in SomeLevels : ZStore(pairs, levels)
    /\ UNCHANGED walk
-----------------------------------------------------------------------------
(* Level 1 links all the members in order, both ways; every level is a part of it
   whose spans count the members passed; the levels above the top one are not used;
   the dictionary points to the nodes that are in the list. *)
ZslIsSound(z, dict) ==
    LET order == InOrder(z)
        Pos(x) == IF x = Header THEN 0 ELSE IF x = NULL THEN Len(order) + 1 ELSE IndexFirstSubSeq(<<x>>, order)
    IN /\ Range(order) = Nodes(z) /\ z.length = Len(order)
       /\ \A i \in 1..(Len(order) - 1) : order[i] \in Before(z, z.node[order[i + 1]].score, order[i + 1])
       /\ \A x \in Nodes(z) : z.node[x].back = IF Pos(x) = 1 THEN NULL ELSE order[Pos(x) - 1]
       /\ z.tail = IF order = <<>> THEN NULL ELSE Last(order)
       /\ \A x \in DOMAIN z.node : \A i \in 1..Min({z.level, Len(z.node[x].fwd)}) :
            LET next == z.node[x].fwd[i]
            IN /\ next = NULL \/ Len(z.node[next].fwd) >= i
               /\ z.node[x].span[i] = IF next = NULL THEN Len(order) - Pos(x) ELSE Pos(next) - Pos(x)
       /\ \A i \in (z.level + 1)..ZSKIPLIST_MAXLEVEL : z.node[Header].fwd[i] = NULL
       /\ z.level > 1 => z.node[Header].fwd[z.level] # NULL
       /\ dict = [e \in Nodes(z) |-> z.node[e].id]

ZsetIsSound ==
    IF c.enc = "skiplist" THEN ZslIsSound(c.zsl, c.dict)
    ELSE /\ Len(c.zl) <= ZsetMaxZiplist
         /\ \A i \in 1..(Len(c.zl) - 1) :
                \/ c.zl[i].score < c.zl[i + 1].score
                \/ c.zl[i].score = c.zl[i + 1].score /\ c.zl[i].ele < c.zl[i + 1].ele

(* Ranks and ranges answer what the scores say. *)
ZsetLookupsAgree ==
    c.enc = "skiplist" =>
        LET z == c.zsl
            In(range) == {e \in Nodes(z) : ~EmptyRange(range) /\ GteMinOf(ZVal[e], range) /\ LteMaxOf(ZVal[e], range)}
        IN /\ \A e \in Nodes(z) :
                /\ zslGetRank(z, ZVal[e], e) = RankOf(ZVal, e)
                /\ zslGetElementByRank(z, RankOf(ZVal, e)) = e
           /\ \A range \in ZRanges :
                LET ranks == {RankOf(ZVal, e) : e \in In(range)}
                    first == zslFirstInRange(z, range)
                    last == zslLastInRange(z, range)
                IN IF ranks = {} THEN first = NULL /\ last = NULL
                   ELSE RankOf(ZVal, first) = Min(ranks) /\ RankOf(ZVal, last) = Max(ranks)
=============================================================================
