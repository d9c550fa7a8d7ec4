-------------------------------- MODULE Zsets -------------------------------
(***************************************************************************)
(* The commands on sorted sets (t_zset.c).  A sorted set is a function     *)
(* from its members to their scores, kept in the order of the scores and,  *)
(* for one score, of the members; the members are numbers that stand for   *)
(* their place in that order.  Scores are whole numbers.  A range is       *)
(* [min, minex, max, maxex]: the bounds and whether they are excluded.     *)
(***************************************************************************)
EXTENDS Lists, SetsAndHashes

Zset(z) == [zset |-> z]
ZsetOf(o) == IF o = NULL THEN <<>> ELSE o.zset

\* zzlCompareElements, and the same order in zslInsert.
ZBefore(z, a, b) == z[a] < z[b] \/ (z[a] = z[b] /\ a < b)

\* The members in order.
ZSeq(z) == SetToSortSeq(DOMAIN z, LAMBDA a, b : ZBefore(z, a, b))

\* zslValueGteMin and zslValueLteMax, on a score or, for a range of members,
\* on a member.
GteMin(v, r) == IF r.minex THEN v > r.min ELSE v >= r.min
LteMax(v, r) == IF r.maxex THEN v < r.max ELSE v <= r.max

\* Whether any element can be in a range: the bounds are in order, the last
\* element reaches the lower one and the first the upper one.
zslIsInRange(vals, r) ==
    /\ ~(r.min > r.max \/ (r.min = r.max /\ (r.minex \/ r.maxex)))
    /\ vals # <<>> /\ GteMin(Last(vals), r) /\ LteMax(vals[1], r)

\* The members in a range, walked as the list encoding does: skip to the first
\* one that meets the near bound, then go on while the far bound holds.  val
\* says what is compared, the score or the member.
ZRangeOf(q, val(_), r, reverse) ==
    LET p == IF reverse THEN Reverse(q) ELSE q
        near(m) == IF reverse THEN LteMax(val(m), r) ELSE GteMin(val(m), r)
        far(m) == IF reverse THEN GteMin(val(m), r) ELSE LteMax(val(m), r)
        i == SelectInSeq(p, near)
        out == SelectInSubSeq(p, i, Len(p), LAMBDA m : ~far(m))
    IN  IF ~zslIsInRange([j \in DOMAIN q |-> val(q[j])], r) \/ i = 0 THEN <<>>
        ELSE SubSeq(p, i, IF out = 0 THEN Len(p) ELSE out - 1)

\* What one score, member pair of ZADD does: NX leaves members there alone, XX
\* adds none.  The result is the set and what happened.
zsetAdd(z, score, m, f) ==
    LET here == m \in DOMAIN z
        new == IF here /\ "incr" \in f THEN z[m] + score ELSE score
    IN  IF here /\ "nx" \in f THEN <<z, "nop">>
        ELSE IF here THEN <<[z EXCEPT ![m] = new], IF new # z[m] THEN "updated" ELSE "same">>
        ELSE IF "xx" \in f THEN <<z, "nop">>
        ELSE <<(m :> new) @@ z, "added">>


\* ZADD, and ZINCRBY, which is ZADD INCR.
zaddGenericCommand(s, k, pairs, f) ==
    LET s1 == expireIfNeeded(s, k)
        o == lookupKey(s1, k)
        step(acc, p) == LET r == zsetAdd(acc[1], p[1], p[2], f)
                        IN  <<r[1], acc[2] + (IF r[2] = "added" THEN 1 ELSE 0),
                                    acc[3] + (IF r[2] = "updated" THEN 1 ELSE 0)>>
        r == FoldLeft(step, <<ZsetOf(o), 0, 0>>, pairs)
        changes == r[2] + r[3]
        s2 == IF o = NULL THEN dbAdd(s1, k, Zset(r[1])) ELSE dbOverwrite(s1, k, Zset(r[1]))
        s3 == IF changes > 0 THEN signalModifiedKey(s2, k) ELSE s2
        m == pairs[1][2]
        nop == "nx" \in f /\ m \in DOMAIN ZsetOf(o)
    IN  IF {"nx", "xx"} \subseteq f THEN Reply(s, Err("nx and xx"))
        ELSE IF "incr" \in f /\ Len(pairs) > 1 THEN Reply(s, Err("single pair"))
        ELSE IF WrongType(o, "zset") THEN Reply(s1, Err("wrongtype"))
        ELSE IF o = NULL /\ "xx" \in f THEN Reply(s1, IF "incr" \in f THEN Nil ELSE Num(0))
        ELSE Reply(Dirty(s3, changes),
                   IF "incr" \in f THEN (IF m \in DOMAIN r[1] /\ ~nop THEN Num(r[1][m]) ELSE Nil)
                   ELSE Num(IF "ch" \in f THEN changes ELSE r[2]))

StoreZset(s, k, z) ==
    signalModifiedKey(IF DOMAIN z = {} THEN dbDelete(s, k) ELSE dbOverwrite(s, k, Zset(z)), k)

\* Take members out: the end of ZREM and of the ZREMRANGE commands.
ZRemove(s, k, z, gone) ==
    IF gone = {} THEN Reply(s, Num(0))
    ELSE Reply(Dirty(StoreZset(s, k, [m \in DOMAIN z \ gone |-> z[m]]), Cardinality(gone)), Num(Cardinality(gone)))

zremCommand(s, k, ms) ==
    LET s1 == expireIfNeeded(s, k)
        o == lookupKey(s1, k)
    IN  IF o = NULL THEN Reply(s1, Num(0))
        ELSE IF WrongType(o, "zset") THEN Reply(s1, Err("wrongtype"))
        ELSE ZRemove(s1, k, o.zset, DOMAIN o.zset \cap ToSet(ms))

\* The positions start..end of a list of length n, from zero; negative ones
\* count from the end.
RankRange(n, start, end) ==
    LET from == IF start < 0 THEN (IF n + start < 0 THEN 0 ELSE n + start) ELSE start
        to == IF end < 0 THEN n + end ELSE end
    IN  IF from > to \/ from >= n THEN {} ELSE from..(IF to >= n THEN n - 1 ELSE to)

\* ZREMRANGEBYRANK, ZREMRANGEBYSCORE and ZREMRANGEBYLEX.
zremrangeGenericCommand(s, k, type, r) ==
    LET s1 == expireIfNeeded(s, k)
        o == lookupKey(s1, k)
        q == ZSeq(o.zset)
        gone == CASE type = "rank" -> {q[i + 1] : i \in RankRange(Len(q), r.min, r.max)}
                  [] type = "score" -> ToSet(ZRangeOf(q, LAMBDA m : o.zset[m], r, FALSE))
                  [] type = "lex" -> ToSet(ZRangeOf(q, LAMBDA m : m, r, FALSE))
    IN  IF o = NULL THEN Reply(s1, Num(0))
        ELSE IF WrongType(o, "zset") THEN Reply(s1, Err("wrongtype"))
        ELSE ZRemove(s1, k, o.zset, gone)

(*************** ZUNIONSTORE and ZINTERSTORE: sets count as 1 **************)

\* zuiFind and zuiNext: the scores of a source.
ScoresOf(o) ==
    IF o = NULL THEN <<>> ELSE IF IsType(o, "set") THEN [m \in o.set |-> 1] ELSE o.zset

zunionInterAggregate(x, y, aggregate) ==
    CASE aggregate = "sum" -> x + y
      [] aggregate = "min" -> IF y < x THEN y ELSE x
      [] aggregate = "max" -> IF y > x THEN y ELSE x

\* The members of the result and their scores, from the weighted scores of the
\* sources that have them.
UnionInter(src, weights, aggregate, op) ==
    LET ms == IF op = "inter" THEN {m \in DOMAIN src[1] : \A i \in DOMAIN src : m \in DOMAIN src[i]}
              ELSE UNION {DOMAIN src[i] : i \in DOMAIN src}
        values(m) == LET with == SelectSeq([i \in DOMAIN src |-> i], LAMBDA i : m \in DOMAIN src[i])
                     IN  [i \in DOMAIN with |-> weights[with[i]] * src[with[i]][m]]
        score(v) == FoldLeft(LAMBDA x, y : zunionInterAggregate(x, y, aggregate), v[1], Tail(v))
    IN  [m \in ms |-> score(values(m))]

\* The destination is replaced, or deleted when the result is empty.
StoreUnionInter(s, dst, z) ==
    LET touched == dbExists(s, dst)
        s1 == IF touched THEN dbDelete(s, dst) ELSE s
    IN  IF DOMAIN z # {}
        THEN Reply(Dirty(signalModifiedKey(dbAdd(s1, dst, Zset(z)), dst), 1), Num(Cardinality(DOMAIN z)))
        ELSE Reply(IF touched THEN Dirty(signalModifiedKey(s1, dst), 1) ELSE s1, Num(0))

zunionInterGenericCommand(s, dst, keys, weights, aggregate, op) ==
    LET bad == {i \in DOMAIN keys : LET o == lookupKeyWrite(s, keys[i])
                                    IN  o # NULL /\ ~IsType(o, "set") /\ ~IsType(o, "zset")}
        firstBad == CHOOSE i \in bad : \A j \in bad : i <= j
    IN  IF keys = <<>> THEN Reply(s, Err("at least 1 input key"))
        ELSE IF bad # {} THEN Reply(LookedUp(s, SubSeq(keys, 1, firstBad)), Err("wrongtype"))
        ELSE StoreUnionInter(LookedUp(s, keys), dst,
                       UnionInter([i \in DOMAIN keys |-> ScoresOf(lookupKeyWrite(s, keys[i]))],
                                  weights, aggregate, op))

(********************************* reading *********************************)

\* ZRANGE and ZREVRANGE.
zrangeGenericCommand(s, k, start, end, reverse) ==
    LET o == lookupKeyRead(s, k)
        q == ZSeq(ZsetOf(o))
        p == IF reverse THEN Reverse(q) ELSE q
        r == RankRange(Len(q), start, end)
        first == CHOOSE i \in r : \A j \in r : i <= j
    IN  Reply(expireIfNeeded(s, k),
              IF WrongType(o, "zset") THEN Err("wrongtype")
              ELSE Multi(IF r = {} THEN <<>> ELSE SubSeq(p, first + 1, first + Cardinality(r))))

\* LIMIT: a negative offset skips everything, a negative limit is none.
ZLimit(q, offset, limit) ==
    LET from == IF offset < 0 THEN Len(q) ELSE offset
        to == IF limit < 0 \/ from + limit > Len(q) THEN Len(q) ELSE from + limit
    IN  SubSeq(q, from + 1, to)

\* ZRANGEBYSCORE and ZREVRANGEBYSCORE: the offset is skipped before the far
\* bound is looked at, so it counts members of the range only.
genericZrangebyscoreCommand(s, k, r, offset, limit, reverse) ==
    LET o == lookupKeyRead(s, k)
        z == ZsetOf(o)
    IN  Reply(expireIfNeeded(s, k),
              IF WrongType(o, "zset") THEN Err("wrongtype")
              ELSE Multi(ZLimit(ZRangeOf(ZSeq(z), LAMBDA m : z[m], r, reverse), offset, limit)))

\* ZRANGEBYLEX and ZREVRANGEBYLEX.
genericZrangebylexCommand(s, k, r, offset, limit, reverse) ==
    LET o == lookupKeyRead(s, k)
    IN  Reply(expireIfNeeded(s, k),
              IF WrongType(o, "zset") THEN Err("wrongtype")
              ELSE Multi(ZLimit(ZRangeOf(ZSeq(ZsetOf(o)), LAMBDA m : m, r, reverse), offset, limit)))

zcountCommand(s, k, r) ==
    LET o == lookupKeyRead(s, k)
        z == ZsetOf(o)
    IN  Reply(expireIfNeeded(s, k),
              IF WrongType(o, "zset") THEN Err("wrongtype")
              ELSE Num(Len(ZRangeOf(ZSeq(z), LAMBDA m : z[m], r, FALSE))))

zlexcountCommand(s, k, r) ==
    LET o == lookupKeyRead(s, k)
    IN  Reply(expireIfNeeded(s, k),
              IF WrongType(o, "zset") THEN Err("wrongtype")
              ELSE Num(Len(ZRangeOf(ZSeq(ZsetOf(o)), LAMBDA m : m, r, FALSE))))

zcardCommand(s, k) ==
    LET o == lookupKeyRead(s, k)
    IN  Reply(expireIfNeeded(s, k),
              IF WrongType(o, "zset") THEN Err("wrongtype") ELSE Num(Cardinality(DOMAIN ZsetOf(o))))

zscoreCommand(s, k, m) ==
    LET o == lookupKeyRead(s, k)
    IN  Reply(expireIfNeeded(s, k),
              IF WrongType(o, "zset") THEN Err("wrongtype")
              ELSE IF m \in DOMAIN ZsetOf(o) THEN Num(ZsetOf(o)[m]) ELSE Nil)

\* zsetRank: the place of a member, from zero; -1 if it is not there.
zsetRank(z, m, reverse) ==
    LET rank == SelectInSeq(ZSeq(z), LAMBDA x : x = m)
    IN  IF rank = 0 THEN -1 ELSE IF reverse THEN Cardinality(DOMAIN z) - rank ELSE rank - 1

\* ZRANK and ZREVRANK.
zrankGenericCommand(s, k, m, reverse) ==
    LET o == lookupKeyRead(s, k)
        rank == zsetRank(ZsetOf(o), m, reverse)
    IN  Reply(expireIfNeeded(s, k),
              IF WrongType(o, "zset") THEN Err("wrongtype") ELSE IF rank < 0 THEN Nil ELSE Num(rank))

(********************************* popping *********************************)

\* The first of the keys that exists, 0 if none does.
FirstMet(s, keys) == SelectInSeq(keys, LAMBDA k : lookupKeyWrite(s, k) # NULL)

\* Up to count members leave the sorted set z from one end.
ZpopFrom(s, k, z, where, count) ==
    LET n == IF count > Cardinality(DOMAIN z) THEN Cardinality(DOMAIN z) ELSE count
        pop(gone) == Reply(Dirty(StoreZset(s, k, [m \in DOMAIN z \ ToSet(gone) |-> z[m]]), n), Multi(gone))
    IN  pop(SubSeq(IF where = "max" THEN Reverse(ZSeq(z)) ELSE ZSeq(z), 1, n))

\* ZPOPMIN, ZPOPMAX and the pop of their blocking forms: the first key of keyv
\* that exists gives up to count members from one end.
genericZpopCommand(s, keyv, where, count) ==
    LET pop(s1, k) == IF WrongType(lookupKey(s1, k), "zset") THEN Reply(s1, Err("wrongtype"))
                      ELSE ZpopFrom(s1, k, KV(s1)[k].zset, where, count)
        run(i) == IF i = 0 THEN Reply(LookedUp(s, keyv), Multi(<<>>))
                  ELSE pop(LookedUp(s, SubSeq(keyv, 1, i)), keyv[i])
    IN  IF count <= 0 THEN Reply(s, Multi(<<>>)) ELSE run(FirstMet(s, keyv))

ZpopName(where) == IF where = "max" THEN "zpopmax" ELSE "zpopmin"

\* BZPOPMIN and BZPOPMAX: propagated as the pop of the key served.
blockingGenericZpopCommand(s, keys, where) ==
    LET pop(s1, k) == IF WrongType(lookupKey(s1, k), "zset") THEN Reply(s1, Err("wrongtype"))
                      ELSE Rewrite(genericZpopCommand(s1, <<k>>, where, 1), <<ZpopName(where), k, 1>>)
        run(i) == IF i # 0 THEN pop(LookedUp(s, SubSeq(keys, 1, i)), keys[i])
                  ELSE IF s.multi THEN Reply(LookedUp(s, keys), Nil)
                  ELSE [LookedUp(s, keys) EXCEPT !.block =
                          [btype |-> "zset", keys |-> ToSet(keys), where |-> where, target |-> NULL]]
    IN  run(FirstMet(s, keys))
-----------------------------------------------------------------------------
(***************************************************************************)
(* SORT (sort.c).  The options are the record                              *)
(*   desc, alpha   as given                                                *)
(*   limit         NULL or [start, count]                                  *)
(*   by            NULL, [nosort |-> TRUE] or [pattern |-> f]              *)
(*   get           a sequence of patterns                                  *)
(*   store         NULL or [key |-> k]                                     *)
(* A pattern is [self |-> TRUE] ("#"), or what replacing its "*" by an     *)
(* element gives: [of], a function from elements to [key] or [key, field]. *)
(* Elements are numbers.                                                   *)
(***************************************************************************)
\* The string a pattern names for an element, NULL if there is none.
lookupKeyByPattern(s, p, el) ==
    LET at == p[el]
        o == lookupKeyRead(s, at.key)
    IN  IF el \notin DOMAIN p \/ o = NULL THEN NULL
        ELSE IF "field" \in DOMAIN at
        THEN IF IsType(o, "hash") /\ at.field \in DOMAIN o.hash THEN Str(o.hash[at.field]) ELSE NULL
        ELSE IF IsType(o, "string") THEN o ELSE NULL

\* How an object is sorted.  A set stored unsorted would differ between master
\* and replica: it is sorted alphabetically.
Sorting(o, opt) ==
    LET nosort == opt.by # NULL /\ "nosort" \in DOMAIN opt.by
        forced == nosort /\ IsType(o, "set") /\ opt.store # NULL
    IN  [dontsort |-> nosort /\ ~forced, alpha |-> opt.alpha \/ forced, bypattern |-> opt.by # NULL /\ ~nosort]

\* The elements in the order of their container: a set, and a sorted set that
\* will be sorted, come in the order of a hash table.
Elements(s, o, dontsort, desc) ==
    LET rotate(q) == [i \in DOMAIN q |-> q[((i + s.dice - 1) % Len(q)) + 1]]
    IN  CASE IsType(o, "list") -> IF dontsort /\ desc THEN Reverse(o.list) ELSE o.list
          [] IsType(o, "set") -> rotate(SetToSeq(o.set))
          [] OTHER -> IF ~dontsort THEN rotate(SetToSeq(DOMAIN o.zset))
                      ELSE IF desc THEN Reverse(ZSeq(o.zset)) ELSE ZSeq(o.zset)

Number(w) == IF w = NULL THEN [ll |-> 0] ELSE string2ll(w.string)

\* The vector: each element with its weight, NULL if the pattern names no
\* string for it.
sortVector(s, els, bypattern, by) ==
    [i \in DOMAIN els |-> [el |-> els[i],
                           w |-> IF bypattern THEN lookupKeyByPattern(s, by.pattern, els[i])
                                 ELSE Str(ll2string(els[i]))]]

Score(x) == Number(x.w).ll


\* How two elements compare: by score and then by element; alphabetically by
\* their weights only, so that elements without one, or with equal ones, tie.
sortCompare(a, b, alpha, bypattern) ==
    IF ~alpha THEN (IF Score(a) # Score(b) THEN Score(a) - Score(b) ELSE a.el - b.el)
    ELSE IF ~bypattern THEN a.el - b.el
    ELSE IF NULL \in {a.w, b.w} THEN (IF a.w = b.w THEN 0 ELSE IF a.w = NULL THEN -1 ELSE 1)
    ELSE Score(a) - Score(b)

\* Ties stay as the sort finds them.
SortedVector(v, desc, alpha, bypattern) ==
    LET cmp(i, j) == (IF desc THEN -1 ELSE 1) * sortCompare(v[i], v[j], alpha, bypattern)
        before(i, j) == cmp(i, j) < 0 \/ (cmp(i, j) = 0 /\ i < j)
    IN  [i \in DOMAIN v |-> v[SetToSortSeq(DOMAIN v, before)[i]]]

\* The part of the sorted vector that LIMIT asks for.
Limited(v, limit) ==
    LET start == IF limit = NULL \/ limit.start < 0 THEN 0 ELSE limit.start
        end == IF limit = NULL \/ limit.count < 0 THEN Len(v) - 1 ELSE start + limit.count - 1
    IN  IF start >= Len(v) THEN <<>> ELSE SubSeq(v, start + 1, IF end >= Len(v) THEN Len(v) ELSE end + 1)

\* What is replied or stored for the elements picked, and the server once the
\* keys of the GET patterns were looked up.
Output(s, picked, get) ==
    LET got(el, p) == IF "self" \in DOMAIN p THEN <<el>>
                      ELSE LET w == lookupKeyByPattern(s, p.of, el) IN IF w = NULL THEN <<>> ELSE w.string
    IN  IF get = <<>> THEN [i \in DOMAIN picked |-> picked[i].el]
        ELSE FlattenSeq([i \in DOMAIN picked |-> [j \in DOMAIN get |-> got(picked[i].el, get[j])]])

\* The keys a pattern names for the elements are looked up, and may expire.
PatternKeys(s, v, f) ==
    LET p == SelectSeq(v, LAMBDA x : x.el \in DOMAIN f)
    IN  LookedUp(s, [i \in DOMAIN p |-> f[p[i].el].key])

OutputKeys(s, picked, get) ==
    FoldLeft(LAMBDA t, p : IF "self" \in DOMAIN p THEN t ELSE PatternKeys(t, picked, p.of), s, get)

sortReply(s, output, store) ==
    IF store = NULL THEN Reply(s, Multi(output))
    ELSE IF output # <<>> THEN Reply(Dirty(setKey(s, store.key, List(output)), Len(output)), Num(Len(output)))
    ELSE IF dbExists(s, store.key)
    THEN Reply(Dirty(signalModifiedKey(dbDelete(s, store.key), store.key), 1), Num(0))
    ELSE Reply(s, Num(0))

sortPicked(s, picked, opt) == sortReply(OutputKeys(s, picked, opt.get), Output(s, picked, opt.get), opt.store)

\* The vector v, whose weights were looked up, is sorted, cut and replied.
sortWeighed(s, v, how, opt) ==
    IF ~how.dontsort /\ ~how.alpha /\ \E i \in DOMAIN v : Number(v[i].w) = NULL
    THEN Reply(s, Err("not a double"))
    ELSE sortPicked(s, Limited(IF how.dontsort THEN v ELSE SortedVector(v, opt.desc, how.alpha, how.bypattern),
                               opt.limit), opt)

sortObject(s, v, how, opt) ==
    sortWeighed(IF how.bypattern THEN PatternKeys(s, v, opt.by.pattern) ELSE s, v, how, opt)

sortFound(s, o, how, opt) ==
    IF Type(o) \notin {"list", "set", "zset"} THEN Reply(s, Err("wrongtype"))
    ELSE sortObject(s, sortVector(s, Elements(s, o, how.dontsort, opt.desc), how.bypattern, opt.by), how, opt)

OrEmptyList(o) == IF o = NULL THEN List(<<>>) ELSE o

\* SORT: a missing key is an empty list.
sortCommand(s, k, opt) ==
    sortFound(expireIfNeeded(s, k), OrEmptyList(lookupKeyRead(s, k)),
              Sorting(OrEmptyList(lookupKeyRead(s, k)), opt), opt)
=============================================================================
