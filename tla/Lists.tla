-------------------------------- MODULE Lists -------------------------------
(***************************************************************************)
(* The commands on list values (t_list.c), and the service of the clients  *)
(* blocked on a list (blocked.c, serveClientBlockedOnList).                *)
(***************************************************************************)
EXTENDS Keyspace

List(q) == [list |-> q]
ListOf(o) == IF o = NULL THEN <<>> ELSE o.list

listTypePush(q, v, where) == IF where = "head" THEN <<v>> \o q ELSE Append(q, v)
listTypePeek(q, where) == IF where = "head" THEN Head(q) ELSE Last(q)
listTypePop(q, where) == IF where = "head" THEN Tail(q) ELSE Front(q)

\* The end of every command that shortens a list: an empty one is deleted.
StoreList(s, k, q) ==
    signalModifiedKey(IF q = <<>> THEN dbDelete(s, k) ELSE dbOverwrite(s, k, List(q)), k)

\* LPUSH and RPUSH: the key is added with the first element.
pushGenericCommand(s, k, vs, where) ==
    LET s1 == expireIfNeeded(s, k)
        o == lookupKey(s1, k)
        q == FoldLeft(LAMBDA acc, v : listTypePush(acc, v, where), ListOf(o), vs)
        s2 == IF o = NULL THEN dbAdd(s1, k, List(q)) ELSE dbOverwrite(s1, k, List(q))
    IN  IF WrongType(o, "list") THEN Reply(s1, Err("wrongtype"))
        ELSE Reply(Dirty(signalModifiedKey(s2, k), Len(vs)), Num(Len(q)))

\* LPUSHX and RPUSHX.
pushxGenericCommand(s, k, vs, where) ==
    LET s1 == expireIfNeeded(s, k)
    IN  IF ~dbExists(s1, k) THEN Reply(s1, Num(0)) ELSE pushGenericCommand(s1, k, vs, where)

linsertCommand(s, k, where, pivot, v) ==
    LET s1 == expireIfNeeded(s, k)
        o == lookupKey(s1, k)
        at == SelectInSeq(o.list, LAMBDA x : x = pivot)
        q == InsertAt(o.list, IF where = "before" THEN at ELSE at + 1, v)
    IN  IF o = NULL THEN Reply(s1, Num(0))
        ELSE IF WrongType(o, "list") THEN Reply(s1, Err("wrongtype"))
        ELSE IF at = 0 THEN Reply(s1, Num(-1))
        ELSE Reply(Dirty(StoreList(s1, k, q), 1), Num(Len(q)))

llenCommand(s, k) ==
    LET o == lookupKeyRead(s, k)
    IN  Reply(expireIfNeeded(s, k), IF WrongType(o, "list") THEN Err("wrongtype") ELSE Num(Len(ListOf(o))))

\* The position of an index: negative ones count from the tail; 0 if none.
listPosition(q, index) ==
    LET i == IF index >= 0 THEN index + 1 ELSE Len(q) + index + 1
    IN  IF i \in DOMAIN q THEN i ELSE 0

lindexCommand(s, k, index) ==
    LET o == lookupKeyRead(s, k)
        i == listPosition(o.list, index)
    IN  Reply(expireIfNeeded(s, k),
              IF o = NULL THEN Nil
              ELSE IF WrongType(o, "list") THEN Err("wrongtype")
              ELSE IF i = 0 THEN Nil ELSE Bulk(o.list[i]))

lsetCommand(s, k, index, v) ==
    LET s1 == expireIfNeeded(s, k)
        o == lookupKey(s1, k)
        i == listPosition(o.list, index)
    IN  IF o = NULL THEN Reply(s1, Err("nokey"))
        ELSE IF WrongType(o, "list") THEN Reply(s1, Err("wrongtype"))
        ELSE IF i = 0 THEN Reply(s1, Err("outofrange"))
        ELSE Reply(Dirty(StoreList(s1, k, [o.list EXCEPT ![i] = v]), 1), Ok)

\* LPOP and RPOP.
popGenericCommand(s, k, where) ==
    LET s1 == expireIfNeeded(s, k)
        o == lookupKey(s1, k)
    IN  IF o = NULL THEN Reply(s1, Nil)
        ELSE IF WrongType(o, "list") THEN Reply(s1, Err("wrongtype"))
        ELSE Reply(Dirty(StoreList(s1, k, listTypePop(o.list, where)), 1), Bulk(listTypePeek(o.list, where)))

\* The range of LRANGE and LTRIM as first and last position; empty when the
\* first is larger.
listRange(q, start, end) ==
    LET from == IF start < 0 THEN (IF Len(q) + start < 0 THEN 0 ELSE Len(q) + start) ELSE start
        to == IF end < 0 THEN Len(q) + end ELSE end
    IN  IF from > to \/ from >= Len(q) THEN <<1, 0>>
        ELSE <<from + 1, IF to >= Len(q) THEN Len(q) ELSE to + 1>>

lrangeCommand(s, k, start, end) ==
    LET o == lookupKeyRead(s, k)
        r == listRange(ListOf(o), start, end)
    IN  Reply(expireIfNeeded(s, k),
              IF WrongType(o, "list") THEN Err("wrongtype") ELSE Multi(SubSeq(ListOf(o), r[1], r[2])))

\* LTRIM changes, signals and counts even when it removes nothing.
ltrimCommand(s, k, start, end) ==
    LET s1 == expireIfNeeded(s, k)
        o == lookupKey(s1, k)
        r == listRange(o.list, start, end)
    IN  IF o = NULL THEN Reply(s1, Ok)
        ELSE IF WrongType(o, "list") THEN Reply(s1, Err("wrongtype"))
        ELSE Reply(Dirty(StoreList(s1, k, SubSeq(o.list, r[1], r[2])), 1), Ok)

\* LREM: the first toremove occurrences, from the tail when it is negative,
\* all of them when it is zero.
lremCommand(s, k, toremove, v) ==
    LET s1 == expireIfNeeded(s, k)
        o == lookupKey(s1, k)
        at == {i \in DOMAIN o.list : o.list[i] = v}
        before(i) == Cardinality({j \in at : IF toremove < 0 THEN j > i ELSE j < i})
        max == IF toremove < 0 THEN -toremove ELSE toremove
        gone == {i \in at : toremove = 0 \/ before(i) < max}
        keep == FoldLeft(LAMBDA acc, i : IF i \in gone THEN acc ELSE Append(acc, o.list[i]),
                         <<>>, [i \in DOMAIN o.list |-> i])
    IN  IF o = NULL THEN Reply(s1, Num(0))
        ELSE IF WrongType(o, "list") THEN Reply(s1, Err("wrongtype"))
        ELSE IF gone = {} THEN Reply(s1, Num(0))
        ELSE Reply(Dirty(StoreList(s1, k, keep), Cardinality(gone)), Num(Cardinality(gone)))

\* The push half of RPOPLPUSH.
rpoplpushHandlePush(s, dst, v) ==
    LET o == lookupKey(s, dst)
        s1 == IF o = NULL THEN dbAdd(s, dst, List(<<v>>)) ELSE dbOverwrite(s, dst, List(<<v>> \o o.list))
    IN  Reply(signalModifiedKey(s1, dst), Bulk(v))

FaultyRpoplpush(s, src, dst) ==
    LET s1 == expireIfNeeded(s, src)
        o == lookupKey(s1, src)
        s2 == expireIfNeeded(s1, dst)
        popped == dbOverwrite(s2, src, List(Front(o.list)))
        s3 == rpoplpushHandlePush(popped, dst, Last(o.list))
        s4 == signalModifiedKey(IF KV(s3)[src].list = <<>> THEN dbDelete(s3, src) ELSE s3, src)
    IN  IF o = NULL THEN Reply(s1, Nil)
        ELSE IF WrongType(o, "list") THEN Reply(s1, Err("wrongtype"))
        ELSE IF WrongType(lookupKey(popped, dst), "list") THEN Reply(popped, Err("wrongtype"))
        ELSE Rewrite(Dirty(s4, 1), <<"rpoplpush", src, dst>>)

\* RPOPLPUSH, also the body of BRPOPLPUSH when there is an element: it is
\* propagated as RPOPLPUSH either way.  Source and destination may be one key.
rpoplpushCommand(s, src, dst) ==
    LET s1 == expireIfNeeded(s, src)
        o == lookupKey(s1, src)
        s2 == expireIfNeeded(s1, dst)
        d == lookupKey(s2, dst)
        v == Last(o.list)
        popped == dbOverwrite(s2, src, List(Front(o.list)))
        s3 == rpoplpushHandlePush(popped, dst, v)
        s4 == signalModifiedKey(IF KV(s3)[src].list = <<>> THEN dbDelete(s3, src) ELSE s3, src)
    IN  IF o = NULL THEN Reply(s1, Nil)
        ELSE IF WrongType(o, "list") THEN Reply(s1, Err("wrongtype"))
        ELSE IF WrongType(d, "list") THEN Reply(s2, Err("wrongtype"))
        ELSE Rewrite(Dirty(s4, 1), <<"rpoplpush", src, dst>>)

PopName(where) == IF where = "head" THEN "lpop" ELSE "rpop"

\* BLPOP and BRPOP: the first key that holds a list is popped, and the pop is
\* propagated; without one the client blocks, except inside a transaction.
blockingPopGenericCommand(s, keys, where) ==
    LET met == {i \in DOMAIN keys : lookupKeyWrite(s, keys[i]) # NULL}
        i == CHOOSE i \in met : \A j \in met : i <= j
        s1 == LookedUp(s, IF met = {} THEN keys ELSE SubSeq(keys, 1, i))
        q == KV(s1)[keys[i]].list
        s2 == Dirty(StoreList(s1, keys[i], listTypePop(q, where)), 1)
    IN  IF met # {} /\ WrongType(lookupKey(s1, keys[i]), "list") THEN Reply(s1, Err("wrongtype"))
        ELSE IF met # {}
        THEN Reply(Rewrite(s2, <<PopName(where), keys[i]>>), Multi(<<keys[i], listTypePeek(q, where)>>))
        ELSE IF s.multi THEN Reply(s1, Nil)
        ELSE [s1 EXCEPT !.block = [btype |-> "list", keys |-> ToSet(keys), where |-> where, target |-> NULL]]

brpoplpushCommand(s, src, dst) ==
    LET s1 == expireIfNeeded(s, src)
        o == lookupKey(s1, src)
    IN  IF o = NULL /\ s.multi THEN Reply(s1, Nil)
        ELSE IF o = NULL
        THEN [s1 EXCEPT !.block = [btype |-> "list", keys |-> {src}, where |-> "tail", target |-> [key |-> dst]]]
        ELSE IF WrongType(o, "list") THEN Reply(s1, Err("wrongtype"))
        ELSE rpoplpushCommand(s1, src, dst)

Propagate(s, argv) == [s EXCEPT !.fed = Append(@, <<s.cur, argv>>)]

FaultyServeList(s, key, b) ==
    LET q == KV(s)[key].list
        v == listTypePeek(q, b.where)
        popped == dbOverwrite(s, key, List(listTypePop(q, b.where)))
        s1 == expireIfNeeded(popped, b.target.key)
    IN  IF b.target = NULL THEN Reply(Propagate(popped, <<PopName(b.where), key>>), Multi(<<key, v>>))
        ELSE IF WrongType(lookupKey(s1, b.target.key), "list") THEN Reply(s1, Err("wrongtype"))
        ELSE Propagate(rpoplpushHandlePush(Propagate(s1, <<"rpop", key>>), b.target.key, v),
                       <<"lpush", b.target.key, <<v>>>>)

\* One element of the list is given to a blocked client: the pop is propagated,
\* and the push of BRPOPLPUSH after it.  With a target of another type the
\* client gets the error and the element goes back.
serveClientBlockedOnList(s, key, b) ==
    LET q == KV(s)[key].list
        v == listTypePeek(q, b.where)
        popped == dbOverwrite(s, key, List(listTypePop(q, b.where)))
        s1 == expireIfNeeded(popped, b.target.key)
    IN  IF b.target = NULL THEN Reply(Propagate(popped, <<PopName(b.where), key>>), Multi(<<key, v>>))
        ELSE IF WrongType(lookupKey(s1, b.target.key), "list")
        THEN Reply(dbOverwrite(s1, key, List(q)), Err("wrongtype"))
        ELSE Propagate(rpoplpushHandlePush(Propagate(s1, <<"rpop", key>>), b.target.key, v),
                       <<"lpush", b.target.key, <<v>>>>)
=============================================================================
