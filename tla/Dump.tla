-------------------------------- MODULE Dump --------------------------------
(***************************************************************************)
(* How values leave and enter a server: the RDB file (rdb.c), DUMP and     *)
(* RESTORE (cluster.c), and the commands a rewritten append only file is   *)
(* made of (aof.c).                                                        *)
(*                                                                         *)
(* An RDB file is the sequence of what rdbSaveRio writes: a database, or a *)
(* key with its expire time (-1 if none), its type and its body. Texts   *)
(* that are numbers are stored as integers of a few bits; keys, elements   *)
(* and fields are opaque.                                                  *)
(***************************************************************************)
EXTENDS Zsets, Streams

CONSTANTS
    IntBits,       \* the widths of an encoded integer (8, 16 and 32 bits)
    ItemsPerCmd    \* AOF_REWRITE_ITEMS_PER_CMD

(********************************* strings *********************************)

\* rdbEncodeInteger: the fewest bits that hold the number, in two's
\* complement; NULL when none of the widths does.
rdbEncodeInteger(n) ==
    LET fits == {w \in IntBits : -(2^(w - 1)) <= n /\ n < 2^(w - 1)}
        w == CHOOSE w \in fits : \A x \in fits : w <= x
    IN  IF fits = {} THEN NULL ELSE [bits |-> w, value |-> n % 2^w]

\* Only the text ll2string writes is taken for a number.
rdbTryIntegerEncoding(b) ==
    LET n == string2ll(b) IN IF n = NULL THEN NULL ELSE rdbEncodeInteger(n.ll)

rdbSaveRawString(b) ==
    LET e == rdbTryIntegerEncoding(b) IN IF e = NULL THEN [raw |-> b] ELSE e

rdbLoadIntegerObject(e) ==
    ll2string(IF e.value < 2^(e.bits - 1) THEN e.value ELSE e.value - 2^e.bits)

rdbGenericLoadStringObject(e) == IF "raw" \in DOMAIN e THEN e.raw ELSE rdbLoadIntegerObject(e)

(********************************* streams *********************************)

\* The pending entries of a group with their delivery time and count, and
\* without their consumer; those of a consumer are bare IDs.
rdbSaveStreamPEL(pel) ==
    LET ids == Sorted(DOMAIN pel)
    IN  [i \in DOMAIN ids |-> [id |-> ids[i], time |-> pel[ids[i]].time, count |-> pel[ids[i]].count]]

rdbSaveStreamConsumers(g) ==
    LET names == SetToSeq(DOMAIN g.consumers)
    IN  [i \in DOMAIN names |-> [name |-> names[i], ids |-> Sorted(g.consumers[names[i]])]]

SaveGroups(groups) ==
    LET names == SetToSeq(DOMAIN groups)
    IN  [i \in DOMAIN names |->
           [name |-> names[i], last |-> groups[names[i]].last, pel |-> rdbSaveStreamPEL(groups[names[i]].pel),
            consumers |-> rdbSaveStreamConsumers(groups[names[i]])]]

\* The owner of each pending entry comes from the lists of the consumers; a
\* file that names an entry twice, or one that is not pending, is corrupt.
LoadNACK(g, name, id) ==
    IF g = NULL \/ id \notin DOMAIN g.pel \/ id \in g.consumers[name] THEN NULL
    ELSE [g EXCEPT !.pel[id].consumer = name, !.consumers[name] = @ \cup {id}]


LoadConsumer(g, c) ==
    IF g = NULL THEN NULL
    ELSE FoldLeft(LAMBDA x, id : LoadNACK(x, c.name, id), streamLookupConsumer(g, c.name), c.ids)

LoadGroup(e) ==
    LET nack(i) == streamCreateNACK(NULL, e.pel[i].time)
        pel == FoldLeftDomain(LAMBDA f, i : (e.pel[i].id :> [nack(i) EXCEPT !.count = e.pel[i].count]) @@ f, <<>>, e.pel)
    IN  FoldLeft(LoadConsumer, [streamCreateCG(e.last) EXCEPT !.pel = pel], e.consumers)

LoadStream(b) ==
    LET groups == [i \in DOMAIN b.groups |-> LoadGroup(b.groups[i])]
    IN  IF NULL \in ToSet(groups) THEN NULL
        ELSE Stream([nodes |-> b.nodes, last |-> b.last,
                     groups |-> FoldLeftDomain(LAMBDA f, i : (b.groups[i].name :> groups[i]) @@ f, <<>>, groups)])

(********************************* values **********************************)

\* A sorted set is written from its highest score down.
rdbSaveObject(v) ==
    CASE IsType(v, "string") -> rdbSaveRawString(v.string)
      [] IsType(v, "list") -> v.list
      [] IsType(v, "set") -> SetToSeq(v.set)
      [] IsType(v, "zset") -> LET q == Reverse(ZSeq(v.zset)) IN [i \in DOMAIN q |-> <<q[i], v.zset[q[i]]>>]
      [] IsType(v, "hash") -> LET q == SetToSeq(DOMAIN v.hash)
                              IN [i \in DOMAIN q |-> <<q[i], rdbSaveRawString(v.hash[q[i]])>>]
      [] IsType(v, "stream") -> [nodes |-> v.stream.nodes, last |-> v.stream.last, groups |-> SaveGroups(v.stream.groups)]

Pairs(b) == FoldLeft(LAMBDA f, p : (p[1] :> p[2]) @@ f, <<>>, b)

rdbLoadObject(type, b) ==
    CASE type = "string" -> Str(rdbGenericLoadStringObject(b))
      [] type = "list" -> List(b)
      [] type = "set" -> SetVal(ToSet(b))
      [] type = "zset" -> Zset(Pairs(b))
      [] type = "hash" -> Hash([f \in DOMAIN Pairs(b) |-> rdbGenericLoadStringObject(Pairs(b)[f])])
      [] type = "stream" -> LoadStream(b)

rdbSaveKeyValuePair(base, k) ==
    [key |-> k, type |-> Type(base.kv[k]), body |-> rdbSaveObject(base.kv[k]),
     expire |-> IF k \in DOMAIN base.ex THEN base.ex[k] ELSE -1]

rdbSaveRio(bases) ==
    LET one(d) == LET q == SetToSeq(DOMAIN bases[d].kv)
                  IN  [i \in DOMAIN q |-> rdbSaveKeyValuePair(bases[d], q[i])]
    IN  FoldLeft(LAMBDA f, d : IF DOMAIN bases[d].kv = {} THEN f ELSE f \o <<[select |-> d]>> \o one(d),
                 <<>>, SetToSeq(DOMAIN bases))

\* A master skips the keys that expired meanwhile, a replica waits for the
\* DEL of its master.
LoadEntry(s, e) ==
    IF "select" \in DOMAIN e THEN [s EXCEPT !.cur = e.select]
    ELSE IF ~s.slave /\ e.expire # -1 /\ e.expire < s.now THEN s
    ELSE LET t == dbAdd(s, e.key, rdbLoadObject(e.type, e.body))
         IN  IF e.expire = -1 THEN t ELSE setExpire(t, e.key, e.expire)

rdbLoadRio(s, file) == FoldLeft(LoadEntry, s, file)

(***************************** DUMP and RESTORE ****************************)

\* The body of a value as the RDB file has it; NULL stands for a payload whose
\* version or checksum is wrong.
createDumpPayload(o) == [type |-> Type(o), body |-> rdbSaveObject(o)]

verifyDumpPayload(payload) == payload # NULL

dumpCommand(s, k) ==
    LET o == lookupKeyRead(s, k)
    IN  Reply(expireIfNeeded(s, k), IF o = NULL THEN Nil ELSE Bulk(createDumpPayload(o)))

\* The ttl counts from the clock of the server that runs it unless absttl is
\* given; 0 is none.
restoreCommand(s, k, ttl, payload, replace, absttl) ==
    LET s1 == IF replace THEN s ELSE expireIfNeeded(s, k)
        obj == rdbLoadObject(payload.type, payload.body)
        s2 == dbAdd(IF replace THEN dbDelete(s1, k) ELSE s1, k, obj)
        s3 == IF ttl = 0 THEN s2 ELSE setExpire(s2, k, IF absttl THEN ttl ELSE ttl + s.now)
    IN  IF ~replace /\ dbExists(s1, k) THEN Reply(s1, Err("busykey"))
        ELSE IF ttl < 0 THEN Reply(s1, Err("invalid ttl"))
        ELSE IF ~verifyDumpPayload(payload) THEN Reply(s1, Err("wrong version or checksum"))
        ELSE IF obj = NULL THEN Reply(s1, Err("bad data format"))
        ELSE Reply(Dirty(signalModifiedKey(s3, k), 1), Ok)

(************************* the commands of a rewrite ***********************)

\* The items in commands of at most ItemsPerCmd.
Chunks(q) ==
    [i \in 1..((Len(q) + ItemsPerCmd - 1) \div ItemsPerCmd) |->
       SubSeq(q, (i - 1) * ItemsPerCmd + 1, IF i * ItemsPerCmd < Len(q) THEN i * ItemsPerCmd ELSE Len(q))]

rewriteListObject(k, q) == [i \in DOMAIN Chunks(q) |-> <<"rpush", k, Chunks(q)[i]>>]
rewriteSetObject(k, S) == [i \in DOMAIN Chunks(SetToSeq(S)) |-> <<"sadd", k, Chunks(SetToSeq(S))[i]>>]
rewriteSortedSetObject(k, z) ==
    LET q == ZSeq(z)
        c == Chunks([i \in DOMAIN q |-> <<z[q[i]], q[i]>>])
    IN  [i \in DOMAIN c |-> <<"zadd", k, c[i], {}>>]
rewriteHashObject(k, h) ==
    LET q == SetToSeq(DOMAIN h)
        c == Chunks([i \in DOMAIN q |-> <<q[i], h[q[i]]>>])
    IN  [i \in DOMAIN c |-> <<"hset", k, c[i]>>]

rioWriteStreamPendingEntry(k, name, consumer, id, nack) ==
    <<"xclaim", k, name, consumer, 0, <<id>>,
      [time |-> nack.time, retrycount |-> nack.count, justid |-> TRUE, force |-> TRUE]>>

RewriteGroup(k, name, g) ==
    LET claims(c) == LET ids == Sorted(g.consumers[c])
                     IN  [i \in DOMAIN ids |-> rioWriteStreamPendingEntry(k, name, c, ids[i], g.pel[ids[i]])]
    IN  FoldLeft(LAMBDA q, c : q \o claims(c), <<<<"xgroup", "create", k, name, g.last>>>>,
                 SetToSeq(DOMAIN g.consumers))

FaultyRewriteStream(k, st) ==
    LET q == Entries(st)
        entries == [i \in DOMAIN q |-> <<"xadd", k, NULL, q[i].id, q[i].fields>>]
    IN  FoldLeft(LAMBDA x, name : x \o RewriteGroup(k, name, st.groups[name]), entries, SetToSeq(DOMAIN st.groups))

\* An empty stream is made by adding an entry and trimming it at once.  Then
\* come the top ID and the groups.
rewriteStreamObject(k, st) ==
    LET q == Entries(st)
        entries == IF q = <<>> THEN <<<<"xadd", k, [n |-> 0, approx |-> FALSE], st.last, 1>>>>
                   ELSE [i \in DOMAIN q |-> <<"xadd", k, NULL, q[i].id, q[i].fields>>]
    IN  FoldLeft(LAMBDA x, name : x \o RewriteGroup(k, name, st.groups[name]),
                 entries \o <<<<"xsetid", k, st.last>>>>, SetToSeq(DOMAIN st.groups))

RewriteKey(base, k) ==
    LET v == base.kv[k]
    IN  (CASE IsType(v, "string") -> <<<<"set", k, v.string, {}, NULL>>>>
           [] IsType(v, "list") -> rewriteListObject(k, v.list)
           [] IsType(v, "set") -> rewriteSetObject(k, v.set)
           [] IsType(v, "zset") -> rewriteSortedSetObject(k, v.zset)
           [] IsType(v, "hash") -> rewriteHashObject(k, v.hash)
           [] IsType(v, "stream") -> rewriteStreamObject(k, v.stream))
        \o (IF k \in DOMAIN base.ex THEN <<<<"expireat", k, base.ex[k]>>>> ELSE <<>>)

\* Every command with its database.
rewriteAppendOnlyFileRio(bases) ==
    LET one(d) == FoldLeft(LAMBDA q, k : q \o RewriteKey(bases[d], k), <<>>, SetToSeq(DOMAIN bases[d].kv))
        in(d, q) == [i \in DOMAIN q |-> <<d, q[i]>>]
    IN  FoldLeft(LAMBDA f, d : f \o in(d, one(d)), <<>>, SetToSeq(DOMAIN bases))
=============================================================================
