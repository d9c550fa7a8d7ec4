------------------------------ MODULE Keyspace ------------------------------
(***************************************************************************)
(* The keyspace of a Redis server (db.c, expire.c): the dictionaries of    *)
(* keys and of expire times, the lookups that expire a key on the way, the *)
(* calls every data type's commands use to change it, and the commands     *)
(* that work on keys of any type.                                          *)
(*                                                                         *)
(* A command is a tuple <<name, arguments...>>.  It is an operator that    *)
(* takes the server as the record the command finds and returns the one it *)
(* leaves:                                                                 *)
(*   db     each database: kv, the value of each key, and ex, the expire   *)
(*          time of those that have one                                    *)
(*   cur    the database selected by the client (client.db)                *)
(*   now    the clock, mstime()                                            *)
(*   slave  server.masterhost is set                                       *)
(*   link   the client is the link to the master (CLIENT_MASTER)           *)
(*   dirty  how much server.dirty grew                                     *)
(*   sig    the keys given to signalModifiedKey, which WATCH listens to    *)
(*   ready  the keys given to signalKeyAsReady, which wake blocked clients *)
(*   fed    what the command itself fed to the replicas, in order          *)
(*   argv   the command vector to propagate (commands rewrite it)          *)
(*   also   the commands queued by alsoPropagate                           *)
(*   prevent  CLIENT_PREVENT_PROP                                          *)
(*   multi  the client is inside EXEC (CLIENT_MULTI)                       *)
(*   block  what blockForKeys was asked to wait for, NULL if nothing       *)
(*   dice   where the random generator points: the seed of the draws       *)
(*   reply  what the client is told                                        *)
(* A value is a record with one field, the name of its type.               *)
(***************************************************************************)
EXTENDS Integers, Sequences, FiniteSets, SequencesExt, TLC

CONSTANTS
    LLONG_MAX,     \* the largest long long (a small one stands for 2^63 - 1)
    MaxString      \* the longest string allowed (512 MB)

ASSUME LLAssumption == LLONG_MAX \in Nat \ {0} /\ MaxString \in Nat

LLONG_MIN == -LLONG_MAX - 1

(*************************** values and replies ****************************)

NULL == [null |-> TRUE]
Str(b) == [string |-> b]
Type(o) == CHOOSE t \in DOMAIN o : TRUE
IsType(o, t) == t \in DOMAIN o

Ok == <<"ok">>
Nil == <<"nil">>
Num(n) == <<"int", n>>
Bulk(v) == <<"bulk", v>>
Multi(q) == <<"multi", q>>
Err(e) == <<"err", e>>
IsErr(r) == r[1] = "err"

Reply(s, r) == [s EXCEPT !.reply = r]
Dirty(s, n) == [s EXCEPT !.dirty = @ + n]

\* rewriteClientCommandVector: what is propagated in the command's place.
Rewrite(s, argv) == [s EXCEPT !.argv = argv]

\* checkType with the key present.
WrongType(o, t) == o # NULL /\ ~IsType(o, t)

Digits[n \in Nat] == IF n < 10 THEN <<48 + n>> ELSE Append(Digits[n \div 10], 48 + (n % 10))

\* ll2string: the decimal text of an integer.
ll2string(n) == IF n < 0 THEN <<45>> \o Digits[-n] ELSE Digits[n]

IsDigit(c) == c \in 48..57

DigitsValue(q) == FoldLeft(LAMBDA acc, c : 10 * acc + (c - 48), 0, q)

\* string2ll: only the text ll2string would write, inside the range of a
\* long long; NULL when the text is refused.
string2ll(q) ==
    LET neg == q # <<>> /\ q[1] = 45
        p == IF neg THEN Tail(q) ELSE q
        n == IF neg THEN -DigitsValue(p) ELSE DigitsValue(p)
    IN  IF \/ p = <<>> \/ \E i \in DOMAIN p : ~IsDigit(p[i])
           \/ p[1] = 48 /\ Len(q) > 1
           \/ n < LLONG_MIN \/ n > LLONG_MAX
        THEN NULL ELSE [ll |-> n]

(************************ the dictionaries of a base ***********************)

KV(s) == s.db[s.cur].kv
EX(s) == s.db[s.cur].ex

Without(f, k) == [x \in DOMAIN f \ {k} |-> f[x]]

dbExists(s, k) == k \in DOMAIN KV(s)

lookupKey(s, k) == IF dbExists(s, k) THEN KV(s)[k] ELSE NULL

signalModifiedKey(s, k) == [s EXCEPT !.sig = @ \cup {<<s.cur, k>>}]

\* A key already on the list of ready keys is not put on it again.
signalKeyAsReady(s, k) ==
    IF <<s.cur, k>> \in ToSet(s.ready) THEN s ELSE [s EXCEPT !.ready = Append(@, <<s.cur, k>>)]

FaultyDbAdd(s, k, v) ==
    LET t == [s EXCEPT !.db[s.cur].kv = (k :> v) @@ @]
    IN  IF IsType(v, "list") THEN signalKeyAsReady(t, k) ELSE t

\* A new key of a type that clients can block on wakes them.
dbAdd(s, k, v) ==
    LET t == [s EXCEPT !.db[s.cur].kv = (k :> v) @@ @]
    IN  IF IsType(v, "list") \/ IsType(v, "zset") THEN signalKeyAsReady(t, k) ELSE t

dbOverwrite(s, k, v) == [s EXCEPT !.db[s.cur].kv[k] = v]


\* dbSyncDelete, and dbAsyncDelete, which differ only in who frees the value.
dbSyncDelete(s, k) ==
    [s EXCEPT !.db[s.cur].ex = Without(@, k), !.db[s.cur].kv = Without(@, k)]

dbDelete(s, k) == dbSyncDelete(s, k)

removeExpire(s, k) == [s EXCEPT !.db[s.cur].ex = Without(@, k)]

setExpire(s, k, when) == [s EXCEPT !.db[s.cur].ex = (k :> when) @@ @]

getExpire(s, k) == IF k \in DOMAIN EX(s) THEN EX(s)[k] ELSE -1

(********************************* expiry **********************************)


keyIsExpired(s, k) == k \in DOMAIN EX(s) /\ s.now > EX(s)[k]

\* The deletion is fed at once, ahead of the command that met the key.
propagateExpire(s, k) == [s EXCEPT !.fed = Append(@, <<s.cur, <<"del", <<k>>>>>>)]


\* A replica leaves the key to its master's DEL.
expireIfNeeded(s, k) ==
    IF keyIsExpired(s, k) /\ ~s.slave
    THEN dbSyncDelete(propagateExpire(s, k), k) ELSE s

\* What a lookup for reading finds: the master has deleted an expired key;
\* on a replica it is hidden from every client but the link to the master
\* (the replicas are read only, so its other clients run only reads).
lookupKeyReadWithFlags(s, k) ==
    IF keyIsExpired(s, k) /\ (~s.slave \/ ~s.link) THEN NULL ELSE lookupKey(s, k)

lookupKeyRead(s, k) == lookupKeyReadWithFlags(s, k)

\* What a lookup for writing finds, once expireIfNeeded ran.
lookupKeyWrite(s, k) == lookupKey(expireIfNeeded(s, k), k)

\* The side effect of looking up a sequence of keys, one after the other.
LookedUp(s, keys) == FoldLeft(expireIfNeeded, s, keys)

setKey(s, k, v) ==
    LET s1 == expireIfNeeded(s, k)
        s2 == IF dbExists(s1, k) THEN dbOverwrite(s1, k, v) ELSE dbAdd(s1, k, v)
    IN  signalModifiedKey(removeExpire(s2, k), k)

\* One key of the active expire cycle, which samples the keys with an expire
\* time of the databases in turn.
activeExpireCycleTryExpire(s, k) ==
    IF s.now > getExpire(s, k) THEN dbSyncDelete(propagateExpire(s, k), k) ELSE s

\* The cycle: a master only, one sampled key at a time until its time is up,
\* so that any subset of the keys with an expire time is tried.
activeExpireCycle(s, sampled) ==
    FoldLeft(LAMBDA t, k : IF k \in DOMAIN EX(t) THEN activeExpireCycleTryExpire(t, k) ELSE t,
             s, sampled)

(***************************** generic commands ****************************)

\* delCommand and unlinkCommand.
delGenericCommand(s, keys) ==
    LET one(t, k) ==
          LET t1 == expireIfNeeded(t, k)
          IN  IF dbExists(t1, k)
              THEN Dirty(signalModifiedKey(dbSyncDelete(t1, k), k), 1) ELSE t1
        r == FoldLeft(one, s, keys)
    IN  Reply(r, Num(r.dirty - s.dirty))

existsCommand(s, keys) ==
    LET one(acc, k) ==
          <<expireIfNeeded(acc[1], k), acc[2] + (IF lookupKeyRead(acc[1], k) = NULL THEN 0 ELSE 1)>>
        r == FoldLeft(one, <<s, 0>>, keys)
    IN  Reply(r[1], Num(r[2]))

touchCommand(s, keys) == existsCommand(s, keys)

typeCommand(s, k) ==
    LET o == lookupKeyReadWithFlags(s, k)
    IN  Reply(expireIfNeeded(s, k), <<"status", IF o = NULL THEN "none" ELSE Type(o)>>)

\* dbRandomKey draws until it meets a key that is not expired; on a replica
\* where every key has an expire time it gives up after 100 draws and returns
\* the key it holds.
randomkeyCommand(s) ==
    LET keys == DOMAIN KV(s)
        dead == {k \in keys : keyIsExpired(s, k)}
        clear == IF s.slave THEN s ELSE LookedUp(s, SetToSeq(dead))
    IN  IF keys = {} THEN Reply(s, Nil)
        ELSE IF keys # dead THEN Reply(s, <<"key", CHOOSE k \in keys \ dead : TRUE>>)
        ELSE IF s.slave THEN Reply(s, <<"key", CHOOSE k \in dead : TRUE>>)
        ELSE Reply(clear, Nil)

\* KEYS: the pattern is a set of keys here.
keysCommand(s, pattern) ==
    Reply(s, <<"keys", {k \in DOMAIN KV(s) \cap pattern : ~keyIsExpired(s, k)}>>)

\* One SCAN call: dictScan returned the keys of the buckets it visited, those
\* that match are looked at, and the expired ones are dropped (and deleted on
\* a master).
ScanFilter(s, visited, pattern) == visited \cap pattern \cap DOMAIN KV(s)

scanGenericCommand(s, visited, pattern) ==
    LET matching == ScanFilter(s, visited, pattern)
    IN  Reply(LookedUp(s, SetToSeq(matching)), <<"keys", {k \in matching : ~keyIsExpired(s, k)}>>)

dbsizeCommand(s) == Reply(s, Num(Cardinality(DOMAIN KV(s))))

\* RENAME and RENAMENX: the value moves with its expire time.
renameGenericCommand(s, from, to, nx) ==
    LET s1 == expireIfNeeded(s, from)
        o == lookupKey(s1, from)
        expire == getExpire(s1, from)
        s2 == expireIfNeeded(s1, to)
        s3 == dbAdd(IF dbExists(s2, to) THEN dbDelete(s2, to) ELSE s2, to, o)
        s4 == IF expire # -1 THEN setExpire(s3, to, expire) ELSE s3
        s5 == signalModifiedKey(signalModifiedKey(dbDelete(s4, from), from), to)
    IN  IF o = NULL THEN Reply(s1, Err("nokey"))
        ELSE IF from = to THEN Reply(s1, IF nx THEN Num(0) ELSE Ok)
        ELSE IF nx /\ dbExists(s2, to) THEN Reply(s2, Num(0))
        ELSE Reply(Dirty(s5, 1), IF nx THEN Num(1) ELSE Ok)

\* MOVE: the key changes database with its expire time.  No signalModifiedKey.
moveCommand(s, k, dbid) ==
    LET At(t, d) == [t EXCEPT !.cur = d]
        s1 == expireIfNeeded(s, k)
        o == lookupKey(s1, k)
        expire == getExpire(s1, k)
        s2 == At(expireIfNeeded(At(s1, dbid), k), s.cur)
        s3 == dbAdd(At(s2, dbid), k, o)
        s4 == IF expire # -1 THEN setExpire(s3, k, expire) ELSE s3
    IN  IF dbid \notin DOMAIN s.db THEN Reply(s, Err("outofrange"))
        ELSE IF dbid = s.cur THEN Reply(s, Err("sameobject"))
        ELSE IF o = NULL THEN Reply(s1, Num(0))
        ELSE IF dbExists(At(s2, dbid), k) THEN Reply(s2, Num(0))
        ELSE Reply(Dirty(dbDelete(At(s4, s.cur), k), 1), Num(1))

\* SWAPDB: the dictionaries change places, the clients blocked on or watching
\* keys stay; lists, streams and sorted sets that clients wait for are
\* signalled (every one here: a key nobody waits for is ignored later).
swapdbCommand(s, id1, id2) ==
    LET s1 == [s EXCEPT !.db[id1] = s.db[id2], !.db[id2] = s.db[id1]]
        blockable(d) == {<<d, k>> : k \in {k \in DOMAIN s1.db[d].kv :
                            Type(s1.db[d].kv[k]) \in {"list", "stream", "zset"}}}
        s2 == IF id1 = id2 THEN s
              ELSE [s1 EXCEPT !.ready = @ \o SetToSeq((blockable(id1) \cup blockable(id2)) \ ToSet(@))]
    IN  IF {id1, id2} \subseteq DOMAIN s.db
        THEN Reply(Dirty(s2, 1), Ok) ELSE Reply(s, Err("db out of range"))

EmptyDb == [kv |-> <<>>, ex |-> <<>>]

\* signalFlushedDb touches the watched keys that exist.
signalFlushedDb(s, d) == [s EXCEPT !.sig = @ \cup ({d} \X DOMAIN s.db[d].kv)]

\* FLUSHDB: dirty grows by the keys removed.
flushdbCommand(s) ==
    LET n == Cardinality(DOMAIN KV(s))
    IN  Reply(Dirty([signalFlushedDb(s, s.cur) EXCEPT !.db[s.cur] = EmptyDb], n), Ok)

\* FLUSHALL: one more, so that it is propagated from an empty server too.
flushallCommand(s) ==
    LET dbs == SetToSeq(DOMAIN s.db)
        size(d) == Cardinality(DOMAIN s.db[d].kv)
        n == FoldLeft(LAMBDA acc, d : acc + size(d), 0, dbs)
        s1 == FoldLeft(signalFlushedDb, s, dbs)
    IN  Reply(Dirty([s1 EXCEPT !.db = [d \in DOMAIN s.db |-> EmptyDb]], n + 1), Ok)

(****************************** expire commands ****************************)


\* EXPIRE, PEXPIRE (base time now) and EXPIREAT, PEXPIREAT (base time 0): a
\* time already past deletes the key and propagates a DEL, but a replica waits
\* for that DEL.  A parameter that is no integer is NULL.
expireGenericCommand(s, k, param, basetime) ==
    LET when == basetime + param
        s1 == expireIfNeeded(s, k)
        gone == signalModifiedKey(Dirty(dbSyncDelete(s1, k), 1), k)
        kept == signalModifiedKey(Dirty(setExpire(s1, k, when), 1), k)
    IN  IF ~dbExists(s1, k) THEN Reply(s1, Num(0))
        ELSE IF when <= s.now /\ ~s.slave THEN Reply(Rewrite(gone, <<"del", <<k>>>>), Num(1))
        ELSE Reply(kept, Num(1))

\* TTL and PTTL.
ttlGenericCommand(s, k) ==
    LET ttl == getExpire(s, k) - s.now
    IN  Reply(expireIfNeeded(s, k),
              IF lookupKeyReadWithFlags(s, k) = NULL THEN Num(-2)
              ELSE IF getExpire(s, k) = -1 THEN Num(-1)
              ELSE Num(IF ttl < 0 THEN 0 ELSE ttl))

\* PERSIST is propagated but signals nothing.
persistCommand(s, k) ==
    LET s1 == expireIfNeeded(s, k)
    IN  IF dbExists(s1, k) /\ getExpire(s1, k) # -1
        THEN Reply(Dirty(removeExpire(s1, k), 1), Num(1)) ELSE Reply(s1, Num(0))
=============================================================================
