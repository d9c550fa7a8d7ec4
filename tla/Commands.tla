------------------------------ MODULE Commands ------------------------------
(***************************************************************************)
(* A master that runs the commands of its clients (server.c), their        *)
(* transactions (multi.c) and blocking calls (blocked.c), and a read only  *)
(* replica that runs the commands the master propagates to it.             *)
(***************************************************************************)
EXTENDS Strings, Dump

CONSTANTS
    Clients, Families,
    Users,          \* the clients of a family
    Table,          \* the commands of each family of clients
    Datasets,       \* the databases a family starts with
    Selected,       \* the database each client of a family selected
    Watchable,      \* the keys a family may watch, <<database, key>>
    Dice,           \* what a random generator may point at
    MaxCommands,    \* commands a family runs or queues before the model stops
    Transactional,  \* the clients that use MULTI and WATCH
    MaxTime         \* the last value of the clock

VARIABLES
    fam,        \* which commands the clients use
    db, now,    \* the master's databases and the clock
    clients,    \* each client's transaction, watched keys and blocking call
    blocking,   \* the clients that wait for each key, in order
    stream,     \* what was propagated and the replica has not applied yet
    replica,    \* the replica's databases and the transaction it is reading
    last,       \* the command just run (for the properties)
    silent,     \* the keys changed so far by what never calls signalModifiedKey
    orphans,    \* the empty keys left by commands that failed once they made them
    count

vars == <<fam, db, now, clients, blocking, stream, replica, last, silent, orphans, count>>

(***************************** the command table ***************************)

\* redisCommandTable: the procedure of each command.
Proc(s, c) ==
    CASE c[1] = "get" -> getCommand(s, c[2])
      [] c[1] = "set" -> setCommand(s, c[2], c[3], c[4], c[5])
      [] c[1] = "getset" -> getsetCommand(s, c[2], c[3])
      [] c[1] = "append" -> appendCommand(s, c[2], c[3])
      [] c[1] = "strlen" -> strlenCommand(s, c[2])
      [] c[1] = "setrange" -> setrangeCommand(s, c[2], c[3], c[4])
      [] c[1] = "getrange" -> getrangeCommand(s, c[2], c[3], c[4])
      [] c[1] = "mget" -> mgetCommand(s, c[2])
      [] c[1] = "mset" -> msetGenericCommand(s, c[2], FALSE)
      [] c[1] = "msetnx" -> msetGenericCommand(s, c[2], TRUE)
      [] c[1] = "incrby" -> incrDecrCommand(s, c[2], c[3])
      [] c[1] = "decrby" -> decrbyCommand(s, c[2], c[3])
      [] c[1] = "incrbyfloat" -> incrbyfloatCommand(s, c[2], c[3])
      [] c[1] = "setbit" -> setbitCommand(s, c[2], c[3], c[4])
      [] c[1] = "getbit" -> getbitCommand(s, c[2], c[3])
      [] c[1] = "bitop" -> bitopCommand(s, c[2], c[3], c[4])
      [] c[1] = "bitcount" -> bitcountCommand(s, c[2], c[3])
      [] c[1] = "bitpos" -> bitposCommand(s, c[2], c[3], c[4])
      [] c[1] = "bitfield" -> bitfieldCommand(s, c[2], c[3])
      [] c[1] = "lpush" -> pushGenericCommand(s, c[2], c[3], "head")
      [] c[1] = "rpush" -> pushGenericCommand(s, c[2], c[3], "tail")
      [] c[1] = "lpushx" -> pushxGenericCommand(s, c[2], c[3], "head")
      [] c[1] = "rpushx" -> pushxGenericCommand(s, c[2], c[3], "tail")
      [] c[1] = "linsert" -> linsertCommand(s, c[2], c[3], c[4], c[5])
      [] c[1] = "llen" -> llenCommand(s, c[2])
      [] c[1] = "lindex" -> lindexCommand(s, c[2], c[3])
      [] c[1] = "lset" -> lsetCommand(s, c[2], c[3], c[4])
      [] c[1] = "lpop" -> popGenericCommand(s, c[2], "head")
      [] c[1] = "rpop" -> popGenericCommand(s, c[2], "tail")
      [] c[1] = "lrange" -> lrangeCommand(s, c[2], c[3], c[4])
      [] c[1] = "ltrim" -> ltrimCommand(s, c[2], c[3], c[4])
      [] c[1] = "lrem" -> lremCommand(s, c[2], c[3], c[4])
      [] c[1] = "rpoplpush" -> rpoplpushCommand(s, c[2], c[3])
      [] c[1] = "blpop" -> blockingPopGenericCommand(s, c[2], "head")
      [] c[1] = "brpop" -> blockingPopGenericCommand(s, c[2], "tail")
      [] c[1] = "brpoplpush" -> brpoplpushCommand(s, c[2], c[3])
      [] c[1] = "sort" -> sortCommand(s, c[2], c[3])
      [] c[1] = "sadd" -> saddCommand(s, c[2], c[3])
      [] c[1] = "srem" -> sremCommand(s, c[2], c[3])
      [] c[1] = "smove" -> smoveCommand(s, c[2], c[3], c[4])
      [] c[1] = "sismember" -> sismemberCommand(s, c[2], c[3])
      [] c[1] = "scard" -> scardCommand(s, c[2])
      [] c[1] = "spop" -> spopCommand(s, c[2])
      [] c[1] = "spopcount" -> spopWithCountCommand(s, c[2], c[3])
      [] c[1] = "srandmember" -> srandmemberCommand(s, c[2])
      [] c[1] = "srandmembercount" -> srandmemberWithCountCommand(s, c[2], c[3])
      [] c[1] = "sinter" -> sinterGenericCommand(s, c[2], c[3])
      [] c[1] = "sunion" -> sunionDiffGenericCommand(s, c[2], c[3], "union")
      [] c[1] = "sdiff" -> sunionDiffGenericCommand(s, c[2], c[3], "diff")
      [] c[1] = "hset" -> hsetCommand(s, c[2], c[3])
      [] c[1] = "hsetnx" -> hsetnxCommand(s, c[2], c[3], c[4])
      [] c[1] = "hget" -> hgetCommand(s, c[2], c[3])
      [] c[1] = "hmget" -> hmgetCommand(s, c[2], c[3])
      [] c[1] = "hincrby" -> hincrbyCommand(s, c[2], c[3], c[4])
      [] c[1] = "hincrbyfloat" -> hincrbyfloatCommand(s, c[2], c[3], c[4])
      [] c[1] = "hdel" -> hdelCommand(s, c[2], c[3])
      [] c[1] = "hlen" -> hlenCommand(s, c[2])
      [] c[1] = "hstrlen" -> hstrlenCommand(s, c[2], c[3])
      [] c[1] = "hexists" -> hexistsCommand(s, c[2], c[3])
      [] c[1] = "hgetall" -> genericHgetallCommand(s, c[2], c[3])
      [] c[1] = "zadd" -> zaddGenericCommand(s, c[2], c[3], c[4])
      [] c[1] = "zrem" -> zremCommand(s, c[2], c[3])
      [] c[1] = "zremrange" -> zremrangeGenericCommand(s, c[2], c[3], c[4])
      [] c[1] = "zstore" -> zunionInterGenericCommand(s, c[2], c[3], c[4], c[5], c[6])
      [] c[1] = "zrange" -> zrangeGenericCommand(s, c[2], c[3], c[4], c[5])
      [] c[1] = "zrangebyscore" -> genericZrangebyscoreCommand(s, c[2], c[3], c[4], c[5], c[6])
      [] c[1] = "zrangebylex" -> genericZrangebylexCommand(s, c[2], c[3], c[4], c[5], c[6])
      [] c[1] = "zcount" -> zcountCommand(s, c[2], c[3])
      [] c[1] = "zlexcount" -> zlexcountCommand(s, c[2], c[3])
      [] c[1] = "zcard" -> zcardCommand(s, c[2])
      [] c[1] = "zscore" -> zscoreCommand(s, c[2], c[3])
      [] c[1] = "zrank" -> zrankGenericCommand(s, c[2], c[3], c[4])
      [] c[1] = "zpopmin" -> genericZpopCommand(s, <<c[2]>>, "min", c[3])
      [] c[1] = "zpopmax" -> genericZpopCommand(s, <<c[2]>>, "max", c[3])
      [] c[1] = "bzpopmin" -> blockingGenericZpopCommand(s, c[2], "min")
      [] c[1] = "bzpopmax" -> blockingGenericZpopCommand(s, c[2], "max")
      [] c[1] = "xadd" -> xaddCommand(s, c[2], c[3], c[4], c[5])
      [] c[1] = "xrange" -> xrangeGenericCommand(s, c[2], c[3], c[4], c[5], c[6])
      [] c[1] = "xlen" -> xlenCommand(s, c[2])
      [] c[1] = "xread" -> xreadCommand(s, c[2], c[3], c[4], c[5], c[6])
      [] c[1] = "xgroup" -> xgroupCommand(s, c[2], c[3], c[4], c[5], c[2] = "create")
      [] c[1] = "xdelconsumer" -> xgroupDelConsumer(s, c[2], c[3], c[4])
      [] c[1] = "xsetid" -> xsetidCommand(s, c[2], c[3])
      [] c[1] = "xack" -> xackCommand(s, c[2], c[3], c[4])
      [] c[1] = "xpending" -> xpendingCommand(s, c[2], c[3], c[4], c[5])
      [] c[1] = "xclaim" -> xclaimCommand(s, c[2], c[3], c[4], c[5], c[6], c[7])
      [] c[1] = "xdel" -> xdelCommand(s, c[2], c[3])
      [] c[1] = "xtrim" -> xtrimCommand(s, c[2], c[3])
      [] c[1] = "xinfo" -> xinfoCommand(s, c[2], c[3], c[4])
      [] c[1] = "del" -> delGenericCommand(s, c[2])
      [] c[1] = "exists" -> existsCommand(s, c[2])
      [] c[1] = "touch" -> touchCommand(s, c[2])
      [] c[1] = "type" -> typeCommand(s, c[2])
      [] c[1] = "randomkey" -> randomkeyCommand(s)
      [] c[1] = "keys" -> keysCommand(s, c[2])
      [] c[1] = "scan" -> scanGenericCommand(s, c[2], c[3])
      [] c[1] = "dbsize" -> dbsizeCommand(s)
      [] c[1] = "rename" -> renameGenericCommand(s, c[2], c[3], c[4])
      [] c[1] = "move" -> moveCommand(s, c[2], c[3])
      [] c[1] = "swapdb" -> swapdbCommand(s, c[2], c[3])
      [] c[1] = "flushdb" -> flushdbCommand(s)
      [] c[1] = "flushall" -> flushallCommand(s)
      [] c[1] = "expire" -> expireGenericCommand(s, c[2], c[3], s.now)
      [] c[1] = "expireat" -> expireGenericCommand(s, c[2], c[3], 0)
      [] c[1] = "ttl" -> ttlGenericCommand(s, c[2])
      [] c[1] = "persist" -> persistCommand(s, c[2])
      [] c[1] = "dump" -> dumpCommand(s, c[2])
      [] c[1] = "restore" -> restoreCommand(s, c[2], c[3], c[4], c[5], c[6])

\* The commands that only read (CMD_READONLY).
ReadOnly == {"get", "strlen", "getrange", "mget", "getbit", "bitcount", "bitpos", "llen", "lindex",
             "lrange", "sismember", "scard", "srandmember", "srandmembercount", "hget", "hmget",
             "hlen", "hstrlen", "hexists", "hgetall", "zrange", "zrangebyscore", "zrangebylex",
             "zcount", "zlexcount", "zcard", "zscore", "zrank", "xrange", "xlen", "xpending", "xinfo",
             "exists", "touch", "type", "randomkey", "keys", "scan", "dbsize", "ttl",
             "dump"}

IsWrite(c) == /\ c[1] \notin ReadOnly
              /\ c[1] \in {"sinter", "sunion", "sdiff"} => c[3] # NULL
              /\ c[1] = "xread" => c[5] # NULL

(********************************* call() **********************************)

Fresh(bases, cur, dice, slave) ==
    [db |-> bases, cur |-> cur, now |-> now, slave |-> slave, link |-> slave, dirty |-> 0,
     sig |-> {}, ready |-> <<>>, fed |-> <<>>, argv |-> <<>>, also |-> <<>>, prevent |-> FALSE,
     multi |-> FALSE, block |-> NULL, dice |-> dice, reply |-> Nil]

Prepared(s, c) == [s EXCEPT !.dirty = 0, !.fed = <<>>, !.argv = c, !.also = <<>>, !.prevent = FALSE]

\* After a command took s to r: its vector, own, is propagated after what the
\* command propagated itself and before what it left for after it.
propagate(s, r, own) == [r EXCEPT !.fed = s.fed \o r.fed \o own \o r.also, !.dirty = s.dirty + r.dirty]

\* A command runs; if it changed something and did not prevent it, its vector
\* is propagated.
call(s, c) ==
    LET end(r) == propagate(s, r, IF r.dirty > 0 /\ ~r.prevent THEN <<<<r.cur, r.argv>>>> ELSE <<>>)
    IN  end(Proc(Prepared(s, c), c))

execCommandPropagate(s, word) == [s EXCEPT !.fed = Append(@, <<s.cur, <<word>>>>)]

\* The commands of a transaction from the i-th on; MULTI is propagated ahead
\* of the command at first.
RECURSIVE CallQueue(_, _, _, _)
CallQueue(s, queue, i, first) ==
    IF i > Len(queue) THEN IF first = 0 THEN s ELSE execCommandPropagate(s, "exec")
    ELSE CallQueue(call(IF i = first THEN execCommandPropagate(s, "multi") ELSE s, queue[i]), queue, i + 1, first)

\* The body of EXEC: MULTI is propagated ahead of the first command that is
\* not read only, EXEC at the end.  The reply has one reply for each command.
execCommand(s, queue) ==
    Reply(CallQueue([s EXCEPT !.multi = TRUE], queue, 1, SelectInSeq(queue, IsWrite)), <<"multi", Len(queue)>>)

(***************************** blocked clients *****************************)

\* The state the commands work on: the server record, the clients, who waits
\* for which key, and the clients served on the way.
WaitingFor(w, key) == IF key \in DOMAIN w.blocking THEN w.blocking[key] ELSE <<>>

\* unblockClient and unblockClientWaitingData.
unblockClient(w, c) ==
    LET left == [k \in DOMAIN w.blocking |-> SelectSeq(w.blocking[k], LAMBDA x : x # c)]
    IN  [w EXCEPT !.clients[c].block = NULL,
                  !.blocking = [k \in {k \in DOMAIN left : left[k] # <<>>} |-> left[k]]]

blockForKeys(w, c, b) ==
    LET keys == {<<w.s.cur, k>> : k \in b.keys}
    IN  [w EXCEPT !.clients[c].block = b,
                  !.blocking = [k \in DOMAIN @ \cup keys |->
                                  IF k \in keys THEN Append(WaitingFor(w, k), c) ELSE @[k]]]

Rotate(w, key) == [w EXCEPT !.blocking[key] = Append(Tail(@), Head(@))]

\* Client c, blocked for data of that type, is served from the key's value.
Serve(w, c, key, type) ==
    LET k == key[2]
        b == w.clients[c].block
        served(t) == [unblockClient(w, c) EXCEPT !.s = t, !.served = @ \cup {<<c, key, IsErr(t.reply)>>}]
    IN  served(IF type = "list" THEN serveClientBlockedOnList(w.s, k, b)
               ELSE Propagate(genericZpopCommand(w.s, <<k>>, b.where, 1), <<ZpopName(b.where), k, 1>>))

\* What the turn of client c comes to while the key holds v: a client that
\* waits for the other type goes to the end of the line.
Turn(w, c, v, key, type) ==
    IF w.stop \/ v = NULL THEN w
    ELSE IF w.clients[c].block.btype # type THEN Rotate(w, key)
    ELSE IF IsType(v, "list") /\ v.list = <<>> THEN [w EXCEPT !.stop = TRUE]
    ELSE Serve(w, c, key, type)

\* The turn of the first client that waits for a key holding a list or a
\* sorted set.
ServeOne(w, key, type) == Turn(w, Head(WaitingFor(w, key)), lookupKey(w.s, key[2]), key, type)

\* One client that waits for a stream.
ServeStream(w, key, c) ==
    LET b == w.clients[c].block
    IN  IF b.btype = "stream" /\ StreamServes(w.s, key[2], b)
        THEN [unblockClient(w, c) EXCEPT !.s = serveClientBlockedOnStream(w.s, key[2], b),
                                         !.served = @ \cup {<<c, key, FALSE>>}]
        ELSE w

\* As many of the clients that wait for a key as its value allows are served.
ServeAll(w, key, o) ==
    LET line == WaitingFor(w, key)
    IN  IF o = NULL \/ Type(o) \notin {"list", "zset", "stream"} THEN w
        ELSE IF IsType(o, "stream") THEN FoldLeft(LAMBDA x, c : ServeStream(x, key, c), w, line)
        ELSE FoldLeft(LAMBDA x, i : ServeOne(x, key, Type(o)), w, [i \in DOMAIN line |-> i])

\* The first ready key is served, and a list its clients emptied is deleted.
ServeKey(w, key) ==
    LET s0 == expireIfNeeded([w.s EXCEPT !.ready = Tail(@), !.cur = key[1]], key[2])
        end(x, left) == IF left = List(<<>>) THEN [x EXCEPT !.s = dbDelete(@, key[2])] ELSE x
        clean(x) == end(x, lookupKey(x.s, key[2]))
    IN  clean(ServeAll([w EXCEPT !.s = s0, !.stop = FALSE], key, lookupKey(s0, key[2])))

\* Serving BRPOPLPUSH may make another key ready: go on until none is left.
RECURSIVE handleClientsBlockedOnKeys(_)
handleClientsBlockedOnKeys(w) ==
    IF w.s.ready = <<>> THEN w ELSE handleClientsBlockedOnKeys(ServeKey(w, Head(w.s.ready)))

(******************************* the actions *******************************)

NoClient == [multi |-> FALSE, queue |-> <<>>, watched |-> <<>>, cas |-> FALSE, exec |-> FALSE, block |-> NULL]

\* What a value is to another server: how the entries of a stream are spread
\* over listpacks, which consumers have nothing pending, and when and how
\* often a pending entry was delivered, are each server's own.
Content(v) ==
    IF ~IsType(v, "stream") THEN v
    ELSE [entries |-> Entries(v.stream), top |-> v.stream.last,
          groups |-> [g \in DOMAIN v.stream.groups |->
             [top |-> v.stream.groups[g].last,
              pel |-> [id \in DOMAIN v.stream.groups[g].pel |-> v.stream.groups[g].pel[id].consumer]]]]

Contents(bases) == [d \in DOMAIN bases |-> [k \in DOMAIN bases[d].kv |-> Content(bases[d].kv[k])]]

Value(bases, key) == IF key[2] \in DOMAIN bases[key[1]].kv THEN Content(bases[key[1]].kv[key[2]]) ELSE NULL

AllKeys(bases, bases2) ==
    UNION {{d} \X (DOMAIN bases[d].kv \cup DOMAIN bases2[d].kv) : d \in DOMAIN bases}

\* touchWatchedKey for every key that was signalled.
touchWatchedKey(cs, sig) ==
    [c \in Clients |-> IF DOMAIN cs[c].watched \cap sig # {} THEN [cs[c] EXCEPT !.cas = TRUE] ELSE cs[c]]

\* What changes keys and is known not to signal them: some commands, the
\* expiry of a key, and the service of blocked clients, which took the
\* databases from d1 to d2.
SilentCommands == {"move", "swapdb", "xgroup", "xdelconsumer", "xsetid", "xread", "xack", "xclaim"}
Unsignalled(cmd, d1, d2) ==
    {key \in AllKeys(db, d1) : \/ cmd[1] \in SilentCommands /\ Value(db, key) # Value(d1, key)
                               \/ key[2] \in DOMAIN db[key[1]].ex /\ now > db[key[1]].ex[key[2]]}
    \cup {key \in AllKeys(d1, d2) : Value(d1, key) # Value(d2, key)}

\* HINCRBYFLOAT and XADD create their key before they can refuse an increment
\* that gives no number, or the ID 0-0, and leave it behind, empty and not
\* counted in dirty.
LeavesItsKey(cmd) == \/ cmd[1] = "hincrbyfloat" /\ cmd[4] = Inf
                     \/ cmd[1] = "xadd" /\ cmd[4] = IDMin

StillEmpty(keys, bases) ==
    {key \in keys : key[2] \in DOMAIN bases[key[1]].kv
                    /\ bases[key[1]].kv[key[2]] \in {Hash(<<>>), createStreamObject}}

\* The end of a command: the client may block, the clients blocked on keys it
\* made ready are served, and what was propagated goes to the replica.
Finish(c, cmd, r, cs) ==
    LET w0 == [s |-> r, clients |-> cs, blocking |-> blocking, served |-> {}, stop |-> FALSE]
        w1 == IF r.block = NULL THEN w0 ELSE blockForKeys(w0, c, r.block)
        w == handleClientsBlockedOnKeys(w1)
    IN  /\ db' = w.s.db
        /\ clients' = touchWatchedKey(w.clients, w.s.sig)
        /\ blocking' = w.blocking
        /\ stream' = stream \o w.s.fed
        /\ last' = [cmd |-> cmd, who |-> c, reply |-> r.reply, dirty |-> r.dirty, served |-> w.served,
                    sig |-> w.s.sig, exec |-> cmd[1] = "exec"]
        /\ silent' = silent \cup Unsignalled(cmd, r.db, w.s.db)
        /\ orphans' = StillEmpty(orphans \cup (IF LeavesItsKey(cmd) THEN {<<r.cur, cmd[2]>>} ELSE {}), w.s.db)
        /\ count' = count + 1
        /\ UNCHANGED <<fam, now, replica>>

Free(c) == clients[c].block = NULL /\ count < MaxCommands[fam]

\* A command outside a transaction.
Call(c, cmd, d) ==
    /\ Free(c) /\ ~clients[c].multi
    /\ Finish(c, cmd, call(Fresh(db, Selected[fam][c], d, FALSE), cmd), clients)

SetClient(c, rec) ==
    /\ clients' = [clients EXCEPT ![c] = rec]
    /\ last' = NULL
    /\ UNCHANGED <<fam, db, now, blocking, stream, replica, silent, orphans>>

\* MULTI outside a transaction.
multiCommand(c) ==
    /\ Free(c) /\ ~clients[c].multi /\ c \in Transactional[fam]
    /\ SetClient(c, [clients[c] EXCEPT !.multi = TRUE])
    /\ count' = count

queueMultiCommand(c, cmd) ==
    /\ Free(c) /\ clients[c].multi
    /\ SetClient(c, [clients[c] EXCEPT !.queue = Append(@, cmd)])
    /\ count' = count + 1

\* A command refused before it is queued.
flagTransaction(c) ==
    /\ Free(c) /\ clients[c].multi /\ ~clients[c].exec
    /\ SetClient(c, [clients[c] EXCEPT !.exec = TRUE])
    /\ count' = count + 1

discardTransaction(c) == NoClient

discardCommand(c) ==
    /\ Free(c) /\ clients[c].multi
    /\ SetClient(c, discardTransaction(c))
    /\ count' = count

\* WATCH remembers nothing but the key: the value is there for the properties.
watchCommand(c, key) ==
    /\ Free(c) /\ ~clients[c].multi /\ c \in Transactional[fam] /\ key \notin DOMAIN clients[c].watched
    /\ SetClient(c, [clients[c] EXCEPT !.watched = (key :> Value(db, key)) @@ @])
    /\ count' = count

unwatchCommand(c) ==
    /\ Free(c) /\ ~clients[c].multi /\ clients[c].watched # <<>>
    /\ SetClient(c, [clients[c] EXCEPT !.watched = <<>>, !.cas = FALSE])
    /\ count' = count

\* EXEC of a transaction that was not spoiled runs it, with the watched keys
\* forgotten first; the others are discarded.
Exec(c, d) ==
    /\ clients[c].multi
    /\ IF clients[c].cas \/ clients[c].exec
       THEN SetClient(c, discardTransaction(c)) /\ count' = count
       ELSE Finish(c, <<"exec">>, execCommand(Fresh(db, Selected[fam][c], d, FALSE), clients[c].queue),
                   [clients EXCEPT ![c] = discardTransaction(c)])

\* A blocking call runs out of time (clientsCronHandleTimeout).
Timeout(c) ==
    LET w == unblockClient([clients |-> clients, blocking |-> blocking], c)
    IN  /\ clients[c].block # NULL
        /\ clients' = w.clients /\ blocking' = w.blocking /\ last' = NULL
        /\ UNCHANGED <<fam, db, now, stream, replica, silent, orphans, count>>

\* One key is tried by the active expire cycle.
ActiveExpire(d, k) ==
    LET r == activeExpireCycle([Fresh(db, d, 0, FALSE) EXCEPT !.cur = d], <<k>>)
    IN  /\ k \in DOMAIN db[d].ex /\ now > db[d].ex[k]
        /\ db' = r.db /\ stream' = stream \o r.fed /\ silent' = silent \cup {<<d, k>>} /\ last' = NULL
        /\ UNCHANGED <<fam, now, clients, blocking, replica, orphans, count>>

Tick ==
    /\ now < MaxTime /\ \E d \in DOMAIN db : db[d].ex # <<>>
    /\ now' = now + 1 /\ last' = NULL
    /\ UNCHANGED <<fam, db, clients, blocking, stream, replica, silent, orphans, count>>

\* The replica runs commands as its master's client.
RECURSIVE Replay(_, _)
Replay(bases, q) ==
    IF q = <<>> THEN bases ELSE Replay(call(Fresh(bases, q[1][1], 0, TRUE), q[1][2]).db, Tail(q))

\* It reads one propagated command; what is between MULTI and EXEC waits in
\* the transaction of the link.
Apply(r, e) ==
    LET end == e[2] = <<"exec">>
    IN  IF e[2] = <<"multi">> THEN [r EXCEPT !.multi = TRUE]
        ELSE IF r.multi /\ ~end THEN [r EXCEPT !.queue = Append(@, e)]
        ELSE [db |-> Replay(r.db, IF end THEN r.queue ELSE <<e>>), multi |-> FALSE, queue |-> <<>>]

ReplicaApply ==
    /\ stream # <<>>
    /\ replica' = Apply(replica, Head(stream)) /\ stream' = Tail(stream) /\ last' = NULL
    /\ UNCHANGED <<fam, db, now, clients, blocking, silent, orphans, count>>

NoData == [d \in DOMAIN db |-> EmptyDb]

\* What a server, a master or a slave, holds once it has loaded the RDB file of
\* a server that held bases; what loadAppendOnlyFile makes of the rewritten
\* append only file.
rdbLoad(bases, slave) == rdbLoadRio(Fresh(NoData, 0, 0, slave), rdbSaveRio(bases)).db
loadAppendOnlyFile(bases) == Replay(NoData, rewriteAppendOnlyFileRio(bases))

Synced(bases) == [db |-> rdbLoad(bases, TRUE), multi |-> FALSE, queue |-> <<>>]

\* The replica lost its place in the stream and starts again from an RDB file.
Resync ==
    /\ stream # <<>>
    /\ replica' = Synced(db) /\ stream' = <<>> /\ last' = NULL
    /\ UNCHANGED <<fam, db, now, clients, blocking, silent, orphans, count>>

\* The master is stopped and started again from a file, without its clients.
Restart ==
    /\ count > 0
    /\ \E file \in {"rdb", "aof"} :
         \E bases \in {IF file = "rdb" THEN rdbLoad(db, FALSE) ELSE loadAppendOnlyFile(db)} :
           /\ db' = bases /\ replica' = Synced(bases) /\ stream' = <<>>
           /\ orphans' = StillEmpty(orphans, bases)
           /\ last' = [cmd |-> <<"restart", file>>, who |-> NULL, reply |-> Ok, dirty |-> 0, served |-> {},
                       sig |-> {}, exec |-> FALSE]
    /\ clients' = [c \in Clients |-> NoClient] /\ blocking' = <<>> /\ silent' = {}
    /\ UNCHANGED <<fam, now, count>>

Init ==
    /\ fam \in Families
    /\ db \in Datasets[fam]
    /\ now = 1
    /\ clients = [c \in Clients |-> NoClient]
    /\ blocking = <<>> /\ stream = <<>> /\ last = NULL /\ silent = {} /\ orphans = {} /\ count = 0
    /\ replica = [db |-> db, multi |-> FALSE, queue |-> <<>>]

Transaction(c) ==
    \/ multiCommand(c)
    \/ \E cmd \in Table[fam] : queueMultiCommand(c, cmd)
    \/ flagTransaction(c)
    \/ discardCommand(c)
    \/ \E key \in Watchable[fam] : watchCommand(c, key)
    \/ unwatchCommand(c)

Next ==
    \/ \E c \in Users[fam] : \E cmd \in Table[fam], d \in Dice : Call(c, cmd, d)
    \/ \E c \in Users[fam] : \E d \in Dice : Exec(c, d)
    \/ \E c \in Users[fam] : Transaction(c)
    \/ \E c \in Users[fam] : Timeout(c)
    \/ \E d \in DOMAIN db : \E k \in DOMAIN db[d].ex : ActiveExpire(d, k)
    \/ Tick
    \/ ReplicaApply
    \/ Resync
    \/ Restart

Spec == Init /\ [][Next]_vars

(******************************** properties *******************************)

\* The databases without some of their keys.
Except(bases, keys) ==
    [d \in DOMAIN bases |->
       LET out == {k \in DOMAIN bases[d].kv \cup DOMAIN bases[d].ex : <<d, k>> \in keys}
       IN  [kv |-> [k \in DOMAIN bases[d].kv \ out |-> bases[d].kv[k]],
            ex |-> [k \in DOMAIN bases[d].ex \ out |-> bases[d].ex[k]]]]

\* A replica that has run everything propagated to it (expiry, rewritten and
\* additional commands, transactions and the pops of blocked clients included)
\* holds what the master holds, but for the keys in orphans: the commands that
\* leave them count no change in dirty, so call() propagates nothing.
ReplicaFollows ==
    stream = <<>> => Contents(Except(replica.db, orphans)) = Contents(Except(db, orphans))

\* A list, set, hash or sorted set is deleted with its last element, whatever
\* command or blocked client took it.  (HINCRBYFLOAT leaves an empty hash when
\* it refuses an infinite increment of a new key, t_hash.c:603-621.)
NoEmptyValues ==
    \A d \in DOMAIN db : \A k \in {k \in DOMAIN db[d].kv : <<d, k>> \notin orphans} :
       LET v == db[d].kv[k] IN
         /\ IsType(v, "list") => v.list # <<>>
         /\ IsType(v, "set") => v.set # {}
         /\ IsType(v, "hash") => DOMAIN v.hash # {}
         /\ IsType(v, "zset") => DOMAIN v.zset # {}

\* The keys of a base that are not expired, with their values.
Live(bases, d) ==
    LET dead == {k \in DOMAIN bases[d].ex : now > bases[d].ex[k]}
    IN  [kv |-> [k \in DOMAIN bases[d].kv \ dead |-> bases[d].kv[k]],
         ex |-> [k \in DOMAIN bases[d].ex \ dead |-> bases[d].ex[k]]]
Purged(bases) == [d \in DOMAIN bases |-> Live(bases, d)]

\* What a rewritten append only file keeps of a value: XCLAIM FORCE cannot make
\* an entry pending that was deleted, and nothing makes an idle consumer.
Rewritten(v) ==
    IF ~IsType(v, "stream") THEN v
    ELSE [entries |-> Entries(v.stream), top |-> v.stream.last,
          groups |-> [g \in DOMAIN v.stream.groups |->
             [top |-> v.stream.groups[g].last,
              pel |-> [id \in {id \in DOMAIN v.stream.groups[g].pel : HasEntry(v.stream, id)} |->
                         v.stream.groups[g].pel[id]]]]]

\* A master that is stopped and started again holds what it held, but for the
\* keys that expired: every value, the owner, time and count of every pending
\* entry and every expire time come back from the RDB file, and from the
\* commands of a rewritten append only file what those commands can express,
\* which cannot make an empty hash (one of orphans).
RestartKeepsTheData ==
    [][last' # NULL /\ last'.cmd[1] = "restart" =>
         \A d \in DOMAIN db :
            LET lost == IF last'.cmd[2] = "rdb" THEN {} ELSE orphans \ orphans'
                old == Live(Except(db, lost), d)
                new == Live(db', d)
                kept(v) == IF last'.cmd[2] = "rdb" THEN v ELSE Rewritten(v)
            IN  /\ new.ex = old.ex /\ DOMAIN new.kv = DOMAIN old.kv
                /\ \A k \in DOMAIN old.kv : kept(new.kv[k]) = kept(old.kv[k])]_vars

\* EXEC runs a transaction only if every watched key holds what it held when
\* it was watched, but for the keys in silent, which were changed by what touches
\* no watched key: SWAPDB (db.c:1007), MOVE (db.c:968), the commands on consumer
\* groups, expiry and the pops of blocked clients.
ExecSeesWatchedValues ==
    [][last' # NULL /\ last'.exec =>
         \A key \in DOMAIN clients[last'.who].watched :
            key \in silent \/ Value(db, key) = clients[last'.who].watched[key]]_vars

\* A command that replies with an error has changed nothing, however many
\* steps it had taken.  There are three exceptions: XACK with several IDs is not
\* atomic, HINCRBYFLOAT of an infinite increment (t_hash.c:603-621) and XADD of
\* 0-0 (t_stream.c:1222-1232) leave the key they made (one of orphans) and
\* nothing else.
FailedCommandsChangeNothing ==
    [][last' # NULL /\ IsErr(last'.reply) /\ last'.cmd[1] # "xack" /\ last'.served = {}
         => Except(Purged(db'), orphans') = Except(Purged(db), orphans')]_vars

\* A pending entry of a consumer group is in the pending list of exactly the
\* consumer the group's own list names.
PendingListsAgree ==
    \A d \in DOMAIN db : \A k \in DOMAIN db[d].kv :
       IsType(db[d].kv[k], "stream") =>
         \A n \in DOMAIN db[d].kv[k].stream.groups :
            LET g == db[d].kv[k].stream.groups[n] IN
              /\ \A id \in DOMAIN g.pel : g.pel[id].consumer \in DOMAIN g.consumers
              /\ \A c \in DOMAIN g.consumers : g.consumers[c] = {id \in DOMAIN g.pel : g.pel[id].consumer = c}

\* Values stay well formed whatever commands, blocked clients and consumers do
\* to them: no aggregate is left empty, and the two records of a pending entry
\* agree (dbDelete after the last element; streamCreateNACK, XACK, XCLAIM).
ValuesAreWellFormed == NoEmptyValues /\ PendingListsAgree

Holds(bases, d, k, type) == k \in DOMAIN bases[d].kv /\ IsType(bases[d].kv[k], type)

\* The data a client waits for appears at a key that did not exist or held
\* another type (PUSH, ZADD, RENAME, MOVE, SWAPDB, RESTORE, SORT with STORE, ...):
\* the client does not stay blocked.  (SORT with STORE over a key of another
\* type signals nothing, see setKey and dbOverwrite.)
NewDataWakesBlockedClients ==
    [][\A c \in Clients : clients'[c].block # NULL =>
         \A k \in clients'[c].block.keys :
            LET type == clients'[c].block.btype
                d == Selected[fam][c]
            IN  Holds(db', d, k, type) /\ ~Holds(db, d, k, type)
                  => \/ type = "stream"
                     \/ last'.cmd[1] = "sort" /\ k \in DOMAIN db[d].kv]_vars

\* Clients blocked on one key, all for one type, are served in the order in
\* which they blocked.
ServedInOrder ==
    [][last' # NULL =>
         \A x \in last'.served :
            LET line == IF x[2] \in DOMAIN blocking THEN blocking[x[2]] ELSE <<>>
                before == {line[i] : i \in {i \in DOMAIN line : \A j \in 1..i : line[j] # x[1]}}
            IN  (/\ x[1] \in ToSet(line)
                 /\ \A c, e \in ToSet(line) : clients[c].block.btype = clients[e].block.btype
                 /\ clients[x[1]].block.btype # "stream")
                  => \A c \in before : clients'[c].block = NULL]_vars

ListLengths(bases) ==
    LET len(key) == IF IsType(bases[key[1]].kv[key[2]], "list") THEN Len(bases[key[1]].kv[key[2]].list) ELSE 0
    IN  FoldLeft(LAMBDA acc, key : acc + len(key), 0, SetToSeq(AllKeys(bases, bases)))

\* An element pushed while clients are blocked is handed to one of them or
\* stays in a list: none is lost, also when the target of BRPOPLPUSH turns
\* out to hold another type.
PushedElementsAreKept ==
    [][last' # NULL /\ last'.cmd[1] \in {"lpush", "rpush"} /\ ~IsErr(last'.reply) =>
         LET taken == {x \in last'.served : ~x[3] /\ clients[x[1]].block.btype = "list"
                                            /\ clients[x[1]].block.target = NULL}
         IN  ListLengths(Purged(db)') + Cardinality(taken) = ListLengths(Purged(db)) + Len(last'.cmd[3])]_vars

\* Blocked clients get what was pushed, in the order in which they blocked
\* (handleClientsBlockedOnKeys, serveClientBlockedOnList).
BlockedClientsAreServed == ServedInOrder /\ PushedElementsAreKept

=============================================================================
