----------------------------- MODULE MCCommands -----------------------------
(***************************************************************************)
(* Families of commands for TLC: each one starts from a few small          *)
(* databases, some with a key about to expire, and runs its own commands.  *)
(***************************************************************************)
EXTENDS Commands

Base(kv, ex) == (0 :> [kv |-> kv, ex |-> ex]) @@ (1 :> EmptyDb)

BothBases(kv0, kv1) == (0 :> [kv |-> kv0, ex |-> <<>>]) @@ (1 :> [kv |-> kv1, ex |-> <<>>])

One == <<49>>
Two == <<50>>
Big == <<49, 49>>       \* "11", next to LLONG_MAX
NoOpt == [desc |-> FALSE, alpha |-> FALSE, limit |-> NULL, by |-> NULL, get |-> <<>>, store |-> NULL]
Weights == (1 :> [key |-> "w"]) @@ (2 :> [key |-> "h", field |-> "f"])
R(min, minex, max, maxex) == [min |-> min, minex |-> minex, max |-> max, maxex |-> maxex]
ID(ms, seq) == [ms |-> ms, seq |-> seq]
Sym(c) == [sym |-> c]
Field(op, sign, bits, offset, value, owtype) ==
    [opcode |-> op, sign |-> sign, bits |-> bits, offset |-> offset, i64 |-> value, owtype |-> owtype]

MCFamilies == {"strings", "bits", "lists", "sets", "hashes", "zsets", "streams", "keys", "sort", "multi", "block", "wake"}

Value1 == ("a" :> Str(Big)) @@ ("l" :> List(<<1, 2>>))

MCDatasets == [f \in MCFamilies |->
    CASE f = "strings" -> {Base(Value1, "a" :> 1), Base(Value1, <<>>)}
      [] f = "bits" -> {Base("a" :> Str(<<5>>), <<>>), Base(("a" :> Str(<<5>>)) @@ ("l" :> List(<<1>>)), "a" :> 1)}
      [] f = "lists" -> {Base(("l" :> List(<<1, 2, 1>>)) @@ ("a" :> Str(One)), "l" :> 1),
                         Base(("l" :> List(<<1>>)) @@ ("a" :> Str(One)), <<>>)}
      [] f = "sets" -> {Base(("s" :> SetVal({1, 2, 3})) @@ ("t" :> SetVal({3})) @@ ("a" :> Str(One)), "t" :> 1),
                        Base(("s" :> SetVal({1, 2})) @@ ("a" :> Str(One)), <<>>)}
      [] f = "hashes" -> {Base(("h" :> Hash(("f" :> Big) @@ ("g" :> <<120>>))) @@ ("a" :> Str(One)), "h" :> 1),
                          Base("h" :> Hash("f" :> Big), <<>>)}
      [] f = "zsets" -> {Base(("z" :> Zset((1 :> 2) @@ (2 :> 1) @@ (3 :> 2))) @@ ("s" :> SetVal({2, 3})) @@ ("a" :> Str(One)), "s" :> 1),
                         Base("z" :> Zset(1 :> 1), <<>>)}
      [] f = "streams" ->
           {Base("x" :> Stream([nodes |-> <<<<[id |-> ID(1, 0), fields |-> 1], [id |-> ID(1, 1), fields |-> 2]>>,
                                            <<[id |-> ID(1, 2), fields |-> 1]>>>>,
                                last |-> ID(1, 2),
                                groups |-> "g" :> [last |-> ID(1, 0),
                                                   pel |-> ID(1, 0) :> [consumer |-> "p", time |-> 0, count |-> 1],
                                                   consumers |-> "p" :> {ID(1, 0)}]]), <<>>)}
      [] f = "keys" -> {Base(("a" :> Str(One)) @@ ("l" :> List(<<1>>)), "a" :> 1),
                        Base("a" :> Str(One), "a" :> 2)}
      [] f = "sort" -> {Base(("s" :> SetVal({1, 2, 3})) @@ ("w" :> Str(Two)) @@ ("h" :> Hash("f" :> One)), "w" :> 1),
                        Base(("z" :> Zset((1 :> 2) @@ (2 :> 1))) @@ ("l" :> List(<<2, 1, 2>>)), <<>>)}
      [] f = "multi" -> {Base("a" :> Str(One), <<>>), Base(("s" :> SetVal({1, 2})) @@ ("t" :> SetVal({2, 3})), "s" :> 1)}
      [] f = "block" -> {Base("a" :> Str(One), <<>>), Base("z" :> Zset((1 :> 1) @@ (2 :> 1)), <<>>)}
      [] f = "wake" -> {BothBases("s" :> SetVal({1, 2}), "l" :> List(<<1>>)),
                        BothBases(("z" :> Zset(1 :> 1)) @@ ("s" :> SetVal({3})), "l" :> Zset((1 :> 1) @@ (2 :> 1)))}]

MCTable == [f \in MCFamilies |->
    CASE f = "strings" ->
           {<<"get", "a">>, <<"get", "l">>, <<"set", "a", One, {}, NULL>>, <<"set", "l", One, {"nx"}, NULL>>,
            <<"set", "b", Two, {"xx"}, NULL>>, <<"set", "b", Two, {}, [ll |-> 1]>>, <<"set", "b", Two, {}, [ll |-> 0]>>,
            <<"set", "b", Two, {"nx", "xx"}, NULL>>, <<"getset", "a", Two>>, <<"getset", "l", Two>>,
            <<"append", "a", One>>, <<"append", "l", One>>, <<"strlen", "a">>, <<"setrange", "a", 1, Two>>,
            <<"setrange", "b", 3, Two>>, <<"setrange", "l", 0, <<>>>>, <<"getrange", "a", -1, -1>>,
            <<"mget", <<"a", "l", "b">>>>, <<"mset", <<<<"a", One>>, <<"l", Two>>>>>>,
            <<"msetnx", <<<<"b", One>>, <<"a", Two>>>>>>, <<"msetnx", <<<<"b", One>>, <<"c", Two>>>>>>,
            <<"incrby", "a", 1>>, <<"incrby", "a", 3>>, <<"incrby", "b", -13>>, <<"incrby", "l", 1>>,
            <<"decrby", "b", 2>>, <<"incrbyfloat", "a", 1>>}
      [] f = "bits" ->
           {<<"setbit", "a", 0, 1>>, <<"setbit", "a", 9, 1>>, <<"setbit", "l", 0, 1>>, <<"getbit", "a", 5>>, <<"getbit", "l", 5>>,
            <<"bitop", "and", "b", <<"a", "c">>>>, <<"bitop", "not", "b", <<"a">>>>, <<"bitop", "or", "a", <<"c">>>>,
            <<"bitop", "xor", "l", <<"a", "a">>>>, <<"bitop", "or", "b", <<"a", "l">>>>, <<"bitcount", "a", <<>>>>,
            <<"bitcount", "a", <<-1, -1>>>>, <<"bitpos", "a", 1, <<>>>>, <<"bitpos", "a", 0, <<0, -1>>>>,
            <<"bitfield", "a", <<Field("get", FALSE, 4, 4, 0, "wrap")>>>>,
            <<"bitfield", "a", <<Field("set", FALSE, 4, 6, 9, "wrap"), Field("incrby", TRUE, 3, 8, 3, "sat")>>>>,
            <<"bitfield", "b", <<Field("incrby", FALSE, 2, 0, 5, "fail"), Field("incrby", TRUE, 2, 2, 3, "wrap")>>>>}
      [] f = "lists" ->
           {<<"lpush", "l", <<3>>>>, <<"rpush", "b", <<3, 1>>>>, <<"rpush", "a", <<1>>>>, <<"lpushx", "b", <<3>>>>,
            <<"rpushx", "l", <<3>>>>, <<"linsert", "l", "before", 2, 3>>, <<"linsert", "l", "after", 1, 3>>, <<"llen", "l">>,
            <<"lindex", "l", -1>>, <<"lset", "l", 1, 3>>, <<"lset", "b", 0, 3>>, <<"lpop", "l">>, <<"rpop", "l">>, <<"rpop", "a">>,
            <<"lrange", "l", 0, -1>>, <<"ltrim", "l", 1, 1>>, <<"ltrim", "l", 2, 1>>, <<"lrem", "l", 0, 1>>, <<"lrem", "l", -1, 1>>,
            <<"rpoplpush", "l", "l">>, <<"rpoplpush", "l", "b">>, <<"rpoplpush", "l", "a">>, <<"blpop", <<"b", "l">>>>,
            <<"brpop", <<"l">>>>, <<"brpoplpush", "l", "b">>, <<"exists", <<"l">>>>}
      [] f = "sets" ->
           {<<"sadd", "s", <<3, 4>>>>, <<"sadd", "a", <<1>>>>, <<"srem", "s", <<1, 2>>>>, <<"smove", "s", "t", 1>>,
            <<"smove", "s", "t", 3>>, <<"smove", "s", "a", 1>>, <<"smove", "s", "s", 1>>, <<"sismember", "s", 1>>, <<"scard", "t">>,
            <<"spop", "s">>, <<"spopcount", "s", 1>>, <<"spopcount", "s", 2>>, <<"spopcount", "s", 5>>, <<"srandmember", "s">>,
            <<"srandmembercount", "s", 2>>, <<"srandmembercount", "s", -3>>, <<"sinter", <<"s", "t">>, NULL>>,
            <<"sinter", <<"s", "t">>, [key |-> "a"]>>, <<"sunion", <<"s", "t">>, [key |-> "t"]>>, <<"sunion", <<"s", "a">>, NULL>>,
            <<"sdiff", <<"s", "t">>, [key |-> "s"]>>, <<"sdiff", <<"t", "s">>, [key |-> "a"]>>, <<"keys", {"s", "t"}>>}
      [] f = "hashes" ->
           {<<"hset", "h", <<<<"f", One>>, <<"k", Two>>>>>>, <<"hset", "a", <<<<"f", One>>>>>>, <<"hsetnx", "h", "f", One>>,
            <<"hsetnx", "b", "f", One>>, <<"hget", "h", "f">>, <<"hmget", "h", <<"f", "k">>>>, <<"hincrby", "h", "f", 1>>,
            <<"hincrby", "h", "f", 3>>, <<"hincrby", "h", "g", 1>>, <<"hincrby", "b", "f", -13>>, <<"hincrbyfloat", "h", "f", 1>>,
            <<"hincrbyfloat", "h", "g", 1>>, <<"hincrbyfloat", "h", "k", Inf>>, <<"hincrbyfloat", "b", "f", Inf>>,
            <<"hdel", "h", <<"f", "g", "f">>>>, <<"hdel", "h", <<"f">>>>, <<"hdel", "a", <<"f">>>>,
            <<"hlen", "h">>, <<"hstrlen", "h", "f">>, <<"hexists", "h", "f">>, <<"hgetall", "h", {"key", "value"}>>,
            <<"ttl", "h">>, <<"type", "h">>}
      [] f = "zsets" ->
           {<<"zadd", "z", <<<<1, 1>>, <<3, 4>>>>, {}>>, <<"zadd", "z", <<<<3, 4>>>>, {"xx"}>>, <<"zadd", "z", <<<<3, 1>>>>, {"nx"}>>,
            <<"zadd", "z", <<<<2, 1>>>>, {"incr"}>>, <<"zadd", "b", <<<<2, 1>>>>, {"xx", "incr"}>>, <<"zadd", "a", <<<<1, 1>>>>, {}>>,
            <<"zadd", "b", <<<<1, 2>>>>, {}>>, <<"zrem", "z", <<1, 2>>>>, <<"zremrange", "z", "rank", R(0, FALSE, -2, FALSE)>>,
            <<"zremrange", "z", "score", R(1, TRUE, 2, FALSE)>>, <<"zremrange", "z", "lex", R(1, FALSE, 2, TRUE)>>,
            <<"zstore", "b", <<"z", "s">>, <<1, 2>>, "sum", "union">>, <<"zstore", "z", <<"z", "s">>, <<1, 1>>, "min", "inter">>,
            <<"zstore", "s", <<"c">>, <<1>>, "max", "union">>, <<"zrange", "z", 0, -1, TRUE>>,
            <<"zrangebyscore", "z", R(1, FALSE, 2, TRUE), 0, -1, FALSE>>, <<"zrangebyscore", "z", R(1, TRUE, 2, FALSE), 1, 1, TRUE>>,
            <<"zrangebylex", "z", R(1, TRUE, 3, FALSE), 0, -1, FALSE>>, <<"zcount", "z", R(2, FALSE, 2, FALSE)>>,
            <<"zlexcount", "z", R(2, FALSE, 3, FALSE)>>, <<"zcard", "z">>, <<"zscore", "z", 1>>, <<"zrank", "z", 3, FALSE>>,
            <<"zpopmin", "z", 1>>, <<"zpopmax", "z", 5>>, <<"bzpopmin", <<"b", "z">>>>, <<"bzpopmax", <<"z">>>>}
      [] f = "streams" ->
           LET p(n) == [group |-> "g", consumer |-> n, noack |-> FALSE]
           IN {<<"xadd", "x", NULL, Sym("*"), 1>>, <<"xadd", "x", [n |-> 1, approx |-> TRUE], Sym("*"), 1>>,
            <<"xadd", "x", [n |-> 2, approx |-> FALSE], ID(2, 0), 1>>, <<"xadd", "x", NULL, ID(1, 1), 1>>,
            <<"xadd", "y", NULL, ID(0, 0), 1>>, <<"xadd", "y", NULL, ID(2, 0), 1>>,
            <<"xrange", "x", Sym("-"), Sym("+"), -1, FALSE>>, <<"xlen", "x">>,
            <<"xread", <<"x">>, <<ID(1, 0)>>, 1, NULL, FALSE>>, <<"xread", <<"x">>, <<Sym(">")>>, 1, p("q"), FALSE>>,
            <<"xread", <<"x">>, <<Sym(">")>>, 0, [p("q") EXCEPT !.noack = TRUE], FALSE>>, <<"xread", <<"x">>, <<ID(0, 0)>>, 0, p("p"), FALSE>>,
            <<"xread", <<"x">>, <<Sym(">")>>, 0, NULL, FALSE>>, <<"xgroup", "create", "y", "g", Sym("$")>>,
            <<"xgroup", "create", "x", "g", ID(1, 1)>>, <<"xgroup", "setid", "x", "g", ID(0, 0)>>, <<"xgroup", "destroy", "x", "g", NULL>>,
            <<"xdelconsumer", "x", "g", "p">>, <<"xsetid", "x", ID(1, 1)>>, <<"xsetid", "x", ID(2, 1)>>,
            <<"xack", "x", "g", <<ID(1, 0), ID(1, 1)>>>>, <<"xpending", "x", "g", NULL, NULL>>,
            <<"xpending", "x", "g", [start |-> Sym("-"), end |-> Sym("+"), count |-> 9], [name |-> "p"]>>,
            <<"xclaim", "x", "g", "q", 0, <<ID(1, 0)>>, <<>>>>, <<"xclaim", "x", "g", "q", 2, <<ID(1, 0)>>, [lastid |-> ID(1, 2)]>>,
            <<"xclaim", "x", "g", "p", 0, <<ID(1, 1), ID(1, 2)>>, [force |-> TRUE, justid |-> TRUE, idle |-> 1]>>,
            <<"xdel", "x", <<ID(1, 0), ID(1, 2)>>>>, <<"xtrim", "x", [n |-> 1, approx |-> TRUE]>>, <<"xtrim", "x", [n |-> 1, approx |-> FALSE]>>,
            <<"xinfo", "stream", "x", "g">>, <<"xinfo", "groups", "x", "g">>, <<"xinfo", "consumers", "x", "g">>}
      [] f = "keys" ->
           {<<"del", <<"a", "l", "a">>>>, <<"exists", <<"a", "l">>>>, <<"touch", <<"a">>>>, <<"type", "a">>, <<"randomkey">>,
            <<"keys", {"a", "b"}>>, <<"scan", {"a", "l"}, {"a"}>>, <<"dbsize">>, <<"rename", "a", "l", FALSE>>, <<"rename", "l", "a", TRUE>>,
            <<"rename", "a", "a", FALSE>>, <<"rename", "l", "b", TRUE>>, <<"move", "a", 1>>, <<"move", "l", 1>>, <<"move", "a", 2>>,
            <<"swapdb", 0, 1>>, <<"flushdb">>, <<"flushall">>, <<"expire", "a", 1>>, <<"expire", "l", 0>>, <<"expireat", "a", 1>>,
            <<"expireat", "l", 2>>, <<"ttl", "a">>, <<"persist", "a">>, <<"set", "a", Two, {}, NULL>>, <<"get", "a">>,
            <<"dump", "a">>, <<"restore", "a", 0, createDumpPayload(List(<<2>>)), FALSE, FALSE>>,
            <<"restore", "a", 0, createDumpPayload(Str(Two)), TRUE, FALSE>>, <<"restore", "b", 1, createDumpPayload(Str(Big)), FALSE, FALSE>>,
            <<"restore", "l", 1, createDumpPayload(Str(Two)), TRUE, TRUE>>, <<"restore", "b", 0, NULL, FALSE, FALSE>>,
            <<"restore", "a", -1, NULL, TRUE, FALSE>>}
      [] f = "sort" ->
           {<<"sort", "s", NoOpt>>, <<"sort", "s", [NoOpt EXCEPT !.by = [nosort |-> TRUE], !.store = [key |-> "d"]]>>,
            <<"sort", "s", [NoOpt EXCEPT !.by = [pattern |-> Weights], !.store = [key |-> "d"]]>>,
            <<"sort", "s", [NoOpt EXCEPT !.by = [pattern |-> Weights], !.desc = TRUE, !.limit = [start |-> 1, count |-> 1],
                                        !.store = [key |-> "w"]]>>,
            <<"sort", "l", [NoOpt EXCEPT !.get = <<[of |-> Weights], [self |-> TRUE]>>]>>,
            <<"sort", "l", [NoOpt EXCEPT !.by = [nosort |-> TRUE], !.desc = TRUE, !.limit = [start |-> 0, count |-> 2], !.store = [key |-> "l"]]>>,
            <<"sort", "z", [NoOpt EXCEPT !.alpha = TRUE, !.limit = [start |-> 5, count |-> 1], !.store = [key |-> "l"]]>>,
            <<"sort", "z", [NoOpt EXCEPT !.by = [nosort |-> TRUE]]>>, <<"sort", "h", NoOpt>>, <<"sort", "c", [NoOpt EXCEPT !.store = [key |-> "w"]]>>}
      [] f = "multi" ->
           {<<"set", "a", Two, {}, NULL>>, <<"smove", "s", "t", 1>>, <<"spopcount", "t", 1>>, <<"flushall">>,
            <<"rename", "t", "a", FALSE>>, <<"sunion", <<"s", "t">>, [key |-> "a"]>>,
            <<"restore", "a", 0, createDumpPayload(Str(Big)), TRUE, FALSE>>, <<"swapdb", 0, 1>>}
      [] f = "block" ->
           {<<"blpop", <<"l", "m">>>>, <<"brpop", <<"m">>>>, <<"brpoplpush", "l", "m">>, <<"brpoplpush", "m", "a">>, <<"bzpopmin", <<"l">>>>,
            <<"rpush", "l", <<1>>>>, <<"lpush", "m", <<1, 2>>>>, <<"rename", "z", "l", FALSE>>}
      [] f = "wake" ->
           {<<"blpop", <<"l">>>>, <<"bzpopmin", <<"l">>>>, <<"swapdb", 0, 1>>, <<"move", "l", 0>>, <<"zstore", "l", <<"s">>, <<1>>, "sum", "union">>,
            <<"sort", "s", [NoOpt EXCEPT !.store = [key |-> "l"]]>>, <<"restore", "l", 0, createDumpPayload(List(<<2>>)), TRUE, FALSE>>,
            <<"restore", "l", 0, createDumpPayload(Zset(2 :> 2)), FALSE, FALSE>>}]

MCUsers == [f \in MCFamilies |->
    CASE f = "multi" -> {"c1", "c2"} [] f \in {"block", "wake"} -> {"c1", "c2", "c3"} [] OTHER -> {"c1"}]
MCTransactional == [f \in MCFamilies |-> IF f = "multi" THEN {"c1"} ELSE {}]
MCMaxCommands == [f \in MCFamilies |-> IF f \in {"block", "wake"} THEN 3 ELSE 2]
MCSelected == [f \in MCFamilies |-> [c \in Clients |-> IF f = "wake" /\ c = "c3" THEN 1 ELSE 0]]
MCWatchable == [f \in MCFamilies |-> IF f = "multi" THEN {0} \X {"a", "t"} ELSE {}]

=============================================================================
