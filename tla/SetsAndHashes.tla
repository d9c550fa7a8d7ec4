---------------------------- MODULE SetsAndHashes ----------------------------
(***************************************************************************)
(* The commands on set values (t_set.c) and on hash values (t_hash.c).  A  *)
(* set is the set of its members, a hash a function from its fields to     *)
(* their values; which of two encodings holds them is not told apart here. *)
(* Inf is the infinity a floating point argument may name.                 *)
(***************************************************************************)
EXTENDS Keyspace

CONSTANT Inf

-----------------------------------------------------------------------------
(* Sets *)

SetVal(S) == [set |-> S]
SetOf(o) == IF o = NULL THEN {} ELSE o.set

setTypeAdd(S, v) == S \cup {v}
setTypeRemove(S, v) == S \ {v}
setTypeIsMember(S, v) == v \in S

\* The member a random draw returns: s.dice says where the generator points.
setTypeRandomElement(s, S) == SetToSeq(S)[(s.dice % Cardinality(S)) + 1]

\* Members drawn without replacement.
RandomSubset(s, S, n) ==
    FoldLeft(LAMBDA acc, i : acc \cup {setTypeRandomElement(s, S \ acc)}, {}, [i \in 1..n |-> i])

StoreSet(s, k, S) ==
    signalModifiedKey(IF S = {} THEN dbDelete(s, k) ELSE dbOverwrite(s, k, SetVal(S)), k)

saddCommand(s, k, vs) ==
    LET s1 == expireIfNeeded(s, k)
        o == lookupKey(s1, k)
        new == FoldLeft(setTypeAdd, SetOf(o), vs)
        added == Cardinality(new) - Cardinality(SetOf(o))
        s2 == IF o = NULL THEN dbAdd(s1, k, SetVal(new)) ELSE dbOverwrite(s1, k, SetVal(new))
    IN  IF WrongType(o, "set") THEN Reply(s1, Err("wrongtype"))
        ELSE Reply(Dirty(IF added > 0 THEN signalModifiedKey(s2, k) ELSE s2, added), Num(added))

sremCommand(s, k, vs) ==
    LET s1 == expireIfNeeded(s, k)
        o == lookupKey(s1, k)
        rest == FoldLeft(setTypeRemove, o.set, vs)
        deleted == o.set \ rest
    IN  IF o = NULL THEN Reply(s1, Num(0))
        ELSE IF WrongType(o, "set") THEN Reply(s1, Err("wrongtype"))
        ELSE IF deleted = {} THEN Reply(s1, Num(0))
        ELSE Reply(Dirty(StoreSet(s1, k, rest), Cardinality(deleted)), Num(Cardinality(deleted)))

FaultySmove(s, src, dst, v) ==
    LET s1 == LookedUp(s, <<src, dst>>)
        from == lookupKey(s1, src)
        to == lookupKey(s1, dst)
        s2 == IF from.set = {v} THEN dbDelete(s1, src) ELSE dbOverwrite(s1, src, SetVal(setTypeRemove(from.set, v)))
        s3 == IF to = NULL THEN dbAdd(s2, dst, SetVal({v})) ELSE dbOverwrite(s2, dst, SetVal(setTypeAdd(to.set, v)))
    IN  IF from = NULL THEN Reply(s1, Num(0))
        ELSE IF WrongType(from, "set") \/ WrongType(to, "set") THEN Reply(s1, Err("wrongtype"))
        ELSE IF src = dst THEN Reply(s1, Num(IF setTypeIsMember(from.set, v) THEN 1 ELSE 0))
        ELSE IF ~setTypeIsMember(from.set, v) THEN Reply(s1, Num(0))
        ELSE Reply(Dirty(signalModifiedKey(s3, src), 1), Num(1))

\* SMOVE: the member leaves one set and joins the other; moving it onto itself
\* changes nothing.
smoveCommand(s, src, dst, v) ==
    LET s1 == LookedUp(s, <<src, dst>>)
        from == lookupKey(s1, src)
        to == lookupKey(s1, dst)
        s2 == IF from.set = {v} THEN dbDelete(s1, src) ELSE dbOverwrite(s1, src, SetVal(setTypeRemove(from.set, v)))
        s3 == IF to = NULL THEN dbAdd(s2, dst, SetVal({v})) ELSE dbOverwrite(s2, dst, SetVal(setTypeAdd(to.set, v)))
        s4 == signalModifiedKey(signalModifiedKey(s3, src), dst)
    IN  IF from = NULL THEN Reply(s1, Num(0))
        ELSE IF WrongType(from, "set") \/ WrongType(to, "set") THEN Reply(s1, Err("wrongtype"))
        ELSE IF src = dst THEN Reply(s1, Num(IF setTypeIsMember(from.set, v) THEN 1 ELSE 0))
        ELSE IF ~setTypeIsMember(from.set, v) THEN Reply(s1, Num(0))
        ELSE Reply(Dirty(s4, IF setTypeIsMember(SetOf(to), v) THEN 1 ELSE 2), Num(1))

sismemberCommand(s, k, v) ==
    LET o == lookupKeyRead(s, k)
    IN  Reply(expireIfNeeded(s, k),
              IF WrongType(o, "set") THEN Err("wrongtype") ELSE Num(IF setTypeIsMember(SetOf(o), v) THEN 1 ELSE 0))

scardCommand(s, k) ==
    LET o == lookupKeyRead(s, k)
    IN  Reply(expireIfNeeded(s, k),
              IF WrongType(o, "set") THEN Err("wrongtype") ELSE Num(Cardinality(SetOf(o))))

FaultySpopCount(s, k, count) ==
    LET s1 == expireIfNeeded(s, k)
        o == lookupKeyRead(s, k)
        drawn == RandomSubset(s, o.set, count)
    IN  IF o = NULL \/ count <= 0 THEN Reply(s1, Multi(<<>>))
        ELSE IF WrongType(o, "set") THEN Reply(s1, Err("wrongtype"))
        ELSE IF count >= Cardinality(o.set)
        THEN Reply(Rewrite(Dirty(signalModifiedKey(dbDelete(s1, k), k), count + 1), <<"del", <<k>>>>), <<"members", o.set>>)
        ELSE Reply(Dirty(StoreSet(s1, k, o.set \ drawn), count + 1), <<"members", drawn>>)

\* SPOP with a count: the whole set is propagated as a DEL, part of it as one
\* SREM per member in place of the command itself.
spopWithCountCommand(s, k, count) ==
    LET s1 == expireIfNeeded(s, k)
        o == lookupKeyRead(s, k)
        drawn == RandomSubset(s, o.set, count)
        whole == Dirty(signalModifiedKey(dbDelete(s1, k), k), count + 1)
        part == Dirty(StoreSet(s1, k, o.set \ drawn), count + 1)
        srems == [i \in 1..count |-> <<s.cur, <<"srem", k, <<SetToSeq(drawn)[i]>>>>>>]
    IN  IF count < 0 THEN Reply(s, Err("outofrange"))
        ELSE IF o = NULL THEN Reply(s1, Multi(<<>>))
        ELSE IF WrongType(o, "set") THEN Reply(s1, Err("wrongtype"))
        ELSE IF count = 0 THEN Reply(s1, Multi(<<>>))
        ELSE IF count >= Cardinality(o.set)
        THEN Reply(Rewrite(whole, <<"del", <<k>>>>), <<"members", o.set>>)
        ELSE Reply([part EXCEPT !.also = @ \o srems, !.prevent = TRUE], <<"members", drawn>>)

\* SPOP of one member, propagated as its SREM.
spopCommand(s, k) ==
    LET s1 == expireIfNeeded(s, k)
        o == lookupKey(s1, k)
        v == setTypeRandomElement(s, o.set)
        s2 == Dirty(StoreSet(s1, k, setTypeRemove(o.set, v)), 1)
    IN  IF o = NULL THEN Reply(s1, Nil)
        ELSE IF WrongType(o, "set") THEN Reply(s1, Err("wrongtype"))
        ELSE Reply(Rewrite(s2, <<"srem", k, <<v>>>>), Bulk(v))

\* SRANDMEMBER with a count: a negative one may repeat members.
srandmemberWithCountCommand(s, k, l) ==
    LET o == lookupKeyRead(s, k)
    IN  Reply(expireIfNeeded(s, k),
              IF o = NULL THEN Multi(<<>>)
              ELSE IF WrongType(o, "set") THEN Err("wrongtype")
              ELSE IF l = 0 THEN Multi(<<>>)
              ELSE IF l < 0 THEN Multi([i \in 1..(-l) |-> setTypeRandomElement(s, o.set)])
              ELSE IF l >= Cardinality(o.set) THEN <<"members", o.set>>
              ELSE <<"members", RandomSubset(s, o.set, l)>>)

srandmemberCommand(s, k) ==
    LET o == lookupKeyRead(s, k)
    IN  Reply(expireIfNeeded(s, k),
              IF o = NULL THEN Nil
              ELSE IF WrongType(o, "set") THEN Err("wrongtype")
              ELSE Bulk(setTypeRandomElement(s, o.set)))

\* What a set operation sees of each key: a store looks them up for writing.
SourceOf(s, k, store) == IF store THEN lookupKeyWrite(s, k) ELSE lookupKeyRead(s, k)


\* The end of the commands that store: the old value goes, whatever its type,
\* and an empty result leaves no key.
StoreResult(s, dst, S) ==
    LET gone == IF dbExists(s, dst) THEN dbDelete(s, dst) ELSE s
    IN  Reply(Dirty(signalModifiedKey(IF S # {} THEN dbAdd(gone, dst, SetVal(S)) ELSE gone, dst), 1),
              Num(Cardinality(S)))

\* SINTER and SINTERSTORE (dst not NULL): a missing source ends the command at
\* once, before the types of the later ones are looked at; then the target is
\* only deleted, and signalled and counted only if it was there.
sinterGenericCommand(s, keys, dst) ==
    LET store == dst # NULL
        src(i) == SourceOf(s, keys[i], store)
        stops == {i \in DOMAIN keys : src(i) = NULL \/ WrongType(src(i), "set")}
        i == CHOOSE i \in stops : \A j \in stops : i <= j
        s1 == LookedUp(s, IF stops = {} THEN keys ELSE SubSeq(keys, 1, i))
        result == {v \in src(1).set : \A j \in DOMAIN keys : v \in src(j).set}
    IN  IF stops # {} /\ src(i) # NULL THEN Reply(s1, Err("wrongtype"))
        ELSE IF stops # {} /\ ~store THEN Reply(s1, Multi(<<>>))
        ELSE IF stops # {}
        THEN Reply(IF dbExists(s1, dst.key)
                   THEN Dirty(signalModifiedKey(dbDelete(s1, dst.key), dst.key), 1) ELSE s1, Num(0))
        ELSE IF store THEN StoreResult(s1, dst.key, result)
        ELSE Reply(s1, <<"members", result>>)

\* SUNION, SDIFF and their stores: a missing source is an empty set.
sunionDiffGenericCommand(s, keys, dst, op) ==
    LET store == dst # NULL
        src(i) == SourceOf(s, keys[i], store)
        bad == {i \in DOMAIN keys : WrongType(src(i), "set")}
        i == CHOOSE i \in bad : \A j \in bad : i <= j
        s1 == LookedUp(s, IF bad = {} THEN keys ELSE SubSeq(keys, 1, i))
        others(f) == UNION {SetOf(src(j)) : j \in f..Len(keys)}
        result == IF op = "union" THEN others(1) ELSE SetOf(src(1)) \ others(2)
    IN  IF bad # {} THEN Reply(s1, Err("wrongtype"))
        ELSE IF store THEN StoreResult(s1, dst.key, result)
        ELSE Reply(s1, <<"members", result>>)
-----------------------------------------------------------------------------
(* Hashes *)

Hash(h) == [hash |-> h]
HashOf(o) == IF o = NULL THEN <<>> ELSE o.hash

hashTypeExists(h, f) == f \in DOMAIN h
hashTypeGetValue(h, f) == IF hashTypeExists(h, f) THEN h[f] ELSE NULL
hashTypeLength(h) == Cardinality(DOMAIN h)

\* Put a field, with its value, into a hash.
hashTypeSet(h, f, v) == (f :> v) @@ h

\* Take a field out of a hash.
hashTypeDelete(h, f) == Without(h, f)

\* addHashFieldToReply
HashField(h, f) == IF f \in DOMAIN h THEN Bulk(h[f]) ELSE Nil

\* The hash to write to: an absent key is added, empty, at once.
hashTypeLookupWriteOrCreate(s, k) ==
    LET s1 == expireIfNeeded(s, k)
    IN  IF dbExists(s1, k) THEN s1 ELSE dbAdd(s1, k, Hash(<<>>))

Changed(s, k, h) == Dirty(signalModifiedKey(dbOverwrite(s, k, Hash(h)), k), 1)

hsetnxCommand(s, k, f, v) ==
    LET s1 == hashTypeLookupWriteOrCreate(s, k)
        o == lookupKey(s1, k)
    IN  IF WrongType(o, "hash") THEN Reply(s1, Err("wrongtype"))
        ELSE IF hashTypeExists(o.hash, f) THEN Reply(s1, Num(0))
        ELSE Reply(Changed(s1, k, hashTypeSet(o.hash, f, v)), Num(1))

\* HSET and HMSET of field, value pairs.
hsetCommand(s, k, pairs) ==
    LET s1 == hashTypeLookupWriteOrCreate(s, k)
        o == lookupKey(s1, k)
        new == FoldLeft(LAMBDA h, p : hashTypeSet(h, p[1], p[2]), o.hash, pairs)
    IN  IF WrongType(o, "hash") THEN Reply(s1, Err("wrongtype"))
        ELSE Reply(Changed(s1, k, new), Num(Cardinality(DOMAIN new \ DOMAIN o.hash)))


hincrbyCommand(s, k, f, incr) ==
    LET s1 == hashTypeLookupWriteOrCreate(s, k)
        o == lookupKey(s1, k)
        value == IF hashTypeExists(o.hash, f) THEN string2ll(hashTypeGetValue(o.hash, f)) ELSE [ll |-> 0]
        old == value.ll
    IN  IF WrongType(o, "hash") THEN Reply(s1, Err("wrongtype"))
        ELSE IF value = NULL THEN Reply(s1, Err("not an integer"))
        ELSE IF \/ incr < 0 /\ old < 0 /\ incr < LLONG_MIN - old
                \/ incr > 0 /\ old > 0 /\ incr > LLONG_MAX - old
        THEN Reply(s1, Err("overflow"))
        ELSE Reply(Changed(s1, k, hashTypeSet(o.hash, f, ll2string(old + incr))), Num(old + incr))

\* HINCRBYFLOAT: an infinite sum is refused once the key is there; the result
\* is propagated as an HSET.
hincrbyfloatCommand(s, k, f, incr) ==
    LET s1 == hashTypeLookupWriteOrCreate(s, k)
        o == lookupKey(s1, k)
        value == IF hashTypeExists(o.hash, f) THEN string2ll(hashTypeGetValue(o.hash, f)) ELSE [ll |-> 0]
        new == ll2string(value.ll + incr)
        s2 == Changed(s1, k, hashTypeSet(o.hash, f, new))
    IN  IF WrongType(o, "hash") THEN Reply(s1, Err("wrongtype"))
        ELSE IF value = NULL THEN Reply(s1, Err("not a float"))
        ELSE IF incr = Inf THEN Reply(s1, Err("NaN or Infinity"))
        ELSE Reply(Rewrite(s2, <<"hset", k, <<<<f, new>>>>>>), Bulk(new))

hgetCommand(s, k, f) ==
    LET o == lookupKeyRead(s, k)
    IN  Reply(expireIfNeeded(s, k),
              IF WrongType(o, "hash") THEN Err("wrongtype") ELSE HashField(HashOf(o), f))

hmgetCommand(s, k, fs) ==
    LET o == lookupKeyRead(s, k)
    IN  Reply(expireIfNeeded(s, k),
              IF WrongType(o, "hash") THEN Err("wrongtype")
              ELSE Multi([i \in DOMAIN fs |-> HashField(HashOf(o), fs[i])]))


\* HDEL: the key goes with its last field.
hdelCommand(s, k, fs) ==
    LET s1 == expireIfNeeded(s, k)
        o == lookupKey(s1, k)
        deleted == DOMAIN o.hash \cap ToSet(fs)
        rest == FoldLeft(hashTypeDelete, o.hash, fs)
        s2 == IF DOMAIN rest = {} THEN dbDelete(s1, k) ELSE dbOverwrite(s1, k, Hash(rest))
    IN  IF o = NULL THEN Reply(s1, Num(0))
        ELSE IF WrongType(o, "hash") THEN Reply(s1, Err("wrongtype"))
        ELSE IF deleted = {} THEN Reply(s1, Num(0))
        ELSE Reply(Dirty(signalModifiedKey(s2, k), Cardinality(deleted)), Num(Cardinality(deleted)))

hlenCommand(s, k) ==
    LET o == lookupKeyRead(s, k)
    IN  Reply(expireIfNeeded(s, k),
              IF WrongType(o, "hash") THEN Err("wrongtype") ELSE Num(hashTypeLength(HashOf(o))))

hstrlenCommand(s, k, f) ==
    LET o == lookupKeyRead(s, k)
    IN  Reply(expireIfNeeded(s, k),
              IF WrongType(o, "hash") THEN Err("wrongtype")
              ELSE Num(IF hashTypeExists(HashOf(o), f) THEN Len(hashTypeGetValue(HashOf(o), f)) ELSE 0))

hexistsCommand(s, k, f) ==
    LET o == lookupKeyRead(s, k)
    IN  Reply(expireIfNeeded(s, k),
              IF WrongType(o, "hash") THEN Err("wrongtype") ELSE Num(IF hashTypeExists(HashOf(o), f) THEN 1 ELSE 0))

\* HKEYS, HVALS and HGETALL: the fields, their values, or both.
genericHgetallCommand(s, k, flags) ==
    LET o == lookupKeyRead(s, k)
        h == HashOf(o)
        fs == SetToSeq(DOMAIN h)
        field(i) == (IF "key" \in flags THEN <<fs[i]>> ELSE <<>>)
                    \o (IF "value" \in flags THEN <<h[fs[i]]>> ELSE <<>>)
    IN  Reply(expireIfNeeded(s, k),
              IF WrongType(o, "hash") THEN Err("wrongtype")
              ELSE Multi(FlattenSeq([i \in DOMAIN fs |-> field(i)])))
=============================================================================
