------------------------------- MODULE Strings ------------------------------
(***************************************************************************)
(* The commands on string values: t_string.c, and the bitmap commands of   *)
(* bitops.c.  A string is a sequence of bytes.  The long doubles of        *)
(* INCRBYFLOAT are whole numbers here, written like integers.              *)
(***************************************************************************)
EXTENDS Keyspace

checkStringLength(n) == n <= MaxString

stringOf(o) == IF o = NULL THEN <<>> ELSE o.string

\* sdsgrowzero: pad with zero bytes up to a length.
sdsgrowzero(b, n) == IF n <= Len(b) THEN b ELSE b \o [i \in 1..(n - Len(b)) |-> 0]

\* The value of a string as an integer: an absent key counts as 0.
getLongLongFromObject(o) == IF o = NULL THEN [ll |-> 0] ELSE string2ll(o.string)

\* SET and its variants SETNX, SETEX, PSETEX.  f is the set of flags, expire
\* NULL or the time to live.
setGenericCommand(s, f, k, v, expire) ==
    LET s1 == IF f \cap {"nx", "xx"} # {} THEN expireIfNeeded(s, k) ELSE s
        s2 == Dirty(setKey(s1, k, Str(v)), 1)
    IN  IF expire # NULL /\ expire.ll <= 0 THEN Reply(s, Err("invalid expire"))
        ELSE IF ("nx" \in f /\ dbExists(s1, k)) \/ ("xx" \in f /\ ~dbExists(s1, k))
        THEN Reply(s1, Nil)
        ELSE Reply(IF expire # NULL THEN setExpire(s2, k, s.now + expire.ll) ELSE s2, Ok)

\* The options of SET: NX excludes XX, EX excludes PX.
setCommand(s, k, v, f, expire) ==
    IF {"nx", "xx"} \subseteq f THEN Reply(s, Err("syntax"))
    ELSE setGenericCommand(s, f, k, v, expire)

getGenericCommand(s, k) ==
    LET o == lookupKeyRead(s, k)
    IN  Reply(expireIfNeeded(s, k),
              IF o = NULL THEN Nil ELSE IF WrongType(o, "string") THEN Err("wrongtype") ELSE Bulk(o.string))

getCommand(s, k) == getGenericCommand(s, k)

\* GETSET replies the old value before it stores the new one.
getsetCommand(s, k, v) ==
    LET s1 == getGenericCommand(s, k)
    IN  IF IsErr(s1.reply) THEN s1 ELSE Dirty(setKey(s1, k, Str(v)), 1)

setrangeCommand(s, k, offset, v) ==
    LET s1 == expireIfNeeded(s, k)
        o == lookupKey(s1, k)
        old == stringOf(o)
        grown == sdsgrowzero(old, offset + Len(v))
        new == [i \in DOMAIN grown |-> IF i \in (offset + 1)..(offset + Len(v)) THEN v[i - offset] ELSE grown[i]]
        s2 == IF o = NULL THEN dbAdd(s1, k, Str(new)) ELSE dbOverwrite(s1, k, Str(new))
    IN  IF offset < 0 THEN Reply(s, Err("out of range"))
        ELSE IF WrongType(o, "string") THEN Reply(s1, Err("wrongtype"))
        ELSE IF v = <<>> THEN Reply(s1, Num(Len(old)))
        ELSE IF ~checkStringLength(offset + Len(v)) THEN Reply(s1, Err("too long"))
        ELSE Reply(Dirty(signalModifiedKey(s2, k), 1), Num(Len(new)))

\* Negative indexes count from the end; the range is clipped to the string.
\* The pair is the first and the last index, from zero.
clipRange(start, end, len) ==
    LET from(i) == IF i < 0 THEN (IF len + i < 0 THEN 0 ELSE len + i) ELSE i
    IN  <<from(start), IF from(end) >= len THEN len - 1 ELSE from(end)>>

getrangeCommand(s, k, start, end) ==
    LET o == lookupKeyRead(s, k)
        b == stringOf(o)
        r == clipRange(start, end, Len(b))
    IN  Reply(expireIfNeeded(s, k),
              IF o = NULL THEN Bulk(<<>>)
              ELSE IF WrongType(o, "string") THEN Err("wrongtype")
              ELSE IF (start < 0 /\ end < 0 /\ start > end) \/ r[1] > r[2] \/ b = <<>> THEN Bulk(<<>>)
              ELSE Bulk(SubSeq(b, r[1] + 1, r[2] + 1)))

mgetCommand(s, keys) ==
    LET one(t, k) == LET o == lookupKeyRead(t, k)
                     IN  IF o # NULL /\ IsType(o, "string") THEN Bulk(o.string) ELSE Nil
        step(acc, k) == <<expireIfNeeded(acc[1], k), Append(acc[2], one(acc[1], k))>>
        r == FoldLeft(step, <<s, <<>>>>, keys)
    IN  Reply(r[1], Multi(r[2]))


\* MSET and MSETNX: with NX no key is set unless all are absent.
msetGenericCommand(s, pairs, nx) ==
    LET keys == [i \in DOMAIN pairs |-> pairs[i][1]]
        met == {i \in DOMAIN keys : lookupKeyWrite(s, keys[i]) # NULL}
        first == CHOOSE i \in met : \A j \in met : i <= j
        s1 == FoldLeft(LAMBDA t, p : setKey(t, p[1], Str(p[2])),
                       IF nx THEN LookedUp(s, keys) ELSE s, pairs)
    IN  IF nx /\ met # {} THEN Reply(LookedUp(s, SubSeq(keys, 1, first)), Num(0))
        ELSE Reply(Dirty(s1, Len(pairs)), IF nx THEN Num(1) ELSE Ok)

\* INCR, DECR, INCRBY and DECRBY.
incrDecrCommand(s, k, incr) ==
    LET s1 == expireIfNeeded(s, k)
        o == lookupKey(s1, k)
        value == getLongLongFromObject(o)
        old == value.ll
        new == Str(ll2string(old + incr))
        s2 == IF o # NULL THEN dbOverwrite(s1, k, new) ELSE dbAdd(s1, k, new)
    IN  IF WrongType(o, "string") THEN Reply(s1, Err("wrongtype"))
        ELSE IF value = NULL THEN Reply(s1, Err("not an integer"))
        ELSE IF \/ incr < 0 /\ old < 0 /\ incr < LLONG_MIN - old
                \/ incr > 0 /\ old > 0 /\ incr > LLONG_MAX - old
        THEN Reply(s1, Err("overflow"))
        ELSE Reply(Dirty(signalModifiedKey(s2, k), 1), Num(old + incr))

\* DECRBY negates its argument: the smallest long long is its own opposite.
decrbyCommand(s, k, decr) == incrDecrCommand(s, k, IF decr = LLONG_MIN THEN decr ELSE -decr)

\* INCRBYFLOAT is propagated as a SET of the result.
incrbyfloatCommand(s, k, incr) ==
    LET s1 == expireIfNeeded(s, k)
        o == lookupKey(s1, k)
        value == getLongLongFromObject(o)
        new == ll2string(value.ll + incr)
        s2 == IF o # NULL THEN dbOverwrite(s1, k, Str(new)) ELSE dbAdd(s1, k, Str(new))
    IN  IF WrongType(o, "string") THEN Reply(s1, Err("wrongtype"))
        ELSE IF value = NULL THEN Reply(s1, Err("not a float"))
        ELSE Reply(Rewrite(Dirty(signalModifiedKey(s2, k), 1), <<"set", k, new, {}, NULL>>), Bulk(new))

appendCommand(s, k, v) ==
    LET s1 == expireIfNeeded(s, k)
        o == lookupKey(s1, k)
        new == stringOf(o) \o v
        s2 == IF o = NULL THEN dbAdd(s1, k, Str(v)) ELSE dbOverwrite(s1, k, Str(new))
    IN  IF WrongType(o, "string") THEN Reply(s1, Err("wrongtype"))
        ELSE IF o # NULL /\ ~checkStringLength(Len(new)) THEN Reply(s1, Err("too long"))
        ELSE Reply(Dirty(signalModifiedKey(s2, k), 1), Num(Len(new)))

strlenCommand(s, k) ==
    LET o == lookupKeyRead(s, k)
    IN  Reply(expireIfNeeded(s, k),
              IF WrongType(o, "string") THEN Err("wrongtype") ELSE Num(Len(stringOf(o))))

(********************************* bitmaps *********************************)

\* The bit at an offset, from the most significant one of the first byte; the
\* bytes past the end read as zero.
getBit(b, offset) ==
    IF offset \div 8 < Len(b) THEN (b[(offset \div 8) + 1] \div 2 ^ (7 - (offset % 8))) % 2 ELSE 0

setBit(b, offset, v) ==
    [b EXCEPT ![(offset \div 8) + 1] = @ + (v - getBit(b, offset)) * 2 ^ (7 - (offset % 8))]

\* The number of ones in a string.
redisPopcount(b) == Cardinality({i \in 0..(8 * Len(b) - 1) : getBit(b, i) = 1})

\* The first bit with a value: -1 when there is no one; a zero is always found,
\* in the padding past the end.
redisBitpos(b, bit) ==
    LET at == {i \in 0..(8 * Len(b) - 1) : getBit(b, i) = bit}
    IN  IF at # {} THEN CHOOSE i \in at : \A j \in at : i <= j
        ELSE IF bit = 1 THEN -1 ELSE 8 * Len(b)

getUnsignedBitfield(b, offset, bits) ==
    FoldLeft(LAMBDA acc, j : 2 * acc + getBit(b, offset + j - 1), 0, [j \in 1..bits |-> j])

\* The low bits of a value, two's complement for a negative one.
setUnsignedBitfield(b, offset, bits, value) ==
    LET bitOf(j) == (value % 2 ^ bits \div 2 ^ (bits - j)) % 2
    IN  FoldLeft(LAMBDA acc, j : setBit(acc, offset + j - 1, bitOf(j)), b, [j \in 1..bits |-> j])

getSignedBitfield(b, offset, bits) ==
    LET u == getUnsignedBitfield(b, offset, bits)
    IN  IF u >= 2 ^ (bits - 1) THEN u - 2 ^ bits ELSE u

\* Whether value + incr leaves the range of an unsigned field, and the value
\* stored in that case.  A negative value given to SET is a large unsigned one.
checkUnsignedBitfieldOverflow(value, incr, bits, owtype) ==
    LET max == 2 ^ bits - 1
    IN  IF value < 0 \/ value > max \/ (incr > 0 /\ incr > max - value)
        THEN [over |-> 1, limit |-> IF owtype = "sat" THEN max ELSE (value + incr) % 2 ^ bits]
        ELSE IF incr < 0 /\ incr < -value
        THEN [over |-> -1, limit |-> IF owtype = "sat" THEN 0 ELSE (value + incr) % 2 ^ bits]
        ELSE [over |-> 0, limit |-> value + incr]

checkSignedBitfieldOverflow(value, incr, bits, owtype) ==
    LET max == 2 ^ (bits - 1) - 1
        min == -max - 1
        low == (value + incr) % 2 ^ bits
        wrapped == IF low > max THEN low - 2 ^ bits ELSE low
    IN  IF value > max \/ incr > max - value
        THEN [over |-> 1, limit |-> IF owtype = "sat" THEN max ELSE wrapped]
        ELSE IF value < min \/ incr < min - value
        THEN [over |-> -1, limit |-> IF owtype = "sat" THEN min ELSE wrapped]
        ELSE [over |-> 0, limit |-> value + incr]

\* The string of a bitmap command, created or grown to hold its highest bit;
\* the pair is the server and the string, NULL for another type.
lookupStringForBitCommand(s, k, maxbit) ==
    LET s1 == expireIfNeeded(s, k)
        o == lookupKey(s1, k)
        b == sdsgrowzero(stringOf(o), maxbit \div 8 + 1)
    IN  IF WrongType(o, "string") THEN <<Reply(s1, Err("wrongtype")), NULL>>
        ELSE <<IF o = NULL THEN dbAdd(s1, k, Str(b)) ELSE dbOverwrite(s1, k, Str(b)), Str(b)>>

\* getBitOffsetFromArgument
bitOffsetFits(offset) == offset >= 0 /\ offset \div 8 < MaxString

setbitCommand(s, k, offset, on) ==
    LET r == lookupStringForBitCommand(s, k, offset)
        b == r[2].string
        s2 == dbOverwrite(r[1], k, Str(setBit(b, offset, on)))
    IN  IF ~bitOffsetFits(offset) THEN Reply(s, Err("bit offset"))
        ELSE IF on \notin {0, 1} THEN Reply(s, Err("bit"))
        ELSE IF r[2] = NULL THEN r[1]
        ELSE Reply(Dirty(signalModifiedKey(s2, k), 1), Num(getBit(b, offset)))

getbitCommand(s, k, offset) ==
    LET o == lookupKeyRead(s, k)
        s1 == expireIfNeeded(s, k)
    IN  IF ~bitOffsetFits(offset) THEN Reply(s, Err("bit offset"))
        ELSE Reply(s1, IF WrongType(o, "string") THEN Err("wrongtype") ELSE Num(getBit(stringOf(o), offset)))

bitOp(op, x, y) ==
    CASE op = "and" -> x * y
      [] op = "or" -> IF x + y > 0 THEN 1 ELSE 0
      [] op = "xor" -> (x + y) % 2

\* BITOP: the result is as long as the longest source, and an empty one deletes
\* the target.  The sources are looked up until one has another type.
bitopCommand(s, op, target, keys) ==
    LET bad == {i \in DOMAIN keys : WrongType(lookupKeyRead(s, keys[i]), "string")}
        firstBad == CHOOSE i \in bad : \A j \in bad : i <= j
        src == [i \in DOMAIN keys |-> stringOf(lookupKeyRead(s, keys[i]))]
        maxlen == FoldLeft(LAMBDA acc, b : IF Len(b) > acc THEN Len(b) ELSE acc, 0, src)
        bitAt(i) == IF op = "not" THEN 1 - getBit(src[1], i)
                    ELSE FoldLeft(LAMBDA acc, b : bitOp(op, acc, getBit(b, i)), getBit(src[1], i), Tail(src))
        res == FoldLeft(LAMBDA acc, i : setBit(acc, i - 1, bitAt(i - 1)),
                        sdsgrowzero(<<>>, maxlen), [i \in 1..(8 * maxlen) |-> i])
        s1 == LookedUp(s, keys)
        s2 == IF maxlen > 0 THEN setKey(s1, target, Str(res))
              ELSE IF dbExists(s1, target) THEN signalModifiedKey(dbDelete(s1, target), target)
              ELSE s1
    IN  IF op = "not" /\ Len(keys) # 1 THEN Reply(s, Err("single source"))
        ELSE IF bad # {} THEN Reply(LookedUp(s, SubSeq(keys, 1, firstBad)), Err("wrongtype"))
        ELSE Reply(Dirty(s2, 1), Num(maxlen))

bitcountCommand(s, k, range) ==
    LET o == lookupKeyRead(s, k)
        b == stringOf(o)
        r == IF range = <<>> THEN <<0, Len(b) - 1>> ELSE clipRange(range[1], range[2], Len(b))
        none == range # <<>> /\ range[1] < 0 /\ range[2] < 0 /\ range[1] > range[2]
    IN  Reply(expireIfNeeded(s, k),
              IF o = NULL THEN Num(0)
              ELSE IF WrongType(o, "string") THEN Err("wrongtype")
              ELSE IF none \/ r[1] > r[2] THEN Num(0)
              ELSE Num(redisPopcount(SubSeq(b, r[1] + 1, r[2] + 1))))

\* BITPOS: with an end given, a zero outside the range is not reported.
bitposCommand(s, k, bit, range) ==
    LET o == lookupKeyRead(s, k)
        b == stringOf(o)
        r == CASE range = <<>> -> <<0, Len(b) - 1>>
               [] Len(range) = 1 -> clipRange(range[1], Len(b) - 1, Len(b))
               [] OTHER -> clipRange(range[1], range[2], Len(b))
        part == SubSeq(b, r[1] + 1, r[2] + 1)
        pos == redisBitpos(part, bit)
    IN  IF bit \notin {0, 1} THEN Reply(s, Err("bit"))
        ELSE Reply(expireIfNeeded(s, k),
              IF o = NULL THEN Num(IF bit = 1 THEN -1 ELSE 0)
              ELSE IF WrongType(o, "string") THEN Err("wrongtype")
              ELSE IF r[1] > r[2] THEN Num(-1)
              ELSE IF Len(range) = 2 /\ bit = 0 /\ pos = 8 * Len(part) THEN Num(-1)
              ELSE Num(IF pos = -1 THEN -1 ELSE pos + 8 * r[1]))

\* One operation of BITFIELD on the string b, where the field holds old:
\* <<the new string, its reply>>.
bitfieldOp(b, op, old) ==
    LET base == IF op.opcode = "incrby" THEN old ELSE op.i64
        incr == IF op.opcode = "incrby" THEN op.i64 ELSE 0
        run(chk) == IF op.opcode = "get" THEN <<b, Num(old)>>
                    ELSE IF chk.over # 0 /\ op.owtype = "fail" THEN <<b, Nil>>
                    ELSE <<setUnsignedBitfield(b, op.offset, op.bits, chk.limit),
                           Num(IF op.opcode = "incrby" THEN chk.limit ELSE old)>>
    IN  run(IF op.sign THEN checkSignedBitfieldOverflow(base, incr, op.bits, op.owtype)
            ELSE checkUnsignedBitfieldOverflow(base, incr, op.bits, op.owtype))

\* The operations of a BITFIELD, in order: <<the new string, the replies>>.
bitfieldOps(b, ops) ==
    LET old(x, op) == IF op.sign THEN getSignedBitfield(x, op.offset, op.bits)
                      ELSE getUnsignedBitfield(x, op.offset, op.bits)
        add(acc, x) == <<x[1], Append(acc[2], x[2])>>
    IN  FoldLeft(LAMBDA acc, op : add(acc, bitfieldOp(acc[1], op, old(acc[1], op))), <<b, <<>>>>, ops)

\* BITFIELD on the string grown for the highest operation that writes; each of
\* those counts as a change.
bitfieldCommand(s, k, ops) ==
    LET writes == {i \in DOMAIN ops : ops[i].opcode # "get"}
        last(i) == ops[i].offset + ops[i].bits - 1
        highest == CHOOSE h \in {last(i) : i \in writes} : \A i \in writes : last(i) <= h
        store(t, res) == Reply(Dirty(signalModifiedKey(dbOverwrite(t, k, Str(res[1])), k), Cardinality(writes)),
                               Multi(res[2]))
        write(r) == IF r[2] = NULL THEN r[1] ELSE store(r[1], bitfieldOps(r[2].string, ops))
        read(o) == Reply(expireIfNeeded(s, k), IF WrongType(o, "string") THEN Err("wrongtype")
                                               ELSE Multi(bitfieldOps(stringOf(o), ops)[2]))
    IN  IF \E i \in DOMAIN ops : ~bitOffsetFits(ops[i].offset) THEN Reply(s, Err("bit offset"))
        ELSE IF writes = {} THEN read(lookupKeyRead(s, k))
        ELSE write(lookupStringForBitCommand(s, k, highest))
=============================================================================
