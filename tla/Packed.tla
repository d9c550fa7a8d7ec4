------------------------------- MODULE Packed -------------------------------
(***************************************************************************)
(* The containers that are one block of memory: ziplists, listpacks, sets  *)
(* of integers, dynamic strings and compressed strings.                    *)
(***************************************************************************)
EXTENDS Container

CONSTANTS
    ZipBody,          \* bytes of the encoding and the contents of a value
    ZIP_BIG_PREVLEN,  \* lengths from here on take 5 bytes (254 in the code)
    ZipCountMax,      \* the count that means "count them" (UINT16_MAX)
    LpElement,             \* what is stored: [int |-> i] or [str |-> length]
    LP_HDR_NUMELE_UNKNOWN, \* the count that means "count them" (65535 in the code)
    IntBits,     \* the bits of the three encodings (16, 32, 64 in the code)
    IntElement,  \* the integers
    SdsBits,           \* bits of the length in each type of header (5, 8, 16, 32)
    SDS_MAX_PREALLOC,  \* lengths from here on are not doubled
    SdsPiece,          \* strings to append or copy
    SdsMax,            \* bound on the length of a dynamic string
    LzfByte,           \* the bytes of compressed strings
    LzfSlot,           \* the slot of the hash table of three bytes
    LzfGarbage,        \* what the slots hold before anything was stored in them
    MAX_LIT,           \* 32 in the code
    MAX_OFF,           \* 8192 in the code
    MAX_REF,           \* 264 in the code
    LzfShort,          \* lengths from here on take a byte more (7 in the code)
    LzfMax             \* bound on the length of a compressed string

(***************************************************************************)
(* ziplist.c: a list in one block of memory. Each entry starts with the    *)
(* length of the one before it, in 1 byte or, from ZIP_BIG_PREVLEN on, in 5;*)
(* an entry that grows may make the next one grow, and so on. The header   *)
(* holds the offset of the last entry and a count that saturates.          *)
(*                                                                         *)
(* An entry is [v, pl, pls]: its value, the length of the previous entry   *)
(* and the bytes that length takes; the value takes ZipBody[v] bytes with  *)
(* its encoding. Offsets are in bytes, as in the code.                     *)
(***************************************************************************)

ZIPLIST_HEADER_SIZE == 10

ziplistNew == [e |-> <<>>, tail |-> ZIPLIST_HEADER_SIZE, bytes |-> ZIPLIST_HEADER_SIZE + 1, count |-> 0]

zipStorePrevEntryLength(len) == IF len < ZIP_BIG_PREVLEN THEN 1 ELSE 5
zipRawEntryLength(e) == e.pls + ZipBody[e.v]

(* The bytes of entries i to j, and where entry i starts. *)
Bytes(es, i, j) == FoldLeft(LAMBDA n, e : n + zipRawEntryLength(e), 0, SubSeq(es, i, j))
Offset(es, i) == ZIPLIST_HEADER_SIZE + Bytes(es, 1, i - 1)

(* The entry that starts at an offset; 0 when none does. *)
EntryAt(es, off) ==
    LET at == {i \in DOMAIN es : Offset(es, i) = off}
    IN IF at = {} THEN 0 ELSE Min(at)

ZIPLIST_INCR_LENGTH(n, by) == IF n < ZipCountMax THEN n + by ELSE n

(* Entry p changed its length: the next one records it, and grows when it must;
   it never shrinks. *)
RECURSIVE __ziplistCascadeUpdate(_, _)
__ziplistCascadeUpdate(z, p) ==
    LET raw == zipRawEntryLength(z.e[p])
        size == zipStorePrevEntryLength(raw)
        next == z.e[p + 1]
    IN IF p = Len(z.e) \/ next.pl = raw THEN z
       ELSE IF next.pls < size
       THEN __ziplistCascadeUpdate(
                [z EXCEPT !.e[p + 1].pl = raw, !.e[p + 1].pls = size,
                          !.bytes = @ + size - next.pls,
                          !.tail = IF Offset(z.e, p + 1) # @ THEN @ + size - next.pls ELSE @],
                p + 1)
       ELSE [z EXCEPT !.e[p + 1].pl = raw]

Cascade(z, p) == IF Len(z.e) = 0 THEN z ELSE __ziplistCascadeUpdate(z, p)

(* Entry i, which is now after one of len bytes; it keeps the large form when
   the small one would not leave room for what is inserted (force). *)
Follow(e, len, force) ==
    [e EXCEPT !.pl = len, !.pls = IF force THEN 5 ELSE zipStorePrevEntryLength(len)]

(* The insertion of an entry of req bytes before entry i of z (or at the end),
   the entry before it being pl bytes long; diff is what the next one grows. *)
InsertEntryAt(z, i, v, pl, req, diff, force) ==
    LET n == Len(z.e)
        new == [v |-> v, pl |-> pl, pls |-> zipStorePrevEntryLength(pl)]
        after == IF i <= n THEN <<Follow(z.e[i], req, force)>> \o SubSeq(z.e, i + 1, n) ELSE <<>>
        y == [e |-> SubSeq(z.e, 1, i - 1) \o <<new>> \o after,
              tail |-> IF i <= n THEN z.tail + req + (IF i < n THEN diff ELSE 0) ELSE Offset(z.e, i),
              bytes |-> z.bytes + req + diff,
              count |-> ZIPLIST_INCR_LENGTH(z.count, 1)]
    IN IF diff # 0 THEN Cascade(y, i + 1) ELSE y

(* The length of the entry before position i; for a new last entry it is that of
   the one at the tail offset. *)
PrevLen(z, i) ==
    IF i <= Len(z.e) THEN z.e[i].pl
    ELSE IF EntryAt(z.e, z.tail) # 0 THEN zipRawEntryLength(z.e[EntryAt(z.e, z.tail)]) ELSE 0

NextDiff(z, i, req) == IF i <= Len(z.e) THEN zipStorePrevEntryLength(req) - z.e[i].pls ELSE 0

InsertSized(z, i, v, pl, req) ==
    LET force == NextDiff(z, i, req) = -4 /\ req < 4
    IN InsertEntryAt(z, i, v, pl, req, IF force THEN 0 ELSE NextDiff(z, i, req), force)

__ziplistInsert(z, i, v) ==
    InsertSized(z, i, v, PrevLen(z, i), ZipBody[v] + zipStorePrevEntryLength(PrevLen(z, i)))

(* num entries from i on; the one after them now follows the one before i. *)
__ziplistDelete(z, i, num) ==
    LET n == Len(z.e)
        j == Min({i + num, n + 1})
        tot == Bytes(z.e, i, j - 1)
        pl == z.e[i].pl
        diff == IF j <= n THEN zipStorePrevEntryLength(pl) - z.e[j].pls ELSE 0
        rest == IF j <= n THEN <<Follow(z.e[j], pl, FALSE)>> \o SubSeq(z.e, j + 1, n) ELSE <<>>
        y == [e |-> SubSeq(z.e, 1, i - 1) \o rest,
              tail |-> IF j <= n THEN z.tail - tot + (IF j < n THEN diff ELSE 0)
                       ELSE Offset(z.e, i) - pl,
              bytes |-> z.bytes - tot + diff,
              count |-> ZIPLIST_INCR_LENGTH(z.count, i - j)]
    IN IF diff # 0 THEN Cascade(y, i) ELSE y

(* The larger list is extended; both hold something. *)
ziplistMerge(z, y) ==
    Cascade([e |-> z.e \o y.e,
             tail |-> (z.bytes - 1) + (y.tail - ZIPLIST_HEADER_SIZE),
             bytes |-> z.bytes + y.bytes - ZIPLIST_HEADER_SIZE - 1,
             count |-> Min({z.count + y.count, ZipCountMax})],
            EntryAt(z.e, z.tail))

(* A list of the values vs, pushed one by one. *)
ziplistPush(vs) == FoldLeft(LAMBDA z, v : __ziplistInsert(z, Len(z.e) + 1, v), ziplistNew, vs)

(* ziplistLen also stores the count when it was lost and fits again. *)
ziplistLen(z) ==
    IF z.count < ZipCountMax \/ Len(z.e) >= ZipCountMax THEN z ELSE [z EXCEPT !.count = Len(z.e)]

(* ziplistIndex and ziplistPrev walk back from the tail offset: the offsets they
   visit. *)
RECURSIVE Backwards(_, _)
Backwards(z, off) ==
    LET i == EntryAt(z.e, off)
    IN IF i = 0 THEN <<>>
       ELSE IF z.e[i].pl = 0 THEN <<i>> ELSE <<i>> \o Backwards(z, off - z.e[i].pl)

Values(es) == [i \in DOMAIN es |-> es[i].v]
ZipVal(z) == Values(z.e)
-----------------------------------------------------------------------------
ZipInsert(i, v) ==
    /\ Len(c.e) < MaxLen /\ i <= Len(c.e) + 1
    /\ Step("ziplist", __ziplistInsert(c, i, v), [type |-> "insert", at |-> i, val |-> v])

ZipDelete(i, num) ==
    /\ i <= Len(c.e)
    /\ Step("ziplist", __ziplistDelete(c, i, num),
            [type |-> "delete", at |-> i, count |-> Min({num, Len(c.e) - i + 1})])

ZipMerge(vs) ==
    /\ c.e # <<>> /\ Len(c.e) + Len(vs) <= MaxLen
    /\ Step("ziplist", ziplistMerge(c, ziplistPush(vs)), [type |-> "append", all |-> vs])

ZipLen == ziplistLen(c) # c /\ Step("ziplist", ziplistLen(c), Internal)

ZiplistNext ==
    /\ \/ \E i \in 1..MaxLen, v \in DOMAIN ZipBody : ZipInsert(i, v)
       \/ \E i \in 1..MaxLen, num \in {1, 2} : ZipDelete(i, num)
       \/ \E v, w \in DOMAIN ZipBody : ZipMerge(<<v, w>>)
       \/ ZipLen
    /\ UNCHANGED walk
-----------------------------------------------------------------------------
(* The lengths recorded agree with the entries: each entry knows the length of
   the one before it in enough bytes, the header knows where the last one starts,
   how many bytes there are and, unless it is saturated, how many entries. *)
ZiplistIsSound ==
    /\ \A i \in DOMAIN c.e :
        /\ c.e[i].pl = IF i = 1 THEN 0 ELSE zipRawEntryLength(c.e[i - 1])
        /\ c.e[i].pls >= zipStorePrevEntryLength(c.e[i].pl)
    /\ c.tail = IF c.e = <<>> THEN ZIPLIST_HEADER_SIZE ELSE Offset(c.e, Len(c.e))
    /\ c.bytes = ZIPLIST_HEADER_SIZE + Bytes(c.e, 1, Len(c.e)) + 1
    /\ c.count < ZipCountMax => c.count = Len(c.e)

(* Walking back visits the entries in the reverse order. *)
ZiplistLookupsAgree == Backwards(c, c.tail) = Reverse([i \in DOMAIN c.e |-> i])
-----------------------------------------------------------------------------
(***************************************************************************)
(* listpack.c: a list in one block of memory. Each entry is followed by its*)
(* own length, so that entries never change when others do; integers and   *)
(* short strings have encodings of several sizes. An entry is [enc, n, len,*)
(* back]: the encoding, the integer as stored or the length of the string, *)
(* the bytes of the encoding and the length recorded after it.             *)
(***************************************************************************)

LP_HDR_SIZE == 6

lpNew == [e |-> <<>>, bytes |-> LP_HDR_SIZE + 1, num |-> 0]

(* The integer encodings: bits, bytes. *)
IntEncodings == <<[enc |-> "13bit", bits |-> 13, len |-> 2], [enc |-> "16bit", bits |-> 16, len |-> 3],
                  [enc |-> "24bit", bits |-> 24, len |-> 4]>>

Fits(v, bits) == -(2^(bits - 1)) <= v /\ v < 2^(bits - 1)

(* Negative numbers are stored in two's complement. *)
EncodeInt(v) ==
    IF v \in 0..127 THEN [enc |-> "7bit", n |-> v, len |-> 1]
    ELSE LET k == IntEncodings[Min({i \in DOMAIN IntEncodings : Fits(v, IntEncodings[i].bits)})]
         IN [enc |-> k.enc, n |-> IF v < 0 THEN v + 2^k.bits ELSE v, len |-> k.len]

lpEncodeString(len) ==
    IF len < 64 THEN [enc |-> "6bitstr", n |-> len, len |-> 1 + len]
    ELSE IF len < 4096 THEN [enc |-> "12bitstr", n |-> len, len |-> 2 + len]
    ELSE [enc |-> "32bitstr", n |-> len, len |-> 5 + len]

lpEncodeGetType(ele) ==
    IF "int" \in DOMAIN ele THEN EncodeInt(ele.int) ELSE lpEncodeString(ele.str)

(* The element of an entry: from negstart on the stored number stands for a
   negative one. *)
lpGet(e) ==
    LET k == {i \in DOMAIN IntEncodings : IntEncodings[i].enc = e.enc}
        bits == IntEncodings[Min(k)].bits
    IN IF e.enc \in {"6bitstr", "12bitstr", "32bitstr"} THEN [str |-> e.n]
       ELSE IF e.enc = "7bit" \/ e.n < 2^(bits - 1) THEN [int |-> e.n]
       ELSE [int |-> -((2^bits - 1) - e.n) - 1]

(* The bytes that a recorded length takes. *)
lpEncodeBacklen(len) == IF len <= 127 THEN 1 ELSE IF len < 16383 THEN 2 ELSE 3

lpSkip(e) == e.len + lpEncodeBacklen(e.len)

LpBytes(es) == FoldLeft(LAMBDA n, e : n + lpSkip(e), 0, es)
LpOffset(es, i) == LP_HDR_SIZE + LpBytes(SubSeq(es, 1, i - 1))

LpEntry(ele) ==
    LET k == lpEncodeGetType(ele) IN [enc |-> k.enc, n |-> k.n, len |-> k.len, back |-> k.len]

(* The count after an insertion (by 1) or a deletion (by -1): it stays unknown. *)
lpSetNumElements(n, by) == IF n = LP_HDR_NUMELE_UNKNOWN THEN n ELSE n + by

(* lpInsert with LP_BEFORE (LP_AFTER skips an entry first), LP_REPLACE, and
   LP_REPLACE by nothing, which deletes. *)
lpInsertBefore(l, i, ele) ==
    [e |-> InsertAt(l.e, i, LpEntry(ele)), bytes |-> l.bytes + lpSkip(LpEntry(ele)),
     num |-> lpSetNumElements(l.num, 1)]

lpReplace(l, i, ele) ==
    [l EXCEPT !.e[i] = LpEntry(ele), !.bytes = @ + lpSkip(LpEntry(ele)) - lpSkip(l.e[i])]

lpDelete(l, i) ==
    [e |-> RemoveAt(l.e, i), bytes |-> l.bytes - lpSkip(l.e[i]), num |-> lpSetNumElements(l.num, -1)]

lpLength(l) ==
    IF l.num = LP_HDR_NUMELE_UNKNOWN /\ Len(l.e) < LP_HDR_NUMELE_UNKNOWN
    THEN [l EXCEPT !.num = Len(l.e)] ELSE l

(* The entry before the one at an offset, found with the length recorded before
   it; 0 at the head. *)
LpEntryAt(l, off) ==
    LET at == {i \in DOMAIN l.e : LpOffset(l.e, i) = off}
    IN IF at = {} THEN 0 ELSE Min(at)

lpPrev(l, off, i) ==
    IF off = LP_HDR_SIZE THEN 0
    ELSE LpEntryAt(l, off - (l.e[i - 1].back + lpEncodeBacklen(l.e[i - 1].back)))

(* The entries from the end marker back. *)
RECURSIVE LpBackwards(_, _, _)
LpBackwards(l, off, i) ==
    LET j == lpPrev(l, off, i)
    IN IF j = 0 THEN <<>> ELSE <<j>> \o LpBackwards(l, LpOffset(l.e, j), j)

(* The entry at an index, negative ones from the end; 0 for none. The way it is
   walked depends on the count, when that is known. *)
lpSeek(l, index) ==
    LET known == l.num # LP_HDR_NUMELE_UNKNOWN
        i == IF known /\ index < 0 THEN l.num + index ELSE index
        back == LpBackwards(l, l.bytes - 1, Len(l.e) + 1)
        j == IF known THEN i - l.num ELSE i
    IN IF known /\ (i < 0 \/ i >= l.num) THEN 0
       ELSE IF IF known THEN i > l.num \div 2 ELSE index < 0
       THEN (IF -j \in DOMAIN back THEN back[-j] ELSE 0)
       ELSE (IF i + 1 \in DOMAIN l.e THEN i + 1 ELSE 0)

LpVal(l) == [i \in DOMAIN l.e |-> lpGet(l.e[i])]
-----------------------------------------------------------------------------
LpInsert(i, ele) ==
    /\ Len(c.e) < MaxLen /\ i <= Len(c.e) + 1
    /\ Step("listpack", lpInsertBefore(c, i, ele), [type |-> "insert", at |-> i, val |-> ele])

LpReplace(i, ele) ==
    /\ i <= Len(c.e)
    /\ Step("listpack", lpReplace(c, i, ele), [type |-> "replace", at |-> i, val |-> ele])

LpDelete(i) ==
    /\ i <= Len(c.e)
    /\ Step("listpack", lpDelete(c, i), [type |-> "delete", at |-> i, count |-> 1])

LpLength == lpLength(c) # c /\ Step("listpack", lpLength(c), Internal)

ListpackNext ==
    /\ \/ \E i \in 1..MaxLen, ele \in LpElement : LpInsert(i, ele)
       \/ \E i \in 1..MaxLen, ele \in LpElement : LpReplace(i, ele)
       \/ \E i \in 1..MaxLen : LpDelete(i)
       \/ LpLength
    /\ UNCHANGED walk
-----------------------------------------------------------------------------
(* The header knows the bytes and, unless it gave up, the number of entries. *)
ListpackIsSound ==
    /\ c.bytes = LP_HDR_SIZE + LpBytes(c.e) + 1
    /\ \A i \in DOMAIN c.e : c.e[i].back = c.e[i].len
    /\ c.num # LP_HDR_NUMELE_UNKNOWN => c.num = Len(c.e)

(* lpSeek finds every entry by its index from both ends, and nothing else. *)
ListpackLookupsAgree ==
    \A i \in 0..MaxLen :
        /\ lpSeek(c, i) = IF i < Len(c.e) THEN i + 1 ELSE 0
        /\ lpSeek(c, -i - 1) = IF i < Len(c.e) THEN Len(c.e) - i ELSE 0
-----------------------------------------------------------------------------
(***************************************************************************)
(* intset.c: a sorted array of integers, all of the width the widest one   *)
(* needed when it came. It is widened once and never narrowed.             *)
(***************************************************************************)

intsetNew == [enc |-> 1, s |-> <<>>]

InWidth(v, e) == -(2^(IntBits[e] - 1)) <= v /\ v < 2^(IntBits[e] - 1)

_intsetValueEncoding(v) == Min({e \in DOMAIN IntBits : InWidth(v, e)})

(* What a cell of encoding e holds after v was stored in it. *)
_intsetSet(v, e) ==
    LET n == 2^IntBits[e] IN ((v + n \div 2) % n) - n \div 2

(* The position (from 0) of v between min and max, or where it belongs. *)
RECURSIVE BinarySearch(_, _, _, _)
BinarySearch(s, v, min, max) ==
    LET mid == (min + max) \div 2
    IN IF max < min THEN min
       ELSE IF v > s[mid + 1] THEN BinarySearch(s, v, mid + 1, max)
       ELSE IF v < s[mid + 1] THEN BinarySearch(s, v, min, mid - 1)
       ELSE mid

intsetPos(is, v) ==
    IF is.s = <<>> THEN 0
    ELSE IF v > Last(is.s) THEN Len(is.s)
    ELSE IF v < is.s[1] THEN 0
    ELSE BinarySearch(is.s, v, 0, Len(is.s) - 1)

intsetSearch(is, v) == intsetPos(is, v) < Len(is.s) /\ is.s[intsetPos(is, v) + 1] = v

(* The integer is out of the range of all the others: it is first or last. *)
intsetUpgradeAndAdd(is, v) ==
    LET e == _intsetValueEncoding(v)
        s == [i \in DOMAIN is.s |-> _intsetSet(is.s[i], e)]
    IN [enc |-> e, s |-> IF v < 0 THEN <<_intsetSet(v, e)>> \o s ELSE Append(s, _intsetSet(v, e))]

intsetAdd(is, v) ==
    IF _intsetValueEncoding(v) > is.enc THEN intsetUpgradeAndAdd(is, v)
    ELSE IF intsetSearch(is, v) THEN is
    ELSE [is EXCEPT !.s = InsertAt(@, intsetPos(is, v) + 1, _intsetSet(v, is.enc))]

intsetFind(is, v) == _intsetValueEncoding(v) <= is.enc /\ intsetSearch(is, v)

intsetRemove(is, v) ==
    IF intsetFind(is, v) THEN [is EXCEPT !.s = RemoveAt(@, intsetPos(is, v) + 1)] ELSE is

IntVal(is) == [v \in ToSet(is.s) |-> 0]
-----------------------------------------------------------------------------
IntAdd(v) ==
    Step("intset", intsetAdd(c, v), [type |-> "put", key |-> v, val |-> 0, found |-> intsetAdd(c, v) = c])

IntRemove(v) ==
    Step("intset", intsetRemove(c, v), [type |-> "remove", key |-> v, found |-> intsetRemove(c, v) # c])

IntsetNext ==
    /\ \/ \E v \in IntElement : IntAdd(v)
       \/ \E v \in IntElement : IntRemove(v)
    /\ UNCHANGED walk
-----------------------------------------------------------------------------
(* Sorted without duplicates, and every integer fits the encoding. *)
IntsetIsSound ==
    /\ \A i, j \in DOMAIN c.s : i < j => c.s[i] < c.s[j]
    /\ \A i \in DOMAIN c.s : InWidth(c.s[i], c.enc)

IntsetLookupsAgree == \A v \in IntElement : intsetFind(c, v) <=> v \in ToSet(c.s)
-----------------------------------------------------------------------------
(***************************************************************************)
(* sds.c: a string is [type, len, alloc, room, b]: the header, whose fields*)
(* are as wide as its type allows, the bytes that were really allocated,   *)
(* and the bytes written before the terminator. The smallest type has no   *)
(* alloc field.                                                            *)
(***************************************************************************)

sdsReqType(n) == Min({t \in DOMAIN SdsBits : n < 2^SdsBits[t]} \cup {Len(SdsBits)})

sdsnewlen(b) ==
    LET t == IF b = <<>> THEN 2 ELSE sdsReqType(Len(b))
    IN [type |-> t, len |-> Len(b), alloc |-> IF t = 1 THEN 0 ELSE Len(b), room |-> Len(b), b |-> b]

sdsalloc(s) == IF s.type = 1 THEN s.len ELSE s.alloc
sdsavail(s) == IF s.type = 1 THEN 0 ELSE s.alloc - s.len
sdssetlen(s, n) == [s EXCEPT !.len = n % 2^SdsBits[s.type]]
sdssetalloc(s, n) == IF s.type = 1 THEN s ELSE [s EXCEPT !.alloc = n % 2^SdsBits[s.type]]

(* The header of type t in front of n bytes of room. *)
Moved(s, t, n) ==
    IF s.type = t THEN [s EXCEPT !.room = n]
    ELSE sdssetlen([s EXCEPT !.type = t, !.room = n], s.len)

sdsMakeRoomFor(s, addlen) ==
    LET want   == s.len + addlen
        newlen == IF want < SDS_MAX_PREALLOC THEN 2 * want ELSE want + SDS_MAX_PREALLOC
        type   == IF sdsReqType(newlen) = 1 THEN 2 ELSE sdsReqType(newlen)
    IN IF sdsavail(s) >= addlen THEN s ELSE sdssetalloc(Moved(s, type, newlen), newlen)

sdsRemoveFreeSpace(s) ==
    LET type == sdsReqType(s.len)
    IN IF sdsavail(s) = 0 THEN s
       ELSE sdssetalloc(Moved(s, IF type > 2 THEN s.type ELSE type, s.len), s.len)

(* The string now is b. *)
Holds(s, b) == sdssetlen([s EXCEPT !.b = b], Len(b))

sdscatlen(s, t) == Holds(sdsMakeRoomFor(s, Len(t)), s.b \o t)

sdscpylen(s, t) == Holds(IF sdsalloc(s) < Len(t) THEN sdsMakeRoomFor(s, Len(t) - s.len) ELSE s, t)

(* The caller asked for room, wrote t there and adds its length. *)
sdsIncrLen(s, t) == [s EXCEPT !.len = @ + Len(t), !.b = @ \o t]

sdsrange(s, start, end) ==
    LET from == IF start >= 0 THEN start ELSE IF s.len + start < 0 THEN 0 ELSE s.len + start
        to   == IF end >= 0 THEN end ELSE IF s.len + end < 0 THEN 0 ELSE s.len + end
    IN IF s.len = 0 THEN s
       ELSE IF from > to \/ from >= s.len THEN Holds(s, <<>>)
       ELSE Holds(s, SubSeq(s.b, from + 1, IF to >= s.len THEN s.len ELSE to + 1))

(* The first byte that stays, and the last one, not looked for below it. *)
sdstrim(s, cset) ==
    LET sp == Min({i \in 1..s.len : s.b[i] \notin cset} \cup {s.len + 1})
        ep == Max({i \in sp..s.len : i = sp \/ s.b[i] \notin cset} \cup {0})
    IN Holds(s, IF sp > ep THEN <<>> ELSE SubSeq(s.b, sp, ep))

sdscmp(s, t) ==
    LET n == IF Len(s) < Len(t) THEN Len(s) ELSE Len(t)
        differ == {i \in 1..n : s[i] # t[i]}
    IN IF differ # {} THEN s[Min(differ)] - t[Min(differ)] ELSE Len(s) - Len(t)

(* The tokens from position start on; j looks for the separator. *)
RECURSIVE SplitFrom(_, _, _, _)
SplitFrom(s, sep, start, j) ==
    IF j > Len(s) - Len(sep) + 1 THEN <<SubSeq(s, start, Len(s))>>
    ELSE IF SubSeq(s, j, j + Len(sep) - 1) = sep
    THEN <<SubSeq(s, start, j - 1)>> \o SplitFrom(s, sep, j + Len(sep), j + Len(sep))
    ELSE SplitFrom(s, sep, start, j + 1)

sdssplitlen(s, sep) == IF s = <<>> THEN <<>> ELSE SplitFrom(s, sep, 1, 1)

SdsCat(t) ==
    /\ c.len + Len(t) <= SdsMax
    /\ Step("sds", sdscatlen(c, t), [type |-> "append", all |-> t])

SdsRead(n, t) ==
    /\ c.len + n <= SdsMax /\ Len(t) <= n
    /\ Step("sds", sdsIncrLen(sdsMakeRoomFor(c, n), t), [type |-> "append", all |-> t])

SdsCpy(t) == Step("sds", sdscpylen(c, t), [type |-> "load", all |-> t])

SdsNew(t) == Step("sds", sdsnewlen(t), [type |-> "load", all |-> t])

SdsRange(i, j) == Step("sds", sdsrange(c, i, j), [type |-> "slice", first |-> i, last |-> j])

SdsTrim(x) == Step("sds", sdstrim(c, {x}), [type |-> "strip", val |-> x])

sdsclear == Step("sds", sdssetlen([c EXCEPT !.b = <<>>], 0), [type |-> "clear"])

SdsShrink == Step("sds", sdsRemoveFreeSpace(c), Internal)

SdsNext ==
    /\ \/ \E t \in SdsPiece : SdsCat(t)
       \/ \E n \in 1..2, t \in SdsPiece : SdsRead(n, t)
       \/ \E t \in SdsPiece : SdsCpy(t)
       \/ \E t \in SdsPiece : SdsNew(t)
       \/ \E i, j \in {-2, -1, 0, 1, 3} : SdsRange(i, j)
       \/ \E x \in {1, 2} : SdsTrim(x)
       \/ sdsclear
       \/ SdsShrink
    /\ UNCHANGED walk

(* The header tells the length of the string, and neither the string nor the
   space it promises to appends goes beyond the memory there is. *)
SdsIsSound == c.len = Len(c.b) /\ c.len <= sdsalloc(c) /\ sdsalloc(c) <= c.room

(* Comparison is a total order, and the tokens of a split, with the separators
   between them, are the string. *)
SdsLookupsAgree ==
    /\ \A t \in SdsPiece : /\ sdscmp(c.b, t) = 0 <=> c.b = t
                           /\ sdscmp(c.b, t) > 0 <=> sdscmp(t, c.b) < 0
    /\ \A sep \in SdsPiece \ {<<>>} :
         LET q == sdssplitlen(c.b, sep)
         IN /\ FoldLeft(LAMBDA x, t : IF x = <<>> THEN <<t>> ELSE <<x[1] \o sep \o t>>, <<>>, q)
               = IF c.b = <<>> THEN <<>> ELSE <<c.b>>
            /\ \A i \in DOMAIN q, j \in 1..SdsMax :
                 j + Len(sep) - 1 <= Len(q[i]) => SubSeq(q[i], j, j + Len(sep) - 1) # sep
-----------------------------------------------------------------------------
(***************************************************************************)
(* lzf_c.c, lzf_d.c: a string as runs of literal bytes and references to   *)
(* bytes before. The hash table that finds what to refer to is not         *)
(* initialised: its slots hold anything. A compressed string is the list of*)
(* its instructions; one that does not get smaller stays raw.              *)
(***************************************************************************)

Lit(q) == [t |-> "lit", bytes |-> q, len |-> Len(q), off |-> 0]
Ref(len, off) == [t |-> "ref", bytes |-> <<>>, len |-> len, off |-> off]

(* The bytes an instruction takes. *)
InstructionBytes(x) == IF x.t = "lit" THEN 1 + x.len ELSE IF x.len < LzfShort THEN 2 ELSE 3
LzfBytes(q) == FoldLeft(LAMBDA n, x : n + InstructionBytes(x), 0, q)

(* The state of the compressor: position, instructions, bytes of the open run,
   the hash table, and whether the output is full. op is where it writes. *)
LzfOp(w) == LzfBytes(w.out) + 1 + Len(w.lit)
StopRun(w) == IF w.lit = <<>> THEN w ELSE [w EXCEPT !.out = Append(@, Lit(w.lit)), !.lit = <<>>]

(* Three bytes from position p on. *)
Three(s, p) == SubSeq(s, p + 1, p + 3)

Literal(w, x) ==
    LET v == [w EXCEPT !.lit = Append(@, x), !.ip = @ + 1]
    IN IF Len(v.lit) = MAX_LIT THEN StopRun(v) ELSE v

IsMatch(s, ip, ref) ==
    ref < ip /\ ip - ref - 1 < MAX_OFF /\ ref > 0 /\ Three(s, ref) = Three(s, ip)

MatchLen(s, ip, ref) ==
    LET left   == Len(s) - ip - 2
        maxlen == IF left > MAX_REF THEN MAX_REF ELSE left
    IN Min({n \in 3..(Len(s) - ip) : n >= maxlen \/ s[ref + n + 1] # s[ip + n + 1]})

(* The reference is written, and the two positions before the next one are put
   in the hash table. *)
Match(s, w, ref) ==
    LET n == MatchLen(s, w.ip, ref)
        e == w.ip + n
        v == [StopRun(w) EXCEPT !.out = Append(@, Ref(n - 2, w.ip - ref - 1)), !.ip = e]
    IN IF e >= Len(s) - 2 THEN v
       ELSE [v EXCEPT !.tab = (LzfSlot[Three(s, e - 1)] :> e - 1) @@ (LzfSlot[Three(s, e - 2)] :> e - 2) @@ @]

RECURSIVE CompressLoop(_, _, _)
CompressLoop(s, w, out_len) ==
    IF w.full \/ w.ip >= Len(s) - 2 THEN w
    ELSE LET slot == LzfSlot[Three(s, w.ip)]
             ref  == w.tab[slot]
             v    == [w EXCEPT !.tab[slot] = w.ip]
         IN IF IsMatch(s, w.ip, ref)
            THEN IF LzfOp(w) - (IF w.lit = <<>> THEN 1 ELSE 0) + 4 >= out_len THEN [w EXCEPT !.full = TRUE]
                 ELSE CompressLoop(s, Match(s, v, ref), out_len)
            ELSE IF LzfOp(w) >= out_len THEN [w EXCEPT !.full = TRUE]
            ELSE CompressLoop(s, Literal(v, s[w.ip + 1]), out_len)

(* The last bytes are literals. No instructions: the string does not fit. *)
lzf_compress(s, out_len, garbage) ==
    LET w == CompressLoop(s, [ip |-> 0, out |-> <<>>, lit |-> <<>>, tab |-> garbage, full |-> FALSE], out_len)
        e == FoldLeft(Literal, w, SubSeq(s, w.ip + 1, Len(s)))
    IN IF s = <<>> \/ out_len <= 0 \/ w.full \/ LzfOp(w) + 3 > out_len THEN <<>> ELSE StopRun(e).out

(* A reference may reach into the bytes it writes. What the decompressor does with
   damaged input is left out: it gets what the compressor wrote. *)
CopyBack(q, x) == FoldLeft(LAMBDA r, i : Append(r, r[Len(r) - x.off]), q, [i \in 1..(x.len + 2) |-> i])

lzf_decompress(q) == FoldLeft(LAMBDA r, x : IF x.t = "lit" THEN r \o x.bytes ELSE CopyBack(r, x), <<>>, q)

LzfVal(z) == IF z.compressed THEN lzf_decompress(z.q) ELSE z.q

(* rdbSaveLzfStringObject: shorter by 4 bytes at least, scaled to 1. *)
Compressed(s, garbage) ==
    LET q == lzf_compress(s, Len(s) - 1, garbage)
    IN IF q = <<>> THEN [compressed |-> FALSE, q |-> s] ELSE [compressed |-> TRUE, q |-> q]

NoString == [compressed |-> FALSE, q |-> <<>>]

(* A string grows by a byte and is compressed again. *)
LzfGrow(x, g) ==
    /\ Len(LzfVal(c)) < LzfMax
    /\ Step("lzf", Compressed(Append(LzfVal(c), x), [slot \in Range(LzfSlot) |-> g]),
            [type |-> "append", all |-> <<x>>])

LzfForget == Step("lzf", NoString, [type |-> "clear"])

LzfNext ==
    /\ \/ \E x \in LzfByte, g \in LzfGarbage : LzfGrow(x, g)
       \/ LzfForget
    /\ UNCHANGED walk

(* What is stored is smaller than the string, and every instruction fits its
   bits and refers to bytes that are there. *)
LzfIsSound ==
    c.compressed =>
        /\ LzfBytes(c.q) < Len(LzfVal(c))
        /\ \A i \in DOMAIN c.q :
             IF c.q[i].t = "lit" THEN c.q[i].len \in 1..MAX_LIT
             ELSE /\ c.q[i].off < MAX_OFF /\ c.q[i].len + 2 <= MAX_REF
                  /\ c.q[i].off < Len(lzf_decompress(SubSeq(c.q, 1, i - 1)))
=============================================================================
