---------------------------- MODULE Hyperloglog ----------------------------
(***************************************************************************)
(* hyperloglog.c: an array of registers, each the longest run seen in the  *)
(* hashes that chose it. The sparse form is a list of opcodes (ZERO, XZERO *)
(* and VAL runs), the dense one 6-bit registers packed in bytes. Both carry*)
(* a cached cardinality. The cardinality, a function of the histogram of   *)
(* the registers, is represented by that histogram.                        *)
(***************************************************************************)
EXTENDS Container

CONSTANTS
    HLL_REGISTERS,              \* 16384 in the code; a multiple of 4
    HLL_Q,                      \* 50 in the code
    HLL_SPARSE_VAL_MAX_VALUE,   \* 32 in the code
    HLL_SPARSE_VAL_MAX_LEN,     \* 4 in the code
    HLL_SPARSE_ZERO_MAX_LEN,    \* 64 in the code
    hll_sparse_max_bytes,
    HllHash,                    \* the hashes of the elements to add
    HllOthers                   \* what was added, in order, to the other keys

HLL_HDR_SIZE == 16

NoHll == [enc |-> "none"]
Regs == 0..(HLL_REGISTERS - 1)

(* A register histogram: how many registers hold each value but 0. *)
Histogram(r) == [v \in Range(r) \ {0} |-> Cardinality({i \in DOMAIN r : r[i] = v})]

(* The index of the register an element goes to, and the length of the run. *)
hllPatLen(hash) ==
    [index |-> hash % HLL_REGISTERS,
     count |-> Min({n \in 1..(HLL_Q + 1) :
                    (((hash \div HLL_REGISTERS) + 2^HLL_Q) \div 2^(n - 1)) % 2 = 1})]
-----------------------------------------------------------------------------
(* The dense form. A register spans at most two bytes; the byte after the last
   one is the terminator of the string. *)
RegByte(i) == (i * 6) \div 8 + 1
Word(b, i) == b[RegByte(i)] + 256 * b[RegByte(i) + 1]

DenseGet(b, i) == (Word(b, i) \div 2^((i * 6) % 8)) % 64

DenseSet(b, i, v) ==
    LET fb == (i * 6) % 8
        w  == Word(b, i)
        x  == (w % 2^fb) + v * 2^fb + (w \div 2^(fb + 6)) * 2^(fb + 6)
    IN SubSeq(b, 1, RegByte(i) - 1) \o <<x % 256, x \div 256>> \o SubSeq(b, RegByte(i) + 2, Len(b))

hllDenseSet(h, i, count) ==
    IF count > DenseGet(h.bytes, i) THEN [h EXCEPT !.bytes = DenseSet(@, i, count)] ELSE h

hllDenseAdd(h, p) == hllDenseSet(h, p.index, p.count)

(* The unrolled loop: four registers from three bytes. *)
hllDenseRegHisto(b) ==
    Histogram([i \in Regs |->
        LET k == 3 * (i \div 4) IN
        CASE i % 4 = 0 -> b[k + 1] % 64
          [] i % 4 = 1 -> (b[k + 1] \div 64 + b[k + 2] * 4) % 64
          [] i % 4 = 2 -> (b[k + 2] \div 16 + b[k + 3] * 16) % 64
          [] i % 4 = 3 -> (b[k + 3] \div 4) % 64])
-----------------------------------------------------------------------------
(* The sparse form. *)
Opcode(t, len, v) == [t |-> t, len |-> len, val |-> v]
Val(len, v) == Opcode("val", len, v)
Zeroes(len) == IF len = 0 THEN <<>>
               ELSE <<Opcode(IF len > HLL_SPARSE_ZERO_MAX_LEN THEN "xzero" ELSE "zero", len, 0)>>
Vals(len, v) == IF len = 0 THEN <<>> ELSE <<Val(len, v)>>

OpBytes(ops) == FoldLeft(LAMBDA n, x : n + (IF x.t = "xzero" THEN 2 ELSE 1), 0, ops)
Span(ops) == FoldLeft(LAMBDA n, x : n + x.len, 0, ops)

createHLLObject == [enc |-> "sparse", ops |-> <<Opcode("xzero", HLL_REGISTERS, 0)>>,
                    card |-> [valid |-> TRUE, histo |-> <<>>]]

(* The registers the opcodes stand for. *)
Registers(ops) ==
    LET runs == FoldLeft(LAMBDA s, x : s \o [j \in 1..x.len |-> x.val], <<>>, ops)
    IN [i \in Regs |-> runs[i + 1]]

hllSparseRegHisto(ops) ==
    [v \in {ops[j].val : j \in DOMAIN ops} \ {0} |->
        Span(SelectSeq(ops, LAMBDA x : x.val = v))]

hllSparseToDense(h) ==
    IF h.enc = "dense" THEN h
    ELSE FoldLeft(LAMBDA d, i : IF Registers(h.ops)[i] = 0 THEN d
                                ELSE [d EXCEPT !.bytes = DenseSet(@, i, Registers(h.ops)[i])],
                  [enc |-> "dense", card |-> h.card,
                   bytes |-> [j \in 1..((HLL_REGISTERS * 6) \div 8 + 1) |-> 0]],
                  [j \in 1..HLL_REGISTERS |-> j - 1])

(* Step 1: the opcode that covers the register. *)
FindOpcode(ops, index) ==
    Min({p \in DOMAIN ops : index <= Span(SubSeq(ops, 1, p)) - 1})

(* Step 2, general case: opcode x, whose first register is first, is split
   around the register. *)
SplitOpcode(x, first, index, count) ==
    LET before == index - first
        after  == first + x.len - 1 - index
    IN IF x.t = "val" THEN Vals(before, x.val) \o <<Val(1, count)>> \o Vals(after, x.val)
       ELSE Zeroes(before) \o <<Val(1, count)>> \o Zeroes(after)

MergeRuns(ops, p) ==
    SubSeq(ops, 1, p - 1) \o <<Val(ops[p].len + ops[p + 1].len, ops[p].val)>>
        \o SubSeq(ops, p + 2, Len(ops))

(* Step 4: at most scanlen opcodes from p on are looked at for runs to merge. *)
RECURSIVE MergeScan(_, _, _)
MergeScan(ops, p, scanlen) ==
    IF p > Len(ops) \/ scanlen = 0 THEN ops
    ELSE IF /\ ops[p].t = "val" /\ p + 1 <= Len(ops) /\ ops[p + 1].t = "val"
            /\ ops[p].val = ops[p + 1].val
            /\ ops[p].len + ops[p + 1].len <= HLL_SPARSE_VAL_MAX_LEN
         THEN MergeScan(MergeRuns(ops, p), p, scanlen - 1)
         ELSE MergeScan(ops, p + 1, scanlen - 1)

promote(h, index, count) == hllDenseSet(hllSparseToDense(h), index, count)

(* Step 3: the opcode at p is replaced by the sequence, unless that makes the
   string too long. *)
Substitute(h, p, seq, index, count) ==
    LET delta == OpBytes(seq) - OpBytes(<<h.ops[p]>>)
    IN IF delta > 0 /\ HLL_HDR_SIZE + OpBytes(h.ops) + delta > hll_sparse_max_bytes
       THEN promote(h, index, count)
       ELSE [h EXCEPT !.card.valid = FALSE,
                      !.ops = MergeScan(SubSeq(h.ops, 1, p - 1) \o seq \o SubSeq(h.ops, p + 1, Len(h.ops)),
                                        IF p > 1 THEN p - 1 ELSE 1, 5)]

SetAt(h, p, index, count) ==
    LET x == h.ops[p]
    IN IF x.t = "val" /\ x.val >= count THEN h
       ELSE Substitute(h, p,
                IF x.t # "xzero" /\ x.len = 1 THEN <<Val(1, count)>>
                ELSE SplitOpcode(x, Span(SubSeq(h.ops, 1, p - 1)), index, count), index, count)

hllSparseSet(h, index, count) ==
    IF count > HLL_SPARSE_VAL_MAX_VALUE THEN promote(h, index, count)
    ELSE SetAt(h, FindOpcode(h.ops, index), index, count)

hllSparseAdd(h, p) == hllSparseSet(h, p.index, p.count)

HllSet(h, index, count) ==
    IF h.enc = "dense" THEN hllDenseSet(h, index, count) ELSE hllSparseSet(h, index, count)

hllAdd(h, hash) ==
    LET p == hllPatLen(hash) IN IF h.enc = "dense" THEN hllDenseAdd(h, p) ELSE hllSparseAdd(h, p)
-----------------------------------------------------------------------------
RegistersOf(h) == CASE h.enc = "none"   -> [i \in Regs |-> 0]
                    [] h.enc = "sparse" -> Registers(h.ops)
                    [] h.enc = "dense"  -> [i \in Regs |-> DenseGet(h.bytes, i)]

hllCount(h) == IF h.enc = "dense" THEN hllDenseRegHisto(h.bytes) ELSE hllSparseRegHisto(h.ops)

hllMerge(max, h) ==
    LET r == RegistersOf(h) IN [i \in Regs |-> IF r[i] > max[i] THEN r[i] ELSE max[i]]

(* Registers that are not 0, for Collection. *)
NonZero(r) == Restrict(r, {i \in DOMAIN r : r[i] # 0})
HllVal(h) == NonZero(RegistersOf(h))

(* A key of the database other than the one in c. *)
Other(hashes) == FoldLeft(hllAdd, createHLLObject, hashes)

(* PFADD with one element. A new key counts as an update. *)
pfaddCommand(hash) ==
    \E old \in {IF c = NoHll THEN createHLLObject ELSE c} :
    \E new \in {hllAdd(old, hash)} :
        Step("hll", IF c = NoHll \/ new # old THEN [new EXCEPT !.card.valid = FALSE] ELSE new,
             [type |-> "raise", key |-> hllPatLen(hash).index, val |-> hllPatLen(hash).count,
              changed |-> new # old])

(* PFADD without an element creates the key. *)
PfaddNothing ==
    /\ c = NoHll
    /\ Step("hll", [createHLLObject EXCEPT !.card.valid = FALSE], Internal)

(* PFCOUNT of one key; the cache is filled. *)
pfcountCommand ==
    \E card \in {CASE c = NoHll -> [valid |-> FALSE, histo |-> <<>>]
                   [] c # NoHll /\ c.card.valid -> c.card
                   [] OTHER -> [valid |-> TRUE, histo |-> hllCount(c)]} :
        Step("hll", IF c = NoHll THEN c ELSE [c EXCEPT !.card = card],
             [type |-> "tally", with |-> <<>>, reply |-> card.histo])

(* PFCOUNT of two keys: the histogram of the registers in an array of bytes. *)
PfcountUnion(hashes) ==
    \E other \in {Other(hashes)} :
        Step("hll", c, [type |-> "tally", with |-> HllVal(other),
                        reply |-> Histogram(hllMerge(RegistersOf(c), other))])

(* PFMERGE of another key into this one. *)
pfmergeCommand(hashes) ==
    \E other \in {Other(hashes)} :
    \E max \in {hllMerge(RegistersOf(c), other)} :
        LET old   == IF c = NoHll THEN createHLLObject ELSE c
            start == IF "dense" \in {old.enc, other.enc} THEN hllSparseToDense(old) ELSE old
        IN Step("hll",
                [FoldLeft(LAMBDA h, i : IF max[i] = 0 THEN h ELSE HllSet(h, i, max[i]),
                          start, [j \in 1..HLL_REGISTERS |-> j - 1]) EXCEPT !.card.valid = FALSE],
                [type |-> "raiseall", all |-> HllVal(other)])

HllNext ==
    /\ \/ \E hash \in HllHash : pfaddCommand(hash)
       \/ PfaddNothing
       \/ pfcountCommand
       \/ \E hashes \in HllOthers : PfcountUnion(hashes)
       \/ \E hashes \in HllOthers : pfmergeCommand(hashes)
    /\ UNCHANGED walk
-----------------------------------------------------------------------------
(* The opcodes cover every register once, within the lengths their bits can
   hold and with no runs left to merge, in no more bytes than allowed; the
   registers never spill in the terminator of the string. *)
HllIsSound ==
    /\ c.enc = "sparse" =>
         /\ Span(c.ops) = HLL_REGISTERS
         /\ OpBytes(c.ops) + HLL_HDR_SIZE <= hll_sparse_max_bytes
         /\ \A p \in DOMAIN c.ops :
              /\ c.ops[p].len >= 1
              /\ c.ops[p].t = "zero" => c.ops[p].len <= HLL_SPARSE_ZERO_MAX_LEN
              /\ c.ops[p].t = "val" => /\ c.ops[p].len <= HLL_SPARSE_VAL_MAX_LEN
                                       /\ c.ops[p].val \in 1..HLL_SPARSE_VAL_MAX_VALUE
         /\ \A p \in DOMAIN c.ops \ {Len(c.ops)} :
              ~ /\ c.ops[p].t = "val" /\ c.ops[p + 1].t = "val" /\ c.ops[p].val = c.ops[p + 1].val
                /\ c.ops[p].len + c.ops[p + 1].len <= HLL_SPARSE_VAL_MAX_LEN
    /\ c.enc = "dense" => Last(c.bytes) = 0

(* The loops that count registers see the registers, and a cached cardinality
   marked as valid is that of the registers. *)
HllLookupsAgree ==
    c # NoHll => /\ hllCount(c) = Histogram(RegistersOf(c))
                 /\ c.card.valid => c.card.histo = Histogram(RegistersOf(c))
=============================================================================
