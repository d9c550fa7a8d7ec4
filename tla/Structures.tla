----------------------------- MODULE Structures -----------------------------
(* The containers of the server, each against what module Collection promises. *)
EXTENDS Dict, Packed, Quicklist, Skiplist, Rax, Hyperloglog

CONSTANT Kinds   \* the containers to look at

vars == <<kind, c, op, walk>>

Empty(k) == CASE k = "dict" -> {dictCreate}
              [] k = "ziplist" -> {ziplistNew}
              [] k = "listpack" -> {lpNew}
              [] k = "intset" -> {intsetNew}
              [] k = "quicklist" -> {quicklistNew(o[1], o[2]) : o \in QlOptions}
              [] k = "zset" -> {zsetCreate}
              [] k = "rax" -> {raxNew}
              [] k = "hll" -> {NoHll}
              [] k = "list" -> {listCreate}
              [] k = "sds" -> {sdsnewlen(<<>>)}
              [] k = "lzf" -> {NoString}

Init == kind \in Kinds /\ c \in Empty(kind) /\ op = Internal /\ walk = NoWalk

Next ==
    \/ kind = "dict" /\ DictNext
    \/ kind = "ziplist" /\ ZiplistNext
    \/ kind = "listpack" /\ ListpackNext
    \/ kind = "intset" /\ IntsetNext
    \/ kind = "quicklist" /\ QuicklistNext
    \/ kind = "zset" /\ ZsetNext
    \/ kind = "rax" /\ RaxNext
    \/ kind = "hll" /\ HllNext
    \/ kind = "list" /\ AdlistNext
    \/ kind = "sds" /\ SdsNext
    \/ kind = "lzf" /\ LzfNext

Spec == Init /\ [][Next]_vars

(* The contents of the container, for Collection. *)
Contents == CASE kind = "dict" -> DictVal(c)
              [] kind = "ziplist" -> ZipVal(c)
              [] kind = "listpack" -> LpVal(c)
              [] kind = "intset" -> IntVal(c)
              [] kind = "quicklist" -> QlVal(c)
              [] kind = "zset" -> ZVal
              [] kind = "rax" -> RaxContents
              [] kind = "hll" -> HllVal(c)
              [] kind = "list" -> ListVal(c)
              [] kind = "sds" -> c.b
              [] kind = "lzf" -> LzfVal(c)

Promise == INSTANCE Collection WITH val <- Contents

(* Every operation of a container has the effect and the answer that Collection
   gives it: refinement. *)
ImplementsCollection == Promise!Spec

(* The representation is sound: what the code reads back to find its way (counts,
   the lengths of previous entries, spans and backward links, encodings, headers,
   the compression of nodes) agrees with what is stored, after any sequence of
   operations. Each container states its own part. *)
LayoutIsSound == CASE kind = "dict" -> DictIsSound
                   [] kind = "ziplist" -> ZiplistIsSound
                   [] kind = "listpack" -> ListpackIsSound
                   [] kind = "intset" -> IntsetIsSound
                   [] kind = "quicklist" -> QuicklistIsSound
                   [] kind = "zset" -> ZsetIsSound
                   [] kind = "rax" -> RaxIsSound
                   [] kind = "hll" -> HllIsSound
                   [] kind = "list" -> AdlistIsSound
                   [] kind = "sds" -> SdsIsSound
                   [] kind = "lzf" -> LzfIsSound

(* Reading finds what is stored: lookups by key, by index from either end, by rank
   and by range, comparisons and cardinalities give what the contents say. *)
FindsWhatIsStored == CASE kind = "dict" -> DictLookupsAgree
                  [] kind = "ziplist" -> ZiplistLookupsAgree
                  [] kind = "listpack" -> ListpackLookupsAgree
                  [] kind = "intset" -> IntsetLookupsAgree
                  [] kind = "quicklist" -> QuicklistLookupsAgree
                  [] kind = "zset" -> ZsetLookupsAgree
                  [] kind = "rax" -> RaxLookupsAgree
                  [] kind = "hll" -> HllLookupsAgree
                  [] kind = "list" -> AdlistLookupsAgree
                  [] kind = "sds" -> SdsLookupsAgree
                  [] kind = "lzf" -> TRUE

(* A walk that operations interrupt gives every element that was there from its
   beginning to its end: dictScan while the tables are resized, safe iterators,
   listNext while the node it gave is deleted. *)
WalksAreComplete == CASE kind = "dict" -> DictWalkIsComplete
                      [] kind = "list" -> AdlistWalkIsComplete
                      [] OTHER -> TRUE

(* Readers see the contents, at once and over a walk. *)
LookupsAgree == FindsWhatIsStored /\ WalksAreComplete
=============================================================================
