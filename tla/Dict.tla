-------------------------------- MODULE Dict --------------------------------
(***************************************************************************)
(* dict.c: a hash table that grows and shrinks by moving one bucket at a   *)
(* time to a second table, with a scan whose cursor survives the resizing  *)
(* and iterators that stop it. A table is a function from bucket numbers to*)
(* chains of entries; the empty function is a table not allocated.         *)
(***************************************************************************)
EXTENDS Container

CONSTANTS
    DictHash,           \* hash of each key
    Rewritten,          \* keys whose value changes
    MaxEdits,           \* bound on the changes during a walk
    HashBits,           \* width of a cursor: bounds the size of a table
    DICT_HT_INITIAL_SIZE

NoTable == <<>>
Size(t) == Cardinality(DOMAIN t)
NewTable(n) == [b \in 0..(n - 1) |-> <<>>]
Entries(t) == UNION {ToSet(t[b]) : b \in DOMAIN t}
Used(t) == Cardinality(Entries(t))
Flatten(t) == FoldLeft(LAMBDA s, b : s \o t[b], <<>>, [i \in 1..Size(t) |-> i - 1])
Bucket(t, k) == DictHash[k] % Size(t)

dictCreate == [ht |-> <<NoTable, NoTable>>, rehashidx |-> -1, iterators |-> 0, can_resize |-> TRUE]

dictIsRehashing(d) == d.rehashidx # -1
dictSize(d) == Used(d.ht[1]) + Used(d.ht[2])

(* The smallest table size that holds n. *)
_dictNextPower(n) ==
    DICT_HT_INITIAL_SIZE * 2^Min({i \in 0..HashBits : DICT_HT_INITIAL_SIZE * 2^i >= n})

(* Unchanged when it fails. *)
dictExpand(d, size) ==
    LET n == _dictNextPower(size)
    IN IF dictIsRehashing(d) \/ Used(d.ht[1]) > size \/ n = Size(d.ht[1]) THEN d
       ELSE IF d.ht[1] = NoTable THEN [d EXCEPT !.ht[1] = NewTable(n)]
       ELSE [d EXCEPT !.ht[2] = NewTable(n), !.rehashidx = 0]

dictResize(d) ==
    IF ~d.can_resize \/ dictIsRehashing(d) THEN d
    ELSE dictExpand(d, Max({Used(d.ht[1]), DICT_HT_INITIAL_SIZE}))

(* Entries go to the head of their new chain, the first of the old one first. *)
MoveChain(chain, t) == FoldLeft(LAMBDA u, e : [u EXCEPT ![Bucket(u, e.key)] = <<e>> \o @], t, chain)

(* The table is complete when the first one is empty. *)
FinishRehash(d) ==
    IF dictIsRehashing(d) /\ Used(d.ht[1]) = 0
    THEN [d EXCEPT !.ht = <<d.ht[2], NoTable>>, !.rehashidx = -1] ELSE d

(* dictRehash(d, 1): the next bucket that has entries is moved. The empty
   buckets passed over (at most 10 in one call) are fewer than the bound here. *)
dictRehash(d) ==
    LET b == Min({i \in DOMAIN d.ht[1] : i >= d.rehashidx /\ d.ht[1][i] # <<>>})
    IN IF ~dictIsRehashing(d) THEN d
       ELSE IF Used(d.ht[1]) = 0 THEN FinishRehash(d)
       ELSE FinishRehash([d EXCEPT !.ht = <<[d.ht[1] EXCEPT ![b] = <<>>],
                                            MoveChain(d.ht[1][b], d.ht[2])>>,
                                   !.rehashidx = b + 1])

_dictRehashStep(d) == IF d.iterators = 0 THEN dictRehash(d) ELSE d

_dictExpandIfNeeded(d) ==
    IF dictIsRehashing(d) THEN d
    ELSE IF d.ht[1] = NoTable THEN dictExpand(d, DICT_HT_INITIAL_SIZE)
    ELSE IF /\ Used(d.ht[1]) >= Size(d.ht[1])
            /\ d.can_resize \/ Used(d.ht[1]) \div Size(d.ht[1]) > 5
         THEN dictExpand(d, Used(d.ht[1]) * 2) ELSE d

(* The tables a key may be in. *)
Tables(d) == IF dictIsRehashing(d) THEN {1, 2} ELSE {1}

(* The entries with key k, in the chains its hash leads to. *)
Found(d, k) ==
    UNION {IF d.ht[i] = NoTable THEN {}
           ELSE {e \in ToSet(d.ht[i][Bucket(d.ht[i], k)]) : e.key = k} : i \in Tables(d)}

(* Nothing is done with a dictionary that is empty. *)
dictFind(d, k) == IF dictSize(d) = 0 THEN d ELSE _dictRehashStep(d)

(* The dictionary in which k is looked for before it is added. *)
_dictKeyIndex(d) == _dictExpandIfNeeded(_dictRehashStep(d))

InsertEntry(d, e) ==
    LET i == IF dictIsRehashing(d) THEN 2 ELSE 1
    IN [d EXCEPT !.ht[i][Bucket(d.ht[i], e.key)] = <<e>> \o @]

dictAdd(d, e) ==
    IF Found(_dictKeyIndex(d), e.key) = {} THEN InsertEntry(_dictKeyIndex(d), e)
    ELSE _dictKeyIndex(d)

SetVal(t, e) == [b \in DOMAIN t |-> [j \in DOMAIN t[b] |-> IF t[b][j].key = e.key THEN e ELSE t[b][j]]]

dictReplace(d, e) ==
    LET f == dictAdd(d, e)
    IN [f EXCEPT !.ht = <<SetVal(f.ht[1], e), SetVal(f.ht[2], e)>>]

DropKey(t, k) == [b \in DOMAIN t |-> SelectSeq(t[b], LAMBDA e : e.key # k)]

dictGenericDelete(d, k) ==
    LET f == dictFind(d, k)
    IN [f EXCEPT !.ht = <<DropKey(f.ht[1], k), DropKey(f.ht[2], k)>>]

dictEmpty(d) == [d EXCEPT !.ht = <<NoTable, NoTable>>, !.rehashidx = -1, !.iterators = 0]
-----------------------------------------------------------------------------
(* dictScan *)

Width == 2^HashBits
rev[v \in 0..(Width - 1)] ==
    MapThenSumSet(LAMBDA i : 2^(HashBits - 1 - i), {j \in 0..(HashBits - 1) : (v \div 2^j) % 2 = 1})

(* Faulty: the cursor counts from the low bits. *)
FaultyNextCursor(v, size) == IF (v % size) + 1 = size THEN 0 ELSE (v % size) + 1

(* v |= ~mask; v = rev(v); v++; v = rev(v). *)
NextCursor(v, size) == rev[(rev[(v % size) + Width - size] + 1) % Width]

Smaller(d) == IF dictIsRehashing(d) /\ Size(d.ht[1]) > Size(d.ht[2]) THEN 2 ELSE 1

(* The cursors of the larger table that a call visits while the smaller one has
   one bucket for them: until the bits that only the larger has are 0 again. *)
RECURSIVE Expansions(_, _, _)
Expansions(v, small, large) ==
    LET w == NextCursor(v, large)
    IN {v} \cup (IF (w % large) \div small = 0 THEN {} ELSE Expansions(w, small, large))

RECURSIVE AfterExpansions(_, _, _)
AfterExpansions(v, small, large) ==
    LET w == NextCursor(v, large)
    IN IF (w % large) \div small = 0 THEN w ELSE AfterExpansions(w, small, large)

Keys(chain) == {e.key : e \in ToSet(chain)}

(* What one call visits, and the cursor it returns. *)
dictScan(d, v) ==
    LET t0 == d.ht[Smaller(d)]
        t1 == d.ht[3 - Smaller(d)]
    IN IF dictSize(d) = 0 THEN [keys |-> {}, cursor |-> 0]
       ELSE IF ~dictIsRehashing(d)
       THEN [keys |-> Keys(t0[v % Size(t0)]), cursor |-> NextCursor(v, Size(t0))]
       ELSE [keys |-> Keys(t0[v % Size(t0)])
                        \cup UNION {Keys(t1[w % Size(t1)]) : w \in Expansions(v, Size(t0), Size(t1))},
             cursor |-> AfterExpansions(v, Size(t0), Size(t1))]
-----------------------------------------------------------------------------
(* Iterators: the table and the bucket, and the entry that follows the last one
   returned in its chain, as it was when that one was returned. *)

NoEntry == "NULL"

(* The bucket of the next entry: the buckets that follow in the same table, and
   then those of the second one. *)
Following(d, it) ==
    {p \in {<<i, b>> : i \in Tables(d), b \in 0..(Width - 1)} :
        /\ p[1] > it.table \/ (p[1] = it.table /\ p[2] > it.index)
        /\ p[2] \in DOMAIN d.ht[p[1]] /\ d.ht[p[1]][p[2]] # <<>>}

First(places) == CHOOSE p \in places :
                    \A q \in places : p[1] < q[1] \/ (p[1] = q[1] /\ p[2] <= q[2])

(* The iterator that returns the entry at place j of a chain. *)
At(d, place, j) ==
    LET chain == d.ht[place[1]][place[2]]
    IN [table |-> place[1], index |-> place[2], entry |-> chain[j].key,
        next |-> IF j < Len(chain) THEN chain[j + 1].key ELSE NoEntry]

NoMore == [table |-> 2, index |-> Width, entry |-> NoEntry, next |-> NoEntry]

dictNext(d, it) ==
    IF it.next # NoEntry
    THEN At(d, <<it.table, it.index>>,
            SelectInSeq(d.ht[it.table][it.index], LAMBDA e : e.key = it.next))
    ELSE IF Following(d, it) = {} THEN NoMore ELSE At(d, First(Following(d, it)), 1)

DictKeys(d) == {e.key : e \in Entries(d.ht[1]) \cup Entries(d.ht[2])}
DictVal(d) == [k \in DictKeys(d) |->
                  (CHOOSE e \in Entries(d.ht[1]) \cup Entries(d.ht[2]) : e.key = k).val]

(* Keys that come and go while a walk is on are not promised. At most MaxEdits
   additions and deletions happen during a walk. *)
Edit(k) ==
    /\ walk.on => walk.edits < MaxEdits
    /\ walk' = IF walk.on THEN [walk EXCEPT !.must = @ \ {k}, !.edits = @ + 1] ELSE walk

IsSafe == walk.on /\ walk.how = "iterator"

DictAdd(k, v) ==
    /\ Cardinality(DictKeys(c) \cup {k}) <= MaxLen
    /\ dictAdd(c, [key |-> k, val |-> v]) # c
    /\ Step("dict", dictAdd(c, [key |-> k, val |-> v]),
            IF Found(c, k) # {} THEN Internal
            ELSE [type |-> "put", key |-> k, val |-> v, found |-> FALSE])
    /\ IF Found(c, k) # {} THEN UNCHANGED walk ELSE Edit(k)

DictReplace(k, v) ==
    /\ Found(c, k) # {}
    /\ Step("dict", dictReplace(c, [key |-> k, val |-> v]),
            [type |-> "put", key |-> k, val |-> v, found |-> TRUE])
    /\ UNCHANGED walk

(* With a safe iterator only the entry it returned last is deleted. *)
DictDelete(k) ==
    /\ IsSafe => walk.it.entry = k
    /\ dictSize(c) > 0
    /\ Step("dict", dictGenericDelete(c, k),
            [type |-> "remove", key |-> k, found |-> Found(c, k) # {}])
    /\ Edit(k)

(* A lookup, and the cron that rehashes whatever the iterators. *)
DictFind(k) == dictFind(c, k) # c /\ Step("dict", dictFind(c, k), Internal) /\ UNCHANGED walk

(* dictRehashMilliseconds is called from serverCron, never while a safe iterator
   is held across calls. *)
DictCron == ~IsSafe /\ dictRehash(c) # c /\ Step("dict", dictRehash(c), Internal) /\ UNCHANGED walk

DictResize == dictResize(c) # c /\ Step("dict", dictResize(c), Internal) /\ UNCHANGED walk

(* dictEnableResize, dictDisableResize: while a child saves. *)
ToggleResize ==
    /\ Step("dict", [c EXCEPT !.can_resize = ~@], Internal)
    /\ UNCHANGED walk

DictEmpty ==
    /\ ~walk.on /\ dictSize(c) > 0
    /\ Step("dict", dictEmpty(c), [type |-> "clear"])
    /\ UNCHANGED walk

ScanStart ==
    /\ ~walk.on /\ dictSize(c) > 0
    /\ Step("dict", c, Internal)
    /\ walk' = [on |-> TRUE, how |-> "scan", cursor |-> 0, calls |-> 0,
                seen |-> {}, must |-> DictKeys(c), edits |-> 0]

(* The scan ends when the cursor is 0 again. *)
ScanNext ==
    /\ kind = "dict" /\ walk.on /\ walk.how = "scan"
    /\ walk.calls = 0 \/ walk.cursor # 0
    /\ walk' = [walk EXCEPT !.cursor = dictScan(c, walk.cursor).cursor,
                            !.calls = 1, !.seen = @ \cup dictScan(c, walk.cursor).keys]
    /\ UNCHANGED <<kind, c, op>>

Returned(w, it) ==
    [w EXCEPT !.it = it, !.seen = IF it = NoMore THEN @ ELSE Append(@, it.entry)]

(* dictGetSafeIterator and the first dictNext. *)
dictGetSafeIterator ==
    /\ ~walk.on /\ dictSize(c) > 0
    /\ Step("dict", [c EXCEPT !.iterators = 1], Internal)
    /\ walk' = Returned([on |-> TRUE, how |-> "iterator", it |-> NoMore, seen |-> <<>>, must |-> DictKeys(c), edits |-> 0],
                        dictNext(c, [table |-> 1, index |-> -1, entry |-> NoEntry, next |-> NoEntry]))

IteratorNext ==
    /\ kind = "dict" /\ IsSafe /\ walk.it # NoMore
    /\ walk' = Returned(walk, dictNext(c, walk.it))
    /\ UNCHANGED <<kind, c, op>>

WalkOver ==
    IF walk.how = "scan" THEN walk.calls = 1 /\ walk.cursor = 0 ELSE walk.it = NoMore

WalkEnd ==
    /\ walk.on /\ WalkOver
    /\ Step("dict", [c EXCEPT !.iterators = 0], Internal)
    /\ walk' = NoWalk

(* A value replaced or resizing allowed or not makes no difference to a walk. *)
DictNext ==
    \/ \E k \in Element : DictAdd(k, 0)
    \/ \E k \in Rewritten : ~walk.on /\ DictReplace(k, 1)
    \/ \E k \in Element : DictDelete(k)
    \/ \E k \in Element : ~walk.on /\ DictFind(k)
    \/ DictCron \/ DictResize \/ DictEmpty
    \/ ~walk.on /\ ToggleResize
    \/ ScanStart \/ ScanNext
    \/ dictGetSafeIterator \/ IteratorNext \/ WalkEnd
-----------------------------------------------------------------------------
(* Every entry is in the bucket its hash leads to, once; the buckets already
   moved are empty; a table that is being filled exists. *)
DictIsSound ==
    /\ \A i \in {1, 2} : \A b \in DOMAIN c.ht[i] : \A e \in ToSet(c.ht[i][b]) : Bucket(c.ht[i], e.key) = b
    /\ Cardinality(DictKeys(c)) = Len(Flatten(c.ht[1])) + Len(Flatten(c.ht[2]))
    /\ dictIsRehashing(c) <=> c.ht[2] # NoTable
    /\ dictIsRehashing(c) => \A b \in 0..(c.rehashidx - 1) : c.ht[1][b] = <<>>

DictLookupsAgree == \A k \in Element : Found(c, k) # {} <=> k \in DictKeys(c)

(* A scan that is over returned every key that was there all the time, whatever
   was added, deleted and resized meanwhile; a safe iterator returned each of
   them once. *)
DictWalkIsComplete ==
    walk.on /\ WalkOver =>
        IF walk.how = "scan" THEN walk.must \subseteq walk.seen
        ELSE \A k \in walk.must : Cardinality({i \in DOMAIN walk.seen : walk.seen[i] = k}) = 1
=============================================================================
