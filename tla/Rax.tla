--------------------------------- MODULE Rax ---------------------------------
(***************************************************************************)
(* rax.c: a radix tree. A node is [iskey, val, iscompr, data, kids]: a     *)
(* compressed node holds a run of at least two characters and has one      *)
(* child, any other has one child per character, in order. A tree is       *)
(* [head, numele, numnodes]. Keys are sequences of numbers. Running out of *)
(* memory is left out.                                                     *)
(***************************************************************************)
EXTENDS Container

CONSTANTS
    RaxKey,     \* keys stored
    RaxProbe,   \* keys looked for
    RaxVal      \* values; 0 is NULL, which is not stored

raxNewNode == [iskey |-> FALSE, val |-> 0, iscompr |-> FALSE, data |-> <<>>, kids |-> <<>>]
raxNew == [head |-> raxNewNode, numele |-> 0, numnodes |-> 1]

raxSetData(n, v) == [n EXCEPT !.iskey = TRUE, !.val = v]

(* One child, over one character or a run of them. *)
Over(n, run, kid) == [n EXCEPT !.iscompr = Len(run) > 1, !.data = run, !.kids = <<kid>>]

raxAddChild(n, ch, kid) ==
    LET pos == Min({i \in DOMAIN n.data : n.data[i] > ch} \cup {Len(n.data) + 1})
    IN [n EXCEPT !.data = InsertAt(@, pos, ch), !.kids = InsertAt(@, pos, kid)]

(* How much of the run of n is a prefix of s. *)
Matched(n, s) == Len(LongestCommonPrefix({n.data, s}))
ChildOf(n, ch) == IF \E i \in DOMAIN n.data : n.data[i] = ch
                  THEN CHOOSE i \in DOMAIN n.data : n.data[i] = ch ELSE 0

(* raxLowWalk: the nodes passed with the child taken in each, the node where the
   walk stops, what is left of s and how far into the run of the node it got. *)
RECURSIVE LowWalk(_, _, _)
LowWalk(path, h, s) ==
    LET j == IF h.iscompr THEN Matched(h, s) ELSE 0
        i == IF s = <<>> THEN 0 ELSE IF h.iscompr THEN (IF j = Len(h.data) THEN 1 ELSE 0) ELSE ChildOf(h, Head(s))
        taken == IF h.iscompr THEN Len(h.data) ELSE 1
    IN IF i = 0 THEN [path |-> path, node |-> h, rest |-> SubSeq(s, j + 1, Len(s)), split |-> j]
       ELSE LowWalk(Append(path, [node |-> h, kid |-> i]), h.kids[i], SubSeq(s, taken + 1, Len(s)))

raxLowWalk(r, s) == LowWalk(<<>>, r.head, s)

(* The head of the tree in which h hangs at the end of path. *)
Plug(path, h) == FoldRight(LAMBDA p, kid : [p.node EXCEPT !.kids[p.kid] = kid], path, h)

(* The rest of a key below node h. *)
RECURSIVE Extend(_, _, _)
Extend(h, s, v) ==
    IF s = <<>> THEN raxSetData(h, v)
    ELSE IF h.data = <<>> /\ Len(s) > 1 THEN Over(h, s, raxSetData(raxNewNode, v))
    ELSE raxAddChild(h, Head(s), Extend(raxNewNode, Tail(s), v))

Keyed(n, h) == [n EXCEPT !.iskey = h.iskey, !.val = h.val]

(* The run of h ends at j: the key leaves it there (ALGO 1). *)
SplitNode(h, j, s, v) ==
    LET after == SubSeq(h.data, j + 2, Len(h.data))
        postfix == IF after = <<>> THEN h.kids[1] ELSE Over(raxNewNode, after, h.kids[1])
        bare == Over(raxNewNode, <<h.data[j + 1]>>, postfix)
        split == Extend(IF j = 0 THEN Keyed(bare, h) ELSE bare, s, v)
    IN IF j = 0 THEN split ELSE Over(Keyed(raxNewNode, h), SubSeq(h.data, 1, j), split)

(* The key ends inside the run of h (ALGO 2). *)
TrimNode(h, j, v) ==
    Over(Keyed(raxNewNode, h), SubSeq(h.data, 1, j),
         Over(raxSetData(raxNewNode, v), SubSeq(h.data, j + 1, Len(h.data)), h.kids[1]))

RECURSIVE NodesOf(_)
NodesOf(h) == 1 + FoldLeft(LAMBDA n, kid : n + NodesOf(kid), 0, h.kids)

(* What the insertion adds to numnodes. *)
Extended(h, s) ==
    IF s = <<>> THEN 0
    ELSE IF h.data = <<>> \/ Len(s) = 1 THEN 1 ELSE 2
NewNodes(w) ==
    IF w.rest = <<>> THEN IF w.split = 0 THEN 0 ELSE 1
    ELSE IF ~w.node.iscompr THEN Extended(w.node, w.rest)
    ELSE (IF w.split > 0 THEN 1 ELSE 0) + (IF w.split + 1 < Len(w.node.data) THEN 1 ELSE 0)
            + (IF Len(w.rest) = 1 THEN 1 ELSE 2)

(* Faulty: a node cut in two gives up its key. *)
FaultyNewNode(w, v) ==
    IF w.rest = <<>> THEN IF w.split = 0 THEN raxSetData(w.node, v)
                          ELSE TrimNode([w.node EXCEPT !.iskey = FALSE], w.split, v)
    ELSE IF w.node.iscompr THEN SplitNode(w.node, w.split, w.rest, v)
    ELSE Extend(w.node, w.rest, v)

NewNode(w, v) ==
    IF w.rest = <<>> THEN IF w.split = 0 THEN raxSetData(w.node, v) ELSE TrimNode(w.node, w.split, v)
    ELSE IF w.node.iscompr THEN SplitNode(w.node, w.split, w.rest, v)
    ELSE Extend(w.node, w.rest, v)

KeyFound(w) == w.rest = <<>> /\ w.split = 0 /\ w.node.iskey

raxGenericInsert(r, w, v, overwrite) ==
    IF KeyFound(w) /\ ~overwrite THEN r
    ELSE [head |-> Plug(w.path, NewNode(w, v)),
          numele |-> r.numele + (IF KeyFound(w) THEN 0 ELSE 1),
          numnodes |-> r.numnodes + NewNodes(w)]

raxFind(r, s) == KeyFound(raxLowWalk(r, s))

(* The child at i goes. *)
raxRemoveChild(n, i) ==
    IF n.iscompr THEN [n EXCEPT !.iscompr = FALSE, !.data = <<>>, !.kids = <<>>]
    ELSE [n EXCEPT !.data = RemoveAt(@, i), !.kids = RemoveAt(@, i)]

(* A node a chain of single children may pass through, and where it must stop. *)
Stops(n) == n.iskey \/ (~n.iscompr /\ Len(n.data) # 1)

(* From start down: the runs of the chain put together, the node that ends it and
   the number of nodes in it. *)
RECURSIVE Chain(_)
Chain(h) ==
    LET kid == h.kids[1]
        below == Chain(kid)
    IN IF Stops(kid) THEN [run |-> h.data, end |-> kid, nodes |-> 1]
       ELSE [run |-> h.data \o below.run, end |-> below.end, nodes |-> 1 + below.nodes]

(* h, at the end of path, is merged with the chain it is part of; less is what was
   freed already. *)
Compress(r, path, h, less) ==
    LET stops == {i \in DOMAIN path : Stops(path[i].node)} \cup {0}
        up == Max(stops)
        start == Plug(SubSeq(path, up + 1, Len(path)), h)
        chain == Chain(start)
        node == IF chain.nodes > 1 THEN Over(raxNewNode, chain.run, chain.end) ELSE start
    IN [head |-> Plug(SubSeq(path, 1, up), node), numele |-> r.numele - 1,
        numnodes |-> r.numnodes - less - (IF chain.nodes > 1 THEN chain.nodes - 1 ELSE 0)]

(* A leaf goes with the nodes that only led to it. *)
RemoveLeaf(r, path, h) ==
    LET stops == {i \in DOMAIN path : Stops(path[i].node)} \cup {1}
        top == Max(stops)
        new == raxRemoveChild(path[top].node, path[top].kid)
        above == SubSeq(path, 1, top - 1)
        less == Len(path) - top + 1
    IN IF path = <<>> THEN [r EXCEPT !.head = h, !.numele = @ - 1]
       ELSE IF Len(new.data) = 1 /\ ~new.iskey THEN Compress(r, above, new, less)
       ELSE [head |-> Plug(above, new), numele |-> r.numele - 1, numnodes |-> r.numnodes - less]

(* Only a node over one character is merged, so a key in the middle of a chain may
   leave two runs in a row. *)
raxRemove(r, w) ==
    LET h == [w.node EXCEPT !.iskey = FALSE, !.val = 0]
    IN IF h.data = <<>> THEN RemoveLeaf(r, w.path, h)
       ELSE IF Len(h.data) = 1 THEN Compress(r, w.path, h, 0)
       ELSE [head |-> Plug(w.path, h), numele |-> r.numele - 1, numnodes |-> r.numnodes]
-----------------------------------------------------------------------------
(* Iterators: [stack, node, key, eof]. The node is the head when the stack is
   empty. *)
EOF(it) == [it EXCEPT !.eof = TRUE]
Descend(it, i) ==
    [it EXCEPT !.stack = Append(@, it.node), !.node = it.node.kids[i],
               !.key = @ \o (IF it.node.iscompr THEN it.node.data ELSE <<it.node.data[i]>>)]

(* The way up: the node left behind, and the character that led to where we were. *)
Ascend(it, noup) ==
    LET n == IF noup THEN it.node ELSE Last(it.stack)
    IN [it EXCEPT !.stack = IF noup THEN @ ELSE Front(@), !.node = n,
                  !.key = SubSeq(@, 1, Len(@) - (IF n.iscompr THEN Len(n.data) ELSE 1))]

Siblings(it, noup, ch, after) ==
    IF it.node.iscompr \/ Len(it.node.data) <= (IF noup THEN 0 ELSE 1) THEN {}
    ELSE {i \in DOMAIN it.node.data : IF after THEN it.node.data[i] > ch ELSE it.node.data[i] < ch}

RECURSIVE NextStep(_, _, _)
RECURSIVE NextUp(_, _, _)
NextStep(orig, it, noup) ==
    IF noup \/ it.node.kids = <<>> THEN NextUp(orig, it, noup)
    ELSE IF it.node.kids[1].iskey THEN Descend(it, 1) ELSE NextStep(orig, Descend(it, 1), FALSE)
NextUp(orig, it, noup) ==
    LET up == Ascend(it, noup)
        more == Siblings(up, noup, Last(it.key), TRUE)
        side == Descend(up, Min(more))
    IN IF ~noup /\ it.stack = <<>> THEN EOF(orig)
       ELSE IF more = {} THEN NextUp(orig, up, FALSE)
       ELSE IF side.node.iskey THEN side ELSE NextStep(orig, side, FALSE)

RECURSIVE raxSeekGreatest(_)
raxSeekGreatest(it) ==
    IF it.node.kids = <<>> THEN it ELSE raxSeekGreatest(Descend(it, Len(it.node.kids)))

RECURSIVE PrevStep(_, _, _)
PrevStep(orig, it, noup) ==
    LET up == Ascend(it, noup)
        less == Siblings(up, noup, Last(it.key), FALSE)
        at == IF less = {} THEN up ELSE raxSeekGreatest(Descend(up, Max(less)))
    IN IF ~noup /\ it.stack = <<>> THEN EOF(orig)
       ELSE IF at.node.iskey THEN at ELSE PrevStep(orig, at, FALSE)

raxNext(it) == NextStep(it, it, FALSE)
raxPrev(it) == PrevStep(it, it, FALSE)

(* The iterator where the walk to s stopped, before the rest of the seek. *)
Stopped(w, s) ==
    [stack |-> [i \in DOMAIN w.path |-> w.path[i].node], node |-> w.node, eof |-> FALSE,
     key |-> SubSeq(s, 1, Len(s) - Len(w.rest) - w.split)]

SeekMismatch(it, w, gt) ==
    LET beside == [it EXCEPT !.key = Append(@, Head(w.rest))]
        past == [it EXCEPT !.key = @ \o it.node.data]
        ch == it.node.data[w.split + 1]
    IN IF ~it.node.iscompr
       THEN IF gt THEN NextStep(beside, beside, TRUE) ELSE PrevStep(beside, beside, TRUE)
       ELSE IF gt THEN IF ch > Head(w.rest) THEN NextStep(it, it, FALSE) ELSE NextStep(past, past, TRUE)
       ELSE IF ch < Head(w.rest) THEN raxSeekGreatest(it) ELSE PrevStep(past, past, TRUE)

(* how is one of ">", ">=", "<", "<=", "=". *)
SeekFrom(it, w, how) ==
    LET gt == how \in {">", ">="}
    IN IF how \in {">=", "<=", "="} /\ KeyFound(w) THEN it
       ELSE IF how = "=" THEN EOF(it)
       ELSE IF w.rest # <<>> THEN SeekMismatch(it, w, gt)
       ELSE IF it.node.iscompr /\ it.node.iskey /\ w.split # 0 /\ ~gt THEN it
       ELSE IF gt THEN raxNext(it) ELSE raxPrev(it)

Start(r) == [stack |-> <<>>, node |-> r.head, key |-> <<>>, eof |-> FALSE]

raxSeek(r, how, s) ==
    IF r.numele = 0 THEN EOF(Start(r))
    ELSE IF how = "$" THEN raxSeekGreatest(Start(r))
    ELSE LET w == raxLowWalk(r, s) IN SeekFrom(Stopped(w, s), w, how)
-----------------------------------------------------------------------------
(* The keys below a node, with their values. *)
RECURSIVE KeysBelow(_)
KeysBelow(h) ==
    (IF h.iskey THEN {<<<<>>, h.val>>} ELSE {}) \cup
    UNION {{<<(IF h.iscompr THEN h.data ELSE <<h.data[i]>>) \o k[1], k[2]>> : k \in KeysBelow(h.kids[i])}
           : i \in DOMAIN h.kids}

RaxMap(r) == LET ks == KeysBelow(r.head)
              IN [s \in {k[1] : k \in ks} |-> (CHOOSE k \in ks : k[1] = s)[2]]
RaxContents == RaxMap(c)

RaxInsert(s, v, overwrite) ==
    \E w \in {raxLowWalk(c, s)} :
        Step("rax", raxGenericInsert(c, w, v, overwrite),
             [type |-> "put", key |-> s, found |-> KeyFound(w),
              val |-> IF KeyFound(w) /\ ~overwrite THEN w.node.val ELSE v])

RaxRemove(s) ==
    \E w \in {raxLowWalk(c, s)} :
        /\ KeyFound(w)
        /\ Step("rax", raxRemove(c, w), [type |-> "remove", key |-> s, found |-> TRUE])

RaxNext ==
    /\ \/ \E s \in RaxKey, v \in RaxVal, overwrite \in BOOLEAN : RaxInsert(s, v, overwrite)
       \/ \E s \in RaxKey : RaxRemove(s)
    /\ UNCHANGED walk
-----------------------------------------------------------------------------
RECURSIVE NodeIsSound(_, _)
NodeIsSound(h, isHead) ==
    /\ h.iscompr => Len(h.data) > 1 /\ Len(h.kids) = 1
    /\ ~h.iscompr => Len(h.kids) = Len(h.data) /\ \A i, j \in DOMAIN h.data : i < j => h.data[i] < h.data[j]
    /\ h.kids = <<>> => h.iskey \/ isHead
    /\ ~h.iskey => h.val = 0
    /\ \A i \in DOMAIN h.kids : NodeIsSound(h.kids[i], FALSE)

(* The tree is well formed, every leaf is a key, and its counts are right. *)
RaxIsSound ==
    /\ NodeIsSound(c.head, TRUE)
    /\ c.numele = Cardinality(KeysBelow(c.head))
    /\ c.numnodes = NodesOf(c.head)

(* The lexical order of keys. *)
Prec(s, t) ==
    LET n == Len(LongestCommonPrefix({s, t}))
    IN IF n = Len(s) THEN n < Len(t) ELSE n < Len(t) /\ s[n + 1] < t[n + 1]

Best(S, gt) == CHOOSE s \in S : \A t \in S \ {s} : IF gt THEN Prec(s, t) ELSE Prec(t, s)

LandsOn(it, S, gt) == IF S = {} THEN it.eof ELSE ~it.eof /\ it.node.iskey /\ it.key = Best(S, gt)

(* A seek finds the nearest key on its side, and from there the iterator visits the
   next one or the one before it. *)
RaxLookupsAgree ==
    LET keys == DOMAIN RaxContents
    IN /\ keys # {} => LandsOn(raxSeek(c, "$", <<>>), keys, FALSE)
       /\ \A s \in RaxProbe :
            LET above == {k \in keys : Prec(s, k)}
                below == {k \in keys : Prec(k, s)}
                here == keys \cap {s}
            IN /\ raxFind(c, s) = (s \in keys)
               /\ LandsOn(raxSeek(c, ">", s), above, TRUE)
               /\ LandsOn(raxSeek(c, ">=", s), here \cup above, TRUE)
               /\ LandsOn(raxSeek(c, "<", s), below, FALSE)
               /\ LandsOn(raxSeek(c, "<=", s), here \cup below, FALSE)
               /\ LandsOn(raxSeek(c, "=", s), here, TRUE)
               /\ s \in keys => /\ LandsOn(raxNext(raxSeek(c, "=", s)), above, TRUE)
                                /\ LandsOn(raxPrev(raxSeek(c, "=", s)), below, FALSE)
=============================================================================
