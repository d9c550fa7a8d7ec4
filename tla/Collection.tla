----------------------------- MODULE Collection -----------------------------
(***************************************************************************)
(* What the containers of the server promise: a value (a sequence, or a    *)
(* function from keys or members to values) and operations on it, each with*)
(* its answer. Modules Dict, Packed, Quicklist, Skiplist, Rax and          *)
(* Hyperloglog implement it.                                               *)
(***************************************************************************)
EXTENDS Integers, Sequences, FiniteSets, SequencesExt, Functions, TLC

VARIABLES
    val,   \* the contents
    op     \* the operation just done, with its answer

(* The higher of the two values of every key. *)
Highest(v, w) ==
    [k \in DOMAIN v \cup DOMAIN w |->
        IF k \notin DOMAIN w \/ (k \in DOMAIN v /\ v[k] > w[k]) THEN v[k] ELSE w[k]]

(* How many keys have each value. *)
Tally(v) == [x \in Range(v) |-> Cardinality({k \in DOMAIN v : v[k] = x})]

(* From one position to another, both counted from 0, or from the end when
   negative; a position before the start is the start. *)
Slice(v, first, last) ==
    LET at(i) == IF i >= 0 THEN i ELSE IF Len(v) + i < 0 THEN 0 ELSE Len(v) + i
        in == SelectSeq([i \in DOMAIN v |-> i], LAMBDA i : at(first) < i /\ i <= at(last) + 1)
    IN [i \in DOMAIN in |-> v[in[i]]]

(* Without the copies of x at either end. *)
Strip(v, x) ==
    LET keep == {i \in DOMAIN v : v[i] # x}
    IN IF keep = {} THEN <<>>
       ELSE SubSeq(v, CHOOSE i \in keep : \A j \in keep : i <= j, CHOOSE i \in keep : \A j \in keep : j <= i)

(* The contents after operation o, which must give the right answer. *)
Effect(v, o) ==
    CASE o.type = "internal" -> v
      \* functions
      [] o.type = "put"     -> (o.key :> o.val) @@ v
      [] o.type = "remove"  -> Restrict(v, DOMAIN v \ {o.key})
      [] o.type = "retain"  -> Restrict(v, o.keys)
      [] o.type = "load"    -> o.all
      [] o.type = "clear"   -> <<>>
      [] o.type = "tally"   -> v
      [] o.type = "raise"   -> Highest(v, o.key :> o.val)
      [] o.type = "raiseall" -> Highest(v, o.all)
      \* sequences; positions are counted from 1
      [] o.type = "insert"  -> InsertAt(v, o.at, o.val)
      [] o.type = "replace" -> ReplaceAt(v, o.at, o.val)
      [] o.type = "delete"  -> SubSeq(v, 1, o.at - 1) \o SubSeq(v, o.at + o.count, Len(v))
      [] o.type = "rotate"  -> <<v[Len(v)]>> \o Front(v)
      [] o.type = "append"  -> v \o o.all
      [] o.type = "slice"   -> Slice(v, o.first, o.last)
      [] o.type = "strip"   -> Strip(v, o.val)
      [] o.type = "prune"   -> CASE o.left = 0 -> SelectSeq(v, LAMBDA x : x # o.val)
                                 [] o.forward  -> RemoveFirst(v, o.val)
                                 [] OTHER      -> Reverse(RemoveFirst(Reverse(v), o.val))

RightAnswer(v, o) ==
    /\ o.type \in {"put", "remove"} => o.found = (o.key \in DOMAIN v)
    /\ o.type = "raise" => o.changed = (Highest(v, o.key :> o.val) # v)
    /\ o.type = "tally" => o.reply = Tally(Highest(v, o.with))
    /\ o.type = "delete" => o.count <= Len(v) - o.at + 1

Init == val = <<>> /\ op = [type |-> "internal"]

Next == RightAnswer(val, op') /\ val' = Effect(val, op')

Spec == Init /\ [][Next]_<<val, op>>
=============================================================================
