---------------------------- MODULE MCStructures ----------------------------
EXTENDS Structures

MCElement == {"a", "b", "c"}
MCDictHash == ("a" :> 0) @@ ("b" :> 4) @@ ("c" :> 6)

(* Small values, values whose entry is large only after a large one, and large
   ones. *)
MCZipBody == ("s" :> 1) @@ ("m" :> 5) @@ ("l" :> 8)

(* Integers at the ends of their encodings, and strings. *)
MCLpElement == {[int |-> 127], [int |-> -4097], [int |-> 4096], [int |-> -1], [str |-> 130]}

(* Values whose nodes are compressed, two of which fill a node of 130 bytes. *)
MCQlSize == ("u" :> 50) @@ ("w" :> 80)
MCQlOptions == {<<2, 0>>, <<-1, 0>>, <<2, 1>>}

MCIntBits == <<2, 3, 4>>
MCIntElement == {-7, -4, -2, -1, 0, 1, 3, 4}
MCRaxKey == {<<>>, <<1, 1>>, <<1, 1, 2, 2>>, <<1, 2>>, <<2, 1, 2>>}
MCRaxProbe == MCRaxKey \cup {<<1>>, <<1, 1, 1>>, <<1, 1, 2>>, <<1, 1, 2, 3>>, <<2>>, <<2, 1, 1, 1>>, <<2, 2>>, <<3>>}
(* Hashes of 3 bits of index and 2 of run: runs of 1, 2 and 3, the last one too
   long for a sparse register. *)
MCHllHash == {8, 9, 17, 2, 26, 11, 23}
MCHllOthers == {<<12, 13, 17>>, <<24, 10, 5>>}
(* Headers of 1, 2, 3 and 5 bits; pieces with one and two bytes. *)
MCSdsBits == <<1, 2, 3, 5>>
MCSdsPiece == {<<>>, <<1>>, <<2>>, <<1, 2>>, <<2, 2>>}

(* Strings that differ in a byte share a slot. *)
MCLzfSlot == [q \in [1..3 -> {0, 1}] |-> (q[1] + q[2]) % 2]
=============================================================================
