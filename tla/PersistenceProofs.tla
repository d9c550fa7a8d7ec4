------------------------- MODULE PersistenceProofs -------------------------
(***************************************************************************)
(* For any number of writes, rewrites, saves, faults and crashes, and any  *)
(* order of them: what the files of Persistence hold.                      *)
(*                                                                         *)
(* The first part is about loading.  What a file loads is a recursive      *)
(* function of its commands; facts about it are shown through the shortest *)
(* file that would break them.  The second says when a file holds a        *)
(* dataset: it loads to it, and appended commands are for the database the *)
(* server thinks is selected.  The inductive invariant IInv has two forms. *)
(* Steady: the file with the buffer hold the dataset, what a rewriting     *)
(* child was forked with, has read and will be sent holds it too, the      *)
(* durable part of the file has what was acknowledged, and dirty counts    *)
(* what the RDB file and the RDB child miss.  Switching, from the rename   *)
(* of a rewritten file to the end of the handler: the file holds the       *)
(* dataset without the buffer, and only the fsync is to follow.  A file    *)
(* that was renamed and not synced since counts as durable here, which is  *)
(* the exception of RestartRecovers.  Then one lemma for each function     *)
(* of aof.c and rdb.c, and one for each action.                            *)
(***************************************************************************)
EXTENDS Persistence, SequenceTheorems, WellFoundedInduction, TLAPS

-----------------------------------------------------------------------------
(* What a file loads *)

\* The least number of a set.
LEMMA LeastNumber ==
    ASSUME NEW S \in SUBSET Nat, S # {}
    PROVE  \E n \in S : \A m \in S : n <= m
  <1> DEFINE R == {ss \in Nat \X Nat : ss[1] < ss[2]}
  <1>1. IsWellFoundedOn(R, Nat)
    BY NatLessThanWellFounded DEF OpToRel
  <1>2. PICK n \in S : \A m \in S : ~(<<m, n>> \in R)
    BY <1>1, WFMin
  <1>3. \A m \in S : ~(m < n)
    BY <1>2
  <1> QED
    BY <1>3

\* f says what the first commands of a file load.
IsLoading(f, items, n) ==
    f = [i \in 0..n |-> IF i = 0 THEN Nothing ELSE LoadItem(f[i - 1], items[i])]

\* The recursion of Loading has a solution.
LEMMA LoadingExists ==
    ASSUME NEW items, NEW n \in Nat
    PROVE  \E f : IsLoading(f, items, n)
  <1> DEFINE Bad == {m \in Nat : ~\E f : IsLoading(f, items, m)}
  <1> SUFFICES ASSUME Bad # {} PROVE FALSE
    OBVIOUS
  <1>1. PICK m \in Bad : \A k \in Bad : m <= k
    BY LeastNumber
  <1>2. CASE m = 0
    <2> DEFINE g == [i \in 0..0 |-> Nothing]
    <2>1. g = [i \in 0..0 |-> IF i = 0 THEN Nothing ELSE LoadItem(g[i - 1], items[i])]
      OBVIOUS
    <2> HIDE DEF g
    <2> QED
      BY <1>1, <1>2, <2>1 DEF IsLoading
  <1>3. CASE m # 0
    <2>1. m - 1 \in Nat /\ m - 1 \notin Bad
      BY <1>1, <1>3
    <2>2. PICK f : IsLoading(f, items, m - 1)
      BY <2>1
    <2> DEFINE g == [i \in 0..m |-> IF i = m THEN LoadItem(f[m - 1], items[m]) ELSE f[i]]
    <2>3. ASSUME NEW i \in 0..m
          PROVE  g[i] = IF i = 0 THEN Nothing ELSE LoadItem(g[i - 1], items[i])
      <3>1. CASE i = m
        BY <3>1, <1>3, <1>1
      <3>2. CASE i # m
        <4>1. i \in 0..(m - 1) /\ g[i] = f[i]
          BY <3>2
        <4>2. f[i] = IF i = 0 THEN Nothing ELSE LoadItem(f[i - 1], items[i])
          BY <2>2, <4>1 DEF IsLoading
        <4>3. i # 0 => g[i - 1] = f[i - 1]
          BY <4>1
        <4> QED
          BY <4>1, <4>2, <4>3
      <3> QED
        BY <3>1, <3>2
    <2>4. g = [i \in 0..m |-> g[i]]
      OBVIOUS
    <2> HIDE DEF g
    <2>5. IsLoading(g, items, m)
      BY <2>3, <2>4 DEF IsLoading
    <2> QED
      BY <1>1, <2>5
  <1> QED
    BY <1>2, <1>3

\* The first commands of a file load the same whatever follows them.
LEMMA LoadingAgrees ==
    ASSUME NEW f, NEW g, NEW s, NEW t, NEW m \in Nat, NEW n \in Nat, NEW k \in Nat,
           IsLoading(f, s, m), IsLoading(g, t, n), k <= m, k <= n,
           \A i \in 1..k : s[i] = t[i]
    PROVE  f[k] = g[k]
  <1> DEFINE Bad == {i \in 0..k : f[i] # g[i]}
  <1> SUFFICES ASSUME Bad # {} PROVE FALSE
    OBVIOUS
  <1>1. PICK i \in Bad : \A j \in Bad : i <= j
    <2>1. Bad \in SUBSET Nat
      OBVIOUS
    <2> HIDE DEF Bad
    <2> QED
      BY <2>1, LeastNumber
  <1>2. /\ f[i] = IF i = 0 THEN Nothing ELSE LoadItem(f[i - 1], s[i])
        /\ g[i] = IF i = 0 THEN Nothing ELSE LoadItem(g[i - 1], t[i])
    <2>1. i \in 0..m /\ i \in 0..n
      BY <1>1
    <2> QED
      BY <2>1 DEF IsLoading
  <1>3. CASE i = 0
    BY <1>1, <1>2, <1>3
  <1>4. CASE i # 0
    <2>1. i - 1 \in 0..k /\ i - 1 \notin Bad /\ s[i] = t[i]
      BY <1>1, <1>4
    <2> QED
      BY <1>1, <1>2, <1>4, <2>1
  <1> QED
    BY <1>3, <1>4

\* Loading is the function its recursion describes.
LEMMA LoadingIs ==
    ASSUME NEW items, Len(items) \in Nat
    PROVE  IsLoading(Loading(items), items, Len(items))
  <1> DEFINE Body(f) == [i \in 0..Len(items) |-> IF i = 0 THEN Nothing ELSE LoadItem(f[i - 1], items[i])]
  <1>1. \E f : f = Body(f)
    BY LoadingExists DEF IsLoading
  <1>2. Loading(items) = CHOOSE f : f = Body(f)
    BY DEF Loading
  <1> HIDE DEF Body
  <1>3. Loading(items) = Body(Loading(items))
    BY <1>1, <1>2
  <1> QED
    BY <1>3 DEF Body, IsLoading

\* The steps of a load.
LEMMA LoadingSteps ==
    ASSUME NEW items, Len(items) \in Nat
    PROVE  /\ Loading(items)[0] = Nothing
           /\ \A i \in 1..Len(items) : Loading(items)[i] = LoadItem(Loading(items)[i - 1], items[i])
  BY LoadingIs DEF IsLoading

\* Files with the same first commands.
LEMMA LoadingOfPrefix ==
    ASSUME NEW s, NEW t, Len(s) \in Nat, Len(t) \in Nat, NEW k \in Nat, k <= Len(s), k <= Len(t),
           \A i \in 1..k : s[i] = t[i]
    PROVE  Loading(s)[k] = Loading(t)[k]
  BY LoadingIs, LoadingAgrees

LoadState == [data : Data, db : Nat, open : BOOLEAN, queue : Data]

\* One command of a file leaves a state of the loader.
LEMMA LoadItemType ==
    ASSUME NEW v \in LoadState, NEW item \in Command \cup [t : {"snap"}, v : Data]
    PROVE  LoadItem(v, item) \in LoadState
  <1>1. CASE item \in [t : {"snap"}, v : Data]
    BY <1>1 DEF LoadItem, LoadState
  <1>2. CASE item.t = "select" /\ item \in Command
    BY <1>2 DEF LoadItem, LoadState, Command
  <1>3. CASE item.t = "multi" /\ item \in Command
    <2>1. <<>> \in Data
      BY DEF Data
    <2> QED
      BY <1>3, <2>1 DEF LoadItem, LoadState, Command
  <1>4. CASE item.t = "write" /\ item \in Command
    <2>1. <<v.db, item.v>> \in Nat \X Nat
      BY <1>4 DEF LoadState, Command
    <2>2. Append(v.queue, <<v.db, item.v>>) \in Data /\ Append(v.data, <<v.db, item.v>>) \in Data
      BY <2>1 DEF LoadState, Data
    <2> QED
      BY <1>4, <2>2 DEF LoadItem, LoadState, Command
  <1>5. CASE item.t = "exec" /\ item \in Command
    <2>1. v.data \o v.queue \in Data
      BY DEF LoadState, Data
    <2> QED
      BY <1>5, <2>1 DEF LoadItem, LoadState, Command
  <1> QED
    BY <1>1, <1>2, <1>3, <1>4, <1>5 DEF Command

\* So does every part of a file.
LEMMA LoadingType ==
    ASSUME NEW items \in Files, NEW n \in 0..Len(items)
    PROVE  Loading(items)[n] \in LoadState
  <1> DEFINE Bad == {i \in 0..Len(items) : Loading(items)[i] \notin LoadState}
  <1> SUFFICES ASSUME Bad # {} PROVE FALSE
    OBVIOUS
  <1>0. Len(items) \in Nat
    BY DEF Files
  <1>1. PICK i \in Bad : \A j \in Bad : i <= j
    <2>1. Bad \in SUBSET Nat
      OBVIOUS
    <2> HIDE DEF Bad
    <2> QED
      BY <2>1, LeastNumber
  <1>2. CASE i = 0
    <2>1. Nothing \in LoadState
      BY DEF Nothing, LoadState, Data
    <2> QED
      BY <1>0, <1>1, <1>2, <2>1, LoadingSteps
  <1>3. CASE i # 0
    <2>1. i \in 1..Len(items) /\ i - 1 \in 0..Len(items) /\ i - 1 \notin Bad
      BY <1>0, <1>1, <1>3
    <2>2. items[i] \in Command \cup [t : {"snap"}, v : Data]
      BY <2>1 DEF Files
    <2>3. Loading(items)[i] = LoadItem(Loading(items)[i - 1], items[i])
      BY <1>0, <2>1, LoadingSteps
    <2> QED
      BY <1>1, <2>1, <2>2, <2>3, LoadItemType
  <1> QED
    BY <1>2, <1>3

\* A snapshot comes first, and there are no transactions within transactions.
WellFormed(items) ==
    \A i \in 1..Len(items) :
        /\ items[i].t = "snap" => i = 1
        /\ items[i].t = "multi" => ~Loading(items)[i - 1].open

\* The beginning of a file.
LEMMA Beginning ==
    ASSUME NEW items \in Files, NEW k \in 0..Len(items)
    PROVE  /\ SubSeq(items, 1, k) \in Files /\ Len(SubSeq(items, 1, k)) = k
           /\ \A i \in 1..k : SubSeq(items, 1, k)[i] = items[i]
           /\ \A i \in 0..k : Loading(SubSeq(items, 1, k))[i] = Loading(items)[i]
           /\ WellFormed(items) => WellFormed(SubSeq(items, 1, k))
  <1> DEFINE kept == SubSeq(items, 1, k)
  <1>1. kept \in Files /\ Len(kept) = k /\ \A i \in 1..k : kept[i] = items[i]
    BY DEF Files
  <1>2. \A i \in 0..k : Loading(kept)[i] = Loading(items)[i]
    <2> SUFFICES ASSUME NEW i \in 0..k PROVE Loading(kept)[i] = Loading(items)[i]
      OBVIOUS
    <2>1. /\ Len(items) \in Nat /\ Len(kept) \in Nat /\ i \in Nat
          /\ i <= Len(kept) /\ i <= Len(items)
      BY <1>1 DEF Files
    <2>2. \A j \in 1..i : kept[j] = items[j]
      BY <1>1
    <2> HIDE DEF kept
    <2> QED
      BY <1>1, <2>1, <2>2, LoadingOfPrefix
  <1>3. WellFormed(items) => WellFormed(kept)
    <2> HIDE DEF kept
    <2> SUFFICES ASSUME WellFormed(items), NEW i \in 1..k
                 PROVE  /\ kept[i].t = "snap" => i = 1
                        /\ kept[i].t = "multi" => ~Loading(kept)[i - 1].open
      BY <1>1 DEF WellFormed
    <2>1. i \in 1..Len(items) /\ i - 1 \in 0..k
      BY DEF Files
    <2> QED
      BY <1>1, <1>2, <2>1 DEF WellFormed
  <1> QED
    BY <1>1, <1>2, <1>3

\* More at the end of a file.
LEMMA Longer ==
    ASSUME NEW a \in Files, NEW b \in Files
    PROVE  /\ a \o b \in Files /\ Len(a \o b) = Len(a) + Len(b)
           /\ \A i \in 1..Len(a) : (a \o b)[i] = a[i]
           /\ \A i \in 0..Len(a) : Loading(a \o b)[i] = Loading(a)[i]
  <1> DEFINE c == a \o b
  <1>1. c \in Files /\ Len(c) = Len(a) + Len(b) /\ \A i \in 1..Len(a) : c[i] = a[i]
    BY DEF Files
  <1>2. ASSUME NEW i \in 0..Len(a) PROVE Loading(c)[i] = Loading(a)[i]
    <2>1. Len(a) \in Nat /\ Len(c) \in Nat /\ i <= Len(c) /\ i <= Len(a) /\ i \in Nat
      BY <1>1 DEF Files
    <2>2. \A j \in 1..i : c[j] = a[j]
      BY <1>1
    <2> HIDE DEF c
    <2> QED
      BY <1>1, <2>1, <2>2, LoadingOfPrefix
  <1> QED
    BY <1>1, <1>2

\* A beginning of a well-formed file is well-formed.
LEMMA WellFormedStart ==
    ASSUME NEW a \in Files, NEW b \in Files, WellFormed(a \o b)
    PROVE  WellFormed(a)
  <1> DEFINE c == a \o b
  <1>1. /\ Len(c) = Len(a) + Len(b) /\ Len(a) \in Nat /\ Len(b) \in Nat
        /\ \A i \in 1..Len(a) : c[i] = a[i]
        /\ \A i \in 0..Len(a) : Loading(c)[i] = Loading(a)[i]
    BY Longer DEF Files
  <1>2. WellFormed(c)
    OBVIOUS
  <1> HIDE DEF c
  <1> SUFFICES ASSUME NEW i \in 1..Len(a)
               PROVE  /\ a[i].t = "snap" => i = 1
                      /\ a[i].t = "multi" => ~Loading(a)[i - 1].open
    BY DEF WellFormed
  <1>3. i \in 1..Len(c) /\ i - 1 \in 0..Len(a)
    BY <1>1
  <1> QED
    BY <1>1, <1>2, <1>3 DEF WellFormed

Pre(s, t) == Len(s) <= Len(t) /\ \A i \in 1..Len(s) : s[i] = t[i]

\* The prefixes of the proofs are those of SequencesExt.
LEMMA PreIsPrefix ==
    ASSUME NEW s \in Data, NEW t \in Data, Pre(s, t)
    PROVE  IsPrefix(s, t)
  <1>1. Len(s) \in Nat /\ Len(t) \in Nat /\ Len(s) <= Len(t)
    BY DEF Data, Pre
  <1>2. SubSeq(s, 1, Len(s)) = [i \in 1..Len(s) |-> s[i]]
    BY <1>1 DEF Data
  <1>3. SubSeq(t, 1, Len(s)) = [i \in 1..Len(s) |-> t[i]]
    BY <1>1 DEF Data
  <1> QED
    BY <1>1, <1>2, <1>3 DEF IsPrefix, Pre

\* loadAppendOnlyFile never takes back what it has loaded.
LEMMA LoadItemGrows ==
    ASSUME NEW v \in LoadState, NEW item \in Command
    PROVE  Pre(v.data, LoadItem(v, item).data)
  <1>0. v.data \in Data /\ v.queue \in Data /\ Len(v.data) \in Nat /\ Len(v.queue) \in Nat
    BY DEF LoadState, Data
  <1>1. CASE item.t # "write" /\ item.t # "exec"
    <2>1. LoadItem(v, item).data = v.data
      BY <1>1 DEF LoadItem, LoadState, Command
    <2> QED
      BY <2>1, <1>0 DEF Pre
  <1>2. CASE item.t = "write"
    <2>1. LoadItem(v, item).data \in {v.data, Append(v.data, <<v.db, item.v>>)}
      BY <1>2 DEF LoadItem, LoadState
    <2>2. <<v.db, item.v>> \in Nat \X Nat
      BY DEF LoadState, Command
    <2>3. Pre(v.data, Append(v.data, <<v.db, item.v>>)) /\ Pre(v.data, v.data)
      BY <1>0, <2>2 DEF Pre, Data
    <2> QED
      BY <2>1, <2>3
  <1>3. CASE item.t = "exec"
    <2>1. LoadItem(v, item).data = v.data \o v.queue
      BY <1>3 DEF LoadItem, LoadState
    <2> DEFINE a == v.data
               b == v.queue
    <2>a. a \in Seq(Nat \X Nat) /\ b \in Seq(Nat \X Nat)
      BY <1>0 DEF Data
    <2> HIDE DEF a, b
    <2>b. Len(a \o b) = Len(a) + Len(b) /\ \A i \in 1..Len(a) : (a \o b)[i] = a[i]
      BY <2>a
    <2>c. Pre(a, a \o b)
      BY <2>a, <2>b DEF Pre
    <2>2. Pre(v.data, v.data \o v.queue)
      BY <2>c DEF a, b
    <2> QED
      BY <2>1, <2>2
  <1> QED
    BY <1>1, <1>2, <1>3

\* What the beginning of a file loads is the beginning of what the file loads.
LEMMA LoadingGrows ==
    ASSUME NEW items \in Files, WellFormed(items), NEW n \in 0..Len(items), NEW m \in 0..n
    PROVE  Pre(Loading(items)[m].data, Loading(items)[n].data)
  <1> DEFINE D(i) == Loading(items)[i].data
             Bad == {i \in m..n : ~Pre(D(m), D(i))}
  <1> SUFFICES ASSUME Bad # {} PROVE FALSE
    OBVIOUS
  <1>0. Len(items) \in Nat /\ m \in Nat /\ n \in Nat
    BY DEF Files
  <1>1. PICK i \in Bad : \A j \in Bad : i <= j
    <2>1. Bad \in SUBSET Nat
      BY <1>0
    <2> HIDE DEF Bad
    <2> QED
      BY <2>1, LeastNumber
  <1>2. \A j \in 0..n : D(j) \in Data /\ Len(D(j)) \in Nat
    BY <1>0, LoadingType DEF LoadState, Data
  <1>3. CASE i = m
    BY <1>0, <1>1, <1>2, <1>3 DEF Pre
  <1>4. CASE i # m
    <2>1. i \in 1..Len(items) /\ i - 1 \in m..n /\ i - 1 \notin Bad /\ i - 1 \in 0..n
      BY <1>0, <1>1, <1>4
    <2>2. Pre(D(m), D(i - 1))
      BY <2>1
    <2>3. D(i) = LoadItem(Loading(items)[i - 1], items[i]).data
      BY <1>0, <2>1, LoadingSteps
    <2>4. items[i] \in Command \cup [t : {"snap"}, v : Data]
      BY <2>1 DEF Files
    <2>5. CASE items[i] \in Command
      <3>1. Loading(items)[i - 1] \in LoadState
        BY <1>0, <2>1, LoadingType
      <3>2. Pre(D(i - 1), D(i))
        BY <2>3, <2>5, <3>1, LoadItemGrows
      <3>3. Len(D(m)) \in Nat /\ Len(D(i - 1)) \in Nat /\ Len(D(i)) \in Nat
        BY <1>0, <1>1, <1>2, <2>1
      <3>4. Pre(D(m), D(i))
        <4> HIDE DEF D
        <4> QED
          BY <2>2, <3>2, <3>3 DEF Pre
      <3> QED
        BY <1>1, <3>4
    <2>6. CASE items[i] \in [t : {"snap"}, v : Data]
      <3>1. i = 1 /\ m = 0
        BY <1>0, <1>1, <1>4, <2>1, <2>6 DEF WellFormed
      <3>2. D(m) = <<>>
        BY <1>0, <3>1, LoadingSteps DEF Nothing
      <3>3. Pre(D(m), D(i))
        BY <3>2, <1>2, <1>1, <1>0 DEF Pre
      <3> QED
        BY <1>1, <3>3
    <2> QED
      BY <2>4, <2>5, <2>6
  <1> QED
    BY <1>3, <1>4

\* A transaction that was not closed has been opened.
LEMMA OpenHasMulti ==
    ASSUME NEW items \in Files, NEW n \in 0..Len(items), Loading(items)[n].open
    PROVE  \E i \in 1..n : items[i].t = "multi"
  <1> DEFINE Set == {i \in 0..n : Loading(items)[i].open}
  <1>0. Len(items) \in Nat /\ n \in Nat
    BY DEF Files
  <1>1. PICK i \in Set : \A j \in Set : i <= j
    <2>1. Set \in SUBSET Nat /\ Set # {}
      BY <1>0
    <2> HIDE DEF Set
    <2> QED
      BY <2>1, LeastNumber
  <1>2. i # 0
    BY <1>0, <1>1, LoadingSteps DEF Nothing
  <1>3. i \in 1..Len(items) /\ i - 1 \in 0..Len(items) /\ i - 1 \notin Set /\ i - 1 \in 0..n
    BY <1>0, <1>1, <1>2
  <1>4. Loading(items)[i] = LoadItem(Loading(items)[i - 1], items[i])
    BY <1>0, <1>3, LoadingSteps
  <1>5. Loading(items)[i - 1] \in LoadState /\ ~Loading(items)[i - 1].open
    BY <1>3, LoadingType
  <1>6. items[i] \in Command \cup [t : {"snap"}, v : Data]
    BY <1>3 DEF Files
  <1>7. items[i].t = "multi"
    <2> DEFINE v == Loading(items)[i - 1]
               item == items[i]
    <2>1. v \in LoadState /\ ~v.open /\ LoadItem(v, item).open
      BY <1>1, <1>4, <1>5
    <2>2. item.t \in {"snap", "select", "multi", "write", "exec"}
      BY <1>6 DEF Command
    <2> HIDE DEF v, item
    <2>3. item.t = "multi"
      BY <2>1, <2>2 DEF LoadItem, LoadState
    <2> QED
      BY <2>3 DEF item
  <1> QED
    BY <1>3, <1>7, <1>1

\* loadAppendOnlyFile keeps the file up to a transaction that is not complete.
LEMMA ValidIsBeginning ==
    ASSUME NEW items \in Files, WellFormed(items)
    PROVE  \E k \in 0..Len(items) :
              ValidUpTo(items) = SubSeq(items, 1, k) /\ ~Loading(items)[k].open
  <1>0. Len(items) \in Nat
    BY DEF Files
  <1>1. CASE ~Load(items).open
    <2>1. ValidUpTo(items) = SubSeq(items, 1, Len(items))
      BY <1>1, SubSeqFull DEF ValidUpTo, Files
    <2> QED
      BY <1>0, <1>1, <2>1 DEF Load
  <1>2. CASE Load(items).open
    <2> DEFINE P(i) == items[i + 1].t = "multi" /\ \A j \in i + 2..Len(items) : items[j].t # "multi"
               Back == {b \in 0..Len(items) : Len(items) - b >= 1 /\ items[Len(items) - b].t = "multi"}
    <2>1. PICK i \in 1..Len(items) : items[i].t = "multi"
      BY <1>0, <1>2, OpenHasMulti DEF Load
    <2>2. Len(items) - i \in Back
      BY <1>0, <2>1
    <2>3. PICK b \in Back : \A c \in Back : b <= c
      <3>1. Back \in SUBSET Nat
        BY <1>0
      <3> HIDE DEF Back
      <3> QED
        BY <2>2, <3>1, LeastNumber
    <2>4. Len(items) - b - 1 \in 0..Len(items) - 1 /\ P(Len(items) - b - 1)
      <3>1. Len(items) - b - 1 \in 0..Len(items) - 1 /\ items[Len(items) - b - 1 + 1].t = "multi"
        BY <1>0, <2>3
      <3>2. ASSUME NEW j \in (Len(items) - b - 1) + 2..Len(items), items[j].t = "multi" PROVE FALSE
        <4>1. Len(items) - j \in 0..Len(items) /\ Len(items) - (Len(items) - j) = j /\ j >= 1
          BY <1>0, <3>1
        <4>2. Len(items) - j \in Back
          BY <3>2, <4>1
        <4>3. b <= Len(items) - j
          BY <2>3, <4>2
        <4>4. b \in Nat /\ j \in Nat /\ j >= Len(items) - b + 1
          BY <1>0, <2>3, <4>1
        <4> QED
          BY <1>0, <4>3, <4>4
      <3> QED
        BY <3>1, <3>2
    <2> DEFINE k == CHOOSE x \in 0..Len(items) - 1 : P(x)
    <2>5. k \in 0..Len(items) - 1 /\ P(k)
      BY <2>4
    <2>6. ValidUpTo(items) = SubSeq(items, 1, k)
      BY <1>2 DEF ValidUpTo
    <2> HIDE DEF k
    <2>7. ~Loading(items)[k].open
      <3>1. k + 1 \in 1..Len(items) /\ items[k + 1].t = "multi" /\ (k + 1) - 1 = k
        BY <1>0, <2>5
      <3> QED
        BY <3>1 DEF WellFormed
    <2> QED
      BY <1>0, <2>5, <2>6, <2>7
  <1> QED
    BY <1>1, <1>2

-----------------------------------------------------------------------------
(* A file that holds the dataset *)

\* The file loads the data, and the next command goes to database sel of it unless
\* that is -1.
Holds(items, data, sel) ==
    /\ items \in Files /\ WellFormed(items)
    /\ Load(items).data = data /\ ~Load(items).open
    /\ sel # -1 => Load(items).db = sel

\* One more command.
LEMMA OneMore ==
    ASSUME NEW items \in Files, WellFormed(items), NEW item \in Command,
           item.t = "multi" => ~Load(items).open
    PROVE  /\ Append(items, item) \in Files /\ WellFormed(Append(items, item))
           /\ Load(Append(items, item)) = LoadItem(Load(items), item)
           /\ Load(items) \in LoadState
  <1> DEFINE more == Append(items, item)
             n == Len(items)
  <1>1. n \in Nat /\ more \in Files /\ Len(more) = n + 1 /\ more[n + 1] = item
         /\ \A i \in 1..n : more[i] = items[i]
    BY DEF Files
  <1> HIDE DEF more
  <1>2. \A i \in 0..n : Loading(more)[i] = Loading(items)[i]
    <2> SUFFICES ASSUME NEW i \in 0..n PROVE Loading(more)[i] = Loading(items)[i]
      OBVIOUS
    <2>1. i \in Nat /\ i <= Len(more) /\ i <= Len(items) /\ Len(more) \in Nat /\ Len(items) \in Nat
      BY <1>1
    <2>2. \A j \in 1..i : more[j] = items[j]
      BY <1>1
    <2> QED
      BY <2>1, <2>2, LoadingOfPrefix
  <1>3. Loading(more)[n + 1] = LoadItem(Loading(more)[n], item)
    <2>1. n + 1 \in 1..Len(more) /\ (n + 1) - 1 = n /\ Len(more) \in Nat
      BY <1>1
    <2> QED
      BY <1>1, <2>1, LoadingSteps
  <1>4. Load(more) = LoadItem(Load(items), item)
    BY <1>1, <1>2, <1>3 DEF Load
  <1>5. ASSUME NEW i \in 1..Len(more)
        PROVE  /\ more[i].t = "snap" => i = 1
               /\ more[i].t = "multi" => ~Loading(more)[i - 1].open
    <2>1. CASE i = n + 1
      <3>1. more[i] = item /\ i - 1 = n /\ Loading(more)[n] = Load(items)
        BY <1>1, <1>2, <2>1 DEF Load
      <3> QED
        BY <3>1 DEF Command
    <2>2. CASE i # n + 1
      <3>1. i \in 1..n /\ i - 1 \in 0..n
        BY <1>1, <2>2
      <3> QED
        BY <1>1, <1>2, <3>1 DEF WellFormed
    <2> QED
      BY <2>1, <2>2
  <1>6. WellFormed(more)
    BY <1>5 DEF WellFormed
  <1>7. Load(items) \in LoadState
    BY <1>1, LoadingType DEF Load
  <1> QED
    BY <1>1, <1>4, <1>6, <1>7 DEF more

\* A write outside of a transaction.
LEMMA LoadWrite ==
    ASSUME NEW v \in LoadState, NEW item, item.t = "write"
    PROVE  /\ v.open => LoadItem(v, item) = [v EXCEPT !.queue = Append(v.queue, <<v.db, item.v>>)]
           /\ ~v.open => LoadItem(v, item) = [v EXCEPT !.data = Append(v.data, <<v.db, item.v>>)]
  <1>1. LoadItem(v, item) = IF v.open THEN [v EXCEPT !.queue = Append(v.queue, <<v.db, item.v>>)]
                            ELSE [v EXCEPT !.data = Append(v.data, <<v.db, item.v>>)]
    BY DEF LoadItem
  <1> QED
    BY <1>1

Selecting(sel, d) == IF sel # d THEN <<Item("select", d)>> ELSE <<>>

\* SELECT before the command, when the last one written was for another database (feedAppendOnlyFile).
LEMMA HoldsSelected ==
    ASSUME NEW items, NEW data, NEW sel, Holds(items, data, sel), NEW d \in Nat
    PROVE  Holds(items \o Selecting(sel, d), data, d)
  <1>1. CASE sel # d
    <2> DEFINE item == Item("select", d)
    <2>1. item \in Command /\ item.t = "select" /\ item.v = d
      BY DEF Item, Command
    <2>2. items \o Selecting(sel, d) = Append(items, item)
      BY <1>1, <2>1, AppendIsConcat DEF Selecting, Holds, Files
    <2> HIDE DEF item
    <2>3. Load(Append(items, item)) = [Load(items) EXCEPT !.db = d] /\ Load(items) \in LoadState
      BY <2>1, OneMore DEF LoadItem, Holds
    <2> QED
      BY <2>1, <2>2, <2>3, OneMore DEF Holds, LoadState
  <1>2. CASE sel = d
    <2>1. items \o Selecting(sel, d) = items
      BY <1>2, ConcatEmptySeq DEF Selecting, Holds, Files
    <2> QED
      BY <1>2, <2>1 DEF Holds
  <1> QED
    BY <1>1, <1>2

\* A write added to a file that holds the dataset.
LEMMA HoldsWrite ==
    ASSUME NEW items, NEW data, NEW d \in Nat, Holds(items, data, d), NEW n \in Nat
    PROVE  Holds(items \o <<Item("write", n)>>, Append(data, <<d, n>>), d)
  <1> DEFINE item == Item("write", n)
  <1>1. item \in Command /\ item.t = "write" /\ item.v = n
    BY DEF Item, Command
  <1>2. items \o <<item>> = Append(items, item)
    BY <1>1, AppendIsConcat DEF Holds, Files
  <1> HIDE DEF item
  <1>a. items \in Files /\ WellFormed(items) /\ ~Load(items).open /\ Load(items).db = d
    BY DEF Holds
  <1>b. Load(items) \in LoadState /\ Load(Append(items, item)) = LoadItem(Load(items), item)
    BY <1>1, <1>a, OneMore
  <1>3. /\ Load(Append(items, item)) = [Load(items) EXCEPT !.data = Append(@, <<d, n>>)]
        /\ Load(items) \in LoadState
    BY <1>1, <1>a, <1>b, LoadWrite
  <1>4. Holds(Append(items, item), Append(data, <<d, n>>), d)
    BY <1>1, <1>3, OneMore DEF Holds, LoadState
  <1> QED
    BY <1>2, <1>4 DEF item

\* A transaction of two writes.
Transaction(n) == <<Item("multi", 0), Item("write", n), Item("write", n), Item("exec", 0)>>

\* A transaction writes its value twice.
LEMMA Twice == ASSUME NEW p PROVE Append(<<p>>, p) = <<p, p>>
  <1>1. <<p>> \in Seq({p}) /\ <<p, p>> \in Seq({p}) /\ Append(<<p>>, p) \in Seq({p})
    OBVIOUS
  <1>2. Len(<<p>>) = 1 /\ Len(<<p, p>>) = 2 /\ Len(Append(<<p>>, p)) = 2
    OBVIOUS
  <1>3. \A i \in 1..2 : Append(<<p>>, p)[i] = p /\ <<p, p>>[i] = p
    BY <1>1, <1>2, ElementOfSeq
  <1> QED
    BY <1>1, <1>2, <1>3, SeqEqual

\* MULTI, the writes and EXEC added to a file that holds the dataset.
LEMMA HoldsTransaction ==
    ASSUME NEW items, NEW data, NEW d \in Nat, Holds(items, data, d), NEW n \in Nat
    PROVE  Holds(items \o Transaction(n), data \o <<<<d, n>>, <<d, n>>>>, d)
  <1> DEFINE m == Item("multi", 0)
             w == Item("write", n)
             e == Item("exec", 0)
             s1 == Append(items, m)
             s2 == Append(s1, w)
             s3 == Append(s2, w)
             s4 == Append(s3, e)
  <1>1. /\ m \in Command /\ m.t = "multi" /\ w \in Command /\ w.t = "write" /\ w.v = n
        /\ e \in Command /\ e.t = "exec"
    BY DEF Item, Command
  <1>2. items \o Transaction(n) = s4
    <2>1. items \in Seq(Command \cup [t : {"snap"}, v : Data])
      BY DEF Holds, Files
    <2> HIDE DEF m, w, e
    <2>2. items \o <<m, w, w, e>> = s4
      BY <1>1, <2>1
    <2> QED
      BY <2>2 DEF Transaction, m, w, e
  <1> DEFINE v0 == Load(items)
  <1>3. items \in Files /\ WellFormed(items) /\ ~v0.open /\ v0.db = d /\ v0.data = data
    BY DEF Holds
  <1>4. d # -1
    OBVIOUS
  <1> HIDE DEF m, w, e
  <1>5. /\ s1 \in Files /\ WellFormed(s1) /\ v0 \in LoadState
        /\ Load(s1) = [v0 EXCEPT !.open = TRUE, !.queue = <<>>]
    BY <1>1, <1>3, OneMore DEF LoadItem
  <1> HIDE DEF s1, v0
  <1>6. Load(s1).open /\ Load(s1).queue = <<>> /\ Load(s1).db = d /\ Load(s1).data = data
    BY <1>3, <1>5 DEF LoadState
  <1>7. /\ s2 \in Files /\ WellFormed(s2) /\ Load(s1) \in LoadState
        /\ Load(s2) = [Load(s1) EXCEPT !.queue = Append(<<>>, <<d, n>>)]
    <2>1. s2 \in Files /\ WellFormed(s2) /\ Load(s1) \in LoadState /\ Load(s2) = LoadItem(Load(s1), w)
      BY <1>1, <1>5, OneMore
    <2> QED
      BY <1>1, <1>6, <2>1, LoadWrite
  <1> HIDE DEF s2
  <1>8. Load(s2).open /\ Load(s2).queue = <<<<d, n>>>> /\ Load(s2).db = d /\ Load(s2).data = data
    BY <1>6, <1>7 DEF LoadState
  <1>9. /\ s3 \in Files /\ WellFormed(s3) /\ Load(s2) \in LoadState
        /\ Load(s3) = [Load(s2) EXCEPT !.queue = Append(<<<<d, n>>>>, <<d, n>>)]
    <2>1. s3 \in Files /\ WellFormed(s3) /\ Load(s2) \in LoadState /\ Load(s3) = LoadItem(Load(s2), w)
      BY <1>1, <1>7, OneMore
    <2> QED
      BY <1>1, <1>8, <2>1, LoadWrite
  <1> HIDE DEF s3
  <1>10. /\ Load(s3).open /\ Load(s3).queue = <<<<d, n>>, <<d, n>>>>
         /\ Load(s3).db = d /\ Load(s3).data = data
    <2>1. Append(<<<<d, n>>>>, <<d, n>>) = <<<<d, n>>, <<d, n>>>>
      BY Twice
    <2> QED
      BY <1>8, <1>9, <2>1 DEF LoadState
  <1>11. /\ s4 \in Files /\ WellFormed(s4) /\ Load(s3) \in LoadState
         /\ Load(s4) = [Load(s3) EXCEPT !.data = data \o <<<<d, n>>, <<d, n>>>>, !.open = FALSE]
    <2>1. s4 \in Files /\ WellFormed(s4) /\ Load(s3) \in LoadState /\ Load(s4) = LoadItem(Load(s3), e)
      BY <1>1, <1>9, OneMore
    <2>2. LoadItem(Load(s3), e) = [Load(s3) EXCEPT !.data = @ \o Load(s3).queue, !.open = FALSE]
      BY <1>1 DEF LoadItem
    <2> QED
      BY <1>10, <2>1, <2>2
  <1> HIDE DEF s4
  <1>12. Load(s4).data = data \o <<<<d, n>>, <<d, n>>>> /\ ~Load(s4).open /\ Load(s4).db = d
    BY <1>10, <1>11 DEF LoadState
  <1> QED
    BY <1>2, <1>11, <1>12 DEF Holds

\* A rewritten file starts with the snapshot.
LEMMA HoldsSnapshot ==
    ASSUME NEW data \in Data
    PROVE  Holds(<<Snap(data)>>, data, -1)
  <1> DEFINE file == <<Snap(data)>>
  <1>1. Snap(data) \in [t : {"snap"}, v : Data] /\ Snap(data).t = "snap" /\ Snap(data).v = data
    BY DEF Snap
  <1>2. file \in Files /\ Len(file) = 1 /\ file[1] = Snap(data)
    BY <1>1 DEF Files
  <1> HIDE DEF file
  <1>3. Loading(file)[0] = Nothing /\ Loading(file)[1] = LoadItem(Nothing, Snap(data))
    <2>1. Len(file) \in Nat /\ 1 \in 1..Len(file) /\ 1 - 1 = 0
      BY <1>2
    <2> QED
      BY <1>2, <2>1, LoadingSteps
  <1>4. Load(file) = [Nothing EXCEPT !.data = data]
    BY <1>1, <1>2, <1>3 DEF Load, LoadItem
  <1>5. Load(file).data = data /\ ~Load(file).open
    BY <1>4 DEF Nothing
  <1>6. WellFormed(file)
    BY <1>1, <1>2 DEF WellFormed
  <1> QED
    BY <1>2, <1>5, <1>6 DEF Holds, file

\* The snapshot a child writes holds the dataset it was forked with.
LEMMA HoldsData ==
    ASSUME NEW items, NEW data, NEW sel, Holds(items, data, sel)
    PROVE  data \in Data /\ Holds(items, data, -1)
  <1>1. Len(items) \in 0..Len(items)
    BY DEF Holds, Files
  <1>2. Load(items) \in LoadState
    BY <1>1, LoadingType DEF Holds, Load
  <1> QED
    BY <1>2 DEF Holds, LoadState

-----------------------------------------------------------------------------
(* The inductive invariant *)

\* Every field the proofs look at holds a value of its kind; a rewrite and an RDB child
\* do not run at once.
LiveChild == {c \in ChildRecord : c.phase # "renamed"}

ServerOK(s) ==
    /\ DOMAIN s = ServerFields
    /\ s.data \in Data /\ s.acked \in 0..Len(s.data) /\ s.owed \in BOOLEAN
    /\ s.state \in {"on", "wait", "off"} /\ s.sel \in Nat \cup {-1}
    /\ s.buf \in Seq(Command) /\ s.rbuf \in Seq(Command)
    /\ s.child \in LiveChild \cup {None} /\ s.rdb \in RdbRecord \cup {None}
    /\ s.child = None => s.rbuf = <<>>
    /\ s.child = None \/ s.rdb = None
    /\ s.loaded \in Nat /\ s.dirty \in Nat /\ s.before \in Nat

DiskOK(d, j) ==
    /\ DOMAIN d = {"aof", "rdb"} /\ DOMAIN d.aof = {"ino", "items", "synced", "fresh"}
    /\ d.aof.items \in Files /\ d.aof.ino \in Nat /\ d.aof.synced \in 0..Len(d.aof.items)
    /\ d.aof.fresh \in BOOLEAN /\ d.rdb \in Data
    /\ j \in Seq([ino : Nat, len : Nat])
    /\ \A i \in 1..Len(j) : j[i].ino <= d.aof.ino /\
                            (j[i].ino = d.aof.ino => j[i].len <= Len(d.aof.items))

\* The file and the buffer hold the dataset.
FileOK(s, d) == s.state = "on" => Holds(d.aof.items \o s.buf, s.data, s.sel)

\* What the child was forked with, has read and will be sent holds the dataset.
ToRewrite(s) == (<<Snap(s.child.snap)>> \o s.child.diff) \o (s.child.pipe \o s.rbuf)
RewriteOK(s) ==
    s.state # "off" /\ s.child # None /\ s.child.phase # "fail" =>
        /\ Holds(ToRewrite(s), s.data, s.sel)
        /\ s.child.phase = "exit" => s.child.pipe = <<>>

\* With appendfsync always what was acknowledged is synced, or at least in the file that
\* was renamed last.
Durable(d) == IF d.aof.fresh THEN Len(d.aof.items) ELSE d.aof.synced
AckedOK(s, d) == Len(Loading(d.aof.items)[Durable(d)].data) >= s.acked
OwedOK(s, d) == s.owed /\ s.buf = <<>> => Durable(d) = Len(d.aof.items)

\* What the RDB child has saved, or will, misses no more than was counted since.
DirtyOK(s, d) ==
    /\ Len(s.data) - Max({Len(d.rdb), s.loaded}) <= s.dirty
    /\ s.rdb # None /\ s.rdb.phase \in {"save", "exit"} =>
          /\ Len(s.rdb.snap) <= Len(s.data)
          /\ Len(s.data) - Len(s.rdb.snap) <= s.dirty - s.before
    /\ s.rdb # None /\ s.rdb.phase = "exit" => Len(s.rdb.snap) <= Len(d.rdb)

Safe(s, d, j) ==
    /\ ServerOK(s) /\ DiskOK(d, j)
    /\ FileOK(s, d) /\ RewriteOK(s) /\ DirtyOK(s, d)
    /\ Strict /\ s.state = "on" => AckedOK(s, d) /\ OwedOK(s, d)

ConfigOK ==
    /\ DOMAIN config = {"policy", "norw", "aof", "save"}
    /\ config.aof = (srv.state = "on")
    /\ DOMAIN budget = BudgetFields /\ budget.writes \in Seq({0, 1} \X BOOLEAN)

\* Outside backgroundRewriteDoneHandler.
Steady == ConfigOK /\ Safe(srv, disk, jobs)

\* Within it, when the new file has its name and the memory is yet to follow: the file
\* holds the dataset without the buffer.
Settled(s) == [s EXCEPT !.child = None, !.rbuf = <<>>, !.buf = <<>>, !.sel = -1]
Switching ==
    /\ ConfigOK /\ Renamed(srv) /\ Safe(Settled(srv), disk, jobs)
    /\ srv.buf \in Seq(Command) /\ srv.sel \in Nat \cup {-1} /\ srv.rdb = None
    /\ srv.state # "off" => Holds(disk.aof.items, srv.data, -1)

IInv == Steady \/ Switching

-----------------------------------------------------------------------------
(* Sequences of commands *)

\* Buffers are pieces of files.
LEMMA CommandsAreFiles ==
    ASSUME NEW s \in Seq(Command)
    PROVE  s \in Files
  BY SeqMonotonic DEF Files

\* Where a sequence is cut in three does not matter.
LEMMA Regrouped ==
    ASSUME NEW a \in Files, NEW b \in Files, NEW c \in Files
    PROVE  (a \o b) \o c = a \o (b \o c) /\ a \o b \in Files
  BY ConcatAssociative, ConcatProperties DEF Files

\* The same of four sequences, for the proofs to name.
Regroups(a, b, c) == (a \o b) \o c = a \o (b \o c)
RegroupsTwice(a, b, c, d) == (a \o (b \o c)) \o d = a \o (b \o (c \o d))

\* Sequences of a file can be regrouped.
LEMMA RegroupsAll ==
    ASSUME NEW a \in Files, NEW b \in Files, NEW c \in Files
    PROVE  Regroups(a, b, c)
  BY Regrouped DEF Regroups

\* Four of them.
LEMMA RegroupedTwice ==
    ASSUME NEW a \in Files, NEW b \in Files, NEW c \in Files, NEW d \in Files
    PROVE  RegroupsTwice(a, b, c, d)
  <1> DEFINE x == b \o c
  <1>1. x \in Files
    BY Regrouped
  <1>2. Regroups(b, c, d)
    BY RegroupsAll
  <1>3. x \o d = b \o (c \o d)
    BY <1>2 DEF Regroups
  <1> HIDE DEF x
  <1>4. Regroups(a, x, d)
    BY <1>1, RegroupsAll
  <1>5. (a \o x) \o d = a \o (x \o d)
    BY <1>4 DEF Regroups
  <1>6. (a \o x) \o d = a \o (b \o (c \o d))
    BY <1>3, <1>5
  <1> QED
    BY <1>6 DEF x, RegroupsTwice

\* A sequence is what comes before a cut and what comes after it.
LEMMA CutAt ==
    ASSUME NEW s \in Seq(Command), NEW n \in 0..Len(s)
    PROVE  /\ SubSeq(s, 1, n) \in Seq(Command) /\ SubSeq(s, n + 1, Len(s)) \in Seq(Command)
           /\ SubSeq(s, 1, n) \o SubSeq(s, n + 1, Len(s)) = s
           /\ Len(SubSeq(s, n + 1, Len(s))) = Len(s) - n
  <1> DEFINE a == SubSeq(s, 1, n)
             b == SubSeq(s, n + 1, Len(s))
  <1>0. Len(s) \in Nat /\ n \in Nat
    OBVIOUS
  <1>1. a \in Seq(Command) /\ Len(a) = n /\ \A i \in 1..n : a[i] = s[i]
    OBVIOUS
  <1>2. b \in Seq(Command) /\ Len(b) = Len(s) - n /\ \A i \in 1..(Len(s) - n) : b[i] = s[n + i]
    OBVIOUS
  <1> HIDE DEF a, b
  <1>3. a \o b \in Seq(Command) /\ Len(a \o b) = Len(s)
    BY <1>0, <1>1, <1>2
  <1>4. ASSUME NEW i \in 1..Len(s) PROVE (a \o b)[i] = s[i]
    <2>1. (a \o b)[i] = IF i <= n THEN a[i] ELSE b[i - n]
      BY <1>0, <1>1, <1>2, ConcatProperties
    <2>2. CASE i <= n
      BY <2>1, <2>2, <1>1
    <2>3. CASE i > n
      <3>1. i - n \in 1..(Len(s) - n) /\ n + (i - n) = i
        BY <1>0, <2>3
      <3> QED
        BY <2>1, <2>3, <3>1, <1>2, <1>0
    <2>4. i <= n \/ i > n
      BY <1>0
    <2> QED
      BY <2>2, <2>3, <2>4
  <1>5. a \o b = s
    BY <1>3, <1>4, SeqEqual
  <1> QED
    BY <1>1, <1>2, <1>5 DEF a, b

-----------------------------------------------------------------------------
(* Changes that the invariant does not see *)

Quiet(s, t) ==
    /\ DOMAIN t = ServerFields
    /\ t.data = s.data /\ t.acked = s.acked /\ t.owed = s.owed /\ t.state = s.state
    /\ t.buf = s.buf /\ t.sel = s.sel /\ t.child = s.child /\ t.rbuf = s.rbuf
    /\ t.rdb = s.rdb /\ t.loaded = s.loaded /\ t.dirty = s.dirty /\ t.before = s.before

\* Changes of fields that the invariant does not look at.
LEMMA QuietKeeps ==
    ASSUME NEW s, NEW t, NEW d, ServerOK(s), Quiet(s, t)
    PROVE  /\ ServerOK(t)
           /\ FileOK(s, d) => FileOK(t, d)
           /\ RewriteOK(s) => RewriteOK(t)
           /\ DirtyOK(s, d) => DirtyOK(t, d)
           /\ AckedOK(s, d) => AckedOK(t, d)
           /\ OwedOK(s, d) => OwedOK(t, d)
  <1>1. ServerOK(t)
    BY DEF ServerOK, Quiet
  <1>2. FileOK(s, d) => FileOK(t, d)
    BY DEF FileOK, Quiet
  <1>3. RewriteOK(s) => RewriteOK(t)
    BY DEF RewriteOK, ToRewrite, Quiet
  <1>4. DirtyOK(s, d) => DirtyOK(t, d)
    BY DEF DirtyOK, Quiet
  <1>5. (AckedOK(s, d) => AckedOK(t, d)) /\ (OwedOK(s, d) => OwedOK(t, d))
    BY DEF AckedOK, OwedOK, Quiet
  <1> QED
    BY <1>1, <1>2, <1>3, <1>4, <1>5

-----------------------------------------------------------------------------
(* The rewrite *)

\* The parts of a rewrite.
LEMMA ChildFields ==
    ASSUME NEW s, ServerOK(s), s.child # None
    PROVE  /\ s.child \in LiveChild
           /\ s.child.snap \in Data /\ s.child.pipe \in Seq(Command) /\ s.child.diff \in Seq(Command)
           /\ <<Snap(s.child.snap)>> \in Files
  <1>1. s.child \in LiveChild
    BY DEF ServerOK
  <1>2. s.child.snap \in Data /\ s.child.pipe \in Seq(Command) /\ s.child.diff \in Seq(Command)
    BY <1>1 DEF LiveChild, ChildRecord
  <1>3. <<Snap(s.child.snap)>> \in Files
    BY <1>2, HoldsSnapshot DEF Holds
  <1> QED
    BY <1>1, <1>2, <1>3

\* rewriteAppendOnlyFileBackground: the child starts with the dataset and nothing to read.
LEMMA RewriteStarts ==
    ASSUME NEW s, NEW d, ServerOK(s), s.child = None, s.rdb = None, FileOK(s, d)
    PROVE  LET t == rewriteAppendOnlyFileBackground(s)
           IN /\ ServerOK(t) /\ FileOK(t, d) /\ RewriteOK(t)
              /\ t.child # None /\ t.state = s.state /\ t.rdb = s.rdb
              /\ DirtyOK(s, d) => DirtyOK(t, d)
              /\ AckedOK(s, d) => AckedOK(t, d)
              /\ OwedOK(s, d) => OwedOK(t, d)
  <1> DEFINE t == rewriteAppendOnlyFileBackground(s)
             c == Child(s.data)
  <1>1. c \in LiveChild /\ c # None /\ c.snap = s.data /\ c.diff = <<>> /\ c.pipe = <<>> /\ c.phase = "dump"
    <2>1. <<>> \in Seq(Command) /\ s.data \in Data
      BY DEF ServerOK
    <2>2. c \in LiveChild
      BY <2>1 DEF Child, LiveChild, ChildRecord
    <2> QED
      BY <2>2, NoneAssumption DEF Child, LiveChild
  <1> HIDE DEF c
  <1>2. t = [s EXCEPT !.child = c, !.stop = FALSE, !.sched = FALSE, !.sel = -1]
    BY DEF rewriteAppendOnlyFileBackground, c
  <1> HIDE DEF t
  <1>3. /\ DOMAIN t = ServerFields /\ t.child = c /\ t.sel = -1
        /\ t.data = s.data /\ t.acked = s.acked /\ t.owed = s.owed /\ t.state = s.state
        /\ t.buf = s.buf /\ t.rbuf = s.rbuf
        /\ t.rdb = s.rdb /\ t.loaded = s.loaded /\ t.dirty = s.dirty /\ t.before = s.before
    BY <1>2 DEF ServerOK, ServerFields
  <1>4. ServerOK(t)
    BY <1>1, <1>3 DEF ServerOK
  <1>5. FileOK(t, d)
    BY <1>3, HoldsData DEF FileOK
  <1>6. RewriteOK(t)
    <2>1. s.data \in Data /\ s.rbuf = <<>>
      BY DEF ServerOK
    <2>2. Holds(<<Snap(s.data)>>, s.data, -1)
      BY <2>1, HoldsSnapshot
    <2>3. <<Snap(s.data)>> \in Files /\ <<>> \in Files
      BY <2>2 DEF Holds, Files
    <2>4. (<<Snap(s.data)>> \o <<>>) \o (<<>> \o <<>>) = <<Snap(s.data)>>
      BY <2>3, ConcatEmptySeq DEF Files
    <2> QED
      BY <1>1, <1>3, <2>1, <2>2, <2>4 DEF RewriteOK, ToRewrite
  <1>7. /\ DirtyOK(s, d) => DirtyOK(t, d)
        /\ AckedOK(s, d) => AckedOK(t, d)
        /\ OwedOK(s, d) => OwedOK(t, d)
    BY <1>3 DEF DirtyOK, AckedOK, OwedOK
  <1> QED
    BY <1>1, <1>3, <1>4, <1>5, <1>6, <1>7 DEF t

\* The child is gone, and what it would have been sent.
LEMMA RewriteDropped ==
    ASSUME NEW s, NEW d, ServerOK(s)
    PROVE  LET t == aofRewriteBufferReset(s)
           IN /\ ServerOK(t) /\ RewriteOK(t) /\ t.child = None
              /\ t.state = s.state /\ t.buf = s.buf /\ t.rdb = s.rdb /\ t.data = s.data
              /\ t.acked = s.acked
              /\ FileOK(s, d) => FileOK(t, d)
              /\ DirtyOK(s, d) => DirtyOK(t, d)
              /\ AckedOK(s, d) => AckedOK(t, d)
              /\ OwedOK(s, d) => OwedOK(t, d)
  <1> DEFINE t == aofRewriteBufferReset(s)
  <1>1. t = [s EXCEPT !.rbuf = <<>>, !.child = None, !.stop = FALSE]
    BY DEF aofRewriteBufferReset
  <1> HIDE DEF t
  <1>2. /\ DOMAIN t = ServerFields /\ t.child = None /\ t.rbuf = <<>>
        /\ t.data = s.data /\ t.acked = s.acked /\ t.owed = s.owed /\ t.state = s.state
        /\ t.buf = s.buf /\ t.sel = s.sel
        /\ t.rdb = s.rdb /\ t.loaded = s.loaded /\ t.dirty = s.dirty /\ t.before = s.before
    BY <1>1 DEF ServerOK, ServerFields
  <1>3. ServerOK(t)
    BY <1>2 DEF ServerOK
  <1>4. /\ FileOK(s, d) => FileOK(t, d)
        /\ DirtyOK(s, d) => DirtyOK(t, d)
        /\ AckedOK(s, d) => AckedOK(t, d)
        /\ OwedOK(s, d) => OwedOK(t, d)
    BY <1>2 DEF FileOK, DirtyOK, AckedOK, OwedOK
  <1>5. RewriteOK(t)
    BY <1>2 DEF RewriteOK
  <1> QED
    BY <1>2, <1>3, <1>4, <1>5 DEF t

\* Commands are fed to the file and to the child.
LEMMA Fed ==
    ASSUME NEW s, NEW t, NEW d, NEW dd \in Nat, NEW items \in Seq(Command), items # <<>>,
           ServerOK(s), ServerOK(t), FileOK(s, d), RewriteOK(s), d.aof.items \in Files,
           t.state = s.state /\ t.buf = s.buf /\ t.sel = s.sel /\ t.child = s.child /\ t.rbuf = s.rbuf,
           \A file : Holds(file, s.data, dd) => Holds(file \o items, t.data, dd)
    PROVE  LET u == feedAppendOnlyFile(t, dd, items)
           IN /\ ServerOK(u) /\ FileOK(u, d) /\ RewriteOK(u)
              /\ u.data = t.data /\ u.acked = t.acked /\ u.owed = t.owed /\ u.state = t.state
              /\ u.rdb = t.rdb /\ u.loaded = t.loaded /\ u.dirty = t.dirty /\ u.before = t.before
              /\ u.state = "on" => u.buf # <<>>
  <1> DEFINE new == Selecting(s.sel, dd) \o items
             u == feedAppendOnlyFile(t, dd, items)
  <1>1. Selecting(s.sel, dd) \in Seq(Command) /\ new \in Seq(Command) /\ new # <<>>
    <2>1. Item("select", dd) \in Command /\ <<>> \in Seq(Command)
      BY DEF Item, Command
    <2>2. Selecting(s.sel, dd) \in Seq(Command)
      BY <2>1 DEF Selecting
    <2>3. new \in Seq(Command) /\ Len(new) = Len(Selecting(s.sel, dd)) + Len(items)
      BY <2>2, ConcatProperties
    <2>4. Len(items) \in Nat /\ Len(items) # 0 /\ Len(Selecting(s.sel, dd)) \in Nat
      BY <2>2, EmptySeq
    <2> QED
      BY <2>2, <2>3, <2>4
  <1>2. CASE t.state = "off"
    <2>1. u = t
      BY <1>2 DEF feedAppendOnlyFile
    <2>2. FileOK(t, d) /\ RewriteOK(t)
      BY <1>2 DEF FileOK, RewriteOK
    <2> QED
      BY <1>2, <2>1, <2>2
  <1>3. CASE t.state # "off"
    <2>1. u = [t EXCEPT !.sel = dd,
                        !.buf = IF t.state = "on" THEN @ \o new ELSE @,
                        !.rbuf = IF t.child # None THEN @ \o new ELSE @]
      BY <1>3 DEF feedAppendOnlyFile, Selecting
    <2>2. /\ DOMAIN u = ServerFields /\ u.sel = dd
          /\ u.buf = (IF t.state = "on" THEN t.buf \o new ELSE t.buf)
          /\ u.rbuf = (IF t.child # None THEN t.rbuf \o new ELSE t.rbuf)
          /\ u.data = t.data /\ u.acked = t.acked /\ u.owed = t.owed /\ u.state = t.state
          /\ u.rdb = t.rdb /\ u.loaded = t.loaded /\ u.dirty = t.dirty /\ u.before = t.before
          /\ u.child = t.child
      <3> HIDE DEF new, u
      <3> QED
        BY <2>1 DEF ServerOK, ServerFields
    <2>3. /\ t.buf \in Seq(Command) /\ t.rbuf \in Seq(Command)
          /\ t.buf \o new \in Seq(Command) /\ t.rbuf \o new \in Seq(Command)
      <3>1. t.buf \in Seq(Command) /\ t.rbuf \in Seq(Command)
        BY DEF ServerOK
      <3> QED
        BY <1>1, <3>1, ConcatProperties
    <2> HIDE DEF u
    <2>4. ServerOK(u)
      BY <2>2, <2>3 DEF ServerOK
    <2>5. ASSUME NEW file, Holds(file, s.data, s.sel) PROVE Holds(file \o new, t.data, dd)
      <3>1. Holds((file \o Selecting(s.sel, dd)) \o items, t.data, dd)
        BY <2>5, HoldsSelected
      <3>2. file \in Files /\ Selecting(s.sel, dd) \in Files /\ items \in Files
        BY <1>1, <2>5, CommandsAreFiles DEF Holds
      <3>3. (file \o Selecting(s.sel, dd)) \o items = file \o new
        BY <3>2 DEF Files
      <3> QED
        BY <3>1, <3>3
    <2>6. t.buf \in Files /\ t.rbuf \in Files /\ new \in Files
      BY <1>1, <2>3, CommandsAreFiles
    <2>7. FileOK(u, d)
      <3> SUFFICES ASSUME t.state = "on" PROVE Holds(d.aof.items \o (t.buf \o new), t.data, dd)
        BY <2>2 DEF FileOK
      <3>1. Holds((d.aof.items \o t.buf) \o new, t.data, dd)
        BY <2>5 DEF FileOK
      <3> QED
        BY <2>6, <3>1, Regrouped
    <2>8. RewriteOK(u)
      <3> DEFINE c == s.child
                 read == <<Snap(c.snap)>> \o c.diff
      <3> SUFFICES ASSUME c # None, c.phase # "fail"
                   PROVE  /\ Holds(read \o (c.pipe \o (s.rbuf \o new)), t.data, dd)
                          /\ c.phase = "exit" => c.pipe = <<>>
        BY <2>2 DEF RewriteOK, ToRewrite
      <3>1. Holds(read \o (c.pipe \o s.rbuf), s.data, s.sel) /\ (c.phase = "exit" => c.pipe = <<>>)
        BY <1>3 DEF RewriteOK, ToRewrite
      <3>2. Holds((read \o (c.pipe \o s.rbuf)) \o new, t.data, dd)
        BY <2>5, <3>1
      <3>3. read \in Files /\ c.pipe \in Files
        BY ChildFields, CommandsAreFiles, Regrouped
      <3> HIDE DEF read, c
      <3>4. (read \o (c.pipe \o s.rbuf)) \o new = read \o (c.pipe \o (s.rbuf \o new))
        <4> DEFINE p == c.pipe
                   r == s.rbuf
        <4>1. read \in Files /\ p \in Files /\ r \in Files /\ new \in Files
          BY <2>6, <3>3
        <4> HIDE DEF p, r, new
        <4>2. RegroupsTwice(read, p, r, new)
          BY <4>1, RegroupedTwice
        <4> QED
          BY <4>2 DEF p, r, RegroupsTwice
      <3> QED
        BY <3>1, <3>2, <3>4
    <2>9. u.state = "on" => u.buf # <<>>
      <3>1. Len(t.buf \o new) = Len(t.buf) + Len(new) /\ Len(new) \in Nat /\ Len(new) # 0 /\ Len(t.buf) \in Nat
        BY <1>1, <2>3, ConcatProperties, EmptySeq
      <3>2. t.buf \o new # <<>>
        BY <3>1, <2>3, EmptySeq
      <3> QED
        BY <2>2, <3>2
    <2> QED
      BY <2>2, <2>4, <2>7, <2>8, <2>9 DEF u
  <1> QED
    BY <1>2, <1>3

\* A change of the child and of what it is to be sent, after which all that is to be
\* rewritten is the same.
GoesOn(s, c, rest) ==
    c.phase = "fail" \/ /\ s.child.phase # "fail"
                        /\ c.diff \o (c.pipe \o rest) = s.child.diff \o (s.child.pipe \o s.rbuf)
                        /\ c.phase = "exit" => c.pipe = <<>>

\* The child and its parent pass the differences on.
LEMMA ChildMoves ==
    ASSUME NEW s, NEW t, NEW d, NEW j, NEW c, NEW rest, Safe(s, d, j), s.child # None, c \in LiveChild,
           rest \in Seq(Command), t = [s EXCEPT !.child = c, !.rbuf = rest],
           c.snap = s.child.snap, GoesOn(s, c, rest)
    PROVE  Safe(t, d, j) /\ t.state = s.state
  <1>0. ServerOK(s)
    BY DEF Safe
  <1>1. /\ DOMAIN t = ServerFields /\ t.child = c /\ t.rbuf = rest
        /\ t.data = s.data /\ t.acked = s.acked /\ t.owed = s.owed /\ t.state = s.state
        /\ t.buf = s.buf /\ t.sel = s.sel
        /\ t.rdb = s.rdb /\ t.loaded = s.loaded /\ t.dirty = s.dirty /\ t.before = s.before
    BY <1>0 DEF ServerOK, ServerFields
  <1>2. c # None
    BY NoneAssumption DEF LiveChild
  <1>3. ServerOK(t)
    BY <1>0, <1>1, <1>2 DEF ServerOK
  <1>4. /\ FileOK(s, d) => FileOK(t, d)
        /\ DirtyOK(s, d) => DirtyOK(t, d)
        /\ AckedOK(s, d) => AckedOK(t, d)
        /\ OwedOK(s, d) => OwedOK(t, d)
    BY <1>1 DEF FileOK, DirtyOK, AckedOK, OwedOK
  <1>5. ASSUME RewriteOK(s) PROVE RewriteOK(t)
    <2> SUFFICES ASSUME s.state # "off", c.phase # "fail"
                 PROVE  Holds(ToRewrite(t), s.data, s.sel) /\ (c.phase = "exit" => c.pipe = <<>>)
      BY <1>1 DEF RewriteOK
    <2>1. Holds(ToRewrite(s), s.data, s.sel) /\ (c.phase = "exit" => c.pipe = <<>>)
      BY <1>5 DEF RewriteOK, GoesOn
    <2> DEFINE snap == <<Snap(c.snap)>>
    <2>2. /\ snap \in Files /\ c.diff \in Files /\ c.pipe \in Files /\ rest \in Files
          /\ s.child.diff \in Files /\ s.child.pipe \in Files /\ s.rbuf \in Files
      <3>1. c.diff \in Seq(Command) /\ c.pipe \in Seq(Command)
        BY DEF LiveChild, ChildRecord
      <3>2. s.rbuf \in Seq(Command)
        BY <1>0 DEF ServerOK
      <3> QED
        BY <1>0, <3>1, <3>2, ChildFields, CommandsAreFiles
    <2>3. ToRewrite(t) = (snap \o c.diff) \o (c.pipe \o rest)
      BY <1>1 DEF ToRewrite
    <2>4. ToRewrite(s) = (snap \o s.child.diff) \o (s.child.pipe \o s.rbuf)
      BY DEF ToRewrite
    <2> HIDE DEF snap
    <2> DEFINE T == Command \cup [t : {"snap"}, v : Data]
               d1 == c.diff
               p1 == c.pipe
               r1 == rest
               d2 == s.child.diff
               p2 == s.child.pipe
               r2 == s.rbuf
    <2>5. /\ snap \in Seq(T) /\ d1 \in Seq(T) /\ p1 \in Seq(T) /\ r1 \in Seq(T)
          /\ d2 \in Seq(T) /\ p2 \in Seq(T) /\ r2 \in Seq(T)
      BY <2>2 DEF Files
    <2>6. d1 \o (p1 \o r1) = d2 \o (p2 \o r2)
      BY DEF GoesOn
    <2> HIDE DEF T, d1, p1, r1, d2, p2, r2
    <2> DEFINE q1 == p1 \o r1
               q2 == p2 \o r2
    <2>a. q1 \in Seq(T) /\ q2 \in Seq(T)
      BY <2>5
    <2> HIDE DEF q1, q2
    <2>7. (snap \o d1) \o q1 = snap \o (d1 \o q1)
      BY <2>5, <2>a
    <2>8. (snap \o d2) \o q2 = snap \o (d2 \o q2)
      BY <2>5, <2>a
    <2>9. ToRewrite(t) = ToRewrite(s)
      BY <2>3, <2>4, <2>6, <2>7, <2>8 DEF d1, p1, r1, d2, p2, r2, q1, q2
    <2> QED
      BY <2>1, <2>9
  <1> QED
    BY <1>1, <1>3, <1>4, <1>5 DEF Safe

\* aofChildWriteDiffData, and what the child reads.
LEMMA PipeFilled ==
    ASSUME NEW s, NEW d, NEW n, ServerOK(s), s.child # None, s.child.phase \in {"dump", "stop"},
           n \in {1, Len(s.rbuf)}, s.rbuf # <<>>
    PROVE  LET c == [s.child EXCEPT !.pipe = @ \o SubSeq(s.rbuf, 1, n)]
               rest == SubSeq(s.rbuf, n + 1, Len(s.rbuf))
           IN /\ c \in LiveChild /\ c.snap = s.child.snap /\ rest \in Seq(Command)
              /\ c.phase = s.child.phase
              /\ c.diff \o (c.pipe \o rest) = s.child.diff \o (s.child.pipe \o s.rbuf)
  <1> DEFINE a == SubSeq(s.rbuf, 1, n)
             rest == SubSeq(s.rbuf, n + 1, Len(s.rbuf))
             r == s.rbuf
             p == s.child.pipe
             c == [s.child EXCEPT !.pipe = @ \o a]
  <1>1. r \in Seq(Command) /\ n \in 0..Len(r)
    <2>1. r \in Seq(Command) /\ Len(r) \in Nat /\ Len(r) # 0
      BY EmptySeq DEF ServerOK
    <2> QED
      BY <2>1
  <1>2. a \in Seq(Command) /\ rest \in Seq(Command) /\ a \o rest = r
    BY <1>1, CutAt
  <1>3. s.child \in LiveChild /\ p \in Seq(Command)
    BY ChildFields
  <1> HIDE DEF a, rest, r, p
  <1>a. a \in Seq(Command) /\ rest \in Seq(Command)
    BY <1>2
  <1>b. p \in Seq(Command)
    BY <1>3
  <1>4. p \o a \in Seq(Command) /\ (p \o a) \o rest = p \o (a \o rest)
    BY <1>a, <1>b
  <1>5. c.pipe = p \o a /\ c.snap = s.child.snap /\ c.diff = s.child.diff /\ c.phase = s.child.phase
        /\ c \in LiveChild
    BY <1>3, <1>4 DEF LiveChild, ChildRecord, p
  <1>6. c.pipe \o rest = p \o r
    BY <1>2, <1>4, <1>5
  <1> QED
    BY <1>2, <1>5, <1>6 DEF a, rest, r, p

\* aofReadDiffFromParent: what is read goes from the pipe to the differences.
LEMMA PipeRead ==
    ASSUME NEW s, ServerOK(s), s.child # None
    PROVE  LET c == aofReadDiffFromParent(s.child)
           IN /\ c \in LiveChild /\ c.snap = s.child.snap /\ c.phase = s.child.phase /\ c.pipe = <<>>
              /\ c.diff \o (c.pipe \o s.rbuf) = s.child.diff \o (s.child.pipe \o s.rbuf)
  <1> DEFINE c == aofReadDiffFromParent(s.child)
             r == s.rbuf
             p == s.child.pipe
             d == s.child.diff
  <1>1. s.child \in LiveChild /\ p \in Seq(Command) /\ d \in Seq(Command) /\ r \in Seq(Command)
    BY ChildFields DEF ServerOK
  <1>2. c = [s.child EXCEPT !.diff = d \o p, !.pipe = <<>>]
    BY DEF aofReadDiffFromParent
  <1> HIDE DEF c, r, p, d
  <1>3. d \o p \in Seq(Command) /\ <<>> \in Seq(Command) /\ (d \o p) \o r = d \o (p \o r) /\ <<>> \o r = r
    BY <1>1
  <1>4. /\ c.diff = d \o p /\ c.pipe = <<>> /\ c.snap = s.child.snap /\ c.phase = s.child.phase
        /\ c \in LiveChild
    BY <1>1, <1>2, <1>3 DEF LiveChild, ChildRecord
  <1>5. c.diff \o (c.pipe \o r) = d \o (p \o r)
    BY <1>3, <1>4
  <1> QED
    BY <1>4, <1>5 DEF c, r, p, d

\* One more fsync is queued, of the file as it is.
LEMMA JobQueued ==
    ASSUME NEW d, NEW j, DiskOK(d, j)
    PROVE  DiskOK(d, Append(j, [ino |-> d.aof.ino, len |-> Len(d.aof.items)]))
  <1> DEFINE Job == [ino : Nat, len : Nat]
             new == [ino |-> d.aof.ino, len |-> Len(d.aof.items)]
             jj == Append(j, new)
             ino == d.aof.ino
             size == Len(d.aof.items)
  <1>1. j \in Seq(Job) /\ ino \in Nat /\ size \in Nat
    BY DEF DiskOK, Files
  <1>2. new \in Job /\ new.ino = ino /\ new.len = size
    BY <1>1
  <1>3. \A i \in 1..Len(j) : j[i].ino <= ino /\ (j[i].ino = ino => j[i].len <= size)
    BY DEF DiskOK
  <1> HIDE DEF Job, new
  <1>4. jj \in Seq(Job) /\ Len(jj) = Len(j) + 1 /\ Len(j) \in Nat
        /\ jj[Len(j) + 1] = new /\ \A i \in 1..Len(j) : jj[i] = j[i]
    BY <1>1, <1>2
  <1> HIDE DEF jj, ino, size
  <1>5. ASSUME NEW i \in 1..Len(jj)
        PROVE  jj[i].ino <= ino /\ (jj[i].ino = ino => jj[i].len <= size)
    <2>1. CASE i = Len(j) + 1
      BY <1>1, <1>2, <1>4, <2>1
    <2>2. CASE i # Len(j) + 1
      <3>1. i \in 1..Len(j)
        BY <1>4, <2>2
      <3> QED
        BY <1>3, <1>4, <3>1
    <2> QED
      BY <2>1, <2>2
  <1>6. DiskOK(d, jj)
    BY <1>4, <1>5 DEF DiskOK, Job, ino, size
  <1> QED
    BY <1>6 DEF jj, new

\* backgroundRewriteDoneHandler, the child succeeded: the new file has its name.
LEMMA FileRenamed ==
    ASSUME NEW s, NEW d, NEW j, Safe(s, d, j), s.child # None, s.child.phase = "exit"
    PROVE  LET w == Rename([srv |-> s, disk |-> d, jobs |-> j])
           IN /\ w.srv = [s EXCEPT !.child.phase = "renamed"] /\ w.jobs = j
              /\ Safe(Settled(w.srv), w.disk, j)
              /\ s.state # "off" => Holds(w.disk.aof.items, s.data, -1)
  <1> DEFINE read == <<Snap(s.child.snap)>> \o s.child.diff
             r == s.rbuf
             items == read \o r
             w0 == [srv |-> s, disk |-> d, jobs |-> j]
             file == [ino |-> d.aof.ino + 1, items |-> items, synced |-> Len(read), fresh |-> TRUE]
             d1 == [d EXCEPT !.aof = file]
             s1 == [s EXCEPT !.child.phase = "renamed"]
             t == Settled(s1)
             w == Rename(w0)
  <1> SUFFICES /\ w.srv = s1 /\ w.jobs = j
               /\ Safe(t, d1, j) /\ w.disk = d1
               /\ s.state # "off" => Holds(d1.aof.items, s.data, -1)
    OBVIOUS
  <1>0. ServerOK(s) /\ DiskOK(d, j) /\ RewriteOK(s) /\ DirtyOK(s, d)
    BY DEF Safe
  <1>1. read \in Files /\ r \in Files /\ items \in Files /\ Len(items) = Len(read) + Len(r)
        /\ Len(read) \in Nat /\ Len(r) \in Nat
    <2>1. read \in Files /\ r \in Files
      BY <1>0, ChildFields, CommandsAreFiles, Regrouped DEF ServerOK
    <2> HIDE DEF read, r
    <2> QED
      BY <2>1 DEF Files
  <1>2. s.state # "off" => Holds(items, s.data, -1)
    <2> SUFFICES ASSUME s.state # "off" PROVE Holds(items, s.data, -1)
      OBVIOUS
    <2>1. Holds(ToRewrite(s), s.data, s.sel) /\ s.child.pipe = <<>>
      BY <1>0 DEF RewriteOK
    <2>2. <<>> \o r = r
      BY <1>0, ConcatEmptySeq DEF ServerOK
    <2>3. ToRewrite(s) = items
      BY <2>1, <2>2 DEF ToRewrite
    <2> QED
      BY <2>1, <2>3, HoldsData
  <1>3. w.srv = s1 /\ w.disk = d1 /\ w.jobs = j
    <2>1. w = [w0 EXCEPT !.disk.aof = file, !.srv.child.phase = "renamed"]
      BY DEF Rename
    <2> HIDE DEF file, w
    <2> QED
      BY <2>1
  <1> HIDE DEF w
  <1>5. /\ d1.aof = file /\ d1.rdb = d.rdb /\ DOMAIN d1 = {"aof", "rdb"}
        /\ file.ino = d.aof.ino + 1 /\ file.items = items /\ DOMAIN file = {"ino", "items", "synced", "fresh"}
        /\ file.synced \in 0..Len(items) /\ file.fresh = TRUE
    <2> HIDE DEF items, read
    <2> QED
      BY <1>0, <1>1 DEF DiskOK
  <1> HIDE DEF file, d1, items, read, r
  <1>6. DiskOK(d1, j)
    <2>a. Len(items) \in Nat
      BY <1>1
    <2>b. d.aof.ino \in Nat /\ d.rdb \in Data /\ j \in Seq([ino : Nat, len : Nat])
      BY <1>0 DEF DiskOK
    <2>0. d.aof.ino \in Nat /\ d.aof.ino + 1 \in Nat /\ d.rdb \in Data /\ Len(items) \in Nat
          /\ j \in Seq([ino : Nat, len : Nat])
      BY <2>a, <2>b
    <2>c. \A i \in 1..Len(j) : j[i] \in [ino : Nat, len : Nat]
      BY <2>b, ElementOfSeq
    <2>1. \A i \in 1..Len(j) : j[i].ino <= d.aof.ino /\ j[i].ino \in Nat
      BY <1>0, <2>c DEF DiskOK
    <2>d. d.aof.ino \in Nat
      BY <2>b
    <2>e. \A i \in 1..Len(j) : j[i].ino <= d.aof.ino + 1 /\
                              (j[i].ino = d.aof.ino + 1 => j[i].len <= Len(items))
      BY <2>d, <2>1
    <2> QED
      BY <1>1, <1>5, <2>0, <2>e DEF DiskOK
  <1>7. /\ DOMAIN t = ServerFields /\ t.state = s.state /\ t.buf = <<>> /\ t.sel = -1
        /\ t.data = s.data /\ t.acked = s.acked /\ t.owed = s.owed
        /\ t.child = None /\ t.rbuf = <<>>
        /\ t.rdb = s.rdb /\ t.loaded = s.loaded /\ t.dirty = s.dirty /\ t.before = s.before
    BY <1>0 DEF Settled, ServerOK, ServerFields
  <1> HIDE DEF s1, t
  <1>8. ServerOK(t) /\ RewriteOK(t)
    <2>1. <<>> \in Seq(Command)
      OBVIOUS
    <2> QED
      BY <1>0, <1>7, <2>1 DEF ServerOK, RewriteOK
  <1>9. DirtyOK(t, d1)
    BY <1>0, <1>5, <1>7 DEF DirtyOK
  <1>10. FileOK(t, d1)
    <2>1. items \o <<>> = items
      BY <1>1, ConcatEmptySeq DEF Files
    <2> QED
      BY <1>2, <1>5, <1>7, <2>1 DEF FileOK
  <1>11. t.state = "on" => AckedOK(t, d1) /\ OwedOK(t, d1)
    <2>1. s.acked <= Len(s.data) /\ s.acked \in Nat /\ Len(s.data) \in Nat
      BY <1>0 DEF ServerOK, Data
    <2>2. s.state # "off" => Loading(items)[Len(items)].data = s.data
      BY <1>2 DEF Holds, Load
    <2>3. Durable(d1) = Len(items)
      BY <1>5 DEF Durable
    <2> QED
      BY <1>5, <1>7, <2>1, <2>2, <2>3 DEF AckedOK, OwedOK
  <1> QED
    BY <1>2, <1>3, <1>5, <1>6, <1>8, <1>9, <1>10, <1>11 DEF Safe

-----------------------------------------------------------------------------
(* flushAppendOnlyFile *)

WorldOK(w) ==
    /\ DOMAIN w = {"srv", "disk", "jobs"}
    /\ ServerOK(w.srv) /\ DiskOK(w.disk, w.jobs)

\* From w to x commands go from the buffer to the file, or to the disk, and no more.
Flushes(w, x) ==
    /\ WorldOK(x)
    /\ x.srv.data = w.srv.data /\ x.srv.acked = w.srv.acked /\ x.srv.owed = w.srv.owed
    /\ x.srv.state = w.srv.state /\ x.srv.sel = w.srv.sel /\ x.srv.child = w.srv.child
    /\ x.srv.rbuf = w.srv.rbuf /\ x.srv.rdb = w.srv.rdb /\ x.srv.loaded = w.srv.loaded
    /\ x.srv.dirty = w.srv.dirty /\ x.srv.before = w.srv.before
    /\ x.disk.rdb = w.disk.rdb
    /\ x.disk.aof.items \o x.srv.buf = w.disk.aof.items \o w.srv.buf
    /\ Len(w.disk.aof.items) <= Len(x.disk.aof.items)
    /\ \A i \in 1..Len(w.disk.aof.items) : x.disk.aof.items[i] = w.disk.aof.items[i]
    /\ Durable(w.disk) <= Durable(x.disk)

\* The sizes of a file.
LEMMA DiskSizes ==
    ASSUME NEW d, NEW j, DiskOK(d, j)
    PROVE  /\ Len(d.aof.items) \in Nat /\ Durable(d) \in 0..Len(d.aof.items) /\ Durable(d) \in Nat
           /\ Durable(d) <= Durable(d)
  BY DEF Durable, DiskOK, Files

\* The same of a world.
LEMMA WorldSizes == ASSUME NEW w, WorldOK(w) PROVE Len(w.disk.aof.items) \in Nat /\ Durable(w.disk) \in Nat
  BY DiskSizes DEF WorldOK

\* Nothing flushed.
LEMMA FlushesItself == ASSUME NEW w, WorldOK(w) PROVE Flushes(w, w)
  <1>1. Len(w.disk.aof.items) \in Nat /\ Durable(w.disk) <= Durable(w.disk)
    BY DiskSizes DEF WorldOK
  <1> QED
    BY <1>1 DEF WorldOK, Flushes, DiskOK, Files

\* One flush after the other.
LEMMA FlushesTwice ==
    ASSUME NEW w, NEW x, NEW y, WorldOK(w), Flushes(w, x), Flushes(x, y)
    PROVE  Flushes(w, y)
  <1>1. /\ Len(w.disk.aof.items) \in Nat /\ Len(x.disk.aof.items) \in Nat /\ Len(y.disk.aof.items) \in Nat
        /\ Durable(w.disk) \in Nat /\ Durable(x.disk) \in Nat /\ Durable(y.disk) \in Nat
    BY WorldSizes DEF Flushes
  <1> DEFINE a == w.disk.aof.items
             b == x.disk.aof.items
             c == y.disk.aof.items
             k == Durable(w.disk)
             m == Durable(x.disk)
             n == Durable(y.disk)
  <1>2. /\ Len(a) <= Len(b) /\ Len(b) <= Len(c) /\ k <= m /\ m <= n
        /\ \A i \in 1..Len(a) : b[i] = a[i]
        /\ \A i \in 1..Len(b) : c[i] = b[i]
    BY DEF Flushes
  <1>3. Len(a) \in Nat /\ Len(b) \in Nat /\ Len(c) \in Nat /\ k \in Nat /\ m \in Nat /\ n \in Nat
    BY <1>1
  <1> HIDE DEF a, b, c, k, m, n
  <1>4. Len(a) <= Len(c) /\ k <= n /\ \A i \in 1..Len(a) : c[i] = a[i]
    BY <1>2, <1>3
  <1> QED
    BY <1>4 DEF Flushes, a, c, k, n

\* Nothing changes but what the invariant does not see, and how much is synced.
LEMMA FlushesQuietly ==
    ASSUME NEW w, NEW x, WorldOK(w), DOMAIN x = {"srv", "disk", "jobs"}, Quiet(w.srv, x.srv),
           DiskOK(x.disk, x.jobs), x.disk.rdb = w.disk.rdb,
           x.disk.aof.items = w.disk.aof.items, Durable(w.disk) <= Durable(x.disk)
    PROVE  Flushes(w, x)
  <1>1. ServerOK(x.srv)
    BY QuietKeeps DEF WorldOK
  <1>2. Len(w.disk.aof.items) \in Nat
    BY DEF WorldOK, DiskOK, Files
  <1> QED
    BY <1>1, <1>2 DEF Flushes, WorldOK, Quiet

\* What the file held it holds still, and what was synced is.
LEMMA FlushesKeep ==
    ASSUME NEW w, NEW x, WorldOK(w), Flushes(w, x)
    PROVE  /\ FileOK(w.srv, w.disk) => FileOK(x.srv, x.disk)
           /\ RewriteOK(w.srv) => RewriteOK(x.srv)
           /\ DirtyOK(w.srv, w.disk) => DirtyOK(x.srv, x.disk)
           /\ FileOK(w.srv, w.disk) /\ w.srv.state = "on" /\ AckedOK(w.srv, w.disk) => AckedOK(x.srv, x.disk)
  <1>1. FileOK(w.srv, w.disk) => FileOK(x.srv, x.disk)
    BY DEF FileOK, Flushes
  <1>2. RewriteOK(w.srv) => RewriteOK(x.srv)
    BY DEF RewriteOK, ToRewrite, Flushes
  <1>3. DirtyOK(w.srv, w.disk) => DirtyOK(x.srv, x.disk)
    BY DEF DirtyOK, Flushes
  <1>4. ASSUME FileOK(w.srv, w.disk), w.srv.state = "on", AckedOK(w.srv, w.disk)
        PROVE  AckedOK(x.srv, x.disk)
    <2> DEFINE a == w.disk.aof.items
               b == x.disk.aof.items
               m == Durable(w.disk)
               n == Durable(x.disk)
    <2>1. /\ a \in Files /\ b \in Files /\ Len(a) \in Nat /\ Len(b) \in Nat /\ m \in 0..Len(a)
          /\ n \in 0..Len(b) /\ m <= n /\ Len(a) <= Len(b) /\ \A i \in 1..Len(a) : a[i] = b[i]
      BY DiskSizes DEF WorldOK, Flushes, DiskOK, Files
    <2>2. WellFormed(b)
      <3>1. Holds(b \o x.srv.buf, w.srv.data, w.srv.sel) /\ x.srv.buf \in Files
        BY <1>4, CommandsAreFiles DEF FileOK, Flushes, WorldOK, ServerOK
      <3>2. WellFormed(b \o x.srv.buf)
        BY <3>1 DEF Holds
      <3> QED
        BY <2>1, <3>1, <3>2, WellFormedStart
    <2> HIDE DEF a, b, m, n
    <2>3. Loading(a)[m] = Loading(b)[m]
      <3>1. m \in Nat /\ m <= Len(a) /\ m <= Len(b) /\ \A i \in 1..m : a[i] = b[i]
        BY <2>1
      <3> QED
        BY <2>1, <3>1, LoadingOfPrefix
    <2>4. m \in 0..n
      BY <2>1
    <2>5. Pre(Loading(b)[m].data, Loading(b)[n].data)
      BY <2>1, <2>2, <2>4, LoadingGrows
    <2>6. Loading(b)[m].data \in Data /\ Loading(b)[n].data \in Data
      <3>1. m \in 0..Len(b) /\ n \in 0..Len(b)
        BY <2>1
      <3> QED
        BY <2>1, <3>1, LoadingType DEF LoadState
    <2>7. Len(Loading(b)[n].data) >= Len(Loading(a)[m].data)
      BY <2>3, <2>5, <2>6 DEF Pre, Data
    <2>8. /\ Len(Loading(a)[m].data) >= w.srv.acked /\ x.srv.acked = w.srv.acked
          /\ w.srv.acked \in Nat /\ Len(Loading(a)[m].data) \in Nat /\ Len(Loading(b)[n].data) \in Nat
      <3>1. Len(Loading(a)[m].data) \in Nat /\ Len(Loading(b)[n].data) \in Nat
        BY <2>3, <2>6 DEF Data
      <3>2. w.srv.acked \in Nat
        BY DEF WorldOK, ServerOK, Data
      <3> QED
        BY <1>4, <3>1, <3>2 DEF AckedOK, Flushes, a, m
    <2>9. Len(Loading(b)[n].data) >= x.srv.acked
      BY <2>7, <2>8
    <2> QED
      BY <2>9 DEF AckedOK, b, n
  <1> QED
    BY <1>1, <1>2, <1>3, <1>4

\* An fsync: by the main thread, or as a job of the background thread.
LEMMA Fsyncs ==
    ASSUME NEW w, NEW sync, WorldOK(w)
    PROVE  LET x == TryFsync(w, sync)
           IN /\ Flushes(w, x) /\ x.srv.buf = w.srv.buf
              /\ Strict => Durable(x.disk) = Len(x.disk.aof.items)
              /\ x.srv.exits = w.srv.exits
  <1> DEFINE x == TryFsync(w, sync)
             d1 == [w.disk EXCEPT !.aof = redis_fsync(@)]
             s1 == [w.srv EXCEPT !.due = FALSE]
             s2 == [w.srv EXCEPT !.fsoff = w.srv.size, !.due = FALSE]
             j1 == bioCreateBackgroundJob(w)
  <1> SUFFICES /\ Flushes(w, x) /\ x.srv.buf = w.srv.buf
               /\ Strict => Durable(x.disk) = Len(x.disk.aof.items)
               /\ x.srv.exits = w.srv.exits
    OBVIOUS
  <1>0. ServerOK(w.srv) /\ DiskOK(w.disk, w.jobs) /\ DOMAIN w = {"srv", "disk", "jobs"}
    BY DEF WorldOK
  <1>1. Quiet(w.srv, w.srv) /\ Quiet(w.srv, s1) /\ Quiet(w.srv, s2)
        /\ s1.exits = w.srv.exits /\ s2.exits = w.srv.exits /\ s1.buf = w.srv.buf /\ s2.buf = w.srv.buf
    BY <1>0 DEF ServerOK, ServerFields, Quiet
  <1>2. /\ DiskOK(d1, w.jobs) /\ d1.rdb = w.disk.rdb /\ d1.aof.items = w.disk.aof.items
        /\ Durable(d1) = Len(d1.aof.items) /\ Durable(w.disk) <= Durable(d1)
    <2>1. d1.rdb = w.disk.rdb /\ d1.aof.items = w.disk.aof.items /\ d1.aof.ino = w.disk.aof.ino
          /\ d1.aof.synced = Len(w.disk.aof.items) /\ ~d1.aof.fresh /\ DOMAIN d1 = {"aof", "rdb"}
          /\ DOMAIN d1.aof = {"ino", "items", "synced", "fresh"} /\ d1.aof.fresh \in BOOLEAN
      BY <1>0 DEF DiskOK, redis_fsync
    <2>2. Len(w.disk.aof.items) \in Nat /\ Durable(w.disk) \in 0..Len(w.disk.aof.items)
      BY <1>0, DiskSizes
    <2> HIDE DEF d1
    <2>3. Durable(d1) = Len(w.disk.aof.items)
      BY <2>1 DEF Durable
    <2> QED
      BY <1>0, <2>1, <2>2, <2>3 DEF DiskOK
  <1>3. DiskOK(w.disk, j1)
    BY <1>0, JobQueued DEF bioCreateBackgroundJob
  <1>4. Durable(w.disk) <= Durable(w.disk)
    BY <1>0, DiskSizes
  <1>5. CASE Strict
    <2>1. x = [w EXCEPT !.disk.aof = redis_fsync(@), !.srv.fsoff = w.srv.size, !.srv.due = FALSE]
      BY <1>5 DEF TryFsync, Strict
    <2>2. x.srv = s2 /\ x.disk = d1 /\ x.jobs = w.jobs /\ DOMAIN x = {"srv", "disk", "jobs"}
      <3> HIDE DEF x
      <3> QED
        BY <1>0, <2>1
    <2> HIDE DEF x, s2, d1
    <2> QED
      BY <2>2, <1>1, <1>2, FlushesQuietly
  <1>6. CASE ~Strict
    <2>1. \/ x = w
          \/ x = [w EXCEPT !.disk.aof = redis_fsync(@), !.srv.fsoff = w.srv.size, !.srv.due = FALSE]
          \/ x = [w EXCEPT !.srv.due = FALSE]
          \/ x = [w EXCEPT !.jobs = j1, !.srv.fsoff = w.srv.size, !.srv.due = FALSE]
      BY DEF TryFsync
    <2>2. /\ DOMAIN x = {"srv", "disk", "jobs"}
          /\ x.srv \in {w.srv, s1, s2} /\ x.disk \in {w.disk, d1} /\ x.jobs \in {w.jobs, j1}
          /\ x.jobs = j1 => x.disk = w.disk \/ x.jobs = w.jobs
      <3> HIDE DEF x, j1
      <3> QED
        BY <1>0, <2>1
    <2>3. DiskOK(x.disk, x.jobs)
      <3> HIDE DEF x, j1, d1
      <3> QED
        BY <1>0, <1>2, <1>3, <2>2
    <2> HIDE DEF x, s1, s2, d1, j1
    <2>4. Quiet(w.srv, x.srv) /\ x.srv.exits = w.srv.exits /\ x.srv.buf = w.srv.buf
      BY <1>1, <2>2
    <2>5. x.disk.rdb = w.disk.rdb /\ x.disk.aof.items = w.disk.aof.items
          /\ Durable(w.disk) <= Durable(x.disk)
      BY <1>2, <1>4, <2>2
    <2> QED
      BY <1>6, <2>2, <2>3, <2>4, <2>5, FlushesQuietly
  <1> QED
    BY <1>5, <1>6

\* A sequence is cut in two, and the first part added to a file.
Parts(b, c, bc) == b \o c = bc
Moved(a, b, c, bc) == (a \o b) \o c = a \o bc
\* What was written and what is left of the buffer are the buffer.
LEMMA Rejoined ==
    ASSUME NEW a \in Files, NEW b \in Files, NEW c \in Files, NEW bc, Parts(b, c, bc)
    PROVE  Moved(a, b, c, bc)
  <1>1. (a \o b) \o c = a \o (b \o c)
    BY Regrouped
  <1> QED
    BY <1>1, Zenon DEF Parts, Moved

\* A part of the buffer goes to the file.
LEMMA Writes ==
    ASSUME NEW w, NEW x, WorldOK(w), DOMAIN x = {"srv", "disk", "jobs"}, x.jobs = w.jobs,
           NEW a \in Seq(Command), NEW b \in Seq(Command), Parts(a, b, w.srv.buf),
           NEW u, u = [w.srv EXCEPT !.buf = b], Quiet(u, x.srv),
           NEW d, d = [w.disk EXCEPT !.aof.items = @ \o a], x.disk = d
    PROVE  Flushes(w, x)
  <1> DEFINE s == w.srv
             old == w.disk.aof.items
             d1 == x.disk
             t == x.srv
             buf == s.buf
  <1>0. ServerOK(s) /\ DiskOK(w.disk, w.jobs)
    BY DEF WorldOK
  <1>2. /\ DOMAIN t = ServerFields
        /\ t.data = s.data /\ t.acked = s.acked /\ t.owed = s.owed /\ t.state = s.state
        /\ t.buf = b /\ t.sel = s.sel /\ t.child = s.child /\ t.rbuf = s.rbuf
        /\ t.rdb = s.rdb /\ t.loaded = s.loaded /\ t.dirty = s.dirty /\ t.before = s.before
    BY <1>0 DEF Quiet, ServerOK, ServerFields
  <1> HIDE DEF t
  <1>3. ServerOK(t)
    BY <1>0, <1>2 DEF ServerOK
  <1>4. old \in Files /\ a \in Files /\ b \in Files
    BY <1>0, CommandsAreFiles DEF DiskOK
  <1>5. /\ old \o a \in Files /\ Len(old \o a) = Len(old) + Len(a) /\ Len(old) \in Nat /\ Len(a) \in Nat
        /\ \A i \in 1..Len(old) : (old \o a)[i] = old[i]
    BY <1>4, Longer DEF Files
  <1>6. (old \o a) \o b = old \o buf
    <2>1. Moved(old, a, b, buf)
      BY <1>4, Rejoined
    <2> HIDE DEF old, buf
    <2> QED
      BY <2>1 DEF Moved
  <1>7. /\ d1.aof.items = old \o a /\ d1.aof.synced = w.disk.aof.synced /\ d1.aof.fresh = w.disk.aof.fresh /\ d1.aof.ino = w.disk.aof.ino
        /\ d1.rdb = w.disk.rdb /\ DOMAIN d1 = {"aof", "rdb"} /\ DOMAIN d1.aof = {"ino", "items", "synced", "fresh"}
    <2>1. DOMAIN w.disk = {"aof", "rdb"} /\ DOMAIN w.disk.aof = {"ino", "items", "synced", "fresh"}
      BY <1>0 DEF DiskOK
    <2> DEFINE e == old \o a
    <2>2. d = [w.disk EXCEPT !.aof.items = e]
      OBVIOUS
    <2> HIDE DEF e
    <2>3. /\ d.aof.items = e /\ d.aof.synced = w.disk.aof.synced /\ d.aof.fresh = w.disk.aof.fresh /\ d.aof.ino = w.disk.aof.ino
          /\ d.rdb = w.disk.rdb /\ DOMAIN d = {"aof", "rdb"} /\ DOMAIN d.aof = {"ino", "items", "synced", "fresh"}
      BY <2>1, <2>2
    <2> QED
      BY <2>3 DEF e
  <1> HIDE DEF d1
  <1>8. w.disk.aof.synced \in 0..Len(old) /\ w.disk.aof.synced \in Nat
    BY <1>0, <1>5 DEF DiskOK
  <1>9. DiskOK(d1, w.jobs)
    <2> DEFINE j == w.jobs
    <2>1. j \in Seq([ino : Nat, len : Nat]) /\ w.disk.rdb \in Data /\ w.disk.aof.ino \in Nat
          /\ w.disk.aof.fresh \in BOOLEAN
          /\ \A i \in 1..Len(j) : j[i].ino <= w.disk.aof.ino /\ (j[i].ino = w.disk.aof.ino => j[i].len <= Len(old))
      BY <1>0 DEF DiskOK
    <2>2. \A i \in 1..Len(j) : j[i] \in [ino : Nat, len : Nat]
      BY <2>1, ElementOfSeq
    <2>3. Len(old) <= Len(old \o a)
      BY <1>5
    <2>4. ASSUME NEW i \in 1..Len(j), j[i].ino = w.disk.aof.ino PROVE j[i].len <= Len(old \o a)
      <3>1. j[i].len \in Nat /\ j[i].len <= Len(old)
        BY <2>1, <2>2, <2>4
      <3> QED
        BY <3>1, <2>3, <1>5
    <2> HIDE DEF old
    <2>5. w.disk.aof.synced \in 0..Len(old \o a)
      BY <1>5, <1>8
    <2> QED
      BY <1>5, <1>7, <2>1, <2>4, <2>5 DEF DiskOK
  <1>10. WorldOK(x)
    BY <1>3, <1>9 DEF WorldOK, d1, t
  <1>11. Len(old) <= Len(old \o a) /\ Durable(w.disk) <= Durable(x.disk)
    BY <1>5, <1>7, <1>8 DEF Durable, d1
  <1> QED
    BY <1>2, <1>5, <1>6, <1>7, <1>10, <1>11 DEF Flushes, d1, t

\* A short write.
LEMMA HalfIsLess == ASSUME NEW n \in Nat, n # 0 PROVE n \div 2 \in 0..(n - 1)
  OBVIOUS

\* aofWrite: all of the buffer, a part of it or nothing goes to the file.
LEMMA BufferWritten ==
    ASSUME NEW w, NEW outcome \in WriteOutcomes, WorldOK(w), w.srv.buf # <<>>
    PROVE  LET x == aofWrite(w, outcome)
           IN /\ Flushes(w, x)
              /\ outcome = "ok" => x.srv.buf = <<>> /\ ~x.srv.err
              /\ outcome # "ok" => x.srv.buf # <<>> /\ x.srv.err
              /\ x.srv.exits = w.srv.exits
  <1> DEFINE x == aofWrite(w, outcome)
             w1 == [w EXCEPT !.srv.postponed = "no"]
             size == Len(w.srv.buf)
             n == IF outcome = "ok" THEN size ELSE IF outcome = "error" THEN 0 ELSE size \div 2
  <1> SUFFICES /\ Flushes(w, x)
               /\ outcome = "ok" => x.srv.buf = <<>> /\ ~x.srv.err
               /\ outcome # "ok" => x.srv.buf # <<>> /\ x.srv.err
               /\ x.srv.exits = w.srv.exits
    OBVIOUS
  <1>0. ServerOK(w.srv) /\ DiskOK(w.disk, w.jobs) /\ DOMAIN w = {"srv", "disk", "jobs"}
    BY DEF WorldOK
  <1>1. w.srv.buf \in Seq(Command) /\ size \in Nat /\ size # 0
    BY <1>0, EmptySeq DEF ServerOK
  <1>2. n \in 0..size /\ (outcome = "ok" => n = size) /\ (outcome # "ok" => n < size)
    <2>1. size \div 2 \in 0..(size - 1)
      BY <1>1, HalfIsLess
    <2> HIDE DEF size
    <2> QED
      BY <1>1, <2>1
  <1>3. /\ w1.srv = [w.srv EXCEPT !.postponed = "no"] /\ w1.disk = w.disk /\ w1.jobs = w.jobs
        /\ DOMAIN w1 = {"srv", "disk", "jobs"}
    BY <1>0
  <1>4. Quiet(w.srv, w1.srv) /\ w1.srv.exits = w.srv.exits
    BY <1>0, <1>3 DEF Quiet, ServerOK, ServerFields
  <1> HIDE DEF w1
  <1>5. CASE outcome = "error"
    <2>1. x = [w1 EXCEPT !.srv.err = TRUE]
      BY <1>5 DEF aofWrite, w1
    <2> HIDE DEF x
    <2>2. x.srv = [w1.srv EXCEPT !.err = TRUE] /\ x.disk = w.disk /\ x.jobs = w.jobs
          /\ DOMAIN x = {"srv", "disk", "jobs"}
      BY <1>3, <2>1
    <2>3. Quiet(w.srv, x.srv) /\ x.srv.err /\ x.srv.exits = w.srv.exits
      BY <1>4, <2>2 DEF Quiet, ServerFields
    <2>4. Durable(w.disk) <= Durable(w.disk)
      BY <1>0, DiskSizes
    <2>5. Flushes(w, x)
      BY <1>0, <2>2, <2>3, <2>4, FlushesQuietly
    <2> QED
      BY <1>5, <2>3, <2>5 DEF Quiet
  <1>6. CASE outcome # "error"
    <2> DEFINE w2 == Written(w1, n)
               e == outcome # "ok"
    <2>1. x = [w2 EXCEPT !.srv.err = e]
      <3>1. CASE outcome = "ok"
        BY <3>1 DEF aofWrite, w1
      <3>2. CASE outcome = "part"
        BY <3>2 DEF aofWrite, w1
      <3> QED
        BY <1>6, <3>1, <3>2 DEF WriteOutcomes
    <2> HIDE DEF x, n
    <2>2. w2 = [w1 EXCEPT !.disk.aof.items = @ \o SubSeq(w1.srv.buf, 1, n),
                          !.srv.size = @ + n,
                          !.srv.buf = SubSeq(@, n + 1, Len(@))]
      BY DEF Written
    <2>3. /\ w2.srv = [w1.srv EXCEPT !.size = @ + n, !.buf = SubSeq(@, n + 1, Len(@))]
          /\ w2.disk = [w1.disk EXCEPT !.aof.items = @ \o SubSeq(w1.srv.buf, 1, n)]
          /\ w2.jobs = w1.jobs /\ DOMAIN w2 = {"srv", "disk", "jobs"}
      <3> HIDE DEF w2
      <3> QED
        BY <1>3, <2>2
    <2> HIDE DEF w2
    <2>4. x.srv = [w2.srv EXCEPT !.err = e] /\ x.disk = w2.disk /\ x.jobs = w2.jobs
          /\ DOMAIN x = {"srv", "disk", "jobs"}
      BY <2>1, <2>3
    <2> DEFINE a == SubSeq(w.srv.buf, 1, n)
               b == SubSeq(w.srv.buf, n + 1, Len(w.srv.buf))
    <2>a. w1.srv.buf = w.srv.buf
      BY <1>4 DEF Quiet
    <2>b. /\ w2.srv = [w1.srv EXCEPT !.size = @ + n, !.buf = b]
          /\ w2.disk = [w.disk EXCEPT !.aof.items = @ \o a]
      BY <1>3, <2>3, <2>a
    <2>c. a \in Seq(Command) /\ b \in Seq(Command) /\ a \o b = w.srv.buf /\ Len(b) = size - n
      BY <1>1, <1>2, CutAt
    <2> HIDE DEF a, b
    <2>5. /\ Quiet([w.srv EXCEPT !.buf = b], x.srv)
          /\ x.srv.err = e /\ x.srv.exits = w.srv.exits
      BY <1>0, <1>4, <2>4, <2>b DEF Quiet, ServerOK, ServerFields
    <2>6. /\ x.disk = [w.disk EXCEPT !.aof.items = @ \o a] /\ x.jobs = w.jobs
      BY <1>3, <2>3, <2>4, <2>b
    <2> DEFINE u == [w.srv EXCEPT !.buf = b]
               d == [w.disk EXCEPT !.aof.items = @ \o a]
    <2>d. u = [w.srv EXCEPT !.buf = b] /\ d = [w.disk EXCEPT !.aof.items = @ \o a]
      OBVIOUS
    <2>e. DOMAIN x = {"srv", "disk", "jobs"} /\ Quiet(u, x.srv) /\ x.disk = d /\ x.jobs = w.jobs
      BY <2>4, <2>5, <2>6
    <2>g. Parts(a, b, w.srv.buf)
      BY <2>c DEF Parts
    <2> HIDE DEF u, d
    <2>7. Flushes(w, x)
      BY <2>c, <2>d, <2>e, <2>g, Writes
    <2>f. Len(x.srv.buf) = size - n
      BY <1>0, <2>5, <2>c DEF Quiet, ServerOK, ServerFields
    <2>8. x.srv.buf \in Seq(Command)
      BY <2>7 DEF Flushes, WorldOK, ServerOK
    <2>9. (outcome = "ok" => x.srv.buf = <<>>) /\ (outcome # "ok" => x.srv.buf # <<>>)
      <3> HIDE DEF size
      <3>1. outcome = "ok" => Len(x.srv.buf) = 0
        BY <1>1, <1>2, <2>f
      <3>2. outcome # "ok" => Len(x.srv.buf) # 0
        BY <1>1, <1>2, <2>f
      <3> QED
        BY <2>8, <3>1, <3>2, EmptySeq
    <2> QED
      BY <2>5, <2>7, <2>9
  <1> QED
    BY <1>5, <1>6

\* flushAppendOnlyFile: with appendfsync always the buffer is in the file and the file
\* is synced, or the process exits.
LEMMA Flushed ==
    ASSUME NEW w, NEW force \in BOOLEAN, NEW outcome \in WriteOutcomes, WorldOK(w)
    PROVE  LET x == flushAppendOnlyFile(w, force, outcome)
           IN /\ Flushes(w, x)
              /\ Strict /\ OwedOK(w.srv, w.disk) => OwedOK(x.srv, x.disk)
              /\ Strict /\ ~x.srv.exits => x.srv.buf = <<>>
  <1> DEFINE x == flushAppendOnlyFile(w, force, outcome)
             y == aofWrite(w, outcome)
             sync == config.policy = "everysec" /\ w.jobs # <<>>
  <1> SUFFICES /\ Flushes(w, x)
               /\ Strict /\ OwedOK(w.srv, w.disk) => OwedOK(x.srv, x.disk)
               /\ Strict /\ ~x.srv.exits => x.srv.buf = <<>>
    OBVIOUS
  <1>0. Flushes(w, w)
    BY FlushesItself
  <1>1. CASE w.srv.buf = <<>>
    <2>1. x = w \/ (~Strict /\ x = TryFsync(w, FALSE))
      BY <1>1 DEF flushAppendOnlyFile, Strict
    <2>2. Flushes(w, TryFsync(w, FALSE))
      BY Fsyncs
    <2> HIDE DEF x
    <2> QED
      BY <1>0, <1>1, <2>1, <2>2
  <1>2. CASE w.srv.buf # <<>> /\ Postpones(w, force)
    <2> DEFINE v == IF w.srv.postponed = "no" THEN "yes" ELSE w.srv.postponed
    <2>1. x = [w EXCEPT !.srv.postponed = v]
      BY <1>2 DEF flushAppendOnlyFile
    <2> HIDE DEF x, v
    <2>2. x.srv = [w.srv EXCEPT !.postponed = v] /\ x.disk = w.disk /\ x.jobs = w.jobs
          /\ DOMAIN x = {"srv", "disk", "jobs"}
      BY <2>1 DEF WorldOK
    <2>3. Quiet(w.srv, x.srv)
      BY <2>2 DEF Quiet, WorldOK, ServerOK, ServerFields
    <2>4. Durable(w.disk) <= Durable(w.disk) /\ DiskOK(w.disk, w.jobs)
      BY DiskSizes DEF WorldOK
    <2>5. Flushes(w, x)
      BY <2>2, <2>3, <2>4, FlushesQuietly
    <2>6. ~Strict
      BY <1>2 DEF Postpones, Strict
    <2> QED
      BY <2>5, <2>6
  <1>3. CASE w.srv.buf # <<>> /\ ~Postpones(w, force)
    <2>1. x = IF ~y.srv.err THEN TryFsync(y, sync)
              ELSE [y EXCEPT !.srv.exits = config.policy = "always"]
      BY <1>3 DEF flushAppendOnlyFile
    <2>2. /\ Flushes(w, y) /\ WorldOK(y)
          /\ outcome = "ok" => y.srv.buf = <<>> /\ ~y.srv.err
          /\ outcome # "ok" => y.srv.buf # <<>> /\ y.srv.err
      BY <1>3, BufferWritten DEF Flushes
    <2> HIDE DEF x, y
    <2>3. CASE outcome = "ok"
      <3>1. x = TryFsync(y, sync)
        BY <2>1, <2>2, <2>3
      <3>2. /\ Flushes(y, x) /\ x.srv.buf = <<>>
            /\ Strict => Durable(x.disk) = Len(x.disk.aof.items)
        BY <2>2, <2>3, <3>1, Fsyncs
      <3>3. Flushes(w, x)
        BY <2>2, <3>2, FlushesTwice
      <3> QED
        BY <3>2, <3>3 DEF OwedOK
    <2>4. CASE outcome # "ok"
      <3> DEFINE e == config.policy = "always"
      <3>1. x = [y EXCEPT !.srv.exits = e]
        BY <2>1, <2>2, <2>4
      <3>a. Strict => e
        BY DEF Strict
      <3> HIDE DEF e
      <3>2. x.srv = [y.srv EXCEPT !.exits = e] /\ x.disk = y.disk /\ x.jobs = y.jobs
            /\ DOMAIN x = {"srv", "disk", "jobs"}
        BY <2>2, <3>1 DEF WorldOK
      <3>3. Quiet(y.srv, x.srv) /\ x.srv.exits = e /\ x.srv.buf # <<>>
        BY <2>2, <2>4, <3>2 DEF Quiet, WorldOK, ServerOK, ServerFields
      <3>4. Durable(y.disk) <= Durable(y.disk) /\ DiskOK(y.disk, y.jobs)
        BY <2>2, DiskSizes DEF WorldOK
      <3>5. Flushes(y, x)
        BY <2>2, <3>2, <3>3, <3>4, FlushesQuietly
      <3>6. Flushes(w, x)
        BY <2>2, <3>5, FlushesTwice
      <3> QED
        BY <3>a, <3>3, <3>6 DEF OwedOK
    <2> QED
      BY <2>3, <2>4
  <1> QED
    BY <1>1, <1>2, <1>3

-----------------------------------------------------------------------------
(* loadDataFromDisk *)

\* The maximum of two numbers.
LEMMA TheLarger ==
    ASSUME NEW a \in Nat, NEW b \in Nat
    PROVE  /\ Max({a, b}) = (IF a >= b THEN a ELSE b)
           /\ Min({a, b}) = (IF a <= b THEN a ELSE b)
  BY DEF Max, Min

\* The state of a server that has just loaded its data.
LEMMA StartedFields ==
    ASSUME NEW data \in Data, NEW acked \in Nat, NEW state \in {"on", "off"}, NEW size, NEW dirty \in Nat
    PROVE  LET s == Started(data, acked, state, size, dirty)
           IN /\ ServerOK(s) /\ RewriteOK(s) /\ s.data = data /\ s.state = state /\ s.buf = <<>> /\ s.sel = -1
              /\ s.acked = (IF acked <= Len(data) THEN acked ELSE Len(data))
              /\ s.loaded = Len(data) /\ s.dirty = dirty /\ s.rdb = None /\ ~s.owed
  <1> DEFINE s == Started(data, acked, state, size, dirty)
             m == IF acked <= Len(data) THEN acked ELSE Len(data)
  <1>0. Len(data) \in Nat /\ m \in 0..Len(data) /\ <<>> \in Seq(Command)
    BY DEF Data
  <1>1. Min({acked, Len(data)}) = m
    BY <1>0, TheLarger
  <1> HIDE DEF m
  <1>2. /\ DOMAIN s = ServerFields /\ s.data = data /\ s.acked = m /\ s.owed = FALSE
        /\ s.state = state /\ s.sel = -1 /\ s.buf = <<>> /\ s.rbuf = <<>> /\ s.child = None
        /\ s.rdb = None /\ s.loaded = Len(data) /\ s.dirty = dirty /\ s.before = 0
    BY <1>1 DEF Started, ServerFields
  <1> HIDE DEF s
  <1>3. ServerOK(s)
    <2>1. /\ s.data \in Data /\ s.acked \in 0..Len(s.data) /\ s.owed \in BOOLEAN
          /\ s.state \in {"on", "wait", "off"} /\ s.sel \in Nat \cup {-1}
      BY <1>0, <1>2
    <2>2. s.buf \in Seq(Command) /\ s.rbuf \in Seq(Command)
      BY <1>0, <1>2
    <2>3. /\ s.child \in LiveChild \cup {None} /\ s.rdb \in RdbRecord \cup {None}
          /\ s.loaded \in Nat /\ s.dirty \in Nat /\ s.before \in Nat
      BY <1>0, <1>2
    <2> QED
      BY <1>2, <2>1, <2>2, <2>3 DEF ServerOK
  <1>4. RewriteOK(s)
    BY <1>2 DEF RewriteOK
  <1> QED
    BY <1>2, <1>3, <1>4 DEF m, s

\* What loadAppendOnlyFile makes of a file of which a part is known to be complete.
LEMMA KeptFile ==
    ASSUME NEW items \in Files, WellFormed(items), NEW n \in 0..Len(items)
    PROVE  LET kept == ValidUpTo(items)
               data == Load(kept).data
           IN /\ kept \in Files /\ Len(kept) \in 0..Len(items) /\ Holds(kept, data, -1) /\ data \in Data
              /\ n <= Len(kept) => Loading(kept)[n] = Loading(items)[n]
              /\ kept # <<>> /\ kept[1].t = "snap" => Len(kept[1].v) \in Nat /\ Len(kept[1].v) <= Len(data)
  <1> DEFINE kept == ValidUpTo(items)
             data == Load(kept).data
  <1>0. Len(items) \in Nat
    BY DEF Files
  <1>1. PICK k \in 0..Len(items) : kept = SubSeq(items, 1, k) /\ ~Loading(items)[k].open
    BY ValidIsBeginning
  <1>2. /\ kept \in Files /\ Len(kept) = k /\ WellFormed(kept)
        /\ \A i \in 0..k : Loading(kept)[i] = Loading(items)[i]
    <2> HIDE DEF kept
    <2> QED
      BY <1>1, Beginning
  <1> HIDE DEF kept
  <1>a. Len(kept) \in Nat /\ Len(kept) \in 0..Len(kept) /\ Len(kept) \in 0..Len(items)
    BY <1>0, <1>2
  <1>3. Load(kept) = Loading(items)[k] /\ Load(kept) = Loading(kept)[Len(kept)]
    BY <1>0, <1>2 DEF Load
  <1>4. Holds(kept, data, -1)
    BY <1>1, <1>2, <1>3 DEF Holds
  <1>5. data \in Data
    BY <1>4, HoldsData
  <1>6. ASSUME n <= Len(kept) PROVE Loading(kept)[n] = Loading(items)[n]
    <2>1. n \in 0..k
      BY <1>0, <1>2, <1>6
    <2> QED
      BY <1>2, <2>1
  <1>7. ASSUME kept # <<>>, kept[1].t = "snap" PROVE Len(kept[1].v) \in Nat /\ Len(kept[1].v) <= Len(data)
    <2>1. Len(kept) # 0 /\ 1 \in 1..Len(kept) /\ 1 \in 0..Len(kept)
      BY <1>2, <1>a, <1>7, EmptySeq DEF Files
    <2>2. Loading(kept)[1] = LoadItem(Nothing, kept[1])
      BY <1>a, <2>1, LoadingSteps
    <2>3. kept[1] \in [t : {"snap"}, v : Data]
      BY <1>2, <1>7, <2>1 DEF Files, Command
    <2>4. Loading(kept)[1].data = kept[1].v /\ kept[1].v \in Data
      BY <1>7, <2>2, <2>3 DEF LoadItem, Nothing
    <2>5. Pre(Loading(kept)[1].data, Loading(kept)[Len(kept)].data)
      BY <1>2, <1>a, <2>1, LoadingGrows
    <2> QED
      BY <1>3, <2>4, <2>5 DEF Pre, Data
  <1> QED
    BY <1>2, <1>a, <1>4, <1>5, <1>6, <1>7 DEF kept

\* loadDataFromDisk: the server after a restart.
LEMMA Loads ==
    ASSUME NEW d, NEW j, DiskOK(d, j), srv.acked \in Nat, config.aof \in BOOLEAN,
           config.aof => WellFormed(d.aof.items),
           config.aof /\ Strict => AckedOK(srv, d) \/ d.aof.synced = Len(d.aof.items)
    PROVE  LET w == loadDataFromDisk(d)
           IN /\ WorldOK(w) /\ FileOK(w.srv, w.disk) /\ RewriteOK(w.srv) /\ DirtyOK(w.srv, w.disk)
              /\ config.aof = (w.srv.state = "on")
              /\ Strict /\ w.srv.state = "on" => AckedOK(w.srv, w.disk) /\ OwedOK(w.srv, w.disk)
  <1> DEFINE w == loadDataFromDisk(d)
  <1> SUFFICES /\ WorldOK(w) /\ FileOK(w.srv, w.disk) /\ RewriteOK(w.srv) /\ DirtyOK(w.srv, w.disk)
               /\ config.aof = (w.srv.state = "on")
               /\ Strict /\ w.srv.state = "on" => AckedOK(w.srv, w.disk) /\ OwedOK(w.srv, w.disk)
    OBVIOUS
  <1>0. d.aof.items \in Files /\ d.aof.ino \in Nat /\ d.aof.synced \in 0..Len(d.aof.items)
        /\ d.aof.synced \in Nat /\ d.rdb \in Data /\ Len(d.rdb) \in Nat /\ d.aof.fresh \in BOOLEAN
        /\ DOMAIN d = {"aof", "rdb"} /\ DOMAIN d.aof = {"ino", "items", "synced", "fresh"}
    BY DEF DiskOK, Files, Data
  <1>e. <<>> \in Seq([ino : Nat, len : Nat]) /\ Len(<<>>) = 0
    OBVIOUS
  <1>1. CASE config.aof
    <2> DEFINE items == d.aof.items
               n == d.aof.synced
               kept == ValidUpTo(items)
               data == Load(kept).data
               old == IF kept # <<>> /\ kept[1].t = "snap" THEN Len(kept[1].v) ELSE 0
               dirty == Len(data) - old
               s1 == Started(data, srv.acked, "on", Len(kept), dirty)
               m == Min({n, Len(kept)})
               d1 == [d EXCEPT !.aof.items = kept, !.aof.synced = m]
    <2>1. w.srv = s1 /\ w.disk = d1 /\ w.jobs = <<>> /\ DOMAIN w = {"srv", "disk", "jobs"}
      <3>1. w = [srv |-> s1, disk |-> [d EXCEPT !.aof.items = kept, !.aof.synced = m], jobs |-> <<>>]
        BY <1>1 DEF loadDataFromDisk
      <3> HIDE DEF w, s1, d1, kept, m
      <3>2. d1 = [d EXCEPT !.aof.items = kept, !.aof.synced = m]
        BY DEF d1
      <3> QED
        BY <3>1, <3>2
    <2>2. /\ kept \in Files /\ Len(kept) \in Nat /\ Len(kept) <= Len(items)
          /\ Holds(kept, data, -1) /\ data \in Data
          /\ n <= Len(kept) => Loading(kept)[n] = Loading(items)[n]
          /\ kept # <<>> /\ kept[1].t = "snap" => Len(kept[1].v) \in Nat /\ Len(kept[1].v) <= Len(data)
      <3>1. kept \in Files /\ Len(kept) \in 0..Len(items) /\ Len(items) \in Nat
        BY <1>0, <1>1, KeptFile DEF Files
      <3> QED
        BY <1>0, <1>1, <3>1, KeptFile
    <2> HIDE DEF w, kept, data
    <2>3. Len(data) \in Nat /\ dirty \in Nat
      <3>1. Len(data) \in Nat
        BY <2>2 DEF Data
      <3> QED
        BY <2>2, <3>1
    <2> HIDE DEF dirty, old
    <2>4. /\ ServerOK(s1) /\ RewriteOK(s1) /\ s1.data = data /\ s1.state = "on" /\ s1.buf = <<>> /\ s1.sel = -1
          /\ s1.acked = (IF srv.acked <= Len(data) THEN srv.acked ELSE Len(data))
          /\ s1.loaded = Len(data) /\ s1.dirty = dirty /\ s1.rdb = None /\ ~s1.owed
      BY <2>2, <2>3, StartedFields
    <2> HIDE DEF s1
    <2>5. m = (IF n <= Len(kept) THEN n ELSE Len(kept)) /\ m \in 0..Len(kept)
      <3>1. m = (IF n <= Len(kept) THEN n ELSE Len(kept))
        BY <1>0, <2>2, TheLarger
      <3> HIDE DEF m
      <3> QED
        BY <1>0, <2>2, <3>1
    <2> HIDE DEF m
    <2>6. /\ d1.aof.items = kept /\ d1.aof.synced = m /\ d1.aof.ino = d.aof.ino /\ d1.rdb = d.rdb
          /\ d1.aof.fresh = d.aof.fresh
          /\ DOMAIN d1 = {"aof", "rdb"} /\ DOMAIN d1.aof = {"ino", "items", "synced", "fresh"}
      BY <1>0
    <2> HIDE DEF d1
    <2>7. DiskOK(d1, <<>>)
      BY <1>0, <1>e, <2>2, <2>5, <2>6 DEF DiskOK
    <2>8. FileOK(s1, d1)
      <3>1. kept \o <<>> = kept
        BY <2>2, ConcatEmptySeq DEF Files
      <3> QED
        BY <2>2, <2>4, <2>6, <3>1 DEF FileOK
    <2>9. DirtyOK(s1, d1)
      <3>1. Max({Len(d.rdb), Len(data)}) = (IF Len(d.rdb) >= Len(data) THEN Len(d.rdb) ELSE Len(data))
        BY <1>0, <2>3, TheLarger
      <3>2. Len(data) - Max({Len(d.rdb), Len(data)}) <= dirty
        BY <1>0, <2>3, <3>1
      <3> QED
        BY <2>4, <2>6, <3>2 DEF DirtyOK
    <2>10. OwedOK(s1, d1)
      BY <2>4 DEF OwedOK
    <2>11. ASSUME Strict PROVE AckedOK(s1, d1)
      <3>1. Loading(kept)[Len(kept)].data = data
        BY <2>2 DEF Holds, Load
      <3>2. Len(Loading(kept)[Len(kept)].data) >= s1.acked
        BY <2>3, <2>4, <3>1
      <3>3. CASE d.aof.fresh \/ ~(n < Len(kept))
        <4>1. Durable(d1) = Len(kept)
          BY <1>0, <2>2, <2>5, <2>6, <3>3 DEF Durable
        <4> QED
          BY <2>6, <3>2, <4>1 DEF AckedOK
      <3>4. CASE ~d.aof.fresh /\ n < Len(kept)
        <4>1. n # Len(items)
          BY <1>0, <2>2, <3>4
        <4>2. Len(Loading(items)[n].data) >= srv.acked
          BY <1>1, <2>11, <3>4, <4>1 DEF AckedOK, Durable
        <4>3. Loading(items)[n].data \in Data
          BY <1>0, LoadingType DEF LoadState
        <4>4. Len(Loading(items)[n].data) \in Nat
          BY <4>3 DEF Data
        <4> HIDE DEF items, n
        <4>a. n \in Nat /\ n <= Len(kept)
          BY <1>0, <2>2, <3>4 DEF n
        <4>5. Len(Loading(kept)[n].data) >= s1.acked
          BY <2>2, <2>3, <2>4, <4>2, <4>4, <4>a
        <4>6. Durable(d1) = n
          BY <2>5, <2>6, <3>4, <4>a DEF Durable
        <4> QED
          BY <2>6, <4>5, <4>6 DEF AckedOK
      <3> QED
        BY <3>3, <3>4
    <2> QED
      BY <1>1, <2>1, <2>4, <2>7, <2>8, <2>9, <2>10, <2>11 DEF WorldOK
  <1>2. CASE ~config.aof
    <2> DEFINE s1 == Started(d.rdb, srv.acked, "off", 0, 0)
    <2>1. w.srv = s1 /\ w.disk = d /\ w.jobs = <<>> /\ DOMAIN w = {"srv", "disk", "jobs"}
      <3>1. w = [srv |-> s1, disk |-> d, jobs |-> <<>>]
        BY <1>2 DEF loadDataFromDisk
      <3> HIDE DEF w, s1
      <3> QED
        BY <3>1
    <2> HIDE DEF w
    <2>2. /\ ServerOK(s1) /\ RewriteOK(s1) /\ s1.data = d.rdb /\ s1.state = "off"
          /\ s1.loaded = Len(d.rdb) /\ s1.dirty = 0 /\ s1.rdb = None
      BY <1>0, StartedFields
    <2> HIDE DEF s1
    <2>3. DiskOK(d, <<>>)
      BY <1>0, <1>e DEF DiskOK
    <2>4. DirtyOK(s1, d)
      <3>1. Max({Len(d.rdb), Len(d.rdb)}) = Len(d.rdb)
        BY <1>0, TheLarger
      <3>2. Len(d.rdb) - Max({Len(d.rdb), Len(d.rdb)}) <= 0
        BY <1>0, <3>1
      <3> QED
        BY <2>2, <3>2 DEF DirtyOK
    <2> QED
      BY <1>2, <2>1, <2>2, <2>3, <2>4 DEF WorldOK, FileOK
  <1> QED
    BY <1>1, <1>2

-----------------------------------------------------------------------------
(* The changes since the last save *)

\* The parts of a save.
LEMMA RdbFields ==
    ASSUME NEW s, ServerOK(s), s.rdb # None
    PROVE  s.rdb \in RdbRecord /\ s.rdb.snap \in Data /\ Len(s.rdb.snap) \in Nat
           /\ s.rdb.phase \in {"save", "exit", "fail", "killed"}
  <1>1. s.rdb \in RdbRecord
    BY DEF ServerOK
  <1> QED
    BY <1>1 DEF RdbRecord, Data

\* k writes more, and k changes counted.
LEMMA DirtyGrows ==
    ASSUME NEW s, NEW t, NEW d, NEW k \in Nat, ServerOK(s), DirtyOK(s, d), d.rdb \in Data,
           Len(t.data) = Len(s.data) + k, t.dirty = s.dirty + k,
           t.rdb = s.rdb, t.before = s.before, t.loaded = s.loaded
    PROVE  DirtyOK(t, d)
  <1> DEFINE m == Max({Len(d.rdb), s.loaded})
  <1>1. Len(d.rdb) \in Nat /\ s.loaded \in Nat /\ Len(s.data) \in Nat /\ s.dirty \in Nat /\ s.before \in Nat
    BY DEF ServerOK, Data
  <1>2. m \in Nat
    BY <1>1, TheLarger
  <1> HIDE DEF m
  <1>3. Len(s.data) - m <= s.dirty
    BY DEF DirtyOK, m
  <1>4. Len(t.data) - m <= t.dirty
    BY <1>1, <1>2, <1>3
  <1>5. ASSUME s.rdb # None, s.rdb.phase \in {"save", "exit"}
        PROVE  Len(s.rdb.snap) <= Len(t.data) /\ Len(t.data) - Len(s.rdb.snap) <= t.dirty - t.before
    <2>1. Len(s.rdb.snap) <= Len(s.data) /\ Len(s.data) - Len(s.rdb.snap) <= s.dirty - s.before
      BY <1>5 DEF DirtyOK
    <2>2. Len(s.rdb.snap) \in Nat
      BY <1>5, RdbFields
    <2> DEFINE a == Len(s.data)
               b == Len(s.rdb.snap)
               c == s.dirty
               e == s.before
    <2>3. a \in Nat /\ b \in Nat /\ c \in Nat /\ e \in Nat /\ b <= a /\ a - b <= c - e
      BY <1>1, <2>1, <2>2
    <2>4. Len(t.data) = a + k /\ t.dirty = c + k /\ t.before = e
      OBVIOUS
    <2> HIDE DEF a, b, c, e
    <2>5. b <= a + k /\ (a + k) - b <= (c + k) - e
      BY <2>3
    <2> QED
      BY <2>4, <2>5 DEF b
  <1> QED
    BY <1>4, <1>5 DEF DirtyOK, m

\* A child that saves is killed.
LEMMA RdbKilled ==
    ASSUME NEW s, ServerOK(s)
    PROVE  LET t == KillRdbChild(s)
           IN /\ ServerOK(t) /\ Quiet([s EXCEPT !.rdb = t.rdb], t)
              /\ t.exits = s.exits /\ t.rdbok = s.rdbok
              /\ t.rdb = None <=> s.rdb = None
              /\ t.rdb # None => /\ t.rdb.snap = s.rdb.snap
                                 /\ t.rdb.phase # "save"
                                 /\ t.rdb.phase = "exit" => s.rdb.phase = "exit"
  <1> DEFINE t == KillRdbChild(s)
             u == [s EXCEPT !.rdb = t.rdb]
  <1>1. CASE s.rdb # None /\ s.rdb.phase = "save"
    <2>1. t = [s EXCEPT !.rdb.phase = "killed"]
      BY <1>1 DEF KillRdbChild
    <2> DEFINE c == [s.rdb EXCEPT !.phase = "killed"]
    <2>2. c \in RdbRecord /\ c # None /\ c.snap = s.rdb.snap /\ c.phase = "killed"
      <3>1. c \in RdbRecord /\ c.snap = s.rdb.snap /\ c.phase = "killed"
        BY <1>1, RdbFields DEF RdbRecord
      <3> QED
        BY <3>1, NoneAssumption
    <2>3. t = [s EXCEPT !.rdb = c]
      <3> HIDE DEF t
      <3> QED
        BY <2>1
    <2> HIDE DEF c, t
    <2>4. /\ DOMAIN t = ServerFields /\ t.rdb = c /\ t.exits = s.exits /\ t.rdbok = s.rdbok
          /\ t.data = s.data /\ t.acked = s.acked /\ t.owed = s.owed /\ t.state = s.state
          /\ t.buf = s.buf /\ t.sel = s.sel /\ t.child = s.child /\ t.rbuf = s.rbuf
          /\ t.loaded = s.loaded /\ t.dirty = s.dirty /\ t.before = s.before
      BY <2>3 DEF ServerOK, ServerFields
    <2>5. ServerOK(t)
      BY <1>1, <2>2, <2>4 DEF ServerOK
    <2>6. Quiet(u, t)
      BY <2>4 DEF Quiet, ServerOK, ServerFields
    <2> QED
      BY <1>1, <2>2, <2>4, <2>5, <2>6 DEF t
  <1>2. CASE ~(s.rdb # None /\ s.rdb.phase = "save")
    <2>1. t = s
      BY <1>2 DEF KillRdbChild
    <2>2. Quiet(u, t)
      BY <2>1 DEF Quiet, ServerOK, ServerFields
    <2> QED
      BY <1>2, <2>1, <2>2
  <1> QED
    BY <1>1, <1>2

\* So the changes are still counted.
LEMMA DirtyKilled ==
    ASSUME NEW s, NEW t, NEW d, DirtyOK(s, d),
           t.data = s.data, t.dirty = s.dirty, t.before = s.before, t.loaded = s.loaded,
           t.rdb # None => /\ s.rdb # None /\ t.rdb.snap = s.rdb.snap /\ t.rdb.phase # "save"
                           /\ t.rdb.phase = "exit" => s.rdb.phase = "exit"
    PROVE  DirtyOK(t, d)
  BY DEF DirtyOK

-----------------------------------------------------------------------------
(* Every action keeps the invariant *)

\* What an action has to show.
LEMMA Becomes ==
    ASSUME ConfigOK, Safe(srv', disk', jobs'), config' = config,
           srv'.state = "on" <=> srv.state = "on",
           budget' = budget \/ \E what \in BudgetFields \ {"writes"} : Spend(what)
    PROVE  Steady'
  <1>1. DOMAIN budget' = BudgetFields /\ budget'.writes = budget.writes
    <2>1. CASE budget' = budget
      BY <2>1 DEF ConfigOK
    <2>2. ASSUME NEW what \in BudgetFields \ {"writes"}, Spend(what)
          PROVE  DOMAIN budget' = BudgetFields /\ budget'.writes = budget.writes
      BY <2>2 DEF Spend, ConfigOK, BudgetFields
    <2> QED
      BY <2>1, <2>2
  <1>2. ConfigOK'
    BY <1>1 DEF ConfigOK
  <1>3. Safe(srv, disk, jobs)'
    BY DEF Safe, Strict
  <1> QED
    BY <1>2, <1>3 DEF Steady

\* A write command and feedAppendOnlyFile.
LEMMA ClientWritesKeeps ==
    ASSUME Steady, NEW dd \in {0, 1}, NEW multi \in BOOLEAN, ClientWrites(dd, multi)
    PROVE  Steady'
  <1> DEFINE n == Len(budget.writes)
             items == IF multi THEN Transaction(n) ELSE <<Item("write", n)>>
             p == <<dd, n>>
             k == IF multi THEN 2 ELSE 1
             more == [i \in 1..k |-> p]
             e == srv.data \o more
             t == [srv EXCEPT !.data = e, !.dirty = @ + k, !.owed = TRUE]
             u == feedAppendOnlyFile(t, dd, items)
  <1>1. srv' = u /\ UNCHANGED <<disk, jobs, config>>
    BY DEF ClientWrites, Transaction
  <1>2. ServerOK(srv) /\ DiskOK(disk, jobs) /\ Safe(srv, disk, jobs) /\ FileOK(srv, disk) /\ RewriteOK(srv)
        /\ DirtyOK(srv, disk)
    BY DEF Steady, Safe
  <1>3. budget.writes \in Seq({0, 1} \X BOOLEAN) /\ budget.writes # <<>> /\ DOMAIN budget = BudgetFields
        /\ budget' = [budget EXCEPT !.writes = Tail(@)]
    BY DEF Steady, ConfigOK, ClientWrites
  <1>4. srv'.state = srv.state => ConfigOK'
    <2>1. Tail(budget.writes) \in Seq({0, 1} \X BOOLEAN)
      BY <1>3, HeadTailProperties
    <2>2. DOMAIN budget' = BudgetFields /\ budget'.writes = Tail(budget.writes)
      BY <1>3 DEF BudgetFields
    <2> QED
      BY <1>1, <2>1, <2>2 DEF ConfigOK, Steady
  <1>5. n \in Nat /\ k \in {1, 2} /\ p \in Nat \X Nat /\ dd \in Nat
    <2>1. n \in Nat
      BY <1>3
    <2> QED
      BY <2>1
  <1>6. items \in Seq(Command) /\ items # <<>>
    <2>1. Item("write", n) \in Command /\ Item("multi", 0) \in Command /\ Item("exec", 0) \in Command
      BY <1>5 DEF Item, Command
    <2> QED
      BY <2>1 DEF Transaction
  <1>7. srv.data \in Data /\ e \in Data /\ Len(e) = Len(srv.data) + k /\ Len(srv.data) \in Nat
    <2>1. srv.data \in Data
      BY <1>2 DEF ServerOK
    <2>2. more \in Seq(Nat \X Nat) /\ Len(more) = k
      <3> HIDE DEF p
      <3> QED
        BY <1>5
    <2> DEFINE T == Nat \X Nat
               b == srv.data
    <2>3. b \in Seq(T) /\ more \in Seq(T)
      BY <2>1, <2>2 DEF Data
    <2> HIDE DEF more, T, b, k
    <2>4. b \o more \in Seq(T) /\ Len(b \o more) = Len(b) + Len(more) /\ Len(b) \in Nat
      BY <2>3, ConcatProperties
    <2> QED
      BY <2>1, <2>2, <2>4 DEF Data, T, b
  <1>8. ASSUME NEW file, Holds(file, srv.data, dd) PROVE Holds(file \o items, e, dd)
    <2>1. CASE multi
      <3>1. more = <<p, p>>
        BY <2>1
      <3>2. Holds(file \o Transaction(n), srv.data \o <<p, p>>, dd)
        BY <1>5, <1>8, HoldsTransaction
      <3> HIDE DEF more
      <3> QED
        BY <2>1, <3>1, <3>2
    <2>2. CASE ~multi
      <3>1. more = <<p>>
        BY <2>2
      <3>2. Holds(file \o <<Item("write", n)>>, Append(srv.data, p), dd)
        BY <1>5, <1>8, HoldsWrite
      <3>3. Append(srv.data, p) = srv.data \o <<p>>
        BY <1>5, <1>7, AppendIsConcat DEF Data
      <3> HIDE DEF more
      <3> QED
        BY <2>2, <3>1, <3>2, <3>3
    <2> QED
      BY <2>1, <2>2
  <1> HIDE DEF e, items, n, k, p, more
  <1>9. /\ DOMAIN t = ServerFields /\ t.data = e /\ t.dirty = srv.dirty + k /\ t.owed = TRUE
        /\ t.acked = srv.acked /\ t.state = srv.state
        /\ t.buf = srv.buf /\ t.sel = srv.sel /\ t.child = srv.child /\ t.rbuf = srv.rbuf
        /\ t.rdb = srv.rdb /\ t.loaded = srv.loaded /\ t.before = srv.before
    BY <1>2 DEF ServerOK, ServerFields
  <1> HIDE DEF t
  <1>10. ServerOK(t)
    <2>1. srv.acked \in 0..Len(srv.data) /\ srv.dirty \in Nat
      BY <1>2 DEF ServerOK
    <2>2. srv.acked \in 0..Len(e) /\ srv.dirty + k \in Nat
      BY <2>1, <1>5, <1>7
    <2> QED
      BY <1>2, <1>7, <1>9, <2>2 DEF ServerOK
  <1>11. /\ ServerOK(u) /\ FileOK(u, disk) /\ RewriteOK(u)
         /\ u.data = t.data /\ u.acked = t.acked /\ u.state = t.state
         /\ u.rdb = t.rdb /\ u.loaded = t.loaded /\ u.dirty = t.dirty /\ u.before = t.before
         /\ u.state = "on" => u.buf # <<>>
    <2>1. disk.aof.items \in Files
      BY <1>2 DEF DiskOK
    <2>2. t.state = srv.state /\ t.buf = srv.buf /\ t.sel = srv.sel /\ t.child = srv.child /\ t.rbuf = srv.rbuf
      BY <1>9
    <2>3. \A file : Holds(file, srv.data, dd) => Holds(file \o items, t.data, dd)
      BY <1>8, <1>9
    <2> QED
      BY <1>2, <1>5, <1>6, <1>10, <2>1, <2>2, <2>3, Fed
  <1> HIDE DEF u
  <1>12. DirtyOK(u, disk)
    <2>1. disk.rdb \in Data /\ k \in Nat
      BY <1>2, <1>5 DEF DiskOK
    <2>2. Len(u.data) = Len(srv.data) + k /\ u.dirty = srv.dirty + k /\ u.rdb = srv.rdb
          /\ u.before = srv.before /\ u.loaded = srv.loaded
      BY <1>7, <1>9, <1>11
    <2> QED
      BY <1>2, <2>1, <2>2, DirtyGrows
  <1>13. Strict /\ u.state = "on" => AckedOK(u, disk) /\ OwedOK(u, disk)
    BY <1>2, <1>9, <1>11 DEF Safe, AckedOK, OwedOK
  <1>14. Safe(u, disk, jobs)
    BY <1>2, <1>11, <1>12, <1>13 DEF Safe
  <1>15. Safe(srv, disk, jobs)'
    BY <1>1, <1>14 DEF Safe, Strict
  <1> QED
    BY <1>1, <1>4, <1>9, <1>11, <1>15 DEF Steady

\* The RDB file has all the data.
LEMMA DirtySaved ==
    ASSUME NEW s, NEW d, NEW j, ServerOK(s), DiskOK(d, j), DirtyOK(s, d) \/ s.rdb = None,
           NEW e, DOMAIN e = {"aof", "rdb"}, e.aof = d.aof, e.rdb = s.data
    PROVE  DirtyOK(s, e) /\ DiskOK(e, j)
  <1>1. s.loaded \in Nat /\ Len(s.data) \in Nat /\ s.dirty \in Nat /\ s.data \in Data
    BY DEF ServerOK, Data
  <1>2. DiskOK(e, j)
    BY <1>1 DEF DiskOK
  <1>3. Len(s.data) - Max({Len(s.data), s.loaded}) <= s.dirty
    BY <1>1, TheLarger
  <1>4. DirtyOK(s, e)
    BY <1>3 DEF DirtyOK
  <1> QED
    BY <1>2, <1>4

\* flushallCommand, with the RDB child it kills and the save it makes.
LEMMA FlushallKeeps ==
    ASSUME Steady, NEW saved \in BOOLEAN, flushallCommand(saved)
    PROVE  Steady'
  <1> DEFINE p == <<0, 0>>
             e == Append(srv.data, p)
             items == <<Item("write", 0)>>
             s0 == [srv EXCEPT !.data = e, !.owed = TRUE]
             s == KillRdbChild(s0)
             wa == [World EXCEPT !.srv = s]
             w == IF config.save THEN rdbSave(wa, saved) ELSE wa
             t == [w.srv EXCEPT !.dirty = srv.dirty + 1, !.rdbok = w.srv.rdbok]
             u == feedAppendOnlyFile(t, 0, items)
             d1 == [disk EXCEPT !.rdb = e]
  <1>1. srv' = u /\ disk' = w.disk /\ jobs' = w.jobs /\ config' = config /\ Spend("flushes")
    <2>1. Become([w EXCEPT !.srv = u]) /\ config' = config /\ Spend("flushes")
      BY DEF flushallCommand
    <2>2. DOMAIN w = {"srv", "disk", "jobs"}
      BY DEF World, rdbSave
    <2> HIDE DEF w, u
    <2> QED
      BY <2>1, <2>2 DEF Become
  <1>2. ServerOK(srv) /\ DiskOK(disk, jobs) /\ FileOK(srv, disk) /\ RewriteOK(srv) /\ DirtyOK(srv, disk)
        /\ Safe(srv, disk, jobs)
    BY DEF Steady, Safe
  <1>3. e \in Data /\ Len(e) = Len(srv.data) + 1 /\ Len(srv.data) \in Nat /\ srv.data \in Data
        /\ srv.acked \in 0..Len(e) /\ srv.dirty \in Nat
    <2>1. srv.data \in Data /\ srv.dirty \in Nat /\ srv.acked \in 0..Len(srv.data)
      BY <1>2 DEF ServerOK
    <2>2. p \in Nat \X Nat
      OBVIOUS
    <2>3. e \in Data /\ Len(e) = Len(srv.data) + 1 /\ Len(srv.data) \in Nat
      BY <2>1, <2>2 DEF Data
    <2> HIDE DEF e
    <2> QED
      BY <2>1, <2>3
  <1>4. ASSUME NEW file, Holds(file, srv.data, 0) PROVE Holds(file \o items, e, 0)
    BY <1>4, HoldsWrite
  <1>5. items \in Seq(Command) /\ items # <<>>
    BY DEF Item, Command
  <1> HIDE DEF e, items
  <1>6. /\ DOMAIN s0 = ServerFields /\ s0.data = e /\ s0.dirty = srv.dirty /\ s0.owed = TRUE
        /\ s0.acked = srv.acked /\ s0.state = srv.state
        /\ s0.buf = srv.buf /\ s0.sel = srv.sel /\ s0.child = srv.child /\ s0.rbuf = srv.rbuf
        /\ s0.rdb = srv.rdb /\ s0.loaded = srv.loaded /\ s0.before = srv.before
    BY <1>2 DEF ServerOK, ServerFields
  <1> HIDE DEF s0
  <1>7. ServerOK(s0)
    BY <1>2, <1>3, <1>6 DEF ServerOK
  <1>8. /\ ServerOK(s) /\ Quiet([s0 EXCEPT !.rdb = s.rdb], s)
        /\ s.rdb # None => /\ s0.rdb # None /\ s.rdb.snap = s0.rdb.snap
                           /\ s.rdb.phase # "save"
                           /\ s.rdb.phase = "exit" => s0.rdb.phase = "exit"
    BY <1>7, RdbKilled
  <1> HIDE DEF s
  <1>9. /\ DOMAIN s = ServerFields /\ s.data = e /\ s.dirty = srv.dirty /\ s.owed = TRUE
        /\ s.acked = srv.acked /\ s.state = srv.state
        /\ s.buf = srv.buf /\ s.sel = srv.sel /\ s.child = srv.child /\ s.rbuf = srv.rbuf
        /\ s.loaded = srv.loaded /\ s.before = srv.before
    BY <1>6, <1>8 DEF Quiet, ServerFields
  <1>10. /\ w.srv \in {s, [s EXCEPT !.dirty = 0, !.rdbok = TRUE]} /\ w.disk \in {disk, d1} /\ w.jobs = jobs
    BY <1>9 DEF World, rdbSave
  <1> HIDE DEF w
  <1>11. /\ DOMAIN t = ServerFields /\ t.data = e /\ t.dirty = srv.dirty + 1 /\ t.owed = TRUE
         /\ t.acked = srv.acked /\ t.state = srv.state
         /\ t.buf = srv.buf /\ t.sel = srv.sel /\ t.child = srv.child /\ t.rbuf = srv.rbuf
         /\ t.loaded = srv.loaded /\ t.before = srv.before /\ t.rdb = s.rdb
    BY <1>9, <1>10 DEF ServerFields
  <1> HIDE DEF t
  <1>12. ServerOK(t)
    <2>1. srv.dirty + 1 \in Nat
      BY <1>3
    <2> QED
      BY <1>8, <1>9, <1>11, <2>1 DEF ServerOK
  <1>13. /\ ServerOK(u) /\ FileOK(u, disk) /\ RewriteOK(u)
         /\ u.data = t.data /\ u.acked = t.acked /\ u.state = t.state
         /\ u.rdb = t.rdb /\ u.loaded = t.loaded /\ u.dirty = t.dirty /\ u.before = t.before
         /\ u.state = "on" => u.buf # <<>>
    <2>1. disk.aof.items \in Files /\ 0 \in Nat
      BY <1>2 DEF DiskOK
    <2>2. t.state = srv.state /\ t.buf = srv.buf /\ t.sel = srv.sel /\ t.child = srv.child /\ t.rbuf = srv.rbuf
      BY <1>11
    <2>3. \A file : Holds(file, srv.data, 0) => Holds(file \o items, t.data, 0)
      BY <1>4, <1>11
    <2> QED
      BY <1>2, <1>5, <1>12, <2>1, <2>2, <2>3, Fed
  <1> HIDE DEF u
  <1>14. DirtyOK(u, disk)
    <2> DEFINE z == [u EXCEPT !.rdb = srv.rdb]
    <2>0. /\ z.data = u.data /\ z.dirty = u.dirty /\ z.before = u.before /\ z.loaded = u.loaded /\ z.rdb = srv.rdb
      BY <1>13 DEF ServerOK, ServerFields
    <2> HIDE DEF z
    <2>1. disk.rdb \in Data /\ 1 \in Nat
      BY <1>2 DEF DiskOK
    <2>2. Len(z.data) = Len(srv.data) + 1 /\ z.dirty = srv.dirty + 1 /\ z.rdb = srv.rdb
          /\ z.before = srv.before /\ z.loaded = srv.loaded
      BY <1>3, <1>11, <1>13, <2>0
    <2>3. DirtyOK(z, disk)
      BY <1>2, <2>1, <2>2, DirtyGrows
    <2>4. u.rdb # None => /\ z.rdb # None /\ u.rdb.snap = z.rdb.snap /\ u.rdb.phase # "save"
                          /\ u.rdb.phase = "exit" => z.rdb.phase = "exit"
      BY <1>6, <1>8, <1>11, <1>13, <2>0
    <2> QED
      BY <2>0, <2>3, <2>4, DirtyKilled
  <1>15. DirtyOK(u, d1) /\ DiskOK(d1, jobs) /\ d1.aof = disk.aof
    <2>1. DOMAIN d1 = {"aof", "rdb"} /\ d1.aof = disk.aof /\ d1.rdb = u.data
      BY <1>2, <1>11, <1>13 DEF DiskOK
    <2> HIDE DEF d1
    <2> QED
      BY <1>2, <1>13, <1>14, <2>1, DirtySaved
  <1> HIDE DEF d1
  <1>16. DirtyOK(u, disk') /\ DiskOK(disk', jobs') /\ disk'.aof = disk.aof
    BY <1>1, <1>2, <1>10, <1>14, <1>15
  <1>17. FileOK(u, disk') /\ (Strict /\ u.state = "on" => AckedOK(u, disk') /\ OwedOK(u, disk'))
    BY <1>2, <1>11, <1>13, <1>16 DEF Safe, FileOK, AckedOK, OwedOK, Durable
  <1>18. Safe(srv', disk', jobs')
    BY <1>1, <1>13, <1>16, <1>17 DEF Safe
  <1>19. "flushes" \in BudgetFields \ {"writes"} /\ ConfigOK /\ srv'.state = srv.state
    BY <1>1, <1>11, <1>13 DEF BudgetFields, Steady
  <1> QED
    BY <1>1, <1>18, <1>19, Becomes

\* A flush keeps what is safe.
LEMMA FlushedSafe ==
    ASSUME NEW w, DOMAIN w = {"srv", "disk", "jobs"}, Safe(w.srv, w.disk, w.jobs),
           NEW force \in BOOLEAN, NEW outcome \in WriteOutcomes
    PROVE  LET x == flushAppendOnlyFile(w, force, outcome)
           IN /\ Safe(x.srv, x.disk, x.jobs) /\ Flushes(w, x)
              /\ Strict /\ ~x.srv.exits => x.srv.buf = <<>>
  <1> DEFINE x == flushAppendOnlyFile(w, force, outcome)
  <1>1. WorldOK(w)
    BY DEF WorldOK, Safe
  <1>2. /\ Flushes(w, x)
        /\ Strict /\ OwedOK(w.srv, w.disk) => OwedOK(x.srv, x.disk)
        /\ Strict /\ ~x.srv.exits => x.srv.buf = <<>>
    BY <1>1, Flushed
  <1> HIDE DEF x
  <1>3. /\ FileOK(x.srv, x.disk) /\ RewriteOK(x.srv) /\ DirtyOK(x.srv, x.disk)
        /\ w.srv.state = "on" /\ AckedOK(w.srv, w.disk) => AckedOK(x.srv, x.disk)
    BY <1>1, <1>2, FlushesKeep DEF Safe
  <1>4. x.srv.state = w.srv.state /\ ServerOK(x.srv) /\ DiskOK(x.disk, x.jobs)
    BY <1>2 DEF Flushes, WorldOK
  <1>5. Safe(x.srv, x.disk, x.jobs)
    BY <1>2, <1>3, <1>4 DEF Safe
  <1> QED
    BY <1>2, <1>5 DEF x

\* The replies are sent: the writes are acknowledged.
Replies(s, t) == t = [s EXCEPT !.acked = Len(s.data), !.owed = FALSE]
\* Replies leave after the flush.
LEMMA Acknowledged ==
    ASSUME NEW s, NEW d, NEW j, Safe(s, d, j), s.owed, s.state = "on", Strict => s.buf = <<>>,
           NEW t, Replies(s, t)
    PROVE  Safe(t, d, j) /\ t.state = s.state
  <1>0. ServerOK(s) /\ DiskOK(d, j) /\ FileOK(s, d) /\ RewriteOK(s) /\ DirtyOK(s, d)
    BY DEF Safe
  <1>1. /\ DOMAIN t = ServerFields /\ t.acked = Len(s.data) /\ t.owed = FALSE
        /\ t.data = s.data /\ t.state = s.state
        /\ t.buf = s.buf /\ t.sel = s.sel /\ t.child = s.child /\ t.rbuf = s.rbuf
        /\ t.rdb = s.rdb /\ t.loaded = s.loaded /\ t.dirty = s.dirty /\ t.before = s.before
    BY <1>0 DEF Replies, ServerOK, ServerFields
  <1>2. Len(s.data) \in 0..Len(s.data) /\ Len(s.data) \in Nat
    BY <1>0 DEF ServerOK, Data
  <1>3. ServerOK(t)
    BY <1>0, <1>1, <1>2 DEF ServerOK
  <1>4. FileOK(t, d) /\ RewriteOK(t) /\ DirtyOK(t, d) /\ OwedOK(t, d)
    BY <1>0, <1>1 DEF FileOK, RewriteOK, ToRewrite, DirtyOK, OwedOK
  <1>5. ASSUME Strict PROVE AckedOK(t, d)
    <2>1. Durable(d) = Len(d.aof.items) /\ s.buf = <<>>
      BY <1>5 DEF Safe, OwedOK
    <2>2. d.aof.items \o <<>> = d.aof.items
      BY <1>0, ConcatEmptySeq DEF DiskOK, Files
    <2>3. Holds(d.aof.items, s.data, s.sel)
      BY <1>0, <2>1, <2>2 DEF FileOK
    <2>4. Loading(d.aof.items)[Len(d.aof.items)].data = s.data
      BY <2>3 DEF Holds, Load
    <2> QED
      BY <1>1, <1>2, <2>1, <2>4 DEF AckedOK
  <1> QED
    BY <1>0, <1>1, <1>3, <1>4, <1>5 DEF Safe

\* beforeSleep: flush, then reply.
LEMMA BeforeSleepKeeps ==
    ASSUME Steady, NEW outcome \in WriteOutcomes, beforeSleep(outcome)
    PROVE  Steady'
  <1> DEFINE w == flushAppendOnlyFile(World, FALSE, outcome)
             t == [w.srv EXCEPT !.acked = Len(srv.data), !.owed = FALSE]
             x == IF w.srv.exits \/ ~srv.owed THEN w
                  ELSE [w EXCEPT !.srv.acked = Len(srv.data), !.srv.owed = FALSE]
  <1>1. Become(x) /\ config' = config /\ MayFail(outcome = "ok") /\ srv.state = "on"
    BY DEF beforeSleep
  <1>2. /\ World.srv = srv /\ World.disk = disk /\ World.jobs = jobs
        /\ DOMAIN World = {"srv", "disk", "jobs"}
    BY DEF World
  <1>3. /\ Safe(w.srv, w.disk, w.jobs) /\ Flushes(World, w)
        /\ Strict /\ ~w.srv.exits => w.srv.buf = <<>>
    <2>1. Safe(World.srv, World.disk, World.jobs)
      BY <1>2 DEF Steady
    <2> QED
      BY <1>2, <2>1, FlushedSafe
  <1> HIDE DEF w
  <1>4. w.srv.data = srv.data /\ w.srv.owed = srv.owed /\ w.srv.state = srv.state
        /\ DOMAIN w = {"srv", "disk", "jobs"}
    BY <1>2, <1>3 DEF Flushes, WorldOK
  <1>5. Safe(x.srv, x.disk, x.jobs) /\ x.srv.state = srv.state
    <2>1. CASE w.srv.exits \/ ~srv.owed
      BY <1>3, <1>4, <2>1
    <2>2. CASE ~(w.srv.exits \/ ~srv.owed)
      <3>1. x.srv = t /\ x.disk = w.disk /\ x.jobs = w.jobs
        BY <1>4, <2>2
      <3>2. Replies(w.srv, t)
        BY <1>4 DEF Replies
      <3> HIDE DEF x, t
      <3>3. Safe(t, w.disk, w.jobs) /\ t.state = w.srv.state
        <4>1. w.srv.owed /\ w.srv.state = "on" /\ (Strict => w.srv.buf = <<>>)
          BY <1>1, <1>3, <1>4, <2>2
        <4> QED
          BY <1>3, <3>2, <4>1, Acknowledged
      <3> QED
        BY <1>4, <3>1, <3>3
    <2> HIDE DEF x
    <2> QED
      BY <2>1, <2>2
  <1> HIDE DEF x
  <1>6. Safe(srv', disk', jobs') /\ srv'.state = srv.state /\ ConfigOK
    BY <1>1, <1>5 DEF Become, Steady
  <1>7. budget' = budget \/ \E what \in BudgetFields \ {"writes"} : Spend(what)
    BY <1>1 DEF MayFail, BudgetFields
  <1> QED
    BY <1>1, <1>6, <1>7, Becomes

\* More of the file is synced.
LEMMA SyncedMore ==
    ASSUME NEW s, NEW d, NEW j, Safe(s, d, j), NEW e, NEW k, DiskOK(e, k), e.rdb = d.rdb,
           e.aof.items = d.aof.items, Durable(d) <= Durable(e)
    PROVE  Safe(s, e, k)
  <1> DEFINE w == [srv |-> s, disk |-> d, jobs |-> j]
             x == [srv |-> s, disk |-> e, jobs |-> k]
  <1>1. ServerOK(s) /\ DiskOK(d, j) /\ FileOK(s, d) /\ RewriteOK(s) /\ DirtyOK(s, d)
    BY DEF Safe
  <1>2. /\ w.srv = s /\ w.disk = d /\ w.jobs = j /\ DOMAIN w = {"srv", "disk", "jobs"}
        /\ x.srv = s /\ x.disk = e /\ x.jobs = k /\ DOMAIN x = {"srv", "disk", "jobs"}
    OBVIOUS
  <1> HIDE DEF w, x
  <1>3. WorldOK(w) /\ Quiet(w.srv, x.srv)
    BY <1>1, <1>2 DEF WorldOK, Quiet, ServerOK
  <1>4. Flushes(w, x)
    BY <1>2, <1>3, FlushesQuietly
  <1>5. /\ FileOK(s, e) /\ DirtyOK(s, e)
        /\ s.state = "on" /\ AckedOK(s, d) => AckedOK(s, e)
    BY <1>1, <1>2, <1>3, <1>4, FlushesKeep
  <1>6. OwedOK(s, d) => OwedOK(s, e)
    <2> DEFINE a == Durable(d)
               b == Durable(e)
               n == Len(d.aof.items)
    <2>1. a \in Nat /\ b \in 0..n /\ n \in Nat /\ a <= b
      BY <1>1, DiskSizes
    <2> HIDE DEF a, b, n
    <2>2. a = n => b = n
      BY <2>1
    <2> QED
      BY <2>2 DEF OwedOK, a, b, n
  <1> QED
    BY <1>1, <1>5, <1>6 DEF Safe

\* Changes of fields that the invariant does not look at keep what is safe.
LEMMA QuietSafe ==
    ASSUME NEW s, NEW t, NEW d, NEW j, Safe(s, d, j), Quiet(s, t)
    PROVE  Safe(t, d, j) /\ t.state = s.state
  <1>1. t.state = s.state
    BY DEF Quiet
  <1> QED
    BY <1>1, QuietKeeps DEF Safe

\* The clock.
LEMMA TimePassesKeeps ==
    ASSUME Steady, TimePasses
    PROVE  Steady'
  <1>1. Quiet(srv, srv') /\ Safe(srv, disk, jobs) /\ ConfigOK
    BY DEF Steady, Safe, ServerOK, ServerFields, TimePasses, Quiet
  <1>2. UNCHANGED <<disk, jobs, config>> /\ Spend("time") /\ "time" \in BudgetFields \ {"writes"}
    BY DEF TimePasses, BudgetFields
  <1>3. Safe(srv', disk', jobs') /\ srv'.state = srv.state
    BY <1>1, <1>2, QuietSafe
  <1> QED
    BY <1>1, <1>2, <1>3, Becomes

\* bioProcessBackgroundJobs: an fsync of the file as it was when the job was created.
LEMMA BioSyncs ==
    ASSUME NEW s, Safe(s, disk, jobs), bioProcessBackgroundJobs
    PROVE  Safe(s, disk', jobs') /\ disk'.aof.items = disk.aof.items
  <1> DEFINE Job == [ino : Nat, len : Nat]
             h == Head(jobs)
             rest == Tail(jobs)
             n == Len(disk.aof.items)
             f == disk.aof.fresh /\ h.len < n
             e == [disk EXCEPT !.aof.synced = h.len, !.aof.fresh = f]
  <1>0. Safe(s, disk, jobs) /\ DiskOK(disk, jobs)
    BY DEF Safe
  <1>1. /\ jobs # <<>> /\ jobs' = rest
        /\ disk' = IF h.ino = disk.aof.ino /\ h.len > disk.aof.synced THEN e ELSE disk
    <2>1. [disk EXCEPT !.aof.synced = h.len, !.aof.fresh = @ /\ h.len < n] = e
      BY <1>0 DEF DiskOK
    <2> QED
      BY <2>1 DEF bioProcessBackgroundJobs
  <1>2. /\ jobs \in Seq(Job) /\ n \in Nat /\ disk.aof.synced \in 0..n
        /\ \A i \in 1..Len(jobs) : jobs[i].ino <= disk.aof.ino /\ (jobs[i].ino = disk.aof.ino => jobs[i].len <= n)
    BY <1>0 DEF DiskOK, Files
  <1> HIDE DEF Job
  <1>3. /\ rest \in Seq(Job) /\ Len(rest) = Len(jobs) - 1 /\ Len(jobs) \in Nat /\ Len(jobs) # 0
        /\ \A i \in 1..Len(rest) : rest[i] = jobs[i + 1]
        /\ h = jobs[1] /\ h \in Job
    BY <1>1, <1>2, HeadTailProperties, EmptySeq
  <1> HIDE DEF h, rest, n
  <1>4. ASSUME NEW i \in 1..Len(rest)
        PROVE  rest[i].ino <= disk.aof.ino /\ (rest[i].ino = disk.aof.ino => rest[i].len <= n)
    <2>1. i + 1 \in 1..Len(jobs)
      BY <1>3
    <2> QED
      BY <1>2, <1>3, <2>1
  <1>5. DiskOK(disk, rest)
    BY <1>0, <1>3, <1>4 DEF DiskOK, Job, n
  <1>6. CASE h.ino = disk.aof.ino /\ h.len > disk.aof.synced
    <2>1. h.len \in Nat /\ h.len <= n /\ disk.aof.synced \in Nat
      BY <1>2, <1>3, <1>6 DEF Job
    <2>2. h.len \in 0..n /\ disk.aof.synced <= h.len /\ n <= n
      BY <1>2, <1>6, <2>1
    <2>3. f \in BOOLEAN
      BY <1>0 DEF DiskOK
    <2>a. ~f => ~disk.aof.fresh \/ h.len = n
      BY <1>0, <1>2, <2>1 DEF DiskOK
    <2>b. f => disk.aof.fresh
      OBVIOUS
    <2> HIDE DEF f
    <2>4. /\ e.aof.synced = h.len /\ e.aof.items = disk.aof.items /\ e.aof.ino = disk.aof.ino
          /\ e.aof.fresh = f /\ e.rdb = disk.rdb
          /\ DOMAIN e = {"aof", "rdb"} /\ DOMAIN e.aof = {"ino", "items", "synced", "fresh"}
      BY <1>0 DEF DiskOK
    <2> HIDE DEF e
    <2>5. DiskOK(e, rest)
      BY <1>5, <2>2, <2>3, <2>4 DEF DiskOK, n
    <2>6. Durable(disk) <= Durable(e)
      <3>1. Durable(e) = IF f THEN n ELSE h.len
        BY <2>4 DEF Durable, n
      <3>2. Durable(disk) = IF disk.aof.fresh THEN n ELSE disk.aof.synced
        BY DEF Durable, n
      <3> QED
        BY <1>2, <2>1, <2>2, <2>3, <2>a, <2>b, <3>1, <3>2
    <2>7. Safe(s, e, rest)
      BY <1>0, <2>4, <2>5, <2>6, SyncedMore
    <2> QED
      BY <1>1, <1>6, <2>4, <2>7
  <1>7. CASE ~(h.ino = disk.aof.ino /\ h.len > disk.aof.synced)
    <2>1. disk' = disk
      BY <1>1, <1>7
    <2>2. Durable(disk) <= Durable(disk)
      BY <1>0, DiskSizes
    <2>3. Safe(s, disk, rest)
      BY <1>0, <1>5, <2>2, SyncedMore
    <2> QED
      BY <1>1, <2>1, <2>3
  <1> QED
    BY <1>6, <1>7

\* Outside and within backgroundRewriteDoneHandler.
LEMMA BioKeeps ==
    ASSUME IInv, bioProcessBackgroundJobs
    PROVE  IInv'
  <1>1. UNCHANGED <<srv, config, budget>>
    BY DEF bioProcessBackgroundJobs
  <1>2. CASE Steady
    <2>1. Safe(srv, disk', jobs') /\ ConfigOK
      BY <1>2, BioSyncs DEF Steady
    <2>2. Steady'
      BY <1>1, <2>1, Becomes
    <2> QED
      BY <2>2 DEF IInv
  <1>3. CASE Switching
    <2>1. Safe(Settled(srv), disk', jobs') /\ disk'.aof.items = disk.aof.items
      BY <1>3, BioSyncs DEF Switching
    <2>2. ConfigOK'
      BY <1>1, <1>3 DEF Switching, ConfigOK
    <2>3. Renamed(srv)' /\ Settled(srv)' = Settled(srv)
      BY <1>1, <1>3 DEF Switching, Renamed, Settled
    <2>4. Safe(Settled(srv), disk, jobs)'
      BY <1>1, <2>1, <2>3 DEF Safe, Strict
    <2> QED
      BY <1>1, <1>3, <2>1, <2>2, <2>3, <2>4 DEF IInv, Switching
  <1> QED
    BY <1>2, <1>3 DEF IInv

\* A rewrite that starts keeps what is safe.
LEMMA RewriteStartsSafe ==
    ASSUME NEW s, NEW d, NEW j, Safe(s, d, j), s.child = None, s.rdb = None
    PROVE  LET t == rewriteAppendOnlyFileBackground(s) IN Safe(t, d, j) /\ t.state = s.state
  <1> DEFINE t == rewriteAppendOnlyFileBackground(s)
  <1>1. /\ ServerOK(t) /\ FileOK(t, d) /\ RewriteOK(t) /\ t.state = s.state
        /\ DirtyOK(s, d) => DirtyOK(t, d)
        /\ AckedOK(s, d) => AckedOK(t, d)
        /\ OwedOK(s, d) => OwedOK(t, d)
    BY RewriteStarts DEF Safe
  <1> HIDE DEF t
  <1>2. Safe(t, d, j)
    BY <1>1 DEF Safe
  <1> QED
    BY <1>1, <1>2 DEF t

\* bgrewriteaofCommand.
LEMMA BgrewriteaofKeeps ==
    ASSUME Steady, NEW forked \in BOOLEAN, bgrewriteaofCommand(forked)
    PROVE  Steady'
  <1>0. Safe(srv, disk, jobs) /\ ConfigOK /\ ServerOK(srv)
    BY DEF Steady, Safe
  <1>1. /\ srv.child = None /\ UNCHANGED <<disk, jobs, config>>
        /\ Spend("rewrites") /\ "rewrites" \in BudgetFields \ {"writes"}
        /\ \/ srv' = [srv EXCEPT !.sched = TRUE]
           \/ srv.rdb = None /\ srv' = rewriteAppendOnlyFileBackground(srv)
           \/ srv' = srv
    BY DEF bgrewriteaofCommand, BudgetFields
  <1>2. Safe(srv', disk, jobs) /\ srv'.state = srv.state
    <2>1. CASE srv' = [srv EXCEPT !.sched = TRUE]
      <3>1. Quiet(srv, srv')
        BY <1>0, <2>1 DEF Quiet, ServerOK, ServerFields
      <3> QED
        BY <1>0, <3>1, QuietSafe
    <2>2. CASE srv.rdb = None /\ srv' = rewriteAppendOnlyFileBackground(srv)
      BY <1>0, <1>1, <2>2, RewriteStartsSafe
    <2> QED
      BY <1>0, <1>1, <2>1, <2>2
  <1> QED
    BY <1>0, <1>1, <1>2, Becomes

\* The rewrite that was scheduled (serverCron).
LEMMA CronRewritesKeeps ==
    ASSUME Steady, CronRewrites
    PROVE  Steady'
  <1>0. Safe(srv, disk, jobs) /\ ConfigOK
    BY DEF Steady
  <1>1. /\ srv.child = None /\ srv.rdb = None /\ UNCHANGED <<disk, jobs, config, budget>>
        /\ srv' = rewriteAppendOnlyFileBackground(srv)
    BY DEF CronRewrites, HasChild
  <1>2. Safe(srv', disk, jobs) /\ srv'.state = srv.state
    BY <1>0, <1>1, RewriteStartsSafe
  <1> QED
    BY <1>0, <1>1, <1>2, Becomes

\* The child goes on, with the same differences.
LEMMA PhaseMovesSafe ==
    ASSUME NEW s, NEW t, NEW d, NEW j, NEW phase \in {"dump", "stop", "acked", "fail"},
           Safe(s, d, j), s.child # None, s.child.phase # "fail" \/ phase = "fail",
           t = [s EXCEPT !.child.phase = phase]
    PROVE  Safe(t, d, j) /\ t.state = s.state
  <1> DEFINE c == [s.child EXCEPT !.phase = phase]
             rest == s.rbuf
  <1>1. ServerOK(s) /\ s.child \in LiveChild /\ rest \in Seq(Command)
    BY ChildFields DEF Safe, ServerOK
  <1>2. /\ c \in LiveChild /\ c.snap = s.child.snap /\ c.phase = phase
        /\ c.diff = s.child.diff /\ c.pipe = s.child.pipe
    BY <1>1 DEF LiveChild, ChildRecord
  <1>3. t = [s EXCEPT !.child = c, !.rbuf = rest]
    BY <1>1 DEF ServerOK, ServerFields
  <1>4. GoesOn(s, c, rest)
    BY <1>2 DEF GoesOn
  <1> HIDE DEF c, rest
  <1> QED
    BY <1>1, <1>2, <1>3, <1>4, ChildMoves

\* aofChildWriteDiffData.
LEMMA WriteDiffKeeps ==
    ASSUME Steady, aofChildWriteDiffData
    PROVE  Steady'
  <1>0. Safe(srv, disk, jobs) /\ ConfigOK /\ ServerOK(srv)
    BY DEF Steady, Safe
  <1>1. /\ srv.child # None /\ srv.rbuf # <<>> /\ srv.child.phase \in {"dump", "stop"}
        /\ UNCHANGED <<disk, jobs, config, budget>>
    BY DEF aofChildWriteDiffData
  <1>2. PICK n \in {1, Len(srv.rbuf)} :
             srv' = [srv EXCEPT !.child.pipe = @ \o SubSeq(srv.rbuf, 1, n),
                                !.rbuf = SubSeq(@, n + 1, Len(@))]
    BY DEF aofChildWriteDiffData
  <1> DEFINE c == [srv.child EXCEPT !.pipe = @ \o SubSeq(srv.rbuf, 1, n)]
             rest == SubSeq(srv.rbuf, n + 1, Len(srv.rbuf))
  <1>3. /\ c \in LiveChild /\ c.snap = srv.child.snap /\ rest \in Seq(Command)
        /\ c.phase = srv.child.phase
        /\ c.diff \o (c.pipe \o rest) = srv.child.diff \o (srv.child.pipe \o srv.rbuf)
    BY <1>0, <1>1, PipeFilled
  <1>4. srv' = [srv EXCEPT !.child = c, !.rbuf = rest]
    <2> DEFINE a == SubSeq(srv.rbuf, 1, n)
    <2>1. srv' = [srv EXCEPT !.child.pipe = @ \o a, !.rbuf = rest]
      BY <1>2
    <2>2. c = [srv.child EXCEPT !.pipe = @ \o a]
      OBVIOUS
    <2> HIDE DEF a, rest, c
    <2> QED
      BY <1>0, <2>1, <2>2 DEF ServerOK, ServerFields
  <1> HIDE DEF c, rest
  <1>5. Safe(srv', disk, jobs) /\ srv'.state = srv.state
    <2>1. GoesOn(srv, c, rest) /\ c \in LiveChild /\ c.snap = srv.child.snap /\ rest \in Seq(Command)
      BY <1>1, <1>3 DEF GoesOn
    <2> QED
      BY <1>0, <1>1, <1>4, <2>1, ChildMoves
  <1> QED
    BY <1>0, <1>1, <1>5, Becomes

\* The child reads what its parent has sent.
LEMMA ChildReadsKeeps ==
    ASSUME Steady, ChildReads \/ ChildFinishes
    PROVE  Steady'
  <1> DEFINE r == aofReadDiffFromParent(srv.child)
             rest == srv.rbuf
             c == IF ChildReads THEN r ELSE Finish(srv.child)
  <1>0. Safe(srv, disk, jobs) /\ ConfigOK /\ ServerOK(srv) /\ rest \in Seq(Command)
    BY DEF Steady, Safe, ServerOK
  <1>1. /\ srv.child # None /\ srv.child.phase \in {"dump", "acked"}
        /\ UNCHANGED <<disk, jobs, config, budget>> /\ srv' = [srv EXCEPT !.child = c]
    BY DEF ChildReads, ChildFinishes
  <1>2. /\ r \in LiveChild /\ r.snap = srv.child.snap /\ r.phase = srv.child.phase /\ r.pipe = <<>>
        /\ r.diff \o (r.pipe \o rest) = srv.child.diff \o (srv.child.pipe \o srv.rbuf)
    BY <1>0, <1>1, PipeRead
  <1>3. c \in {r, [r EXCEPT !.phase = "exit"]}
    BY DEF Finish
  <1> HIDE DEF r, c
  <1>4. c \in LiveChild /\ c.snap = r.snap /\ c.diff = r.diff /\ c.pipe = r.pipe
    BY <1>2, <1>3 DEF LiveChild, ChildRecord
  <1>5. srv' = [srv EXCEPT !.child = c, !.rbuf = rest]
    BY <1>0, <1>1 DEF ServerOK, ServerFields
  <1> HIDE DEF rest
  <1>6. GoesOn(srv, c, rest) /\ c.snap = srv.child.snap
    BY <1>1, <1>2, <1>4 DEF GoesOn
  <1>7. Safe(srv', disk, jobs) /\ srv'.state = srv.state
    BY <1>0, <1>1, <1>4, <1>5, <1>6, ChildMoves
  <1> QED
    BY <1>0, <1>1, <1>7, Becomes

\* The child asks its parent to stop, finishes or fails.
LEMMA ChildPhaseKeeps ==
    ASSUME Steady, ChildAsksToStop \/ aofChildPipeReadable \/ ChildFails
    PROVE  Steady'
  <1>0. Safe(srv, disk, jobs) /\ ConfigOK /\ ServerOK(srv)
    BY DEF Steady, Safe
  <1>1. CASE ChildAsksToStop
    <2>1. /\ srv.child # None /\ srv.child.phase # "fail" /\ srv' = [srv EXCEPT !.child.phase = "stop"]
          /\ UNCHANGED <<disk, jobs, config, budget>>
      BY <1>1 DEF ChildAsksToStop
    <2>2. Safe(srv', disk, jobs) /\ srv'.state = srv.state
      BY <1>0, <2>1, PhaseMovesSafe
    <2> QED
      BY <1>0, <2>1, <2>2, Becomes
  <1>2. CASE aofChildPipeReadable
    <2> DEFINE t == [srv EXCEPT !.child.phase = "acked"]
    <2>1. /\ srv.child # None /\ srv.child.phase # "fail"
          /\ srv' = [srv EXCEPT !.stop = TRUE, !.child.phase = "acked"]
          /\ UNCHANGED <<disk, jobs, config, budget>>
      BY <1>2 DEF aofChildPipeReadable
    <2>2. Safe(t, disk, jobs) /\ t.state = srv.state
      BY <1>0, <2>1, PhaseMovesSafe
    <2>3. Quiet(t, srv')
      BY <1>0, <2>1 DEF Quiet, ServerOK, ServerFields
    <2> HIDE DEF t
    <2>4. Safe(srv', disk, jobs) /\ srv'.state = srv.state
      BY <2>2, <2>3, QuietSafe
    <2> QED
      BY <1>0, <2>1, <2>4, Becomes
  <1>3. CASE ChildFails
    <2>1. /\ srv.child # None /\ srv.child.phase # "fail" /\ srv' = [srv EXCEPT !.child.phase = "fail"]
          /\ UNCHANGED <<disk, jobs, config>> /\ Spend("faults") /\ "faults" \in BudgetFields \ {"writes"}
      BY <1>3 DEF ChildFails, BudgetFields
    <2>2. Safe(srv', disk, jobs) /\ srv'.state = srv.state
      BY <1>0, <2>1, PhaseMovesSafe
    <2> QED
      BY <1>0, <2>1, <2>2, Becomes
  <1> QED
    BY <1>1, <1>2, <1>3

\* CONFIG SET appendonly: the configuration follows the state of the file.
LEMMA Reconfigures ==
    ASSUME ConfigOK, Safe(srv', disk', jobs'), NEW on, on = (srv'.state = "on"),
           config' = [config EXCEPT !.aof = on],
           budget' = budget \/ \E what \in BudgetFields \ {"writes"} : Spend(what)
    PROVE  Steady'
  <1>1. DOMAIN budget' = BudgetFields /\ budget'.writes = budget.writes
    <2>1. CASE budget' = budget
      BY <2>1 DEF ConfigOK
    <2>2. ASSUME NEW what \in BudgetFields \ {"writes"}, Spend(what)
          PROVE  DOMAIN budget' = BudgetFields /\ budget'.writes = budget.writes
      BY <2>2 DEF Spend, ConfigOK, BudgetFields
    <2> QED
      BY <2>1, <2>2
  <1>2. /\ DOMAIN config' = {"policy", "norw", "aof", "save"} /\ config'.aof = on
        /\ config'.policy = config.policy /\ config'.norw = config.norw
    BY DEF ConfigOK
  <1>3. ConfigOK'
    BY <1>1, <1>2 DEF ConfigOK
  <1>4. Safe(srv, disk, jobs)'
    BY <1>2 DEF Safe, Strict
  <1> QED
    BY <1>3, <1>4 DEF Steady

\* The child is forgotten, whatever it did.
LEMMA DroppedSafe ==
    ASSUME NEW s, NEW d, NEW j, ServerOK(s), DiskOK(d, j), FileOK(s, d), DirtyOK(s, d),
           Strict /\ s.state = "on" => AckedOK(s, d) /\ OwedOK(s, d)
    PROVE  LET t == aofRewriteBufferReset(s)
           IN Safe(t, d, j) /\ t.state = s.state /\ t.child = None /\ t.rdb = s.rdb
  <1> DEFINE t == aofRewriteBufferReset(s)
  <1>1. /\ ServerOK(t) /\ RewriteOK(t) /\ t.child = None /\ t.state = s.state /\ t.rdb = s.rdb
        /\ FileOK(s, d) => FileOK(t, d)
        /\ DirtyOK(s, d) => DirtyOK(t, d)
        /\ AckedOK(s, d) => AckedOK(t, d)
        /\ OwedOK(s, d) => OwedOK(t, d)
    BY RewriteDropped
  <1> HIDE DEF t
  <1>2. Safe(t, d, j)
    BY <1>1 DEF Safe
  <1> QED
    BY <1>1, <1>2 DEF t

\* Without the file, and without a child that writes one, there is nothing to keep.
WithoutFile(s, t) ==
    /\ DOMAIN t = ServerFields
    /\ t.data = s.data /\ t.acked = s.acked /\ t.owed = s.owed
    /\ t.buf \in Seq(Command) /\ t.child = s.child /\ t.rbuf = s.rbuf
    /\ t.rdb = s.rdb /\ t.loaded = s.loaded /\ t.dirty = s.dirty /\ t.before = s.before
    /\ t.sel \in Nat \cup {-1}
    /\ t.state = "off" \/ (t.state = "wait" /\ s.child = None)

\* stopAppendOnly: nothing is asked of the file any more.
LEMMA WithoutFileSafe ==
    ASSUME NEW s, NEW d, NEW j, NEW t, Safe(s, d, j), WithoutFile(s, t)
    PROVE  Safe(t, d, j) /\ t.child = s.child /\ t.rdb = s.rdb
  <1>0. ServerOK(s) /\ DiskOK(d, j) /\ DirtyOK(s, d)
    BY DEF Safe
  <1>1. ServerOK(t)
    BY <1>0 DEF ServerOK, WithoutFile
  <1>2. FileOK(t, d) /\ RewriteOK(t) /\ DirtyOK(t, d)
    BY <1>0 DEF FileOK, RewriteOK, DirtyOK, WithoutFile
  <1> QED
    BY <1>0, <1>1, <1>2 DEF Safe, WithoutFile

\* The file is synced to its end.
LEMMA SyncedAll ==
    ASSUME NEW s, NEW d, NEW j, Safe(s, d, j), NEW e, e = [d EXCEPT !.aof = redis_fsync(@)]
    PROVE  Safe(s, e, j)
  <1>1. DiskOK(d, j)
    BY DEF Safe
  <1>2. /\ e.rdb = d.rdb /\ e.aof.items = d.aof.items /\ e.aof.ino = d.aof.ino
        /\ e.aof.synced = Len(d.aof.items) /\ e.aof.fresh = FALSE /\ DOMAIN e = {"aof", "rdb"}
        /\ DOMAIN e.aof = {"ino", "items", "synced", "fresh"}
    BY <1>1 DEF DiskOK, redis_fsync
  <1>3. Len(d.aof.items) \in Nat /\ Durable(d) \in 0..Len(d.aof.items)
    BY <1>1, DiskSizes
  <1>4. DiskOK(e, j) /\ Durable(d) <= Durable(e)
    <2>1. Len(d.aof.items) \in 0..Len(d.aof.items)
      BY <1>3
    <2>2. DiskOK(e, j)
      BY <1>1, <1>2, <2>1 DEF DiskOK
    <2>3. Durable(e) = Len(d.aof.items)
      BY <1>2 DEF Durable
    <2> QED
      BY <1>3, <2>2, <2>3
  <1> QED
    BY <1>2, <1>4, SyncedMore

\* backgroundRewriteDoneHandler: the new file takes the name of the old one.
LEMMA RenameKeeps ==
    ASSUME Steady, RenameRewrite
    PROVE  Switching'
  <1> DEFINE w == Rename(World)
             t == [srv EXCEPT !.child.phase = "renamed"]
  <1>0. Safe(srv, disk, jobs) /\ ConfigOK /\ ServerOK(srv)
    BY DEF Steady, Safe
  <1>1. /\ srv.child # None /\ srv.child.phase = "exit"
        /\ Become(w) /\ UNCHANGED <<config, budget>>
    BY DEF RenameRewrite
  <1>2. /\ w.srv = t /\ w.jobs = jobs /\ Safe(Settled(t), w.disk, jobs)
        /\ srv.state # "off" => Holds(w.disk.aof.items, srv.data, -1)
    <2>1. World = [srv |-> srv, disk |-> disk, jobs |-> jobs]
      BY DEF World
    <2> QED
      BY <1>0, <1>1, <2>1, FileRenamed
  <1> HIDE DEF w
  <1>3. srv' = t /\ disk' = w.disk /\ jobs' = jobs
    BY <1>1, <1>2 DEF Become
  <1>4. /\ srv.child \in LiveChild /\ srv.rdb = None
        /\ srv.buf \in Seq(Command) /\ srv.sel \in Nat \cup {-1}
    BY <1>0, <1>1 DEF ServerOK
  <1>5. /\ t.child = [srv.child EXCEPT !.phase = "renamed"] /\ t.state = srv.state /\ t.data = srv.data
        /\ t.rdb = srv.rdb /\ t.buf = srv.buf /\ t.sel = srv.sel
    BY <1>0 DEF ServerOK, ServerFields
  <1>6. t.child \in ChildRecord /\ t.child.phase = "renamed"
    BY <1>4, <1>5 DEF LiveChild, ChildRecord
  <1>7. Renamed(t)
    BY <1>6, NoneAssumption DEF Renamed
  <1> HIDE DEF t
  <1>8. Renamed(srv)' /\ Settled(srv)' = Settled(t)
    BY <1>3, <1>7 DEF Renamed, Settled
  <1>9. ConfigOK'
    BY <1>0, <1>1, <1>3, <1>5 DEF ConfigOK
  <1>10. Safe(Settled(srv), disk, jobs)'
    BY <1>1, <1>2, <1>3, <1>8 DEF Safe, Strict
  <1> QED
    BY <1>2, <1>3, <1>4, <1>5, <1>8, <1>9, <1>10 DEF Switching

\* The new file, or a part of it, is synced, here or later.
LEMMA SwitchedFile ==
    ASSUME NEW s, Safe(s, disk, jobs), srv.state # "off"
    PROVE  LET w == Switch(World)
           IN /\ w.srv = [srv EXCEPT !.sel = -1, !.size = Len(disk.aof.items), !.buf = <<>>, !.state = "on"]
              /\ DOMAIN w = {"srv", "disk", "jobs"} /\ DiskOK(w.disk, w.jobs)
              /\ w.disk.aof.items = disk.aof.items /\ w.disk.rdb = disk.rdb
              /\ Strict => Durable(w.disk) = Len(w.disk.aof.items)
  <1> DEFINE t == [srv EXCEPT !.sel = -1, !.size = Len(disk.aof.items), !.buf = <<>>, !.state = "on"]
             e == [disk EXCEPT !.aof = redis_fsync(@)]
             j == Append(jobs, [ino |-> disk.aof.ino, len |-> Len(disk.aof.items)])
             w == Switch(World)
  <1> SUFFICES /\ w.srv = t
               /\ DOMAIN w = {"srv", "disk", "jobs"} /\ DiskOK(w.disk, w.jobs)
               /\ w.disk.aof.items = disk.aof.items /\ w.disk.rdb = disk.rdb
               /\ Strict => Durable(w.disk) = Len(w.disk.aof.items)
    OBVIOUS
  <1>1. DiskOK(disk, jobs) /\ Safe(s, e, jobs)
    BY SyncedAll DEF Safe
  <1>2. DiskOK(e, jobs) /\ DiskOK(disk, j)
    BY <1>1, JobQueued DEF Safe
  <1>3. w = CASE config.policy = "always"   -> [World EXCEPT !.srv = t, !.disk.aof = redis_fsync(World.disk.aof)]
              [] config.policy = "everysec" -> [World EXCEPT !.srv = t, !.jobs = bioCreateBackgroundJob(World)]
              [] OTHER                      -> [World EXCEPT !.srv = t]
    BY DEF Switch, World
  <1>4. bioCreateBackgroundJob(World) = j
    BY DEF bioCreateBackgroundJob, World
  <1>5. CASE config.policy = "always"
    <2>1. w.srv = t /\ w.disk = e /\ w.jobs = jobs /\ DOMAIN w = {"srv", "disk", "jobs"}
      <3> HIDE DEF w, t
      <3> QED
        BY <1>3, <1>5 DEF World
    <2>2. e.aof.items = disk.aof.items /\ e.rdb = disk.rdb /\ e.aof.synced = Len(e.aof.items) /\ ~e.aof.fresh
      BY <1>1 DEF DiskOK, redis_fsync
    <2> HIDE DEF w, t, e
    <2> QED
      BY <1>2, <2>1, <2>2 DEF Durable
  <1>6. CASE config.policy = "everysec"
    <2>1. w.srv = t /\ w.disk = disk /\ w.jobs = j /\ DOMAIN w = {"srv", "disk", "jobs"}
      <3> HIDE DEF w, t, j
      <3> QED
        BY <1>3, <1>4, <1>6 DEF World
    <2> HIDE DEF w, t, j
    <2> QED
      BY <1>2, <1>6, <2>1 DEF Strict
  <1>7. CASE config.policy # "always" /\ config.policy # "everysec"
    <2>1. w.srv = t /\ w.disk = disk /\ w.jobs = jobs /\ DOMAIN w = {"srv", "disk", "jobs"}
      <3> HIDE DEF w, t
      <3> QED
        BY <1>3, <1>7 DEF World
    <2> HIDE DEF w, t
    <2> QED
      BY <1>1, <1>7, <2>1 DEF Strict
  <1> QED
    BY <1>5, <1>6, <1>7

\* The rest of backgroundRewriteDoneHandler: the memory follows, the child is forgotten.
LEMMA FinishKeeps ==
    ASSUME Switching, FinishRewrite
    PROVE  Steady'
  <1> DEFINE u == Settled(srv)
             w == Switch(World)
             s1 == aofRewriteBufferReset(w.srv)
             v == s1.sched \/ w.srv.state = "wait"
             t == [s1 EXCEPT !.sched = v]
  <1>0. /\ Safe(u, disk, jobs) /\ ConfigOK /\ srv.buf \in Seq(Command) /\ srv.sel \in Nat \cup {-1}
        /\ srv.state # "off" => Holds(disk.aof.items, srv.data, -1)
    BY DEF Switching
  <1>1. ServerOK(u) /\ DiskOK(disk, jobs) /\ DirtyOK(u, disk)
    BY <1>0 DEF Safe
  <1>2. DOMAIN srv = ServerFields
    <2>1. DOMAIN u = DOMAIN srv
      BY DEF Settled
    <2> QED
      BY <1>1, <2>1 DEF ServerOK
  <1>3. /\ u.data = srv.data /\ u.acked = srv.acked /\ u.owed = srv.owed /\ u.state = srv.state
        /\ u.buf = <<>> /\ u.sel = -1 /\ u.child = None /\ u.rbuf = <<>>
        /\ u.rdb = srv.rdb /\ u.loaded = srv.loaded /\ u.dirty = srv.dirty /\ u.before = srv.before
    BY <1>2 DEF Settled, ServerFields
  <1> HIDE DEF u
  <1>4. /\ Become(Cleanup(w)) /\ config' = [config EXCEPT !.aof = srv'.state = "on"] /\ budget' = budget
    BY DEF FinishRewrite
  <1>5. Safe(t, w.disk, w.jobs) /\ DOMAIN w = {"srv", "disk", "jobs"}
    <2>1. CASE srv.state = "off"
      <3>1. w.srv = srv /\ w.disk = disk /\ w.jobs = jobs /\ DOMAIN w = {"srv", "disk", "jobs"}
        BY <2>1 DEF Switch, World
      <3> HIDE DEF w
      <3>2. /\ DOMAIN t = ServerFields /\ t.state = "off" /\ t.buf = srv.buf /\ t.sel = srv.sel
            /\ t.data = srv.data /\ t.acked = srv.acked /\ t.owed = srv.owed
            /\ t.child = None /\ t.rbuf = <<>>
            /\ t.rdb = srv.rdb /\ t.loaded = srv.loaded /\ t.dirty = srv.dirty /\ t.before = srv.before
        <4> HIDE DEF v
        <4> QED
          BY <1>2, <2>1, <3>1 DEF aofRewriteBufferReset, ServerFields
      <3> HIDE DEF t
      <3>3. WithoutFile(u, t)
        BY <1>0, <1>3, <3>2 DEF WithoutFile
      <3> QED
        BY <1>0, <3>1, <3>3, WithoutFileSafe
    <2>2. CASE srv.state # "off"
      <3> DEFINE z == [srv EXCEPT !.sel = -1, !.size = Len(disk.aof.items), !.buf = <<>>, !.state = "on"]
      <3>1. /\ w.srv = z /\ DOMAIN w = {"srv", "disk", "jobs"} /\ DiskOK(w.disk, w.jobs)
            /\ w.disk.aof.items = disk.aof.items /\ w.disk.rdb = disk.rdb
            /\ Strict => Durable(w.disk) = Len(w.disk.aof.items)
        BY <1>0, <2>2, SwitchedFile
      <3> HIDE DEF w
      <3>2. /\ DOMAIN t = ServerFields /\ t.state = "on" /\ t.buf = <<>> /\ t.sel = -1
            /\ t.data = srv.data /\ t.acked = srv.acked /\ t.owed = srv.owed
            /\ t.child = None /\ t.rbuf = <<>>
            /\ t.rdb = srv.rdb /\ t.loaded = srv.loaded /\ t.dirty = srv.dirty /\ t.before = srv.before
        <4> HIDE DEF v
        <4> QED
          BY <1>2, <3>1 DEF aofRewriteBufferReset, ServerFields
      <3> HIDE DEF t, z
      <3>3. ServerOK(t) /\ RewriteOK(t)
        BY <1>1, <1>3, <3>2 DEF ServerOK, RewriteOK
      <3>4. DirtyOK(t, w.disk)
        BY <1>1, <1>3, <3>1, <3>2 DEF DirtyOK
      <3>5. FileOK(t, w.disk)
        <4>1. disk.aof.items \o <<>> = disk.aof.items
          BY <1>1, ConcatEmptySeq DEF DiskOK, Files
        <4> QED
          BY <1>0, <2>2, <3>1, <3>2, <4>1 DEF FileOK
      <3>6. Strict => AckedOK(t, w.disk) /\ OwedOK(t, w.disk)
        <4>1. srv.acked <= Len(srv.data) /\ srv.acked \in Nat /\ Len(srv.data) \in Nat
          BY <1>1, <1>3 DEF ServerOK, Data
        <4>2. Loading(disk.aof.items)[Len(disk.aof.items)].data = srv.data
          BY <1>0, <2>2 DEF Holds, Load
        <4> QED
          BY <3>1, <3>2, <4>1, <4>2 DEF AckedOK, OwedOK
      <3> QED
        BY <3>1, <3>3, <3>4, <3>5, <3>6 DEF Safe
    <2> QED
      BY <2>1, <2>2
  <1> HIDE DEF w
  <1>6. srv' = t /\ disk' = w.disk /\ jobs' = w.jobs
    BY <1>4, <1>5 DEF Become, Cleanup
  <1> HIDE DEF t
  <1> QED
    BY <1>0, <1>4, <1>5, <1>6, Reconfigures

\* The rewrite is given up: the old file stays.
LEMMA GiveUpKeeps ==
    ASSUME Steady, GiveUpRewrite
    PROVE  Steady'
  <1> DEFINE s1 == aofRewriteBufferReset(srv)
             v == s1.sched \/ srv.state = "wait"
             t == [s1 EXCEPT !.sched = v]
  <1>0. Safe(srv, disk, jobs) /\ ConfigOK
    BY DEF Steady
  <1>1. MayFail(srv.child.phase = "fail") /\ Become(Cleanup(World)) /\ config' = config
    BY DEF GiveUpRewrite
  <1>2. Safe(s1, disk, jobs) /\ s1.state = srv.state
    BY <1>0, DroppedSafe DEF Safe
  <1>3. srv' = t /\ disk' = disk /\ jobs' = jobs
    BY <1>1 DEF Become, Cleanup, World
  <1>4. Quiet(s1, t)
    <2> HIDE DEF s1, v
    <2> QED
      BY <1>2 DEF Quiet, Safe, ServerOK, ServerFields
  <1> HIDE DEF s1, t
  <1>5. Safe(t, disk, jobs) /\ t.state = srv.state
    BY <1>2, <1>4, QuietSafe
  <1>6. budget' = budget \/ \E what \in BudgetFields \ {"writes"} : Spend(what)
    BY <1>1 DEF MayFail, BudgetFields
  <1> QED
    BY <1>0, <1>1, <1>3, <1>5, <1>6, Becomes

\* killAppendOnlyChild.
LEMMA KilledSafe ==
    ASSUME NEW s, NEW d, NEW j, Safe(s, d, j)
    PROVE  LET t == killAppendOnlyChild(s)
           IN Safe(t, d, j) /\ t.state = s.state /\ t.child = None /\ t.rdb = s.rdb
  <1> DEFINE t == killAppendOnlyChild(s)
  <1>1. CASE s.child = None
    BY <1>1 DEF killAppendOnlyChild
  <1>2. CASE s.child # None
    <2>1. t = aofRewriteBufferReset(s)
      BY <1>2 DEF killAppendOnlyChild
    <2> HIDE DEF t
    <2>2. Safe(t, d, j) /\ t.state = s.state /\ t.child = None /\ t.rdb = s.rdb
      BY <2>1, DroppedSafe DEF Safe
    <2> QED
      BY <2>2 DEF t
  <1> QED
    BY <1>1, <1>2

\* startAppendOnly.
LEMMA StartSafe ==
    ASSUME NEW s, NEW d, NEW j, Safe(s, d, j), s.state = "off", NEW forked \in BOOLEAN
    PROVE  LET t == startAppendOnly(s, forked) IN Safe(t, d, j) /\ t.state # "on"
  <1> DEFINE t == startAppendOnly(s, forked)
             k == killAppendOnlyChild(s)
  <1>0. ServerOK(s) /\ s.sel \in Nat \cup {-1}
    BY DEF Safe, ServerOK
  <1>1. Safe(k, d, j) /\ k.state = "off" /\ k.child = None /\ k.rdb = s.rdb
    BY KilledSafe
  <1> HIDE DEF k
  <1>2. CASE s.rdb = None /\ ~forked
    <2>1. t = k
      BY <1>2 DEF startAppendOnly, k
    <2> HIDE DEF t
    <2>2. Safe(t, d, j) /\ t.state # "on"
      BY <1>1, <2>1
    <2> QED
      BY <2>2 DEF t
  <1>3. CASE s.rdb # None
    <2>1. t = [[s EXCEPT !.sched = TRUE] EXCEPT !.state = "wait", !.due = FALSE]
      BY <1>3 DEF startAppendOnly
    <2> HIDE DEF t
    <2>2. s.child = None
      BY <1>0, <1>3 DEF ServerOK
    <2>3. WithoutFile(s, t) /\ t.state = "wait"
      BY <1>0, <2>1, <2>2 DEF WithoutFile, ServerOK, ServerFields
    <2>4. Safe(t, d, j) /\ t.state = "wait"
      BY <2>3, WithoutFileSafe
    <2> QED
      BY <2>4 DEF t
  <1>4. CASE s.rdb = None /\ forked
    <2> DEFINE z == [k EXCEPT !.state = "wait"]
               y == rewriteAppendOnlyFileBackground(z)
               r == rewriteAppendOnlyFileBackground(k)
    <2>0. ServerOK(k) /\ k.sel \in Nat \cup {-1}
      BY <1>1 DEF Safe, ServerOK
    <2>1. t = [r EXCEPT !.state = "wait", !.due = FALSE]
      BY <1>4 DEF startAppendOnly, k
    <2>2. WithoutFile(k, z) /\ z.state = "wait"
      BY <1>1, <2>0 DEF WithoutFile, ServerOK, ServerFields
    <2>3. Safe(z, d, j) /\ z.child = None /\ z.rdb = None
      <3> HIDE DEF z
      <3> QED
        BY <1>1, <1>4, <2>2, WithoutFileSafe
    <2>4. Safe(y, d, j) /\ y.state = "wait"
      <3> HIDE DEF z
      <3> QED
        BY <2>2, <2>3, RewriteStartsSafe
    <2>5. Quiet(y, t)
      <3> DEFINE c == Child(k.data)
      <3>1. r = [k EXCEPT !.child = c, !.stop = FALSE, !.sched = FALSE, !.sel = -1]
        BY DEF rewriteAppendOnlyFileBackground
      <3>2. z.data = k.data
        BY <2>0 DEF ServerOK, ServerFields
      <3>3. y = [z EXCEPT !.child = c, !.stop = FALSE, !.sched = FALSE, !.sel = -1]
        BY <3>2 DEF rewriteAppendOnlyFileBackground
      <3> HIDE DEF r, y, c, t
      <3> QED
        BY <2>0, <2>1, <3>1, <3>3 DEF Quiet, ServerOK, ServerFields
    <2> HIDE DEF t, y
    <2>6. Safe(t, d, j) /\ t.state = "wait"
      BY <2>4, <2>5, QuietSafe
    <2> QED
      BY <2>6 DEF t
  <1> QED
    BY <1>2, <1>3, <1>4

\* CONFIG SET appendonly yes and no.
LEMMA SetAppendOnlyKeeps ==
    ASSUME Steady, NEW on \in BOOLEAN, NEW outcome \in WriteOutcomes, SetAppendOnly(on, outcome)
    PROVE  Steady'
  <1>0. Safe(srv, disk, jobs) /\ ConfigOK
    BY DEF Steady
  <1>1. \E what \in BudgetFields \ {"writes"} : Spend(what)
    BY DEF SetAppendOnly, BudgetFields
  <1>2. CASE on
    <2>1. /\ srv.state = "off" /\ UNCHANGED <<disk, jobs, config>>
          /\ \E f \in BOOLEAN : srv' = startAppendOnly(srv, f)
      BY <1>2 DEF SetAppendOnly
    <2>2. PICK f \in BOOLEAN : srv' = startAppendOnly(srv, f)
      BY <2>1
    <2>3. Safe(srv', disk', jobs') /\ srv'.state # "on"
      BY <1>0, <2>1, <2>2, StartSafe
    <2>4. srv'.state = "on" <=> srv.state = "on"
      BY <2>1, <2>3
    <2> QED
      BY <1>0, <1>1, <2>1, <2>3, <2>4, Becomes
  <1>3. CASE ~on
    <2> DEFINE w1 == flushAppendOnlyFile(World, TRUE, outcome)
               d2 == [w1.disk EXCEPT !.aof = redis_fsync(@)]
               z == [w1.srv EXCEPT !.sel = -1, !.state = "off"]
               k == killAppendOnlyChild(z)
    <2>1. Become(stopAppendOnly(World, outcome)) /\ config' = [config EXCEPT !.aof = srv'.state = "on"]
      BY <1>3 DEF SetAppendOnly
    <2>2. /\ World.srv = srv /\ World.disk = disk /\ World.jobs = jobs
          /\ DOMAIN World = {"srv", "disk", "jobs"}
      BY DEF World
    <2>3. Safe(w1.srv, w1.disk, w1.jobs) /\ Flushes(World, w1)
      <3>1. Safe(World.srv, World.disk, World.jobs)
        BY <1>0, <2>2
      <3> QED
        BY <2>2, <3>1, FlushedSafe
    <2>a. stopAppendOnly(World, outcome)
            = IF w1.srv.exits THEN w1 ELSE [w1 EXCEPT !.disk.aof = redis_fsync(@), !.srv = k]
      BY DEF stopAppendOnly
    <2> HIDE DEF w1
    <2>4. DOMAIN w1 = {"srv", "disk", "jobs"} /\ ServerOK(w1.srv)
      BY <2>3 DEF Flushes, WorldOK
    <2>5. CASE w1.srv.exits
      <3>1. srv' = w1.srv /\ disk' = w1.disk /\ jobs' = w1.jobs
        BY <2>1, <2>5, <2>a DEF Become
      <3> QED
        BY <1>0, <1>1, <2>1, <2>3, <3>1, Reconfigures
    <2>6. CASE ~w1.srv.exits
      <3> HIDE DEF k
      <3>1. srv' = k /\ disk' = d2 /\ jobs' = w1.jobs
        BY <2>1, <2>4, <2>6, <2>a DEF Become
      <3> HIDE DEF d2
      <3>2. Safe(w1.srv, d2, w1.jobs)
        BY <2>3, SyncedAll DEF d2
      <3>3. Safe(z, d2, w1.jobs)
        <4>1. WithoutFile(w1.srv, z)
          BY <2>4 DEF WithoutFile, ServerOK, ServerFields
        <4> HIDE DEF z
        <4> QED
          BY <3>2, <4>1, WithoutFileSafe
      <3> HIDE DEF z
      <3>4. Safe(k, d2, w1.jobs)
        BY <3>3, KilledSafe DEF k
      <3> QED
        BY <1>0, <1>1, <2>1, <3>1, <3>4, Reconfigures
    <2> QED
      BY <2>5, <2>6
  <1> QED
    BY <1>2, <1>3

\* What the RDB file and its child change.
RdbChanges(s, t) ==
    /\ DOMAIN t = ServerFields
    /\ t.data = s.data /\ t.acked = s.acked /\ t.owed = s.owed /\ t.state = s.state
    /\ t.buf = s.buf /\ t.sel = s.sel /\ t.child = s.child /\ t.rbuf = s.rbuf
    /\ t.loaded = s.loaded /\ t.dirty \in Nat /\ t.before \in Nat
    /\ t.rdb \in RdbRecord \cup {None} /\ (t.child = None \/ t.rdb = None)

\* Changes of the RDB child, its file and the count of changes.
LEMMA RdbChangesSafe ==
    ASSUME NEW s, NEW d, NEW j, NEW t, NEW e, Safe(s, d, j), RdbChanges(s, t), DiskOK(e, j), e.aof = d.aof,
           DirtyOK(t, e)
    PROVE  Safe(t, e, j) /\ t.state = s.state
  <1>0. ServerOK(s) /\ FileOK(s, d) /\ RewriteOK(s)
        /\ (Strict /\ s.state = "on" => AckedOK(s, d) /\ OwedOK(s, d))
    BY DEF Safe
  <1>1. ServerOK(t)
    BY <1>0 DEF ServerOK, RdbChanges
  <1>2. FileOK(t, e) /\ RewriteOK(t)
    BY <1>0 DEF FileOK, RewriteOK, ToRewrite, RdbChanges
  <1>3. Strict /\ t.state = "on" => AckedOK(t, e) /\ OwedOK(t, e)
    BY <1>0 DEF AckedOK, OwedOK, RdbChanges, Durable
  <1>4. t.state = s.state
    BY DEF RdbChanges
  <1> QED
    BY <1>1, <1>2, <1>3, <1>4 DEF Safe

\* rdbSaveBackground: the count at the fork is remembered.
LEMMA SaveStartsSafe ==
    ASSUME NEW s, NEW d, NEW j, Safe(s, d, j), s.child = None, s.rdb = None, NEW forked \in BOOLEAN
    PROVE  LET t == rdbSaveBackground(s, forked) IN Safe(t, d, j) /\ t.state = s.state
  <1> DEFINE t == rdbSaveBackground(s, forked)
             c == [snap |-> s.data, phase |-> "save"]
  <1>0. ServerOK(s) /\ DiskOK(d, j) /\ DirtyOK(s, d) /\ s.data \in Data /\ Len(s.data) \in Nat
        /\ s.dirty \in Nat
    BY DEF Safe, ServerOK, Data
  <1>1. c \in RdbRecord /\ c.snap = s.data /\ c.phase = "save"
    BY <1>0 DEF RdbRecord
  <1> HIDE DEF c
  <1>2. t \in {[s EXCEPT !.before = s.dirty, !.rdbok = FALSE], [s EXCEPT !.before = s.dirty, !.rdb = c]}
    BY DEF rdbSaveBackground, HasChild, c
  <1> HIDE DEF t
  <1>3. RdbChanges(s, t)
    BY <1>0, <1>1, <1>2 DEF RdbChanges, ServerOK, ServerFields
  <1>4. t.rdb \in {None, c} /\ t.dirty = s.dirty /\ t.before = s.dirty
    BY <1>0, <1>2 DEF ServerOK, ServerFields
  <1>5. DirtyOK(t, d)
    <2>1. Len(s.data) <= Len(s.data) /\ Len(s.data) - Len(s.data) <= s.dirty - s.dirty
      BY <1>0
    <2> QED
      BY <1>0, <1>1, <1>3, <1>4, <2>1 DEF DirtyOK, RdbChanges
  <1>6. Safe(t, d, j) /\ t.state = s.state
    BY <1>0, <1>3, <1>5, RdbChangesSafe
  <1> QED
    BY <1>6 DEF t

\* bgsaveCommand, and the saves that serverCron starts.
LEMMA BgsaveKeeps ==
    ASSUME Steady, NEW forked \in BOOLEAN, bgsaveCommand(forked) \/ CronSaves(forked)
    PROVE  Steady'
  <1> DEFINE r == rdbSaveBackground(srv, forked)
             b == srv.bgsched /\ ~forked
  <1>0. Safe(srv, disk, jobs) /\ ConfigOK /\ ServerOK(srv)
    BY DEF Steady, Safe
  <1>1. /\ UNCHANGED <<disk, jobs, config>> /\ srv.rdb = None
        /\ Spend("saves") /\ "saves" \in BudgetFields \ {"writes"}
        /\ \/ srv' = [srv EXCEPT !.bgsched = TRUE]
           \/ srv.child = None /\ srv' = r
           \/ srv.child = None /\ \E v \in BOOLEAN : srv' = [r EXCEPT !.bgsched = @ /\ v]
    BY DEF bgsaveCommand, CronSaves, HasChild, BudgetFields
  <1>2. CASE srv' = [srv EXCEPT !.bgsched = TRUE]
    <2>1. Quiet(srv, srv')
      BY <1>0, <1>2 DEF Quiet, ServerOK, ServerFields
    <2>2. Safe(srv', disk, jobs) /\ srv'.state = srv.state
      BY <1>0, <2>1, QuietSafe
    <2> QED
      BY <1>0, <1>1, <2>2, Becomes
  <1>3. CASE srv' # [srv EXCEPT !.bgsched = TRUE]
    <2>1. Safe(r, disk, jobs) /\ r.state = srv.state
      BY <1>0, <1>1, <1>3, SaveStartsSafe
    <2> HIDE DEF r
    <2>2. CASE srv' = r
      BY <1>0, <1>1, <2>1, <2>2, Becomes
    <2>3. CASE \E v \in BOOLEAN : srv' = [r EXCEPT !.bgsched = @ /\ v]
      <3>1. Quiet(r, srv')
        BY <2>1, <2>3 DEF Quiet, Safe, ServerOK, ServerFields
      <3>2. Safe(srv', disk, jobs) /\ srv'.state = srv.state
        BY <2>1, <3>1, QuietSafe
      <3> QED
        BY <1>0, <1>1, <3>2, Becomes
    <2> QED
      BY <1>1, <1>3, <2>2, <2>3
  <1> QED
    BY <1>2, <1>3

\* saveCommand.
LEMMA SaveKeeps ==
    ASSUME Steady, saveCommand
    PROVE  Steady'
  <1> DEFINE t == [srv EXCEPT !.dirty = 0, !.rdbok = TRUE]
             e == [disk EXCEPT !.rdb = srv.data]
  <1>0. Safe(srv, disk, jobs) /\ ConfigOK /\ ServerOK(srv) /\ DiskOK(disk, jobs)
    BY DEF Steady, Safe
  <1>1. /\ srv.rdb = None /\ srv' = t /\ disk' = e /\ jobs' = jobs /\ config' = config
        /\ Spend("saves") /\ "saves" \in BudgetFields \ {"writes"}
    BY DEF saveCommand, rdbSave, World, Become, BudgetFields
  <1>2. RdbChanges(srv, t) /\ t.rdb = None /\ t.data = srv.data
    BY <1>0, <1>1 DEF RdbChanges, ServerOK, ServerFields
  <1>3. DOMAIN e = {"aof", "rdb"} /\ e.aof = disk.aof /\ e.rdb = t.data
    BY <1>0, <1>2 DEF DiskOK
  <1> HIDE DEF t, e
  <1>4. ServerOK(t)
    BY <1>0, <1>2 DEF ServerOK, RdbChanges
  <1>5. DirtyOK(t, e) /\ DiskOK(e, jobs) /\ e.aof = disk.aof
    <2>1. DiskOK(disk, jobs)
      BY <1>0
    <2>2. DirtyOK(t, disk) \/ t.rdb = None
      BY <1>2
    <2> QED
      BY <1>3, <1>4, <2>1, <2>2, DirtySaved
  <1>6. Safe(t, e, jobs) /\ t.state = srv.state
    BY <1>0, <1>2, <1>5, RdbChangesSafe
  <1> QED
    BY <1>0, <1>1, <1>6, Becomes

\* The RDB child saves or fails.
LEMMA RdbChildKeeps ==
    ASSUME Steady, RdbChildSaves \/ RdbChildFails
    PROVE  Steady'
  <1> DEFINE phase == IF RdbChildSaves THEN "exit" ELSE "fail"
             c == [srv.rdb EXCEPT !.phase = phase]
             t == [srv EXCEPT !.rdb.phase = phase]
             snap == srv.rdb.snap
             e == [disk EXCEPT !.rdb = snap]
  <1>0. Safe(srv, disk, jobs) /\ ConfigOK /\ ServerOK(srv) /\ DiskOK(disk, jobs) /\ DirtyOK(srv, disk)
    BY DEF Steady, Safe
  <1>1. /\ srv.rdb # None /\ srv.rdb.phase = "save" /\ srv' = t /\ jobs' = jobs /\ config' = config
        /\ RdbChildSaves => disk' = e
        /\ ~RdbChildSaves => disk' = disk
        /\ budget' = budget \/ \E what \in BudgetFields \ {"writes"} : Spend(what)
    BY DEF RdbChildSaves, RdbChildFails, BudgetFields
  <1>2. srv.rdb \in RdbRecord /\ snap \in Data /\ Len(snap) \in Nat
    BY <1>0, <1>1, RdbFields
  <1>3. phase \in {"exit", "fail"}
    OBVIOUS
  <1>a. RdbChildSaves <=> phase = "exit"
    OBVIOUS
  <1> HIDE DEF phase
  <1>4. c \in RdbRecord /\ c.snap = snap /\ c.phase = phase
    BY <1>2, <1>3 DEF RdbRecord
  <1>5. RdbChanges(srv, t) /\ t.rdb = c /\ t.dirty = srv.dirty /\ t.before = srv.before
    <2>1. t = [srv EXCEPT !.rdb = c]
      OBVIOUS
    <2> HIDE DEF c, t
    <2> QED
      BY <1>0, <1>1, <1>4, <2>1 DEF RdbChanges, ServerOK, ServerFields
  <1>6. /\ e.rdb = snap /\ e.aof = disk.aof /\ DiskOK(e, jobs)
    <2>1. e.rdb = snap /\ e.aof = disk.aof /\ DOMAIN e = {"aof", "rdb"}
      BY <1>0 DEF DiskOK
    <2> HIDE DEF e
    <2> QED
      BY <1>0, <1>2, <2>1 DEF DiskOK
  <1> DEFINE a == Len(srv.data)
             b == Len(snap)
  <1>7. /\ a \in Nat /\ b \in Nat /\ srv.dirty \in Nat /\ srv.before \in Nat /\ srv.loaded \in Nat
        /\ b <= a /\ a - b <= srv.dirty - srv.before
    <2>1. a \in Nat /\ srv.dirty \in Nat /\ srv.before \in Nat /\ srv.loaded \in Nat
      BY <1>0 DEF ServerOK, Data
    <2>2. Len(srv.rdb.snap) <= Len(srv.data) /\ Len(srv.data) - Len(srv.rdb.snap) <= srv.dirty - srv.before
      BY <1>0, <1>1 DEF DirtyOK
    <2> QED
      BY <1>2, <2>1, <2>2
  <1> HIDE DEF t, e, c, snap
  <1>8. DirtyOK(t, disk')
    <2>1. CASE phase = "exit"
      <3>1. a - Max({b, srv.loaded}) <= srv.dirty
        <4>1. Max({b, srv.loaded}) = IF b >= srv.loaded THEN b ELSE srv.loaded
          BY <1>7, TheLarger
        <4> HIDE DEF a, b
        <4> QED
          BY <1>7, <4>1
      <3>2. b <= b
        BY <1>7
      <3> QED
        BY <1>1, <1>4, <1>5, <1>6, <1>7, <1>a, <2>1, <3>1, <3>2 DEF DirtyOK, RdbChanges
    <2>2. CASE phase = "fail"
      BY <1>0, <1>1, <1>4, <1>5, <1>a, <2>2 DEF DirtyOK, RdbChanges
    <2> QED
      BY <1>3, <2>1, <2>2
  <1>9. DiskOK(disk', jobs) /\ disk'.aof = disk.aof
    BY <1>0, <1>1, <1>6
  <1>10. Safe(t, disk', jobs) /\ t.state = srv.state
    BY <1>0, <1>5, <1>8, <1>9, RdbChangesSafe
  <1> QED
    BY <1>0, <1>1, <1>10, Becomes

\* backgroundSaveDoneHandlerDisk: what was counted before the fork is saved.
LEMMA ReapSaveKeeps ==
    ASSUME Steady, ReapSave
    PROVE  Steady'
  <1> DEFINE t == backgroundSaveDoneHandlerDisk(srv)
  <1>0. Safe(srv, disk, jobs) /\ ConfigOK /\ ServerOK(srv) /\ DiskOK(disk, jobs) /\ DirtyOK(srv, disk)
    BY DEF Steady, Safe
  <1>1. /\ srv.rdb # None /\ srv.rdb.phase # "save" /\ srv' = t
        /\ UNCHANGED <<disk, jobs, config, budget>>
    BY DEF ReapSave
  <1>2. srv.rdb.phase \in {"exit", "fail", "killed"} /\ Len(srv.rdb.snap) \in Nat
    BY <1>0, <1>1, RdbFields
  <1>3. CASE srv.rdb.phase = "exit"
    <2> DEFINE a == Len(srv.data)
               b == Len(srv.rdb.snap)
               r == Len(disk.rdb)
               l == srv.loaded
               n == srv.dirty - srv.before
    <2>1. t = [srv EXCEPT !.dirty = n, !.rdbok = TRUE, !.rdb = None]
      BY <1>3 DEF backgroundSaveDoneHandlerDisk
    <2>2. a \in Nat /\ r \in Nat /\ l \in Nat /\ srv.dirty \in Nat /\ srv.before \in Nat
      BY <1>0 DEF ServerOK, DiskOK, Data
    <2>3. b \in Nat /\ b <= a /\ a - b <= n /\ b <= r
      BY <1>0, <1>1, <1>2, <1>3 DEF DirtyOK
    <2>4. Max({r, l}) = IF r >= l THEN r ELSE l
      BY <2>2, TheLarger
    <2>a. n \in Int
      BY <2>2
    <2> HIDE DEF a, b, r, l, n, t
    <2>5. n \in Nat /\ a - Max({r, l}) <= n
      BY <2>2, <2>3, <2>4, <2>a
    <2>6. RdbChanges(srv, t) /\ t.rdb = None /\ t.dirty = n
      BY <1>0, <2>1, <2>5 DEF RdbChanges, ServerOK, ServerFields
    <2>7. DirtyOK(t, disk)
      BY <2>5, <2>6 DEF DirtyOK, RdbChanges, a, r, l
    <2>8. Safe(t, disk, jobs) /\ t.state = srv.state
      BY <1>0, <2>6, <2>7, RdbChangesSafe
    <2> QED
      BY <1>0, <1>1, <2>8, Becomes
  <1>4. CASE srv.rdb.phase # "exit"
    <2>1. t \in {[srv EXCEPT !.rdbok = FALSE, !.rdb = None], [srv EXCEPT !.rdb = None]}
      BY <1>2, <1>4 DEF backgroundSaveDoneHandlerDisk
    <2> HIDE DEF t
    <2>2. RdbChanges(srv, t) /\ t.rdb = None /\ t.dirty = srv.dirty
      <3>1. CASE t = [srv EXCEPT !.rdb = None]
        BY <1>0, <3>1 DEF RdbChanges, ServerOK, ServerFields
      <3>2. CASE t = [srv EXCEPT !.rdbok = FALSE, !.rdb = None]
        BY <1>0, <3>2 DEF RdbChanges, ServerOK, ServerFields
      <3> QED
        BY <2>1, <3>1, <3>2
    <2>3. DirtyOK(t, disk)
      BY <1>0, <2>2 DEF DirtyOK, RdbChanges
    <2>4. Safe(t, disk, jobs) /\ t.state = srv.state
      BY <1>0, <2>2, <2>3, RdbChangesSafe
    <2> QED
      BY <1>0, <1>1, <2>4, Becomes
  <1> QED
    BY <1>3, <1>4

\* A restart, with the files of a server that kept the invariant.
LEMMA RestartKeeps ==
    ASSUME ConfigOK, NEW s, NEW d, NEW j, Safe(s, d, j), s.acked = srv.acked, s.state = srv.state,
           NEW e, NEW k, DiskOK(e, k),
           config.aof => (WellFormed(d.aof.items) => WellFormed(e.aof.items)),
           config.aof => (AckedOK(s, d) => AckedOK(s, e)) \/ e.aof.synced = Len(e.aof.items),
           Become(loadDataFromDisk(e)), config' = config,
           budget' = budget \/ \E what \in BudgetFields \ {"writes"} : Spend(what)
    PROVE  Steady'
  <1> DEFINE w == loadDataFromDisk(e)
  <1>0. ServerOK(s) /\ DiskOK(d, j) /\ config.aof = (srv.state = "on") /\ config.aof \in BOOLEAN
    BY DEF Safe, ConfigOK
  <1>1. srv.acked \in Nat
    BY <1>0 DEF ServerOK, Data
  <1>2. ASSUME config.aof PROVE WellFormed(e.aof.items)
    <2>1. d.aof.items \in Files /\ s.buf \in Files
      BY <1>0, CommandsAreFiles DEF ServerOK, DiskOK
    <2>2. WellFormed(d.aof.items \o s.buf)
      BY <1>0, <1>2 DEF Safe, FileOK, Holds
    <2>3. WellFormed(d.aof.items)
      BY <2>1, <2>2, WellFormedStart
    <2> QED
      BY <1>2, <2>3
  <1>3. config.aof /\ Strict => AckedOK(srv, e) \/ e.aof.synced = Len(e.aof.items)
    <2>1. config.aof /\ Strict => AckedOK(s, e) \/ e.aof.synced = Len(e.aof.items)
      BY <1>0 DEF Safe
    <2> QED
      BY <2>1 DEF AckedOK
  <1>4. /\ WorldOK(w) /\ FileOK(w.srv, w.disk) /\ RewriteOK(w.srv) /\ DirtyOK(w.srv, w.disk)
        /\ config.aof = (w.srv.state = "on")
        /\ Strict /\ w.srv.state = "on" => AckedOK(w.srv, w.disk) /\ OwedOK(w.srv, w.disk)
    BY <1>0, <1>1, <1>2, <1>3, Loads
  <1> HIDE DEF w
  <1>5. Safe(w.srv, w.disk, w.jobs)
    BY <1>4 DEF Safe, WorldOK
  <1>6. srv' = w.srv /\ disk' = w.disk /\ jobs' = w.jobs
    BY DEF Become, w
  <1>7. srv'.state = "on" <=> srv.state = "on"
    BY <1>0, <1>4, <1>6
  <1> QED
    BY <1>5, <1>6, <1>7, Becomes

\* The files as they are, when the process ends within backgroundRewriteDoneHandler or
\* outside of it.
LEMMA SettledSafe ==
    ASSUME IInv
    PROVE  /\ ConfigOK
           /\ \E s : Safe(s, disk, jobs) /\ s.acked = srv.acked /\ s.state = srv.state
  <1>1. CASE Steady
    BY <1>1 DEF Steady
  <1>2. CASE Switching
    <2>1. Safe(Settled(srv), disk, jobs) /\ ConfigOK /\ DOMAIN Settled(srv) = DOMAIN srv
      BY <1>2 DEF Switching, Settled
    <2>2. DOMAIN srv = ServerFields
      BY <2>1 DEF Safe, ServerOK
    <2>3. Settled(srv).acked = srv.acked /\ Settled(srv).state = srv.state
      BY <2>2 DEF Settled, ServerFields
    <2> QED
      BY <2>1, <2>3
  <1> QED
    BY <1>1, <1>2 DEF IInv

\* The process is killed and started again.
LEMMA KilledKeeps ==
    ASSUME IInv, Killed
    PROVE  Steady'
  <1>0. ConfigOK /\ \E s : Safe(s, disk, jobs) /\ s.acked = srv.acked /\ s.state = srv.state
    BY SettledSafe
  <1>1. Become(loadDataFromDisk(disk)) /\ config' = config /\ DiskOK(disk, jobs)
    BY <1>0 DEF Killed, Safe
  <1>2. budget' = budget \/ \E what \in BudgetFields \ {"writes"} : Spend(what)
    <2>1. CASE srv.exits
      BY <2>1 DEF Killed
    <2>2. CASE ~srv.exits
      <3>1. Spend("crashes") /\ "crashes" \in BudgetFields \ {"writes"}
        BY <2>2 DEF Killed, Spend, BudgetFields
      <3> QED
        BY <3>1
    <2> QED
      BY <2>1, <2>2
  <1> QED
    BY <1>0, <1>1, <1>2, RestartKeeps

\* A power failure: the file is cut somewhere after what was synced, then loaded.
LEMMA PowerFailsKeeps ==
    ASSUME IInv, NEW n \in disk.aof.synced..Len(disk.aof.items), PowerFails(n)
    PROVE  Steady'
  <1> DEFINE items == disk.aof.items
             m == disk.aof.synced
             cut == SubSeq(items, 1, n)
             file == [disk.aof EXCEPT !.items = SubSeq(@, 1, n)]
             e == [disk EXCEPT !.aof = redis_fsync(file)]
  <1>0. ConfigOK /\ \E s : Safe(s, disk, jobs) /\ s.acked = srv.acked /\ s.state = srv.state
    BY SettledSafe
  <1>a. DiskOK(disk, jobs)
    BY <1>0 DEF Safe
  <1>1. Become(loadDataFromDisk(e)) /\ config' = config /\ Spend("crashes")
        /\ "crashes" \in BudgetFields \ {"writes"}
    BY DEF PowerFails, BudgetFields
  <1>2. /\ items \in Files /\ Len(items) \in Nat
        /\ n \in 0..Len(items) /\ n \in Nat
    <2>1. items \in Files /\ Len(items) \in Nat /\ m \in 0..Len(items)
      BY <1>a DEF DiskOK, Files
    <2>2. n \in m..Len(items)
      OBVIOUS
    <2> HIDE DEF items, m
    <2> QED
      BY <2>1, <2>2
  <1>3. cut \in Files /\ Len(cut) = n /\ (WellFormed(items) => WellFormed(cut))
    BY <1>2, Beginning
  <1>4. /\ e.aof.items = cut /\ e.aof.synced = Len(cut) /\ e.aof.ino = disk.aof.ino /\ e.rdb = disk.rdb
        /\ e.aof.fresh \in BOOLEAN
        /\ DOMAIN e = {"aof", "rdb"} /\ DOMAIN e.aof = {"ino", "items", "synced", "fresh"}
    <2>1. file.items = cut /\ file.ino = disk.aof.ino /\ DOMAIN file = {"ino", "items", "synced", "fresh"}
      BY <1>a DEF DiskOK
    <2> HIDE DEF file, cut
    <2>2. e.aof = redis_fsync(file) /\ e.rdb = disk.rdb /\ DOMAIN e = {"aof", "rdb"}
      BY <1>a DEF DiskOK
    <2> HIDE DEF e
    <2> QED
      BY <2>1, <2>2 DEF redis_fsync
  <1> HIDE DEF e, cut
  <1>5. DiskOK(e, <<>>)
    <2>1. n \in 0..n /\ <<>> \in Seq([ino : Nat, len : Nat]) /\ Len(<<>>) = 0
      BY <1>2
    <2> QED
      BY <1>a, <1>2, <1>3, <1>4, <2>1 DEF DiskOK
  <1>6. config.aof => (WellFormed(items) => WellFormed(e.aof.items))
    BY <1>3, <1>4
  <1> QED
    BY <1>0, <1>1, <1>4, <1>5, <1>6, RestartKeeps

\* The children are killed.
LEMMA KillChildrenSafe ==
    ASSUME NEW s, NEW d, NEW j, Safe(s, d, j)
    PROVE  /\ Safe(KillRdbChild(s), d, j)
           /\ KillRdbChild(s).state = s.state /\ KillRdbChild(s).acked = s.acked
           /\ Safe(KillAofChild(s), d, j)
           /\ KillAofChild(s).state = s.state /\ KillAofChild(s).acked = s.acked
  <1> DEFINE t == KillRdbChild(s)
             u == KillAofChild(s)
             z == [s EXCEPT !.rdb = t.rdb]
  <1>0. ServerOK(s) /\ DiskOK(d, j) /\ DirtyOK(s, d)
    BY DEF Safe
  <1>1. /\ ServerOK(t) /\ Quiet(z, t)
        /\ t.rdb # None => /\ s.rdb # None /\ t.rdb.snap = s.rdb.snap
                           /\ t.rdb.phase # "save"
                           /\ t.rdb.phase = "exit" => s.rdb.phase = "exit"
    BY <1>0, RdbKilled
  <1> HIDE DEF t
  <1>2. RdbChanges(s, t) /\ t.dirty = s.dirty /\ t.before = s.before
    BY <1>0, <1>1 DEF RdbChanges, Quiet, ServerOK, ServerFields
  <1>3. DirtyOK(t, d)
    BY <1>0, <1>1, <1>2, DirtyKilled DEF RdbChanges
  <1>4. Safe(t, d, j) /\ t.state = s.state /\ t.acked = s.acked
    BY <1>0, <1>2, <1>3, RdbChangesSafe DEF RdbChanges
  <1>5. Safe(u, d, j) /\ u.state = s.state /\ u.acked = s.acked
    <2>1. CASE u = s
      BY <2>1
    <2>2. CASE u # s
      <3>1. s.child # None /\ u = [s EXCEPT !.child.phase = "fail"]
        BY <2>2 DEF KillAofChild
      <3> HIDE DEF u
      <3>2. Safe(u, d, j) /\ u.state = s.state
        BY <3>1, PhaseMovesSafe
      <3>3. u.acked = s.acked
        BY <1>0, <3>1 DEF ServerOK, ServerFields
      <3> QED
        BY <3>2, <3>3
    <2> QED
      BY <2>1, <2>2
  <1> QED
    BY <1>4, <1>5 DEF t

\* prepareForShutdown, then a start.
LEMMA ShutdownKeeps ==
    ASSUME Steady, NEW save \in BOOLEAN, NEW saved \in BOOLEAN, NEW outcome \in WriteOutcomes,
           prepareForShutdown(save, saved, outcome)
    PROVE  Steady'
  <1> DEFINE s == KillRdbChild(srv)
             w == [World EXCEPT !.srv = s]
             wk == [w EXCEPT !.srv = KillAofChild(@)]
             w1 == flushAppendOnlyFile(wk, TRUE, outcome)
             d1 == [w1.disk EXCEPT !.aof = redis_fsync(@)]
             w2 == IF srv.state = "off" THEN w
                   ELSE [w1 EXCEPT !.disk.aof = redis_fsync(@)]
             w3 == IF save /\ ~w2.srv.exits THEN rdbSave(w2, saved) ELSE w2
  <1>0. Safe(srv, disk, jobs) /\ ConfigOK
    BY DEF Steady
  <1>1. /\ Become(IF saved \/ w2.srv.exits THEN loadDataFromDisk(w3.disk) ELSE w3)
        /\ config' = config /\ Spend("shutdowns") /\ "shutdowns" \in BudgetFields \ {"writes"}
    BY DEF prepareForShutdown, BudgetFields
  <1>2. Safe(s, disk, jobs) /\ s.state = srv.state /\ s.acked = srv.acked
    BY <1>0, KillChildrenSafe
  <1>3. w.srv = s /\ w.disk = disk /\ w.jobs = jobs /\ DOMAIN w = {"srv", "disk", "jobs"}
    BY DEF World
  <1> HIDE DEF s, w
  <1>4. /\ wk.srv = KillAofChild(s) /\ wk.disk = disk /\ wk.jobs = jobs /\ DOMAIN wk = {"srv", "disk", "jobs"}
    BY <1>3
  <1>5. Safe(wk.srv, wk.disk, wk.jobs) /\ wk.srv.state = srv.state /\ wk.srv.acked = srv.acked
    BY <1>2, <1>4, KillChildrenSafe
  <1> HIDE DEF wk
  <1>6. Safe(w1.srv, w1.disk, w1.jobs) /\ Flushes(wk, w1)
    BY <1>4, <1>5, FlushedSafe
  <1> HIDE DEF w1
  <1>7. w1.srv.state = srv.state /\ w1.srv.acked = srv.acked /\ DOMAIN w1 = {"srv", "disk", "jobs"}
    BY <1>5, <1>6 DEF Flushes, WorldOK
  <1>8. Safe(w1.srv, d1, w1.jobs)
    BY <1>6, SyncedAll
  <1>9. /\ Safe(w2.srv, w2.disk, w2.jobs) /\ w2.srv.state = srv.state /\ w2.srv.acked = srv.acked
        /\ DOMAIN w2 = {"srv", "disk", "jobs"}
    <2>1. CASE srv.state = "off"
      BY <1>2, <1>3, <2>1
    <2>2. CASE srv.state # "off"
      <3>1. w2.srv = w1.srv /\ w2.disk = d1 /\ w2.jobs = w1.jobs /\ DOMAIN w2 = {"srv", "disk", "jobs"}
        BY <1>7, <2>2
      <3> HIDE DEF w2, d1
      <3> QED
        BY <1>7, <1>8, <3>1
    <2> HIDE DEF w2
    <2> QED
      BY <2>1, <2>2
  <1> HIDE DEF w2, d1
  <1> DEFINE e == w3.disk
             x == w2.srv
  <1>10. DiskOK(w2.disk, w2.jobs) /\ x.data \in Data
    BY <1>9 DEF Safe, ServerOK
  <1>11. DiskOK(e, w2.jobs) /\ e.aof = w2.disk.aof
    <2>1. e = w2.disk \/ e = [w2.disk EXCEPT !.rdb = x.data]
      BY <1>9 DEF rdbSave
    <2> HIDE DEF e, x
    <2>2. e.aof = w2.disk.aof /\ DOMAIN e = {"aof", "rdb"} /\ (e.rdb = w2.disk.rdb \/ e.rdb = x.data)
      BY <1>10, <2>1 DEF DiskOK
    <2> QED
      BY <1>10, <2>2 DEF DiskOK
  <1>12. CASE saved \/ w2.srv.exits
    <2>1. Become(loadDataFromDisk(e)) /\ config' = config
      BY <1>1, <1>12
    <2> HIDE DEF w3, x, e
    <2>2. /\ config.aof => (WellFormed(w2.disk.aof.items) => WellFormed(e.aof.items))
          /\ config.aof => (AckedOK(w2.srv, w2.disk) => AckedOK(w2.srv, e))
      BY <1>11 DEF AckedOK, Durable
    <2> QED
      BY <1>0, <1>1, <1>9, <1>11, <2>1, <2>2, RestartKeeps
  <1>13. CASE ~(saved \/ w2.srv.exits)
    <2>1. w3 = w2
      BY <1>13 DEF rdbSave
    <2>2. Become(w2)
      BY <1>1, <1>13, <2>1
    <2>3. srv' = w2.srv /\ disk' = w2.disk /\ jobs' = w2.jobs
      BY <2>2 DEF Become
    <2> HIDE DEF w3, x, e
    <2> QED
      BY <1>0, <1>1, <1>9, <2>3, Becomes
  <1> QED
    BY <1>12, <1>13

-----------------------------------------------------------------------------
(* The theorems *)

\* Every situation to start from.
LEMMA InitStep ==
    ASSUME Init
    PROVE  IInv
  <1>1. PICK i \in Inits :
             /\ config = [policy |-> i.policy, norw |-> i.norw, aof |-> i.aof, save |-> i.save]
             /\ budget = i.budget
             /\ srv = Started(<<>>, 0, IF i.aof THEN "on" ELSE "off", 0, 0)
    BY DEF Init
  <1>2. /\ disk = [aof |-> [ino |-> 1, items |-> <<>>, synced |-> 0, fresh |-> FALSE], rdb |-> <<>>]
        /\ jobs = <<>>
    BY DEF Init
  <1> DEFINE state == IF i.aof THEN "on" ELSE "off"
             none == <<>>
  <1>3. i.aof \in BOOLEAN /\ DOMAIN budget = BudgetFields /\ budget.writes \in Seq({0, 1} \X BOOLEAN)
    BY <1>1, InitsAssumption
  <1>4. none \in Data /\ none \in Files /\ Len(none) = 0 /\ none \o none = none
        /\ none \in Seq([ino : Nat, len : Nat]) /\ state \in {"on", "off"}
    BY <1>3 DEF Data, Files
  <1>5. /\ disk.aof.items = none /\ disk.aof.synced = 0 /\ disk.aof.ino = 1 /\ disk.rdb = none
        /\ disk.aof.fresh \in BOOLEAN /\ Durable(disk) = 0
        /\ DOMAIN disk = {"aof", "rdb"} /\ DOMAIN disk.aof = {"ino", "items", "synced", "fresh"} /\ jobs = none
    BY <1>2 DEF Durable
  <1>6. srv = Started(none, 0, state, 0, 0)
    BY <1>1
  <1>a. (state = "on") = i.aof
    BY <1>3
  <1> HIDE DEF none, state
  <1>7. /\ ServerOK(srv) /\ RewriteOK(srv) /\ srv.data = none /\ srv.state = state /\ srv.buf = none
        /\ srv.sel = -1 /\ srv.acked = 0 /\ srv.loaded = 0 /\ srv.dirty = 0 /\ srv.rdb = None /\ ~srv.owed
    <2>1. 0 \in Nat /\ 0 <= Len(none) /\ none = <<>>
      BY <1>4 DEF none
    <2> QED
      BY <1>4, <1>6, <2>1, StartedFields
  <1>8. DiskOK(disk, jobs)
    <2>1. 0 \in 0..0 /\ 1 \in Nat
      OBVIOUS
    <2> QED
      BY <1>4, <1>5, <2>1 DEF DiskOK
  <1>9. Loading(none)[0] = Nothing /\ Load(none) = Nothing /\ Nothing.data = none
        /\ Nothing.db = 0 /\ Nothing.open = FALSE
    <2>1. Loading(none)[0] = Nothing
      BY <1>4, LoadingSteps
    <2> QED
      BY <1>4, <2>1 DEF Load, Nothing, none
  <1>10. Holds(none, none, -1)
    BY <1>4, <1>9 DEF Holds, WellFormed
  <1>11. FileOK(srv, disk) /\ AckedOK(srv, disk) /\ OwedOK(srv, disk)
    <2>1. disk.aof.items \o srv.buf = none
      BY <1>4, <1>5, <1>7
    <2>2. 0 >= 0
      OBVIOUS
    <2> QED
      BY <1>4, <1>5, <1>7, <1>9, <1>10, <2>1, <2>2 DEF FileOK, AckedOK, OwedOK
  <1>12. DirtyOK(srv, disk)
    <2>1. Max({0, 0}) = 0
      BY TheLarger
    <2> QED
      BY <1>4, <1>5, <1>7, <2>1 DEF DirtyOK
  <1>13. ConfigOK
    BY <1>1, <1>3, <1>7, <1>a DEF ConfigOK
  <1> QED
    BY <1>7, <1>8, <1>11, <1>12, <1>13 DEF IInv, Steady, Safe

\* Nothing else happens between the rename and the end of backgroundRewriteDoneHandler: the
\* server does nothing but that, its child is gone and no other runs.
LEMMA WithinTheHandler ==
    ASSUME Switching, Next
    PROVE  \/ bioProcessBackgroundJobs \/ FinishRewrite \/ Killed
           \/ \E n \in disk.aof.synced..Len(disk.aof.items) : PowerFails(n)
  <1>1. srv.child # None /\ srv.child.phase = "renamed" /\ ~Running
    BY DEF Switching, Renamed, Running
  <1>2. srv.rdb = None
    BY DEF Switching
  <1> QED
    BY <1>1, <1>2 DEF Next, ClientWrites, flushallCommand, beforeSleep, TimePasses, bgrewriteaofCommand,
       CronRewrites, aofChildWriteDiffData, ChildReads, ChildAsksToStop, aofChildPipeReadable,
       ChildFinishes, ChildFails, RenameRewrite, GiveUpRewrite, SetAppendOnly, bgsaveCommand, CronSaves,
       saveCommand, RdbChildSaves, RdbChildFails, ReapSave, prepareForShutdown

\* Outside of it.
LEMMA SteadyStep ==
    ASSUME Steady, Next
    PROVE  IInv'
  <1>1. ~FinishRewrite
    BY DEF Steady, Safe, ServerOK, LiveChild, FinishRewrite, Renamed
  <1> QED
    BY <1>1, ClientWritesKeeps, FlushallKeeps, BeforeSleepKeeps, TimePassesKeeps, BioKeeps,
       BgrewriteaofKeeps, CronRewritesKeeps, WriteDiffKeeps, ChildReadsKeeps, ChildPhaseKeeps,
       RenameKeeps, GiveUpKeeps, SetAppendOnlyKeeps, BgsaveKeeps, SaveKeeps, RdbChildKeeps, ReapSaveKeeps,
       KilledKeeps, PowerFailsKeeps, ShutdownKeeps DEF Next, IInv

\* Every step.
LEMMA NextStep ==
    ASSUME IInv, [Next]_vars
    PROVE  IInv'
  <1>1. CASE Next /\ Steady
    BY <1>1, SteadyStep
  <1>2. CASE Next /\ Switching
    BY <1>2, WithinTheHandler, BioKeeps, FinishKeeps, KilledKeeps, PowerFailsKeeps DEF IInv
  <1>3. CASE UNCHANGED vars
    <2>1. ConfigOK' = ConfigOK
      BY <1>3 DEF vars, ConfigOK
    <2>2. Safe(srv, disk, jobs)' = Safe(srv, disk, jobs)
      BY <1>3 DEF vars, Safe, Strict
    <2>3. Safe(Settled(srv), disk, jobs)' = Safe(Settled(srv), disk, jobs)
      BY <1>3 DEF vars, Safe, Strict, Settled
    <2> QED
      BY <1>3, <2>1, <2>2, <2>3 DEF vars, IInv, Steady, Switching, Renamed
  <1> QED
    BY <1>1, <1>2, <1>3 DEF IInv

\* The inductive invariant holds in every state, whatever the situations to start from and
\* the bounds are.
THEOREM Invariant == Spec => []IInv
  <1>1. Init => IInv
    BY InitStep
  <1>2. IInv /\ [Next]_vars => IInv'
    BY NextStep
  <1> QED
    BY <1>1, <1>2, PTL DEF Spec

\* What a cut of a file loads, after a power failure (loadAppendOnlyFile).
LEMMA CutLoads ==
    ASSUME NEW items \in Files, NEW buf \in Files, NEW data, NEW sel, Holds(items \o buf, data, sel),
           NEW n \in 0..Len(items), NEW m \in 0..n
    PROVE  LET d == Load(SubSeq(items, 1, n)).data
           IN /\ IsPrefix(d, data) /\ Len(d) \in Nat /\ Len(Loading(items)[m].data) \in Nat
              /\ Len(Loading(items)[m].data) <= Len(d)
  <1> DEFINE all == items \o buf
             cut == SubSeq(items, 1, n)
             d == Load(cut).data
  <1>2. Len(items) \in Nat /\ Len(buf) \in Nat
    BY DEF Files
  <1>3. /\ all \in Files /\ Len(all) = Len(items) + Len(buf) /\ WellFormed(all)
        /\ \A i \in 0..Len(items) : Loading(all)[i] = Loading(items)[i]
        /\ Loading(all)[Len(all)].data = data
    BY <1>2, Longer DEF Holds, Load
  <1>a. data \in Data
    BY HoldsData
  <1> HIDE DEF all
  <1>4. /\ n \in 0..Len(items) /\ n \in 0..Len(all) /\ Len(all) \in 0..Len(all) /\ m \in 0..n
        /\ n \in 0..n /\ m \in 0..Len(items) /\ m \in 0..Len(all)
    BY <1>2, <1>3
  <1>5. cut \in Files /\ Len(cut) = n /\ Loading(cut)[n] = Loading(items)[n]
    BY <1>2, <1>4, Beginning
  <1>6. d = Loading(all)[n].data
    BY <1>3, <1>4, <1>5 DEF Load
  <1>7. Pre(Loading(all)[n].data, Loading(all)[Len(all)].data) /\ Pre(Loading(all)[m].data, Loading(all)[n].data)
    BY <1>3, <1>4, LoadingGrows
  <1>8. Loading(all)[n].data \in Data /\ Loading(all)[m].data \in Data
    BY <1>3, <1>4, LoadingType DEF LoadState
  <1> HIDE DEF d
  <1>9. IsPrefix(d, data)
    BY <1>3, <1>6, <1>7, <1>8, <1>a, PreIsPrefix
  <1>10. /\ Len(d) \in Nat /\ Len(Loading(items)[m].data) \in Nat
         /\ Len(Loading(items)[m].data) <= Len(d)
    BY <1>3, <1>4, <1>6, <1>7, <1>8 DEF Pre, Data
  <1> QED
    BY <1>9, <1>10 DEF d

\* What it loads of the file of the server.
LEMMA CutRecovers ==
    ASSUME NEW s, Safe(s, disk, jobs), s.state = "on", NEW n \in disk.aof.synced..Len(disk.aof.items)
    PROVE  /\ IsPrefix(Recovers(n), s.data)
           /\ Strict /\ ~disk.aof.fresh => Len(Recovers(n)) >= s.acked
  <1> DEFINE items == disk.aof.items
             m == disk.aof.synced
  <1>0. ServerOK(s) /\ DiskOK(disk, jobs) /\ FileOK(s, disk) /\ (Strict => AckedOK(s, disk))
    BY DEF Safe
  <1>1. Holds(items \o s.buf, s.data, s.sel)
    BY <1>0 DEF FileOK
  <1>2. items \in Files /\ s.buf \in Files /\ Len(items) \in Nat /\ m \in 0..Len(items)
    BY <1>0, CommandsAreFiles DEF ServerOK, DiskOK, Files
  <1>3. n \in m..Len(items) /\ s.acked \in Nat
    BY <1>0 DEF ServerOK, Data
  <1>4. Strict /\ ~disk.aof.fresh => Len(Loading(items)[m].data) >= s.acked
    BY <1>0 DEF AckedOK, Durable
  <1>5. Recovers(n) = Load(SubSeq(items, 1, n)).data
    BY DEF Recovers
  <1> HIDE DEF items, m
  <1>6. n \in 0..Len(items) /\ m \in 0..n
    BY <1>2, <1>3
  <1>7. /\ IsPrefix(Recovers(n), s.data) /\ Len(Recovers(n)) \in Nat
        /\ Len(Loading(items)[m].data) \in Nat /\ Len(Loading(items)[m].data) <= Len(Recovers(n))
    BY <1>1, <1>2, <1>5, <1>6, CutLoads
  <1> QED
    BY <1>3, <1>4, <1>7

\* flushAppendOnlyFile, the rewrite and loadAppendOnlyFile: what is on disk and in the
\* buffer is the dataset; what a power failure leaves is a prefix of it and, with appendfsync
\* always, has what was acknowledged, but for a file that was renamed and not synced since.
THEOREM FilesRecover == Spec => []RestartRecovers
  <1>1. IInv => RestartRecovers
    <2> SUFFICES ASSUME IInv, srv.state = "on"
                 PROVE  /\ Load(IF Renamed(srv) THEN disk.aof.items ELSE disk.aof.items \o srv.buf).data = srv.data
                        /\ \A n \in disk.aof.synced..Len(disk.aof.items) :
                             /\ IsPrefix(Recovers(n), srv.data)
                             /\ Strict /\ ~disk.aof.fresh => Len(Recovers(n)) >= srv.acked
      BY DEF RestartRecovers
    <2>1. CASE Steady
      <3>1. Safe(srv, disk, jobs) /\ ~Renamed(srv)
        BY <2>1 DEF Steady, Safe, ServerOK, LiveChild, Renamed
      <3>2. Load(disk.aof.items \o srv.buf).data = srv.data
        BY <3>1 DEF Safe, FileOK, Holds
      <3> QED
        BY <3>1, <3>2, CutRecovers
    <2>2. CASE Switching
      <3>1. Safe(Settled(srv), disk, jobs) /\ Renamed(srv) /\ Holds(disk.aof.items, srv.data, -1)
        BY <2>2 DEF Switching
      <3>2. /\ Settled(srv).state = "on" /\ Settled(srv).data = srv.data
            /\ Settled(srv).acked = srv.acked
        <4>1. DOMAIN Settled(srv) = DOMAIN srv /\ DOMAIN Settled(srv) = ServerFields
          BY <3>1 DEF Settled, Safe, ServerOK
        <4> QED
          BY <4>1 DEF Settled, ServerFields
      <3>3. Load(disk.aof.items).data = srv.data
        BY <3>1 DEF Holds
      <3>4. ASSUME NEW n \in disk.aof.synced..Len(disk.aof.items)
            PROVE  /\ IsPrefix(Recovers(n), srv.data)
                   /\ Strict /\ ~disk.aof.fresh => Len(Recovers(n)) >= srv.acked
        BY <3>1, <3>2, CutRecovers
      <3> QED
        BY <3>1, <3>3, <3>4
    <2> QED
      BY <2>1, <2>2 DEF IInv
  <1> QED
    BY <1>1, Invariant, PTL

\* rdbSave, rdbSaveBackground, backgroundSaveDoneHandlerDisk, flushallCommand: server.dirty
\* counts every change that the RDB file misses.
THEOREM ChangesAreCounted == Spec => []DirtyCountsUnsaved
  <1>1. Steady => DirtyCountsUnsaved
    BY DEF Steady, Safe, DirtyOK, DirtyCountsUnsaved
  <1>2. ASSUME Switching PROVE DirtyCountsUnsaved
    <2>1. Safe(Settled(srv), disk, jobs)
      BY <1>2 DEF Switching
    <2>2. DOMAIN Settled(srv) = DOMAIN srv /\ DOMAIN Settled(srv) = ServerFields
      BY <2>1 DEF Settled, Safe, ServerOK
    <2>3. Settled(srv).data = srv.data /\ Settled(srv).loaded = srv.loaded /\ Settled(srv).dirty = srv.dirty
      BY <2>2 DEF Settled, ServerFields
    <2> QED
      BY <2>1, <2>3 DEF Safe, DirtyOK, DirtyCountsUnsaved
  <1> QED
    BY <1>1, <1>2, Invariant, PTL DEF IInv
=============================================================================
