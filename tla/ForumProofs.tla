---------------------------- MODULE ForumProofs ----------------------------
(***************************************************************************)
(* The /remove-post route looks at a discussion in three statements and    *)
(* deletes other people's posts in many.  For any number of users, posts   *)
(* and requests between these statements it takes away no post that is not *)
(* the user's own or below the user's own in the discussion, and leaves    *)
(* none behind that it had listed.                                         *)
(*                                                                         *)
(* The inductive invariant says what a request may believe of the posts it *)
(* looked at: a row keeps its author and its discussion, ids are given out *)
(* once, and every post of a discussion that was there when it was listed  *)
(* is gone or still on the list.                                           *)
(***************************************************************************)
EXTENDS Forum, WellFoundedInduction, TLAPS

-----------------------------------------------------------------------------
(* The inductive invariant *)

Requests ==
    {Idle}
        \cup [pc : {"first"}, discussion : DiscussionIds, user : Users, content : Contents]
        \cup [pc : {"update"}, id : PostIds, user : Users, was : Contents, content : Contents]
        \cup [pc : {"find", "list"}, id : PostIds, user : Users, discussion : DiscussionIds]
        \cup [pc : {"removeOne"}, id : PostIds, user : Users]
        \cup [pc : {"removeAll"}, id : PostIds, user : Users, discussion : DiscussionIds,
              left : SUBSET PostIds, listed : Nat]

\* Every table cell and request holds values of its kind.
TypeOK ==
    /\ discussions \subseteq DiscussionIds
    /\ nextDiscussion \in 1..(MaxDiscussions + 1)
    /\ posts \in [PostIds -> PostRow \cup {NoRow}]
    /\ nextPost \in 1..(MaxPosts + 1)
    /\ comments \subseteq PostIds
    /\ req \in [Workers -> Requests]

\* Ids that were not given out are free.
FreshPosts == \A p \in PostIds : p >= nextPost => posts[p] = NoRow

\* A post that was given out and, if it still exists, is the user's own.
Own(rows, n, r) ==
    /\ r.id < n
    /\ rows[r.id] # NoRow => rows[r.id].user = r.user

\* What a removal that lists the discussion still knows of it: the posts on the
\* list do not come before the user's own, and hold all older posts.
ListOK(rows, n, r) ==
    /\ r.listed =< n
    /\ \A p \in r.left : /\ r.id =< p
                         /\ p < r.listed
                         /\ rows[p] # NoRow => rows[p].discussion = r.discussion
    /\ \A p \in PostIds :
          rows[p] # NoRow /\ rows[p].discussion = r.discussion /\ p < r.listed => p \in r.left

RequestOK(rows, n, r) ==
    /\ r.pc \in {"update", "find", "list", "removeOne"} => Own(rows, n, r)
    /\ r.pc = "removeAll" => ListOK(rows, n, r)

IInv == TypeOK /\ FreshPosts /\ \A w \in Workers : RequestOK(posts, nextPost, req[w])

-----------------------------------------------------------------------------
(* Lemmas *)

LEMMA FirstOf ==
    ASSUME NEW S \in SUBSET PostIds, S # {}
    PROVE  First(S) \in S /\ \A p \in S : First(S) =< p
  <1>1. S \subseteq Nat
    BY ForumBoundAssumption DEF PostIds
  <1> DEFINE R == {ss \in Nat \X Nat : ss[1] < ss[2]}
  <1>2. IsWellFoundedOn(R, Nat)
    BY NatLessThanWellFounded DEF OpToRel
  <1>3. PICK n \in S : \A m \in S : ~(<<m, n>> \in R)
    BY <1>1, <1>2, WFMin
  <1>4. \A m \in S : ~(m < n)
    BY <1>1, <1>3
  <1>5. \A m \in S : n =< m
    BY <1>1, <1>4
  <1> QED
    BY <1>5 DEF First

LEMMA UpdateFields ==
    ASSUME NEW r \in Requests, r.pc = "update"
    PROVE  r.id \in PostIds /\ r.user \in Users /\ r.content \in Contents
  BY DEF Requests, Idle

LEMMA FirstFields ==
    ASSUME NEW r \in Requests, r.pc = "first"
    PROVE  r.discussion \in DiscussionIds /\ r.user \in Users /\ r.content \in Contents
  BY DEF Requests, Idle

LEMMA FindFields ==
    ASSUME NEW r \in Requests, r.pc \in {"find", "list"}
    PROVE  r \in [pc : {"find", "list"}, id : PostIds, user : Users, discussion : DiscussionIds]
  BY DEF Requests, Idle

LEMMA RemoveFields ==
    ASSUME NEW r \in Requests
    PROVE  /\ r.pc = "removeOne" => r.id \in PostIds /\ r.user \in Users
           /\ r.pc = "removeAll" =>
                r \in [pc : {"removeAll"}, id : PostIds, user : Users,
                       discussion : DiscussionIds, left : SUBSET PostIds, listed : Nat]
  BY DEF Requests, Idle

LEMMA IdleRequest == Idle \in Requests /\ \A rows, n : RequestOK(rows, n, Idle)
  BY DEF Requests, RequestOK, Idle

\* What every statement does to the posts: rows keep author and discussion, and
\* an id is given out once.
RowsKept ==
    /\ posts' \in [PostIds -> PostRow \cup {NoRow}]
    /\ nextPost' \in 1..(MaxPosts + 1)
    /\ nextPost =< nextPost'
    /\ \A p \in PostIds : p < nextPost /\ posts'[p] # NoRow =>
          /\ posts[p] # NoRow
          /\ posts'[p].user = posts[p].user
          /\ posts'[p].discussion = posts[p].discussion
    /\ \A p \in PostIds : p >= nextPost' => posts'[p] = NoRow

\* So what a request believes stays true while others go on.
LEMMA BeliefsKept ==
    ASSUME TypeOK, RowsKept, NEW r \in Requests, RequestOK(posts, nextPost, r)
    PROVE  RequestOK(posts', nextPost', r)
  <1>1. nextPost \in Int /\ nextPost' \in Int /\ \A p \in PostIds : p \in Int
    BY ForumBoundAssumption DEF TypeOK, RowsKept, PostIds
  <1>2. CASE r.pc \in {"update", "find", "list", "removeOne"}
    <2>1. r.id \in PostIds
      BY <1>2, UpdateFields, FindFields, RemoveFields
    <2>2. Own(posts', nextPost', r)
      BY <1>1, <1>2, <2>1 DEF RequestOK, Own, RowsKept
    <2> QED
      BY <1>2, <2>2 DEF RequestOK
  <1>3. CASE r.pc = "removeAll"
    <2>1. r.left \subseteq PostIds /\ r.listed \in Nat /\ ListOK(posts, nextPost, r)
      BY <1>3, RemoveFields DEF RequestOK
    <2>2. r.listed =< nextPost'
      BY <1>1, <2>1 DEF ListOK, RowsKept
    <2>3. \A p \in PostIds : p < r.listed => p < nextPost
      BY <1>1, <2>1 DEF ListOK
    <2>4. \A p \in r.left : /\ r.id =< p /\ p < r.listed
                            /\ posts'[p] # NoRow => posts'[p].discussion = r.discussion
      BY <2>1, <2>3 DEF ListOK, RowsKept
    <2>5. \A p \in PostIds :
             posts'[p] # NoRow /\ posts'[p].discussion = r.discussion /\ p < r.listed
                => p \in r.left
      BY <2>1, <2>3 DEF ListOK, RowsKept
    <2> QED
      BY <1>3, <2>2, <2>4, <2>5 DEF RequestOK, ListOK
  <1> QED
    BY <1>2, <1>3 DEF RequestOK

\* A worker goes on with a request that is in order.
LEMMA GoOn ==
    ASSUME IInv, RowsKept, NEW w \in Workers, NEW r \in Requests, Goto(w, r),
           RequestOK(posts', nextPost', r),
           discussions' \subseteq DiscussionIds,
           nextDiscussion' \in 1..(MaxDiscussions + 1),
           comments' \subseteq PostIds
    PROVE  IInv'
  <1>1. \A v \in Workers : req'[v] = IF v = w THEN r ELSE req[v]
    BY DEF Goto, IInv, TypeOK
  <1>2. req' \in [Workers -> Requests]
    BY DEF Goto, IInv, TypeOK
  <1>3. ASSUME NEW v \in Workers PROVE RequestOK(posts', nextPost', req'[v])
    <2>1. v # w => RequestOK(posts', nextPost', req[v])
      BY BeliefsKept DEF IInv, TypeOK
    <2> QED
      BY <1>1, <2>1
  <1>4. TypeOK'
    BY <1>2 DEF TypeOK, RowsKept
  <1>5. FreshPosts'
    BY DEF FreshPosts, RowsKept
  <1> QED
    BY <1>3, <1>4, <1>5 DEF IInv

\* The same when the tables of posts and discussions are left alone.
LEMMA GoOnQuietly ==
    ASSUME IInv, NEW w \in Workers, NEW r \in Requests, Goto(w, r),
           RequestOK(posts, nextPost, r), UNCHANGED tables
    PROVE  IInv'
  <1>1. RowsKept
    BY ForumBoundAssumption DEF IInv, TypeOK, FreshPosts, RowsKept, tables
  <1> QED
    BY <1>1, GoOn DEF IInv, TypeOK, tables

\* One INSERT into posts.
LEMMA InsertRows ==
    ASSUME IInv, NEW d \in DiscussionIds, NEW u \in Users, NEW c \in Contents,
           InsertPost(d, u, c)
    PROVE  /\ RowsKept
           /\ \A p \in PostIds : posts[p] # NoRow => posts'[p] = posts[p]
  <1> DEFINE row == [discussion |-> d, user |-> u, content |-> c]
  <1>1. row \in PostRow
    BY DEF PostRow
  <1>2. /\ nextPost \in PostIds /\ nextPost' = nextPost + 1 /\ posts[nextPost] = NoRow
        /\ \A p \in PostIds : posts'[p] = IF p = nextPost THEN row ELSE posts[p]
    BY ForumBoundAssumption DEF InsertPost, IInv, TypeOK, FreshPosts, PostIds
  <1>3. posts' \in [PostIds -> PostRow \cup {NoRow}]
    BY <1>1 DEF InsertPost, IInv, TypeOK
  <1> QED
    BY <1>2, <1>3, ForumBoundAssumption DEF RowsKept, IInv, TypeOK, FreshPosts, PostIds

\* One DELETE.
LEMMA DeleteRows ==
    ASSUME IInv, NEW p \in PostIds, posts' = Deleted(p), nextPost' = nextPost
    PROVE  RowsKept /\ \A q \in PostIds \ {p} : posts'[q] = posts[q]
  BY ForumBoundAssumption DEF Deleted, IInv, TypeOK, FreshPosts, RowsKept

-----------------------------------------------------------------------------
(* One step *)

\* What OthersPostsAreSafe and RemovalIsComplete say of one step.
SafeStep ==
    \A p \in PostIds : posts[p] # NoRow /\ posts'[p] # posts[p] =>
        \E w \in Workers :
           /\ req'[w] # req[w]
           /\ \/ req[w].user = posts[p].user /\ req[w].id = p
              \/ /\ req[w].pc = "removeAll"
                 /\ req[w].discussion = posts[p].discussion
                 /\ req[w].id =< p

CompleteStep ==
    \A d \in discussions \ discussions' :
        \E w \in Workers : /\ req[w].pc = "removeAll"
                           /\ req[w].discussion = d
                           /\ \A p \in PostsOf(d) : p >= req[w].listed

Good == IInv' /\ SafeStep /\ CompleteStep

\* The first statement of each handler.
LEMMA SubmitGood == ASSUME IInv, NEW w \in Workers, ForumSubmit(w) PROVE Good
  <1>1. ASSUME NEW u \in Users \cup {Guest}, NEW c \in Contents, createPost(w, u, c)
        PROVE  Good
    <2> DEFINE r == IF u = Guest THEN Idle
                    ELSE [pc |-> "first", discussion |-> nextDiscussion,
                          user |-> u, content |-> c]
    <2>1. r \in Requests /\ \A rows, n : RequestOK(rows, n, r)
      BY <1>1, IdleRequest DEF createPost, Requests, RequestOK
    <2>2. RowsKept
      BY <1>1, ForumBoundAssumption DEF createPost, IInv, TypeOK, FreshPosts, RowsKept
    <2>3. /\ discussions' \subseteq DiscussionIds
          /\ nextDiscussion' \in 1..(MaxDiscussions + 1)
          /\ comments' \subseteq PostIds
      BY <1>1, ForumBoundAssumption DEF createPost, IInv, TypeOK, DiscussionIds
    <2>4. Goto(w, r)
      BY <1>1 DEF createPost
    <2>5. IInv'
      BY <2>1, <2>2, <2>3, <2>4, GoOn
    <2> QED
      BY <1>1, <2>5 DEF createPost, Good, SafeStep, CompleteStep
  <1>2. ASSUME NEW u \in Users, NEW d \in DiscussionIds, NEW c \in Contents,
               replyPost(w, u, d, c)
        PROVE  Good
    <2>1. RowsKept /\ \A p \in PostIds : posts[p] # NoRow => posts'[p] = posts[p]
      BY <1>2, InsertRows DEF replyPost
    <2>2. Goto(w, req[w])
      BY <1>2 DEF replyPost, Goto, IInv, TypeOK
    <2>3. IInv'
      BY <1>2, <2>1, <2>2, IdleRequest, GoOn DEF replyPost, IInv, TypeOK
    <2> QED
      BY <1>2, <2>1, <2>3 DEF replyPost, Good, SafeStep, CompleteStep
  <1>3. ASSUME NEW u \in Users, NEW p \in PostIds, NEW c \in Contents, updatePost(w, u, p, c)
        PROVE  Good
    <2> DEFINE r == [pc |-> "update", id |-> p, user |-> u,
                     was |-> posts[p].content, content |-> c]
    <2>1. posts[p] \in PostRow /\ posts[p].user = u /\ p < nextPost
      BY <1>3, ForumBoundAssumption DEF updatePost, OwnPost, IInv, TypeOK, FreshPosts, PostIds
    <2>2. r \in Requests /\ RequestOK(posts, nextPost, r)
      BY <2>1 DEF PostRow, Requests, RequestOK, Own
    <2>3. IInv'
      BY <1>3, <2>2, GoOnQuietly DEF updatePost
    <2> QED
      BY <1>3, <2>3 DEF updatePost, tables, Good, SafeStep, CompleteStep
  <1>4. ASSUME NEW p \in PostIds, commentToPost(w, p) PROVE Good
    <2>1. RowsKept
      BY <1>4, ForumBoundAssumption DEF commentToPost, IInv, TypeOK, FreshPosts, RowsKept
    <2>2. Goto(w, req[w])
      BY <1>4 DEF commentToPost, Goto, IInv, TypeOK
    <2>3. IInv'
      BY <1>4, <2>1, <2>2, IdleRequest, GoOn DEF commentToPost, IInv, TypeOK
    <2> QED
      BY <1>4, <2>3 DEF commentToPost, Good, SafeStep, CompleteStep
  <1>5. ASSUME NEW u \in Users, NEW p \in PostIds, remove_post(w, u, p) PROVE Good
    <2> DEFINE r == [pc |-> "find", id |-> p, user |-> u, discussion |-> posts[p].discussion]
    <2>1. posts[p] \in PostRow /\ posts[p].user = u /\ p < nextPost
      BY <1>5, ForumBoundAssumption DEF remove_post, OwnPost, IInv, TypeOK, FreshPosts, PostIds
    <2>2. r \in Requests /\ RequestOK(posts, nextPost, r)
      BY <2>1 DEF PostRow, Requests, RequestOK, Own
    <2>3. IInv'
      BY <1>5, <2>2, GoOnQuietly DEF remove_post
    <2> QED
      BY <1>5, <2>3 DEF remove_post, tables, Good, SafeStep, CompleteStep
  <1> QED
    BY <1>1, <1>2, <1>3, <1>4, <1>5 DEF ForumSubmit

LEMMA WriteGood ==
    ASSUME IInv, NEW w \in Workers, createPost_save(w) \/ updatePost_save(w) PROVE Good
  <1>0. req[w] \in Requests /\ RequestOK(posts, nextPost, req[w])
    BY DEF IInv, TypeOK
  <1>1. CASE createPost_save(w)
    <2>1. RowsKept /\ \A p \in PostIds : posts[p] # NoRow => posts'[p] = posts[p]
      BY <1>0, <1>1, FirstFields, InsertRows DEF createPost_save
    <2>2. IInv'
      BY <1>1, <2>1, IdleRequest, GoOn DEF createPost_save, IInv, TypeOK
    <2> QED
      BY <1>1, <2>1, <2>2 DEF createPost_save, Good, SafeStep, CompleteStep
  <1>2. CASE updatePost_save(w)
    <2> DEFINE i == req[w].id  c == req[w].content
    <2>1. i \in PostIds /\ c \in Contents /\ Own(posts, nextPost, req[w])
      BY <1>0, <1>2, UpdateFields DEF updatePost_save, RequestOK
    <2>2. \/ posts' = posts
          \/ posts[i] \in PostRow /\ posts' = [posts EXCEPT ![i].content = c]
      BY <1>2, <2>1 DEF updatePost_save, IInv, TypeOK
    <2>3. posts[i] \in PostRow =>
             LET row == [posts[i] EXCEPT !.content = c] IN
             row \in PostRow /\ row.user = posts[i].user /\ row.discussion = posts[i].discussion
      BY <2>1 DEF PostRow
    <2>4. /\ posts' \in [PostIds -> PostRow \cup {NoRow}]
          /\ \A p \in PostIds : /\ p # i => posts'[p] = posts[p]
                                /\ posts[p] = NoRow => posts'[p] = NoRow
                                /\ posts[p] # NoRow =>
                                      /\ posts'[p].user = posts[p].user
                                      /\ posts'[p].discussion = posts[p].discussion
      BY <2>1, <2>2, <2>3, GuestAssumption DEF IInv, TypeOK
    <2>5. RowsKept
      BY <1>2, <2>4, ForumBoundAssumption DEF updatePost_save, IInv, TypeOK, FreshPosts, RowsKept
    <2>6. IInv'
      BY <1>2, <2>5, IdleRequest, GoOn DEF updatePost_save, IInv, TypeOK
    <2>7. req'[w] # req[w]
      BY <1>2 DEF updatePost_save, Goto, Idle, IInv, TypeOK
    <2> QED
      BY <1>2, <2>1, <2>4, <2>6, <2>7 DEF updatePost_save, Own, Good, SafeStep, CompleteStep
  <1> QED
    BY <1>1, <1>2

\* The statements of /remove-post.
LEMMA RemoveGood ==
    ASSUME IInv, NEW w \in Workers,
           \/ remove_post_find(w) \/ remove_post_list(w) \/ remove_post_one(w)
           \/ remove_post_each(w) \/ remove_post_discussion(w)
    PROVE  Good
  <1> DEFINE q == req[w]
  <1>0. q \in Requests /\ RequestOK(posts, nextPost, q)
    BY DEF IInv, TypeOK
  <1>1. CASE remove_post_find(w)
    <2> DEFINE r == [q EXCEPT !.pc = "list"]
    <2>1. q \in [pc : {"find", "list"}, id : PostIds, user : Users, discussion : DiscussionIds]
      BY <1>0, <1>1, FindFields DEF remove_post_find
    <2>2. r \in Requests /\ r.id = q.id /\ r.user = q.user /\ r.pc = "list"
      BY <2>1 DEF Requests
    <2>3. RequestOK(posts, nextPost, r)
      BY <1>0, <1>1, <2>2 DEF remove_post_find, RequestOK, Own
    <2>4. IInv'
      BY <1>1, <2>2, <2>3, IdleRequest, GoOnQuietly DEF remove_post_find
    <2> QED
      BY <1>1, <2>4 DEF remove_post_find, tables, Good, SafeStep, CompleteStep
  <1>2. CASE remove_post_list(w)
    <2> DEFINE listed == PostsOf(q.discussion)
    <2>1. q \in [pc : {"find", "list"}, id : PostIds, user : Users, discussion : DiscussionIds]
      BY <1>0, <1>2, FindFields DEF remove_post_list
    <2>2. Own(posts, nextPost, q)
      BY <1>0, <1>2 DEF remove_post_list, RequestOK
    <2>3. ASSUME listed # {}
          PROVE  Removal(w, listed) \in Requests /\ RequestOK(posts, nextPost, Removal(w, listed))
      <3>1. listed \in SUBSET PostIds
        BY DEF PostsOf
      <3>2. nextPost \in Nat /\ \A p \in listed : p < nextPost
        BY ForumBoundAssumption DEF IInv, TypeOK, FreshPosts, PostsOf, PostIds
      <3>3. CASE q.id = First(listed)
        <4> DEFINE r == [pc |-> "removeAll", id |-> q.id, user |-> q.user,
                         discussion |-> q.discussion, left |-> listed, listed |-> nextPost]
        <4>1. Removal(w, listed) = r
          BY <3>3 DEF Removal
        <4>2. r \in Requests
          BY <2>1, <3>1, <3>2 DEF Requests
        <4>3. \A p \in listed : q.id =< p
          BY <2>3, <3>1, <3>3, FirstOf
        <4>4. ListOK(posts, nextPost, r)
          BY <3>2, <4>3 DEF ListOK, PostsOf
        <4> QED
          BY <4>1, <4>2, <4>4 DEF RequestOK
      <3>4. CASE q.id # First(listed)
        <4> DEFINE r == [pc |-> "removeOne", id |-> q.id, user |-> q.user]
        <4>1. Removal(w, listed) = r
          BY <3>4 DEF Removal
        <4> QED
          BY <2>1, <2>2, <4>1 DEF Requests, RequestOK, Own
      <3> QED
        BY <3>3, <3>4
    <2>4. IInv'
      BY <1>2, <2>3, IdleRequest, GoOnQuietly DEF remove_post_list
    <2> QED
      BY <1>2, <2>4 DEF remove_post_list, tables, Good, SafeStep, CompleteStep
  <1>3. CASE remove_post_one(w)
    <2>1. q.id \in PostIds /\ Own(posts, nextPost, q)
      BY <1>0, <1>3, RemoveFields DEF remove_post_one, RequestOK
    <2>2. RowsKept /\ \A p \in PostIds \ {q.id} : posts'[p] = posts[p]
      BY <1>3, <2>1, DeleteRows DEF remove_post_one
    <2>3. IInv'
      BY <1>3, <2>2, IdleRequest, GoOn DEF remove_post_one, IInv, TypeOK
    <2>4. req'[w] # req[w]
      BY <1>3 DEF remove_post_one, Goto, Idle, IInv, TypeOK
    <2> QED
      BY <1>3, <2>1, <2>2, <2>3, <2>4 DEF remove_post_one, Own, Good, SafeStep, CompleteStep
  <1>4. CASE remove_post_each(w)
    <2> DEFINE p == First(q.left)
               r == [q EXCEPT !.left = q.left \ {p}]
    <2>1. /\ q \in [pc : {"removeAll"}, id : PostIds, user : Users,
                    discussion : DiscussionIds, left : SUBSET PostIds, listed : Nat]
          /\ ListOK(posts, nextPost, q) /\ q.left # {} /\ Goto(w, r)
      BY <1>0, <1>4, RemoveFields DEF remove_post_each, RequestOK
    <2>2. p \in q.left /\ p \in PostIds
      BY <2>1, FirstOf
    <2>3. RowsKept /\ posts'[p] = NoRow /\ \A x \in PostIds \ {p} : posts'[x] = posts[x]
      BY <1>4, <2>2, DeleteRows DEF remove_post_each, Deleted, IInv, TypeOK
    <2>4. /\ r \in Requests /\ r.pc = "removeAll" /\ r.id = q.id /\ r.left = q.left \ {p}
          /\ r.discussion = q.discussion /\ r.listed = q.listed /\ r # q
      BY <2>1, <2>2 DEF Requests
    <2>5. RequestOK(posts', nextPost', q)
      BY <1>0, <2>3, BeliefsKept DEF IInv
    <2>6. RequestOK(posts', nextPost', r)
      BY <2>1, <2>3, <2>4, <2>5 DEF RequestOK, ListOK
    <2>7. IInv'
      BY <1>4, <2>1, <2>3, <2>4, <2>6, GoOn DEF remove_post_each, IInv, TypeOK
    <2>8. req'[w] # req[w]
      BY <2>1, <2>4 DEF Goto, IInv, TypeOK
    <2>9. q.pc = "removeAll" /\ q.id =< p /\ (posts[p] # NoRow => q.discussion = posts[p].discussion)
      BY <2>1, <2>2 DEF ListOK
    <2>10. SafeStep
      BY <2>3, <2>8, <2>9 DEF SafeStep
    <2> QED
      BY <1>4, <2>7, <2>10 DEF remove_post_each, Good, CompleteStep
  <1>5. CASE remove_post_discussion(w)
    <2>1. ListOK(posts, nextPost, q) /\ q.left = {} /\ q.pc = "removeAll" /\ q.listed \in Nat
      BY <1>0, <1>5, RemoveFields DEF remove_post_discussion, RequestOK
    <2>2. RowsKept
      BY <1>5, ForumBoundAssumption DEF remove_post_discussion, IInv, TypeOK, FreshPosts, RowsKept
    <2>3. IInv'
      BY <1>5, <2>2, IdleRequest, GoOn DEF remove_post_discussion, IInv, TypeOK
    <2>4. \A p \in PostsOf(q.discussion) : p >= q.listed
      BY <2>1, ForumBoundAssumption DEF PostsOf, ListOK, PostIds
    <2>5. discussions \ discussions' \subseteq {q.discussion}
      BY <1>5 DEF remove_post_discussion
    <2> QED
      BY <1>5, <2>1, <2>3, <2>4, <2>5 DEF remove_post_discussion, Good, SafeStep, CompleteStep
  <1> QED
    BY <1>1, <1>2, <1>3, <1>4, <1>5

LEMMA NextGood == IInv /\ [ForumNext]_forumVars => Good
  <1> SUFFICES ASSUME IInv, [ForumNext]_forumVars PROVE Good
    OBVIOUS
  <1>1. ASSUME NEW w \in Workers, ForumSubmit(w) PROVE Good
    BY <1>1, SubmitGood
  <1>2. ASSUME NEW w \in Workers, ForumStep(w) PROVE Good
    BY <1>2, WriteGood, RemoveGood DEF ForumStep
  <1>3. ASSUME NEW w \in Workers, ForumRequestDies(w) PROVE Good
    <2>1. IInv'
      BY <1>3, IdleRequest, GoOnQuietly DEF ForumRequestDies, IInv
    <2> QED
      BY <1>3, <2>1 DEF ForumRequestDies, tables, Good, SafeStep, CompleteStep
  <1>4. CASE UNCHANGED forumVars
    <2>1. IInv'
      BY <1>4 DEF forumVars, IInv, TypeOK, FreshPosts
    <2> QED
      BY <1>4, <2>1 DEF forumVars, Good, SafeStep, CompleteStep
  <1> QED
    BY <1>1, <1>2, <1>3, <1>4 DEF ForumNext

LEMMA InitInv == ForumInit => IInv
  <1> SUFFICES ASSUME ForumInit PROVE IInv
    OBVIOUS
  <1>1. TypeOK
    BY IdleRequest, ForumBoundAssumption DEF ForumInit, TypeOK
  <1> QED
    BY <1>1, IdleRequest DEF ForumInit, IInv, FreshPosts

-----------------------------------------------------------------------------
(* Theorems *)

\* The types, the ids and what requests believe of the posts hold together.
THEOREM Invariant == ForumSpec => []IInv
  BY InitInv, NextGood, PTL DEF ForumSpec, Good

\* A post is rewritten only by its author and taken away only by its author or
\* with a discussion in which the user's own post came before it, however the
\* requests of updatePost and /remove-post interleave.
THEOREM PostsAreSafe == ForumSpec => OthersPostsAreSafe
  <1>1. IInv /\ [ForumNext]_forumVars => [SafeStep]_forumVars
    BY NextGood DEF Good
  <1>2. [][SafeStep]_forumVars => OthersPostsAreSafe
    BY PTL DEF OthersPostsAreSafe, SafeStep
  <1> QED
    BY <1>1, <1>2, Invariant, PTL DEF ForumSpec

\* A removal that comes to its end leaves of the discussion only replies that
\* arrived after it had listed the posts.
THEOREM RemovalsAreComplete == ForumSpec => RemovalIsComplete
  <1>1. IInv /\ [ForumNext]_forumVars => [CompleteStep]_forumVars
    BY NextGood DEF Good
  <1>2. [][CompleteStep]_forumVars => RemovalIsComplete
    BY PTL DEF RemovalIsComplete, CompleteStep
  <1> QED
    BY <1>1, <1>2, Invariant, PTL DEF ForumSpec

=============================================================================
