------------------------------- MODULE Forum -------------------------------
(***************************************************************************)
(* The forum: discussions, their posts and the comments on posts.          *)
(* PostController stores a discussion and its first post in two            *)
(* statements, the /remove-post route removes a discussion row by row.     *)
(* The forum index (CafeNomad::getDiscussions) and every page that renders *)
(* the map view (its latest discussion) throw on a discussion that has no  *)
(* post.                                                                   *)
(***************************************************************************)
EXTENDS Integers, FiniteSets, Site

CONSTANTS
    Guest,      \* nobody is signed in (Auth::user() is null)
    Contents,   \* texts of posts
    MaxDiscussions, MaxPosts,   \* bounds: auto-increment ids ever given
    GuestsPost  \* whether /new-post is submitted without a session

DiscussionIds == 1..MaxDiscussions
PostIds       == 1..MaxPosts
PostRow       == [discussion : DiscussionIds, user : Users, content : Contents]

ASSUME ForumBoundAssumption  == MaxDiscussions \in Nat /\ MaxPosts \in Nat
ASSUME GuestAssumption  == Guest \notin Users /\ NoRow \notin PostRow
ASSUME GuestSwitchAssumption == GuestsPost \in BOOLEAN /\ MayDie \in BOOLEAN

VARIABLES
    discussions,    \* ids of the stored discussions
    nextDiscussion, \* auto-increment counter of discussions
    posts,          \* table posts: id -> row or NoRow
    nextPost,       \* its auto-increment counter
    comments        \* post ids that stored comments refer to

forumVars == <<discussions, nextDiscussion, posts, nextPost, comments, req>>
tables == <<discussions, nextDiscussion, posts, nextPost, comments>>

-----------------------------------------------------------------------------

\* $discussion->posts
PostsOf(d) == {p \in PostIds : posts[p] # NoRow /\ posts[p].discussion = d}

\* ->first() of rows read in the order of their ids
First(S) == CHOOSE p \in S : \A q \in S : p =< q

\* Fault: the post is looked up by its id alone.
FaultyOwnPost(u, p) == posts[p] # NoRow

\* Post::whereId(p)->whereUserId(u)
OwnPost(u, p) == posts[p] # NoRow /\ posts[p].user = u

InsertPost(d, u, c) ==
    /\ nextPost \in PostIds
    /\ posts' = [posts EXCEPT ![nextPost] = [discussion |-> d, user |-> u, content |-> c]]
    /\ nextPost' = nextPost + 1

Deleted(p) == [posts EXCEPT ![p] = NoRow]

-----------------------------------------------------------------------------
(* Writing *)

\* The bound on posts leaves room for the opening posts under way.
Room == nextPost + Cardinality({w \in Workers : req[w].pc = "first"}) \in PostIds

\* createPost stores the discussion before it looks who is signed in: for a
\* guest the handler throws right after.
createPost(w, u, c) ==
    /\ req[w] = Idle
    /\ nextDiscussion \in DiscussionIds /\ Room
    /\ discussions' = discussions \cup {nextDiscussion}
    /\ nextDiscussion' = nextDiscussion + 1
    /\ Goto(w, IF u = Guest THEN Idle
               ELSE [pc |-> "first", discussion |-> nextDiscussion,
                     user |-> u, content |-> c])
    /\ UNCHANGED <<posts, nextPost, comments>>

\* Its second save(): the opening post.
createPost_save(w) ==
    /\ req[w].pc = "first"
    /\ InsertPost(req[w].discussion, req[w].user, req[w].content)
    /\ Goto(w, Idle)
    /\ UNCHANGED <<discussions, nextDiscussion, comments>>

\* replyPost is one INSERT and does not look for the discussion; a page that
\* was open when the discussion was removed still submits its id.
replyPost(w, u, d, c) ==
    /\ req[w] = Idle
    /\ Room
    /\ d < nextDiscussion
    /\ InsertPost(d, u, c)
    /\ UNCHANGED <<discussions, nextDiscussion, comments, req>>

updatePost(w, u, p, c) ==
    /\ req[w] = Idle
    /\ OwnPost(u, p)
    /\ Goto(w, [pc |-> "update", id |-> p, user |-> u,
                was |-> posts[p].content, content |-> c])
    /\ UNCHANGED tables

\* save(): an UPDATE when the text changed, of no row when the post is gone.
updatePost_save(w) ==
    /\ req[w].pc = "update"
    /\ posts' = IF req[w].content = req[w].was \/ posts[req[w].id] = NoRow
                THEN posts
                ELSE [posts EXCEPT ![req[w].id].content = req[w].content]
    /\ Goto(w, Idle)
    /\ UNCHANGED <<discussions, nextDiscussion, nextPost, comments>>

\* The comment is stored before the post is looked up (for the redirect).
commentToPost(w, p) ==
    /\ req[w] = Idle
    /\ p < nextPost
    /\ comments' = comments \cup {p}
    /\ UNCHANGED <<discussions, nextDiscussion, posts, nextPost, req>>

-----------------------------------------------------------------------------
(* /remove-post *)

\* The user's own post is loaded ...
remove_post(w, u, p) ==
    /\ req[w] = Idle
    /\ OwnPost(u, p)
    /\ Goto(w, [pc |-> "find", id |-> p, user |-> u, discussion |-> posts[p].discussion])
    /\ UNCHANGED tables

\* Which rows go: all that were listed when the post opens the discussion, the
\* post alone otherwise.
Removal(w, listed) ==
    LET r == req[w] IN
    IF r.id = First(listed)
    THEN [pc |-> "removeAll", id |-> r.id, user |-> r.user,
          discussion |-> r.discussion, left |-> listed, listed |-> nextPost]
    ELSE [pc |-> "removeOne", id |-> r.id, user |-> r.user]

\* ... then its discussion ...
remove_post_find(w) ==
    /\ req[w].pc = "find"
    /\ Goto(w, IF req[w].discussion \in discussions
               THEN [req[w] EXCEPT !.pc = "list"] ELSE Idle)
    /\ UNCHANGED tables

\* ... and all posts in it.  When either is gone by now the handler throws.
remove_post_list(w) ==
    /\ req[w].pc = "list"
    /\ LET listed == PostsOf(req[w].discussion) IN
         Goto(w, IF listed = {} THEN Idle ELSE Removal(w, listed))
    /\ UNCHANGED tables

remove_post_one(w) ==
    /\ req[w].pc = "removeOne"
    /\ posts' = Deleted(req[w].id)
    /\ Goto(w, Idle)
    /\ UNCHANGED <<discussions, nextDiscussion, nextPost, comments>>

\* The loop over the listed posts, one DELETE each.
remove_post_each(w) ==
    /\ req[w].pc = "removeAll"
    /\ req[w].left # {}
    /\ LET p == First(req[w].left) IN
         /\ posts' = Deleted(p)
         /\ Goto(w, [req[w] EXCEPT !.left = req[w].left \ {p}])
    /\ UNCHANGED <<discussions, nextDiscussion, nextPost, comments>>

\* Fault: the discussion goes before its posts.
FaultyRemoveDiscussion(w) ==
    /\ req[w].pc = "removeAll"
    /\ discussions' = discussions \ {req[w].discussion}
    /\ Goto(w, Idle)
    /\ UNCHANGED <<nextDiscussion, posts, nextPost, comments>>

remove_post_discussion(w) ==
    /\ req[w].pc = "removeAll"
    /\ req[w].left = {}
    /\ discussions' = discussions \ {req[w].discussion}
    /\ Goto(w, Idle)
    /\ UNCHANGED <<nextDiscussion, posts, nextPost, comments>>

-----------------------------------------------------------------------------

ForumRequestDies(w) ==
    /\ MayDie
    /\ req[w] # Idle
    /\ Goto(w, Idle)
    /\ UNCHANGED tables

ForumInit ==
    /\ discussions = {}
    /\ nextDiscussion = 1
    /\ posts = [p \in PostIds |-> NoRow]
    /\ nextPost = 1
    /\ comments = {}
    /\ req = [w \in Workers |-> Idle]

ForumSubmit(w) ==
    \/ \E u \in Users \cup (IF GuestsPost THEN {Guest} ELSE {}), c \in Contents :
          createPost(w, u, c)
    \/ \E u \in Users, d \in DiscussionIds, c \in Contents : replyPost(w, u, d, c)
    \/ \E u \in Users, p \in PostIds, c \in Contents : updatePost(w, u, p, c)
    \/ \E p \in PostIds : commentToPost(w, p)
    \/ \E u \in Users, p \in PostIds : remove_post(w, u, p)

ForumStep(w) ==
    \/ createPost_save(w)
    \/ updatePost_save(w)
    \/ remove_post_find(w)
    \/ remove_post_list(w)
    \/ remove_post_one(w)
    \/ remove_post_each(w)
    \/ remove_post_discussion(w)

ForumNext == \E w \in Workers : ForumSubmit(w) \/ ForumStep(w) \/ ForumRequestDies(w)

ForumSpec == ForumInit /\ [][ForumNext]_forumVars

-----------------------------------------------------------------------------
(* Properties *)

\* A post is rewritten only by its author, and taken away only by its author or
\* by somebody whose own post stands before it in the same discussion: the route
\* deletes other people's posts, so it must not be fooled by a post that has
\* become the first, or a list that has changed, since it looked.
OthersPostsAreSafe ==
    [][\A p \in PostIds : posts[p] # NoRow /\ posts'[p] # posts[p] =>
          \E w \in Workers :
             /\ req'[w] # req[w]
             /\ \/ req[w].user = posts[p].user /\ req[w].id = p
                \/ /\ req[w].pc = "removeAll"
                   /\ req[w].discussion = posts[p].discussion
                   /\ req[w].id =< p]_forumVars

\* When a discussion is removed, the posts that stay behind are replies that
\* arrived after the removal had listed its posts.
RemovalIsComplete ==
    [][\A d \in discussions \ discussions' :
          \E w \in Workers : /\ req[w].pc = "removeAll"
                             /\ req[w].discussion = d
                             /\ \A p \in PostsOf(d) : p >= req[w].listed]_forumVars

=============================================================================
