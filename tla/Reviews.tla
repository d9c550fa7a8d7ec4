------------------------------ MODULE Reviews ------------------------------
(***************************************************************************)
(* Ratings of a shop: SocialController's submitReview, updateReview and    *)
(* deleteReview, and the scheduled command that publishes the medians      *)
(* (SetReviewMedian).                                                      *)
(*                                                                         *)
(* A request is a PHP worker that runs one handler.  The site opens no     *)
(* transaction, so every SQL statement is an action of its own and a       *)
(* worker carries in req[w] what it read until the statement that uses it. *)
(* Handlers that return early, or die on a null row, leave the tables      *)
(* alone: their conditions are the guards below.                           *)
(***************************************************************************)
EXTENDS Integers, FiniteSets, Site

CONSTANTS
    Entities,       \* approved shops
    Keys,           \* getReviewKeys(): the rated aspects
    Ratings,        \* (int) casts of the submitted form values
    Contributed,    \* the marks a shop was contributed with
    Jobs,           \* processes the scheduler may have running at once
    MaxReviews,     \* bound: auto-increment ids ever given to reviews
    Absent,         \* a row that is not in its table
    JobsMayDie      \* whether a run of the command can be cut short

Fields == [Keys -> Ratings]
ReviewIds    == 1..MaxReviews
Row    == [entity : Entities, user : Users, fields : Fields,
           status : {CREATED_STATUS}]

ASSUME RatingsAssumption == Ratings \subseteq Int
ASSUME ContributedAssumption == Contributed \in [Entities -> [Keys -> Int]]
ASSUME WorkersAssumption == IsFiniteSet(Workers)
ASSUME ReviewBoundAssumption   == MaxReviews \in Nat
ASSUME AbsentAssumption  == Absent \notin Row
ASSUME JobSwitchAssumption  == JobsMayDie \in BOOLEAN

VARIABLES
    reviews,    \* table reviews: id -> row or Absent
    nextReview, \* its auto-increment counter
    shown,      \* entities.review_fields: aspect -> twice the median
    job         \* what each run of set:review-median is doing

reviewsVars == <<reviews, nextReview, shown, req, job>>

-----------------------------------------------------------------------------
(* Reading the tables *)

Live == {i \in ReviewIds : reviews[i] # Absent}

ReviewsBy(u, e) ==
    {i \in Live : reviews[i].user = u /\ reviews[i].entity = e}

\* Entity::validReviews: the ratings of a shop that are not hidden.
validReviews(e) ==
    {i \in Live : reviews[i].entity = e /\ reviews[i].status >= 0}

-----------------------------------------------------------------------------
(* The median *)

\* $array[$i] after sort($array): the value with at most i smaller entries
\* and more than i entries that are no larger.
sortedAt(arr, i) ==
    CHOOSE x \in {arr[d] : d \in DOMAIN arr} :
        /\ Cardinality({d \in DOMAIN arr : arr[d] < x}) =< i
        /\ Cardinality({d \in DOMAIN arr : arr[d] =< x}) > i

\* Fault: the even case is forgotten.
FaultyMedian(arr) == 2 * sortedAt(arr, Cardinality(DOMAIN arr) \div 2)

\* helpers.php calculate_median, doubled so that halves stay integers.
calculate_median(arr) ==
    LET iCount == Cardinality(DOMAIN arr)
        middle == iCount \div 2
    IN  IF iCount % 2 = 0
        THEN sortedAt(arr, middle) + sortedAt(arr, middle - 1)
        ELSE 2 * sortedAt(arr, middle)

\* The values of one aspect that forceHandle collects: positive ones only.
Collected(e, k) == {i \in validReviews(e) : reviews[i].fields[k] > 0}

\* SetReviewMedian::forceHandle's $result: aspects nobody rated are left out.
Medians(e) ==
    [k \in {k \in Keys : Collected(e, k) # {}} |->
        calculate_median([i \in Collected(e, k) |-> reviews[i].fields[k]])]

\* CommunityController::saveContribution stores marks with the new shop; they
\* are on display until there are ratings.
FirstMarks(e) == [k \in Keys |-> 2 * Contributed[e][k]]

-----------------------------------------------------------------------------
(* Requests *)

Insert(u, e, f)    == [pc |-> "insert", user |-> u, entity |-> e, fields |-> f]
Update(u, i, was, f) == [pc |-> "update", user |-> u, id |-> i, was |-> was, fields |-> f]
Delete(u, i)       == [pc |-> "delete", user |-> u, id |-> i]

Requests ==
    {Idle}
        \cup [pc : {"insert"}, user : Users, entity : Entities, fields : Fields]
        \cup [pc : {"update"}, user : Users, id : ReviewIds, was : Fields, fields : Fields]
        \cup [pc : {"delete"}, user : Users, id : ReviewIds]

\* SocialController::checkHasError: some aspect casts to 0.
checkHasError(f) == \E k \in Keys : f[k] = 0

\* The rows of where('id', i)->where('user_id', u).
OwnRow(u, i) == i \in Live /\ reviews[i].user = u

\* Fault: an earlier rating is not looked for.
FaultySubmitReview(w, u, e, f) ==
    /\ req[w] = Idle
    /\ ~checkHasError(f)
    /\ Goto(w, Insert(u, e, f))
    /\ UNCHANGED <<reviews, nextReview, shown, job>>

\* submitReview up to its save(): no rating of this shop by this user was
\* found, and no aspect has 0 points.
submitReview(w, u, e, f) ==
    /\ req[w] = Idle
    /\ ReviewsBy(u, e) = {}
    /\ ~checkHasError(f)
    /\ Goto(w, Insert(u, e, f))
    /\ UNCHANGED <<reviews, nextReview, shown, job>>

\* submitReview's save(): the INSERT.
submitReview_save(w) ==
    /\ req[w].pc = "insert"
    /\ nextReview \in ReviewIds
    /\ reviews' = [reviews EXCEPT ![nextReview] =
                      [entity |-> req[w].entity, user |-> req[w].user,
                       fields |-> req[w].fields, status |-> CREATED_STATUS]]
    /\ nextReview' = nextReview + 1
    /\ Goto(w, Idle)
    /\ UNCHANGED <<shown, job>>

\* updateReview up to its save(): the row is the user's own.
updateReview(w, u, i, f) ==
    /\ req[w] = Idle
    /\ OwnRow(u, i)
    /\ ~checkHasError(f)
    /\ Goto(w, Update(u, i, reviews[i].fields, f))
    /\ UNCHANGED <<reviews, nextReview, shown, job>>

\* Fault: a row that is gone is inserted again.
FaultyUpdated(i, f) ==
    IF reviews[i] = Absent
    THEN [reviews EXCEPT ![i] = [entity |-> CHOOSE e \in Entities : TRUE,
                                 user |-> CHOOSE u \in Users : TRUE,
                                 fields |-> f, status |-> CREATED_STATUS]]
    ELSE [reviews EXCEPT ![i].fields = f]

\* What "UPDATE reviews SET review_fields = f WHERE id = i" leaves behind:
\* nothing when the row is gone by now.
Updated(i, f) ==
    IF reviews[i] = Absent THEN reviews
    ELSE [reviews EXCEPT ![i].fields = f]

\* updateReview's save(): Eloquent sends an UPDATE only when the value differs
\* from the one that was loaded.
updateReview_save(w) ==
    /\ req[w].pc = "update"
    /\ reviews' = IF req[w].fields = req[w].was THEN reviews
                  ELSE Updated(req[w].id, req[w].fields)
    /\ Goto(w, Idle)
    /\ UNCHANGED <<nextReview, shown, job>>

deleteReview(w, u, i) ==
    /\ req[w] = Idle
    /\ OwnRow(u, i)
    /\ Goto(w, Delete(u, i))
    /\ UNCHANGED <<reviews, nextReview, shown, job>>

\* deleteReview's delete(): deleting a row that is gone is no error.
deleteReview_delete(w) ==
    /\ req[w].pc = "delete"
    /\ reviews' = [reviews EXCEPT ![req[w].id] = Absent]
    /\ Goto(w, Idle)
    /\ UNCHANGED <<nextReview, shown, job>>

\* A request that dies between its two statements (time limit, lost database
\* connection): what it wrote stays, the rest is not done.
ReviewRequestDies(w) ==
    /\ req[w] # Idle
    /\ Goto(w, Idle)
    /\ UNCHANGED <<reviews, nextReview, shown, job>>

-----------------------------------------------------------------------------
(* The scheduled command set:review-median *)

NoJob == [pc |-> "idle"]

\* todo: shops still to handle; loaded: review_fields of each shop as the
\* command read them when it started.
Handling(loaded, todo)       == [pc |-> "handle", loaded |-> loaded, todo |-> todo]
Saving(loaded, todo, e, res) == [pc |-> "save", loaded |-> loaded, todo |-> todo,
                                 cafe |-> e, result |-> res]

JobGoto(j, r) == job' = [job EXCEPT ![j] = r]

\* After one shop: the next one, or the end of the loop.
Continue(loaded, todo) == IF todo = {} THEN NoJob ELSE Handling(loaded, todo)

\* The scheduler starts the command every five minutes and does not look
\* whether the last run has ended.  The command loads every approved shop at
\* once.  It names \App\Cafe and \App\SetReviewMedian, which the module's Entity
\* and SetReviewMedian have replaced, and is modelled with these.
StartMedianJob(j) ==
    /\ job[j] = NoJob
    /\ JobGoto(j, Continue(shown, Entities))
    /\ UNCHANGED <<reviews, nextReview, shown, req>>

\* SetReviewMedian::handle on one shop: its ratings are read once (the
\* relation is cached on the model), and a shop without any is skipped.
HandleCafe(j, e) ==
    /\ job[j].pc = "handle"
    /\ e \in job[j].todo
    /\ JobGoto(j, IF validReviews(e) # {}
                  THEN Saving(job[j].loaded, job[j].todo \ {e}, e, Medians(e))
                  ELSE Continue(job[j].loaded, job[j].todo \ {e}))
    /\ UNCHANGED <<reviews, nextReview, shown, req>>

\* forceHandle's save(): no UPDATE when the result is what had been loaded.
SaveMedians(j) ==
    /\ job[j].pc = "save"
    /\ LET e == job[j].cafe IN
         shown' = IF job[j].result = job[j].loaded[e] THEN shown
                  ELSE [shown EXCEPT ![e] = job[j].result]
    /\ JobGoto(j, Continue(job[j].loaded, job[j].todo))
    /\ UNCHANGED <<reviews, nextReview, req>>

MedianJobDies(j) ==
    /\ JobsMayDie
    /\ job[j] # NoJob
    /\ JobGoto(j, NoJob)
    /\ UNCHANGED <<reviews, nextReview, shown, req>>

-----------------------------------------------------------------------------

ReviewsInit ==
    /\ reviews = [i \in ReviewIds |-> Absent]
    /\ nextReview = 1
    /\ shown = [e \in Entities |-> FirstMarks(e)]
    /\ req = [w \in Workers |-> Idle]
    /\ job = [j \in Jobs |-> NoJob]

RequestStep(w) ==
    \/ \E u \in Users, e \in Entities, f \in Fields : submitReview(w, u, e, f)
    \/ \E u \in Users, i \in ReviewIds, f \in Fields : updateReview(w, u, i, f)
    \/ \E u \in Users, i \in ReviewIds : deleteReview(w, u, i)
    \/ submitReview_save(w)
    \/ updateReview_save(w)
    \/ deleteReview_delete(w)
    \/ ReviewRequestDies(w)

JobStep(j) ==
    \/ StartMedianJob(j)
    \/ \E e \in Entities : HandleCafe(j, e)
    \/ SaveMedians(j)

ReviewsNext ==
    \/ \E w \in Workers : RequestStep(w)
    \/ \E j \in Jobs : JobStep(j) \/ MedianJobDies(j)

ReviewsSpec == ReviewsInit /\ [][ReviewsNext]_reviewsVars

-----------------------------------------------------------------------------
(* Properties *)

\* Every table cell, request and run of the command holds values of its kind.
TypeOK ==
    /\ reviews \in [ReviewIds -> Row \cup {Absent}]
    /\ nextReview \in 1..(MaxReviews + 1)
    /\ DOMAIN shown = Entities
    /\ \A e \in Entities : DOMAIN shown[e] \subseteq Keys
    /\ req \in [Workers -> Requests]
    /\ DOMAIN job = Jobs
    /\ \A j \in Jobs : job[j] # NoJob =>
          /\ job[j].pc \in {"handle", "save"}
          /\ job[j].todo \subseteq Entities
          /\ DOMAIN job[j].loaded = Entities
          /\ job[j].pc = "save" =>
                /\ job[j].cafe \in Entities \ job[j].todo
                /\ DOMAIN job[j].result \subseteq Keys

\* Submissions of a rating that passed the check and are about to be stored.
PendingInserts(u, e) ==
    {w \in Workers : /\ req[w].pc = "insert"
                     /\ req[w].user = u
                     /\ req[w].entity = e}

\* submitReview looks for an earlier rating and stores the new one in two
\* statements, and the table has no unique key.  However many requests one
\* user fires, the ratings stored and under way for one shop never outnumber
\* the workers that can be between the two statements at the same time.
DuplicatesBounded ==
    \A u \in Users, e \in Entities :
        Cardinality(ReviewsBy(u, e)) + Cardinality(PendingInserts(u, e))
            =< Cardinality(Workers)

\* "You can rate a shop only once" (the notice of submitReview).
OneReviewPerUser ==
    \A u \in Users, e \in Entities : Cardinality(ReviewsBy(u, e)) =< 1

\* The median forceHandle computes from the ratings of a shop is one: the mean
\* of the least rating that half of the collected ones do not exceed and the
\* greatest one that half of them reach.
MediansSplitTheRatings ==
    \A e \in Entities : \A k \in DOMAIN Medians(e) :
        LET C == Collected(e, k)
            v(i) == reviews[i].fields[k]
            HalfBelow == {i \in C : 2 * Cardinality({j \in C : v(j) =< v(i)}) >= Cardinality(C)}
            HalfAbove == {i \in C : 2 * Cardinality({j \in C : v(j) >= v(i)}) >= Cardinality(C)}
        IN  \E lo \in HalfBelow, hi \in HalfAbove :
               /\ \A i \in HalfBelow : v(lo) =< v(i)
               /\ \A i \in HalfAbove : v(hi) >= v(i)
               /\ Medians(e)[k] = v(lo) + v(hi)

\* Whatever review_id a form carries, a stored rating is changed or removed
\* only by the last statement of a request its own author sent for it.
OnlyTheAuthorTouchesAReview ==
    [][\A i \in Live : reviews'[i] # reviews[i] =>
          \E w \in Workers : /\ req[w].pc \in {"update", "delete"}
                             /\ req[w].user = reviews[i].user
                             /\ req[w].id = i
                             /\ req'[w] = Idle]_reviewsVars

\* A rating that was deleted does not come back, not even through an update
\* that had loaded it before.
DeletedStaysDeleted ==
    [][\A i \in 1..(nextReview - 1) : reviews[i] = Absent => reviews'[i] = Absent]_reviewsVars

\* A rating is its author's: nobody else changes or removes it, and what was
\* deleted does not come back, however requests that loaded it race
\* (updateReview, deleteReview).
ReviewsAreTheAuthors == OnlyTheAuthorTouchesAReview /\ DeletedStaysDeleted

=============================================================================
