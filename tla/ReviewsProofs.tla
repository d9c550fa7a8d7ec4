--------------------------- MODULE ReviewsProofs ---------------------------
(***************************************************************************)
(* For any number of users, shops, workers and overlapping runs of the     *)
(* scheduled command, Reviews keeps its types and the bound on duplicate   *)
(* ratings.  The bound is inductive together with TypeOK and the fact that *)
(* the auto-increment counter is ahead of every stored id.  Ratings are    *)
(* touched by their authors only, which rests on what a request knows of   *)
(* the row it loaded; and what calculate_median returns splits the ratings *)
(* of a shop, by counting the values on each side of the chosen ones.      *)
(***************************************************************************)
EXTENDS Reviews, FiniteSetTheorems, WellFoundedInduction, TLAPS

-----------------------------------------------------------------------------
(* What a request holds *)

LEMMA InsertFields ==
    ASSUME NEW r \in Requests, r.pc = "insert"
    PROVE  r.user \in Users /\ r.entity \in Entities /\ r.fields \in Fields
  BY DEF Requests, Idle

LEMMA UpdateFields ==
    ASSUME NEW r \in Requests, r.pc = "update"
    PROVE  r.user \in Users /\ r.id \in ReviewIds /\ r.was \in Fields /\ r.fields \in Fields
  BY DEF Requests, Idle

LEMMA DeleteFields ==
    ASSUME NEW r \in Requests, r.pc = "delete"
    PROVE  r.user \in Users /\ r.id \in ReviewIds
  BY DEF Requests, Idle

-----------------------------------------------------------------------------
(* The type invariant *)

LEMMA IdleRequest == Idle \in Requests
  BY DEF Requests

LEMMA InitTypeOK == ReviewsInit => TypeOK
  <1> SUFFICES ASSUME ReviewsInit PROVE TypeOK
    OBVIOUS
  <1>1. reviews \in [ReviewIds -> Row \cup {Absent}]
    BY DEF ReviewsInit
  <1>2. nextReview \in 1..(MaxReviews + 1)
    BY ReviewBoundAssumption DEF ReviewsInit
  <1>3. DOMAIN shown = Entities /\ \A e \in Entities : DOMAIN shown[e] \subseteq Keys
    BY DEF ReviewsInit, FirstMarks
  <1>4. req \in [Workers -> Requests]
    BY IdleRequest DEF ReviewsInit
  <1> QED
    BY <1>1, <1>2, <1>3, <1>4 DEF ReviewsInit, TypeOK

\* What the worker actions keep of the types: the command is left alone.
LEMMA RequestTypeOK ==
    ASSUME TypeOK, NEW w \in Workers, RequestStep(w)
    PROVE  TypeOK'
  <1> USE DEF TypeOK, Goto
  <1>1. ASSUME NEW u \in Users, NEW e \in Entities, NEW f \in Fields,
               submitReview(w, u, e, f)
        PROVE  TypeOK'
    <2>1. Insert(u, e, f) \in Requests
      BY <1>1 DEF Insert, Requests
    <2> QED
      BY <1>1, <2>1 DEF submitReview
  <1>2. ASSUME NEW u \in Users, NEW i \in ReviewIds, NEW f \in Fields,
               updateReview(w, u, i, f)
        PROVE  TypeOK'
    <2>1. reviews[i] \in Row
      BY <1>2 DEF updateReview, OwnRow, Live
    <2>2. Update(u, i, reviews[i].fields, f) \in Requests
      BY <1>2, <2>1 DEF Update, Requests, Row
    <2> QED
      BY <1>2, <2>2 DEF updateReview
  <1>3. ASSUME NEW u \in Users, NEW i \in ReviewIds, deleteReview(w, u, i)
        PROVE  TypeOK'
    <2>1. Delete(u, i) \in Requests
      BY <1>3 DEF Delete, Requests
    <2> QED
      BY <1>3, <2>1 DEF deleteReview
  <1>4. ASSUME submitReview_save(w)
        PROVE  TypeOK'
    <2>1. req[w] \in Requests /\ req[w].pc = "insert"
      BY <1>4 DEF submitReview_save
    <2>2. [entity |-> req[w].entity, user |-> req[w].user,
           fields |-> req[w].fields, status |-> CREATED_STATUS] \in Row
      BY <2>1, InsertFields DEF Row
    <2>3. reviews' \in [ReviewIds -> Row \cup {Absent}]
      BY <1>4, <2>2 DEF submitReview_save
    <2>4. nextReview' \in 1..(MaxReviews + 1)
      BY <1>4, ReviewBoundAssumption DEF submitReview_save, ReviewIds
    <2>5. req' \in [Workers -> Requests]
      BY <1>4, IdleRequest DEF submitReview_save
    <2> QED
      BY <1>4, <2>3, <2>4, <2>5 DEF submitReview_save
  <1>5. ASSUME updateReview_save(w)
        PROVE  TypeOK'
    <2>1. req[w] \in Requests /\ req[w].pc = "update"
      BY <1>5 DEF updateReview_save
    <2>2. req[w].id \in ReviewIds /\ req[w].fields \in Fields
      BY <2>1, UpdateFields
    <2>3. Updated(req[w].id, req[w].fields) \in [ReviewIds -> Row \cup {Absent}]
      <3>1. CASE reviews[req[w].id] = Absent
        BY <3>1 DEF Updated
      <3>2. CASE reviews[req[w].id] # Absent
        <4>1. reviews[req[w].id] \in Row
          BY <2>2, <3>2
        <4>2. [reviews[req[w].id] EXCEPT !.fields = req[w].fields] \in Row
          BY <4>1, <2>2 DEF Row
        <4> QED
          BY <3>2, <2>2, <4>2 DEF Updated
      <3> QED
        BY <3>1, <3>2
    <2>4. reviews' \in [ReviewIds -> Row \cup {Absent}]
      BY <1>5, <2>3 DEF updateReview_save
    <2>5. req' \in [Workers -> Requests]
      BY <1>5, IdleRequest DEF updateReview_save
    <2> QED
      BY <1>5, <2>4, <2>5 DEF updateReview_save
  <1>6. ASSUME deleteReview_delete(w)
        PROVE  TypeOK'
    BY <1>6, IdleRequest DEF deleteReview_delete
  <1>7. ASSUME ReviewRequestDies(w)
        PROVE  TypeOK'
    BY <1>7, IdleRequest DEF ReviewRequestDies
  <1> QED
    BY <1>1, <1>2, <1>3, <1>4, <1>5, <1>6, <1>7 DEF RequestStep

\* What a run of the command may hold; TypeOK says this of every run.
JobOK(r) ==
    r # NoJob =>
        /\ r.pc \in {"handle", "save"}
        /\ r.todo \subseteq Entities
        /\ DOMAIN r.loaded = Entities
        /\ r.pc = "save" => /\ r.cafe \in Entities \ r.todo
                            /\ DOMAIN r.result \subseteq Keys

LEMMA ContinueOK ==
    ASSUME NEW loaded, DOMAIN loaded = Entities, NEW todo \in SUBSET Entities
    PROVE  JobOK(Continue(loaded, todo))
  BY DEF JobOK, Continue, Handling, NoJob

LEMMA JobTypeOK ==
    ASSUME TypeOK, NEW j \in Jobs, JobStep(j) \/ MedianJobDies(j)
    PROVE  TypeOK'
  <1>1. JobOK(job[j])
    BY DEF TypeOK, JobOK
  <1>2. ASSUME NEW r, JobOK(r), JobGoto(j, r)
        PROVE  DOMAIN job' = Jobs /\ \A i \in Jobs : JobOK(job'[i])
    BY <1>2 DEF TypeOK, JobOK, JobGoto
  <1>3. ASSUME DOMAIN job' = Jobs /\ \A i \in Jobs : JobOK(job'[i]),
               UNCHANGED <<reviews, nextReview, req>>,
               DOMAIN shown' = Entities /\ \A e \in Entities : DOMAIN shown'[e] \subseteq Keys
        PROVE  TypeOK'
    BY <1>3 DEF TypeOK, JobOK
  <1>4. CASE StartMedianJob(j)
    <2>1. JobOK(Continue(shown, Entities))
      BY ContinueOK DEF TypeOK
    <2> QED
      BY <1>2, <1>3, <1>4, <2>1 DEF StartMedianJob, TypeOK
  <1>5. ASSUME NEW e \in Entities, HandleCafe(j, e)
        PROVE  TypeOK'
    <2>1. job[j].todo \subseteq Entities /\ DOMAIN job[j].loaded = Entities
      BY <1>1, <1>5 DEF HandleCafe, JobOK, NoJob
    <2>2. JobOK(Saving(job[j].loaded, job[j].todo \ {e}, e, Medians(e)))
      BY <2>1 DEF JobOK, Saving, NoJob, Medians
    <2>3. JobOK(Continue(job[j].loaded, job[j].todo \ {e}))
      BY <2>1, ContinueOK
    <2> QED
      BY <1>2, <1>3, <1>5, <2>2, <2>3 DEF HandleCafe, TypeOK
  <1>6. CASE SaveMedians(j)
    <2>1. /\ job[j].todo \subseteq Entities /\ DOMAIN job[j].loaded = Entities
          /\ job[j].cafe \in Entities /\ DOMAIN job[j].result \subseteq Keys
      BY <1>1, <1>6 DEF SaveMedians, JobOK, NoJob
    <2>2. JobOK(Continue(job[j].loaded, job[j].todo))
      BY <2>1, ContinueOK
    <2>3. DOMAIN shown' = Entities /\ \A e \in Entities : DOMAIN shown'[e] \subseteq Keys
      BY <2>1, <1>6 DEF SaveMedians, TypeOK
    <2> QED
      BY <1>2, <1>3, <1>6, <2>2, <2>3 DEF SaveMedians
  <1>7. CASE MedianJobDies(j)
    BY <1>2, <1>3, <1>7 DEF MedianJobDies, JobOK, TypeOK
  <1> QED
    BY <1>4, <1>5, <1>6, <1>7 DEF JobStep

LEMMA NextTypeOK == TypeOK /\ [ReviewsNext]_reviewsVars => TypeOK'
  <1> SUFFICES ASSUME TypeOK, [ReviewsNext]_reviewsVars PROVE TypeOK'
    OBVIOUS
  <1>1. ASSUME NEW w \in Workers, RequestStep(w) PROVE TypeOK'
    BY <1>1, RequestTypeOK
  <1>2. ASSUME NEW j \in Jobs, JobStep(j) \/ MedianJobDies(j) PROVE TypeOK'
    BY <1>2, JobTypeOK
  <1>3. CASE UNCHANGED reviewsVars
    BY <1>3 DEF reviewsVars, TypeOK
  <1> QED
    BY <1>1, <1>2, <1>3 DEF ReviewsNext

\* Every table cell, request and run of the command keeps its type.
THEOREM TypeCorrect == ReviewsSpec => []TypeOK
  BY InitTypeOK, NextTypeOK, PTL DEF ReviewsSpec

-----------------------------------------------------------------------------
(* The bound on duplicates *)

\* The counter is ahead of the ids that are in use.
FreshIds == \A i \in ReviewIds : i >= nextReview => reviews[i] = Absent

IInv == TypeOK /\ FreshIds /\ DuplicatesBounded

LEMMA RowsFinite == \A u \in Users, e \in Entities :
    IsFiniteSet(ReviewsBy(u, e)) /\ Cardinality(ReviewsBy(u, e)) \in Nat
  <1>1. IsFiniteSet(ReviewIds)
    BY FS_Interval, ReviewBoundAssumption DEF ReviewIds
  <1>2. \A u \in Users, e \in Entities : ReviewsBy(u, e) \subseteq ReviewIds
    BY DEF ReviewsBy, Live
  <1> QED
    BY <1>1, <1>2, FS_Subset, FS_CardinalityType

LEMMA PendingFinite == \A u \in Users, e \in Entities :
    IsFiniteSet(PendingInserts(u, e)) /\ Cardinality(PendingInserts(u, e)) \in Nat
  <1>1. \A u \in Users, e \in Entities : PendingInserts(u, e) \subseteq Workers
    BY DEF PendingInserts
  <1> QED
    BY <1>1, WorkersAssumption, FS_Subset, FS_CardinalityType

\* A step that makes neither set larger keeps the bound for these two.
LEMMA Shrinking ==
    ASSUME DuplicatesBounded, NEW u \in Users, NEW e \in Entities,
           ReviewsBy(u, e)' \subseteq ReviewsBy(u, e),
           PendingInserts(u, e)' \subseteq PendingInserts(u, e)
    PROVE  Cardinality(ReviewsBy(u, e)') + Cardinality(PendingInserts(u, e)')
              =< Cardinality(Workers)
  <1> DEFINE R == ReviewsBy(u, e)  P == PendingInserts(u, e)
             R1 == ReviewsBy(u, e)'  P1 == PendingInserts(u, e)'
  <1>1. IsFiniteSet(R) /\ Cardinality(R) \in Nat /\ IsFiniteSet(P) /\ Cardinality(P) \in Nat
    BY RowsFinite, PendingFinite
  <1>2. IsFiniteSet(R1) /\ Cardinality(R1) \in Nat /\ Cardinality(R1) =< Cardinality(R)
    BY <1>1, FS_Subset, FS_CardinalityType
  <1>3. IsFiniteSet(P1) /\ Cardinality(P1) \in Nat /\ Cardinality(P1) =< Cardinality(P)
    BY <1>1, FS_Subset, FS_CardinalityType
  <1>4. Cardinality(Workers) \in Nat
    BY WorkersAssumption, FS_CardinalityType
  <1>5. Cardinality(R) + Cardinality(P) =< Cardinality(Workers)
    BY DEF DuplicatesBounded
  <1> HIDE DEF R, P, R1, P1
  <1>6. Cardinality(R1) + Cardinality(P1) =< Cardinality(Workers)
    BY <1>1, <1>2, <1>3, <1>4, <1>5
  <1> QED
    BY <1>6 DEF R1, P1

LEMMA InitBound == ReviewsInit => FreshIds /\ DuplicatesBounded
  <1> SUFFICES ASSUME ReviewsInit PROVE FreshIds /\ DuplicatesBounded
    OBVIOUS
  <1>1. FreshIds
    BY DEF ReviewsInit, FreshIds
  <1>2. \A u \in Users, e \in Entities : ReviewsBy(u, e) = {} /\ PendingInserts(u, e) = {}
    BY DEF ReviewsInit, ReviewsBy, Live, PendingInserts, Idle
  <1>3. Cardinality({}) = 0 /\ Cardinality(Workers) \in Nat
    BY FS_EmptySet, WorkersAssumption, FS_CardinalityType
  <1> QED
    BY <1>1, <1>2, <1>3 DEF DuplicatesBounded

\* submitReview starts only where the user has no rating: the pending
\* submissions alone are counted then, and each has a worker of its own.
LEMMA SubmitKeepsBound ==
    ASSUME IInv, NEW w \in Workers, NEW u \in Users, NEW e \in Entities,
           NEW f \in Fields, submitReview(w, u, e, f)
    PROVE  DuplicatesBounded'
  <1> SUFFICES ASSUME NEW v \in Users, NEW d \in Entities
               PROVE  Cardinality(ReviewsBy(v, d)') + Cardinality(PendingInserts(v, d)')
                         =< Cardinality(Workers)
    BY DEF DuplicatesBounded
  <1>1. ReviewsBy(v, d)' = ReviewsBy(v, d)
    BY DEF submitReview, ReviewsBy, Live
  <1>2. CASE v = u /\ d = e
    <2>1. ReviewsBy(v, d)' = {}
      BY <1>1, <1>2 DEF submitReview
    <2>2. PendingInserts(v, d)' \subseteq Workers
      BY DEF PendingInserts
    <2>3. Cardinality(PendingInserts(v, d)') =< Cardinality(Workers)
      BY <2>2, WorkersAssumption, FS_Subset
    <2>4. Cardinality(PendingInserts(v, d)') \in Nat /\ Cardinality(Workers) \in Nat
      BY <2>2, WorkersAssumption, FS_Subset, FS_CardinalityType
    <2> QED
      BY <2>1, <2>3, <2>4, FS_EmptySet
  <1>3. CASE ~(v = u /\ d = e)
    <2>1. PendingInserts(v, d)' \subseteq PendingInserts(v, d)
      BY <1>3 DEF submitReview, Goto, Insert, PendingInserts, IInv, TypeOK
    <2> QED
      BY <1>1, <2>1, Shrinking DEF IInv
  <1> QED
    BY <1>2, <1>3

\* The INSERT turns one pending submission into one stored rating.
LEMMA SaveKeepsBound ==
    ASSUME IInv, NEW w \in Workers, submitReview_save(w)
    PROVE  DuplicatesBounded'
  <1> SUFFICES ASSUME NEW v \in Users, NEW d \in Entities
               PROVE  Cardinality(ReviewsBy(v, d)') + Cardinality(PendingInserts(v, d)')
                         =< Cardinality(Workers)
    BY DEF DuplicatesBounded
  <1> DEFINE u == req[w].user  e == req[w].entity
             R == ReviewsBy(v, d)  P == PendingInserts(v, d)
  <1>1. nextReview \in ReviewIds /\ nextReview \notin R
    BY DEF submitReview_save, IInv, FreshIds, TypeOK, ReviewIds, ReviewsBy, Live
  <1>2. CASE v = u /\ d = e
    <2>1. w \in P
      BY <1>2 DEF submitReview_save, PendingInserts
    <2>2. ReviewsBy(v, d)' \subseteq R \cup {nextReview}
      BY DEF submitReview_save, ReviewsBy, Live, IInv, TypeOK
    <2>3. PendingInserts(v, d)' \subseteq P \ {w}
      BY DEF submitReview_save, Goto, PendingInserts, Idle, IInv, TypeOK
    <2>4. /\ IsFiniteSet(R) /\ Cardinality(R) \in Nat
          /\ IsFiniteSet(P) /\ Cardinality(P) \in Nat /\ Cardinality(Workers) \in Nat
      BY RowsFinite, PendingFinite, WorkersAssumption, FS_CardinalityType
    <2>5. IsFiniteSet(R \cup {nextReview}) /\ Cardinality(R \cup {nextReview}) = Cardinality(R) + 1
      BY <1>1, <2>4, FS_AddElement
    <2>6. IsFiniteSet(P \ {w}) /\ Cardinality(P \ {w}) = Cardinality(P) - 1
      BY <2>1, <2>4, FS_RemoveElement
    <2>7. /\ Cardinality(ReviewsBy(v, d)') =< Cardinality(R) + 1
          /\ Cardinality(ReviewsBy(v, d)') \in Nat
      BY <2>2, <2>5, FS_Subset, FS_CardinalityType
    <2>8. /\ Cardinality(PendingInserts(v, d)') =< Cardinality(P) - 1
          /\ Cardinality(PendingInserts(v, d)') \in Nat
      BY <2>3, <2>6, FS_Subset, FS_CardinalityType
    <2>9. Cardinality(R) + Cardinality(P) =< Cardinality(Workers)
      BY DEF IInv, DuplicatesBounded
    <2> HIDE DEF R, P
    <2> QED
      BY <2>4, <2>7, <2>8, <2>9
  <1>3. CASE ~(v = u /\ d = e)
    <2>1. ReviewsBy(v, d)' \subseteq R
      BY <1>3 DEF submitReview_save, ReviewsBy, Live, IInv, TypeOK
    <2>2. PendingInserts(v, d)' \subseteq P
      BY DEF submitReview_save, Goto, PendingInserts, Idle, IInv, TypeOK
    <2> QED
      BY <2>1, <2>2, Shrinking DEF IInv
  <1> QED
    BY <1>2, <1>3

\* No other statement adds a rating or a pending submission: an UPDATE leaves
\* user and shop of a row alone, a DELETE removes rows, a request that dies
\* submits nothing, and the command does not write ratings.
LEMMA OthersKeepBound ==
    ASSUME IInv,
           \A i \in ReviewIds : reviews'[i] # Absent =>
               /\ reviews[i] # Absent
               /\ reviews'[i].user = reviews[i].user
               /\ reviews'[i].entity = reviews[i].entity,
           \A v \in Workers : req'[v].pc = "insert" => req'[v] = req[v],
           nextReview' = nextReview
    PROVE  FreshIds' /\ DuplicatesBounded'
  <1>1. FreshIds'
    BY DEF IInv, FreshIds
  <1>2. ASSUME NEW u \in Users, NEW e \in Entities
        PROVE  Cardinality(ReviewsBy(u, e)') + Cardinality(PendingInserts(u, e)')
                  =< Cardinality(Workers)
    <2>1. ReviewsBy(u, e)' \subseteq ReviewsBy(u, e)
      BY DEF ReviewsBy, Live
    <2>2. PendingInserts(u, e)' \subseteq PendingInserts(u, e)
      BY DEF PendingInserts
    <2> QED
      BY <2>1, <2>2, Shrinking DEF IInv
  <1> QED
    BY <1>1, <1>2 DEF DuplicatesBounded

LEMMA NextBound == IInv /\ [ReviewsNext]_reviewsVars => FreshIds' /\ DuplicatesBounded'
  <1> SUFFICES ASSUME IInv, [ReviewsNext]_reviewsVars PROVE FreshIds' /\ DuplicatesBounded'
    OBVIOUS
  <1> USE DEF IInv, TypeOK, Goto
  <1>1. ASSUME NEW w \in Workers, NEW u \in Users, NEW e \in Entities, NEW f \in Fields,
               submitReview(w, u, e, f)
        PROVE  FreshIds' /\ DuplicatesBounded'
    <2>1. FreshIds'
      BY <1>1 DEF submitReview, FreshIds
    <2> QED
      BY <1>1, <2>1, SubmitKeepsBound
  <1>2. ASSUME NEW w \in Workers, submitReview_save(w)
        PROVE  FreshIds' /\ DuplicatesBounded'
    <2>1. FreshIds'
      BY <1>2 DEF submitReview_save, FreshIds, ReviewIds
    <2> QED
      BY <1>2, <2>1, SaveKeepsBound
  <1>3. ASSUME NEW w \in Workers, NEW u \in Users, NEW i \in ReviewIds, NEW f \in Fields,
               updateReview(w, u, i, f)
        PROVE  FreshIds' /\ DuplicatesBounded'
    BY <1>3, OthersKeepBound DEF updateReview, Update
  <1>4. ASSUME NEW w \in Workers, NEW u \in Users, NEW i \in ReviewIds, deleteReview(w, u, i)
        PROVE  FreshIds' /\ DuplicatesBounded'
    BY <1>4, OthersKeepBound DEF deleteReview, Delete
  <1>5. ASSUME NEW w \in Workers, updateReview_save(w)
        PROVE  FreshIds' /\ DuplicatesBounded'
    <2>1. req[w].id \in ReviewIds
      BY <1>5, UpdateFields DEF updateReview_save
    <2>2. \A i \in ReviewIds : reviews'[i] # Absent =>
               /\ reviews[i] # Absent
               /\ reviews'[i].user = reviews[i].user
               /\ reviews'[i].entity = reviews[i].entity
      BY <1>5, <2>1 DEF updateReview_save, Updated, Row
    <2> QED
      BY <1>5, <2>2, OthersKeepBound DEF updateReview_save, Idle
  <1>6. ASSUME NEW w \in Workers, deleteReview_delete(w)
        PROVE  FreshIds' /\ DuplicatesBounded'
    <2>1. req[w].id \in ReviewIds
      BY <1>6, DeleteFields DEF deleteReview_delete
    <2> QED
      BY <1>6, <2>1, OthersKeepBound DEF deleteReview_delete, Idle
  <1>7. ASSUME NEW w \in Workers, ReviewRequestDies(w)
        PROVE  FreshIds' /\ DuplicatesBounded'
    BY <1>7, OthersKeepBound DEF ReviewRequestDies, Idle
  <1>8. ASSUME NEW j \in Jobs, JobStep(j) \/ MedianJobDies(j)
        PROVE  FreshIds' /\ DuplicatesBounded'
    <2>1. UNCHANGED <<reviews, nextReview, req>>
      BY <1>8 DEF JobStep, MedianJobDies, StartMedianJob, HandleCafe, SaveMedians
    <2> QED
      BY <2>1, OthersKeepBound
  <1>9. CASE UNCHANGED reviewsVars
    BY <1>9, OthersKeepBound DEF reviewsVars
  <1> QED
    BY <1>1, <1>2, <1>3, <1>4, <1>5, <1>6, <1>7, <1>8, <1>9 DEF ReviewsNext, RequestStep

\* For every number of workers, the ratings one user has stored and under way
\* for one shop never outnumber the workers.
THEOREM DuplicatesStayBounded == ReviewsSpec => []DuplicatesBounded
  <1>1. ReviewsInit => IInv
    BY InitTypeOK, InitBound DEF IInv
  <1>2. IInv /\ [ReviewsNext]_reviewsVars => IInv'
    BY NextTypeOK, NextBound DEF IInv
  <1>3. IInv => DuplicatesBounded
    BY DEF IInv
  <1> QED
    BY <1>1, <1>2, <1>3, PTL DEF ReviewsSpec

\* "You can rate a shop only once" is true of a site that runs one request at
\* a time: the check before the INSERT fails only under concurrency.
THEOREM OneWorkerOneReview ==
    ASSUME Cardinality(Workers) = 1
    PROVE  ReviewsSpec => []OneReviewPerUser
  <1>1. DuplicatesBounded => OneReviewPerUser
    <2> SUFFICES ASSUME DuplicatesBounded, NEW u \in Users, NEW e \in Entities
                 PROVE  Cardinality(ReviewsBy(u, e)) =< 1
      BY DEF OneReviewPerUser
    <2>1. Cardinality(ReviewsBy(u, e)) + Cardinality(PendingInserts(u, e)) =< 1
      BY DEF DuplicatesBounded
    <2> QED
      BY <2>1, RowsFinite, PendingFinite
  <1> QED
    BY <1>1, DuplicatesStayBounded, PTL

-----------------------------------------------------------------------------
(* Whose ratings change *)

\* A request that is about to write a rating was sent by its author, as long as
\* the rating exists, and the rating's id is one that was given out.
TargetsAreOwn ==
    \A w \in Workers : req[w].pc \in {"update", "delete"} =>
        /\ req[w].id < nextReview
        /\ reviews[req[w].id] = Absent \/ reviews[req[w].id].user = req[w].user

\* Rows keep their author, ids are never given out twice.
RowsKeepAuthors ==
    /\ nextReview =< nextReview'
    /\ \A i \in ReviewIds : i < nextReview /\ reviews'[i] # Absent =>
          reviews[i] # Absent /\ reviews'[i].user = reviews[i].user

\* A worker that goes on without touching a rating in sight keeps TargetsAreOwn,
\* if what it carries is its user's.
LEMMA OthersKeepTargets ==
    ASSUME TypeOK, TargetsAreOwn, RowsKeepAuthors, nextReview' \in Int,
           NEW w \in Workers, NEW r, Goto(w, r),
           r.pc \in {"update", "delete"} =>
               /\ r.id \in ReviewIds /\ r.id < nextReview
               /\ reviews[r.id] = Absent \/ reviews[r.id].user = r.user
    PROVE  TargetsAreOwn'
  <1> SUFFICES ASSUME NEW v \in Workers, req'[v].pc \in {"update", "delete"}
               PROVE  /\ req'[v].id < nextReview'
                      /\ reviews'[req'[v].id] = Absent
                         \/ reviews'[req'[v].id].user = req'[v].user
    BY DEF TargetsAreOwn
  <1>1. req'[v] = IF v = w THEN r ELSE req[v]
    BY DEF Goto, TypeOK
  <1>2. req'[v].id \in ReviewIds
    BY <1>1, UpdateFields, DeleteFields DEF TypeOK
  <1>3. req'[v].id < nextReview
    BY <1>1 DEF TargetsAreOwn
  <1>4. reviews[req'[v].id] = Absent \/ reviews[req'[v].id].user = req'[v].user
    BY <1>1 DEF TargetsAreOwn
  <1> QED
    BY <1>2, <1>3, <1>4 DEF RowsKeepAuthors, TypeOK, ReviewIds

\* What one step may do to the ratings, and that it keeps the invariant.
AuthorsStep ==
    /\ TargetsAreOwn'
    /\ \A i \in Live : reviews'[i] # reviews[i] =>
          \E w \in Workers : /\ req[w].pc \in {"update", "delete"}
                             /\ req[w].user = reviews[i].user
                             /\ req[w].id = i
                             /\ req'[w] = Idle
    /\ \A i \in 1..(nextReview - 1) : reviews[i] = Absent => reviews'[i] = Absent

LEMMA RequestKeepsAuthors ==
    ASSUME TypeOK, FreshIds, TargetsAreOwn, NEW w \in Workers, RequestStep(w)
    PROVE  AuthorsStep
  <1>0. nextReview \in Int /\ \A i \in 1..(nextReview - 1) : i \in ReviewIds
    BY ReviewBoundAssumption DEF TypeOK, ReviewIds
  <1>1. ASSUME reviews' = reviews, nextReview' = nextReview, NEW r, Goto(w, r),
               r.pc \in {"update", "delete"} =>
                  /\ r.id \in ReviewIds /\ r.id < nextReview
                  /\ reviews[r.id] = Absent \/ reviews[r.id].user = r.user
        PROVE  AuthorsStep
    <2>1. RowsKeepAuthors
      BY <1>0, <1>1 DEF RowsKeepAuthors
    <2>2. TargetsAreOwn'
      BY <1>0, <1>1, <2>1, OthersKeepTargets
    <2> QED
      BY <1>1, <2>2 DEF AuthorsStep
  <1>2. ASSUME NEW u \in Users, NEW e \in Entities, NEW f \in Fields,
               submitReview(w, u, e, f)
        PROVE  AuthorsStep
    BY <1>1, <1>2 DEF submitReview, Insert
  <1>3. ASSUME NEW u \in Users, NEW i \in ReviewIds, NEW f \in Fields,
               updateReview(w, u, i, f)
        PROVE  AuthorsStep
    <2>1. i < nextReview /\ reviews[i].user = u
      BY <1>0, <1>3 DEF updateReview, OwnRow, Live, FreshIds, ReviewIds
    <2> QED
      BY <1>1, <1>3, <2>1 DEF updateReview, Update
  <1>4. ASSUME NEW u \in Users, NEW i \in ReviewIds, deleteReview(w, u, i)
        PROVE  AuthorsStep
    <2>1. i < nextReview /\ reviews[i].user = u
      BY <1>0, <1>4 DEF deleteReview, OwnRow, Live, FreshIds, ReviewIds
    <2> QED
      BY <1>1, <1>4, <2>1 DEF deleteReview, Delete
  <1>5. CASE ReviewRequestDies(w)
    BY <1>1, <1>5 DEF ReviewRequestDies, Idle
  <1>6. CASE submitReview_save(w)
    <2>1. nextReview \in ReviewIds /\ reviews[nextReview] = Absent
      BY <1>0, <1>6 DEF submitReview_save, FreshIds
    <2>2. \A i \in ReviewIds : i # nextReview => reviews'[i] = reviews[i]
      BY <1>6 DEF submitReview_save, TypeOK
    <2>3. RowsKeepAuthors /\ nextReview' \in Int
      BY <1>0, <1>6, <2>2 DEF submitReview_save, RowsKeepAuthors
    <2>4. TargetsAreOwn'
      BY <1>6, <2>3, OthersKeepTargets DEF submitReview_save, Idle
    <2> QED
      BY <1>0, <2>1, <2>2, <2>4 DEF AuthorsStep, Live
  <1>7. CASE updateReview_save(w)
    <2>1. req[w].id \in ReviewIds
      BY <1>7, UpdateFields DEF updateReview_save, TypeOK
    <2>2. /\ \A i \in ReviewIds : i # req[w].id => reviews'[i] = reviews[i]
          /\ reviews[req[w].id] = Absent => reviews' = reviews
          /\ reviews'[req[w].id].user = reviews[req[w].id].user
      BY <1>7, <2>1 DEF updateReview_save, Updated, TypeOK, Row
    <2>3. RowsKeepAuthors /\ nextReview' \in Int
      BY <1>0, <1>7, <2>2 DEF updateReview_save, RowsKeepAuthors
    <2>4. TargetsAreOwn'
      BY <1>7, <2>3, OthersKeepTargets DEF updateReview_save, Idle
    <2>5. reviews[req[w].id] # Absent => reviews[req[w].id].user = req[w].user
      BY <1>7 DEF updateReview_save, TargetsAreOwn
    <2>6. req'[w] = Idle /\ req[w].pc = "update"
      BY <1>7 DEF updateReview_save, Goto, TypeOK
    <2> QED
      BY <1>0, <2>1, <2>2, <2>4, <2>5, <2>6 DEF AuthorsStep, Live
  <1>8. CASE deleteReview_delete(w)
    <2>1. req[w].id \in ReviewIds
      BY <1>8, DeleteFields DEF deleteReview_delete, TypeOK
    <2>2. /\ \A i \in ReviewIds : i # req[w].id => reviews'[i] = reviews[i]
          /\ reviews'[req[w].id] = Absent
      BY <1>8, <2>1 DEF deleteReview_delete, TypeOK
    <2>3. RowsKeepAuthors /\ nextReview' \in Int
      BY <1>0, <1>8, <2>2 DEF deleteReview_delete, RowsKeepAuthors
    <2>4. TargetsAreOwn'
      BY <1>8, <2>3, OthersKeepTargets DEF deleteReview_delete, Idle
    <2>5. reviews[req[w].id] # Absent => reviews[req[w].id].user = req[w].user
      BY <1>8 DEF deleteReview_delete, TargetsAreOwn
    <2>6. req'[w] = Idle /\ req[w].pc = "delete"
      BY <1>8 DEF deleteReview_delete, Goto, TypeOK
    <2> QED
      BY <1>0, <2>1, <2>2, <2>4, <2>5, <2>6 DEF AuthorsStep, Live
  <1> QED
    BY <1>2, <1>3, <1>4, <1>5, <1>6, <1>7, <1>8 DEF RequestStep

LEMMA NextKeepsAuthors == TypeOK /\ FreshIds /\ TargetsAreOwn /\ [ReviewsNext]_reviewsVars => AuthorsStep
  <1> SUFFICES ASSUME TypeOK, FreshIds, TargetsAreOwn, [ReviewsNext]_reviewsVars PROVE AuthorsStep
    OBVIOUS
  <1>1. ASSUME NEW w \in Workers, RequestStep(w) PROVE AuthorsStep
    BY <1>1, RequestKeepsAuthors
  <1>2. ASSUME UNCHANGED <<reviews, nextReview, req>> PROVE AuthorsStep
    BY <1>2 DEF AuthorsStep, TargetsAreOwn
  <1>3. ASSUME NEW j \in Jobs, JobStep(j) \/ MedianJobDies(j) PROVE AuthorsStep
    BY <1>2, <1>3 DEF JobStep, MedianJobDies, StartMedianJob, HandleCafe, SaveMedians
  <1> QED
    BY <1>1, <1>2, <1>3 DEF ReviewsNext, reviewsVars

\* However requests race for a rating, it is changed or removed only by its
\* author, and once deleted it does not come back.
THEOREM RatingsStayTheAuthors == ReviewsSpec => ReviewsAreTheAuthors
  <1> DEFINE Inv == IInv /\ TargetsAreOwn
  <1>1. ReviewsInit => Inv
    <2>1. ReviewsInit => TargetsAreOwn
      BY DEF ReviewsInit, TargetsAreOwn, Idle
    <2> QED
      BY <2>1, InitTypeOK, InitBound DEF IInv
  <1>2. Inv /\ [ReviewsNext]_reviewsVars => Inv'
    BY NextTypeOK, NextBound, NextKeepsAuthors DEF IInv, AuthorsStep
  <1>3. Inv /\ [ReviewsNext]_reviewsVars =>
          [\A i \in Live : reviews'[i] # reviews[i] =>
              \E w \in Workers : /\ req[w].pc \in {"update", "delete"}
                                 /\ req[w].user = reviews[i].user
                                 /\ req[w].id = i
                                 /\ req'[w] = Idle]_reviewsVars
    BY NextKeepsAuthors DEF IInv, AuthorsStep
  <1>4. Inv /\ [ReviewsNext]_reviewsVars =>
          [\A i \in 1..(nextReview - 1) : reviews[i] = Absent => reviews'[i] = Absent]_reviewsVars
    BY NextKeepsAuthors DEF IInv, AuthorsStep
  <1> QED
    BY <1>1, <1>2, <1>3, <1>4, PTL
       DEF ReviewsSpec, ReviewsAreTheAuthors, OnlyTheAuthorTouchesAReview, DeletedStaysDeleted

-----------------------------------------------------------------------------
(* The median is one: sortedAt finds the value of a rank, and the values in  *)
(* the middle split the ratings in halves.                                   *)

LEMMA LeastNumber ==
    ASSUME NEW S \in SUBSET Nat, S # {} PROVE \E n \in S : \A m \in S : n =< m
  <1> DEFINE R == {ss \in Nat \X Nat : ss[1] < ss[2]}
  <1>1. IsWellFoundedOn(R, Nat)
    BY NatLessThanWellFounded DEF OpToRel
  <1>2. PICK n \in S : \A m \in S : ~(<<m, n>> \in R)
    BY <1>1, WFMin
  <1>3. \A m \in S : ~(m < n)
    BY <1>2
  <1> QED
    BY <1>3

\* Of finitely many values one is the greatest: the one that the fewest exceed.
LEMMA GreatestValue ==
    ASSUME NEW D, IsFiniteSet(D), NEW v \in [D -> Int], NEW S \in SUBSET D, S # {}
    PROVE  \E d \in S : \A e \in S : v[e] =< v[d]
  <1> DEFINE Over(d) == {e \in S : v[e] > v[d]}
             N == {Cardinality(Over(d)) : d \in S}
  <1>1. \A d \in S : IsFiniteSet(Over(d)) /\ Cardinality(Over(d)) \in Nat
    BY FS_Subset, FS_CardinalityType
  <1>2. N \in SUBSET Nat /\ N # {}
    BY <1>1
  <1>3. PICK n \in N : \A m \in N : n =< m
    BY <1>2, LeastNumber
  <1>4. PICK d \in S : n = Cardinality(Over(d))
    OBVIOUS
  <1>5. ASSUME NEW e \in S, v[e] > v[d] PROVE FALSE
    <2>1. e \in Over(d) /\ Over(e) \subseteq Over(d) \ {e}
      BY <1>5
    <2>2. /\ IsFiniteSet(Over(d) \ {e})
          /\ Cardinality(Over(d) \ {e}) = Cardinality(Over(d)) - 1
      BY <1>1, <2>1, FS_RemoveElement
    <2>3. Cardinality(Over(e)) =< Cardinality(Over(d) \ {e})
      BY <2>1, <2>2, FS_Subset
    <2>4. n =< Cardinality(Over(e))
      BY <1>3
    <2> HIDE DEF Over
    <2> QED
      BY <1>1, <1>4, <2>2, <2>3, <2>4
  <1> QED
    BY <1>5

LEMMA LeastValue ==
    ASSUME NEW D, IsFiniteSet(D), NEW v \in [D -> Int], NEW S \in SUBSET D, S # {}
    PROVE  \E d \in S : \A e \in S : v[d] =< v[e]
  <1> DEFINE u == [d \in D |-> 0 - v[d]]
  <1>1. u \in [D -> Int]
    OBVIOUS
  <1>2. PICK d \in S : \A e \in S : u[e] =< u[d]
    BY <1>1, GreatestValue
  <1>3. \A e \in S : u[e] = 0 - v[e] /\ v[e] \in Int
    OBVIOUS
  <1>4. \A e \in S : v[d] =< v[e]
    <2> HIDE DEF u
    <2> QED
      BY <1>2, <1>3
  <1> QED
    BY <1>4

\* The entries of an array below a value, and those that do not exceed it.
Less(arr, x) == {d \in DOMAIN arr : arr[d] < x}
UpTo(arr, x) == {d \in DOMAIN arr : arr[d] =< x}

\* Every rank is some value's.
LEMMA RankExists ==
    ASSUME NEW D, IsFiniteSet(D), NEW v \in [D -> Int], NEW i \in Nat, i < Cardinality(D)
    PROVE  \E x \in D : Cardinality(Less(v, v[x])) =< i /\ Cardinality(UpTo(v, v[x])) > i
  <1> DEFINE S == {x \in D : Cardinality(UpTo(v, v[x])) > i}
  <1>1. \A x \in D : /\ Less(v, v[x]) \in SUBSET D /\ UpTo(v, v[x]) \in SUBSET D
                     /\ Cardinality(Less(v, v[x])) \in Nat
                     /\ Cardinality(UpTo(v, v[x])) \in Nat
    <2>1. \A x \in D : Less(v, v[x]) \subseteq D /\ UpTo(v, v[x]) \subseteq D
      BY DEF Less, UpTo
    <2> QED
      BY <2>1, FS_Subset, FS_CardinalityType
  <1>2. D # {}
    BY FS_EmptySet
  <1>3. PICK g \in D : \A e \in D : v[e] =< v[g]
    BY <1>2, GreatestValue
  <1>4. UpTo(v, v[g]) = D
    BY <1>3 DEF UpTo
  <1>5. S \in SUBSET D /\ S # {}
    BY <1>4
  <1>6. PICK x \in S : \A e \in S : v[x] =< v[e]
    BY <1>5, LeastValue
  <1>7. ASSUME Cardinality(Less(v, v[x])) > i PROVE FALSE
    <2>1. Less(v, v[x]) # {}
      BY <1>7, FS_EmptySet
    <2>2. PICK p \in Less(v, v[x]) : \A e \in Less(v, v[x]) : v[e] =< v[p]
      BY <1>1, <2>1, GreatestValue
    <2>3. p \in D /\ v[p] < v[x]
      BY <2>2 DEF Less
    <2>4. UpTo(v, v[p]) = Less(v, v[x])
      BY <2>2, <2>3 DEF UpTo, Less
    <2>5. p \in S
      BY <1>7, <2>3, <2>4
    <2> QED
      BY <1>6, <2>3, <2>5
  <1> QED
    BY <1>1, <1>7

\* $array[$i] of the sorted array.
LEMMA SortedAtRank ==
    ASSUME NEW D, IsFiniteSet(D), NEW v \in [D -> Int], NEW i \in Nat, i < Cardinality(D)
    PROVE  \E x \in D : /\ sortedAt(v, i) = v[x]
                        /\ Cardinality(Less(v, v[x])) =< i
                        /\ Cardinality(UpTo(v, v[x])) > i
  <1> DEFINE V == {v[d] : d \in DOMAIN v}
  <1>1. sortedAt(v, i) = CHOOSE y \in V : /\ Cardinality(Less(v, y)) =< i
                                          /\ Cardinality(UpTo(v, y)) > i
    BY DEF sortedAt, Less, UpTo
  <1>2. \E y \in V : Cardinality(Less(v, y)) =< i /\ Cardinality(UpTo(v, y)) > i
    BY RankExists
  <1>3. /\ sortedAt(v, i) \in V
        /\ Cardinality(Less(v, sortedAt(v, i))) =< i
        /\ Cardinality(UpTo(v, sortedAt(v, i))) > i
    BY <1>1, <1>2
  <1> QED
    BY <1>3

AtLeast(arr, x) == {d \in DOMAIN arr : arr[d] >= x}

\* Counting the entries on either side of a value.
LEMMA Sides ==
    ASSUME NEW D, IsFiniteSet(D), NEW v \in [D -> Int], NEW x \in D
    PROVE  /\ Cardinality(AtLeast(v, v[x])) = Cardinality(D) - Cardinality(Less(v, v[x]))
           /\ \A y \in D : v[y] < v[x] =>
                 Cardinality(UpTo(v, v[y])) =< Cardinality(Less(v, v[x]))
           /\ \A y \in D : v[y] > v[x] =>
                 Cardinality(AtLeast(v, v[y])) =< Cardinality(D) - Cardinality(UpTo(v, v[x]))
  <1>1. \A A, B : A \subseteq D /\ B \subseteq D /\ A \cap B = {} =>
          /\ Cardinality(A \cup B) = Cardinality(A) + Cardinality(B)
          /\ Cardinality(A \cup B) =< Cardinality(D)
          /\ Cardinality(A) \in Nat /\ Cardinality(B) \in Nat /\ Cardinality(D) \in Nat
    <2> SUFFICES ASSUME NEW A, NEW B, A \subseteq D, B \subseteq D, A \cap B = {}
                 PROVE  /\ Cardinality(A \cup B) = Cardinality(A) + Cardinality(B)
                        /\ Cardinality(A \cup B) =< Cardinality(D)
                        /\ Cardinality(A) \in Nat /\ Cardinality(B) \in Nat
                        /\ Cardinality(D) \in Nat
      OBVIOUS
    <2>1. IsFiniteSet(A) /\ IsFiniteSet(B) /\ A \cup B \in SUBSET D
      BY FS_Subset
    <2>2. /\ Cardinality(A) \in Nat /\ Cardinality(B) \in Nat /\ Cardinality(D) \in Nat
          /\ Cardinality(A \cup B) =< Cardinality(D)
      BY <2>1, FS_Subset, FS_CardinalityType
    <2>3. Cardinality(A \cup B) = Cardinality(A) + Cardinality(B) - Cardinality(A \cap B)
      BY <2>1, FS_Union
    <2> QED
      BY <2>2, <2>3, FS_EmptySet
  <1>2. \A y \in D : /\ AtLeast(v, v[y]) \subseteq D /\ Less(v, v[y]) \subseteq D
                     /\ UpTo(v, v[y]) \subseteq D
    BY DEF AtLeast, Less, UpTo
  <1>3. Cardinality(AtLeast(v, v[x])) = Cardinality(D) - Cardinality(Less(v, v[x]))
    <2>1. AtLeast(v, v[x]) \cup Less(v, v[x]) = D /\ AtLeast(v, v[x]) \cap Less(v, v[x]) = {}
      BY DEF AtLeast, Less
    <2>2. /\ Cardinality(D) = Cardinality(AtLeast(v, v[x])) + Cardinality(Less(v, v[x]))
          /\ Cardinality(AtLeast(v, v[x])) \in Nat /\ Cardinality(Less(v, v[x])) \in Nat
      BY <1>1, <1>2, <2>1
    <2> QED
      BY <2>2
  <1>4. ASSUME NEW y \in D, v[y] < v[x]
        PROVE  Cardinality(UpTo(v, v[y])) =< Cardinality(Less(v, v[x]))
    <2>1. UpTo(v, v[y]) \subseteq Less(v, v[x])
      BY <1>4 DEF UpTo, Less
    <2> QED
      BY <1>2, <2>1, FS_Subset
  <1>5. ASSUME NEW y \in D, v[y] > v[x]
        PROVE  Cardinality(AtLeast(v, v[y])) =< Cardinality(D) - Cardinality(UpTo(v, v[x]))
    <2>1. AtLeast(v, v[y]) \cap UpTo(v, v[x]) = {}
      BY <1>5 DEF UpTo, AtLeast
    <2>2. /\ Cardinality(AtLeast(v, v[y])) + Cardinality(UpTo(v, v[x])) =< Cardinality(D)
          /\ Cardinality(AtLeast(v, v[y])) \in Nat /\ Cardinality(UpTo(v, v[x])) \in Nat
          /\ Cardinality(D) \in Nat
      BY <1>1, <1>2, <2>1
    <2> QED
      BY <2>2
  <1> QED
    BY <1>3, <1>4, <1>5

\* calculate_median is the mean of the least value that half of the entries do
\* not exceed and the greatest one that half of them reach.
LEMMA MedianSplits ==
    ASSUME NEW D, IsFiniteSet(D), D # {}, NEW v \in [D -> Int]
    PROVE  \E lo \in D, hi \in D :
             /\ 2 * Cardinality(UpTo(v, v[lo])) >= Cardinality(D)
             /\ 2 * Cardinality(AtLeast(v, v[hi])) >= Cardinality(D)
             /\ \A i \in D : 2 * Cardinality(UpTo(v, v[i])) >= Cardinality(D) => v[lo] =< v[i]
             /\ \A i \in D : 2 * Cardinality(AtLeast(v, v[i])) >= Cardinality(D) => v[hi] >= v[i]
             /\ calculate_median(v) = v[lo] + v[hi]
  <1> DEFINE n == Cardinality(D)
             m == n \div 2
             l == IF n % 2 = 0 THEN m - 1 ELSE m
  <1>1. n \in Nat /\ n > 0
    BY FS_CardinalityType, FS_EmptySet
  <1>2. /\ m \in Nat /\ l \in Nat /\ m < n /\ l < n
        /\ n % 2 = 0 => n = 2 * m /\ l = m - 1
        /\ n % 2 # 0 => n = 2 * m + 1 /\ l = m
    <2> HIDE DEF n
    <2> QED
      BY <1>1
  <1>3. calculate_median(v) = sortedAt(v, l) + sortedAt(v, m)
    <2>1. DOMAIN v = D
      OBVIOUS
    <2>2. \A x \in D : v[x] \in Int
      OBVIOUS
    <2>3. sortedAt(v, m) \in Int /\ sortedAt(v, l) \in Int
      BY <1>2, <2>2, SortedAtRank
    <2>4. calculate_median(v) = IF n % 2 = 0 THEN sortedAt(v, m) + sortedAt(v, m - 1)
                                ELSE 2 * sortedAt(v, m)
      BY <2>1 DEF calculate_median
    <2> HIDE DEF n, m
    <2> QED
      BY <1>2, <2>3, <2>4
  <1>4. PICK lo \in D : /\ sortedAt(v, l) = v[lo]
                        /\ Cardinality(Less(v, v[lo])) =< l
                        /\ Cardinality(UpTo(v, v[lo])) > l
    BY <1>2, SortedAtRank
  <1>5. PICK hi \in D : /\ sortedAt(v, m) = v[hi]
                        /\ Cardinality(Less(v, v[hi])) =< m
                        /\ Cardinality(UpTo(v, v[hi])) > m
    BY <1>2, SortedAtRank
  <1>6. \A x \in D : /\ v[x] \in Int
                     /\ Cardinality(Less(v, v[x])) \in Nat
                     /\ Cardinality(UpTo(v, v[x])) \in Nat
                     /\ Cardinality(AtLeast(v, v[x])) \in Nat
    <2>1. \A x \in D : /\ AtLeast(v, v[x]) \subseteq D /\ Less(v, v[x]) \subseteq D
                       /\ UpTo(v, v[x]) \subseteq D
      BY DEF AtLeast, Less, UpTo
    <2> QED
      BY <2>1, FS_Subset, FS_CardinalityType
  <1> HIDE DEF n, m, l
  <1>7. 2 * Cardinality(UpTo(v, v[lo])) >= n
    BY <1>1, <1>2, <1>4, <1>6
  <1>8. 2 * Cardinality(AtLeast(v, v[hi])) >= n
    <2>1. Cardinality(AtLeast(v, v[hi])) = n - Cardinality(Less(v, v[hi]))
      BY Sides DEF n
    <2> QED
      BY <1>1, <1>2, <1>5, <1>6, <2>1
  <1>9. ASSUME NEW i \in D, 2 * Cardinality(UpTo(v, v[i])) >= n, v[i] < v[lo] PROVE FALSE
    <2>1. Cardinality(UpTo(v, v[i])) =< Cardinality(Less(v, v[lo]))
      BY <1>9, Sides
    <2> QED
      BY <1>1, <1>2, <1>4, <1>6, <1>9, <2>1
  <1>10. ASSUME NEW i \in D, 2 * Cardinality(AtLeast(v, v[i])) >= n, v[i] > v[hi] PROVE FALSE
    <2>1. Cardinality(AtLeast(v, v[i])) =< n - Cardinality(UpTo(v, v[hi]))
      BY <1>10, Sides DEF n
    <2> QED
      BY <1>1, <1>2, <1>5, <1>6, <1>10, <2>1
  <1>11. \A i \in D : 2 * Cardinality(UpTo(v, v[i])) >= n => v[lo] =< v[i]
    BY <1>6, <1>9
  <1>12. \A i \in D : 2 * Cardinality(AtLeast(v, v[i])) >= n => v[hi] >= v[i]
    BY <1>6, <1>10
  <1> QED
    BY <1>3, <1>4, <1>5, <1>7, <1>8, <1>11, <1>12 DEF n

\* Whatever ratings a shop has, what forceHandle publishes for an aspect is their
\* median.
THEOREM MediansAreMedians == ReviewsSpec => []MediansSplitTheRatings
  <1>1. TypeOK => MediansSplitTheRatings
    <2> DEFINE val(i, k) == reviews[i].fields[k]
               NotBelow(C, i, k) == {j \in C : val(j, k) =< val(i, k)}
               NotAbove(C, i, k) == {j \in C : val(j, k) >= val(i, k)}
    <2> SUFFICES ASSUME TypeOK, NEW e \in Entities, NEW k \in DOMAIN Medians(e)
                 PROVE  LET C == Collected(e, k)
                            B == {i \in C : 2 * Cardinality(NotBelow(C, i, k)) >= Cardinality(C)}
                            A == {i \in C : 2 * Cardinality(NotAbove(C, i, k)) >= Cardinality(C)}
                        IN  \E lo \in B, hi \in A :
                              /\ \A i \in B : val(lo, k) =< val(i, k)
                              /\ \A i \in A : val(hi, k) >= val(i, k)
                              /\ Medians(e)[k] = val(lo, k) + val(hi, k)
      BY DEF MediansSplitTheRatings
    <2> DEFINE C == Collected(e, k)
               v == [i \in C |-> reviews[i].fields[k]]
    <2>1. k \in Keys /\ C # {} /\ Medians(e)[k] = calculate_median(v)
      BY DEF Medians
    <2>2. C \subseteq ReviewIds /\ \A i \in C : reviews[i] \in Row
      BY DEF TypeOK, Collected, validReviews, Live
    <2>3. IsFiniteSet(C)
      <3>1. IsFiniteSet(ReviewIds)
        BY FS_Interval, ReviewBoundAssumption DEF ReviewIds
      <3> QED
        BY <2>2, <3>1, FS_Subset
    <2>4. v \in [C -> Int]
      BY <2>1, <2>2, RatingsAssumption DEF Row, Fields
    <2>5. \A i \in C : /\ v[i] = val(i, k)
                       /\ UpTo(v, v[i]) = NotBelow(C, i, k)
                       /\ AtLeast(v, v[i]) = NotAbove(C, i, k)
      BY DEF UpTo, AtLeast
    <2> HIDE DEF C, v
    <2>6. PICK lo \in C, hi \in C :
             /\ 2 * Cardinality(UpTo(v, v[lo])) >= Cardinality(C)
             /\ 2 * Cardinality(AtLeast(v, v[hi])) >= Cardinality(C)
             /\ \A i \in C : 2 * Cardinality(UpTo(v, v[i])) >= Cardinality(C) => v[lo] =< v[i]
             /\ \A i \in C : 2 * Cardinality(AtLeast(v, v[i])) >= Cardinality(C) => v[hi] >= v[i]
             /\ calculate_median(v) = v[lo] + v[hi]
      BY <2>1, <2>3, <2>4, MedianSplits
    <2> QED
      BY <2>1, <2>5, <2>6 DEF C
  <1> QED
    BY <1>1, TypeCorrect, PTL

=============================================================================
