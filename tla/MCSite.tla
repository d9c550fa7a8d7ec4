------------------------------- MODULE MCSite -------------------------------
(***************************************************************************)
(* Instances of the content pages for TLC.  Ratings, the record of a shop  *)
(* and the forum use disjoint tables, so no statement of one meets one of  *)
(* another: the workers serve one of them, whichever is chosen first.      *)
(***************************************************************************)
EXTENDS Reviews, ShopEdits, Forum, TLC

\* The contribution form was left at its default, "0".
MCContributed == [e \in Entities |-> [k \in Keys |-> 0]]

\* One point per address.
MCGeoOf == [a \in Addresses |-> a]

\* Weeks with the same hours every day: a mixed week is then recognisable.
MCTimetables == {[d \in Days |-> h] : h \in Hours \ {Closed}}

(* Users, workers, runs of the command, texts and opening hours are
   interchangeable. *)
Symmetry ==
    UNION {Permutations(S) : S \in {Users, Workers, Jobs, Contents, Hours \ {Closed}}}

-----------------------------------------------------------------------------

VARIABLE page   \* which of the three the workers serve

reviewTables == <<reviews, nextReview, shown, job>>
editTables   == <<shop, cached, hours, editings, nextEdit>>

Init ==
    /\ ReviewsInit /\ EditsInit /\ ForumInit
    /\ page \in {"reviews", "edits", "forum"}

Next ==
    /\ UNCHANGED page
    /\ \/ page = "reviews" /\ ReviewsNext /\ UNCHANGED editTables /\ UNCHANGED tables
       \/ page = "edits" /\ EditsNext /\ UNCHANGED reviewTables /\ UNCHANGED tables
       \/ page = "forum" /\ ForumNext /\ UNCHANGED reviewTables /\ UNCHANGED editTables

Spec == Init /\ [][Next]_<<page, req, reviewTables, editTables, tables>>

=============================================================================
