-------------------------- MODULE ShopEditsProofs --------------------------
(***************************************************************************)
(* Requests that rewrite the opening hours of a shop at the same time      *)
(* delete each other's rows and die on the primary key.  For any number of *)
(* them, and of days, no day is left without a row unless a request is     *)
(* killed from outside.  What the record of a shop says was approved, or   *)
(* was said by an earlier version: every request that is about to save     *)
(* holds such values, of the record or of an approved editing.             *)
(***************************************************************************)
EXTENDS ShopEdits, WellFoundedInduction, TLAPS

-----------------------------------------------------------------------------
(* The inductive invariant *)

Weeks == Timetables \cup {Unset}

\* Which week each request carries, or will read from its editing.
RequestOK(rows, r) ==
    /\ r.pc = "create" => r.week \in Weeks
    /\ r.pc = "submit" => r.row \in EditingRow
    /\ r.pc \in {"approve", "load", "save"} => r.id \in EditIds /\ rows[r.id] \in EditingRow
    /\ r.pc = "clear" => r.week \in Timetables
    /\ r.pc = "fill" => r \in [pc : {"fill"}, week : Timetables, day : Days]

WeeksOK ==
    /\ hours \in [Days -> Hours \cup {NoRow}]
    /\ DOMAIN editings = EditIds
    /\ DOMAIN req = Workers
    /\ \A w \in Workers : RequestOK(editings, req[w])

\* What a step preserves.
Kept == WeeksOK' /\ (GapsAreBeingFilled => GapsAreBeingFilled')

\* Outside createBusinessHours the week of a shop is whole or missing.
HoursWhole == Filling = {} => Present(hours) \in {{}, Days}

-----------------------------------------------------------------------------
(* Steps that leave the opening hours alone *)

LEMMA IdleRequest == Idle.pc = "idle" /\ \A rows : RequestOK(rows, Idle)
  BY DEF Idle, RequestOK

LEMMA ThenHoursOK ==
    ASSUME NEW week \in Weeks
    PROVE  /\ ThenHours(week).pc \in {"idle", "clear"}
           /\ ThenHours(week).pc = "clear" => ThenHours(week).week \in Timetables
  BY DEF ThenHours, Idle, Weeks

\* A request that is not storing hours goes on and does not begin to.
LEMMA ElsewhereKeepsInv ==
    ASSUME WeeksOK, NEW w \in Workers, NEW r,
           Goto(w, r), req[w].pc # "fill", r.pc # "fill",
           hours' = hours, DOMAIN editings' = EditIds, RequestOK(editings', r),
           \A i \in EditIds : editings[i] \in EditingRow => editings'[i] \in EditingRow
    PROVE  Kept
  <1>1. \A v \in Workers : req'[v] = IF v = w THEN r ELSE req[v]
    BY DEF Goto, WeeksOK
  <1>2. WeeksOK'
    <2>1. DOMAIN req' = Workers
      BY DEF Goto, WeeksOK
    <2>2. ASSUME NEW v \in Workers PROVE RequestOK(editings', req'[v])
      <3>1. CASE v = w
        BY <1>1, <3>1 DEF RequestOK
      <3>2. CASE v # w
        <4>1. RequestOK(editings, req[v]) /\ req'[v] = req[v]
          BY <1>1, <3>2 DEF WeeksOK
        <4> QED
          BY <4>1 DEF RequestOK
      <3> QED
        BY <3>1, <3>2
    <2> QED
      BY <2>1, <2>2 DEF WeeksOK
  <1>3. Present(hours)' = Present(hours)
    BY DEF Present
  <1>4. Filling' = Filling
    BY <1>1 DEF Filling
  <1>5. \A d \in Days : FillingAt(d)' = FillingAt(d)
    BY <1>1 DEF FillingAt
  <1>6. GapsAreBeingFilled => GapsAreBeingFilled'
    BY <1>3, <1>4, <1>5 DEF GapsAreBeingFilled
  <1> QED
    BY <1>2, <1>6 DEF Kept

-----------------------------------------------------------------------------
(* Steps that change the opening hours *)

LEMMA DeleteKeepsInv ==
    ASSUME WeeksOK, NEW w \in Workers, createBusinessHours_delete(w) PROVE Kept
  <1> DEFINE r == [pc |-> "fill", week |-> req[w].week, day |-> 1]
  <1>1. 1 \in Days
    BY DaysAssumption DEF Days
  <1>2. \A v \in Workers : req'[v] = IF v = w THEN r ELSE req[v]
    BY DEF createBusinessHours_delete, Goto, WeeksOK
  <1>3. r \in [pc : {"fill"}, week : Timetables, day : Days]
    BY <1>1 DEF createBusinessHours_delete, WeeksOK, RequestOK
  <1>4. WeeksOK'
    <2>1. \A v \in Workers : RequestOK(editings', req'[v])
      BY <1>2, <1>3 DEF createBusinessHours_delete, WeeksOK, RequestOK
    <2>2. hours' \in [Days -> Hours \cup {NoRow}] /\ DOMAIN editings' = EditIds
      BY DEF createBusinessHours_delete, WeeksOK
    <2>3. DOMAIN req' = Workers
      BY DEF createBusinessHours_delete, Goto, WeeksOK
    <2> QED
      BY <2>1, <2>2, <2>3 DEF WeeksOK
  <1>5. Present(hours)' = {}
    BY DEF createBusinessHours_delete, Present
  <1>6. w \in FillingAt(1)'
    BY <1>2 DEF FillingAt
  <1>7. GapsAreBeingFilled'
    BY <1>5, <1>6 DEF GapsAreBeingFilled
  <1> QED
    BY <1>4, <1>7 DEF Kept

\* The stored day closes the gap that began there; the next one that it opens
\* is where the same request goes on.
LEMMA SaveKeepsInv ==
    ASSUME WeeksOK, NEW w \in Workers, createBusinessHours_save(w) PROVE Kept
  <1> DEFINE d == req[w].day
             r == IF d = NDays THEN Idle ELSE [req[w] EXCEPT !.day = d + 1]
  <1>1. req[w] \in [pc : {"fill"}, week : Timetables, day : Days]
    BY DEF createBusinessHours_save, WeeksOK, RequestOK
  <1>2. d \in Days /\ req[w].week[d] \in Hours
    BY <1>1, HoursAssumption
  <1>3. d # NDays => d + 1 \in Days
    BY <1>2, DaysAssumption DEF Days
  <1>4. d # NDays => /\ r \in [pc : {"fill"}, week : Timetables, day : Days]
                     /\ r.pc = "fill" /\ r.day = d + 1
    BY <1>1, <1>3
  <1>5. \A v \in Workers : req'[v] = IF v = w THEN r ELSE req[v]
    BY DEF createBusinessHours_save, Goto, WeeksOK
  <1>6. WeeksOK'
    <2>1. RequestOK(editings', r)
      BY <1>4, IdleRequest DEF RequestOK
    <2>2. \A v \in Workers : RequestOK(editings', req'[v])
      BY <1>5, <2>1 DEF createBusinessHours_save, WeeksOK
    <2>3. hours' \in [Days -> Hours \cup {NoRow}] /\ DOMAIN editings' = EditIds
      BY <1>2 DEF createBusinessHours_save, WeeksOK
    <2>4. DOMAIN req' = Workers
      BY DEF createBusinessHours_save, Goto, WeeksOK
    <2> QED
      BY <2>2, <2>3, <2>4 DEF WeeksOK
  <1>7. Present(hours)' = Present(hours) \cup {d}
    BY <1>2, EditFreshAssumption DEF createBusinessHours_save, WeeksOK, Present
  <1>8. w \in Filling
    BY DEF createBusinessHours_save, Filling
  <1>9. ASSUME GapsAreBeingFilled,
               NEW c \in Days \ Present(hours)', c = 1 \/ c - 1 \in Present(hours)'
        PROVE  FillingAt(c)' # {}
    <2>1. c \notin Present(hours) /\ c # d
      BY <1>7
    <2>2. CASE c = d + 1
      <3>1. d # NDays
        BY <1>2, <2>2 DEF Days
      <3>2. w \in FillingAt(c)'
        BY <1>4, <1>5, <2>2, <3>1 DEF FillingAt
      <3> QED
        BY <3>2
    <2>3. CASE c # d + 1
      <3>1. c = 1 \/ c - 1 \in Present(hours)
        BY <1>2, <1>7, <1>9, <2>3 DEF Days
      <3>2. PICK v \in Workers : req[v].pc = "fill" /\ req[v].day = c
        BY <1>8, <1>9, <2>1, <3>1 DEF GapsAreBeingFilled, FillingAt
      <3>3. v # w
        BY <2>1, <3>2
      <3>4. v \in FillingAt(c)'
        BY <1>5, <3>2, <3>3 DEF FillingAt
      <3> QED
        BY <3>4
    <2> QED
      BY <2>2, <2>3
  <1>10. GapsAreBeingFilled => GapsAreBeingFilled'
    BY <1>9 DEF GapsAreBeingFilled
  <1> QED
    BY <1>6, <1>10 DEF Kept

\* A request that dies on the primary key was not the one at a gap.
LEMMA DuplicateKeepsInv ==
    ASSUME WeeksOK, NEW w \in Workers, createBusinessHours_duplicate(w) PROVE Kept
  <1>1. \A v \in Workers : req'[v] = IF v = w THEN Idle ELSE req[v]
    BY DEF createBusinessHours_duplicate, Goto, WeeksOK
  <1>2. WeeksOK'
    <2>1. \A v \in Workers : RequestOK(editings', req'[v])
      BY <1>1, IdleRequest DEF createBusinessHours_duplicate, WeeksOK
    <2>2. DOMAIN req' = Workers
      BY DEF createBusinessHours_duplicate, Goto, WeeksOK
    <2> QED
      BY <2>1, <2>2 DEF createBusinessHours_duplicate, WeeksOK
  <1>3. Present(hours)' = Present(hours)
    BY DEF createBusinessHours_duplicate, Present
  <1>4. w \in Filling
    BY DEF createBusinessHours_duplicate, Filling
  <1>5. ASSUME GapsAreBeingFilled,
               NEW c \in Days \ Present(hours), c = 1 \/ c - 1 \in Present(hours)
        PROVE  FillingAt(c)' # {}
    <2>1. PICK v \in Workers : req[v].pc = "fill" /\ req[v].day = c
      BY <1>4, <1>5 DEF GapsAreBeingFilled, FillingAt
    <2>2. v # w
      BY <2>1 DEF createBusinessHours_duplicate, Present
    <2>3. v \in FillingAt(c)'
      BY <1>1, <2>1, <2>2 DEF FillingAt
    <2> QED
      BY <2>3
  <1>6. GapsAreBeingFilled => GapsAreBeingFilled'
    BY <1>3, <1>5 DEF GapsAreBeingFilled
  <1> QED
    BY <1>2, <1>6 DEF Kept

-----------------------------------------------------------------------------
(* All steps *)

\* The first action of each handler.
LEMMA SubmitKeepsInv ==
    ASSUME WeeksOK, NEW w \in Workers, EditSubmit(w) \/ getBusinessHoursJson(w) PROVE Kept
  <1>1. ASSUME NEW a \in Addresses, NEW f \in Info, NEW week \in Timetables,
               saveContribution(w, a, f, week)
        PROVE  Kept
    <2> DEFINE r == [pc |-> "create", week |-> IF HoursOn THEN week ELSE Unset,
                     columns |-> [address |-> a, point |-> GeoOf[a], info |-> f]]
    <2>1. RequestOK(editings', r) /\ r.pc = "create" /\ Goto(w, r)
      BY <1>1 DEF saveContribution, RequestOK, Weeks
    <2> QED
      BY <1>1, <2>1, ElsewhereKeepsInv DEF saveContribution, Idle, WeeksOK
  <1>2. ASSUME NEW a \in Addresses, NEW f \in Info, NEW week \in Timetables,
               submit_editing(w, a, f, week)
        PROVE  Kept
    <2> DEFINE b == IF HoursOn /\ week # generateBusinessHoursJson(hours)
                    THEN week ELSE Unset
               r == [pc |-> "submit",
                     row |-> [address |-> a, info |-> f, status |-> CREATED_STATUS,
                              business_hours |-> b]]
    <2>1. r.row \in EditingRow
      BY DEF EditingRow
    <2>2. RequestOK(editings', r) /\ r.pc = "submit" /\ Goto(w, r)
      BY <1>2, <2>1 DEF submit_editing, RequestOK
    <2> QED
      BY <1>2, <2>2, ElsewhereKeepsInv DEF submit_editing, Idle, WeeksOK
  <1>3. ASSUME getBusinessHoursJson(w) PROVE Kept
    <2> DEFINE r == [pc |-> "generate"]
    <2>1. RequestOK(editings', r) /\ r.pc = "generate" /\ Goto(w, r)
      BY <1>3 DEF getBusinessHoursJson, RequestOK
    <2> QED
      BY <1>3, <2>1, ElsewhereKeepsInv DEF getBusinessHoursJson, Idle, WeeksOK
  <1> QED
    BY <1>1, <1>2, <1>3 DEF EditSubmit

\* Storing the shop and the editing.
LEMMA RowsKeepInv ==
    ASSUME WeeksOK, NEW w \in Workers,
           \/ saveContribution_save(w) \/ submit_editing_save(w) \/ approve(w)
           \/ approve_load(w) \/ geocode_fails(w) \/ approve_save(w)
    PROVE  Kept
  <1>1. CASE saveContribution_save(w)
    <2>1. req[w].week \in Weeks
      BY <1>1 DEF saveContribution_save, WeeksOK, RequestOK
    <2>2. RequestOK(editings', ThenHours(req[w].week)) /\ ThenHours(req[w].week).pc # "fill"
      BY <2>1, ThenHoursOK DEF RequestOK
    <2> QED
      BY <1>1, <2>2, ElsewhereKeepsInv DEF saveContribution_save, WeeksOK
  <1>2. CASE submit_editing_save(w)
    <2> DEFINE r == [pc |-> "approve", id |-> nextEdit]
    <2>1. req[w].row \in EditingRow
      BY <1>2 DEF submit_editing_save, WeeksOK, RequestOK
    <2>2. /\ DOMAIN editings' = EditIds
          /\ \A i \in EditIds : editings'[i] = IF i = nextEdit THEN req[w].row ELSE editings[i]
      BY <1>2 DEF submit_editing_save, WeeksOK
    <2>3. RequestOK(editings', r) /\ r.pc = "approve" /\ Goto(w, r)
      BY <1>2, <2>1, <2>2 DEF submit_editing_save, RequestOK
    <2> QED
      BY <1>2, <2>1, <2>2, <2>3, ElsewhereKeepsInv DEF submit_editing_save
  <1>3. CASE approve(w)
    <2> DEFINE i == req[w].id
               r == [pc |-> "load", id |-> i]
    <2>1. i \in EditIds /\ editings[i] \in EditingRow
      BY <1>3 DEF approve, WeeksOK, RequestOK
    <2>2. [editings[i] EXCEPT !.status = APPROVED_STATUS] \in EditingRow
      BY <2>1 DEF EditingRow
    <2>3. /\ DOMAIN editings' = EditIds
          /\ \A j \in EditIds : editings'[j] =
                IF j = i THEN [editings[i] EXCEPT !.status = APPROVED_STATUS] ELSE editings[j]
      BY <1>3 DEF approve, WeeksOK
    <2>4. RequestOK(editings', r) /\ r.pc = "load" /\ Goto(w, r)
      BY <1>3, <2>1, <2>2, <2>3 DEF approve, RequestOK
    <2> QED
      BY <1>3, <2>2, <2>3, <2>4, ElsewhereKeepsInv DEF approve
  <1>4. CASE approve_load(w)
    <2>1. PICK r : Goto(w, r) /\ r.pc = "save" /\ r.id = req[w].id
      BY <1>4 DEF approve_load
    <2>2. RequestOK(editings', r)
      BY <1>4, <2>1 DEF approve_load, RequestOK, WeeksOK
    <2> QED
      BY <1>4, <2>1, <2>2, ElsewhereKeepsInv DEF approve_load, WeeksOK
  <1>5. CASE geocode_fails(w)
    BY <1>5, IdleRequest, ElsewhereKeepsInv DEF geocode_fails, WeeksOK
  <1>6. CASE approve_save(w)
    <2> DEFINE week == editings[req[w].id].business_hours
    <2>1. week \in Weeks
      BY <1>6 DEF approve_save, WeeksOK, RequestOK, EditingRow, Weeks
    <2>2. RequestOK(editings', ThenHours(week)) /\ ThenHours(week).pc # "fill"
      BY <2>1, ThenHoursOK DEF RequestOK
    <2> QED
      BY <1>6, <2>2, ElsewhereKeepsInv DEF approve_save, WeeksOK
  <1> QED
    BY <1>1, <1>2, <1>3, <1>4, <1>5, <1>6

LEMMA CacheKeepsInv ==
    ASSUME WeeksOK, NEW w \in Workers,
           getBusinessHoursJson_read(w) \/ getBusinessHoursJson_save(w)
    PROVE  Kept
  <1>1. CASE getBusinessHoursJson_read(w)
    <2> DEFINE r == [pc |-> "cache", json |-> generateBusinessHoursJson(hours)]
    <2>1. RequestOK(editings', r) /\ r.pc = "cache" /\ Goto(w, r)
      BY <1>1 DEF getBusinessHoursJson_read, RequestOK
    <2> QED
      BY <1>1, <2>1, ElsewhereKeepsInv DEF getBusinessHoursJson_read, WeeksOK
  <1>2. CASE getBusinessHoursJson_save(w)
    BY <1>2, IdleRequest, ElsewhereKeepsInv DEF getBusinessHoursJson_save, WeeksOK
  <1> QED
    BY <1>1, <1>2

LEMMA InitInv == EditsInit => WeeksOK /\ GapsAreBeingFilled
  <1> SUFFICES ASSUME EditsInit PROVE WeeksOK /\ GapsAreBeingFilled
    OBVIOUS
  <1>1. WeeksOK
    BY IdleRequest DEF EditsInit, WeeksOK
  <1>2. Present(hours) = {} /\ Filling = {}
    BY IdleRequest DEF EditsInit, Present, Filling
  <1> QED
    BY <1>1, <1>2 DEF GapsAreBeingFilled

\* A request that is killed drops what it carried.
LEMMA DeathKeepsWeeks ==
    ASSUME WeeksOK, NEW w \in Workers, EditRequestDies(w) PROVE WeeksOK'
  <1>1. \A v \in Workers : req'[v] = IF v = w THEN Idle ELSE req[v]
    BY DEF EditRequestDies, Goto, WeeksOK
  <1>2. \A v \in Workers : RequestOK(editings', req'[v])
    BY <1>1, IdleRequest DEF EditRequestDies, WeeksOK
  <1>3. DOMAIN req' = Workers
    BY DEF EditRequestDies, Goto, WeeksOK
  <1> QED
    BY <1>2, <1>3 DEF EditRequestDies, WeeksOK

\* The death of a request, in front of a day that has no row.
Killed(w) == EditRequestDies(w) /\ ~createBusinessHours_duplicate(w)

LEMMA NextKeeps ==
    ASSUME WeeksOK, [EditsNext]_editsVars
    PROVE  WeeksOK' /\ (Kept \/ \E w \in Workers : Killed(w))
  <1>1. ASSUME NEW w \in Workers, EditStep(w) PROVE Kept
    BY <1>1, RowsKeepInv, CacheKeepsInv, DeleteKeepsInv, SaveKeepsInv, DuplicateKeepsInv
       DEF EditStep
  <1>2. ASSUME NEW w \in Workers, EditSubmit(w) \/ getBusinessHoursJson(w) PROVE Kept
    BY <1>2, SubmitKeepsInv
  <1>3. ASSUME NEW w \in Workers, EditRequestDies(w)
        PROVE  WeeksOK' /\ (Kept \/ Killed(w))
    BY <1>3, DeathKeepsWeeks, DuplicateKeepsInv DEF Killed
  <1>4. CASE UNCHANGED editsVars
    <2>1. WeeksOK'
      BY <1>4 DEF editsVars, WeeksOK
    <2>2. GapsAreBeingFilled => GapsAreBeingFilled'
      BY <1>4 DEF editsVars, GapsAreBeingFilled, Present, Filling, FillingAt
    <2> QED
      BY <2>1, <2>2 DEF Kept
  <1>5. Kept => WeeksOK'
    BY DEF Kept
  <1> QED
    BY <1>1, <1>2, <1>3, <1>4, <1>5 DEF EditsNext

-----------------------------------------------------------------------------
(* Theorems *)

\* A set of days that is not empty has a first day.
LEMMA FirstDay ==
    ASSUME NEW S \in SUBSET Days, S # {} PROVE \E n \in S : \A m \in S : n =< m
  <1>1. S \subseteq Nat
    BY DaysAssumption DEF Days
  <1> DEFINE R == {ss \in Nat \X Nat : ss[1] < ss[2]}
  <1>2. IsWellFoundedOn(R, Nat)
    BY NatLessThanWellFounded DEF OpToRel
  <1>3. PICK n \in S : \A m \in S : ~(<<m, n>> \in R)
    BY <1>1, <1>2, WFMin
  <1>4. \A m \in S : ~(m < n)
    BY <1>1, <1>3
  <1> QED
    BY <1>1, <1>4

\* However many requests rewrite the opening hours of a shop at once, and die on
\* the primary key, none of their steps leaves a gap that nobody is filling: only
\* a request that is killed from outside does.
THEOREM GapsComeFromDeaths == EditsSpec => OnlyDeathsLeaveGaps
  <1>1. WeeksOK /\ [EditsNext]_editsVars => WeeksOK'
    BY NextKeeps
  <1>2. WeeksOK /\ [EditsNext]_editsVars =>
           [GapsAreBeingFilled /\ ~GapsAreBeingFilled' =>
               \E w \in Workers : EditRequestDies(w) /\ ~createBusinessHours_duplicate(w)]_editsVars
    BY NextKeeps DEF Kept, Killed
  <1> QED
    BY InitInv, <1>1, <1>2, PTL DEF EditsSpec, OnlyDeathsLeaveGaps

\* A gap in the opening hours always starts where a request is about to store,
\* for any number of requests and days, if none is killed from outside.
THEOREM GapsStayInHand == ASSUME ~MayDie PROVE EditsSpec => []GapsAreBeingFilled
  <1>1. ASSUME WeeksOK, [EditsNext]_editsVars PROVE Kept
    BY <1>1, NextKeeps DEF Killed, EditRequestDies
  <1>2. WeeksOK /\ GapsAreBeingFilled /\ [EditsNext]_editsVars => (WeeksOK /\ GapsAreBeingFilled)'
    BY <1>1 DEF Kept
  <1> QED
    BY InitInv, <1>2, PTL DEF EditsSpec

\* So once createBusinessHours is not running for a shop, every day of its week
\* has a row, or the shop was never given opening hours.
THEOREM HoursStayWhole == ASSUME ~MayDie PROVE EditsSpec => []HoursWhole
  <1>1. GapsAreBeingFilled => HoursWhole
    <2> SUFFICES ASSUME GapsAreBeingFilled, Filling = {}, Present(hours) # {},
                        Present(hours) # Days
                 PROVE  FALSE
      BY DEF HoursWhole
    <2>1. Days \ Present(hours) # {}
      BY DEF Present
    <2>2. PICK d \in Days \ Present(hours) : \A c \in Days \ Present(hours) : d =< c
      BY <2>1, FirstDay
    <2>3. d = 1 \/ d - 1 \in Present(hours)
      BY <2>2, DaysAssumption DEF Days
    <2>4. FillingAt(d) # {}
      BY <2>2, <2>3 DEF GapsAreBeingFilled
    <2> QED
      BY <2>4 DEF FillingAt, Filling
  <1> QED
    BY <1>1, GapsStayInHand, PTL

-----------------------------------------------------------------------------
(* What changes the record of a shop *)

\* What a request knows of the shop s and of its editing, with n the next id: from
\* approve() on the editing is on record as approved, and what is about to be
\* saved is the editing's, or was loaded from the shop.
CarriesOK(rows, n, s, r) ==
    /\ r.pc = "create" => s = NoRow /\ r.columns \in Columns
    /\ r.pc \in {"submit", "approve", "load", "save"} => s # NoRow
    /\ r.pc \in {"approve", "load", "save"} => r.id \in EditIds /\ r.id < n
    /\ r.pc \in {"load", "save"} => rows[r.id].status = APPROVED_STATUS
    /\ r.pc = "save" =>
          /\ r.columns \in Columns
          /\ r.columns.address = rows[r.id].address
          /\ \A k \in InfoKeys : \/ r.columns.info[k] = rows[r.id].info[k]
                                 \/ r.columns.info[k] = r.loaded.info[k]

\* Only one request creates the shop.
ApprovalInv ==
    /\ shop \in Columns \cup {NoRow}
    /\ nextEdit \in Nat
    /\ \A w \in Workers : CarriesOK(editings, nextEdit, shop, req[w])
    /\ \A v, w \in Workers : req[v].pc = "create" /\ req[w].pc = "create" => v = w

\* Editings that were stored keep what the form said, and stay approved.
EditingsKept ==
    /\ nextEdit =< nextEdit' /\ nextEdit' \in Nat
    /\ \A i \in EditIds : i < nextEdit =>
          /\ editings'[i].address = editings[i].address
          /\ editings'[i].info = editings[i].info
          /\ editings[i].status = APPROVED_STATUS => editings'[i].status = APPROVED_STATUS

LEMMA GoOnKeepsApproval ==
    ASSUME DOMAIN req = Workers, ApprovalInv, EditingsKept,
           NEW w \in Workers, NEW r, Goto(w, r),
           CarriesOK(editings', nextEdit', shop', r),
           r.pc = "create" => \A v \in Workers : req[v].pc # "create",
           \/ shop' = shop
           \/ shop # NoRow /\ shop' \in Columns
           \/ req[w].pc = "create" /\ shop' \in Columns
    PROVE  ApprovalInv'
  <1>1. \A v \in Workers : req'[v] = IF v = w THEN r ELSE req[v]
    BY DEF Goto
  <1>2. shop' \in Columns \cup {NoRow} /\ (shop # NoRow => shop' # NoRow)
    BY EditFreshAssumption DEF ApprovalInv
  <1>3. \A v, u \in Workers : req'[v].pc = "create" /\ req'[u].pc = "create" => v = u
    BY <1>1 DEF ApprovalInv
  <1>4. ASSUME NEW v \in Workers PROVE CarriesOK(editings', nextEdit', shop', req'[v])
    <2>1. CASE v = w
      BY <1>1, <2>1
    <2>2. CASE v # w
      <3>1. req'[v] = req[v] /\ CarriesOK(editings, nextEdit, shop, req[v])
        BY <1>1, <2>2 DEF ApprovalInv
      <3>2. req[v].pc = "create" => shop' = shop
        BY <2>2, <3>1 DEF ApprovalInv, CarriesOK
      <3>3. req[v].pc \in {"approve", "load", "save"} =>
               /\ req[v].id \in EditIds /\ req[v].id < nextEdit
               /\ editings'[req[v].id].address = editings[req[v].id].address
               /\ editings'[req[v].id].info = editings[req[v].id].info
               /\ editings[req[v].id].status = APPROVED_STATUS =>
                     editings'[req[v].id].status = APPROVED_STATUS
        BY <3>1 DEF CarriesOK, EditingsKept
      <3>4. req[v].pc \in {"approve", "load", "save"} => req[v].id < nextEdit'
        BY <3>3 DEF EditingsKept, ApprovalInv, EditIds
      <3>5. CarriesOK(editings', nextEdit', shop', req[v])
        BY <1>2, <3>1, <3>2, <3>3, <3>4 DEF CarriesOK
      <3> QED
        BY <3>1, <3>5
    <2> QED
      BY <2>1, <2>2
  <1> QED
    BY <1>2, <1>3, <1>4 DEF ApprovalInv, EditingsKept

\* What ChangesAreApproved says of one step.
ApprovedChange ==
    shop # NoRow =>
        /\ shop'.address # shop.address =>
              \E i \in Approved : editings[i].address = shop'.address
        /\ \A k \in InfoKeys : shop'.info[k] # shop.info[k] =>
              \/ \E i \in Approved : editings[i].info[k] = shop'.info[k]
              \/ \E w \in Workers : req[w].pc = "save"
                                    /\ req[w].loaded.info[k] = shop'.info[k]

\* Steps that leave the shop and the editings alone.
LEMMA QuietKeepsApproval ==
    ASSUME WeeksOK, ApprovalInv, NEW w \in Workers, NEW r, Goto(w, r),
           UNCHANGED <<shop, editings, nextEdit>>,
           CarriesOK(editings, nextEdit, shop, r),
           r.pc = "create" => \A v \in Workers : req[v].pc # "create"
    PROVE  ApprovalInv' /\ ApprovedChange
  <1>1. EditingsKept
    BY DEF EditingsKept, ApprovalInv
  <1>2. ApprovalInv'
    BY <1>1, GoOnKeepsApproval DEF WeeksOK
  <1> QED
    BY <1>2 DEF ApprovedChange

LEMMA SubmitKeepsApproval ==
    ASSUME WeeksOK, ApprovalInv, NEW w \in Workers, EditSubmit(w) \/ getBusinessHoursJson(w)
    PROVE  ApprovalInv' /\ ApprovedChange
  <1>1. ASSUME NEW a \in Addresses, NEW f \in Info, NEW week \in Timetables,
               saveContribution(w, a, f, week)
        PROVE  ApprovalInv' /\ ApprovedChange
    <2> DEFINE c == [address |-> a, point |-> GeoOf[a], info |-> f]
               r == [pc |-> "create", week |-> IF HoursOn THEN week ELSE Unset, columns |-> c]
    <2>1. c \in Columns
      BY GeoAssumption DEF Columns
    <2>2. CarriesOK(editings, nextEdit, shop, r)
      BY <1>1, <2>1 DEF saveContribution, CarriesOK
    <2> QED
      BY <1>1, <2>2, QuietKeepsApproval DEF saveContribution
  <1>2. ASSUME NEW a \in Addresses, NEW f \in Info, NEW week \in Timetables,
               submit_editing(w, a, f, week)
        PROVE  ApprovalInv' /\ ApprovedChange
    <2>1. PICK r : r.pc = "submit" /\ Goto(w, r)
      BY <1>2 DEF submit_editing
    <2>2. CarriesOK(editings, nextEdit, shop, r)
      BY <1>2, <2>1 DEF submit_editing, CarriesOK
    <2> QED
      BY <1>2, <2>1, <2>2, QuietKeepsApproval DEF submit_editing
  <1>3. ASSUME getBusinessHoursJson(w) PROVE ApprovalInv' /\ ApprovedChange
    <2> DEFINE r == [pc |-> "generate"]
    <2>1. CarriesOK(editings, nextEdit, shop, r) /\ Goto(w, r) /\ r.pc = "generate"
      BY <1>3 DEF CarriesOK, getBusinessHoursJson
    <2> QED
      BY <1>3, <2>1, QuietKeepsApproval DEF getBusinessHoursJson
  <1> QED
    BY <1>1, <1>2, <1>3 DEF EditSubmit

\* The opening hours, the map pages and failures.
LEMMA ElsewhereKeepsApproval ==
    ASSUME WeeksOK, ApprovalInv, NEW w \in Workers,
           \/ geocode_fails(w) \/ createBusinessHours_delete(w) \/ createBusinessHours_save(w)
           \/ createBusinessHours_duplicate(w) \/ getBusinessHoursJson_read(w)
           \/ getBusinessHoursJson_save(w) \/ EditRequestDies(w)
    PROVE  ApprovalInv' /\ ApprovedChange
  <1>1. PICK r : Goto(w, r) /\ r.pc \in {"idle", "fill", "cache"}
    <2>1. CASE createBusinessHours_save(w)
      <3> DEFINE r == IF req[w].day = NDays THEN Idle
                      ELSE [req[w] EXCEPT !.day = req[w].day + 1]
      <3>1. req[w] \in [pc : {"fill"}, week : Timetables, day : Days]
        BY <2>1 DEF createBusinessHours_save, WeeksOK, RequestOK
      <3>2. r.pc \in {"idle", "fill", "cache"}
        BY <3>1 DEF Idle
      <3>3. Goto(w, r)
        BY <2>1 DEF createBusinessHours_save
      <3> QED
        BY <3>2, <3>3
    <2>2. CASE ~createBusinessHours_save(w)
      BY <2>2 DEF geocode_fails, createBusinessHours_delete, createBusinessHours_duplicate,
                  getBusinessHoursJson_read, getBusinessHoursJson_save, EditRequestDies, Idle
    <2> QED
      BY <2>1, <2>2
  <1>2. CarriesOK(editings, nextEdit, shop, r)
    BY <1>1 DEF CarriesOK
  <1>3. UNCHANGED <<shop, editings, nextEdit>>
    BY DEF geocode_fails, createBusinessHours_delete, createBusinessHours_save,
           createBusinessHours_duplicate, getBusinessHoursJson_read,
           getBusinessHoursJson_save, EditRequestDies
  <1> QED
    BY <1>1, <1>2, <1>3, QuietKeepsApproval

\* Storing the shop and the editing, and approving it.
LEMMA RowsKeepApproval ==
    ASSUME WeeksOK, ApprovalInv, NEW w \in Workers,
           \/ saveContribution_save(w) \/ submit_editing_save(w) \/ approve(w)
           \/ approve_load(w) \/ approve_save(w)
    PROVE  ApprovalInv' /\ ApprovedChange
  <1> DEFINE q == req[w]
  <1>0. CarriesOK(editings, nextEdit, shop, q) /\ RequestOK(editings, q) /\ DOMAIN req = Workers
    BY DEF ApprovalInv, WeeksOK
  <1>1. CASE saveContribution_save(w)
    <2> DEFINE r == ThenHours(q.week)
    <2>1. r.pc \in {"idle", "clear"}
      BY <1>0, <1>1, ThenHoursOK DEF saveContribution_save, RequestOK
    <2>2. EditingsKept
      BY <1>1 DEF saveContribution_save, EditingsKept, ApprovalInv
    <2>3. shop = NoRow /\ shop' \in Columns
      BY <1>0, <1>1 DEF saveContribution_save, CarriesOK
    <2>4. CarriesOK(editings', nextEdit', shop', r)
      BY <2>1 DEF CarriesOK
    <2>5. ApprovalInv'
      BY <1>0, <1>1, <2>1, <2>2, <2>3, <2>4, GoOnKeepsApproval DEF saveContribution_save
    <2> QED
      BY <2>3, <2>5 DEF ApprovedChange
  <1>2. CASE submit_editing_save(w)
    <2> DEFINE r == [pc |-> "approve", id |-> nextEdit]
    <2>1. EditingsKept
      BY <1>2 DEF submit_editing_save, EditingsKept, ApprovalInv, WeeksOK, EditIds
    <2>2. CarriesOK(editings', nextEdit', shop', r)
      BY <1>0, <1>2 DEF submit_editing_save, CarriesOK, ApprovalInv
    <2>3. ApprovalInv'
      BY <1>0, <1>2, <2>1, <2>2, GoOnKeepsApproval DEF submit_editing_save
    <2> QED
      BY <1>2, <2>3 DEF submit_editing_save, ApprovedChange
  <1>3. CASE approve(w)
    <2> DEFINE i == q.id
               r == [pc |-> "load", id |-> i]
    <2>1. i \in EditIds /\ i < nextEdit /\ editings[i] \in EditingRow /\ shop # NoRow
      BY <1>0, <1>3 DEF approve, CarriesOK, RequestOK
    <2>2. \A j \in EditIds : editings'[j] =
             IF j = i THEN [editings[i] EXCEPT !.status = APPROVED_STATUS] ELSE editings[j]
      BY <1>3 DEF approve, WeeksOK
    <2>3. LET e == [editings[i] EXCEPT !.status = APPROVED_STATUS] IN
             /\ e.status = APPROVED_STATUS
             /\ e.address = editings[i].address /\ e.info = editings[i].info
      BY <2>1 DEF EditingRow
    <2>4. EditingsKept
      BY <1>3, <2>2, <2>3 DEF approve, EditingsKept, ApprovalInv
    <2>5. CarriesOK(editings', nextEdit', shop', r)
      BY <1>3, <2>1, <2>2, <2>3 DEF approve, CarriesOK
    <2>6. ApprovalInv'
      BY <1>0, <1>3, <2>4, <2>5, GoOnKeepsApproval DEF approve
    <2> QED
      BY <1>3, <2>6 DEF approve, ApprovedChange
  <1>4. CASE approve_load(w)
    <2> DEFINE e == editings[q.id]
               c == [address |-> e.address, point |-> GeoOf[e.address],
                     info |-> Merged(shop.info, e.info)]
               r == [pc |-> "save", id |-> q.id, loaded |-> shop, columns |-> c]
    <2>1. /\ q.id \in EditIds /\ q.id < nextEdit /\ e \in EditingRow
          /\ e.status = APPROVED_STATUS /\ shop \in Columns /\ shop # NoRow
      BY <1>0, <1>4 DEF approve_load, CarriesOK, RequestOK, ApprovalInv
    <2>2. /\ Merged(shop.info, e.info) \in Info
          /\ \A k \in InfoKeys : \/ Merged(shop.info, e.info)[k] = e.info[k]
                                 \/ Merged(shop.info, e.info)[k] = shop.info[k]
      BY <2>1 DEF Merged, Info, EditingRow, Columns
    <2>3. c \in Columns
      BY <2>1, <2>2, GeoAssumption DEF Columns, EditingRow
    <2>4. CarriesOK(editings, nextEdit, shop, r)
      BY <2>1, <2>2, <2>3 DEF CarriesOK
    <2> QED
      BY <1>4, <2>4, QuietKeepsApproval DEF approve_load
  <1>5. CASE approve_save(w)
    <2> DEFINE r == ThenHours(editings[q.id].business_hours)
    <2>1. /\ q.id \in EditIds /\ editings[q.id] \in EditingRow
          /\ editings[q.id].status = APPROVED_STATUS
          /\ shop \in Columns /\ shop # NoRow /\ q.columns \in Columns
          /\ q.columns.address = editings[q.id].address
          /\ \A k \in InfoKeys : \/ q.columns.info[k] = editings[q.id].info[k]
                                 \/ q.columns.info[k] = q.loaded.info[k]
      BY <1>0, <1>5 DEF approve_save, CarriesOK, RequestOK, ApprovalInv
    <2>2. r.pc \in {"idle", "clear"}
      BY <2>1, ThenHoursOK DEF EditingRow, Weeks
    <2>3. /\ shop' \in Columns
          /\ shop'.address \in {shop.address, q.columns.address}
          /\ shop'.info \in {shop.info, q.columns.info}
      <3>1. DOMAIN shop = {"address", "point", "info"}
        BY <2>1 DEF Columns
      <3>2. /\ DOMAIN shop' = {"address", "point", "info"}
            /\ shop' = [c \in DOMAIN shop |-> IF Dirty(c, q.loaded, q.columns)
                                             THEN q.columns[c] ELSE shop[c]]
        BY <1>5, <3>1 DEF approve_save, DirtyUpdate
      <3>3. /\ shop'.address \in {shop.address, q.columns.address}
            /\ shop'.point \in {shop.point, q.columns.point}
            /\ shop'.info \in {shop.info, q.columns.info}
        BY <3>1, <3>2
      <3>4. shop' = [address |-> shop'.address, point |-> shop'.point, info |-> shop'.info]
        BY <3>1, <3>2
      <3>5. /\ shop'.address \in Addresses /\ shop'.point \in Points /\ shop'.info \in Info
        BY <2>1, <3>3 DEF Columns
      <3> QED
        BY <3>3, <3>4, <3>5 DEF Columns
    <2>4. EditingsKept
      BY <1>5 DEF approve_save, EditingsKept, ApprovalInv
    <2>5. CarriesOK(editings', nextEdit', shop', r)
      BY <2>2 DEF CarriesOK
    <2>6. ApprovalInv'
      BY <1>0, <1>5, <2>1, <2>2, <2>3, <2>4, <2>5, GoOnKeepsApproval DEF approve_save
    <2>7. q.id \in Approved
      BY <2>1, EditFreshAssumption DEF Approved
    <2>8. ApprovedChange
      BY <1>5, <2>1, <2>3, <2>7 DEF approve_save, ApprovedChange
    <2> QED
      BY <2>6, <2>8
  <1> QED
    BY <1>1, <1>2, <1>3, <1>4, <1>5

\* Requests that race, die or fail never make the record of a shop say what no
\* approved editing and no earlier version of it said.
THEOREM ChangesFollowApprovals == EditsSpec => ChangesAreApproved
  <1>1. EditsInit => WeeksOK /\ ApprovalInv
    <2>1. EditsInit => ApprovalInv
      BY IdleRequest DEF EditsInit, ApprovalInv, CarriesOK
    <2> QED
      BY <2>1, InitInv
  <1>2. ASSUME WeeksOK, ApprovalInv, [EditsNext]_editsVars PROVE ApprovalInv' /\ ApprovedChange
    <2>1. ASSUME NEW w \in Workers, EditStep(w) PROVE ApprovalInv' /\ ApprovedChange
      BY <1>2, <2>1, RowsKeepApproval, ElsewhereKeepsApproval DEF EditStep
    <2>2. ASSUME NEW w \in Workers, EditSubmit(w) \/ getBusinessHoursJson(w)
          PROVE  ApprovalInv' /\ ApprovedChange
      BY <1>2, <2>2, SubmitKeepsApproval
    <2>3. ASSUME NEW w \in Workers, EditRequestDies(w) PROVE ApprovalInv' /\ ApprovedChange
      BY <1>2, <2>3, ElsewhereKeepsApproval
    <2>4. CASE UNCHANGED editsVars
      BY <1>2, <2>4 DEF editsVars, ApprovalInv, ApprovedChange
    <2> QED
      BY <1>2, <2>1, <2>2, <2>3, <2>4 DEF EditsNext
  <1>3. WeeksOK /\ ApprovalInv /\ [EditsNext]_editsVars => (WeeksOK /\ ApprovalInv)'
    BY <1>2, NextKeeps
  <1>4. WeeksOK /\ ApprovalInv /\ [EditsNext]_editsVars => [ApprovedChange]_editsVars
    BY <1>2
  <1>5. [][ApprovedChange]_editsVars => ChangesAreApproved
    BY PTL DEF ChangesAreApproved, ApprovedChange
  <1> QED
    BY <1>1, <1>3, <1>4, <1>5, PTL DEF EditsSpec

=============================================================================
