----------------------------- MODULE ShopEdits -----------------------------
(***************************************************************************)
(* The record of one shop and everything that writes it: the contribution  *)
(* form (CommunityController::saveContribution), the editing form (the     *)
(* /submit-editing route and Editing::approve), the opening hours behind   *)
(* both (Entity::createBusinessHours) and the map pages, which cache the   *)
(* opening hours in the shop's row (Entity::getBusinessHoursJson).         *)
(*                                                                         *)
(* No statement of these handlers touches two shops, so the module follows *)
(* one.  Its name is written exactly where its address is and is left out. *)
(* As everywhere on the site there is no transaction: one SQL statement is *)
(* one action.                                                             *)
(***************************************************************************)
EXTENDS Integers, FiniteSets, Site

CONSTANTS
    Addresses,  \* addresses the forms may carry
    Points,     \* coordinates
    GeoOf,      \* what the geocoding service answers for an address
    Exact,      \* points whose DECIMAL columns read back as the very text stored
    InfoKeys,   \* getInfoKeys()
    InfoVals,   \* values of the info fields
    Blank,      \* '' in a form, a key without a value in the row
    NDays,      \* days of the week that have opening hours (7 in the code)
    Hours,      \* opening hours of one day
    Closed,     \* 'open' => null, 'close' => null
    Timetables, \* weeks a form may carry
    MaxEdits,   \* bound: auto-increment ids ever given to editings
    Unset,      \* business_hours_json === '', business_hours === null
    HoursOn     \* config('nomadic.business-hours-enabled')

Days == 1..NDays
EditIds  == 1..MaxEdits
Info == [InfoKeys -> InfoVals \cup {Blank}]

APPROVED_STATUS == 10

\* Editing rows; business_hours is null when the form changes none.
EditingRow == [address : Addresses, info : Info,
               business_hours : Timetables \cup {Unset},
               status : {CREATED_STATUS, APPROVED_STATUS}]

\* The columns of the shop's row that forms write.
Columns == [address : Addresses, point : Points, info : Info]

ASSUME GeoAssumption   == GeoOf \in [Addresses -> Points] /\ Exact \subseteq Points
ASSUME DaysAssumption  == NDays \in Nat \ {0}
ASSUME HoursAssumption == Closed \in Hours /\ Timetables \subseteq [Days -> Hours]
ASSUME EditsAssumption == MaxEdits \in Nat
ASSUME EditFreshAssumption ==
    /\ NoRow \notin Hours /\ NoRow \notin EditingRow /\ NoRow \notin Columns
    /\ Unset \notin [Days -> Hours]
    /\ Blank \notin InfoVals
ASSUME HoursSwitchAssumption == HoursOn \in BOOLEAN /\ MayDie \in BOOLEAN

VARIABLES
    shop,       \* the shop's row: NoRow until it is contributed
    cached,     \* its column business_hours_json
    hours,      \* table business_hours: day -> hours or NoRow
    editings,   \* table editings: id -> row or NoRow
    nextEdit    \* its auto-increment counter

editsVars == <<shop, cached, hours, editings, nextEdit, req>>

-----------------------------------------------------------------------------
(* Helpers *)

Present(h) == {d \in Days : h[d] # NoRow}

\* Entity::generateBusinessHoursJson: the n-th row found fills the n-th day,
\* whatever day it is for; days left over are closed.
generateBusinessHoursJson(h) ==
    [n \in Days |->
        IF n =< Cardinality(Present(h))
        THEN h[CHOOSE d \in Present(h) :
                  Cardinality({c \in Present(h) : c < d}) = n - 1]
        ELSE Closed]

\* The fields Editing::approve writes: blank ones keep what the row has.
Merged(old, new) == [k \in InfoKeys |-> IF new[k] # Blank THEN new[k] ELSE old[k]]

\* Eloquent's isDirty: columns are compared as text.  24.8097346 is read back
\* from DECIMAL(10,8) as "24.80973460", so most coordinates differ from
\* themselves.
Dirty(c, loaded, new) ==
    new[c] # loaded[c] \/ (c = "point" /\ new.point \notin Exact)

\* Eloquent's save(): only dirty columns are sent.
DirtyUpdate(row, loaded, new) ==
    [c \in DOMAIN row |-> IF Dirty(c, loaded, new) THEN new[c] ELSE row[c]]

\* createBusinessHours is next, or the handler ends.
ThenHours(week) ==
    IF week = Unset THEN Idle ELSE [pc |-> "clear", week |-> week]

-----------------------------------------------------------------------------
(* saveContribution: the shop is geocoded, stored, then given its hours.   *)
(* The id is fresh, so only one request ever creates this shop.  When the  *)
(* geocoding fails the handler ends and has stored nothing.                *)

saveContribution(w, a, f, week) ==
    /\ req[w] = Idle
    /\ shop = NoRow
    /\ \A v \in Workers : req[v].pc # "create"
    /\ Goto(w, [pc |-> "create", week |-> IF HoursOn THEN week ELSE Unset,
                columns |-> [address |-> a, point |-> GeoOf[a], info |-> f]])
    /\ UNCHANGED <<shop, cached, hours, editings, nextEdit>>

saveContribution_save(w) ==
    /\ req[w].pc = "create"
    /\ shop' = req[w].columns
    /\ Goto(w, ThenHours(req[w].week))
    /\ UNCHANGED <<cached, hours, editings, nextEdit>>

-----------------------------------------------------------------------------
(* /submit-editing and Editing::approve *)

\* The hours of the form are kept only when they differ from the stored ones.
submit_editing(w, a, f, week) ==
    /\ req[w] = Idle
    /\ shop # NoRow
    /\ Goto(w, [pc |-> "submit",
                row |-> [address |-> a, info |-> f, status |-> CREATED_STATUS,
                         business_hours |->
                            IF HoursOn /\ week # generateBusinessHoursJson(hours)
                            THEN week ELSE Unset]])
    /\ UNCHANGED <<shop, cached, hours, editings, nextEdit>>

submit_editing_save(w) ==
    /\ req[w].pc = "submit"
    /\ nextEdit \in EditIds
    /\ editings' = [editings EXCEPT ![nextEdit] = req[w].row]
    /\ nextEdit' = nextEdit + 1
    /\ Goto(w, [pc |-> "approve", id |-> nextEdit])
    /\ UNCHANGED <<shop, cached, hours>>

\* Fault: the mark is not saved.
FaultyApprove(w) ==
    /\ req[w].pc = "approve"
    /\ Goto(w, [pc |-> "load", id |-> req[w].id])
    /\ UNCHANGED <<shop, cached, hours, editings, nextEdit>>

\* approve() marks the editing first.
approve(w) ==
    /\ req[w].pc = "approve"
    /\ editings' = [editings EXCEPT ![req[w].id].status = APPROVED_STATUS]
    /\ Goto(w, [pc |-> "load", id |-> req[w].id])
    /\ UNCHANGED <<shop, cached, hours, nextEdit>>

\* It then loads the shop, merges the form into it and asks for coordinates.
approve_load(w) ==
    /\ req[w].pc = "load"
    /\ LET e == editings[req[w].id] IN
         Goto(w, [pc |-> "save", id |-> req[w].id, loaded |-> shop,
                  columns |-> [address |-> e.address,
                               point   |-> GeoOf[e.address],
                               info    |-> Merged(shop.info, e.info)]])
    /\ UNCHANGED <<shop, cached, hours, editings, nextEdit>>

\* The geocoding service fails or knows no such address: setupEntityCoordinate
\* stops the request, which leaves an approved editing that was not applied.
geocode_fails(w) ==
    /\ req[w].pc = "load"
    /\ Goto(w, Idle)
    /\ UNCHANGED <<shop, cached, hours, editings, nextEdit>>

approve_save(w) ==
    /\ req[w].pc = "save"
    /\ shop' = DirtyUpdate(shop, req[w].loaded, req[w].columns)
    /\ Goto(w, ThenHours(editings[req[w].id].business_hours))
    /\ UNCHANGED <<cached, hours, editings, nextEdit>>

-----------------------------------------------------------------------------
(* Entity::createBusinessHours *)

\* Fault: the loop starts at the second day.
FaultyHoursDelete(w) ==
    /\ req[w].pc = "clear"
    /\ hours' = [d \in Days |-> NoRow]
    /\ Goto(w, [pc |-> "fill", week |-> req[w].week, day |-> 2])
    /\ UNCHANGED <<shop, cached, editings, nextEdit>>

\* The rows of all days are deleted in one statement ...
createBusinessHours_delete(w) ==
    /\ req[w].pc = "clear"
    /\ hours' = [d \in Days |-> NoRow]
    /\ Goto(w, [pc |-> "fill", week |-> req[w].week, day |-> 1])
    /\ UNCHANGED <<shop, cached, editings, nextEdit>>

\* ... and stored again one by one.
createBusinessHours_save(w) ==
    /\ req[w].pc = "fill"
    /\ hours[req[w].day] = NoRow
    /\ hours' = [hours EXCEPT ![req[w].day] = req[w].week[req[w].day]]
    /\ Goto(w, IF req[w].day = NDays THEN Idle
               ELSE [req[w] EXCEPT !.day = req[w].day + 1])
    /\ UNCHANGED <<shop, cached, editings, nextEdit>>

\* The primary key (entity_id, day) is taken: the INSERT throws.
createBusinessHours_duplicate(w) ==
    /\ req[w].pc = "fill"
    /\ hours[req[w].day] # NoRow
    /\ Goto(w, Idle)
    /\ UNCHANGED <<shop, cached, hours, editings, nextEdit>>

-----------------------------------------------------------------------------
(* A map page that shows the shop: Entity::getBusinessHoursJson *)

getBusinessHoursJson(w) ==
    /\ req[w] = Idle
    /\ shop # NoRow
    /\ cached = Unset
    /\ Goto(w, [pc |-> "generate"])
    /\ UNCHANGED <<shop, cached, hours, editings, nextEdit>>

getBusinessHoursJson_read(w) ==
    /\ req[w].pc = "generate"
    /\ Goto(w, [pc |-> "cache", json |-> generateBusinessHoursJson(hours)])
    /\ UNCHANGED <<shop, cached, hours, editings, nextEdit>>

getBusinessHoursJson_save(w) ==
    /\ req[w].pc = "cache"
    /\ cached' = req[w].json
    /\ Goto(w, Idle)
    /\ UNCHANGED <<shop, hours, editings, nextEdit>>

-----------------------------------------------------------------------------

EditRequestDies(w) ==
    /\ MayDie
    /\ req[w] # Idle
    /\ Goto(w, Idle)
    /\ UNCHANGED <<shop, cached, hours, editings, nextEdit>>

EditsInit ==
    /\ shop = NoRow
    /\ cached = Unset
    /\ hours = [d \in Days |-> NoRow]
    /\ editings = [i \in EditIds |-> NoRow]
    /\ nextEdit = 1
    /\ req = [w \in Workers |-> Idle]

EditSubmit(w) ==
    \E a \in Addresses, f \in Info, week \in Timetables :
        \/ saveContribution(w, a, f, week)
        \/ submit_editing(w, a, f, week)

EditStep(w) ==
    \/ saveContribution_save(w)
    \/ submit_editing_save(w)
    \/ approve(w)
    \/ approve_load(w)
    \/ geocode_fails(w)
    \/ approve_save(w)
    \/ createBusinessHours_delete(w)
    \/ createBusinessHours_save(w)
    \/ createBusinessHours_duplicate(w)
    \/ getBusinessHoursJson_read(w)
    \/ getBusinessHoursJson_save(w)

EditsNext ==
    \E w \in Workers :
        \/ EditSubmit(w)
        \/ getBusinessHoursJson(w)
        \/ EditStep(w)
        \/ EditRequestDies(w)

EditsSpec == EditsInit /\ [][EditsNext]_editsVars

-----------------------------------------------------------------------------
(* Properties *)

Approved == {i \in EditIds : editings[i] # NoRow /\ editings[i].status = APPROVED_STATUS}

\* Once a shop is stored, its address and its info fields change only to what
\* an editing that is on record as approved says, even when requests die
\* between approve()'s two saves or the geocoding fails.  The one other value a
\* field can take is an older one, from a request that loaded it earlier.
ChangesAreApproved ==
    [][shop # NoRow =>
         /\ shop'.address # shop.address =>
               \E i \in Approved : editings[i].address = shop'.address
         /\ \A k \in InfoKeys : shop'.info[k] # shop.info[k] =>
               \/ \E i \in Approved : editings[i].info[k] = shop'.info[k]
               \/ \E w \in Workers : req[w].pc = "save"
                                     /\ req[w].loaded.info[k] = shop'.info[k]]_editsVars

\* Workers that are rewriting the opening hours, about to store day d.
FillingAt(d) == {w \in Workers : req[w].pc = "fill" /\ req[w].day = d}
Filling == {w \in Workers : req[w].pc = "fill"}

\* Either the shop has no hours and nobody is storing any, or every gap in its
\* week starts at a day that some request is about to store.
GapsAreBeingFilled ==
    \/ Present(hours) = {} /\ Filling = {}
    \/ \A d \in Days \ Present(hours) :
          (d = 1 \/ d - 1 \in Present(hours)) => FillingAt(d) # {}

\* Requests that rewrite the hours at the same time delete each other's rows
\* and die on the primary key.  This leaves no gap behind, on which the shop's
\* page would throw (Presenter::_businessHour): only a request that is killed
\* from outside, not one that meets a taken key, can leave a gap that nobody is
\* filling.
OnlyDeathsLeaveGaps ==
    [][GapsAreBeingFilled /\ ~GapsAreBeingFilled' =>
         \E w \in Workers : EditRequestDies(w) /\ ~createBusinessHours_duplicate(w)]_editsVars

=============================================================================
