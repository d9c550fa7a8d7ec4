------------------------------- MODULE Site --------------------------------
(***************************************************************************)
(* What the content pages of the site (Reviews, ShopEdits, Forum) share:   *)
(* PHP workers, each of which runs one handler at a time, and the way a    *)
(* handler goes from one SQL statement to the next.                        *)
(***************************************************************************)

CONSTANTS
    Users,      \* signed-in users
    Workers,    \* PHP workers, each runs one request at a time
    NoRow,      \* a row that is not in its table
    MayDie      \* whether a request can be cut short between two statements

\* The status a new row gets.
CREATED_STATUS == 0

VARIABLE req    \* what each worker is doing

Idle == [pc |-> "idle"]

\* The statement of worker w after this one.
Goto(w, r) == req' = [req EXCEPT ![w] = r]

=============================================================================
