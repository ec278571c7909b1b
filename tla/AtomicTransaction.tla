-------------------------- MODULE AtomicTransaction --------------------------
(***************************************************************************)
(* What Repo.Transaction promises its caller (spec section 4.4), with the  *)
(* call as one unit: while a call runs the store does not change, and     *)
(* when it ends it either returns nil with the store replaced by what fn  *)
(* wrote, or returns an error or panics with the store as it was.         *)
(***************************************************************************)
CONSTANTS Keys, Vals, NoVal, ErrKinds, PanicVals

Store == [Keys -> Vals \cup {NoVal}]

Ok == [how |-> "return", val |-> "nil"]

(* How a call can end other than with nil.                                *)
Failures == [how : {"return"}, val : ErrKinds]
              \cup [how : {"panic"}, val : PanicVals]

VARIABLES
    db,       \* the committed store
    busy,     \* a call is running
    result    \* how the last call ended

Init ==
    /\ db \in Store
    /\ ~busy
    /\ result = [how |-> "none", val |-> "nil"]

Start ==
    /\ ~busy
    /\ busy'
    /\ UNCHANGED <<db, result>>

Finish ==
    /\ busy
    /\ ~busy'
    /\ \/ result' = Ok /\ db' \in Store
       \/ result' \in Failures /\ UNCHANGED db

Spec == Init /\ [][Start \/ Finish]_<<db, busy, result>>

=============================================================================
