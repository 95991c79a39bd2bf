------------------------------ MODULE LiveApp ------------------------------
(***************************************************************************)
(* What the publishing pipeline promises a tenant's app users: submissions *)
(* are numbered as they arrive, at most one is live, and the live one only *)
(* ever gives way to a later submission. Once live, the app stays live.    *)
(***************************************************************************)
EXTENDS Naturals

VARIABLES
    count,   \* submissions so far
    live     \* the number of the live submission, 0 before the first approval

vars == <<count, live>>

Init == count = 0 /\ live = 0

Submit == count' = count + 1 /\ UNCHANGED live

GoLive == live' \in live + 1 .. count /\ UNCHANGED count

Next == Submit \/ GoLive

Spec == Init /\ [][Next]_vars
=============================================================================
