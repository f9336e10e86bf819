-------------------------------- MODULE Ledger --------------------------------
(***************************************************************************)
(* What traffic accounting owes every user (the loop of                     *)
(* cmd/soooski/main.go and the two counters it polls): a row grows only by   *)
(* bytes that are due, bytes become due once, and only after they moved.     *)
(* Bytes may be lost on the way, never invented, kept for another user, or   *)
(* brought back by a reset.                                                 *)
(***************************************************************************)
EXTENDS Integers

CONSTANT Users

VARIABLES
    moved,      \* bytes a user has moved
    taken,      \* bytes of them that became a delta
    due,        \* deltas that are not yet added to the row
    row         \* what the users table says

vars == <<moved, taken, due, row>>

Nothing == [u \in Users |-> 0]

Init == moved = Nothing /\ taken = Nothing /\ due = Nothing /\ row = Nothing

Use ==
    /\ \A u \in Users : moved'[u] >= moved[u]
    /\ UNCHANGED <<taken, due, row>>

Collect ==
    /\ \A u \in Users : taken[u] <= taken'[u] /\ taken'[u] <= moved[u]
    /\ due' = [u \in Users |-> due[u] + (taken'[u] - taken[u])]
    /\ UNCHANGED <<moved, row>>

(* A delta is added to the row, or the statement fails and it is lost.         *)
Enter(u) ==
    \E n \in 1..due[u] :
        /\ due' = [due EXCEPT ![u] = @ - n]
        /\ row' \in {row, [row EXCEPT ![u] = @ + n]}
        /\ UNCHANGED <<moved, taken>>

Drop == due' = Nothing /\ UNCHANGED <<moved, taken, row>>

Reset(u) == row' = [row EXCEPT ![u] = 0] /\ UNCHANGED <<moved, taken, due>>

Next == Use \/ Collect \/ Drop \/ \E u \in Users : Enter(u) \/ Reset(u)

Spec == Init /\ [][Next]_vars
===============================================================================
