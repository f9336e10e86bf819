-------------------------------- MODULE MCPages --------------------------------
(***************************************************************************)
(* Constants for TLC.  A kilo is four and a cent a quarter: a megabyte is 16, *)
(* a gigabyte 64, and limits exist which a form rounds up, down or away.       *)
(***************************************************************************)
EXTENDS Pages

CONSTANTS n1, n2, s1, s2

(* Another's row: name, switch, limit, usage and date. *)
Stored(e, l, u, t) == [born |-> 1, name |-> n1, enable |-> e, limit |-> l, used |-> u, expire |-> t]
Fields(n, e, l, t) == [name |-> n, enable |-> e, limit |-> l, expire |-> t]

(* A date that passed in the middle of this day and a limit of a gigabyte and    *)
(* six bytes; a limit used up, on a user who is disabled, that the form rounds to *)
(* nothing; disabled, with a limit under a gigabyte.                               *)
MCExisting == {Stored(TRUE, 70, 0, 4), Stored(FALSE, 1, 1, 7), Stored(FALSE, 63, 0, Never)}
MCTyped == {Fields(n1, TRUE, 1, 7), Fields(n2, FALSE, 64, Never)}
===============================================================================
