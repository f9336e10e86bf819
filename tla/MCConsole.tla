------------------------------- MODULE MCConsole -------------------------------
(***************************************************************************)
(* Constants for TLC: two paths, the second typed with a slash, and no path. *)
(* A behaviour is steady, with one tab that stays logged in, more clicks and  *)
(* nothing lost; or it is not, with two tabs and fewer clicks.                 *)
(***************************************************************************)
EXTENDS Console

CONSTANTS a, b, slashB, bad, f, g, t1, t2,
          FewClicks   \* bound on the clicks of a behaviour that is not steady

VARIABLE steady

mcvars == <<vars, steady>>

MCNormal == [p \in Typing |-> CASE p = slashB -> b [] p = bad -> Invalid [] OTHER -> p]

(* The fake domains are alike, and so are the tabs. *)
MCInit ==
    /\ Init
    /\ stored = [path |-> a, fake |-> f]
    /\ authed[t1] = "unknown"
    /\ steady \in BOOLEAN /\ (steady => issued = 1)

Steady ==
    /\ odd = 0 /\ cli = "idle" /\ authed[t2] = "gone"
    /\ \A s \in Slots : req[s].kind \notin {"login", "logout"}
    /\ copy[t1].path \in Paths \cup {Absent}

Few ==
    /\ clicks' <= FewClicks /\ (clicks = FewClicks => \A t \in Tabs : ~Type(t))
    /\ \A t \in Tabs : edited'[t] # {"path", "fake"}

MCNext == Next /\ UNCHANGED steady /\ IF steady THEN Steady' ELSE Few
MCSpec == MCInit /\ [][MCNext]_mcvars /\ Fairness
===============================================================================
