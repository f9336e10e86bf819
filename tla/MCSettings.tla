------------------------------ MODULE MCSettings ------------------------------
(***************************************************************************)
(* Settings on small instances.  In a behaviour either one goroutine serves   *)
(* any number of requests, which name several settings or find several users;  *)
(* or several serve a few requests, with fewer names and one user.             *)
(***************************************************************************)
EXTENDS Settings, TLC

CONSTANTS
    h1,
    Modes,        \* may requests overlap?
    MaxRequests,  \* bound: requests when they may
    MaxNames      \* bound: names then

VARIABLES overlaps, begun

mcvars == <<vars, overlaps, begun>>

PutNames(h) == {req[h].put.host, req[h].put.reality, req[h].put.fake}
Used == Names \cap ({host, reality, fake, core} \cup domains \cup {mtg[u] : u \in Users}
                    \cup UNION {PutNames(h) \cup req[h].add : h \in Handlers})
Known == {u \in Users : secret[u] # "new"}
Named(h) == {f \in DOMAIN NoPut : req[h].put[f] # Keep}
Medium ==
    \A h \in Handlers : Cardinality(Known) + Cardinality(domains) + Cardinality(Named(h)) <= 3
Small ==
    /\ Cardinality(Used) <= MaxNames /\ Cardinality(Known) <= 1
    /\ \A h \in Handlers : Cardinality(Named(h)) <= 1
Starts(h) == pc[h] = "idle" /\ pc'[h] # "idle"

MCInit == Init /\ begun = 0 /\ overlaps \in Modes /\ (overlaps => Small)

Serial == ~overlaps /\ Step(h1) /\ Medium' /\ UNCHANGED <<overlaps, begun>>
(* The goroutines are alike: the others start only while this one is busy.      *)
Overlapping ==
    /\ overlaps /\ UNCHANGED overlaps
    /\ \E h \in Handlers :
          /\ pc[h] = "idle" => begun < MaxRequests /\ (h = h1 \/ pc[h1] # "idle")
          /\ Step(h)
          /\ begun' = IF Starts(h) THEN begun + 1 ELSE begun
    /\ Small'
Over == overlaps /\ begun = MaxRequests /\ AtRest /\ UNCHANGED mcvars

MCSpec == MCInit /\ [][Serial \/ Overlapping \/ Over]_mcvars

MCSymmetry == Permutations(Names) \cup Permutations(Users)
===============================================================================
