------------------------------- MODULE MCTraffic -------------------------------
(***************************************************************************)
(* Traffic on small instances.  A behaviour is calm, with one user who moves *)
(* several bytes, no administrator, and a Clash API and a database that       *)
(* answer; or it is not, with two users who move a byte through each proxy.   *)
(***************************************************************************)
EXTENDS Traffic

CONSTANTS u1, u2

VARIABLE calm

mcvars == <<vars, calm>>

CalmInit == listed \subseteq {u1} /\ \A c \in Conns : owner[c] # u2
MCInit == Init /\ calm \in BOOLEAN /\ (calm => CalmInit)

CalmRound ==
    /\ calm /\ UNCHANGED calm
    /\ \/ Poll \/ TgPoll \/ TgPollFails \/ Touch \/ EndRound
       \/ \E u \in Users : (Charge(u) \/ TgCharge(u)) /\ traffic' # traffic
CalmProxies == calm /\ UNCHANGED calm /\ Proxies /\ listed' \subseteq {u1}

Small == (\A c \in Conns : bytes[c] <= 1) /\ tgMoved[u1] + tgMoved[u2] <= 1
RoughNext == ~calm /\ UNCHANGED calm /\ Next /\ Small'

MCSpec == MCInit /\ [][CalmRound \/ CalmProxies \/ RoughNext]_mcvars /\ WF_mcvars(CalmRound)

(* Traffic!NothingDropped, as long as the database answers and nobody resets or  *)
(* deletes.                                                                       *)
CalmDropsNothing == calm => NothingDropped

(* Every byte of a connection that stays open becomes a delta, when the Clash    *)
(* API answers.                                                                   *)
CalmBills == calm => EventuallyBilled
===============================================================================
