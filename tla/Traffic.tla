-------------------------------- MODULE Traffic --------------------------------
(***************************************************************************)
(* Traffic accounting: the counters that turn the cumulative numbers of     *)
(* the two proxies into deltas (internal/supervisor/traffic.go for the     *)
(* Clash API of sing-box, internal/telegram/stats.go for mtg-multi), and   *)
(* the loop of cmd/soooski/main.go that polls both every two seconds and   *)
(* adds the deltas to the users' rows, while users move bytes, proxies     *)
(* restart and the administrator resets or deletes users.                  *)
(*                                                                         *)
(* Upload and download of a sing-box connection are handled alike and      *)
(* separately, so one number stands for each of them.  mtg's pair of       *)
(* counters is kept: one test decides on both.                             *)
(***************************************************************************)
EXTENDS Integers, FiniteSets, Functions

CONSTANTS
    Users,      \* user ids (AUTOINCREMENT: an id is never given out twice)
    Conns,      \* ids of sing-box connections (UUIDs), never reused
    Nobody,     \* owner of a connection no user tag is attached to
    MaxBytes,   \* bound on the bytes of one connection
    MaxTg,      \* bound on the bytes of one user on mtg
    Faults      \* which of "clash", "mtg", "db" may fail

ASSUME TrafficAssumption ==
    /\ Nobody \notin Users
    /\ IsFiniteSet(Conns)
    /\ MaxBytes \in Nat /\ MaxTg \in Nat
    /\ Faults \subseteq {"clash", "mtg", "db"}

VARIABLES
    owner,      \* user whose outbound tag is in a connection's chain
    conn,       \* sing-box: connections that are new, open or gone
    bytes,      \* sing-box: bytes a connection has moved so far
    listed,     \* mtg: users that /stats reports
    count,      \* mtg: bytes_in and bytes_out of a user, since mtg started
    seen,       \* Counter.seen, 0 for a connection it does not hold
    tgSeen,     \* StatsCounter.seen: a set of at most one pair per user
    exists,     \* rows of the users table
    traffic,    \* traffic_up + traffic_down of a row
    stamped,    \* users whose last_seen_at was ever set
    pc,         \* the loop: idle, mtg, users, charge
    deltas,     \* sing-box deltas still to be added, per user
    tgDeltas,   \* mtg deltas still to be added, per user
    live,       \* users to stamp in this round
    billed,     \* history: bytes of a connection that became a delta
    tgMoved,    \* history: all bytes a user ever moved through mtg
    tgBilled    \* history: bytes of a user on mtg that became a delta

proxies == <<conn, bytes, listed, count>>
counters == <<seen, tgSeen, billed, tgBilled>>
rows == <<exists, traffic, stamped>>
loop == <<pc, deltas, tgDeltas, live>>
vars == <<owner, proxies, counters, rows, loop, tgMoved>>

Pair == [in : Nat, out : Nat]
Zero == [in |-> 0, out |-> 0]
None == [u \in Users |-> 0]

TypeOK ==
    /\ owner \in [Conns -> Users \cup {Nobody}]
    /\ conn \in [Conns -> {"new", "open", "gone"}]
    /\ bytes \in [Conns -> Nat]
    /\ listed \in SUBSET Users
    /\ count \in [Users -> Pair]
    /\ seen \in [Conns -> Nat]
    /\ tgSeen \in [Users -> SUBSET Pair]
    /\ exists \in SUBSET Users
    /\ traffic \in [Users -> Nat]
    /\ stamped \in SUBSET Users
    /\ pc \in {"idle", "mtg", "users", "charge"}
    /\ deltas \in [Users -> Nat]
    /\ tgDeltas \in [Users -> Nat]
    /\ live \in SUBSET Users
    /\ billed \in [Conns -> Nat]
    /\ tgMoved \in [Users -> Nat]
    /\ tgBilled \in [Users -> Nat]

Init ==
    /\ owner \in [Conns -> Users \cup {Nobody}]
    /\ conn = [c \in Conns |-> "new"]
    /\ bytes = [c \in Conns |-> 0]
    /\ listed \in SUBSET Users
    /\ count = [u \in Users |-> Zero]
    /\ seen = [c \in Conns |-> 0]
    /\ tgSeen = [u \in Users |-> {}]
    /\ exists = Users
    /\ traffic = None
    /\ stamped = {}
    /\ pc = "idle"
    /\ deltas = None
    /\ tgDeltas = None
    /\ live = {}
    /\ billed = [c \in Conns |-> 0]
    /\ tgMoved = None
    /\ tgBilled = None

-------------------------------------------------------------------------------
(* The proxies. *)
Open(c) ==
    /\ conn[c] = "new"
    /\ conn' = [conn EXCEPT ![c] = "open"]
    /\ UNCHANGED <<owner, bytes, listed, count, counters, rows, loop, tgMoved>>

Move(c) ==
    /\ conn[c] = "open"
    /\ bytes[c] < MaxBytes
    /\ bytes' = [bytes EXCEPT ![c] = @ + 1]
    /\ UNCHANGED <<owner, conn, listed, count, counters, rows, loop, tgMoved>>

(* A user hangs up, or sing-box is restarted (then for every connection). *)
Close(C) ==
    /\ C # {} /\ \A c \in C : conn[c] = "open"
    /\ conn' = [c \in Conns |-> IF c \in C THEN "gone" ELSE conn[c]]
    /\ UNCHANGED <<owner, bytes, listed, count, counters, rows, loop, tgMoved>>

TgMove(u, dir) ==
    /\ u \in listed
    /\ tgMoved[u] < MaxTg
    /\ count' = [count EXCEPT ![u][dir] = @ + 1]
    /\ tgMoved' = [tgMoved EXCEPT ![u] = @ + 1]
    /\ UNCHANGED <<owner, conn, bytes, listed, counters, rows, loop>>

(* mtg restarts, or reloads another set of secrets: it reports the users L,   *)
(* and the counters of those in Z start again from zero.                       *)
TgRestart(L, Z) ==
    /\ listed' = L
    /\ count' = [u \in Users |-> IF u \in Z THEN Zero ELSE count[u]]
    /\ UNCHANGED <<owner, conn, bytes, counters, rows, loop, tgMoved>>

-------------------------------------------------------------------------------
(* Counter.Poll: for every attributed connection what it moved since it was   *)
(* last seen, never less than nothing; connections that are gone are          *)
(* forgotten.                                                                  *)
Attributed == {c \in Conns : conn[c] = "open" /\ owner[c] # Nobody}
Delta(c) == IF bytes[c] < seen[c] THEN 0 ELSE bytes[c] - seen[c]
ConnDeltaAfterBaseline ==
    [c \in Conns |-> IF c \in Attributed /\ seen[c] > 0 THEN Delta(c) ELSE 0]

ConnDelta == [c \in Conns |-> IF c \in Attributed THEN Delta(c) ELSE 0]

Poll ==
    /\ pc = "idle"
    /\ pc' = "mtg"
    /\ deltas' = [u \in Users |->
                    SumFunctionOnSet(ConnDelta, {c \in Conns : owner[c] = u})]
    /\ billed' = [c \in Conns |-> billed[c] + ConnDelta[c]]
    /\ seen' = [c \in Conns |-> IF c \in Attributed THEN bytes[c] ELSE 0]
    /\ live' = {owner[c] : c \in Attributed}
    /\ UNCHANGED <<owner, proxies, tgSeen, tgBilled, rows, tgDeltas, tgMoved>>

PollFails ==
    /\ "clash" \in Faults
    /\ pc = "idle"
    /\ pc' = "mtg"
    /\ UNCHANGED <<owner, proxies, counters, rows, deltas, tgDeltas, live, tgMoved>>

(* StatsCounter.Poll: the first sight of a user is a baseline and charges     *)
(* nothing; if either number went down, mtg has restarted and both are new.    *)
WentDown(u, prev) == count[u].in < prev.in \/ count[u].out < prev.out
TgDeltaWithoutRestart(u) ==
    IF u \notin listed \/ tgSeen[u] = {} THEN 0
    ELSE LET prev == CHOOSE p \in tgSeen[u] : TRUE
         IN  count[u].in - prev.in + count[u].out - prev.out
TgDeltaWithoutBaseline(u) ==
    IF u \notin listed THEN 0
    ELSE IF tgSeen[u] = {} THEN count[u].in + count[u].out
    ELSE LET prev == CHOOSE p \in tgSeen[u] : TRUE
             new == count[u].in + count[u].out
         IN  IF WentDown(u, prev) THEN new ELSE new - (prev.in + prev.out)

TgDelta(u) ==
    IF u \notin listed \/ tgSeen[u] = {} THEN 0
    ELSE LET prev == CHOOSE p \in tgSeen[u] : TRUE
             new == count[u].in + count[u].out
         IN  IF WentDown(u, prev) THEN new ELSE new - (prev.in + prev.out)

TgPollStampingAll ==
    /\ pc = "mtg"
    /\ pc' = "users"
    /\ tgDeltas' = [u \in Users |-> TgDelta(u)]
    /\ tgBilled' = [u \in Users |-> tgBilled[u] + TgDelta(u)]
    /\ tgSeen' = [u \in Users |-> IF u \in listed THEN {count[u]} ELSE {}]
    /\ live' = live \cup listed
    /\ UNCHANGED <<owner, proxies, seen, billed, rows, deltas, tgMoved>>

TgPoll ==
    /\ pc = "mtg"
    /\ pc' = "users"
    /\ tgDeltas' = [u \in Users |-> TgDelta(u)]
    /\ tgBilled' = [u \in Users |-> tgBilled[u] + TgDelta(u)]
    /\ tgSeen' = [u \in Users |-> IF u \in listed THEN {count[u]} ELSE {}]
    /\ live' = live \cup {u \in Users : TgDelta(u) > 0}
    /\ UNCHANGED <<owner, proxies, seen, billed, rows, deltas, tgMoved>>

TgPollFails ==
    /\ "mtg" \in Faults
    /\ pc = "mtg"
    /\ pc' = "users"
    /\ UNCHANGED <<owner, proxies, counters, rows, deltas, tgDeltas, live, tgMoved>>

(* The loop reads the users (on an error this round's deltas are dropped,     *)
(* although the counters have moved on) and stamps last_seen_at.               *)
Touch ==
    /\ pc = "users"
    /\ pc' = "charge"
    /\ \/ stamped' = stamped \cup (live \cap exists)
       \/ "db" \in Faults /\ UNCHANGED stamped
    /\ live' = {}
    /\ UNCHANGED <<owner, proxies, counters, exists, traffic, deltas, tgDeltas, tgMoved>>

UsersFails ==
    /\ "db" \in Faults
    /\ pc = "users"
    /\ pc' = "idle"
    /\ deltas' = None /\ tgDeltas' = None /\ live' = {}
    /\ UNCHANGED <<owner, proxies, counters, rows, tgMoved>>

(* One delta: UserByID skips a user that is gone, AddTraffic adds to the row  *)
(* (its error is ignored).  Deltas come in no particular order.                *)
SetTraffic(u, n) ==
    traffic' = IF u \in exists THEN [traffic EXCEPT ![u] = n] ELSE traffic

AddTraffic(u, n) ==
    \/ traffic' = IF u \in exists THEN [traffic EXCEPT ![u] = @ + n] ELSE traffic
    \/ "db" \in Faults /\ UNCHANGED traffic

ChargeAgain(u) ==
    /\ pc = "charge"
    /\ deltas[u] > 0
    /\ AddTraffic(u, deltas[u])
    /\ UNCHANGED <<owner, proxies, counters, exists, stamped, loop, tgMoved>>

Charge(u) ==
    /\ pc = "charge"
    /\ deltas[u] > 0
    /\ AddTraffic(u, deltas[u])
    /\ deltas' = [deltas EXCEPT ![u] = 0]
    /\ UNCHANGED <<owner, proxies, counters, exists, stamped, pc, tgDeltas, live, tgMoved>>

TgCharge(u) ==
    /\ pc = "charge"
    /\ deltas = None
    /\ tgDeltas[u] > 0
    /\ AddTraffic(u, tgDeltas[u])
    /\ tgDeltas' = [tgDeltas EXCEPT ![u] = 0]
    /\ UNCHANGED <<owner, proxies, counters, exists, stamped, pc, deltas, live, tgMoved>>

EndRound ==
    /\ pc = "charge"
    /\ deltas = None /\ tgDeltas = None
    /\ pc' = "idle"
    /\ UNCHANGED <<owner, proxies, counters, rows, deltas, tgDeltas, live, tgMoved>>

-------------------------------------------------------------------------------
(* The administrator. *)
ResetTraffic(u) ==
    /\ u \in exists
    /\ traffic' = [traffic EXCEPT ![u] = 0]
    /\ UNCHANGED <<owner, proxies, counters, exists, stamped, loop, tgMoved>>

DeleteUser(u) ==
    /\ exists' = exists \ {u}
    /\ traffic' = [traffic EXCEPT ![u] = 0]
    /\ stamped' = stamped \ {u}
    /\ UNCHANGED <<owner, proxies, counters, loop, tgMoved>>

-------------------------------------------------------------------------------
Round ==
    \/ Poll \/ PollFails \/ TgPoll \/ TgPollFails \/ Touch \/ UsersFails
    \/ \E u \in Users : Charge(u) \/ TgCharge(u)
    \/ EndRound

Proxies ==
    \/ \E c \in Conns : Open(c) \/ Move(c)
    \/ \E C \in SUBSET Conns : Close(C)
    \/ \E u \in Users, dir \in {"in", "out"} : TgMove(u, dir)
    \/ \E L, Z \in SUBSET Users : TgRestart(L, Z)

Admin == \E u \in Users : ResetTraffic(u) \/ DeleteUser(u)

Next == Round \/ Proxies \/ Admin

(* The ticker fires every two seconds for as long as the panel runs. *)
Spec == Init /\ [][Next]_vars /\ WF_vars(Round)

-------------------------------------------------------------------------------
(* No byte is charged twice: what was ever turned into a delta for a          *)
(* connection (Counter.Poll) or for a user on mtg (StatsCounter.Poll), across  *)
(* failed polls, restarts and lists that change, is at most what was moved.    *)
BilledOnce ==
    /\ \A c \in Conns : billed[c] <= bytes[c]
    /\ \A u \in Users : tgBilled[u] <= tgMoved[u]

(* No user pays for another: a row, with the deltas the loop still holds for   *)
(* it, never exceeds what that user's own connections and secret have moved.   *)
Moved(u) == SumFunctionOnSet(bytes, {c \in Conns : owner[c] = u}) + tgMoved[u]
RowsBacked == \A u \in Users : traffic[u] + deltas[u] + tgDeltas[u] <= Moved(u)

(* Nothing is dropped between the counters and the rows, as long as the        *)
(* database answers and no row is reset or deleted.                             *)
Billed(u) == SumFunctionOnSet(billed, {c \in Conns : owner[c] = u}) + tgBilled[u]
NothingDropped == \A u \in Users : traffic[u] + deltas[u] + tgDeltas[u] = Billed(u)

(* Polls, charges, lost rounds and resets are steps of the abstract ledger: a   *)
(* row grows only by deltas still due, a delta falls due only once and after    *)
(* its bytes moved, and what a reset took away does not come back.              *)
Accounts == INSTANCE Ledger WITH
    moved <- [u \in Users |-> Moved(u)],
    taken <- [u \in Users |-> Billed(u)],
    due <- [u \in Users |-> deltas[u] + tgDeltas[u]],
    row <- traffic
KeepsLedger == Accounts!Spec

(* A user whose last_seen_at is set has had a connection or moved bytes        *)
(* through mtg: being listed in /stats is not enough.                           *)
PresenceEarned ==
    \A u \in stamped \cup live :
        tgMoved[u] > 0 \/ \E c \in Conns : owner[c] = u /\ conn[c] # "new"

(* Every byte of a connection that stays open reaches the row, when the Clash  *)
(* API answers.                                                                 *)
EventuallyBilled ==
    \A c \in Conns, n \in 1..MaxBytes :
        (conn[c] = "open" /\ owner[c] # Nobody /\ bytes[c] >= n)
            ~> (conn[c] = "gone" \/ (pc = "idle" /\ billed[c] >= n))
===============================================================================
