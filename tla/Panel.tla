--------------------------------- MODULE Panel ---------------------------------
(***************************************************************************)
(* From the users table to the two proxies: the request handlers of        *)
(* internal/api/server.go that change users, the charging loop of          *)
(* cmd/soooski/main.go, and the apply closure that both of them call.      *)
(*                                                                         *)
(* apply takes no lock.  SQLite runs one statement at a time, so one action *)
(* is one statement, or the replacement of one proxy's configuration       *)
(* (modules Supervisor and TelegramRunner look inside those).              *)
(***************************************************************************)
EXTENDS Naturals, FiniteSets

CONSTANTS
    Users,      \* user ids; an id is given out once
    Handlers,   \* goroutines that serve the administrator's requests
    Poller,     \* the goroutine of the charging loop
    Limits,     \* traffic limits, 0 for unlimited
    MaxUsed,    \* bound: usage saturates here, above every limit
    Never,      \* no expiry date
    Keep,       \* a field that the request's JSON leaves out
    MaxTime,    \* bound on the clock
    Faults,     \* what may go wrong: "core", "telegram", "db", "collide"
    Serial      \* TRUE: only executions in which requests do not overlap

Times == 0..MaxTime

ASSUME PanelAssumption ==
    /\ Poller \notin Handlers
    /\ MaxUsed \in Nat /\ MaxTime \in Nat
    /\ 0 \in Limits /\ Limits \subseteq 0..MaxUsed
    /\ Never \notin Nat /\ Keep \notin BOOLEAN \cup Nat \cup {Never}
    /\ Faults \subseteq {"core", "telegram", "db", "collide"}
    /\ Serial \in BOOLEAN

VARIABLES
    row,        \* the users table
    now,        \* the clock
    served,     \* users in the configuration sing-box runs
    secrets,    \* users in the configuration mtg runs
    pc,         \* where each goroutine is
    req,        \* a handler's request: operation, user and the JSON's fields
    copy,       \* updateUser's u
    snap,       \* the users of apply's snapshot
    todo,       \* users the loop has a delta for, still to be charged
    cur,        \* the user the loop is charging, {} between two users
    was,        \* the loop's wasActive
    changed,    \* the loop's changed
    trusted,    \* history: no overlap, fault or tick since the last repair
    solo,       \* history: the goroutines that took their snapshot alone
    collided    \* history: two goroutines were inside the same proxy's Apply

Threads == Handlers \cup {Poller}
database == <<row, now>>
proxies == <<served, secrets>>
round == <<todo, cur, was, changed>>
history == <<trusted, solo, collided>>
vars == <<database, proxies, pc, req, copy, snap, round, history>>

Row == [st : {"new", "row", "gone"}, enable : BOOLEAN, limit : Limits,
        used : 0..MaxUsed, expire : Times \cup {Never}]
Blank == [st |-> "new", enable |-> FALSE, limit |-> 0, used |-> 0, expire |-> Never]
Patch == [enable : BOOLEAN \cup {Keep}, limit : Limits \cup {Keep},
          expire : Times \cup {Never, Keep}]
NoPatch == [enable |-> Keep, limit |-> Keep, expire |-> Keep]
Operations == {"none", "update", "reset", "delete", "create", "apply"}
Request == [op : Operations, user : SUBSET Users, patch : Patch]
NoRequest == [op |-> "none", user |-> {}, patch |-> NoPatch]
Steps == {"idle", "read", "write", "before", "add", "after", "snap", "core", "tele"}

-------------------------------------------------------------------------------
(* models.User: Expired, OverQuota, Active. *)
Expired(r) == r.expire # Never /\ now > r.expire
OverQuota(r) == r.limit > 0 /\ r.used >= r.limit
Active(r) == r.st = "row" /\ r.enable /\ ~Expired(r) /\ ~OverQuota(r)
ActiveUsers(rows) == {u \in Users : Active(rows[u])}

TypeOK ==
    /\ row \in [Users -> Row]
    /\ now \in Times
    /\ served \in SUBSET Users
    /\ secrets \in SUBSET Users
    /\ pc \in [Threads -> Steps]
    /\ req \in [Handlers -> Request]
    /\ copy \in [Handlers -> Row]
    /\ snap \in [Threads -> [Users -> Row]]
    /\ todo \in SUBSET Users
    /\ cur \in SUBSET Users
    /\ was \in BOOLEAN /\ changed \in BOOLEAN
    /\ trusted \in BOOLEAN /\ collided \in BOOLEAN
    /\ solo \in SUBSET Threads

NoRows == [u \in Users |-> Blank]

(* After the start-up apply, before the first request. *)
Init ==
    /\ row \in [Users -> {r \in Row : r.used = 0 /\ (r.st = "row" \/ r = Blank)}]
    /\ now = 0
    /\ served = ActiveUsers(row)
    /\ secrets = ActiveUsers(row)
    /\ pc = [t \in Threads |-> "idle"]
    /\ req = [h \in Handlers |-> NoRequest]
    /\ copy = [h \in Handlers |-> Blank]
    /\ snap = [t \in Threads |-> NoRows]
    /\ todo = {} /\ cur = {} /\ was = FALSE /\ changed = FALSE
    /\ trusted = TRUE /\ solo = {} /\ collided = FALSE

Goto(t, from, to) == pc[t] = from /\ pc' = [pc EXCEPT ![t] = to]
OthersIdle(t) == \A s \in Threads \ {t} : pc[s] = "idle"

(* A goroutine leaves "idle". *)
Begin(t, to) ==
    /\ Goto(t, "idle", to)
    /\ Serial => OthersIdle(t)
    /\ trusted' = (trusted /\ OthersIdle(t))
    /\ solo' = {}
    /\ UNCHANGED collided

(* It is back: its locals are gone. *)
Finish(t, from) ==
    /\ Goto(t, from, "idle")
    /\ req' = [h \in Handlers |-> IF h = t THEN NoRequest ELSE req[h]]
    /\ copy' = [h \in Handlers |-> IF h = t THEN Blank ELSE copy[h]]
    /\ snap' = [snap EXCEPT ![t] = NoRows]
    /\ changed' = (t # Poller /\ changed)
    /\ UNCHANGED <<todo, cur, was>>

-------------------------------------------------------------------------------
(* The apply closure: a snapshot, sing-box, and then mtg.  Its callers ignore *)
(* its error, and nothing tries again.                                         *)
Snapshot(t) ==
    /\ Goto(t, "snap", "core")
    /\ snap' = [snap EXCEPT ![t] = row]
    /\ solo' = IF OthersIdle(t) THEN {t} ELSE {}
    /\ UNCHANGED <<database, proxies, req, copy, round, trusted, collided>>

(* Also: updateUser wrote the row and could not store a new Telegram secret.   *)
SnapshotFails(t) ==
    /\ "db" \in Faults
    /\ Finish(t, "snap")
    /\ trusted' = FALSE
    /\ UNCHANGED <<database, proxies, solo, collided>>

(* Active() is asked when the configuration is compiled, by the clock. *)
ApplyCore(t) ==
    /\ Goto(t, "core", "tele")
    /\ served' = ActiveUsers(snap[t])
    /\ UNCHANGED <<database, secrets, req, copy, snap, round, history>>

(* sing-box keeps its configuration or is down; mtg is not touched. *)
ApplyCoreFails(t) ==
    /\ "core" \in Faults
    /\ Finish(t, "core")
    /\ served' \in {served, {}}
    /\ trusted' = FALSE
    /\ UNCHANGED <<database, secrets, solo, collided>>

(* Two goroutines inside Supervisor.Apply at once: one of the two processes   *)
(* they start may be lost and keep the ports (module Supervisor), and what is  *)
(* served from then on is anybody's guess.                                      *)
Meets(t, step) ==
    /\ "collide" \in Faults
    /\ \E s \in Threads \ {t} : pc[s] = step
    /\ trusted' = FALSE /\ collided' = TRUE
    /\ UNCHANGED <<database, solo>>

CoreCollides(t) ==
    /\ Meets(t, "core")
    /\ Goto(t, "core", "tele")
    /\ served' \in SUBSET Users
    /\ UNCHANGED <<secrets, req, copy, snap, round>>

ApplyTelegramRemovingOnly(t) ==
    /\ Finish(t, "tele")
    /\ secrets' = secrets \cap ActiveUsers(snap[t])
    /\ trusted' = (trusted \/ (t \in solo /\ ~collided))
    /\ UNCHANGED <<database, served, solo, collided>>

ApplyTelegram(t) ==
    /\ Finish(t, "tele")
    /\ secrets' = ActiveUsers(snap[t])
    /\ trusted' = (trusted \/ (t \in solo /\ ~collided))
    /\ UNCHANGED <<database, served, solo, collided>>

ApplyTelegramFails(t) ==
    /\ "telegram" \in Faults
    /\ Finish(t, "tele")
    /\ secrets' \in {secrets, {}}
    /\ trusted' = FALSE
    /\ UNCHANGED <<database, served, solo, collided>>

(* Likewise inside Runner.Apply, whose cache then no longer describes what mtg *)
(* has loaded (module TelegramRunner).                                          *)
TelegramCollides(t) ==
    /\ Meets(t, "tele")
    /\ Finish(t, "tele")
    /\ secrets' \in SUBSET Users
    /\ UNCHANGED served

-------------------------------------------------------------------------------
(* The administrator's requests. *)
FirstStep(op) == CASE op = "update" -> "read" [] op = "apply" -> "snap" [] OTHER -> "write"

Receive(h, op, u, patch) ==
    /\ op # "none"
    /\ op = "create" <=> row[u].st = "new"
    /\ op = "create" => patch.enable = Keep
    /\ op \notin {"create", "update"} => patch = NoPatch
    /\ Begin(h, FirstStep(op))
    /\ req' = [req EXCEPT ![h] = [op |-> op, user |-> {u}, patch |-> patch]]
    /\ UNCHANGED <<database, proxies, copy, snap, round>>

(* updateUser reads the row into u ... *)
Read(h, u) ==
    /\ req[h].user = {u}
    /\ row[u].st = "row"
    /\ Goto(h, "read", "write")
    /\ copy' = [copy EXCEPT ![h] = row[u]]
    /\ UNCHANGED <<database, proxies, req, snap, round, history>>

NotFound(h, u) ==
    /\ req[h].user = {u}
    /\ row[u].st # "row" \/ "db" \in Faults
    /\ Finish(h, "read")
    /\ UNCHANGED <<database, proxies, history>>

(* ... changes what the JSON names in u, and turns the user on when a new     *)
(* limit leaves it within its quota and not expired ...                        *)
Field(new, old) == IF new = Keep THEN old ELSE new
PatchedWithAbsentFields(r, p) ==
    [r EXCEPT !.limit = p.limit, !.expire = Field(p.expire, @), !.enable = Field(p.enable, @)]
PatchedDroppingExpiry(r, p) ==
    LET q == [r EXCEPT !.limit = Field(p.limit, @), !.expire = Field(p.expire, Never)]
        raised == p.limit # Keep /\ ~OverQuota(q) /\ ~Expired(q)
    IN  [q EXCEPT !.enable = IF p.enable = Keep THEN raised \/ @ ELSE p.enable]
PatchedWithoutRaise(r, p) ==
    [r EXCEPT !.limit = Field(p.limit, @), !.expire = Field(p.expire, @),
              !.enable = Field(p.enable, @)]

Patched(r, p) ==
    LET q == [r EXCEPT !.limit = Field(p.limit, @), !.expire = Field(p.expire, @)]
        raised == p.limit # Keep /\ ~OverQuota(q) /\ ~Expired(q)
    IN  [q EXCEPT !.enable = IF p.enable = Keep THEN raised \/ @ ELSE p.enable]

ColumnsWithTraffic(r, u) == r

(* ... and writes those columns back; the traffic columns are not among them. *)
Columns(r, u) ==
    [row[u] EXCEPT !.enable = r.enable, !.limit = r.limit, !.expire = r.expire]

Created(u, p) == [Blank EXCEPT !.st = "row", !.enable = TRUE,
                               !.limit = Field(p.limit, 0), !.expire = Field(p.expire, Never)]

Written(h, u) ==
    LET op == req[h].op
        new == Patched(copy[h], req[h].patch)
    IN  CASE op = "update" -> IF row[u].st = "row" THEN Columns(new, u) ELSE row[u]
          [] op = "create" -> IF row[u].st = "new" THEN Created(u, req[h].patch) ELSE row[u]
          [] op = "delete" -> [Blank EXCEPT !.st = "gone"]
          [] op = "reset"  -> IF row[u].st = "row" THEN [row[u] EXCEPT !.used = 0] ELSE row[u]
          [] OTHER -> row[u]

Write(h, u) ==
    /\ req[h].user = {u}
    /\ Goto(h, "write", "snap")
    /\ row' = [row EXCEPT ![u] = Written(h, u)]
    /\ copy' = [copy EXCEPT ![h] = Blank]
    /\ UNCHANGED <<now, proxies, req, snap, round, history>>

(* A failing statement ends the request before apply, except that             *)
(* resetTraffic ignores the error.                                             *)
WriteFails(h) ==
    /\ "db" \in Faults
    /\ \/ req[h].op # "reset" /\ Finish(h, "write")
       \/ /\ req[h].op = "reset" /\ Goto(h, "write", "snap")
          /\ UNCHANGED <<req, copy, snap, round>>
    /\ UNCHANGED <<database, proxies, history>>

-------------------------------------------------------------------------------
(* The charging loop.  Only users of a running configuration move bytes. *)
Poll(D) ==
    /\ D # {} /\ D \subseteq served \cup secrets
    /\ Begin(Poller, "before")
    /\ todo' = D
    /\ UNCHANGED <<database, proxies, req, copy, snap, cur, was, changed>>

Before(u) ==
    /\ u \in todo
    /\ todo' = todo \ {u}
    /\ \/ /\ row[u].st = "row"
          /\ Goto(Poller, "before", "add")
          /\ was' = Active(row[u])
          /\ cur' = {u}
       \/ /\ row[u].st # "row" \/ "db" \in Faults
          /\ pc[Poller] = "before" /\ cur = {}
          /\ UNCHANGED <<pc, was, cur>>
    /\ UNCHANGED <<database, proxies, req, copy, snap, changed, history>>

MoreUsed(r) == IF r.st = "row" /\ r.used < MaxUsed THEN [r EXCEPT !.used = @ + 1] ELSE r

AddTraffic(u) ==
    /\ cur = {u}
    /\ Goto(Poller, "add", "after")
    /\ \/ row' = [row EXCEPT ![u] = MoreUsed(@)]
       \/ "db" \in Faults /\ UNCHANGED row
    /\ UNCHANGED <<now, proxies, req, copy, snap, round, history>>

AfterComparingEnable(u) ==
    /\ cur = {u}
    /\ Goto(Poller, "after", "before")
    /\ changed' = (changed \/ was # row[u].enable)
    /\ cur' = {} /\ was' = FALSE
    /\ UNCHANGED <<database, proxies, req, copy, snap, todo, history>>

After(u) ==
    /\ cur = {u}
    /\ Goto(Poller, "after", "before")
    /\ \/ /\ changed' = (changed \/ (row[u].st = "row" /\ was # Active(row[u])))
          /\ UNCHANGED trusted
       \/ "db" \in Faults /\ UNCHANGED changed /\ trusted' = FALSE
    /\ cur' = {} /\ was' = FALSE
    /\ UNCHANGED <<database, proxies, req, copy, snap, todo, solo, collided>>

EndRoundWithoutApply ==
    /\ todo = {} /\ cur = {}
    /\ Finish(Poller, "before")
    /\ UNCHANGED <<database, proxies, history>>

EndRound ==
    /\ todo = {} /\ cur = {}
    /\ IF changed
       THEN Goto(Poller, "before", "snap") /\ UNCHANGED <<req, copy, snap, round>>
       ELSE Finish(Poller, "before")
    /\ UNCHANGED <<database, proxies, history>>

-------------------------------------------------------------------------------
Tick ==
    /\ now < MaxTime
    /\ Serial => \A t \in Threads : pc[t] = "idle"
    /\ now' = now + 1
    /\ trusted' = FALSE /\ solo' = {}
    /\ UNCHANGED <<row, proxies, pc, req, copy, snap, round, collided>>

ApplyStep(t) ==
    \/ Snapshot(t) \/ SnapshotFails(t)
    \/ ApplyCore(t) \/ ApplyCoreFails(t) \/ CoreCollides(t)
    \/ ApplyTelegram(t) \/ ApplyTelegramFails(t) \/ TelegramCollides(t)

HandlerStep(h) ==
    \/ \E u \in Users : Read(h, u) \/ NotFound(h, u) \/ Write(h, u)
    \/ WriteFails(h) \/ ApplyStep(h)

PollerStep ==
    \/ \E u \in Users : Before(u) \/ AddTraffic(u) \/ After(u)
    \/ EndRound \/ ApplyStep(Poller)

Requests == \E h \in Handlers, op \in Operations, u \in Users, patch \in Patch :
                Receive(h, op, u, patch)

Next ==
    \/ Requests
    \/ \E h \in Handlers : HandlerStep(h)
    \/ \E D \in SUBSET Users : Poll(D)
    \/ PollerStep
    \/ Tick

(* A goroutine that has begun a request or a round goes on.  Nobody is obliged *)
(* to send a request or to move bytes, and the clock may stand still.           *)
Fairness == WF_vars(PollerStep) /\ \A h \in Handlers : WF_vars(HandlerStep(h))

Spec == Init /\ [][Next]_vars
FairSpec == Spec /\ Fairness

-------------------------------------------------------------------------------
(* One apply that runs alone repairs everything: whatever failed or installed   *)
(* an older snapshot before, unless two goroutines were inside one proxy's      *)
(* Apply at once, an apply that takes its snapshot and installs it with nobody  *)
(* else under way leaves both proxies serving exactly the active users whenever *)
(* the panel is at rest, until requests overlap, something fails or time passes. *)
AtRest == \A t \in Threads : pc[t] = "idle"
InSync == served = ActiveUsers(row) /\ secrets = ActiveUsers(row)
LoneApplyRepairs == trusted /\ AtRest => InSync

(* However requests overlap, a user's recorded usage goes down only by a       *)
(* reset: an edit that read the row before the loop charged it does not give    *)
(* the bytes back (UpdateUser leaves the traffic columns alone).                *)
UsageKept ==
    [][\A u \in Users : row'[u].st = "row" /\ row'[u].used < row[u].used
          => \E h \in Handlers : /\ pc[h] = "write" /\ pc'[h] = "snap"
                                 /\ req[h].user = {u} /\ req[h].op = "reset"]_vars

(* An update changes what its JSON names and nothing else; only a new limit     *)
(* may turn a user on without being asked (updateUser).                         *)
Asks(u, p) ==
    /\ row'[u].expire # row[u].expire => p.expire # Keep
    /\ row'[u].limit # row[u].limit => p.limit # Keep
    /\ row'[u].enable # row[u].enable => p.enable # Keep \/ p.limit # Keep
OnlyWhatWasAsked ==
    [][\A u \in Users, h \in Handlers :
          req[h].op = "update" /\ req[h].user = {u} /\ pc[h] = "write" /\ pc'[h] = "snap"
              => Asks(u, req[h].patch)]_vars

(* An active user is eventually served by both proxies, and one who is not     *)
(* active by neither (README: hitting a quota removes the user from the proxy). *)
Removed ==
    \A u \in Users : ~Active(row[u]) ~> (Active(row[u]) \/ u \notin served \cup secrets)
Restored ==
    \A u \in Users : Active(row[u]) ~> (~Active(row[u]) \/ u \in served \cap secrets)

(* README: raising the limit turns them back on.                                *)
Raises(h, u) ==
    /\ pc[h] = "read" /\ req[h].user = {u} /\ row[u].st = "row"
    /\ LET p == req[h].patch
       IN  /\ p.enable = Keep /\ p.expire = Keep /\ p.limit # Keep
           /\ ~Expired(row[u]) /\ ~OverQuota([row[u] EXCEPT !.limit = p.limit])
RaiseRestores ==
    \A h \in Handlers, u \in Users :
        Raises(h, u) ~> (u \in served \cap secrets)

(* README, Telegram proxy: over-quota, expired, or disabled users are removed   *)
(* from the live secret set and cannot connect.  This is the expired part.      *)
ExpiredRemoved ==
    \A u \in Users : Expired(row[u]) ~> (~Expired(row[u]) \/ u \notin secrets)
===============================================================================
