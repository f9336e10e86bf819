------------------------------- MODULE Settings -------------------------------
(***************************************************************************)
(* The settings, the domains and the users' Telegram secrets: the handlers *)
(* of internal/api/server.go that change them, one SQL statement per        *)
(* action, the apply that ends each of them, and the routing of TLS names   *)
(* (internal/ingress/sni.go) that reads them.                               *)
(*                                                                         *)
(* Three kinds of names share one port: our own (public_host and the        *)
(* enabled domains), the REALITY target and Telegram's fake domain.         *)
(* putSettings validates the last two; nothing validates the first.         *)
(***************************************************************************)
EXTENDS Naturals, FiniteSets

CONSTANTS
    Names,      \* hostnames, normalised
    NoName,     \* an empty public_host
    Users,      \* user ids; an id is given out once
    Handlers,   \* goroutines that serve the administrator's requests
    Keep,       \* a field that the request leaves out
    MaxFields,  \* bound: fields that one PUT of the settings names
    Faults      \* what may go wrong: a subset of {"db", "proxy", "collide"}

ASSUME SettingsAssumption ==
    /\ NoName \notin Names /\ Keep \notin Names \cup {NoName} \cup BOOLEAN
    /\ Names \cap {"new", "gone", "off"} = {}
    /\ MaxFields \in Nat
    /\ Faults \subseteq {"db", "proxy", "collide"}

VARIABLES
    host,       \* settings: public_host
    reality,    \* settings: reality_server
    fake,       \* settings: telegram_fake_domain
    on,         \* settings: telegram_enabled
    domains,    \* the names of the enabled rows of the domains table
    secret,     \* the domain in a user's secret; "new", "gone" without a row
    core,       \* the REALITY target in sing-box's configuration; "off": it is down
    mtg,        \* the domain in a user's secret in mtg's configuration, or "off"
    pc,         \* where each goroutine is
    req,        \* its request
    st,         \* its copy of the settings, {} before it reads them
    left,       \* users whose secret it still has to replace
    seen,       \* the users of its snapshot
    vetted,     \* history: of "reality", "fake", those validated alone and since
    keyed,      \* history: no overlap or fault since the last rotation alone
    synced,     \* history: no overlap, fault or rejection since the last apply alone
    collided,   \* history: two goroutines have been inside one proxy's Apply
    solo        \* history: goroutines that ran alone so far

table == <<host, reality, fake, on, domains, secret>>
config == <<core, mtg>>
locals == <<req, st, left, seen>>
history == <<vetted, keyed, synced, collided, solo>>
vars == <<table, config, pc, locals, history>>

Copy == [host : Names \cup {NoName}, reality : Names, fake : Names, on : BOOLEAN]
Put == [host : Names \cup {NoName, Keep}, reality : Names \cup {Keep}, fake : Names \cup {Keep},
        on : BOOLEAN \cup {Keep}, regen : {TRUE, Keep}]
Puts == {p \in Put : Cardinality({f \in DOMAIN p : p[f] # Keep}) <= MaxFields}
NoPut == [host |-> Keep, reality |-> Keep, fake |-> Keep, on |-> Keep, regen |-> Keep]
Operations == {"none", "put", "domains", "create", "rekey", "delete"}
Request == [op : Operations, put : Put, user : SUBSET Users,
            drop : SUBSET Names, add : SUBSET Names]
NoRequest == [op |-> "none", put |-> NoPut, user |-> {}, drop |-> {}, add |-> {}]
AtMostOne == {ns \in SUBSET Names : Cardinality(ns) <= 1}
Secrets == Names \cup {"new", "gone"}
NobodyServed == [u \in Users |-> "off"]
Settings == [host |-> host, reality |-> reality, fake |-> fake, on |-> on]
Steps == {"idle", "host", "rread", "rcheck", "rset", "tread", "tcheck", "ton", "tfake",
          "list", "rotate", "domains", "uread", "user", "snap", "users", "core", "mtg"}

TypeOK ==
    /\ Settings \in Copy
    /\ domains \in SUBSET Names
    /\ secret \in [Users -> Secrets]
    /\ core \in Names \cup {"off"}
    /\ mtg \in [Users -> Names \cup {"off"}]
    /\ pc \in [Handlers -> Steps]
    /\ req \in [Handlers -> Request]
    /\ st \in [Handlers -> SUBSET Copy]
    /\ left \in [Handlers -> SUBSET Users]
    /\ seen \in [Handlers -> [Users -> Secrets]]
    /\ vetted \in SUBSET {"reality", "fake"}
    /\ keyed \in BOOLEAN /\ synced \in BOOLEAN /\ collided \in BOOLEAN
    /\ solo \in SUBSET Handlers

-------------------------------------------------------------------------------
(* RouteSNI: mtg first, then the panel, and REALITY for every other name. *)
Ours == ({host} \ {NoName}) \cup domains
RouteSNI(n) ==
    IF on /\ n = fake THEN "mtg" ELSE IF n \in Ours THEN "panel" ELSE "reality"

(* RenderTOML: a secret made for another domain is left out, and the file is   *)
(* not used at all while Telegram is disabled.                                  *)
RenderTOML(s, users) ==
    [u \in Users |-> IF s.on /\ users[u] = s.fake THEN s.fake ELSE "off"]

NoRows == [u \in Users |-> "new"]

(* After bootstrap, with public_host from the environment, and the first apply. *)
Init ==
    /\ host \in Names \cup {NoName} /\ reality \in Names /\ fake \in Names \ {reality}
    /\ on = FALSE /\ domains = {}
    /\ secret \in [Users -> {"new", fake}]
    /\ core = reality
    /\ mtg = NobodyServed
    /\ pc = [h \in Handlers |-> "idle"]
    /\ req = [h \in Handlers |-> NoRequest]
    /\ st = [h \in Handlers |-> {}]
    /\ left = [h \in Handlers |-> {}]
    /\ seen = [h \in Handlers |-> NoRows]
    /\ vetted = IF host \in {reality, fake} THEN {} ELSE {"reality", "fake"}
    /\ keyed = TRUE /\ synced = TRUE /\ collided = FALSE /\ solo = {}

Goto(h, from, to) == pc[h] = from /\ pc' = [pc EXCEPT ![h] = to]
AtRest == \A h \in Handlers : pc[h] = "idle"
OthersIdle(h) == \A g \in Handlers \ {h} : pc[g] = "idle"

Begin(h, to, r) ==
    /\ Goto(h, "idle", to)
    /\ req' = [req EXCEPT ![h] = r]
    /\ solo' = IF OthersIdle(h) THEN {h} ELSE {}
    /\ vetted' = IF OthersIdle(h) THEN vetted ELSE {}
    /\ keyed' = (keyed /\ OthersIdle(h))
    /\ synced' = (synced /\ OthersIdle(h))
    /\ UNCHANGED <<table, config, st, left, seen, collided>>

(* The goroutine is back and its locals are gone. *)
Finish(h, from) ==
    /\ Goto(h, from, "idle")
    /\ req' = [req EXCEPT ![h] = NoRequest]
    /\ st' = [st EXCEPT ![h] = {}]
    /\ left' = [left EXCEPT ![h] = {}]
    /\ seen' = [seen EXCEPT ![h] = NoRows]

(* 400 or 500: what was stored stays stored, and nothing is applied. *)
Reject(h, from) ==
    /\ Finish(h, from)
    /\ synced' = FALSE
    /\ UNCHANGED <<table, config, vetted, keyed, collided, solo>>

(* A failing statement; in a rotation it leaves secrets of two domains.        *)
Fail(h) ==
    /\ "db" \in Faults
    /\ pc[h] \notin {"idle", "core", "mtg"}
    /\ Finish(h, pc[h])
    /\ synced' = FALSE
    /\ keyed' = (keyed /\ pc[h] \notin {"list", "rotate"})
    /\ UNCHANGED <<table, config, vetted, collided, solo>>

ReadSettings(h, from, to) ==
    /\ Goto(h, from, to)
    /\ st' = [st EXCEPT ![h] = {Settings}]
    /\ UNCHANGED <<table, config, req, left, seen, history>>

-------------------------------------------------------------------------------
(* putSettings: the plain keys, the REALITY target, Telegram, and apply. *)
FieldStoringAbsence(new, old) == new
Field(new, old) == IF new = Keep THEN old ELSE new
telegramKeys(p) == p.on # Keep \/ p.fake # Keep \/ p.regen # Keep
AfterReality(p) == IF telegramKeys(p) THEN "tread" ELSE "snap"
AfterHost(p) == IF p.reality # Keep THEN "rread" ELSE AfterReality(p)

(* Without any field it is an apply alone, as the other callers of apply are.   *)
putSettings(h, p) ==
    /\ Begin(h, IF p.host # Keep THEN "host" ELSE AfterHost(p),
             [NoRequest EXCEPT !.op = "put", !.put = p])

WriteHost(h) ==
    /\ Goto(h, "host", AfterHost(req[h].put))
    /\ host' = req[h].put.host
    /\ vetted' = {}
    /\ UNCHANGED <<reality, fake, on, domains, secret, config, locals, keyed, synced, collided,
                   solo>>

Vet(h, name) == vetted' = IF h \in solo THEN vetted \cup {name} ELSE vetted \ {name}

(* applyRealityDest: the settings, the domains, ValidateRealityDest. *)
RealityCheckIgnoringFake(h) ==
    \E s \in st[h] :
        /\ req[h].put.reality \notin {s.host} \cup domains
        /\ Goto(h, "rcheck", "rset")
        /\ UNCHANGED <<table, config, locals, history>>

RealityCheck(h) ==
    \E s \in st[h] :
        IF req[h].put.reality \in {s.host, s.fake} \cup domains
        THEN Reject(h, "rcheck")
        ELSE Goto(h, "rcheck", "rset") /\ UNCHANGED <<table, config, locals, history>>

SetReality(h) ==
    /\ Goto(h, "rset", AfterReality(req[h].put))
    /\ reality' = req[h].put.reality
    /\ Vet(h, "reality")
    /\ UNCHANGED <<host, fake, on, domains, secret, config, locals, keyed, synced, collided, solo>>

(* applyTelegramSettings: the settings again, the domains, ValidateFakeDomain,  *)
(* telegram_enabled, telegram_fake_domain, and then the users' secrets.         *)
NewFake(h, s) == Field(req[h].put.fake, s.fake)

TelegramCheck(h) ==
    \E s \in st[h] :
        IF NewFake(h, s) \in {s.host, s.reality} \cup domains
        THEN Reject(h, "tcheck")
        ELSE Goto(h, "tcheck", "ton") /\ UNCHANGED <<table, config, locals, history>>

SetOn(h) ==
    \E s \in st[h] :
        /\ Goto(h, "ton", "tfake")
        /\ on' = Field(req[h].put.on, s.on)
        /\ UNCHANGED <<host, reality, fake, domains, secret, config, locals, history>>

SetFake(h) ==
    \E s \in st[h] :
        /\ Goto(h, "tfake", "list")
        /\ fake' = NewFake(h, s)
        /\ Vet(h, "fake")
        /\ UNCHANGED <<host, reality, on, domains, secret, config, locals, keyed, synced, collided,
                       solo>>

(* RotateTelegramSecrets lists the users and replaces their secrets one by     *)
(* one.  EnsureTelegramSecrets replaces only secrets that are empty, which       *)
(* bootstrap leaves to nobody.                                                   *)
Existing == {u \in Users : secret[u] \in Names}
ListWhenAsked(h) ==
    /\ Goto(h, "list", "rotate")
    /\ left' = [left EXCEPT ![h] = IF req[h].put.regen # Keep THEN Existing ELSE {}]
    /\ UNCHANGED <<table, config, req, st, seen, history>>

List(h) ==
    \E s \in st[h] :
        LET rotates == req[h].put.regen # Keep \/ NewFake(h, s) # s.fake
        IN  /\ Goto(h, "list", "rotate")
            /\ left' = [left EXCEPT ![h] = IF rotates THEN Existing ELSE {}]
            /\ keyed' = (keyed \/ (rotates /\ h \in solo))
            /\ UNCHANGED <<table, config, req, st, seen, vetted, synced, collided, solo>>

SetSecret(u, n) == secret' = [secret EXCEPT ![u] = IF @ \in Names THEN n ELSE @]

Rotate(h, u) ==
    \E s \in st[h] :
        /\ pc[h] = "rotate" /\ u \in left[h]
        /\ SetSecret(u, NewFake(h, s))
        /\ left' = [left EXCEPT ![h] = @ \ {u}]
        /\ UNCHANGED <<host, reality, fake, on, domains, config, pc, req, st, seen, history>>

RotatedWithoutApply(h) ==
    /\ left[h] = {}
    /\ Finish(h, "rotate")
    /\ UNCHANGED <<table, config, history>>

Rotated(h) ==
    /\ left[h] = {}
    /\ Goto(h, "rotate", "snap")
    /\ UNCHANGED <<table, config, locals, history>>

-------------------------------------------------------------------------------
(* createDomain, updateDomain and deleteDomain.  The column is UNIQUE, also    *)
(* against disabled rows.                                                       *)
changeDomains(h, drop, add) ==
    /\ drop \subseteq domains
    /\ Begin(h, "domains", [NoRequest EXCEPT !.op = "domains", !.drop = drop, !.add = add])

WriteDomains(h) ==
    /\ req[h].add \cap (domains \ req[h].drop) = {}
    /\ Goto(h, "domains", "snap")
    /\ domains' = (domains \ req[h].drop) \cup req[h].add
    /\ vetted' = IF req[h].add = {} THEN vetted ELSE {}
    /\ UNCHANGED <<host, reality, fake, on, secret, config, locals, keyed, synced, collided, solo>>

(* deleteDomain drops the error and applies all the same. *)
DeleteFails(h) ==
    /\ "db" \in Faults
    /\ req[h].add = {}
    /\ Goto(h, "domains", "snap")
    /\ UNCHANGED <<table, config, locals, history>>

NotUnique(h) == req[h].add # {} /\ Reject(h, "domains")

-------------------------------------------------------------------------------
(* createUser, deleteUser, and updateUser's telegram_regenerate: a secret for   *)
(* the fake domain that was read a statement earlier.                            *)
changeUser(h, op, u) ==
    /\ op \in {"create", "rekey", "delete"}
    /\ op = "create" <=> secret[u] = "new"
    /\ Begin(h, IF op = "delete" THEN "user" ELSE "uread",
             [NoRequest EXCEPT !.op = op, !.user = {u}])

WriteUser(h, u) ==
    /\ req[h].user = {u}
    /\ Goto(h, "user", "snap")
    /\ \/ /\ req[h].op = "create" /\ secret[u] = "new"
          /\ \E s \in st[h] : secret' = [secret EXCEPT ![u] = s.fake]
       \/ req[h].op = "rekey" /\ \E s \in st[h] : SetSecret(u, s.fake)
       \/ req[h].op = "delete" /\ secret' = [secret EXCEPT ![u] = "gone"]
    /\ UNCHANGED <<host, reality, fake, on, domains, config, locals, history>>

(* The username is taken, or the user is gone. *)
Refused(h, u) ==
    /\ req[h].user = {u}
    /\ \/ req[h].op \in {"create", "rekey"} /\ Existing \ {u} # {}
       \/ req[h].op = "create" /\ secret[u] # "new"
       \/ req[h].op = "rekey" /\ u \notin Existing
    /\ Reject(h, "user")

-------------------------------------------------------------------------------
(* apply: the settings and the users are two statements of one snapshot.  The  *)
(* request is not looked at again.                                               *)
SnapshotSettings(h) ==
    /\ Goto(h, "snap", "users")
    /\ st' = [st EXCEPT ![h] = {Settings}]
    /\ req' = [req EXCEPT ![h] = NoRequest]
    /\ UNCHANGED <<table, config, left, seen, history>>

Snapshot(h) ==
    /\ Goto(h, "users", "core")
    /\ seen' = [seen EXCEPT ![h] = secret]
    /\ UNCHANGED <<table, config, req, st, left, history>>

(* sing-box comes first; when its Apply fails, mtg is not touched: the old         *)
(* process still serves, or none does.                                             *)
ApplyCore(h) ==
    \E s \in st[h] :
        /\ Goto(h, "core", "mtg")
        /\ core' = s.reality
        /\ UNCHANGED <<table, mtg, locals, history>>

ApplyCoreFails(h) ==
    /\ "proxy" \in Faults
    /\ Finish(h, "core")
    /\ core' \in {core, "off"}
    /\ synced' = FALSE
    /\ UNCHANGED <<table, mtg, vetted, keyed, collided, solo>>

(* The error of mtg is logged, and the request is answered as if it were done.     *)
ApplyMtg(h) ==
    \E s \in st[h] :
        /\ Finish(h, "mtg")
        /\ mtg' = RenderTOML(s, seen[h])
        /\ synced' = (synced \/ (h \in solo /\ ~collided))
        /\ UNCHANGED <<table, core, vetted, keyed, collided, solo>>

ApplyMtgFails(h) ==
    /\ "proxy" \in Faults
    /\ \E s \in st[h] : s.on
    /\ Finish(h, "mtg")
    /\ mtg' \in {mtg, NobodyServed}
    /\ synced' = FALSE
    /\ UNCHANGED <<table, core, vetted, keyed, collided, solo>>

(* Two goroutines inside the Apply of one proxy: a process may be lost and keep     *)
(* the port (module Supervisor), and what mtg has loaded may differ from what the   *)
(* runner remembers and compares with (module TelegramRunner).  From then on any     *)
(* apply may leave anything.                                                         *)
Meets(h, step) ==
    /\ "collide" \in Faults
    /\ collided \/ \E g \in Handlers \ {h} : pc[g] = step
    /\ synced' = FALSE /\ collided' = TRUE
    /\ UNCHANGED <<table, vetted, keyed, solo>>

CoreCollides(h) ==
    /\ Meets(h, "core")
    /\ Goto(h, "core", "mtg")
    /\ core' \in Names \cup {"off"}
    /\ UNCHANGED <<mtg, locals>>

MtgCollides(h) ==
    /\ Meets(h, "mtg")
    /\ Finish(h, "mtg")
    /\ mtg' \in [Users -> Names \cup {"off"}]
    /\ UNCHANGED core

-------------------------------------------------------------------------------
PutStep(h) ==
    \/ WriteHost(h) \/ ReadSettings(h, "rread", "rcheck") \/ RealityCheck(h) \/ SetReality(h)
    \/ ReadSettings(h, "tread", "tcheck") \/ TelegramCheck(h) \/ SetOn(h) \/ SetFake(h)
    \/ List(h) \/ (\E u \in Users : Rotate(h, u)) \/ Rotated(h)

OtherStep(h) ==
    \/ WriteDomains(h) \/ NotUnique(h) \/ DeleteFails(h)
    \/ ReadSettings(h, "uread", "user")
    \/ \E u \in Users : WriteUser(h, u) \/ Refused(h, u)

ApplyStep(h) ==
    \/ SnapshotSettings(h) \/ Snapshot(h)
    \/ ApplyCore(h) \/ ApplyCoreFails(h) \/ CoreCollides(h)
    \/ ApplyMtg(h) \/ ApplyMtgFails(h) \/ MtgCollides(h)

Requests(h) ==
    /\ pc[h] = "idle"
    /\ \/ \E p \in Puts : putSettings(h, p)
       \/ \E drop, add \in AtMostOne : changeDomains(h, drop, add)
       \/ \E op \in Operations, u \in Users : changeUser(h, op, u)

Step(h) == Requests(h) \/ PutStep(h) \/ OtherStep(h) \/ ApplyStep(h) \/ Fail(h)
Next == \E h \in Handlers : Step(h)

Spec == Init /\ [][Next]_vars

-------------------------------------------------------------------------------
(* While the last validation of a name ran alone and nobody has added a name    *)
(* of ours since, that name and ours are routed apart (ValidateRealityDest and   *)
(* ValidateFakeDomain: "it would steal that SNI"), whatever else was edited.     *)
VettedNamesApart ==
    /\ "fake" \in vetted => \A n \in Ours : RouteSNI(n) = "panel"
    /\ "reality" \in vetted => RouteSNI(reality) = "reality"

(* README: changing the fake domain issues new secrets for every user.  With    *)
(* nobody else under way and no failure since the last rotation, every user's    *)
(* secret is made for the fake domain, so mtg's file leaves nobody out.          *)
SecretsFit ==
    keyed /\ AtRest => \A u \in Existing : secret[u] = fake

(* A request that ran alone and was accepted, and whose apply met no error,      *)
(* leaves both configurations as the tables say, until one is rejected half way,  *)
(* fails, or overlaps; unless two goroutines were ever inside one proxy's Apply.  *)
AcceptedIsApplied ==
    synced /\ AtRest => core = reality /\ mtg = RenderTOML(Settings, secret)

(* README, Panel HTTPS: public_host or a domain in the panel goes to HTTPS.     *)
OursReachPanel == AtRest => \A n \in Ours : RouteSNI(n) = "panel"
===============================================================================
