------------------------------ MODULE PanelProofs ------------------------------
(***************************************************************************)
(* For any users, any number of handlers, any limits and any faults: one   *)
(* apply that runs alone repairs everything, usage is only given back by a *)
(* reset, and an update that nothing overlaps does only what it was asked. *)
(***************************************************************************)
EXTENDS Panel, TLAPS

-------------------------------------------------------------------------------
(* Where the goroutines can be, and the types that the argument needs. *)
ApplySteps == {"idle", "snap", "core", "tele"}
Places ==
    /\ TypeOK
    /\ \A h \in Handlers : pc[h] \in ApplySteps \cup {"read", "write"}
    /\ pc[Poller] \in ApplySteps \cup {"before", "add", "after"}
    /\ pc[Poller] \notin {"add", "after"} => cur = {}
    /\ pc[Poller] \in {"add", "after"} => \E u \in Users : cur = {u}

(* A goroutine that took its snapshot alone is alone until it is done, and so  *)
(* is everybody while the history is trusted.                                   *)
Alone ==
    /\ \A t \in solo : OthersIdle(t)
    /\ trusted => \A s, t \in Threads : pc[s] # "idle" /\ pc[t] # "idle" => s = t

(* The snapshot of such a goroutine is the table, and sing-box has it first.   *)
Current(t) ==
    /\ pc[t] \in {"core", "tele"} => snap[t] = row
    /\ pc[t] = "tele" => served = ActiveUsers(row)
Fresh == \A t \in Threads : t \in solo \/ trusted => Current(t)

(* Elsewhere both proxies agree with the table, up to the user the loop is     *)
(* charging, unless the loop knows that something changed.                      *)
InSyncBut(u) ==
    /\ \A v \in Users \ {u} : /\ v \in served <=> Active(row[v])
                              /\ v \in secrets <=> Active(row[v])
    /\ u \in served <=> was
    /\ u \in secrets <=> was
Charging ==
    /\ pc[Poller] = "before" => changed \/ InSync
    /\ \A u \in Users :
        cur = {u} =>
            /\ row[u].st = "row"
            /\ pc[Poller] = "add" => changed \/ (InSync /\ was = Active(row[u]))
            /\ pc[Poller] = "after" => changed \/ InSyncBut(u)
Synced ==
    trusted =>
        /\ AtRest => InSync
        /\ \A h \in Handlers : pc[h] \in {"read", "write"} => InSync
        /\ Charging

RepairInv == Places /\ Alone /\ Fresh /\ Synced

LEMMA InitRepair == Init => RepairInv
<1> SUFFICES ASSUME Init PROVE RepairInv
  OBVIOUS
<1>1. Places
  <2> USE PanelAssumption DEF PanelAssumption, Init
  <2>1. row \in [Users -> Row]
    BY DEF Row
  <2>2. Blank \in Row /\ NoRequest \in Request
    BY DEF Blank, Row, NoRequest, Request, NoPatch, Patch, Operations, Times
  <2>3. snap \in [Threads -> [Users -> Row]] /\ req \in [Handlers -> Request]
        /\ copy \in [Handlers -> Row]
    BY <2>2 DEF NoRows
  <2>4. /\ pc \in [Threads -> Steps]
        /\ \A h \in Handlers : pc[h] \in ApplySteps
        /\ pc[Poller] \in {"idle"}
    BY DEF Steps, ApplySteps, Threads
  <2>5. now \in Times /\ served \in SUBSET Users /\ secrets \in SUBSET Users
    BY DEF Times, ActiveUsers
  <2> QED BY <2>1, <2>3, <2>4, <2>5 DEF Places, TypeOK, ApplySteps
<1>2. Alone /\ Fresh /\ Synced
  BY DEF Init, Alone, Fresh, Current, Synced, Charging, AtRest, InSync, Threads
<1> QED BY <1>1, <1>2 DEF RepairInv

-------------------------------------------------------------------------------
(* updateUser and the other requests write rows. *)
LEMMA WrittenRow ==
    ASSUME TypeOK, NEW h \in Handlers, NEW u \in Users
    PROVE  Written(h, u) \in Row
<1> USE PanelAssumption DEF PanelAssumption, TypeOK, Row, Times
<1>1. req[h].patch \in Patch
  BY DEF Request
<1>2. Patched(copy[h], req[h].patch) \in Row
  <2> DEFINE p == req[h].patch
             q == [copy[h] EXCEPT !.limit = Field(p.limit, @), !.expire = Field(p.expire, @)]
             raised == p.limit # Keep /\ ~OverQuota(q) /\ ~Expired(q)
             enable == IF p.enable = Keep THEN raised \/ q.enable ELSE p.enable
  <2>1. q \in Row
    <3>1. copy[h] \in Row
      OBVIOUS
    <3>2. Field(p.limit, copy[h].limit) \in Limits
      BY <1>1, <3>1 DEF Field, Patch
    <3>3. Field(p.expire, copy[h].expire) \in Times \cup {Never}
      BY <1>1, <3>1 DEF Field, Patch
    <3>4. \A l \in Limits, e \in Times \cup {Never} :
              [copy[h] EXCEPT !.limit = l, !.expire = e] \in Row
      BY <3>1
    <3> QED BY <3>2, <3>3, <3>4
  <2>2. raised \in BOOLEAN /\ q.enable \in BOOLEAN
    <3>1. q.enable \in BOOLEAN
      BY <2>1
    <3>2. raised \in BOOLEAN
      BY DEF OverQuota, Expired
    <3> QED BY <3>1, <3>2
  <2>3. enable \in BOOLEAN
    BY <1>1, <2>2 DEF Patch
  <2>4. Patched(copy[h], p) = [q EXCEPT !.enable = enable]
    BY DEF Patched
  <2> HIDE DEF q, enable
  <2> QED BY <2>1, <2>3, <2>4
<1>3. Created(u, req[h].patch) \in Row
  BY <1>1 DEF Created, Field, Patch, Blank
<1>4. Columns(Patched(copy[h], req[h].patch), u) \in Row
  BY <1>2 DEF Columns
<1>5. [Blank EXCEPT !.st = "gone"] \in Row /\ [row[u] EXCEPT !.used = 0] \in Row
  BY DEF Blank
<1> QED BY <1>3, <1>4, <1>5 DEF Written

LEMMA MoreUsedRow ==
    ASSUME TypeOK, NEW u \in Users
    PROVE  MoreUsed(row[u]) \in Row
<1> USE PanelAssumption DEF PanelAssumption, TypeOK
<1>1. row[u] \in Row /\ row[u].used \in 0..MaxUsed
  BY DEF Row
<1>2. ASSUME row[u].used < MaxUsed PROVE row[u].used + 1 \in 0..MaxUsed
  BY <1>1, <1>2
<1>3. \A n \in 0..MaxUsed : [row[u] EXCEPT !.used = n] \in Row
  BY <1>1 DEF Row
<1> QED BY <1>1, <1>2, <1>3 DEF MoreUsed

LEMMA ActiveUsersSubset == \A rows : ActiveUsers(rows) \in SUBSET Users
BY DEF ActiveUsers

LEMMA StepPlaces == Places /\ [Next]_vars => Places'
<1> SUFFICES ASSUME Places, [Next]_vars PROVE Places'
  OBVIOUS
<1> USE PanelAssumption, ActiveUsersSubset
    DEF PanelAssumption, Places, TypeOK, Steps, ApplySteps, Threads, Goto, Finish,
        database, proxies, round, history
<1>b. Blank \in Row /\ NoRequest \in Request /\ NoRows \in [Users -> Row]
  BY DEF Blank, Row, NoRequest, Request, NoPatch, Patch, NoRows, Operations, Times
<1>1. ASSUME NEW t \in Threads, ApplyStep(t) PROVE Places'
  <2>1. CASE Snapshot(t) BY <2>1 DEF Snapshot
  <2>2. CASE SnapshotFails(t) BY <1>b, <2>2 DEF SnapshotFails
  <2>3. CASE ApplyCore(t) BY <2>3 DEF ApplyCore
  <2>4. CASE ApplyCoreFails(t) BY <1>b, <2>4 DEF ApplyCoreFails
  <2>5. CASE ApplyTelegram(t) BY <1>b, <2>5 DEF ApplyTelegram
  <2>6. CASE ApplyTelegramFails(t) BY <1>b, <2>6 DEF ApplyTelegramFails
  <2>7. CASE CoreCollides(t) BY <2>7 DEF CoreCollides, Meets
  <2>8. CASE TelegramCollides(t) BY <1>b, <2>8 DEF TelegramCollides, Meets
  <2> QED BY <1>1, <2>1, <2>2, <2>3, <2>4, <2>5, <2>6, <2>7, <2>8 DEF ApplyStep
<1>2. ASSUME NEW h \in Handlers, NEW op \in Operations, NEW u \in Users,
             NEW patch \in Patch, Receive(h, op, u, patch)
      PROVE  Places'
  BY <1>2 DEF Receive, Begin, FirstStep, Request, Operations
<1>3. ASSUME NEW h \in Handlers, NEW u \in Users, Read(h, u) PROVE Places'
  BY <1>3 DEF Read
<1>4. ASSUME NEW h \in Handlers, NEW u \in Users, NotFound(h, u) PROVE Places'
  BY <1>b, <1>4 DEF NotFound
<1>5. ASSUME NEW h \in Handlers, NEW u \in Users, Write(h, u) PROVE Places'
  BY <1>b, <1>5, WrittenRow DEF Write
<1>6. ASSUME NEW h \in Handlers, WriteFails(h) PROVE Places'
  <2>1. CASE req[h].op # "reset" /\ Finish(h, "write")
    BY <1>b, <1>6, <2>1 DEF WriteFails
  <2>2. CASE Goto(h, "write", "snap") /\ UNCHANGED <<req, copy, snap, round>>
    BY <1>6, <2>2 DEF WriteFails
  <2> QED BY <1>6, <2>1, <2>2 DEF WriteFails
<1>7. ASSUME NEW D \in SUBSET Users, Poll(D) PROVE Places'
  BY <1>7 DEF Poll, Begin
<1>8. ASSUME NEW u \in Users, Before(u) PROVE Places'
  BY <1>8 DEF Before, Active
<1>9. ASSUME NEW u \in Users, AddTraffic(u) PROVE Places'
  BY <1>9, MoreUsedRow DEF AddTraffic
<1>10. ASSUME NEW u \in Users, After(u) PROVE Places'
  BY <1>10 DEF After, Active
<1>11. CASE EndRound
  BY <1>b, <1>11 DEF EndRound
<1>12. CASE Tick
  <2>1. now \in 0..MaxTime /\ now < MaxTime /\ now' = now + 1
    BY <1>12 DEF Tick, Times
  <2>2. now' \in Times
    BY <2>1 DEF Times
  <2> QED BY <1>12, <2>2 DEF Tick
<1>13. CASE UNCHANGED vars
  BY <1>13 DEF vars
<1> QED
  BY <1>1, <1>2, <1>3, <1>4, <1>5, <1>6, <1>7, <1>8, <1>9, <1>10, <1>11, <1>12, <1>13
     DEF Next, Requests, HandlerStep, PollerStep

-------------------------------------------------------------------------------
(* Who acts. *)
Acts(t) == pc[t] # "idle" /\ \A s \in Threads \ {t} : pc'[s] = pc[s]

(* A goroutine that goes on keeps everybody's company as it was. *)
LEMMA GoesOn ==
    ASSUME Alone, NEW t \in Threads, Acts(t), trusted' => trusted, solo' \subseteq solo
    PROVE  Alone'
BY DEF Alone, Acts, OthersIdle

LEMMA ActsApply ==
    ASSUME Places, NEW t \in Threads, ApplyStep(t)
    PROVE  Acts(t)
BY DEF Places, TypeOK, Acts, ApplyStep, Snapshot, SnapshotFails, ApplyCore, ApplyCoreFails,
       ApplyTelegram, ApplyTelegramFails, CoreCollides, TelegramCollides, Goto, Finish

LEMMA ActsHandler ==
    ASSUME Places, NEW h \in Handlers, NEW u \in Users,
           Read(h, u) \/ NotFound(h, u) \/ Write(h, u)
    PROVE  Acts(h) /\ UNCHANGED history
BY DEF Places, TypeOK, Acts, Read, NotFound, Write, Goto, Finish, Threads

LEMMA ActsPoller ==
    ASSUME Places, NEW u \in Users,
           Before(u) \/ AddTraffic(u) \/ After(u)
    PROVE  Acts(Poller) /\ UNCHANGED solo /\ (trusted' => trusted)
BY DEF Places, TypeOK, Acts, Before, AddTraffic, After, Goto, Finish, Threads, history

LEMMA StepAlone == Places /\ Alone /\ [Next]_vars => Alone'
<1> SUFFICES ASSUME Places, Alone, [Next]_vars PROVE Alone'
  OBVIOUS
<1> USE DEF Threads
<1>1. ASSUME NEW t \in Threads, ApplyStep(t) PROVE Alone'
  <2>1. Acts(t)
    BY <1>1, ActsApply
  <2>2. CASE Snapshot(t)
    <3>1. solo' \in {{}, {t}} /\ (t \in solo' => OthersIdle(t)) /\ trusted' = trusted
      BY <2>2 DEF Snapshot
    <3> QED BY <2>1, <3>1 DEF Alone, Acts, OthersIdle
  <2>3. CASE ApplyTelegram(t)
    <3>1. solo' = solo /\ (trusted' => trusted \/ t \in solo)
      BY <2>3 DEF ApplyTelegram
    <3> QED BY <2>1, <3>1 DEF Alone, Acts, OthersIdle
  <2>4. CASE SnapshotFails(t) \/ ApplyCore(t) \/ ApplyCoreFails(t) \/ ApplyTelegramFails(t)
    BY <2>1, <2>4, GoesOn
       DEF SnapshotFails, ApplyCore, ApplyCoreFails, ApplyTelegramFails, history
  <2>5. CASE CoreCollides(t) \/ TelegramCollides(t)
    BY <2>1, <2>5, GoesOn DEF CoreCollides, TelegramCollides, Meets
  <2> QED BY <1>1, <2>2, <2>3, <2>4, <2>5 DEF ApplyStep
<1>2. ASSUME NEW h \in Handlers, NEW op \in Operations, NEW u \in Users,
             NEW patch \in Patch, Receive(h, op, u, patch)
      PROVE  Alone'
  BY <1>2 DEF Receive, Begin, Goto, Alone, OthersIdle, Places, TypeOK
<1>3. ASSUME NEW h \in Handlers, NEW u \in Users,
             Read(h, u) \/ NotFound(h, u) \/ Write(h, u)
      PROVE  Alone'
  BY <1>3, ActsHandler, GoesOn DEF history
<1>4. ASSUME NEW D \in SUBSET Users, Poll(D) PROVE Alone'
  BY <1>4 DEF Poll, Begin, Goto, Alone, OthersIdle, Places, TypeOK
<1>5. ASSUME NEW u \in Users, Before(u) \/ AddTraffic(u) \/ After(u)
      PROVE  Alone'
  BY <1>5, ActsPoller, GoesOn
<1>6. CASE Tick
  BY <1>6 DEF Tick, Alone
<1>7. CASE UNCHANGED vars
  BY <1>7 DEF vars, Alone, OthersIdle, history
<1>8. CASE EndRound
  <2>1. Acts(Poller) /\ solo' = solo /\ trusted' = trusted
    BY <1>8 DEF Places, TypeOK, Acts, EndRound, Goto, Finish, history
  <2> QED BY <2>1, GoesOn
<1>9. ASSUME NEW h \in Handlers, WriteFails(h) PROVE Alone'
  <2>1. Acts(h) /\ solo' = solo /\ trusted' = trusted
    BY <1>9 DEF Places, TypeOK, Acts, WriteFails, Goto, Finish, history
  <2> QED BY <2>1, GoesOn
<1> QED
  BY <1>1, <1>2, <1>3, <1>4, <1>5, <1>6, <1>7, <1>8, <1>9
     DEF Next, Requests, HandlerStep, PollerStep

-------------------------------------------------------------------------------
LEMMA UnchangedActive ==
    ASSUME UNCHANGED database
    PROVE  ActiveUsers(row)' = ActiveUsers(row)
BY DEF database, ActiveUsers, Active, Expired, OverQuota

(* While the history is trusted, a goroutine that acts is the only one. *)
LEMMA OnlyOne ==
    ASSUME Alone, NEW t \in Threads, pc[t] # "idle", t \in solo \/ trusted
    PROVE  OthersIdle(t)
BY DEF Alone, OthersIdle

(* A step of t that leaves t outside core and tele keeps everybody's snapshot  *)
(* as current as it was.                                                        *)
LEMMA StaysFresh ==
    ASSUME Places, Alone, Fresh, NEW t \in Threads, Acts(t), trusted' => trusted,
           solo' = solo, pc'[t] \notin {"core", "tele"}
    PROVE  Fresh'
BY DEF Alone, Fresh, Current, Acts, OthersIdle

LEMMA StepFresh == Places /\ Alone /\ Fresh /\ [Next]_vars => Fresh'
<1> SUFFICES ASSUME Places, Alone, Fresh, [Next]_vars PROVE Fresh'
  OBVIOUS
<1> USE DEF Threads
<1>1. ASSUME NEW t \in Threads, ApplyStep(t) PROVE Fresh'
  <2>1. Acts(t)
    BY <1>1, ActsApply
  <2>2. CASE Snapshot(t)
    BY <2>1, <2>2 DEF Snapshot, Goto, Fresh, Current, Alone, Acts, OthersIdle, Places, TypeOK,
                      database
  <2>3. CASE ApplyCore(t)
    <3>1. ActiveUsers(row)' = ActiveUsers(row) /\ solo' = solo /\ trusted' = trusted
      BY <2>3, UnchangedActive DEF ApplyCore, database, history
    <3>2. ASSUME t \in solo \/ trusted PROVE Current(t)'
      BY <2>3, <3>1, <3>2 DEF ApplyCore, Goto, Fresh, Current, Places, TypeOK, database
    <3> QED BY <2>1, <3>1, <3>2 DEF Fresh, Current, Alone, Acts, OthersIdle
  <2>4. CASE ApplyTelegram(t)
    BY <2>1, <2>4 DEF ApplyTelegram, Finish, Goto, Fresh, Current, Alone, Acts, OthersIdle,
                      Places, TypeOK
  <2>5. CASE SnapshotFails(t) \/ ApplyCoreFails(t) \/ ApplyTelegramFails(t)
    BY <2>1, <2>5, StaysFresh
       DEF SnapshotFails, ApplyCoreFails, ApplyTelegramFails, Finish, Goto, Places, TypeOK
  <2>6. CASE TelegramCollides(t)
    BY <2>1, <2>6, StaysFresh DEF TelegramCollides, Meets, Finish, Goto, Places, TypeOK
  <2>7. CASE CoreCollides(t)
    <3>1. t \notin solo /\ ~trusted' /\ solo' = solo
      <4>1. PICK s \in Threads \ {t} : pc[s] = "core"
        BY <2>7 DEF CoreCollides, Meets
      <4> QED BY <2>7, <4>1 DEF CoreCollides, Meets, Alone, OthersIdle
    <3>2. \A s \in solo : s # t /\ pc[t] = "idle"
      BY <3>1 DEF Alone, OthersIdle
    <3> QED BY <2>1, <3>1, <3>2 DEF Fresh, Acts
  <2> QED BY <1>1, <2>2, <2>3, <2>4, <2>5, <2>6, <2>7 DEF ApplyStep
<1>2. ASSUME NEW h \in Handlers, NEW op \in Operations, NEW u \in Users,
             NEW patch \in Patch, Receive(h, op, u, patch)
      PROVE  Fresh'
  BY <1>2 DEF Receive, Begin, Goto, FirstStep, Fresh, Current, OthersIdle, Places, TypeOK
<1>3. ASSUME NEW h \in Handlers, NEW u \in Users,
             Read(h, u) \/ NotFound(h, u) \/ Write(h, u)
      PROVE  Fresh'
  <2>1. pc'[h] \notin {"core", "tele"}
    BY <1>3 DEF Read, NotFound, Write, Goto, Finish, Places, TypeOK
  <2> QED BY <1>3, <2>1, ActsHandler, StaysFresh DEF history
<1>4. ASSUME NEW D \in SUBSET Users, Poll(D) PROVE Fresh'
  BY <1>4 DEF Poll, Begin, Goto, Fresh, Current, OthersIdle, Places, TypeOK
<1>5. ASSUME NEW u \in Users, Before(u) \/ AddTraffic(u) \/ After(u)
      PROVE  Fresh'
  <2>1. pc'[Poller] \notin {"core", "tele"}
    BY <1>5 DEF Before, AddTraffic, After, Goto, Finish, Places, TypeOK
  <2> QED BY <1>5, <2>1, ActsPoller, StaysFresh
<1>6. CASE Tick
  BY <1>6 DEF Tick, Fresh
<1>7. CASE UNCHANGED vars
  BY <1>7 DEF vars, Fresh, Current, ActiveUsers, Active, Expired, OverQuota, history,
              database, proxies
<1>8. CASE EndRound
  <2>1. Acts(Poller) /\ solo' = solo /\ trusted' = trusted /\ pc'[Poller] \notin {"core", "tele"}
    BY <1>8 DEF Places, TypeOK, Acts, EndRound, Goto, Finish, history
  <2> QED BY <2>1, StaysFresh
<1>9. ASSUME NEW h \in Handlers, WriteFails(h) PROVE Fresh'
  <2>1. Acts(h) /\ solo' = solo /\ trusted' = trusted /\ pc'[h] \notin {"core", "tele"}
    BY <1>9 DEF Places, TypeOK, Acts, WriteFails, Goto, Finish, history
  <2> QED BY <2>1, StaysFresh
<1> QED
  BY <1>1, <1>2, <1>3, <1>4, <1>5, <1>6, <1>7, <1>8, <1>9
     DEF Next, Requests, HandlerStep, PollerStep

-------------------------------------------------------------------------------
(* What Synced asks when goroutine t is the only one that may be under way. *)
SyncedFor(t) ==
    /\ t \in Handlers /\ pc[t] \in {"idle", "read", "write"} => InSync
    /\ t = Poller /\ pc[t] = "idle" => InSync
    /\ t = Poller => Charging

LEMMA SyncedOfOne ==
    ASSUME Places', NEW t \in Threads, \A s \in Threads \ {t} : pc'[s] = "idle",
           SyncedFor(t)'
    PROVE  Synced'
BY DEF Synced, SyncedFor, Charging, AtRest, Places, Threads

(* A step of t that changes neither the table nor the proxies. *)
LEMMA SameInSync ==
    ASSUME UNCHANGED <<database, proxies>>
    PROVE  InSync' <=> InSync
BY UnchangedActive DEF InSync, database, proxies

LEMMA OneBefore ==
    ASSUME Places, Alone, NEW t \in Threads, Acts(t), t \in solo \/ trusted
    PROVE  \A s \in Threads \ {t} : pc'[s] = "idle"
BY OnlyOne DEF Acts, OthersIdle

LEMMA StepSynced == RepairInv /\ Places' /\ [Next]_vars => Synced'
<1> SUFFICES ASSUME Places, Alone, Fresh, Synced, Places', [Next]_vars, trusted'
             PROVE  Synced'
  BY DEF RepairInv, Synced
<1> USE DEF Threads
<1>1. ASSUME NEW t \in Threads, ApplyStep(t) PROVE Synced'
  <2>1. Acts(t)
    BY <1>1, ActsApply
  <2>2. CASE Snapshot(t) \/ ApplyCore(t)
    <3>1. trusted /\ pc'[t] \in {"core", "tele"}
      BY <2>2 DEF Snapshot, ApplyCore, Goto, history, Places, TypeOK
    <3>2. SyncedFor(t)'
      BY <3>1 DEF SyncedFor, Charging, Places
    <3> QED BY <2>1, <3>1, <3>2, OneBefore, SyncedOfOne
  <2>3. CASE ApplyTelegram(t)
    <3>1. (t \in solo \/ trusted) /\ pc'[t] = "idle" /\ pc[t] = "tele"
      BY <2>3 DEF ApplyTelegram, Finish, Goto, Places, TypeOK
    <3>2. snap[t] = row /\ served = ActiveUsers(row)
      BY <3>1 DEF Fresh, Current
    <3>3. ActiveUsers(row)' = ActiveUsers(row) /\ served' = served
      BY <2>3, UnchangedActive DEF ApplyTelegram, database
    <3>4. InSync'
      BY <2>3, <3>2, <3>3 DEF InSync, ApplyTelegram
    <3>5. SyncedFor(t)'
      BY <3>1, <3>4 DEF SyncedFor, Charging, Places
    <3> QED BY <2>1, <3>1, <3>5, OneBefore, SyncedOfOne
  <2>4. CASE SnapshotFails(t) \/ ApplyCoreFails(t) \/ ApplyTelegramFails(t)
    BY <2>4 DEF SnapshotFails, ApplyCoreFails, ApplyTelegramFails
  <2>5. CASE CoreCollides(t) \/ TelegramCollides(t)
    BY <2>5 DEF CoreCollides, TelegramCollides, Meets
  <2> QED BY <1>1, <2>2, <2>3, <2>4, <2>5 DEF ApplyStep
<1>2. ASSUME NEW h \in Handlers, NEW op \in Operations, NEW u \in Users,
             NEW patch \in Patch, Receive(h, op, u, patch)
      PROVE  Synced'
  <2>1. InSync /\ UNCHANGED <<database, proxies>>
    BY <1>2 DEF Receive, Begin, Goto, OthersIdle, Synced, AtRest
  <2>2. InSync'
    BY <2>1, SameInSync
  <2>3. \A s \in Threads \ {h} : pc'[s] = "idle"
    BY <1>2 DEF Receive, Begin, Goto, OthersIdle, Places, TypeOK
  <2>4. SyncedFor(h)'
    BY <2>2, PanelAssumption DEF SyncedFor, PanelAssumption
  <2> QED BY <2>3, <2>4, SyncedOfOne
<1>3. ASSUME NEW h \in Handlers, NEW u \in Users,
             Read(h, u) \/ NotFound(h, u) \/ Write(h, u)
      PROVE  Synced'
  <2>1. Acts(h) /\ trusted /\ h # Poller
    BY <1>3, ActsHandler, PanelAssumption DEF history, PanelAssumption
  <2>2. CASE Read(h, u) \/ NotFound(h, u)
    <3>1. InSync /\ UNCHANGED <<database, proxies>>
      BY <2>1, <2>2 DEF Synced, Read, NotFound, Goto, Finish
    <3>2. SyncedFor(h)'
      BY <2>1, <3>1, SameInSync DEF SyncedFor
    <3> QED BY <2>1, <3>2, OneBefore, SyncedOfOne
  <2>3. CASE Write(h, u)
    <3>1. SyncedFor(h)'
      BY <2>1, <2>3 DEF SyncedFor, Write, Goto, Places, TypeOK
    <3> QED BY <2>1, <3>1, OneBefore, SyncedOfOne
  <2> QED BY <1>3, <2>2, <2>3
<1>4. ASSUME NEW D \in SUBSET Users, Poll(D) PROVE Synced'
  <2>1. InSync /\ UNCHANGED <<database, proxies>>
    BY <1>4 DEF Poll, Begin, Goto, OthersIdle, Synced, AtRest
  <2>2. InSync'
    BY <2>1, SameInSync
  <2>3. (\A s \in Threads \ {Poller} : pc'[s] = "idle") /\ pc'[Poller] = "before"
    BY <1>4 DEF Poll, Begin, Goto, OthersIdle, Places, TypeOK
  <2>4. SyncedFor(Poller)'
    BY <2>2, <2>3, PanelAssumption DEF SyncedFor, Charging, PanelAssumption, Places
  <2> QED BY <2>3, <2>4, SyncedOfOne
<1>5. ASSUME NEW u \in Users, Before(u) \/ AddTraffic(u) \/ After(u)
      PROVE  Synced'
  <2>1. Acts(Poller) /\ trusted /\ Poller \notin Handlers
    BY <1>5, ActsPoller, PanelAssumption DEF PanelAssumption
  <2>2. Charging
    BY <2>1 DEF Synced
  <2>3. pc'[Poller] # "idle"
    BY <1>5 DEF Before, AddTraffic, After, Goto, Places, TypeOK
  <2>4. CASE Before(u)
    <3>1. changed \/ InSync
      BY <2>2, <2>4 DEF Charging, Before, Goto
    <3>2. changed' = changed /\ (InSync' <=> InSync) /\ UNCHANGED database
      BY <2>4, SameInSync DEF Before
    <3>3. /\ pc'[Poller] = "before" => cur' = {}
          /\ pc'[Poller] = "add" =>
                cur' = {u} /\ was' = Active(row[u]) /\ row[u].st = "row"
          /\ pc'[Poller] \in {"before", "add"}
      BY <2>4 DEF Before, Goto, Places, TypeOK
    <3>4. Active(row[u])' = Active(row[u])
      BY <3>2 DEF database, Active, Expired, OverQuota
    <3>5. Charging'
      BY <3>1, <3>2, <3>3, <3>4 DEF Charging, database
    <3> QED BY <2>1, <2>3, <3>5, OneBefore, SyncedOfOne DEF SyncedFor
  <2>5. CASE AddTraffic(u)
    <3>1. changed \/ (InSync /\ was = Active(row[u]))
      BY <2>2, <2>5 DEF Charging, AddTraffic, Goto
    <3>2. UNCHANGED <<now, proxies, round>> /\ \A v \in Users \ {u} : row'[v] = row[v]
      BY <2>5 DEF AddTraffic, Places, TypeOK
    <3>3. \A v \in Users \ {u} : Active(row[v])' = Active(row[v])
      BY <3>2 DEF Active, Expired, OverQuota
    <3>4. InSync /\ was = Active(row[u]) => InSyncBut(u)'
      BY <3>2, <3>3 DEF InSync, InSyncBut, ActiveUsers, proxies, round
    <3>5. pc'[Poller] = "after" /\ cur' = {u} /\ changed' = changed
      BY <2>5, <3>2 DEF AddTraffic, Goto, Places, TypeOK, round
    <3>6. row[u].st = "row"
      BY <2>2, <2>5 DEF Charging, AddTraffic
    <3>7. row'[u].st = "row"
      BY <2>5, <3>6 DEF AddTraffic, MoreUsed, Places, TypeOK, Row
    <3>8. Charging'
      BY <3>1, <3>4, <3>5, <3>7 DEF Charging
    <3> QED BY <2>1, <2>3, <3>8, OneBefore, SyncedOfOne DEF SyncedFor
  <2>6. CASE After(u)
    <3>1. changed \/ InSyncBut(u)
      BY <2>2, <2>6 DEF Charging, After, Goto
    <3>2. changed' = (changed \/ (row[u].st = "row" /\ was # Active(row[u])))
      BY <2>6 DEF After
    <3>4. UNCHANGED <<database, proxies>> /\ (InSync' <=> InSync)
      BY <2>6, SameInSync DEF After
    <3>5. pc'[Poller] = "before" /\ cur' = {}
      BY <2>6 DEF After, Goto, Places, TypeOK
    <3>6. changed' \/ InSync
      <4> SUFFICES ASSUME ~changed' PROVE InSync
        OBVIOUS
      <4>1. InSyncBut(u) /\ (row[u].st = "row" => was = Active(row[u]))
        BY <3>1, <3>2
      <4>2. row[u].st = "row"
        BY <2>2, <2>6 DEF Charging, After
      <4> QED BY <4>1, <4>2 DEF InSync, InSyncBut, ActiveUsers, Places, TypeOK
    <3>7. Charging'
      BY <3>4, <3>5, <3>6 DEF Charging
    <3> QED BY <2>1, <2>3, <3>7, OneBefore, SyncedOfOne DEF SyncedFor
  <2> QED BY <1>5, <2>4, <2>5, <2>6
<1>6. CASE Tick
  BY <1>6 DEF Tick
<1>7. CASE UNCHANGED vars
  <2>1. (InSync' <=> InSync) /\ \A u \in Users : Active(row[u])' = Active(row[u])
    BY <1>7, SameInSync DEF vars, database, Active, Expired, OverQuota
  <2>2. Charging => Charging'
    BY <1>7, <2>1 DEF vars, Charging, InSyncBut, round, proxies, database
  <2> QED BY <1>7, <2>1, <2>2 DEF vars, Synced, AtRest, history
<1>8. CASE EndRound
  <2>1. /\ Acts(Poller) /\ trusted /\ Poller \notin Handlers
        /\ (InSync' <=> InSync)
        /\ pc'[Poller] \in {"idle", "snap"} /\ (pc'[Poller] = "idle" => ~changed)
    BY <1>8, SameInSync, PanelAssumption
       DEF PanelAssumption, Places, TypeOK, Acts, EndRound, Goto, Finish, history
  <2>2. pc'[Poller] = "idle" => InSync'
    BY <1>8, <2>1 DEF Synced, Charging, EndRound, Goto, Finish
  <2>3. SyncedFor(Poller)'
    BY <2>1, <2>2 DEF SyncedFor, Charging, Places
  <2> QED BY <2>1, <2>3, OneBefore, SyncedOfOne
<1>9. ASSUME NEW h \in Handlers, WriteFails(h) PROVE Synced'
  <2>1. /\ Acts(h) /\ trusted /\ h # Poller
        /\ (InSync' <=> InSync) /\ pc[h] = "write" /\ pc'[h] \in {"idle", "snap"}
    BY <1>9, SameInSync, PanelAssumption
       DEF PanelAssumption, Places, TypeOK, Acts, WriteFails, Goto, Finish, history
  <2>2. SyncedFor(h)'
    BY <2>1 DEF Synced, SyncedFor
  <2> QED BY <2>1, <2>2, OneBefore, SyncedOfOne
<1> QED
  BY <1>1, <1>2, <1>3, <1>4, <1>5, <1>6, <1>7, <1>8, <1>9
     DEF Next, Requests, HandlerStep, PollerStep

LEMMA StepRepair == RepairInv /\ [Next]_vars => RepairInv'
BY StepPlaces, StepAlone, StepFresh, StepSynced DEF RepairInv

(* The variables keep their types, under every interleaving and fault. *)
THEOREM PanelTypes == Spec => []TypeOK
<1>1. RepairInv => TypeOK
  BY DEF RepairInv, Places
<1> QED BY <1>1, InitRepair, StepRepair, PTL DEF Spec

(* Whatever overlapped or failed before, short of a collision inside one       *)
(* proxy's Apply, an apply that runs alone brings both proxies in line with the *)
(* users table.                                                                 *)
THEOREM LoneApplyRepairsAll == Spec => []LoneApplyRepairs
<1>1. RepairInv => LoneApplyRepairs
  BY DEF RepairInv, Synced, LoneApplyRepairs
<1> QED BY <1>1, InitRepair, StepRepair, PTL DEF Spec

-------------------------------------------------------------------------------
(* Who writes the users table: a request in its write step, and the loop.      *)
LEMMA RowStep ==
    ASSUME [Next]_vars
    PROVE  \/ row' = row
           \/ \E h \in Handlers, u \in Users : Write(h, u)
           \/ \E u \in Users : AddTraffic(u)
<1> USE DEF database
<1>1. ASSUME NEW t \in Threads, ApplyStep(t) PROVE row' = row
  BY <1>1 DEF ApplyStep, Snapshot, SnapshotFails, ApplyCore, ApplyCoreFails, Meets,
              CoreCollides, ApplyTelegram, ApplyTelegramFails, TelegramCollides
<1>2. ASSUME NEW h \in Handlers, HandlerStep(h)
      PROVE  row' = row \/ \E u \in Users : Write(h, u)
  BY <1>1, <1>2 DEF HandlerStep, Read, NotFound, WriteFails, Threads
<1>3. CASE PollerStep
  BY <1>1, <1>3 DEF PollerStep, Before, After, EndRound, Threads
<1>4. CASE Requests
  BY <1>4 DEF Requests, Receive
<1>5. ASSUME NEW D \in SUBSET Users, Poll(D) PROVE row' = row
  BY <1>5 DEF Poll
<1>6. CASE Tick \/ UNCHANGED vars
  BY <1>6 DEF Tick, vars
<1> QED BY <1>2, <1>3, <1>4, <1>5, <1>6 DEF Next

(* A row that is not there yet, or not any more, has no usage to lose.         *)
NothingUsed == \A u \in Users : row[u].st # "row" => row[u].used = 0

LEMMA StepNothingUsed == Places /\ NothingUsed /\ [Next]_vars => NothingUsed'
<1> SUFFICES ASSUME Places, NothingUsed, [Next]_vars PROVE NothingUsed'
  OBVIOUS
<1> USE DEF Places, TypeOK, NothingUsed
<1>1. ASSUME NEW h \in Handlers, NEW u \in Users, Write(h, u) PROVE NothingUsed'
  <2>1. Written(h, u).st # "row" => Written(h, u).used = 0
    BY DEF Written, Columns, Created, Blank, Row
  <2> QED BY <1>1, <2>1 DEF Write
<1>2. ASSUME NEW u \in Users, AddTraffic(u) PROVE NothingUsed'
  BY <1>2 DEF AddTraffic, MoreUsed, Row
<1> QED BY RowStep, <1>1, <1>2

LEMMA StepUsage ==
    ASSUME Places, NothingUsed, [Next]_vars, NEW u \in Users,
           row'[u].st = "row", row'[u].used < row[u].used
    PROVE  \E h \in Handlers : /\ pc[h] = "write" /\ pc'[h] = "snap"
                               /\ req[h].user = {u} /\ req[h].op = "reset"
<1> USE DEF Places, TypeOK
<1>0. row[u].used \in Nat
  BY PanelAssumption DEF PanelAssumption, Row
<1>1. ASSUME NEW h \in Handlers, NEW v \in Users, Write(h, v)
      PROVE  v = u /\ pc[h] = "write" /\ pc'[h] = "snap" /\ req[h].user = {u} /\ req[h].op = "reset"
  <2>1. v = u /\ row'[u] = Written(h, u)
    BY <1>0, <1>1 DEF Write
  <2>2. Written(h, u).st = "row" /\ req[h].op # "reset"
          => ~(Written(h, u).used < row[u].used)
    BY <1>0 DEF Written, Columns, Created, Blank, Row, NothingUsed
  <2> QED BY <1>0, <1>1, <2>1, <2>2 DEF Write, Goto, Threads
<1>2. ASSUME NEW v \in Users, AddTraffic(v) PROVE FALSE
  BY <1>0, <1>2 DEF AddTraffic, MoreUsed, Row
<1>3. row' = row => FALSE
  BY <1>0
<1> QED BY RowStep, <1>1, <1>2, <1>3

(* However requests overlap and whatever fails, recorded usage goes down only  *)
(* when the administrator resets it.                                            *)
THEOREM UsageIsKept == Spec => UsageKept
<1>1. Init => Places /\ NothingUsed
  BY InitRepair DEF RepairInv, Init, NothingUsed, Blank, Row
<1>2. Places /\ NothingUsed /\ [Next]_vars => (Places /\ NothingUsed)'
  BY StepPlaces, StepNothingUsed
<1>3. Places /\ NothingUsed /\ [Next]_vars
        => [\A u \in Users : row'[u].st = "row" /\ row'[u].used < row[u].used
              => \E h \in Handlers : /\ pc[h] = "write" /\ pc'[h] = "snap"
                                     /\ req[h].user = {u} /\ req[h].op = "reset"]_vars
  BY StepUsage
<1> QED BY <1>1, <1>2, <1>3, PTL DEF Spec, UsageKept

-------------------------------------------------------------------------------
(* When requests do not overlap, one goroutine at most is under way, and what  *)
(* an update has read is still the row when it writes.                          *)
Solitary == \A s, t \in Threads : pc[s] # "idle" /\ pc[t] # "idle" => s = t
Copied ==
    \A h \in Handlers, u \in Users :
        pc[h] = "write" /\ req[h].op = "update" /\ req[h].user = {u} => copy[h] = row[u]
SerialInv == Places /\ Solitary /\ Copied

LEMMA ActsWriting ==
    ASSUME Places, NEW h \in Handlers, WriteFails(h)
    PROVE  Acts(h)
BY DEF Places, TypeOK, Acts, WriteFails, Goto, Finish, Threads

LEMMA ActsEnding ==
    ASSUME Places, EndRound
    PROVE  Acts(Poller)
BY DEF Places, TypeOK, Acts, EndRound, Goto, Finish, Threads

LEMMA StepSerial == Serial /\ SerialInv /\ [Next]_vars => SerialInv'
<1> SUFFICES ASSUME Serial, SerialInv, [Next]_vars PROVE Solitary' /\ Copied'
  BY StepPlaces DEF SerialInv
<1> USE DEF SerialInv, Threads
<1>a. ASSUME NEW t \in Threads, Acts(t), pc'[t] # "write" PROVE Solitary' /\ Copied'
  BY <1>a DEF Solitary, Copied, Acts
<1>b. ASSUME NEW t \in Threads, Begin(t, "snap") \/ Begin(t, "before")
      PROVE  Solitary' /\ Copied'
  BY <1>b DEF Solitary, Copied, Begin, Goto, OthersIdle, Places, TypeOK
<1>1. ASSUME NEW t \in Threads, ApplyStep(t) PROVE Solitary' /\ Copied'
  <2>1. Acts(t) /\ pc'[t] # "write"
    BY <1>1, ActsApply
       DEF Places, TypeOK, ApplyStep, Snapshot, SnapshotFails, ApplyCore, ApplyCoreFails,
           ApplyTelegram, ApplyTelegramFails, CoreCollides, TelegramCollides, Goto, Finish
  <2> QED BY <1>a, <2>1
<1>2. ASSUME NEW h \in Handlers, NEW op \in Operations, NEW u \in Users,
             NEW patch \in Patch, Receive(h, op, u, patch)
      PROVE  Solitary' /\ Copied'
  <2>1. /\ pc[h] = "idle" /\ OthersIdle(h)
        /\ pc' = [pc EXCEPT ![h] = FirstStep(op)]
        /\ req' = [req EXCEPT ![h] = [op |-> op, user |-> {u}, patch |-> patch]]
    BY <1>2 DEF Receive, Begin, Goto
  <2>2. op = "update" => FirstStep(op) = "read"
    BY DEF FirstStep
  <2> QED BY <2>1, <2>2 DEF Solitary, Copied, OthersIdle, Places, TypeOK
<1>3. ASSUME NEW h \in Handlers, NEW u \in Users, Read(h, u) PROVE Solitary' /\ Copied'
  <2>1. Acts(h) /\ req[h].user = {u} /\ copy' = [copy EXCEPT ![h] = row[u]]
        /\ UNCHANGED <<row, req>>
    BY <1>3, ActsHandler DEF Read, database
  <2> QED BY <2>1 DEF Solitary, Copied, Acts, Places, TypeOK
<1>4. ASSUME NEW h \in Handlers, NEW u \in Users, NotFound(h, u) \/ Write(h, u)
      PROVE  Solitary' /\ Copied'
  <2>1. Acts(h) /\ pc'[h] # "write"
    BY <1>4, ActsHandler DEF NotFound, Write, Goto, Finish, Places, TypeOK
  <2> QED BY <1>a, <2>1
<1>5. ASSUME NEW h \in Handlers, WriteFails(h) PROVE Solitary' /\ Copied'
  <2>1. pc'[h] # "write"
    BY <1>5 DEF WriteFails, Goto, Finish, Places, TypeOK
  <2> QED BY <1>5, <1>a, <2>1, ActsWriting
<1>6. ASSUME NEW D \in SUBSET Users, Poll(D) PROVE Solitary' /\ Copied'
  BY <1>6, <1>b DEF Poll
<1>7. ASSUME NEW u \in Users, Before(u) \/ AddTraffic(u) \/ After(u)
      PROVE  Solitary' /\ Copied'
  <2>1. Acts(Poller) /\ pc'[Poller] # "write"
    BY <1>7, ActsPoller DEF Before, AddTraffic, After, Goto, Places, TypeOK
  <2> QED BY <1>a, <2>1
<1>8. CASE EndRound
  <2>1. pc'[Poller] # "write"
    BY <1>8 DEF EndRound, Goto, Finish, Places, TypeOK
  <2> QED BY <1>8, <1>a, <2>1, ActsEnding
<1>9. CASE Tick \/ UNCHANGED vars
  <2>1. UNCHANGED <<pc, req, copy, row>>
    BY <1>9 DEF Tick, vars, database
  <2> QED BY <2>1 DEF Solitary, Copied
<1> QED
  BY <1>1, <1>2, <1>3, <1>4, <1>5, <1>6, <1>7, <1>8, <1>9
     DEF Next, Requests, HandlerStep, PollerStep

(* Only Write takes an update from its write step to apply. *)
LEMMA OnlyWriteWrites ==
    ASSUME SerialInv, [Next]_vars, NEW h \in Handlers, pc[h] = "write", pc'[h] = "snap",
           req[h].op = "update"
    PROVE  \E u \in Users : Write(h, u)
<1> USE DEF SerialInv, Threads
<1>a. ASSUME NEW t \in Threads, Acts(t) PROVE t = h
  BY <1>a DEF Solitary, Acts
<1>1. ASSUME NEW t \in Threads, ApplyStep(t) PROVE FALSE
  <2>1. t = h
    BY <1>1, <1>a, ActsApply
  <2> QED
    BY <1>1, <2>1 DEF ApplyStep, Snapshot, SnapshotFails, ApplyCore, ApplyCoreFails,
                      ApplyTelegram, ApplyTelegramFails, CoreCollides, TelegramCollides,
                      Goto, Finish
<1>2. ASSUME NEW g \in Handlers, HandlerStep(g) PROVE \E u \in Users : Write(h, u)
  <2>1. ASSUME NEW u \in Users, Read(g, u) \/ NotFound(g, u) PROVE FALSE
    BY <2>1, <1>a, ActsHandler DEF Read, NotFound, Goto, Finish
  <2>2. ASSUME NEW u \in Users, Write(g, u) PROVE Write(h, u)
    BY <2>2, <1>a, ActsHandler
  <2>3. ASSUME WriteFails(g) PROVE FALSE
    BY <2>3, <1>a, ActsWriting DEF WriteFails, Goto, Finish, Places, TypeOK
  <2> QED BY <1>1, <1>2, <2>1, <2>2, <2>3 DEF HandlerStep
<1>3. PollerStep => FALSE
  <2>1. Poller # h
    BY PanelAssumption DEF PanelAssumption
  <2> QED BY <1>1, <1>a, <2>1, ActsPoller, ActsEnding DEF PollerStep
<1>4. ASSUME NEW t \in Threads, NEW to, Begin(t, to) PROVE FALSE
  <2>1. t # h /\ pc' = [pc EXCEPT ![t] = to]
    BY <1>4 DEF Begin, Goto
  <2> QED BY <2>1 DEF Places, TypeOK
<1>5. Requests => FALSE
  BY <1>4 DEF Requests, Receive
<1>6. ASSUME NEW D \in SUBSET Users PROVE ~Poll(D)
  BY <1>4 DEF Poll
<1>7. ~(Tick \/ UNCHANGED vars)
  BY DEF Tick, vars
<1> QED BY <1>2, <1>3, <1>5, <1>6, <1>7 DEF Next

LEMMA StepAsked ==
    ASSUME SerialInv, [Next]_vars, NEW u \in Users, NEW h \in Handlers,
           req[h].op = "update", req[h].user = {u}, pc[h] = "write", pc'[h] = "snap"
    PROVE  Asks(u, req[h].patch)
<1>1. Write(h, u)
  BY OnlyWriteWrites DEF Write
<1>2. copy[h] = row[u] /\ row[u] \in Row
  BY DEF SerialInv, Copied, Places, TypeOK
<1>3. row'[u] = row[u] \/ row'[u] = Columns(Patched(row[u], req[h].patch), u)
  BY <1>1, <1>2 DEF Write, Written, SerialInv, Places, TypeOK
<1> QED BY <1>2, <1>3 DEF Asks, Columns, Patched, Field, Row

(* When requests do not overlap, an update changes what its JSON names, and    *)
(* only a new limit may turn a user on without being asked.                     *)
THEOREM OnlyTheAsked == ASSUME Serial PROVE Spec => OnlyWhatWasAsked
<1>1. Init => SerialInv
  BY InitRepair DEF RepairInv, SerialInv, Init, Solitary, Copied, Threads
<1>2. SerialInv /\ [Next]_vars => SerialInv'
  BY StepSerial, Serial
<1>3. SerialInv /\ [Next]_vars
        => [\A u \in Users, h \in Handlers :
              req[h].op = "update" /\ req[h].user = {u} /\ pc[h] = "write" /\ pc'[h] = "snap"
                  => Asks(u, req[h].patch)]_vars
  BY StepAsked
<1> QED BY <1>1, <1>2, <1>3, PTL DEF Spec, OnlyWhatWasAsked
===============================================================================
