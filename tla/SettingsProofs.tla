---------------------------- MODULE SettingsProofs ----------------------------
(***************************************************************************)
(* Validated names stay apart, secrets fit the fake domain and what was    *)
(* accepted is applied, as far as overlaps and faults leave each of them     *)
(* promised: for any names, users and handlers.                             *)
(***************************************************************************)
EXTENDS Settings, TLAPS

-------------------------------------------------------------------------------
(* A step is taken only for a field that the request names; one copy at a time. *)
Asked ==
    \A h \in Handlers :
        /\ pc[h] = "host" => req[h].put.host # Keep
        /\ pc[h] \in {"rread", "rcheck", "rset"} => req[h].put.reality # Keep
        /\ pc[h] = "idle" => st[h] = {}
        /\ \A s, t \in st[h] : s = t
Types == TypeOK /\ Asked

(* A goroutine in solo is the only one under way; while another one is, which   *)
(* overlapped or outlived an overlap, nothing is promised.                       *)
Mingled == \E h \in Handlers : pc[h] # "idle" /\ h \notin solo
Alone ==
    /\ \A h \in solo : OthersIdle(h)
    /\ Mingled => vetted = {} /\ ~keyed /\ ~synced

(* Its copy of the settings is the table, until it writes the fake domain, and  *)
(* what it has validated is still valid.                                         *)
Copied(h) ==
    \A s \in st[h] :
        /\ pc[h] \in {"rcheck", "tcheck", "ton", "tfake", "user", "users", "core", "mtg"} =>
               s.host = host /\ s.reality = reality /\ s.fake = fake
        /\ pc[h] \in {"users", "core", "mtg"} => s.on = on
        /\ pc[h] \in {"ton", "tfake"} =>
               NewFake(h, s) \notin {host, reality} \cup domains
        /\ pc[h] \in {"list", "rotate"} => fake = NewFake(h, s)
Checked(h) ==
    /\ pc[h] = "rset" => req[h].put.reality \notin {host, fake} \cup domains
    /\ pc[h] \in {"core", "mtg"} => seen[h] = secret
    /\ pc[h] = "mtg" /\ ~collided => core = reality
Fresh == \A h \in solo : Copied(h) /\ Checked(h)

(* What was validated, and nobody has touched since. *)
Apart ==
    /\ "fake" \in vetted => fake \notin Ours
    /\ "reality" \in vetted => reality \notin Ours \cup {fake}

(* Secrets fit, but for the users a rotation has still to visit. *)
Keys ==
    keyed =>
        \/ \A u \in Existing : secret[u] = fake
        \/ \E h \in solo : \E s \in st[h] :
               /\ pc[h] = "list"
               /\ \A u \in Existing : secret[u] = s.fake
        \/ \E h \in solo : \E s \in st[h] :
               /\ pc[h] = "rotate"
               /\ \A u \in Existing : u \in left[h] \/ secret[u] = fake

(* After two goroutines met inside a proxy's Apply no later apply is trusted.     *)
Distrusted == collided => ~synced

Applied == synced /\ AtRest => core = reality /\ mtg = RenderTOML(Settings, secret)

SettingsInv == Types /\ Alone /\ Fresh /\ Apart /\ Keys /\ Distrusted /\ Applied

LEMMA InitSettings == Init => SettingsInv
<1> SUFFICES ASSUME Init PROVE SettingsInv
  OBVIOUS
<1> USE SettingsAssumption DEF SettingsAssumption, Init
<1>1. Types
  <2>1. NoRequest \in Request
    BY DEF NoRequest, Request, NoPut, Put, Operations
  <2>2. mtg \in [Users -> Names \cup {"off"}]
    BY DEF NobodyServed
  <2>5. NoRows \in [Users -> Secrets] /\ secret \in [Users -> Secrets]
    BY DEF NoRows, Secrets
  <2>3. Settings \in Copy
    BY DEF Settings, Copy
  <2>4. "idle" \in Steps
    BY DEF Steps
  <2> QED BY <2>1, <2>2, <2>3, <2>4, <2>5 DEF Types, TypeOK, Asked
<1>2. Alone /\ Fresh
  BY DEF Alone, Mingled, Fresh
<1>3. Apart
  BY DEF Apart, Ours
<1>4. Keys
  BY DEF Keys, Existing
<1>5. Applied
  <2>1. mtg = RenderTOML(Settings, secret)
    BY DEF RenderTOML, Settings, NobodyServed
  <2> QED BY <2>1 DEF Applied
<1>6. Distrusted
  BY DEF Distrusted
<1> QED BY <1>1, <1>2, <1>3, <1>4, <1>5, <1>6 DEF SettingsInv

-------------------------------------------------------------------------------
LEMMA RenderedType ==
    ASSUME NEW s \in Copy, NEW users \in [Users -> Secrets]
    PROVE  RenderTOML(s, users) \in [Users -> Names \cup {"off"}]
BY DEF RenderTOML, Copy

LEMMA Fields ==
    /\ \A s \in Copy : /\ s.host \in Names \cup {NoName} /\ s.reality \in Names
                       /\ s.fake \in Names /\ s.on \in BOOLEAN
    /\ \A p \in Put : /\ p.host \in Names \cup {NoName, Keep}
                      /\ p.reality \in Names \cup {Keep} /\ p.fake \in Names \cup {Keep}
                      /\ p.on \in BOOLEAN \cup {Keep}
BY DEF Copy, Put

LEMMA UserRequest ==
    ASSUME NEW op \in Operations, NEW u \in Users
    PROVE  [NoRequest EXCEPT !.op = op, !.user = {u}] \in Request
BY DEF NoRequest, Request, NoPut, Put

LEMMA StepTypes == Types /\ [Next]_vars => Types'
<1> SUFFICES ASSUME Types, [Next]_vars PROVE Types'
  OBVIOUS
<1> USE SettingsAssumption
    DEF SettingsAssumption, Types, TypeOK, Asked, Steps, Goto, table, config, locals, history
<1>s. host \in Names \cup {NoName} /\ reality \in Names /\ fake \in Names /\ on \in BOOLEAN
  BY DEF Settings, Copy
<1>t. ASSUME host' \in Names \cup {NoName}, reality' \in Names, fake' \in Names, on' \in BOOLEAN
      PROVE  Settings' \in Copy
  BY <1>t DEF Settings, Copy
<1>n. NoRequest \in Request /\ NoRows \in [Users -> Secrets]
  BY DEF NoRequest, Request, NoPut, Put, Operations, NoRows, Secrets
<1>p. \A h \in Handlers : req[h].put \in Put
  BY DEF Request
<1>f. \A h \in Handlers : \A s \in st[h] : s \in Copy /\ NewFake(h, s) \in Names
  <2> SUFFICES ASSUME NEW h \in Handlers, NEW s \in st[h]
               PROVE  s \in Copy /\ NewFake(h, s) \in Names
    OBVIOUS
  <2>1. s \in Copy
    OBVIOUS
  <2>2. s.fake \in Names
    BY <2>1, Fields
  <2>3. req[h].put.fake \in Names \cup {Keep}
    BY <1>p, Fields
  <2> QED BY <2>1, <2>2, <2>3 DEF NewFake, Field
<1>1. ASSUME NEW h \in Handlers, Requests(h) PROVE Types'
  <2>1. ASSUME NEW to \in Steps, NEW r \in Request, Begin(h, to, r),
               to = "host" => r.put.host # Keep, to = "rread" => r.put.reality # Keep,
               to \notin {"rcheck", "rset"}
        PROVE  Types'
    BY <2>1, <1>s, <1>t DEF Begin, OthersIdle
  <2>2. ASSUME NEW p \in Puts, putSettings(h, p) PROVE Types'
    <3> DEFINE r == [NoRequest EXCEPT !.op = "put", !.put = p]
               to == IF p.host # Keep THEN "host" ELSE AfterHost(p)
    <3>1. p \in Put
      BY DEF Puts
    <3>2. r \in Request /\ r.put = p
      BY <3>1 DEF NoRequest, Request, Operations
    <3>3. /\ to \in Steps /\ to \notin {"rcheck", "rset"}
          /\ to = "host" => p.host # Keep
          /\ to = "rread" => p.reality # Keep
      BY DEF AfterHost, AfterReality
    <3>4. Begin(h, to, r)
      BY <2>2 DEF putSettings
    <3> HIDE DEF r, to
    <3> QED BY <2>1, <3>2, <3>3, <3>4
  <2>3. ASSUME NEW drop \in AtMostOne, NEW add \in AtMostOne, changeDomains(h, drop, add)
        PROVE  Types'
    <3>1. drop \in SUBSET Names /\ add \in SUBSET Names
      BY DEF AtMostOne
    <3>2. [NoRequest EXCEPT !.op = "domains", !.drop = drop, !.add = add] \in Request
      BY <3>1, <1>n DEF NoRequest, Request, Operations
    <3> QED BY <2>3, <2>1, <3>2 DEF changeDomains
  <2>4. ASSUME NEW op \in Operations, NEW u \in Users, changeUser(h, op, u) PROVE Types'
    <3>1. [NoRequest EXCEPT !.op = op, !.user = {u}] \in Request
      BY UserRequest
    <3>2. (IF op = "delete" THEN "user" ELSE "uread") \in Steps \ {"host", "rread", "rcheck", "rset"}
      OBVIOUS
    <3> QED BY <2>4, <2>1, <3>1, <3>2 DEF changeUser
  <2> QED BY <1>1, <2>2, <2>3, <2>4 DEF Requests
<1>2. ASSUME NEW h \in Handlers, NEW from \in Steps, NEW to \in Steps \ {"idle"},
             ReadSettings(h, from, to),
             from = "rread" \/ to \notin {"host", "rread", "rcheck", "rset"}, to \notin {"host"}
      PROVE  Types'
  <2>1. TypeOK'
    BY <1>2, <1>s, <1>t DEF ReadSettings
  <2>2. Asked'
    BY <1>2 DEF ReadSettings
  <2> QED BY <2>1, <2>2
<1>e. ASSUME NEW h \in Handlers, NEW from, Finish(h, from), UNCHANGED table,
             core' \in Names \cup {"off"}, mtg' \in [Users -> Names \cup {"off"}],
             UNCHANGED <<vetted, solo>>, keyed' \in BOOLEAN, synced' \in BOOLEAN, collided' \in BOOLEAN
      PROVE  Types'
  <2>1. TypeOK'
    BY <1>e, <1>n, <1>s, <1>t DEF Finish
  <2>2. Asked'
    BY <1>e DEF Finish
  <2> QED BY <2>1, <2>2
<1>3. ASSUME NEW h \in Handlers, NEW from \in Steps, Reject(h, from) PROVE Types'
  BY <1>3, <1>e DEF Reject
<1>4. ASSUME NEW h \in Handlers, PutStep(h) PROVE Types'
  <2>1. CASE WriteHost(h)
    <3>1. req[h].put.host \in Names \cup {NoName}
      BY <2>1, <1>p DEF WriteHost, Put
    <3> QED BY <2>1, <3>1, <1>s, <1>t DEF WriteHost, AfterHost, AfterReality
  <2>2. CASE ReadSettings(h, "rread", "rcheck") \/ ReadSettings(h, "tread", "tcheck")
    BY <2>2, <1>2
  <2>3. CASE RealityCheck(h)
    <3>1. CASE Reject(h, "rcheck")
      BY <3>1, <1>3
    <3>2. CASE Goto(h, "rcheck", "rset") /\ UNCHANGED <<table, config, locals, history>>
      BY <3>2, <1>s, <1>t
    <3> QED BY <2>3, <3>1, <3>2 DEF RealityCheck
  <2>4. CASE SetReality(h)
    <3>1. req[h].put.reality \in Names
      BY <2>4, <1>p DEF SetReality, Put
    <3> QED BY <2>4, <3>1, <1>s, <1>t DEF SetReality, AfterReality, Vet
  <2>5. CASE TelegramCheck(h)
    <3>1. CASE Reject(h, "tcheck")
      BY <3>1, <1>3
    <3>2. CASE Goto(h, "tcheck", "ton") /\ UNCHANGED <<table, config, locals, history>>
      BY <3>2, <1>s, <1>t
    <3> QED BY <2>5, <3>1, <3>2 DEF TelegramCheck
  <2>6. CASE SetOn(h)
    <3>1. PICK s \in st[h] : on' = Field(req[h].put.on, s.on)
      BY <2>6 DEF SetOn
    <3>2. req[h].put.on \in BOOLEAN \cup {Keep} /\ s.on \in BOOLEAN
      BY <1>p, <1>f, Fields
    <3>3. on' \in BOOLEAN
      BY <3>1, <3>2 DEF Field
    <3> QED BY <2>6, <3>3, <1>s, <1>t DEF SetOn
  <2>7. CASE SetFake(h)
    <3>1. fake' \in Names
      BY <2>7, <1>f DEF SetFake
    <3> QED BY <2>7, <3>1, <1>s, <1>t DEF SetFake, Vet
  <2>8. CASE List(h)
    BY <2>8, <1>s, <1>t DEF List, Existing
  <2>9. ASSUME NEW u \in Users, Rotate(h, u) PROVE Types'
    <3>1. PICK n \in Names : SetSecret(u, n)
      BY <2>9, <1>f DEF Rotate
    <3>2. secret' \in [Users -> Secrets]
      BY <3>1 DEF SetSecret, Secrets
    <3> QED BY <2>9, <3>2, <1>s, <1>t DEF Rotate
  <2>10. CASE Rotated(h)
    BY <2>10, <1>s, <1>t DEF Rotated
  <2> QED BY <1>4, <2>1, <2>2, <2>3, <2>4, <2>5, <2>6, <2>7, <2>8, <2>9, <2>10 DEF PutStep
<1>5. ASSUME NEW h \in Handlers, OtherStep(h) PROVE Types'
  <2>1. CASE WriteDomains(h)
    <3>1. req[h].add \in SUBSET Names
      BY DEF Request
    <3> QED BY <2>1, <3>1, <1>s, <1>t DEF WriteDomains
  <2>2. CASE NotUnique(h)
    BY <2>2, <1>3 DEF NotUnique
  <2>3. CASE DeleteFails(h)
    BY <2>3, <1>s, <1>t DEF DeleteFails
  <2>4. CASE ReadSettings(h, "uread", "user")
    BY <2>4, <1>2
  <2>5. ASSUME NEW u \in Users, WriteUser(h, u) PROVE Types'
    <3>1. \A s \in st[h] : s.fake \in Names
      BY DEF Copy
    <3>2. secret' \in [Users -> Secrets]
      BY <2>5, <3>1 DEF WriteUser, SetSecret, Secrets
    <3> QED BY <2>5, <3>2, <1>s, <1>t DEF WriteUser
  <2>6. ASSUME NEW u \in Users, Refused(h, u) PROVE Types'
    BY <2>6, <1>3 DEF Refused
  <2> QED BY <1>5, <2>1, <2>2, <2>3, <2>4, <2>5, <2>6 DEF OtherStep
<1>6. ASSUME NEW h \in Handlers, ApplyStep(h) PROVE Types'
  <2>1. CASE SnapshotSettings(h)
    BY <2>1, <1>n, <1>s, <1>t DEF SnapshotSettings
  <2>2. CASE Snapshot(h)
    BY <2>2, <1>s, <1>t DEF Snapshot
  <2>3. CASE ApplyCore(h)
    <3>1. core' \in Names
      BY <2>3, <1>f DEF ApplyCore, Copy
    <3> QED BY <2>3, <3>1, <1>s, <1>t DEF ApplyCore
  <2>4. CASE ApplyMtg(h)
    <3>1. PICK s \in st[h] : mtg' = RenderTOML(s, seen[h])
      BY <2>4 DEF ApplyMtg
    <3>2. mtg' \in [Users -> Names \cup {"off"}]
      BY <3>1, <1>f, RenderedType
    <3>3. /\ Finish(h, "mtg") /\ UNCHANGED <<table, core, vetted, keyed, collided, solo>>
          /\ synced' \in BOOLEAN
      BY <2>4 DEF ApplyMtg
    <3> QED BY <3>2, <3>3, <1>e
  <2>5. CASE ApplyCoreFails(h)
    <3>1. /\ Finish(h, "core") /\ UNCHANGED <<table, mtg, vetted, keyed, collided, solo>>
          /\ synced' \in BOOLEAN /\ core' \in Names \cup {"off"}
      BY <2>5 DEF ApplyCoreFails
    <3> QED BY <3>1, <1>e
  <2>6. CASE ApplyMtgFails(h)
    <3>1. NobodyServed \in [Users -> Names \cup {"off"}]
      BY DEF NobodyServed
    <3>2. /\ Finish(h, "mtg") /\ UNCHANGED <<table, core, vetted, keyed, collided, solo>>
          /\ synced' = FALSE /\ mtg' \in {mtg, NobodyServed}
      BY <2>6, Zenon DEF ApplyMtgFails
    <3>3. mtg' \in [Users -> Names \cup {"off"}]
      BY <3>1, <3>2
    <3> QED BY <3>2, <3>3, <1>e
  <2>7. CASE CoreCollides(h)
    <3>1. /\ pc[h] = "core" /\ pc' = [pc EXCEPT ![h] = "mtg"]
          /\ UNCHANGED <<table, mtg, locals, vetted, keyed, solo>>
          /\ synced' = FALSE /\ collided' = TRUE /\ core' \in Names \cup {"off"}
      BY <2>7 DEF CoreCollides, Meets
    <3>2. TypeOK'
      BY <3>1, <1>s, <1>t
    <3>3. Asked'
      BY <3>1
    <3> QED BY <3>2, <3>3
  <2>8. CASE MtgCollides(h)
    <3>1. /\ Finish(h, "mtg") /\ UNCHANGED <<table, core, vetted, keyed, solo>>
          /\ synced' = FALSE /\ collided' = TRUE /\ mtg' \in [Users -> Names \cup {"off"}]
      BY <2>8 DEF MtgCollides, Meets
    <3> QED BY <3>1, <1>e
  <2> QED BY <1>6, <2>1, <2>2, <2>3, <2>4, <2>5, <2>6, <2>7, <2>8 DEF ApplyStep
<1>7. ASSUME NEW h \in Handlers, Fail(h) PROVE Types'
  <2>1. Finish(h, pc[h]) /\ UNCHANGED <<table, config, vetted, collided, solo>>
        /\ synced' = FALSE /\ keyed' \in BOOLEAN /\ pc[h] \in Steps
    BY <1>7 DEF Fail
  <2> QED BY <2>1, <1>e
<1>8. ASSUME UNCHANGED vars PROVE Types'
  BY <1>8, <1>s, <1>t DEF vars
<1> QED BY <1>1, <1>4, <1>5, <1>6, <1>7, <1>8 DEF Next, Step

-------------------------------------------------------------------------------
(* Every step but the start of a request moves one goroutine that is under way, *)
(* and only one in solo adds to what is promised.                               *)
Moves(h) ==
    /\ pc[h] # "idle"
    /\ \E to \in Steps : pc' = [pc EXCEPT ![h] = to]
    /\ solo' = solo
    /\ h \notin solo => vetted' \subseteq vetted /\ (keyed' => keyed) /\ (synced' => synced)

LEMMA StepMoves ==
    ASSUME Types, NEW h \in Handlers, PutStep(h) \/ OtherStep(h) \/ ApplyStep(h) \/ Fail(h)
    PROVE  Moves(h)
<1> USE DEF Types, TypeOK, Moves, Goto, Steps, history
<1>1. ASSUME NEW from \in Steps \ {"idle"}, Reject(h, from) PROVE Moves(h)
  BY <1>1 DEF Reject, Finish
<1>2. ASSUME NEW from \in Steps \ {"idle"}, NEW to \in Steps, ReadSettings(h, from, to)
      PROVE  Moves(h)
  BY <1>2 DEF ReadSettings
<1>3. CASE PutStep(h)
  <2>1. CASE WriteHost(h)
    BY <2>1 DEF WriteHost, AfterHost, AfterReality
  <2>2. CASE ReadSettings(h, "rread", "rcheck") \/ ReadSettings(h, "tread", "tcheck")
    BY <2>2, <1>2
  <2>3. CASE RealityCheck(h) \/ TelegramCheck(h)
    <3>1. CASE Reject(h, "rcheck") \/ Reject(h, "tcheck")
      BY <3>1, <1>1
    <3>2. CASE \/ Goto(h, "rcheck", "rset") /\ UNCHANGED history
               \/ Goto(h, "tcheck", "ton") /\ UNCHANGED history
      BY <3>2
    <3> QED BY <2>3, <3>1, <3>2 DEF RealityCheck, TelegramCheck
  <2>4. CASE SetReality(h)
    BY <2>4 DEF SetReality, AfterReality, Vet
  <2>5. CASE SetOn(h) \/ SetFake(h)
    BY <2>5 DEF SetOn, SetFake, Vet
  <2>6. CASE List(h)
    BY <2>6 DEF List
  <2>7. ASSUME NEW u \in Users, Rotate(h, u) PROVE Moves(h)
    <3>1. pc' = [pc EXCEPT ![h] = "rotate"]
      BY <2>7 DEF Rotate
    <3> QED BY <2>7, <3>1 DEF Rotate
  <2>8. CASE Rotated(h)
    BY <2>8 DEF Rotated
  <2> QED BY <1>3, <2>1, <2>2, <2>3, <2>4, <2>5, <2>6, <2>7, <2>8 DEF PutStep
<1>4. CASE OtherStep(h)
  BY <1>4, <1>1, <1>2 DEF OtherStep, WriteDomains, NotUnique, DeleteFails, WriteUser, Refused
<1>5. CASE ApplyStep(h)
  BY <1>5 DEF ApplyStep, SnapshotSettings, Snapshot, ApplyCore, ApplyCoreFails, CoreCollides,
              ApplyMtg, ApplyMtgFails, MtgCollides, Meets, Finish
<1>6. CASE Fail(h)
  BY <1>6 DEF Fail, Finish
<1> QED BY <1>3, <1>4, <1>5, <1>6

LEMMA BeginsFrom ==
    ASSUME NEW h \in Handlers, Requests(h)
    PROVE  \E to \in {"host", "rread", "tread", "snap", "domains", "uread", "user"},
              r \in [op : {"put", "domains", "create", "rekey", "delete"}, put : Put,
                     user : SUBSET Users, drop : SUBSET Names, add : SUBSET Names] :
               Begin(h, to, r)
<1> USE DEF NoRequest, NoPut, Put
<1>1. ASSUME NEW p \in Puts, putSettings(h, p) PROVE Begin(h,
          IF p.host # Keep THEN "host" ELSE AfterHost(p), [NoRequest EXCEPT !.op = "put", !.put = p])
      /\ p \in Put
  BY <1>1 DEF putSettings, Puts
<1> QED
  BY <1>1 DEF Requests, AfterHost, AfterReality, changeDomains, changeUser, AtMostOne, Operations

LEMMA StepAlone == Types /\ Alone /\ [Next]_vars => Alone'
<1> SUFFICES ASSUME Types, Alone, [Next]_vars PROVE Alone'
  OBVIOUS
<1> USE DEF Alone, Mingled, OthersIdle, Types, TypeOK
<1>1. ASSUME NEW h \in Handlers, NEW to \in Steps, NEW r, Begin(h, to, r) PROVE Alone'
  BY <1>1 DEF Begin, Goto
<1>2. ASSUME NEW h \in Handlers, Requests(h) PROVE Alone'
  BY <1>1, <1>2, BeginsFrom DEF Steps
<1>3. ASSUME NEW h \in Handlers, Moves(h) PROVE Alone'
  <2>1. \A g \in Handlers : pc'[g] # "idle" => pc[g] # "idle"
    BY <1>3 DEF Moves
  <2>2. CASE h \in solo
    <3>1. ~Mingled
      BY <2>2
    <3> QED BY <2>1, <2>2, <3>1, <1>3 DEF Moves
  <2>3. CASE h \notin solo
    <3>1. Mingled
      BY <1>3, <2>3 DEF Moves
    <3> QED BY <2>1, <2>3, <3>1, <1>3 DEF Moves
  <2> QED BY <2>2, <2>3
<1>4. CASE UNCHANGED vars
  BY <1>4 DEF vars, history
<1> QED BY <1>2, <1>3, <1>4, StepMoves DEF Next, Step

-------------------------------------------------------------------------------
LEMMA StepFresh == Types /\ Alone /\ Fresh /\ [Next]_vars => Fresh'
<1> SUFFICES ASSUME Types, Alone, Fresh, [Next]_vars PROVE Fresh'
  OBVIOUS
<1> USE DEF Types, TypeOK, Goto, table, config, locals, history
<1>1. ASSUME NEW h \in Handlers, Requests(h) PROVE Fresh'
  <2>1. PICK to, r :
            /\ to \in {"host", "rread", "tread", "snap", "domains", "uread", "user"}
            /\ Begin(h, to, r)
    BY <1>1, BeginsFrom
  <2>2. solo' \subseteq {h} /\ pc'[h] = to /\ st'[h] = {}
    BY <2>1 DEF Begin, Asked
  <2> QED BY <2>1, <2>2 DEF Fresh, Copied, Checked
<1>2. ASSUME NEW h \in Handlers, h \in solo => (Copied(h) /\ Checked(h))', Moves(h)
      PROVE  Fresh'
  <2>1. solo' = solo /\ \A g \in Handlers \ {h} : pc'[g] = pc[g]
    BY <1>2 DEF Moves
  <2>2. \A g \in solo \ {h} : pc[h] = "idle"
    BY DEF Alone, OthersIdle
  <2>3. pc[h] # "idle"
    BY <1>2 DEF Moves
  <2> QED BY <1>2, <2>1, <2>2, <2>3 DEF Fresh
<1>3. ASSUME NEW h \in Handlers, h \in solo,
             PutStep(h) \/ OtherStep(h) \/ ApplyStep(h) \/ Fail(h)
      PROVE  (Copied(h) /\ Checked(h))'
  <2> Copied(h) /\ Checked(h)
    BY <1>3 DEF Fresh
  <2> USE DEF Copied, Checked, NewFake
  <2>1. ASSUME NEW from \in Steps, Finish(h, from) PROVE (Copied(h) /\ Checked(h))'
    BY <2>1 DEF Finish
  <2>2. ASSUME NEW from \in Steps, NEW to \in {"rcheck", "tcheck", "user"},
               ReadSettings(h, from, to)
        PROVE  (Copied(h) /\ Checked(h))'
    BY <2>2 DEF ReadSettings, Settings
  <2>3. CASE WriteHost(h)
    BY <2>3 DEF WriteHost, AfterHost, AfterReality
  <2>4. CASE RealityCheck(h)
    <3>1. CASE Reject(h, "rcheck")
      BY <3>1, <2>1 DEF Reject, Steps
    <3>2. CASE ~Reject(h, "rcheck")
      <4>1. PICK s \in st[h] : req[h].put.reality \notin {s.host, s.fake} \cup domains
        BY <2>4, <3>2 DEF RealityCheck
      <4>2. Goto(h, "rcheck", "rset") /\ UNCHANGED <<table, config, locals, history>>
        BY <2>4, <3>2 DEF RealityCheck
      <4> QED BY <4>1, <4>2
    <3> QED BY <3>1, <3>2
  <2>5. CASE SetReality(h)
    BY <2>5 DEF SetReality, AfterReality
  <2>6. CASE TelegramCheck(h)
    <3>1. CASE Reject(h, "tcheck")
      BY <3>1, <2>1 DEF Reject, Steps
    <3>2. CASE ~Reject(h, "tcheck")
      <4>1. PICK s \in st[h] : NewFake(h, s) \notin {s.host, s.reality} \cup domains
        BY <2>6, <3>2 DEF TelegramCheck
      <4>2. Goto(h, "tcheck", "ton") /\ UNCHANGED <<table, config, locals, history>>
        BY <2>6, <3>2 DEF TelegramCheck
      <4>3. \A t \in st[h] : t = s
        BY DEF Asked
      <4> QED BY <4>1, <4>2, <4>3
    <3> QED BY <3>1, <3>2
  <2>7. CASE SetOn(h)
    BY <2>7 DEF SetOn
  <2>8. CASE SetFake(h)
    BY <2>8 DEF SetFake, Asked
  <2>9. CASE List(h)
    BY <2>9 DEF List
  <2>10. ASSUME NEW u \in Users, Rotate(h, u) PROVE (Copied(h) /\ Checked(h))'
    BY <2>10 DEF Rotate
  <2>11. CASE Rotated(h)
    BY <2>11 DEF Rotated
  <2>12. CASE PutStep(h)
    BY <2>12, <2>2, <2>3, <2>4, <2>5, <2>6, <2>7, <2>8, <2>9, <2>10, <2>11 DEF PutStep, Steps
  <2>13. CASE OtherStep(h)
    <3>1. CASE \/ NotUnique(h) \/ (\E u \in Users : Refused(h, u))
      BY <3>1, <2>1 DEF NotUnique, Refused, Reject, Steps
    <3>2. CASE WriteDomains(h) \/ DeleteFails(h)
      BY <3>2 DEF WriteDomains, DeleteFails
    <3>3. CASE ReadSettings(h, "uread", "user")
      BY <3>3, <2>2 DEF Steps
    <3>4. CASE \E u \in Users : WriteUser(h, u)
      BY <3>4 DEF WriteUser
    <3> QED BY <2>13, <3>1, <3>2, <3>3, <3>4 DEF OtherStep
  <2>14. CASE ApplyStep(h)
    <3>1. CASE SnapshotSettings(h)
      BY <3>1 DEF SnapshotSettings, Settings
    <3>2. CASE Snapshot(h)
      BY <3>2 DEF Snapshot
    <3>3. CASE \/ ApplyCoreFails(h) \/ ApplyMtg(h) \/ ApplyMtgFails(h) \/ MtgCollides(h)
      BY <3>3, <2>1 DEF ApplyCoreFails, ApplyMtg, ApplyMtgFails, MtgCollides, Steps
    <3>4. CASE ApplyCore(h)
      BY <3>4 DEF ApplyCore
    <3>5. CASE CoreCollides(h)
      BY <3>5 DEF CoreCollides, Meets
    <3> QED BY <2>14, <3>1, <3>2, <3>3, <3>4, <3>5 DEF ApplyStep
  <2>15. CASE Fail(h)
    BY <2>15, <2>1 DEF Fail
  <2> QED BY <1>3, <2>12, <2>13, <2>14, <2>15
<1>4. CASE UNCHANGED vars
  BY <1>4 DEF vars, Fresh, Copied, Checked, NewFake
<1> QED BY <1>1, <1>2, <1>3, <1>4, StepMoves DEF Next, Step

-------------------------------------------------------------------------------
(* A goroutine outside solo acts only after everything was taken back.          *)
LEMMA NothingPromised ==
    ASSUME Alone, NEW h \in Handlers, h \notin solo, Moves(h)
    PROVE  vetted' = {} /\ ~keyed' /\ ~synced'
<1>1. Mingled
  BY DEF Mingled, Moves
<1>2. vetted = {} /\ ~keyed /\ ~synced
  BY <1>1 DEF Alone
<1> QED BY <1>2 DEF Moves

LEMMA StepApart == Types /\ Alone /\ Fresh /\ Apart /\ [Next]_vars => Apart'
<1> SUFFICES ASSUME Types, Alone, Fresh, Apart, [Next]_vars PROVE Apart'
  OBVIOUS
<1> USE DEF table, history
<1>k. ASSUME UNCHANGED <<host, reality, fake, domains>>, vetted' \subseteq vetted PROVE Apart'
  BY <1>k DEF Apart, Ours
<1>1. ASSUME NEW h \in Handlers, Requests(h) PROVE Apart'
  <2>1. \E to, r : Begin(h, to, r)
    BY <1>1, BeginsFrom
  <2> QED BY <2>1, <1>k DEF Begin
<1>2. ASSUME NEW h \in Handlers, h \notin solo, Moves(h) PROVE Apart'
  BY <1>2, NothingPromised DEF Apart
<1>3. ASSUME NEW h \in Handlers, h \in solo, PutStep(h) PROVE Apart'
  <2>1. Copied(h) /\ Checked(h)
    BY <1>3 DEF Fresh
  <2>2. CASE WriteHost(h)
    BY <2>2 DEF WriteHost, Apart
  <2>3. CASE RealityCheck(h) \/ TelegramCheck(h)
    BY <2>3, <1>k DEF RealityCheck, TelegramCheck, Reject
  <2>4. CASE SetReality(h)
    <3>1. req[h].put.reality \notin {host, fake} \cup domains
      BY <2>1, <2>4 DEF Checked, SetReality, Goto
    <3> QED BY <1>3, <2>4, <3>1 DEF SetReality, Vet, Apart, Ours
  <2>5. CASE SetFake(h)
    <3>1. fake' \notin {host, reality} \cup domains
      BY <2>1, <2>5 DEF Copied, SetFake, Goto
    <3> QED BY <1>3, <2>5, <3>1 DEF SetFake, Vet, Apart, Ours
  <2>6. CASE \/ ReadSettings(h, "rread", "rcheck") \/ ReadSettings(h, "tread", "tcheck")
             \/ SetOn(h) \/ List(h) \/ (\E u \in Users : Rotate(h, u)) \/ Rotated(h)
    BY <2>6, <1>k DEF ReadSettings, SetOn, List, Rotate, Rotated
  <2> QED BY <1>3, <2>2, <2>3, <2>4, <2>5, <2>6 DEF PutStep
<1>4. ASSUME NEW h \in Handlers, OtherStep(h) PROVE Apart'
  <2>1. CASE WriteDomains(h)
    BY <2>1 DEF WriteDomains, Apart, Ours
  <2>2. CASE ~WriteDomains(h)
    BY <1>4, <2>2, <1>k
       DEF OtherStep, NotUnique, DeleteFails, ReadSettings, WriteUser, Refused, Reject
  <2> QED BY <2>1, <2>2
<1>5. ASSUME NEW h \in Handlers, ApplyStep(h) \/ Fail(h) PROVE Apart'
  BY <1>5, <1>k DEF ApplyStep, SnapshotSettings, Snapshot, ApplyCore, ApplyCoreFails, CoreCollides,
                    ApplyMtg, ApplyMtgFails, MtgCollides, Meets, Fail
<1>6. CASE UNCHANGED vars
  BY <1>6, <1>k DEF vars
<1> QED BY <1>1, <1>2, <1>3, <1>4, <1>5, <1>6, StepMoves DEF Next, Step

-------------------------------------------------------------------------------
(* What keeps the secrets and the fake domain keeps what is known about them.   *)
Fit == \A u \in Existing : secret[u] = fake

LEMMA StepKeys == Types /\ Alone /\ Fresh /\ Keys /\ [Next]_vars => Keys'
<1> SUFFICES ASSUME Types, Alone, Fresh, Keys, [Next]_vars PROVE Keys'
  OBVIOUS
<1> USE SettingsAssumption DEF SettingsAssumption, Types, TypeOK, Goto, table, locals, history
<1>k. ASSUME UNCHANGED <<secret, fake>>, keyed' => Fit PROVE Keys'
  BY <1>k DEF Keys, Fit, Existing
<1>i. ASSUME NEW h \in Handlers, h \in solo, pc[h] \notin {"list", "rotate"}, keyed PROVE Fit
  <2>1. \A g \in solo : pc[g] \notin {"list", "rotate"}
    BY <1>i DEF Alone, OthersIdle
  <2> QED BY <1>i, <2>1 DEF Keys, Fit
<1>1. ASSUME NEW h \in Handlers, Requests(h) PROVE Keys'
  <2>1. PICK to, r : Begin(h, to, r)
    BY <1>1, BeginsFrom
  <2>2. ASSUME keyed' PROVE Fit
    <3>1. keyed /\ \A g \in Handlers : pc[g] = "idle"
      BY <2>1, <2>2 DEF Begin, OthersIdle
    <3>2. \A g \in solo : pc[g] = "idle"
      BY <3>1
    <3> QED BY <3>1, <3>2 DEF Keys, Fit
  <2> QED BY <2>1, <2>2, <1>k DEF Begin
<1>2. ASSUME NEW h \in Handlers, h \notin solo, Moves(h) PROVE Keys'
  BY <1>2, NothingPromised DEF Keys
<1>3. ASSUME NEW h \in Handlers, h \in solo, PutStep(h) PROVE Keys'
  <2>1. Copied(h) /\ Asked
    BY <1>3 DEF Fresh
  <2>2. CASE \/ WriteHost(h) \/ RealityCheck(h) \/ SetReality(h) \/ TelegramCheck(h) \/ SetOn(h)
             \/ ReadSettings(h, "rread", "rcheck") \/ ReadSettings(h, "tread", "tcheck")
    <3>1. UNCHANGED <<secret, fake, keyed>> /\ pc[h] \notin {"list", "rotate"}
      BY <2>2 DEF WriteHost, RealityCheck, SetReality, TelegramCheck, SetOn, ReadSettings, Reject,
                  Finish
    <3> QED BY <1>3, <3>1, <1>i, <1>k
  <2>3. CASE SetFake(h)
    <3>1. PICK s \in st[h] : pc[h] = "tfake" /\ fake' = NewFake(h, s)
      BY <2>3 DEF SetFake
    <3>2. s.fake = fake
      BY <2>1, <3>1 DEF Copied
    <3>3. keyed => Fit
      BY <1>3, <3>1, <1>i
    <3>4. /\ keyed' = keyed /\ secret' = secret /\ st' = st /\ solo' = solo
          /\ pc' = [pc EXCEPT ![h] = "list"]
      BY <2>3 DEF SetFake
    <3>5. keyed' => \A u \in Existing' : secret'[u] = s.fake
      BY <3>2, <3>3, <3>4 DEF Fit, Existing
    <3> QED BY <1>3, <3>4, <3>5 DEF Keys
  <2>4. CASE List(h)
    <3>1. PICK s \in st[h] :
              LET rotates == req[h].put.regen # Keep \/ NewFake(h, s) # s.fake
              IN  /\ left' = [left EXCEPT ![h] = IF rotates THEN Existing ELSE {}]
                  /\ keyed' = (keyed \/ (rotates /\ h \in solo))
      BY <2>4 DEF List
    <3>2. /\ pc[h] = "list" /\ pc' = [pc EXCEPT ![h] = "rotate"]
          /\ UNCHANGED <<secret, fake, st, solo>>
      BY <2>4 DEF List
    <3>3. CASE req[h].put.regen # Keep \/ NewFake(h, s) # s.fake
      <4>1. left'[h] = Existing'
        BY <3>1, <3>2, <3>3 DEF Existing
      <4> QED BY <1>3, <3>2, <4>1 DEF Keys
    <3>4. CASE ~(req[h].put.regen # Keep \/ NewFake(h, s) # s.fake)
      <4>1. s.fake = fake /\ keyed' = keyed
        BY <2>1, <3>1, <3>2, <3>4 DEF Copied
      <4>2. \A g \in solo : g = h \/ pc[g] = "idle"
        BY <1>3 DEF Alone, OthersIdle
      <4>3. keyed => Fit
        <5>1. ASSUME NEW g \in solo, NEW t \in st[g], pc[g] = "list" PROVE t.fake = fake
          BY <2>1, <4>1, <4>2, <5>1 DEF Asked
        <5>2. \A g \in solo : pc[g] # "rotate"
          BY <3>2, <4>2
        <5> QED BY <5>1, <5>2 DEF Keys, Fit
      <4> QED BY <3>2, <4>1, <4>3, <1>k
    <3> QED BY <3>3, <3>4
  <2>5. ASSUME NEW u \in Users, Rotate(h, u) PROVE Keys'
    <3>1. PICK s \in st[h] : SetSecret(u, NewFake(h, s))
      BY <2>5 DEF Rotate
    <3>2. /\ pc[h] = "rotate" /\ u \in left[h] /\ left' = [left EXCEPT ![h] = @ \ {u}]
          /\ UNCHANGED <<fake, pc, st, solo, keyed>>
      BY <2>5 DEF Rotate
    <3>3. NewFake(h, s) = fake /\ fake \in Names
      BY <2>1, <3>2, Fields DEF Copied, Settings, Copy
    <3>4. secret' = [secret EXCEPT ![u] = IF @ \in Names THEN fake ELSE @]
      BY <3>1, <3>3 DEF SetSecret
    <3>5. \A v \in Existing' : v \in Existing /\ (secret'[v] = fake \/ (v # u /\ secret'[v] = secret[v]))
      BY <3>3, <3>4 DEF Existing
    <3>6. \A g \in solo : g = h \/ pc[g] = "idle"
      BY <1>3 DEF Alone, OthersIdle
    <3>7. keyed => \A v \in Existing : v \in left[h] \/ secret[v] = fake
      BY <3>2, <3>6 DEF Keys
    <3>8. keyed' => \A v \in Existing' : v \in left'[h] \/ secret'[v] = fake'
      BY <3>2, <3>5, <3>7
    <3> QED BY <1>3, <3>1, <3>2, <3>8 DEF Keys
  <2>6. CASE Rotated(h)
    <3>1. \A g \in solo : g = h \/ pc[g] = "idle"
      BY <1>3 DEF Alone, OthersIdle
    <3>2. keyed => Fit
      BY <2>6, <3>1 DEF Rotated, Keys, Fit
    <3> QED BY <2>6, <3>2, <1>k DEF Rotated
  <2> QED BY <1>3, <2>2, <2>3, <2>4, <2>5, <2>6 DEF PutStep
<1>4. ASSUME NEW h \in Handlers, h \in solo, OtherStep(h) PROVE Keys'
  <2>1. pc[h] \notin {"list", "rotate"} /\ keyed' = keyed /\ fake' = fake
    BY <1>4 DEF OtherStep, WriteDomains, NotUnique, DeleteFails, ReadSettings, WriteUser,
                Refused, Reject, Finish
  <2>2. keyed => Fit
    BY <1>4, <2>1, <1>i
  <2>3. ASSUME NEW u \in Users, WriteUser(h, u) PROVE Keys'
    <3>1. \A s \in st[h] : s.fake = fake
      BY <1>4, <2>3 DEF WriteUser, Fresh, Copied
    <3>2. \A v \in Existing' : secret'[v] = fake \/ (v \in Existing /\ secret'[v] = secret[v])
      BY <2>3, <3>1 DEF WriteUser, SetSecret, Existing
    <3> QED BY <2>1, <2>2, <3>2 DEF Keys, Fit
  <2>4. CASE ~\E u \in Users : WriteUser(h, u)
    <3>1. secret' = secret
      BY <1>4, <2>4 DEF OtherStep, WriteDomains, NotUnique, DeleteFails, ReadSettings,
                        Refused, Reject
    <3> QED BY <2>1, <2>2, <3>1, <1>k
  <2> QED BY <2>3, <2>4
<1>5. ASSUME NEW h \in Handlers, h \in solo, ApplyStep(h) \/ Fail(h) PROVE Keys'
  <2>1. UNCHANGED <<secret, fake>> /\ (keyed' => keyed /\ pc[h] \notin {"list", "rotate"})
    <3>1. CASE ApplyStep(h)
      BY <3>1 DEF ApplyStep, SnapshotSettings, Snapshot, ApplyCore, ApplyCoreFails, CoreCollides,
                  ApplyMtg, ApplyMtgFails, MtgCollides, Meets, Finish
    <3>2. CASE Fail(h)
      BY <3>2 DEF Fail
    <3> QED BY <1>5, <3>1, <3>2
  <2> QED BY <1>5, <2>1, <1>i, <1>k
<1>6. CASE UNCHANGED vars
  BY <1>6 DEF vars, Keys, Existing
<1> QED BY <1>1, <1>2, <1>3, <1>4, <1>5, <1>6, StepMoves DEF Next, Step

-------------------------------------------------------------------------------
LEMMA StepDistrusted == Types /\ Distrusted /\ [Next]_vars => Distrusted'
<1> SUFFICES ASSUME Types, Distrusted, [Next]_vars PROVE Distrusted'
  OBVIOUS
<1> USE DEF Distrusted, Types, TypeOK, history
<1>1. ASSUME NEW h \in Handlers, Requests(h) PROVE Distrusted'
  BY <1>1, BeginsFrom DEF Begin
<1>2. ASSUME NEW h \in Handlers, PutStep(h) PROVE Distrusted'
  BY <1>2 DEF PutStep, WriteHost, RealityCheck, SetReality, TelegramCheck, SetOn, SetFake, List,
              Rotate, Rotated, ReadSettings, Reject
<1>3. ASSUME NEW h \in Handlers, OtherStep(h) PROVE Distrusted'
  BY <1>3 DEF OtherStep, WriteDomains, NotUnique, DeleteFails, ReadSettings, WriteUser, Refused,
              Reject
<1>4. ASSUME NEW h \in Handlers, ApplyStep(h) \/ Fail(h) PROVE Distrusted'
  BY <1>4 DEF ApplyStep, SnapshotSettings, Snapshot, ApplyCore, ApplyCoreFails, CoreCollides,
              ApplyMtg, ApplyMtgFails, MtgCollides, Meets, Fail
<1>5. CASE UNCHANGED vars
  BY <1>5 DEF vars
<1> QED BY <1>1, <1>2, <1>3, <1>4, <1>5 DEF Next, Step

LEMMA StepApplied == Types /\ Alone /\ Fresh /\ Distrusted /\ Applied /\ [Next]_vars => Applied'
<1> SUFFICES ASSUME Types, Alone, Fresh, Distrusted, Applied, [Next]_vars, synced', AtRest'
             PROVE  core' = reality' /\ mtg' = RenderTOML(Settings, secret)'
  BY DEF Applied
<1> USE DEF Types, TypeOK, Goto, table, config, locals, history
<1>1. ASSUME NEW h \in Handlers, Requests(h) PROVE FALSE
  <2>1. PICK to, r :
            /\ to \in {"host", "rread", "tread", "snap", "domains", "uread", "user"}
            /\ Begin(h, to, r)
    BY <1>1, BeginsFrom
  <2>2. pc'[h] = to
    BY <2>1 DEF Begin
  <2> QED BY <2>1, <2>2 DEF AtRest
<1>2. ASSUME NEW h \in Handlers, h \notin solo, Moves(h) PROVE FALSE
  BY <1>2, NothingPromised
<1>3. ASSUME NEW h \in Handlers, ApplyMtg(h), h \in solo
      PROVE  core' = reality' /\ mtg' = RenderTOML(Settings, secret)'
  <2>1. PICK s \in st[h] : mtg' = RenderTOML(s, seen[h])
    BY <1>3 DEF ApplyMtg
  <2>2. pc[h] = "mtg" /\ UNCHANGED <<table, core>> /\ ~collided
    BY <1>3 DEF ApplyMtg, Finish, Distrusted
  <2>3. /\ s.fake = fake /\ s.on = on /\ seen[h] = secret
        /\ core = reality
    BY <1>3, <2>2 DEF Fresh, Copied, Checked
  <2> QED BY <2>1, <2>2, <2>3 DEF RenderTOML, Settings
<1>4. ASSUME NEW h \in Handlers, PutStep(h) \/ OtherStep(h) \/ ApplyStep(h) \/ Fail(h), ~ApplyMtg(h)
      PROVE  FALSE
  <2>1. ASSUME NEW to \in Steps \ {"idle"}, pc' = [pc EXCEPT ![h] = to] PROVE FALSE
    <3>1. pc'[h] = to
      BY <2>1
    <3> QED BY <2>1, <3>1 DEF AtRest
  <2>2. ASSUME NEW from \in Steps, Reject(h, from) PROVE FALSE
    BY <2>2 DEF Reject
  <2>3. CASE PutStep(h)
    <3>1. CASE \E u \in Users : Rotate(h, u)
      BY <3>1 DEF Rotate, AtRest
    <3> QED BY <2>1, <2>2, <2>3, <3>1
            DEF PutStep, WriteHost, RealityCheck, SetReality, TelegramCheck, SetOn, SetFake, List,
                Rotated, ReadSettings, AfterHost, AfterReality, Steps
  <2>4. CASE OtherStep(h)
    BY <2>1, <2>2, <2>4 DEF OtherStep, WriteDomains, NotUnique, DeleteFails, ReadSettings,
                            WriteUser, Refused, Steps
  <2>5. CASE ApplyStep(h)
    BY <1>4, <2>1, <2>5 DEF ApplyStep, SnapshotSettings, Snapshot, ApplyCore, ApplyCoreFails,
                            CoreCollides, ApplyMtgFails, MtgCollides, Meets, Steps
  <2>6. CASE Fail(h)
    BY <2>6 DEF Fail
  <2> QED BY <1>4, <2>3, <2>4, <2>5, <2>6
<1>5. CASE UNCHANGED vars
  <2>1. synced /\ AtRest
    BY <1>5 DEF vars, AtRest
  <2> QED BY <1>5, <2>1 DEF vars, Applied, RenderTOML, Settings
<1> QED BY <1>1, <1>2, <1>3, <1>4, <1>5, StepMoves DEF Next, Step, ApplyStep

-------------------------------------------------------------------------------
LEMMA Inductive == Spec => []SettingsInv
<1>1. SettingsInv /\ [Next]_vars => SettingsInv'
  BY StepTypes, StepAlone, StepFresh, StepApart, StepKeys, StepDistrusted, StepApplied DEF SettingsInv
<1> QED BY <1>1, InitSettings, PTL DEF Spec

(* The variables of the tables, the requests and the configurations keep their  *)
(* types, whatever overlaps or fails.                                            *)
THEOREM SettingsTypes == Spec => []TypeOK
<1>1. SettingsInv => TypeOK
  BY DEF SettingsInv, Types
<1> QED BY <1>1, Inductive, PTL

(* applyRealityDest and applyTelegramSettings: names that were validated without *)
(* an overlap, and to which nobody added one of ours since, are routed apart.     *)
THEOREM VettedStayApart == Spec => []VettedNamesApart
<1>1. SettingsInv => VettedNamesApart
  BY DEF SettingsInv, Apart, VettedNamesApart, RouteSNI, Ours
<1> QED BY <1>1, Inductive, PTL

(* RotateTelegramSecrets, createUser and updateUser: since a rotation that ran   *)
(* alone, every user's secret is made for the fake domain.                        *)
THEOREM SecretsAlwaysFit == Spec => []SecretsFit
<1>1. SettingsInv => SecretsFit
  <2> SUFFICES ASSUME SettingsInv, keyed, AtRest PROVE Fit
    BY DEF SecretsFit, Fit
  <2>1. \A h \in solo : pc[h] = "idle"
    BY DEF AtRest, SettingsInv, Types, TypeOK
  <2> QED BY <2>1 DEF SettingsInv, Keys, Fit
<1> QED BY <1>1, Inductive, PTL

(* putSettings and apply: after an accepted request that ran alone and met no     *)
(* error of either proxy, both configurations say what the tables say, until a     *)
(* request is rejected half way, fails or overlaps another; unless two goroutines   *)
(* have ever been inside the Apply of one proxy at once.                            *)
THEOREM AcceptedAlwaysApplied == Spec => []AcceptedIsApplied
<1>1. SettingsInv => AcceptedIsApplied
  BY DEF SettingsInv, Applied, AcceptedIsApplied
<1> QED BY <1>1, Inductive, PTL
===============================================================================
