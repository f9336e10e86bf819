---------------------------- MODULE ConsoleProofs ----------------------------
(***************************************************************************)
(* reset-admin evicts, a settings page shows what is stored, and secrets     *)
(* are rotated for who asked: for any tabs, paths, fake domains, sessions,    *)
(* passwords and number of requests under way.                                 *)
(***************************************************************************)
EXTENDS Console, TLAPS

-------------------------------------------------------------------------------
(* Types. *)
LEMMA Values ==
    /\ Away \in Copy /\ Loading \in Copy /\ Junk \in Copy
    /\ \A st \in Settings : Shown(st) \in Copy /\ Shown(st).path \in Paths
    /\ \A st \in Settings : /\ Shown(st).at = "shown" /\ Shown(st).path = st.path
                            /\ Shown(st).fake = st.fake
                            /\ st.path \in Paths /\ st.fake \in Fakes
    /\ Away.at = "away" /\ Loading.at = "loading"
<1>1. Paths \subseteq Typing
  BY ConsoleAssumption DEF ConsoleAssumption
<1> QED BY <1>1 DEF Away, Loading, Junk, Copy, Shown, Settings

LEMMA IdleRequest ==
    /\ Idle \in Request
    /\ Idle.kind = "none" /\ Idle.phase = "sent" /\ Idle.page = "here"
BY Values, ConsoleAssumption DEF ConsoleAssumption, Idle, Request, Kinds

ServerTypes ==
    /\ stored \in Settings /\ secrets \in Nat
    /\ pw \in 1..MaxPw /\ sessions \in [Tokens -> 0..MaxPw] /\ issued \in {NoToken} \cup Tokens
    /\ cli \in {"idle", "updated"}
    /\ resetPw \in 0..MaxPw /\ root \in 0..MaxPw /\ late \in BOOLEAN
TabTypes ==
    /\ base \in [Tabs -> Paths] /\ authed \in [Tabs -> {"gone", "unknown", "in", "out"}]
    /\ busy \in [Tabs -> BOOLEAN] /\ copy \in [Tabs -> Copy]
    /\ edited \in [Tabs -> SUBSET {"path", "fake"}]
    /\ cookie \in {NoToken} \cup Tokens
OtherTypes == synced \in [Tabs -> BOOLEAN] /\ clicks \in 0..MaxClicks /\ odd \in 0..MaxOdd
Fine(r) ==
    /\ r \in Request
    /\ r.kind # "none" => r.tab \in Tabs /\ r.url \in Paths
    /\ r.kind = "save" /\ r.phase = "ok" => r.body.path \in Paths
ReqTypes == req \in [Slots -> Request] /\ \A s \in Slots : Fine(req[s])

LEMMA TypesSplit == TypeOK <=> ServerTypes /\ TabTypes /\ OtherTypes /\ ReqTypes
BY DEF TypeOK, ServerTypes, TabTypes, OtherTypes, ReqTypes, Fine
LEMMA TypesJoin == ServerTypes' /\ TabTypes' /\ OtherTypes' /\ ReqTypes' => TypeOK'
BY DEF TypeOK, ServerTypes, TabTypes, OtherTypes, ReqTypes, Fine

(* What a tab sends is new, is its own, and its page is there. *)
New(r, t, k) ==
    r \in Request /\ r.kind = k /\ r.tab = t /\ r.url \in Paths /\ r.phase = "sent" /\ r.page = "here"
LEMMA AskNew ==
    ASSUME TabTypes, NEW t \in Tabs, NEW k \in Kinds
    PROVE  New(Ask(t, k), t, k)
BY IdleRequest DEF TabTypes, Ask, Idle, Request, New

LEMMA NewFine == \A r, t, k : t \in Tabs /\ New(r, t, k) => Fine(r)
BY DEF New, Fine
LEMMA IdleFine == Fine(Idle)
BY IdleRequest DEF Fine

LEMMA PasswordNew ==
    ASSUME TabTypes, NEW t \in Tabs, NEW k \in Kinds, NEW p \in 1..MaxPw
    PROVE  New([Ask(t, k) EXCEPT !.pw = p], t, k)
<1>1. p \in 0..MaxPw
  BY ConsoleAssumption DEF ConsoleAssumption
<1> QED BY <1>1, AskNew DEF New, Request

Saved(t, again) ==
    [Ask(t, "save") EXCEPT !.path = copy[t].path, !.fake = copy[t].fake, !.regen = again,
                           !.asked = again \/ "fake" \in edited[t]]
LEMMA SavedNew ==
    ASSUME TabTypes, NEW t \in Tabs, NEW again \in BOOLEAN
    PROVE  /\ New(Saved(t, again), t, "save")
           /\ Saved(t, again).path = copy[t].path /\ Saved(t, again).fake = copy[t].fake
           /\ Saved(t, again).regen = again
           /\ Saved(t, again).asked = (again \/ "fake" \in edited[t])
<1>1. New(Ask(t, "save"), t, "save")
  BY AskNew DEF Kinds
<1>2. copy[t].path \in Typing \cup {Absent} /\ copy[t].fake \in Fakes \cup {Invalid, Absent}
  BY DEF TabTypes, Copy
<1>3. ASSUME NEW asked \in BOOLEAN,
             NEW r, r = [Ask(t, "save") EXCEPT !.path = copy[t].path, !.fake = copy[t].fake,
                                               !.regen = again, !.asked = asked]
      PROVE  /\ New(r, t, "save") /\ r.path = copy[t].path /\ r.fake = copy[t].fake
             /\ r.regen = again /\ r.asked = asked
  BY <1>1, <1>2, <1>3 DEF New, Request
<1>4. (again \/ "fake" \in edited[t]) \in BOOLEAN
  OBVIOUS
<1> QED BY <1>3, <1>4 DEF Saved

LEMMA InitTypes == Init => TypeOK
<1> SUFFICES ASSUME Init PROVE TypeOK
  OBVIOUS
<1> USE ConsoleAssumption DEF ConsoleAssumption, Init
<1>1. 1 \in Tokens /\ 1 \in 0..MaxPw /\ 0 \in 0..MaxPw /\ 1 \in 1..MaxPw
  BY DEF Tokens
<1>2. issued \in {NoToken} \cup Tokens /\ cookie \in {NoToken} \cup Tokens
      /\ sessions \in [Tokens -> 0..MaxPw]
  BY <1>1
<1>3. stored.path \in Paths
  BY DEF Settings
<1>4. copy \in [Tabs -> Copy]
  BY Values
<1>5. PICK t \in Tabs : /\ authed = [u \in Tabs |-> IF u = t THEN "unknown" ELSE "gone"]
                        /\ req = [s \in Slots |-> IF s = 1 THEN Ask(t, "me") ELSE Idle]
  OBVIOUS
<1>6. TabTypes
  BY <1>2, <1>3, <1>4, <1>5 DEF TabTypes
<1>7. ReqTypes
  <2>1. Fine(Ask(t, "me")) /\ Fine(Idle)
    BY <1>6, AskNew, NewFine, IdleFine DEF Kinds
  <2> QED BY <1>5, <2>1 DEF ReqTypes, Fine
<1>8. OtherTypes
  BY DEF OtherTypes
<1>9. ServerTypes
  <2>1. resetPw \in 0..MaxPw /\ root \in 0..MaxPw /\ pw \in 1..MaxPw
    BY <1>1
  <2>2. cli \in {"idle", "updated"} /\ late \in BOOLEAN /\ stored \in Settings /\ secrets \in Nat
    OBVIOUS
  <2> QED BY <1>2, <2>1, <2>2 DEF ServerTypes
<1> QED BY <1>6, <1>7, <1>8, <1>9, TypesSplit

LEMMA SetTypes ==
    ASSUME ReqTypes, NEW s \in Slots, NEW r, Fine(r), req' = [req EXCEPT ![s] = r]
    PROVE  ReqTypes'
BY DEF ReqTypes, Fine

LEMMA SendTypes == ASSUME ReqTypes, NEW r, Fine(r), Send(r) PROVE ReqTypes'
BY SetTypes DEF Send, Free

LEMMA CarrierTypes ==
    ASSUME ReqTypes, OtherTypes, NEW t \in Tabs, NEW r, Fine(r), SendCarrier(t, r)
    PROVE  ReqTypes' /\ synced' \in [Tabs -> BOOLEAN]
<1>1. (synced[t] /\ ~Meets(t, r.kind)) \in BOOLEAN
  BY DEF OtherTypes
<1>2. synced' \in [Tabs -> BOOLEAN]
  BY <1>1 DEF SendCarrier, OtherTypes
<1> QED BY <1>2, SendTypes DEF SendCarrier

LEMMA AnswerTypes ==
    ASSUME ReqTypes, NEW s \in Slots, NEW p \in {"half", "ok", "html", "failed"}, Answer(s, p),
           ~(req[s].kind = "save" /\ p = "ok")
    PROVE  ReqTypes'
<1>1. Fine([req[s] EXCEPT !.phase = p])
  BY DEF ReqTypes, Fine, Request
<1> QED BY <1>1, SetTypes DEF Answer

LEMMA ClickBound == ASSUME OtherTypes, Click PROVE clicks' \in 0..MaxClicks
BY ConsoleAssumption DEF ConsoleAssumption, OtherTypes, Click
LEMMA OddBound == ASSUME OtherTypes, odd < MaxOdd, odd' = odd + 1 PROVE odd' \in 0..MaxOdd
BY ConsoleAssumption DEF ConsoleAssumption, OtherTypes
LEMMA DoubtBoolean ==
    ASSUME OtherTypes, NEW s \in Slots
    PROVE  Doubtful(s) \in [Tabs -> BOOLEAN] /\ Outdated(s) \in [Tabs -> BOOLEAN]
BY DEF OtherTypes, Doubtful, Outdated

(* A page that is left keeps its requests, but for their page. *)
SameButPage(r, q) ==
    /\ r.kind = q.kind /\ r.tab = q.tab /\ r.phase = q.phase /\ r.pw = q.pw /\ r.path = q.path
    /\ r.fake = q.fake /\ r.regen = q.regen /\ r.asked = q.asked /\ r.body = q.body
LEMMA GoneTypes ==
    ASSUME ReqTypes, NEW t \in Tabs
    PROVE  /\ Gone(t) \in [Slots -> Request] /\ Left(t) \in [Slots -> Request]
           /\ \A s \in Slots : /\ Fine(Gone(t)[s]) /\ SameButPage(Gone(t)[s], req[s])
                               /\ Fine(Left(t)[s]) /\ SameButPage(Left(t)[s], req[s])
                               /\ req[s].tab # t => Gone(t)[s] = req[s] /\ Left(t)[s] = req[s]
                               /\ req[s].tab = t => Gone(t)[s].page # "here" /\ Left(t)[s].page # "here"
<1> SUFFICES ASSUME NEW s \in Slots
             PROVE  /\ Fine(Gone(t)[s]) /\ SameButPage(Gone(t)[s], req[s])
                    /\ Fine(Left(t)[s]) /\ SameButPage(Left(t)[s], req[s])
                    /\ req[s].tab # t => Gone(t)[s] = req[s] /\ Left(t)[s] = req[s]
                    /\ req[s].tab = t => Gone(t)[s].page # "here" /\ Left(t)[s].page # "here"
  BY DEF Gone, Left, Fine
<1>1. req[s] \in Request /\ Fine(req[s])
  BY DEF ReqTypes
<1>2. ASSUME NEW p \in {"left", "gone"}
      PROVE  /\ Fine([req[s] EXCEPT !.page = p]) /\ SameButPage([req[s] EXCEPT !.page = p], req[s])
             /\ [req[s] EXCEPT !.page = p].page = p
  BY <1>1, <1>2 DEF Fine, Request, SameButPage
<1>3. SameButPage(req[s], req[s])
  BY DEF SameButPage
<1>4. Gone(t)[s] = IF req[s].tab = t THEN [req[s] EXCEPT !.page = "gone"] ELSE req[s]
  BY DEF Gone
<1>5. Left(t)[s] = IF req[s].tab = t /\ req[s].page = "here" THEN [req[s] EXCEPT !.page = "left"] ELSE req[s]
  BY DEF Left
<1> QED BY <1>1, <1>2, <1>3, <1>4, <1>5

LEMMA MountTypes ==
    ASSUME TypeOK, NEW t \in Tabs, NEW p \in Paths, NEW s \in Slots, Mount(t, p, s), UNCHANGED cookie
    PROVE  TabTypes' /\ ReqTypes'
<1>1. TabTypes /\ ReqTypes
  BY TypesSplit
<1>2. TabTypes'
  BY <1>1, Values DEF Mount, TabTypes
<1>3. Fine([Ask(t, "me") EXCEPT !.url = p])
  <2>1. New(Ask(t, "me"), t, "me")
    BY <1>1, AskNew DEF Kinds
  <2> QED BY <2>1 DEF New, Fine, Request
<1>4. ReqTypes'
  BY <1>1, <1>3, GoneTypes DEF Mount, ReqTypes, Fine
<1> QED BY <1>2, <1>4

LEMMA ClickTypes ==
    ASSUME TypeOK, NEW t \in Tabs, Clicks(t)
    PROVE  TypeOK'
<1>t. ServerTypes /\ TabTypes /\ OtherTypes /\ ReqTypes
  BY TypesSplit
<1>s. \A k \in Kinds : Fine(Ask(t, k)) /\ Ask(t, k).kind = k
  BY <1>t, AskNew, NewFine DEF New
<1>1. CASE Visit(t)
  <2>1. TabTypes' /\ ReqTypes'
    BY <1>1, <1>t, MountTypes DEF Visit, Free, ServerTypes, Settings
  <2>2. OtherTypes'
    BY <1>1, <1>t, ClickBound DEF Visit, OtherTypes, history
  <2>3. ServerTypes'
    BY <1>1, <1>t DEF Visit, ServerTypes, server, history
  <2> QED BY <2>1, <2>2, <2>3, TypesJoin
<1>2. ASSUME NEW p \in 1..MaxPw, SignIn(t, p) PROVE TypeOK'
  <2>1. ReqTypes'
    BY <1>2, <1>t, PasswordNew, NewFine, SendTypes DEF SignIn, Kinds
  <2>2. OtherTypes'
    BY <1>2, <1>t, ClickBound DEF SignIn, OtherTypes, history
  <2>3. ServerTypes' /\ TabTypes'
    BY <1>2, <1>t DEF SignIn, ServerTypes, TabTypes, server, history
  <2> QED BY <2>1, <2>2, <2>3, TypesJoin
<1>3. ASSUME NEW p \in 1..MaxPw, ClickAdmin(t, p) PROVE TypeOK'
  <2>1. ReqTypes'
    BY <1>3, <1>t, PasswordNew, NewFine, SendTypes DEF ClickAdmin, Kinds
  <2>2. OtherTypes'
    BY <1>3, <1>t, ClickBound DEF ClickAdmin, OtherTypes, history
  <2>3. ServerTypes' /\ TabTypes'
    BY <1>3, <1>t DEF ClickAdmin, ServerTypes, TabTypes, server, page, history
  <2> QED BY <2>1, <2>2, <2>3, TypesJoin
<1>4. CASE ClickLogout(t)
  <2>1. ReqTypes'
    BY <1>4, <1>t, <1>s, SendTypes DEF ClickLogout, Kinds
  <2>2. OtherTypes'
    BY <1>4, <1>t, ClickBound DEF ClickLogout, OtherTypes, history
  <2>3. ServerTypes' /\ TabTypes'
    BY <1>4, <1>t DEF ClickLogout, ServerTypes, TabTypes, server, page, history
  <2> QED BY <2>1, <2>2, <2>3, TypesJoin
<1>5. CASE OpenSettings(t)
  <2>1. ReqTypes' /\ synced' \in [Tabs -> BOOLEAN]
    BY <1>5, <1>t, <1>s, CarrierTypes DEF OpenSettings, Kinds
  <2>2. OtherTypes'
    BY <1>5, <1>t, <2>1, ClickBound DEF OpenSettings, OtherTypes
  <2>3. ServerTypes' /\ TabTypes'
    BY <1>5, <1>t, Values DEF OpenSettings, SendCarrier, ServerTypes, TabTypes, server
  <2> QED BY <2>1, <2>2, <2>3, TypesJoin
<1>6. CASE LeaveSettings(t)
  <2>1. ReqTypes'
    BY <1>6, <1>t, GoneTypes DEF LeaveSettings, ReqTypes, Fine
  <2>2. ServerTypes' /\ TabTypes' /\ OtherTypes'
    BY <1>6, <1>t, Values DEF LeaveSettings, ServerTypes, TabTypes, OtherTypes, server, history
  <2> QED BY <2>1, <2>2, TypesJoin
<1>7. CASE Type(t)
  <2>1. copy' \in [Tabs -> Copy] /\ edited' \in [Tabs -> SUBSET {"path", "fake"}]
    BY <1>7, <1>t DEF Type, TabTypes, Copy
  <2>2. ServerTypes' /\ TabTypes' /\ OtherTypes' /\ ReqTypes'
    BY <1>7, <1>t, <2>1 DEF Type, ServerTypes, TabTypes, OtherTypes, ReqTypes, Fine, server, history
  <2> QED BY <2>2, TypesJoin
<1>8. ASSUME NEW again \in BOOLEAN, ClickSave(t, again) PROVE TypeOK'
  <2>1. SendCarrier(t, Saved(t, again))
    BY <1>8 DEF ClickSave, Saved
  <2>2. ReqTypes' /\ synced' \in [Tabs -> BOOLEAN]
    BY <1>t, <2>1, SavedNew, NewFine, CarrierTypes
  <2>3. OtherTypes'
    BY <1>8, <1>t, <2>2, ClickBound DEF ClickSave, OtherTypes
  <2>4. ServerTypes' /\ TabTypes'
    BY <1>8, <1>t DEF ClickSave, SendCarrier, ServerTypes, TabTypes, server, page
  <2> QED BY <2>2, <2>3, <2>4, TypesJoin
<1> QED BY <1>1, <1>2, <1>3, <1>4, <1>5, <1>6, <1>7, <1>8 DEF Clicks

LEMMA ServeTypes ==
    ASSUME TypeOK, NEW s \in Slots, Serve(s)
    PROVE  TypeOK'
<1>t. ServerTypes /\ TabTypes /\ OtherTypes /\ ReqTypes
  BY TypesSplit
<1>r. req[s] \in Request /\ req \in [Slots -> Request] /\ Fine(req[s])
  BY <1>t DEF ReqTypes
<1>d. Doubtful(s) \in [Tabs -> BOOLEAN] /\ Outdated(s) \in [Tabs -> BOOLEAN]
  BY <1>t, DoubtBoolean
<1> USE ConsoleAssumption DEF ConsoleAssumption
<1>1. CASE Camouflage(s)
  <2>1. ReqTypes'
    BY <1>1, <1>t, AnswerTypes DEF Camouflage
  <2>2. ServerTypes' /\ TabTypes' /\ OtherTypes'
    BY <1>1, <1>t, <1>d DEF Camouflage, ServerTypes, TabTypes, OtherTypes, server, page
  <2> QED BY <2>1, <2>2, TypesJoin
<1>2. CASE Unauthorized(s)
  <2>1. ReqTypes'
    BY <1>2, <1>t, AnswerTypes DEF Unauthorized
  <2>2. ServerTypes' /\ TabTypes' /\ OtherTypes'
    BY <1>2, <1>t DEF Unauthorized, ServerTypes, TabTypes, OtherTypes, server, page, history
  <2> QED BY <2>1, <2>2, TypesJoin
<1>3. CASE Reads(s)
  <2>1. Fine([req[s] EXCEPT !.phase = "ok", !.body = Shown(stored)])
    BY <1>3, <1>t, <1>r, Values DEF Reads, Fine, Request, ServerTypes
  <2>2. ReqTypes'
    BY <1>3, <1>t, <1>r, <2>1, SetTypes DEF Reads
  <2>3. OtherTypes'
    BY <1>3, <1>t DEF Reads, OtherTypes
  <2>4. ServerTypes' /\ TabTypes'
    BY <1>3, <1>t DEF Reads, ServerTypes, TabTypes, server, page
  <2> QED BY <2>2, <2>3, <2>4, TypesJoin
<1>4. CASE Checks(s)
  <2>1. ReqTypes'
    BY <1>4, <1>t, AnswerTypes DEF Checks
  <2>2. ServerTypes' /\ TabTypes' /\ OtherTypes'
    BY <1>4, <1>t DEF Checks, ServerTypes, TabTypes, OtherTypes, server, page, history
  <2> QED BY <2>1, <2>2, TypesJoin
<1>5. CASE CreatesSession(s)
  <2>1. ASSUME issued < MaxToken PROVE issued + 1 \in Tokens
    BY <1>t, <2>1 DEF ServerTypes, Tokens, NoToken
  <2>2. issued' \in {NoToken} \cup Tokens /\ sessions' \in [Tokens -> 0..MaxPw]
    BY <1>5, <1>t, <1>r, <2>1 DEF CreatesSession, ServerTypes, Request
  <2>3. ReqTypes'
    <3>1. ASSUME issued < MaxToken PROVE Fine([req[s] EXCEPT !.phase = "ok", !.token = issued + 1])
      BY <1>5, <1>r, <2>1, <3>1 DEF CreatesSession, Fine, Request
    <3>2. CASE Answer(s, "failed")
      BY <1>t, <3>2, AnswerTypes
    <3> QED BY <1>5, <1>t, <1>r, <3>1, <3>2 DEF CreatesSession, ReqTypes, Fine
  <2>4. ServerTypes' /\ TabTypes' /\ OtherTypes'
    BY <1>5, <1>t, <2>2 DEF CreatesSession, ServerTypes, TabTypes, OtherTypes, page, history
  <2> QED BY <2>3, <2>4, TypesJoin
<1>6. CASE ChangesPassword(s)
  <2>1. pw' \in 1..MaxPw /\ root' \in 0..MaxPw
    BY <1>6, <1>t, <1>r DEF ChangesPassword, ServerTypes, Request
  <2>2. ReqTypes'
    BY <1>6, <1>t, AnswerTypes DEF ChangesPassword
  <2>3. ServerTypes' /\ TabTypes' /\ OtherTypes'
    BY <1>6, <1>t, <2>1 DEF ChangesPassword, ServerTypes, TabTypes, OtherTypes, page
  <2> QED BY <2>2, <2>3, TypesJoin
<1>7. CASE EndsSession(s)
  <2>1. sessions' \in [Tokens -> 0..MaxPw]
    BY <1>7, <1>t DEF EndsSession, ServerTypes
  <2>2. ReqTypes'
    BY <1>7, <1>t, AnswerTypes DEF EndsSession
  <2>3. ServerTypes' /\ TabTypes' /\ OtherTypes'
    BY <1>7, <1>t, <2>1 DEF EndsSession, ServerTypes, TabTypes, OtherTypes, page, history
  <2> QED BY <2>2, <2>3, TypesJoin
<1>8. CASE StoresPath(s)
  <2>1. PathOf(req[s]) \in Paths \cup {Invalid}
    BY <1>t, <1>r DEF PathOf, Request, ServerTypes, Settings
  <2>2. stored' \in Settings
    BY <1>8, <1>t, <2>1 DEF StoresPath, ServerTypes, Settings
  <2>3. ReqTypes'
    BY <1>8, <1>t, AnswerTypes DEF StoresPath
  <2>4. synced' \in [Tabs -> BOOLEAN]
    BY <1>8, <1>d DEF StoresPath
  <2>5. ServerTypes' /\ TabTypes' /\ OtherTypes'
    BY <1>8, <1>t, <2>2, <2>4 DEF StoresPath, ServerTypes, TabTypes, OtherTypes, page
  <2> QED BY <2>3, <2>5, TypesJoin
<1>9. CASE StoresRest(s)
  <2>1. stored' \in Settings /\ secrets' \in Nat
    BY <1>9, <1>t, <1>r DEF StoresRest, ServerTypes, Settings, Request
  <2>2. Shown(stored') \in Copy /\ Shown(stored').path \in Paths
    BY <2>1, Values
  <2>3. Fine([req[s] EXCEPT !.phase = "ok", !.body = Shown(stored')])
    BY <1>r, <2>2 DEF Fine, Request
  <2>4. ReqTypes'
    <3>1. CASE Answer(s, "failed")
      BY <1>t, <3>1, AnswerTypes
    <3>2. CASE req' = [req EXCEPT ![s].phase = "ok", ![s].body = Shown(stored')]
      BY <1>t, <2>3, <3>2 DEF ReqTypes, Fine
    <3> QED BY <1>9, <3>1, <3>2 DEF StoresRest
  <2>5. synced' \in [Tabs -> BOOLEAN]
    <3>1. ASSUME NEW b \in BOOLEAN, synced' = [Outdated(s) EXCEPT ![Tab(s)] = b]
          PROVE  synced' \in [Tabs -> BOOLEAN]
      BY <1>d, <3>1
    <3>2. (Outdated(s)[Tab(s)] \/ Settles(s)) \in BOOLEAN
      BY <1>9, <1>d, <1>r DEF StoresRest, Fine, Tab
    <3> QED BY <1>9, <1>t, <3>1, <3>2 DEF StoresRest, OtherTypes
  <2>6. ServerTypes' /\ TabTypes' /\ OtherTypes'
    BY <1>9, <1>t, <2>1, <2>5 DEF StoresRest, ServerTypes, TabTypes, OtherTypes, page
  <2> QED BY <2>4, <2>6, TypesJoin
<1> QED BY <1>1, <1>2, <1>3, <1>4, <1>5, <1>6, <1>7, <1>8, <1>9 DEF Serve

LEMMA ReceiveTypes ==
    ASSUME TypeOK, NEW s \in Slots, Receive(s)
    PROVE  TypeOK'
<1>t. ServerTypes /\ TabTypes /\ OtherTypes /\ ReqTypes
  BY TypesSplit
<1>r. Fine(req[s]) /\ req[s] \in Request
  BY <1>t DEF ReqTypes
<1>k. Tab(s) \in Tabs
  BY <1>r DEF Receive, KnowsMe, LoginAnswered, LogoutAnswered, LoadAnswered, SaveAnswered,
              SaveRedirects, AdminAnswered, ShowsError, Forget, Heard, Answered, Fine, Tab
<1>b. req[s].body \in Copy /\ CookieAfter(req[s]) \in {NoToken} \cup Tokens
  BY <1>r, <1>t DEF Request, CookieAfter, TabTypes
<1>d. Done(s) => ReqTypes'
  BY <1>t, IdleFine, SetTypes DEF Done
<1>a. ASSUME Adopt(s) PROVE copy' \in [Tabs -> Copy] /\ edited' \in [Tabs -> SUBSET {"path", "fake"}]
  BY <1>t, <1>b, <1>a, Values DEF Adopt, TabTypes
<1>1. CASE KnowsMe(s)
  <2>1. ServerTypes' /\ TabTypes' /\ OtherTypes'
    BY <1>1, <1>t DEF KnowsMe, ServerTypes, TabTypes, OtherTypes, server, history
  <2> QED BY <1>1, <1>d, <2>1, TypesJoin DEF KnowsMe
<1>2. CASE LoginAnswered(s)
  <2>1. ServerTypes' /\ TabTypes' /\ OtherTypes'
    BY <1>2, <1>t, <1>b DEF LoginAnswered, ServerTypes, TabTypes, OtherTypes, server, history
  <2> QED BY <1>2, <1>d, <2>1, TypesJoin DEF LoginAnswered
<1>3. CASE LogoutAnswered(s)
  <2>1. ServerTypes' /\ OtherTypes'
    BY <1>3, <1>t DEF LogoutAnswered, ServerTypes, OtherTypes, server, history
  <2>2. TabTypes'
    BY <1>3, <1>t, <1>b, Values DEF LogoutAnswered, TabTypes
  <2>3. ReqTypes'
    <3>1. CASE req' = [Left(Tab(s)) EXCEPT ![s] = Idle]
      BY <1>t, <1>k, <3>1, GoneTypes, IdleFine DEF ReqTypes, Fine
    <3> QED BY <1>3, <1>d, <3>1 DEF LogoutAnswered
  <2> QED BY <2>1, <2>2, <2>3, TypesJoin
<1>4. CASE LoadAnswered(s)
  <2>1. ServerTypes' /\ TabTypes' /\ OtherTypes'
    BY <1>4, <1>t, <1>a DEF LoadAnswered, ServerTypes, TabTypes, OtherTypes, server, history
  <2> QED BY <1>4, <1>d, <2>1, TypesJoin DEF LoadAnswered
<1>5. CASE SaveAnswered(s)
  <2>1. ServerTypes' /\ TabTypes' /\ OtherTypes'
    BY <1>5, <1>t, <1>a DEF SaveAnswered, ServerTypes, TabTypes, OtherTypes, server, history
  <2> QED BY <1>5, <1>d, <2>1, TypesJoin DEF SaveAnswered
<1>6. CASE SaveRedirects(s)
  <2>1. ServerTypes' /\ OtherTypes' /\ UNCHANGED cookie
    BY <1>6, <1>t DEF SaveRedirects, ServerTypes, OtherTypes, server, history
  <2>2. CASE Mount(Tab(s), stored.path, s)
    <3>1. stored.path \in Paths
      BY <1>t DEF ServerTypes, Settings
    <3> QED BY <1>k, <2>1, <2>2, <3>1, MountTypes, TypesJoin
  <2>3. CASE ~Mount(Tab(s), stored.path, s)
    <3>1. req[s].body.path \in Paths
      BY <1>6, <1>r DEF SaveRedirects, Moved, Fine
    <3>2. TabTypes'
      BY <1>6, <1>t, <2>1, <2>3, <3>1, Values DEF SaveRedirects, TabTypes
    <3>3. ReqTypes'
      BY <1>6, <1>t, <1>k, <2>3, GoneTypes, IdleFine DEF SaveRedirects, ReqTypes, Fine
    <3> QED BY <2>1, <3>2, <3>3, TypesJoin
  <2> QED BY <2>2, <2>3
<1>7. CASE AdminAnswered(s)
  <2>1. Fine([Ask(Tab(s), "load") EXCEPT !.page = req[s].page])
    <3>1. New(Ask(Tab(s), "load"), Tab(s), "load")
      BY <1>t, <1>k, AskNew DEF Kinds
    <3> QED BY <1>r, <1>k, <3>1 DEF New, Fine, Request
  <2>2. ReqTypes'
    BY <1>7, <1>t, <2>1, SetTypes DEF AdminAnswered
  <2>3. synced' \in [Tabs -> BOOLEAN]
    <3>1. (synced[Tab(s)] /\ (req[s].page = "here" => ~Meets(Tab(s), "load"))) \in BOOLEAN
      BY <1>t, <1>k DEF OtherTypes
    <3> QED BY <1>7, <1>t, <3>1 DEF AdminAnswered, OtherTypes
  <2>4. ServerTypes' /\ TabTypes' /\ OtherTypes'
    BY <1>7, <1>t, <2>3 DEF AdminAnswered, ServerTypes, TabTypes, OtherTypes, server, page
  <2> QED BY <2>2, <2>4, TypesJoin
<1>8. CASE ShowsError(s)
  <2>1. ServerTypes' /\ TabTypes' /\ OtherTypes'
    BY <1>8, <1>t DEF ShowsError, ServerTypes, TabTypes, OtherTypes, server, page, history
  <2> QED BY <1>8, <1>d, <2>1, TypesJoin DEF ShowsError
<1>9. CASE Forget(s)
  <2>1. ServerTypes' /\ TabTypes' /\ OtherTypes'
    BY <1>9, <1>t, <1>b DEF Forget, ServerTypes, TabTypes, OtherTypes, server, page, history
  <2> QED BY <1>9, <1>d, <2>1, TypesJoin DEF Forget
<1> QED BY <1>1, <1>2, <1>3, <1>4, <1>5, <1>6, <1>7, <1>8, <1>9 DEF Receive

LEMMA StepTypes == TypeOK /\ [Next]_vars => TypeOK'
<1> SUFFICES ASSUME TypeOK, [Next]_vars PROVE TypeOK'
  OBVIOUS
<1>t. ServerTypes /\ TabTypes /\ OtherTypes /\ ReqTypes
  BY TypesSplit
<1>1. ASSUME NEW s \in Slots, Lose(s) PROVE TypeOK'
  <2>1. ReqTypes'
    BY <1>1, <1>t, AnswerTypes DEF Lose
  <2>2. OtherTypes'
    BY <1>1, <1>t, OddBound, DoubtBoolean DEF Lose, OtherTypes
  <2>3. ServerTypes' /\ TabTypes'
    BY <1>1, <1>t DEF Lose, ServerTypes, TabTypes, server, page
  <2> QED BY <2>1, <2>2, <2>3, TypesJoin
<1>2. CASE ResetAdmin
  <2>1. /\ pw' \in 1..MaxPw /\ resetPw' \in 0..MaxPw /\ root' \in 0..MaxPw /\ late' \in BOOLEAN
        /\ sessions' \in [Tokens -> 0..MaxPw]
    <3>1. CASE SetsPassword
      BY <1>t, <3>1, ConsoleAssumption DEF ConsoleAssumption, SetsPassword, ServerTypes
    <3>2. CASE DropsSessions
      BY <1>t, <3>2, ConsoleAssumption DEF ConsoleAssumption, DropsSessions, ServerTypes
    <3> QED BY <1>2, <3>1, <3>2 DEF ResetAdmin
  <2>2. clicks' \in 0..MaxClicks
    BY <1>2, <1>t, ClickBound DEF ResetAdmin, OtherTypes
  <2>3. ServerTypes' /\ TabTypes' /\ OtherTypes' /\ ReqTypes'
    BY <1>2, <1>t, <2>1, <2>2 DEF ResetAdmin, ServerTypes, TabTypes, OtherTypes, ReqTypes, Fine, page
  <2> QED BY <2>3, TypesJoin
<1>3. CASE Expires
  <2>1. sessions' \in [Tokens -> 0..MaxPw]
    BY <1>3, <1>t, ConsoleAssumption DEF ConsoleAssumption, Expires, ServerTypes
  <2>2. OtherTypes'
    BY <1>3, <1>t, OddBound DEF Expires, OtherTypes, history
  <2>3. ServerTypes' /\ TabTypes' /\ ReqTypes'
    BY <1>3, <1>t, <2>1 DEF Expires, ServerTypes, TabTypes, ReqTypes, Fine, page, history
  <2> QED BY <2>2, <2>3, TypesJoin
<1>4. CASE Elsewhere
  <2>1. stored' \in Settings /\ secrets' \in Nat
    BY <1>4, <1>t DEF Elsewhere, ServerTypes
  <2>2. OtherTypes'
    BY <1>4, <1>t, OddBound DEF Elsewhere, OtherTypes
  <2>3. ServerTypes' /\ TabTypes' /\ ReqTypes'
    BY <1>4, <1>t, <2>1 DEF Elsewhere, ServerTypes, TabTypes, ReqTypes, Fine, page
  <2> QED BY <2>2, <2>3, TypesJoin
<1>5. CASE UNCHANGED vars
  BY <1>5 DEF vars, server, page, history, TypeOK
<1> QED BY <1>1, <1>2, <1>3, <1>4, <1>5, ClickTypes, ServeTypes, ReceiveTypes DEF Next

(* The settings, the sessions, the tabs and their requests keep their types. *)
THEOREM ConsoleTypes == Spec => []TypeOK
<1> QED BY InitTypes, StepTypes, PTL DEF Spec

-------------------------------------------------------------------------------
(* reset-admin.  Unless somebody was between the check of a password and its use *)
(* when it began, whoever is now has given the password it set, or a later one.  *)
Using(s) == req[s].kind \in {"login", "admin"} /\ req[s].phase = "half"
NewerOnly ==
    /\ root >= resetPw
    /\ \A s \in Slots : Using(s) => req[s].pw >= resetPw
    /\ cli = "idle" => \A k \in Tokens : sessions[k] # 0 => sessions[k] >= resetPw
ResetInv == TypeOK /\ resetPw <= pw /\ (~late => NewerOnly)

LEMMA InitReset == Init => ResetInv
<1> SUFFICES ASSUME Init PROVE resetPw <= pw /\ NewerOnly
  BY InitTypes DEF ResetInv
<1>1. \A s \in Slots : req[s].phase = "sent"
  <2>1. TabTypes
    BY InitTypes, TypesSplit
  <2>2. \A t \in Tabs : Ask(t, "me").phase = "sent"
    BY <2>1, AskNew DEF New, Kinds
  <2> QED BY <2>2, IdleRequest DEF Init
<1>2. \A k \in Tokens : sessions[k] # 0 => sessions[k] >= resetPw
  BY DEF Init
<1> QED BY <1>1, <1>2 DEF Init, NewerOnly, Using

(* Passwords stay, nobody starts to use one, sessions end at most. *)
LEMMA ResetStays ==
    ASSUME ResetInv, UNCHANGED <<pw, resetPw, root, late, cli>>,
           \A k \in Tokens : sessions'[k] \in {0, sessions[k]},
           \A s \in Slots : Using(s)' => Using(s) /\ req'[s].pw = req[s].pw
    PROVE  resetPw' <= pw' /\ (~late' => NewerOnly')
BY DEF ResetInv, NewerOnly

LEMMA StepReset == ResetInv /\ [Next]_vars => ResetInv'
<1> SUFFICES ASSUME ResetInv, [Next]_vars PROVE resetPw' <= pw' /\ (~late' => NewerOnly')
  BY StepTypes DEF ResetInv
<1>t. TypeOK /\ ServerTypes /\ TabTypes /\ ReqTypes
  BY TypesSplit DEF ResetInv
<1>k. req \in [Slots -> Request] /\ \A s \in Slots : req[s] \in Request /\ Fine(req[s])
  BY <1>t DEF ReqTypes
<1>n. resetPw \in Nat /\ pw \in Nat /\ root \in Nat
  BY <1>t, ConsoleAssumption DEF ConsoleAssumption, ServerTypes
<1>u. ASSUME NEW s \in Slots, UNCHANGED <<pw, resetPw, root, late, cli, sessions>>,
             \A u \in Slots \ {s} : req'[u] = req[u] \/ SameButPage(req'[u], req[u]), ~Using(s)'
      PROVE  resetPw' <= pw' /\ (~late' => NewerOnly')
  <2>1. \A u \in Slots : Using(u)' => Using(u) /\ req'[u].pw = req[u].pw
    BY <1>u DEF Using, SameButPage
  <2> QED BY <1>u, <2>1, ResetStays
<1>a. ASSUME NEW s \in Slots, NEW p \in {"ok", "html", "failed", "half"}, Answer(s, p)
      PROVE  /\ req'[s].phase = p /\ req'[s].kind = req[s].kind /\ req'[s].pw = req[s].pw
             /\ \A u \in Slots \ {s} : req'[u] = req[u]
  BY <1>a, <1>k DEF Answer, Request
<1>s. ASSUME NEW s \in Slots, NEW r, req' = [req EXCEPT ![s] = r], r.phase = "sent"
      PROVE  ~Using(s)' /\ \A u \in Slots \ {s} : req'[u] = req[u]
  BY <1>s, <1>k DEF Using
<1>m. ASSUME NEW t \in Tabs, NEW s \in Slots, NEW r, r.phase = "sent",
             req' = [Gone(t) EXCEPT ![s] = r] \/ req' = [Left(t) EXCEPT ![s] = r]
      PROVE  ~Using(s)' /\ \A u \in Slots \ {s} : SameButPage(req'[u], req[u])
  BY <1>m, <1>t, GoneTypes DEF Using
<1>1. ASSUME NEW t \in Tabs, Clicks(t) PROVE resetPw' <= pw' /\ (~late' => NewerOnly')
  <2>1. UNCHANGED <<pw, resetPw, root, late, cli, sessions>>
    BY <1>1 DEF Clicks, Visit, SignIn, ClickLogout, OpenSettings, LeaveSettings, Type, ClickSave,
                ClickAdmin, SendCarrier, server, history
  <2>2. ASSUME NEW r, Send(r), r.phase = "sent"
        PROVE  resetPw' <= pw' /\ (~late' => NewerOnly')
    BY <1>s, <1>u, <2>1, <2>2 DEF Send, Free
  <2>3. \A k \in Kinds : Ask(t, k).phase = "sent"
    BY <1>t, AskNew DEF New
  <2>4. CASE ClickLogout(t) \/ OpenSettings(t)
    BY <2>2, <2>3, <2>4 DEF ClickLogout, OpenSettings, SendCarrier, Kinds
  <2>5. ASSUME NEW p \in 1..MaxPw, SignIn(t, p) \/ ClickAdmin(t, p)
        PROVE  resetPw' <= pw' /\ (~late' => NewerOnly')
    <3>1. ASSUME NEW k \in Kinds PROVE [Ask(t, k) EXCEPT !.pw = p].phase = "sent"
      BY <1>t, <3>1, AskNew DEF New, Request
    <3>2. "login" \in Kinds /\ "admin" \in Kinds
      BY DEF Kinds
    <3>3. Send([Ask(t, "login") EXCEPT !.pw = p]) \/ Send([Ask(t, "admin") EXCEPT !.pw = p])
      BY <2>5 DEF SignIn, ClickAdmin
    <3> QED BY <2>2, <3>1, <3>2, <3>3
  <2>6. ASSUME NEW again \in BOOLEAN, ClickSave(t, again)
        PROVE  resetPw' <= pw' /\ (~late' => NewerOnly')
    <3>1. Send(Saved(t, again)) /\ Saved(t, again).phase = "sent"
      BY <1>t, <2>6, SavedNew DEF ClickSave, SendCarrier, Saved, New
    <3> QED BY <2>2, <3>1
  <2>7. CASE Visit(t)
    <3>1. PICK s \in Slots : req' = [Gone(t) EXCEPT ![s] = [Ask(t, "me") EXCEPT !.url = stored.path]]
      BY <2>7 DEF Visit, Mount, Free
    <3>2. [Ask(t, "me") EXCEPT !.url = stored.path].phase = "sent"
      BY <1>t, AskNew DEF New, Kinds, Request
    <3> QED BY <1>m, <1>u, <2>1, <3>1, <3>2
  <2>8. CASE LeaveSettings(t) \/ Type(t)
    <3>1. \A u \in Slots : SameButPage(req'[u], req[u])
      BY <1>k, <1>t, <2>8, GoneTypes DEF LeaveSettings, Type, SameButPage
    <3> QED BY <2>1, <3>1, ResetStays DEF Using, SameButPage
  <2> QED BY <1>1, <2>4, <2>5, <2>6, <2>7, <2>8 DEF Clicks
<1>2. ASSUME NEW s \in Slots, Serve(s) PROVE resetPw' <= pw' /\ (~late' => NewerOnly')
  <2>1. CASE Camouflage(s) \/ Unauthorized(s)
    BY <1>a, <1>u, <2>1 DEF Camouflage, Unauthorized, server, history, Using
  <2>2. CASE Reads(s)
    <3>1. req'[s].kind = req[s].kind /\ req'[s].phase = "ok" /\ \A u \in Slots \ {s} : req'[u] = req[u]
      BY <1>k, <2>2 DEF Reads, Request
    <3> QED BY <1>u, <2>2, <3>1 DEF Reads, server, Using
  <2>3. CASE StoresPath(s)
    <3>1. req'[s].kind = "save" /\ \A u \in Slots \ {s} : req'[u] = req[u]
      BY <1>a, <2>3 DEF StoresPath
    <3> QED BY <1>u, <2>3, <3>1 DEF StoresPath, Using
  <2>4. CASE StoresRest(s)
    <3>1. req'[s].kind = "save" /\ \A u \in Slots \ {s} : req'[u] = req[u]
      BY <1>k, <2>4 DEF StoresRest, Answer, Request
    <3> QED BY <1>u, <2>4, <3>1 DEF StoresRest, Using
  <2>5. CASE EndsSession(s)
    <3>1. \A u \in Slots : Using(u)' => Using(u) /\ req'[u].pw = req[u].pw
      BY <1>a, <2>5 DEF EndsSession, Using
    <3>2. \A k \in Tokens : sessions'[k] \in {0, sessions[k]}
      BY <2>5 DEF EndsSession
    <3> QED BY <2>5, <3>1, <3>2, ResetStays DEF EndsSession, history
  <2>6. CASE Checks(s)
    <3>1. /\ req'[s].pw = req[s].pw /\ (req'[s].phase = "half" => req[s].pw = pw)
          /\ \A u \in Slots \ {s} : req'[u] = req[u]
      BY <1>a, <2>6 DEF Checks
    <3>2. ASSUME ~late PROVE NewerOnly'
      BY <2>6, <3>1, <3>2 DEF Checks, server, history, ResetInv, NewerOnly, Using
    <3> QED BY <2>6, <3>2 DEF Checks, server, history, ResetInv
  <2>7. CASE CreatesSession(s)
    <3>1. /\ req'[s].phase # "half" /\ \A u \in Slots \ {s} : req'[u] = req[u]
      BY <1>k, <2>7 DEF CreatesSession, Answer, Request
    <3>2. \A k \in Tokens : sessions'[k] \in {req[s].pw, sessions[k]}
      BY <1>t, <2>7 DEF CreatesSession, ServerTypes
    <3>3. Using(s)
      BY <2>7 DEF CreatesSession, Using
    <3>4. ASSUME ~late PROVE NewerOnly'
      <4>1. /\ root >= resetPw /\ req[s].pw >= resetPw
            /\ \A u \in Slots : Using(u) => req[u].pw >= resetPw
            /\ cli = "idle" => \A k \in Tokens : sessions[k] # 0 => sessions[k] >= resetPw
        BY <3>3, <3>4 DEF ResetInv, NewerOnly
      <4>2. UNCHANGED <<root, resetPw, cli>>
        BY <2>7 DEF CreatesSession, history
      <4>3. \A u \in Slots : Using(u)' => Using(u) /\ req'[u] = req[u]
        BY <3>1 DEF Using
      <4> QED BY <3>2, <4>1, <4>2, <4>3 DEF NewerOnly
    <3> QED BY <2>7, <3>4 DEF CreatesSession, history, ResetInv
  <2>8. CASE ChangesPassword(s)
    <3>1. /\ req'[s].phase # "half" /\ \A u \in Slots \ {s} : req'[u] = req[u]
      BY <1>a, <2>8 DEF ChangesPassword
    <3>2. Using(s)
      BY <2>8 DEF ChangesPassword, Using
    <3>3. resetPw' <= pw'
      BY <1>n, <2>8 DEF ChangesPassword, ResetInv
    <3>4. ASSUME ~late PROVE NewerOnly'
      BY <2>8, <3>1, <3>2, <3>4 DEF ChangesPassword, ResetInv, NewerOnly, Using
    <3> QED BY <2>8, <3>3, <3>4 DEF ChangesPassword
  <2> QED BY <1>2, <2>1, <2>2, <2>3, <2>4, <2>5, <2>6, <2>7, <2>8 DEF Serve
<1>3. ASSUME NEW s \in Slots, Receive(s) PROVE resetPw' <= pw' /\ (~late' => NewerOnly')
  <2>1. UNCHANGED <<pw, resetPw, root, late, cli, sessions>>
    BY <1>3 DEF Receive, KnowsMe, LoginAnswered, LogoutAnswered, LoadAnswered, SaveAnswered,
                SaveRedirects, AdminAnswered, ShowsError, Forget, server, history
  <2>k. Tab(s) \in Tabs
    BY <1>3, <1>k DEF Receive, KnowsMe, LoginAnswered, LogoutAnswered, LoadAnswered, SaveAnswered,
                SaveRedirects, AdminAnswered, ShowsError, Forget, Heard, Answered, Fine, Tab
  <2>m. ASSUME NEW k \in Kinds PROVE Ask(Tab(s), k) \in Request /\ Ask(Tab(s), k).phase = "sent"
    BY <1>t, <2>k, <2>m, AskNew DEF New
  <2>2. ASSUME NEW r, r.phase = "sent", \/ req' = [req EXCEPT ![s] = r]
                                        \/ req' = [Gone(Tab(s)) EXCEPT ![s] = r]
                                        \/ req' = [Left(Tab(s)) EXCEPT ![s] = r]
        PROVE  resetPw' <= pw' /\ (~late' => NewerOnly')
    BY <1>m, <1>s, <1>u, <2>1, <2>2, <2>k
  <2>3. Idle.phase = "sent"
    BY IdleRequest
  <2>4. CASE AdminAnswered(s)
    <3>1. [Ask(Tab(s), "load") EXCEPT !.page = req[s].page].phase = "sent"
      BY <2>m DEF Kinds, Request
    <3> QED BY <2>2, <2>4, <3>1 DEF AdminAnswered
  <2>5. CASE SaveRedirects(s)
    <3>1. [Ask(Tab(s), "me") EXCEPT !.url = stored.path].phase = "sent"
      BY <2>m DEF Kinds, Request
    <3> QED BY <2>2, <2>3, <2>5, <3>1 DEF SaveRedirects, Mount
  <2> QED BY <1>3, <2>2, <2>3, <2>4, <2>5 DEF Receive, KnowsMe, LoginAnswered, LogoutAnswered,
             LoadAnswered, SaveAnswered, ShowsError, Forget, Done
<1>4. ASSUME NEW s \in Slots, Lose(s) PROVE resetPw' <= pw' /\ (~late' => NewerOnly')
  BY <1>a, <1>u, <1>4 DEF Lose, server, Using
<1>5. CASE ResetAdmin
  <2>1. CASE cli = "idle" /\ SetsPassword /\ cli' = "updated" /\ UNCHANGED req
    BY <1>n, <2>1 DEF SetsPassword, NewerOnly, Using
  <2>2. CASE cli = "updated" /\ DropsSessions /\ cli' = "idle" /\ UNCHANGED req
    BY <1>n, <2>2 DEF DropsSessions, ResetInv, NewerOnly, Using
  <2> QED BY <1>5, <2>1, <2>2 DEF ResetAdmin
<1>6. CASE Expires
  <2>1. \A k \in Tokens : sessions'[k] \in {0, sessions[k]}
    BY <1>t, <1>6 DEF Expires, ServerTypes
  <2> QED BY <1>6, <2>1, ResetStays DEF Expires, history, Using
<1>7. CASE Elsewhere \/ UNCHANGED vars
  BY <1>7, ResetStays DEF Elsewhere, vars, server, history, Using
<1> QED BY <1>1, <1>2, <1>3, <1>4, <1>5, <1>6, <1>7 DEF Next

(* ResetAdmin of the store, login and putAdmin: unless a password was being        *)
(* checked while it began, reset-admin leaves no session of an older login and no  *)
(* password that was set with an older one.                                         *)
THEOREM ResetAlwaysEvicts == Spec => []ResetEvicts
<1>1. ResetInv => ResetEvicts
  BY DEF ResetInv, NewerOnly, ResetEvicts
<1> QED BY <1>1, InitReset, StepReset, PTL DEF Spec

-------------------------------------------------------------------------------
(* The settings page.  A tab that is in step with the panel differs from it only *)
(* in what was typed, until an answer that replaces its copy is in.  A save of it  *)
(* is alone, and says what the page shows or, when that was left, will not be       *)
(* shown.                                                                            *)
IsCarrier(r, t) == r.tab = t /\ (r.kind = "save" \/ (r.kind = "load" /\ r.page = "here"))
Sending(r) == r.phase \in {"sent", "half"}
Agrees(t) ==
    /\ "path" \notin edited[t] => copy[t].path = stored.path
    /\ "fake" \notin edited[t] => copy[t].fake = stored.fake
Faithful(t, r) ==
    /\ r.page # "here" => copy[t].at # "shown"
    /\ r.page = "here" /\ Sending(r) =>
           copy[t].at = "shown" /\ ("path" \notin edited[t] => r.path = copy[t].path)
    /\ Sending(r) /\ ~r.asked => ~r.regen /\ r.fake \in {Absent, stored.fake}
InStep(t) ==
    synced[t] =>
        /\ \A s \in Slots : IsCarrier(req[s], t) =>
              /\ req[s].phase # "html"
              /\ req[s].phase = "ok" => req[s].body = Shown(stored)
              /\ req[s].kind = "save" =>
                     Faithful(t, req[s]) /\ \A u \in Slots : IsCarrier(req[u], t) => u = s
        /\ (copy[t].at = "shown" /\ \A s \in Slots : IsCarrier(req[s], t) => req[s].phase # "ok")
               => Agrees(t)
CopyInv == TypeOK /\ \A t \in Tabs : InStep(t)

LEMMA CarriersAre == \A t : Carriers(t) = {s \in Slots : IsCarrier(req[s], t)}
BY DEF Carriers, IsCarrier

LEMMA InitCopy == Init => CopyInv
BY InitTypes DEF CopyInv, Init, InStep

(* A tab to which nothing happens. *)
LEMMA Untouched ==
    ASSUME NEW t \in Tabs, InStep(t), copy'[t] = copy[t], edited'[t] = edited[t],
           synced'[t] => synced[t] /\ stored' = stored,
           \A s \in Slots : \/ req'[s] = req[s]
                            \/ ~IsCarrier(req[s], t) /\ ~IsCarrier(req'[s], t)
    PROVE  InStep(t)'
<1> SUFFICES ASSUME synced'[t]
             PROVE  /\ \A s \in Slots : IsCarrier(req'[s], t) =>
                          /\ req'[s].phase # "html"
                          /\ req'[s].phase = "ok" => req'[s].body = Shown(stored)'
                          /\ req'[s].kind = "save" =>
                                 /\ Faithful(t, req[s])'
                                 /\ \A u \in Slots : IsCarrier(req'[u], t) => u = s
                    /\ (/\ copy'[t].at = "shown"
                        /\ \A s \in Slots : IsCarrier(req'[s], t) => req'[s].phase # "ok") => Agrees(t)'
  BY DEF InStep, IsCarrier
<1>1. synced[t] /\ stored' = stored /\ Shown(stored)' = Shown(stored)
  BY DEF Shown
<1>2. \A s \in Slots : /\ IsCarrier(req'[s], t) => req'[s] = req[s] /\ IsCarrier(req[s], t)
                       /\ IsCarrier(req[s], t) => IsCarrier(req'[s], t) /\ req'[s] = req[s]
  OBVIOUS
<1>3. \A s \in Slots : IsCarrier(req'[s], t) /\ Faithful(t, req[s]) => Faithful(t, req[s])'
  BY <1>1, <1>2 DEF Faithful, Sending
<1>4. Agrees(t) => Agrees(t)'
  BY <1>1 DEF Agrees
<1> QED BY <1>1, <1>2, <1>3, <1>4 DEF InStep

(* The tab's page is taken away. *)
LEMMA Blanked ==
    ASSUME NEW t \in Tabs, InStep(t), copy'[t].at # "shown", stored' = stored, synced'[t] => synced[t],
           \A s \in Slots : IsCarrier(req'[s], t) =>
               IsCarrier(req[s], t) /\ SameButPage(req'[s], req[s]) /\ req'[s].page # "here"
    PROVE  InStep(t)'
<1>1. Shown(stored)' = Shown(stored)
  BY DEF Shown
<1>2. \A s \in Slots : IsCarrier(req'[s], t) => req[s].kind = "save" /\ req'[s].kind = "save"
  BY DEF IsCarrier, SameButPage
<1>3. \A s \in Slots : IsCarrier(req'[s], t) /\ Faithful(t, req[s]) => Faithful(t, req[s])'
  BY DEF Faithful, Sending, SameButPage
<1> QED BY <1>1, <1>2, <1>3 DEF InStep, IsCarrier, SameButPage

(* An answer that brings nothing is in. *)
LEMMA Dropped ==
    ASSUME NEW t \in Tabs, InStep(t), NEW s \in Slots, ~IsCarrier(req'[s], t),
           copy'[t] = copy[t], edited'[t] = edited[t], stored' = stored, synced'[t] => synced[t],
           \A u \in Slots \ {s} : req'[u] = req[u],
           synced[t] /\ IsCarrier(req[s], t) => req[s].phase # "ok" \/ copy[t].at # "shown"
    PROVE  InStep(t)'
<1>1. Shown(stored)' = Shown(stored)
  BY DEF Shown
<1>2. \A u \in Slots : IsCarrier(req'[u], t) => req'[u] = req[u] /\ IsCarrier(req[u], t)
  OBVIOUS
<1>3. \A u \in Slots : IsCarrier(req'[u], t) /\ Faithful(t, req[u]) => Faithful(t, req[u])'
  BY <1>2 DEF Faithful, Sending
<1>4. Agrees(t) => Agrees(t)'
  BY DEF Agrees
<1> QED BY <1>1, <1>2, <1>3, <1>4 DEF InStep, IsCarrier

(* A load is sent, and no save of the tab is under way. *)
LEMMA LoadSent ==
    ASSUME NEW t \in Tabs, InStep(t), NEW s \in Slots, ~IsCarrier(req[s], t),
           req'[s].kind = "load", req'[s].phase = "sent",
           \A u \in Slots \ {s} : req'[u] = req[u],
           synced'[t] => synced[t] /\ \A u \in Slots : IsCarrier(req[u], t) => req[u].kind # "save",
           stored' = stored,
           \/ copy'[t] = copy[t] /\ edited'[t] = edited[t]
           \/ copy'[t].at # "shown"
    PROVE  InStep(t)'
<1>1. Shown(stored)' = Shown(stored)
  BY DEF Shown
<1>2. \A u \in Slots : /\ IsCarrier(req'[u], t) /\ u # s => req'[u] = req[u] /\ IsCarrier(req[u], t)
                       /\ IsCarrier(req[u], t) => req'[u] = req[u] /\ IsCarrier(req'[u], t)
  OBVIOUS
<1>4. copy'[t].at = "shown" /\ Agrees(t) => Agrees(t)'
  BY DEF Agrees
<1> QED BY <1>1, <1>2, <1>4 DEF InStep, IsCarrier

(* An answer of the panel replaces the copy. *)
LEMMA Adopted ==
    ASSUME NEW t \in Tabs, InStep(t), NEW s \in Slots, IsCarrier(req[s], t),
           req[s].phase \in {"ok", "html"}, ~IsCarrier(req'[s], t), \A u \in Slots \ {s} : req'[u] = req[u],
           req[s].phase = "ok" => copy'[t] = req[s].body,
           stored \in Settings, stored' = stored, synced'[t] => synced[t]
    PROVE  InStep(t)'
<1>1. Shown(stored)' = Shown(stored)
  BY DEF Shown
<1>2. \A u \in Slots : IsCarrier(req'[u], t) => u # s /\ req'[u] = req[u] /\ IsCarrier(req[u], t)
  OBVIOUS
<1>3. synced[t] => copy'[t].path = stored.path /\ copy'[t].fake = stored.fake
  BY Values DEF InStep
<1>4. synced[t] => Agrees(t)'
  BY <1>3 DEF Agrees
<1> QED BY <1>1, <1>2, <1>4 DEF InStep, IsCarrier

(* The request that is sent takes a slot that nothing was in. *)
LEMMA SendOne ==
    ASSUME ReqTypes, NEW r, Send(r)
    PROVE  \E s \in Slots : /\ \A t : ~IsCarrier(req[s], t)
                            /\ req'[s] = r /\ \A u \in Slots \ {s} : req'[u] = req[u]
BY DEF ReqTypes, Send, Free, IsCarrier

LEMMA ClickCopy ==
    ASSUME CopyInv, NEW t \in Tabs, Clicks(t), NEW u \in Tabs
    PROVE  InStep(u)'
<1>t. TypeOK /\ TabTypes /\ OtherTypes /\ ReqTypes /\ InStep(t) /\ InStep(u)
  BY TypesSplit DEF CopyInv
<1>k. /\ copy[t] \in Copy /\ copy \in [Tabs -> Copy] /\ edited \in [Tabs -> SUBSET {"path", "fake"}]
      /\ synced \in [Tabs -> BOOLEAN] /\ req \in [Slots -> Request]
  BY <1>t DEF ReqTypes, TabTypes, OtherTypes
<1>a. \A k \in Kinds : New(Ask(t, k), t, k)
  BY <1>t, AskNew
<1>1. stored' = stored /\ (synced'[u] => synced[u])
  BY <1>k DEF Clicks, Visit, SignIn, ClickLogout, OpenSettings, LeaveSettings, Type, ClickSave,
              ClickAdmin, SendCarrier, server, history
<1>2. u # t => copy'[u] = copy[u] /\ edited'[u] = edited[u]
  BY <1>k DEF Clicks, Visit, Mount, SignIn, ClickLogout, OpenSettings, LeaveSettings, Type, ClickSave,
              ClickAdmin, SendCarrier, page
<1>3. ASSUME NEW r, NEW k \in Kinds, New(r, t, k), Send(r), u # t \/ k \notin {"load", "save"},
             u = t => copy'[t] = copy[t] /\ edited'[t] = edited[t]
      PROVE  InStep(u)'
  <2>1. PICK s \in Slots : /\ ~IsCarrier(req[s], u)
                           /\ req'[s] = r /\ \A v \in Slots \ {s} : req'[v] = req[v]
    BY <1>3, <1>t, SendOne
  <2>2. ~IsCarrier(r, u)
    BY <1>3 DEF New, IsCarrier
  <2> QED BY <1>1, <1>2, <1>3, <1>t, <2>1, <2>2, Untouched
<1>4. CASE ClickLogout(t)
  BY <1>3, <1>4, <1>a DEF ClickLogout, page, Kinds
<1>5. ASSUME NEW p \in 1..MaxPw, SignIn(t, p) \/ ClickAdmin(t, p) PROVE InStep(u)'
  <2>1. \A k \in Kinds : New([Ask(t, k) EXCEPT !.pw = p], t, k)
    BY <1>t, PasswordNew
  <2>2. copy' = copy /\ edited' = edited
    BY <1>5 DEF SignIn, ClickAdmin, page
  <2>3. Send([Ask(t, "login") EXCEPT !.pw = p]) \/ Send([Ask(t, "admin") EXCEPT !.pw = p])
    BY <1>5 DEF SignIn, ClickAdmin
  <2>4. "login" \in Kinds /\ "admin" \in Kinds
    BY DEF Kinds
  <2> QED BY <1>3, <2>1, <2>2, <2>3, <2>4
<1>6. CASE OpenSettings(t)
  <2>1. New(Ask(t, "load"), t, "load") /\ Send(Ask(t, "load")) /\ "load" \in Kinds
    BY <1>6, <1>a DEF OpenSettings, SendCarrier, Kinds
  <2>2. CASE u # t
    BY <1>3, <2>1, <2>2
  <2>3. CASE u = t
    <3>1. PICK s \in Slots : /\ ~IsCarrier(req[s], t)
                             /\ req'[s] = Ask(t, "load") /\ \A v \in Slots \ {s} : req'[v] = req[v]
      BY <1>t, <2>1, SendOne
    <3>2. copy'[t].at # "shown"
      BY <1>6, <1>k, Values DEF OpenSettings
    <3>3. synced'[t] => \A v \in Slots : IsCarrier(req[v], t) => req[v].kind # "save"
      BY <1>6, <1>k, <2>1, CarriersAre DEF OpenSettings, SendCarrier, Meets, New
    <3> QED BY <1>1, <1>t, <2>1, <2>3, <3>1, <3>2, <3>3, LoadSent DEF New
  <2> QED BY <2>2, <2>3
<1>7. ASSUME NEW again \in BOOLEAN, ClickSave(t, again) PROVE InStep(u)'
  <2>1. /\ New(Saved(t, again), t, "save") /\ Send(Saved(t, again)) /\ "save" \in Kinds
        /\ copy' = copy /\ edited' = edited /\ copy[t].at = "shown"
        /\ synced'[t] => synced[t] /\ ~Meets(t, "save")
    <3>1. SendCarrier(t, Saved(t, again)) /\ copy' = copy /\ edited' = edited /\ copy[t].at = "shown"
      BY <1>7 DEF ClickSave, Saved, page
    <3>2. New(Saved(t, again), t, "save")
      BY <1>t, SavedNew
    <3> QED BY <1>k, <3>1, <3>2 DEF SendCarrier, Kinds, New
  <2>2. CASE u # t
    BY <1>3, <2>1, <2>2
  <2>3. ASSUME u = t, synced'[t] PROVE InStep(t)'
    <3>1. PICK s \in Slots : /\ req'[s] = Saved(t, again) /\ \A v \in Slots \ {s} : req'[v] = req[v]
      BY <1>t, <2>1, SendOne
    <3>2. \A v \in Slots : ~IsCarrier(req[v], t)
      BY <2>1, <2>3, CarriersAre DEF Meets
    <3>3. synced[t] /\ Agrees(t) /\ stored' = stored
      BY <1>1, <1>t, <2>1, <2>3, <3>2 DEF InStep
    <3>4. Faithful(t, req[s])'
      <4>1. req'[s].page = "here" /\ req'[s].path = copy[t].path /\ req'[s].fake = copy[t].fake
        BY <1>t, <2>1, <3>1, SavedNew DEF New
      <4>2. req'[s].regen = again /\ req'[s].asked = (again \/ "fake" \in edited[t])
        BY <1>t, <3>1, SavedNew
      <4>3. ~req'[s].asked => ~req'[s].regen /\ req'[s].fake = stored'.fake
        BY <3>3, <4>1, <4>2 DEF Agrees
      <4> QED BY <2>1, <4>1, <4>3 DEF Faithful
    <3>5. Agrees(t)'
      BY <2>1, <3>3 DEF Agrees
    <3>6. \A v \in Slots : IsCarrier(req'[v], t) => v = s
      BY <3>1, <3>2
    <3>7. req'[s].phase = "sent"
      BY <2>1, <3>1 DEF New
    <3> QED BY <3>4, <3>5, <3>6, <3>7 DEF InStep, IsCarrier
  <2> QED BY <2>2, <2>3 DEF InStep
<1>8. ASSUME u = t => copy'[t].at # "shown",
             \A s \in Slots : \/ SameButPage(req'[s], req[s])
                                 /\ (req[s].tab = t => req'[s].page # "here")
                                 /\ (req[s].tab # t => req'[s] = req[s])
                              \/ /\ \A v : ~IsCarrier(req[s], v)
                                 /\ req'[s].kind = "me"
      PROVE  InStep(u)'
  <2>1. CASE u = t
    <3>1. \A s \in Slots : IsCarrier(req'[s], t) =>
             IsCarrier(req[s], t) /\ SameButPage(req'[s], req[s]) /\ req'[s].page # "here"
      BY <1>8 DEF IsCarrier, SameButPage
    <3> QED BY <1>1, <1>8, <1>t, <2>1, <3>1, Blanked
  <2>2. CASE u # t
    <3>1. \A s \in Slots : req'[s] = req[s] \/ (~IsCarrier(req[s], u) /\ ~IsCarrier(req'[s], u))
      BY <1>8, <2>2 DEF IsCarrier, SameButPage
    <3> QED BY <1>1, <1>2, <1>t, <2>2, <3>1, Untouched
  <2> QED BY <2>1, <2>2
<1>9. CASE Visit(t)
  <2>1. PICK s \in Slots : /\ req[s].kind = "none"
                           /\ req' = [Gone(t) EXCEPT ![s] = [Ask(t, "me") EXCEPT !.url = stored.path]]
    BY <1>9 DEF Visit, Mount, Free
  <2>2. [Ask(t, "me") EXCEPT !.url = stored.path].kind = "me"
    BY <1>a DEF New, Kinds, Request
  <2>3. copy'[t].at # "shown"
    BY <1>9, <1>k, Values DEF Visit, Mount
  <2>4. \A v : ~IsCarrier(req[s], v)
    BY <2>1 DEF IsCarrier
  <2> QED BY <1>8, <1>t, <2>1, <2>2, <2>3, <2>4, GoneTypes
<1>10. CASE LeaveSettings(t)
  <2>1. copy'[t].at # "shown" /\ req' = Left(t)
    BY <1>10, <1>k, Values DEF LeaveSettings
  <2> QED BY <1>8, <1>t, <2>1, GoneTypes
<1>11. CASE Type(t)
  <2>1. /\ req' = req /\ copy'[t].at = copy[t].at /\ copy[t].at = "shown" /\ synced' = synced
        /\ \/ copy'[t].fake = copy[t].fake /\ edited'[t] = edited[t] \cup {"path"}
           \/ copy'[t].path = copy[t].path /\ edited'[t] = edited[t] \cup {"fake"}
    BY <1>11, <1>k DEF Type, Copy, history
  <2>2. CASE u # t
    BY <1>1, <1>2, <1>t, <2>1, <2>2, Untouched
  <2>3. CASE u = t
    <3>1. Shown(stored)' = Shown(stored)
      BY <1>1 DEF Shown
    <3>2. Agrees(t) => Agrees(t)'
      BY <1>1, <2>1 DEF Agrees
    <3>3. \A s \in Slots : Faithful(t, req[s]) => Faithful(t, req[s])'
      BY <1>1, <2>1 DEF Faithful, Sending
    <3> QED BY <1>t, <2>1, <2>3, <3>1, <3>2, <3>3 DEF InStep, IsCarrier
  <2> QED BY <2>2, <2>3
<1> QED BY <1>4, <1>5, <1>6, <1>7, <1>9, <1>10, <1>11 DEF Clicks

(* The panel refuses a request of the tab. *)
LEMMA Refused ==
    ASSUME NEW t \in Tabs, InStep(t), NEW s \in Slots, Sending(req[s]), req'[s].phase = "failed",
           SameButPage([req[s] EXCEPT !.phase = "failed"], req'[s]), req'[s].page = req[s].page,
           req[s] \in Request, \A v \in Slots \ {s} : req'[v] = req[v],
           copy'[t] = copy[t], edited'[t] = edited[t], stored' = stored, synced'[t] => synced[t]
    PROVE  InStep(t)'
<1>1. Shown(stored)' = Shown(stored)
  BY DEF Shown
<1>2. req'[s].kind = req[s].kind /\ req'[s].tab = req[s].tab
  BY DEF SameButPage, Request
<1>3. \A v \in Slots : IsCarrier(req'[v], t) <=> IsCarrier(req[v], t)
  BY <1>2 DEF IsCarrier
<1>4. \A v \in Slots : Faithful(t, req[v]) => Faithful(t, req[v])'
  BY DEF Faithful, Sending
<1>5. Agrees(t) => Agrees(t)'
  BY DEF Agrees
<1> QED BY <1>1, <1>2, <1>3, <1>4, <1>5 DEF InStep, IsCarrier, Sending

LEMMA ServeCopy ==
    ASSUME CopyInv, NEW s \in Slots, Serve(s), NEW t \in Tabs
    PROVE  InStep(t)'
<1>t. TypeOK /\ ServerTypes /\ OtherTypes /\ ReqTypes /\ InStep(t)
  BY TypesSplit DEF CopyInv
<1>k. /\ req \in [Slots -> Request] /\ req[s] \in Request /\ Fine(req[s])
      /\ synced \in [Tabs -> BOOLEAN] /\ stored \in Settings
  BY <1>t DEF ReqTypes, OtherTypes, ServerTypes
<1>1. copy'[t] = copy[t] /\ edited'[t] = edited[t]
  BY DEF Serve, Camouflage, Unauthorized, Reads, Checks, CreatesSession, ChangesPassword, EndsSession,
         StoresPath, StoresRest, page
<1>a. ASSUME NEW p \in {"half", "ok", "html", "failed"}, Answer(s, p)
      PROVE  /\ req'[s] = [req[s] EXCEPT !.phase = p] /\ req'[s].phase = p
             /\ req'[s].kind = req[s].kind /\ req'[s].tab = req[s].tab /\ req'[s].page = req[s].page
             /\ req'[s].path = req[s].path /\ req'[s].fake = req[s].fake
             /\ req'[s].regen = req[s].regen /\ req'[s].asked = req[s].asked
             /\ SameButPage([req[s] EXCEPT !.phase = p], req'[s])
             /\ \A v \in Slots \ {s} : req'[v] = req[v]
  BY <1>a, <1>k DEF Answer, Request, SameButPage
<1>b. ASSUME req' = [req EXCEPT ![s].phase = "ok", ![s].body = Shown(stored')]
      PROVE  /\ req'[s].phase = "ok" /\ req'[s].body = Shown(stored')
             /\ req'[s].kind = req[s].kind /\ req'[s].tab = req[s].tab /\ req'[s].page = req[s].page
             /\ \A v \in Slots \ {s} : req'[v] = req[v]
  BY <1>b, <1>k DEF Request
<1>2. /\ \A v \in Slots \ {s} : req'[v] = req[v]
      /\ req'[s].kind = req[s].kind /\ req'[s].tab = req[s].tab /\ req'[s].page = req[s].page
  <2>1. CASE Camouflage(s) \/ Unauthorized(s) \/ Checks(s) \/ ChangesPassword(s) \/ EndsSession(s)
             \/ StoresPath(s)
    BY <1>a, <2>1 DEF Camouflage, Unauthorized, Checks, ChangesPassword, EndsSession, StoresPath
  <2>2. CASE CreatesSession(s)
    BY <1>k, <2>2 DEF CreatesSession, Answer, Request
  <2>3. CASE Reads(s)
    BY <1>b, <2>3 DEF Reads, server
  <2>4. CASE StoresRest(s)
    BY <1>a, <1>b, <2>4 DEF StoresRest
  <2> QED BY <2>1, <2>2, <2>3, <2>4 DEF Serve
<1>3. Settles(s) => IsCarrier(req[s], Tab(s))
  BY CarriersAre DEF Settles
<1>4. ~IsCarrier(req[s], t) => (synced'[t] => synced[t] /\ stored' = stored)
  <2>1. CASE Camouflage(s)
    BY <1>k, <2>1 DEF Camouflage, Doubtful, server
  <2>2. CASE Reads(s)
    BY <1>3, <1>k, <2>2 DEF Reads, Fine, Tab, server
  <2>3. CASE StoresPath(s) \/ StoresRest(s)
    <3>1. req[s].kind = "save"
      BY <2>3 DEF StoresPath, StoresRest
    <3>2. ASSUME t # Tab(s) PROVE synced'[t] => synced[t] /\ stored' = stored
      BY <1>k, <2>3, <3>2 DEF StoresPath, StoresRest, Outdated
    <3> QED BY <3>1, <3>2 DEF IsCarrier, Tab
  <2> QED BY <1>k, <2>1, <2>2, <2>3 DEF Serve, Unauthorized, Checks, CreatesSession, ChangesPassword,
          EndsSession, server, history
<1>5. ASSUME ~IsCarrier(req[s], t) PROVE InStep(t)'
  <2>1. ~IsCarrier(req'[s], t)
    BY <1>2, <1>5 DEF IsCarrier
  <2> QED BY <1>1, <1>2, <1>4, <1>5, <1>t, <2>1, Untouched
<1> SUFFICES ASSUME IsCarrier(req[s], t) PROVE InStep(t)'
  BY <1>5
<1>6. Tab(s) = t /\ req[s].kind \in {"load", "save"}
  BY DEF IsCarrier, Tab
<1>7. \A v \in Slots : IsCarrier(req'[v], t) <=> IsCarrier(req[v], t)
  BY <1>2 DEF IsCarrier
<1>8. CASE Camouflage(s)
  <2>1. ~synced'[t]
    BY <1>8, <1>k, CarriersAre DEF Camouflage, Doubtful
  <2> QED BY <2>1 DEF InStep
<1>9. CASE Answer(s, "failed") /\ Sending(req[s]) /\ stored' = stored /\ (synced'[t] => synced[t])
  BY <1>1, <1>9, <1>a, <1>k, <1>t, Refused
<1>10. CASE Unauthorized(s)
  BY <1>9, <1>10 DEF Unauthorized, Sending, server, history
<1>11. CASE Reads(s)
  <2>1. /\ req'[s].phase = "ok" /\ req'[s].body = Shown(stored') /\ stored' = stored
        /\ req[s].kind = "load" /\ (synced'[t] => synced[t] \/ Settles(s))
    BY <1>6, <1>11, <1>b, <1>k DEF Reads, server
  <2>2. Settles(s) => \A v \in Slots : IsCarrier(req[v], t) => v = s
    BY <1>6, CarriersAre DEF Settles
  <2>3. Shown(stored)' = Shown(stored)
    BY <2>1 DEF Shown
  <2>4. \A v \in Slots \ {s} : Faithful(t, req[v]) => Faithful(t, req[v])'
    BY <1>1, <1>2, <2>1 DEF Faithful, Sending
  <2> QED BY <1>2, <1>7, <1>t, <2>1, <2>2, <2>3, <2>4 DEF InStep
<1>12. CASE StoresPath(s)
  <2>1. req[s].kind = "save" /\ req[s].phase = "sent" /\ (synced'[t] => synced[t])
    BY <1>12, <1>k DEF StoresPath, Outdated
  <2>2. CASE Answer(s, "failed") /\ stored' = stored
    BY <1>9, <2>1, <2>2 DEF Sending
  <2>3. ASSUME Answer(s, "half"), stored' = [stored EXCEPT !.path = PathOf(req[s])], synced[t]
        PROVE  InStep(t)'
    <3>1. stored'.fake = stored.fake /\ stored'.path = PathOf(req[s])
      BY <1>k, <2>3 DEF Settings
    <3>2. Faithful(t, req[s]) /\ \A v \in Slots : IsCarrier(req[v], t) => v = s
      BY <1>t, <2>1, <2>3 DEF InStep
    <3>3. Faithful(t, req[s])'
      BY <1>1, <1>a, <2>1, <2>3, <3>1, <3>2 DEF Faithful, Sending
    <3>4. copy[t].at = "shown" => Agrees(t)'
      <4>1. copy[t].at = "shown" => Agrees(t)
        BY <1>t, <2>1, <2>3, <3>2 DEF InStep
      <4>2. copy[t].at = "shown" /\ "path" \notin edited[t] => req[s].path = stored.path
        BY <2>1, <3>2, <4>1 DEF Faithful, Agrees, Sending
      <4>3. stored.path \in Paths
        BY <1>k DEF Settings
      <4>4. Normal[stored.path] = stored.path /\ stored.path # Absent
        BY <4>3, ConsoleAssumption DEF ConsoleAssumption
      <4> QED BY <1>1, <3>1, <4>1, <4>2, <4>4 DEF Agrees, PathOf
    <3>5. req'[s].phase = "half"
      BY <1>a, <2>3
    <3> QED BY <1>1, <1>7, <3>2, <3>3, <3>4, <3>5 DEF InStep
  <2> QED BY <1>12, <2>1, <2>2, <2>3 DEF StoresPath, InStep
<1>13. CASE StoresRest(s)
  <2>1. req[s].kind = "save" /\ req[s].phase = "half"
    BY <1>13 DEF StoresRest
  <2>2. CASE Answer(s, "failed") /\ UNCHANGED <<stored, synced>>
    BY <1>9, <2>1, <2>2 DEF Sending
  <2>3. ASSUME req' = [req EXCEPT ![s].phase = "ok", ![s].body = Shown(stored')],
               synced[t] \/ Settles(s)
        PROVE  InStep(t)'
    <3>1. /\ req'[s].phase = "ok" /\ req'[s].body = Shown(stored') /\ req'[s].page = req[s].page
      BY <1>b, <2>3
    <3>2. Shown(stored') = Shown(stored)'
      BY DEF Shown
    <3>3. \A v \in Slots : IsCarrier(req[v], t) => v = s
      BY <1>6, <1>t, <2>1, <2>3, CarriersAre DEF InStep, Settles
    <3>4. req[s].page # "here" => copy[t].at # "shown"
      BY <1>6, <1>t, <2>1, <2>3 DEF InStep, Settles, Faithful
    <3>5. Faithful(t, req[s])'
      BY <1>1, <3>1, <3>4 DEF Faithful, Sending
    <3> QED BY <1>7, <3>1, <3>2, <3>3, <3>5 DEF InStep
  <2>4. synced'[t] => synced[t] \/ Settles(s)
    BY <1>6, <1>13, <1>k DEF StoresRest, Outdated
  <2> QED BY <1>13, <2>2, <2>3, <2>4 DEF StoresRest, InStep
<1> QED BY <1>6, <1>8, <1>10, <1>11, <1>12, <1>13 DEF Serve, Checks, CreatesSession, ChangesPassword,
        EndsSession

LEMMA ReceiveCopy ==
    ASSUME CopyInv, NEW s \in Slots, Receive(s), NEW t \in Tabs
    PROVE  InStep(t)'
<1>t. TypeOK /\ ServerTypes /\ TabTypes /\ OtherTypes /\ ReqTypes /\ InStep(t)
  BY TypesSplit DEF CopyInv
<1>k. /\ req \in [Slots -> Request] /\ req[s] \in Request /\ Fine(req[s])
      /\ copy \in [Tabs -> Copy] /\ edited \in [Tabs -> SUBSET {"path", "fake"}]
      /\ synced \in [Tabs -> BOOLEAN] /\ stored \in Settings
  BY <1>t DEF ReqTypes, TabTypes, OtherTypes, ServerTypes
<1>u. Tab(s) \in Tabs /\ req[s].tab = Tab(s)
  BY <1>k DEF Receive, KnowsMe, LoginAnswered, LogoutAnswered, LoadAnswered, SaveAnswered,
              SaveRedirects, AdminAnswered, ShowsError, Forget, Heard, Answered, Fine, Tab
<1>1. stored' = stored /\ (synced'[t] => synced[t])
  BY <1>k, <1>u DEF Receive, KnowsMe, LoginAnswered, LogoutAnswered, LoadAnswered, SaveAnswered,
              SaveRedirects, AdminAnswered, ShowsError, Forget, server, history
<1>2. Tab(s) # t => copy'[t] = copy[t] /\ edited'[t] = edited[t]
  BY <1>k DEF Receive, KnowsMe, LoginAnswered, LogoutAnswered, LoadAnswered, SaveAnswered,
              SaveRedirects, AdminAnswered, ShowsError, Forget, Adopt, Mount, page
<1>d. Done(s) => ~IsCarrier(req'[s], t) /\ \A v \in Slots \ {s} : req'[v] = req[v]
  BY <1>k, IdleRequest DEF Done, IsCarrier
<1>a. New(Ask(Tab(s), "load"), Tab(s), "load") /\ New(Ask(Tab(s), "me"), Tab(s), "me")
  BY <1>t, <1>u, AskNew DEF Kinds
<1>3. ASSUME Done(s), copy'[t] = copy[t] /\ edited'[t] = edited[t],
             synced[t] /\ IsCarrier(req[s], t) => req[s].phase # "ok" \/ copy[t].at # "shown"
      PROVE  InStep(t)'
  BY <1>1, <1>3, <1>d, <1>t, Dropped
<1>4. CASE KnowsMe(s) \/ LoginAnswered(s) \/ ShowsError(s)
  BY <1>3, <1>4 DEF KnowsMe, LoginAnswered, ShowsError, page, IsCarrier
<1>5. CASE Forget(s)
  <2>1. synced[t] /\ IsCarrier(req[s], t) => copy[t].at # "shown"
    BY <1>5, <1>t DEF Forget, IsCarrier, InStep, Faithful
  <2> QED BY <1>3, <1>5, <2>1 DEF Forget, page
<1>6. ASSUME Done(s), Adopt(s), Reached(s), req[s].kind \in {"load", "save"} PROVE InStep(t)'
  <2>1. CASE req[s].page # "here" \/ Tab(s) # t
    <3>1. copy'[t] = copy[t] /\ edited'[t] = edited[t]
      BY <1>2, <1>6, <2>1 DEF Adopt
    <3>2. synced[t] /\ IsCarrier(req[s], t) => copy[t].at # "shown"
      BY <1>6, <1>t, <1>u, <2>1 DEF IsCarrier, InStep, Faithful
    <3> QED BY <1>3, <1>6, <3>1, <3>2
  <2>2. CASE req[s].page = "here" /\ Tab(s) = t
    <3>1. IsCarrier(req[s], t)
      BY <1>6, <1>u, <2>2 DEF IsCarrier
    <3>2. req[s].phase = "ok" => copy'[t] = req[s].body
      BY <1>6, <1>k, <2>2 DEF Adopt
    <3> QED BY <1>1, <1>6, <1>d, <1>k, <1>t, <3>1, <3>2, Adopted DEF Reached
  <2> QED BY <2>1, <2>2
<1>7. CASE LoadAnswered(s) \/ SaveAnswered(s)
  BY <1>6, <1>7 DEF LoadAnswered, SaveAnswered
<1>8. ASSUME ~IsCarrier(req'[s], t), Tab(s) = t => copy'[t].at # "shown",
             \A v \in Slots \ {s} : req'[v] = Gone(Tab(s))[v] \/ req'[v] = Left(Tab(s))[v]
      PROVE  InStep(t)'
  <2>1. \A v \in Slots \ {s} : /\ SameButPage(req'[v], req[v])
                               /\ req[v].tab = Tab(s) => req'[v].page # "here"
                               /\ req[v].tab # Tab(s) => req'[v] = req[v]
    BY <1>8, <1>t, <1>u, GoneTypes
  <2>2. CASE Tab(s) = t
    <3>1. \A v \in Slots : IsCarrier(req'[v], t) =>
             IsCarrier(req[v], t) /\ SameButPage(req'[v], req[v]) /\ req'[v].page # "here"
      <4>1. \A v \in Slots \ {s} : IsCarrier(req'[v], t) =>
               IsCarrier(req[v], t) /\ SameButPage(req'[v], req[v]) /\ req'[v].page # "here"
        BY <2>1, <2>2 DEF IsCarrier, SameButPage
      <4> QED BY <1>8, <4>1
    <3> QED BY <1>1, <1>8, <1>t, <2>2, <3>1, Blanked
  <2>3. CASE Tab(s) # t
    <3>1. \A v \in Slots : req'[v] = req[v] \/ (~IsCarrier(req[v], t) /\ ~IsCarrier(req'[v], t))
      <4>1. ~IsCarrier(req[s], t)
        BY <1>u, <2>3 DEF IsCarrier
      <4>2. \A v \in Slots \ {s} : \/ req'[v] = req[v]
                                   \/ ~IsCarrier(req[v], t) /\ ~IsCarrier(req'[v], t)
        BY <2>1, <2>3 DEF IsCarrier, SameButPage
      <4> QED BY <1>8, <4>1, <4>2
    <3> QED BY <1>1, <1>2, <1>t, <2>3, <3>1, Untouched
  <2> QED BY <2>2, <2>3
<1>9. CASE LogoutAnswered(s)
  <2>1. CASE Reached(s)
    <3>1. req' = [Left(Tab(s)) EXCEPT ![s] = Idle] /\ copy' = [copy EXCEPT ![Tab(s)] = Away]
      BY <1>9, <2>1 DEF LogoutAnswered
    <3>2. Tab(s) = t => copy'[t].at # "shown"
      BY <1>k, <3>1, Values
    <3>3. ~IsCarrier(req'[s], t) /\ \A v \in Slots \ {s} : req'[v] = Left(Tab(s))[v]
      BY <1>t, <1>u, <3>1, GoneTypes, IdleRequest DEF IsCarrier
    <3> QED BY <1>8, <3>2, <3>3
  <2>2. CASE ~Reached(s)
    BY <1>3, <1>9, <2>2 DEF LogoutAnswered, IsCarrier
  <2> QED BY <2>1, <2>2
<1>10. CASE SaveRedirects(s)
  <2>1. copy' = [copy EXCEPT ![Tab(s)] = Away]
    BY <1>10 DEF SaveRedirects, Mount
  <2>2. Tab(s) = t => copy'[t].at # "shown"
    BY <1>k, <2>1, Values
  <2>3. [Ask(Tab(s), "me") EXCEPT !.url = stored.path].kind = "me" /\ Idle.kind = "none"
    BY <1>a, IdleRequest DEF New, Request
  <2>4. \/ req' = [Gone(Tab(s)) EXCEPT ![s] = [Ask(Tab(s), "me") EXCEPT !.url = stored.path]]
        \/ req' = [Gone(Tab(s)) EXCEPT ![s] = Idle]
    BY <1>10 DEF SaveRedirects, Mount
  <2>5. ~IsCarrier(req'[s], t) /\ \A v \in Slots \ {s} : req'[v] = Gone(Tab(s))[v]
    BY <1>t, <1>u, <2>3, <2>4, GoneTypes DEF IsCarrier
  <2> QED BY <1>8, <2>2, <2>5
<1>11. CASE AdminAnswered(s)
  <2>1. /\ req'[s].kind = "load" /\ req'[s].tab = Tab(s) /\ req'[s].phase = "sent"
        /\ req'[s].page = req[s].page /\ \A v \in Slots \ {s} : req'[v] = req[v]
    <3>1. req'[s] = [Ask(Tab(s), "load") EXCEPT !.page = req[s].page]
          /\ \A v \in Slots \ {s} : req'[v] = req[v]
      BY <1>11, <1>k DEF AdminAnswered
    <3> QED BY <1>a, <3>1 DEF New, Request
  <2>2. ~IsCarrier(req[s], t) /\ copy' = copy /\ edited' = edited
    BY <1>11 DEF AdminAnswered, IsCarrier, page
  <2>3. CASE IsCarrier(req'[s], t)
    <3>1. Tab(s) = t /\ req[s].page = "here"
      BY <2>1, <2>3 DEF IsCarrier
    <3>2. synced'[t] => ~Meets(t, "load")
      BY <1>11, <1>k, <3>1 DEF AdminAnswered
    <3>3. synced'[t] => \A v \in Slots : IsCarrier(req[v], t) => req[v].kind # "save"
      BY <3>2, CarriersAre DEF Meets
    <3> QED BY <1>1, <1>t, <2>1, <2>2, <3>3, LoadSent
  <2>4. CASE ~IsCarrier(req'[s], t)
    BY <1>1, <1>t, <2>1, <2>2, <2>4, Untouched
  <2> QED BY <2>3, <2>4
<1> QED BY <1>4, <1>5, <1>7, <1>9, <1>10, <1>11 DEF Receive

LEMMA StepCopy == CopyInv /\ [Next]_vars => CopyInv'
<1> SUFFICES ASSUME CopyInv, [Next]_vars, NEW t \in Tabs PROVE InStep(t)'
  BY StepTypes DEF CopyInv
<1>t. TypeOK /\ InStep(t) /\ synced \in [Tabs -> BOOLEAN] /\ req \in [Slots -> Request]
  BY DEF CopyInv, TypeOK
<1>1. ASSUME NEW s \in Slots, Lose(s) PROVE InStep(t)'
  <2>1. UNCHANGED <<stored, copy, edited>> /\ (synced'[t] => synced[t] /\ ~IsCarrier(req[s], t))
    BY <1>1, <1>t, CarriersAre DEF Lose, Doubtful, server, page
  <2>2. /\ \A v \in Slots \ {s} : req'[v] = req[v]
        /\ req'[s].kind = req[s].kind /\ req'[s].tab = req[s].tab /\ req'[s].page = req[s].page
    BY <1>1, <1>t DEF Lose, Answer, Request
  <2>3. CASE ~IsCarrier(req[s], t)
    <3>1. ~IsCarrier(req'[s], t)
      BY <2>2, <2>3 DEF IsCarrier
    <3> QED BY <1>t, <2>1, <2>2, <2>3, <3>1, Untouched
  <2>4. CASE IsCarrier(req[s], t)
    BY <2>1, <2>4 DEF InStep
  <2> QED BY <2>3, <2>4
<1>2. CASE ResetAdmin \/ Expires \/ UNCHANGED vars
  <2>1. UNCHANGED <<stored, req, copy, edited, synced>>
    BY <1>2 DEF ResetAdmin, SetsPassword, DropsSessions, Expires, vars, server, page, history
  <2> QED BY <1>t, <2>1, Untouched
<1>3. CASE Elsewhere
  <2>1. ~synced'[t]
    BY <1>3 DEF Elsewhere
  <2> QED BY <2>1 DEF InStep
<1> QED BY <1>1, <1>2, <1>3, ClickCopy, ServeCopy, ReceiveCopy DEF Next

(* load, saveSettings and putSettings: a page with nothing typed and no load or    *)
(* save under way shows what is stored, whatever was refused half way, redirected   *)
(* or lost, and however many other requests overlap, from the moment that a load or  *)
(* a save of the tab has run alone until nobody else saves and no save of the tab     *)
(* meets another or a load.                                                            *)
THEOREM CopyAlwaysShowsStored == Spec => []CopyShowsStored
<1>1. CopyInv => CopyShowsStored
  <2> SUFFICES ASSUME CopyInv, NEW t \in Tabs, synced[t], Carriers(t) = {}, edited[t] = {},
                      copy[t].at = "shown"
               PROVE  copy[t] = Shown(stored)
    BY DEF CopyShowsStored
  <2>1. copy[t].path = stored.path /\ copy[t].fake = stored.fake
    BY CarriersAre DEF CopyInv, InStep, Agrees
  <2>2. copy[t] \in Copy
    BY DEF CopyInv, TypeOK
  <2> QED BY <2>1, <2>2 DEF Shown, Copy
<1> QED BY <1>1, InitCopy, StepCopy, PTL DEF Spec

(* putSettings rotates the secrets of all users on a new fake domain: a save of a   *)
(* tab that is in step never does so unless it was told to or a fake domain was       *)
(* typed.  A tab is out of step while somebody else has saved, or while the save has   *)
(* met another load or save of the tab, until one of them runs alone.                   *)
THEOREM NeverRotatesUnasked == Spec => RotatesOnlyWhenAsked
<1>1. CopyInv /\ [Next]_vars =>
          [secrets' # secrets =>
              \A s \in Slots :
                  (req[s].kind = "save" /\ req'[s] # req[s]) =>
                      (req[s].asked \/ ~synced[req[s].tab])]_vars
  <2> SUFFICES ASSUME CopyInv, Next, secrets' # secrets, NEW s \in Slots, req[s].kind = "save",
                      req'[s] # req[s], ~req[s].asked, synced[req[s].tab]
               PROVE  FALSE
    OBVIOUS
  <2>1. (\E u \in Slots : StoresRest(u)) \/ Elsewhere
    BY DEF Next, Clicks, Visit, SignIn, ClickLogout, OpenSettings, LeaveSettings, Type, ClickSave,
           ClickAdmin, Serve, Camouflage, Unauthorized, Reads, Checks, CreatesSession, ChangesPassword,
           EndsSession, StoresPath, Receive, KnowsMe, LoginAnswered, LogoutAnswered, LoadAnswered,
           SaveAnswered, SaveRedirects, AdminAnswered, ShowsError, Forget, Lose, ResetAdmin,
           SetsPassword, DropsSessions, Expires, server
  <2>2. req \in [Slots -> Request] /\ Fine(req[s])
    BY TypesSplit DEF CopyInv, ReqTypes
  <2>3. StoresRest(s)
    BY <2>1, <2>2 DEF Elsewhere, StoresRest, Answer
  <2>4. Rotates(req[s]) /\ req[s].phase = "half"
    BY <2>3 DEF StoresRest
  <2>5. req[s].tab \in Tabs /\ IsCarrier(req[s], req[s].tab)
    BY <2>2 DEF Fine, IsCarrier
  <2> QED BY <2>4, <2>5 DEF CopyInv, InStep, Faithful, Sending, Rotates
<1> QED BY <1>1, InitCopy, StepCopy, PTL DEF Spec, RotatesOnlyWhenAsked
===============================================================================
