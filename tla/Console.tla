-------------------------------- MODULE Console --------------------------------
(***************************************************************************)
(* The browser tabs of the administrator against the panel's account and     *)
(* settings: App, Login, Layout and SettingsPage of web/src with lib/api.ts,  *)
(* the handlers login, logout, me, putAdmin, getSettings and putSettings of   *)
(* internal/api/server.go, the sessions of internal/store/store.go and the    *)
(* command reset-admin.                                                        *)
(*                                                                             *)
(* A tab calls the API below the path its page was loaded from.  When the      *)
(* administrator's path has changed since, the ingress answers with the page   *)
(* of a harmless website and status 200, and api.ts returns its text as if it  *)
(* were the answer.                                                            *)
(*                                                                             *)
(* No button waits for an answer.  A tab may have several requests under way,  *)
(* and their answers come in any order: a load that was read before a save was *)
(* stored may be shown after the save's own answer, and what the page then      *)
(* holds, and sends with the next save, is old.                                 *)
(***************************************************************************)
EXTENDS Integers

CONSTANTS
    Tabs,       \* browser tabs, which share one cookie jar
    Paths,      \* administrator's paths in normal form
    Typing,     \* what is typed into the field of the path
    Normal,     \* normalizeSecretPath of it
    Fakes,      \* fake TLS domains of Telegram that pass validation
    Invalid,    \* a path or a fake domain that does not
    Absent,     \* a field that is not there
    MaxUnderWay,\* bound on the requests under way at once
    MaxToken,   \* bound on the sessions that are created
    MaxPw,      \* bound on the passwords that are set
    MaxClicks,  \* bound on the clicks that send something
    MaxOdd      \* bound on what is lost, expires or happens elsewhere

ASSUME ConsoleAssumption ==
    /\ Paths \subseteq Typing /\ Normal \in [Typing -> Paths \cup {Invalid}]
    /\ \A p \in Paths : Normal[p] = p
    /\ Invalid \notin Paths \cup Fakes
    /\ Absent \notin Typing \cup Fakes \cup {Invalid} /\ Absent \notin Tabs
    /\ MaxUnderWay \in Nat \ {0} /\ MaxToken \in Nat \ {0} /\ MaxPw \in Nat \ {0}
    /\ MaxClicks \in Nat /\ MaxOdd \in Nat

Slots == 1..MaxUnderWay
Tokens == 1..MaxToken
NoToken == 0

VARIABLES
    stored,     \* the settings: admin_path and telegram_fake_domain
    secrets,    \* how often the users' Telegram secrets were rotated
    pw,         \* the password in force, by the number of its change
    sessions,   \* for each token the password its login gave; 0 when gone
    issued,     \* the token that was given out last
    cli,        \* where reset-admin is
    base,       \* for each tab the path its page was loaded from
    authed,     \* its authed: null ("unknown"), TRUE ("in"), FALSE ("out")
    busy,       \* its login form's busy
    copy,       \* its settings page, and the s it keeps
    req,        \* the requests under way
    cookie,     \* the browser's soooski_session
    clicks,     \* bound
    odd,        \* bound
    resetPw,    \* history: the password that reset-admin set last
    root,       \* history: the password by which the one in force was set
    late,       \* history: a password was being checked when that reset began
    synced,     \* history: the tab read the settings alone, nobody else changed them
    edited      \* history: what was typed since the tab's copy was replaced

server == <<stored, secrets, pw, sessions, issued>>
page == <<base, authed, busy, copy>>
history == <<resetPw, root, late, synced>>
vars == <<server, cli, page, req, cookie, clicks, odd, history, edited>>

Settings == [path : Paths, fake : Fakes]
Copy == [at : {"away", "loading", "shown"}, path : Typing \cup {Absent},
         fake : Fakes \cup {Invalid, Absent}]
Kinds == {"none", "me", "login", "logout", "load", "save", "admin"}
(* `half`: between two statements of the handler; `html`: the other website.     *)
(* `page`: the settings page that sent it is still there, was left, or its whole  *)
(* document is gone.                                                               *)
Request == [kind : Kinds, tab : Tabs \cup {Absent}, url : Paths \cup {Absent},
            page : {"here", "left", "gone"},
            phase : {"sent", "half", "ok", "html", "failed"},
            token : {NoToken} \cup Tokens, pw : 0..MaxPw,
            path : Typing \cup {Absent}, fake : Fakes \cup {Invalid, Absent},
            regen : BOOLEAN, asked : BOOLEAN, body : Copy]

TypeOK ==
    /\ stored \in Settings /\ secrets \in Nat
    /\ pw \in 1..MaxPw /\ sessions \in [Tokens -> 0..MaxPw] /\ issued \in {NoToken} \cup Tokens
    /\ cli \in {"idle", "updated"}
    /\ base \in [Tabs -> Paths] /\ authed \in [Tabs -> {"gone", "unknown", "in", "out"}]
    /\ busy \in [Tabs -> BOOLEAN] /\ copy \in [Tabs -> Copy] /\ req \in [Slots -> Request]
    /\ cookie \in {NoToken} \cup Tokens
    /\ clicks \in 0..MaxClicks /\ odd \in 0..MaxOdd
    /\ resetPw \in 0..MaxPw /\ root \in 0..MaxPw /\ late \in BOOLEAN
    /\ synced \in [Tabs -> BOOLEAN] /\ edited \in [Tabs -> SUBSET {"path", "fake"}]
    /\ \A s \in Slots : /\ req[s].kind # "none" => req[s].tab \in Tabs /\ req[s].url \in Paths
                        /\ req[s].kind = "save" /\ req[s].phase = "ok" => req[s].body.path \in Paths

Away == [at |-> "away", path |-> Absent, fake |-> Absent]
Loading == [Away EXCEPT !.at = "loading"]
(* A string where the settings should be: it has none of their fields. *)
Junk == [Away EXCEPT !.at = "shown"]
Shown(st) == [at |-> "shown", path |-> st.path, fake |-> st.fake]

Idle == [kind |-> "none", tab |-> Absent, url |-> Absent, page |-> "here", phase |-> "sent",
         token |-> NoToken, pw |-> 0, path |-> Absent, fake |-> Absent,
         regen |-> FALSE, asked |-> FALSE, body |-> Away]
Ask(t, k) == [Idle EXCEPT !.kind = k, !.tab = t, !.url = base[t], !.token = cookie]

(* What may bring the tab's page new contents, or change what it should show.    *)
Carriers(t) == {s \in Slots : /\ req[s].tab = t
                              /\ \/ req[s].kind = "save"
                                 \/ req[s].kind = "load" /\ req[s].page = "here"}
(* A save meets another load or save of its tab: no telling which answer is last. *)
Meets(t, k) == \E s \in Carriers(t) : "save" \in {k, req[s].kind}

(* A tab is being opened, by somebody who may still be logged in. *)
Init ==
    /\ stored \in Settings /\ secrets = 0 /\ pw = 1 /\ cli = "idle"
    /\ issued \in {NoToken, 1}
    /\ sessions = [k \in Tokens |-> IF k = issued THEN 1 ELSE 0]
    /\ cookie = issued
    /\ base = [t \in Tabs |-> stored.path]
    /\ \E t \in Tabs :
          /\ authed = [u \in Tabs |-> IF u = t THEN "unknown" ELSE "gone"]
          /\ req = [s \in Slots |-> IF s = 1 THEN Ask(t, "me") ELSE Idle]
    /\ busy = [t \in Tabs |-> FALSE] /\ copy = [t \in Tabs |-> Away]
    /\ clicks = 0 /\ odd = 0
    /\ resetPw = 0 /\ root = 0 /\ late = FALSE
    /\ synced = [t \in Tabs |-> FALSE] /\ edited = [t \in Tabs |-> {}]

-------------------------------------------------------------------------------
(* What the administrator does in a tab. *)
Click == clicks < MaxClicks /\ clicks' = clicks + 1
Inside(t) == authed[t] = "in"
Free == {s \in Slots : req[s].kind = "none"}
Send(r) == \E s \in Free : /\ \A u \in Free : s <= u
                           /\ req' = [req EXCEPT ![s] = r]
SendCarrier(t, r) ==
    /\ Send(r)
    /\ synced' = [synced EXCEPT ![t] = @ /\ ~Meets(t, r.kind)]
    /\ UNCHANGED <<resetPw, root, late>>

(* The page is loaded from path p: everything it kept is gone, it asks who it is, *)
(* and nothing will listen to what the old one had asked.                          *)
Gone(t) == [s \in Slots |-> IF req[s].tab = t THEN [req[s] EXCEPT !.page = "gone"] ELSE req[s]]
Left(t) == [s \in Slots |-> IF req[s].tab = t /\ req[s].page = "here"
                            THEN [req[s] EXCEPT !.page = "left"] ELSE req[s]]
Mount(t, p, s) ==
    /\ base' = [base EXCEPT ![t] = p]
    /\ authed' = [authed EXCEPT ![t] = "unknown"]
    /\ busy' = [busy EXCEPT ![t] = FALSE]
    /\ copy' = [copy EXCEPT ![t] = Away]
    /\ req' = [Gone(t) EXCEPT ![s] = [Ask(t, "me") EXCEPT !.url = p]]
    /\ edited' = [edited EXCEPT ![t] = {}]

Visit(t) ==
    /\ Click
    /\ \E s \in Free : (\A u \in Free : s <= u) /\ Mount(t, stored.path, s)
    /\ UNCHANGED <<server, cli, cookie, odd, history>>

SignIn(t, p) ==
    /\ Click /\ authed[t] = "out" /\ ~busy[t]
    /\ busy' = [busy EXCEPT ![t] = TRUE]
    /\ Send([Ask(t, "login") EXCEPT !.pw = p])
    /\ UNCHANGED <<server, cli, base, authed, copy, cookie, odd, history, edited>>

ClickLogout(t) ==
    /\ Click /\ Inside(t) /\ Send(Ask(t, "logout"))
    /\ UNCHANGED <<server, cli, page, cookie, odd, history, edited>>

(* The hash of the location chooses the page; only the settings are looked at.  *)
OpenSettings(t) ==
    /\ Click /\ Inside(t) /\ copy[t].at = "away"
    /\ copy' = [copy EXCEPT ![t] = Loading]
    /\ SendCarrier(t, Ask(t, "load"))
    /\ UNCHANGED <<server, cli, base, authed, busy, cookie, odd, edited>>

LeaveSettings(t) ==
    /\ authed[t] = "in" /\ copy[t].at # "away"
    /\ copy' = [copy EXCEPT ![t] = Away]
    /\ req' = Left(t)
    /\ edited' = [edited EXCEPT ![t] = {}]
    /\ UNCHANGED <<server, cli, base, authed, busy, cookie, clicks, odd, history>>

Type(t) ==
    /\ clicks < MaxClicks /\ authed[t] = "in" /\ copy[t].at = "shown"
    /\ \/ /\ \E p \in Typing : copy' = [copy EXCEPT ![t].path = p]
          /\ edited' = [edited EXCEPT ![t] = @ \cup {"path"}]
       \/ /\ \E f \in Fakes \cup {Invalid} : copy' = [copy EXCEPT ![t].fake = f]
          /\ edited' = [edited EXCEPT ![t] = @ \cup {"fake"}]
    /\ UNCHANGED <<server, cli, base, authed, busy, req, cookie, clicks, odd, history>>

(* saveSettings sends the copy, whichever button was clicked. *)
ClickSave(t, again) ==
    /\ Click /\ Inside(t) /\ copy[t].at = "shown"
    /\ SendCarrier(t, [Ask(t, "save") EXCEPT !.path = copy[t].path, !.fake = copy[t].fake,
                                             !.regen = again,
                                             !.asked = again \/ "fake" \in edited[t]])
    /\ UNCHANGED <<server, cli, page, cookie, odd, edited>>

(* A new password, typed twice alike: otherwise nothing is sent. *)
ClickAdmin(t, current) ==
    /\ Click /\ Inside(t) /\ copy[t].at = "shown"
    /\ Send([Ask(t, "admin") EXCEPT !.pw = current])
    /\ UNCHANGED <<server, cli, page, cookie, odd, history, edited>>

-------------------------------------------------------------------------------
(* The API. *)
Answer(s, phase) == req' = [req EXCEPT ![s].phase = phase]
Tab(s) == req[s].tab
Stale(s) == req[s].url # stored.path
LoggedIn(r) == r.token # NoToken /\ sessions[r.token] # 0
(* Somebody else's copy of the settings is old once they change. *)
Outdated(s) == [u \in Tabs |-> synced[u] /\ (u = Tab(s) \/ stored' = stored)]
(* An answer that is not the panel's, or none. *)
Doubtful(s) == [u \in Tabs |-> synced[u] /\ s \notin Carriers(u)]
(* The page that asked will show what is read, and nothing else is under way for it. *)
Settles(s) == Carriers(Tab(s)) = {s} /\ req[s].page = "here"

(* Below another path than the administrator's there is another website. *)
Camouflage(s) ==
    /\ req[s].kind # "none" /\ req[s].phase = "sent" /\ Stale(s)
    /\ Answer(s, "html")
    /\ synced' = Doubtful(s)
    /\ UNCHANGED <<server, cli, page, cookie, clicks, odd, resetPw, root, late, edited>>

Unauthorized(s) ==
    /\ req[s].kind \in {"me", "load", "save", "admin"} /\ req[s].phase = "sent"
    /\ ~Stale(s) /\ ~LoggedIn(req[s])
    /\ Answer(s, "failed")
    /\ UNCHANGED <<server, cli, page, cookie, clicks, odd, history, edited>>

Reads(s) ==
    /\ req[s].kind \in {"me", "load"} /\ req[s].phase = "sent" /\ ~Stale(s) /\ LoggedIn(req[s])
    /\ req' = [req EXCEPT ![s].phase = "ok", ![s].body = Shown(stored)]
    /\ synced' = IF Settles(s) THEN [synced EXCEPT ![Tab(s)] = TRUE] ELSE synced
    /\ UNCHANGED <<server, cli, page, cookie, clicks, odd, resetPw, root, late, edited>>

(* login and putAdmin check a password first ... *)
Checks(s) ==
    /\ req[s].kind \in {"login", "admin"} /\ req[s].phase = "sent" /\ ~Stale(s)
    /\ req[s].kind = "admin" => LoggedIn(req[s])
    /\ Answer(s, IF req[s].pw = pw THEN "half" ELSE "failed")
    /\ UNCHANGED <<server, cli, page, cookie, clicks, odd, history, edited>>

(* ... and then create a session, or fail to, *)
CreatesSession(s) ==
    /\ req[s].kind = "login" /\ req[s].phase = "half"
    /\ \/ /\ issued < MaxToken /\ issued' = issued + 1
          /\ sessions' = [sessions EXCEPT ![issued + 1] = req[s].pw]
          /\ req' = [req EXCEPT ![s].phase = "ok", ![s].token = issued + 1]
       \/ /\ Answer(s, "failed")
          /\ UNCHANGED <<sessions, issued>>
    /\ UNCHANGED <<stored, secrets, pw, cli, page, cookie, clicks, odd, history, edited>>

(* or change the password.  Sessions stay. *)
ChangesPassword(s) ==
    /\ req[s].kind = "admin" /\ req[s].phase = "half"
    /\ \/ /\ pw < MaxPw /\ pw' = pw + 1 /\ root' = req[s].pw
          /\ Answer(s, "ok")
       \/ Answer(s, "failed") /\ UNCHANGED <<pw, root>>
    /\ UNCHANGED <<stored, secrets, sessions, issued, cli, page, cookie, clicks, odd, resetPw, late,
                   synced, edited>>

EndsSession(s) ==
    /\ req[s].kind = "logout" /\ req[s].phase = "sent" /\ ~Stale(s)
    /\ sessions' = [k \in Tokens |-> IF k = req[s].token THEN 0 ELSE sessions[k]]
    /\ Answer(s, "ok")
    /\ UNCHANGED <<stored, secrets, pw, issued, cli, page, cookie, clicks, odd, history, edited>>

(* putSettings stores the path before it looks at the rest, *)
PathAsTyped(r) == IF r.path = Absent THEN stored.path ELSE r.path
PathOf(r) == IF r.path = Absent THEN stored.path ELSE Normal[r.path]
StoresPath(s) ==
    LET r == req[s]
        p == PathOf(r)
    IN  /\ r.kind = "save" /\ r.phase = "sent" /\ ~Stale(s) /\ LoggedIn(r)
        /\ \/ /\ p # Invalid /\ stored' = [stored EXCEPT !.path = p]
              /\ Answer(s, "half")
           \/ /\ p = Invalid /\ UNCHANGED stored
              /\ Answer(s, "failed")
        /\ synced' = Outdated(s)
        /\ UNCHANGED <<secrets, pw, sessions, issued, cli, page, cookie, clicks, odd, resetPw, root,
                       late, edited>>

(* and rotates the users' secrets when it is told to or the fake domain is new.  *)
RotatesWhenSent(r) == r.regen \/ r.fake # Absent
Rotates(r) == r.regen \/ r.fake \notin {Absent, stored.fake}
StoresRest(s) ==
    LET r == req[s]
    IN  /\ r.kind = "save" /\ r.phase = "half"
        /\ \/ /\ r.fake # Invalid
              /\ stored' = [stored EXCEPT !.fake = IF r.fake = Absent THEN @ ELSE r.fake]
              /\ secrets' = IF Rotates(r) THEN secrets + 1 ELSE secrets
              /\ req' = [req EXCEPT ![s].phase = "ok", ![s].body = Shown(stored')]
              /\ synced' = [Outdated(s) EXCEPT ![Tab(s)] = @ \/ Settles(s)]
           \/ /\ r.fake = Invalid
              /\ Answer(s, "failed")
              /\ UNCHANGED <<stored, secrets, synced>>
        /\ UNCHANGED <<pw, sessions, issued, cli, page, cookie, clicks, odd, resetPw, root, late,
                       edited>>

Serve(s) ==
    \/ Camouflage(s) \/ Unauthorized(s) \/ Reads(s) \/ Checks(s) \/ CreatesSession(s)
    \/ ChangesPassword(s) \/ EndsSession(s) \/ StoresPath(s) \/ StoresRest(s)

(* reset-admin, another process: it sets a password and then drops all sessions. *)
SetsPassword ==
    /\ pw < MaxPw /\ pw' = pw + 1
    /\ resetPw' = pw + 1 /\ root' = pw + 1
    /\ late' = \E s \in Slots : req[s].phase = "half" /\ req[s].kind \in {"login", "admin"}
    /\ UNCHANGED sessions
DropsSessions ==
    /\ sessions' = [k \in Tokens |-> 0]
    /\ UNCHANGED <<pw, resetPw, root, late>>

ResetAdminDroppingFirst ==
    /\ \/ cli = "idle" /\ cli' = "updated" /\ Click /\ DropsSessions
       \/ cli = "updated" /\ cli' = "idle" /\ SetsPassword /\ UNCHANGED clicks
    /\ UNCHANGED <<stored, secrets, issued, page, req, cookie, odd, synced, edited>>
ResetAdmin ==
    /\ \/ cli = "idle" /\ cli' = "updated" /\ Click /\ SetsPassword
       \/ cli = "updated" /\ cli' = "idle" /\ DropsSessions /\ UNCHANGED clicks
    /\ UNCHANGED <<stored, secrets, issued, page, req, cookie, odd, synced, edited>>

-------------------------------------------------------------------------------
(* The answers, in the tab.  `Reached` says that api() returned; nothing listens *)
(* any more when the document is gone.                                            *)
Reached(s) == req[s].phase \in {"ok", "html"}
Answered(s) == req[s].kind # "none" /\ req[s].phase \in {"ok", "html", "failed"}
Heard(s) == Answered(s) /\ req[s].page # "gone"
Done(s) == req' = [req EXCEPT ![s] = Idle]
CookieAfter(r) == CASE r.kind = "login" /\ r.phase = "ok" -> r.token
                    [] r.kind = "logout" /\ r.phase = "ok" -> NoToken
                    [] OTHER -> cookie

KnowsMeOrWaits(s) ==
    /\ req[s].kind = "me" /\ Heard(s)
    /\ authed' = [authed EXCEPT ![Tab(s)] = IF Reached(s) THEN "in" ELSE "unknown"]
    /\ Done(s)
    /\ UNCHANGED <<server, cli, base, busy, copy, cookie, clicks, odd, history, edited>>
KnowsMe(s) ==
    /\ req[s].kind = "me" /\ Heard(s)
    /\ authed' = [authed EXCEPT ![Tab(s)] = IF Reached(s) THEN "in" ELSE "out"]
    /\ Done(s)
    /\ UNCHANGED <<server, cli, base, busy, copy, cookie, clicks, odd, history, edited>>

LoginStayingBusy(s) ==
    /\ req[s].kind = "login" /\ Heard(s)
    /\ authed' = [authed EXCEPT ![Tab(s)] = IF Reached(s) THEN "in" ELSE @]
    /\ cookie' = CookieAfter(req[s])
    /\ busy' = [busy EXCEPT ![Tab(s)] = ~Reached(s)]
    /\ Done(s)
    /\ UNCHANGED <<server, cli, base, copy, clicks, odd, history, edited>>
LoginAnswered(s) ==
    /\ req[s].kind = "login" /\ Heard(s)
    /\ authed' = [authed EXCEPT ![Tab(s)] = IF Reached(s) THEN "in" ELSE @]
    /\ cookie' = CookieAfter(req[s])
    /\ busy' = [busy EXCEPT ![Tab(s)] = FALSE]
    /\ Done(s)
    /\ UNCHANGED <<server, cli, base, copy, clicks, odd, history, edited>>

(* Reached, it takes the settings page away. *)
LogoutAnswered(s) ==
    /\ req[s].kind = "logout" /\ Heard(s)
    /\ cookie' = CookieAfter(req[s])
    /\ \/ /\ Reached(s)
          /\ authed' = [authed EXCEPT ![Tab(s)] = "out"]
          /\ copy' = [copy EXCEPT ![Tab(s)] = Away]
          /\ edited' = [edited EXCEPT ![Tab(s)] = {}]
          /\ req' = [Left(Tab(s)) EXCEPT ![s] = Idle]
       \/ /\ ~Reached(s) /\ Done(s)
          /\ UNCHANGED <<authed, copy, edited>>
    /\ UNCHANGED <<server, cli, base, busy, clicks, odd, history>>

(* What came replaces the copy of a page that is still there, edits and all.     *)
Adopt(s) ==
    IF req[s].page = "here"
    THEN /\ copy' = [copy EXCEPT ![Tab(s)] = IF req[s].phase = "ok" THEN req[s].body ELSE Junk]
         /\ edited' = [edited EXCEPT ![Tab(s)] = {}]
    ELSE UNCHANGED <<copy, edited>>

LoadShownOnce(s) ==
    /\ req[s].kind = "load" /\ Heard(s) /\ Reached(s)
    /\ IF copy[Tab(s)] = Loading THEN Adopt(s) ELSE UNCHANGED <<copy, edited>>
    /\ Done(s)
    /\ UNCHANGED <<server, cli, base, authed, busy, cookie, clicks, odd, history>>
LoadAnswered(s) ==
    /\ req[s].kind = "load" /\ Heard(s) /\ Reached(s) /\ Adopt(s)
    /\ Done(s)
    /\ UNCHANGED <<server, cli, base, authed, busy, cookie, clicks, odd, history>>

(* saveSettings compares what the panel stored with what the tab had sent, and    *)
(* not with where the tab is.                                                      *)
Moved(r) == r.phase = "ok" /\ r.body.path # r.path

SaveAnswered(s) ==
    /\ req[s].kind = "save" /\ Heard(s) /\ Reached(s) /\ ~Moved(req[s]) /\ Adopt(s)
    /\ Done(s)
    /\ UNCHANGED <<server, cli, base, authed, busy, cookie, clicks, odd, history>>

(* The browser goes to the new path, even when the page was left meanwhile; if     *)
(* that has changed again there is no panel.                                        *)
SaveRedirects(s) ==
    /\ req[s].kind = "save" /\ Heard(s) /\ Moved(req[s])
    /\ \/ req[s].body.path = stored.path /\ Mount(Tab(s), stored.path, s)
       \/ /\ req[s].body.path # stored.path
          /\ base' = [base EXCEPT ![Tab(s)] = req[s].body.path]
          /\ authed' = [authed EXCEPT ![Tab(s)] = "gone"]
          /\ copy' = [copy EXCEPT ![Tab(s)] = Away]
          /\ edited' = [edited EXCEPT ![Tab(s)] = {}]
          /\ req' = [Gone(Tab(s)) EXCEPT ![s] = Idle] /\ UNCHANGED busy
    /\ UNCHANGED <<server, cli, cookie, clicks, odd, history>>

(* A new password is followed by a load. *)
AdminAnswered(s) ==
    /\ req[s].kind = "admin" /\ Heard(s) /\ Reached(s)
    /\ req' = [req EXCEPT ![s] = [Ask(Tab(s), "load") EXCEPT !.page = req[s].page]]
    /\ synced' = [synced EXCEPT ![Tab(s)] = @ /\ (req[s].page = "here" => ~Meets(Tab(s), "load"))]
    /\ UNCHANGED <<server, cli, page, cookie, clicks, odd, resetPw, root, late, edited>>

(* An error is shown and nothing else changes. *)
ShowsError(s) ==
    /\ req[s].kind \in {"load", "save", "admin"} /\ req[s].phase = "failed" /\ Heard(s)
    /\ Done(s)
    /\ UNCHANGED <<server, cli, page, cookie, clicks, odd, history, edited>>

(* The browser may still take the cookie of an answer that nothing listens to.    *)
Forget(s) ==
    /\ Answered(s) /\ req[s].page = "gone"
    /\ cookie' \in {cookie, CookieAfter(req[s])}
    /\ Done(s)
    /\ UNCHANGED <<server, cli, page, clicks, odd, history, edited>>

Receive(s) ==
    \/ KnowsMe(s) \/ LoginAnswered(s) \/ LogoutAnswered(s) \/ LoadAnswered(s)
    \/ SaveAnswered(s) \/ SaveRedirects(s) \/ AdminAnswered(s) \/ ShowsError(s) \/ Forget(s)

(* fetch rejects: the request or its answer is lost. *)
Lose(s) ==
    /\ odd < MaxOdd /\ odd' = odd + 1
    /\ req[s].kind # "none" /\ req[s].phase \in {"sent", "ok"}
    /\ Answer(s, "failed")
    /\ synced' = Doubtful(s)
    /\ UNCHANGED <<server, cli, page, cookie, clicks, resetPw, root, late, edited>>

(* Seven days pass for a session. *)
Expires ==
    /\ odd < MaxOdd /\ odd' = odd + 1
    /\ \E k \in Tokens : sessions[k] # 0 /\ sessions' = [sessions EXCEPT ![k] = 0]
    /\ UNCHANGED <<stored, secrets, pw, issued, cli, page, req, cookie, clicks, history, edited>>

(* Another browser saves the settings. *)
Elsewhere ==
    /\ odd < MaxOdd /\ odd' = odd + 1
    /\ \E st \in Settings \ {stored} :
          /\ stored' = st
          /\ secrets' = IF st.fake = stored.fake THEN secrets ELSE secrets + 1
    /\ synced' = [t \in Tabs |-> FALSE]
    /\ UNCHANGED <<pw, sessions, issued, cli, page, req, cookie, clicks, resetPw, root, late,
                   edited>>

-------------------------------------------------------------------------------
Clicks(t) ==
    \/ Visit(t) \/ ClickLogout(t) \/ OpenSettings(t) \/ LeaveSettings(t) \/ Type(t)
    \/ \E p \in 1..MaxPw : SignIn(t, p) \/ ClickAdmin(t, p)
    \/ \E again \in BOOLEAN : ClickSave(t, again)

Next ==
    \/ \E t \in Tabs : Clicks(t)
    \/ \E s \in Slots : Serve(s) \/ Receive(s) \/ Lose(s)
    \/ ResetAdmin \/ Expires \/ Elsewhere

(* Requests are served and answered; nobody has to click. *)
Fairness == \A s \in Slots : WF_vars(Serve(s) \/ Receive(s))

Spec == Init /\ [][Next]_vars
FairSpec == Spec /\ Fairness

-------------------------------------------------------------------------------
(* reset-admin evicts: unless a password was being checked while it began, no    *)
(* session of an older login and no password that was set with an older one is   *)
(* left once it has run.                                                          *)
ResetEvicts ==
    (cli = "idle" /\ ~late) =>
        /\ root >= resetPw
        /\ \A k \in Tokens : sessions[k] # 0 => sessions[k] >= resetPw

(* A settings page with nothing typed and no load or save under way shows what    *)
(* the panel stores, through saves that were refused half way, redirects, pages     *)
(* left and opened again and passwords changed in between, since it was last read   *)
(* with no other load or save of the tab under way and as long as nobody else        *)
(* changed it.  After a save overlapped another of them the page may be old.         *)
CopyShowsStored ==
    \A t \in Tabs :
        (synced[t] /\ Carriers(t) = {} /\ edited[t] = {} /\ copy[t].at = "shown") =>
            copy[t] = Shown(stored)

(* The users' Telegram links stop working only when the administrator asked for   *)
(* it or typed a fake domain; a tab whose copy somebody else outdated, or in which  *)
(* a save overlapped a load or another save, is beyond help: its next save of        *)
(* anything may put an old fake domain back.                                          *)
RotatesOnlyWhenAsked ==
    [][secrets' # secrets =>
          \A s \in Slots :
              (req[s].kind = "save" /\ req'[s] # req[s]) =>
                  (req[s].asked \/ ~synced[req[s].tab])]_vars

(* A tab does not stay blank, and its login form can be used again, whatever is   *)
(* lost and whoever answers.                                                        *)
TabDecides == \A t \in Tabs : authed[t] = "unknown" ~> authed[t] # "unknown"
LoginReleased == \A t \in Tabs : busy[t] ~> ~busy[t]

(* Settings.tsx says that changing the admin path logs you into the new URL: a    *)
(* tab that hears that the path is another now goes there.                          *)
LogsIntoNewURL ==
    [][\A s \in Slots :
          (/\ req[s].kind = "save" /\ req[s].phase = "ok" /\ req[s].page # "gone"
           /\ req'[s].kind # "save") =>
              base'[req[s].tab] = req[s].body.path]_vars
===============================================================================
