--------------------------------- MODULE Pages ---------------------------------
(***************************************************************************)
(* A list page of the dashboard (web/src/pages: Users, Dashboard, Inbounds, *)
(* Domains) against the table it shows.  The page keeps a copy of the table,*)
(* asks the API with requests that may be under way together, and changes   *)
(* its copy, its dialogs and its forms when they are answered, in any order.*)
(* A behaviour is one mount of one page; what another tab, another           *)
(* administrator, the charging loop or an earlier mount does to the table is *)
(* Others.  A handler of the API is one action: Panel looks inside.          *)
(***************************************************************************)
EXTENDS Formats, FiniteSets

CONSTANTS
    Views,      \* pages to look at: "users", "dash", "inbounds", "domains"
    Now,        \* the moment: no date passes while the page is open
    Names,      \* usernames, host names, tags
    Empty,      \* the empty name
    Existing,   \* rows the table may hold when the page is opened
    Typed,      \* what is typed into a dialog, here or elsewhere
    MaxUsed,    \* bound on what a user has used
    MaxId,      \* bound on the ids that are given out
    Slots,      \* bound on the requests under way at once
    MaxClicks,  \* bound on the administrator's clicks that send something
    MaxOdd      \* bound on what Others and the network do

Ids == 1..MaxId

(* A row; `born` is the number of its INSERT, which the code does not store.   *)
Row == [born : 0..MaxId, name : Names \cup {Empty}, enable : BOOLEAN, limit : Nat,
        used : 0..MaxUsed, expire : Int \cup {Never}]
NoRow == [born |-> 0, name |-> Empty, enable |-> FALSE, limit |-> 0, used |-> 0,
          expire |-> Never]
Rows == {t \in [Ids -> Row] : \A id \in Ids : t[id].born \in {0, id}}
NoRows == [id \in Ids |-> NoRow]
Has(t, id) == t[id].born # 0

Form == [name : Names \cup {Empty}, enable : BOOLEAN, limit : Nat,
         expire : Int \cup {Never}]
BlankForm == [name |-> Empty, enable |-> TRUE, limit |-> 0, expire |-> Never]
NewRow(n, f) == [NoRow EXCEPT !.born = n, !.name = f.name, !.enable = TRUE,
                              !.limit = f.limit, !.expire = f.expire]

ASSUME PagesAssumption ==
    /\ Views \subseteq {"users", "dash", "inbounds", "domains"}
    /\ Now \in Int /\ Empty \notin Names
    /\ MaxUsed \in Nat /\ MaxId \in Nat \ {0} /\ MaxClicks \in Nat /\ MaxOdd \in Nat
    /\ Existing \subseteq {r \in Row : r.born = 1}
    /\ Typed \subseteq Form

VARIABLES
    table,      \* the table behind the page, by id; NoRow where there is none
    last,       \* AUTOINCREMENT: the id that was given out last
    view,       \* the page that is mounted
    list,       \* its users or rows: what it shows
    dialog,     \* its open dialog, and the row it was opened on
    form,       \* the fields of the dialog
    links,      \* the ids of the users whose links are shown, at most one
    req,        \* the requests under way
    clicks,     \* bound
    odd,        \* bound
    alone,      \* history: the request under way has had no company
    fresh       \* history: nothing since the last read that ran alone

server == <<table, last>>
page == <<list, dialog, form, links>>
history == <<alone, fresh>>
vars == <<server, view, page, req, clicks, odd, history>>

Kinds == {"list", "post", "put", "regen", "delete", "toggle", "links", "issue"}
Request == [kind : Kinds, phase : {"idle", "sent", "ok", "failed"}, id : {0} \cup Ids,
            row : Row, form : Form, rows : Rows]
Idle == [kind |-> "list", phase |-> "idle", id |-> 0, row |-> NoRow,
         form |-> BlankForm, rows |-> NoRows]
Asking(k, id, r, f) == [Idle EXCEPT !.kind = k, !.phase = "sent", !.id = id, !.row = r, !.form = f]

TypeOK ==
    /\ table \in Rows
    /\ last \in 0..MaxId
    /\ view \in Views
    /\ list \in Rows
    /\ dialog \in [kind : {"none", "add", "edit"}, id : {0} \cup Ids, row : Row]
    /\ dialog.kind = "edit" <=> dialog.id # 0
    /\ dialog.row.born = dialog.id
    /\ form \in Form
    /\ links \in SUBSET Ids
    /\ req \in [Slots -> Request]
    /\ \A s \in Slots : /\ req[s].row.born = req[s].id
                        /\ req[s].kind \in {"put", "regen", "delete", "toggle", "links"} =>
                               req[s].id # 0
    /\ clicks \in 0..MaxClicks /\ odd \in 0..MaxOdd
    /\ alone \in BOOLEAN /\ fresh \in BOOLEAN

Closed == [kind |-> "none", id |-> 0, row |-> NoRow]

(* One row in the table; the page has just been mounted and loads. *)
Init ==
    /\ view \in Views
    /\ last = 1
    /\ \E r \in Existing :
          table = [NoRows EXCEPT ![1] =
                     IF view = "users" THEN r ELSE NewRow(1, [BlankForm EXCEPT !.name = r.name])]
    /\ list = NoRows /\ dialog = Closed /\ form = BlankForm /\ links = {}
    /\ \E s \in Slots : req = [t \in Slots |->
          IF t = s THEN Asking("list", 0, NoRow, BlankForm) ELSE Idle]
    /\ clicks = 0 /\ odd = 0
    /\ alone = TRUE /\ fresh = FALSE

-------------------------------------------------------------------------------
(* Sending.  Nothing keeps the administrator or the timer from sending while   *)
(* other requests are under way.                                                *)
UnderWay == {s \in Slots : req[s].phase # "idle"}

Send(r) ==
    /\ \E s \in Slots \ UnderWay : req' = [req EXCEPT ![s] = r]
    /\ alone' = (UnderWay = {})
    /\ fresh' = (fresh /\ UnderWay = {})

PollUntilShown ==
    /\ view \in {"users", "dash"} /\ list = NoRows
    /\ Send(Asking("list", 0, NoRow, BlankForm))
    /\ UNCHANGED <<server, view, page, clicks, odd>>
(* The timer of a page that has one: eight seconds for users, fifteen for the   *)
(* dashboard.                                                                    *)
Poll ==
    /\ view \in {"users", "dash"}
    /\ Send(Asking("list", 0, NoRow, BlankForm))
    /\ UNCHANGED <<server, view, page, clicks, odd>>

Click(r) ==
    /\ clicks < MaxClicks /\ clicks' = clicks + 1
    /\ Send(r)
    /\ UNCHANGED <<server, view, page, odd>>

(* The dialogs are modal: behind one that is open nothing can be clicked. *)
Behind == dialog.kind = "none" /\ links = {}

ClickDelete(id) ==
    /\ view \in {"users", "domains"} /\ Behind /\ Has(list, id)
    /\ Click(Asking("delete", id, list[id], BlankForm))
ClickLinks(id) ==
    /\ view = "users" /\ Behind /\ Has(list, id)
    /\ Click(Asking("links", id, list[id], BlankForm))
ClickToggle(id) ==
    /\ view = "inbounds" /\ Has(list, id)
    /\ Click(Asking("toggle", id, list[id], [BlankForm EXCEPT !.enable = ~list[id].enable]))
ClickIssue ==
    /\ view = "dash"
    /\ Click(Asking("issue", 0, NoRow, BlankForm))
ClickAdd ==
    /\ dialog.kind = "add" /\ links = {}
    /\ Click(Asking("post", 0, NoRow, form))
ClickSave ==
    /\ dialog.kind = "edit" /\ links = {}
    /\ Click(Asking("put", dialog.id, dialog.row, form))
ClickRegenerate ==
    /\ dialog.kind = "edit" /\ links = {}
    /\ Click(Asking("regen", dialog.id, dialog.row, BlankForm))

-------------------------------------------------------------------------------
(* The dialogs.  The button "Add user" clears the form, "Add domain" does not.  *)
OpenAdd ==
    /\ view \in {"users", "domains"} /\ Behind
    /\ dialog' = [Closed EXCEPT !.kind = "add"]
    /\ form' = IF view = "users" THEN BlankForm ELSE form
    /\ UNCHANGED <<server, view, list, links, req, clicks, odd, history>>

(* openEdit: the limit and the date are stored as the form's conversions will   *)
(* send them back; a user over quota is shown as enabled.                        *)
EditFormInWholeUnits(u) ==
    [name |-> u.name, enable |-> u.enable \/ userStatus(u, Now) = "quota",
     limit |-> (u.limit \div MB) * MB, expire |-> FormExpire(u.expire)]
EditForm(u) ==
    [name |-> u.name, enable |-> u.enable \/ userStatus(u, Now) = "quota",
     limit |-> FormLimit(u.limit), expire |-> FormExpire(u.expire)]

OpenEdit(id) ==
    /\ view = "users" /\ Behind /\ Has(list, id)
    /\ dialog' = [kind |-> "edit", id |-> id, row |-> list[id]]
    /\ form' = EditForm(list[id])
    /\ UNCHANGED <<server, view, list, links, req, clicks, odd, history>>

(* The domains dialog asks for a name, and for a mode and a provider which matter  *)
(* to the panel alone.                                                             *)
DomainForm(f) == [form EXCEPT !.name = f.name]

Type ==
    /\ dialog.kind # "none" /\ links = {} /\ clicks < MaxClicks
    /\ \E f \in Typed :
          form' = IF view = "users" THEN f ELSE DomainForm(f)
    /\ UNCHANGED <<server, view, list, dialog, links, req, clicks, odd, history>>

Close ==
    /\ \/ links # {} /\ links' = {} /\ UNCHANGED dialog
       \/ links = {} /\ dialog.kind # "none" /\ dialog' = Closed /\ UNCHANGED links
    /\ UNCHANGED <<server, view, list, form, req, clicks, odd, history>>

-------------------------------------------------------------------------------
(* The API.  Ids are never given out twice, and names are unique. *)
NewIdReused == CHOOSE n \in 1..(MaxId + 1) :
    /\ \A id \in Ids : Has(table, id) => id < n
    /\ n > 1 => Has(table, n - 1)
NewId == last + 1
Taken(n, id) == \E j \in Ids \ {id} : Has(table, j) /\ table[j].name = n
Nameless(r) == view = "users" /\ r.form.name = Empty
Full == last = MaxId

Creates(r) ==
    /\ ~Nameless(r) /\ ~Taken(r.form.name, 0) /\ ~Full
    /\ table' = [table EXCEPT ![NewId] = NewRow(last + 1, r.form)]
    /\ last' = last + 1

Edits(r) ==
    /\ Has(table, r.id) /\ ~Taken(r.form.name, r.id)
    /\ table' = [table EXCEPT ![r.id] = [@ EXCEPT !.name = r.form.name, !.enable = r.form.enable,
                                                  !.limit = r.form.limit, !.expire = r.form.expire]]
    /\ UNCHANGED last

(* An UPDATE or DELETE of a row that is gone changes nothing and succeeds. *)
Toggles(r) ==
    /\ table' = IF Has(table, r.id) THEN [table EXCEPT ![r.id].enable = r.form.enable] ELSE table
    /\ UNCHANGED last

Deletes(r) ==
    /\ table' = [table EXCEPT ![r.id] = NoRow]
    /\ UNCHANGED last

Succeeds(r) ==
    \/ r.kind = "post" /\ Creates(r)
    \/ r.kind = "put" /\ Edits(r)
    \/ r.kind = "toggle" /\ Toggles(r)
    \/ r.kind = "delete" /\ Deletes(r)
    \/ r.kind \in {"regen", "links"} /\ Has(table, r.id) /\ UNCHANGED server
    \/ r.kind \in {"list", "issue"} /\ UNCHANGED server

Refused(r) ==
    \/ r.kind = "post" /\ (Nameless(r) \/ Taken(r.form.name, 0) \/ Full)
    \/ r.kind = "put" /\ (~Has(table, r.id) \/ Taken(r.form.name, r.id))
    \/ r.kind \in {"regen", "links"} /\ ~Has(table, r.id)

Serve(s) ==
    /\ req[s].phase = "sent"
    /\ \/ /\ Succeeds(req[s])
          /\ req' = [req EXCEPT ![s].phase = "ok",
                                ![s].rows = IF req[s].kind = "list" THEN table ELSE NoRows]
       \/ /\ Refused(req[s])
          /\ req' = [req EXCEPT ![s].phase = "failed"]
          /\ UNCHANGED server
    /\ UNCHANGED <<view, page, clicks, odd, history>>

-------------------------------------------------------------------------------
(* The answers.  A list replaces what is shown. *)
ShowList(s) ==
    /\ req[s].kind = "list" /\ req[s].phase = "ok"
    /\ list' = req[s].rows
    /\ req' = [req EXCEPT ![s] = Idle]
    /\ fresh' = (fresh \/ alone)
    /\ UNCHANGED <<server, view, dialog, form, links, clicks, odd, alone>>

ReloadForgotten(s) ==
    /\ req[s].kind \in {"post", "put", "regen", "delete", "issue"} /\ req[s].phase = "ok"
    /\ dialog' = Closed
    /\ req' = [req EXCEPT ![s] = Idle]
    /\ UNCHANGED <<server, view, list, form, links, clicks, odd, history>>
(* After a change the dialog of its kind is closed, whoever's it is by now, and  *)
(* the list is read again.                                                       *)
Reload(s) ==
    /\ req[s].kind \in {"post", "put", "regen", "delete", "issue"} /\ req[s].phase = "ok"
    /\ LET closes == IF req[s].kind = "post" THEN "add"
                     ELSE IF req[s].kind \in {"put", "regen"} THEN "edit" ELSE "none"
       IN  dialog' = IF dialog.kind = closes THEN Closed ELSE dialog
    /\ form' = IF req[s].kind = "post" /\ view = "domains" THEN DomainForm(BlankForm) ELSE form
    /\ req' = [req EXCEPT ![s] = Asking("list", 0, NoRow, BlankForm)]
    /\ UNCHANGED <<server, view, list, links, clicks, odd, history>>

(* A switch is not read back: the page writes what it asked for into its copy.  *)
ShowToggle(s) ==
    /\ req[s].kind = "toggle" /\ req[s].phase = "ok"
    /\ list' = [id \in Ids |->
                  IF id = req[s].id /\ Has(list, id)
                  THEN [list[id] EXCEPT !.enable = req[s].form.enable] ELSE list[id]]
    /\ req' = [req EXCEPT ![s] = Idle]
    /\ UNCHANGED <<server, view, dialog, form, links, clicks, odd, history>>

ShowLinks(s) ==
    /\ req[s].kind = "links" /\ req[s].phase = "ok"
    /\ links' = {req[s].id}
    /\ req' = [req EXCEPT ![s] = Idle]
    /\ UNCHANGED <<server, view, list, dialog, form, clicks, odd, history>>

(* An error is shown, or ignored when a poll or a deletion meets it, and the     *)
(* dialog stays.                                                                  *)
ShowError(s) ==
    /\ req[s].phase = "failed"
    /\ req' = [req EXCEPT ![s] = Idle]
    /\ UNCHANGED <<server, view, page, clicks, odd, history>>

Answer(s) == ShowList(s) \/ Reload(s) \/ ShowToggle(s) \/ ShowLinks(s) \/ ShowError(s)

-------------------------------------------------------------------------------
(* fetch rejects: the request never arrived, or its answer never did. *)
Lose(s) ==
    /\ odd < MaxOdd /\ odd' = odd + 1
    /\ req[s].phase \in {"sent", "ok"}
    /\ req' = [req EXCEPT ![s].phase = "failed"]
    /\ fresh' = FALSE
    /\ UNCHANGED <<server, view, page, clicks, alone>>

(* Somebody else edits, deletes or creates a row, or the loop charges a user.    *)
Others ==
    /\ odd < MaxOdd /\ odd' = odd + 1
    /\ \/ \E id \in Ids : Has(table, id) /\ Deletes([Idle EXCEPT !.id = id])
       \/ \E f \in Typed :
             \/ Creates([Idle EXCEPT !.form = f])
             \/ \E id \in Ids : Edits([Idle EXCEPT !.id = id, !.form = f])
       \/ \E id \in Ids :
             /\ view = "users" /\ Has(table, id) /\ table[id].used < MaxUsed
             /\ table' = [table EXCEPT ![id].used = @ + 1]
             /\ UNCHANGED last
    /\ alone' = FALSE /\ fresh' = FALSE
    /\ UNCHANGED <<view, page, req, clicks>>

-------------------------------------------------------------------------------
Clicks ==
    \/ \E id \in Ids : ClickDelete(id) \/ ClickLinks(id) \/ ClickToggle(id) \/ OpenEdit(id)
    \/ ClickIssue \/ ClickAdd \/ ClickSave \/ ClickRegenerate
    \/ OpenAdd \/ Type \/ Close

Next ==
    \/ Poll \/ Clicks \/ Others
    \/ \E s \in Slots : Serve(s) \/ Answer(s) \/ Lose(s)

(* The timer fires for as long as the page is open; a request is served and     *)
(* answered, or lost.  Nobody has to click.                                      *)
Fairness ==
    /\ WF_vars(Poll)
    /\ \A s \in Slots : WF_vars(Serve(s)) /\ WF_vars(Answer(s))

Spec == Init /\ [][Next]_vars
FairSpec == Spec /\ Fairness

-------------------------------------------------------------------------------
(* What a row of the users page says of its user. *)
Badge(id) == userStatus(list[id], Now)

(* At rest after a read that ran alone the page shows the table, and a badge    *)
(* says "on" exactly when the panel serves the user.  (Every change is followed *)
(* by a read, except a switch, which the page flips in its own copy.)            *)
RestShowsTable ==
    (fresh /\ UnderWay = {}) =>
        /\ list = table
        /\ \A id \in Ids : (Badge(id) = "on") <=> Active(table[id], Now)

(* A request changes no other row than the one it was clicked on, however old   *)
(* the list or the dialog is: a row that came after a deletion is never hit.     *)
Changed(id) == Has(table, id) /\ table'[id] # table[id]
WritesHitTheirRow ==
    [][\A s \in Slots :
          (req[s].phase = "sent" /\ req'[s].phase = "ok" /\ req[s].kind # "post") =>
              \A id \in Ids : Changed(id) => table[id].born = req[s].row.born]_vars

(* Saving the edit form as it was opened, of a row nobody changed since, keeps   *)
(* name and usage, moves the limit by at most half of what the form shows last,   *)
(* keeps it a limit unless it is too small to be shown, keeps the day of expiry    *)
(* and disables nobody; it enables only a user who is over quota.                  *)
Untouched(r) == r.kind = "put" /\ r.form = EditForm(r.row) /\ table[r.id] = r.row
Near(a, b, unit) == 2 * Cents * (a - b) <= unit + Cents /\ 2 * Cents * (b - a) <= unit + Cents
Keeps(old, new) ==
    /\ new.name = old.name /\ new.used = old.used
    /\ old.enable => new.enable
    /\ new.enable /\ ~old.enable => OverQuota(old)
    /\ Near(new.limit, old.limit, Unit(old.limit))
    /\ old.limit = 0 => new.limit = 0
    /\ 2 * Cents * old.limit >= MB => new.limit > 0
    /\ ymd(new.expire) = ymd(old.expire)
UntouchedSaveKeeps ==
    [][\A s \in Slots :
          (req[s].phase = "sent" /\ req'[s].phase = "ok" /\ Untouched(req[s])) =>
              Keeps(table[req[s].id], table'[req[s].id])]_vars

(* Once nobody changes the table any more, a page with a timer comes to show it, *)
(* whatever was lost and in whatever order its requests were answered.            *)
ListConverges == view \in {"users", "dash"} => <>[](list = table)
===============================================================================
