----------------------------- MODULE PagesProofs -----------------------------
(***************************************************************************)
(* A request changes the row it was clicked on, an untouched form keeps the *)
(* row, and a page at rest shows the table: for any rows, ids, requests     *)
(* under way, bounds and units.                                              *)
(***************************************************************************)
EXTENDS Pages, FormatsProofs

-------------------------------------------------------------------------------
(* Types. *)
LEMMA Constants ==
    /\ NoRow \in Row /\ NoRow.born = 0 /\ NoRows \in Rows /\ BlankForm \in Form
    /\ Idle \in Request
    /\ MaxId \in Nat \ {0} /\ MaxUsed \in Nat
<1>1. MaxId \in Nat \ {0} /\ MaxUsed \in Nat
  BY PagesAssumption
<1>2. NoRow \in Row /\ NoRow.born = 0
  BY <1>1 DEF NoRow, Row
<1>3. NoRows \in Rows
  BY <1>2 DEF NoRows, Rows
<1>4. BlankForm \in Form
  BY DEF BlankForm, Form
<1>5. Idle \in Request
  BY <1>2, <1>3, <1>4 DEF Idle, Request, Kinds
<1> QED BY <1>1, <1>2, <1>3, <1>4, <1>5

LEMMA AskingType ==
    ASSUME NEW k \in Kinds, NEW id \in {0} \cup Ids, NEW r \in Row, NEW f \in Form
    PROVE  /\ Asking(k, id, r, f) \in Request
           /\ Asking(k, id, r, f).kind = k /\ Asking(k, id, r, f).id = id
           /\ Asking(k, id, r, f).row = r /\ Asking(k, id, r, f).phase = "sent"
           /\ Asking(k, id, r, f).form = f
BY Constants DEF Asking, Request, Idle

LEMMA RowOfTable ==
    ASSUME NEW t \in Rows, NEW id \in Ids
    PROVE  t[id] \in Row /\ (Has(t, id) => t[id].born = id)
BY DEF Rows, Has

LEMMA TableUpdate ==
    ASSUME NEW t \in Rows, NEW id \in Ids, NEW r \in Row, r.born \in {0, id}
    PROVE  [t EXCEPT ![id] = r] \in Rows
BY DEF Rows

LEMMA NewRowType ==
    ASSUME NEW n \in Ids, NEW f \in Form
    PROVE  NewRow(n, f) \in Row /\ NewRow(n, f).born = n
<1>1. f.name \in Names \cup {Empty} /\ f.limit \in Nat /\ f.expire \in Int \cup {Never}
  BY DEF Form
<1>2. n \in 0..MaxId /\ 0 \in 0..MaxUsed
  BY Constants DEF Ids
<1> QED BY <1>1, <1>2 DEF NewRow, NoRow, Row

LEMMA EditFormType ==
    ASSUME NEW r \in Row
    PROVE  EditForm(r) \in Form
<1>1. r.limit \in Nat /\ r.expire \in Int \cup {Never} /\ r.name \in Names \cup {Empty}
  BY DEF Row
<1>2. FormLimit(r.limit) \in Nat
  BY <1>1, FormLimitNear
<1>3. FormExpire(r.expire) \in Int \cup {Never}
  BY <1>1, FormExpireSameDay DEF FormExpire, ymd, parseExpireDate
<1>4. (r.enable \/ userStatus(r, Now) = "quota") \in BOOLEAN
  BY DEF Row
<1> QED BY <1>1, <1>2, <1>3, <1>4 DEF EditForm, Form

(* What a handler leaves is a table.  A request on a row has its id. *)
OnRow(r) == r.kind \in {"put", "regen", "delete", "toggle", "links"} => r.id \in Ids
LEMMA HandlerType ==
    ASSUME TypeOK, NEW r \in Request
    PROVE  /\ Creates(r) => table' \in Rows /\ last' \in 0..MaxId
           /\ r.id \in Ids /\ Edits(r) => table' \in Rows /\ last' = last
           /\ r.id \in Ids /\ Toggles(r) => table' \in Rows /\ last' = last
           /\ r.id \in Ids /\ Deletes(r) => table' \in Rows /\ last' = last
<1> USE DEF TypeOK
<1>f. r.form \in Form /\ MaxId \in Nat \ {0}
  BY Constants DEF Request
<1>1. ASSUME Creates(r) PROVE table' \in Rows /\ last' \in 0..MaxId
  <2>1. last + 1 \in Ids
    BY <1>f, <1>1 DEF Creates, Full, Ids
  <2>2. NewRow(last + 1, r.form) \in Row /\ NewRow(last + 1, r.form).born = last + 1
    BY <1>f, <2>1, NewRowType
  <2>3. table' = [table EXCEPT ![last + 1] = NewRow(last + 1, r.form)] /\ last' = last + 1
    BY <1>1 DEF Creates, NewId
  <2>4. [table EXCEPT ![last + 1] = NewRow(last + 1, r.form)] \in Rows
    BY <2>1, <2>2, TableUpdate
  <2>5. last + 1 \in 0..MaxId
    BY <2>1 DEF Ids
  <2> QED BY <2>3, <2>4, <2>5
<1>2. ASSUME r.id \in Ids, Edits(r) PROVE table' \in Rows /\ last' = last
  <2> DEFINE n == [table[r.id] EXCEPT !.name = r.form.name, !.enable = r.form.enable,
                                      !.limit = r.form.limit, !.expire = r.form.expire]
  <2>1. table[r.id] \in Row /\ table[r.id].born \in {0, r.id}
    BY <1>2 DEF Rows
  <2>2. n \in Row /\ n.born = table[r.id].born
    BY <1>f, <2>1 DEF Row, Form
  <2>3. table' = [table EXCEPT ![r.id] = n] /\ last' = last
    BY <1>2 DEF Edits
  <2> HIDE DEF n
  <2>4. [table EXCEPT ![r.id] = n] \in Rows
    BY <1>2, <2>1, <2>2, TableUpdate
  <2> QED BY <2>3, <2>4
<1>3. ASSUME r.id \in Ids, Toggles(r) PROVE table' \in Rows /\ last' = last
  <2> DEFINE n == [table[r.id] EXCEPT !.enable = r.form.enable]
  <2>1. table[r.id] \in Row /\ table[r.id].born \in {0, r.id}
    BY <1>3 DEF Rows
  <2>2. n \in Row /\ n.born = table[r.id].born
    BY <1>f, <2>1 DEF Row, Form
  <2>3. table' \in {[table EXCEPT ![r.id] = n], table} /\ last' = last
    BY <1>3 DEF Toggles
  <2> HIDE DEF n
  <2>4. [table EXCEPT ![r.id] = n] \in Rows
    BY <1>3, <2>1, <2>2, TableUpdate
  <2> QED BY <2>3, <2>4
<1>4. ASSUME r.id \in Ids, Deletes(r) PROVE table' \in Rows /\ last' = last
  <2>1. table' = [table EXCEPT ![r.id] = NoRow] /\ last' = last
    BY <1>4 DEF Deletes
  <2> QED BY <1>4, <2>1, Constants, TableUpdate
<1> QED BY <1>1, <1>2, <1>3, <1>4

LEMMA InitTypes == Init => TypeOK
<1> SUFFICES ASSUME Init PROVE TypeOK
  OBVIOUS
<1> USE PagesAssumption, Constants DEF PagesAssumption, Init
<1>1. table \in Rows
  <2>1. PICK r \in Existing :
          table = [NoRows EXCEPT ![1] =
                     IF view = "users" THEN r ELSE NewRow(1, [BlankForm EXCEPT !.name = r.name])]
    OBVIOUS
  <2>2. r \in Row /\ r.born = 1 /\ 1 \in Ids
    BY DEF Ids
  <2>3. [BlankForm EXCEPT !.name = r.name] \in Form
    BY <2>2 DEF Row, BlankForm, Form
  <2>4. NewRow(1, [BlankForm EXCEPT !.name = r.name]) \in Row
        /\ NewRow(1, [BlankForm EXCEPT !.name = r.name]).born = 1
    BY <2>2, <2>3, NewRowType
  <2> QED BY <2>1, <2>2, <2>4, TableUpdate
<1>2. dialog \in [kind : {"none", "add", "edit"}, id : {0} \cup Ids, row : Row]
      /\ dialog.row.born = dialog.id /\ (dialog.kind = "edit" <=> dialog.id # 0)
  BY DEF Closed
<1>3. /\ req \in [Slots -> Request]
      /\ \A s \in Slots : req[s].kind = "list" /\ req[s].row.born = req[s].id
  <2>1. Asking("list", 0, NoRow, BlankForm) \in Request
        /\ Asking("list", 0, NoRow, BlankForm).kind = "list"
        /\ Asking("list", 0, NoRow, BlankForm).id = 0
        /\ Asking("list", 0, NoRow, BlankForm).row = NoRow
    BY AskingType DEF Kinds
  <2>2. Idle.kind = "list" /\ Idle.id = 0 /\ Idle.row = NoRow
    BY DEF Idle
  <2> QED BY <2>1, <2>2
<1>4. last \in 0..MaxId /\ clicks \in 0..MaxClicks /\ odd \in 0..MaxOdd
  OBVIOUS
<1>5. /\ view \in Views /\ list \in Rows /\ form \in Form /\ links \in SUBSET Ids
      /\ alone \in BOOLEAN /\ fresh \in BOOLEAN
  OBVIOUS
<1> QED BY <1>1, <1>2, <1>3, <1>4, <1>5 DEF TypeOK

(* Requests, one at a time. *)
Fits(r) == r \in Request /\ r.row.born = r.id /\ OnRow(r)
LEMMA AskingFits ==
    ASSUME NEW k \in Kinds, NEW id \in Ids, NEW r \in Row, NEW f \in Form
    PROVE  r.born = id => Fits(Asking(k, id, r, f))
<1>1. Asking(k, id, r, f) \in Request
  BY AskingType
<1>2. Asking(k, id, r, f).id = id /\ Asking(k, id, r, f).row = r
  BY DEF Asking, Idle
<1> QED BY <1>1, <1>2 DEF Fits, OnRow

LEMMA FitsOnly ==
    ASSUME TypeOK, NEW s \in Slots
    PROVE  Fits(req[s])
BY DEF TypeOK, Fits, OnRow, Request, Kinds

LEMMA SendTypes ==
    ASSUME TypeOK, NEW r, Fits(r), Send(r)
    PROVE  /\ req' \in [Slots -> Request]
           /\ \A s \in Slots : Fits(req'[s])
           /\ alone' \in BOOLEAN /\ fresh' \in BOOLEAN
<1>1. PICK s \in Slots : req' = [req EXCEPT ![s] = r]
  BY DEF Send
<1>2. r \in Request /\ req \in [Slots -> Request]
  BY DEF Fits, TypeOK
<1> QED BY <1>1, <1>2, FitsOnly DEF Send, TypeOK

Reqs == req \in [Slots -> Request] /\ \A s \in Slots : Fits(req[s])
Rest ==
    /\ table \in Rows /\ last \in 0..MaxId /\ view \in Views /\ list \in Rows
    /\ dialog \in [kind : {"none", "add", "edit"}, id : {0} \cup Ids, row : Row]
    /\ dialog.kind = "edit" <=> dialog.id # 0
    /\ dialog.row.born = dialog.id
    /\ form \in Form /\ links \in SUBSET Ids
    /\ clicks \in 0..MaxClicks /\ odd \in 0..MaxOdd
    /\ alone \in BOOLEAN /\ fresh \in BOOLEAN

LEMMA TypesSplit == TypeOK <=> Reqs /\ Rest
<1>1. TypeOK => Reqs
  BY FitsOnly DEF Reqs, TypeOK
<1>2. Reqs => \A s \in Slots : /\ req[s].row.born = req[s].id
                               /\ req[s].kind \in {"put", "regen", "delete", "toggle", "links"} =>
                                      req[s].id # 0
  BY Constants DEF Reqs, Fits, OnRow, Ids
<1>3. TypeOK => Rest
  BY DEF TypeOK, Rest
<1> QED BY <1>1, <1>2, <1>3 DEF TypeOK, Reqs, Rest

LEMMA TypesJoin == Reqs' /\ Rest' => TypeOK'
<1>1. Reqs' => \A s \in Slots : /\ req'[s].row.born = req'[s].id
                                /\ req'[s].kind \in {"put", "regen", "delete", "toggle", "links"} =>
                                      req'[s].id # 0
  BY Constants DEF Reqs, Fits, OnRow, Ids
<1> QED BY <1>1 DEF TypeOK, Reqs, Rest

LEMMA IdleFits == Fits(Idle) /\ Fits(Asking("list", 0, NoRow, BlankForm))
<1>1. Fits(Idle)
  BY Constants DEF Fits, OnRow, Idle
<1> QED BY <1>1, Constants, AskingType DEF Fits, OnRow, Kinds

LEMMA ReqsUpdate ==
    ASSUME Reqs, NEW s \in Slots, NEW r, Fits(r), req' = [req EXCEPT ![s] = r]
    PROVE  Reqs'
BY DEF Reqs, Fits, OnRow

(* A click sends a request that fits the row it was clicked on. *)
LEMMA ClickTypes ==
    ASSUME TypeOK, NEW r, Fits(r), Click(r)
    PROVE  TypeOK'
<1>1. Reqs' /\ alone' \in BOOLEAN /\ fresh' \in BOOLEAN
  BY SendTypes DEF Click, Reqs, Fits, OnRow
<1>2. clicks' \in 0..MaxClicks
  BY PagesAssumption, TypesSplit DEF Click, PagesAssumption, Rest
<1>3. Rest'
  BY <1>1, <1>2, TypesSplit DEF Click, Rest, page, server
<1> QED BY <1>1, <1>3, TypesJoin

LEMMA StepTypes == TypeOK /\ [Next]_vars => TypeOK'
<1> SUFFICES ASSUME TypeOK, [Next]_vars PROVE TypeOK'
  OBVIOUS
<1>t. Reqs /\ Rest
  BY TypesSplit
<1>r. \A s \in Slots : Fits(req[s]) /\ req[s] \in Request
  BY <1>t DEF Reqs, Fits
<1> USE PagesAssumption DEF PagesAssumption
<1>1. CASE Poll
  <2>1. Reqs' /\ alone' \in BOOLEAN /\ fresh' \in BOOLEAN
    BY <1>1, SendTypes, IdleFits DEF Poll, Reqs, Fits, OnRow
  <2> QED BY <1>1, <1>t, <2>1, TypesJoin DEF Poll, Rest, page, server
<1>2. ASSUME NEW id \in Ids, ClickDelete(id) \/ ClickLinks(id) \/ ClickToggle(id)
      PROVE  TypeOK'
  <2>1. list[id] \in Row /\ list[id].born = id
    BY <1>t, <1>2, RowOfTable DEF Rest, ClickDelete, ClickLinks, ClickToggle
  <2>2. ASSUME NEW k \in Kinds, NEW f \in Form PROVE Fits(Asking(k, id, list[id], f))
    BY <2>1, AskingType DEF Fits, OnRow
  <2>3. [BlankForm EXCEPT !.enable = ~list[id].enable] \in Form
    BY <2>1, Constants DEF Form, Row
  <2> QED BY <1>2, <2>2, <2>3, ClickTypes, Constants
          DEF ClickDelete, ClickLinks, ClickToggle, Kinds
<1>3. ASSUME NEW k \in Kinds \ {"put", "regen", "delete", "toggle", "links"}, NEW f \in Form,
             Click(Asking(k, 0, NoRow, f))
      PROVE  TypeOK'
  <2>1. Fits(Asking(k, 0, NoRow, f))
    BY Constants, AskingType DEF Fits, OnRow
  <2> QED BY <1>3, <2>1, ClickTypes
<1>4. CASE ClickIssue \/ ClickAdd
  BY <1>3, <1>4, <1>t, Constants DEF ClickIssue, ClickAdd, Rest, Kinds
<1>5. CASE ClickSave \/ ClickRegenerate
  <2>1. dialog.id \in Ids /\ dialog.row \in Row /\ dialog.row.born = dialog.id /\ form \in Form
    BY <1>5, <1>t DEF ClickSave, ClickRegenerate, Rest
  <2>2. ASSUME NEW k \in Kinds, NEW f \in Form PROVE Fits(Asking(k, dialog.id, dialog.row, f))
    BY <2>1, AskingFits
  <2> QED BY <1>5, <2>1, <2>2, ClickTypes, Constants DEF ClickSave, ClickRegenerate, Kinds
<1>6. ASSUME NEW id \in Ids, OpenEdit(id) PROVE TypeOK'
  <2>1. list[id] \in Row /\ list[id].born = id /\ id # 0
    BY <1>t, <1>6, RowOfTable DEF Rest, OpenEdit, Ids
  <2>2. EditForm(list[id]) \in Form
    BY <2>1, EditFormType
  <2>3. Rest'
    BY <1>6, <1>t, <2>1, <2>2 DEF OpenEdit, Rest, server, history
  <2> QED BY <1>6, <1>t, <2>3, TypesJoin DEF OpenEdit, Reqs, Fits, OnRow
<1>7. CASE OpenAdd
  <2>1. Rest'
    BY <1>7, <1>t, Constants DEF OpenAdd, Closed, Rest, server, history
  <2> QED BY <1>7, <1>t, <2>1, TypesJoin DEF OpenAdd, Reqs, Fits, OnRow
<1>8. CASE Type
  <2>1. form' \in Form
    BY <1>8, <1>t DEF Type, DomainForm, Rest, Form
  <2>2. Rest'
    BY <1>8, <1>t, <2>1 DEF Type, Rest, server, history
  <2> QED BY <1>8, <1>t, <2>2, TypesJoin DEF Type, Reqs, Fits, OnRow
<1>9. CASE Close
  <2>1. Rest'
    BY <1>9, <1>t, Constants DEF Close, Closed, Rest, server, history
  <2> QED BY <1>9, <1>t, <2>1, TypesJoin DEF Close, Reqs, Fits, OnRow
<1>10. ASSUME NEW s \in Slots, Serve(s) PROVE TypeOK'
  <2>1. table' \in Rows /\ last' \in 0..MaxId
    <3>1. CASE Succeeds(req[s])
      <4> DEFINE r == req[s]
      <4>1. r \in Request /\ OnRow(r) /\ Succeeds(r) /\ table \in Rows /\ last \in 0..MaxId
        BY <1>r, <1>t, <3>1 DEF Fits, Rest
      <4> HIDE DEF r
      <4>2. CASE r.kind = "post" /\ Creates(r)
        BY <4>1, <4>2, HandlerType
      <4>3. CASE /\ r.kind \in {"put", "toggle", "delete"}
                 /\ Edits(r) \/ Toggles(r) \/ Deletes(r)
        <5>1. r.id \in Ids
          BY <4>1, <4>3 DEF OnRow
        <5>2. table' \in Rows /\ last' = last
          BY <4>1, <4>3, <5>1, HandlerType
        <5> QED BY <4>1, <5>2
      <4>4. CASE UNCHANGED server
        BY <4>1, <4>4 DEF server
      <4> QED BY <4>1, <4>2, <4>3, <4>4 DEF Succeeds
    <3> QED BY <1>10, <1>t, <3>1 DEF Serve, Rest, server
  <2>2. PICK p \in {"ok", "failed"}, t \in Rows :
            \/ req' = [req EXCEPT ![s] = [req[s] EXCEPT !.phase = p, !.rows = t]]
            \/ req' = [req EXCEPT ![s] = [req[s] EXCEPT !.phase = p]]
    <3>1. CASE Succeeds(req[s])
      BY <1>10, <1>t, <3>1, Constants DEF Serve, Rest
    <3> QED BY <1>10, <1>t, <3>1, Constants DEF Serve, Rest
  <2>3. Reqs'
    <3>1. Fits([req[s] EXCEPT !.phase = p, !.rows = t]) /\ Fits([req[s] EXCEPT !.phase = p])
      BY <1>r DEF Fits, OnRow, Request
    <3> QED BY <1>t, <2>2, <3>1, ReqsUpdate
  <2>4. Rest'
    BY <1>10, <1>t, <2>1 DEF Serve, Rest, page, history
  <2> QED BY <2>3, <2>4, TypesJoin
<1>11. ASSUME NEW s \in Slots, Answer(s) PROVE TypeOK'
  <2>1. Reqs'
    BY <1>11, <1>t, IdleFits, ReqsUpdate
       DEF Answer, ShowList, Reload, ShowToggle, ShowLinks, ShowError
  <2>2. CASE ShowList(s)
    <3>1. Rest'
      BY <1>r, <1>t, <2>2 DEF ShowList, Rest, server, Request
    <3> QED BY <2>1, <3>1, TypesJoin
  <2>3. CASE Reload(s)
    <3>1. dialog' \in {dialog, Closed} /\ form' \in Form
      BY <1>t, <2>3, Constants DEF Reload, DomainForm, BlankForm, Rest, Form
    <3>2. Rest'
      BY <1>t, <2>3, <3>1, Constants DEF Reload, Rest, Closed, server, history
    <3> QED BY <2>1, <3>2, TypesJoin
  <2>4. CASE ShowToggle(s)
    <3> DEFINE row(id) == IF id = req[s].id /\ Has(list, id)
                          THEN [list[id] EXCEPT !.enable = req[s].form.enable] ELSE list[id]
    <3>1. ASSUME NEW id \in Ids PROVE row(id) \in Row /\ row(id).born \in {0, id}
      BY <1>r, <1>t DEF Rest, Rows, Row, Request, Form
    <3>2. list' = [id \in Ids |-> row(id)]
      BY <2>4 DEF ShowToggle
    <3> HIDE DEF row
    <3>3. list' \in Rows
      BY <3>1, <3>2 DEF Rows
    <3>4. Rest'
      BY <1>t, <2>4, <3>3 DEF ShowToggle, Rest, server, history
    <3> QED BY <2>1, <3>4, TypesJoin
  <2>5. CASE ShowLinks(s)
    <3>1. links' \in SUBSET Ids
      BY <1>r, <2>5 DEF ShowLinks, Fits, OnRow
    <3>2. Rest'
      BY <1>t, <2>5, <3>1 DEF ShowLinks, Rest, server, history
    <3> QED BY <2>1, <3>2, TypesJoin
  <2>6. CASE ShowError(s)
    <3>1. Rest'
      BY <1>t, <2>6 DEF ShowError, Rest, server, page, history
    <3> QED BY <2>1, <3>1, TypesJoin
  <2> QED BY <1>11, <2>2, <2>3, <2>4, <2>5, <2>6 DEF Answer
<1>12. ASSUME NEW s \in Slots, Lose(s) PROVE TypeOK'
  <2>1. Fits([req[s] EXCEPT !.phase = "failed"])
    BY <1>r DEF Fits, OnRow, Request
  <2>2. Reqs'
    BY <1>12, <1>t, <2>1, ReqsUpdate DEF Lose
  <2>3. odd' \in 0..MaxOdd
    BY <1>12, <1>t DEF Lose, Rest
  <2>4. Rest'
    BY <1>12, <1>t, <2>3 DEF Lose, Rest, server, page
  <2> QED BY <2>2, <2>4, TypesJoin
<1>13. CASE Others
  <2>1. table' \in Rows /\ last' \in 0..MaxId
    <3>1. ASSUME NEW id \in Ids, Deletes([Idle EXCEPT !.id = id]) PROVE table' \in Rows /\ last' = last
      <4>1. [Idle EXCEPT !.id = id] \in Request /\ [Idle EXCEPT !.id = id].id = id
        BY Constants DEF Request
      <4> DEFINE r == [Idle EXCEPT !.id = id]
      <4>2. r \in Request /\ r.id \in Ids /\ Deletes(r)
        BY <3>1, <4>1
      <4> HIDE DEF r
      <4> QED BY <4>2, HandlerType
    <3>2. ASSUME NEW f \in Typed, Creates([Idle EXCEPT !.form = f])
          PROVE  table' \in Rows /\ last' \in 0..MaxId
      <4>1. [Idle EXCEPT !.form = f] \in Request
        BY Constants DEF Request
      <4> QED BY <3>2, <4>1, HandlerType
    <3>3. ASSUME NEW f \in Typed, NEW id \in Ids, Edits([Idle EXCEPT !.id = id, !.form = f])
          PROVE  table' \in Rows /\ last' = last
      <4>1. [Idle EXCEPT !.id = id, !.form = f] \in Request
            /\ [Idle EXCEPT !.id = id, !.form = f].id = id
        BY Constants DEF Request
      <4> DEFINE r == [Idle EXCEPT !.id = id, !.form = f]
      <4>2. r \in Request /\ r.id \in Ids /\ Edits(r)
        BY <3>3, <4>1
      <4> HIDE DEF r
      <4> QED BY <4>2, HandlerType
    <3>4. ASSUME NEW id \in Ids, table[id].used < MaxUsed,
                 table' = [table EXCEPT ![id].used = @ + 1]
          PROVE  table' \in Rows
      <4> DEFINE n == [table[id] EXCEPT !.used = @ + 1]
      <4>0. table \in Rows /\ table[id] \in Row /\ table[id].born \in {0, id}
        BY <1>t DEF Rest, Rows
      <4>2. table[id].used \in 0..MaxUsed /\ MaxUsed \in Nat
        BY <4>0, Constants DEF Row
      <4>3. table[id].used + 1 \in 0..MaxUsed
        BY <3>4, <4>2
      <4>1. n \in Row /\ n.born \in {0, id} /\ table' = [table EXCEPT ![id] = n]
        BY <3>4, <4>0, <4>3 DEF Rows, Row
      <4> HIDE DEF n
      <4> QED BY <1>t, <4>1, TableUpdate DEF Rest
    <3> QED BY <1>13, <1>t, <3>1, <3>2, <3>3, <3>4 DEF Others, Rest
  <2>2. odd' \in 0..MaxOdd
    <3>1. odd \in 0..MaxOdd /\ odd < MaxOdd /\ odd' = odd + 1
      BY <1>13, <1>t DEF Others, Rest
    <3> QED BY <3>1
  <2>3. Rest'
    BY <1>13, <1>t, <2>1, <2>2 DEF Others, Rest, page
  <2> QED BY <1>13, <1>t, <2>3, TypesJoin DEF Others, Reqs, Fits, OnRow
<1>14. CASE UNCHANGED vars
  BY <1>14 DEF vars, server, page, history, TypeOK
<1> QED BY <1>1, <1>2, <1>4, <1>5, <1>6, <1>7, <1>8, <1>9, <1>10, <1>11, <1>12, <1>13, <1>14
        DEF Next, Clicks

(* The table, the page and its requests keep their types; a dialog and a request *)
(* keep the row they were opened on, by its id.                                   *)
THEOREM PageTypes == Spec => []TypeOK
<1> QED BY InitTypes, StepTypes, PTL DEF Spec

-------------------------------------------------------------------------------
(* A request that succeeds in a step was served in that step. *)
LEMMA SendsElsewhere ==
    ASSUME TypeOK, NEW r, Send(r), NEW s \in Slots, req[s].phase # "idle"
    PROVE  req'[s] = req[s]
BY DEF Send, UnderWay, TypeOK

LEMMA OnlyServeSucceeds ==
    ASSUME TypeOK, Next, NEW s \in Slots, req[s].phase = "sent", req'[s].phase = "ok"
    PROVE  Serve(s)
<1>1. \A r : ~Send(r)
  BY SendsElsewhere
<1>2. req' # req
  OBVIOUS
<1>3. ASSUME NEW t \in Slots, t # s PROVE ~(Serve(t) \/ Answer(t) \/ Lose(t))
  BY <1>3 DEF TypeOK, Serve, Answer, ShowList, Reload, ShowToggle, ShowLinks, ShowError, Lose
<1>4. ~(Answer(s) \/ Lose(s))
  <2>1. ~Answer(s)
    BY DEF Answer, ShowList, Reload, ShowToggle, ShowLinks, ShowError
  <2>2. req[s] \in Request /\ req \in [Slots -> Request]
    BY DEF TypeOK
  <2> QED BY <2>1, <2>2 DEF Lose, Request
<1>5. ~Poll /\ ~Others
  BY <1>1, <1>2 DEF Poll, Others
<1>6. ~Clicks
  BY <1>1, <1>2 DEF Clicks, ClickDelete, ClickLinks, ClickToggle, OpenEdit, ClickIssue, ClickAdd,
                    ClickSave, ClickRegenerate, Click, OpenAdd, Type, Close
<1> QED BY <1>3, <1>4, <1>5, <1>6 DEF Next

LEMMA ServedOk ==
    ASSUME TypeOK, Next, NEW s \in Slots, req[s].phase = "sent", req'[s].phase = "ok"
    PROVE  Succeeds(req[s])
<1>1. req \in [Slots -> Request] /\ req[s] \in Request
  BY DEF TypeOK
<1>2. (req' = [req EXCEPT ![s].phase = "failed"]) => req'[s].phase = "failed"
  BY <1>1 DEF Request
<1> QED BY <1>2, OnlyServeSucceeds DEF Serve

LEMMA SucceedsOnItsRow ==
    ASSUME TypeOK, NEW s \in Slots, Succeeds(req[s]), req[s].kind # "post",
           NEW id \in Ids, Changed(id)
    PROVE  table[id].born = req[s].row.born
<1>1. table \in Rows /\ Fits(req[s])
  BY FitsOnly DEF TypeOK
<1>2. table[id].born = id
  BY <1>1, RowOfTable DEF Changed
<1>3. req[s].id = id
  BY <1>1 DEF Changed, Succeeds, Edits, Toggles, Deletes, server, Rows
<1> QED BY <1>1, <1>2, <1>3 DEF Fits

(* updateUser, deleteUser, updateInbound, ...: a request, however old the list    *)
(* or the dialog it was clicked in, changes no other row than the one it was       *)
(* clicked on, whoever deleted or created rows in between.                         *)
THEOREM WritesAlwaysHitTheirRow == Spec => WritesHitTheirRow
<1>1. TypeOK /\ [Next]_vars =>
          [\A s \in Slots :
              (req[s].phase = "sent" /\ req'[s].phase = "ok" /\ req[s].kind # "post") =>
                  \A id \in Ids : Changed(id) => table[id].born = req[s].row.born]_vars
  <2> SUFFICES ASSUME TypeOK, Next, NEW s \in Slots,
                      req[s].phase = "sent", req'[s].phase = "ok", req[s].kind # "post",
                      NEW id \in Ids, Changed(id)
               PROVE  table[id].born = req[s].row.born
    OBVIOUS
  <2>1. Succeeds(req[s])
    BY ServedOk
  <2> QED BY <2>1, SucceedsOnItsRow
<1> QED BY <1>1, PageTypes, PTL DEF Spec, WritesHitTheirRow

-------------------------------------------------------------------------------
(* The edit form. *)
LEMMA UntouchedKeeps ==
    ASSUME NEW u \in Row, NEW w,
           w = [u EXCEPT !.name = EditForm(u).name, !.enable = EditForm(u).enable,
                         !.limit = EditForm(u).limit, !.expire = EditForm(u).expire]
    PROVE  Keeps(u, w)
<1>1. /\ u.limit \in Nat /\ u.expire \in Int \cup {Never} /\ u.enable \in BOOLEAN
      /\ w.name = u.name /\ w.used = u.used /\ w.limit = FormLimit(u.limit)
      /\ w.expire = FormExpire(u.expire) /\ w.enable = (u.enable \/ userStatus(u, Now) = "quota")
  BY DEF Row, EditForm
<1>2. userStatus(u, Now) = "quota" => u.limit # 0 /\ u.used >= u.limit
  BY DEF userStatus
<1>3. userStatus(u, Now) = "quota" => OverQuota(u)
  BY <1>1, <1>2 DEF OverQuota
<1>4. ymd(w.expire) = ymd(u.expire)
  <2>1. CASE u.expire \in Int
    BY <1>1, <2>1, FormExpireSameDay
  <2>2. CASE u.expire = Never
    BY <1>1, <2>2 DEF FormExpire, ymd, parseExpireDate
  <2> QED BY <1>1, <2>1, <2>2
<1>5. /\ Near(w.limit, u.limit, Unit(u.limit))
      /\ u.limit = 0 => w.limit = 0
      /\ 2 * Cents * u.limit >= MB => w.limit > 0
  BY <1>1, FormLimitNear DEF Near
<1> QED BY <1>1, <1>3, <1>4, <1>5 DEF Keeps

(* openEdit and the button "Save": a form that nobody touched keeps the row, up   *)
(* to what its conversions round, for every limit and date.                        *)
THEOREM UntouchedSaveAlwaysKeeps == Spec => UntouchedSaveKeeps
<1>1. TypeOK /\ [Next]_vars =>
          [\A s \in Slots :
              (req[s].phase = "sent" /\ req'[s].phase = "ok" /\ Untouched(req[s])) =>
                  Keeps(table[req[s].id], table'[req[s].id])]_vars
  <2> SUFFICES ASSUME TypeOK, Next, NEW s \in Slots,
                      req[s].phase = "sent", req'[s].phase = "ok", Untouched(req[s])
               PROVE  Keeps(table[req[s].id], table'[req[s].id])
    OBVIOUS
  <2> DEFINE id == req[s].id
             u == table[req[s].id]
             f == req[s].form
  <2>1. Succeeds(req[s]) /\ req[s].kind = "put" /\ f = EditForm(u)
    BY ServedOk DEF Untouched
  <2>2. Edits(req[s])
    BY <2>1 DEF Succeeds
  <2>3. id \in Ids /\ table \in Rows /\ u \in Row
    BY <2>1, FitsOnly, RowOfTable DEF Fits, OnRow, TypeOK
  <2>4. table'[id] = [u EXCEPT !.name = f.name, !.enable = f.enable,
                               !.limit = f.limit, !.expire = f.expire]
    BY <2>2, <2>3 DEF Edits, Rows
  <2> QED BY <2>1, <2>3, <2>4, UntouchedKeeps
<1> QED BY <1>1, PageTypes, PTL DEF Spec, UntouchedSaveKeeps

-------------------------------------------------------------------------------
(* Rest.  While a request runs alone a list that came is the table; since a read *)
(* that ran alone the page shows the table but for what the request under way    *)
(* does to it.                                                                     *)
Switched(l, r) ==
    [id \in Ids |-> IF id = r.id /\ Has(l, id) THEN [l[id] EXCEPT !.enable = r.form.enable] ELSE l[id]]
Settled(s) ==
    /\ req[s].phase = "sent" /\ req[s].kind # "list" => list = table
    /\ req[s].phase = "failed" => list = table
    /\ req[s].phase = "ok" /\ req[s].kind = "links" => list = table
    /\ req[s].phase = "ok" /\ req[s].kind = "toggle" => Switched(list, req[s]) = table
AloneInv ==
    alone => /\ \A s, t \in UnderWay : s = t
             /\ \A s \in Slots : req[s].kind = "list" /\ req[s].phase = "ok" => req[s].rows = table
FreshInv ==
    fresh => /\ alone
             /\ UnderWay = {} => list = table
             /\ \A s \in Slots : Settled(s)
PagesInv == TypeOK /\ AloneInv /\ FreshInv

LEMMA IdleIs == Idle.phase = "idle" /\ Asking("list", 0, NoRow, BlankForm).kind = "list"
                /\ Asking("list", 0, NoRow, BlankForm).phase = "sent"
BY DEF Idle, Asking

LEMMA InitPages == Init => PagesInv
<1> SUFFICES ASSUME Init PROVE PagesInv
  OBVIOUS
<1>1. PICK s \in Slots :
          req = [t \in Slots |-> IF t = s THEN Asking("list", 0, NoRow, BlankForm) ELSE Idle]
  BY DEF Init
<1>2. AloneInv
  BY <1>1, IdleIs DEF AloneInv, UnderWay
<1>3. FreshInv
  BY DEF FreshInv, Init
<1> QED BY <1>2, <1>3, InitTypes DEF PagesInv

(* Sending: with no other request under way the page may stay fresh. *)
LEMMA SendPages ==
    ASSUME PagesInv, NEW r \in Request, r.phase = "sent", Send(r), UNCHANGED <<table, list>>
    PROVE  AloneInv' /\ FreshInv'
<1>1. PICK s \in Slots \ UnderWay : req' = [req EXCEPT ![s] = r]
  BY DEF Send
<1>2. /\ req \in [Slots -> Request] /\ req'[s] = r
      /\ \A t \in Slots \ {s} : req'[t] = req[t]
  BY <1>1 DEF PagesInv, TypeOK
<1>3. CASE UnderWay = {}
  <2>1. \A t \in Slots \ {s} : req'[t].phase = "idle"
    BY <1>2, <1>3 DEF UnderWay
  <2>2. AloneInv'
    BY <1>2, <2>1 DEF AloneInv, UnderWay
  <2>3. fresh' => list = table
    BY <1>3 DEF Send, PagesInv, FreshInv
  <2>4. alone'
    BY <1>3 DEF Send
  <2> QED BY <1>2, <2>1, <2>2, <2>3, <2>4 DEF FreshInv, Settled
<1>4. CASE UnderWay # {}
  BY <1>4 DEF Send, AloneInv, FreshInv
<1> QED BY <1>3, <1>4

(* The only request under way is answered: none is left. *)
LEMMA LastOne ==
    ASSUME PagesInv, alone, NEW s \in Slots, req[s].phase # "idle", req' = [req EXCEPT ![s] = Idle]
    PROVE  UnderWay' = {} /\ \A t \in Slots : req'[t].phase = "idle"
<1>1. \A t \in Slots \ {s} : req[t].phase = "idle"
  BY DEF PagesInv, AloneInv, UnderWay
<1> QED BY <1>1, IdleIs DEF UnderWay, PagesInv, TypeOK

LEMMA AnswerPages ==
    ASSUME PagesInv, NEW s \in Slots, req[s].phase # "idle", req' = [req EXCEPT ![s] = Idle],
           UNCHANGED <<table, alone>>, fresh' => alone, fresh' => list' = table
    PROVE  AloneInv' /\ FreshInv'
<1>1. AloneInv'
  BY LastOne DEF AloneInv
<1>2. FreshInv'
  BY LastOne DEF FreshInv, Settled
<1> QED BY <1>1, <1>2

(* The handler of the only request under way. *)
LEMMA ServePages ==
    ASSUME PagesInv, NEW s \in Slots, Serve(s)
    PROVE  AloneInv' /\ FreshInv'
<1>t. TypeOK /\ req \in [Slots -> Request] /\ req[s] \in Request /\ Fits(req[s])
  BY FitsOnly DEF PagesInv, TypeOK
<1>1. req[s].phase = "sent" /\ UNCHANGED <<list, alone, fresh>>
  BY DEF Serve, page, history
<1>2. \/ Succeeds(req[s]) /\ req'[s].phase = "ok"
         /\ (req[s].kind = "list" => req'[s].rows = table)
      \/ req'[s].phase = "failed" /\ Refused(req[s]) /\ table' = table
  BY <1>t DEF Serve, Request, server
<1>3. req'[s].kind = req[s].kind /\ req'[s].id = req[s].id /\ req'[s].form = req[s].form
  BY <1>t DEF Serve, Request
<1>4. \A t \in Slots \ {s} : req'[t] = req[t]
  BY <1>t DEF Serve
<1>5. UnderWay' = UnderWay
  BY <1>1, <1>2, <1>4 DEF UnderWay
<1>6. alone => \A t \in Slots \ {s} : req[t].phase = "idle"
  BY <1>1 DEF PagesInv, AloneInv, UnderWay
<1>7. req[s].kind = "list" => table' = table
  BY <1>2 DEF Succeeds, server
<1>8. AloneInv'
  BY <1>1, <1>2, <1>3, <1>4, <1>5, <1>6, <1>7 DEF PagesInv, AloneInv
<1>9. ASSUME fresh PROVE Settled(s)'
  <2>1. req[s].kind # "list" => list = table
    BY <1>1, <1>9 DEF PagesInv, FreshInv, Settled
  <2>2. ASSUME req'[s].phase = "failed" PROVE list' = table'
    <3>1. Refused(req[s]) /\ table' = table
      BY <1>2, <2>2
    <3> QED BY <1>1, <2>1, <3>1 DEF Refused
  <2>3. ASSUME req'[s].phase = "ok", req[s].kind = "links" PROVE list' = table'
    <3>1. Succeeds(req[s])
      BY <1>2, <2>3
    <3> QED BY <1>1, <2>1, <2>3, <3>1 DEF Succeeds, server
  <2>4. ASSUME req'[s].phase = "ok", req[s].kind = "toggle" PROVE Switched(list', req'[s]) = table'
    <3> DEFINE r == req[s]
    <3>1. Toggles(r) /\ list = table /\ list' = list
      BY <1>1, <1>2, <2>1, <2>4 DEF Succeeds
    <3>2. r.id \in Ids /\ table \in Rows /\ r.form.enable \in BOOLEAN
      BY <1>t, <2>4 DEF Fits, OnRow, TypeOK, Request, Form
    <3>3. table' = IF Has(table, r.id) THEN [table EXCEPT ![r.id].enable = r.form.enable] ELSE table
      BY <3>1 DEF Toggles
    <3>4. Switched(table, r) = table'
      BY <3>2, <3>3 DEF Switched, Rows, Has
    <3>5. Switched(list', req'[s]) = Switched(table, r)
      BY <1>3, <3>1 DEF Switched
    <3> QED BY <3>4, <3>5
  <2> QED BY <1>2, <1>3, <2>2, <2>3, <2>4 DEF Settled
<1>10. FreshInv'
  <2> SUFFICES ASSUME fresh
               PROVE  alone' /\ (UnderWay' = {} => list' = table') /\ \A t \in Slots : Settled(t)'
    BY <1>1 DEF FreshInv
  <2>1. alone /\ s \in UnderWay
    BY <1>1 DEF PagesInv, FreshInv, UnderWay
  <2>2. \A t \in Slots \ {s} : Settled(t)'
    BY <1>4, <1>6, <2>1 DEF Settled
  <2> QED BY <1>1, <1>5, <1>9, <2>1, <2>2
<1> QED BY <1>8, <1>10

LEMMA StepPages == PagesInv /\ [Next]_vars => PagesInv'
<1> SUFFICES ASSUME PagesInv, [Next]_vars PROVE AloneInv' /\ FreshInv'
  BY StepTypes DEF PagesInv
<1>t. TypeOK
  BY DEF PagesInv
<1>1. ASSUME UNCHANGED <<req, table, list, alone, fresh>> PROVE AloneInv' /\ FreshInv'
  BY <1>1 DEF PagesInv, AloneInv, FreshInv, Settled, UnderWay
<1>2. CASE Poll
  BY <1>2, SendPages, Constants, AskingType DEF Poll, server, page, Kinds
<1>3. ASSUME NEW r \in Request, r.phase = "sent", Click(r) PROVE AloneInv' /\ FreshInv'
  BY <1>3, SendPages DEF Click, server, page
<1>4. ASSUME NEW id \in Ids, ClickDelete(id) \/ ClickLinks(id) \/ ClickToggle(id)
      PROVE  AloneInv' /\ FreshInv'
  <2>1. list[id] \in Row
    BY <1>t, RowOfTable DEF TypeOK
  <2>2. [BlankForm EXCEPT !.enable = ~list[id].enable] \in Form
    BY <2>1, Constants DEF Form, Row
  <2> QED BY <1>3, <1>4, <2>1, <2>2, AskingType, Constants
          DEF ClickDelete, ClickLinks, ClickToggle, Kinds
<1>5. CASE ClickIssue \/ ClickAdd
  BY <1>3, <1>5, <1>t, AskingType, Constants DEF ClickIssue, ClickAdd, TypeOK, Kinds
<1>6. CASE ClickSave \/ ClickRegenerate
  <2>1. dialog.id \in {0} \cup Ids /\ dialog.row \in Row /\ form \in Form
    BY <1>t DEF TypeOK
  <2>2. ASSUME NEW k \in Kinds, NEW f \in Form, Click(Asking(k, dialog.id, dialog.row, f))
        PROVE  AloneInv' /\ FreshInv'
    <3>1. \A i \in {0} \cup Ids, w \in Row :
              Asking(k, i, w, f) \in Request /\ Asking(k, i, w, f).phase = "sent"
      BY AskingType
    <3> QED BY <1>3, <2>1, <2>2, <3>1
  <2> QED BY <1>6, <2>1, <2>2, Constants DEF ClickSave, ClickRegenerate, Kinds
<1>7. CASE (\E id \in Ids : OpenEdit(id)) \/ OpenAdd \/ Type \/ Close
  BY <1>1, <1>7 DEF OpenEdit, OpenAdd, Type, Close, server, history
<1>8. ASSUME NEW s \in Slots, Answer(s) PROVE AloneInv' /\ FreshInv'
  <2>1. CASE ShowList(s)
    BY <2>1, AnswerPages DEF ShowList, server, PagesInv, AloneInv, FreshInv
  <2>2. CASE ShowToggle(s)
    <3>1. list' = Switched(list, req[s])
      BY <2>2 DEF ShowToggle, Switched
    <3>2. fresh => Switched(list, req[s]) = table
      BY <2>2 DEF ShowToggle, PagesInv, FreshInv, Settled
    <3> QED BY <2>2, <3>1, <3>2, AnswerPages DEF ShowToggle, server, history, PagesInv, FreshInv
  <2>3. CASE ShowLinks(s) \/ ShowError(s)
    BY <2>3, AnswerPages DEF ShowLinks, ShowError, server, page, history, PagesInv, FreshInv, Settled
  <2>4. CASE Reload(s)
    <3>1. /\ req' = [req EXCEPT ![s] = Asking("list", 0, NoRow, BlankForm)]
          /\ req[s].phase = "ok" /\ UNCHANGED <<table, list, alone, fresh>>
      BY <2>4 DEF Reload, server, history
    <3>2. req'[s].kind = "list" /\ req'[s].phase = "sent" /\ \A t \in Slots \ {s} : req'[t] = req[t]
      BY <1>t, <3>1, IdleIs DEF TypeOK
    <3>3. UnderWay' = UnderWay
      BY <3>1, <3>2 DEF UnderWay
    <3>4. s \in UnderWay
      BY <3>1 DEF UnderWay
    <3>5. AloneInv'
      BY <3>1, <3>2, <3>3 DEF PagesInv, AloneInv
    <3>6. FreshInv'
      BY <3>1, <3>2, <3>3, <3>4 DEF PagesInv, FreshInv, Settled
    <3> QED BY <3>5, <3>6
  <2> QED BY <1>8, <2>1, <2>2, <2>3, <2>4 DEF Answer
<1>9. ASSUME NEW s \in Slots, Lose(s) PROVE AloneInv' /\ FreshInv'
  <2>1. /\ req' = [req EXCEPT ![s].phase = "failed"] /\ req[s].phase \in {"sent", "ok"}
        /\ ~fresh' /\ UNCHANGED <<table, alone>>
    BY <1>9 DEF Lose, server
  <2>2. req'[s].phase = "failed" /\ \A t \in Slots \ {s} : req'[t] = req[t]
    BY <1>t, <2>1 DEF TypeOK, Request
  <2>3. UnderWay' = UnderWay
    BY <2>1, <2>2 DEF UnderWay
  <2> QED BY <2>1, <2>2, <2>3 DEF PagesInv, AloneInv, FreshInv
<1>10. CASE Others
  BY <1>10 DEF Others, AloneInv, FreshInv
<1>11. CASE UNCHANGED vars
  BY <1>1, <1>11 DEF vars, server, page, history
<1> QED BY <1>2, <1>4, <1>5, <1>6, <1>7, <1>8, <1>9, <1>10, <1>11, ServePages DEF Next, Clicks

(* load after every change, and the switch of an inbound that is not read back:   *)
(* since a read that ran alone and with nothing under way the page shows the      *)
(* table, and its badges say what the panel does, for any number of requests.      *)
THEOREM RestAlwaysShowsTable == Spec => []RestShowsTable
<1>1. PagesInv => RestShowsTable
  <2> SUFFICES ASSUME PagesInv, fresh, UnderWay = {}
               PROVE  /\ list = table
                      /\ \A id \in Ids : (userStatus(list[id], Now) = "on") <=> Active(table[id], Now)
    BY DEF RestShowsTable, Badge
  <2>1. list = table
    BY DEF PagesInv, FreshInv
  <2>2. ASSUME NEW id \in Ids PROVE (userStatus(table[id], Now) = "on") <=> Active(table[id], Now)
    <3>1. table[id] \in Row
      BY RowOfTable DEF PagesInv, TypeOK
    <3>2. /\ table[id].limit \in Nat /\ table[id].used \in Nat /\ table[id].enable \in BOOLEAN
          /\ table[id].expire \in Int \cup {Never}
      BY <3>1, Constants DEF Row
    <3> QED BY <3>2, OnMeansActive, PagesAssumption DEF PagesAssumption
  <2> QED BY <2>1, <2>2
<1> QED BY <1>1, InitPages, StepPages, PTL DEF Spec
===============================================================================
