# soooski panel: formal models

TLA+ models of the soooski panel: a Go program that administers two proxy
processes, sing-box and mtg-multi, from one users table, and a dashboard in
TypeScript that administers the panel.  Beside them the TLC runs that check them on
small instances, and proofs, checked by TLAPS, of what matters most for every
instance.  The code is the reference: a definition is translated from the source,
and `PROJECT.json` names the lines each one stands for.

    tlasany Pages.tla                              # parse
    tlc -workers 2 -config MCPages_web.cfg MCPages # one run
    tlapm PagesProofs.tla                          # one module of proofs

## 1. The system

One Go process.  `cmd/soooski/main.go` wires it together and starts these
goroutines, which all live as long as the process:

| goroutine | what it does |
| --- | --- |
| HTTP handlers (one per request) | the administrator's API; change the database, then call `apply` |
| charging loop (every 2 s) | poll both proxies' counters, add deltas to the users, call `apply` when somebody crossed the quota |
| TLS maintenance (12 h ticker and kicks) | issue and renew certificates, call `apply` when something changed |
| one waiter per child process | `cmd.Wait`, then clear the running flag |
| main | start-up, then wait for a signal and stop both children |

`apply` is a closure: `store.Snapshot()`, `compiler.BuildConfig`, `sup.Apply`,
and, only when that succeeded, `telegram.RenderConfig` and `tg.Apply`.  **It takes
no lock, every caller drops its error, and nothing retries it.**  Most of what is
hard in the panel follows from that sentence.

The dashboard (`web/src`) is a single page application that the panel serves below
the secret admin path.  Each of its pages keeps a copy of one table of the panel in
React state, sends requests with `fetch` whenever something is clicked or a timer
fires, and changes its copy, its dialogs and its forms when an answer comes, without
asking what else happened meanwhile.  **No request is cancelled or numbered, and the
base of every URL is the path the page was loaded from.**  Most of what is hard in
the dashboard follows from that.

### Inventory

| component | state | operations | hard behaviour | what makes it correct | model |
| --- | --- | --- | --- | --- | --- |
| core supervisor (`internal/supervisor/supervisor.go`) | `cmd`, `cancel`, `running`, `lastErr`; the shared configuration file; the child | `Apply`, `restart`, `Stop`, the waiter, `Running`, `LastError` | concurrent `Apply`s between its short critical sections; crash, slow death, a rejected configuration, a missing binary | implements "replace the configuration, then serve it"; a failed `Apply` disturbs nothing; no process is lost; the running flag is true | `Supervisor`, `ProxyContract`, `SupervisorProofs` |
| telegram runner (`internal/telegram/runner.go`) | the same, plus `lastCfg` | `Apply`, `reload`, `restart`, `Stop` | reload that is refused or answered late; a cache of what was applied | the cache describes what mtg has; disabling leaves no process; what is applied is served; implements the supervisor's contract | `TelegramRunner`, `ProxyContract`, `TelegramRunnerProofs` |
| traffic counters (`supervisor/traffic.go`, `telegram/stats.go`) | `seen` baselines | `Poll` | counters that restart, connections that close, polls that fail after other polls moved | implements a ledger: no byte is billed twice, none to another user | `Traffic`, `Ledger`, `TrafficProofs` |
| panel process (`cmd/soooski/main.go`) | none of its own | `apply`, the charging loop, start-up, shutdown, `reset-admin` | overlapping `apply`s; stale snapshots; a crossing of the quota seen by nobody | both proxies serve the active users, and only them | `Panel` (apply, loop) |
| user administration (`internal/api/server.go`, `internal/store`) | `users` rows | create, update, reset, delete, apply | read-modify-write of a row against the loop; nextWGIP | edits change what they name; usage is never given back; addresses are unique | `Panel`, `Settings` (Telegram secrets); addresses are not modelled |
| settings and domains (`api/server.go`, `store.go`, `models`) | `settings`, `domains` | `putSettings`, `applyRealityDest`, `applyTelegramSettings`, create/update/delete domain | several statements, validation between them, 400 after some were stored | REALITY target, fake domain and our own names stay apart; secrets match the fake domain; what is accepted is applied | `Settings`, `SettingsProofs` |
| certificate manager (`internal/tlsutil`) | `issuing`, key pairs on disk, status | `IssueAll`, `Maintain`, `Kick`, `GetCertificate` | a skipped run loses names; a pair is two files | a pair that is read fits together; every name is eventually tried | not modelled |
| ingress (`internal/ingress`) | routes | SNI routing, path routing | the SNI of REALITY, Telegram and our own hosts on one port | a name of ours reaches us | `Settings` (`RouteSNI`) |
| administrator and sessions (`api/server.go`, `store.go`, `cli.go`) | `admins`, `sessions` | login, logout, `me`, `putAdmin`, `reset-admin` | `reset-admin` is another process; a login that overlaps it | after a reset nobody is in who logged in before it | `Console`, `ConsoleProofs` |
| dashboard: list pages (`web/src/pages/Users`, `Dashboard`, `Inbounds`, `Domains`) | a copy of a table, one open dialog with its form, requests under way | load and timer; add, edit, regenerate, delete, links, switch, issue | answers out of order; a dialog on a row that is gone; a list of another time; lost requests | a write hits the row that was clicked; a saved form changes what was typed; the page comes to show the table | `Pages`, `PagesProofs` |
| dashboard: conversions (`lib/format.ts`, `date-picker.tsx`, `parseExpireDate`) | none | limits, dates and badges to forms and back | rounding to two decimals; a day against an instant | a form that is not touched keeps the user; the badge says what the panel does | `Formats`, `FormatsProofs` |
| dashboard: shell, login and settings (`App`, `Layout`, `Login`, `Settings`, `lib/api.ts`) | `authed`, `busy`, a copy `s` of the settings; the cookie; the path of the location | me, login, logout, load, save, save the account | a path that changes under a tab: other answers with status 200; two tabs with one cookie; a save that is refused half way; loads and saves of one tab whose answers come in any order | a page that was read alone shows what is stored, and its save rotates secrets only when asked; no tab hangs | `Console`, `ConsoleProofs` |
| bootstrap (`store.Bootstrap`) | all tables | first start | a crash between the inserts | a started installation is usable and its key pairs fit | not modelled |
| configuration compiler (`internal/compiler`) | none (a function) | `BuildConfig` | ports and tags must be distinct | one listener per port, a tag per user | which users: `Panel` |
| links, crypto helpers, environment, embedded assets, installer | none | formatting, random bytes, I/O | — | — | not modelled, see section 8 |

The components meet at five places: the **database** (SQLite; the driver runs one
statement at a time, and no handler wraps its statements in a transaction), the
**configuration files** of the two children (written with `os.WriteFile`, hence
truncate, then write; read by the child and by `sing-box check`), the **children**
(started, signalled, asked over HTTP), the **closures** `apply` and `Kick` that
`main` hands to the API and to the certificate manager, and the **API**, whose
answers are all that a page knows.

Every hazard of the code that a test would hardly reach is listed, with its line and
the properties that watch over it, in `PROJECT.json` under `hazards`.

## 2. Modules

    ProxyContract  <---implements---  Supervisor (one caller)      SupervisorProofs
                   <---implements---  TelegramRunner (one caller)  TelegramRunnerProofs
    Ledger         <---implements---  Traffic                      TrafficProofs
    Panel    (users table, apply, loop, requests)                  PanelProofs
    Settings (settings, domains, secrets, SNI routes, apply)       SettingsProofs
    ------------------------------- HTTP API -------------------------------
    Formats <---EXTENDS--- Pages (a list page, its requests)       FormatsProofs, PagesProofs
    Console  (tabs, cookie, account, settings page, reset-admin)   ConsoleProofs

| module | models | granularity |
| --- | --- | --- |
| `ProxyContract` | what `main` expects of `Supervisor.Apply` and of the runner's: an accepted configuration replaces the old one and is then served, nothing else disturbs it | abstract |
| `Supervisor` | `Apply`, `restart`, `Stop`, waiter, and the child processes | one critical section or system call |
| `TelegramRunner` | `Apply` with its cache, `reload`, `restart`, `Stop`, waiter, mtg | the same |
| `Ledger` | what accounting owes a user: a row grows only by bytes that moved and are due for the first time; bytes may be lost on the way, never invented, kept for another user or brought back after a reset | abstract |
| `Traffic` | `Counter.Poll`, `StatsCounter.Poll`, the loop's use of them, proxies that move bytes and restart | one poll or one SQL statement |
| `Panel` | the handlers that change users, the charging loop, `apply` | one SQL statement, or one replacement of one proxy's configuration |
| `Settings` | `putSettings` and what it calls, the domain handlers, the users' Telegram secrets, `apply`, `RouteSNI` | one SQL statement, or one replacement of one proxy's configuration |
| `Formats` | what a form shows of a limit, a date and a user, and what it sends back; `Expired`, `OverQuota`, `Active` of the panel | functions |
| `Pages` | one page with a table, from its mount on: clicks, dialogs, timer, requests, answers; the API's handlers; what others do to the table | one click, one handler, one answer |
| `Console` | tabs of one browser: login, logout, settings page, account page; several requests per tab, the handlers behind them; `reset-admin`; a path that changes | one click, one statement where another actor may come between, one answer |
| `MC…` | instances for TLC: symmetry, restricted specifications (`MCTraffic`, `MCSettings`, `MCConsole`) | |
| `…Proofs` | theorems and their lemmas | |

Operators with names such as `CheckFails`/`LookPathSkippingCheck` come in pairs: the
second one, above the first, is a plausible slip of the same code (a dropped guard,
a missing reset).  It is used by no specification; putting it in the place of the
first is how one sees that a property depends on that code.

### Supervisor

`fields` are the four fields under `mu`; `cmd` and `cancel` are set and cleared
together and share a variable.  A goroutine's program counter names the next thing
it will do: `open`, `write` (the two halves of `os.WriteFile`), `look`
(`exec.LookPath`), `check` (`sing-box check`, which reads *the file*), `take`,
`signal`, `reap` (the three parts of `Stop`), `start`, `set`, `sleep` (the rest of
`restart`).  `Main` calls `Stop` once, at shutdown.  The children read the file once,
when they start, and exit when it is unusable or somebody still holds the ports.

`Faults` says which of these can happen: a write error, a missing binary, a failed
start, a crash, a start slower than the 150 ms sleep, a death slower than the three
seconds `Stop` waits.

`Target` and `Serving` are the refinement mapping to `ProxyContract`: while restart has
taken the old process and the new one has not loaded anything, the target is the caller's
argument and nothing is served; otherwise both are what the published process has loaded.

### TelegramRunner

The same skeleton with what differs: `Same` (a running process with these bytes is
left alone), `Reload`/`ReloadFails` (mtg refuses, or reloads and answers after the
two-second timeout; the code then replaces the process), `Remember` (`lastCfg`, in a
critical section of its own), and `Off`, the argument of an `Apply` that finds
Telegram disabled.

`TelegramRunnerProofs` has the mapping to `ProxyContract`.  It differs from the
supervisor's in two ways: the caller's configuration becomes the target when the binary was
found, for from there on mtg is asked to reload and may do so and answer too late; and an
`Apply` that finds Telegram disabled, or fails to start a process after it has stopped the
old one, closes the proxy.

### Traffic

`bytes` are a connection's cumulative counters at sing-box, `seen` the counter's
baseline, `count` and `tgSeen` the same for mtg, per user and in two directions.
Polls replace baselines *before* the users are read and charged, so a failing
statement loses that round's deltas; the loop charges users in any order, as Go
iterates over a map.  History variables count what was moved and what became a delta.

`KeepsLedger` maps this to `Ledger`: `Moved` to `moved`, `Billed` to `taken`, the deltas of
both proxies together to `due`, `traffic` to `row`.  Bytes that move are a `Use`; a poll is a
`Collect`; a charge is an `Enter`, which loses the delta when the statement fails; a round
whose read of the users fails is a `Drop`; an administrator's reset and the deletion of a
user are a `Reset`; connections that open or close, a proxy that restarts and a poll that
fails are stutters.

### Panel

`row` is the users table, `served` and `secrets` are the user sets in the
configurations the two proxies run.  `Receive` … `Write` is a request;
`Before`/`AddTraffic`/`After` are the three statements per charged user of the loop;
`Snapshot`/`ApplyCore`/`ApplyTelegram` are `apply`.  A snapshot holds rows, and
`Active()` is evaluated by the clock when the configuration is built, as in the code.

The replacement of one proxy's configuration is one action here; what happens when
two goroutines are inside the *same* proxy's `Apply` is the subject of the two
modules above.  With `Appliers = {a1, a2}` in `MCSupervisor_serial.cfg` TLC shows that
they can lose a process (`NoOrphan`).  `Panel` does not assume this away: with fault
`collide`, `CoreCollides` and `TelegramCollides` make what the proxy serves arbitrary,
and the history variable `collided` remembers it for good.

### Settings

`host`, `reality`, `fake` and `on` are the four settings that matter to routing and to
mtg; `domains` are the names of the enabled rows; `secret` is, per user, the domain its
FakeTLS secret was made for, which is all that `TelegramSecretMatchesDomain` and
`RenderTOML` look at.  `pc` walks through `putSettings` in the order of the code: the
plain keys (`host`), `applyRealityDest` (`rread`, `rcheck`, `rset`),
`applyTelegramSettings` (`tread`, `tcheck`, `ton`, `tfake`), the rotation (`list`,
`rotate`, one user at a time in any order), and then `apply` as `snap`, `users`, `core`,
`mtg`.  A PUT without fields is an `apply` alone, like those of the loop.  `st` is the copy of the settings a goroutine works with, read once per
function as in the code, so a check can be made against values that have changed since.
A 400 or a failing statement leaves what was stored before it (`Reject`, `Fail`).

The two replacements are steps of their own, and either may fail.  When sing-box's does, mtg
is not touched (`ApplyCoreFails`); a failure leaves the old process serving, or none.  As in
`Panel`, two goroutines inside the `Apply` of one proxy make what it serves arbitrary
(`CoreCollides`, `MtgCollides`), and because the runner may from then on remember other
bytes than mtg has loaded, and skip a later `Apply` that runs alone, `collided` stays true:
any later `apply` may again leave anything.

Three names share port 443, and `RouteSNI` asks for them in the order mtg, ours,
REALITY.  `applyRealityDest` and `applyTelegramSettings` validate two of them; nobody
validates the third.  What can be promised is therefore relative, and the history
variables say to what:

* `vetted`: the names whose last validation ran alone, with no name of ours added since;
* `keyed`: no overlap and no failing rotation since the last rotation that ran alone;
* `synced`: no overlap, failure or rejection since the last `apply` that ran alone, and never
  two goroutines inside one proxy's `Apply`;
* `solo`: the goroutines that have run alone so far.

### Formats and Pages

`Pages` is one mount of one page.  `table` is what the panel stores, `list` the page's
copy (`users`, `rows`), `dialog` and `form` the open dialog with its fields, `links` the
links dialog, which opens when an answer comes and therefore may lie over another one.
`req` holds the requests under way, each with what it will do (`kind`, `id`, `form`) and,
once it is served, the rows it brings.  A click (`ClickSave` …) or a timer (`Poll`) sends,
`Serve` is the handler of the API, and `ShowList`, `Reload`, `ShowToggle`, `ShowLinks` and
`ShowError` are what follows the `await`: a change closes the dialog of its kind,
whoever's it is by then, and asks for the list again; the switch of an inbound alone is
written into the copy.  `Lose` is a `fetch` that rejects, before or after the handler ran.
`Others` is everybody else: another tab, another administrator, the charging loop.

A row carries `born`, the number of its INSERT, which no table stores: with
`AUTOINCREMENT` it is its id, and `WritesHitTheirRow` says what that is good for.

The units are parameters (`Kilo`, `Cents`, `Day`): the proofs hold for 1024, 100 and
86400, and TLC gets small ones.  A form's value is a number of hundredths, `Rounded` is
`toFixed(2)` one way and `Math.round` the other.  Dates are seconds, and days of UTC: the
picker hands on the day it was given, `parseExpireDate` makes the last second of it.

### Console

`stored`, `secrets`, `pw` and `sessions` are the panel's side: the admin path and the fake
domain, how often the users' secrets were rotated, the password by the number of its
change, and per token the password its login proved.  `base`, `authed`, `busy` and `copy`
are a tab's: the path it was loaded from (`basePath`), the state of `App`, of `Login` and of
`SettingsPage`.  All tabs share `cookie`.  A handler in which somebody may come between
two statements stops at `half`: `login` and `putAdmin` between checking a password and
using that, `putSettings` between storing the path and looking at the fake domain.
`ResetAdmin` is two statements of another process.

`Camouflage` answers when the tab's path is not the panel's any more: with a page, and
status 200.  `api()` returns its text, so `KnowsMe` and `LoginAnswered` take it for success and
`Adopt` makes `Junk` of the settings, whose fields are all absent.  Paths are taken to be
no prefixes of one another.

No button waits for an answer, so a tab may have several requests under way (`Slots`), which
are served and answered in any order.  A request remembers the path it was sent to (`url`)
and what became of the page that sent it: still `here`; `left`, so that `setS` has no effect
but a redirect still has; or `gone` with its document, so that nothing listens (`Forget`).

`Carriers` are the requests that may bring a tab's page new contents: saves, and loads whose
page is still there.  A load that is read before a save is stored, and whose answer lands
after the save's, puts the old values on the page; with nothing typed and nothing under way
it then shows an old fake domain, and the next save of anything sends it and rotates every
secret.  That happens in the code, within one tab, and it is a behaviour of the model.  The
two properties therefore promise nothing once a save has met another load or save of its tab
(`Meets`), until a load or a save has run with no other of them under way (`Settles`).
They do promise it for loads that overlap loads, and for any other requests in any order.
With `FALSE` for `Meets`, TLC finds `CopyShowsStored` and `RotatesOnlyWhenAsked` violated by
this very sequence.

History variables say to what a property is relative: `synced` (a load or save of the tab
ran alone, none of its saves has met another since, and nobody else changed the
settings), `edited` (what was typed since the copy was
replaced), `resetPw`, `root` and `late` (the password of the last reset, the one by which
the present password was set, and whether a password was being checked when the reset
began).

## 3. Runs

| run | instance | checks | shows |
| --- | --- | --- | --- |
| `supervisor_serial` | 1 caller, 3 configurations (1 invalid), 3 processes; write errors, missing binary | `TypeOK`, `NoOrphan`, `KeepsServing`, `ImplementsContract` | one caller implements the contract (liveness included); a failed `Apply` leaves the serving process alone |
| `supervisor_concurrent` | 2 callers and shutdown, every fault, both modes | `RunningTruthful`, `StatusExact` | the panel never claims a process nobody watches; a waiter of a replaced process never clears its successor's flag |
| `telegram_serial` | 1 caller, every fault, both modes | `TypeOK`, `CacheTruthful`, `AppliedHolds`, `OffStops`, `Installed` | what is remembered is what mtg has; an `Apply` that answers no error leaves its configuration with a process; disabling leaves nothing running; what was applied without an error is served, or reported as stopped |
| `traffic_loop` | rough: 2 users who move one byte through each proxy, every poll and statement may fail, resets and deletions; or calm: 1 user with up to 3 bytes, no administrator, working database, mtg may fail and restart | `TypeOK`, `RowsBacked`, `PresenceEarned`, `BilledOnce`, `CalmDropsNothing`, `KeepsLedger`, `CalmBills` | every step is one of the ledger's; nobody pays for another or is stamped without traffic; no byte is billed twice; in the calm no delta is lost between counter and row, and bytes of open connections are charged |
| `panel_overlap` | 1 user, a handler and the loop, every fault, a clock | `TypeOK`, `LoneApplyRepairs`, `UsageKept` | an `apply` that runs alone repairs everything; an edit never gives usage back |
| `panel_serial` | 2 users, requests that do not overlap, no fault | `OnlyWhatWasAsked`, `Removed`, `Restored`, `RaiseRestores` | edits change what they name; the README's promises on quotas hold when nothing overlaps |
| `panel_expired` | 1 user, no overlap, no fault, a clock | `ExpiredRemoved` is **violated** | nobody applies when a date passes |
| `settings_edits` | 1 goroutine, 3 names, 2 users, requests that name up to 2 settings; or 2 goroutines with 3 requests that may overlap; any statement and either `Apply` may fail, two `Apply`s may collide | `TypeOK`, `VettedNamesApart`, `SecretsFit`, `AcceptedIsApplied` | validated names stay apart whatever else is edited; a rotation leaves no user out; what is accepted is what both proxies get, after an `apply` that ran alone and met no error, unless two `Apply`s of one proxy ever met |
| `settings_sni` | 1 goroutine, 3 names, no fault | `OursReachPanel` is **violated** | a domain is added that is the fake domain; its visitors reach mtg |
| `web_pages` | each of the 4 pages, 3 rows to begin with (one each), 2 ids, 2 requests at once, 2 clicks, 1 thing that others do or the network loses | `TypeOK`, `RestShowsTable`, `WritesHitTheirRow`, `UntouchedSaveKeeps`, `ListConverges` | a write hits the row that was clicked; an untouched form keeps the user; at rest the page shows the table, and a page with a timer comes to |
| `web_console` | 2 requests at once, 2 paths (one can be typed in two ways), 2 fake domains, 2 sessions, 2 passwords; 1 tab with 4 clicks, or 2 tabs with 3 clicks and 1 thing lost, expired or done elsewhere | `TypeOK`, `ResetEvicts`, `CopyShowsStored`, `RotatesOnlyWhenAsked`, `TabDecides`, `LoginReleased` | `reset-admin` evicts; a settings page that was read alone shows what is stored, through refused saves, redirects and pages left, and its save rotates secrets only when asked, as long as nobody else saves and no save of the tab meets another load or save of it; no tab stays blank, no login form busy |
| `web_path` | the same, 3 clicks, nothing lost | `LogsIntoNewURL` is **violated** | a path typed as it will be stored leaves the tab at the old URL |

### Bounds, and why they are enough

* *Callers.* Races of `Apply` are pairwise: the fields it shares are overwritten, not
  accumulated.  Two callers and main give every pairwise order.
* *Processes.* Identities are used once; three allow a process that is replaced, its
  replacement, and the one that replaces that.  `Call` requires a fresh identity for
  every `Apply` under way, so no caller is stuck for want of one.  A behaviour ends
  when they are used up, hence `CHECK_DEADLOCK FALSE`.
* *Configurations.* Code compares them for equality and validity only: two valid and
  one invalid distinguish everything it does.
* *Bytes.* `MaxBytes`, `MaxTg`, `MaxUsed` let a counter move, be polled, move again
  and restart.  Differences and the guard against negative ones depend on order only.
  A counter restart below, at and above the baseline are all reached with 3.  In the rough
  instance a connection has one byte and mtg one between the two users (`Small`): it is
  about which user a delta belongs to while polls and statements fail, and one byte has an
  owner already.  The proofs cover any number of bytes, users and connections.
* *Users.* Two where one could pay for, or hide, the other; one where a run is about
  the interleaving of two goroutines on a row.
* *Names.* Three: one for each route, so that any two can be made to collide while a
  third stays free for a change that is allowed.  `MaxFields = 2` covers one request
  that changes both validated names, or a name of ours and one of them.
* *Goroutines in `Settings`.*  One with any number of requests, whose fields, the known users
  and the enabled domains are three together (`Medium`); or two with three requests, two names, one user and one
  field per request (`Small`): two that overlap, and one alone that repairs or fails to.
  What collides, collides in pairs.  The proofs cover any number of each.
* *Time.* `MaxTime = 1` is a date that is in the future and then has passed.  `Panel`
  saturates usage at `MaxUsed`, which is at or above every limit.
* *Limits and dates in `Pages`.*  A megabyte of 16 bytes and a hundredth of 4: limits of
  1, 63 and 70 bytes are rounded away, up and down; a date in the middle of this day, one
  that has passed and none; the moment stands still, for what time does is in `Panel`.
  The proofs of `Formats` hold for all limits, dates and units.
* *Requests in `Pages`.*  Two under way: answers come out of order as soon as there are
  two, and a third changes nothing that two in a row do not.  Two clicks and one event of
  others let a row be opened, deleted, recreated and saved.
* *`Console`.*  Two requests at once: the answer of one comes before or after the other was
  served and answered.  Four clicks in one tab that stays logged in (`Steady`: open the page,
  load again, save, save again), nothing lost; or three in two tabs with one loss, expiry or
  save elsewhere, and at most one field typed over per tab (`Few`): a login or a load, a
  change, and what follows it in the other tab.  `MCInit` opens one tab and leaves the other
  closed; it starts at one path and one fake domain, for they are alike.  Two passwords are
  the old and the new one.
* *Deadlock* is not checked for `Supervisor`, `TelegramRunner` (above) and `Panel`
  (a panel that nobody sends a request to is at rest, and the clock is bounded).  Nor
  for `Pages` and `Console`, whose clicks are bounded.  It is checked for `Traffic`, whose
  loop never stops, and for `Settings`, where a new request can always begin.
* *Symmetry* is used in safety runs only.

### Fairness

Weak fairness of a goroutine that is under way (Go schedules goroutines; each
blocking call in `Apply`, `Stop` and `apply` has a timeout or ends by itself), of a
starting process reading its file, and of a signalled process dying (`SIGKILL`
follows after three seconds).  `Traffic` adds the ticker: a round is begun again and
again.  `Pages` adds the page's timer (`setInterval` fires while the page is open) and that
a request is served and answered or fails; `Console` that every request ends in some
answer or a failure: `fetch` rejects when the connection breaks.
Nobody is assumed to click, to send a request, to move bytes, to crash, or to let the
clock run.  No strong fairness is assumed anywhere.

## 4. Proofs

All are for every value of the constants; the only assumptions are the named ones in the
modules (`SupervisorAssumption`, `RunnerAssumption`, `TrafficAssumption`,
`PanelAssumption`, `SettingsAssumption`, `FormatsAssumption`, `PagesAssumption`,
`ConsoleAssumption`) and, where the table says so, one caller of `Apply`, the kinds of
faults, or requests that do not overlap. The named ones say that model values differ, that
bounds are naturals, that limits contain "unlimited", that the units are positive and a
form's decimals are finer than a megabyte, that a path in normal form is its own normal
form, and that the connections a run of the panel ever sees are finitely many (each has an
identifier of sing-box's, a UUID).

| theorem | says | argument |
| --- | --- | --- |
| `SupervisorProofs!TypeCorrect` | types | inductive with `Armed`: a goroutine inside `Apply` has an argument |
| `SupervisorProofs!RunningIsTruthful` | `[]RunningTruthful`, any number of callers and every fault | with `Started`: a goroutine about to publish has a process.  The flag is set in the critical section that publishes, and cleared in the one that unpublishes |
| `SupervisorProofs!SerialNoOrphan` | with one caller, `[]NoOrphan`, shutdown included | with `Cleared`: between taking the old process and publishing the new one nothing is published, so publishing overwrites nothing.  It is exactly this that two callers break |
| `SupervisorProofs!StatusIsExact` | `[]StatusExact`, any number of callers and every fault | with `NothingStarted`: in no-op mode nothing is published.  `Waiter`'s guard `cmd = k` is what keeps the flag of a successor |
| `SupervisorProofs!EarlyStopKeepsServing`, `!ImplementsContractSafely` | with one caller, write errors and a missing binary: `[]KeepsServing`; `Contract!Init` and `[][Contract!Next]` | `ServeInv`, below |
| `TelegramRunnerProofs!RunnerTypes` | types | as `TypeCorrect` |
| `TelegramRunnerProofs!CacheIsTruthful`, `!AppliedAlwaysHolds`, `!DisablingStops`, `!NoProcessIsLost` | with one caller and every fault, `[]CacheTruthful`; `[]AppliedHolds`; `[]OffStops`; no live mtg is out of the runner's reach until the panel shuts down | `CacheInv`, below |
| `TelegramRunnerProofs!RunnerIsTruthful` | any number of callers and every fault: mtg counts as running only while a process is published whose waiter has not yet reported its end | as `RunningIsTruthful` |
| `TelegramRunnerProofs!RunnerImplementsContract` | with one caller, write errors, a missing binary, refused or late reloads and failed starts: `Contract!Init` and `[][Contract!Next]` | a `ServeInv` of its own, below |
| `TrafficProofs!TrafficTypes` | types; no delta is negative | `AccountInv`, below |
| `TrafficProofs!ImplementsLedger` | `KeepsLedger` | `AccountInv`, one lemma per kind of step of the ledger |
| `TrafficProofs!RowsAlwaysBacked` | `[]RowsBacked` | from the ledger, below |
| `TrafficProofs!NothingIsDropped`, `!CalmNeverDrops` | while the database answers and nobody resets or deletes, what was billed is in the row or due, even if polls fail, for any users; `[]CalmDropsNothing` of the specification that TLC runs | equality where the ledger has "at most" |
| `TrafficProofs!PresenceIsEarned` | `[]PresenceEarned` | from `BillingInv`: a positive delta of mtg is backed by bytes, and a connection is never new again |
| `TrafficProofs!NoDoubleBilling` | `[]BilledOnce` | `ConnInv`: what an attributed connection was billed is its baseline, which never exceeds its bytes.  `UserInv`: what an mtg user was billed and what the next poll would bill (everything if a counter went down, else the difference) were both moved, with the baseline a set of at most one pair |
| `PanelProofs!PanelTypes` | types | below |
| `PanelProofs!LoneApplyRepairsAll` | `[]LoneApplyRepairs` | below |
| `PanelProofs!UsageIsKept` | `UsageKept`, every overlap and fault | only `Write` and `AddTraffic` write rows (`RowStep`), and a row that is not there has used nothing |
| `PanelProofs!OnlyTheAsked` | `OnlyWhatWasAsked` when requests do not overlap | `SerialInv`: one goroutine at most is under way, and what an update has read is still the row when it writes.  With an overlap it is false |
| `SettingsProofs!SettingsTypes`, `!VettedStayApart`, `!SecretsAlwaysFit`, `!AcceptedAlwaysApplied` | types; `[]VettedNamesApart`; `[]SecretsFit`; `[]AcceptedIsApplied`; any number of goroutines and every fault | below |
| `FormatsProofs!FormLimitNear`, `!FormExpireSameDay` | what a form nobody touches does to any limit and date | division with remainder, per unit |
| `FormatsProofs!OnMeansActive`, `!ExpiredColumnLags` | the badge is `Active()` of the Go code; the column "Expired" lags it by a day | cases |
| `PagesProofs!PageTypes`, `!WritesAlwaysHitTheirRow`, `!UntouchedSaveAlwaysKeeps`, `!RestAlwaysShowsTable` | types; the two action properties; `[]RestShowsTable` | below |
| `ConsoleProofs!ConsoleTypes`, `!ResetAlwaysEvicts`, `!CopyAlwaysShowsStored`, `!NeverRotatesUnasked` | types; `[]ResetEvicts`; `[]CopyShowsStored`; the action property; any number of tabs and of requests under way in each | below |

`ServeInv` follows a configuration through `Apply` until `main` takes the process to stop
it.  `Written`: from the write on, the file is the caller's, and from a passed check to the
end it is valid.  `Handover`: at each step of restart, which process is being killed or
started, what it has loaded, and that all others are unborn or dead, so that the new one
finds the ports free.  `Settled`: outside restart nothing was ever published, or what is
published serves.  `Loads`: who serves has loaded something and who starts has not.
`View` reads `Target` and `Serving` off these, and `StepContract` sends every action to a
step of the contract: `StopTake` to `Replace`, or to `Close` for `main`; loading a published
process, or publishing one that has loaded, to `Serve`; everything else to a stutter.

`CacheInv` is about one caller until `main` shuts down: a live process is published or in the
caller's locals (`NotLost`); nothing is published between restart's `Stop` and its own
publication, nor after a disabling `Apply` (`Cleared`); nobody has killed what is published
(`Fresh`); the file is the caller's from its write on (`Written`); and `lastCfg` describes
mtg as long as the file was not overwritten, the caller's configuration from the reload or
the new process on (`Cached`).  Between the two neither holds, which is right because every
way out of that stretch forgets `lastCfg`, clears `running` or overwrites both.  `Cached`
also says that an `Apply` that has answered no error has left its configuration with the
published process, which is `AppliedHolds`; the shortcut `Same` has that from what
`lastCfg` describes.

The runner's `ServeInv` is the supervisor's argument without crashes: outside restart one
process is published and serves, or none lives (`Settled`); inside it, `Handover` says which
one is killed or started, that all others are gone, and that the new one has loaded nothing
but the caller's argument.  The contract allows no crash to happen silently, and a death
that takes longer than three seconds would leave the port to the wrong process, hence the
assumption on `Faults`.  TLC has checked `ServeInv` and the mapping with three processes
before they were proved; no run of the project repeats that, for the theorem says more.

`TrafficProofs` is about sums over a user's connections.  `SumFunctionOnSet` of the
community modules is a fold, and a fold is a recursive function on the subsets of a set,
chosen by the equation it solves.  That such a function exists (`Solvable`), is the only one
(`SolutionsAgree`) and that adding one element adds one summand (`SumAdd`) are inductions
over finite sets.  The library's induction rules cannot be used, but its fact that proper
inclusion of finite sets is well founded can: `MinimalSubset` says that a set of finite
sets that is not empty has a smallest member, and each induction is done by the smallest
counterexample, which is a set and no operator.  Then:

* `AccountInv` is `TypeOK`, `BillingInv` and `Phases`.  A delta is a natural number because
  a baseline never exceeds the counter (`BillingInv`) or the counter went down and counts as
  a whole; and a poll may overwrite the deltas because it finds none (`Phases`).  Without
  `Phases` a poll might forget what is due, and is no `Collect`;
* `StepLedger` sends every action to a step of the ledger or a stutter;
* `RowsBilled`, a row and what is due for it are within what was billed, is kept by every
  step of the *ledger* (`LedgerKeepsRows`), whichever step of the program that was; with
  "what was billed was moved" it gives `RowsBacked`;
* `NothingIsDropped` is the same sum with equality.  It needs the actions themselves, for
  the ledger does not say when bytes may be lost.

`LoneApplyRepairs` says: when the panel is at rest and nothing overlapped, failed or
expired since the last `apply` that ran alone, both proxies serve exactly the active
users, unless two goroutines were ever inside one proxy's `Apply` (`collided`).  That is not inductive, for it says nothing of the states between.
`RepairInv` strengthens it with four parts:

* `Places`: types, which steps a handler and the loop can be at, and that the loop
  holds a user exactly between its two reads;
* `Alone`: a goroutine in `solo` (it took its snapshot alone) is the only one under
  way; while `trusted`, at most one is;
* `Fresh`: such a goroutine's snapshot *is* the table, and once it is at mtg, sing-box
  serves the table's active users;
* `Synced`: while `trusted`, both proxies agree with the table at rest, in a handler
  before its write, and in the loop until it knows that something changed; between
  the loop's two reads they agree for everybody but the user it is charging, for whom
  they still agree with `was`.

Every action gets a step in each of `StepPlaces`, `StepAlone`, `StepFresh` and
`StepSynced`; `RepairInv` implies `LoneApplyRepairs` at rest.

The four theorems of `SettingsProofs` share one inductive invariant, `SettingsInv`:

* `Types`: types, that a step is taken only for a field the request names, and that a
  goroutine has at most one copy of the settings;
* `Alone`: a goroutine in `solo` is the only one under way; while a goroutine that is
  not in `solo` is under way, `vetted` is empty and `keyed` and `synced` are false;
* `Fresh`: the copy of a goroutine in `solo` is the table up to the fake domain it is
  about to replace, the name it has validated still differs from all others, and once it is at
  mtg, sing-box has the stored REALITY target unless `collided`;
* `Apart`: a vetted name is none of ours, and the vetted REALITY target is not the fake
  domain;
* `Keys`: while `keyed`, all secrets fit the fake domain; or a goroutine has just stored
  a new one and they fit the old one (`list`); or they fit but for the users still in
  `left` (`rotate`);
* `Distrusted`: once `collided`, never `synced` again;
* `Applied`: at rest and while `synced`, both configurations say what the tables say.

`Moves` says what every step but the start of a request has in common; with `Alone` it
reduces each of the five step lemmas to the goroutine in `solo`, where nothing can come
between reading and writing.

`PagesProofs` proves its types once, with a lemma per group of actions, and gets the two
action properties from them: what a request changes is decided by its id, and types say
that a row is stored under the number of its INSERT, so a row that is found under the id
that was clicked is the row that was clicked (`WritesHitTheirRow`), and that a put carries
the row its dialog was opened on, so that the lemmas of `FormatsProofs` apply to it
(`UntouchedSaveKeeps`).  `RestShowsTable` needs `PagesInv`:

* `AloneInv`: while `alone`, at most one request is under way, and the rows that an answer
  brings are the table;
* `FreshInv`: while `fresh`, the list is the table, and stays it through the one request under
  way (`Settled`): before it is served, unless it reads; after it failed; and for a switch
  that was served, once the page has written the flag it asked for (`Switched`).  A change of
  another kind is followed by a read, and that read is alone.

`ConsoleProofs` has an invariant for each of the two state properties:

* `ResetInv`: no reset is newer than the password in force, and unless `late` (`NewerOnly`)
  the password in force, every password that was checked and is about to be used, and, when
  `reset-admin` is not between its two statements, every session are of the last reset or newer.
  The middle one is why it is inductive: it is what a session or a password is made of next;
* `CopyInv`: every tab is in step (`InStep`).  While `synced`, no carrier of the tab was
  answered by the other website; every carrier that was answered brings the stored settings;
  a save is the only carrier there is (`Meets` saw to that when it was sent); and as long as
  nothing answered is on its way, a shown copy differs from the stored settings only in fields
  that were typed over (`Agrees`).  A save is `Faithful`: unless the page was left, the copy
  is shown and the path that was sent is the copy's unless typed over since; and unless it
  was asked to rotate, the fake domain it sent is the stored one.  The last part is all that
  `RotatesOnlyWhenAsked` needs; the path is what makes a half stored save agree again.
  TLC had checked `CopyInv` on a small instance before it was proved.

Only model-checked: liveness (`Installed`, `CalmBills`, `Removed`, `Restored`,
`RaiseRestores`, `ListConverges`, `TabDecides`, `LoginReleased`, the fair half of
`ImplementsContract`), which TLAPS cannot reach.  Every invariant and every action property
of a passing run is also the subject of a theorem; those of `Supervisor`, `TelegramRunner`
and `Panel` under the assumptions named in the table, which are those of the runs.

## 5. Where code and documentation differ

Three runs end in a violation, each of one sentence of the repository:

* `panel_expired`: README: "Over-quota, expired, or disabled users are removed from the
  live secret set and cannot connect."  Not when, with nothing overlapping at all, a date
  passes and nobody applies.
* `settings_sni`: SNI "`public_host` or a domain in the panel" goes to "HTTPS: admin UI,
  client subs, path-muxed proxies".  Not when the domain that is added, or the new
  `public_host`, is the fake domain: only the fake domain and the REALITY target are
  validated, and only when they are changed.
* `web_path`: the settings page says "Changing the admin path logs you into the new URL."
  `saveSettings` compares the answer with the path it sent, not with the one it was loaded
  from, and goes to the new URL only when the panel normalised what was typed.  Otherwise
  the tab stays where the panel no longer is, and its next requests get the camouflage page.

Smaller ones that the models show and no run is spent on: two overlapping `Apply`s can lose
a sing-box (`NoOrphan` with two callers); a user over quota can stay served after an `apply`
with an older snapshot (`Panel`, an overlap); a limit below half a hundredth of a megabyte
becomes unlimited in an untouched edit form; saving the untouched form of a user who is over
quota *and* disabled enables him; an answer closes whatever dialog of its kind is open by then; an old answer of a load
that lands after that of a save leaves the old settings on the page, and the next save from
that tab puts an old fake domain back and rotates every user's secret (`Console`, `Meets`);
and after two `Apply`s of mtg have met, one that runs alone may be skipped for what the
runner remembers (`CacheTruthful` with two callers).

`PROJECT.json` has the lines.

## 6. What could come next

`Supervisor` with its contract, `Traffic`, `Panel`, `TelegramRunner`, `Settings`, `Formats`,
`Pages` and `Console` are done, with the theorems of section 4.  In this order one would add:

1. `CertManager`: `IssueAll` with `issuing`, kicks and ticks, two-file pairs with a crash
   between them.  Properties: a pair that is loaded fits; a name that is added is tried in
   the end.
2. `UserRows`: creation with `nextWGIP` (252 addresses, modelled by a small pool).
3. `Bootstrap`: a first start with a crash between any two inserts.
4. `Compiler`: tags and ports as functions, checked against "one listener per port".

## 7. Layout

`PROJECT.json` lists components, runs, the map from definitions to lines, the
variants that break each property, findings, hazards and theorems.  A run is
`tlc -config <cfg> <module>`; constants get their values in the `.cfg` only.

## 8. Not modelled

* Share links, Clash and sing-box subscription files (`internal/links`): formatting.
* `internal/crypto`, `internal/config`, `internal/web`: random bytes, environment
  variables, embedded files; no state that changes.
* Settings that are stored and compared with nothing (`hy2_obfs`, `camouflage_url`,
  `acme_email`), and the syntax of host names: `Settings` takes names as already normalised.
* Of the dashboard: the search field, the button that opens a user's page, the clipboard,
  notes, a domain's mode and provider (stored as they are sent), the figures and
  certificates of the dashboard page (`Pages` has its timer and its button), the widgets of
  `components/ui` but for the date picker and the dialog, and styling.
* The certificate manager: nearly all of it is ACME over the network.  The first start: a
  sequence of statements that nobody interrupts but a crash.  WireGuard addresses, ports,
  tags and route rules: functions of the tables.  What can go wrong there is in the list of
  hazards, without a property.
* A change of the administrator's name alone (`Console` has the password).
* The installer and the packaging scripts: they run before the panel does.
* Inside sing-box and mtg nothing is modelled but what the panel's code relies on:
  they read a file at start (mtg also on `/reload`), hold ports, count bytes, exit.
