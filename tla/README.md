# Omni: TLA+ models of the backend's concurrent core and of the web client

Omni is a multi-tenant administration system: a FastAPI backend on MySQL and Redis, one asyncio
process, and a React client.  In the backend, what can go wrong is mostly what happens between two
`await`s, in a thread beside the loop, or when the process dies between two writes.  In the client it
is what happens between a request and its reply, between two tabs, timers, sockets or sheets, and in the
forms that translate between what is shown and what is kept.  These modules model both.  Paths are
relative to `src/src/omni_api/` for the backend and to `src/web/src/` for the client.

## 1. Inventory

### Backend

| component | state it keeps | operations | talks to | what makes it correct | module |
|---|---|---|---|---|---|
| Job executions (`services/scheduled_job_manager.py`, `scheduled_job_runner.py`) | claims `_running_keys`, tasks `_run_tasks` (memory); run rows, status lights, tenant switches (MySQL) | trigger, cron dispatch, tenant stop, shutdown | cron loops call it; handlers of other components run in it | one execution per key; claims released; rows closed | `ScheduledRuns`, `OneAtATime` |
| Cron loops (`services/scheduled_job_manager.py`) | `_tasks`, `_cron_exprs` (memory); `enabled`, `cron_expr` (MySQL) | update, start, stop, startup, shutdown | executions | memory agrees with the row; no loop is lost | `JobLoops` |
| Download center (`services/export_job_service.py`, `export_job_worker.py`, `export_job_cleanup.py`) | queue and workers (memory); job rows (MySQL); files (object store) | enqueue, work, read, expire, clean up | cleanup runs as a scheduled job; badges go to the realtime hub | no job forgotten or done twice; what is offered exists; no orphan files | `ExportJobs` |
| Login sessions (`services/session_service.py`, `data/redis/session_store.py`, `services/tenant_expiry.py`, `tenant_user_offboard.py`) | `session:{token}`, `user_sessions:{uid}` (Redis); memberships, packages (MySQL) | login, resolve, refresh, switch, logout, profile, offboarding, expiry job, password change | every request; the realtime probe refreshes it | served tenant and soft lock are true; sessions are found by revocation | `Sessions` |
| Middleware chain (`api/*_middleware.py`) | per-request caches | resolve, lock, permit, audit | sessions, audit | as sessions | part of `Sessions` |
| Export badges (`services/export_job_realtime.py`) | none | count and push | export jobs, hub, client | the last badge is the true one | `ExportBadge` (as the client sees it) |
| Realtime hub (`services/realtime_hub.py`, `data/redis/realtime_pubsub.py`, `api/realtime_ws.py`) | connections, channels, probes, fingerprints | register, subscribe, probe, publish, deliver | sessions, Redis pub/sub, the client's socket | one probe per subscribed token; its subscribers hear of its session | `RealtimeHub` (the session's channel) |
| Roles (`data/mysql/role_repo.py`) | roles, grants | CRUD, alignment with the package | sessions read them | a tenant's admin has exactly the package | not modelled |
| Tenant onboarding (`services/tenant_onboarding.py`, `tenant_admin.py`, `tenant_code.py`) | tenants, bindings, codes | create, bind admin, allocate code | roles, departments, schema cache | unique codes; one admin; no half tenant | not modelled |
| Departments (`data/mysql/dept_repo.py`) | tree per tenant | create, move, delete | data scopes | a tree: one root, no cycle | not modelled |
| Tenant schema cache (`data/mysql/tenant_schema_cache.py`) | set of known tables | ensure | all tenant tables | known tables exist | not modelled |
| Audit (`services/audit_service.py`, `data/mysql/sql_audit_listener.py`) | queue, tables, archive | record, export, purge | every request | purged rows were archived | not modelled |
| Users, profiles, preferences, developer parameters | rows | row at a time | | | not modelled: one statement each |

### Web client

| component | state it keeps | operations | talks to | what makes it correct | module |
|---|---|---|---|---|---|
| Session store (`stores/auth-session-lifecycle.ts`, `db/session-repo.ts`, `lib/session-expired.ts`) | token, user, flags (memory); a row in IndexedDB | login, switch, logout, refresh, push, purge, page load | sessions; every request carries its token | token, user and row agree; nobody is bounced with a token | `WebSession` |
| Realtime connection (`lib/realtime/ws-client.ts`) | socket, timers, reference counts | connect, subscribe, reconnect, heartbeat | the hub | one socket is heard; it comes back | `RealtimeClient` |
| Export badge (`hooks/use-export-job-badge.ts`) | two counters | ask, be pushed, visit | download center | catches up with the exports | `ExportBadge` |
| Administration pages (`pages/*Page`) | list, sheets, drafts, busy marks | open, fill in, save, act on a row, reload | the API of each table | rows keep their data; the list follows; one handler per row | `EditPages` |
| Paged lists (audit logs, download center, runs, tenants to run for) | filter, page, rows, accumulated rows | filter, page, scroll | the API; events of exports | the reply shown is to what is asked; scrolling reaches all | `WebLists` |
| Table preferences (`hooks/useTablePreferences.ts`) | configuration, timer, cache | edit, save, read, reset | the API, IndexedDB | page and server agree in the end | `TablePrefs` |
| Table columns (`types/table-preference.ts`, `components/table`) | a preference per column | move, hide, pin, resize, drag | preferences | nothing is lost to an edit or a release | `TableColumns` |
| Role assignment (`lib/permissions.ts`, `lib/data-scope.ts`) | ticks | tick, save, open | roles | ticked is granted, stably | `RoleAssignment` |
| Schedule editor (`lib/cron-builder.ts`) | the expression | click, parse, build | cron loops | shown means the same as kept | `CronBuilder` |
| Date filter (`lib/datetime.ts`, `components/form`) | a range of days | pick, preset, change the zone | lists, audit export | the days asked for, in the user's zone | `DateRange` |
| Client-side lists (`hooks/useClientPagination.ts`) | sort, page | sort, page, reload, scroll | pages | every row once | `ClientPages` |
| Region field (`components/region-cascader`, `lib/detect-current-region.ts`) | province, city, district | pick, locate, send | locating services | names and code of one district | `RegionPicker` |
| Side navigation (`lib/device-nav-layout.ts`, `components/layout/side-nav-*`, `hooks/use-nav-catalog-expanded.ts`) | layout and unfolded catalogs (localStorage); ball, drag, hover menu | fold, drag, hover, resize, navigate | the session: whose menu it is | the ball can be reached; the menu closes; each user's own catalogs | `SideNav` |
| Filter toolbar (`components/layout/PageFilterToolbar.tsx`) | fold, what the page's header knows | fill in, fold, change tab or screen | lists | no set filter is hidden silently; the switch works | `FilterToolbar` |
| Pictures and background before the login (`lib/race-cdn-image.ts`, `components/auth/mount-auth-prism.ts`) | the network chosen; pending frame and timer | probe, mount, show, hide | content networks, the browser's loop | no picture waits for nothing; painting stops when unseen | `Scenery` |
| Headers, menus, dialogs | local presentation state | hover, open, theme | | | not modelled |

`PROJECT.json` lists the hazards of each with their lines.

## 2. How the code is modelled

A step of the backend runs from one suspension point to the next: an `await` on I/O, a thread's
single Redis command, or a handle of the event loop.  A step of the client runs from one task of the
browser's loop to the next: a click, a reply, a timer, a callback, with the effects React runs after it.
What the code does without suspending is one step.  A call that fails may have taken effect all the same.

Where the code may go astray in ways the properties must except, a model records *how*, in `astray`, `strays`, `late` or the
like, and the property says that nothing but the named causes explains a bad state.  A cause is recorded at the step of the code
that makes it possible, never by looking at the bad state itself.

### Backend

**`ScheduledRuns`.**  `phase[r]` is the call execution `r` awaits; the tables
`OnReturn`, `OnRaise`, `RowWritten`, `LightWritten` are `execute_job` as a graph.
`soon` is the event loop's FIFO of ready handles (first step of a task, its done
callback, the wake-up of a stop), and its order matters: a stop wakes after the done callback of
what it awaited, and a claim that comes between an end and its callback loses its tracked entry to it.  A cancelled task that never started
does not run its `finally`.  `success` stands for whatever status the handler
reports.  A system job that is triggered with a tenant is another key, as in the
code.  `RowWritten` and the light ignore `next_run_at`.

**`JobLoops`.**  One job: jobs share nothing.  A request is
`update -> reread -> awaitStop -> refresh`, suspended at each; `StartJob`,
`CancelTracked`, `ForgetTracked` and `Create` are the synchronous pieces of
`_start_job`, `_stop_job` and `_reload_job`.  Loop identities are reused once
nobody refers to them, so the number of restarts is not bounded.  A dispatch is
one step here; what it spawns is `ScheduledRuns`.

**`ExportJobs`.**  One tenant.  Jobs, queue, workers, requests, cleaner, store.
`CallRaises` is every `except` of the worker; `raised`, `stranded` and `cutShort`
record which jobs were touched by a failing call, a crash or a premature listing.  One cleanup
batch holds every expired row.  A file that is stored but whose key was never
written to the row is in `store` and not in `keyed`.

**`Sessions`.**  One user.  `op[c]` is a client's operation: `resolve -> account ->
expiry -> active -> resolved`, then what its kind does; `get` and `set` are the two
commands of `store.update`.  On the loop (`next = "updated"`) no other loop command
comes between them; in a thread everything may.  Roles are abstracted: a member
may have none (the degraded branches are then taken).  Reads that the code makes in
a row without a decision between them are one step.  TTLs have one length, so
their order is that of the last writes: `renewed` is what was written after the
last login, the only thing that renews the index.  Later resolves of one request
reuse the cached session, taken to be the one last returned, and the membership.

**`RealtimeHub`.**  One token, which the tabs of a browser share, and its channel `auth.session`.  `conn[c].at` is what the
handler of a connection awaits; `_lock` guards no suspension and so nothing.  `probe` holds every task that is not over, `task` the one
`_auth_tasks` knows; a cancelled probe runs its `finally` later, and one that never ran has none.  A refresh is sent, read and
answered.  The session is a number that grows, `seen` the one a client was sent last, `print` the one the fingerprint is of.
`redis.ok` is the code's belief, `redis.heard` whether the thread listens.  A delivery to all its targets is one step.

### Web client

**`WebSession`.**  `store` is the zustand store, `header` the token requests carry (`setSessionToken`), `db` the row in
IndexedDB and whether the database is open, `purges` the purges that await its deletion and reopening, `sync` the effect
that writes the tenant's display into the row, `op[p]` a login, switch, logout or refresh at its next await.  The server is a set
of live tokens and the tenant of each.  Every write of the row is `ReadRow` and then a put of the whole row: two
transactions.  `Reload` is a page load: what the old page was doing is gone, a purge in progress included.
A user is the pair of the token it was read with and its tenant.

**`RealtimeClient`.**  A socket's callbacks stay attached after `disconnect()`, so `onclose(s)` may run for any socket beside its
successor.  `timers` counts the reconnect timers that are pending, of which the field knows the last; `beat` is the
socket the heartbeat was started for.  Messages of one socket arrive in order, so what the server has subscribed is what the client
told that socket.

**`ExportBadge`.**  `messages` are answers and pushes counted and not arrived; `age` orders the counts, and `late` records one that
was overtaken or lost.  What the server does is external: a count and a push of each change, modelled
from `services/export_job_realtime.py`.

**`EditPages`.**  Ten pages repeat one pattern: a list, sheets that edit a row, handlers that await requests between their
writes to the React state.  The handlers are modelled once, and what differs from page to page is a record of
`Facts`: how a sheet opens (at once, or after a request), what is noted at the click, which requests a save
makes, what a success closes, clears and wipes, what is disabled meanwhile, what can be done to a row.  Each
record is read off the hooks that `map` names for it.  A row's data are whose they are (`main`, `extra`) and how often they were written; the forms of a
sheet have two fields of that kind because the saves are made of at most two requests that can fail apart.

**`WebLists`.**  Four lists by their `Has(...)` facts: `listens` to events, `tells` the phone that it is loading, has `merged` its
phone's rows into the desktop's table, `drops` late replies.  A request keeps the query it was sent
with; `loads` are answered in any order, and from a list that changed in between.  `mobile` is the accumulated list.  When
more rows were added than it was scrolled by, the next page begins in front of it and is appended (`Outruns`).

**`TablePrefs`.**  A configuration is the set of edits in it.  `shown` is the page's, `cache` IndexedDB's, `server` the API's; a save is
`armed`, on its way, served, answered.  One hook instance serves all tabs, so there is one timer.

**`TableColumns`.**  What `resolveColumns`, `mergePreferenceConfig` and `distributeTableColumnWidths` compute, as operators, and the edits,
drags and resizes as actions.  Releases are lists of column definitions; `Reload` reads the kept configuration under any of them.

**`RoleAssignment`, `CronBuilder`, `DateRange`, `ClientPages`, `RegionPicker`.**  Forms whose state is what the user
has picked, with the library functions as operators under their own names.  `RoleAssignment` saves at once; its failures are in
`EditPages`.  `CronBuilder` keeps nothing but the expression, as the component does.  `DateRange` counts ticks, a few per day; a
zone has an offset before and after one change of the clocks.  `RegionPicker` calls the locating services one after the other and
takes any answer of each.

**`SideNav`.**  `layout` is React's, `kept` the copy in localStorage, `coords` the ball's own state, which is there only while the
menu is folded into it.  `drag` begins at a press; less than the threshold is a click.  `hover.closing` is the timer that closes the ball's
menu, which a ball that has just appeared has set already.  `pointer` is where the mouse is, as the
events have told.  The sizes are those of a small window, in units of which the ball has two.

**`FilterToolbar`.**  The two pages whose fields differ: the audit page, whose tabs each mount a toolbar with fields of
their own, and the download center.  `header` is what the page's header was told by the effect that follows every change; `mount` says
which toolbar its switch belongs to.  `Cells` is the grid that is drawn.

**`Scenery`.**  `probe` is the one probe of the networks all pictures share.  Of the background, `frames` and `timers` count the callbacks
the browser holds, `raf` and `timer` say which of them the code can take back: that the two agree is the property.

**Run modules.**  `MC_Promises`, `MC_WebPages` and `MC_WebForms` are sums: a behavior is one of several modules, chosen at the
start, and the variables of the others stay out.  Their properties are those modules' own, for the behaviors that
are theirs.  A sum asks the same questions as one run per module would, on the union of their states.

## 3. Runs

| run | bounds | what it checks |
|---|---|---|
| `runs_control` | a system and a tenant key, 3 executions, 1 stop | `SystemSingleFlight`, `KeysAgree`.  Three executions: the cancelled one, the one that takes the key meanwhile, a third.  The tables guard no step, so a `VIEW` drops them. |
| `runs_rows` | the same, 2 executions | types, `OpenRowExplained`, `ClosedRowsStay`, the refinement `SystemJobsOneAtATime`, and `ClaimsAreReleased` under fairness.  Rows belong to one execution and a light to one key: two meet there. |
| `exports` | 2 jobs, 2 workers, 1 request, queue 1, limit 2 | types, `JobsAreCarried`, `DownloadableExists`, `OrphanExplained`, `LifecycleAsBuilt`, and `JobsSettle` under fairness.  A queue of one is full with two jobs. |
| `sessions` | 1 login, 2 tenants, 2 clients, 2 database changes; and 2 logins of one tenant at a time under password changes | `ServedIsTrue`; and `LiveIsIndexed`.  The parts are bounds on one specification (`Within`).  A `VIEW` drops the history that only `LiveIsIndexed` reads from the part about memberships. |
| `promises` | 2 requests, every body over 2 crons, 3 loops; 4 sockets, 2 channels, 2 mounts each, 7 acts, 3 drops; 1 export, 2 visits, 1 failure | `LoopsAgree`, `EnabledKeepsFiring`; `ConnectionAgrees`, `ComponentsAreServed`; `BadgeCatchesUp`.  Three loops: the tracked, the awaited and the overwritten one.  Four sockets: a current one and three that still close. |
| `web_session` | 2 tokens, 1 tenant, 2 overlapping operations, 2 acts and 1 mishap | `TokenAgrees`, `StoreAgrees`, `BouncedWithoutToken`.  The refresh a page load begins with is the first operation, so that three may follow each other and two overlap.  A mishap is a reload, a revocation, a wrong password or a failing request. |
| `web_pages` | 12 pages, 2 rows and a new one, 2 handlers, 4 acts, 1 failure; 4 lists of 2 rows and one that is added, to the audit logs two, 2 keys and 2 filters, 3 acts, 1 failure; the hub: 2 connections, 3 probes, 1 change of the session, 3 acts, 1 failure | `RowsKeepTheirs`, `ListFollows`, `HandledIsBusy`, `SheetIsOnlyTheUsers`; `ShowsWhatIsAsked`, `ScrollReachesAll`; `HubAgrees`.  Four acts: two handlers, twice.  Three acts at the hub: subscribe, unsubscribe, subscribe; connecting is free. |
| `web_forms` | columns: 2 releases, 2 edits; roles: 3 clicks; cron: fields of 2 or 3 values, 2 edits; dates: 4 ticks a day, 5 acts; lists of 0, 3 and 9 rows, 4 acts; region: 6 acts; preferences: 2 tables, 2 edits, 2 moves, 1 failure; navigation: 2 windows, 2 menus, 2 users, 7 acts; filters: 2 pages, 3 kinds of screen, 5 acts; scenery: 2 networks, 3 pictures, 5 acts | one property each, below |
| `runs_tenant` | 3 executions, 1 stop | violated: `SingleFlight` for tenant jobs |
| `sessions_switch` | 1 login, 2 tenants, 2 clients | violated: `SwitchSticks` |
| `web_downloads` | as `web_pages` | violated: `TableIsThePage` |
| `web_buttons` | as `web_forms` | violated: `ClearedIsNotGranted` |

The properties of `web_forms`:

* `ColumnsAgree` - no edit, drag, resize or release loses a column or a button, a reload undoes nothing, the table
  fills its container.
* `AssignmentAgrees` - what was ticked is granted and ticked again, everything granted can be reached, saving what was opened soon grants
  no more, a catalog is ticked only when all in it is.
* `EditorKeepsMeaning` - what the editor shows fires when the expression does; choosing the custom tab changes
  nothing; a control changes one field.  Only for expressions the editor knows: what it does not know, it shows as "any", and the next click writes that.
* `DaysAgree` - the filter asks for its days in the user's zone and nothing else, where their first and last ticks exist once.
* `PagesAgree` - every row is on one page, after any sort, reload, size and expiry; the phone shows a beginning of the list.
* `RegionAgrees` - names lead to each other and to the code; what is sent is a district.
* `PrefsCatchUp` - when nothing is under way the page shows what the server keeps; the exceptions are in the comment.
* `NavAgrees` - the ball is in the window whatever becomes of it, and its menu beside it; the menu does not stay open behind a pointer
  that has left; one catalog is unfolded besides the route's, and kept for its user.  Seven acts: fold, hover, press, two moves, release, and a resize.
* `FiltersAgree` - an unfolded toolbar draws every field once and in order; the switch folds the toolbar that is there; a set filter that is
  folded away is counted.
* `SceneryAgrees` - a picture waits only while there is a probe, and all are from one network; the background has one callback pending while
  it can be seen and none otherwise.

The bounds are the constants of the configurations and of the `INSTANCE`s in the run modules.  Executions, jobs and logins are
identities that are used once, so their sets bound how many there ever are; the other sets bound what is
concurrent; `MaxActs` and its kind bound what users, the network and failures do, never what the code does.  Deadlock is not
checked: a system that has used up its identities, or that nobody calls, rests.  Symmetry is taken over the identities that
no definition tells apart; the runs with a liveness property take none.

**Fairness.**  `ScheduledRuns`: the event loop runs its ready handles and every awaited
call returns or raises (drivers have timeouts); `Trigger`, stops, crashes and restarts
are free.  `JobLoops`: the same for requests, and cron times come.  `ExportJobs`: requests
and workers go on; users, expiry and the cleanup are free.  `RealtimeClient`: a handshake ends, a closing socket closes, a timer
fires; drops, mounts and logins are free.  `WebSession` states fairness of replies, IndexedDB and effects, though its listed properties
are safety.  The other modules state no liveness: what they say of the end is said of quiet states.

### What the violated runs show

* `SingleFlight` - `_cancel_run` discards the key after awaiting the cancelled task
  (`scheduled_job_manager.py:256`).  The task's own `finally` had released it, a trigger took it
  in between, and its claim is dropped: a third execution runs beside it.
* `SwitchSticks` - refresh writes back the tenant it resolved before a concurrent switch.
* `TableIsThePage` - the download center gives the phone's accumulated rows to its one table
  (`pages/DownloadCenterPage/index.tsx:95`): on a desktop page 2 shows pages 1 and 2.
* `ClearedIsNotGranted` - a save grants every descendant of a ticked menu (`lib/permissions.ts:322`): clearing a button under
  a ticked menu has no effect.

Other behaviour, which the passing properties carve out and their comments name: a run row stays at running when its execution is
cancelled, or dies, or `mark_running` raises (`OpenRowExplained`); a queued job is
lost when the process dies (`stranded`); a file outlives its row when the cleanup
lists a row still being worked on, or fails to delete the file (`cutShort`, `raised`); a failing dispatch ends the cron loop
(`EnabledKeepsFiring`); overlapping requests leave a loop untracked (`LoopsAgree`); a session outlives the
index, or comes back after a deletion (`outlived`, `revived`); a late refresh shows, or leaves for the next page load,
the user of an earlier session (`ShownUserIsOfToken`); two openings of a user's sheet cross, and a save then writes one user's tenants to
the other (`crossed`); a tenant's unreadable roles are shown, and saved, as the defaults (`defaults`); a failed step of a save
leaves the list as it was (`partial`); a page asked for early or failed leaves a gap in the phone's list (`hurried`, `failed`); a reset
of a table's preferences is undone by the timer it does not stop, and an edit on one tab cancels the save of another (`TablePrefs`, `strays`); the download center is not wrapped for the page's header, though `docs/web-tables.md:140` asks it of such
pages, so on a phone its set filters fold away uncounted (`NoSilentFilter` speaks of the audit page only); at the hub a tab that subscribes
takes the news of a change away from the other tabs (`skipped`), a probe ends with any exception it does not know and is not started again until
somebody subscribes (`died`), a stopped probe forgets its successor, which goes on beside the next (`popped`), and an event
is lost while the thread does not listen or overtaken by a snapshot (`lost`, `overtaken`).

Seen beside the models, and stated by none of them: the count on the filters' switch is of all set filters, not of the hidden ones its name
says; a last row of more than three fields would not be drawn whole, which no page's fields reach; the comment at
`lib/race-cdn-image.ts:83` says the losers are aborted at once, while the code waits for all of them; the permissions of a connection are those of its handshake
(`api/realtime_ws.py:37`), so a channel granted later stays refused until it reconnects; a background whose WebGL fails to
start leaves its mark on the page (`components/auth/mount-auth-prism.ts:147`).

### Stated, and false of the code

These statements are in the modules, with the lines they are about; a configuration that lists one of them ends in a counterexample:
`EndedRowIsTerminal` (`ScheduledRuns`), `DisabledHasNoLoop` (`JobLoops`), `LifecycleOrder` (`ExportJobs`: a failing notification turns
done into failed), `LoggedOutShowsNobody` (`WebSession`: between a 401 and the end of its purge the user is shown), `AskedIsTheDays`
(`DateRange`: a day whose midnight the clocks skip or repeat), `EveryNHoursIsOnce` (`CronBuilder`: a step of hours in which every minute fires
is described as "every N hours"), `DisabledIsNotDone` (`ClientPages`: a tap on a phone's card does the row's main action, its button disabled or not), `ChoiceIsKept`
(`RegionPicker`: locating by itself replaces what was picked meanwhile), `DataComes` (`RegionPicker`: a division chunk that
failed to load is not asked for again) and `SnapshotsReachAll` (`RealtimeHub`: a
snapshot sent to one tab hides the change from the others).  `DaysAgree` itself is false of `DateRange` with
`MidnightHour` set to a whole day, which `DatesConstantsFit` excludes: with a browser that writes midnight as hour 24 under `hour12: false`
(`lib/datetime.ts:113`) a range begins a day early; the run and the theorem are of browsers that write 0.  The listed properties hold beside them.

## 4. Proofs

Proved with TLAPS, for every value of the constants that the named assumptions admit.

**`ScheduledRuns_proofs`** (assumptions `KeysDisjoint`, `SomeSystemJob`, `NoRunIsNoRun`)

- `TypeCorrect`: `Spec => []TypeOK`.
- `SystemSingleFlightHolds`: no key of a system job ever has two executions in progress. `SystemSingleFlight` alone is
  not inductive: a free claim says nothing about who is still running. The invariant proved is
  `IInv == SystemClaims /\ SystemSingleFlight`, where `SystemClaims` says that a live execution of a system job holds its
  claim in `runningKeys`. A spawn asks for a free claim, so by `SystemClaims` nobody is live on that key; an execution
  drops its claim in the step that ends it; and the one step that drops a claim which is not its own, a tenant's stop,
  touches tenant keys only. The same argument fails for tenant keys at exactly that step, and the run `runs_tenant`
  shows the double execution.
- `OpenRowExplainedHolds`, `ClosedRowsStayHolds`: `RowInv` says what the row of an execution can be while it awaits each
  statement; lemma `RowStep` shows every step to keep it and, from it, not to reopen a closed row.
- `SystemJobsImplementOneAtATime`: the refinement. The owner of a key is its live execution, well defined because of
  `SystemSingleFlight` (`OwnerIsLive`); then every step is a start, an end, the death of all, or a stutter of `OneAtATime`.
- `KeysAgreeHolds`: `MemInv` adds to `ClaimHasOwner` and `TrackedIsKnown` what the handles of the event loop know: a
  done callback or a wake-up that is queued is of an execution that is over, and a cancelled execution that still lives has the
  stop that cancelled it waiting. Without the second a stop could leave a claim to nobody.

**`ExportJobs_proofs`** (assumption `Limits`)

- `TypeCorrect`: `Spec => []TypeOK`, which includes that the queue never exceeds `_MAX_QUEUE_SIZE`.
- `DownloadableExistsHolds`: a row that is done and not expired has its object. The strengthening says what the worker
  and the cleanup know between two awaited calls: `MarkingHasObject` (a worker about to write `done` has stored the
  object, or the row is past its expiry by now) and `CleansExpired` (the cleanup holds keys of expired rows only, and
  nothing unexpires). Lemma `QuietStep` disposes of every step that takes nothing away; the upload, the last UPDATE, the
  listing and the deletion of an object are proved one by one.
- `JobsAreCarriedHolds`: `HandsInv` says that hands are disjoint (`QueuedOnce`, `HandsDiffer`) and which statuses a holder
  can find at each call (`StatusFits`): a status alone does not say who writes it next. The cardinalities of `CarriedOnce` follow
  from it in `HandsAreOne`.
- `OrphanExplainedHolds`: `OrphanInv` follows an object from its upload to its deletion. While its row is there, the row
  knows it or a worker is about to tell it; once the row is gone, the cleanup still has its key or the loss has a name.
- `LifecycleHolds`: an action property, from the two invariants: who writes a status knows what it finds.

**`Promises_proofs`** (assumptions `LoopsExist`, `RealtimeConstantsFit`, `BadgeConstantsFit`)

About `PromisesSpec`, each behavior of which is of the loops, the client's connection or the badge; so the theorems are of the
very properties the run checks.

- `TypeCorrect`: with it, that nothing is in memory while the process is down.
- `LoopsAgreeHolds`: `LoopsAgree` speaks of moments between requests. `InStep` says what holds inside one: after the
  UPDATE the row is ahead of the memory by what the body wrote (`Written`), and while the end of a loop is awaited none
  runs. It is for requests that are alone (`OneRequest`); once they overlap, what remains is `RunningIsTracked`.
- `ConnectionAgreesHolds`: the invariant adds `OneCurrent` (a socket that connects or is open is the current one and is listened to;
  the current one does one of the two, with a token), `CountsAgree` (the client counts what the components hold) and
  `TimersAgree`. `OneEar` follows from `OneCurrent`.
- `BadgeCatchesUpHolds`: no count is newer than the exports, and one of their age is right (`NoneIsNewer`); as long as nothing was
  lost or overtaken, the badge is up to date, or an answer that will make it so is on its way, or a visit is being
  marked, which asks again whatever becomes of it (`CatchingUp`).

**`Sessions_proofs`**

- `TypeCorrect`.
- `ServedIsTrueHolds`: `Good` says, of an operation at each of its calls, what it has established by then: its session is
  that of its token or one that was degraded since (`Follows`), the tenant it checks is that session's (`Checking`), the
  membership and the flag it has passed were facts at some time during it. `seen` only grows, so a fact, once
  established, stays; what another operation writes meanwhile is either the same tenant or recorded in `crossed`.
- `LiveIsIndexedHolds`: `LiveIsIndexed` is inductive together with the types. The run's behaviors are of `Spec`: its parts only
  leave steps out.

**`RealtimeHub_proofs`** (hypothesis `ConstantsFit`; cited by `WebPages_proofs`, where `HubConstantsFit` provides it)

- `TypeCorrect`.
- `HubAgreesHolds` (and of the composed run in `WebPages_proofs`): three of its four parts are inductive with `TaskIsLive` and `ClosedAreSilent`. The fourth, that at rest
  everybody has been sent the session, needs `Past` (nothing is of a version that is yet to come) and `Awaited`: while the
  probe would notice nothing, whoever is not being answered has been sent the session, or it is on its way to him.

**`WebSession_proofs`** (assumptions `NoValues`, `BoundsFit`)

- `TypeCorrect`.
- `TokenAgreesHolds`, `StoreAgreesHolds`, `BouncedWithoutTokenHolds`, from one invariant. The row follows the store as long as
  nothing went astray (`RowTokenAgrees`, `RowUserAgrees` up to the operation that is about to write it, `RowIsOne`); that needs
  to know that a login's token is used by nobody before it is in force (`OneLogin`, `TokensAreIssued`, `GrantedIsFresh`,
  `RowsAreIssued`), that the database is closed exactly while a purge is under way (`PurgesAgree`), that a refused session is
  being purged (`DeniedIsPurged`), and that while the user is yet to be loaded nothing runs but the refresh that loads
  it (`WaitsForRefresh`).
- The attempt found an error of the model: `ShownUserIsOfToken` was false with three overlapping operations, where a put
  that finds the database closed, or a user of an earlier session, brings back what a later login replaced. The put now records that.

**`WebPages_proofs`** (assumptions `RowsExist`, `NamesDiffer`, `BoundsAreNat`, `HubConstantsFit`, `ListsConstantsFit`)

The first four theorems are about the part "edits" of `MC_WebPages` and hold on each of the twelve pages. `PageFacts` collects what the pages have in
common and the proofs need (only a modal page has sheets that wait, sections never close, a list that is followed has one sheet, ...);
`PagesAre` proves it page by page from the `Facts`. The invariant has a part for each theorem, all kept by every step:

- `RowsKeepTheirsHolds`: `OwnData` follows the data from the row into the form, from the form into the handler that was
  clicked and from there into the row; a form that has lost its row can save nothing, or is a create form.
- `ListFollowsHolds`: `ListIsPast` (nothing shown or read is newer than the rows) and `ListIsBrought` (what the list
  lacks is brought by a handler between its first request and its reload).
- `HandledIsBusyHolds`: `SavingIsMarked`, `DialogIsRemoval`, `RowIsMarked`; the sets of handlers have one member or none, from which the
  cardinalities follow.
- `SheetIsOnlyTheUsersHolds`: an action property. `SheetIsAlone` says of a sheet that was opened at rest that no opening
  waits and that whatever is being saved is it, for its row: so the save that succeeds is its own.
- `HubAgreesHolds` is about the part "hub", where the invariant is that of `RealtimeHub_proofs`, whose lemmas are cited as they are.
- `ShowsWhatIsAskedHolds` is about the part "lists". A list at rest is not inductive: what is kept is that the request sent last is
  for what the list is set to, and is either under way (`ListPending`) or has been shown (`ListShown`). Requests are numbered
  (`ListNumbered`), so any other reply is of a lower number: it comes before the last one and is replaced, or after it and is recorded
  as overtaken; the execute sheet has no other request. Only the reply to the runs sheet turns its page, so its last request
  may be ahead of the page. That no page is empty follows from what a footer button or the scrolling asks for (`Reaches`, `PageIs`): no
  reply had more rows than there are now, and rows are only added.
- `ScrollReachesAllHolds`: the invariant adds, for a phone, that what is accumulated is a run of rows (`IsRun`) that the page shown
  last is part of and every reply to come begins within or right behind (`ScrolledTo`); rows that are added meanwhile move a page up,
  never past its end. `PageRuns` and `Merges` say of a page and of `mergeUniqueRows` that they are such runs, for every
  length: the index of the k-th new row is counted, not recursed to. The
  attempt found an error of the model, which added one row at a time: when more rows are added than the list was scrolled by, the next
  page begins in front of the rows accumulated and is put behind them. The run now adds two at a time, and the property names that case.
**`WebForms_proofs`** (assumptions `PrefsConstantsFit`, `SceneConstantsFit`, `NavConstantsFit`, `RegionConstantsFit`, `CronConstantsFit`,
`DatesConstantsFit`, `FiltersConstantsFit`)

The theorems are about the parts "prefs", "scenery", "nav", "region", "dates", "filters" and "cron" of `MC_WebForms`.

- `PrefsCatchUpHolds`: numbers and times never run ahead of the clock and tell saves apart (`Stamped`). As long as nothing has
  come apart, what is shown is either on its way in the newest save, which nothing the server has is newer than (`Carried`),
  or kept, and every save that is still to arrive is older (`Kept`); a table that is being read or reset has no save (`Loading`,
  `Resetting`); and what IndexedDB has, the server has too or will (`Newer`), which is why the reply of a reading may
  be shown when it is not older.
- `SceneryAgreesHolds`: a probe runs only while there is no network to load from (`PicturesInv`), so its end leaves none
  waiting and no picture from another; the background is `Right` between the callbacks of the browser, and `stopLoop`, `kick`
  and `ensureRunning` each lead from `Sound` states back to it.
- `NavAgreesHolds`: every layout goes through `applyLayout`, which leaves a ball in the window or none (`ApplyIs`), and the ball is
  there exactly while the menu is folded (`BallInv`); that the menu beside it is inside the window and leaves it free is then
  arithmetic of the placement alone (`PlacementIs`), which needs the ball and its gap to be no narrower than the padding. At most one
  catalog is unfolded, and it is kept under the name of the user shown (`CatalogInv`). The proof showed that the model's first route
  could only be the first catalog of a user who has one; it is now any of his, or none.
- `RegionAgreesHolds`: the field is empty, `Picked`, or as an edited row has it; what is picked is found again by its own names, since
  the search takes a name itself before one that is like it (`ChildIs`), and whatever the services answer leads into the division data
  (`AnswersLead`). That the search finds the *first* place needs that a set of numbers has a least one; `LeastIs` shows it from the
  well-founded order of finite sets, which is a theorem without an operator parameter.  The proof showed that the model took a code
  that is in an answer for one that is in the data; as in the code, an unknown code now leaves the names to be tried.
- `EditorKeepsMeaningHolds`: `CronInv` says that the expression is well formed, that what was emitted last is the expression, and that the
  tab is the custom one or the preset that the expression is read as.  A field that is read and written again means the same (`FieldMeans`,
  which includes the step that the editor clamps to the size of the field: as the longer one, it fires at the first value only).  What
  `buildCron` writes of a configuration is known field by field (`Builds`); a preset is read only where every field is the one
  that preset writes (`PresetParse`), and what a preset writes is read as that preset (`ReadBack`), so that no tab jumps away while it is
  edited.  `ChangesOne` then is a comparison of the two lists of fields.  The assumption leaves out one spelling: the server's library
  also takes `7` for Sunday, which the editor does not offer and reads as its last weekday; no expression that is stored is written so.
- `DaysAgreeHolds`: a zone changes once and a wall time is corrected four times, which can be unfolded. A wall time is
  what it is corrected to whenever some instant reads so (`WallIs`): a correction that begins on the wrong side of the change is
  right after the second, because the clocks jump by less than half a day. If it exists once, no other instant is between the ends (`OnceIs`), so what is
  asked for are exactly the instants of the days (`AskedIs`). A preset counts days from noon, which a jump does not carry out of its
  day (`PresetIs`). The invariant `DatesInv` says only what the filter and the calendar can hold. The theorem is of browsers that
  write midnight as hour 0 (`MidnightHour = 0`); of the others it is false (section 3).
- `FiltersAgreeHolds`: `FiltersInv` says that the header knows of the toolbar that is there what that one would tell now. That every field
  is drawn once and in order is arithmetic: the n-th field is in row `(n - 1) \div columns` (`RowsAre`), its cell is in the
  column of the remainder and the last of a row reaches to its end (`CellsAre`, `PlaceIs`, `FieldsPlaced`). It needs the condition of
  `FiltersConstantsFit`, which the proof showed: of a last row beside the buttons `resolveActionFieldRenderCount` draws
  `FILTER_ACTION_ROW_MAX_COLS` fields at most, and a page with one more would lose it. No page has so many now, in a grid of one, four or six columns.


`ConstantsFit` is a hypothesis of the theorems of `RealtimeHub_proofs`, an assumption of the run modules that instantiate its module, and
evaluated by the runs on their values; the other assumptions are `ASSUME`s of the modules
they are about. They say that a "none" value is no identity, and that bounds are natural numbers; `LoopsExist`,
`SomeSystemJob` and `RowsExist` that there is a loop task, a system job and a row to list. Sets of identities are not assumed finite, but for the requests of the download center (`FiniteReqs`).

Each strengthening was checked by TLC as an invariant before it was proved. The lemmas named `...Step`, `...Keeps` and `...Does` follow one
action each; a `...Does` or `...Is` lemma says what a helper leaves and sets, so that the actions that use it need not expand it.

Only model-checked:

- liveness (`ClaimsAreReleased`, `JobsSettle`, `EnabledKeepsFiring`, `ComponentsAreServed`): under fairness, which needs `ENABLED`;
- `PagesAgree`: its pages are cut by `SelectSeq`, folds and sorts, about which a fact for every length takes an induction;
- `AssignmentAgrees` (of `RoleAssignment`): what a tick grants is a closure over a tree of any depth, and so is what can be reached;
- `ColumnsAgree`: widths and the order of columns are sums and selections over sequences, which take an induction as well;
- of `TablePrefs`, that the server *does* catch up in the end: `PrefsCatchUp` says it of the states in which nothing is under way.

## 5. Plan

1. *Done*: scheduled jobs, cron loops, download center, sessions, the hub and the proofs above; the web client's session, connection, badge,
   pages, lists, tables, forms, navigation and filters.
2. `RealtimeHub` composed with `RealtimeClient`, `WebSession` and `ExportBadge` over the channels they share, in place of their
   small servers; the channels of the exports and their permissions.
3. `Scheduler`, which composes `JobLoops` with `ScheduledRuns`: a dispatch of the one is a spawn of the other.
4. Tenants: the next code is a maximum read before the insert (`services/tenant_code.py:63`), a creation is several transactions without
   compensation (`services/tenant_onboarding.py:47`), the department tree is validated before it is written (`data/mysql/dept_repo.py:58`).
5. Audit: the purge deletes more than the export takes (`services/audit_service.py:242`), the queue drops when full
   (`data/mysql/sql_audit_listener.py:115`).
6. Proofs: what is left takes an induction over data, or is finite as it stands (see the end of the proofs above).

## 6. Not modelled

* Backend: the components marked so above; pure I/O, the handlers' own work, SQL and its isolation (a statement is atomic), the in-memory session
  fallback used while Redis is unreachable, kick reasons, `next_run_at`, formats and messages.
* Client: headers, top and bottom bars, drawers, dialogs and what the background paints (presentation with local state); the validation and wording of forms; the
  detail sheets and the export of audit logs; the notice of an expiring tenant; `waitForEvent` and the dispatch of a message to its handlers; the
  Chinese description of a schedule; date formats.
* The client modules are checked apart from one another: `WebSession` has its own small server, `EditPages` and `WebLists` theirs.  What
  the modules share in the code is the token, which `EditPages` and `WebLists` take to be valid, and the page size, which `ClientPages` and
  `WebLists` each change by themselves.
