----------------------------- MODULE WebSession -----------------------------
(* The login session of the web client: the auth store in memory, the token
   the requests carry, the row kept in IndexedDB, and the operations that
   change them, suspended at every request and at every access to IndexedDB.
   Nothing orders two operations: a reply is applied whenever it arrives.
   Paths are relative to src/web/src/.                                       *)
EXTENDS Integers, FiniteSets

CONSTANTS
  Tokens,        \* the logins the server grants, one token each
  Tenants,       \* the tenants a session can work in
  Procs,         \* operations that may overlap
  MaxActs,       \* bound on what the user does
  MaxMishaps,    \* bound on requests that fail, sessions the server ends, page reloads
  None,          \* no token, no user, no tenant
  Pending, Denied, Failed  \* a request without reply, with a 401, with another failure

VARIABLES
  server,   \* live: the sessions honoured; at: the tenant each is in
  db,       \* ready: IndexedDB is open; row: its session row
  header,   \* lib/session-token.ts: the token requests are sent with
  store,    \* the auth store
  purges,   \* how many purges delete, and how many then reopen, the database
  op,       \* the operation each process is in
  sync,     \* the effect that follows a change of user: due, or at its write
  astray,   \* how a reply or a write has been applied that was no longer true
  left      \* what remains of the bounds

vars == <<server, db, header, store, purges, op, sync, astray, left>>

User == [of : Tokens, at : Tenants \cup {None}]

\* What stands for no value, or for a reply without one, is no value.
ASSUME NoValues ==
  /\ {None, Pending, Denied, Failed} \cap (Tokens \cup User) = {}
  /\ None \notin {Pending, Denied, Failed} /\ Denied \notin {Pending, Failed}

ASSUME BoundsFit == MaxActs \in Nat /\ MaxMishaps \in Nat

EmptyRow == [token |-> None, user |-> None]
Blank == [token |-> None, user |-> None, loading |-> FALSE, refreshing |-> FALSE]
Idle == [kind |-> "idle", step |-> "idle", arg |-> None, sent |-> None,
         me |-> None, nav |-> None, got |-> EmptyRow]
Rest == [due |-> FALSE, writes |-> FALSE, got |-> EmptyRow]

\* The session of a user as the server knows it now.
Known(k) == [of |-> k, at |-> server.at[k]]

Spend(what) == left[what] > 0 /\ left' = [left EXCEPT ![what] = @ - 1]

-----------------------------------------------------------------------------
\* The guard of every page but the public ones.
Route(s) ==
  IF s.user = None THEN IF s.loading THEN "wait" ELSE "/login"
  ELSE IF s.user.at = None THEN "/select-tenant" ELSE "page"

\* A reset that leaves the flags.
FaultyResetFlags(s) == [Blank EXCEPT !.loading = s.loading, !.refreshing = s.refreshing]

\* reset(): the memory of the session is gone.
Reset(s) == Blank

\* hydrate: the store a page starts with, from the row found in IndexedDB.
Hydrated(r) ==
  IF r.token = None /\ r.user = None THEN Blank
  ELSE [token |-> r.token, user |-> r.user,
        loading |-> r.user = None, refreshing |-> r.token # None]

\* Before its requests, refresh clears a store without a token and marks one
\* with a token as busy.
Busy(s) ==
  IF s.token = None THEN Reset(s)
  ELSE IF s.user # None THEN [s EXCEPT !.refreshing = TRUE]
  ELSE [s EXCEPT !.loading = TRUE]

\* The two requests of loadRemoteSession leave with the token of that moment.
Fetching(kind, arg, h) ==
  [Idle EXCEPT !.kind = kind, !.step = "fetch", !.arg = arg, !.sent = h,
               !.me = Pending, !.nav = Pending]

\* refresh() from its call to its requests, for a store s and a token h.
RefreshFrom(p, s, h, ops) ==
  /\ store' = Busy(s)
  /\ header' = IF s.token = None THEN None ELSE h
  /\ op' = IF s.token = None THEN ops
           ELSE [ops EXCEPT ![p] = Fetching("refresh", None, h)]

\* purgeLocalSession closes the database first and awaits its deletion.  Two
\* purges in one place stand for any number.
purgeLocalSession ==
  /\ db' = [db EXCEPT !.ready = FALSE]
  /\ purges' = [purges EXCEPT !.deleting = IF @ = 2 THEN 2 ELSE @ + 1]

\* A reply of status 401: no token from now on, and a purge.
Expire ==
  /\ header' = None
  /\ purgeLocalSession

NoExpire == UNCHANGED <<header, db, purges>>

-----------------------------------------------------------------------------
\* A page opens, either on an empty database or on one a session left its row in,
\* its user too unless the page before closed within the login; the server may
\* have ended the session since.
Init ==
  /\ \E k \in Tokens, t \in Tenants \cup {None}, p \in Procs, cached, known, live \in BOOLEAN :
      LET row == IF cached THEN [token |-> k, user |-> IF known THEN [of |-> k, at |-> t] ELSE None]
               ELSE EmptyRow
        boot == Hydrated(row)
    IN  /\ server = [live |-> IF cached /\ live THEN {k} ELSE {},
                     issued |-> IF cached THEN {k} ELSE {},
                     at |-> [x \in Tokens |-> IF cached /\ x = k THEN t ELSE None]]
        /\ db = [ready |-> TRUE, row |-> row]
        /\ header = row.token
        /\ store = Busy(boot)
        /\ op = [q \in Procs |-> IF cached /\ q = p THEN Fetching("refresh", None, k)
                                ELSE Idle]
  /\ purges = [deleting |-> 0, opening |-> 0]
  /\ sync = Rest
  /\ astray = {}
  /\ left = [acts |-> MaxActs, mishaps |-> MaxMishaps]

\* main.tsx: a new page opens the database, hydrates and refreshes.  What the
\* old page was doing is gone, a purge in progress included.
Reload(p) ==
  /\ Spend("mishaps")
  /\ RefreshFrom(p, Hydrated(db.row), db.row.token, [q \in Procs |-> Idle])
  /\ db' = [db EXCEPT !.ready = TRUE]
  /\ purges' = [deleting |-> 0, opening |-> 0]
  /\ sync' = Rest
  /\ UNCHANGED <<server, astray>>

\* A page that saved a profile or a permission asks for a refresh.
StartRefresh(p) ==
  /\ op[p] = Idle /\ store.user # None
  /\ Spend("acts")
  /\ RefreshFrom(p, store, header, op)
  /\ UNCHANGED <<server, db, purges, sync, astray>>

\* A push of the session's state: ignored without a user or when it tells
\* nothing new, else merged; other permissions ask for a refresh.
applyAuthSnapshot(p) ==
  /\ op[p] = Idle
  /\ store.token \in server.live /\ store.user # None
  /\ store.user # Known(store.token)
  /\ RefreshFrom(p, [store EXCEPT !.user = Known(store.token)], header, op)
  /\ sync' = [sync EXCEPT !.due = TRUE]
  /\ astray' = astray \cup {"unsaved"}
  /\ UNCHANGED <<server, db, purges, left>>

\* The form: no user is known, nothing is loading, and no login is under way.
StartLogin(p) ==
  /\ op[p] = Idle
  /\ Route(store) = "/login"
  /\ \A q \in Procs : op[q].kind # "login"
  /\ Tokens \ server.issued # {}
  /\ Spend("acts")
  /\ op' = [op EXCEPT ![p] = [Idle EXCEPT !.kind = "login", !.step = "post"]]
  /\ UNCHANGED <<server, db, header, store, purges, sync, astray>>

StartSwitch(p, t) ==
  /\ op[p] = Idle
  /\ store.user # None /\ store.user.at # t
  /\ \A q \in Procs : op[q].kind # "switch"
  /\ Spend("acts")
  /\ op' = [op EXCEPT ![p] = [Idle EXCEPT !.kind = "switch", !.step = "post",
                                          !.arg = t, !.sent = header]]
  /\ UNCHANGED <<server, db, header, store, purges, sync, astray>>

StartLogout(p) ==
  /\ op[p] = Idle /\ store.user # None
  /\ Spend("acts")
  /\ op' = [op EXCEPT ![p] = [Idle EXCEPT !.kind = "logout", !.step = "post",
                                          !.sent = header]]
  /\ UNCHANGED <<server, db, header, store, purges, sync, astray>>

-----------------------------------------------------------------------------
\* The server opens a session, in its only tenant or in none yet; or it refuses
\* the password with a 401, which expires whatever session there is.
LoginReply(p) ==
  /\ op[p].kind = "login" /\ op[p].step = "post"
  /\ \/ \E k \in Tokens \ server.issued, t \in Tenants \cup {None} :
          /\ server' = [live |-> server.live \cup {k},
                        issued |-> server.issued \cup {k},
                        at |-> [server.at EXCEPT ![k] = t]]
          /\ op' = [op EXCEPT ![p].step = "read", ![p].arg = k]
          /\ NoExpire /\ UNCHANGED left
     \/ /\ Spend("mishaps")
        /\ op' = [op EXCEPT ![p] = Idle]
        /\ Expire
        /\ UNCHANGED server
  /\ UNCHANGED <<store, sync, astray>>

SwitchReply(p) ==
  /\ op[p].kind = "switch" /\ op[p].step = "post"
  /\ IF op[p].sent \in server.live
     THEN /\ server' = [server EXCEPT !.at[op[p].sent] = op[p].arg]
          /\ op' = [op EXCEPT ![p] = Fetching("switch", op[p].arg, header)]
          /\ NoExpire
     ELSE /\ op' = [op EXCEPT ![p] = Idle]
          /\ Expire
          /\ UNCHANGED server
  /\ UNCHANGED <<store, sync, astray, left>>

\* A failure to log out is ignored; the local data go all the same.
LogoutReply(p) ==
  /\ op[p].kind = "logout" /\ op[p].step = "post"
  /\ \/ server' = [server EXCEPT !.live = @ \ {op[p].sent}] /\ UNCHANGED left
     \/ Spend("mishaps") /\ UNCHANGED server
  /\ op' = [op EXCEPT ![p] = Idle]
  /\ purgeLocalSession
  /\ UNCHANGED <<header, store, sync, astray>>

\* The server answers one of the two requests of loadRemoteSession.
Answer(p, part) ==
  /\ op[p].step = "fetch" /\ op[p][part] = Pending
  /\ \/ /\ op[p].sent \in server.live
        /\ op' = [op EXCEPT ![p][part] = Known(op[p].sent)]
        /\ NoExpire /\ UNCHANGED left
     \/ /\ op[p].sent \notin server.live
        /\ op' = [op EXCEPT ![p][part] = Denied]
        /\ Expire /\ UNCHANGED left
     \/ /\ Spend("mishaps")
        /\ op' = [op EXCEPT ![p][part] = Failed]
        /\ NoExpire
  /\ UNCHANGED <<server, store, sync, astray>>

Settled(o) == o.step = "fetch" /\ o.me # Pending /\ o.nav # Pending
Loaded(o) == Settled(o) /\ o.me \in User /\ o.nav # Denied
Refused(o) == Settled(o) /\ (o.me = Denied \/ (o.me \in User /\ o.nav = Denied))

\* The `finally` of refresh.
Finished(s) == [s EXCEPT !.loading = FALSE, !.refreshing = FALSE]

\* Both replies are in: they replace the store's user and navigation, whatever
\* has happened meanwhile, and the row is about to be rewritten.
Apply(p) ==
  /\ Loaded(op[p])
  /\ store' = [store EXCEPT !.user = op[p].me]
  /\ astray' = IF op[p].me.of = store.token THEN astray ELSE astray \cup {"late"}
  /\ op' = [op EXCEPT ![p].step = "read"]
  /\ sync' = [sync EXCEPT !.due = TRUE]
  /\ UNCHANGED <<server, db, header, purges, left>>

\* A refresh that fails without a user to show gives the token up.
FaultyGivesUp(s) == Finished(s)
GivesUp(s) == Finished([s EXCEPT !.token = None])

\* A refresh that is refused resets; one that fails keeps a cached user, and
\* gives the token up when there is none.  A login or a switch only reports it.
NotLoaded(p) ==
  /\ Settled(op[p]) /\ ~Loaded(op[p])
  /\ LET gone == op[p].kind = "refresh" /\ ~Refused(op[p]) /\ store.user = None IN
       /\ store' = IF op[p].kind # "refresh" THEN store
                   ELSE IF Refused(op[p]) THEN Reset(store)
                   ELSE IF gone THEN GivesUp(store)
                   ELSE Finished(store)
       /\ header' = IF op[p].kind = "refresh" /\ (gone \/ Refused(op[p]))
                    THEN None ELSE header
       /\ astray' = IF store'.token = store.token \/ op[p].sent = store.token
                    THEN astray ELSE astray \cup {"late"}
       /\ sync' = [sync EXCEPT !.due = @ \/ store'.user # store.user]
  /\ op' = [op EXCEPT ![p] = Idle]
  /\ UNCHANGED <<server, db, purges, left>>

\* Every write of the row reads it first, in a transaction of its own.
ReadRow(p) ==
  /\ op[p].step = "read"
  /\ op' = [op EXCEPT ![p].step = "put",
                      ![p].got = IF db.ready THEN db.row ELSE EmptyRow]
  /\ UNCHANGED <<server, db, header, store, purges, sync, astray, left>>

\* The row is put back whole: what another write put in between is lost, and what
\* the store has left behind meanwhile comes back.
Put(got, row, current) ==
  /\ db' = IF db.ready THEN [db EXCEPT !.row = row] ELSE db
  /\ astray' = IF db.ready /\ row.user = store.user /\ row.token = store'.token
                  /\ (row.user = None \/ row.user.of = row.token) THEN {}
               ELSE astray \cup (IF ~db.ready \/ got = db.row THEN {} ELSE {"clobbered"})
                           \cup (IF current THEN {} ELSE {"outrun"})

\* The new token is saved, and the requests that follow keep the old one.
FaultyPutToken(p) ==
  /\ op[p].step = "put" /\ op[p].me = None
  /\ store' = [store EXCEPT !.token = op[p].arg]
  /\ Put(op[p].got, [op[p].got EXCEPT !.token = op[p].arg], store.user = None)
  /\ op' = [op EXCEPT ![p] = Fetching("login", op[p].arg, header)]
  /\ UNCHANGED <<server, header, purges, sync, left>>

\* writeSessionToken, after which the new token is in force; a user that came to be
\* shown since the form was sent is left with it.
PutToken(p) ==
  /\ op[p].step = "put" /\ op[p].me = None
  /\ header' = op[p].arg
  /\ store' = [store EXCEPT !.token = op[p].arg]
  /\ Put(op[p].got, [op[p].got EXCEPT !.token = op[p].arg], store.user = None)
  /\ op' = [op EXCEPT ![p] = Fetching("login", op[p].arg, op[p].arg)]
  /\ UNCHANGED <<server, purges, sync, left>>

\* writeSessionSnapshot.  It ends a refresh; the others go on to list the tenants.
PutSnapshot(p) ==
  /\ op[p].step = "put" /\ op[p].me # None
  /\ IF op[p].kind = "refresh"
     THEN /\ store' = Finished(store)
          /\ op' = [op EXCEPT ![p] = Idle]
     ELSE /\ op' = [op EXCEPT ![p] = [Idle EXCEPT !.kind = op[p].kind,
                                        !.step = "list", !.sent = header]]
          /\ UNCHANGED store
  /\ Put(op[p].got, [op[p].got EXCEPT !.user = op[p].me],
         ~db.ready \/ op[p].me = store.user)
  /\ UNCHANGED <<server, header, purges, sync, left>>

\* The list of tenants closes a login or a switch; a failure leaves it empty.
ListReply(p) ==
  /\ op[p].step = "list"
  /\ IF op[p].sent \in server.live THEN NoExpire ELSE Expire
  /\ op' = [op EXCEPT ![p] = Idle]
  /\ sync' = [sync EXCEPT !.due = TRUE]
  /\ UNCHANGED <<server, store, astray, left>>

-----------------------------------------------------------------------------
\* The row is deleted once every connection is closed ...
PurgeDeletes ==
  /\ purges.deleting > 0
  /\ db' = [db EXCEPT !.row = EmptyRow]
  /\ purges' = [deleting |-> purges.deleting - 1,
                opening |-> IF purges.opening = 2 THEN 2 ELSE purges.opening + 1]
  /\ UNCHANGED <<server, header, store, op, sync, astray, left>>

\* ... the database is opened anew, behind the deletions already asked for,
\* and the caller of the purge resets the store.
PurgeEnds ==
  /\ purges.opening > 0 /\ purges.deleting = 0
  /\ db' = [db EXCEPT !.ready = TRUE]
  /\ purges' = [purges EXCEPT !.opening = @ - 1]
  /\ header' = None
  /\ store' = Reset(store)
  /\ sync' = [sync EXCEPT !.due = TRUE]
  /\ astray' = IF db.row = EmptyRow THEN {} ELSE astray \cup {"late"}
  /\ UNCHANGED <<server, op, left>>

\* The effect of a new user or list of tenants: the tenant's display is written
\* into the row, which is read for that; without a row there is none to clear.
syncTenantDisplay ==
  /\ sync.due /\ ~sync.writes
  /\ LET homeless == store.user = None \/ store.user.at = None
         writes == db.ready /\ ~(homeless /\ db.row = EmptyRow)
     IN  \/ sync' = [due |-> FALSE, writes |-> writes,
                     got |-> IF writes THEN db.row ELSE EmptyRow]
         \/ ~homeless /\ sync' = Rest   \* its tenant is not in the list (yet)
  /\ UNCHANGED <<server, db, header, store, purges, op, astray, left>>

PutTenantDisplay ==
  /\ sync.writes
  /\ sync' = [Rest EXCEPT !.due = sync.due]
  /\ UNCHANGED <<server, header, store, purges, op, left>>
  /\ Put(sync.got, sync.got, TRUE)

\* The session ends on the server: a timeout, or an administrator.
Revoke(k) ==
  /\ k \in server.live
  /\ Spend("mishaps")
  /\ server' = [server EXCEPT !.live = @ \ {k}]
  /\ UNCHANGED <<db, header, store, purges, op, sync, astray>>

-----------------------------------------------------------------------------
Progress(p) ==
  \/ LoginReply(p) \/ SwitchReply(p) \/ LogoutReply(p)
  \/ Answer(p, "me") \/ Answer(p, "nav")
  \/ Apply(p) \/ NotLoaded(p)
  \/ ReadRow(p) \/ PutToken(p) \/ PutSnapshot(p) \/ ListReply(p)

Next ==
  \/ \E p \in Procs :
       \/ Progress(p)
       \/ Reload(p) \/ StartRefresh(p) \/ applyAuthSnapshot(p)
       \/ StartLogin(p) \/ StartLogout(p)
       \/ \E t \in Tenants : StartSwitch(p, t)
  \/ PurgeDeletes \/ PurgeEnds
  \/ syncTenantDisplay \/ PutTenantDisplay
  \/ \E k \in Tokens : Revoke(k)

\* Requests are answered or fail, IndexedDB answers, effects run.
Fairness ==
  /\ \A p \in Procs : WF_vars(Progress(p))
  /\ WF_vars(PurgeDeletes) /\ WF_vars(PurgeEnds)
  /\ WF_vars(syncTenantDisplay) /\ WF_vars(PutTenantDisplay)

Spec == Init /\ [][Next]_vars /\ Fairness
-----------------------------------------------------------------------------
\* Whoever is shown is the user of the present token, unless a reply was applied,
\* or left in the row for the next page load, after the session it was asked for, or
\* a new token found a user shown.
ShownUserIsOfToken ==
  astray = {} /\ store.user # None => store.user.of = store.token

\* A spinner is carried by a refresh that is still running and will stop it.
BusyIsCarried ==
  store.loading \/ store.refreshing => \E p \in Procs : op[p].kind = "refresh"

\* The user shown is the present token's, and the spinner a running refresh's.
StoreAgrees == ShownUserIsOfToken /\ BusyIsCarried

\* The token requests are sent with is the store's; it is missing only while
\* the purge that follows a 401 has not reset the store yet.
HeaderFollowsToken ==
  header = store.token \/ (header = None /\ purges.deleting + purges.opening > 0)

Quiet ==
  /\ \A p \in Procs : op[p] = Idle
  /\ purges.deleting + purges.opening = 0
  /\ ~sync.due /\ ~sync.writes

\* When nothing is under way, the next page load finds the token and the user
\* this page shows, unless two writes of the row overlapped or a late reply was
\* persisted.
RowFollowsStore ==
  Quiet /\ astray = {} => /\ db.row.user = store.user
                          /\ store.token # None => db.row.token = store.token

\* The token is one and the same in the store, in the requests and for the next
\* page load.
TokenAgrees == HeaderFollowsToken /\ RowFollowsStore

\* The loading screen of a page load gives way to the login form only when the
\* token has been given up: no valid session is bounced for being slow.
BouncedWithoutToken ==
  [][Route(store) = "wait" /\ Route(store') = "/login" => store'.token = None]_vars

\* What docs/web-client-state.md:5 says the purge is for: nothing of an account
\* is left once its session has ended on this page.
LoggedOutShowsNobody == store.token = None => store.user = None
=============================================================================
