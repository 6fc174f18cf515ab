-------------------------- MODULE WebSession_proofs --------------------------
(***************************************************************************)
(* Proofs about WebSession: type correctness, that the token is one and    *)
(* the same in the store, in the requests and for the next page load, that *)
(* the user shown is the token's and the spinner a running refresh's, and  *)
(* that no valid session is bounced to the login form.  All hold for any   *)
(* number of logins, tenants, overlapping operations and mishaps.          *)
(***************************************************************************)
EXTENDS WebSession, TLAPS

------------------------------------------------------------------------------
(* Types.                                                                     *)
MaybeToken == Tokens \cup {None}
MaybeUser == User \cup {None}
Rows == [token : MaybeToken, user : MaybeUser]
Stores == [token : MaybeToken, user : MaybeUser, loading : BOOLEAN, refreshing : BOOLEAN]
Servers == [live : SUBSET Tokens, issued : SUBSET Tokens, at : [Tokens -> Tenants \cup {None}]]
Databases == [ready : BOOLEAN, row : Rows]
Purges == [deleting : 0..2, opening : 0..2]
Syncs == [due : BOOLEAN, writes : BOOLEAN, got : Rows]
LeftValues == [acts : Nat, mishaps : Nat]
Replies == User \cup {None, Pending, Denied, Failed}
Kinds == {"idle", "refresh", "login", "switch", "logout"}
Ops == [kind : Kinds, step : {"idle", "post", "fetch", "read", "put", "list"},
        arg : Tokens \cup Tenants \cup {None}, sent : MaybeToken,
        me : Replies, nav : Replies, got : Rows]

\* A login has been answered and its token is not yet in force.
Granted(o) == o.kind = "login" /\ o.step \in {"read", "put"} /\ o.me = None

\* What an operation may be doing, by its step.
Shaped(o) ==
  /\ o.step = "idle" => o = Idle
  /\ o.step = "post" => o.kind \in {"login", "switch", "logout"} /\ o.me = None
                        /\ (o.kind = "switch" => o.arg \in Tenants)
  /\ o.step = "fetch" => o.kind \in {"refresh", "login", "switch"} /\ o.me # None
  /\ o.step \in {"read", "put"} =>
       \/ Granted(o) /\ o.arg \in Tokens
       \/ o.kind \in {"refresh", "login", "switch"} /\ o.me \in User
  /\ o.step = "list" => o.kind \in {"login", "switch"}

TypeOK ==
  /\ server \in Servers /\ db \in Databases /\ header \in MaybeToken /\ store \in Stores
  /\ purges \in Purges /\ op \in [Procs -> Ops] /\ sync \in Syncs
  /\ astray \subseteq {"unsaved", "late", "clobbered", "outrun"} /\ left \in LeftValues
  /\ \A p \in Procs : Shaped(op[p])

------------------------------------------------------------------------------
(* The inductive invariant, part by part.                                     *)

\* The database is closed from the call of a purge until it is opened anew.
PurgesAgree ==
  IF db.ready THEN purges.deleting = 0 ELSE purges.deleting + purges.opening > 0

\* There is one login at a time, and nobody has used its token before it is in force.
TokensAreIssued ==
  /\ server.live \subseteq server.issued
  /\ {header, store.token} \subseteq server.issued \cup {None}
  /\ \A p \in Procs : op[p].sent \in server.issued \cup {None}
  /\ \A p \in Procs : Granted(op[p]) => op[p].arg \in server.issued
OneLogin == \A p, q \in Procs : op[p].kind = "login" /\ op[q].kind = "login" => p = q
GrantedIsFresh ==
  \A p \in Procs : Granted(op[p]) =>
    header # op[p].arg /\ \A q \in Procs : op[q].sent # op[p].arg

\* A session that was refused is on its way out of the store.
DeniedIsPurged ==
  store.token # None =>
    \A p \in Procs :
      op[p].step = "fetch" /\ op[p].sent = store.token /\ Denied \in {op[p].me, op[p].nav} =>
        ~db.ready

\* While the user is yet to be loaded there is nothing but the refresh that does it.
WaitsForRefresh ==
  store.loading /\ store.user = None =>
    \A p \in Procs : op[p] = Idle \/ (op[p].kind = "refresh" /\ op[p].step = "fetch")

\* An operation that has applied the user shown and is about to write the row.
Saving(p) == op[p].step \in {"read", "put"} /\ op[p].me = store.user /\ op[p].me \in User

\* As long as nothing went astray the row follows the store, but for what an
\* operation is about to write, and its user is of its token.
RowTokenAgrees ==
  astray = {} /\ db.ready /\ store.token # None => db.row.token = store.token
RowUserAgrees ==
  astray = {} /\ db.ready => db.row.user = store.user \/ \E p \in Procs : Saving(p)
RowIsOne == astray = {} /\ db.row.user # None => db.row.user.of = db.row.token

\* What is in the row, or has been read from it, was granted by the server.
RowsAreIssued ==
  /\ {db.row.token, sync.got.token} \subseteq server.issued \cup {None}
  /\ \A p \in Procs : op[p].got.token \in server.issued \cup {None}

Inv ==
  /\ TypeOK /\ PurgesAgree /\ TokensAreIssued /\ OneLogin /\ GrantedIsFresh
  /\ DeniedIsPurged /\ WaitsForRefresh
  /\ RowTokenAgrees /\ RowUserAgrees /\ RowIsOne
  /\ HeaderFollowsToken /\ StoreAgrees

------------------------------------------------------------------------------
(* Lemmas about the values and the operators of the model.                    *)

LEMMA NoneIs ==
  /\ None \notin Tokens /\ None \notin User /\ Denied \notin User /\ Pending \notin User
  /\ Failed \notin User /\ Pending # None /\ Denied # None /\ Failed # None
  /\ Pending # Denied /\ Failed # Denied
  BY NoValues

LEMMA UserOf == ASSUME NEW u \in User PROVE u.of \in Tokens
  BY DEF User

LEMMA BlankIs ==
  /\ Blank \in Stores /\ Blank.token = None /\ Blank.user = None
  /\ Blank.loading = FALSE /\ Blank.refreshing = FALSE
  BY DEF Blank, Stores, MaybeToken, MaybeUser

LEMMA EmptyRowIs == EmptyRow \in Rows /\ EmptyRow.token = None /\ EmptyRow.user = None
  BY DEF EmptyRow, Rows, MaybeToken, MaybeUser

LEMMA RestIs == Rest \in Syncs
  BY EmptyRowIs DEF Rest, Syncs

LEMMA IdleIs ==
  /\ Idle \in Ops /\ Shaped(Idle) /\ ~Granted(Idle) /\ Idle.kind = "idle"
  /\ Idle.step = "idle" /\ Idle.sent = None /\ Idle.me = None
<1>1. /\ Idle.kind = "idle" /\ Idle.step = "idle" /\ Idle.sent = None /\ Idle.me = None
      /\ Idle.arg = None /\ Idle.nav = None /\ Idle.got = EmptyRow
  BY DEF Idle
<1>2. Idle \in Ops
  BY EmptyRowIs DEF Idle, Ops, Kinds, MaybeToken, Replies
<1>3. QED
  BY <1>1, <1>2 DEF Shaped, Granted

LEMMA FetchingIs ==
  ASSUME NEW kind \in {"refresh", "login", "switch"},
         NEW arg \in Tokens \cup Tenants \cup {None}, NEW h \in MaybeToken
  PROVE  \E o \in Ops :
           /\ o = Fetching(kind, arg, h)
           /\ o.kind = kind /\ o.step = "fetch" /\ o.arg = arg /\ o.sent = h
           /\ o.me = Pending /\ o.nav = Pending /\ Shaped(o) /\ ~Granted(o)
<1>1. PICK o : o = Fetching(kind, arg, h)
  OBVIOUS
<1>2. o = [kind |-> kind, step |-> "fetch", arg |-> arg, sent |-> h,
           me |-> Pending, nav |-> Pending, got |-> EmptyRow]
  BY <1>1 DEF Fetching, Idle
<1>3. o \in Ops
  BY <1>2, EmptyRowIs DEF Ops, Kinds, Replies
<1>4. /\ o.kind = kind /\ o.step = "fetch" /\ o.arg = arg /\ o.sent = h
      /\ o.me = Pending /\ o.nav = Pending
  BY <1>2
<1>5. Shaped(o) /\ ~Granted(o)
  BY <1>4, NoneIs DEF Shaped, Granted
<1>6. QED
  BY <1>1, <1>3, <1>4, <1>5

LEMMA OpsAre ==
  ASSUME NEW o \in Ops
  PROVE  /\ o.kind \in Kinds /\ o.step \in {"idle", "post", "fetch", "read", "put", "list"}
         /\ o.arg \in Tokens \cup Tenants \cup {None} /\ o.sent \in MaybeToken
         /\ o.me \in Replies /\ o.nav \in Replies /\ o.got \in Rows
  BY DEF Ops

LEMMA OpStep ==
  ASSUME TypeOK, NEW p \in Procs, NEW o \in Ops, op' = [op EXCEPT ![p] = o]
  PROVE  /\ op' \in [Procs -> Ops] /\ op'[p] = o
         /\ \A q \in Procs : q # p => op'[q] = op[q]
  BY DEF TypeOK

LEMMA SpendTyped ==
  ASSUME TypeOK, NEW what \in {"acts", "mishaps"}, Spend(what)
  PROVE  left' \in LeftValues
<1>1. left \in LeftValues /\ left[what] \in Nat /\ left[what] > 0
  BY DEF TypeOK, LeftValues, Spend
<1>2. PICK n \in Nat : n = left[what] - 1
  BY <1>1
<1>3. left' = [left EXCEPT ![what] = n]
  BY <1>2 DEF Spend
<1>4. QED
  BY <1>1, <1>2, <1>3 DEF LeftValues

\* A purge closes the database; the row is untouched as yet.
LEMMA PurgeDoes ==
  ASSUME TypeOK, purgeLocalSession
  PROVE  /\ db' \in Databases /\ ~db'.ready /\ db'.row = db.row
         /\ purges' \in Purges /\ purges'.deleting + purges'.opening > 0
<1>1. PICK d \in Databases : d = db
  BY DEF TypeOK
<1>2. PICK g \in Purges : g = purges
  BY DEF TypeOK
<1>3. db' = [d EXCEPT !.ready = FALSE]
  BY <1>1 DEF purgeLocalSession
<1>4. db' \in Databases /\ ~db'.ready /\ db'.row = d.row
  BY <1>3 DEF Databases
<1>5. PICK n \in 1..2 : purges' = [g EXCEPT !.deleting = n]
  <2>1. g.deleting \in 0..2
    BY DEF Purges
  <2>2. purges' = [g EXCEPT !.deleting = IF g.deleting = 2 THEN 2 ELSE g.deleting + 1]
    BY <1>2 DEF purgeLocalSession
  <2>3. (IF g.deleting = 2 THEN 2 ELSE g.deleting + 1) \in 1..2
    BY <2>1
  <2>4. QED
    BY <2>2, <2>3
<1>6. purges' \in Purges
  BY <1>5 DEF Purges
<1>7. purges'.deleting = n /\ purges'.opening \in 0..2
  BY <1>5 DEF Purges
<1>8. purges'.deleting + purges'.opening > 0
  BY <1>7
<1>9. QED
  BY <1>1, <1>4, <1>6, <1>8

------------------------------------------------------------------------------
(* Steps of an operation that leave the store alone.                          *)

\* Operation p becomes o; the store and what went astray stay; there may be a purge.
LEMMA OperationStep ==
  ASSUME Inv, NEW p \in Procs, NEW o \in Ops, Shaped(o),
         op' = [op EXCEPT ![p] = o], store' = store, astray' = astray,
         server' \in Servers, server.issued \subseteq server'.issued,
         server'.live \subseteq server'.issued, sync' \in Syncs, left' \in LeftValues,
         \/ UNCHANGED <<header, db, purges>>
         \/ purgeLocalSession /\ header' \in {header, None},
         o.sent \in {None, header, op[p].sent},
         Granted(o) =>
           /\ o.arg \in server'.issued /\ header # o.arg /\ o.sent # o.arg
           /\ \A q \in Procs : op[q].sent # o.arg,
         o.kind = "login" => op[p].kind = "login" \/ \A q \in Procs : op[q].kind # "login",
         o.step = "fetch" /\ Denied \in {o.me, o.nav} =>
           \/ ~db'.ready
           \/ op[p].step = "fetch" /\ o.sent = op[p].sent /\ Denied \in {op[p].me, op[p].nav},
         store.loading /\ store.user = None => o = Idle \/ (o.kind = "refresh" /\ o.step = "fetch"),
         Saving(p) => o.step \in {"read", "put"} /\ o.me = op[p].me,
         op[p].kind = "refresh" => o.kind = "refresh"
  PROVE  Inv'
<1>1. /\ TypeOK /\ PurgesAgree /\ TokensAreIssued /\ OneLogin /\ GrantedIsFresh
      /\ DeniedIsPurged /\ WaitsForRefresh /\ RowTokenAgrees /\ RowUserAgrees /\ RowIsOne
      /\ HeaderFollowsToken /\ StoreAgrees
  BY DEF Inv
<1>2. /\ op' \in [Procs -> Ops] /\ op'[p] = o
      /\ \A q \in Procs : q # p => op'[q] = op[q]
  BY <1>1, OpStep
<1>3. /\ db' \in Databases /\ purges' \in Purges /\ header' \in MaybeToken
      /\ db'.row = db.row /\ (db'.ready => db.ready) /\ header' \in {header, None}
      /\ (header' = header \/ (header' = None /\ purges'.deleting + purges'.opening > 0))
      /\ (purges'.deleting + purges'.opening > 0 \/ UNCHANGED <<db, purges>>)
      /\ (UNCHANGED <<db, purges>> \/ ~db'.ready)
  <2>1. CASE UNCHANGED <<header, db, purges>>
    BY <1>1, <2>1 DEF TypeOK
  <2>2. CASE purgeLocalSession /\ header' \in {header, None}
    BY <1>1, <2>2, PurgeDoes DEF TypeOK, MaybeToken
  <2>3. QED
    BY <2>1, <2>2
<1>4. TypeOK'
  <2>1. \A q \in Procs : Shaped(op'[q])
    BY <1>1, <1>2 DEF TypeOK
  <2>2. QED
    BY <1>1, <1>2, <1>3, <2>1 DEF TypeOK
<1>5. PurgesAgree'
  BY <1>1, <1>3 DEF PurgesAgree
<1>6. TokensAreIssued'
  <2>1. \A q \in Procs : op'[q].sent \in server'.issued \cup {None}
    BY <1>1, <1>2 DEF TokensAreIssued
  <2>2. \A q \in Procs : Granted(op'[q]) => op'[q].arg \in server'.issued
    BY <1>1, <1>2 DEF TokensAreIssued
  <2>3. {header', store'.token} \subseteq server'.issued \cup {None}
    BY <1>1, <1>3 DEF TokensAreIssued
  <2>4. QED
    BY <2>1, <2>2, <2>3 DEF TokensAreIssued
<1>7. OneLogin'
  <2>1. SUFFICES ASSUME NEW q \in Procs, NEW r \in Procs, op'[q].kind = "login",
                        op'[r].kind = "login"
        PROVE  q = r
    BY DEF OneLogin
  <2>2. QED
    BY <1>1, <1>2, <2>1 DEF OneLogin
<1>8. GrantedIsFresh'
  <2>1. SUFFICES ASSUME NEW q \in Procs, Granted(op'[q])
        PROVE  header' # op'[q].arg /\ \A r \in Procs : op'[r].sent # op'[q].arg
    BY DEF GrantedIsFresh
  <2>2. op'[q].arg # None
    BY <1>4, <2>1, NoneIs DEF TypeOK, Shaped, Granted
  <2>3. CASE q = p
    BY <1>2, <1>3, <2>1, <2>2, <2>3
  <2>4. CASE q # p
    <3>1. Granted(op[q]) /\ op'[q] = op[q]
      BY <1>2, <2>1, <2>4
    <3>2. header # op[q].arg /\ \A r \in Procs : op[r].sent # op[q].arg
      BY <1>1, <3>1 DEF GrantedIsFresh
    <3>3. QED
      BY <1>2, <1>3, <2>2, <3>1, <3>2
  <2>5. QED
    BY <2>3, <2>4
<1>9. DeniedIsPurged'
  <2>1. SUFFICES ASSUME store.token # None, NEW q \in Procs, op'[q].step = "fetch",
                        op'[q].sent = store.token, Denied \in {op'[q].me, op'[q].nav}
        PROVE  ~db'.ready
    BY DEF DeniedIsPurged
  <2>2. CASE q = p
    BY <1>1, <1>2, <1>3, <2>1, <2>2 DEF DeniedIsPurged
  <2>3. CASE q # p
    BY <1>1, <1>2, <1>3, <2>1, <2>3 DEF DeniedIsPurged
  <2>4. QED
    BY <2>2, <2>3
<1>10. WaitsForRefresh'
  BY <1>1, <1>2 DEF WaitsForRefresh
<1>11. RowTokenAgrees' /\ RowIsOne'
  BY <1>1, <1>3 DEF RowTokenAgrees, RowIsOne
<1>12. RowUserAgrees'
  <2>1. \A q \in Procs : Saving(q) => Saving(q)'
    <3>1. SUFFICES ASSUME NEW q \in Procs, Saving(q) PROVE Saving(q)'
      OBVIOUS
    <3>2. CASE q = p
      BY <1>2, <3>1, <3>2 DEF Saving
    <3>3. CASE q # p
      BY <1>2, <3>1, <3>3 DEF Saving
    <3>4. QED
      BY <3>2, <3>3
  <2>2. SUFFICES ASSUME astray = {}, db'.ready, db'.row.user # store.user
        PROVE  \E q \in Procs : Saving(q)'
    BY DEF RowUserAgrees
  <2>3. \E q \in Procs : Saving(q)
    BY <1>1, <1>3, <2>2 DEF RowUserAgrees
  <2>4. QED
    BY <2>1, <2>3
<1>13. HeaderFollowsToken'
  BY <1>1, <1>3 DEF HeaderFollowsToken
<1>14. StoreAgrees'
  <2>1. BusyIsCarried'
    BY <1>1, <1>2 DEF StoreAgrees, BusyIsCarried
  <2>2. QED
    BY <1>1, <2>1 DEF StoreAgrees, ShownUserIsOfToken
<1>15. QED
  BY <1>4, <1>5, <1>6, <1>7, <1>8, <1>9, <1>10, <1>11, <1>12, <1>13, <1>14 DEF Inv

\* What the invariant says of one operation.
LEMMA InvOf ==
  ASSUME Inv, NEW p \in Procs
  PROVE  /\ TypeOK /\ op[p] \in Ops /\ Shaped(op[p]) /\ op[p].sent \in MaybeToken
         /\ server \in Servers /\ sync \in Syncs /\ left \in LeftValues
         /\ server.live \subseteq server.issued /\ header \in MaybeToken
         /\ store.loading /\ store.user = None =>
              op[p] = Idle \/ (op[p].kind = "refresh" /\ op[p].step = "fetch")
         /\ op[p] = Idle => op[p].kind = "idle" /\ op[p].step = "idle" /\ ~Saving(p)
<1>1. op[p] \in Ops /\ Shaped(op[p]) /\ TypeOK
  BY DEF Inv, TypeOK
<1>2. op[p].sent \in MaybeToken
  BY <1>1, OpsAre
<1>3. op[p] = Idle => op[p].kind = "idle" /\ op[p].step = "idle" /\ ~Saving(p)
  BY IdleIs DEF Saving
<1>4. QED
  BY <1>1, <1>2, <1>3 DEF Inv, TypeOK, TokensAreIssued, WaitsForRefresh

LEMMA StartLoginKeeps ==
  ASSUME Inv, NEW p \in Procs, StartLogin(p) PROVE Inv'
<1>1. PICK o : o = [Idle EXCEPT !.kind = "login", !.step = "post"]
  OBVIOUS
<1>2. o \in Ops
  BY <1>1, IdleIs DEF Ops, Kinds
<1>3. o.kind = "login" /\ o.step = "post" /\ o.sent = None /\ o.me = None
  BY <1>1 DEF Idle
<1>4. Shaped(o) /\ ~Granted(o)
  BY <1>3 DEF Shaped, Granted
<1>5. /\ op[p] = Idle /\ Route(store) = "/login" /\ \A q \in Procs : op[q].kind # "login"
      /\ op' = [op EXCEPT ![p] = o]
      /\ UNCHANGED <<server, db, header, store, purges, sync, astray>>
  BY <1>1 DEF StartLogin
<1>6. ~(store.loading /\ store.user = None)
  BY <1>5 DEF Route
<1>7. left' \in LeftValues
  BY InvOf, SpendTyped DEF StartLogin
<1>8. QED
  BY <1>2, <1>3, <1>4, <1>5, <1>6, <1>7, InvOf, OperationStep

LEMMA StartSwitchKeeps ==
  ASSUME Inv, NEW p \in Procs, NEW t \in Tenants, StartSwitch(p, t) PROVE Inv'
<1>1. PICK o : o = [Idle EXCEPT !.kind = "switch", !.step = "post", !.arg = t, !.sent = header]
  OBVIOUS
<1>2. o \in Ops
  BY <1>1, IdleIs, InvOf DEF Ops, Kinds
<1>3. o.kind = "switch" /\ o.step = "post" /\ o.sent = header /\ o.arg = t /\ o.me = None
  BY <1>1 DEF Idle
<1>4. Shaped(o) /\ ~Granted(o)
  BY <1>3 DEF Shaped, Granted
<1>5. /\ op[p] = Idle /\ store.user # None /\ op' = [op EXCEPT ![p] = o]
      /\ UNCHANGED <<server, db, header, store, purges, sync, astray>>
  BY <1>1 DEF StartSwitch
<1>6. left' \in LeftValues
  BY InvOf, SpendTyped DEF StartSwitch
<1>7. QED
  BY <1>2, <1>3, <1>4, <1>5, <1>6, InvOf, OperationStep

LEMMA StartLogoutKeeps ==
  ASSUME Inv, NEW p \in Procs, StartLogout(p) PROVE Inv'
<1>1. PICK o : o = [Idle EXCEPT !.kind = "logout", !.step = "post", !.sent = header]
  OBVIOUS
<1>2. o \in Ops
  BY <1>1, IdleIs, InvOf DEF Ops, Kinds
<1>3. o.kind = "logout" /\ o.step = "post" /\ o.sent = header /\ o.me = None
  BY <1>1 DEF Idle
<1>4. Shaped(o) /\ ~Granted(o)
  BY <1>3 DEF Shaped, Granted
<1>5. /\ op[p] = Idle /\ store.user # None /\ op' = [op EXCEPT ![p] = o]
      /\ UNCHANGED <<server, db, header, store, purges, sync, astray>>
  BY <1>1 DEF StartLogout
<1>6. left' \in LeftValues
  BY InvOf, SpendTyped DEF StartLogout
<1>7. QED
  BY <1>2, <1>3, <1>4, <1>5, <1>6, InvOf, OperationStep

\* An operation that is over, whatever it was but a refresh.
LEMMA OverStep ==
  ASSUME Inv, NEW p \in Procs, op[p].kind # "refresh", op[p].step \notin {"read", "put"},
         op' = [op EXCEPT ![p] = Idle], store' = store, astray' = astray,
         server' \in Servers, server'.issued = server.issued,
         server'.live \subseteq server.issued, sync' \in Syncs, left' \in LeftValues,
         \/ UNCHANGED <<header, db, purges>>
         \/ purgeLocalSession /\ header' \in {header, None}
  PROVE  Inv'
<1>1. ~Saving(p)
  BY DEF Saving
<1>2. QED
  BY <1>1, IdleIs, OperationStep

LEMMA LoginReplyKeeps ==
  ASSUME Inv, NEW p \in Procs, LoginReply(p) PROVE Inv'
<1>1. op[p].kind = "login" /\ op[p].step = "post" /\ UNCHANGED <<store, sync, astray>>
  BY DEF LoginReply
<1>2. CASE \E k \in Tokens \ server.issued, t \in Tenants \cup {None} :
             /\ server' = [live |-> server.live \cup {k}, issued |-> server.issued \cup {k},
                           at |-> [server.at EXCEPT ![k] = t]]
             /\ op' = [op EXCEPT ![p].step = "read", ![p].arg = k]
             /\ NoExpire /\ UNCHANGED left
  <2>1. PICK k \in Tokens \ server.issued, t \in Tenants \cup {None} :
             /\ server' = [live |-> server.live \cup {k}, issued |-> server.issued \cup {k},
                           at |-> [server.at EXCEPT ![k] = t]]
             /\ op' = [op EXCEPT ![p].step = "read", ![p].arg = k]
             /\ NoExpire /\ UNCHANGED left
    BY <1>2
  <2>2. PICK s \in Servers : s = server
    BY InvOf
  <2>3. server' \in Servers
    <3>1. [s.at EXCEPT ![k] = t] \in [Tokens -> Tenants \cup {None}]
      BY DEF Servers
    <3>2. QED
      BY <2>1, <2>2, <3>1 DEF Servers
  <2>4. server'.issued = server.issued \cup {k} /\ server'.live = server.live \cup {k}
    BY <2>1
  <2>5. PICK x \in Ops : x = op[p]
    BY InvOf
  <2>6. PICK o : o = [x EXCEPT !.step = "read", !.arg = k]
    OBVIOUS
  <2>7. o \in Ops
    BY <2>1, <2>6 DEF Ops
  <2>8. o.kind = x.kind /\ o.step = "read" /\ o.arg = k /\ o.sent = x.sent /\ o.me = x.me
    BY <2>6 DEF Ops
  <2>9. op' = [op EXCEPT ![p] = o]
    <3>1. op' = [op EXCEPT ![p] = [[op[p] EXCEPT !.step = "read"] EXCEPT !.arg = k]]
      BY <2>1, InvOf DEF TypeOK
    <3>2. [[x EXCEPT !.step = "read"] EXCEPT !.arg = k] = o
      BY <2>6 DEF Ops
    <3>3. QED
      BY <2>5, <3>1, <3>2
  <2>10. \A q \in Procs : op[q].sent # k
    BY <2>1, InvOf, NoneIs DEF Inv, TokensAreIssued
  <2>11. header # k
    BY <2>1, InvOf, NoneIs DEF Inv, TokensAreIssued
  <2>12. Granted(o) /\ Shaped(o)
    BY <1>1, <2>1, <2>5, <2>8, InvOf DEF Granted, Shaped
  <2>13. ~Saving(p) /\ ~(store.loading /\ store.user = None)
    BY <1>1, InvOf, IdleIs DEF Saving
  <2>14. UNCHANGED <<header, db, purges>>
    BY <2>1 DEF NoExpire
  <2>15. o.sent # k /\ o.sent = op[p].sent /\ o.arg = k /\ o.kind = op[p].kind /\ o.step = "read"
    BY <2>5, <2>8, <2>10
  <2>16. /\ server.issued \subseteq server'.issued /\ server'.live \subseteq server'.issued
         /\ k \in server'.issued
    BY <2>4, InvOf
  <2>17. sync' \in Syncs /\ left' \in LeftValues
    BY <1>1, <2>1, InvOf
  <2>18. QED
    BY <1>1, <2>3, <2>7, <2>9, <2>10, <2>11, <2>12, <2>13, <2>14, <2>15, <2>16, <2>17,
       OperationStep
<1>3. CASE Spend("mishaps") /\ op' = [op EXCEPT ![p] = Idle] /\ Expire /\ UNCHANGED server
  <2>1. left' \in LeftValues
    BY <1>3, InvOf, SpendTyped
  <2>2. QED
    BY <1>1, <1>3, <2>1, InvOf, OverStep DEF Expire
<1>4. QED
  BY <1>1, <1>2, <1>3 DEF LoginReply

LEMMA SwitchReplyKeeps ==
  ASSUME Inv, NEW p \in Procs, SwitchReply(p) PROVE Inv'
<1>1. /\ op[p].kind = "switch" /\ op[p].step = "post" /\ UNCHANGED <<store, sync, astray, left>>
      /\ sync' \in Syncs /\ left' \in LeftValues
  BY InvOf DEF SwitchReply
<1>2. CASE op[p].sent \in server.live
  <2>1. /\ server' = [server EXCEPT !.at[op[p].sent] = op[p].arg] /\ NoExpire
        /\ op' = [op EXCEPT ![p] = Fetching("switch", op[p].arg, header)]
    BY <1>2 DEF SwitchReply
  <2>2. PICK s \in Servers : s = server
    BY InvOf
  <2>3. op[p].sent \in Tokens /\ op[p].arg \in Tenants /\ header \in MaybeToken
    BY <1>1, <1>2, InvOf DEF Servers, Shaped
  <2>4. PICK at : at = [s.at EXCEPT ![op[p].sent] = op[p].arg]
    OBVIOUS
  <2>5. at \in [Tokens -> Tenants \cup {None}]
    BY <2>3, <2>4 DEF Servers
  <2>6. server' = [s EXCEPT !.at = at]
    BY <2>1, <2>2, <2>4
  <2>7. server' \in Servers /\ server'.issued = server.issued /\ server'.live = server.live
    BY <2>2, <2>5, <2>6 DEF Servers
  <2>8. PICK o \in Ops :
           /\ o = Fetching("switch", op[p].arg, header)
           /\ o.kind = "switch" /\ o.step = "fetch" /\ o.sent = header
           /\ o.me = Pending /\ o.nav = Pending /\ Shaped(o) /\ ~Granted(o)
    BY <2>3, FetchingIs
  <2>9. ~Saving(p) /\ ~(store.loading /\ store.user = None)
    BY <1>1, InvOf, IdleIs DEF Saving
  <2>10. UNCHANGED <<header, db, purges>> /\ op' = [op EXCEPT ![p] = o]
    BY <2>1, <2>8 DEF NoExpire
  <2>11. Denied \notin {o.me, o.nav} /\ server.live \subseteq server.issued
    BY <2>8, NoneIs, InvOf
  <2>12. QED
    BY <1>1, <2>7, <2>8, <2>9, <2>10, <2>11, OperationStep
<1>3. CASE op[p].sent \notin server.live
  <2>1. op' = [op EXCEPT ![p] = Idle] /\ Expire /\ UNCHANGED server
    BY <1>3 DEF SwitchReply
  <2>2. QED
    BY <1>1, <2>1, InvOf, OverStep DEF Expire
<1>4. QED
  BY <1>2, <1>3

LEMMA LogoutReplyKeeps ==
  ASSUME Inv, NEW p \in Procs, LogoutReply(p) PROVE Inv'
<1>1. /\ op[p].kind = "logout" /\ op[p].step = "post" /\ UNCHANGED <<header, store, sync, astray>>
      /\ op' = [op EXCEPT ![p] = Idle] /\ purgeLocalSession
  BY DEF LogoutReply
<1>2. left' \in LeftValues
  BY InvOf, SpendTyped DEF LogoutReply
<1>3. PICK s \in Servers : s = server
  BY InvOf
<1>4. PICK gone \in SUBSET Tokens : server' = [s EXCEPT !.live = s.live \ gone]
  <2>1. CASE server' = [server EXCEPT !.live = @ \ {op[p].sent}]
    <3>1. server' = [s EXCEPT !.live = s.live \ ({op[p].sent} \cap Tokens)]
      <4>1. s.live \ {op[p].sent} = s.live \ ({op[p].sent} \cap Tokens)
        BY DEF Servers
      <4>2. QED
        BY <1>3, <2>1, <4>1
    <3>2. QED
      BY <3>1
  <2>2. CASE server' = server
    <3>1. server' = [s EXCEPT !.live = s.live \ {}]
      BY <1>3, <2>2 DEF Servers
    <3>2. QED
      BY <3>1
  <2>3. QED
    BY <2>1, <2>2 DEF LogoutReply
<1>5. /\ server' \in Servers /\ server'.issued = server.issued
      /\ server'.live \subseteq server.issued
  <2>1. server' \in Servers
    BY <1>4 DEF Servers
  <2>2. server'.issued = s.issued /\ server'.live = s.live \ gone
    BY <1>4 DEF Servers
  <2>3. QED
    BY <1>3, <2>1, <2>2, InvOf
<1>6. QED
  BY <1>1, <1>2, <1>5, InvOf, OverStep

\* The server answers a request: with what it knows, with a 401, or not at all.
LEMMA AnswerKeeps ==
  ASSUME Inv, NEW p \in Procs, NEW part \in {"me", "nav"}, Answer(p, part) PROVE Inv'
<1>1. /\ op[p].step = "fetch" /\ op[p][part] = Pending /\ UNCHANGED <<server, store, sync, astray>>
      /\ server' \in Servers /\ server.live \subseteq server'.issued /\ sync' \in Syncs
  BY InvOf DEF Answer
<1>2. PICK x \in Ops : x = op[p]
  BY InvOf
<1>3. PICK r \in Replies :
         /\ op' = [op EXCEPT ![p][part] = r] /\ r # None
         /\ r = Denied => Expire
         /\ (NoExpire \/ Expire) /\ left' \in LeftValues
  <2>1. CASE op[p].sent \in server.live /\ op' = [op EXCEPT ![p][part] = Known(op[p].sent)]
             /\ NoExpire /\ UNCHANGED left
    <3>1. Known(op[p].sent) \in User
      BY <2>1, InvOf DEF Known, User, Servers
    <3>2. PICK r \in User : r = Known(op[p].sent)
      BY <3>1
    <3>3. r \in Replies /\ r # None /\ r # Denied
      BY NoneIs DEF Replies
    <3>4. op' = [op EXCEPT ![p][part] = r] /\ NoExpire /\ left' \in LeftValues
      BY <2>1, <3>2, InvOf
    <3>5. QED
      BY <3>3, <3>4
  <2>2. CASE op' = [op EXCEPT ![p][part] = Denied] /\ Expire /\ UNCHANGED left
    BY <2>2, InvOf, NoneIs DEF Replies
  <2>3. CASE Spend("mishaps") /\ op' = [op EXCEPT ![p][part] = Failed] /\ NoExpire
    <3>1. left' \in LeftValues
      BY <2>3, InvOf, SpendTyped
    <3>2. QED
      BY <2>3, <3>1, NoneIs DEF Replies
  <2>4. QED
    BY <2>1, <2>2, <2>3 DEF Answer
<1>4. PICK o : o = [x EXCEPT ![part] = r]
  OBVIOUS
<1>5. /\ o \in Ops /\ o.kind = x.kind /\ o.step = x.step /\ o.arg = x.arg /\ o.sent = x.sent
      /\ o.me \in {x.me, r} /\ o.nav \in {x.nav, r}
  <2>1. CASE part = "me"
    <3>1. o = [x EXCEPT !.me = r]
      BY <1>4, <2>1
    <3>2. QED
      BY <3>1 DEF Ops
  <2>2. CASE part = "nav"
    <3>1. o = [x EXCEPT !.nav = r]
      BY <1>4, <2>2
    <3>2. QED
      BY <3>1 DEF Ops
  <2>3. QED
    BY <2>1, <2>2
<1>6. op' = [op EXCEPT ![p] = o]
  BY <1>2, <1>3, <1>4, InvOf DEF TypeOK
<1>7. Shaped(o) /\ ~Granted(o)
  BY <1>1, <1>2, <1>3, <1>5, InvOf DEF Shaped, Granted
<1>8. ~Saving(p) /\ (store.loading /\ store.user = None => o.kind = "refresh" /\ o.step = "fetch")
  BY <1>1, <1>2, <1>5, InvOf, IdleIs DEF Saving
<1>9. Denied \in {o.me, o.nav} => Denied \in {op[p].me, op[p].nav} \/ ~db'.ready
  <2>1. r = Denied => ~db'.ready
    BY <1>3, InvOf, PurgeDoes DEF Expire
  <2>2. QED
    BY <1>2, <1>5, <2>1
<1>10. \/ UNCHANGED <<header, db, purges>>
       \/ purgeLocalSession /\ header' \in {header, None}
  BY <1>3 DEF Expire, NoExpire
<1>11. server.issued \subseteq server'.issued /\ server'.live \subseteq server'.issued
  BY <1>1, InvOf
<1>12. o.kind = op[p].kind /\ o.sent = op[p].sent /\ o.step = "fetch"
  BY <1>1, <1>2, <1>5
<1>13. QED
  BY <1>1, <1>3, <1>5, <1>6, <1>7, <1>8, <1>9, <1>10, <1>11, <1>12, OperationStep

LEMMA ReadRowKeeps ==
  ASSUME Inv, NEW p \in Procs, ReadRow(p) PROVE Inv'
<1>1. PICK x \in Ops : x = op[p]
  BY InvOf
<1>2. PICK r \in Rows : r = IF db.ready THEN db.row ELSE EmptyRow
  BY InvOf, EmptyRowIs DEF TypeOK, Databases
<1>3. PICK o : o = [x EXCEPT !.step = "put", !.got = r]
  OBVIOUS
<1>4. o \in Ops
  BY <1>3 DEF Ops
<1>5. o.kind = x.kind /\ o.step = "put" /\ o.arg = x.arg /\ o.sent = x.sent /\ o.me = x.me
  BY <1>3 DEF Ops
<1>6. /\ op[p].step = "read" /\ op' = [op EXCEPT ![p] = o]
      /\ UNCHANGED <<server, db, header, store, purges, sync, astray, left>>
  <2>1. op' = [op EXCEPT ![p] = [[op[p] EXCEPT !.step = "put"] EXCEPT !.got = r]]
    BY <1>2, InvOf DEF TypeOK, ReadRow
  <2>2. [[x EXCEPT !.step = "put"] EXCEPT !.got = r] = o
    BY <1>3 DEF Ops
  <2>3. QED
    BY <1>1, <2>1, <2>2 DEF ReadRow
<1>7. Shaped(o) /\ (Granted(o) <=> Granted(op[p]))
  BY <1>1, <1>5, <1>6, InvOf DEF Shaped, Granted
<1>8. Granted(o) =>
        /\ o.arg \in server.issued /\ header # o.arg /\ o.sent # o.arg
        /\ \A q \in Procs : op[q].sent # o.arg
  BY <1>1, <1>5, <1>7 DEF Inv, TokensAreIssued, GrantedIsFresh
<1>9. ~(store.loading /\ store.user = None)
  BY <1>6, InvOf, IdleIs
<1>10. o.kind = op[p].kind /\ o.sent = op[p].sent /\ o.me = op[p].me
  BY <1>1, <1>5
<1>11. QED
  BY <1>4, <1>5, <1>6, <1>7, <1>8, <1>9, <1>10, InvOf, OperationStep

LEMMA ListReplyKeeps ==
  ASSUME Inv, NEW p \in Procs, ListReply(p) PROVE Inv'
<1>1. /\ op[p].step = "list" /\ op' = [op EXCEPT ![p] = Idle]
      /\ UNCHANGED <<server, store, astray, left>>
      /\ NoExpire \/ (Expire /\ sync' = [sync EXCEPT !.due = TRUE])
  BY DEF ListReply
<1>2. sync' \in Syncs
  BY InvOf DEF ListReply, Syncs
<1>3. op[p].kind # "refresh"
  BY <1>1, InvOf DEF Shaped
<1>4. QED
  BY <1>1, <1>2, <1>3, InvOf, OverStep DEF Expire, NoExpire

LEMMA RevokeKeeps ==
  ASSUME Inv, NEW k \in Tokens, Revoke(k) PROVE Inv'
<1>1. TypeOK /\ server \in Servers
  BY DEF Inv, TypeOK
<1>2. UNCHANGED <<db, header, store, purges, op, sync, astray>> /\ left' \in LeftValues
  BY <1>1, SpendTyped DEF Revoke
<1>3. PICK s \in Servers : s = server
  BY <1>1
<1>4. server' = [s EXCEPT !.live = s.live \ {k}]
  BY <1>3 DEF Revoke
<1>5. server' \in Servers
  BY <1>4 DEF Servers
<1>6. server'.issued = s.issued /\ server'.live = s.live \ {k}
  BY <1>4 DEF Servers
<1>7. TypeOK'
  BY <1>1, <1>2, <1>5 DEF TypeOK
<1>8. TokensAreIssued'
  BY <1>2, <1>3, <1>6 DEF Inv, TokensAreIssued
<1>9. QED
  BY <1>2, <1>7, <1>8 DEF Inv, PurgesAgree, OneLogin, GrantedIsFresh, DeniedIsPurged,
     WaitsForRefresh, RowTokenAgrees, RowUserAgrees, Saving, RowIsOne, HeaderFollowsToken,
     StoreAgrees, ShownUserIsOfToken, BusyIsCarried

------------------------------------------------------------------------------
(* Steps that change the store.                                               *)

\* A refresh that begins on a page that shows a user, who may be a new one that is
\* not saved.
LEMMA RefreshStep ==
  ASSUME Inv, NEW p \in Procs, op[p] = Idle, NEW s \in Stores, s.user # None,
         s.token = store.token, RefreshFrom(p, s, header, op),
         UNCHANGED <<server, db, purges>>, sync' \in Syncs, left' \in LeftValues,
         \/ s = store /\ astray' = astray
         \/ s.token # None /\ astray' # {}
            /\ astray' \subseteq {"unsaved", "late", "clobbered", "outrun"}
  PROVE  Inv'
<1>1. /\ TypeOK /\ PurgesAgree /\ TokensAreIssued /\ OneLogin /\ GrantedIsFresh
      /\ DeniedIsPurged /\ WaitsForRefresh /\ RowTokenAgrees /\ RowUserAgrees /\ RowIsOne
      /\ HeaderFollowsToken /\ StoreAgrees
  BY DEF Inv
<1>2. astray' \subseteq {"unsaved", "late", "clobbered", "outrun"}
  BY <1>1 DEF TypeOK
<1>3. CASE s.token = None
  <2>1. store' = Blank /\ header' = None /\ op' = op /\ s = store /\ astray' = astray
    BY <1>3 DEF RefreshFrom, Busy, Reset
  <2>2. astray # {}
    <3>1. store.user \in User
      BY <1>1, <2>1 DEF Stores, MaybeUser
    <3>2. QED
      BY <1>1, <1>3, <2>1, <3>1, UserOf, NoneIs DEF StoreAgrees, ShownUserIsOfToken
  <2>3. TypeOK'
    BY <1>1, <2>1, BlankIs DEF TypeOK, MaybeToken
  <2>4. TokensAreIssued' /\ OneLogin' /\ PurgesAgree'
    BY <1>1, <2>1, BlankIs DEF TokensAreIssued, OneLogin, PurgesAgree
  <2>5. GrantedIsFresh'
    <3>1. \A q \in Procs : Granted(op[q]) => op[q].arg # None
      BY <1>1, NoneIs DEF TypeOK, Shaped, Granted
    <3>2. QED
      BY <1>1, <2>1, <3>1 DEF GrantedIsFresh
  <2>6. DeniedIsPurged' /\ WaitsForRefresh' /\ HeaderFollowsToken'
    BY <2>1, BlankIs DEF DeniedIsPurged, WaitsForRefresh, HeaderFollowsToken
  <2>7. RowTokenAgrees' /\ RowUserAgrees' /\ RowIsOne'
    BY <2>1, <2>2 DEF RowTokenAgrees, RowUserAgrees, RowIsOne
  <2>8. StoreAgrees'
    BY <2>1, BlankIs DEF StoreAgrees, ShownUserIsOfToken, BusyIsCarried
  <2>9. QED
    BY <2>3, <2>4, <2>5, <2>6, <2>7, <2>8 DEF Inv
<1>4. CASE s.token # None
  <2>1. PICK o \in Ops :
           /\ o = Fetching("refresh", None, header)
           /\ o.kind = "refresh" /\ o.step = "fetch" /\ o.sent = header
           /\ o.me = Pending /\ o.nav = Pending /\ Shaped(o) /\ ~Granted(o)
    BY <1>1, FetchingIs DEF TypeOK
  <2>2. header' = header /\ op' = [op EXCEPT ![p] = o] /\ store' = [s EXCEPT !.refreshing = TRUE]
    BY <1>4, <2>1 DEF RefreshFrom, Busy
  <2>3. /\ op' \in [Procs -> Ops] /\ op'[p] = o
        /\ \A q \in Procs : q # p => op'[q] = op[q]
    BY <1>1, <2>2, OpStep
  <2>4. store' \in Stores
    BY <2>2 DEF Stores
  <2>5. store'.token = store.token /\ store'.user = s.user
    BY <2>2 DEF Stores
  <2>6. TypeOK'
    <3>1. \A q \in Procs : Shaped(op'[q])
      BY <1>1, <2>1, <2>3 DEF TypeOK
    <3>2. QED
      BY <1>1, <1>2, <2>2, <2>3, <2>4, <3>1 DEF TypeOK
  <2>7. TokensAreIssued' /\ PurgesAgree'
    BY <1>1, <2>1, <2>2, <2>3, <2>5 DEF TokensAreIssued, PurgesAgree
  <2>8. OneLogin'
    BY <1>1, <2>1, <2>3 DEF OneLogin
  <2>9. GrantedIsFresh'
    BY <1>1, <2>1, <2>2, <2>3 DEF GrantedIsFresh
  <2>10. DeniedIsPurged'
    BY <1>1, <2>1, <2>3, <2>5, NoneIs DEF DeniedIsPurged
  <2>11. WaitsForRefresh'
    BY <2>5 DEF WaitsForRefresh
  <2>12. RowTokenAgrees' /\ RowIsOne'
    BY <1>1, <2>5 DEF RowTokenAgrees, RowIsOne
  <2>13. RowUserAgrees'
    <3>1. SUFFICES ASSUME astray' = {}, db.ready, db.row.user # store.user
          PROVE  \E q \in Procs : Saving(q)'
      BY <2>5 DEF RowUserAgrees
    <3>2. PICK q \in Procs : Saving(q)
      BY <1>1, <3>1 DEF RowUserAgrees
    <3>3. q # p
      BY <3>2, IdleIs DEF Saving
    <3>4. QED
      BY <2>3, <2>5, <3>1, <3>2, <3>3 DEF Saving
  <2>14. HeaderFollowsToken'
    BY <1>1, <2>2, <2>5 DEF HeaderFollowsToken
  <2>15. StoreAgrees'
    BY <1>1, <2>1, <2>3, <2>5 DEF StoreAgrees, ShownUserIsOfToken, BusyIsCarried
  <2>16. QED
    BY <2>6, <2>7, <2>8, <2>9, <2>10, <2>11, <2>12, <2>13, <2>14, <2>15 DEF Inv
<1>5. QED
  BY <1>3, <1>4

LEMMA StartRefreshKeeps ==
  ASSUME Inv, NEW p \in Procs, StartRefresh(p) PROVE Inv'
<1>1. store \in Stores /\ sync \in Syncs /\ TypeOK
  BY DEF Inv, TypeOK
<1>2. left' \in LeftValues
  BY <1>1, SpendTyped DEF StartRefresh
<1>3. /\ op[p] = Idle /\ store.user # None /\ RefreshFrom(p, store, header, op)
      /\ UNCHANGED <<server, db, purges, sync, astray>>
  BY DEF StartRefresh
<1>4. QED
  BY <1>1, <1>2, <1>3, RefreshStep

LEMMA applyAuthSnapshotKeeps ==
  ASSUME Inv, NEW p \in Procs, applyAuthSnapshot(p) PROVE Inv'
<1>1. /\ op[p] = Idle /\ store.token \in server.live
      /\ RefreshFrom(p, [store EXCEPT !.user = Known(store.token)], header, op)
      /\ sync' = [sync EXCEPT !.due = TRUE] /\ astray' = astray \cup {"unsaved"}
      /\ UNCHANGED <<server, db, purges, left>>
  BY DEF applyAuthSnapshot
<1>2. store \in Stores /\ server \in Servers /\ sync \in Syncs /\ left \in LeftValues
      /\ astray \subseteq {"unsaved", "late", "clobbered", "outrun"}
  BY DEF Inv, TypeOK
<1>3. PICK u \in User : u = Known(store.token)
  BY <1>1, <1>2 DEF Known, User, Servers
<1>4. PICK s : s = [store EXCEPT !.user = u]
  OBVIOUS
<1>5. s \in Stores /\ s.token = store.token /\ s.user = u
  BY <1>2, <1>4 DEF Stores, MaybeUser
<1>6. sync' \in Syncs
  BY <1>1, <1>2 DEF Syncs
<1>7. s.token # None
  BY <1>1, <1>2, <1>5, NoneIs DEF Servers
<1>8. s.user # None /\ RefreshFrom(p, s, header, op)
  BY <1>1, <1>3, <1>4, <1>5, NoneIs
<1>9. astray' # {} /\ astray' \subseteq {"unsaved", "late", "clobbered", "outrun"}
  BY <1>1, <1>2
<1>10. QED
  BY <1>1, <1>2, <1>5, <1>6, <1>7, <1>8, <1>9, RefreshStep

\* Both replies are in: the user is shown, and the row is about to be written.
LEMMA ApplyKeeps ==
  ASSUME Inv, NEW p \in Procs, Apply(p) PROVE Inv'
<1>1. /\ TypeOK /\ PurgesAgree /\ TokensAreIssued /\ OneLogin /\ GrantedIsFresh
      /\ DeniedIsPurged /\ WaitsForRefresh /\ RowTokenAgrees /\ RowUserAgrees /\ RowIsOne
      /\ HeaderFollowsToken /\ StoreAgrees
  BY DEF Inv
<1>2. PICK x \in Ops : x = op[p]
  BY InvOf
<1>3. /\ x.step = "fetch" /\ x.me \in User
      /\ store' = [store EXCEPT !.user = x.me]
      /\ astray' = IF x.me.of = store.token THEN astray ELSE astray \cup {"late"}
      /\ op' = [op EXCEPT ![p] = [x EXCEPT !.step = "read"]]
      /\ sync' = [sync EXCEPT !.due = TRUE]
      /\ UNCHANGED <<server, db, header, purges, left>>
  BY <1>2, InvOf DEF Apply, Loaded, Settled
<1>4. PICK o : o = [x EXCEPT !.step = "read"]
  OBVIOUS
<1>5. o \in Ops
  BY <1>4 DEF Ops
<1>6. o.kind = x.kind /\ o.step = "read" /\ o.arg = x.arg /\ o.sent = x.sent /\ o.me = x.me
  BY <1>4 DEF Ops
<1>7. /\ op' \in [Procs -> Ops] /\ op'[p] = o
      /\ \A q \in Procs : q # p => op'[q] = op[q]
  BY <1>1, <1>3, <1>4, <1>5, OpStep
<1>8. Shaped(o) /\ ~Granted(o)
  BY <1>2, <1>3, <1>6, InvOf, NoneIs DEF Shaped, Granted
<1>9. /\ store' \in Stores /\ store'.token = store.token /\ store'.user = x.me
      /\ store'.loading = store.loading /\ store'.refreshing = store.refreshing
  <2>1. PICK s \in Stores : s = store
    BY <1>1 DEF TypeOK
  <2>2. store' = [s EXCEPT !.user = x.me]
    BY <1>3, <2>1
  <2>3. store' \in Stores
    BY <1>3, <2>2 DEF Stores, MaybeUser
  <2>4. /\ store'.token = s.token /\ store'.user = x.me
        /\ store'.loading = s.loading /\ store'.refreshing = s.refreshing
    BY <2>2 DEF Stores
  <2>5. QED
    BY <2>1, <2>3, <2>4
<1>10. sync' \in Syncs
  BY <1>1, <1>3 DEF TypeOK, Syncs
<1>11. TypeOK'
  <2>1. \A q \in Procs : Shaped(op'[q])
    BY <1>1, <1>7, <1>8 DEF TypeOK
  <2>2. QED
    BY <1>1, <1>3, <1>7, <1>9, <1>10, <2>1 DEF TypeOK
<1>12. PurgesAgree' /\ TokensAreIssued' /\ OneLogin' /\ HeaderFollowsToken'
  <2>1. \A q \in Procs : op'[q].sent = op[q].sent /\ op'[q].kind = op[q].kind
    BY <1>2, <1>6, <1>7
  <2>2. \A q \in Procs : Granted(op'[q]) => Granted(op[q]) /\ op'[q] = op[q]
    BY <1>7, <1>8
  <2>3. PurgesAgree' /\ HeaderFollowsToken'
    BY <1>1, <1>3, <1>9 DEF PurgesAgree, HeaderFollowsToken
  <2>4. TokensAreIssued'
    BY <1>1, <1>3, <1>9, <2>1, <2>2 DEF TokensAreIssued
  <2>5. OneLogin'
    BY <1>1, <2>1 DEF OneLogin
  <2>6. QED
    BY <2>3, <2>4, <2>5
<1>13. GrantedIsFresh'
  BY <1>1, <1>2, <1>3, <1>6, <1>7, <1>8 DEF GrantedIsFresh
<1>14. DeniedIsPurged'
  BY <1>1, <1>3, <1>6, <1>7, <1>9 DEF DeniedIsPurged
<1>15. WaitsForRefresh'
  BY <1>3, <1>9, NoneIs DEF WaitsForRefresh
<1>16. astray' = {} => astray = {} /\ x.me.of = store.token
  BY <1>3
<1>17. RowTokenAgrees' /\ RowIsOne'
  BY <1>1, <1>3, <1>9, <1>16 DEF RowTokenAgrees, RowIsOne
<1>18. RowUserAgrees'
  <2>1. Saving(p)'
    BY <1>3, <1>6, <1>7, <1>9 DEF Saving
  <2>2. QED
    BY <2>1 DEF RowUserAgrees
<1>19. StoreAgrees'
  <2>1. BusyIsCarried'
    BY <1>1, <1>2, <1>6, <1>7, <1>9 DEF StoreAgrees, BusyIsCarried
  <2>2. QED
    BY <1>9, <1>16, <2>1 DEF StoreAgrees, ShownUserIsOfToken
<1>20. QED
  BY <1>11, <1>12, <1>13, <1>14, <1>15, <1>17, <1>18, <1>19 DEF Inv

LEMMA FinishedIs ==
  ASSUME NEW s \in Stores
  PROVE  /\ Finished(s) \in Stores /\ Finished(s).token = s.token /\ Finished(s).user = s.user
         /\ Finished(s).loading = FALSE /\ Finished(s).refreshing = FALSE
<1>1. PICK f : f = [s EXCEPT !.loading = FALSE, !.refreshing = FALSE]
  OBVIOUS
<1>2. f \in Stores
  BY <1>1 DEF Stores
<1>3. f.token = s.token /\ f.user = s.user /\ f.loading = FALSE /\ f.refreshing = FALSE
  BY <1>1 DEF Stores
<1>4. QED
  BY <1>1, <1>2, <1>3 DEF Finished

LEMMA GivesUpIs ==
  ASSUME NEW s \in Stores
  PROVE  /\ GivesUp(s) \in Stores /\ GivesUp(s).token = None /\ GivesUp(s).user = s.user
         /\ GivesUp(s).loading = FALSE /\ GivesUp(s).refreshing = FALSE
<1>1. PICK f : f = [s EXCEPT !.token = None]
  OBVIOUS
<1>2. f \in Stores /\ f.token = None /\ f.user = s.user
  BY <1>1 DEF Stores, MaybeToken
<1>3. QED
  BY <1>1, <1>2, FinishedIs DEF GivesUp

\* A load that is refused or fails: a refresh resets the store, gives the token up
\* or keeps the user it had; another operation leaves it.
LEMMA NotLoadedKeeps ==
  ASSUME Inv, NEW p \in Procs, NotLoaded(p) PROVE Inv'
<1>1. /\ TypeOK /\ PurgesAgree /\ TokensAreIssued /\ OneLogin /\ GrantedIsFresh
      /\ DeniedIsPurged /\ WaitsForRefresh /\ RowTokenAgrees /\ RowUserAgrees /\ RowIsOne
      /\ HeaderFollowsToken /\ StoreAgrees
  BY DEF Inv
<1>2. /\ op[p].step = "fetch" /\ op' = [op EXCEPT ![p] = Idle]
      /\ UNCHANGED <<server, db, purges, left>>
      /\ astray' = IF store'.token = store.token \/ op[p].sent = store.token
                   THEN astray ELSE astray \cup {"late"}
  BY DEF NotLoaded, Settled
<1>3. sync' \in Syncs
  <2>1. PICK y \in Syncs : y = sync
    BY <1>1 DEF TypeOK
  <2>2. PICK b \in BOOLEAN : b = (y.due \/ store'.user # store.user)
    OBVIOUS
  <2>3. sync' = [y EXCEPT !.due = y.due \/ store'.user # store.user]
    BY <2>1 DEF NotLoaded
  <2>4. sync' = [y EXCEPT !.due = b]
    BY <2>2, <2>3
  <2>5. QED
    BY <2>4 DEF Syncs
<1>4. CASE op[p].kind # "refresh"
  <2>1. store' = store /\ header' = header
    BY <1>4 DEF NotLoaded
  <2>2. QED
    BY <1>2, <1>3, <1>4, <2>1, InvOf, OverStep
<1>5. CASE op[p].kind = "refresh"
  <2>1. \/ /\ Refused(op[p]) /\ store' = Blank /\ header' = None
        \/ /\ store.user = None /\ store' = GivesUp(store) /\ header' = None
        \/ /\ store' = Finished(store) /\ header' = header
    BY <1>5 DEF NotLoaded, Reset
  <2>2. /\ store' \in Stores /\ store'.loading = FALSE /\ store'.refreshing = FALSE
        /\ \/ store'.token = store.token /\ store'.user = store.user /\ header' = header
           \/ /\ store'.token = None /\ store'.user = None /\ header' = None
              /\ store.user = None \/ Refused(op[p])
    <3>1. store \in Stores
      BY <1>1 DEF TypeOK
    <3>2. CASE Refused(op[p]) /\ store' = Blank /\ header' = None
      BY <3>2, BlankIs
    <3>3. CASE store.user = None /\ store' = GivesUp(store) /\ header' = None
      BY <3>1, <3>3, GivesUpIs
    <3>4. CASE store' = Finished(store) /\ header' = header
      BY <3>1, <3>4, FinishedIs
    <3>5. QED
      BY <2>1, <3>2, <3>3, <3>4
  <2>3. /\ op' \in [Procs -> Ops] /\ op'[p] = Idle
        /\ \A q \in Procs : q # p => op'[q] = op[q]
    BY <1>1, <1>2, IdleIs, OpStep
  <2>4. TypeOK'
    <3>1. \A q \in Procs : Shaped(op'[q])
      BY <1>1, <2>3, IdleIs DEF TypeOK
    <3>2. astray' \subseteq {"unsaved", "late", "clobbered", "outrun"}
      BY <1>1, <1>2 DEF TypeOK
    <3>3. header' \in MaybeToken
      BY <1>1, <2>2 DEF TypeOK, MaybeToken
    <3>4. QED
      BY <1>1, <1>2, <1>3, <2>2, <2>3, <3>1, <3>2, <3>3 DEF TypeOK
  <2>5. PurgesAgree' /\ TokensAreIssued'
    BY <1>1, <1>2, <2>2, <2>3, IdleIs DEF PurgesAgree, TokensAreIssued
  <2>6. OneLogin'
    BY <1>1, <2>3, IdleIs DEF OneLogin
  <2>7. GrantedIsFresh'
    <3>1. \A q \in Procs : Granted(op[q]) => op[q].arg # None
      BY <1>1, NoneIs DEF TypeOK, Shaped, Granted
    <3>2. QED
      BY <1>1, <2>2, <2>3, <3>1, IdleIs DEF GrantedIsFresh
  <2>8. DeniedIsPurged'
    BY <1>1, <1>2, <2>2, <2>3, IdleIs DEF DeniedIsPurged
  <2>9. WaitsForRefresh' /\ HeaderFollowsToken'
    BY <1>1, <1>2, <2>2 DEF WaitsForRefresh, HeaderFollowsToken
  <2>10. astray' = {} => astray = {} /\ (store'.token = store.token \/ op[p].sent = store.token)
    BY <1>2
  <2>11. RowTokenAgrees' /\ RowIsOne'
    BY <1>1, <1>2, <2>2, <2>10 DEF RowTokenAgrees, RowIsOne
  <2>12. RowUserAgrees'
    <3>1. SUFFICES ASSUME astray' = {}, db.ready, db.row.user # store'.user
          PROVE  \E q \in Procs : Saving(q)'
      BY <1>2 DEF RowUserAgrees
    <3>2. CASE store'.user = store.user
      <4>1. PICK q \in Procs : Saving(q)
        BY <1>1, <2>10, <3>1, <3>2 DEF RowUserAgrees
      <4>2. q # p
        BY <1>2, <4>1 DEF Saving
      <4>3. QED
        BY <2>3, <3>2, <4>1, <4>2 DEF Saving
    <3>3. CASE store'.user # store.user
      <4>1. /\ store'.token = None /\ store.user # None /\ Refused(op[p])
        BY <2>2, <3>3
      <4>2. store.user \in User /\ store.user.of = store.token
        BY <1>1, <2>10, <3>1, <4>1 DEF TypeOK, Stores, MaybeUser, StoreAgrees, ShownUserIsOfToken
      <4>3. store.token # None
        BY <4>2, UserOf, NoneIs
      <4>4. op[p].sent = store.token
        BY <2>10, <3>1, <4>1, <4>3
      <4>5. Denied \in {op[p].me, op[p].nav}
        BY <4>1 DEF Refused
      <4>6. QED
        BY <1>1, <1>2, <3>1, <4>3, <4>4, <4>5 DEF DeniedIsPurged
    <3>4. QED
      BY <3>2, <3>3
  <2>13. StoreAgrees'
    BY <1>1, <2>2, <2>10 DEF StoreAgrees, ShownUserIsOfToken, BusyIsCarried
  <2>14. QED
    BY <2>4, <2>5, <2>6, <2>7, <2>8, <2>9, <2>11, <2>12, <2>13 DEF Inv
<1>6. QED
  BY <1>4, <1>5

------------------------------------------------------------------------------
(* Writes of the row.                                                         *)

Astrays == {"unsaved", "late", "clobbered", "outrun"}

\* When nothing is astray after a write, the row has become what the store holds,
\* or the write was of the row as it stood, and true.
LEMMA PutDoes ==
  ASSUME TypeOK, NEW got \in Rows, NEW row \in Rows, NEW current \in BOOLEAN,
         Put(got, row, current)
  PROVE  /\ db' \in Databases /\ db'.ready = db.ready
         /\ db'.row = IF db.ready THEN row ELSE db.row
         /\ astray' \subseteq Astrays
         /\ astray' = {} =>
              \/ /\ db.ready /\ row.user = store.user /\ row.token = store'.token
                 /\ row.user = None \/ row.user.of = row.token
              \/ astray = {} /\ current /\ (~db.ready \/ got = db.row)
<1>1. PICK d \in Databases : d = db
  BY DEF TypeOK
<1>2. CASE d.ready
  <2>1. db' = [d EXCEPT !.row = row]
    BY <1>1, <1>2 DEF Put
  <2>2. db' \in Databases
    BY <2>1 DEF Databases
  <2>3. db'.ready = d.ready /\ db'.row = row
    BY <2>1 DEF Databases
  <2>4. QED
    BY <1>1, <1>2, <2>2, <2>3 DEF Put, TypeOK, Astrays
<1>3. CASE ~d.ready
  <2>1. db' = db
    BY <1>1, <1>3 DEF Put
  <2>2. QED
    BY <1>1, <1>3, <2>1 DEF Put, TypeOK, Astrays
<1>4. QED
  BY <1>2, <1>3

\* The token of a login comes into force.
LEMMA PutTokenKeeps ==
  ASSUME Inv, NEW p \in Procs, PutToken(p) PROVE Inv'
<1>1. /\ TypeOK /\ PurgesAgree /\ TokensAreIssued /\ OneLogin /\ GrantedIsFresh
      /\ DeniedIsPurged /\ WaitsForRefresh /\ RowTokenAgrees /\ RowUserAgrees /\ RowIsOne
      /\ HeaderFollowsToken /\ StoreAgrees
  BY DEF Inv
<1>2. /\ op[p].step = "put" /\ op[p].me = None /\ Granted(op[p])
      /\ op[p].kind = "login" /\ op[p].arg \in Tokens
  BY InvOf, NoneIs DEF PutToken, Shaped, Granted
<1>3. PICK k \in Tokens : k = op[p].arg
  BY <1>2
<1>4. PICK got \in Rows : got = op[p].got
  BY InvOf, OpsAre
<1>5. PICK row \in Rows : row = [got EXCEPT !.token = k] /\ row.token = k /\ row.user = got.user
  <2>1. PICK r : r = [got EXCEPT !.token = k]
    OBVIOUS
  <2>2. r \in Rows /\ r.token = k /\ r.user = got.user
    BY <2>1 DEF Rows, MaybeToken
  <2>3. QED
    BY <2>1, <2>2
<1>6. PICK o \in Ops :
         /\ o = Fetching("login", k, k)
         /\ o.kind = "login" /\ o.step = "fetch" /\ o.arg = k /\ o.sent = k
         /\ o.me = Pending /\ o.nav = Pending /\ Shaped(o) /\ ~Granted(o)
  BY FetchingIs DEF MaybeToken
<1>7. PICK current \in BOOLEAN : current = (store.user = None)
  OBVIOUS
<1>8. /\ header' = k /\ store' = [store EXCEPT !.token = k]
      /\ op' = [op EXCEPT ![p] = o]
      /\ UNCHANGED <<server, purges, sync, left>>
  BY <1>3, <1>6 DEF PutToken
<1>9. /\ store' \in Stores /\ store'.token = k /\ store'.user = store.user
      /\ store'.loading = store.loading /\ store'.refreshing = store.refreshing
  <2>1. PICK s \in Stores : s = store
    BY <1>1 DEF TypeOK
  <2>2. store' = [s EXCEPT !.token = k]
    BY <1>8, <2>1
  <2>3. store' \in Stores
    BY <2>2 DEF Stores, MaybeToken
  <2>4. /\ store'.token = k /\ store'.user = s.user
        /\ store'.loading = s.loading /\ store'.refreshing = s.refreshing
    BY <2>2 DEF Stores
  <2>5. QED
    BY <2>1, <2>3, <2>4
<1>10. Put(got, row, store.user = None)
  BY <1>3, <1>4, <1>5 DEF PutToken
<1>11. /\ db' \in Databases /\ db'.ready = db.ready
       /\ db'.row = IF db.ready THEN row ELSE db.row
       /\ astray' \subseteq Astrays
       /\ astray' = {} =>
            \/ /\ db.ready /\ row.user = store.user /\ row.token = store'.token
               /\ row.user = None \/ row.user.of = row.token
            \/ astray = {} /\ store.user = None /\ (~db.ready \/ got = db.row)
  BY <1>1, <1>10, PutDoes
<1>12. /\ op' \in [Procs -> Ops] /\ op'[p] = o
       /\ \A q \in Procs : q # p => op'[q] = op[q]
  BY <1>1, <1>8, OpStep
<1>13. TypeOK'
  <2>1. \A q \in Procs : Shaped(op'[q])
    BY <1>1, <1>6, <1>12 DEF TypeOK
  <2>2. QED
    BY <1>1, <1>8, <1>9, <1>11, <1>12, <2>1 DEF TypeOK, MaybeToken, Astrays
<1>14. k \in server.issued
  BY <1>1, <1>2, <1>3 DEF TokensAreIssued
<1>15. PurgesAgree' /\ HeaderFollowsToken'
  BY <1>1, <1>8, <1>9, <1>11 DEF PurgesAgree, HeaderFollowsToken
<1>16. TokensAreIssued'
  BY <1>1, <1>6, <1>8, <1>9, <1>12, <1>14 DEF TokensAreIssued
<1>17. OneLogin'
  BY <1>1, <1>2, <1>12 DEF OneLogin
<1>18. GrantedIsFresh'
  <2>1. \A q \in Procs : ~Granted(op'[q])
    BY <1>1, <1>2, <1>6, <1>12 DEF OneLogin, Granted
  <2>2. QED
    BY <2>1 DEF GrantedIsFresh
<1>19. DeniedIsPurged'
  <2>1. \A q \in Procs : op[q].sent # k
    BY <1>1, <1>2, <1>3 DEF GrantedIsFresh
  <2>2. QED
    BY <1>6, <1>9, <1>12, <2>1, NoneIs DEF DeniedIsPurged
<1>20. ~(store.loading /\ store.user = None)
  BY <1>2, InvOf, IdleIs
<1>21. WaitsForRefresh'
  BY <1>9, <1>20 DEF WaitsForRefresh
<1>22. RowTokenAgrees'
  BY <1>5, <1>9, <1>11 DEF RowTokenAgrees
<1>23. ASSUME astray' = {}, db.ready PROVE row.user = store.user /\ (row.user = None \/ row.user.of = k)
  <2>1. CASE /\ row.user = store.user /\ row.token = store'.token
             /\ row.user = None \/ row.user.of = row.token
    BY <1>9, <2>1
  <2>2. CASE astray = {} /\ store.user = None /\ got = db.row
    <3>1. \A q \in Procs : ~Saving(q)
      BY <2>2, NoneIs DEF Saving
    <3>2. db.row.user = store.user
      BY <1>1, <1>23, <2>2, <3>1 DEF RowUserAgrees
    <3>3. QED
      BY <1>5, <2>2, <3>2
  <2>3. QED
    BY <1>11, <1>23, <2>1, <2>2
<1>24. RowUserAgrees'
  BY <1>9, <1>11, <1>23 DEF RowUserAgrees
<1>25. RowIsOne'
  <2>1. CASE db.ready
    BY <1>5, <1>11, <1>23, <2>1 DEF RowIsOne
  <2>2. CASE ~db.ready
    BY <1>1, <1>11, <2>2 DEF RowIsOne
  <2>3. QED
    BY <2>1, <2>2
<1>26. StoreAgrees'
  <2>1. BusyIsCarried'
    BY <1>1, <1>2, <1>9, <1>12 DEF StoreAgrees, BusyIsCarried
  <2>2. ShownUserIsOfToken'
    BY <1>9, <1>11, <1>23 DEF ShownUserIsOfToken
  <2>3. QED
    BY <2>1, <2>2 DEF StoreAgrees
<1>27. QED
  BY <1>13, <1>15, <1>16, <1>17, <1>18, <1>19, <1>21, <1>22, <1>24, <1>25, <1>26 DEF Inv

\* A write that leaves the token as it was keeps row and store together.
LEMMA RowStaysTrue ==
  ASSUME Inv, NEW row \in Rows, store'.token = store.token, store'.user = store.user,
         db'.ready = db.ready, db'.row = IF db.ready THEN row ELSE db.row,
         astray' = {} =>
           \/ /\ db.ready /\ row.user = store.user /\ row.token = store'.token
              /\ row.user = None \/ row.user.of = row.token
           \/ /\ astray = {}
              /\ db.ready => row.token = db.row.token /\ row.user \in {db.row.user, store.user}
  PROVE  RowTokenAgrees' /\ RowIsOne' /\ ShownUserIsOfToken'
<1>1. RowTokenAgrees /\ RowIsOne /\ ShownUserIsOfToken /\ store \in Stores
  BY DEF Inv, TypeOK, StoreAgrees
<1>2. RowTokenAgrees'
  BY <1>1 DEF RowTokenAgrees
<1>3. ShownUserIsOfToken'
  BY <1>1 DEF ShownUserIsOfToken
<1>4. RowIsOne'
  <2>1. SUFFICES ASSUME astray' = {}, db'.row.user # None
        PROVE  db'.row.user.of = db'.row.token
    BY DEF RowIsOne
  <2>2. CASE ~db.ready
    BY <1>1, <2>1, <2>2 DEF RowIsOne
  <2>3. CASE db.ready /\ astray = {} /\ row.token = db.row.token /\ row.user = db.row.user
    BY <1>1, <2>1, <2>3 DEF RowIsOne
  <2>4. CASE db.ready /\ astray = {} /\ row.token = db.row.token /\ row.user = store.user
    <3>1. store.user # None /\ store.user.of = store.token
      BY <1>1, <2>1, <2>4 DEF ShownUserIsOfToken
    <3>2. store.token # None
      BY <1>1, <3>1, UserOf, NoneIs DEF Stores, MaybeUser
    <3>3. QED
      BY <1>1, <2>4, <3>1, <3>2 DEF RowTokenAgrees
  <2>5. QED
    BY <2>1, <2>2, <2>3, <2>4
<1>5. QED
  BY <1>2, <1>3, <1>4

\* The tenant's display is written into the row, which is left as it was read.
LEMMA PutTenantDisplayKeeps ==
  ASSUME Inv, PutTenantDisplay PROVE Inv'
<1>1. /\ TypeOK /\ PurgesAgree /\ TokensAreIssued /\ OneLogin /\ GrantedIsFresh
      /\ DeniedIsPurged /\ WaitsForRefresh /\ RowUserAgrees
      /\ HeaderFollowsToken /\ StoreAgrees
  BY DEF Inv
<1>2. UNCHANGED <<server, header, store, purges, op, left>> /\ Put(sync.got, sync.got, TRUE)
  BY DEF PutTenantDisplay
<1>3. PICK y \in Syncs : y = sync
  BY <1>1 DEF TypeOK
<1>4. PICK got \in Rows : got = y.got
  BY DEF Syncs
<1>5. sync' \in Syncs
  <2>1. y.due \in BOOLEAN
    BY DEF Syncs
  <2>2. PICK z \in Syncs : z = Rest
    BY RestIs
  <2>3. sync' = [z EXCEPT !.due = y.due]
    BY <1>3, <2>2 DEF PutTenantDisplay
  <2>4. QED
    BY <2>1, <2>3 DEF Syncs
<1>6. /\ db' \in Databases /\ db'.ready = db.ready
      /\ db'.row = IF db.ready THEN got ELSE db.row
      /\ astray' \subseteq Astrays
      /\ astray' = {} =>
           \/ /\ db.ready /\ got.user = store.user /\ got.token = store'.token
              /\ got.user = None \/ got.user.of = got.token
           \/ astray = {} /\ (~db.ready \/ got = db.row)
  BY <1>1, <1>2, <1>3, <1>4, PutDoes
<1>7. TypeOK'
  BY <1>1, <1>2, <1>5, <1>6 DEF TypeOK, Astrays
<1>8. RowTokenAgrees' /\ RowIsOne' /\ ShownUserIsOfToken'
  BY <1>2, <1>6, RowStaysTrue
<1>9. RowUserAgrees'
  <2>1. SUFFICES ASSUME astray' = {}, db.ready, db'.row.user # store.user
        PROVE  \E q \in Procs : Saving(q)'
    BY <1>2, <1>6 DEF RowUserAgrees
  <2>2. \E q \in Procs : Saving(q)
    BY <1>1, <1>6, <2>1 DEF RowUserAgrees
  <2>3. QED
    BY <1>2, <2>2 DEF Saving
<1>10. PurgesAgree' /\ TokensAreIssued' /\ OneLogin' /\ GrantedIsFresh'
       /\ WaitsForRefresh' /\ HeaderFollowsToken' /\ BusyIsCarried'
  BY <1>1, <1>2, <1>6 DEF PurgesAgree, TokensAreIssued, OneLogin, GrantedIsFresh,
     WaitsForRefresh, HeaderFollowsToken, StoreAgrees, BusyIsCarried
<1>11. DeniedIsPurged'
  BY <1>1, <1>2, <1>6 DEF DeniedIsPurged
<1>12. QED
  BY <1>7, <1>8, <1>9, <1>10, <1>11 DEF Inv, StoreAgrees

\* The row of a user is written: a refresh is over, another operation goes on.
LEMMA PutSnapshotKeeps ==
  ASSUME Inv, NEW p \in Procs, PutSnapshot(p) PROVE Inv'
<1>1. /\ TypeOK /\ PurgesAgree /\ TokensAreIssued /\ OneLogin /\ GrantedIsFresh
      /\ DeniedIsPurged /\ WaitsForRefresh /\ HeaderFollowsToken /\ StoreAgrees
  BY DEF Inv
<1>2. /\ op[p].step = "put" /\ op[p].me \in User /\ op[p].kind \in {"refresh", "login", "switch"}
      /\ UNCHANGED <<server, header, purges, sync, left>>
  BY InvOf DEF PutSnapshot, Shaped, Granted
<1>3. PICK me \in User : me = op[p].me
  BY <1>2
<1>4. PICK got \in Rows : got = op[p].got
  BY InvOf, OpsAre
<1>5. PICK row \in Rows : row = [got EXCEPT !.user = me] /\ row.token = got.token /\ row.user = me
  <2>1. PICK r : r = [got EXCEPT !.user = me]
    OBVIOUS
  <2>2. r \in Rows /\ r.token = got.token /\ r.user = me
    BY <2>1 DEF Rows, MaybeUser
  <2>3. QED
    BY <2>1, <2>2
<1>6. PICK o \in Ops :
        /\ Shaped(o) /\ ~Granted(o) /\ op' = [op EXCEPT ![p] = o]
        /\ o.sent \in {None, header} /\ o.step # "fetch"
        /\ o.kind = "login" => op[p].kind = "login"
  <2>1. CASE op[p].kind = "refresh"
    BY <2>1, IdleIs DEF PutSnapshot
  <2>2. CASE op[p].kind # "refresh"
    <3>1. PICK kind \in {"login", "switch"} : kind = op[p].kind
      BY <1>2, <2>2
    <3>2. PICK o : o = [Idle EXCEPT !.kind = kind, !.step = "list", !.sent = header]
      OBVIOUS
    <3>3. o \in Ops
      BY <3>2, IdleIs, InvOf DEF Ops, Kinds
    <3>4. o.kind = kind /\ o.step = "list" /\ o.sent = header
      BY <3>2 DEF Idle
    <3>5. Shaped(o) /\ ~Granted(o)
      BY <3>4 DEF Shaped, Granted
    <3>6. op' = [op EXCEPT ![p] = o]
      BY <2>2, <3>1, <3>2 DEF PutSnapshot
    <3>7. QED
      BY <3>1, <3>3, <3>4, <3>5, <3>6
  <2>3. QED
    BY <2>1, <2>2
<1>7. /\ store' \in Stores /\ store'.token = store.token /\ store'.user = store.user
      /\ store'.loading => store.loading
      /\ \/ ~store'.loading /\ ~store'.refreshing
         \/ store' = store /\ op[p].kind # "refresh"
  <2>1. store \in Stores
    BY <1>1 DEF TypeOK
  <2>2. CASE op[p].kind = "refresh"
    <3>1. store' = Finished(store)
      BY <2>2 DEF PutSnapshot
    <3>2. QED
      BY <2>1, <3>1, FinishedIs
  <2>3. CASE op[p].kind # "refresh"
    BY <2>1, <2>3 DEF PutSnapshot
  <2>4. QED
    BY <2>2, <2>3
<1>8. PICK current \in BOOLEAN : current = (~db.ready \/ me = store.user)
  OBVIOUS
<1>9. Put(got, row, current)
  BY <1>3, <1>4, <1>5, <1>8 DEF PutSnapshot
<1>10. /\ db' \in Databases /\ db'.ready = db.ready
       /\ db'.row = IF db.ready THEN row ELSE db.row
       /\ astray' \subseteq Astrays
       /\ astray' = {} =>
            \/ /\ db.ready /\ row.user = store.user /\ row.token = store'.token
               /\ row.user = None \/ row.user.of = row.token
            \/ astray = {} /\ current /\ (~db.ready \/ got = db.row)
  BY <1>1, <1>9, PutDoes
<1>11. /\ op' \in [Procs -> Ops] /\ op'[p] = o
       /\ \A q \in Procs : q # p => op'[q] = op[q]
  BY <1>1, <1>6, OpStep
<1>12. TypeOK'
  <2>1. \A q \in Procs : Shaped(op'[q])
    BY <1>1, <1>6, <1>11 DEF TypeOK
  <2>2. QED
    BY <1>1, <1>2, <1>7, <1>10, <1>11, <2>1 DEF TypeOK, Astrays
<1>13. PurgesAgree' /\ HeaderFollowsToken'
  BY <1>1, <1>2, <1>7, <1>10 DEF PurgesAgree, HeaderFollowsToken
<1>14. TokensAreIssued'
  BY <1>1, <1>2, <1>6, <1>7, <1>11 DEF TokensAreIssued
<1>15. OneLogin'
  BY <1>1, <1>6, <1>11 DEF OneLogin
<1>16. GrantedIsFresh'
  <2>1. \A q \in Procs : Granted(op[q]) => op[q].arg # None
    BY <1>1, NoneIs DEF TypeOK, Shaped, Granted
  <2>2. QED
    BY <1>1, <1>2, <1>6, <1>11, <2>1 DEF GrantedIsFresh
<1>17. DeniedIsPurged'
  BY <1>1, <1>6, <1>7, <1>10, <1>11 DEF DeniedIsPurged
<1>18. WaitsForRefresh'
  <2>1. ~(store.loading /\ store.user = None)
    BY <1>2, InvOf, IdleIs
  <2>2. QED
    BY <1>7, <2>1 DEF WaitsForRefresh
<1>19. RowTokenAgrees' /\ RowIsOne' /\ ShownUserIsOfToken'
  BY <1>5, <1>7, <1>8, <1>10, RowStaysTrue
<1>20. RowUserAgrees'
  BY <1>5, <1>7, <1>8, <1>10 DEF RowUserAgrees
<1>21. BusyIsCarried'
  BY <1>1, <1>7, <1>11 DEF StoreAgrees, BusyIsCarried
<1>22. QED
  BY <1>12, <1>13, <1>14, <1>15, <1>16, <1>17, <1>18, <1>19, <1>20, <1>21 DEF Inv, StoreAgrees

------------------------------------------------------------------------------
(* Steps of a purge, and the tenant's display.                                *)

\* The row goes while the database is closed.
LEMMA PurgeDeletesKeeps ==
  ASSUME Inv, PurgeDeletes PROVE Inv'
<1>1. /\ TypeOK /\ PurgesAgree /\ TokensAreIssued /\ OneLogin /\ GrantedIsFresh
      /\ DeniedIsPurged /\ WaitsForRefresh /\ HeaderFollowsToken /\ StoreAgrees
  BY DEF Inv
<1>2. UNCHANGED <<server, header, store, op, sync, astray, left>> /\ purges.deleting > 0
  BY DEF PurgeDeletes
<1>3. PICK d \in Databases : d = db
  BY <1>1 DEF TypeOK
<1>4. db' = [d EXCEPT !.row = EmptyRow]
  BY <1>3 DEF PurgeDeletes
<1>5. db' \in Databases
  BY <1>4, EmptyRowIs DEF Databases
<1>6. db'.ready = db.ready /\ db'.row = EmptyRow
  BY <1>3, <1>4 DEF Databases
<1>7. ~db.ready
  BY <1>1, <1>2 DEF PurgesAgree
<1>8. purges' \in Purges /\ purges'.opening > 0
  <2>1. purges.deleting \in 1..2 /\ purges.opening \in 0..2
    BY <1>1, <1>2 DEF TypeOK, Purges
  <2>2. PICK n \in 0..1, m \in 1..2 : purges' = [deleting |-> n, opening |-> m]
    BY <2>1 DEF PurgeDeletes
  <2>3. QED
    BY <2>2 DEF Purges
<1>9. purges'.deleting + purges'.opening > 0
  BY <1>8 DEF Purges
<1>10. TypeOK'
  BY <1>1, <1>2, <1>5, <1>8 DEF TypeOK
<1>11. PurgesAgree' /\ HeaderFollowsToken'
  BY <1>1, <1>2, <1>6, <1>7, <1>9 DEF PurgesAgree, HeaderFollowsToken
<1>12. TokensAreIssued' /\ OneLogin' /\ GrantedIsFresh' /\ DeniedIsPurged' /\ WaitsForRefresh'
  BY <1>1, <1>2, <1>6 DEF TokensAreIssued, OneLogin, GrantedIsFresh, DeniedIsPurged,
     WaitsForRefresh
<1>13. RowTokenAgrees' /\ RowUserAgrees' /\ RowIsOne'
  BY <1>6, <1>7, EmptyRowIs DEF RowTokenAgrees, RowUserAgrees, RowIsOne
<1>14. StoreAgrees'
  BY <1>1, <1>2 DEF StoreAgrees, ShownUserIsOfToken, BusyIsCarried
<1>15. QED
  BY <1>10, <1>11, <1>12, <1>13, <1>14 DEF Inv

\* The database is opened anew and the store reset.
LEMMA PurgeEndsKeeps ==
  ASSUME Inv, PurgeEnds PROVE Inv'
<1>1. /\ TypeOK /\ TokensAreIssued /\ OneLogin /\ GrantedIsFresh
  BY DEF Inv
<1>2. /\ UNCHANGED <<server, op, left>> /\ header' = None /\ store' = Blank
      /\ purges.opening > 0 /\ purges.deleting = 0
      /\ astray' = IF db.row = EmptyRow THEN {} ELSE astray \cup {"late"}
  BY DEF PurgeEnds, Reset
<1>3. PICK d \in Databases : d = db
  BY <1>1 DEF TypeOK
<1>4. db' = [d EXCEPT !.ready = TRUE]
  BY <1>3 DEF PurgeEnds
<1>5. db' \in Databases
  BY <1>4 DEF Databases
<1>6. db'.row = db.row /\ db'.ready = TRUE
  BY <1>3, <1>4 DEF Databases
<1>7. purges' \in Purges /\ purges'.deleting = 0
  <2>1. PICK g \in Purges : g = purges
    BY <1>1 DEF TypeOK
  <2>2. PICK n \in 0..1 : n = g.opening - 1
    BY <1>2, <2>1 DEF Purges
  <2>3. purges' = [g EXCEPT !.opening = n]
    BY <2>1, <2>2 DEF PurgeEnds
  <2>4. purges' \in Purges
    BY <2>3 DEF Purges
  <2>5. purges'.deleting = g.deleting
    BY <2>3 DEF Purges
  <2>6. QED
    BY <1>2, <2>1, <2>4, <2>5
<1>8. sync' \in Syncs
  <2>1. PICK y \in Syncs : y = sync
    BY <1>1 DEF TypeOK
  <2>2. sync' = [y EXCEPT !.due = TRUE]
    BY <2>1 DEF PurgeEnds
  <2>3. QED
    BY <2>2 DEF Syncs
<1>9. TypeOK'
  BY <1>1, <1>2, <1>5, <1>7, <1>8, BlankIs DEF TypeOK, MaybeToken
<1>10. PurgesAgree' /\ HeaderFollowsToken'
  BY <1>2, <1>6, <1>7, BlankIs DEF PurgesAgree, HeaderFollowsToken
<1>11. TokensAreIssued' /\ OneLogin' /\ DeniedIsPurged' /\ WaitsForRefresh'
  BY <1>1, <1>2, BlankIs DEF TokensAreIssued, OneLogin, DeniedIsPurged, WaitsForRefresh
<1>12. GrantedIsFresh'
  <2>1. \A q \in Procs : Granted(op[q]) => op[q].arg # None
    BY <1>1, NoneIs DEF TypeOK, Shaped, Granted
  <2>2. QED
    BY <1>1, <1>2, <2>1 DEF GrantedIsFresh
<1>13. astray' = {} => db'.row = EmptyRow
  BY <1>2, <1>6
<1>14. RowTokenAgrees' /\ RowUserAgrees' /\ RowIsOne'
  BY <1>2, <1>13, BlankIs, EmptyRowIs DEF RowTokenAgrees, RowUserAgrees, RowIsOne
<1>15. StoreAgrees'
  BY <1>2, BlankIs DEF StoreAgrees, ShownUserIsOfToken, BusyIsCarried
<1>16. QED
  BY <1>9, <1>10, <1>11, <1>12, <1>14, <1>15 DEF Inv

LEMMA syncTenantDisplayKeeps ==
  ASSUME Inv, syncTenantDisplay PROVE Inv'
<1>1. UNCHANGED <<server, db, header, store, purges, op, astray, left>>
  BY DEF syncTenantDisplay
<1>2. sync' \in Syncs
  <2>1. PICK r \in Rows : r = db.row
    BY DEF Inv, TypeOK, Databases
  <2>2. PICK homeless \in BOOLEAN : homeless = (store.user = None \/ store.user.at = None)
    OBVIOUS
  <2>3. PICK writes \in BOOLEAN : writes = (db.ready /\ ~(homeless /\ db.row = EmptyRow))
    BY DEF Inv, TypeOK, Databases
  <2>4. PICK g \in Rows : g = IF writes THEN r ELSE EmptyRow
    BY EmptyRowIs
  <2>5. sync' = [due |-> FALSE, writes |-> writes, got |-> g] \/ sync' = Rest
    BY <2>1, <2>2, <2>3, <2>4 DEF syncTenantDisplay
  <2>6. [due |-> FALSE, writes |-> TRUE, got |-> g] \in Syncs
        /\ [due |-> FALSE, writes |-> FALSE, got |-> g] \in Syncs
    BY <2>4 DEF Syncs
  <2>7. QED
    BY <2>3, <2>5, <2>6, RestIs
<1>3. TypeOK'
  BY <1>1, <1>2 DEF Inv, TypeOK
<1>4. QED
  BY <1>1, <1>3 DEF Inv, PurgesAgree, TokensAreIssued, OneLogin, GrantedIsFresh, DeniedIsPurged,
     WaitsForRefresh, RowTokenAgrees, RowUserAgrees, Saving, RowIsOne, HeaderFollowsToken,
     StoreAgrees, ShownUserIsOfToken, BusyIsCarried

------------------------------------------------------------------------------
(* What the rows hold was granted.                                            *)

\* A row that is written has the token of the row that was read, or the one of the
\* login that writes it; a row that is read is the one of the database.
LEMMA RowsOfStep ==
  ASSUME Inv, RowsAreIssued, server.issued \subseteq server'.issued,
         db'.row.token \in server.issued \cup {None},
         sync'.got.token \in server.issued \cup {None},
         \A p \in Procs : op'[p].got.token \in server.issued \cup {None}
  PROVE  RowsAreIssued'
  BY DEF RowsAreIssued

\* No step takes back what the server has granted.
LEMMA IssuedGrows ==
  ASSUME Inv, [Next]_vars PROVE server.issued \subseteq server'.issued
<1>1. PICK s \in Servers : s = server
  BY DEF Inv, TypeOK
<1>2. CASE UNCHANGED server
  BY <1>2
<1>3. ASSUME NEW p \in Procs, LoginReply(p) PROVE server.issued \subseteq server'.issued
  BY <1>2, <1>3 DEF LoginReply
<1>4. ASSUME NEW p \in Procs, SwitchReply(p) PROVE server.issued \subseteq server'.issued
  <2>1. CASE op[p].sent \in server.live
    <3>1. PICK at : at = [s.at EXCEPT ![op[p].sent] = op[p].arg]
      OBVIOUS
    <3>2. server' = [s EXCEPT !.at = at]
      BY <1>1, <1>4, <2>1, <3>1 DEF SwitchReply
    <3>3. server'.issued = s.issued
      BY <3>2 DEF Servers
    <3>4. QED
      BY <1>1, <3>3
  <2>2. CASE op[p].sent \notin server.live
    BY <1>2, <1>4, <2>2 DEF SwitchReply
  <2>3. QED
    BY <2>1, <2>2
<1>5. ASSUME NEW gone, server' = [server EXCEPT !.live = @ \ gone]
      PROVE  server.issued \subseteq server'.issued
  <2>1. server' = [s EXCEPT !.live = s.live \ gone]
    BY <1>1, <1>5
  <2>2. server'.issued = s.issued
    BY <2>1 DEF Servers
  <2>3. QED
    BY <1>1, <2>2
<1>6. ASSUME NEW p \in Procs, LogoutReply(p) PROVE server.issued \subseteq server'.issued
  BY <1>2, <1>5, <1>6 DEF LogoutReply
<1>7. ASSUME NEW k \in Tokens, Revoke(k) PROVE server.issued \subseteq server'.issued
  BY <1>5, <1>7 DEF Revoke
<1>8. ASSUME NEW p \in Procs, \E part \in {"me", "nav"} : Answer(p, part)
      PROVE  server.issued \subseteq server'.issued
  BY <1>2, <1>8 DEF Answer
<1>9. ASSUME NEW p \in Procs,
             \/ Apply(p) \/ NotLoaded(p) \/ ReadRow(p) \/ PutToken(p) \/ PutSnapshot(p)
             \/ ListReply(p)
      PROVE  server.issued \subseteq server'.issued
  BY <1>2, <1>9 DEF Apply, NotLoaded, ReadRow, PutToken, PutSnapshot, ListReply
<1>10. ASSUME NEW p \in Procs,
             \/ Reload(p) \/ StartRefresh(p) \/ applyAuthSnapshot(p) \/ StartLogin(p)
             \/ StartLogout(p) \/ \E t \in Tenants : StartSwitch(p, t)
      PROVE  server.issued \subseteq server'.issued
  BY <1>2, <1>10 DEF Reload, StartRefresh, applyAuthSnapshot, StartLogin, StartLogout, StartSwitch
<1>11. CASE PurgeDeletes \/ PurgeEnds \/ syncTenantDisplay \/ PutTenantDisplay
  BY <1>2, <1>11 DEF PurgeDeletes, PurgeEnds, syncTenantDisplay, PutTenantDisplay
<1>12. QED
  <2>1. CASE UNCHANGED vars
    BY <1>2, <2>1 DEF vars
  <2>2. CASE Next
    BY <2>2, <1>3, <1>4, <1>6, <1>7, <1>8, <1>9, <1>10, <1>11 DEF Next, Progress
  <2>3. QED
    BY <2>1, <2>2

LEMMA RowsAreIssuedKeeps ==
  ASSUME Inv, RowsAreIssued, [Next]_vars PROVE RowsAreIssued'
<1> DEFINE Issued == server.issued \cup {None}
<1>1. server.issued \subseteq server'.issued
  BY IssuedGrows
<1>2. /\ db.row.token \in Issued /\ sync.got.token \in Issued
      /\ \A p \in Procs : op[p].got.token \in Issued
      /\ EmptyRow.token \in Issued /\ Idle.got.token \in Issued
  BY EmptyRowIs DEF RowsAreIssued, Idle
<1>3. db \in Databases /\ op \in [Procs -> Ops] /\ sync \in Syncs /\ store \in Stores
  BY DEF Inv, TypeOK
<1> HIDE DEF Issued
\* One operation changes, and what it has read is what it had, the row, or nothing.
<1>4. ASSUME NEW p \in Procs, NEW o, op' = [op EXCEPT ![p] = o], o.got.token \in Issued,
             db'.row.token \in Issued, sync'.got.token \in Issued
      PROVE  RowsAreIssued'
  <2>1. \A q \in Procs : op'[q].got.token \in Issued
    BY <1>2, <1>3, <1>4
  <2>2. QED
    BY <1>1, <1>4, <2>1, RowsOfStep DEF Issued
<1>5. ASSUME op' = op, db'.row.token \in Issued, sync'.got.token \in Issued
      PROVE  RowsAreIssued'
  BY <1>1, <1>2, <1>5, RowsOfStep DEF Issued
<1>6. ASSUME NEW x PROVE [sync EXCEPT !.due = x].got = sync.got
  BY <1>3 DEF Syncs
<1>7. ASSUME NoExpire \/ Expire \/ purgeLocalSession PROVE db'.row = db.row
  BY <1>3, <1>7, PurgeDoes DEF NoExpire, Expire, Inv
<1>8. ASSUME NEW kind, NEW arg, NEW h PROVE Fetching(kind, arg, h).got = EmptyRow
  BY DEF Fetching, Idle
<1>9. ASSUME NEW got \in Rows, NEW row \in Rows, NEW current \in BOOLEAN,
             Put(got, row, current), row.token \in Issued
      PROVE  db'.row.token \in Issued
  BY <1>2, <1>9, PutDoes DEF Inv
<1>10. ASSUME NEW p \in Procs, NEW s, NEW h, RefreshFrom(p, s, h, op), UNCHANGED db,
              sync'.got = sync.got
       PROVE  RowsAreIssued'
  <2>1. CASE s.token = None
    BY <1>2, <1>5, <1>10, <2>1 DEF RefreshFrom
  <2>2. CASE s.token # None
    <3>1. op' = [op EXCEPT ![p] = Fetching("refresh", None, h)]
      BY <1>10, <2>2 DEF RefreshFrom
    <3>2. Fetching("refresh", None, h).got.token \in Issued
      BY <1>2, <1>8
    <3>3. QED
      BY <1>2, <1>4, <1>10, <3>1, <3>2
  <2>3. QED
    BY <2>1, <2>2
<1>11. ASSUME NEW p \in Procs, StartRefresh(p) PROVE RowsAreIssued'
  BY <1>10, <1>11 DEF StartRefresh
<1>12. ASSUME NEW p \in Procs, applyAuthSnapshot(p) PROVE RowsAreIssued'
  BY <1>6, <1>10, <1>12 DEF applyAuthSnapshot
<1>13. ASSUME NEW p \in Procs, StartLogin(p) \/ StartLogout(p) \/ \E t \in Tenants : StartSwitch(p, t)
       PROVE  RowsAreIssued'
  <2>1. PICK o : /\ op' = [op EXCEPT ![p] = o] /\ o.got = Idle.got
                 /\ UNCHANGED <<db, sync>>
    BY <1>13 DEF StartLogin, StartLogout, StartSwitch, Idle
  <2>2. QED
    BY <1>2, <1>4, <2>1
<1>14. ASSUME NEW p \in Procs, Reload(p) PROVE RowsAreIssued'
  <2>1. db'.row = db.row /\ sync' = Rest
    BY <1>3, <1>14 DEF Reload, Databases
  <2>2. Rest.got.token \in Issued
    BY <1>2 DEF Rest
  <2>3. \A q \in Procs : op'[q].got = EmptyRow
    <3>1. op' \in {[q \in Procs |-> Idle],
                   [[q \in Procs |-> Idle] EXCEPT ![p] = Fetching("refresh", None, db.row.token)]}
      BY <1>14 DEF Reload, RefreshFrom
    <3>2. Idle.got = EmptyRow
      BY DEF Idle
    <3>3. Fetching("refresh", None, db.row.token).got = EmptyRow
      BY <1>8
    <3>4. QED
      BY <3>1, <3>2, <3>3
  <2>4. QED
    BY <1>1, <1>2, <2>1, <2>2, <2>3, RowsOfStep DEF Issued
<1>15. ASSUME NEW p \in Procs, LoginReply(p) PROVE RowsAreIssued'
  <2>1. PICK x \in Ops : x = op[p]
    BY <1>3
  <2>2. \/ op' = [op EXCEPT ![p] = Idle]
        \/ \E k \in Tokens : op' = [op EXCEPT ![p].step = "read", ![p].arg = k]
    BY <1>15 DEF LoginReply
  <2>3. \A k \in Tokens : [[x EXCEPT !.step = "read"] EXCEPT !.arg = k].got = x.got
    BY DEF Ops
  <2>4. PICK o : op' = [op EXCEPT ![p] = o] /\ o.got \in {Idle.got, op[p].got}
    <3>1. CASE op' = [op EXCEPT ![p] = Idle]
      BY <3>1
    <3>2. CASE \E k \in Tokens : op' = [op EXCEPT ![p].step = "read", ![p].arg = k]
      <4>1. PICK k \in Tokens : op' = [op EXCEPT ![p] = [[x EXCEPT !.step = "read"] EXCEPT !.arg = k]]
        BY <1>3, <2>1, <3>2
      <4>2. QED
        BY <2>1, <2>3, <4>1
    <3>3. QED
      BY <2>2, <3>1, <3>2
  <2>5. db'.row = db.row /\ sync' = sync
    BY <1>7, <1>15 DEF LoginReply
  <2>6. QED
    BY <1>2, <1>4, <2>4, <2>5
<1>16. ASSUME NEW p \in Procs, SwitchReply(p) \/ LogoutReply(p) \/ ListReply(p) \/ NotLoaded(p)
       PROVE  RowsAreIssued'
  <2>1. db'.row = db.row
    BY <1>7, <1>16 DEF SwitchReply, LogoutReply, ListReply, NotLoaded
  <2>2. sync'.got = sync.got
    BY <1>6, <1>16 DEF SwitchReply, LogoutReply, ListReply, NotLoaded
  <2>3. \/ op' = [op EXCEPT ![p] = Idle]
        \/ op' = [op EXCEPT ![p] = Fetching("switch", op[p].arg, header)]
    BY <1>16 DEF SwitchReply, LogoutReply, ListReply, NotLoaded
  <2>4. Fetching("switch", op[p].arg, header).got = EmptyRow
    BY <1>8
  <2>5. QED
    BY <1>2, <1>4, <2>1, <2>2, <2>3, <2>4
<1>17. ASSUME NEW p \in Procs, NEW part \in {"me", "nav"}, Answer(p, part) PROVE RowsAreIssued'
  <2>1. PICK x \in Ops : x = op[p]
    BY <1>3
  <2>2. PICK r : op' = [op EXCEPT ![p][part] = r]
    BY <1>17 DEF Answer
  <2>3. [x EXCEPT ![part] = r].got = x.got
    BY DEF Ops
  <2>4. op' = [op EXCEPT ![p] = [x EXCEPT ![part] = r]]
    BY <1>3, <2>1, <2>2
  <2>5. db'.row = db.row /\ sync' = sync
    BY <1>7, <1>17 DEF Answer
  <2>6. QED
    BY <1>2, <1>4, <2>1, <2>3, <2>4, <2>5
<1>18. ASSUME NEW p \in Procs, Apply(p) \/ ReadRow(p) PROVE RowsAreIssued'
  <2>1. PICK x \in Ops : x = op[p]
    BY <1>3
  <2>2. PICK step, row : /\ op' = [op EXCEPT ![p].step = step, ![p].got = row]
                         /\ row \in {op[p].got, db.row, EmptyRow}
    <3>1. CASE Apply(p)
      <4>1. op' = [op EXCEPT ![p].step = "read"]
        BY <3>1 DEF Apply
      <4>2. [[x EXCEPT !.step = "read"] EXCEPT !.got = x.got] = [x EXCEPT !.step = "read"]
        BY DEF Ops
      <4>3. op' = [op EXCEPT ![p].step = "read", ![p].got = x.got]
        BY <1>3, <2>1, <4>1, <4>2
      <4>4. QED
        BY <2>1, <4>3
    <3>2. CASE ReadRow(p)
      BY <3>2 DEF ReadRow
    <3>3. QED
      BY <1>18, <3>1, <3>2
  <2>3. op' = [op EXCEPT ![p] = [[x EXCEPT !.step = step] EXCEPT !.got = row]]
    BY <1>3, <2>1, <2>2
  <2>4. [[x EXCEPT !.step = step] EXCEPT !.got = row].got = row
    BY DEF Ops
  <2>5. db' = db /\ sync'.got = sync.got
    BY <1>6, <1>18 DEF Apply, ReadRow
  <2>6. QED
    BY <1>2, <1>4, <2>2, <2>3, <2>4, <2>5
<1>19. ASSUME NEW p \in Procs, PutToken(p) PROVE RowsAreIssued'
  <2>1. Granted(op[p]) /\ op[p].arg \in Tokens
    BY <1>19, InvOf, NoneIs DEF PutToken, Shaped, Granted
  <2>2. op[p].arg \in Issued
    BY <2>1 DEF Inv, TokensAreIssued, Issued
  <2>3. PICK row : row = [op[p].got EXCEPT !.token = op[p].arg]
    OBVIOUS
  <2>4. op[p].got \in Rows
    BY <1>3, OpsAre
  <2>5. row \in Rows
    BY <2>1, <2>3, <2>4 DEF Rows, MaybeToken
  <2>6. row.token = op[p].arg
    BY <2>3, <2>4 DEF Rows
  <2>7. PICK current \in BOOLEAN : current = (store.user = None)
    OBVIOUS
  <2>8. Put(op[p].got, row, current)
    BY <1>19, <2>3, <2>7 DEF PutToken
  <2>9. db'.row.token \in Issued
    BY <1>9, <2>2, <2>4, <2>5, <2>6, <2>8
  <2>10. op' = [op EXCEPT ![p] = Fetching("login", op[p].arg, op[p].arg)] /\ sync' = sync
    BY <1>19 DEF PutToken
  <2>11. Fetching("login", op[p].arg, op[p].arg).got.token \in Issued
    BY <1>2, <1>8
  <2>12. QED
    BY <1>2, <1>4, <2>9, <2>10, <2>11
<1>20. ASSUME NEW p \in Procs, PutSnapshot(p) PROVE RowsAreIssued'
  <2>1. op[p].me \in User
    BY <1>20, InvOf DEF PutSnapshot, Shaped, Granted
  <2>2. PICK row : row = [op[p].got EXCEPT !.user = op[p].me]
    OBVIOUS
  <2>3. op[p].got \in Rows
    BY <1>3, OpsAre
  <2>4. row \in Rows
    BY <2>1, <2>2, <2>3 DEF Rows, MaybeUser
  <2>5. row.token = op[p].got.token
    BY <2>2, <2>3 DEF Rows
  <2>6. PICK current \in BOOLEAN : current = (~db.ready \/ op[p].me = store.user)
    OBVIOUS
  <2>7. Put(op[p].got, row, current)
    BY <1>20, <2>2, <2>6 DEF PutSnapshot
  <2>8. db'.row.token \in Issued
    BY <1>2, <1>9, <2>3, <2>4, <2>5, <2>7
  <2>9. PICK o : op' = [op EXCEPT ![p] = o] /\ o.got = Idle.got /\ sync' = sync
    <3>1. CASE op[p].kind = "refresh"
      BY <1>20, <3>1 DEF PutSnapshot
    <3>2. CASE op[p].kind # "refresh"
      BY <1>20, <3>2 DEF PutSnapshot, Idle
    <3>3. QED
      BY <3>1, <3>2
  <2>10. QED
    BY <1>2, <1>4, <2>8, <2>9
<1>21. CASE \E k \in Tokens : Revoke(k)
  BY <1>2, <1>5, <1>21 DEF Revoke
<1>22. CASE PurgeDeletes
  <2>1. db'.row = EmptyRow /\ op' = op /\ sync' = sync
    BY <1>3, <1>22 DEF PurgeDeletes, Databases
  <2>2. QED
    BY <1>2, <1>5, <2>1
<1>23. CASE PurgeEnds
  <2>1. db'.row = db.row
    BY <1>3, <1>23 DEF PurgeEnds, Databases
  <2>2. op' = op /\ sync'.got = sync.got
    BY <1>6, <1>23 DEF PurgeEnds
  <2>3. QED
    BY <1>2, <1>5, <2>1, <2>2
<1>24. CASE syncTenantDisplay
  <2>1. op' = op /\ db' = db
    BY <1>24 DEF syncTenantDisplay
  <2>2. sync'.got \in {db.row, EmptyRow}
    BY <1>24 DEF syncTenantDisplay, Rest
  <2>3. QED
    BY <1>2, <1>5, <2>1, <2>2
<1>25. CASE PutTenantDisplay
  <2>1. op' = op /\ sync' = [Rest EXCEPT !.due = sync.due] /\ Put(sync.got, sync.got, TRUE)
    BY <1>25 DEF PutTenantDisplay
  <2>2. sync'.got = EmptyRow
    BY <2>1 DEF Rest
  <2>3. sync.got \in Rows
    BY <1>3 DEF Syncs
  <2>4. db'.row.token \in Issued
    BY <1>2, <1>9, <2>1, <2>3
  <2>5. QED
    BY <1>2, <1>5, <2>1, <2>2, <2>4
<1>26. CASE UNCHANGED vars
  BY <1>2, <1>5, <1>26 DEF vars
<1>27. QED
  BY <1>11, <1>12, <1>13, <1>14, <1>15, <1>16, <1>17, <1>18, <1>19, <1>20, <1>21, <1>22,
     <1>23, <1>24, <1>25, <1>26 DEF Next, Progress

------------------------------------------------------------------------------
(* A page opens.                                                              *)

\* The store of a page that opens is a row's: blank without a token, and else busy
\* with the refresh that tells its user.
LEMMA OpensWith ==
  ASSUME NEW row \in Rows
  PROVE  LET boot == Hydrated(row) IN
         /\ boot.token = row.token /\ Busy(boot) \in Stores
         /\ Busy(boot).token = row.token
         /\ Busy(boot).user = IF row.token = None THEN None ELSE row.user
         /\ row.token = None => ~Busy(boot).loading /\ ~Busy(boot).refreshing
<1>1. CASE row.token = None
  <2>1. Hydrated(row).token = None
    BY <1>1, BlankIs DEF Hydrated
  <2>2. Busy(Hydrated(row)) = Blank
    BY <2>1 DEF Busy, Reset
  <2>3. QED
    BY <1>1, <2>1, <2>2, BlankIs
<1>2. CASE row.token # None
  <2>1. PICK b \in BOOLEAN, c \in BOOLEAN : b = (row.user = None) /\ c = (row.token # None)
    OBVIOUS
  <2>2. PICK s : s = [token |-> row.token, user |-> row.user, loading |-> b, refreshing |-> c]
    OBVIOUS
  <2>3. s = Hydrated(row)
    BY <1>2, <2>1, <2>2 DEF Hydrated
  <2>4. s \in Stores /\ s.token = row.token /\ s.user = row.user
    BY <2>1, <2>2 DEF Stores, Rows
  <2>5. PICK t \in {[s EXCEPT !.refreshing = TRUE], [s EXCEPT !.loading = TRUE]} : t = Busy(s)
    BY <1>2, <2>4 DEF Busy
  <2>6. t \in Stores
    BY <2>4, <2>5 DEF Stores
  <2>7. t.token = s.token /\ t.user = s.user
    BY <2>4, <2>5 DEF Stores
  <2>8. QED
    BY <1>2, <2>3, <2>4, <2>5, <2>6, <2>7
<1>3. QED
  BY <1>1, <1>2

\* The store that a row opens, and the refresh that follows, agree with it.
LEMMA PageOpens ==
  ASSUME NEW row \in Rows, NEW p \in Procs, NEW idle, idle = [q \in Procs |-> Idle],
         store' = Busy(Hydrated(row)),
         header' = row.token,
         op' = IF row.token = None THEN idle
               ELSE [idle EXCEPT ![p] = Fetching("refresh", None, row.token)],
         db' \in Databases, db'.ready, db'.row = row,
         purges' = [deleting |-> 0, opening |-> 0], sync' = Rest,
         server' \in Servers, server'.live \subseteq server'.issued,
         row.token \in server'.issued \cup {None},
         left' \in LeftValues, astray' \subseteq Astrays,
         astray' = {} /\ row.user # None => row.user.of = row.token
  PROVE  Inv'
<1>1. /\ store' \in Stores /\ store'.token = row.token
      /\ store'.user = IF row.token = None THEN None ELSE row.user
      /\ row.token = None => ~store'.loading /\ ~store'.refreshing
  BY OpensWith
<1>2. row.token \in MaybeToken
  BY DEF Rows
<1>3. PICK o \in Ops :
         /\ o = Fetching("refresh", None, row.token)
         /\ o.kind = "refresh" /\ o.step = "fetch" /\ o.sent = row.token
         /\ o.me = Pending /\ o.nav = Pending /\ Shaped(o) /\ ~Granted(o)
  BY <1>2, FetchingIs
<1>4. /\ op' \in [Procs -> Ops] /\ \A q \in Procs : op'[q] \in {Idle, o}
      /\ row.token # None => op'[p] = o
  BY <1>3, IdleIs
<1>5. \A q \in Procs : Shaped(op'[q]) /\ ~Granted(op'[q]) /\ op'[q].kind # "login"
                       /\ op'[q].sent \in {None, row.token}
                       /\ (op'[q].step = "fetch" => Denied \notin {op'[q].me, op'[q].nav})
                       /\ (op'[q] = Idle \/ (op'[q].kind = "refresh" /\ op'[q].step = "fetch"))
  <2>1. ASSUME NEW q \in Procs, op'[q] = Idle
        PROVE  Shaped(op'[q]) /\ ~Granted(op'[q]) /\ op'[q].kind # "login"
               /\ op'[q].sent = None /\ op'[q].step # "fetch"
    BY <2>1, IdleIs
  <2>2. ASSUME NEW q \in Procs, op'[q] = o
        PROVE  Shaped(op'[q]) /\ ~Granted(op'[q]) /\ op'[q].kind # "login"
               /\ op'[q].sent = row.token /\ Denied \notin {op'[q].me, op'[q].nav}
               /\ op'[q].kind = "refresh" /\ op'[q].step = "fetch"
    BY <1>3, <2>2, NoneIs
  <2>3. QED
    BY <1>4, <2>1, <2>2
<1>6. TypeOK'
  BY <1>1, <1>2, <1>4, <1>5, RestIs DEF TypeOK, Purges, Astrays
<1>7. PurgesAgree' /\ HeaderFollowsToken'
  BY <1>1 DEF PurgesAgree, HeaderFollowsToken
<1>8. TokensAreIssued' /\ OneLogin' /\ GrantedIsFresh' /\ DeniedIsPurged' /\ WaitsForRefresh'
  BY <1>1, <1>5 DEF TokensAreIssued, OneLogin, GrantedIsFresh, DeniedIsPurged, WaitsForRefresh
<1>9. RowTokenAgrees' /\ RowUserAgrees' /\ RowIsOne'
  <2>1. astray' = {} /\ row.token = None => row.user = None
    BY UserOf, NoneIs DEF Rows, MaybeUser
  <2>2. QED
    BY <1>1, <2>1 DEF RowTokenAgrees, RowUserAgrees, RowIsOne
<1>10. ShownUserIsOfToken'
  BY <1>1 DEF ShownUserIsOfToken
<1>11. BusyIsCarried'
  BY <1>1, <1>3, <1>4 DEF BusyIsCarried
<1>12. QED
  BY <1>6, <1>7, <1>8, <1>9, <1>10, <1>11 DEF Inv, StoreAgrees

LEMMA ReloadKeeps ==
  ASSUME Inv, RowsAreIssued, NEW p \in Procs, Reload(p) PROVE Inv'
<1>1. TypeOK /\ TokensAreIssued /\ RowIsOne
  BY DEF Inv
<1>2. PICK d \in Databases : d = db
  BY <1>1 DEF TypeOK
<1>3. db' = [d EXCEPT !.ready = TRUE]
  BY <1>2 DEF Reload
<1>4. db' \in Databases
  BY <1>3 DEF Databases
<1>5. db'.ready /\ db'.row = d.row
  BY <1>3 DEF Databases
<1>6. PICK row \in Rows : row = db.row
  BY <1>2 DEF Databases
<1>7. PICK idle : idle = [q \in Procs |-> Idle]
  OBVIOUS
<1>8. RefreshFrom(p, Hydrated(row), row.token, idle)
  BY <1>6, <1>7 DEF Reload
<1>9. Hydrated(row).token = row.token
  BY OpensWith
<1>10. /\ store' = Busy(Hydrated(row)) /\ header' = row.token
       /\ op' = IF row.token = None THEN idle
                ELSE [idle EXCEPT ![p] = Fetching("refresh", None, row.token)]
  BY <1>8, <1>9 DEF RefreshFrom
<1>11. left' \in LeftValues
  BY <1>1, SpendTyped DEF Reload
<1>12. /\ purges' = [deleting |-> 0, opening |-> 0] /\ sync' = Rest
       /\ server' = server /\ astray' = astray
  BY DEF Reload
<1>13. server.live \subseteq server.issued /\ server \in Servers /\ astray \subseteq Astrays
  BY <1>1 DEF TypeOK, TokensAreIssued, Astrays
<1>14. row.token \in server.issued \cup {None}
  BY <1>6 DEF RowsAreIssued
<1>15. astray = {} /\ row.user # None => row.user.of = row.token
  BY <1>1, <1>6 DEF RowIsOne
<1>16. QED
  BY <1>2, <1>4, <1>5, <1>6, <1>7, <1>10, <1>11, <1>12, <1>13, <1>14, <1>15, PageOpens

LEMMA InitInv == Init => Inv /\ RowsAreIssued
<1>1. SUFFICES ASSUME Init PROVE Inv /\ RowsAreIssued
  OBVIOUS
<1>2. PICK k \in Tokens, t \in Tenants \cup {None}, p \in Procs, cached \in BOOLEAN,
           known \in BOOLEAN, alive \in BOOLEAN :
        LET row == IF cached THEN [token |-> k, user |-> IF known THEN [of |-> k, at |-> t] ELSE None]
                   ELSE EmptyRow
        IN  /\ server = [live |-> IF cached /\ alive THEN {k} ELSE {},
                         issued |-> IF cached THEN {k} ELSE {},
                         at |-> [x \in Tokens |-> IF cached /\ x = k THEN t ELSE None]]
            /\ db = [ready |-> TRUE, row |-> row]
            /\ header = row.token
            /\ store = Busy(Hydrated(row))
            /\ op = [q \in Procs |-> IF cached /\ q = p THEN Fetching("refresh", None, k) ELSE Idle]
  BY <1>1 DEF Init
<1>3. PICK u \in MaybeUser : u = (IF known THEN [of |-> k, at |-> t] ELSE None) /\ (u # None => u.of = k)
  <2>1. PICK v : v = [of |-> k, at |-> t]
    OBVIOUS
  <2>2. v \in User /\ v.of = k
    BY <2>1 DEF User
  <2>3. QED
    BY <2>1, <2>2 DEF MaybeUser
<1>4. PICK row \in Rows :
        /\ row = IF cached THEN [token |-> k, user |-> u] ELSE EmptyRow
        /\ row.token = IF cached THEN k ELSE None
        /\ row.user = IF cached THEN u ELSE None
  <2>1. PICK r : r = [token |-> k, user |-> u]
    OBVIOUS
  <2>2. r \in Rows /\ r.token = k /\ r.user = u
    BY <1>3, <2>1 DEF Rows, MaybeToken
  <2>3. QED
    BY <2>1, <2>2, EmptyRowIs
<1>5. /\ server = [live |-> IF cached /\ alive THEN {k} ELSE {},
                   issued |-> IF cached THEN {k} ELSE {},
                   at |-> [x \in Tokens |-> IF cached /\ x = k THEN t ELSE None]]
      /\ db = [ready |-> TRUE, row |-> row]
      /\ header = row.token
      /\ store = Busy(Hydrated(row))
      /\ op = [q \in Procs |-> IF cached /\ q = p THEN Fetching("refresh", None, k) ELSE Idle]
  BY <1>2, <1>3, <1>4
<1>6. /\ purges = [deleting |-> 0, opening |-> 0] /\ sync = Rest /\ astray = {}
      /\ left = [acts |-> MaxActs, mishaps |-> MaxMishaps]
  BY <1>1 DEF Init
<1>7. server \in Servers
  <2>1. PICK l \in SUBSET Tokens, i \in SUBSET Tokens :
          l = (IF cached /\ alive THEN {k} ELSE {}) /\ i = (IF cached THEN {k} ELSE {})
    OBVIOUS
  <2>2. PICK at \in [Tokens -> Tenants \cup {None}] :
          at = [x \in Tokens |-> IF cached /\ x = k THEN t ELSE None]
    OBVIOUS
  <2>3. server = [live |-> l, issued |-> i, at |-> at]
    BY <1>5, <2>1, <2>2
  <2>4. QED
    BY <2>1, <2>2, <2>3 DEF Servers
<1>8. server.live \subseteq server.issued /\ server.issued = IF cached THEN {k} ELSE {}
  BY <1>5
<1>9. db \in Databases /\ db.ready /\ db.row = row
  BY <1>5 DEF Databases
<1>10. left \in LeftValues
  BY <1>6, BoundsFit DEF LeftValues
<1>11. row.token \in server.issued \cup {None}
  BY <1>4, <1>8
<1>12. RowsAreIssued
  <2>1. Idle.got = EmptyRow /\ Fetching("refresh", None, k).got = EmptyRow /\ Rest.got = EmptyRow
    BY DEF Idle, Fetching, Rest
  <2>2. \A q \in Procs : op[q].got = EmptyRow
    BY <1>5, <2>1
  <2>3. QED
    BY <1>6, <1>9, <1>11, <2>1, <2>2, EmptyRowIs DEF RowsAreIssued
<1>13. /\ store \in Stores /\ store.token = row.token
       /\ store.user = IF row.token = None THEN None ELSE row.user
       /\ row.token = None => ~store.loading /\ ~store.refreshing
  BY <1>5, OpensWith
<1>14. row.token \in MaybeToken
  BY DEF Rows
<1>15. k # None
  BY NoneIs
<1>16. PICK o \in Ops :
         /\ o = Fetching("refresh", None, k)
         /\ o.kind = "refresh" /\ o.step = "fetch" /\ o.sent = k
         /\ o.me = Pending /\ o.nav = Pending /\ Shaped(o) /\ ~Granted(o)
  BY FetchingIs DEF MaybeToken
<1>17. /\ op \in [Procs -> Ops] /\ \A q \in Procs : op[q] = Idle \/ (cached /\ op[q] = o)
       /\ cached => op[p] = o
  BY <1>5, <1>16, IdleIs
<1>18. \A q \in Procs : Shaped(op[q]) /\ ~Granted(op[q]) /\ op[q].kind # "login"
                       /\ op[q].sent \in {None, row.token}
                       /\ (op[q].step = "fetch" => Denied \notin {op[q].me, op[q].nav})
                       /\ (op[q] = Idle \/ (op[q].kind = "refresh" /\ op[q].step = "fetch"))
  <2>1. ASSUME NEW q \in Procs, op[q] = Idle
        PROVE  Shaped(op[q]) /\ ~Granted(op[q]) /\ op[q].kind # "login"
               /\ op[q].sent = None /\ op[q].step # "fetch"
    BY <2>1, IdleIs
  <2>2. ASSUME NEW q \in Procs, cached, op[q] = o
        PROVE  Shaped(op[q]) /\ ~Granted(op[q]) /\ op[q].kind # "login"
               /\ op[q].sent = row.token /\ Denied \notin {op[q].me, op[q].nav}
               /\ op[q].kind = "refresh" /\ op[q].step = "fetch"
    BY <1>4, <1>16, <2>2, NoneIs
  <2>3. QED
    BY <1>17, <2>1, <2>2
<1>19. TypeOK
  BY <1>5, <1>6, <1>7, <1>9, <1>10, <1>13, <1>14, <1>17, <1>18, RestIs DEF TypeOK, Purges, Astrays
<1>20. PurgesAgree /\ HeaderFollowsToken
  BY <1>5, <1>6, <1>9, <1>13 DEF PurgesAgree, HeaderFollowsToken
<1>21. TokensAreIssued /\ OneLogin /\ GrantedIsFresh /\ DeniedIsPurged /\ WaitsForRefresh
  BY <1>5, <1>8, <1>11, <1>13, <1>18 DEF TokensAreIssued, OneLogin, GrantedIsFresh,
     DeniedIsPurged, WaitsForRefresh
<1>22. RowTokenAgrees /\ RowUserAgrees /\ RowIsOne /\ ShownUserIsOfToken
  BY <1>3, <1>4, <1>9, <1>13, <1>15 DEF RowTokenAgrees, RowUserAgrees, RowIsOne, ShownUserIsOfToken
<1>23. BusyIsCarried
  BY <1>4, <1>13, <1>15, <1>16, <1>17 DEF BusyIsCarried
<1>24. QED
  BY <1>12, <1>19, <1>20, <1>21, <1>22, <1>23 DEF Inv, StoreAgrees

LEMMA StepInv == Inv /\ RowsAreIssued /\ [Next]_vars => Inv' /\ RowsAreIssued'
<1>1. SUFFICES ASSUME Inv, RowsAreIssued, [Next]_vars PROVE Inv'
  BY RowsAreIssuedKeeps
<1>2. ASSUME NEW p \in Procs, Progress(p) PROVE Inv'
  BY <1>1, <1>2, LoginReplyKeeps, SwitchReplyKeeps, LogoutReplyKeeps, AnswerKeeps, ApplyKeeps,
     NotLoadedKeeps, ReadRowKeeps, PutTokenKeeps, PutSnapshotKeeps, ListReplyKeeps DEF Progress
<1>3. ASSUME NEW p \in Procs,
             \/ Reload(p) \/ StartRefresh(p) \/ applyAuthSnapshot(p) \/ StartLogin(p)
             \/ StartLogout(p) \/ \E t \in Tenants : StartSwitch(p, t)
      PROVE  Inv'
  BY <1>1, <1>3, ReloadKeeps, StartRefreshKeeps, applyAuthSnapshotKeeps, StartLoginKeeps,
     StartLogoutKeeps, StartSwitchKeeps
<1>4. CASE PurgeDeletes \/ PurgeEnds \/ syncTenantDisplay \/ PutTenantDisplay
           \/ \E k \in Tokens : Revoke(k)
  BY <1>1, <1>4, PurgeDeletesKeeps, PurgeEndsKeeps, syncTenantDisplayKeeps, PutTenantDisplayKeeps,
     RevokeKeeps
<1>5. CASE UNCHANGED vars
  BY <1>1, <1>5 DEF vars, Inv, TypeOK, PurgesAgree, TokensAreIssued, OneLogin, GrantedIsFresh,
     DeniedIsPurged, WaitsForRefresh, RowTokenAgrees, RowUserAgrees, Saving, RowIsOne,
     HeaderFollowsToken, StoreAgrees, ShownUserIsOfToken, BusyIsCarried
<1>6. QED
  BY <1>1, <1>2, <1>3, <1>4, <1>5 DEF Next

------------------------------------------------------------------------------
(* Theorems.                                                                  *)

\* Every variable keeps its type, and no operation is at a step its kind does not
\* have: a user is in the store, in a reply or in the row, or there is none.
THEOREM TypeCorrect == Spec => []TypeOK
<1>1. Inv => TypeOK
  BY DEF Inv
<1>2. QED
  BY <1>1, InitInv, StepInv, PTL DEF Spec

\* The token is one and the same in the store, in the requests and, once nothing is
\* under way and no two writes of the row overlapped, for the next page load.
THEOREM TokenAgreesHolds == Spec => []TokenAgrees
<1>1. Inv => TokenAgrees
  <2>1. SUFFICES ASSUME Inv, Quiet, astray = {}
        PROVE  /\ db.row.user = store.user
               /\ store.token # None => db.row.token = store.token
    BY DEF Inv, TokenAgrees, RowFollowsStore
  <2>2. db.ready
    <3>1. purges.deleting + purges.opening = 0
      BY <2>1 DEF Quiet
    <3>2. QED
      BY <2>1, <3>1 DEF Inv, PurgesAgree
  <2>3. \A p \in Procs : ~Saving(p)
    BY <2>1, IdleIs DEF Quiet, Saving
  <2>4. QED
    BY <2>1, <2>2, <2>3 DEF Inv, RowTokenAgrees, RowUserAgrees
<1>2. QED
  BY <1>1, InitInv, StepInv, PTL DEF Spec

\* The user shown is the one of the present token, unless a reply or a write came
\* late, and whoever waits is waiting for a refresh that runs.
THEOREM StoreAgreesHolds == Spec => []StoreAgrees
<1>1. Inv => StoreAgrees
  BY DEF Inv
<1>2. QED
  BY <1>1, InitInv, StepInv, PTL DEF Spec

\* The loading screen gives way to the login form only with the token given up.
THEOREM BouncedWithoutTokenHolds == Spec => BouncedWithoutToken
<1>1. Inv /\ [Next]_vars
        => [Route(store) = "wait" /\ Route(store') = "/login" => store'.token = None]_vars
  <2>1. SUFFICES ASSUME Inv, Next, Route(store) = "wait", Route(store') = "/login"
        PROVE  store'.token = None
    OBVIOUS
  <2>2. store.user = None /\ store.loading /\ store'.user = None /\ ~store'.loading
    BY <2>1 DEF Route
  <2>3. \A p \in Procs : op[p] = Idle \/ (op[p].kind = "refresh" /\ op[p].step = "fetch")
    BY <2>1, <2>2 DEF Inv, WaitsForRefresh
  <2>4. store' # store
    BY <2>2
  <2>5. TypeOK
    BY <2>1 DEF Inv
  <2>6. PICK s \in Stores : s = store
    BY <2>5 DEF TypeOK
  <2>7. ASSUME NEW p \in Procs, NotLoaded(p) PROVE store'.token = None
    <3>1. op[p].kind = "refresh"
      BY <2>3, <2>7, IdleIs DEF NotLoaded, Settled
    <3>2. CASE Refused(op[p])
      BY <2>7, <3>1, <3>2, BlankIs DEF NotLoaded, Reset
    <3>3. CASE ~Refused(op[p])
      <4>1. store' = GivesUp(s)
        BY <2>2, <2>6, <2>7, <3>1, <3>3 DEF NotLoaded
      <4>2. QED
        BY <4>1, GivesUpIs
    <3>4. QED
      BY <3>2, <3>3
  <2>8. ASSUME NEW p \in Procs, Apply(p) PROVE FALSE
    <3>1. store' = [s EXCEPT !.user = op[p].me] /\ op[p].me # None
      BY <2>6, <2>8, NoneIs DEF Apply, Loaded
    <3>2. store'.user = op[p].me
      BY <3>1 DEF Stores
    <3>3. QED
      BY <2>2, <3>1, <3>2
  <2>9. ASSUME NEW p \in Procs, PutToken(p) \/ PutSnapshot(p) PROVE FALSE
    BY <2>3, <2>9, IdleIs DEF PutToken, PutSnapshot
  <2>10. ASSUME NEW p \in Procs, StartRefresh(p) \/ applyAuthSnapshot(p) PROVE FALSE
    BY <2>2, <2>10 DEF StartRefresh, applyAuthSnapshot
  <2>11. ASSUME NEW p \in Procs, Reload(p) PROVE store'.token = None
    <3>1. PICK row \in Rows : row = db.row
      BY <2>5 DEF TypeOK, Databases
    <3>2. store' = Busy(Hydrated(row))
      BY <2>11, <3>1 DEF Reload, RefreshFrom
    <3>3. SUFFICES ASSUME row.token # None PROVE FALSE
      BY <3>2, OpensWith
    <3>4. Hydrated(row) = [token |-> row.token, user |-> row.user,
                           loading |-> row.user = None, refreshing |-> row.token # None]
      BY <3>3 DEF Hydrated
    <3>5. row.user = None
      BY <2>2, <3>2, <3>3, OpensWith
    <3>6. store'.loading
      BY <3>2, <3>3, <3>4, <3>5 DEF Busy
    <3>7. QED
      BY <2>2, <3>6
  <2>12. CASE PurgeEnds
    BY <2>12, BlankIs DEF PurgeEnds, Reset
  <2>13. ASSUME NEW p \in Procs,
                \/ LoginReply(p) \/ SwitchReply(p) \/ LogoutReply(p) \/ Answer(p, "me")
                \/ Answer(p, "nav") \/ ReadRow(p) \/ ListReply(p) \/ StartLogin(p)
                \/ StartLogout(p) \/ \E t \in Tenants : StartSwitch(p, t)
         PROVE  FALSE
    BY <2>4, <2>13 DEF LoginReply, SwitchReply, LogoutReply, Answer, ReadRow, ListReply,
       StartLogin, StartLogout, StartSwitch
  <2>14. ASSUME PurgeDeletes \/ syncTenantDisplay \/ PutTenantDisplay \/ \E k \in Tokens : Revoke(k)
         PROVE  FALSE
    BY <2>4, <2>14 DEF PurgeDeletes, syncTenantDisplay, PutTenantDisplay, Revoke
  <2>15. QED
    BY <2>1, <2>7, <2>8, <2>9, <2>10, <2>11, <2>12, <2>13, <2>14 DEF Next, Progress
<1>2. QED
  BY <1>1, InitInv, StepInv, PTL DEF Spec, BouncedWithoutToken
==============================================================================
