------------------------------ MODULE Sessions ------------------------------
(***************************************************************************)
(* The login sessions of one user: the Redis entries, the user's index of  *)
(* tokens, and the operations that read, check and rewrite them.           *)
(*                                                                         *)
(* Source: services/session_service.py, data/redis/session_store.py,       *)
(* services/tenant_expiry.py, services/tenant_user_offboard.py.            *)
(*                                                                         *)
(* A session is its tenant and its soft-lock flag; "no tenant" is          *)
(* need_tenant_select.  One step per query or Redis call.  store.update is *)
(* a GET and a SETEX of the whole merged session.  Called in a thread it   *)
(* interleaves with everything; called on the event loop (switch_tenant,   *)
(* refresh) no other call on the loop comes between.                       *)
(***************************************************************************)
EXTENDS Naturals, FiniteSets

CONSTANTS
  Tokens,      \* a bound on the logins
  Tenants,
  Clients,     \* concurrent operations
  Kinds,       \* the operations the clients perform
  MaxChanges,  \* bound on changes of memberships, packages and the account
  None         \* no tenant, no session, no token

ASSUME KindsAreKnown ==
  Kinds \subseteq {"request", "refresh", "switch", "profile", "offboard",
                   "expiryJob", "password"}
ASSUME MaxChangesIsNat == MaxChanges \in Nat
ASSUME NoneIsNone == None \notin Tenants \cup Tokens

VARIABLES
  member,    \* tenants the user is an active member of
  lapsed,    \* tenants whose package has expired
  account,   \* t_sys_user.enabled
  changes,   \* how often the three have changed
  session,   \* session:{token}
  index,     \* user_sessions:{uid}
  renewed,   \* tokens written since the last login, the last EXPIRE of the index
  used,      \* tokens handed out
  op,        \* per client: the operation in progress
  chosen,    \* history: tenant of the token's login or last completed switch
  outlived,  \* history: sessions that were live when the index expired
  revived    \* history: sessions written back after they had been deleted

db == <<member, lapsed, account, changes>>
redis == <<session, index, renewed>>
history == <<chosen, outlived, revived>>
vars == <<db, redis, used, op, history>>

Session(t, f) == [tenant |-> t, flag |-> f]
Degraded == Session(None, FALSE)
Merge(current, patch) ==
  [f \in {"tenant", "flag"} |-> IF f \in DOMAIN patch THEN patch[f] ELSE current[f]]

Live(k) == session[k] # None

(* An operation: its kind and token; arg, the tenants it is about; todo, the
   tokens a bulk operation still has to visit; ses and tid, the session it holds
   and the tenant it is checking; patch and next, what it is writing and where
   it goes on; again, whether the membership was already looked up.  seen and
   crossed are history: what was true of memberships and packages at some time
   during it, and whether its session was meanwhile moved to a tenant.       *)
Idle == [pc |-> "idle"]
At(c, pc) == op[c].pc = pc
End(c) == op' = [op EXCEPT ![c] = Idle]

\* store.update with this patch, on the event loop or in a thread.  Only resolve
\* still needs, after the write, the session it holds.
Writing(o, patch, next) ==
  [o EXCEPT !.pc = "get", !.patch = patch, !.next = next,
            !.ses = IF next \in {"active", "resolved"} THEN @ ELSE Degraded,
            !.tid = IF next \in {"active", "resolved"} THEN @ ELSE None]

\* The write, or the attempt at it, is over.
Written(o) ==
  IF o.next \in {"updated", "done"} THEN Idle
  ELSE [o EXCEPT !.pc = o.next, !.patch = <<>>, !.next = "resolved",
                 !.ses = IF o.next = "bulk" THEN Degraded ELSE @]

\* No store.update is between its GET and SETEX on the event loop.
LoopFree == \A c \in Clients : ~(At(c, "set") /\ op[c].next = "updated")

Facts == {<<t, IF t \in member THEN "member" ELSE "left">> : t \in Tenants}
         \cup {<<t, IF t \in lapsed THEN "expired" ELSE "valid">> : t \in Tenants}

Requesting(o) == o.pc \notin {"idle", "create"} /\ o.kind = "request"

\* A change of the database in the midst of an operation.
Noting(o) ==
  IF Requesting(o) THEN [o EXCEPT !.seen = @ \cup Facts'] ELSE o

Started(kind, k, arg, pc) ==
  [pc |-> pc, kind |-> kind, tok |-> k, arg |-> arg, todo |-> {},
   ses |-> Degraded, tid |-> None, patch |-> <<>>, next |-> "resolved",
   again |-> FALSE, seen |-> IF kind = "request" THEN Facts ELSE {},
   crossed |-> FALSE]

Init ==
  /\ member = Tenants /\ lapsed = {} /\ account = TRUE /\ changes = 0
  /\ session = [k \in Tokens |-> None]
  /\ index = {} /\ renewed = {} /\ used = {}
  /\ op = [c \in Clients |-> Idle]
  /\ chosen = [k \in Tokens |-> None]
  /\ outlived = {} /\ revived = {}

------------------------------------------------------------------------------
(* login: the tenant is picked from the bindings (none: select later), then
   the session is stored.                                                  *)

Login(c, t) ==
  /\ op[c] = Idle
  /\ account /\ member # {}
  /\ t \in member \cup {None}
  /\ op' = [op EXCEPT ![c] = [pc |-> "create", ses |-> Session(t, t \in lapsed)]]
  /\ UNCHANGED <<db, redis, used, history>>

\* Faulty variant of Create: the token is not added to the user's index.
CreateUnindexed(c, k) ==
  /\ At(c, "create") /\ LoopFree
  /\ k \notin used
  /\ session' = [session EXCEPT ![k] = op[c].ses]
  /\ renewed' = {}
  /\ used' = used \cup {k}
  /\ chosen' = [chosen EXCEPT ![k] = op[c].ses.tenant]
  /\ End(c)
  /\ UNCHANGED <<db, index, outlived, revived>>

\* store.create: SETEX, SADD, EXPIRE of the index.
Create(c, k) ==
  /\ At(c, "create") /\ LoopFree
  /\ k \notin used
  /\ session' = [session EXCEPT ![k] = op[c].ses]
  /\ index' = index \cup {k}
  /\ renewed' = {}
  /\ used' = used \cup {k}
  /\ chosen' = [chosen EXCEPT ![k] = op[c].ses.tenant]
  /\ End(c)
  /\ UNCHANGED <<db, outlived, revived>>

\* store.delete.  A write that falls among its three commands leaves what it
\* would leave after them.
Delete(k) ==
  /\ session' = [session EXCEPT ![k] = None]
  /\ index' = IF Live(k) THEN index \ {k} ELSE index
  /\ UNCHANGED renewed

Logout(k) ==
  /\ LoopFree
  /\ k \in used
  /\ Delete(k)
  /\ UNCHANGED <<db, used, op, history>>

------------------------------------------------------------------------------
(* resolve, with _ensure_active_tenant_session.                            *)

\* A client calls with its token: an ordinary request, a refresh (GET /me or the
\* realtime probe), a switch to a tenant, a profile change, a password change.
Begin(c, kind, k, arg) ==
  /\ op[c] = Idle
  /\ kind \in Kinds \cap {"request", "refresh", "switch", "profile", "password"}
  /\ k \in used
  /\ kind = "switch" <=> arg # {}
  /\ op' = [op EXCEPT ![c] = Started(kind, k, arg, "resolve")]
  /\ UNCHANGED <<db, redis, used, history>>

Resolve(c) ==
  /\ At(c, "resolve")
  /\ IF Live(op[c].tok)
     THEN op' = [op EXCEPT ![c].pc = "account", ![c].ses = session[op[c].tok]]
     ELSE End(c)
  /\ UNCHANGED <<db, redis, used, history>>

\* Where a session without or with a tenant goes next.
Ensure(o) ==
  IF o.ses.tenant # None
  THEN [o EXCEPT !.pc = "expiry", !.tid = o.ses.tenant]
  ELSE IF o.ses.flag THEN Writing(o, [flag |-> FALSE], "resolved")
       ELSE [o EXCEPT !.pc = "resolved"]

CheckAccount(c) ==
  /\ At(c, "account")
  /\ IF account
     THEN op' = [op EXCEPT ![c] = Ensure(op[c])] /\ UNCHANGED redis
     ELSE End(c) /\ Delete(op[c].tok)
  /\ UNCHANGED <<db, used, history>>

\* is_tenant_expired; a flag that disagrees is written.
CheckExpiry(c) ==
  /\ At(c, "expiry")
  /\ LET expired == op[c].tid \in lapsed IN
     op' = IF op[c].ses.flag # expired
           THEN [op EXCEPT ![c] = Writing(op[c], [flag |-> expired], "active")]
           ELSE [op EXCEPT ![c].pc = "active"]
  /\ UNCHANGED <<db, redis, used, history>>

\* Faulty variant of CheckActive: the session's word is taken.
CheckActiveTrusting(c) ==
  /\ At(c, "active")
  /\ op' = [op EXCEPT ![c].pc = "resolved"]
  /\ UNCHANGED <<db, redis, used, history>>

\* is_user_active_in_tenant, asked once per request; a former member's session
\* is degraded.
CheckActive(c) ==
  /\ At(c, "active")
  /\ op' = IF op[c].again \/ op[c].tid \in member
           THEN [op EXCEPT ![c].pc = "resolved"]
           ELSE [op EXCEPT ![c] = Writing(op[c], Degraded, "resolved")]
  /\ UNCHANGED <<db, redis, used, history>>

\* The GET of store.update.  A session that is gone is not written; resolve
\* goes on with its own copy, the other callers give up.
UpdateGet(c) ==
  /\ At(c, "get")
  /\ LET o == op[c] IN
     /\ o.next = "updated" => LoopFree
     /\ IF Live(o.tok)
        THEN op' = [op EXCEPT ![c].pc = "set", ![c].patch = <<>>,
                              ![c].ses = Merge(session[o.tok], o.patch)]
        ELSE op' = [op EXCEPT ![c] = Written([o EXCEPT !.ses = Merge(o.ses, o.patch)])]
  /\ UNCHANGED <<db, redis, used, history>>

\* The SETEX of store.update: the TTL of the session starts anew, that of the
\* index does not.
UpdateSet(c) ==
  /\ At(c, "set")
  /\ LET o == op[c]
         moved == o.ses.tenant # None
                  /\ (Live(o.tok) => session[o.tok].tenant # o.ses.tenant)
     IN
     /\ session' = [session EXCEPT ![o.tok] = o.ses]
     /\ renewed' = renewed \cup {o.tok}
     /\ op' = [d \in Clients |->
                 IF d = c THEN Written(o)
                 ELSE IF Requesting(op[d]) /\ op[d].tok = o.tok
                 THEN [op[d] EXCEPT !.crossed = @ \/ moved]
                 ELSE op[d]]
     /\ chosen' = IF o.kind = "switch" /\ o.next = "updated"
                  THEN [chosen EXCEPT ![o.tok] = o.ses.tenant] ELSE chosen
     /\ revived' = IF Live(o.tok) THEN revived ELSE revived \cup {o.tok}
  /\ UNCHANGED <<db, index, used, outlived>>

------------------------------------------------------------------------------
(* What follows the resolve.                                               *)

\* A later middleware, or the handler, resolves again: the session and the
\* membership found are cached with the request.
ResolveAgain(c) ==
  /\ At(c, "resolved")
  /\ op[c].kind = "request"
  /\ op' = [op EXCEPT ![c] =
              Ensure([op[c] EXCEPT !.again = (op[c].tid = op[c].ses.tenant)])]
  /\ UNCHANGED <<db, redis, used, history>>

\* The handler runs in the session's tenant and the request is over.
Serve(c) ==
  /\ At(c, "resolved")
  /\ op[c].kind = "request"
  /\ End(c)
  /\ UNCHANGED <<db, redis, used, history>>

\* refresh: nothing to reload without a tenant; membership and snapshot are read
\* for the tenant of the session resolved before.  A user without roles there
\* is sent back to the selection.
Reload(c) ==
  /\ At(c, "resolved")
  /\ op[c].kind = "refresh"
  /\ LET t == op[c].ses.tenant IN
     IF t = None THEN End(c)
     ELSE \/ t \in member
             /\ op' = [op EXCEPT ![c] = Writing(op[c], Session(t, t \in lapsed), "updated")]
          \/ op' = [op EXCEPT ![c] = Writing(op[c], Degraded, "updated")]
  /\ UNCHANGED <<db, redis, used, history>>

\* switch_tenant: an active member with a role there, or an error.
Switch(c) ==
  /\ At(c, "resolved")
  /\ op[c].kind = "switch"
  /\ \/ \E t \in op[c].arg \cap member :
          op' = [op EXCEPT ![c] = Writing(op[c], Session(t, t \in lapsed), "updated")]
     \/ End(c)
  /\ UNCHANGED <<db, redis, used, history>>

\* patch_profile writes names only, but the whole session goes back.
PatchProfile(c) ==
  /\ At(c, "resolved")
  /\ op[c].kind = "profile"
  /\ op' = [op EXCEPT ![c] = Writing(op[c], <<>>, "done")]
  /\ UNCHANGED <<db, redis, used, history>>

------------------------------------------------------------------------------
(* Operations over the tokens of the user's index.                         *)

\* offboard: the membership ends, then invalidate_tenant_access.
Offboard(c, t) ==
  /\ op[c] = Idle
  /\ "offboard" \in Kinds
  /\ t \in member /\ changes < MaxChanges
  /\ member' = member \ {t} /\ changes' = changes + 1
  /\ UNCHANGED <<lapsed, account, redis, used, history>>
  /\ op' = [d \in Clients |-> IF d = c THEN Started("offboard", None, {t}, "list")
                                       ELSE Noting(op[d])]

\* sync_expired_tenant_session_flags reads which tenants have expired.
ExpiryJob(c) ==
  /\ op[c] = Idle
  /\ "expiryJob" \in Kinds
  /\ lapsed # {}
  /\ op' = [op EXCEPT ![c] = Started("expiryJob", None, lapsed, "list")]
  /\ UNCHANGED <<db, redis, used, history>>

\* change_password ends with revoke_other_sessions, in one thread.
RevokeOthers(c) ==
  /\ At(c, "resolved")
  /\ op[c].kind = "password"
  /\ op' = [op EXCEPT ![c].pc = "list"]
  /\ UNCHANGED <<db, redis, used, history>>

\* list_user_tokens
ListTokens(c) ==
  /\ At(c, "list")
  /\ op' = [op EXCEPT ![c].pc = "bulk", ![c].todo = index \ {op[c].tok}]
  /\ UNCHANGED <<db, redis, used, history>>

\* One listed token: a revocation deletes it; a session of the departed tenant is
\* degraded; one of an expired tenant gets its flag; others stay.  (The tokens
\* are visited concurrently, which makes no difference to any of them.)
Visit(c, k) ==
  /\ At(c, "bulk")
  /\ k \in op[c].todo
  /\ LET o == [op[c] EXCEPT !.todo = @ \ {k}]
         hit == Live(k) /\ session[k].tenant \in o.arg
     IN
     CASE o.kind = "password" -> Delete(k) /\ op' = [op EXCEPT ![c] = o]
       [] o.kind = "offboard" /\ hit ->
            /\ op' = [op EXCEPT ![c] = Writing([o EXCEPT !.tok = k], Degraded, "bulk")]
            /\ UNCHANGED redis
       [] o.kind = "expiryJob" /\ hit /\ ~session[k].flag ->
            /\ op' = [op EXCEPT ![c] =
                        Writing([o EXCEPT !.tok = k], [flag |-> TRUE], "bulk")]
            /\ UNCHANGED redis
       [] OTHER -> op' = [op EXCEPT ![c] = o] /\ UNCHANGED redis
  /\ UNCHANGED <<db, used, history>>

BulkEnds(c) ==
  /\ At(c, "bulk")
  /\ op[c].todo = {}
  /\ End(c)
  /\ UNCHANGED <<db, redis, used, history>>

------------------------------------------------------------------------------
(* The database changes; time passes in Redis.                             *)

\* A tenant binds the user again, its package expires or is renewed, the
\* account is disabled or enabled.
DatabaseChanges ==
  /\ changes < MaxChanges /\ changes' = changes + 1
  /\ \/ \E t \in Tenants \ member : member' = member \cup {t} /\ UNCHANGED <<lapsed, account>>
     \/ \E t \in Tenants \ lapsed : lapsed' = lapsed \cup {t} /\ UNCHANGED <<member, account>>
     \/ \E t \in lapsed : lapsed' = lapsed \ {t} /\ UNCHANGED <<member, account>>
     \/ account' = ~account /\ UNCHANGED <<member, lapsed>>
  /\ op' = [d \in Clients |-> Noting(op[d])]
  /\ UNCHANGED <<redis, used, history>>

\* The TTLs have one length, so what was written earlier goes earlier: a session
\* written after the last login outlives the index, the others do not.
SessionExpires(k) ==
  /\ Live(k)
  /\ k \in renewed => index = {}
  /\ session' = [session EXCEPT ![k] = None]
  /\ UNCHANGED <<db, index, renewed, used, op, history>>

IndexExpires ==
  /\ index # {}
  /\ \A k \in Tokens : Live(k) => k \in renewed
  /\ index' = {}
  /\ outlived' = outlived \cup {k \in Tokens : Live(k)}
  /\ UNCHANGED <<db, session, renewed, used, op, chosen, revived>>

------------------------------------------------------------------------------
ClientStep(c) ==
  \/ \E k \in Tokens : Create(c, k) \/ Visit(c, k)
  \/ Resolve(c) \/ CheckAccount(c) \/ CheckExpiry(c) \/ CheckActive(c)
  \/ UpdateGet(c) \/ UpdateSet(c) \/ ResolveAgain(c) \/ Serve(c) \/ Reload(c)
  \/ Switch(c) \/ PatchProfile(c) \/ RevokeOthers(c)
  \/ ListTokens(c) \/ BulkEnds(c)

Next ==
  \/ \E c \in Clients, t \in Tenants \cup {None} : Login(c, t)
  \/ \E c \in Clients, kind \in Kinds, k \in Tokens : Begin(c, kind, k, {})
  \/ \E c \in Clients, k \in Tokens, t \in Tenants : Begin(c, "switch", k, {t})
  \/ \E c \in Clients, t \in Tenants : Offboard(c, t)
  \/ \E c \in Clients : ExpiryJob(c) \/ ClientStep(c)
  \/ \E k \in Tokens : Logout(k) \/ SessionExpires(k)
  \/ DatabaseChanges \/ IndexExpires

Spec == Init /\ [][Next]_vars

------------------------------------------------------------------------------
SessionValues == [tenant : Tenants \cup {None}, flag : BOOLEAN]
Patches == SessionValues \cup [flag : BOOLEAN] \cup {<<>>}
Pcs == {"resolve", "account", "expiry", "active", "get", "set", "resolved",
        "list", "bulk"}

Words == {"member", "left", "expired", "valid"}
Operations ==
  [pc : Pcs, kind : Kinds, tok : Tokens \cup {None}, arg : SUBSET Tenants,
   todo : SUBSET Tokens, ses : SessionValues, tid : Tenants \cup {None},
   patch : Patches, next : {"active", "resolved", "bulk", "updated", "done"},
   again : BOOLEAN, seen : SUBSET (Tenants \X Words), crossed : BOOLEAN]

\* Every variable has its type.
TypeOK ==
  /\ member \subseteq Tenants /\ lapsed \subseteq Tenants
  /\ account \in BOOLEAN /\ changes \in 0..MaxChanges
  /\ session \in [Tokens -> SessionValues \cup {None}]
  /\ index \subseteq used /\ renewed \subseteq used /\ used \subseteq Tokens
  /\ op \in [Clients -> {Idle} \cup [pc : {"create"}, ses : SessionValues] \cup Operations]
  /\ chosen \in [Tokens -> Tenants \cup {None}]
  /\ outlived \subseteq used /\ revived \subseteq used

\* docs/multitenant.md: each request checks that the user still belongs to the
\* session's tenant.  A request is served in a tenant only if the user was a
\* member at some time during it, whatever offboarding, binding, profile writes
\* and expiry do meanwhile, unless its session was moved to another tenant.
ServedIsMember ==
  \A c \in Clients :
    At(c, "resolved") /\ op[c].kind = "request" =>
      LET o == op[c] IN
      o.ses.tenant = None \/ o.crossed \/ <<o.ses.tenant, "member">> \in o.seen

\* The soft lock a request meets is that of its tenant at some time during it:
\* neither the expiry job nor a stale write makes a paying tenant read-only, or
\* lifts the lock of an expired one, beyond the next request.
ServedFlagIsFresh ==
  \A c \in Clients :
    At(c, "resolved") /\ op[c].kind = "request" =>
      LET o == op[c] IN
      o.ses.tenant = None \/ o.crossed
        \/ <<o.ses.tenant, IF o.ses.flag THEN "expired" ELSE "valid">> \in o.seen

\* What a request is served with was true of its tenant while it was served.
ServedIsTrue == ServedIsMember /\ ServedFlagIsFresh

\* A live session that revocation and offboarding cannot find, because the index
\* misses it, had outlived the index, whose TTL only a login renews, or had been
\* written back by an update that read it before it was deleted.
LiveIsIndexed ==
  \A k \in Tokens : Live(k) => k \in index \/ k \in outlived \cup revived

\* docs/multitenant.md: switching updates the session in place.  The session stays
\* in the tenant of its login or last switch, or is degraded.
SwitchSticks ==
  \A k \in Tokens : Live(k) => session[k].tenant \in {chosen[k], None}
==============================================================================
