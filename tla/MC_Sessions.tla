----------------------------- MODULE MC_Sessions -----------------------------
(* Model-checking instance of Sessions: the sessions of one login while memberships
   and packages change, or of two logins in one tenant while they are revoked.     *)
EXTENDS Sessions, TLC

VARIABLE part

Parts == [memberships |-> {"request", "refresh", "switch", "profile", "offboard", "expiryJob"},
          revocations |-> {"profile", "password"}]
MCKinds == UNION {Parts[p] : p \in DOMAIN Parts}

\* The tenants some session is in, or some operation holds a session of.
Held == {session[k].tenant : k \in {k \in Tokens : Live(k)}}
        \cup {op[c].ses.tenant : c \in {c \in Clients : op[c] # Idle}}

\* What a part keeps to.
Within ==
  /\ \A c \in Clients : op[c] = Idle \/ op[c].pc = "create" \/ op[c].kind \in Parts[part]
  /\ CASE part = "memberships" -> Cardinality(used) <= 1
       [] part = "revocations" -> changes = 0 /\ Cardinality(Held \ {None}) <= 1

PartsInit == part \in DOMAIN Parts /\ Init /\ Within
PartsNext == UNCHANGED part /\ Next /\ Within'
PartsSpec == PartsInit /\ [][PartsNext]_<<part, vars>>

ModelSymmetry == Permutations(Tokens) \cup Permutations(Clients) \cup Permutations(Tenants)

\* No step reads the history of the tokens, nor does what is said of memberships:
\* there, states are identified up to it.
WithoutHistory == <<part, db, redis, used, op, IF part = "memberships" THEN <<>> ELSE history>>
==============================================================================
