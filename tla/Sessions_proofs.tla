--------------------------- MODULE Sessions_proofs ---------------------------
(***************************************************************************)
(* Proofs about Sessions: type correctness, that what a request is served  *)
(* with was true of its tenant while it was served, and that a session the *)
(* index misses is one of the two kinds named, for any number of tokens,   *)
(* tenants, concurrent operations and changes of the database.             *)
(***************************************************************************)
EXTENDS Sessions, TLAPS

Nexts == {"active", "resolved", "bulk", "updated", "done"}
States == {Idle} \cup [pc : {"create"}, ses : SessionValues] \cup Operations

------------------------------------------------------------------------------
(* What the operators make of an operation.                                   *)

LEMMA SessionIsValue ==
  ASSUME NEW t \in Tenants \cup {None}, NEW f \in BOOLEAN
  PROVE  Session(t, f) \in SessionValues /\ Session(t, f) \in Patches
  BY DEF Session, SessionValues, Patches

LEMMA MembershipIsBoolean ==
  ASSUME NEW x, NEW S
  PROVE  \E b \in BOOLEAN : b = (x \in S)
<1>1. CASE x \in S
  <2>1. TRUE = (x \in S)
    BY <1>1
  <2>2. QED
    BY <2>1, Zenon
<1>2. CASE x \notin S
  <2>1. FALSE = (x \in S)
    BY <1>2
  <2>2. QED
    BY <2>1, Zenon
<1>3. QED
  BY <1>1, <1>2

LEMMA DegradedIs ==
  Degraded \in SessionValues /\ Degraded \in Patches /\ Degraded.tenant = None
  BY DEF Degraded, Session, SessionValues, Patches

LEMMA FlagIsPatch ==
  ASSUME NEW f \in BOOLEAN
  PROVE  [flag |-> f] \in Patches
  BY DEF Patches

\* A patch with a tenant replaces the session, one with a flag leaves its tenant.
LEMMA MergeIs ==
  ASSUME NEW s \in SessionValues, NEW p \in Patches
  PROVE  /\ Merge(s, p) \in SessionValues
         /\ p \in SessionValues => Merge(s, p).tenant = p.tenant
         /\ \A f \in BOOLEAN : p = [flag |-> f] =>
              Merge(s, p).tenant = s.tenant /\ Merge(s, p).flag = f
<1>1. /\ s.tenant \in Tenants \cup {None} /\ s.flag \in BOOLEAN
      /\ s["tenant"] = s.tenant /\ s["flag"] = s.flag
  BY DEF SessionValues
<1>2. CASE p \in SessionValues
  <2>1. DOMAIN p = {"tenant", "flag"}
    BY <1>2 DEF SessionValues
  <2>2. p["tenant"] \in Tenants \cup {None} /\ p["flag"] \in BOOLEAN
    BY <1>2 DEF SessionValues
  <2>3. \A f \in BOOLEAN : p # [flag |-> f]
    BY <2>1
  <2>4. QED
    BY <1>1, <1>2, <2>1, <2>2, <2>3 DEF Merge, SessionValues
<1>3. ASSUME NEW f \in BOOLEAN, p = [flag |-> f]
      PROVE  Merge(s, p) = [tenant |-> s.tenant, flag |-> f]
  <2>1. DOMAIN p = {"flag"} /\ p["flag"] = f
    BY <1>3
  <2>2. QED
    BY <1>1, <2>1 DEF Merge, SessionValues
<1>4. CASE p \in [flag : BOOLEAN]
  <2>1. PICK f \in BOOLEAN : p = [flag |-> f]
    BY <1>4
  <2>2. p \notin SessionValues
    BY <2>1 DEF SessionValues
  <2>3. \A g \in BOOLEAN : p = [flag |-> g] => g = f
    BY <2>1
  <2>4. Merge(s, p) = [tenant |-> s.tenant, flag |-> f]
    BY <1>3, <2>1
  <2>5. Merge(s, p) \in SessionValues
    BY <1>1, <2>4 DEF SessionValues
  <2>6. Merge(s, p).tenant = s.tenant /\ Merge(s, p).flag = f
    BY <2>4
  <2>7. QED
    BY <2>2, <2>3, <2>5, <2>6
<1>5. CASE p = <<>>
  <2>1. Merge(s, p) = [tenant |-> s.tenant, flag |-> s.flag]
    BY <1>1, <1>5 DEF Merge, SessionValues
  <2>2. p \notin SessionValues /\ \A f \in BOOLEAN : p # [flag |-> f]
    BY <1>5 DEF SessionValues
  <2>3. Merge(s, p) \in SessionValues
    BY <1>1, <2>1 DEF SessionValues
  <2>4. QED
    BY <2>2, <2>3
<1>6. QED
  BY <1>2, <1>4, <1>5 DEF Patches

\* An update of the fields an operation works with.
LEMMA UpdateTyped ==
  ASSUME NEW o \in Operations, NEW q \in Pcs, NEW p \in Patches, NEW n \in Nexts,
         NEW s \in SessionValues, NEW t \in Tenants \cup {None}
  PROVE  [o EXCEPT !.pc = q, !.patch = p, !.next = n, !.ses = s, !.tid = t] \in Operations
  BY DEF Operations, Nexts

\* An operation about to write.
LEMMA WritingIs ==
  ASSUME NEW o \in Operations, NEW p \in Patches, NEW n \in Nexts, NEW r,
         r = Writing(o, p, n)
  PROVE  /\ r \in Operations
         /\ r.pc = "get" /\ r.patch = p /\ r.next = n
         /\ n \in {"active", "resolved"} => r.ses = o.ses /\ r.tid = o.tid
         /\ r.kind = o.kind /\ r.tok = o.tok /\ r.arg = o.arg /\ r.todo = o.todo
         /\ r.again = o.again /\ r.seen = o.seen /\ r.crossed = o.crossed
<1>1. PICK q \in Pcs : q = "get"
  BY DEF Pcs
<1>2. PICK s \in SessionValues : s = IF n \in {"active", "resolved"} THEN o.ses ELSE Degraded
  BY DegradedIs DEF Operations
<1>3. PICK t \in Tenants \cup {None} : t = IF n \in {"active", "resolved"} THEN o.tid ELSE None
  BY DEF Operations
<1>4. r = [o EXCEPT !.pc = q, !.patch = p, !.next = n, !.ses = s, !.tid = t]
  BY <1>1, <1>2, <1>3, Zenon DEF Writing
<1>5. q \in Pcs /\ s \in SessionValues /\ t \in Tenants \cup {None}
  BY <1>1, <1>2, <1>3
<1>6. [o EXCEPT !.pc = q, !.patch = p, !.next = n, !.ses = s, !.tid = t] \in Operations
  BY <1>5, UpdateTyped, Zenon
<1>7. r \in Operations
  BY <1>4, <1>6, Zenon
<1>8. /\ r.pc = q /\ r.patch = p /\ r.next = n /\ r.ses = s /\ r.tid = t
      /\ r.kind = o.kind /\ r.tok = o.tok /\ r.arg = o.arg /\ r.todo = o.todo
      /\ r.again = o.again /\ r.seen = o.seen /\ r.crossed = o.crossed
  BY <1>4 DEF Operations
<1>9. QED
  BY <1>1, <1>2, <1>3, <1>7, <1>8

\* An operation whose write is over.
LEMMA WrittenIs ==
  ASSUME NEW o \in Operations, NEW r, r = Written(o)
  PROVE  \/ r = Idle
         \/ /\ r \in Operations
            /\ r.pc = o.next /\ o.next \in {"active", "resolved", "bulk"}
            /\ r.pc # "bulk" => r.ses = o.ses
            /\ r.tid = o.tid
            /\ r.kind = o.kind /\ r.tok = o.tok /\ r.arg = o.arg /\ r.todo = o.todo
            /\ r.again = o.again /\ r.seen = o.seen /\ r.crossed = o.crossed
<1>1. CASE o.next \in {"updated", "done"}
  BY <1>1 DEF Written
<1>2. CASE o.next \notin {"updated", "done"}
  <2>1. o.next \in {"active", "resolved", "bulk"} /\ o.next \in Pcs /\ "resolved" \in Nexts
        /\ <<>> \in Patches /\ o.tid \in Tenants \cup {None}
    BY <1>2 DEF Operations, Pcs, Nexts, Patches
  <2>2. PICK s \in SessionValues : s = IF o.next = "bulk" THEN Degraded ELSE o.ses
    BY DegradedIs DEF Operations
  <2>3. r = [o EXCEPT !.pc = o.next, !.patch = <<>>, !.next = "resolved", !.ses = s]
    BY <1>2, <2>2, Zenon DEF Written
  <2>5. /\ r \in Operations
        /\ r.pc = o.next /\ r.ses = s /\ r.tid = o.tid
        /\ r.kind = o.kind /\ r.tok = o.tok /\ r.arg = o.arg /\ r.todo = o.todo
        /\ r.again = o.again /\ r.seen = o.seen /\ r.crossed = o.crossed
    BY <2>1, <2>3 DEF Operations, Nexts
  <2>6. QED
    BY <2>1, <2>2, <2>5
<1>3. QED
  BY <1>1, <1>2

\* An operation on its way into the checks of its session.
LEMMA EnsureIs ==
  ASSUME NEW o \in Operations, NEW r, r = Ensure(o)
  PROVE  /\ r \in Operations
         /\ r.ses = o.ses
         /\ \/ o.ses.tenant # None /\ r.pc = "expiry" /\ r.tid = o.ses.tenant
            \/ o.ses.tenant = None /\ r.pc = "resolved"
            \/ /\ o.ses.tenant = None /\ r.pc = "get" /\ r.next = "resolved"
               /\ r.patch = [flag |-> FALSE]
         /\ r.kind = o.kind /\ r.tok = o.tok /\ r.arg = o.arg /\ r.todo = o.todo
         /\ r.again = o.again /\ r.seen = o.seen /\ r.crossed = o.crossed
<1>1. CASE o.ses.tenant # None
  <2>1. o.ses.tenant \in Tenants \cup {None} /\ "expiry" \in Pcs
    BY DEF Operations, SessionValues, Pcs
  <2>2. r = [o EXCEPT !.pc = "expiry", !.tid = o.ses.tenant]
    BY <1>1 DEF Ensure
  <2>3. QED
    BY <1>1, <2>1, <2>2 DEF Operations
<1>2. CASE o.ses.tenant = None /\ o.ses.flag
  <2>1. r = Writing(o, [flag |-> FALSE], "resolved")
    BY <1>2 DEF Ensure
  <2>2. "resolved" \in Nexts /\ [flag |-> FALSE] \in Patches
    BY FlagIsPatch DEF Nexts
  <2>3. QED
    BY <1>2, <2>1, <2>2, WritingIs
<1>3. CASE o.ses.tenant = None /\ ~o.ses.flag
  <2>1. r = [o EXCEPT !.pc = "resolved"]
    BY <1>3 DEF Ensure
  <2>2. QED
    BY <1>3, <2>1 DEF Operations, Pcs
<1>4. QED
  BY <1>1, <1>2, <1>3

LEMMA StartedIs ==
  ASSUME NEW kind \in Kinds, NEW k \in Tokens \cup {None}, NEW arg \in SUBSET Tenants,
         NEW q \in Pcs, NEW r, r = Started(kind, k, arg, q)
  PROVE  /\ r \in Operations
         /\ r.pc = q /\ r.kind = kind /\ r.tok = k /\ r.todo = {} /\ ~r.again
         /\ kind = "request" => r.seen = Facts
<1>1. Facts \subseteq Tenants \X Words
  BY DEF Facts, Words
<1>2. <<>> \in Patches
  BY DEF Patches
<1>3. QED
  BY <1>1, <1>2, DegradedIs DEF Started, Operations

\* Noting what the database says adds to what has been seen and to nothing else.
LEMMA NotingIs ==
  ASSUME NEW o \in States, NEW r, r = Noting(o)
  PROVE  /\ r \in States
         /\ r.pc = o.pc
         /\ o \in Operations =>
              /\ r \in Operations
              /\ r.kind = o.kind /\ r.tok = o.tok /\ r.todo = o.todo /\ r.ses = o.ses
              /\ r.tid = o.tid /\ r.patch = o.patch /\ r.next = o.next
              /\ r.again = o.again /\ r.crossed = o.crossed
              /\ o.seen \subseteq r.seen
              /\ Requesting(o) => Facts' \subseteq r.seen
<1>1. Facts' \subseteq Tenants \X Words
  BY DEF Facts, Words
<1>2. CASE Requesting(o)
  <2>1. o \in Operations
    BY <1>2 DEF Requesting, States, Idle
  <2>2. r = [o EXCEPT !.seen = o.seen \cup Facts']
    BY <1>2 DEF Noting
  <2>3. o.seen \cup Facts' \in SUBSET (Tenants \X Words)
    BY <1>1, <2>1 DEF Operations
  <2>4. PICK S \in SUBSET (Tenants \X Words) : S = o.seen \cup Facts'
    BY <2>3
  <2>5. r = [o EXCEPT !.seen = S]
    BY <2>2, <2>4
  <2>6. QED
    BY <2>1, <2>4, <2>5 DEF Operations, States
<1>3. CASE ~Requesting(o)
  BY <1>3 DEF Noting
<1>4. QED
  BY <1>2, <1>3

------------------------------------------------------------------------------
(* What each step makes of the operation that takes it.  The tokens an        *)
(* operation works on were handed out: that is part of its type.              *)
Busy(c) == op[c].pc \notin {"idle", "create"}
TokensAreUsed ==
  \A c \in Clients : Busy(c) =>
    /\ op[c].todo \subseteq used
    /\ op[c].pc \notin {"list", "bulk"} => op[c].tok \in used
Typed == TypeOK /\ TokensAreUsed

\* The fields no check of a session touches.
Kept(r, o) ==
  /\ r.kind = o.kind /\ r.tok = o.tok /\ r.todo = o.todo
  /\ r.seen = o.seen /\ r.crossed = o.crossed

LEMMA OpTyped ==
  ASSUME TypeOK
  PROVE  /\ op \in [Clients -> States]
         /\ \A c \in Clients : Busy(c) => op[c] \in Operations /\ op[c].pc \in Pcs
         /\ \A c \in Clients : op[c] # Idle /\ ~Busy(c) =>
              op[c].pc = "create" /\ op[c].ses \in SessionValues
<1>1. op \in [Clients -> States]
  BY DEF TypeOK, States
<1>2. ASSUME NEW c \in Clients
      PROVE  \/ op[c] = Idle /\ op[c].pc = "idle"
             \/ op[c].pc = "create" /\ op[c].ses \in SessionValues
             \/ op[c] \in Operations /\ op[c].pc \in Pcs /\ Busy(c)
  BY <1>1 DEF States, Idle, Operations, Pcs, Busy
<1>3. QED
  BY <1>1, <1>2 DEF Busy

\* A client's step: its operation becomes r.
LEMMA Turn ==
  ASSUME TypeOK, NEW c \in Clients, NEW r \in States, op' = [op EXCEPT ![c] = r]
  PROVE  /\ op' \in [Clients -> States] /\ op'[c] = r
         /\ \A d \in Clients : d # c => op'[d] = op[d]
  BY OpTyped

LEMMA IdleIs == Idle \in States /\ Idle.pc = "idle"
  BY DEF States, Idle

LEMMA PcStep ==
  ASSUME NEW o \in Operations, NEW q \in Pcs, NEW r, r = [o EXCEPT !.pc = q]
  PROVE  /\ r \in Operations /\ r.pc = q /\ Kept(r, o)
         /\ r.ses = o.ses /\ r.tid = o.tid /\ r.again = o.again
  BY DEF Operations, Kept

LEMMA ResolveDoes ==
  ASSUME Typed, NEW c \in Clients, Resolve(c), NEW o, o = op[c]
  PROVE  \E r \in States :
           /\ op' = [op EXCEPT ![c] = r]
           /\ r # Idle => /\ r \in Operations /\ Kept(r, o) /\ r.pc = "account"
                          /\ Live(o.tok) /\ r.ses = session[o.tok] /\ r.again = o.again
<1>1. o \in Operations /\ o.tok \in Tokens
  BY OpTyped DEF Typed, TokensAreUsed, TypeOK, Resolve, At, Busy
<1>2. CASE Live(o.tok)
  <2>1. PICK s \in SessionValues : s = session[o.tok]
    BY <1>1, <1>2 DEF Typed, TypeOK, Live
  <2>2. PICK q \in Pcs : q = "account"
    BY DEF Pcs
  <2>3. PICK r : r = [o EXCEPT !.pc = q, !.ses = s]
    OBVIOUS
  <2>4. op' = [op EXCEPT ![c] = r]
    BY <1>2, <2>1, <2>2, <2>3, OpTyped DEF Resolve, Typed
  <2>5. q \in Pcs /\ s \in SessionValues
    BY <2>1, <2>2
  <2>6. r \in Operations /\ r.pc = q /\ r.ses = s /\ r.again = o.again /\ Kept(r, o)
    BY <1>1, <2>3, <2>5 DEF Operations, Kept
  <2>7. r \in States
    BY <2>6 DEF States
  <2>8. QED
    BY <1>2, <2>1, <2>2, <2>4, <2>6, <2>7
<1>3. CASE ~Live(o.tok)
  BY <1>3, IdleIs DEF Resolve, End
<1>4. QED
  BY <1>2, <1>3

LEMMA CheckAccountDoes ==
  ASSUME Typed, NEW c \in Clients, CheckAccount(c), NEW o, o = op[c]
  PROVE  \E r \in States :
           /\ op' = [op EXCEPT ![c] = r]
           /\ \/ r = Idle /\ Delete(o.tok)
              \/ /\ UNCHANGED redis
                 /\ r \in Operations /\ Kept(r, o) /\ r.again = o.again /\ r.ses = o.ses
                 /\ \/ o.ses.tenant # None /\ r.pc = "expiry" /\ r.tid = o.ses.tenant
                    \/ o.ses.tenant = None /\ r.pc = "resolved"
                    \/ /\ o.ses.tenant = None /\ r.pc = "get" /\ r.next = "resolved"
                       /\ r.patch = [flag |-> FALSE]
<1>1. o \in Operations
  BY OpTyped DEF Typed, CheckAccount, At, Busy
<1>2. PICK r : r = Ensure(o)
  OBVIOUS
<1>3. r \in States
  BY <1>1, <1>2, EnsureIs DEF States
<1>4. CASE account
  <2>1. op' = [op EXCEPT ![c] = r] /\ UNCHANGED redis
    BY <1>2, <1>4 DEF CheckAccount
  <2>2. Kept(r, o)
    BY <1>1, <1>2, EnsureIs DEF Kept
  <2>3. QED
    BY <1>1, <1>2, <1>3, <2>1, <2>2, EnsureIs
<1>5. CASE ~account
  BY <1>5, IdleIs DEF CheckAccount, End
<1>6. QED
  BY <1>4, <1>5

Expired(t) == t \in lapsed

LEMMA ExpiredIsBoolean ==
  ASSUME NEW t
  PROVE  Expired(t) \in BOOLEAN /\ [flag |-> Expired(t)] \in Patches
<1>1. PICK b \in BOOLEAN : b = (t \in lapsed)
  BY MembershipIsBoolean, Zenon
<1>2. Expired(t) = b
  BY <1>1, Zenon DEF Expired
<1>3. QED
  BY <1>1, <1>2, FlagIsPatch, Zenon

LEMMA CheckExpiryDoes ==
  ASSUME Typed, NEW c \in Clients, CheckExpiry(c), NEW o, o = op[c]
  PROVE  \E r \in States :
           /\ op' = [op EXCEPT ![c] = r]
           /\ r \in Operations /\ Kept(r, o)
           /\ r.again = o.again /\ r.ses = o.ses /\ r.tid = o.tid
           /\ \/ r.pc = "get" /\ r.next = "active" /\ r.patch = [flag |-> Expired(o.tid)]
              \/ r.pc = "active" /\ o.ses.flag = Expired(o.tid)
<1>1. o \in Operations
  BY OpTyped DEF Typed, CheckExpiry, At, Busy
<1>2. PICK e : e = Expired(o.tid)
  OBVIOUS
<1>3. CASE o.ses.flag # e
  <2>1. PICK r : r = Writing(o, [flag |-> e], "active")
    OBVIOUS
  <2>2. op' = [op EXCEPT ![c] = r]
    BY <1>2, <1>3, <2>1, Zenon DEF CheckExpiry, Expired
  <2>3. [flag |-> e] \in Patches /\ "active" \in Nexts
    BY <1>2, ExpiredIsBoolean DEF Nexts
  <2>4. /\ r \in Operations /\ Kept(r, o) /\ r.again = o.again
        /\ r.ses = o.ses /\ r.tid = o.tid
        /\ r.pc = "get" /\ r.next = "active" /\ r.patch = [flag |-> e]
    BY <1>1, <2>1, <2>3, WritingIs DEF Kept
  <2>5. r \in States
    BY <2>4 DEF States
  <2>6. QED
    BY <1>2, <2>2, <2>4, <2>5
<1>4. CASE o.ses.flag = e
  <2>1. PICK r : r = [o EXCEPT !.pc = "active"]
    OBVIOUS
  <2>2. op' = [op EXCEPT ![c] = r]
    <3>1. op' = [op EXCEPT ![c].pc = "active"]
      BY <1>2, <1>4, Zenon DEF CheckExpiry, Expired
    <3>2. QED
      BY <2>1, <3>1, OpTyped DEF Typed
  <2>3. /\ r \in Operations /\ r.pc = "active" /\ Kept(r, o)
        /\ r.ses = o.ses /\ r.tid = o.tid /\ r.again = o.again
    BY <1>1, <2>1, PcStep DEF Pcs
  <2>4. r \in States
    BY <2>3 DEF States
  <2>5. QED
    BY <1>2, <1>4, <2>2, <2>3, <2>4
<1>5. QED
  BY <1>3, <1>4

LEMMA CheckActiveDoes ==
  ASSUME Typed, NEW c \in Clients, CheckActive(c), NEW o, o = op[c]
  PROVE  \E r \in States :
           /\ op' = [op EXCEPT ![c] = r]
           /\ r \in Operations /\ Kept(r, o)
           /\ r.ses = o.ses /\ r.tid = o.tid
           /\ \/ r.pc = "resolved" /\ (o.again \/ o.tid \in member)
              \/ r.pc = "get" /\ r.next = "resolved" /\ r.patch = Degraded
<1>1. o \in Operations
  BY OpTyped DEF Typed, CheckActive, At, Busy
<1>2. CASE o.again \/ o.tid \in member
  <2>1. PICK r : r = [o EXCEPT !.pc = "resolved"]
    OBVIOUS
  <2>2. op' = [op EXCEPT ![c] = r]
    BY <1>2, <2>1, OpTyped DEF CheckActive, Typed
  <2>3. /\ r \in Operations /\ r.pc = "resolved" /\ Kept(r, o)
        /\ r.ses = o.ses /\ r.tid = o.tid
    BY <1>1, <2>1, PcStep DEF Pcs
  <2>4. r \in States
    BY <2>3 DEF States
  <2>5. QED
    BY <1>2, <2>2, <2>3, <2>4
<1>3. CASE ~(o.again \/ o.tid \in member)
  <2>1. PICK r : r = Writing(o, Degraded, "resolved")
    OBVIOUS
  <2>2. op' = [op EXCEPT ![c] = r]
    BY <1>3, <2>1 DEF CheckActive
  <2>3. "resolved" \in Nexts
    BY DEF Nexts
  <2>4. /\ r \in Operations /\ Kept(r, o) /\ r.ses = o.ses /\ r.tid = o.tid
        /\ r.pc = "get" /\ r.next = "resolved" /\ r.patch = Degraded
    BY <1>1, <2>1, <2>3, DegradedIs, WritingIs DEF Kept
  <2>5. r \in States
    BY <2>4 DEF States
  <2>6. QED
    BY <2>2, <2>4, <2>5
<1>4. QED
  BY <1>2, <1>3

LEMMA UpdateGetDoes ==
  ASSUME Typed, NEW c \in Clients, UpdateGet(c), NEW o, o = op[c]
  PROVE  \E r \in States :
           /\ op' = [op EXCEPT ![c] = r]
           /\ \/ r = Idle
              \/ /\ r \in Operations /\ Kept(r, o) /\ r.again = o.again /\ r.tid = o.tid
                 /\ \/ /\ Live(o.tok) /\ r.pc = "set" /\ r.next = o.next
                       /\ r.ses = Merge(session[o.tok], o.patch)
                    \/ /\ ~Live(o.tok)
                       /\ r.pc = o.next /\ o.next \in {"active", "resolved", "bulk"}
                       /\ r.pc # "bulk" => r.ses = Merge(o.ses, o.patch)
<1>1. /\ o \in Operations /\ o.tok \in Tokens
      /\ o.patch \in Patches /\ o.ses \in SessionValues
  BY OpTyped DEF Typed, TokensAreUsed, TypeOK, UpdateGet, At, Busy, Operations
<1>2. CASE Live(o.tok)
  <2>1. session[o.tok] \in SessionValues
    BY <1>1, <1>2 DEF Typed, TypeOK, Live
  <2>2. Merge(session[o.tok], o.patch) \in SessionValues
    BY <1>1, <2>1, MergeIs
  <2>3. PICK s \in SessionValues : s = Merge(session[o.tok], o.patch)
    BY <2>2
  <2>4. PICK q \in Pcs : q = "set"
    BY DEF Pcs
  <2>5. PICK p \in Patches : p = <<>>
    BY DEF Patches
  <2>6. PICK r : r = [o EXCEPT !.pc = q, !.patch = p, !.ses = s]
    OBVIOUS
  <2>7. op' = [op EXCEPT ![c].pc = q, ![c].patch = p, ![c].ses = s]
    BY <1>2, <2>3, <2>4, <2>5 DEF UpdateGet
  <2>8. op' = [op EXCEPT ![c] = r]
    BY <2>6, <2>7, OpTyped DEF Typed
  <2>9. q \in Pcs /\ s \in SessionValues /\ p \in Patches
    BY <2>3, <2>4, <2>5
  <2>10. /\ r \in Operations /\ r.pc = q /\ r.ses = s /\ r.again = o.again
         /\ r.tid = o.tid /\ r.next = o.next /\ Kept(r, o)
    BY <1>1, <2>6, <2>9 DEF Operations, Kept
  <2>11. r \in States
    BY <2>10 DEF States
  <2>12. QED
    BY <1>2, <2>3, <2>4, <2>8, <2>10, <2>11
<1>3. CASE ~Live(o.tok)
  <2>1. Merge(o.ses, o.patch) \in SessionValues
    BY <1>1, MergeIs
  <2>2. PICK s \in SessionValues : s = Merge(o.ses, o.patch)
    BY <2>1
  <2>3. PICK m : m = [o EXCEPT !.ses = s]
    OBVIOUS
  <2>4. /\ m \in Operations /\ Kept(m, o) /\ m.ses = s /\ m.tid = o.tid
        /\ m.again = o.again /\ m.next = o.next
    BY <1>1, <2>2, <2>3 DEF Operations, Kept
  <2>5. PICK r : r = Written(m)
    OBVIOUS
  <2>6. op' = [op EXCEPT ![c] = r]
    BY <1>3, <2>2, <2>3, <2>5 DEF UpdateGet
  <2>7. \/ r = Idle
        \/ /\ r \in Operations /\ Kept(r, o) /\ r.again = o.again /\ r.tid = o.tid
           /\ r.pc = o.next /\ o.next \in {"active", "resolved", "bulk"}
           /\ r.pc # "bulk" => r.ses = s
    BY <2>4, <2>5, WrittenIs DEF Kept
  <2>8. r \in States
    BY <2>7 DEF States
  <2>9. QED
    BY <1>3, <2>2, <2>6, <2>7, <2>8
<1>4. QED
  BY <1>2, <1>3

\* A write; the requests of other clients with the same token note it.
LEMMA UpdateSetDoes ==
  ASSUME Typed, NEW c \in Clients, UpdateSet(c), NEW o, o = op[c]
  PROVE  /\ op' \in [Clients -> States]
         /\ o \in Operations /\ o.tok \in used /\ o.ses \in SessionValues
         /\ session' = [session EXCEPT ![o.tok] = o.ses]
         /\ \/ op'[c] = Idle
            \/ /\ op'[c] \in Operations /\ Kept(op'[c], o)
               /\ op'[c].pc = o.next /\ o.next \in {"active", "resolved", "bulk"}
               /\ op'[c].pc # "bulk" => op'[c].ses = o.ses
               /\ op'[c].tid = o.tid /\ op'[c].again = o.again
         /\ \A d \in Clients : d # c =>
              \/ op'[d] = op[d] /\ ~(Requesting(op[d]) /\ op[d].tok = o.tok)
              \/ /\ Requesting(op[d]) /\ op[d].tok = o.tok
                 /\ op'[d] \in Operations /\ op'[d].pc = op[d].pc
                 /\ op'[d].kind = op[d].kind /\ op'[d].tok = op[d].tok
                 /\ op'[d].todo = op[d].todo
                 /\ op'[d].ses = op[d].ses /\ op'[d].tid = op[d].tid
                 /\ op'[d].patch = op[d].patch /\ op'[d].next = op[d].next
                 /\ op'[d].again = op[d].again /\ op'[d].seen = op[d].seen
                 /\ ~op'[d].crossed =>
                      /\ ~op[d].crossed
                      /\ \/ o.ses.tenant = None
                         \/ Live(o.tok) /\ session[o.tok].tenant = o.ses.tenant
<1>1. o \in Operations /\ o.tok \in used /\ o.ses \in SessionValues
  BY OpTyped DEF Typed, TokensAreUsed, UpdateSet, At, Busy, Operations
<1>2. PICK moved \in BOOLEAN :
        moved = (o.ses.tenant # None /\ (Live(o.tok) => session[o.tok].tenant # o.ses.tenant))
  <2>1. CASE o.ses.tenant # None /\ (Live(o.tok) => session[o.tok].tenant # o.ses.tenant)
    BY <2>1
  <2>2. CASE ~(o.ses.tenant # None /\ (Live(o.tok) => session[o.tok].tenant # o.ses.tenant))
    <3>1. FALSE = (o.ses.tenant # None
                   /\ (Live(o.tok) => session[o.tok].tenant # o.ses.tenant))
      BY <2>2
    <3>2. QED
      BY <3>1, Zenon
  <2>3. QED
    BY <2>1, <2>2
<1>3. /\ op' = [d \in Clients |->
                  IF d = c THEN Written(o)
                  ELSE IF Requesting(op[d]) /\ op[d].tok = o.tok
                  THEN [op[d] EXCEPT !.crossed = @ \/ moved]
                  ELSE op[d]]
      /\ session' = [session EXCEPT ![o.tok] = o.ses]
  BY <1>2 DEF UpdateSet
<1>4. \/ op'[c] = Idle
      \/ /\ op'[c] \in Operations /\ Kept(op'[c], o)
         /\ op'[c].pc = o.next /\ o.next \in {"active", "resolved", "bulk"}
         /\ op'[c].pc # "bulk" => op'[c].ses = o.ses
         /\ op'[c].tid = o.tid /\ op'[c].again = o.again
  <2>1. PICK r : r = Written(o)
    OBVIOUS
  <2>2. op'[c] = r
    BY <1>3, <2>1
  <2>3. QED
    BY <1>1, <2>1, <2>2, WrittenIs DEF Kept
<1>5. ASSUME NEW d \in Clients, d # c
      PROVE  \/ op'[d] = op[d] /\ ~(Requesting(op[d]) /\ op[d].tok = o.tok)
             \/ /\ Requesting(op[d]) /\ op[d].tok = o.tok
                /\ op'[d] \in Operations /\ op'[d].pc = op[d].pc
                /\ op'[d].kind = op[d].kind /\ op'[d].tok = op[d].tok
                /\ op'[d].todo = op[d].todo
                /\ op'[d].ses = op[d].ses /\ op'[d].tid = op[d].tid
                /\ op'[d].patch = op[d].patch /\ op'[d].next = op[d].next
                /\ op'[d].again = op[d].again /\ op'[d].seen = op[d].seen
                /\ ~op'[d].crossed => ~op[d].crossed /\ ~moved
  <2>1. CASE Requesting(op[d]) /\ op[d].tok = o.tok
    <3>1. op[d] \in Operations
      BY <2>1, OpTyped DEF Typed, Requesting, Busy
    <3>2. PICK s \in Operations : s = op[d]
      BY <3>1
    <3>3. s.crossed \in BOOLEAN
      BY DEF Operations
    <3>4. PICK x \in BOOLEAN : x = (s.crossed \/ moved)
      BY <1>2, <3>3
    <3>5. PICK r : r = [s EXCEPT !.crossed = x]
      OBVIOUS
    <3>6. op'[d] = r
      <4>1. op'[d] = [s EXCEPT !.crossed = (s.crossed \/ moved)]
        BY <1>3, <1>5, <2>1, <3>2
      <4>2. QED
        BY <3>4, <3>5, <4>1
    <3>7. /\ r \in Operations /\ r.pc = s.pc /\ r.kind = s.kind /\ r.tok = s.tok
          /\ r.todo = s.todo /\ r.ses = s.ses /\ r.tid = s.tid /\ r.patch = s.patch
          /\ r.next = s.next /\ r.again = s.again /\ r.seen = s.seen
          /\ r.crossed = x
      <4>1. x \in BOOLEAN /\ s \in Operations
        BY <3>2, <3>4
      <4>2. QED
        BY <3>5, <4>1 DEF Operations
    <3>8. ~x => ~s.crossed /\ ~moved
      BY <3>4
    <3>9. QED
      BY <2>1, <3>2, <3>6, <3>7, <3>8
  <2>2. CASE ~(Requesting(op[d]) /\ op[d].tok = o.tok)
    BY <1>3, <1>5, <2>2
  <2>3. QED
    BY <2>1, <2>2
<1>6. op' \in [Clients -> States]
  <2>1. \A d \in Clients : op'[d] \in States
    BY <1>4, <1>5, IdleIs, OpTyped DEF States, Typed
  <2>2. QED
    BY <1>3, <2>1
<1>7. QED
  BY <1>1, <1>2, <1>3, <1>4, <1>5, <1>6

LEMMA ResolveAgainDoes ==
  ASSUME Typed, NEW c \in Clients, ResolveAgain(c), NEW o, o = op[c]
  PROVE  /\ o \in Operations /\ o.pc = "resolved" /\ o.kind = "request"
         /\ \E r \in States :
              /\ op' = [op EXCEPT ![c] = r]
              /\ r \in Operations /\ Kept(r, o) /\ r.ses = o.ses
              /\ r.again => o.tid = o.ses.tenant
              /\ \/ o.ses.tenant # None /\ r.pc = "expiry" /\ r.tid = o.ses.tenant
                 \/ o.ses.tenant = None /\ r.pc = "resolved"
                 \/ /\ o.ses.tenant = None /\ r.pc = "get" /\ r.next = "resolved"
                    /\ r.patch = [flag |-> FALSE]
<1>1. o \in Operations /\ o.pc = "resolved" /\ o.kind = "request"
  BY OpTyped DEF Typed, ResolveAgain, At, Busy
<1>2. PICK b \in BOOLEAN : b = (o.tid = o.ses.tenant)
  <2>1. CASE o.tid = o.ses.tenant
    BY <2>1
  <2>2. CASE o.tid # o.ses.tenant
    <3>1. FALSE = (o.tid = o.ses.tenant)
      BY <2>2
    <3>2. QED
      BY <3>1, Zenon
  <2>3. QED
    BY <2>1, <2>2
<1>3. PICK m : m = [o EXCEPT !.again = b]
  OBVIOUS
<1>4. b \in BOOLEAN
  BY <1>2
<1>5. /\ m \in Operations /\ Kept(m, o) /\ m.ses = o.ses /\ m.again = b
  BY <1>1, <1>3, <1>4 DEF Operations, Kept
<1>6. PICK r : r = Ensure(m)
  OBVIOUS
<1>7. op' = [op EXCEPT ![c] = r]
  BY <1>2, <1>3, <1>6 DEF ResolveAgain
<1>8. /\ r \in Operations /\ Kept(r, o) /\ r.ses = o.ses /\ r.again = b
      /\ \/ o.ses.tenant # None /\ r.pc = "expiry" /\ r.tid = o.ses.tenant
         \/ o.ses.tenant = None /\ r.pc = "resolved"
         \/ /\ o.ses.tenant = None /\ r.pc = "get" /\ r.next = "resolved"
            /\ r.patch = [flag |-> FALSE]
  BY <1>5, <1>6, EnsureIs DEF Kept
<1>9. r.again => o.tid = o.ses.tenant
  BY <1>2, <1>8
<1>10. r \in States
  BY <1>8 DEF States
<1>11. QED
  BY <1>1, <1>7, <1>8, <1>9, <1>10

\* What follows the resolve of the other operations, and the walk over the
\* tokens of the index, take no request back to a check of its session.
Aside(r) ==
  \/ r.kind # "request"
  \/ r.pc = "bulk"
  \/ r.pc = "get" /\ r.next = "bulk"

\* An operation whose tokens were handed out.
Owns(r) == r.todo \subseteq used /\ (r.pc \notin {"list", "bulk"} => r.tok \in used)

LEMMA WritesAside ==
  ASSUME Typed, NEW c \in Clients, At(c, "resolved"), op[c].kind # "request",
         NEW p \in Patches, NEW n \in {"updated", "done"}, NEW r, r = Writing(op[c], p, n)
  PROVE  r \in Operations /\ r.kind = op[c].kind /\ r.seen = op[c].seen /\ Owns(r)
         /\ r.pc = "get"
<1>1. op[c] \in Operations /\ op[c].todo \subseteq used /\ op[c].tok \in used
  BY OpTyped DEF Typed, TokensAreUsed, At, Busy
<1>2. n \in Nexts
  BY DEF Nexts
<1>3. QED
  BY <1>1, <1>2, WritingIs DEF Owns

LEMMA AsideDoes ==
  ASSUME Typed, NEW c \in Clients, NEW o, o = op[c],
         \/ Serve(c) \/ Reload(c) \/ Switch(c) \/ PatchProfile(c) \/ RevokeOthers(c)
         \/ ListTokens(c) \/ BulkEnds(c)
  PROVE  \E r \in States :
           /\ op' = [op EXCEPT ![c] = r]
           /\ \/ r = Idle
              \/ /\ r \in Operations /\ r.kind = o.kind /\ r.seen = o.seen
                 /\ r.pc \in {"get", "list", "bulk"}
                 /\ Owns(r) /\ Aside(r)
<1>1. o \in Operations
  BY OpTyped DEF Typed, Serve, Reload, Switch, PatchProfile, RevokeOthers, ListTokens,
                 BulkEnds, At, Busy
<1>2. CASE End(c)
  BY <1>2, IdleIs DEF End
<1>3. CASE \E p \in Patches, n \in {"updated", "done"} :
             /\ At(c, "resolved") /\ op[c].kind # "request"
             /\ op' = [op EXCEPT ![c] = Writing(op[c], p, n)]
  <2>1. PICK p \in Patches, n \in {"updated", "done"} :
             /\ At(c, "resolved") /\ op[c].kind # "request"
             /\ op' = [op EXCEPT ![c] = Writing(op[c], p, n)]
    BY <1>3
  <2>2. PICK r : r = Writing(op[c], p, n)
    OBVIOUS
  <2>3. r \in Operations /\ r.kind = o.kind /\ r.seen = o.seen /\ Owns(r) /\ r.pc = "get"
    BY <2>1, <2>2, WritesAside
  <2>4. r \in States /\ Aside(r)
    BY <2>1, <2>3 DEF States, Aside
  <2>5. QED
    BY <2>1, <2>2, <2>3, <2>4
<1>4. CASE Serve(c)
  BY <1>2, <1>4 DEF Serve
<1>5. CASE Reload(c)
  <2>1. PICK t : t = op[c].ses.tenant
    OBVIOUS
  <2>2. t \in Tenants \cup {None}
    BY <1>1, <2>1 DEF Operations, SessionValues
  <2>3. PICK b \in BOOLEAN : b = (t \in lapsed)
    BY MembershipIsBoolean, Zenon
  <2>4. Session(t, b) \in Patches /\ Degraded \in Patches
    BY <2>2, <2>3, SessionIsValue, DegradedIs, Zenon
  <2>5. \/ End(c)
        \/ op' = [op EXCEPT ![c] = Writing(op[c], Session(t, b), "updated")]
        \/ op' = [op EXCEPT ![c] = Writing(op[c], Degraded, "updated")]
    BY <1>5, <2>1, <2>3 DEF Reload
  <2>6. At(c, "resolved") /\ op[c].kind # "request"
    BY <1>5 DEF Reload
  <2>7. QED
    BY <1>2, <1>3, <2>4, <2>5, <2>6
<1>6. CASE Switch(c)
  <2>1. CASE End(c)
    BY <1>2, <2>1
  <2>2. CASE ~End(c)
    <3>1. PICK t \in op[c].arg \cap member :
            op' = [op EXCEPT ![c] = Writing(op[c], Session(t, t \in lapsed), "updated")]
      BY <1>6, <2>2 DEF Switch
    <3>2. t \in Tenants \cup {None}
      BY <3>1 DEF Typed, TypeOK
    <3>3. PICK b \in BOOLEAN : b = (t \in lapsed)
      BY MembershipIsBoolean, Zenon
    <3>4. Session(t, b) \in Patches
      BY <3>2, <3>3, SessionIsValue, Zenon
    <3>5. At(c, "resolved") /\ op[c].kind # "request"
      BY <1>6 DEF Switch
    <3>6. QED
      BY <1>3, <3>1, <3>3, <3>4, <3>5
  <2>3. QED
    BY <2>1, <2>2
<1>7. CASE PatchProfile(c)
  <2>1. <<>> \in Patches
    BY DEF Patches
  <2>2. QED
    BY <1>3, <1>7, <2>1 DEF PatchProfile
<1>8. CASE RevokeOthers(c)
  <2>1. PICK q \in Pcs : q = "list"
    BY DEF Pcs
  <2>2. PICK r : r = [o EXCEPT !.pc = q]
    OBVIOUS
  <2>3. op' = [op EXCEPT ![c] = r]
    BY <1>8, <2>1, <2>2, OpTyped DEF RevokeOthers, Typed
  <2>4. r \in Operations /\ r.pc = q /\ Kept(r, o)
    BY <1>1, <2>1, <2>2, PcStep
  <2>5. o.todo \subseteq used /\ o.kind # "request"
    BY <1>8 DEF Typed, TokensAreUsed, RevokeOthers, At, Busy
  <2>6. Owns(r) /\ Aside(r) /\ r \in States
    BY <2>1, <2>4, <2>5 DEF Owns, Aside, Kept, States
  <2>7. QED
    BY <2>1, <2>3, <2>4, <2>6 DEF Kept
<1>9. CASE ListTokens(c)
  <2>1. PICK q \in Pcs : q = "bulk"
    BY DEF Pcs
  <2>2. PICK S \in SUBSET Tokens : S = index \ {o.tok}
    BY DEF Typed, TypeOK
  <2>3. PICK r : r = [o EXCEPT !.pc = q, !.todo = S]
    OBVIOUS
  <2>4. op' = [op EXCEPT ![c].pc = q, ![c].todo = S]
    BY <1>9, <2>1, <2>2 DEF ListTokens
  <2>5. op' = [op EXCEPT ![c] = r]
    BY <2>3, <2>4, OpTyped DEF Typed
  <2>6. q \in Pcs /\ S \in SUBSET Tokens
    BY <2>1, <2>2
  <2>7. r \in Operations /\ r.pc = q /\ r.todo = S /\ r.kind = o.kind /\ r.seen = o.seen
    BY <1>1, <2>3, <2>6 DEF Operations
  <2>8. S \subseteq used
    BY <2>2 DEF Typed, TypeOK
  <2>9. Owns(r) /\ Aside(r) /\ r \in States
    BY <2>1, <2>7, <2>8 DEF Owns, Aside, States
  <2>10. QED
    BY <2>1, <2>5, <2>7, <2>9
<1>10. CASE BulkEnds(c)
  BY <1>2, <1>10 DEF BulkEnds
<1>11. QED
  BY <1>4, <1>5, <1>6, <1>7, <1>8, <1>9, <1>10

LEMMA VisitDoes ==
  ASSUME Typed, NEW c \in Clients, NEW k \in Tokens, Visit(c, k), NEW o, o = op[c]
  PROVE  \E r \in States :
           /\ op' = [op EXCEPT ![c] = r]
           /\ r \in Operations /\ r.kind = o.kind /\ r.seen = o.seen
           /\ r.pc \in {"get", "bulk"}
           /\ Owns(r) /\ Aside(r)
           /\ Delete(k) \/ UNCHANGED redis
<1>1. o \in Operations /\ o.pc = "bulk" /\ o.todo \subseteq used /\ k \in o.todo
  BY OpTyped DEF Typed, TokensAreUsed, Visit, At, Busy
<1>2. PICK S \in SUBSET Tokens : S = o.todo \ {k}
  BY <1>1 DEF Operations
<1>3. PICK m : m = [o EXCEPT !.todo = S]
  OBVIOUS
<1>4. S \in SUBSET Tokens /\ S \subseteq used
  BY <1>1, <1>2
<1>5. /\ m \in Operations /\ m.pc = "bulk" /\ m.todo = S /\ m.kind = o.kind /\ m.seen = o.seen
      /\ m.arg = o.arg
  BY <1>1, <1>3, <1>4 DEF Operations
<1>6. PICK h \in BOOLEAN : h <=> Live(k) /\ session[k].tenant \in m.arg
  OBVIOUS
<1>7. CASE op' = [op EXCEPT ![c] = m] /\ (Delete(k) \/ UNCHANGED redis)
  <2>1. Owns(m) /\ Aside(m) /\ m \in States
    BY <1>4, <1>5 DEF Owns, Aside, States
  <2>2. QED
    BY <1>5, <1>7, <2>1
<1>8. CASE \E p \in Patches :
             /\ op' = [op EXCEPT ![c] = Writing([m EXCEPT !.tok = k], p, "bulk")]
             /\ UNCHANGED redis
  <2>1. PICK p \in Patches :
             /\ op' = [op EXCEPT ![c] = Writing([m EXCEPT !.tok = k], p, "bulk")]
             /\ UNCHANGED redis
    BY <1>8
  <2>2. PICK n : n = [m EXCEPT !.tok = k]
    OBVIOUS
  <2>3. /\ n \in Operations /\ n.tok = k /\ n.todo = S /\ n.kind = o.kind /\ n.seen = o.seen
    BY <1>5, <2>2 DEF Operations
  <2>4. PICK r : r = Writing(n, p, "bulk")
    OBVIOUS
  <2>5. "bulk" \in Nexts
    BY DEF Nexts
  <2>6. /\ r \in Operations /\ r.pc = "get" /\ r.next = "bulk" /\ r.tok = k /\ r.todo = S
        /\ r.kind = o.kind /\ r.seen = o.seen
    BY <2>3, <2>4, <2>5, WritingIs
  <2>7. Owns(r) /\ Aside(r) /\ r \in States
    BY <1>1, <1>4, <2>6 DEF Owns, Aside, States
  <2>8. op' = [op EXCEPT ![c] = r] /\ UNCHANGED redis
    BY <2>1, <2>2, <2>4
  <2>9. QED
    BY <2>6, <2>7, <2>8
<1>9. \/ op' = [op EXCEPT ![c] = m] /\ (Delete(k) \/ UNCHANGED redis)
      \/ /\ op' = [op EXCEPT ![c] = Writing([m EXCEPT !.tok = k], Degraded, "bulk")]
         /\ UNCHANGED redis
      \/ /\ op' = [op EXCEPT ![c] = Writing([m EXCEPT !.tok = k], [flag |-> TRUE], "bulk")]
         /\ UNCHANGED redis
  <2>1. m = [op[c] EXCEPT !.todo = @ \ {k}]
    BY <1>2, <1>3
  <2>2. QED
    BY <2>1 DEF Visit
<1>10. Degraded \in Patches /\ [flag |-> TRUE] \in Patches
  BY DegradedIs, FlagIsPatch
<1>11. QED
  BY <1>7, <1>8, <1>9, <1>10

------------------------------------------------------------------------------
(* Type correctness.                                                          *)
DbTyped ==
  /\ member \subseteq Tenants /\ lapsed \subseteq Tenants
  /\ account \in BOOLEAN /\ changes \in 0..MaxChanges
RedisTyped ==
  /\ session \in [Tokens -> SessionValues \cup {None}]
  /\ index \subseteq used /\ renewed \subseteq used /\ used \subseteq Tokens
HistoryTyped ==
  /\ chosen \in [Tokens -> Tenants \cup {None}]
  /\ outlived \subseteq used /\ revived \subseteq used

LEMMA TypeParts ==
  TypeOK <=> DbTyped /\ RedisTyped /\ HistoryTyped /\ op \in [Clients -> States]
  BY DEF TypeOK, DbTyped, RedisTyped, HistoryTyped, States

\* A step of one client keeps the types of the operations.
LEMMA OpStep ==
  ASSUME Typed, NEW c \in Clients, NEW r \in States, op' = [op EXCEPT ![c] = r],
         used \subseteq used', r.pc \in {"idle", "create"} \/ Owns(r)
  PROVE  op' \in [Clients -> States] /\ TokensAreUsed'
<1>1. op' \in [Clients -> States] /\ op'[c] = r /\ \A d \in Clients : d # c => op'[d] = op[d]
  BY Turn DEF Typed
<1>2. QED
  BY <1>1 DEF Typed, TokensAreUsed, Busy, Owns

\* A step that changes the operations in other ways keeps the tokens they own.
LEMMA OpsStep ==
  ASSUME Typed, op' \in [Clients -> States], used' = used,
         \A d \in Clients :
           \/ op'[d] = op[d]
           \/ op'[d].pc \in {"idle", "create"}
           \/ op'[d].todo \subseteq used
              /\ (op'[d].pc \notin {"list", "bulk"} => op'[d].tok \in used)
  PROVE  TokensAreUsed'
  BY DEF Typed, TokensAreUsed, Busy

LEMMA DeleteTyped ==
  ASSUME Typed, NEW k \in Tokens, Delete(k), used' = used
  PROVE  RedisTyped'
  BY DEF Typed, TypeOK, Delete, RedisTyped

\* The steps of a client that stay within the operation it performs.
LEMMA CheckStep ==
  ASSUME Typed, NEW c \in Clients,
         \/ Resolve(c) \/ CheckAccount(c) \/ CheckExpiry(c) \/ CheckActive(c)
         \/ UpdateGet(c) \/ ResolveAgain(c)
  PROVE  op' \in [Clients -> States] /\ TokensAreUsed' /\ RedisTyped'
<1>1. PICK o : o = op[c]
  OBVIOUS
<1>2. o \in Operations /\ o.todo \subseteq used /\ o.tok \in used /\ o.tok \in Tokens
  BY <1>1, OpTyped DEF Typed, TypeOK, TokensAreUsed, Resolve, CheckAccount, CheckExpiry,
                       CheckActive, UpdateGet, ResolveAgain, At, Busy
<1>3. ASSUME NEW r \in States, op' = [op EXCEPT ![c] = r], used' = used,
             r = Idle \/ Kept(r, o)
      PROVE  op' \in [Clients -> States] /\ TokensAreUsed'
  <2>1. r.pc \in {"idle", "create"} \/ Owns(r)
    BY <1>2, <1>3, IdleIs DEF Kept, Owns
  <2>2. QED
    BY <1>3, <2>1, OpStep
<1>4. RedisTyped /\ (UNCHANGED <<redis, used>> => RedisTyped')
  BY DEF Typed, TypeOK, RedisTyped, redis
<1>5. CASE Resolve(c)
  BY <1>1, <1>3, <1>4, <1>5, ResolveDoes DEF Resolve
<1>6. CASE CheckAccount(c)
  <2>1. used' = used
    BY <1>6 DEF CheckAccount
  <2>2. QED
    BY <1>1, <1>2, <1>3, <1>4, <1>6, <2>1, CheckAccountDoes, DeleteTyped
<1>7. CASE CheckExpiry(c)
  BY <1>1, <1>3, <1>4, <1>7, CheckExpiryDoes DEF CheckExpiry
<1>8. CASE CheckActive(c)
  BY <1>1, <1>3, <1>4, <1>8, CheckActiveDoes DEF CheckActive
<1>9. CASE UpdateGet(c)
  BY <1>1, <1>3, <1>4, <1>9, UpdateGetDoes DEF UpdateGet
<1>10. CASE ResolveAgain(c)
  <2>1. UNCHANGED <<redis, used>>
    BY <1>10 DEF ResolveAgain
  <2>2. used' = used
    BY <2>1
  <2>3. QED
    BY <1>1, <1>3, <1>4, <1>10, <2>1, <2>2, ResolveAgainDoes
<1>11. QED
  BY <1>5, <1>6, <1>7, <1>8, <1>9, <1>10

\* The database changes in the midst of the operations.
LEMMA NotedTyped ==
  ASSUME Typed, used' = used, NEW D \in SUBSET Clients,
         op' \in [Clients -> States],
         \A d \in D : op'[d] = Noting(op[d]),
         \A d \in Clients \ D : op'[d].todo = {} /\ op'[d].pc = "list"
  PROVE  TokensAreUsed'
<1>1. ASSUME NEW d \in Clients
      PROVE  \/ op'[d] = op[d]
             \/ op'[d].pc \in {"idle", "create"}
             \/ op'[d].todo \subseteq used
                /\ (op'[d].pc \notin {"list", "bulk"} => op'[d].tok \in used)
  <2>1. CASE d \in D /\ op[d] \in Operations
    <3>1. op'[d] = Noting(op[d]) /\ op[d] \in States
      BY <2>1 DEF States
    <3>2. op'[d].pc = op[d].pc /\ op'[d].todo = op[d].todo /\ op'[d].tok = op[d].tok
      BY <2>1, <3>1, NotingIs, Zenon
    <3>3. Busy(d)
      BY <2>1 DEF Operations, Pcs, Busy
    <3>4. QED
      BY <3>2, <3>3 DEF Typed, TokensAreUsed
  <2>2. CASE d \in D /\ op[d] \notin Operations
    <3>1. op'[d] = Noting(op[d]) /\ op[d] \in States /\ op[d].pc \in {"idle", "create"}
      BY <1>1, <2>2, OpTyped DEF Typed, Busy
    <3>2. op'[d].pc = op[d].pc
      BY <3>1, NotingIs, Zenon
    <3>3. QED
      BY <3>1, <3>2
  <2>3. CASE d \notin D
    BY <1>1, <2>3
  <2>4. QED
    BY <2>1, <2>2, <2>3
<1>2. QED
  BY <1>1, OpsStep

LEMMA TypedStep == Typed /\ [Next]_vars => Typed'
<1> SUFFICES ASSUME Typed, [Next]_vars PROVE Typed'
  OBVIOUS
<1>1. DbTyped /\ RedisTyped /\ HistoryTyped /\ op \in [Clients -> States]
  BY TypeParts DEF Typed
<1>2. ASSUME DbTyped', RedisTyped', HistoryTyped', op' \in [Clients -> States], TokensAreUsed'
      PROVE  Typed'
  <2>1. TypeOK'
    BY <1>2 DEF TypeOK, DbTyped, RedisTyped, HistoryTyped, States
  <2>2. QED
    BY <1>2, <2>1 DEF Typed
<1>3. ASSUME UNCHANGED db PROVE DbTyped'
  BY <1>1, <1>3 DEF db, DbTyped
<1>4. ASSUME UNCHANGED redis, UNCHANGED used PROVE RedisTyped'
  BY <1>1, <1>4 DEF redis, RedisTyped
<1>5. ASSUME UNCHANGED history, UNCHANGED used PROVE HistoryTyped'
  BY <1>1, <1>5 DEF history, HistoryTyped
<1>6. ASSUME UNCHANGED op, UNCHANGED used
      PROVE  op' \in [Clients -> States] /\ TokensAreUsed'
  BY <1>1, <1>6 DEF Typed, TokensAreUsed, Busy
<1>7. ASSUME NEW c \in Clients, NEW t \in Tenants \cup {None}, Login(c, t)
      PROVE  Typed'
  <2>1. PICK b \in BOOLEAN : b = (t \in lapsed)
    BY MembershipIsBoolean, Zenon
  <2>2. PICK s \in SessionValues : s = Session(t, b)
    BY <2>1, SessionIsValue
  <2>3. PICK r : r = [pc |-> "create", ses |-> s]
    OBVIOUS
  <2>4. op' = [op EXCEPT ![c] = r]
    BY <1>7, <2>1, <2>2, <2>3 DEF Login
  <2>5. r \in States /\ r.pc = "create"
    BY <2>2, <2>3 DEF States
  <2>6. UNCHANGED <<db, redis, used, history>>
    BY <1>7 DEF Login
  <2>7. op' \in [Clients -> States] /\ TokensAreUsed'
    BY <2>4, <2>5, <2>6, OpStep
  <2>8. QED
    BY <1>2, <1>3, <1>4, <1>5, <2>6, <2>7
<1>8. ASSUME NEW c \in Clients, NEW kind \in Kinds, NEW k \in Tokens,
             NEW arg \in SUBSET Tenants, Begin(c, kind, k, arg)
      PROVE  Typed'
  <2>1. PICK r : r = Started(kind, k, arg, "resolve")
    OBVIOUS
  <2>2. op' = [op EXCEPT ![c] = r] /\ k \in used /\ UNCHANGED <<db, redis, used, history>>
    BY <1>8, <2>1 DEF Begin
  <2>3. "resolve" \in Pcs
    BY DEF Pcs
  <2>4. r \in Operations /\ r.tok = k /\ r.todo = {}
    BY <2>1, <2>3, StartedIs
  <2>5. r \in States /\ Owns(r)
    BY <2>2, <2>4 DEF States, Owns
  <2>6. op' \in [Clients -> States] /\ TokensAreUsed'
    BY <2>2, <2>5, OpStep
  <2>7. QED
    BY <1>2, <1>3, <1>4, <1>5, <2>2, <2>6
<1>9. ASSUME NEW c \in Clients, NEW t \in Tenants, Offboard(c, t)
      PROVE  Typed'
  <2>1. PICK r : r = Started("offboard", None, {t}, "list")
    OBVIOUS
  <2>2. "offboard" \in Kinds /\ "list" \in Pcs
    BY <1>9 DEF Offboard, Pcs
  <2>3. r \in Operations /\ r.pc = "list" /\ r.todo = {}
    BY <2>1, <2>2, StartedIs
  <2>4. op' = [d \in Clients |-> IF d = c THEN r ELSE Noting(op[d])]
    BY <1>9, <2>1 DEF Offboard
  <2>5. ASSUME NEW d \in Clients, d # c
        PROVE  op'[d] = Noting(op[d]) /\ op'[d] \in States
    <3>1. PICK n : n = Noting(op[d])
      OBVIOUS
    <3>2. op'[d] = n
      BY <2>4, <2>5, <3>1
    <3>3. n \in States
      BY <1>1, <3>1, NotingIs
    <3>4. QED
      BY <3>1, <3>2, <3>3
  <2>6. op'[c] = r /\ r \in States
    BY <2>3, <2>4 DEF States
  <2>7. op' \in [Clients -> States]
    BY <2>4, <2>5, <2>6
  <2>8. UNCHANGED <<lapsed, account, redis, used, history>>
        /\ member' \subseteq member /\ changes < MaxChanges /\ changes' = changes + 1
    BY <1>9 DEF Offboard
  <2>9. TokensAreUsed'
    <3>1. PICK D \in SUBSET Clients : D = Clients \ {c}
      OBVIOUS
    <3>2. \A d \in D : op'[d] = Noting(op[d])
      BY <2>5, <3>1
    <3>3. \A d \in Clients \ D : op'[d].todo = {} /\ op'[d].pc = "list"
      BY <2>3, <2>6, <3>1
    <3>4. QED
      BY <2>7, <2>8, <3>1, <3>2, <3>3, NotedTyped
  <2>10. DbTyped'
    BY <1>1, <2>8, MaxChangesIsNat DEF DbTyped
  <2>11. QED
    BY <1>2, <1>4, <1>5, <2>7, <2>8, <2>9, <2>10
<1>10. ASSUME NEW c \in Clients, ExpiryJob(c)
       PROVE  Typed'
  <2>1. PICK arg \in SUBSET Tenants : arg = lapsed
    BY <1>1 DEF DbTyped
  <2>2. PICK r : r = Started("expiryJob", None, arg, "list")
    OBVIOUS
  <2>3. op' = [op EXCEPT ![c] = r] /\ UNCHANGED <<db, redis, used, history>>
    BY <1>10, <2>1, <2>2 DEF ExpiryJob
  <2>4. "expiryJob" \in Kinds /\ "list" \in Pcs
    BY <1>10 DEF ExpiryJob, Pcs
  <2>5. r \in Operations /\ r.pc = "list" /\ r.todo = {}
    BY <2>1, <2>2, <2>4, StartedIs
  <2>6. r \in States /\ Owns(r)
    BY <2>5 DEF States, Owns
  <2>7. op' \in [Clients -> States] /\ TokensAreUsed'
    BY <2>3, <2>6, OpStep
  <2>8. QED
    BY <1>2, <1>3, <1>4, <1>5, <2>3, <2>7
<1>11. ASSUME NEW c \in Clients, NEW k \in Tokens, Create(c, k)
       PROVE  Typed'
  <2>1. /\ session' = [session EXCEPT ![k] = op[c].ses] /\ index' = index \cup {k}
        /\ renewed' = {} /\ used' = used \cup {k}
        /\ chosen' = [chosen EXCEPT ![k] = op[c].ses.tenant]
        /\ op' = [op EXCEPT ![c] = Idle] /\ UNCHANGED <<db, outlived, revived>>
        /\ op[c].pc = "create"
    BY <1>11 DEF Create, End, At
  <2>2. op[c].ses \in SessionValues /\ op[c].ses.tenant \in Tenants \cup {None}
    <3>1. op[c] # Idle /\ ~Busy(c)
      BY <2>1 DEF Idle, Busy
    <3>2. op[c].ses \in SessionValues
      BY <3>1, OpTyped DEF Typed
    <3>3. QED
      BY <3>2 DEF SessionValues
  <2>3. RedisTyped' /\ HistoryTyped'
    BY <1>1, <2>1, <2>2 DEF RedisTyped, HistoryTyped
  <2>4. op' \in [Clients -> States] /\ TokensAreUsed'
    BY <2>1, IdleIs, OpStep
  <2>5. QED
    BY <1>2, <1>3, <2>1, <2>3, <2>4
<1>12. ASSUME NEW c \in Clients, NEW k \in Tokens, Visit(c, k)
       PROVE  Typed'
  <2>1. UNCHANGED <<db, used, history>>
    BY <1>12 DEF Visit
  <2>2. PICK r \in States : /\ op' = [op EXCEPT ![c] = r]
                            /\ Owns(r) /\ (Delete(k) \/ UNCHANGED redis)
    BY <1>12, VisitDoes
  <2>3. op' \in [Clients -> States] /\ TokensAreUsed'
    BY <2>1, <2>2, OpStep
  <2>4. RedisTyped'
    BY <1>4, <2>1, <2>2, DeleteTyped
  <2>5. QED
    BY <1>2, <1>3, <1>5, <2>1, <2>3, <2>4
<1>13. ASSUME NEW c \in Clients,
              \/ Resolve(c) \/ CheckAccount(c) \/ CheckExpiry(c) \/ CheckActive(c)
              \/ UpdateGet(c) \/ ResolveAgain(c)
       PROVE  Typed'
  <2>1. UNCHANGED <<db, used, history>>
    BY <1>13 DEF Resolve, CheckAccount, CheckExpiry, CheckActive, UpdateGet, ResolveAgain
  <2>2. op' \in [Clients -> States] /\ TokensAreUsed' /\ RedisTyped'
    BY <1>13, CheckStep
  <2>3. QED
    BY <1>2, <1>3, <1>5, <2>1, <2>2
<1>14. ASSUME NEW c \in Clients, UpdateSet(c)
       PROVE  Typed'
  <2>1. PICK o : o = op[c]
    OBVIOUS
  <2>2. /\ op' \in [Clients -> States]
        /\ o \in Operations /\ o.tok \in used /\ o.ses \in SessionValues
        /\ session' = [session EXCEPT ![o.tok] = o.ses]
        /\ op'[c] = Idle \/ (op'[c] \in Operations /\ Kept(op'[c], o))
        /\ \A d \in Clients : d # c =>
             \/ op'[d] = op[d]
             \/ /\ Requesting(op[d]) /\ op'[d].pc = op[d].pc /\ op'[d].tok = op[d].tok
                /\ op'[d].todo = op[d].todo
    BY <1>14, <2>1, UpdateSetDoes
  <2>3. /\ renewed' = renewed \cup {o.tok} /\ UNCHANGED <<db, index, used, outlived>>
        /\ \/ chosen' = chosen
           \/ chosen' = [chosen EXCEPT ![o.tok] = o.ses.tenant]
        /\ revived' = revived \/ revived' = revived \cup {o.tok}
    BY <1>14, <2>1 DEF UpdateSet
  <2>4. o.ses.tenant \in Tenants \cup {None}
    BY <2>2 DEF SessionValues
  <2>5. RedisTyped' /\ HistoryTyped'
    BY <1>1, <2>2, <2>3, <2>4 DEF RedisTyped, HistoryTyped
  <2>6. Busy(c) /\ o.todo \subseteq used
    BY <1>14, <2>1 DEF UpdateSet, At, Busy, Typed, TokensAreUsed
  <2>7. ASSUME NEW d \in Clients
        PROVE  \/ op'[d] = op[d]
               \/ op'[d].pc \in {"idle", "create"}
               \/ op'[d].todo \subseteq used
                  /\ (op'[d].pc \notin {"list", "bulk"} => op'[d].tok \in used)
    <3>1. CASE d = c
      BY <2>2, <2>6, <3>1, IdleIs DEF Kept
    <3>2. CASE d # c
      <4>1. CASE op'[d] = op[d]
        BY <4>1
      <4>2. CASE op'[d] # op[d]
        <5>1. /\ Requesting(op[d]) /\ op'[d].pc = op[d].pc /\ op'[d].tok = op[d].tok
              /\ op'[d].todo = op[d].todo
          BY <2>2, <3>2, <4>2
        <5>2. QED
          BY <5>1 DEF Requesting, Typed, TokensAreUsed, Busy
      <4>3. QED
        BY <4>1, <4>2
    <3>3. QED
      BY <3>1, <3>2
  <2>8. TokensAreUsed'
    BY <2>2, <2>3, <2>7, OpsStep
  <2>9. QED
    BY <1>2, <1>3, <2>2, <2>3, <2>5, <2>8
<1>15. ASSUME NEW c \in Clients,
              \/ Serve(c) \/ Reload(c) \/ Switch(c) \/ PatchProfile(c) \/ RevokeOthers(c)
              \/ ListTokens(c) \/ BulkEnds(c)
       PROVE  Typed'
  <2>1. UNCHANGED <<db, redis, used, history>>
    BY <1>15 DEF Serve, Reload, Switch, PatchProfile, RevokeOthers, ListTokens, BulkEnds
  <2>2. PICK r \in States : op' = [op EXCEPT ![c] = r] /\ (r = Idle \/ Owns(r))
    BY <1>15, AsideDoes
  <2>3. op' \in [Clients -> States] /\ TokensAreUsed'
    BY <2>1, <2>2, IdleIs, OpStep
  <2>4. QED
    BY <1>2, <1>3, <1>4, <1>5, <2>1, <2>3
<1>16. ASSUME NEW k \in Tokens, Logout(k)
       PROVE  Typed'
  <2>1. Delete(k) /\ UNCHANGED <<db, used, op, history>>
    BY <1>16 DEF Logout
  <2>2. QED
    BY <1>2, <1>3, <1>5, <1>6, <2>1, DeleteTyped
<1>17. ASSUME NEW k \in Tokens, SessionExpires(k)
       PROVE  Typed'
  <2>1. session' = [session EXCEPT ![k] = None]
        /\ UNCHANGED <<db, index, renewed, used, op, history>>
    BY <1>17 DEF SessionExpires
  <2>2. RedisTyped'
    BY <1>1, <2>1 DEF RedisTyped
  <2>3. QED
    BY <1>2, <1>3, <1>5, <1>6, <2>1, <2>2
<1>18. ASSUME DatabaseChanges PROVE Typed'
  <2>1. op' = [d \in Clients |-> Noting(op[d])] /\ UNCHANGED <<redis, used, history>>
    BY <1>18 DEF DatabaseChanges
  <2>2. DbTyped'
    <3>1. changes' \in 0..MaxChanges
      BY <1>1, <1>18, MaxChangesIsNat DEF DatabaseChanges, DbTyped
    <3>2. member' \subseteq Tenants /\ lapsed' \subseteq Tenants
      BY <1>1, <1>18 DEF DatabaseChanges, DbTyped
    <3>3. account' = account \/ account' = ~account
      BY <1>18 DEF DatabaseChanges
    <3>4. account' \in BOOLEAN
      BY <1>1, <3>3 DEF DbTyped
    <3>5. QED
      BY <3>1, <3>2, <3>4 DEF DbTyped
  <2>3. op' \in [Clients -> States]
    <3>1. ASSUME NEW d \in Clients PROVE Noting(op[d]) \in States
      <4>1. PICK n : n = Noting(op[d])
        OBVIOUS
      <4>2. n \in States
        BY <1>1, <4>1, NotingIs
      <4>3. QED
        BY <4>1, <4>2
    <3>2. QED
      BY <2>1, <3>1
  <2>4. TokensAreUsed'
    BY <2>1, <2>3, NotedTyped
  <2>5. QED
    BY <1>2, <1>4, <1>5, <2>1, <2>2, <2>3, <2>4
<1>19. ASSUME IndexExpires PROVE Typed'
  <2>1. /\ index' = {} /\ outlived' = outlived \cup {k \in Tokens : Live(k)}
        /\ UNCHANGED <<db, session, renewed, used, op, chosen, revived>>
        /\ \A k \in Tokens : Live(k) => k \in renewed
    BY <1>19 DEF IndexExpires
  <2>2. RedisTyped' /\ HistoryTyped'
    BY <1>1, <2>1 DEF RedisTyped, HistoryTyped
  <2>3. QED
    BY <1>2, <1>3, <1>6, <2>1, <2>2
<1>20. ASSUME UNCHANGED vars PROVE Typed'
  BY <1>2, <1>3, <1>4, <1>5, <1>6, <1>20 DEF vars
<1>21. ASSUME Next PROVE Typed'
  <2>1. CASE \E c \in Clients, kind \in Kinds, k \in Tokens : Begin(c, kind, k, {})
    <3>1. PICK c \in Clients, kind \in Kinds, k \in Tokens : Begin(c, kind, k, {})
      BY <2>1
    <3>2. PICK arg \in SUBSET Tenants : arg = {}
      OBVIOUS
    <3>3. QED
      BY <1>8, <3>1, <3>2
  <2>2. CASE \E c \in Clients, k \in Tokens, t \in Tenants : Begin(c, "switch", k, {t})
    <3>1. PICK c \in Clients, k \in Tokens, t \in Tenants : Begin(c, "switch", k, {t})
      BY <2>2
    <3>2. PICK arg \in SUBSET Tenants : arg = {t}
      OBVIOUS
    <3>3. "switch" \in Kinds
      BY <3>1 DEF Begin
    <3>4. QED
      BY <1>8, <3>1, <3>2, <3>3
  <2>3. CASE \E c \in Clients : ExpiryJob(c) \/ ClientStep(c)
    BY <1>10, <1>11, <1>12, <1>13, <1>14, <1>15, <2>3 DEF ClientStep
  <2>4. QED
    BY <1>7, <1>9, <1>16, <1>17, <1>18, <1>19, <1>21, <2>1, <2>2, <2>3 DEF Next
<1>22. QED
  BY <1>20, <1>21

LEMMA InitTyped == Init => Typed
<1> SUFFICES ASSUME Init PROVE Typed
  OBVIOUS
<1>1. op = [c \in Clients |-> Idle] /\ Idle \in States /\ Idle.pc = "idle"
  BY IdleIs DEF Init
<1>2. TokensAreUsed
  BY <1>1 DEF TokensAreUsed, Busy
<1>3. op \in [Clients -> States]
  BY <1>1
<1>4. DbTyped /\ RedisTyped /\ HistoryTyped
  BY MaxChangesIsNat DEF Init, DbTyped, RedisTyped, HistoryTyped
<1>5. QED
  BY <1>2, <1>3, <1>4, TypeParts DEF Typed

\* Every variable has its type, and an operation works on tokens handed out.
THEOREM TypeCorrect == Spec => []TypeOK
<1>1. Typed => TypeOK
  BY DEF Typed
<1>2. QED
  BY <1>1, InitTyped, TypedStep, PTL DEF Spec

------------------------------------------------------------------------------
(* What a request is served with was true of its tenant while it was served.  *)
(* Good says of an operation o, with the sessions S and the facts F now true,  *)
(* what has been established when it stands where it stands: the session it    *)
(* holds is that of its token or one degraded since (Follows), the tenant it   *)
(* checks is that of the session (Checking), and the flag and the membership   *)
(* it has passed were true at some time during it.                             *)
Follows(o, S) == S[o.tok] # None => S[o.tok].tenant \in {None, o.ses.tenant}
MemberSeen(o, t) == <<t, "member">> \in o.seen
FlagSeen(o, t, f) == <<t, IF f THEN "expired" ELSE "valid">> \in o.seen
Checking(o) ==
  /\ o.tid # None
  /\ o.ses.tenant \in {o.tid, None}
  /\ o.again => MemberSeen(o, o.tid)
FlagTrue(o) == o.ses.tenant # None => FlagSeen(o, o.ses.tenant, o.ses.flag)

Checked(o, S) ==
  /\ o.pc = "account" => Follows(o, S)
  /\ o.pc = "expiry" => Follows(o, S) /\ Checking(o) /\ o.ses.tenant = o.tid
  /\ o.pc = "active" => Follows(o, S) /\ Checking(o) /\ FlagTrue(o)
  /\ o.pc = "get" /\ o.next = "active" =>
       /\ Follows(o, S) /\ Checking(o) /\ o.ses.tenant = o.tid
       /\ \E f \in BOOLEAN : o.patch = [flag |-> f] /\ FlagSeen(o, o.tid, f)
  /\ o.pc = "set" /\ o.next = "active" => Follows(o, S) /\ Checking(o) /\ FlagTrue(o)
  /\ o.pc = "get" /\ o.next = "resolved" =>
       \/ o.patch = Degraded
       \/ o.patch = [flag |-> FALSE] /\ o.ses.tenant = None /\ Follows(o, S)
  /\ o.pc = "set" /\ o.next = "resolved" => o.ses.tenant = None
  /\ o.pc = "resolved" =>
       /\ Follows(o, S) /\ FlagTrue(o)
       /\ o.ses.tenant # None => MemberSeen(o, o.ses.tenant)

Good(o, S, F) ==
  Requesting(o) =>
    /\ F \subseteq o.seen
    /\ o.pc \in {"resolve", "account"} => ~o.again
    /\ ~o.crossed => Checked(o, S)

AllGood == \A c \in Clients : Good(op[c], session, Facts)
ServedInv == Typed /\ AllGood

LEMMA GoodImpliesServed == ServedInv => ServedIsTrue
<1> SUFFICES ASSUME ServedInv, NEW c \in Clients, op[c].pc = "resolved", op[c].kind = "request"
             PROVE  LET o == op[c] IN
                    \/ o.ses.tenant = None \/ o.crossed
                    \/ /\ <<o.ses.tenant, "member">> \in o.seen
                       /\ <<o.ses.tenant, IF o.ses.flag THEN "expired" ELSE "valid">> \in o.seen
  BY DEF ServedIsTrue, ServedIsMember, ServedFlagIsFresh, At
<1>1. Requesting(op[c]) /\ Good(op[c], session, Facts)
  BY DEF ServedInv, AllGood, Requesting
<1>2. CASE op[c].crossed
  BY <1>2
<1>3. CASE ~op[c].crossed
  <2>1. FlagTrue(op[c]) /\ (op[c].ses.tenant # None => MemberSeen(op[c], op[c].ses.tenant))
    BY <1>1, <1>3 DEF Good, Checked
  <2>2. QED
    BY <2>1 DEF FlagTrue, FlagSeen, MemberSeen
<1>4. QED
  BY <1>2, <1>3

\* An operation that stays where it is stays good if what it has seen has not
\* shrunk and its session has not been moved away.
LEMMA GoodKept ==
  ASSUME NEW o, NEW r, NEW S, NEW T, NEW F, NEW G, Good(o, S, F), Requesting(o),
         r.pc = o.pc, r.tok = o.tok, r.ses = o.ses, r.tid = o.tid, r.patch = o.patch,
         r.next = o.next, r.again = o.again, o.seen \subseteq r.seen, G \subseteq r.seen,
         ~r.crossed => ~o.crossed /\ (o.pc \notin {"list", "bulk"} /\ Follows(o, S) => Follows(r, T))
  PROVE  Good(r, T, G)
<1>1. SUFFICES ASSUME ~r.crossed PROVE Checked(r, T)
  BY DEF Good
<1>2. Checked(o, S) /\ (o.pc \notin {"list", "bulk"} /\ Follows(o, S) => Follows(r, T))
  BY <1>1 DEF Good
<1>3. /\ Checking(o) => Checking(r)
      /\ FlagTrue(o) => FlagTrue(r)
      /\ MemberSeen(o, o.ses.tenant) => MemberSeen(r, o.ses.tenant)
      /\ \A f \in BOOLEAN : FlagSeen(o, o.tid, f) => FlagSeen(r, o.tid, f)
  BY DEF Checking, FlagTrue, FlagSeen, MemberSeen
<1>4. QED
  BY <1>2, <1>3 DEF Checked

LEMMA FactsStay == UNCHANGED db => Facts' = Facts
  BY DEF db, Facts

\* A step that leaves an operation alone and deletes sessions at most, or stores
\* one under a new token, leaves it good.
LEMMA GoodFrame ==
  ASSUME Typed, AllGood, UNCHANGED db, NEW c \in Clients,
         \A k \in used : session'[k] = session[k] \/ session'[k] = None
  PROVE  Good(op[c], session', Facts')
<1>1. SUFFICES ASSUME Requesting(op[c]) PROVE Good(op[c], session', Facts')
  BY DEF Good
<1>2. PICK o, S, T, F : o = op[c] /\ S = session /\ T = session' /\ F = Facts
  OBVIOUS
<1>3. Facts' = F
  BY <1>2, FactsStay
<1>4. Good(o, S, F) /\ Requesting(o) /\ F \subseteq o.seen
  BY <1>1, <1>2 DEF AllGood, Good
<1>5. o.pc \notin {"list", "bulk"} /\ Follows(o, S) => Follows(o, T)
  <2>1. o.pc \notin {"list", "bulk"} => o.tok \in used
    BY <1>1, <1>2 DEF Typed, TokensAreUsed, Requesting, Busy
  <2>2. QED
    BY <1>2, <2>1 DEF Follows
<1>6. Good(o, T, F)
  BY <1>4, <1>5, GoodKept
<1>7. QED
  BY <1>2, <1>3, <1>6

LEMMA OwnStep ==
  ASSUME Typed, AllGood, UNCHANGED db, NEW c \in Clients, NEW r \in States,
         op' = [op EXCEPT ![c] = r],
         \A k \in used : session'[k] = session[k] \/ session'[k] = None,
         Good(r, session', Facts')
  PROVE  AllGood'
<1>1. op'[c] = r /\ \A d \in Clients : d # c => op'[d] = op[d]
  BY Turn DEF Typed
<1>2. \A d \in Clients : Good(op[d], session', Facts')
  BY GoodFrame
<1>3. \A d \in Clients : Good(op'[d], session', Facts')
  BY <1>1, <1>2
<1>4. QED
  BY <1>3 DEF AllGood

LEMMA QuietStep ==
  ASSUME Typed, AllGood, UNCHANGED <<db, op>>,
         \A k \in used : session'[k] = session[k] \/ session'[k] = None
  PROVE  AllGood'
<1>1. \A d \in Clients : Good(op[d], session', Facts')
  BY GoodFrame
<1>2. QED
  BY <1>1 DEF AllGood

\* The steps of resolve, one by one: what has been established takes the
\* operation to its next stand.
LEMMA ResolveGood ==
  ASSUME Typed, AllGood, NEW c \in Clients, Resolve(c)
  PROVE  AllGood'
<1>1. PICK o : o = op[c]
  OBVIOUS
<1>2. PICK r \in States :
        /\ op' = [op EXCEPT ![c] = r]
        /\ r # Idle => /\ r \in Operations /\ Kept(r, o) /\ r.pc = "account"
                       /\ Live(o.tok) /\ r.ses = session[o.tok] /\ r.again = o.again
  BY <1>1, ResolveDoes
<1>3. UNCHANGED <<db, session>> /\ o.pc = "resolve" /\ Good(o, session, Facts)
  BY <1>1 DEF Resolve, At, redis, AllGood
<1>4. Good(r, session, Facts)
  <2>1. SUFFICES ASSUME Requesting(r) PROVE Good(r, session, Facts)
    BY DEF Good
  <2>2. r # Idle
    BY <2>1 DEF Requesting, Idle
  <2>3. Requesting(o)
    BY <1>2, <1>3, <2>1, <2>2 DEF Requesting, Kept
  <2>4. Follows(r, session)
    BY <1>2, <2>2 DEF Follows, Kept
  <2>5. QED
    BY <1>2, <1>3, <2>2, <2>3, <2>4 DEF Good, Checked, Kept
<1>5. QED
  BY <1>2, <1>3, <1>4, OwnStep, FactsStay

LEMMA CheckAccountGood ==
  ASSUME Typed, AllGood, NEW c \in Clients, CheckAccount(c)
  PROVE  AllGood'
<1>1. PICK o : o = op[c]
  OBVIOUS
<1>2. PICK r \in States :
           /\ op' = [op EXCEPT ![c] = r]
           /\ \/ r = Idle /\ Delete(o.tok)
              \/ /\ UNCHANGED redis
                 /\ r \in Operations /\ Kept(r, o) /\ r.again = o.again /\ r.ses = o.ses
                 /\ \/ o.ses.tenant # None /\ r.pc = "expiry" /\ r.tid = o.ses.tenant
                    \/ o.ses.tenant = None /\ r.pc = "resolved"
                    \/ /\ o.ses.tenant = None /\ r.pc = "get" /\ r.next = "resolved"
                       /\ r.patch = [flag |-> FALSE]
  BY <1>1, CheckAccountDoes
<1>3. UNCHANGED db /\ o.pc = "account" /\ Good(o, session, Facts)
  BY <1>1 DEF CheckAccount, At, AllGood
<1>4. CASE r = Idle /\ Delete(o.tok)
  <2>1. \A k \in used : session'[k] = session[k] \/ session'[k] = None
    BY <1>4 DEF Delete, Typed, TypeOK
  <2>2. Good(r, session', Facts')
    BY <1>4 DEF Good, Requesting, Idle
  <2>3. QED
    BY <1>2, <1>3, <2>1, <2>2, OwnStep
<1>5. CASE ~(r = Idle /\ Delete(o.tok))
  <2>1. UNCHANGED session
    BY <1>2, <1>5 DEF redis
  <2>2. Good(r, session, Facts)
    <3>1. SUFFICES ASSUME Requesting(r), ~r.crossed PROVE Checked(r, session)
      BY <1>2, <1>3, <1>5 DEF Good, Requesting, Kept
    <3>2. Requesting(o) /\ ~o.crossed
      BY <1>2, <1>3, <1>5, <3>1 DEF Requesting, Kept
    <3>3. Follows(o, session) /\ ~o.again
      BY <1>3, <3>2 DEF Good, Checked
    <3>4. Follows(r, session) /\ ~r.again
      BY <1>2, <1>5, <3>3 DEF Follows, Kept
    <3>5. r.tid # None /\ r.ses.tenant = r.tid => Checking(r)
      BY <3>4 DEF Checking
    <3>6. QED
      BY <1>2, <1>5, <3>4, <3>5 DEF Checked, FlagTrue
  <2>3. QED
    BY <1>2, <1>3, <2>1, <2>2, OwnStep, FactsStay
<1>6. QED
  BY <1>2, <1>4, <1>5

LEMMA CheckExpiryGood ==
  ASSUME Typed, AllGood, NEW c \in Clients, CheckExpiry(c)
  PROVE  AllGood'
<1>1. PICK o : o = op[c]
  OBVIOUS
<1>2. PICK r \in States :
           /\ op' = [op EXCEPT ![c] = r]
           /\ r \in Operations /\ Kept(r, o)
           /\ r.again = o.again /\ r.ses = o.ses /\ r.tid = o.tid
           /\ \/ r.pc = "get" /\ r.next = "active" /\ r.patch = [flag |-> Expired(o.tid)]
              \/ r.pc = "active" /\ o.ses.flag = Expired(o.tid)
  BY <1>1, CheckExpiryDoes
<1>3. UNCHANGED <<db, session>> /\ o.pc = "expiry" /\ Good(o, session, Facts)
  BY <1>1 DEF CheckExpiry, At, redis, AllGood
<1>4. Good(r, session, Facts)
  <2>1. SUFFICES ASSUME Requesting(r), ~r.crossed PROVE Checked(r, session)
    BY <1>2, <1>3 DEF Good, Requesting, Kept
  <2>2. Requesting(o) /\ ~o.crossed
    BY <1>2, <1>3, <2>1 DEF Requesting, Kept
  <2>3. Follows(o, session) /\ Checking(o) /\ o.ses.tenant = o.tid /\ Facts \subseteq o.seen
    BY <1>3, <2>2 DEF Good, Checked
  <2>4. Follows(r, session) /\ Checking(r)
    BY <1>2, <2>3 DEF Follows, Checking, MemberSeen, Kept
  <2>5. FlagSeen(r, r.tid, Expired(o.tid))
    <3>1. o.tid \in Tenants
      BY <1>2, <2>3 DEF Operations, Checking
    <3>2. <<o.tid, IF o.tid \in lapsed THEN "expired" ELSE "valid">> \in Facts
      BY <3>1 DEF Facts
    <3>3. QED
      BY <1>2, <2>3, <3>2 DEF FlagSeen, Kept, Expired
  <2>6. QED
    BY <1>2, <2>3, <2>4, <2>5, ExpiredIsBoolean DEF Checked, FlagTrue
<1>5. QED
  BY <1>2, <1>3, <1>4, OwnStep, FactsStay

LEMMA CheckActiveGood ==
  ASSUME Typed, AllGood, NEW c \in Clients, CheckActive(c)
  PROVE  AllGood'
<1>1. PICK o : o = op[c]
  OBVIOUS
<1>2. PICK r \in States :
           /\ op' = [op EXCEPT ![c] = r]
           /\ r \in Operations /\ Kept(r, o)
           /\ r.ses = o.ses /\ r.tid = o.tid
           /\ \/ r.pc = "resolved" /\ (o.again \/ o.tid \in member)
              \/ r.pc = "get" /\ r.next = "resolved" /\ r.patch = Degraded
  BY <1>1, CheckActiveDoes
<1>3. UNCHANGED <<db, session>> /\ o.pc = "active" /\ Good(o, session, Facts)
  BY <1>1 DEF CheckActive, At, redis, AllGood
<1>4. Good(r, session, Facts)
  <2>1. SUFFICES ASSUME Requesting(r), ~r.crossed PROVE Checked(r, session)
    BY <1>2, <1>3 DEF Good, Requesting, Kept
  <2>2. Requesting(o) /\ ~o.crossed
    BY <1>2, <1>3, <2>1 DEF Requesting, Kept
  <2>3. Follows(o, session) /\ Checking(o) /\ FlagTrue(o) /\ Facts \subseteq o.seen
    BY <1>3, <2>2 DEF Good, Checked
  <2>4. Follows(r, session) /\ FlagTrue(r)
    BY <1>2, <2>3 DEF Follows, FlagTrue, FlagSeen, Kept
  <2>5. ASSUME r.pc = "resolved", r.ses.tenant # None
        PROVE  MemberSeen(r, r.ses.tenant)
    <3>1. r.ses.tenant = o.tid /\ o.tid # None /\ (o.again => MemberSeen(o, o.tid))
      BY <1>2, <2>3, <2>5 DEF Checking
    <3>2. ASSUME o.tid \in member PROVE MemberSeen(o, o.tid)
      <4>1. <<o.tid, "member">> \in Facts
        BY <3>2 DEF Facts, Typed, TypeOK
      <4>2. QED
        BY <2>3, <4>1 DEF MemberSeen
    <3>3. QED
      BY <1>2, <2>5, <3>1, <3>2 DEF MemberSeen, Kept
  <2>6. QED
    BY <1>2, <2>4, <2>5 DEF Checked
<1>5. QED
  BY <1>2, <1>3, <1>4, OwnStep, FactsStay

LEMMA UpdateGetGood ==
  ASSUME Typed, AllGood, NEW c \in Clients, UpdateGet(c)
  PROVE  AllGood'
<1>1. PICK o : o = op[c]
  OBVIOUS
<1>2. PICK r \in States :
        /\ op' = [op EXCEPT ![c] = r]
        /\ \/ r = Idle
           \/ /\ r \in Operations /\ Kept(r, o) /\ r.again = o.again /\ r.tid = o.tid
              /\ \/ /\ Live(o.tok) /\ r.pc = "set" /\ r.next = o.next
                    /\ r.ses = Merge(session[o.tok], o.patch)
                 \/ /\ ~Live(o.tok)
                    /\ r.pc = o.next /\ o.next \in {"active", "resolved", "bulk"}
                    /\ r.pc # "bulk" => r.ses = Merge(o.ses, o.patch)
  BY <1>1, UpdateGetDoes
<1>3. UNCHANGED <<db, session>> /\ o.pc = "get" /\ Good(o, session, Facts)
  BY <1>1 DEF UpdateGet, At, redis, AllGood
<1>4. o \in Operations /\ o.tok \in Tokens /\ o.patch \in Patches /\ o.ses \in SessionValues
  BY <1>1, <1>3, OpTyped DEF Typed, TypeOK, TokensAreUsed, Busy, Operations
<1>5. Live(o.tok) => session[o.tok] \in SessionValues
  BY <1>4 DEF Typed, TypeOK, Live
\* What the merge makes of the session read, or of the one held.
<1>6. ASSUME NEW s \in SessionValues
      PROVE  /\ o.patch = Degraded => Merge(s, o.patch).tenant = None
             /\ \A f \in BOOLEAN : o.patch = [flag |-> f] =>
                  Merge(s, o.patch).tenant = s.tenant /\ Merge(s, o.patch).flag = f
  BY <1>4, MergeIs, DegradedIs
<1>7. Good(r, session, Facts)
  <2>1. SUFFICES ASSUME Requesting(r), ~r.crossed PROVE Checked(r, session)
    BY <1>2, <1>3 DEF Good, Requesting, Kept, Idle
  <2>2. r # Idle
    BY <2>1 DEF Requesting, Idle
  <2>3. Requesting(o) /\ ~o.crossed
    BY <1>2, <1>3, <2>1, <2>2 DEF Requesting, Kept
  <2>4. Checked(o, session)
    BY <1>3, <2>3 DEF Good
  <2>5. CASE o.next = "active"
    <3>1. /\ Follows(o, session) /\ Checking(o) /\ o.ses.tenant = o.tid
          /\ \E f \in BOOLEAN : o.patch = [flag |-> f] /\ FlagSeen(o, o.tid, f)
      BY <1>3, <2>4, <2>5 DEF Checked
    <3>2. PICK f \in BOOLEAN : o.patch = [flag |-> f] /\ FlagSeen(o, o.tid, f)
      BY <3>1
    <3>3. CASE Live(o.tok)
      <4>1. r.pc = "set" /\ r.next = "active" /\ r.ses.flag = f
            /\ r.ses.tenant = session[o.tok].tenant
        BY <1>2, <1>5, <1>6, <2>2, <2>5, <3>2, <3>3
      <4>2. Follows(r, session) /\ r.ses.tenant \in {o.tid, None}
        BY <1>2, <2>2, <3>1, <3>3, <4>1 DEF Follows, Live, Kept
      <4>3. Checking(r) /\ FlagTrue(r)
        BY <1>2, <2>2, <3>1, <3>2, <4>1, <4>2
           DEF Checking, FlagTrue, FlagSeen, MemberSeen, Kept
      <4>4. QED
        BY <4>1, <4>2, <4>3 DEF Checked
    <3>4. CASE ~Live(o.tok)
      <4>1. r.pc = "active" /\ r.ses.flag = f /\ r.ses.tenant = o.tid
        BY <1>2, <1>4, <1>6, <2>2, <2>5, <3>1, <3>2, <3>4
      <4>2. Follows(r, session)
        BY <1>2, <2>2, <3>4 DEF Follows, Live, Kept
      <4>3. Checking(r) /\ FlagTrue(r)
        BY <1>2, <2>2, <3>1, <3>2, <4>1 DEF Checking, FlagTrue, FlagSeen, MemberSeen, Kept
      <4>4. QED
        BY <4>1, <4>2, <4>3 DEF Checked
    <3>5. QED
      BY <3>3, <3>4
  <2>6. CASE o.next = "resolved"
    <3>1. \/ o.patch = Degraded
          \/ o.patch = [flag |-> FALSE] /\ o.ses.tenant = None /\ Follows(o, session)
      BY <1>3, <2>4, <2>6 DEF Checked
    <3>2. CASE Live(o.tok)
      <4>1. r.pc = "set" /\ r.next = "resolved" /\ r.ses = Merge(session[o.tok], o.patch)
        BY <1>2, <2>2, <2>6, <3>2
      <4>2. r.ses.tenant = None
        BY <1>5, <1>6, <3>1, <3>2, <4>1 DEF Follows, Live
      <4>3. QED
        BY <4>1, <4>2 DEF Checked
    <3>3. CASE ~Live(o.tok)
      <4>1. r.pc = "resolved" /\ r.ses = Merge(o.ses, o.patch)
        BY <1>2, <2>2, <2>6, <3>3
      <4>2. r.ses.tenant = None
        BY <1>4, <1>6, <3>1, <4>1
      <4>3. Follows(r, session)
        BY <1>2, <2>2, <3>3 DEF Follows, Live, Kept
      <4>4. QED
        BY <4>1, <4>2, <4>3 DEF Checked, FlagTrue
    <3>4. QED
      BY <3>2, <3>3
  <2>7. CASE o.next \notin {"active", "resolved"}
    BY <1>2, <2>2, <2>7 DEF Checked
  <2>8. QED
    BY <2>5, <2>6, <2>7
<1>8. QED
  BY <1>2, <1>3, <1>7, OwnStep, FactsStay

LEMMA ResolveAgainGood ==
  ASSUME Typed, AllGood, NEW c \in Clients, ResolveAgain(c)
  PROVE  AllGood'
<1>1. PICK o : o = op[c]
  OBVIOUS
<1>2. o \in Operations /\ o.pc = "resolved" /\ o.kind = "request"
  BY <1>1, ResolveAgainDoes
<1>3. PICK r \in States :
        /\ op' = [op EXCEPT ![c] = r]
        /\ r \in Operations /\ Kept(r, o) /\ r.ses = o.ses
        /\ r.again => o.tid = o.ses.tenant
        /\ \/ o.ses.tenant # None /\ r.pc = "expiry" /\ r.tid = o.ses.tenant
           \/ o.ses.tenant = None /\ r.pc = "resolved"
           \/ /\ o.ses.tenant = None /\ r.pc = "get" /\ r.next = "resolved"
              /\ r.patch = [flag |-> FALSE]
  BY <1>1, ResolveAgainDoes
<1>4. UNCHANGED <<db, session>>
  BY DEF ResolveAgain, redis
<1>5. Good(o, session, Facts) /\ Requesting(o)
  BY <1>1, <1>2 DEF AllGood, Requesting
<1>6. Good(r, session, Facts)
  <2>1. SUFFICES ASSUME ~r.crossed PROVE Checked(r, session)
    BY <1>3, <1>5 DEF Good, Kept
  <2>2. /\ Follows(o, session) /\ FlagTrue(o)
        /\ o.ses.tenant # None => MemberSeen(o, o.ses.tenant)
    BY <1>2, <1>3, <1>5, <2>1 DEF Good, Checked, Kept
  <2>3. Follows(r, session)
    BY <1>3, <2>2 DEF Follows, Kept
  <2>4. r.pc = "expiry" => Checking(r) /\ r.ses.tenant = r.tid
    BY <1>3, <2>2 DEF Checking, MemberSeen, Kept
  <2>5. QED
    BY <1>3, <2>3, <2>4 DEF Checked, FlagTrue
<1>7. QED
  BY <1>3, <1>4, <1>6, OwnStep, FactsStay

\* The steps that leave resolve behind.
LEMMA AsideGood ==
  ASSUME Typed, AllGood, NEW c \in Clients,
         \/ Serve(c) \/ Reload(c) \/ Switch(c) \/ PatchProfile(c) \/ RevokeOthers(c)
         \/ ListTokens(c) \/ BulkEnds(c)
         \/ \E k \in Tokens : Visit(c, k)
  PROVE  AllGood'
<1>1. PICK o : o = op[c]
  OBVIOUS
<1>2. /\ UNCHANGED db /\ o.pc \notin {"idle", "create"} /\ Good(o, session, Facts)
  BY <1>1 DEF Serve, Reload, Switch, PatchProfile, RevokeOthers, ListTokens, BulkEnds, Visit,
              At, AllGood
<1>3. PICK r \in States :
        /\ op' = [op EXCEPT ![c] = r]
        /\ \/ r = Idle
           \/ /\ r.kind = o.kind /\ r.seen = o.seen
              /\ r.pc \in {"get", "list", "bulk"} /\ Aside(r)
        /\ \A k \in used : session'[k] = session[k] \/ session'[k] = None
  <2>1. CASE \E k \in Tokens : Visit(c, k)
    <3>1. PICK k \in Tokens : Visit(c, k)
      BY <2>1
    <3>2. Delete(k) \/ UNCHANGED redis => \A m \in used : session'[m] = session[m] \/ session'[m] = None
      BY DEF Delete, redis, Typed, TypeOK
    <3>3. QED
      BY <1>1, <3>1, <3>2, VisitDoes
  <2>2. CASE ~\E k \in Tokens : Visit(c, k)
    <3>1. UNCHANGED redis
      BY <2>2 DEF Serve, Reload, Switch, PatchProfile, RevokeOthers, ListTokens, BulkEnds
    <3>2. session' = session
      BY <3>1 DEF redis
    <3>3. QED
      BY <1>1, <2>2, <3>2, AsideDoes
  <2>3. QED
    BY <2>1, <2>2
<1>4. Good(r, session', Facts')
  <2>1. SUFFICES ASSUME Requesting(r) PROVE Good(r, session', Facts')
    BY DEF Good
  <2>2. r # Idle
    BY <2>1 DEF Requesting, Idle
  <2>3. Requesting(o)
    BY <1>2, <1>3, <2>1, <2>2 DEF Requesting
  <2>4. Facts' \subseteq r.seen
    BY <1>2, <1>3, <2>2, <2>3, FactsStay DEF Good
  <2>5. Checked(r, session')
    BY <1>3, <2>1, <2>2 DEF Checked, Aside, Requesting
  <2>6. QED
    BY <1>3, <2>2, <2>4, <2>5 DEF Good
<1>5. QED
  BY <1>2, <1>3, <1>4, OwnStep

\* A write: its own request goes on with what it wrote; another request with the
\* same token is crossed, unless the session stays in its tenant or loses it.
LEMMA UpdateSetGood ==
  ASSUME Typed, AllGood, NEW c \in Clients, UpdateSet(c)
  PROVE  AllGood'
<1>1. PICK o : o = op[c]
  OBVIOUS
<1>2. PICK T, F : T = session' /\ F = Facts
  OBVIOUS
<1>3. /\ o \in Operations /\ o.tok \in used /\ o.ses \in SessionValues
      /\ T = [session EXCEPT ![o.tok] = o.ses]
      /\ \/ op'[c] = Idle
         \/ /\ op'[c] \in Operations /\ Kept(op'[c], o)
            /\ op'[c].pc = o.next /\ o.next \in {"active", "resolved", "bulk"}
            /\ op'[c].pc # "bulk" => op'[c].ses = o.ses
            /\ op'[c].tid = o.tid /\ op'[c].again = o.again
  BY <1>1, <1>2, UpdateSetDoes
<1>4. UNCHANGED db /\ o.pc = "set" /\ Good(o, session, F)
  BY <1>1, <1>2 DEF UpdateSet, At, AllGood
<1>5. Facts' = F
  BY <1>2, <1>4, FactsStay
<1>6. T[o.tok] = o.ses /\ \A k \in used : k # o.tok => T[k] = session[k]
  BY <1>3 DEF Typed, TypeOK
<1>7. Good(op'[c], T, F)
  <2>1. PICK r : r = op'[c]
    OBVIOUS
  <2>2. CASE r = Idle
    BY <2>1, <2>2 DEF Good, Requesting, Idle
  <2>3. CASE r # Idle
    <3>1. SUFFICES ASSUME Requesting(r), ~r.crossed PROVE Checked(r, T)
      BY <1>3, <1>4, <2>1, <2>3 DEF Good, Requesting, Kept
    <3>2. Requesting(o) /\ ~o.crossed
      BY <1>3, <1>4, <2>1, <2>3, <3>1 DEF Requesting, Kept
    <3>3. Checked(o, session)
      BY <1>4, <3>2 DEF Good
    <3>4. r.pc # "bulk" => Follows(r, T)
      BY <1>3, <1>6, <2>1, <2>3 DEF Follows, Kept
    <3>5. CASE r.pc = "active"
      <4>1. Checking(o) /\ FlagTrue(o)
        BY <1>3, <1>4, <2>1, <2>3, <3>3, <3>5 DEF Checked
      <4>2. Checking(r) /\ FlagTrue(r)
        BY <1>3, <2>1, <2>3, <3>5, <4>1 DEF Checking, FlagTrue, FlagSeen, MemberSeen, Kept
      <4>3. QED
        BY <3>4, <3>5, <4>2 DEF Checked
    <3>6. CASE r.pc = "resolved"
      <4>1. r.ses.tenant = None
        BY <1>3, <1>4, <2>1, <2>3, <3>3, <3>6 DEF Checked
      <4>2. QED
        BY <3>4, <3>6, <4>1 DEF Checked, FlagTrue
    <3>7. CASE r.pc = "bulk"
      BY <3>7 DEF Checked
    <3>8. QED
      BY <1>3, <2>1, <2>3, <3>5, <3>6, <3>7
  <2>4. QED
    BY <2>1, <2>2, <2>3
<1>8. ASSUME NEW d \in Clients, d # c
      PROVE  Good(op'[d], T, F)
  <2>1. PICK q, r : q = op[d] /\ r = op'[d]
    OBVIOUS
  <2>2. Good(q, session, F)
    BY <1>2, <2>1 DEF AllGood
  <2>3. Requesting(q) => F \subseteq q.seen
    BY <2>2 DEF Good
  <2>4. Requesting(q) /\ q.pc \notin {"list", "bulk"} => q.tok \in used
    BY <2>1 DEF Typed, TokensAreUsed, Requesting, Busy
  <2>5. CASE r = q /\ ~(Requesting(q) /\ q.tok = o.tok)
    <3>1. CASE Requesting(q)
      <4>1. q.pc \notin {"list", "bulk"} /\ Follows(q, session) => Follows(q, T)
        BY <1>6, <2>4, <2>5, <3>1 DEF Follows
      <4>2. Good(q, T, F)
        BY <2>2, <2>3, <3>1, <4>1, GoodKept
      <4>3. QED
        BY <2>1, <2>5, <4>2
    <3>2. CASE ~Requesting(q)
      BY <2>1, <2>5, <3>2 DEF Good
    <3>3. QED
      BY <3>1, <3>2
  <2>6. CASE ~(r = q /\ ~(Requesting(q) /\ q.tok = o.tok))
    <3>1. /\ Requesting(q) /\ q.tok = o.tok
          /\ r \in Operations /\ r.pc = q.pc /\ r.kind = q.kind /\ r.tok = q.tok
          /\ r.todo = q.todo /\ r.ses = q.ses /\ r.tid = q.tid
          /\ r.patch = q.patch /\ r.next = q.next /\ r.again = q.again /\ r.seen = q.seen
          /\ ~r.crossed =>
               /\ ~q.crossed
               /\ \/ o.ses.tenant = None
                  \/ Live(o.tok) /\ session[o.tok].tenant = o.ses.tenant
      BY <1>1, <1>8, <2>1, <2>6, UpdateSetDoes
    <3>2. ~r.crossed /\ Follows(q, session) => Follows(r, T)
      BY <1>6, <3>1 DEF Follows, Live
    <3>3. Good(r, T, F)
      BY <2>2, <2>3, <3>1, <3>2, GoodKept
    <3>4. QED
      BY <2>1, <3>3
  <2>7. QED
    BY <2>5, <2>6
<1>9. QED
  BY <1>2, <1>5, <1>7, <1>8 DEF AllGood

\* The database changes: every request in progress notes it.
LEMMA NotedGood ==
  ASSUME Typed, AllGood, UNCHANGED session, NEW d \in Clients, op'[d] = Noting(op[d])
  PROVE  Good(op'[d], session', Facts')
<1>1. PICK q, r : q = op[d] /\ r = op'[d]
  OBVIOUS
<1>2. q \in States /\ r = Noting(q)
  BY <1>1, OpTyped DEF Typed
<1>3. Good(q, session, Facts)
  BY <1>1 DEF AllGood
<1>4. CASE Requesting(q)
  <2>1. q \in Operations
    BY <1>2, <1>4 DEF Requesting, States, Idle
  <2>2. /\ r.pc = q.pc /\ r.kind = q.kind /\ r.tok = q.tok /\ r.ses = q.ses
        /\ r.tid = q.tid /\ r.patch = q.patch /\ r.next = q.next
        /\ r.again = q.again /\ r.crossed = q.crossed
        /\ q.seen \subseteq r.seen /\ Facts' \subseteq r.seen
    BY <1>2, <1>4, <2>1, NotingIs
  <2>3. Follows(q, session) => Follows(r, session)
    BY <2>2 DEF Follows
  <2>4. PICK S, F, G : S = session /\ F = Facts /\ G = Facts'
    OBVIOUS
  <2>5. Good(r, S, G)
    BY <1>3, <1>4, <2>2, <2>3, <2>4, GoodKept
  <2>6. QED
    BY <1>1, <2>4, <2>5
<1>5. CASE ~Requesting(q)
  BY <1>1, <1>2, <1>5 DEF Good, Noting
<1>6. QED
  BY <1>4, <1>5

LEMMA ServedStep == ServedInv /\ [Next]_vars => ServedInv'
<1> SUFFICES ASSUME Typed, AllGood, [Next]_vars PROVE AllGood'
  BY TypedStep DEF ServedInv
<1>1. ASSUME NEW c \in Clients, NEW t \in Tenants \cup {None}, Login(c, t)
      PROVE  AllGood'
  <2>1. PICK b \in BOOLEAN : b = (t \in lapsed)
    BY MembershipIsBoolean, Zenon
  <2>2. PICK s \in SessionValues : s = Session(t, b)
    BY <2>1, SessionIsValue
  <2>3. PICK r : r = [pc |-> "create", ses |-> s]
    OBVIOUS
  <2>4. op' = [op EXCEPT ![c] = r]
    BY <1>1, <2>1, <2>2, <2>3 DEF Login
  <2>5. r \in States /\ ~Requesting(r)
    BY <2>2, <2>3 DEF States, Requesting
  <2>6. UNCHANGED <<db, session>>
    BY <1>1 DEF Login, redis
  <2>7. QED
    BY <2>4, <2>5, <2>6, OwnStep DEF Good
<1>2. ASSUME NEW c \in Clients, NEW kind \in Kinds, NEW k \in Tokens,
             NEW arg \in SUBSET Tenants, Begin(c, kind, k, arg)
      PROVE  AllGood'
  <2>1. PICK r : r = Started(kind, k, arg, "resolve")
    OBVIOUS
  <2>2. op' = [op EXCEPT ![c] = r] /\ UNCHANGED <<db, session>>
    BY <1>2, <2>1 DEF Begin, redis
  <2>3. "resolve" \in Pcs
    BY DEF Pcs
  <2>4. /\ r \in Operations /\ r.pc = "resolve" /\ r.kind = kind /\ ~r.again
        /\ kind = "request" => r.seen = Facts
    BY <2>1, <2>3, StartedIs
  <2>5. r \in States /\ Good(r, session, Facts)
    BY <2>4 DEF States, Good, Checked, Requesting
  <2>6. QED
    BY <2>2, <2>5, OwnStep, FactsStay
<1>3. ASSUME NEW c \in Clients, NEW t \in Tenants, Offboard(c, t)
      PROVE  AllGood'
  <2>1. PICK r : r = Started("offboard", None, {t}, "list")
    OBVIOUS
  <2>2. /\ op' = [d \in Clients |-> IF d = c THEN r ELSE Noting(op[d])]
        /\ "offboard" \in Kinds /\ UNCHANGED session
    BY <1>3, <2>1 DEF Offboard, redis
  <2>3. r.kind = "offboard"
    BY <2>1 DEF Started
  <2>4. op'[c] = r /\ Good(r, session', Facts')
    BY <2>2, <2>3 DEF Good, Requesting
  <2>5. \A d \in Clients : d # c => Good(op'[d], session', Facts')
    BY <2>2, NotedGood
  <2>6. \A d \in Clients : Good(op'[d], session', Facts')
    BY <2>4, <2>5
  <2>7. QED
    BY <2>6 DEF AllGood
<1>4. ASSUME NEW c \in Clients, ExpiryJob(c)
      PROVE  AllGood'
  <2>1. PICK arg \in SUBSET Tenants : arg = lapsed
    BY DEF Typed, TypeOK
  <2>2. PICK r : r = Started("expiryJob", None, arg, "list")
    OBVIOUS
  <2>3. op' = [op EXCEPT ![c] = r] /\ UNCHANGED <<db, session>>
    BY <1>4, <2>1, <2>2 DEF ExpiryJob, redis
  <2>4. "expiryJob" \in Kinds /\ "list" \in Pcs
    BY <1>4 DEF ExpiryJob, Pcs
  <2>5. r \in Operations /\ r.kind = "expiryJob"
    BY <2>1, <2>2, <2>4, StartedIs
  <2>6. r \in States /\ Good(r, session, Facts)
    BY <2>5 DEF States, Good, Requesting
  <2>7. QED
    BY <2>3, <2>6, OwnStep, FactsStay
<1>5. ASSUME NEW c \in Clients, NEW k \in Tokens, Create(c, k)
      PROVE  AllGood'
  <2>1. /\ session' = [session EXCEPT ![k] = op[c].ses] /\ k \notin used
        /\ op' = [op EXCEPT ![c] = Idle] /\ UNCHANGED db
    BY <1>5 DEF Create, End
  <2>2. \A m \in used : session'[m] = session[m]
    BY <2>1 DEF Typed, TypeOK
  <2>3. Good(Idle, session', Facts')
    BY DEF Good, Requesting, Idle
  <2>4. QED
    BY <2>1, <2>2, <2>3, IdleIs, OwnStep
<1>6. ASSUME NEW k \in Tokens, Logout(k) \/ SessionExpires(k)
      PROVE  AllGood'
  <2>1. session' = [session EXCEPT ![k] = None] /\ UNCHANGED <<db, op>>
    BY <1>6 DEF Logout, SessionExpires, Delete
  <2>2. \A m \in used : session'[m] = session[m] \/ session'[m] = None
    BY <2>1 DEF Typed, TypeOK
  <2>3. QED
    BY <2>1, <2>2, QuietStep
<1>7. CASE DatabaseChanges
  <2>1. op' = [d \in Clients |-> Noting(op[d])] /\ UNCHANGED session
    BY <1>7 DEF DatabaseChanges, redis
  <2>2. \A d \in Clients : Good(op'[d], session', Facts')
    BY <2>1, NotedGood
  <2>3. QED
    BY <2>2 DEF AllGood
<1>8. CASE IndexExpires
  BY <1>8, QuietStep DEF IndexExpires
<1>9. CASE UNCHANGED vars
  BY <1>9, QuietStep DEF vars, redis
<1>10. ASSUME Next PROVE AllGood'
  <2>1. CASE \E c \in Clients, kind \in Kinds, k \in Tokens : Begin(c, kind, k, {})
    <3>1. PICK c \in Clients, kind \in Kinds, k \in Tokens : Begin(c, kind, k, {})
      BY <2>1
    <3>2. PICK arg \in SUBSET Tenants : arg = {}
      OBVIOUS
    <3>3. QED
      BY <1>2, <3>1, <3>2
  <2>2. CASE \E c \in Clients, k \in Tokens, t \in Tenants : Begin(c, "switch", k, {t})
    <3>1. PICK c \in Clients, k \in Tokens, t \in Tenants : Begin(c, "switch", k, {t})
      BY <2>2
    <3>2. PICK arg \in SUBSET Tenants : arg = {t}
      OBVIOUS
    <3>3. "switch" \in Kinds
      BY <3>1 DEF Begin
    <3>4. QED
      BY <1>2, <3>1, <3>2, <3>3
  <2>3. CASE \E c \in Clients : ExpiryJob(c) \/ ClientStep(c)
    <3>1. PICK c \in Clients : ExpiryJob(c) \/ ClientStep(c)
      BY <2>3
    <3>2. CASE ExpiryJob(c) \/ (\E k \in Tokens : Create(c, k))
      BY <1>4, <1>5, <3>2
    <3>3. CASE \/ Serve(c) \/ Reload(c) \/ Switch(c) \/ PatchProfile(c) \/ RevokeOthers(c)
               \/ ListTokens(c) \/ BulkEnds(c)
               \/ \E k \in Tokens : Visit(c, k)
      BY <3>3, AsideGood
    <3>4. QED
      BY <3>1, <3>2, <3>3, ResolveGood, CheckAccountGood, CheckExpiryGood, CheckActiveGood,
         UpdateGetGood, UpdateSetGood, ResolveAgainGood DEF ClientStep
  <2>4. QED
    BY <1>1, <1>3, <1>6, <1>7, <1>8, <1>10, <2>1, <2>2, <2>3 DEF Next
<1>11. QED
  BY <1>9, <1>10

LEMMA InitServed == Init => ServedInv
<1> SUFFICES ASSUME Init PROVE AllGood
  BY InitTyped DEF ServedInv
<1>1. \A c \in Clients : op[c] = Idle
  BY DEF Init
<1>2. QED
  BY <1>1 DEF AllGood, Good, Requesting, Idle

\* A request is served in a tenant only if, at some time during it, the user was
\* a member there and the soft lock it meets was right, unless its session was
\* meanwhile moved: whatever switches, offboarding, expiry job, profile writes,
\* logouts and expiring entries come between its checks.
THEOREM ServedIsTrueHolds == Spec => []ServedIsTrue
<1>1. QED
  BY InitServed, ServedStep, GoodImpliesServed, PTL DEF Spec

------------------------------------------------------------------------------
(* A live session the index misses has outlived it or was written back.       *)

\* A step that writes no session and takes nothing away, other than what it deletes.
LEMMA IndexFrame ==
  ASSUME Typed, LiveIsIndexed, index \subseteq index', outlived \subseteq outlived',
         revived \subseteq revived',
         \A k \in Tokens : session'[k] = session[k] \/ session'[k] = None
  PROVE  LiveIsIndexed'
  BY DEF LiveIsIndexed, Live

LEMMA DeleteIndexed ==
  ASSUME Typed, LiveIsIndexed, NEW k \in Tokens, Delete(k), UNCHANGED history
  PROVE  LiveIsIndexed'
<1>1. /\ session'[k] = None
      /\ \A m \in Tokens : m # k => session'[m] = session[m] /\ (m \in index => m \in index')
  BY DEF Delete, Typed, TypeOK
<1>2. outlived' = outlived /\ revived' = revived
  BY DEF history
<1>3. QED
  BY <1>1, <1>2 DEF LiveIsIndexed, Live

LEMMA IndexedStep == Typed /\ LiveIsIndexed /\ [Next]_vars => LiveIsIndexed'
<1> SUFFICES ASSUME Typed, LiveIsIndexed, [Next]_vars PROVE LiveIsIndexed'
  OBVIOUS
<1>1. ASSUME UNCHANGED <<redis, history>> PROVE LiveIsIndexed'
  BY <1>1 DEF redis, history, LiveIsIndexed, Live
<1>2. ASSUME NEW c \in Clients, NEW k \in Tokens, Create(c, k) PROVE LiveIsIndexed'
  <2>1. /\ session' = [session EXCEPT ![k] = op[c].ses] /\ index' = index \cup {k}
        /\ UNCHANGED <<outlived, revived>>
    BY <1>2 DEF Create
  <2>2. \A m \in Tokens : m # k => session'[m] = session[m]
    BY <2>1 DEF Typed, TypeOK
  <2>3. QED
    BY <2>1, <2>2 DEF LiveIsIndexed, Live
<1>3. ASSUME NEW c \in Clients, NEW k \in Tokens, Visit(c, k) PROVE LiveIsIndexed'
  <2>1. UNCHANGED history
    BY <1>3 DEF Visit
  <2>2. Delete(k) \/ UNCHANGED redis
    BY <1>3, VisitDoes
  <2>3. QED
    BY <1>1, <2>1, <2>2, DeleteIndexed
<1>4. ASSUME NEW c \in Clients, CheckAccount(c) PROVE LiveIsIndexed'
  <2>1. UNCHANGED history /\ (Delete(op[c].tok) \/ UNCHANGED redis)
    BY <1>4 DEF CheckAccount
  <2>2. op[c].tok \in Tokens
    BY <1>4 DEF CheckAccount, At, Typed, TypeOK, TokensAreUsed, Busy
  <2>3. QED
    BY <1>1, <2>1, <2>2, DeleteIndexed
<1>5. ASSUME NEW c \in Clients, UpdateSet(c) PROVE LiveIsIndexed'
  <2>1. PICK k : k = op[c].tok
    OBVIOUS
  <2>2. /\ k \in Tokens
        /\ session' = [session EXCEPT ![k] = op[c].ses]
        /\ UNCHANGED <<index, outlived>>
        /\ revived' = IF Live(k) THEN revived ELSE revived \cup {k}
    BY <1>5, <2>1 DEF UpdateSet, At, Typed, TypeOK, TokensAreUsed, Busy
  <2>3. \A m \in Tokens : m # k => session'[m] = session[m]
    BY <2>2 DEF Typed, TypeOK
  <2>4. QED
    BY <2>2, <2>3 DEF LiveIsIndexed, Live
<1>6. ASSUME NEW k \in Tokens, Logout(k) \/ SessionExpires(k) PROVE LiveIsIndexed'
  <2>1. CASE Logout(k)
    BY <2>1, DeleteIndexed DEF Logout
  <2>2. CASE SessionExpires(k)
    <3>1. /\ session' = [session EXCEPT ![k] = None]
          /\ index' = index /\ outlived' = outlived /\ revived' = revived
      BY <2>2 DEF SessionExpires, history
    <3>2. \A m \in Tokens : session'[m] = session[m] \/ session'[m] = None
      BY <3>1 DEF Typed, TypeOK
    <3>3. QED
      BY <3>1, <3>2, IndexFrame
  <2>3. QED
    BY <1>6, <2>1, <2>2
<1>7. CASE IndexExpires
  BY <1>7 DEF IndexExpires, LiveIsIndexed, Live
<1>8. CASE UNCHANGED vars
  BY <1>1, <1>8 DEF vars
<1>9. ASSUME Next PROVE LiveIsIndexed'
  <2>1. CASE \/ \E c \in Clients, t \in Tenants \cup {None} : Login(c, t)
             \/ \E c \in Clients, kind \in Kinds, k \in Tokens : Begin(c, kind, k, {})
             \/ \E c \in Clients, k \in Tokens, t \in Tenants : Begin(c, "switch", k, {t})
             \/ \E c \in Clients, t \in Tenants : Offboard(c, t)
             \/ DatabaseChanges
    <3>1. UNCHANGED <<redis, history>>
      BY <2>1 DEF Login, Begin, Offboard, DatabaseChanges
    <3>2. QED
      BY <1>1, <3>1
  <2>2. CASE \E c \in Clients : ExpiryJob(c) \/ ClientStep(c)
    <3>1. PICK c \in Clients : ExpiryJob(c) \/ ClientStep(c)
      BY <2>2
    <3>2. CASE \/ ExpiryJob(c) \/ Resolve(c) \/ CheckExpiry(c) \/ CheckActive(c) \/ UpdateGet(c)
               \/ ResolveAgain(c) \/ Serve(c) \/ Reload(c) \/ Switch(c) \/ PatchProfile(c)
               \/ RevokeOthers(c) \/ ListTokens(c) \/ BulkEnds(c)
      <4>1. UNCHANGED <<redis, history>>
        BY <3>2 DEF ExpiryJob, Resolve, CheckExpiry, CheckActive, UpdateGet, ResolveAgain, Serve,
                    Reload, Switch, PatchProfile, RevokeOthers, ListTokens, BulkEnds
      <4>2. QED
        BY <1>1, <4>1
    <3>3. QED
      BY <1>2, <1>3, <1>4, <1>5, <3>1, <3>2 DEF ClientStep
  <2>3. QED
    BY <1>6, <1>7, <1>9, <2>1, <2>2 DEF Next
<1>10. QED
  BY <1>8, <1>9

\* What a revocation or an offboarding that walks the index misses is only what
\* outlived the index or was written back by an update after its deletion.
THEOREM LiveIsIndexedHolds == Spec => []LiveIsIndexed
<1>1. Init => Typed /\ LiveIsIndexed
  <2>1. Init => LiveIsIndexed
    BY DEF Init, LiveIsIndexed, Live
  <2>2. QED
    BY <2>1, InitTyped
<1>2. QED
  BY <1>1, TypedStep, IndexedStep, PTL DEF Spec
==============================================================================
