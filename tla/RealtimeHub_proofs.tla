------------------------- MODULE RealtimeHub_proofs -------------------------
(***************************************************************************)
(* Proofs about RealtimeHub: type correctness, and that the subscribers of *)
(* a session hear of it by one probe, for any number of connections,       *)
(* probes, changes and failures.                                           *)
(***************************************************************************)
EXTENDS RealtimeHub, TLAPS

ConnValues ==
  [at : {"closed", "receive", "asked", "read"}, gone : BOOLEAN, auth : BOOLEAN,
   got : Nat, seen : Nat]
ProbeValues == [at : {"over", "new", "sleep", "asked", "read", "cancelled"}, got : Nat]
Strays == {"skipped", "popped", "died", "lost", "overtaken"}

\* Everything has the type the code gives it.
TypeOK ==
  /\ session \in (Nat \ {0}) \cup {Dead}
  /\ conn \in [Conns -> ConnValues] /\ conns \subseteq Conns
  /\ task \in Probes \cup {None} /\ print \in Nat /\ probe \in [Probes -> ProbeValues]
  /\ redis \in [ok : BOOLEAN, heard : BOOLEAN, bus : Seq(Nat)] /\ ready \in Seq(Nat)
  /\ strays \subseteq Strays
  /\ left \in [turns : Nat, acts : Nat, fails : Nat]

------------------------------------------------------------------------------
(* The inductive invariant.                                                   *)

\* The versions on their way to the subscribers.
Members(s) == {s[i] : i \in 1..Len(s)}
Coming == Members(ready) \cup Members(redis.bus)

\* Nothing is of a session that is yet to come.
Past ==
  session # Dead =>
    /\ print <= session
    /\ \A c \in Conns : conn[c].got <= session
    /\ \A p \in Probes : probe[p].got <= session
    /\ \A v \in Coming : v <= session

ClosedAreSilent == \A c \in Conns : conn[c].at = "closed" => ~conn[c].auth
TaskIsLive == task # None => task \in Live

\* The strays by which a subscriber may miss a change.
Missed == {"skipped", "overtaken", "lost"}

\* While the probe would notice nothing, every subscriber has been sent the
\* session as it is, or it is on its way to him, or he is being sent a snapshot.
Awaited ==
  print = session /\ strays \cap Missed = {} =>
    \A c \in Subscribed(conn, conns) :
      conn[c].at = "receive" /\ ~conn[c].gone => conn[c].seen = session \/ session \in Coming

Inv == TypeOK /\ Past /\ ClosedAreSilent /\ OneProbe /\ TaskIsLive
       /\ SubscribersAreProbed /\ ProbeHasReason /\ Awaited

------------------------------------------------------------------------------
(* Lemmas about sequences of versions, and about the operators of the hub.    *)

LEMMA AppendMembers ==
  ASSUME NEW s \in Seq(Nat), NEW v \in Nat
  PROVE  Append(s, v) \in Seq(Nat) /\ Members(Append(s, v)) = Members(s) \cup {v}
<1>1. PICK t : t = Append(s, v)
  OBVIOUS
<1>2. t \in Seq(Nat) /\ Len(t) = Len(s) + 1 /\ t[Len(s) + 1] = v
      /\ \A i \in 1..Len(s) : t[i] = s[i]
  BY <1>1
<1>3. ASSUME NEW x PROVE x \in Members(t) <=> x \in Members(s) \cup {v}
  BY <1>2, SMT DEF Members
<1>4. QED
  BY <1>1, <1>2, <1>3

LEMMA TailMembers ==
  ASSUME NEW s \in Seq(Nat), s # <<>>
  PROVE  /\ Tail(s) \in Seq(Nat) /\ Head(s) \in Nat
         /\ Members(s) = {Head(s)} \cup Members(Tail(s))
<1>1. PICK t : t = Tail(s)
  OBVIOUS
<1>2. /\ t \in Seq(Nat) /\ Len(s) \in Nat /\ Len(s) > 0 /\ Len(t) = Len(s) - 1
      /\ \A i \in 1..Len(t) : t[i] = s[i + 1]
      /\ Head(s) = s[1] /\ Head(s) \in Nat
  BY <1>1
<1>3. ASSUME NEW x PROVE x \in Members(s) => x \in {Head(s)} \cup Members(t)
  <2>1. SUFFICES ASSUME NEW i \in 1..Len(s), x = s[i] PROVE x = Head(s) \/ x \in Members(t)
    BY DEF Members
  <2>2. CASE i = 1
    BY <1>2, <2>1, <2>2
  <2>3. CASE i # 1
    <3>1. i - 1 \in 1..Len(t) /\ (i - 1) + 1 = i
      BY <1>2, <2>3
    <3>2. t[i - 1] = s[i]
      BY <1>2, <3>1
    <3>3. QED
      BY <2>1, <3>1, <3>2 DEF Members
  <2>4. QED
    BY <2>2, <2>3
<1>4. ASSUME NEW x PROVE x \in {Head(s)} \cup Members(t) => x \in Members(s)
  <2>1. CASE x = Head(s)
    BY <1>2, <2>1 DEF Members
  <2>2. CASE x \in Members(t)
    <3>1. PICK i \in 1..Len(t) : x = t[i]
      BY <2>2 DEF Members
    <3>2. i + 1 \in 1..Len(s) /\ x = s[i + 1]
      BY <1>2, <3>1
    <3>3. QED
      BY <3>2 DEF Members
  <2>3. QED
    BY <2>1, <2>2
<1>5. QED
  BY <1>1, <1>2, <1>3, <1>4

LEMMA NoMembers == <<>> \in Seq(Nat) /\ Members(<<>>) = {}
  BY DEF Members

LEMMA ProbeAt ==
  ASSUME NEW o \in ProbeValues,
         NEW at \in {"over", "new", "sleep", "asked", "read", "cancelled"}
  PROVE  /\ [o EXCEPT !.at = at] \in ProbeValues
         /\ [o EXCEPT !.at = at].at = at /\ [o EXCEPT !.at = at].got = o.got
  BY DEF ProbeValues

LEMMA OverIs == Over \in ProbeValues /\ Over.at = "over" /\ Over.got = 0
  BY DEF Over, ProbeValues

\* The probe of the token, and no other, is stopped when nobody is subscribed.
LEMMA StopDoes ==
  ASSUME ConstantsFit, TypeOK, NEW cs, NEW registered, NEW fp \in Nat,
         _maybe_stop_auth_probe(cs, registered, fp)
  PROVE  /\ task' \in Probes \cup {None} /\ print' \in {0, fp}
         /\ probe' \in [Probes -> ProbeValues]
         /\ \A p \in Probes : probe'[p].got \in {0, probe[p].got}
         /\ Subscribed(cs, registered) # {} => print' = fp /\ task' = task /\ probe' = probe
         /\ Subscribed(cs, registered) = {} => task' = None /\ print' = 0
         /\ \A p \in Probes : p # task => probe'[p] = probe[p]
         /\ Subscribed(cs, registered) = {} /\ task # None =>
              probe'[task].at \in {"over", "cancelled"}
<1>1. CASE Subscribed(cs, registered) # {}
  BY <1>1 DEF _maybe_stop_auth_probe, TypeOK
<1>2. CASE Subscribed(cs, registered) = {}
  <2>1. PICK o \in ProbeValues : o = [Over EXCEPT !.at = "cancelled"] /\ o.at = "cancelled" /\ o.got = 0
    BY OverIs, ProbeAt
  <2>2. Over \in ProbeValues /\ Over.at = "over" /\ Over.got = 0
    BY OverIs
  <2>3. /\ task' = None /\ print' = 0
        /\ probe' = [p \in Probes |-> IF p # task THEN probe[p]
                                      ELSE IF probe[p].at = "new" THEN Over ELSE o]
    BY <1>2, <2>1 DEF _maybe_stop_auth_probe
  <2>4. \A p \in Probes : probe[p] \in ProbeValues /\ probe[p].got \in Nat
    BY DEF TypeOK, ProbeValues
  <2>5. \A p \in Probes : p # task => probe'[p] = probe[p]
    BY <2>3
  <2>6. ASSUME task \in Probes PROVE probe'[task] \in {Over, o}
    BY <2>3, <2>6
  <2>7. \A p \in Probes : probe'[p] \in ProbeValues /\ probe'[p].got \in {0, probe[p].got}
    BY <2>1, <2>2, <2>4, <2>5, <2>6
  <2>8. probe' \in [Probes -> ProbeValues]
    BY <2>3, <2>7
  <2>9. task # None => probe'[task].at \in {"over", "cancelled"}
    BY <2>1, <2>2, <2>6 DEF TypeOK
  <2>10. QED
    BY <1>2, <2>3, <2>5, <2>7, <2>8, <2>9
<1>3. QED
  BY <1>1, <1>2

\* Whoever subscribes finds a probe or begins one.
LEMMA EnsureDoes ==
  ASSUME ConstantsFit, TypeOK, _ensure_auth_probe
  PROVE  /\ task' \in Probes /\ probe' \in [Probes -> ProbeValues]
         /\ task # None => task' = task /\ probe' = probe
         /\ task = None => probe[task'] = Over /\ probe'[task'].at = "new"
         /\ \A p \in Probes : probe'[p].got = probe[p].got
         /\ \A p \in Probes : p # task' => probe'[p] = probe[p]
<1>1. CASE task # None
  BY <1>1 DEF _ensure_auth_probe, TypeOK
<1>2. CASE task = None
  <2>1. \E p \in Probes : probe[p] = Over
    BY <1>2 DEF _ensure_auth_probe
  <2>2. PICK q \in Probes : probe[q] = Over /\ q = CHOOSE p \in Probes : probe[p] = Over
    BY <2>1
  <2>3. task' = q /\ probe' = [probe EXCEPT ![q].at = "new"]
    BY <1>2, <2>2 DEF _ensure_auth_probe
  <2>4. PICK o \in ProbeValues : o = [probe[q] EXCEPT !.at = "new"] /\ o.at = "new" /\ o.got = probe[q].got
    <3>1. probe[q] \in ProbeValues
      BY DEF TypeOK
    <3>2. QED
      BY <3>1, ProbeAt
  <2>5. probe' = [probe EXCEPT ![q] = o]
    BY <2>3, <2>4
  <2>6. probe' \in [Probes -> ProbeValues] /\ probe'[q] = o
    BY <2>4, <2>5 DEF TypeOK
  <2>7. \A p \in Probes : p # q => probe'[p] = probe[p]
    BY <2>5 DEF TypeOK
  <2>8. \A p \in Probes : probe'[p].got = probe[p].got
    BY <2>4, <2>6, <2>7
  <2>9. QED
    BY <1>2, <2>2, <2>3, <2>4, <2>6, <2>7, <2>8
<1>3. QED
  BY <1>1, <1>2

Places == {"closed", "receive", "asked", "read"}

LEMMA ConnIs ==
  ASSUME NEW o \in ConnValues
  PROVE  /\ o.at \in Places /\ o.gone \in BOOLEAN /\ o.auth \in BOOLEAN
         /\ o.got \in Nat /\ o.seen \in Nat
  BY DEF ConnValues, Places

LEMMA ConnAuth ==
  ASSUME NEW o \in ConnValues, NEW b \in BOOLEAN
  PROVE  \E x \in ConnValues :
           /\ x = [o EXCEPT !.auth = b]
           /\ x.at = o.at /\ x.gone = o.gone /\ x.auth = b
           /\ x.got = o.got /\ x.seen = o.seen
<1>1. PICK x : x = [o EXCEPT !.auth = b]
  OBVIOUS
<1>2. x \in ConnValues
  BY <1>1 DEF ConnValues, Places
<1>3. /\ x.at = o.at /\ x.gone = o.gone /\ x.auth = b
      /\ x.got = o.got /\ x.seen = o.seen
  BY <1>1 DEF ConnValues, Places
<1>4. QED
  BY <1>1, <1>2, <1>3

LEMMA ConnGone ==
  ASSUME NEW o \in ConnValues, NEW b \in BOOLEAN
  PROVE  \E x \in ConnValues :
           /\ x = [o EXCEPT !.gone = b]
           /\ x.at = o.at /\ x.gone = b /\ x.auth = o.auth
           /\ x.got = o.got /\ x.seen = o.seen
<1>1. PICK x : x = [o EXCEPT !.gone = b]
  OBVIOUS
<1>2. x \in ConnValues
  BY <1>1 DEF ConnValues, Places
<1>3. /\ x.at = o.at /\ x.gone = b /\ x.auth = o.auth
      /\ x.got = o.got /\ x.seen = o.seen
  BY <1>1 DEF ConnValues, Places
<1>4. QED
  BY <1>1, <1>2, <1>3

LEMMA ConnSeen ==
  ASSUME NEW o \in ConnValues, NEW n \in Nat
  PROVE  \E x \in ConnValues :
           /\ x = [o EXCEPT !.seen = n]
           /\ x.at = o.at /\ x.gone = o.gone /\ x.auth = o.auth
           /\ x.got = o.got /\ x.seen = n
<1>1. PICK x : x = [o EXCEPT !.seen = n]
  OBVIOUS
<1>2. x \in ConnValues
  BY <1>1 DEF ConnValues, Places
<1>3. /\ x.at = o.at /\ x.gone = o.gone /\ x.auth = o.auth
      /\ x.got = o.got /\ x.seen = n
  BY <1>1 DEF ConnValues, Places
<1>4. QED
  BY <1>1, <1>2, <1>3

LEMMA ClosedIs ==
  /\ Closed \in ConnValues /\ Closed.at = "closed" /\ ~Closed.gone /\ ~Closed.auth
  /\ Closed.got = 0 /\ Closed.seen = 0
  BY DEF Closed, ConnValues

\* A connection that is registered no more: it is as `now` says, but subscribed
\* to nothing, and its probe is stopped if it was the last.
LEMMA UnregisterDoes ==
  ASSUME ConstantsFit, TypeOK, NEW c \in Conns, NEW now \in ConnValues, NEW fp \in Nat,
         unregister(c, now, fp)
  PROVE  /\ conn' \in [Conns -> ConnValues] /\ conns' = conns \ {c}
         /\ \A d \in Conns : d # c => conn'[d] = conn[d]
         /\ ~conn'[c].auth /\ conn'[c].at = now.at /\ conn'[c].gone = now.gone
         /\ conn'[c].got = now.got /\ conn'[c].seen = now.seen
         /\ conn[c].auth => _maybe_stop_auth_probe(conn', conns', fp)
         /\ ~conn[c].auth => print' = fp /\ task' = task /\ probe' = probe
         /\ Subscribed(conn', conns') = Subscribed(conn, conns) \ {c}
<1>1. PICK o \in ConnValues : o = [now EXCEPT !.auth = FALSE] /\ ~o.auth /\ o.at = now.at
        /\ o.gone = now.gone /\ o.got = now.got /\ o.seen = now.seen
  BY ConnAuth
<1>2. conn' = [conn EXCEPT ![c] = o] /\ conns' = conns \ {c}
  BY <1>1 DEF unregister
<1>3. conn' \in [Conns -> ConnValues] /\ conn'[c] = o /\ \A d \in Conns : d # c => conn'[d] = conn[d]
  BY <1>2 DEF TypeOK
<1>4. Subscribed(conn', conns') = Subscribed(conn, conns) \ {c}
  BY <1>2, <1>3 DEF Subscribed, TypeOK
<1>5. /\ conn[c].auth => _maybe_stop_auth_probe(conn', conns', fp)
      /\ ~conn[c].auth => print' = fp /\ task' = task /\ probe' = probe
  BY DEF unregister
<1>6. QED
  BY <1>1, <1>2, <1>3, <1>4, <1>5

------------------------------------------------------------------------------
(* What the steps keep, by what they do to the probes.                        *)

Probing == OneProbe /\ TaskIsLive /\ SubscribersAreProbed /\ ProbeHasReason

\* A step that leaves the probes alone, or stops the one of a token nobody has
\* subscribed any more.
LEMMA ProbingKept ==
  ASSUME ConstantsFit, TypeOK, Probing, strays \subseteq strays',
         session' # Dead => session # Dead,
         Subscribed(conn', conns') # {} => Subscribed(conn, conns) # {},
         task' # None => \E c \in Conns : conn'[c].auth,
         \/ task' = task /\ probe' = probe
         \/ _maybe_stop_auth_probe(conn', conns', print)
         \/ \E fp \in Nat : _maybe_stop_auth_probe(conn', conns', fp)
  PROVE  Probing'
<1>1. CASE task' = task /\ probe' = probe
  BY <1>1 DEF Probing, OneProbe, TaskIsLive, SubscribersAreProbed, ProbeHasReason, Live
<1>2. ASSUME NEW fp \in Nat, _maybe_stop_auth_probe(conn', conns', fp) PROVE Probing'
  <2>1. CASE Subscribed(conn', conns') # {}
    <3>1. task' = task /\ probe' = probe
      BY <1>2, <2>1, StopDoes
    <3>2. QED
      BY <1>1, <3>1
  <2>2. CASE Subscribed(conn', conns') = {}
    <3>1. /\ task' = None
          /\ \A p \in Probes : p # task => probe'[p] = probe[p]
          /\ task # None => probe'[task].at \in {"over", "cancelled"}
      BY <1>2, <2>2, StopDoes
    <3>2. Live' = Live \ {task}
      BY <3>1 DEF Live, ConstantsFit
    <3>3. QED
      BY <2>2, <3>1, <3>2 DEF Probing, OneProbe, TaskIsLive, SubscribersAreProbed, ProbeHasReason
  <2>3. QED
    BY <2>1, <2>2
<1>3. print \in Nat
  BY DEF TypeOK
<1>4. QED
  BY <1>1, <1>2, <1>3

\* A step that begins a probe, or finds one, for who subscribes.
LEMMA ProbingEnsured ==
  ASSUME ConstantsFit, TypeOK, Probing, strays' = strays, session' = session,
         _ensure_auth_probe, \E c \in Conns : conn'[c].auth
  PROVE  Probing'
<1>1. /\ task' \in Probes
      /\ task # None => task' = task /\ probe' = probe
      /\ task = None => probe[task'] = Over /\ probe'[task'].at = "new"
      /\ \A p \in Probes : p # task' => probe'[p] = probe[p]
  BY EnsureDoes
<1>2. Live' = Live \cup {task'}
  <2>1. CASE task # None
    BY <1>1, <2>1 DEF Probing, TaskIsLive, Live
  <2>2. CASE task = None
    BY <1>1, <2>2 DEF Live
  <2>3. QED
    BY <2>1, <2>2
<1>3. task' # None
  BY <1>1 DEF ConstantsFit
<1>4. OneProbe'
  BY <1>1, <1>2, <1>3 DEF Probing, OneProbe
<1>5. TaskIsLive' /\ SubscribersAreProbed' /\ ProbeHasReason'
  BY <1>2 DEF TaskIsLive, SubscribersAreProbed, ProbeHasReason
<1>6. QED
  BY <1>4, <1>5 DEF Probing

\* A step of a probe that goes on.
LEMMA ProbingGoesOn ==
  ASSUME ConstantsFit, TypeOK, Probing, strays \subseteq strays', session' = session,
         conn' = conn, conns' = conns, task' = task,
         NEW p \in Probes, probe[p].at \notin {"over", "cancelled"},
         \A q \in Probes : q # p => probe'[q] = probe[q],
         probe'[p].at \notin {"over", "cancelled"}
  PROVE  Probing'
<1>1. Live' = Live
  BY DEF Live
<1>2. QED
  BY <1>1 DEF Probing, OneProbe, TaskIsLive, SubscribersAreProbed, ProbeHasReason

\* The end of a probe: nobody needs it, or it could not go on.
LEMMA ProbeEndsKeeps ==
  ASSUME ConstantsFit, TypeOK, Probing, NEW p \in Probes, NEW how \in SUBSET {"died"},
         ProbeEnds(p, how),
         \/ probe[p].at = "cancelled" \/ how = {"died"}
         \/ Subscribed(conn, conns) = {} \/ session = Dead
  PROVE  /\ TypeOK' <=> left' \in [turns : Nat, acts : Nat, fails : Nat]
         /\ probe' \in [Probes -> ProbeValues]
         /\ \A q \in Probes : probe'[q].got \in {0, probe[q].got}
         /\ print' = 0 /\ strays \subseteq strays' /\ Probing'
<1>1. /\ probe' = [probe EXCEPT ![p] = Over] /\ task' = None /\ print' = 0
      /\ strays' = strays \cup how \cup (IF task \in {None, p} THEN {} ELSE {"popped"})
      /\ UNCHANGED <<session, conn, conns, redis, ready>>
  BY DEF ProbeEnds, events
<1>2. /\ probe' \in [Probes -> ProbeValues] /\ probe'[p] = Over
      /\ \A q \in Probes : q # p => probe'[q] = probe[q]
      /\ \A q \in Probes : probe[q].got \in Nat
  BY <1>1, OverIs DEF TypeOK, ProbeValues
<1>3. strays' \subseteq Strays /\ strays \subseteq strays'
  BY <1>1 DEF TypeOK, Strays
<1>4. TypeOK' <=> left' \in [turns : Nat, acts : Nat, fails : Nat]
  BY <1>1, <1>2, <1>3 DEF TypeOK
<1>5. Live' = Live \ {p}
  BY <1>2, OverIs DEF Live
<1>6. OneProbe'
  <2>1. SUFFICES ASSUME "popped" \notin strays' PROVE Live' = {}
    BY <1>1 DEF OneProbe
  <2>2. task \in {None, p} /\ "popped" \notin strays
    BY <1>1, <2>1
  <2>3. Live \subseteq {p}
    BY <2>2 DEF Probing, OneProbe
  <2>4. QED
    BY <1>5, <2>3
<1>7. SubscribersAreProbed'
  <2>1. CASE probe[p].at = "cancelled"
    <3>1. p \notin Live
      BY <2>1 DEF Live
    <3>2. QED
      BY <1>1, <1>3, <1>5, <3>1 DEF Probing, SubscribersAreProbed
  <2>2. CASE how = {"died"}
    BY <1>1, <2>2 DEF SubscribersAreProbed
  <2>3. CASE Subscribed(conn, conns) = {} \/ session = Dead
    BY <1>1, <2>3 DEF SubscribersAreProbed
  <2>4. QED
    BY <2>1, <2>2, <2>3
<1>8. TaskIsLive' /\ ProbeHasReason'
  BY <1>1 DEF TaskIsLive, ProbeHasReason
<1>9. QED
  BY <1>1, <1>2, <1>3, <1>4, <1>6, <1>7, <1>8, OverIs DEF Probing

------------------------------------------------------------------------------
(* What the steps keep of the invariant's other parts.                        *)

LeftValues == [turns : Nat, acts : Nat, fails : Nat]

LEMMA SpendTyped ==
  ASSUME TypeOK, NEW what \in {"turns", "acts", "fails"}, Spend(what)
  PROVE  left' \in LeftValues
<1>1. left \in LeftValues /\ left[what] \in Nat /\ left[what] > 0
  BY DEF TypeOK, LeftValues, Spend
<1>2. PICK n \in Nat : n = left[what] - 1
  BY <1>1
<1>3. left' = [left EXCEPT ![what] = n]
  BY <1>2 DEF Spend
<1>4. QED
  BY <1>1, <1>2, <1>3 DEF LeftValues

LEMMA ComingStays == ASSUME UNCHANGED events PROVE Coming' = Coming
  BY DEF events, Coming, Members

LEMMA PastKept ==
  ASSUME TypeOK, Past, session' = session, print' \in {0, print},
         \A c \in Conns : conn'[c].got \in {0, conn[c].got},
         \A p \in Probes : probe'[p].got \in {0, probe[p].got},
         Coming' \subseteq Coming
  PROVE  Past'
<1>1. session # Dead => session \in Nat
  BY DEF TypeOK
<1>2. session # Dead => print' <= session
  BY <1>1 DEF Past
<1>3. session # Dead => \A c \in Conns : conn'[c].got <= session
  BY <1>1 DEF Past
<1>4. session # Dead => \A p \in Probes : probe'[p].got <= session
  BY <1>1 DEF Past
<1>5. session # Dead => \A v \in Coming' : v <= session
  BY DEF Past
<1>6. QED
  BY <1>2, <1>3, <1>4, <1>5 DEF Past

LEMMA AwaitedKept ==
  ASSUME ConstantsFit, TypeOK, Awaited, session' = session, strays \subseteq strays',
         Coming' = Coming, print' \in {0, print},
         \A d \in Subscribed(conn', conns') :
           conn'[d].at = "receive" /\ ~conn'[d].gone =>
             /\ d \in Subscribed(conn, conns)
             /\ conn[d].at = "receive" /\ ~conn[d].gone /\ conn'[d].seen = conn[d].seen
  PROVE  Awaited'
<1>1. session # 0
  BY DEF TypeOK, ConstantsFit
<1>2. SUFFICES ASSUME print' = session, strays' \cap Missed = {}
      PROVE  \A d \in Subscribed(conn', conns') :
               conn'[d].at = "receive" /\ ~conn'[d].gone =>
                 conn'[d].seen = session \/ session \in Coming
  BY DEF Awaited
<1>3. print = session /\ strays \cap Missed = {}
  BY <1>1, <1>2
<1>4. QED
  BY <1>3 DEF Awaited

\* What follows when a connection is registered no more.
LEMMA UnregisterKeeps ==
  ASSUME ConstantsFit, Inv, NEW c \in Conns, NEW now \in ConnValues, NEW fp \in Nat,
         unregister(c, now, fp), session' = session, UNCHANGED events,
         strays \subseteq strays', strays' \subseteq Strays, left' \in LeftValues,
         now.got \in {0, conn[c].got}, session # Dead => fp <= session,
         \/ fp = print \/ Subscribed(conn, conns) \ {c} = {} \/ "skipped" \in strays'
  PROVE  Inv'
<1>1. TypeOK /\ Past /\ ClosedAreSilent /\ Probing /\ Awaited
  BY DEF Inv, Probing
<1>2. /\ conn' \in [Conns -> ConnValues] /\ conns' = conns \ {c}
      /\ \A d \in Conns : d # c => conn'[d] = conn[d]
      /\ ~conn'[c].auth /\ conn'[c].got = now.got
      /\ conn[c].auth => _maybe_stop_auth_probe(conn', conns', fp)
      /\ ~conn[c].auth => print' = fp /\ task' = task /\ probe' = probe
      /\ Subscribed(conn', conns') = Subscribed(conn, conns) \ {c}
  BY <1>1, UnregisterDoes
<1>3. /\ task' \in Probes \cup {None} /\ print' \in {0, fp}
      /\ probe' \in [Probes -> ProbeValues]
      /\ \A p \in Probes : probe'[p].got \in {0, probe[p].got}
  <2>1. CASE conn[c].auth
    <3>1. _maybe_stop_auth_probe(conn', conns', fp)
      BY <1>2, <2>1
    <3>2. QED
      BY <1>1, <3>1, StopDoes
  <2>2. CASE ~conn[c].auth
    BY <1>1, <1>2, <2>2 DEF TypeOK
  <2>3. QED
    BY <2>1, <2>2
<1>4. TypeOK'
  BY <1>1, <1>2, <1>3 DEF TypeOK, LeftValues, events
<1>5. Past'
  <2>1. Coming' = Coming
    BY ComingStays
  <2>2. \A d \in Conns : conn'[d].got \in {0, conn[d].got}
    BY <1>2
  <2>3. session # Dead => session \in Nat /\ print' <= session
    BY <1>1, <1>3 DEF TypeOK
  <2>4. session # Dead => \A d \in Conns : conn'[d].got <= session
    BY <1>1, <2>2, <2>3 DEF Past
  <2>5. session # Dead => \A p \in Probes : probe'[p].got <= session
    BY <1>1, <1>3, <2>3 DEF Past
  <2>6. QED
    BY <1>1, <2>1, <2>3, <2>4, <2>5 DEF Past
<1>6. ClosedAreSilent'
  BY <1>1, <1>2 DEF ClosedAreSilent
<1>7. Probing'
  <2>1. task' # None => \E d \in Conns : conn'[d].auth
    <3>1. CASE conn[c].auth
      <4>1. task' # None => Subscribed(conn', conns') # {}
        BY <1>1, <1>2, <3>1, StopDoes
      <4>2. QED
        BY <1>1, <1>2, <4>1 DEF Subscribed, TypeOK
    <3>2. CASE ~conn[c].auth
      BY <1>1, <1>2, <3>2 DEF Probing, ProbeHasReason
    <3>3. QED
      BY <3>1, <3>2
  <2>2. \/ task' = task /\ probe' = probe
        \/ \E f \in Nat : _maybe_stop_auth_probe(conn', conns', f)
    BY <1>2
  <2>3. Subscribed(conn', conns') # {} => Subscribed(conn, conns) # {}
    BY <1>2
  <2>4. QED
    BY <1>1, <2>1, <2>2, <2>3, ProbingKept
<1>8. Awaited'
  <2>1. SUFFICES ASSUME print' = session, strays' \cap Missed = {},
                        NEW d \in Subscribed(conn', conns'),
                        conn'[d].at = "receive", ~conn'[d].gone
        PROVE  conn'[d].seen = session \/ session \in Coming
    BY ComingStays DEF Awaited
  <2>2. d \in Subscribed(conn, conns) /\ d # c /\ d \in Conns
    BY <1>1, <1>2 DEF Subscribed, TypeOK
  <2>3. fp = print
    BY <2>1, <2>2 DEF Missed
  <2>4. session # 0
    BY <1>1 DEF TypeOK, ConstantsFit
  <2>5. print = session /\ strays \cap Missed = {}
    BY <1>3, <2>1, <2>3, <2>4
  <2>6. QED
    BY <1>1, <1>2, <2>1, <2>2, <2>5 DEF Awaited
<1>9. QED
  BY <1>4, <1>5, <1>6, <1>7, <1>8 DEF Inv, Probing

------------------------------------------------------------------------------
(* The steps of a connection.                                                 *)

LEMMA realtime_wsKeeps ==
  ASSUME ConstantsFit, Inv, NEW c \in Conns, realtime_ws(c) PROVE Inv'
<1>1. TypeOK /\ Past /\ ClosedAreSilent /\ Probing /\ Awaited
  BY DEF Inv, Probing
<1>2. PICK o \in ConnValues : o = [Closed EXCEPT !.at = "receive"] /\ o.at = "receive"
        /\ ~o.auth /\ o.got = 0
  <2>1. PICK x : x = [Closed EXCEPT !.at = "receive"]
    OBVIOUS
  <2>2. x \in ConnValues /\ x.at = "receive" /\ ~x.auth /\ x.got = 0
    BY <2>1 DEF Closed, ConnValues
  <2>3. QED
    BY <2>1, <2>2
<1>3. /\ conn[c].at = "closed"
      /\ conn' = [conn EXCEPT ![c] = o] /\ conns' = conns \cup {c}
      /\ UNCHANGED <<session, probing, events, strays, left>>
  BY <1>2 DEF realtime_ws
<1>4. /\ conn' \in [Conns -> ConnValues] /\ conn'[c] = o
      /\ \A d \in Conns : d # c => conn'[d] = conn[d]
  BY <1>1, <1>3 DEF TypeOK
<1>5. ~conn[c].auth
  BY <1>1, <1>3 DEF ClosedAreSilent
<1>6. Subscribed(conn', conns') = Subscribed(conn, conns)
  BY <1>1, <1>2, <1>3, <1>4, <1>5 DEF Subscribed, TypeOK
<1>7. TypeOK'
  BY <1>1, <1>3, <1>4 DEF TypeOK, probing, events
<1>8. Past'
  <2>1. \A d \in Conns : conn'[d].got \in {0, conn[d].got}
    BY <1>2, <1>4
  <2>2. QED
    BY <1>1, <1>3, <2>1, ComingStays, PastKept DEF probing
<1>9. ClosedAreSilent'
  BY <1>1, <1>2, <1>4 DEF ClosedAreSilent
<1>10. Probing'
  <2>1. task' # None => \E d \in Conns : conn'[d].auth
    BY <1>1, <1>3, <1>4, <1>5 DEF Probing, ProbeHasReason, probing
  <2>2. QED
    BY <1>1, <1>3, <1>6, <2>1, ProbingKept DEF probing
<1>11. Awaited'
  <2>1. c \notin Subscribed(conn, conns)
    BY <1>5 DEF Subscribed
  <2>2. \A d \in Subscribed(conn', conns') : d \in Conns /\ conn'[d] = conn[d]
    BY <1>1, <1>4, <1>6, <2>1 DEF Subscribed, TypeOK
  <2>3. QED
    BY <1>1, <1>3, <1>6, <2>2, ComingStays, AwaitedKept DEF probing
<1>12. QED
  BY <1>7, <1>8, <1>9, <1>10, <1>11 DEF Inv, Probing

\* A connection changes, but neither what is registered nor the probes.
LEMMA ConnStepKeeps ==
  ASSUME ConstantsFit, Inv, NEW c \in Conns, NEW o \in ConnValues,
         conn' = [conn EXCEPT ![c] = o], conns' = conns, left' \in LeftValues,
         UNCHANGED <<session, probing, events, strays>>,
         o.auth = conn[c].auth, conn[c].at # "closed", o.at # "closed",
         session # Dead => o.got <= session, o.at = "receive" /\ ~o.gone =>
           conn[c].at = "receive" /\ ~conn[c].gone /\ o.seen = conn[c].seen
  PROVE  Inv'
<1>1. TypeOK /\ Past /\ ClosedAreSilent /\ Probing /\ Awaited
  BY DEF Inv, Probing
<1>2. /\ conn' \in [Conns -> ConnValues] /\ conn'[c] = o
      /\ \A d \in Conns : d # c => conn'[d] = conn[d]
  BY <1>1 DEF TypeOK
<1>3. Subscribed(conn', conns') = Subscribed(conn, conns)
  BY <1>1, <1>2 DEF Subscribed, TypeOK
<1>4. TypeOK'
  BY <1>1, <1>2 DEF TypeOK, LeftValues, probing, events
<1>5. Past'
  <2>1. session # Dead => \A d \in Conns : conn'[d].got <= session
    BY <1>1, <1>2 DEF Past
  <2>2. QED
    BY <1>1, <2>1, ComingStays DEF Past, probing
<1>6. ClosedAreSilent'
  BY <1>1, <1>2 DEF ClosedAreSilent
<1>7. Probing'
  <2>1. task' # None => \E d \in Conns : conn'[d].auth
    BY <1>1, <1>2 DEF Probing, ProbeHasReason, probing
  <2>2. QED
    BY <1>1, <1>3, <2>1, ProbingKept DEF probing
<1>8. Awaited'
  <2>1. ASSUME NEW d \in Subscribed(conn', conns'),
               conn'[d].at = "receive", ~conn'[d].gone
        PROVE  /\ d \in Subscribed(conn, conns)
               /\ conn[d].at = "receive" /\ ~conn[d].gone /\ conn'[d].seen = conn[d].seen
    <3>1. d \in Conns /\ d \in Subscribed(conn, conns)
      BY <1>1, <1>3, <2>1 DEF Subscribed, TypeOK
    <3>2. CASE d = c
      BY <1>2, <2>1, <3>1, <3>2
    <3>3. CASE d # c
      BY <1>2, <2>1, <3>1, <3>3
    <3>4. QED
      BY <3>2, <3>3
  <2>2. QED
    BY <1>1, <2>1, ComingStays, AwaitedKept DEF probing
<1>9. QED
  BY <1>4, <1>5, <1>6, <1>7, <1>8 DEF Inv, Probing

LEMMA LeavesKeeps ==
  ASSUME ConstantsFit, Inv, NEW c \in Conns, Leaves(c) PROVE Inv'
<1>1. TypeOK /\ Past /\ conn[c] \in ConnValues
  BY DEF Inv, TypeOK
<1>2. PICK o \in ConnValues : o = [conn[c] EXCEPT !.gone = TRUE] /\ o.gone /\ o.at = conn[c].at
        /\ o.auth = conn[c].auth /\ o.got = conn[c].got /\ o.seen = conn[c].seen
  BY <1>1, ConnGone
<1>3. conn' = [conn EXCEPT ![c] = o] /\ conn[c].at # "closed"
      /\ UNCHANGED <<session, conns, probing, events, strays>>
  BY <1>2 DEF Leaves
<1>4. left' \in LeftValues
  BY <1>1, SpendTyped DEF Leaves
<1>5. session # Dead => o.got <= session
  BY <1>1, <1>2 DEF Past
<1>6. QED
  BY <1>2, <1>3, <1>4, <1>5, ConnStepKeeps

\* A handler ends.
LEMMA EndsKeeps ==
  ASSUME ConstantsFit, Inv, NEW c \in Conns, Ends(c), left' \in LeftValues
  PROVE  Inv'
<1>1. TypeOK /\ Past
  BY DEF Inv
<1>2. /\ unregister(c, Closed, print) /\ session' = session /\ UNCHANGED events
      /\ strays \subseteq strays' /\ strays' \subseteq Strays /\ print \in Nat
      /\ session # Dead => print <= session
  BY <1>1 DEF Ends, TypeOK, Past
<1>3. QED
  BY <1>2, ClosedIs, UnregisterKeeps

LEMMA subscribeKeeps ==
  ASSUME ConstantsFit, Inv, NEW c \in Conns, subscribe(c) PROVE Inv'
<1>1. TypeOK /\ Past /\ ClosedAreSilent /\ Probing /\ Awaited /\ conn[c] \in ConnValues
  BY DEF Inv, Probing, TypeOK
<1>2. PICK o \in ConnValues : o = [conn[c] EXCEPT !.auth = TRUE, !.at = "asked"] /\ o.auth
        /\ o.at = "asked" /\ o.got = conn[c].got
  <2>1. PICK x : x = [conn[c] EXCEPT !.auth = TRUE, !.at = "asked"]
    OBVIOUS
  <2>2. PICK y \in ConnValues : y = conn[c]
    BY <1>1
  <2>3. x \in ConnValues
    BY <2>1, <2>2 DEF ConnValues
  <2>4. x.auth /\ x.at = "asked" /\ x.got = y.got
    BY <2>1, <2>2 DEF ConnValues
  <2>5. QED
    BY <2>1, <2>2, <2>3, <2>4
<1>3. /\ conn' = [conn EXCEPT ![c] = o] /\ _ensure_auth_probe
      /\ UNCHANGED <<session, conns, print, events, strays>>
  <2>1. conn' = [[conn EXCEPT ![c].auth = TRUE] EXCEPT ![c].at = "asked"]
    BY <1>1 DEF subscribe, TypeOK
  <2>2. conn' = [conn EXCEPT ![c] = [conn[c] EXCEPT !.auth = TRUE, !.at = "asked"]]
    BY <1>1, <2>1 DEF TypeOK
  <2>3. QED
    BY <1>2, <2>2 DEF subscribe
<1>4. /\ conn' \in [Conns -> ConnValues] /\ conn'[c] = o
      /\ \A d \in Conns : d # c => conn'[d] = conn[d]
  BY <1>1, <1>3 DEF TypeOK
<1>5. /\ task' \in Probes /\ probe' \in [Probes -> ProbeValues]
      /\ \A p \in Probes : probe'[p].got = probe[p].got
  BY <1>1, <1>3, EnsureDoes
<1>6. left' \in LeftValues
  BY <1>1, SpendTyped DEF subscribe
<1>7. TypeOK'
  BY <1>1, <1>3, <1>4, <1>5, <1>6 DEF TypeOK, LeftValues, events
<1>8. Past'
  <2>1. \A d \in Conns : conn'[d].got \in {0, conn[d].got}
    BY <1>2, <1>4
  <2>2. QED
    BY <1>1, <1>3, <1>5, <2>1, ComingStays, PastKept
<1>9. ClosedAreSilent'
  BY <1>1, <1>2, <1>4 DEF ClosedAreSilent
<1>10. Probing'
  BY <1>1, <1>2, <1>3, <1>4, ProbingEnsured
<1>11. Awaited'
  <2>1. \A d \in Subscribed(conn', conns') :
           conn'[d].at = "receive" /\ ~conn'[d].gone =>
             /\ d \in Subscribed(conn, conns)
             /\ conn[d].at = "receive" /\ ~conn[d].gone /\ conn'[d].seen = conn[d].seen
    BY <1>1, <1>2, <1>3, <1>4 DEF Subscribed, TypeOK
  <2>2. QED
    BY <1>1, <1>3, <2>1, ComingStays, AwaitedKept
<1>12. QED
  BY <1>7, <1>8, <1>9, <1>10, <1>11 DEF Inv, Probing

LEMMA unsubscribeKeeps ==
  ASSUME ConstantsFit, Inv, NEW c \in Conns, unsubscribe(c) PROVE Inv'
<1>1. TypeOK /\ Past /\ ClosedAreSilent /\ Probing /\ Awaited /\ conn[c] \in ConnValues
      /\ print \in Nat
  BY DEF Inv, Probing, TypeOK
<1>2. PICK o \in ConnValues : o = [conn[c] EXCEPT !.auth = FALSE] /\ ~o.auth
        /\ o.at = conn[c].at /\ o.gone = conn[c].gone /\ o.got = conn[c].got
        /\ o.seen = conn[c].seen
  BY <1>1, ConnAuth
<1>3. /\ conn[c].at = "receive" /\ conn[c].auth
      /\ conn' = [conn EXCEPT ![c] = o] /\ conns' \in {conns, conns \ {c}}
      /\ UNCHANGED <<session, events, strays>>
  BY <1>2 DEF unsubscribe
<1>4. /\ conn' \in [Conns -> ConnValues] /\ conn'[c] = o
      /\ \A d \in Conns : d # c => conn'[d] = conn[d]
  BY <1>1, <1>3 DEF TypeOK
<1>5. /\ Subscribed(conn', conns') = Subscribed(conn, conns) \ {c}
      /\ Subscribed(conn', conns) = Subscribed(conn, conns) \ {c}
  BY <1>1, <1>2, <1>3, <1>4 DEF Subscribed, TypeOK
<1>6. _maybe_stop_auth_probe(conn', conns', print)
  <2>1. _maybe_stop_auth_probe(conn', conns, print)
    BY DEF unsubscribe
  <2>2. QED
    BY <1>5, <2>1 DEF _maybe_stop_auth_probe
<1>7. /\ task' \in Probes \cup {None} /\ print' \in {0, print}
      /\ probe' \in [Probes -> ProbeValues]
      /\ \A p \in Probes : probe'[p].got \in {0, probe[p].got}
  BY <1>1, <1>6, StopDoes
<1>8. left' \in LeftValues
  BY <1>1, SpendTyped DEF unsubscribe
<1>9. TypeOK'
  BY <1>1, <1>3, <1>4, <1>7, <1>8 DEF TypeOK, LeftValues, events
<1>10. Past'
  <2>1. \A d \in Conns : conn'[d].got \in {0, conn[d].got}
    BY <1>2, <1>4
  <2>2. QED
    BY <1>1, <1>3, <1>7, <2>1, ComingStays, PastKept
<1>11. ClosedAreSilent'
  BY <1>1, <1>2, <1>4 DEF ClosedAreSilent
<1>12. Probing'
  <2>1. task' # None => Subscribed(conn', conns') # {}
    BY <1>1, <1>6, StopDoes
  <2>2. task' # None => \E d \in Conns : conn'[d].auth
    BY <1>1, <1>3, <2>1 DEF Subscribed, TypeOK
  <2>3. QED
    BY <1>1, <1>3, <1>5, <1>6, <2>2, ProbingKept
<1>13. Awaited'
  <2>1. \A d \in Subscribed(conn', conns') :
           d \in Subscribed(conn, conns) /\ conn'[d] = conn[d]
    BY <1>1, <1>4, <1>5 DEF Subscribed, TypeOK
  <2>2. QED
    BY <1>1, <1>3, <1>7, <2>1, ComingStays, AwaitedKept
<1>14. QED
  BY <1>9, <1>10, <1>11, <1>12, <1>13 DEF Inv, Probing

LEMMA RefreshedKeeps ==
  ASSUME ConstantsFit, Inv, NEW c \in Conns, Refreshed(c) PROVE Inv'
<1>1. TypeOK /\ Past /\ conn[c] \in ConnValues
  BY DEF Inv, TypeOK
<1>2. /\ conn[c].at = "asked" /\ UNCHANGED <<session, events, strays, left>>
      /\ left' \in LeftValues /\ strays' \subseteq Strays
  BY <1>1 DEF Refreshed, TypeOK, LeftValues
<1>3. CASE session = Dead
  <2>1. PICK o \in ConnValues : o = [conn[c] EXCEPT !.gone = TRUE, !.at = "receive"]
          /\ o.got = conn[c].got
    <3>1. PICK x : x = [conn[c] EXCEPT !.gone = TRUE, !.at = "receive"]
      OBVIOUS
    <3>2. PICK y \in ConnValues : y = conn[c]
      BY <1>1
    <3>3. x \in ConnValues
      BY <3>1, <3>2 DEF ConnValues
    <3>4. x.got = y.got
      BY <3>1, <3>2 DEF ConnValues
    <3>5. QED
      BY <3>1, <3>2, <3>3, <3>4
  <2>2. unregister(c, o, print) /\ print \in Nat
    BY <1>1, <1>3, <2>1 DEF Refreshed, TypeOK
  <2>3. QED
    BY <1>2, <1>3, <2>1, <2>2, UnregisterKeeps
<1>4. CASE session # Dead
  <2>1. session \in Nat
    BY <1>1, <1>4 DEF TypeOK
  <2>2. PICK o \in ConnValues : o = [conn[c] EXCEPT !.at = "read", !.got = session]
          /\ o.at = "read" /\ o.got = session /\ o.auth = conn[c].auth
    <3>1. PICK x : x = [conn[c] EXCEPT !.at = "read", !.got = session]
      OBVIOUS
    <3>2. PICK y \in ConnValues : y = conn[c]
      BY <1>1
    <3>3. x \in ConnValues
      BY <2>1, <3>1, <3>2 DEF ConnValues
    <3>4. x.at = "read" /\ x.got = session /\ x.auth = y.auth
      BY <3>1, <3>2 DEF ConnValues
    <3>5. QED
      BY <3>1, <3>2, <3>3, <3>4
  <2>3. conn' = [conn EXCEPT ![c] = o] /\ UNCHANGED <<conns, probing>>
    <3>1. conn' = [[conn EXCEPT ![c].got = session] EXCEPT ![c].at = "read"]
      BY <1>1, <1>4 DEF Refreshed, TypeOK
    <3>2. PICK y \in ConnValues : y = conn[c]
      BY <1>1
    <3>3. [[y EXCEPT !.got = session] EXCEPT !.at = "read"] = o
      BY <2>2, <3>2 DEF ConnValues
    <3>4. conn' = [conn EXCEPT ![c] = [[conn[c] EXCEPT !.got = session] EXCEPT !.at = "read"]]
      BY <1>1, <3>1 DEF TypeOK
    <3>5. QED
      BY <1>4, <3>2, <3>3, <3>4 DEF Refreshed
  <2>4. /\ o.at # "closed" /\ o.at # "receive" /\ conn[c].at # "closed" /\ o.got <= session
        /\ UNCHANGED <<session, probing, events, strays>> /\ conns' = conns
    BY <1>2, <2>1, <2>2, <2>3
  <2>5. QED
    BY <1>2, <2>2, <2>3, <2>4, ConnStepKeeps
<1>5. QED
  BY <1>3, <1>4

LEMMA SentIs ==
  ASSUME TypeOK, NEW c \in Conns, NEW v \in Nat
  PROVE  \E x \in ConnValues :
           /\ x = Sent(c, v) /\ x.at = conn[c].at /\ x.gone = conn[c].gone
           /\ x.auth = conn[c].auth /\ x.got = conn[c].got
           /\ x.seen = IF conn[c].gone THEN conn[c].seen ELSE v
<1>1. PICK y \in ConnValues : y = conn[c]
  BY DEF TypeOK
<1>2. CASE y.gone
  BY <1>1, <1>2 DEF Sent
<1>3. CASE ~y.gone
  <2>1. PICK x \in ConnValues : x = [y EXCEPT !.seen = v] /\ x.seen = v
          /\ x.at = y.at /\ x.gone = y.gone /\ x.auth = y.auth /\ x.got = y.got
    BY ConnSeen
  <2>2. QED
    BY <1>1, <1>3, <2>1 DEF Sent
<1>4. QED
  BY <1>2, <1>3

LEMMA _push_auth_snapshotKeeps ==
  ASSUME ConstantsFit, Inv, NEW c \in Conns, _push_auth_snapshot(c) PROVE Inv'
<1>1. TypeOK /\ Past /\ ClosedAreSilent /\ Probing /\ Awaited /\ conn[c] \in ConnValues
  BY DEF Inv, Probing, TypeOK
<1>2. PICK got \in Nat : got = conn[c].got
  BY <1>1, ConnIs
<1>3. PICK y \in ConnValues :
         /\ y = Sent(c, got) /\ y.at = conn[c].at /\ y.gone = conn[c].gone
         /\ y.auth = conn[c].auth /\ y.got = conn[c].got
         /\ y.seen = IF conn[c].gone THEN conn[c].seen ELSE got
  BY <1>1, SentIs
<1>4. PICK o \in ConnValues : o = [y EXCEPT !.at = "receive", !.got = 0] /\ o.at = "receive"
        /\ o.got = 0 /\ o.auth = y.auth /\ o.gone = y.gone /\ o.seen = y.seen
  <2>1. PICK x : x = [y EXCEPT !.at = "receive", !.got = 0]
    OBVIOUS
  <2>2. x \in ConnValues
    BY <2>1 DEF ConnValues
  <2>3. x.at = "receive" /\ x.got = 0 /\ x.auth = y.auth /\ x.gone = y.gone /\ x.seen = y.seen
    BY <2>1 DEF ConnValues
  <2>4. QED
    BY <2>1, <2>2, <2>3
<1>5. /\ conn[c].at = "read" /\ _send(c, o, got)
      /\ strays' = IF print # got /\ Subscribed(conn, conns) \ {c} # {}
                   THEN strays \cup {"skipped"} ELSE strays
      /\ UNCHANGED <<session, events, left>>
  BY <1>2, <1>3, <1>4 DEF _push_auth_snapshot
<1>6. strays' \subseteq Strays /\ strays \subseteq strays' /\ left' \in LeftValues
  BY <1>1, <1>5 DEF TypeOK, Strays, LeftValues
<1>7. session # Dead => got <= session
  BY <1>1, <1>2 DEF Past
<1>8. \/ got = print \/ Subscribed(conn, conns) \ {c} = {} \/ "skipped" \in strays'
  BY <1>5
<1>9. CASE unregister(c, o, got)
  BY <1>2, <1>4, <1>5, <1>6, <1>7, <1>8, <1>9, UnregisterKeeps
<1>10. CASE conn' = [conn EXCEPT ![c] = o] /\ print' = got /\ UNCHANGED <<conns, task, probe>>
  <2>1. /\ conn' \in [Conns -> ConnValues] /\ conn'[c] = o
        /\ \A d \in Conns : d # c => conn'[d] = conn[d]
    BY <1>1, <1>10 DEF TypeOK
  <2>2. Subscribed(conn', conns') = Subscribed(conn, conns)
    BY <1>1, <1>3, <1>4, <1>10, <2>1 DEF Subscribed, TypeOK
  <2>3. TypeOK'
    BY <1>1, <1>5, <1>6, <1>10, <2>1 DEF TypeOK, LeftValues, events
  <2>4. Past'
    <3>1. session # Dead => \A d \in Conns : conn'[d].got <= session
      <4>1. session # Dead => session \in Nat /\ 0 <= session
        BY <1>1 DEF TypeOK
      <4>2. QED
        BY <1>1, <1>4, <2>1, <4>1 DEF Past
    <3>2. QED
      BY <1>1, <1>5, <1>7, <1>10, <3>1, ComingStays DEF Past
  <2>5. ClosedAreSilent'
    BY <1>1, <1>4, <2>1 DEF ClosedAreSilent
  <2>6. Probing'
    <3>1. task' # None => \E d \in Conns : conn'[d].auth
      BY <1>1, <1>3, <1>4, <1>10, <2>1 DEF Probing, ProbeHasReason
    <3>2. QED
      BY <1>1, <1>5, <1>6, <1>10, <2>2, <3>1, ProbingKept
  <2>7. Awaited'
    <3>1. SUFFICES ASSUME print' = session, strays' \cap Missed = {},
                          NEW d \in Subscribed(conn', conns'),
                          conn'[d].at = "receive", ~conn'[d].gone
          PROVE  conn'[d].seen = session \/ session \in Coming
      BY <1>5, ComingStays DEF Awaited
    <3>2. d \in Subscribed(conn, conns) /\ d \in Conns
      BY <1>1, <2>2, <3>1 DEF Subscribed, TypeOK
    <3>3. CASE d = c
      BY <1>3, <1>4, <1>10, <2>1, <3>1, <3>3
    <3>4. CASE d # c
      <4>1. print = got /\ strays \cap Missed = {}
        BY <1>6, <1>8, <3>1, <3>2, <3>4 DEF Missed
      <4>2. QED
        BY <1>1, <1>10, <2>1, <3>1, <3>2, <3>4, <4>1 DEF Awaited
    <3>5. QED
      BY <3>3, <3>4
  <2>8. QED
    BY <2>3, <2>4, <2>5, <2>6, <2>7 DEF Inv, Probing
<1>11. QED
  BY <1>5, <1>9, <1>10 DEF _send

------------------------------------------------------------------------------
(* The steps of a probe.                                                      *)

\* A probe goes on and nothing else changes.
LEMMA ProbeStepKeeps ==
  ASSUME ConstantsFit, Inv, NEW p \in Probes, NEW o \in ProbeValues,
         probe' = [probe EXCEPT ![p] = o],
         UNCHANGED <<session, conn, conns, task, print, events, strays, left>>,
         probe[p].at \notin {"over", "cancelled"}, o.at \notin {"over", "cancelled"},
         session # Dead => o.got <= session
  PROVE  Inv'
<1>1. TypeOK /\ Past /\ ClosedAreSilent /\ Probing /\ Awaited
  BY DEF Inv, Probing
<1>2. /\ probe' \in [Probes -> ProbeValues] /\ probe'[p] = o
      /\ \A q \in Probes : q # p => probe'[q] = probe[q]
  BY <1>1 DEF TypeOK
<1>3. TypeOK'
  BY <1>1, <1>2 DEF TypeOK, events
<1>4. Past'
  BY <1>1, <1>2, ComingStays DEF Past
<1>5. ClosedAreSilent'
  BY <1>1 DEF ClosedAreSilent
<1>6. Probing'
  BY <1>1, <1>2, ProbingGoesOn
<1>7. Awaited'
  BY <1>1, ComingStays DEF Awaited
<1>8. QED
  BY <1>3, <1>4, <1>5, <1>6, <1>7 DEF Inv, Probing

LEMMA ProbeOverKeeps ==
  ASSUME ConstantsFit, Inv, NEW p \in Probes, NEW how \in SUBSET {"died"},
         ProbeEnds(p, how), left' \in LeftValues,
         \/ probe[p].at = "cancelled" \/ how = {"died"}
         \/ Subscribed(conn, conns) = {} \/ session = Dead
  PROVE  Inv'
<1>1. TypeOK /\ Past /\ ClosedAreSilent /\ Probing /\ Awaited
  BY DEF Inv, Probing
<1>2. /\ TypeOK' /\ \A q \in Probes : probe'[q].got \in {0, probe[q].got}
      /\ print' = 0 /\ strays \subseteq strays' /\ Probing'
  BY <1>1, ProbeEndsKeeps DEF LeftValues
<1>3. UNCHANGED <<session, conn, conns, events>>
  BY DEF ProbeEnds
<1>4. Past'
  BY <1>1, <1>2, <1>3, ComingStays, PastKept
<1>5. ClosedAreSilent'
  BY <1>1, <1>3 DEF ClosedAreSilent
<1>6. Awaited'
  BY <1>1, <1>2, <1>3 DEF Awaited, TypeOK, ConstantsFit
<1>7. QED
  BY <1>2, <1>4, <1>5, <1>6 DEF Inv, Probing

LEMMA RunsKeeps ==
  ASSUME ConstantsFit, Inv, NEW p \in Probes, Runs(p) PROVE Inv'
<1>1. Past /\ probe[p] \in ProbeValues
  BY DEF Inv, TypeOK
<1>2. PICK o \in ProbeValues : o = [probe[p] EXCEPT !.at = "sleep"] /\ o.at = "sleep"
        /\ o.got = probe[p].got
  BY <1>1, ProbeAt
<1>3. /\ probe[p].at = "new" /\ probe' = [probe EXCEPT ![p] = o]
      /\ UNCHANGED <<session, conn, conns, task, print, events, strays, left>>
  BY <1>2 DEF Runs
<1>4. session # Dead => o.got <= session
  BY <1>1, <1>2 DEF Past
<1>5. QED
  BY <1>2, <1>3, <1>4, ProbeStepKeeps

LEMMA WakesKeeps ==
  ASSUME ConstantsFit, Inv, NEW p \in Probes, Wakes(p) PROVE Inv'
<1>1. Past /\ probe[p] \in ProbeValues /\ left \in LeftValues
  BY DEF Inv, TypeOK, LeftValues
<1>2. CASE Subscribed(conn, conns) = {}
  BY <1>1, <1>2, ProbeOverKeeps DEF Wakes
<1>3. CASE Subscribed(conn, conns) # {}
  <2>1. PICK o \in ProbeValues : o = [probe[p] EXCEPT !.at = "asked"] /\ o.at = "asked"
          /\ o.got = probe[p].got
    BY <1>1, ProbeAt
  <2>2. /\ probe[p].at = "sleep" /\ probe' = [probe EXCEPT ![p] = o]
        /\ UNCHANGED <<session, conn, conns, task, print, events, strays, left>>
    BY <1>3, <2>1 DEF Wakes
  <2>3. session # Dead => o.got <= session
    BY <1>1, <2>1 DEF Past
  <2>4. QED
    BY <2>1, <2>2, <2>3, ProbeStepKeeps
<1>4. QED
  BY <1>2, <1>3

LEMMA ProbeRefreshedKeeps ==
  ASSUME ConstantsFit, Inv, NEW p \in Probes, ProbeRefreshed(p) PROVE Inv'
<1>1. left \in LeftValues /\ (session # Dead => session \in Nat)
  BY DEF Inv, TypeOK, LeftValues
<1>2. CASE session = Dead
  BY <1>1, <1>2, ProbeOverKeeps DEF ProbeRefreshed
<1>3. CASE session # Dead
  <2>1. PICK o : o = [at |-> "read", got |-> session]
    OBVIOUS
  <2>2. o \in ProbeValues /\ o.at = "read" /\ o.got <= session
    BY <1>1, <1>3, <2>1 DEF ProbeValues
  <2>3. /\ probe[p].at = "asked" /\ probe' = [probe EXCEPT ![p] = o]
        /\ UNCHANGED <<session, conn, conns, task, print, events, strays, left>>
    BY <1>3, <2>1 DEF ProbeRefreshed
  <2>4. QED
    BY <2>2, <2>3, ProbeStepKeeps
<1>4. QED
  BY <1>2, <1>3

LEMMA ProbeRaisesKeeps ==
  ASSUME ConstantsFit, Inv, NEW p \in Probes, ProbeRaises(p) PROVE Inv'
<1>1. left' \in LeftValues
  BY SpendTyped DEF Inv, ProbeRaises
<1>2. QED
  BY <1>1, ProbeOverKeeps DEF ProbeRaises

LEMMA CancelledKeeps ==
  ASSUME ConstantsFit, Inv, NEW p \in Probes, Cancelled(p) PROVE Inv'
<1>1. left' \in LeftValues
  BY DEF Inv, TypeOK, LeftValues, Cancelled
<1>2. QED
  BY <1>1, ProbeOverKeeps DEF Cancelled

\* What is published is on its way, unless it is lost.
LEMMA PublishDoes ==
  ASSUME ConstantsFit, TypeOK, NEW v \in Nat, publish(v)
  PROVE  /\ redis' \in [ok : BOOLEAN, heard : BOOLEAN, bus : Seq(Nat)] /\ ready' \in Seq(Nat)
         /\ left' \in LeftValues /\ strays' \subseteq Strays /\ strays \subseteq strays'
         /\ Coming' \subseteq Coming \cup {v}
         /\ "lost" \in strays' \/ v \in Coming'
<1>1. DEFINE Out == IF redis.heard THEN Append(redis.bus, v) ELSE <<>>
<1>2. PICK r \in [ok : BOOLEAN, heard : BOOLEAN, bus : Seq(Nat)] : r = redis
  BY DEF TypeOK
<1>3. ready \in Seq(Nat) /\ r.bus \in Seq(Nat) /\ left \in LeftValues /\ strays \subseteq Strays
  BY <1>2 DEF TypeOK, LeftValues
<1>4. /\ Out \in Seq(Nat) /\ Members(Out) \subseteq Members(r.bus) \cup {v}
      /\ r.heard => v \in Members(Out)
  BY <1>2, <1>3, AppendMembers, NoMembers
<1>5. ASSUME NEW bus \in Seq(Nat), NEW ok \in BOOLEAN,
             redis' = [redis EXCEPT !.ok = ok, !.bus = bus]
      PROVE  /\ redis' \in [ok : BOOLEAN, heard : BOOLEAN, bus : Seq(Nat)]
             /\ redis'.bus = bus
  <2>1. redis' = [r EXCEPT !.ok = ok, !.bus = bus]
    BY <1>2, <1>5
  <2>2. QED
    BY <2>1
<1>6. CASE /\ redis.ok
           /\ redis' = [redis EXCEPT !.bus = Out]
           /\ strays' = IF redis.heard THEN strays ELSE strays \cup {"lost"}
           /\ UNCHANGED <<ready, left>>
  <2>1. redis' = [r EXCEPT !.bus = Out]
    BY <1>2, <1>6
  <2>2. redis' \in [ok : BOOLEAN, heard : BOOLEAN, bus : Seq(Nat)] /\ redis'.bus = Out
    BY <1>4, <2>1
  <2>3. strays' \subseteq Strays /\ strays \subseteq strays'
    BY <1>3, <1>6 DEF Strays
  <2>4. Coming' = Members(ready) \cup Members(Out)
    BY <1>6, <2>2 DEF Coming, Members
  <2>5. QED
    BY <1>2, <1>3, <1>4, <1>6, <2>2, <2>3, <2>4 DEF Coming
<1>7. CASE /\ redis.ok /\ Spend("fails")
           /\ \E bus \in {redis.bus, Out} : redis' = [redis EXCEPT !.ok = FALSE, !.bus = bus]
           /\ ready' = Append(ready, v)
           /\ UNCHANGED strays
  <2>1. PICK bus \in {r.bus, Out} : redis' = [redis EXCEPT !.ok = FALSE, !.bus = bus]
    BY <1>2, <1>7
  <2>2. bus \in Seq(Nat) /\ Members(bus) \subseteq Members(r.bus) \cup {v}
    BY <1>3, <1>4, <2>1
  <2>3. redis' \in [ok : BOOLEAN, heard : BOOLEAN, bus : Seq(Nat)] /\ redis'.bus = bus
    BY <1>5, <2>1, <2>2
  <2>4. ready' \in Seq(Nat) /\ Members(ready') = Members(ready) \cup {v}
    BY <1>3, <1>7, AppendMembers
  <2>5. Coming' = Members(ready') \cup Members(bus)
    BY <2>3 DEF Coming, Members
  <2>6. left' \in LeftValues
    BY <1>7, SpendTyped
  <2>7. QED
    BY <1>2, <1>3, <1>7, <2>2, <2>3, <2>4, <2>5, <2>6 DEF Coming
<1>8. CASE ~redis.ok /\ ready' = Append(ready, v) /\ UNCHANGED <<redis, strays, left>>
  <2>1. ready' \in Seq(Nat) /\ Members(ready') = Members(ready) \cup {v}
    BY <1>3, <1>8, AppendMembers
  <2>2. Coming' = Members(ready') \cup Members(redis.bus)
    BY <1>8 DEF Coming, Members
  <2>3. QED
    BY <1>2, <1>3, <1>8, <2>1, <2>2 DEF Coming
<1>9. QED
  BY <1>6, <1>7, <1>8 DEF publish

LEMMA NoticesKeeps ==
  ASSUME ConstantsFit, Inv, NEW p \in Probes, Notices(p) PROVE Inv'
<1>1. TypeOK /\ Past /\ ClosedAreSilent /\ Probing /\ Awaited /\ probe[p] \in ProbeValues
  BY DEF Inv, Probing, TypeOK
<1>2. PICK o \in ProbeValues : o = [Over EXCEPT !.at = "sleep"] /\ o.at = "sleep" /\ o.got = 0
  BY ProbeAt, OverIs
<1>3. /\ probe[p].at = "read" /\ probe' = [probe EXCEPT ![p] = o]
      /\ UNCHANGED <<session, conn, conns, task>>
  BY <1>2 DEF Notices
<1>4. PICK got \in Nat : got = probe[p].got
  BY <1>1 DEF ProbeValues
<1>5. session # Dead => session \in Nat /\ 0 <= session /\ got <= session
  BY <1>1, <1>4 DEF Past, TypeOK
<1>6. CASE print = got
  <2>1. UNCHANGED <<print, events, strays, left>>
    BY <1>4, <1>6 DEF Notices
  <2>2. QED
    BY <1>2, <1>3, <1>5, <2>1, ProbeStepKeeps
<1>7. CASE print # got
  <2>1. print' = got /\ publish(got)
    BY <1>4, <1>7 DEF Notices
  <2>2. /\ redis' \in [ok : BOOLEAN, heard : BOOLEAN, bus : Seq(Nat)] /\ ready' \in Seq(Nat)
        /\ left' \in LeftValues /\ strays' \subseteq Strays /\ strays \subseteq strays'
        /\ Coming' \subseteq Coming \cup {got}
        /\ "lost" \in strays' \/ got \in Coming'
    BY <1>1, <2>1, PublishDoes
  <2>3. /\ probe' \in [Probes -> ProbeValues] /\ probe'[p] = o
        /\ \A q \in Probes : q # p => probe'[q] = probe[q]
    BY <1>1, <1>3 DEF TypeOK
  <2>4. TypeOK'
    BY <1>1, <1>3, <2>1, <2>2, <2>3 DEF TypeOK, LeftValues
  <2>5. Past'
    <3>1. session # Dead => \A q \in Probes : probe'[q].got <= session
      BY <1>1, <1>2, <1>5, <2>3 DEF Past
    <3>2. session # Dead => \A v \in Coming' : v <= session
      BY <1>1, <1>5, <2>2 DEF Past
    <3>3. QED
      BY <1>1, <1>3, <1>5, <2>1, <3>1, <3>2 DEF Past
  <2>6. ClosedAreSilent'
    BY <1>1, <1>3 DEF ClosedAreSilent
  <2>7. Probing'
    BY <1>1, <1>2, <1>3, <2>2, <2>3, ProbingGoesOn
  <2>8. Awaited'
    BY <1>3, <2>1, <2>2 DEF Awaited, Missed
  <2>9. QED
    BY <2>4, <2>5, <2>6, <2>7, <2>8 DEF Inv, Probing
<1>8. QED
  BY <1>6, <1>7

------------------------------------------------------------------------------
(* Deliveries, the thread that listens, the session itself.                   *)

\* An event is sent to whoever is subscribed; those found gone are forgotten.
LEMMA DeliverKeeps ==
  ASSUME ConstantsFit, Inv, NEW v \in Nat, _deliver_envelope(v),
         Coming = {v} \cup Coming',
         redis' \in [ok : BOOLEAN, heard : BOOLEAN, bus : Seq(Nat)], ready' \in Seq(Nat)
  PROVE  Inv'
<1>1. TypeOK /\ Past /\ ClosedAreSilent /\ Probing /\ Awaited
  BY DEF Inv, Probing
<1>2. DEFINE targets == Subscribed(conn, conns)
<1>3. targets \subseteq Conns /\ \A c \in Conns : conn[c] \in ConnValues
  BY <1>1 DEF Subscribed, TypeOK
<1>4. PICK failed \in SUBSET {c \in targets : conn[c].gone} :
         /\ conn' = [c \in Conns |-> IF c \in failed THEN [conn[c] EXCEPT !.auth = FALSE]
                                     ELSE IF c \in targets THEN Sent(c, v) ELSE conn[c]]
         /\ conns' = conns \ failed
         /\ IF failed = {} THEN UNCHANGED probing ELSE _maybe_stop_auth_probe(conn', conns', print)
  BY DEF _deliver_envelope
<1>5. /\ strays' = IF \E c \in targets : v < conn[c].seen
                   THEN strays \cup {"overtaken"} ELSE strays
      /\ UNCHANGED <<session, left>>
  BY DEF _deliver_envelope
<1>6. ASSUME NEW c \in Conns
      PROVE  /\ conn'[c] \in ConnValues /\ conn'[c].at = conn[c].at
             /\ conn'[c].got = conn[c].got /\ conn'[c].gone = conn[c].gone
             /\ conn'[c].auth <=> conn[c].auth /\ c \notin failed
             /\ c \in targets /\ ~conn[c].gone => conn'[c].seen = v
  <2>1. CASE c \in failed
    <3>1. conn'[c] = [conn[c] EXCEPT !.auth = FALSE] /\ conn[c].gone
      BY <1>4, <2>1
    <3>2. PICK x \in ConnValues : x = [conn[c] EXCEPT !.auth = FALSE] /\ ~x.auth
            /\ x.at = conn[c].at /\ x.gone = conn[c].gone /\ x.got = conn[c].got
      BY <1>3, ConnAuth
    <3>3. QED
      BY <2>1, <3>1, <3>2
  <2>2. CASE c \notin failed /\ c \in targets
    <3>1. conn'[c] = Sent(c, v)
      BY <1>4, <2>2
    <3>2. PICK x \in ConnValues :
             /\ x = Sent(c, v) /\ x.at = conn[c].at /\ x.gone = conn[c].gone
             /\ x.auth = conn[c].auth /\ x.got = conn[c].got
             /\ x.seen = IF conn[c].gone THEN conn[c].seen ELSE v
      BY <1>1, SentIs
    <3>3. QED
      BY <2>2, <3>1, <3>2
  <2>3. CASE c \notin failed /\ c \notin targets
    BY <1>3, <1>4, <2>3
  <2>4. QED
    BY <2>1, <2>2, <2>3
<1>7. conn' \in [Conns -> ConnValues] /\ conns' \subseteq Conns
  BY <1>1, <1>4, <1>6 DEF TypeOK
<1>8. Subscribed(conn', conns') = targets \ failed
  BY <1>1, <1>4, <1>6 DEF Subscribed, TypeOK
<1>9. strays' \subseteq Strays /\ strays \subseteq strays'
  BY <1>1, <1>5 DEF TypeOK, Strays
<1>10. /\ task' \in Probes \cup {None} /\ print' \in {0, print}
       /\ probe' \in [Probes -> ProbeValues]
       /\ \A p \in Probes : probe'[p].got \in {0, probe[p].got}
       /\ failed # {} /\ task' # None => Subscribed(conn', conns') # {}
  <2>1. CASE failed = {}
    BY <1>1, <1>4, <2>1 DEF TypeOK, probing
  <2>2. CASE failed # {}
    <3>1. _maybe_stop_auth_probe(conn', conns', print) /\ print \in Nat
      BY <1>1, <1>4, <2>2 DEF TypeOK
    <3>2. QED
      BY <1>1, <3>1, StopDoes
  <2>3. QED
    BY <2>1, <2>2
<1>11. TypeOK'
  BY <1>1, <1>5, <1>7, <1>9, <1>10 DEF TypeOK
<1>12. Past'
  <2>1. \A c \in Conns : conn'[c].got \in {0, conn[c].got}
    BY <1>6
  <2>2. QED
    BY <1>1, <1>5, <1>10, <2>1, PastKept
<1>13. ClosedAreSilent'
  BY <1>1, <1>6 DEF ClosedAreSilent
<1>14. Probing'
  <2>1. task' # None => \E c \in Conns : conn'[c].auth
    <3>1. CASE failed = {}
      BY <1>1, <1>4, <1>6, <3>1 DEF Probing, ProbeHasReason, probing
    <3>2. CASE failed # {}
      BY <1>7, <1>10, <3>2 DEF Subscribed
    <3>3. QED
      BY <3>1, <3>2
  <2>2. \/ task' = task /\ probe' = probe
        \/ _maybe_stop_auth_probe(conn', conns', print)
    BY <1>4 DEF probing
  <2>3. QED
    BY <1>1, <1>5, <1>8, <1>9, <2>1, <2>2, ProbingKept
<1>15. Awaited'
  <2>1. SUFFICES ASSUME print' = session, strays' \cap Missed = {},
                        NEW c \in Subscribed(conn', conns'),
                        conn'[c].at = "receive", ~conn'[c].gone
        PROVE  conn'[c].seen = session \/ session \in Coming'
    BY <1>5 DEF Awaited
  <2>2. c \in targets /\ c \in Conns /\ conn[c].at = "receive" /\ ~conn[c].gone
        /\ conn'[c].seen = v
    BY <1>3, <1>6, <1>8, <2>1
  <2>3. session \in Nat /\ session # 0 /\ conn[c].seen \in Nat
    BY <1>1, <1>3, <1>10, <2>1, <2>2, ConnIs DEF TypeOK, ConstantsFit
  <2>4. print = session /\ strays \cap Missed = {}
    BY <1>9, <1>10, <2>1, <2>3
  <2>5. conn[c].seen = session \/ session \in Coming
    BY <1>1, <2>2, <2>4 DEF Awaited
  <2>6. v <= session
    BY <1>1, <2>3 DEF Past, ConstantsFit
  <2>7. ~(v < conn[c].seen)
    BY <1>5, <2>1, <2>2 DEF Missed
  <2>8. QED
    BY <2>2, <2>3, <2>5, <2>6, <2>7
<1>16. QED
  BY <1>11, <1>12, <1>13, <1>14, <1>15 DEF Inv, Probing

LEMMA _on_bus_messageKeeps ==
  ASSUME ConstantsFit, Inv, _on_bus_message PROVE Inv'
<1>1. ready \in Seq(Nat)
  BY DEF Inv, TypeOK
<1>2. PICK r \in [ok : BOOLEAN, heard : BOOLEAN, bus : Seq(Nat)] : r = redis
  BY DEF Inv, TypeOK
<1>3. CASE ready # <<>> /\ ready' = Tail(ready) /\ UNCHANGED redis /\ _deliver_envelope(Head(ready))
  <2>1. /\ ready' \in Seq(Nat) /\ Head(ready) \in Nat
        /\ Members(ready) = {Head(ready)} \cup Members(ready')
    BY <1>1, <1>3, TailMembers
  <2>2. Coming' = Members(ready') \cup Members(redis.bus)
    BY <1>3 DEF Coming, Members
  <2>3. Coming = {Head(ready)} \cup Coming'
    BY <2>1, <2>2 DEF Coming
  <2>4. QED
    BY <1>2, <1>3, <2>1, <2>3, DeliverKeeps
<1>4. CASE /\ ready = <<>> /\ redis.bus # <<>> /\ redis' = [redis EXCEPT !.bus = Tail(@)]
           /\ UNCHANGED ready /\ _deliver_envelope(Head(redis.bus))
  <2>1. /\ Tail(r.bus) \in Seq(Nat) /\ Head(r.bus) \in Nat
        /\ Members(r.bus) = {Head(r.bus)} \cup Members(Tail(r.bus))
    BY <1>2, <1>4, TailMembers
  <2>2. redis' = [r EXCEPT !.bus = Tail(r.bus)]
    BY <1>2, <1>4
  <2>3. /\ redis' \in [ok : BOOLEAN, heard : BOOLEAN, bus : Seq(Nat)]
        /\ redis'.bus = Tail(r.bus)
    BY <2>1, <2>2
  <2>4. Coming' = Members(ready) \cup Members(Tail(r.bus))
    BY <1>4, <2>3 DEF Coming, Members
  <2>5. Coming = {Head(redis.bus)} \cup Coming'
    BY <1>2, <2>1, <2>4 DEF Coming
  <2>6. ready' \in Seq(Nat) /\ Head(redis.bus) \in Nat /\ _deliver_envelope(Head(redis.bus))
    BY <1>1, <1>2, <1>4, <2>1
  <2>7. QED
    BY <2>3, <2>5, <2>6, DeliverKeeps
<1>5. QED
  BY <1>3, <1>4 DEF _on_bus_message

LEMMA _listen_loopKeeps ==
  ASSUME ConstantsFit, Inv, _listen_loop PROVE Inv'
<1>1. TypeOK /\ Past /\ ClosedAreSilent /\ Probing /\ Awaited
  BY DEF Inv, Probing
<1>2. PICK r \in [ok : BOOLEAN, heard : BOOLEAN, bus : Seq(Nat)] : r = redis
  BY <1>1 DEF TypeOK
<1>3. UNCHANGED <<session, conn, conns, task, print, probe, ready>>
  BY DEF _listen_loop, probing
<1>4. left' \in LeftValues
  <2>1. left \in LeftValues
    BY <1>1 DEF TypeOK, LeftValues
  <2>2. QED
    BY <1>1, <2>1, SpendTyped DEF _listen_loop
<1>5. /\ redis' \in [ok : BOOLEAN, heard : BOOLEAN, bus : Seq(Nat)]
      /\ strays \subseteq strays' /\ strays' \subseteq Strays
      /\ redis'.bus \in {<<>>, r.bus}
      /\ redis'.bus = r.bus \/ "lost" \in strays'
  <2>1. CASE /\ \E ok \in {FALSE, redis.ok} : redis' = [ok |-> ok, heard |-> FALSE, bus |-> <<>>]
             /\ strays' = IF redis.bus = <<>> THEN strays ELSE strays \cup {"lost"}
    <3>1. PICK ok \in BOOLEAN : redis' = [ok |-> ok, heard |-> FALSE, bus |-> <<>>]
      BY <1>2, <2>1
    <3>2. redis' \in [ok : BOOLEAN, heard : BOOLEAN, bus : Seq(Nat)] /\ redis'.bus = <<>>
      BY <3>1
    <3>3. strays \subseteq strays' /\ strays' \subseteq Strays
      BY <1>1, <2>1 DEF TypeOK, Strays
    <3>4. QED
      BY <1>2, <2>1, <3>2, <3>3
  <2>2. CASE redis' = [redis EXCEPT !.ok = TRUE, !.heard = TRUE] /\ strays' = strays
    <3>1. redis' = [r EXCEPT !.ok = TRUE, !.heard = TRUE]
      BY <1>2, <2>2
    <3>2. redis' \in [ok : BOOLEAN, heard : BOOLEAN, bus : Seq(Nat)] /\ redis'.bus = r.bus
      BY <3>1
    <3>3. QED
      BY <1>1, <2>2, <3>2 DEF TypeOK
  <2>3. QED
    BY <2>1, <2>2 DEF _listen_loop
<1>6. Coming' = Members(ready) \cup Members(redis'.bus)
  BY <1>3 DEF Coming, Members
<1>7. Coming' \subseteq Coming /\ ("lost" \in strays' \/ Coming' = Coming)
  BY <1>2, <1>5, <1>6, NoMembers DEF Coming
<1>8. TypeOK'
  BY <1>1, <1>3, <1>4, <1>5 DEF TypeOK, LeftValues
<1>9. Past'
  BY <1>1, <1>3, <1>7 DEF Past
<1>10. ClosedAreSilent'
  BY <1>1, <1>3 DEF ClosedAreSilent
<1>11. Probing'
  <2>1. task' # None => \E c \in Conns : conn'[c].auth
    BY <1>1, <1>3 DEF Probing, ProbeHasReason
  <2>2. QED
    BY <1>1, <1>3, <1>5, <2>1, ProbingKept
<1>12. Awaited'
  BY <1>1, <1>3, <1>5, <1>7 DEF Awaited, Missed
<1>13. QED
  BY <1>8, <1>9, <1>10, <1>11, <1>12 DEF Inv, Probing

LEMMA TurnsKeeps ==
  ASSUME ConstantsFit, Inv, Turns PROVE Inv'
<1>1. TypeOK /\ Past /\ ClosedAreSilent /\ Probing /\ Awaited
  BY DEF Inv, Probing
<1>2. /\ session # Dead /\ session' \in {session + 1, Dead}
      /\ UNCHANGED <<conn, conns, probing, events, strays>>
  BY DEF Turns
<1>3. session \in Nat /\ left' \in LeftValues
  BY <1>1, <1>2, SpendTyped DEF TypeOK, Turns
<1>4. session' # Dead => session' = session + 1 /\ session' \in Nat \ {0}
  BY <1>2, <1>3
<1>5. TypeOK'
  BY <1>1, <1>2, <1>3, <1>4 DEF TypeOK, LeftValues, probing, events
<1>6. Past'
  <2>1. SUFFICES ASSUME session' = session + 1
        PROVE  /\ print' <= session'
               /\ \A c \in Conns : conn'[c].got <= session'
               /\ \A p \in Probes : probe'[p].got <= session'
               /\ \A v \in Coming' : v <= session'
    BY <1>4 DEF Past
  <2>2. \A c \in Conns : conn[c].got <= session /\ conn[c].got \in Nat
    BY <1>1, <1>2 DEF Past, TypeOK, ConnValues
  <2>3. \A p \in Probes : probe[p].got <= session /\ probe[p].got \in Nat
    BY <1>1, <1>2 DEF Past, TypeOK, ProbeValues
  <2>4. \A v \in Coming : v <= session /\ v \in Nat
    <3>1. PICK r \in [ok : BOOLEAN, heard : BOOLEAN, bus : Seq(Nat)] : r = redis
      BY <1>1 DEF TypeOK
    <3>2. ready \in Seq(Nat) /\ r.bus \in Seq(Nat)
      BY <1>1, <3>1 DEF TypeOK
    <3>3. Members(ready) \subseteq Nat /\ Members(r.bus) \subseteq Nat
      BY <3>2 DEF Members
    <3>4. QED
      BY <1>1, <1>2, <3>1, <3>3 DEF Past, Coming
  <2>5. print <= session /\ print \in Nat
    BY <1>1, <1>2 DEF Past, TypeOK
  <2>6. QED
    BY <1>2, <1>3, <2>1, <2>2, <2>3, <2>4, <2>5, ComingStays DEF probing
<1>7. ClosedAreSilent'
  BY <1>1, <1>2 DEF ClosedAreSilent
<1>8. Probing'
  <2>1. task' # None => \E c \in Conns : conn'[c].auth
    BY <1>1, <1>2 DEF Probing, ProbeHasReason, probing
  <2>2. QED
    BY <1>1, <1>2, <2>1, ProbingKept DEF probing
<1>9. Awaited'
  <2>1. print \in Nat /\ (print <= session)
    BY <1>1, <1>2 DEF TypeOK, Past
  <2>2. print' # session'
    BY <1>2, <1>3, <2>1 DEF ConstantsFit, probing
  <2>3. QED
    BY <2>2 DEF Awaited
<1>10. QED
  BY <1>5, <1>6, <1>7, <1>8, <1>9 DEF Inv, Probing

------------------------------------------------------------------------------
LEMMA InitInv == ASSUME ConstantsFit, Init PROVE Inv
<1>1. TypeOK
  <2>1. session \in Nat \ {0} /\ task \in Probes \cup {None} /\ print \in Nat /\ conns \subseteq Conns
        /\ strays \subseteq Strays
    BY DEF Init
  <2>2. conn \in [Conns -> ConnValues]
    BY ClosedIs DEF Init
  <2>3. probe \in [Probes -> ProbeValues]
    BY OverIs DEF Init
  <2>4. redis \in [ok : BOOLEAN, heard : BOOLEAN, bus : Seq(Nat)] /\ ready \in Seq(Nat)
    BY NoMembers DEF Init
  <2>5. left \in [turns : Nat, acts : Nat, fails : Nat]
    BY DEF Init, ConstantsFit
  <2>6. QED
    BY <2>1, <2>2, <2>3, <2>4, <2>5 DEF TypeOK
<1>2. Coming = {}
  BY NoMembers DEF Init, Coming
<1>3. \A c \in Conns : conn[c].got = 0 /\ ~conn[c].auth
  BY ClosedIs DEF Init
<1>4. \A p \in Probes : probe[p].got = 0
  BY OverIs DEF Init
<1>5. Live = {}
  BY OverIs DEF Init, Live
<1>6. Past
  BY <1>2, <1>3, <1>4 DEF Past, Init
<1>7. ClosedAreSilent /\ Subscribed(conn, conns) = {}
  BY <1>3 DEF ClosedAreSilent, Subscribed, Init
<1>8. OneProbe /\ TaskIsLive /\ SubscribersAreProbed /\ ProbeHasReason /\ Awaited
  BY <1>5, <1>7 DEF OneProbe, TaskIsLive, SubscribersAreProbed, ProbeHasReason, Awaited, Init
<1>9. QED
  BY <1>1, <1>6, <1>7, <1>8 DEF Inv

LEMMA StepInv == ASSUME ConstantsFit, Inv, [Next]_vars PROVE Inv'
<1>1. ASSUME NEW c \in Conns,
             \/ realtime_ws(c) \/ Leaves(c) \/ Disconnect(c) \/ subscribe(c) \/ unsubscribe(c)
             \/ Refreshed(c) \/ RefreshRaises(c) \/ _push_auth_snapshot(c)
      PROVE  Inv'
  <2>1. CASE Disconnect(c)
    <3>1. Ends(c) /\ left' \in LeftValues
      BY <2>1 DEF Disconnect, Inv, TypeOK, LeftValues
    <3>2. QED
      BY <3>1, EndsKeeps
  <2>2. CASE RefreshRaises(c)
    <3>1. Ends(c) /\ left' \in LeftValues
      BY <2>2, SpendTyped DEF RefreshRaises, Inv
    <3>2. QED
      BY <3>1, EndsKeeps
  <2>3. QED
    BY <1>1, <2>1, <2>2, realtime_wsKeeps, LeavesKeeps, subscribeKeeps, unsubscribeKeeps,
       RefreshedKeeps, _push_auth_snapshotKeeps
<1>2. ASSUME NEW p \in Probes,
             \/ Runs(p) \/ Wakes(p) \/ ProbeRefreshed(p) \/ ProbeRaises(p) \/ Cancelled(p)
             \/ Notices(p)
      PROVE  Inv'
  BY <1>2, RunsKeeps, WakesKeeps, ProbeRefreshedKeeps, ProbeRaisesKeeps, CancelledKeeps,
     NoticesKeeps
<1>3. CASE _on_bus_message \/ _listen_loop \/ Turns
  BY <1>3, _on_bus_messageKeeps, _listen_loopKeeps, TurnsKeeps
<1>4. CASE UNCHANGED vars
  <2>1. UNCHANGED <<session, conn, conns, task, print, probe, redis, ready, strays, left>>
    BY <1>4 DEF vars, probing, events
  <2>2. Coming' = Coming /\ Live' = Live
    BY <2>1 DEF Coming, Members, Live
  <2>3. QED
    BY <2>1, <2>2 DEF Inv, TypeOK, Past, ClosedAreSilent, OneProbe, TaskIsLive,
       SubscribersAreProbed, ProbeHasReason, Awaited
<1>5. QED
  BY <1>1, <1>2, <1>3, <1>4 DEF Next

\* The tables of the hub, its connections, its probes and what is on its way to it
\* have the types the code gives them (services/realtime_hub.py:47).
THEOREM TypeCorrect == ASSUME ConstantsFit PROVE Spec => []TypeOK
<1>1. Init => Inv
  BY InitInv
<1>2. Inv /\ [Next]_vars => Inv'
  BY StepInv
<1>3. Inv => TypeOK
  BY DEF Inv
<1>4. QED
  BY <1>1, <1>2, <1>3, PTL DEF Spec

LEMMA InvAgrees == ASSUME Inv PROVE HubAgrees
<1>1. SUFFICES SnapshotsArrive
  BY DEF Inv, HubAgrees
<1>2. SUFFICES ASSUME Quiet, print = session, strays \cap {"skipped", "overtaken", "lost"} = {},
                      NEW c \in Subscribed(conn, conns), ~conn[c].gone
      PROVE  conn[c].seen = session
  BY DEF SnapshotsArrive
<1>3. c \in Conns /\ conn[c].auth
  BY DEF Subscribed, Inv, TypeOK
<1>4. conn[c].at = "receive"
  BY <1>2, <1>3 DEF Inv, ClosedAreSilent, Quiet
<1>5. Coming = {}
  BY <1>2, NoMembers DEF Quiet, Coming
<1>6. QED
  BY <1>2, <1>3, <1>4, <1>5 DEF Inv, Awaited, Missed

\* Whatever comes and goes, a token has one probe unless a stopped one has forgotten
\* its successor, who is subscribed is served by one, nothing is kept for nobody, and
\* every subscriber has been sent the session as it is when nothing is under way
\* and nothing went astray (services/realtime_hub.py:283 and :322).
THEOREM HubAgreesHolds == ASSUME ConstantsFit PROVE Spec => []HubAgrees
<1>1. Init => Inv
  BY InitInv
<1>2. Inv /\ [Next]_vars => Inv'
  BY StepInv
<1>3. Inv => HubAgrees
  BY InvAgrees
<1>4. QED
  BY <1>1, <1>2, <1>3, PTL DEF Spec
==============================================================================
