----------------------------- MODULE RealtimeHub -----------------------------
(* The server's side of the realtime connection, for the channel auth.session of one
   token: its connections, the probe that looks at the session every few seconds
   while anybody is subscribed, and the events that go round by Redis or, without
   it, at once.  All of it runs on the event loop but the thread that listens to
   Redis; `_lock` guards no suspension, so what it guards is one step.  Tabs of one
   browser share a token, and the hub's tables are keyed by it, so one token shows
   what there is.  Paths are relative to src/src/omni_api/.                        *)
EXTENDS Integers, Sequences

CONSTANTS
  Conns,      \* identities of connections, used again once closed
  Probes,     \* identities of probes, used again once ended
  MaxTurns,   \* bound on changes of the session
  MaxActs,    \* bound on what the clients do
  MaxFails,   \* bound on failures of the database and of Redis
  None, Dead

\* What the constants are supposed to be: None is no probe, Dead no version of a
\* session, the bounds are numbers.
ConstantsFit ==
  /\ None \notin Probes /\ Dead \notin Nat
  /\ MaxTurns \in Nat /\ MaxActs \in Nat /\ MaxFails \in Nat

VARIABLES
  session,    \* how often the session has changed, or Dead
  conn,       \* each connection: its subscription, its handler, what it was sent last
  conns,      \* _conns: the connections registered
  task,       \* _auth_tasks[token]
  print,      \* _auth_fingerprints[token]: the session it is of, 0 for none
  probe,      \* every probe that is not over, the forgotten ones too
  redis,      \* _redis_ok, whether the thread listens, what is on its way to it
  ready,      \* deliveries the loop is about to begin
  strays,     \* what has gone astray
  left

vars == <<session, conn, conns, task, print, probe, redis, ready, strays, left>>
probing == <<task, print, probe>>
events == <<redis, ready>>

Spend(what) == left[what] > 0 /\ left' = [left EXCEPT ![what] = @ - 1]

Closed == [at |-> "closed", gone |-> FALSE, auth |-> FALSE, got |-> 0, seen |-> 0]
Over == [at |-> "over", got |-> 0]

Init ==
  /\ session = 1
  /\ conn = [c \in Conns |-> Closed] /\ conns = {}
  /\ task = None /\ print = 0 /\ probe = [p \in Probes |-> Over]
  /\ redis = [ok |-> TRUE, heard |-> TRUE, bus |-> <<>>] /\ ready = <<>>
  /\ strays = {}
  /\ left = [turns |-> MaxTurns, acts |-> MaxActs, fails |-> MaxFails]

\* has_sub, still: registered connections that are subscribed.
Subscribed(cs, registered) == {c \in registered : cs[c].auth}

-----------------------------------------------------------------------------
\* A stop that does not ask whether another connection is subscribed.
FaultyMaybeStop(cs, registered, fp) ==
  /\ task' = None /\ print' = 0
  /\ probe' = [p \in Probes |-> IF p # task THEN probe[p]
                                ELSE IF probe[p].at = "new" THEN Over
                                ELSE [Over EXCEPT !.at = "cancelled"]]

\* The last subscriber stops the probe.  One that was never run has no finally.
_maybe_stop_auth_probe(cs, registered, fp) ==
  IF Subscribed(cs, registered) # {} THEN print' = fp /\ UNCHANGED <<task, probe>>
  ELSE /\ task' = None /\ print' = 0
       /\ probe' = [p \in Probes |-> IF p # task THEN probe[p]
                                     ELSE IF probe[p].at = "new" THEN Over
                                     ELSE [Over EXCEPT !.at = "cancelled"]]

_ensure_auth_probe ==
  IF task # None THEN UNCHANGED <<task, probe>>
  ELSE /\ \E p \in Probes : probe[p] = Over
       /\ task' = CHOOSE p \in Probes : probe[p] = Over
       /\ probe' = [probe EXCEPT ![task'].at = "new"]

\* c is as `now` says and no longer registered; fp is the fingerprint by then.
unregister(c, now, fp) ==
  /\ conn' = [conn EXCEPT ![c] = [now EXCEPT !.auth = FALSE]]
  /\ conns' = conns \ {c}
  /\ IF conn[c].auth THEN _maybe_stop_auth_probe(conn', conns', fp)
     ELSE print' = fp /\ UNCHANGED <<task, probe>>

\* Nothing comes through to a connection that is gone; the code notices or not.
_send(c, now, fp) ==
  \/ /\ conn' = [conn EXCEPT ![c] = now] /\ print' = fp
     /\ UNCHANGED <<conns, task, probe>>
  \/ conn[c].gone /\ unregister(c, now, fp)

\* Sent is what the client has been sent last.
Sent(c, version) == IF conn[c].gone THEN conn[c] ELSE [conn[c] EXCEPT !.seen = version]

-----------------------------------------------------------------------------
\* The handshake: resolve, accept, register.
realtime_ws(c) ==
  /\ conn[c].at = "closed" /\ \A d \in 1..(c - 1) : conn[d].at # "closed"
  /\ session # Dead
  /\ conn' = [conn EXCEPT ![c] = [Closed EXCEPT !.at = "receive"]]
  /\ conns' = conns \cup {c}
  /\ UNCHANGED <<session, probing, events, strays, left>>

\* The client or the network ends a connection.
Leaves(c) ==
  /\ Spend("acts")
  /\ conn[c].at # "closed" /\ ~conn[c].gone
  /\ conn' = [conn EXCEPT ![c].gone = TRUE]
  /\ UNCHANGED <<session, conns, probing, events, strays>>

\* The end of _serve, and the finally of the endpoint.
Ends(c) == unregister(c, Closed, print) /\ UNCHANGED <<session, events, strays>>
Disconnect(c) == conn[c].at = "receive" /\ conn[c].gone /\ Ends(c) /\ UNCHANGED left

\* subscribe: the probe runs from now on, and the session is read for this client.
subscribe(c) ==
  /\ Spend("acts")
  /\ conn[c].at = "receive"
  /\ conn' = [conn EXCEPT ![c].auth = TRUE, ![c].at = "asked"]
  /\ _ensure_auth_probe
  /\ UNCHANGED <<session, conns, print, events, strays>>

unsubscribe(c) ==
  /\ Spend("acts")
  /\ conn[c].at = "receive" /\ conn[c].auth
  /\ LET now == [conn EXCEPT ![c].auth = FALSE] IN
       /\ _maybe_stop_auth_probe(now, conns, print)
       /\ conn' = now
  /\ conns' \in {conns, IF conn[c].gone THEN conns \ {c} ELSE conns}
  /\ UNCHANGED <<session, events, strays>>

\* _push_auth_snapshot: refresh answers with the session of some time before it
\* returns, or raises; the connection of a session that is no more is closed.
Refreshed(c) ==
  /\ conn[c].at = "asked"
  /\ IF session = Dead THEN unregister(c, [conn[c] EXCEPT !.gone = TRUE, !.at = "receive"], print)
     ELSE /\ conn' = [conn EXCEPT ![c].got = session, ![c].at = "read"]
          /\ UNCHANGED <<conns, probing>>
  /\ UNCHANGED <<session, events, strays, left>>
RefreshRaises(c) == conn[c].at \in {"asked", "read"} /\ Spend("fails") /\ Ends(c)

\* The fingerprint becomes that of what one client is sent: a change the others
\* have not been sent is no longer noticed by the probe.
_push_auth_snapshot(c) ==
  /\ conn[c].at = "read"
  /\ _send(c, [Sent(c, conn[c].got) EXCEPT !.at = "receive", !.got = 0], conn[c].got)
  /\ strays' = IF print # conn[c].got /\ Subscribed(conn, conns) \ {c} # {}
               THEN strays \cup {"skipped"} ELSE strays
  /\ UNCHANGED <<session, events, left>>

-----------------------------------------------------------------------------
\* The end of a probe, its finally: what the tables hold of the token goes, and
\* that may be of another probe.
ProbeEnds(p, how) ==
  /\ probe' = [probe EXCEPT ![p] = Over]
  /\ task' = None /\ print' = 0
  /\ strays' = strays \cup how \cup (IF task \in {None, p} THEN {} ELSE {"popped"})
  /\ UNCHANGED <<session, conn, conns, events>>

Runs(p) ==
  /\ probe[p].at = "new"
  /\ probe' = [probe EXCEPT ![p].at = "sleep"]
  /\ UNCHANGED <<session, conn, conns, task, print, events, strays, left>>

\* After its sleep: nobody is subscribed, or it refreshes the session.
Wakes(p) ==
  /\ probe[p].at = "sleep"
  /\ IF Subscribed(conn, conns) = {} THEN ProbeEnds(p, {})
     ELSE /\ probe' = [probe EXCEPT ![p].at = "asked"]
          /\ UNCHANGED <<session, conn, conns, task, print, events, strays>>
  /\ UNCHANGED left

ProbeRefreshed(p) ==
  /\ probe[p].at = "asked"
  /\ IF session = Dead THEN ProbeEnds(p, {})
     ELSE /\ probe' = [probe EXCEPT ![p] = [at |-> "read", got |-> session]]
          /\ UNCHANGED <<session, conn, conns, task, print, events, strays>>
  /\ UNCHANGED left

\* Anything but an AuthError ends the probe, whoever is subscribed.
ProbeRaises(p) == probe[p].at \in {"asked", "read"} /\ Spend("fails") /\ ProbeEnds(p, {"died"})
Cancelled(p) == probe[p].at = "cancelled" /\ ProbeEnds(p, {}) /\ UNCHANGED left

\* Through Redis, where it is lost unless the thread listens; or at once, where a
\* publish has failed before or fails now.  One that fails may have gone out.
publish(version) ==
  LET Out == IF redis.heard THEN Append(redis.bus, version) ELSE <<>> IN
  \/ /\ redis.ok
     /\ redis' = [redis EXCEPT !.bus = Out]
     /\ strays' = IF redis.heard THEN strays ELSE strays \cup {"lost"}
     /\ UNCHANGED <<ready, left>>
  \/ /\ redis.ok /\ Spend("fails")
     /\ \E bus \in {redis.bus, Out} : redis' = [redis EXCEPT !.ok = FALSE, !.bus = bus]
     /\ ready' = Append(ready, version)
     /\ UNCHANGED strays
  \/ /\ ~redis.ok
     /\ ready' = Append(ready, version)
     /\ UNCHANGED <<redis, strays, left>>

\* A change of the session goes to all connections of the token.
Notices(p) ==
  /\ probe[p].at = "read"
  /\ probe' = [probe EXCEPT ![p] = [Over EXCEPT !.at = "sleep"]]
  /\ IF print = probe[p].got THEN UNCHANGED <<print, events, strays, left>>
     ELSE print' = probe[p].got /\ publish(probe[p].got)
  /\ UNCHANGED <<session, conn, conns, task>>

-----------------------------------------------------------------------------
\* Every subscribed connection is sent the event, in one step: a client that reads
\* slowly delays those after it, and no more.  One that is found gone is forgotten.
_deliver_envelope(version) ==
  LET targets == Subscribed(conn, conns) IN
  \E failed \in SUBSET {c \in targets : conn[c].gone} :
    /\ conn' = [c \in Conns |-> IF c \in failed THEN [conn[c] EXCEPT !.auth = FALSE]
                                ELSE IF c \in targets THEN Sent(c, version) ELSE conn[c]]
    /\ conns' = conns \ failed
    /\ IF failed = {} THEN UNCHANGED probing ELSE _maybe_stop_auth_probe(conn', conns', print)
    /\ strays' = IF \E c \in targets : version < conn[c].seen
                 THEN strays \cup {"overtaken"} ELSE strays
    /\ UNCHANGED <<session, left>>

\* The loop's own events, in turn; and those the thread that listens hands to it.
_on_bus_message ==
  \/ /\ ready # <<>> /\ ready' = Tail(ready) /\ UNCHANGED redis
     /\ _deliver_envelope(Head(ready))
  \/ /\ ready = <<>> /\ redis.bus # <<>>
     /\ redis' = [redis EXCEPT !.bus = Tail(@)] /\ UNCHANGED ready
     /\ _deliver_envelope(Head(redis.bus))

\* The thread stops listening, by an error of Redis or another, and what was on its
\* way is lost; it listens again, which alone ends the fallback.
_listen_loop ==
  \/ /\ Spend("fails")
     /\ redis.heard
     /\ \E ok \in {FALSE, redis.ok} : redis' = [ok |-> ok, heard |-> FALSE, bus |-> <<>>]
     /\ strays' = IF redis.bus = <<>> THEN strays ELSE strays \cup {"lost"}
     /\ UNCHANGED <<session, conn, conns, probing, ready>>
  \/ /\ ~redis.heard
     /\ redis' = [redis EXCEPT !.ok = TRUE, !.heard = TRUE]
     /\ UNCHANGED <<session, conn, conns, probing, ready, strays, left>>

-----------------------------------------------------------------------------
\* Roles, a package, a profile, the tenant: the session is not what it was.
Turns ==
  /\ Spend("turns")
  /\ session # Dead
  /\ \E s \in {session + 1, Dead} : session' = s
  /\ UNCHANGED <<conn, conns, probing, events, strays>>

Next ==
  \/ \E c \in Conns :
       \/ realtime_ws(c) \/ Leaves(c) \/ Disconnect(c) \/ subscribe(c) \/ unsubscribe(c)
       \/ Refreshed(c) \/ RefreshRaises(c) \/ _push_auth_snapshot(c)
  \/ \E p \in Probes :
       \/ Runs(p) \/ Wakes(p) \/ ProbeRefreshed(p) \/ ProbeRaises(p) \/ Cancelled(p)
       \/ Notices(p)
  \/ _on_bus_message \/ _listen_loop
  \/ Turns

Spec == Init /\ [][Next]_vars
-----------------------------------------------------------------------------
Live == {p \in Probes : probe[p].at \notin {"over", "cancelled"}}

\* A token has one probe, the one its table knows, unless a stopped probe has
\* forgotten its successor (services/realtime_hub.py:322).
OneProbe == "popped" \notin strays => Live = {task} \ {None}

\* Who is subscribed to a session that lives is served by a probe, even by one that
\* is forgotten, unless it met an exception it does not catch.
SubscribersAreProbed ==
  session # Dead /\ Subscribed(conn, conns) # {} /\ "died" \notin strays => Live # {}

\* Nothing is kept for a token nobody has subscribed.
ProbeHasReason == task # None => \E c \in Conns : conn[c].auth

Quiet ==
  /\ redis.bus = <<>> /\ ready = <<>>
  /\ \A c \in Conns : conn[c].at \in {"closed", "receive"}
  /\ \A p \in Probes : probe[p].at \in {"over", "sleep"}

\* When nothing is under way and the probe would notice nothing, every subscriber
\* has been sent the session as it is, unless an event was lost or overtaken or a
\* snapshot sent to one client hid the change from the others.
SnapshotsArrive ==
  Quiet /\ print = session /\ strays \cap {"skipped", "overtaken", "lost"} = {} =>
    \A c \in Subscribed(conn, conns) : ~conn[c].gone => conn[c].seen = session

\* (docs/interfaces.md:289) Whatever comes and goes, the subscribers of a session
\* hear of it by one probe.
HubAgrees == OneProbe /\ SubscribersAreProbed /\ ProbeHasReason /\ SnapshotsArrive

\* Stated, and false: what one client is sent does not keep the change from the
\* others (services/realtime_hub.py:283).
SnapshotsReachAll ==
  Quiet /\ print = session /\ strays \subseteq {"skipped"} =>
    \A c \in Subscribed(conn, conns) : ~conn[c].gone => conn[c].seen = session
=============================================================================
