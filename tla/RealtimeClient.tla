--------------------------- MODULE RealtimeClient ---------------------------
(* The web client's one WebSocket: connections that drop and are replaced,
   timers, and the channels that components subscribe to.  A socket's callbacks
   stay attached after disconnect(), so they may run beside its successor's.
   Messages of one socket arrive in order, so the server's channels are those
   the client has told the socket.  Paths are relative to src/web/src/.      *)
EXTENDS Integers, FiniteSets

CONSTANTS
  Sockets,     \* identities of sockets, used again once closed
  Channels,    \* channels components subscribe to
  MaxMounts,   \* bound on the components subscribed to one channel
  MaxActs,     \* bound on logins, logouts, tenant switches and remounts
  MaxDrops,    \* bound on connections the network or the server ends
  NoSocket

\* What the constants are supposed to be: NoSocket is no socket, the bounds are
\* numbers.
ConstantsFit ==
  /\ NoSocket \notin Sockets
  /\ MaxMounts \in Nat /\ MaxActs \in Nat /\ MaxDrops \in Nat

VARIABLES
  token,      \* the client has a token to connect with
  socket,     \* the current socket
  sock,       \* every socket: its state, its callbacks, what the server sends on it
  refCounts,  \* how many handlers each channel has
  mounted,    \* how many components are subscribed, as they see it
  timers,     \* reconnects pending, and whether reconnectTimer is one of them
  beat,       \* the socket whose heartbeat timer runs
  left        \* what remains of the bounds

vars == <<token, socket, sock, refCounts, mounted, timers, beat, left>>

States == {"free", "connecting", "open", "closing"}
Free == [state |-> "free", attached |-> FALSE, subs |-> {}]

TypeOK ==
  /\ token \in BOOLEAN
  /\ socket \in Sockets \cup {NoSocket}
  /\ sock \in [Sockets -> [state : States, attached : BOOLEAN, subs : SUBSET Channels]]
  /\ refCounts \in [Channels -> 0..MaxMounts]
  /\ mounted \in [Channels -> 0..MaxMounts]
  /\ timers \in [pending : Nat, known : BOOLEAN]
  /\ beat \in Sockets \cup {NoSocket}
  /\ left \in [acts : 0..MaxActs, drops : 0..MaxDrops]

Spend(what) == left[what] > 0 /\ left' = [left EXCEPT ![what] = @ - 1]

Wanted == {c \in Channels : refCounts[c] > 0}

\* clearReconnect: only the timer reconnectTimer refers to can be stopped.
Stopped(t) == [pending |-> IF t.known THEN t.pending - 1 ELSE t.pending, known |-> FALSE]

\* send: nothing leaves unless the current socket is open.
Told(socks, subs) ==
  IF socket # NoSocket /\ socks[socket].state = "open"
  THEN [socks EXCEPT ![socket].subs = subs] ELSE socks

\* A socket that was still connecting has nothing to say any more.
Closing(s) == IF sock[s].state = "free" THEN Free
              ELSE [sock[s] EXCEPT !.state = "closing", !.subs = {}]

\* openSocket that forgets its predecessor.
FaultyOpenSocket(t) ==
  \E s \in Sockets :
    /\ s # socket /\ sock[s].state = "free"
    /\ sock' = [sock EXCEPT ![s] = [Free EXCEPT !.state = "connecting", !.attached = TRUE]]
    /\ socket' = s
    /\ timers' = Stopped(t)
    /\ beat' = NoSocket

\* openSocket: the predecessor is silenced and closed, both timers are cleared.
openSocket(t) ==
  \E s \in Sockets :
    /\ s # socket /\ sock[s].state = "free"
    /\ sock' = [x \in Sockets |->
                  IF x = s THEN [Free EXCEPT !.state = "connecting", !.attached = TRUE]
                  ELSE IF x = socket THEN [Closing(x) EXCEPT !.attached = FALSE]
                  ELSE sock[x]]
    /\ socket' = s
    /\ timers' = Stopped(t)
    /\ beat' = NoSocket

-----------------------------------------------------------------------------
Init ==
  /\ token = FALSE
  /\ socket = NoSocket
  /\ sock = [s \in Sockets |-> Free]
  /\ refCounts = [c \in Channels |-> 0]
  /\ mounted = [c \in Channels |-> 0]
  /\ timers = [pending |-> 0, known |-> FALSE]
  /\ beat = NoSocket
  /\ left = [acts |-> MaxActs, drops |-> MaxDrops]

\* The effect of a new token or tenant: connect(token, force).
connect ==
  /\ Spend("acts")
  /\ token' = TRUE
  /\ openSocket(timers)
  /\ UNCHANGED <<refCounts, mounted>>

\* The effect of a lost token.  The commit that loses it has unmounted the pages
\* already.  The socket is closed with its callbacks in place.
disconnect ==
  /\ token /\ Spend("acts")
  /\ token' = FALSE
  /\ timers' = Stopped(timers)
  /\ beat' = NoSocket
  /\ sock' = IF socket = NoSocket THEN sock ELSE [sock EXCEPT ![socket] = Closing(socket)]
  /\ socket' = NoSocket
  /\ mounted' = [c \in Channels |-> 0]
  /\ refCounts' = [c \in Channels |-> 0]

\* useRealtimeChannel: a component subscribes, the first of a channel tells the
\* server.
subscribe(c) ==
  /\ mounted[c] < MaxMounts /\ Spend("acts")
  /\ mounted' = [mounted EXCEPT ![c] = @ + 1]
  /\ refCounts' = [refCounts EXCEPT ![c] = @ + 1]
  /\ sock' = IF refCounts[c] > 0 THEN sock
             ELSE Told(sock, IF socket = NoSocket THEN {} ELSE sock[socket].subs \cup {c})
  /\ UNCHANGED <<token, socket, timers, beat>>

\* An unsubscribe that tells the server whoever else listens.
FaultyUnsubscribe(c) ==
  /\ mounted[c] > 0
  /\ mounted' = [mounted EXCEPT ![c] = @ - 1]
  /\ refCounts' = [refCounts EXCEPT ![c] = IF @ = 0 THEN 0 ELSE @ - 1]
  /\ sock' = Told(sock, IF socket = NoSocket THEN {} ELSE sock[socket].subs \ {c})
  /\ UNCHANGED <<token, socket, timers, beat, left>>

\* ... and the last to leave tells it again.
unsubscribe(c) ==
  /\ mounted[c] > 0
  /\ mounted' = [mounted EXCEPT ![c] = @ - 1]
  /\ refCounts' = [refCounts EXCEPT ![c] = IF @ = 0 THEN 0 ELSE @ - 1]
  /\ sock' = IF refCounts[c] > 1 THEN sock
             ELSE Told(sock, IF socket = NoSocket THEN {} ELSE sock[socket].subs \ {c})
  /\ UNCHANGED <<token, socket, timers, beat, left>>

-----------------------------------------------------------------------------
\* onopen: subscribe to everything wanted, start the heartbeat.
onopen(s) ==
  /\ sock[s].state = "connecting"
  /\ sock' = [sock EXCEPT ![s].state = "open", ![s].subs = Wanted]
  /\ beat' = s
  /\ UNCHANGED <<token, socket, refCounts, mounted, timers, left>>

\* An onclose that schedules no reconnect.
FaultyOnclose(s) ==
  /\ beat' = NoSocket
  /\ socket' = IF socket = s THEN NoSocket ELSE socket
  /\ timers' = timers

\* An onclose that reconnects only in place of the current socket.
FaultyOncloseOfCurrent(s) ==
  /\ beat' = NoSocket
  /\ socket' = IF socket = s THEN NoSocket ELSE socket
  /\ timers' = IF token /\ socket = s THEN [pending |-> timers.pending + 1, known |-> TRUE]
               ELSE timers

\* onclose: the heartbeat stops, whosever it is, and unless the client means to
\* be disconnected a reconnect is scheduled, over the timer scheduled before.
onclose(s) ==
  /\ beat' = NoSocket
  /\ socket' = IF socket = s THEN NoSocket ELSE socket
  /\ timers' = IF token THEN [pending |-> timers.pending + 1, known |-> TRUE] ELSE timers

Closed(s) ==
  /\ sock' = [sock EXCEPT ![s] = Free]
  /\ IF sock[s].attached THEN onclose(s) ELSE UNCHANGED <<beat, socket, timers>>
  /\ UNCHANGED <<token, refCounts, mounted>>

\* The closing handshake of a socket ends ...
CloseEnds(s) == sock[s].state = "closing" /\ Closed(s) /\ UNCHANGED left

\* ... or the network or the server ends a connection.
Drop(s) == sock[s].state \in {"connecting", "open"} /\ Spend("drops") /\ Closed(s)

\* A reconnect timer fires.  It may be one that no field refers to any more;
\* openSocket then stops the one that reconnectTimer refers to.
Reconnect ==
  /\ timers.pending > 0
  /\ \E known \in IF ~timers.known THEN {FALSE}
                  ELSE IF timers.pending = 1 THEN {TRUE} ELSE BOOLEAN :
       LET t == [pending |-> timers.pending - 1, known |-> timers.known /\ ~known] IN
       IF token THEN openSocket(t)
       ELSE timers' = t /\ UNCHANGED <<sock, socket, beat>>
  /\ UNCHANGED <<token, refCounts, mounted, left>>

Next ==
  \/ connect \/ disconnect
  \/ \E c \in Channels : subscribe(c) \/ unsubscribe(c)
  \/ \E s \in Sockets : onopen(s) \/ CloseEnds(s) \/ Drop(s)
  \/ Reconnect

\* A handshake ends, a closing socket closes, a timer fires.
Fairness ==
  /\ \A s \in Sockets : WF_vars(onopen(s)) /\ WF_vars(CloseEnds(s))
  /\ WF_vars(Reconnect)

Spec == Init /\ [][Next]_vars /\ Fairness

-----------------------------------------------------------------------------
\* Only the current socket can bring events: a component never gets one twice.
OneEar ==
  \A s \in Sockets : sock[s].state = "open" /\ sock[s].attached => s = socket

\* While the socket is open the server sends what the components want, neither
\* less nor more.
SubscribedAsWanted ==
  socket # NoSocket /\ sock[socket].state = "open"
    => sock[socket].subs = {c \in Channels : mounted[c] > 0}

\* The close of a predecessor may stop the heartbeat of the current socket; it is
\* then about to be replaced.
SilentIsReplaced ==
  socket # NoSocket /\ sock[socket].state = "open" /\ beat # socket => timers.pending > 0

\* (lib/realtime/ws-client.ts) Whatever drops, callbacks and remounts come in
\* between: one socket is heard, and it is told what is wanted and kept alive.
ConnectionAgrees == OneEar /\ SubscribedAsWanted /\ SilentIsReplaced

\* With a token, the connection always comes back, for good once the network is
\* stable, and every mounted component is served.
ComponentsAreServed ==
  <>[](token => /\ socket # NoSocket
                /\ sock[socket].state = "open" /\ beat = socket
                /\ \A c \in Channels : mounted[c] > 0 => c \in sock[socket].subs)
=============================================================================
