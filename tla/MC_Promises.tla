----------------------------- MODULE MC_Promises -----------------------------
(* Model-checking instance of what goes on without anybody asking for it: JobLoops,
   and RealtimeClient and ExportBadge beside it.  A behavior is one of
   the three; the others stay out of it.                                           *)
EXTENDS JobLoops, TLC

CONSTANTS
  c1, c2,
  Sockets, Channels, MaxMounts, MaxActs, MaxDrops, NoSocket,  \* of RealtimeClient
  MaxJobs, MaxVisits, MaxFails                                \* of ExportBadge

TwoCrons == {c1, c2}
AllBodies == [enabled : BOOLEAN \cup {Unset}, cron : TwoCrons \cup {Unset}]

VARIABLES part,
  rc_token, rc_socket, rc_sock, rc_refCounts, rc_mounted, rc_timers, rc_beat,
  rc_left,
  eb_jobs, eb_age, eb_badge, eb_messages, eb_marks, eb_late, eb_left

Client == INSTANCE RealtimeClient WITH
  token <- rc_token, socket <- rc_socket, sock <- rc_sock,
  refCounts <- rc_refCounts, mounted <- rc_mounted, timers <- rc_timers,
  beat <- rc_beat, left <- rc_left
Badge == INSTANCE ExportBadge WITH
  jobs <- eb_jobs, age <- eb_age, badge <- eb_badge, messages <- eb_messages,
  marks <- eb_marks, late <- eb_late, left <- eb_left

ASSUME RealtimeConstantsFit == Client!ConstantsFit
ASSUME BadgeConstantsFit == Badge!ConstantsFit

vars_rc ==
  <<rc_token, rc_socket, rc_sock, rc_refCounts, rc_mounted, rc_timers, rc_beat,
  rc_left>>
vars_eb ==
  <<eb_jobs, eb_age, eb_badge, eb_messages, eb_marks, eb_late, eb_left>>

\* What is left out of a behavior stays in an initial state.
PromisesInit ==
  /\ part \in {"loops", "realtime", "badge"}
  /\ Init /\ (part # "loops" => ~enabled /\ cron = c1)
  /\ Client!Init /\ Badge!Init

PromisesNext ==
  /\ UNCHANGED part
  /\ IF part = "loops" THEN Next ELSE UNCHANGED vars
  /\ IF part = "realtime" THEN Client!Next ELSE UNCHANGED vars_rc
  /\ IF part = "badge" THEN Badge!Next ELSE UNCHANGED vars_eb

all == <<part, vars, vars_rc, vars_eb>>

\* The fairness of each module, for the behaviors that are its own.
PromisesSpec ==
  /\ PromisesInit /\ [][PromisesNext]_all
  /\ \A a \in Admins : WF_vars(part = "loops" /\ Request(a))
  /\ \A l \in Loops : WF_vars(part = "loops" /\ LoopStep(l))
  /\ \A s \in Sockets :
       /\ WF_vars_rc(part = "realtime" /\ Client!onopen(s))
       /\ WF_vars_rc(part = "realtime" /\ Client!CloseEnds(s))
  /\ WF_vars_rc(part = "realtime" /\ Client!Reconnect)

------------------------------------------------------------------------------
\* RealtimeClient: one socket is heard, told what is wanted and kept alive.
ConnectionAgrees == Client!ConnectionAgrees
\* RealtimeClient: with a token the connection comes back.
ComponentsAreServed == Client!ComponentsAreServed
\* ExportBadge: the badge catches up with the exports.
BadgeCatchesUp == Badge!BadgeCatchesUp
==============================================================================
