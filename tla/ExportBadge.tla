----------------------------- MODULE ExportBadge -----------------------------
(* The badge of the download center in the top bar: how many exports are under
   way, and how many are done and unread.  The server counts and then pushes, the
   client asks when something may have changed, and nothing orders the answers.
   Paths are relative to src/web/src/.                                        *)
EXTENDS Integers, FiniteSets

CONSTANTS
  MaxJobs,    \* bound on exports
  MaxVisits,  \* bound on visits of the download center and downloads
  MaxFails    \* bound on requests that fail and events that are lost

ConstantsFit == MaxJobs \in Nat /\ MaxVisits \in Nat /\ MaxFails \in Nat

VARIABLES
  jobs,       \* the user's exports: waiting, active, unread, read
  age,        \* how often they changed
  badge,      \* what is shown, and how old it is
  messages,   \* counts on their way to the client, pushed or asked for
  marks,      \* requests to mark the exports as read
  late,       \* how the badge came to show something else
  left

vars == <<jobs, age, badge, messages, marks, late, left>>

Counts(j) == [active |-> j.active, unread |-> j.unread]
Take(what) == left[what] > 0 /\ left' = [left EXCEPT ![what] = @ - 1]

\* A request is answered with the counts of some time after it was made.
Ask == [kind |-> "asked", age |-> age, counts |-> Counts(jobs), read |-> FALSE]

Init ==
  /\ jobs = [waiting |-> MaxJobs, active |-> 0, unread |-> 0]
  /\ age = 0
  /\ badge = [active |-> 0, unread |-> 0, age |-> 0]
  /\ messages = {Ask}
  /\ marks = {} /\ late = {}
  /\ left = [visits |-> MaxVisits, fails |-> MaxFails]

\* The jobs change, and the server has counted them for a push.
Turns(j) ==
  /\ jobs' = j /\ age' = age + 1
  /\ messages' = messages \cup {[kind |-> "pushed", age |-> age + 1, counts |-> Counts(j), read |-> TRUE]}

Starts == jobs.waiting > 0 /\ Turns([jobs EXCEPT !.waiting = @ - 1, !.active = @ + 1])
          /\ UNCHANGED <<badge, marks, late, left>>
Ends == jobs.active > 0 /\ Turns([jobs EXCEPT !.active = @ - 1, !.unread = @ + 1])
        /\ UNCHANGED <<badge, marks, late, left>>

\* The number of unread exports goes at once, and the server is told.
markVisited ==
  /\ Take("visits")
  /\ badge' = [badge EXCEPT !.unread = 0]
  /\ marks' = marks \cup {[no |-> left.visits, by |-> "visit"]}
  /\ UNCHANGED <<jobs, age, messages, late>>

\* The list of the download center, which reads all, and a download, which reads
\* one, tell the server only.
MarkRead ==
  /\ Take("visits")
  /\ \E by \in {"list", "download"} : marks' = marks \cup {[no |-> left.visits, by |-> by]}
  /\ UNCHANGED <<jobs, age, badge, messages, late>>

\* A failure that is not followed by a look at the server.
FaultyMarkFails(m) ==
  /\ Take("fails") /\ marks' = marks \ {m}
  /\ UNCHANGED <<jobs, age, badge, messages, late>>

\* The exports are marked; the event of the page makes the badge ask.
Marked(m) ==
  /\ marks' = marks \ {m}
  /\ jobs' = [jobs EXCEPT !.unread = IF m.by = "download" /\ @ > 0 THEN @ - 1 ELSE 0] /\ age' = age + 1
  /\ messages' = messages \cup
       {[kind |-> k, age |-> age + 1, counts |-> Counts(jobs'), read |-> k = "pushed"] : k \in {"asked", "pushed"}}
  /\ UNCHANGED <<badge, late, left>>

\* Only a visit, which has changed the badge already, looks again.
MarkFails(m) ==
  /\ Take("fails")
  /\ marks' = marks \ {m}
  /\ messages' = IF m.by = "visit" THEN messages \cup {Ask} ELSE messages
  /\ UNCHANGED <<jobs, age, badge, late>>

Read(m) ==
  /\ ~m.read
  /\ messages' = (messages \ {m}) \cup {[Ask EXCEPT !.read = TRUE]}
  /\ UNCHANGED <<jobs, age, badge, marks, late, left>>

\* What arrives is shown, pushed or asked for.
Arrives(m) ==
  /\ m.read
  /\ messages' = messages \ {m}
  /\ badge' = [active |-> m.counts.active, unread |-> m.counts.unread, age |-> m.age]
  /\ late' = IF m.age < badge.age THEN late \cup {"overtaken"} ELSE late
  /\ UNCHANGED <<jobs, age, marks, left>>

\* A request that fails leaves the badge as it is, as does a lost event.
Lost(m) ==
  /\ Take("fails")
  /\ messages' = messages \ {m}
  /\ late' = late \cup {"lost"}
  /\ UNCHANGED <<jobs, age, badge, marks>>

Next ==
  \/ Starts \/ Ends \/ markVisited \/ MarkRead
  \/ \E m \in marks : Marked(m) \/ MarkFails(m)
  \/ \E m \in messages : Read(m) \/ Arrives(m) \/ Lost(m)

Spec == Init /\ [][Next]_vars

\* When nothing is on its way the badge shows the exports as they are, even after
\* a visit whose request failed, unless an older answer overtook a newer one or
\* one was lost.
BadgeCatchesUp ==
  messages = {} /\ marks = {} /\ late = {} => Counts(jobs) = [active |-> badge.active, unread |-> badge.unread]
=============================================================================
