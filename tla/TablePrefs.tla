------------------------------ MODULE TablePrefs ------------------------------
(* What a user sets up for a table (hooks/useTablePreferences.ts): shown at once,
   kept in IndexedDB, sent to the server at once or half a second later, and read
   back from both when the table is shown.  One hook serves the tabs of a page,
   each of which is a table.  A configuration is the set of edits it contains; the
   columns it is made of are in TableColumns.
   Paths are relative to src/web/src/.                                         *)
EXTENDS Integers, FiniteSets, TLC

CONSTANTS
  Tables,     \* tables of the page
  None,
  MaxEdits,   \* bound on edits
  MaxMoves,   \* bound on resets, changes of the tab and visits
  MaxFails    \* bound on requests that fail

VARIABLES
  table,      \* the table shown
  shown,      \* its configuration
  cache,      \* IndexedDB: by table a configuration and when it was made
  server,     \* the same on the server
  clock,
  load,       \* the reading of a table that was opened
  saves,      \* configurations waiting for the timer or on their way
  reset,      \* the table being reset
  strays,     \* how the page and the server came to differ
  room        \* what remains of the bounds

vars == <<table, shown, cache, server, clock, load, saves, reset, strays, room>>

\* What is kept of a table in IndexedDB and on the server, its reading, its reset.
Cached == [config : SUBSET Int, at : Nat]
Entries == [config : SUBSET Int, at : Nat, no : Nat]
LoadValues ==
  [table : Tables, cached : Cached \cup {None}, remote : Entries \cup {None}, stage : {"get", "got"}]
ResetValues == [table : Tables, done : BOOLEAN]

\* What the constants are supposed to be: there is a table, None is none of the
\* records, the bounds are numbers.
ConstantsFit ==
  /\ Tables # {}
  /\ None \notin Cached \cup Entries \cup LoadValues \cup ResetValues
  /\ MaxEdits \in Nat /\ MaxMoves \in Nat /\ MaxFails \in Nat

ATable == CHOOSE t \in Tables : TRUE
Note(tag, when) == strays' = IF when THEN strays \cup {tag} ELSE strays
Use(what) == room[what] > 0 /\ room' = [room EXCEPT ![what] = @ - 1]
Of(entry) == IF entry = None THEN {} ELSE entry.config
Waiting == {s \in saves : s.stage = "timer"}

Init ==
  /\ table = ATable /\ shown = {}
  /\ cache = [t \in Tables |-> None]
  /\ server \in [Tables -> {None, [config |-> {0}, at |-> 1, no |-> 0]}]
  /\ clock = 1
  /\ load = [table |-> ATable, cached |-> None, remote |-> None, stage |-> "get"]
  /\ saves = {} /\ reset = None /\ strays = {}
  /\ room = [edits |-> MaxEdits, moves |-> MaxMoves, fails |-> MaxFails]

\* An edit of what is shown, kept in IndexedDB.  What is flushed is sent at once
\* and stops the timer, the rest restarts it.
applyConfig(flush) ==
  LET next == shown \cup {1 + MaxEdits - room.edits} IN
  /\ Use("edits")
  /\ shown' = next /\ clock' = clock + 1
  /\ cache' = [cache EXCEPT ![table] = [config |-> next, at |-> clock + 1]]
  /\ saves' = (saves \ Waiting) \cup
       {[no |-> clock + 1, table |-> table, config |-> next, at |-> 0, stage |-> IF flush THEN "sent" ELSE "timer"]}
  /\ strays' = strays \cup (IF load # None THEN {"early"} ELSE {})
                      \cup (IF \E s \in Waiting : s.table # table THEN {"dropped"} ELSE {})
                      \cup (IF reset # None THEN {"revived"} ELSE {})
  /\ UNCHANGED <<table, server, load, reset>>

\* An edit that is shown and kept, but not sent.
FaultyFires(s) ==
  /\ s.stage \in {"timer", "left"}
  /\ saves' = saves \ {s}
  /\ UNCHANGED <<table, shown, cache, server, clock, load, reset, strays, room>>

\* The timer of a page that was left runs all the same.
Fires(s) ==
  /\ s.stage \in {"timer", "left"}
  /\ saves' = (saves \ {s}) \cup {[s EXCEPT !.stage = "sent"]}
  /\ UNCHANGED <<table, shown, cache, server, clock, load, reset, strays, room>>

\* The server keeps what arrives last; ...
Saved(s) ==
  /\ s.stage \in {"sent", "lost"}
  /\ clock' = clock + 1
  /\ server' = [server EXCEPT ![s.table] = [config |-> s.config, at |-> clock + 1, no |-> s.no]]
  /\ saves' = (saves \ {s}) \cup (IF s.stage = "lost" THEN {} ELSE {[s EXCEPT !.stage = "saved", !.at = clock + 1]})
  /\ Note("overtaken", server[s.table] # None /\ server[s.table].no > s.no)
  /\ UNCHANGED <<table, shown, cache, load, reset, room>>

\* ... and its time goes with the configuration that was sent.
SaveReplied(s) ==
  /\ s.stage = "saved"
  /\ saves' = saves \ {s}
  /\ cache' = [cache EXCEPT ![s.table] = [config |-> s.config, at |-> s.at]]
  /\ UNCHANGED <<table, shown, server, clock, load, reset, strays, room>>

\* A save that fails is reported and not undone.
SaveFails(s) ==
  /\ s.stage \in {"sent", "lost"}
  /\ s.stage = "sent" => Use("fails")
  /\ s.stage = "lost" => UNCHANGED room
  /\ saves' = saves \ {s}
  /\ strays' = strays \cup {"failed"}
  /\ UNCHANGED <<table, shown, cache, server, clock, load, reset>>

-----------------------------------------------------------------------------
\* A table is opened: IndexedDB is shown if it has it, and the server is asked.
Opens(t, before) ==
  /\ table' = t
  /\ shown' = IF cache[t] = None THEN before ELSE cache[t].config
  /\ load' = [table |-> t, cached |-> cache[t], remote |-> None, stage |-> "get"]

\* Another tab: until the new table has been read it is set up like the old one.
SwitchTab(t) ==
  /\ Use("moves") /\ t # table /\ Opens(t, shown)
  /\ Note("early", reset # None \/ \E s \in saves : s.table = t)
  /\ UNCHANGED <<cache, server, clock, saves, reset>>

\* The page is left and visited again; its timer is out of reach by then.
Visit ==
  /\ Use("moves") /\ Opens(ATable, {})
  /\ saves' = {IF s.stage = "timer" THEN [s EXCEPT !.stage = "left"] ELSE s : s \in saves}
  /\ Note("early", saves # {} \/ reset # None)
  /\ UNCHANGED <<cache, server, clock, reset>>

\* The browser is reloaded: what was on its way may arrive.
Reload ==
  /\ Use("moves") /\ Opens(ATable, {})
  /\ saves' = {[s EXCEPT !.stage = "lost"] : s \in {o \in saves : o.stage \in {"sent", "lost"}}}
  /\ reset' = None
  /\ strays' = strays \cup (IF \E s \in saves : s.stage \in {"timer", "left"} THEN {"dropped"} ELSE {})
                      \cup (IF saves # {} \/ reset # None THEN {"early"} ELSE {})
  /\ UNCHANGED <<cache, server, clock>>

Read ==
  /\ load # None /\ load.stage = "get"
  /\ load' = [load EXCEPT !.remote = server[load.table], !.stage = "got"]
  /\ UNCHANGED <<table, shown, cache, server, clock, saves, reset, strays, room>>

\* The reply is shown if it is not older than what IndexedDB had at the start.
Loaded ==
  /\ load # None /\ load.stage = "got"
  /\ load' = None
  /\ IF load.remote # None /\ (load.cached = None \/ load.remote.at >= load.cached.at)
     THEN /\ shown' = load.remote.config
          /\ cache' = [cache EXCEPT ![table] = [config |-> load.remote.config, at |-> load.remote.at]]
     ELSE /\ shown' = IF load.cached = None THEN {} ELSE shown
          /\ UNCHANGED cache
  /\ UNCHANGED <<table, server, clock, saves, reset, strays, room>>

LoadFails ==
  /\ load # None /\ Use("fails")
  /\ load' = None
  /\ shown' = IF load.cached = None THEN {} ELSE shown
  /\ strays' = strays \cup {"failed"}
  /\ UNCHANGED <<table, cache, server, clock, saves, reset>>

-----------------------------------------------------------------------------
\* Everything is reset on the server, then in IndexedDB, then on the page,
\* whichever table it shows.  No timer is stopped.
resetAll ==
  /\ reset = None /\ Use("moves")
  /\ reset' = [table |-> table, done |-> FALSE]
  /\ strays' = strays \cup (IF load # None THEN {"early"} ELSE {})
                      \cup (IF \E s \in saves : s.table = table THEN {"revived"} ELSE {})
  /\ UNCHANGED <<table, shown, cache, server, clock, load, saves>>

ResetServed ==
  /\ reset # None /\ ~reset.done
  /\ reset' = [reset EXCEPT !.done = TRUE]
  /\ \/ server' = [server EXCEPT ![reset.table] = None] /\ UNCHANGED <<strays, room>>
     \/ Use("fails") /\ strays' = strays \cup {"failed"} /\ UNCHANGED server
  /\ UNCHANGED <<table, shown, cache, clock, load, saves>>

ResetReplied ==
  /\ reset # None /\ reset.done
  /\ reset' = None /\ shown' = {}
  /\ cache' = [cache EXCEPT ![reset.table] = None]
  /\ strays' = strays \cup (IF table # reset.table THEN {"strayed"} ELSE {})
                      \cup (IF load # None THEN {"early"} ELSE {})
  /\ UNCHANGED <<table, server, clock, load, saves, room>>

Next ==
  \/ \E flush \in BOOLEAN : applyConfig(flush)
  \/ \E s \in saves : Fires(s) \/ Saved(s) \/ SaveReplied(s) \/ SaveFails(s)
  \/ \E t \in Tables : SwitchTab(t)
  \/ Visit \/ Reload \/ Read \/ Loaded \/ LoadFails
  \/ resetAll \/ ResetServed \/ ResetReplied

Spec == Init /\ [][Next]_vars

-----------------------------------------------------------------------------
\* When nothing is under way the page shows what the server keeps, unless an edit
\* was made before the table had been read or while it was being reset, the table
\* was read while an edit of it was on its way, saves overtook each other, a timer was lost with its page or to another table, a
\* reset ended on another tab, or a request failed.
PrefsCatchUp ==
  saves = {} /\ load = None /\ reset = None /\ strays = {}
    => shown = Of(server[table])
=============================================================================
