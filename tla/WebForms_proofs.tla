---------------------------- MODULE WebForms_proofs ----------------------------
(********************************************************************************)
(* Proofs about the behaviors of MC_WebForms' Spec that are of TablePrefs,      *)
(* Scenery, SideNav, RegionPicker, DateRange, FilterToolbar or CronBuilder: the *)
(* configuration of a table on the server catches up with the one shown; the    *)
(* pictures come from one network, none waits for an answer that does not come, *)
(* and the background paints exactly while it can be seen; the ball of the      *)
(* navigation and its menu stay in the window; the region field shows one       *)
(* place; the days asked for are those picked; every filter has its place and   *)
(* can be reached; a schedule keeps its meaning.  For any number of tables,     *)
(* edits, moves and failures, of networks and pictures, any windows, menus,     *)
(* division data, time zones and grids, any bounds of a field and expressions,  *)
(* and whatever the user does.                                                  *)
(********************************************************************************)
EXTENDS MC_WebForms, FiniteSetTheorems, SequenceTheorems, TLAPS

------------------------------------------------------------------------------
(* TablePrefs.                                                                *)

\* Where a save is: waiting for its timer, the page of which may have been left; on
\* its way, the page of which may have been reloaded; kept by the server.
Stages == {"timer", "left", "sent", "saved", "lost"}
SaveValues == [no : Nat, table : Tables, config : SUBSET Int, at : Nat, stage : Stages]

\* Every variable has its type.
Typed ==
  /\ tp_table \in Tables /\ tp_shown \in SUBSET Int
  /\ tp_cache \in [Tables -> Prefs!Cached \cup {None}]
  /\ tp_server \in [Tables -> Prefs!Entries \cup {None}]
  /\ tp_clock \in Nat
  /\ tp_load \in Prefs!LoadValues \cup {None}
  /\ tp_saves \subseteq SaveValues
  /\ tp_reset \in Prefs!ResetValues \cup {None}
  /\ tp_room \in [edits : Nat, moves : Nat, fails : Nat]

\* The configurations of a table that are on their way.
SavesOf(t) == {s \in tp_saves : s.table = t}

\* Nothing is newer than the clock, and no two saves are of the same edit.
Stamped ==
  /\ \A t \in Tables : /\ tp_cache[t] # None => tp_cache[t].at <= tp_clock
                       /\ tp_server[t] # None => tp_server[t].at <= tp_clock /\ tp_server[t].no <= tp_clock
  /\ \A s \in tp_saves : s.no <= tp_clock /\ s.at <= tp_clock
  /\ \A s, o \in tp_saves : s.no = o.no => s = o
  /\ tp_load # None /\ tp_load.remote # None => tp_load.remote.at <= tp_clock

\* What follows holds as long as nothing has come apart.
\* What a reply says was kept, or something later was.
Known ==
  \A s \in tp_saves : s.stage = "saved" => tp_server[s.table] # None /\ s.at <= tp_server[s.table].at

\* A table that is read is the one shown, and nothing of it is on its way.
Loading ==
  tp_load # None => /\ tp_reset = None /\ tp_load.table = tp_table /\ tp_load.cached = tp_cache[tp_table]
                    /\ tp_load.stage = "got" => tp_load.remote = tp_server[tp_table]
                    /\ SavesOf(tp_table) = {}

\* So is a table that is reset, and the server has it no more once it has answered.
Resetting ==
  tp_reset # None => /\ tp_reset.table = tp_table /\ tp_load = None /\ SavesOf(tp_table) = {}
                     /\ tp_reset.done => tp_server[tp_table] = None

\* What IndexedDB has the server has, or will have, or is about to lose.
Newer ==
  \A t \in Tables :
    \/ tp_cache[t] # None => tp_server[t] # None /\ tp_cache[t].at <= tp_server[t].at
    \/ SavesOf(t) # {}
    \/ tp_reset # None /\ tp_reset.done /\ tp_reset.table = t

\* The saves of the table shown that the server has not kept.
Pending == {s \in SavesOf(tp_table) : s.stage # "saved"}

\* The newest of them carries what is shown, and nothing the server has is newer; ...
Carried ==
  \E s \in Pending : /\ s.config = tp_shown
                     /\ \A o \in Pending : o.no <= s.no
                     /\ tp_server[tp_table] # None => tp_server[tp_table].no <= s.no

\* ... or the server has what is shown, and what it still gets is older.
Kept ==
  /\ tp_shown = Prefs!Of(tp_server[tp_table])
  /\ \A s \in Pending : tp_server[tp_table] # None /\ s.no < tp_server[tp_table].no

\* What is shown is on its way to the server or there, unless it is being read.
Coming == tp_load = None /\ tp_reset = None => Carried \/ Kept

PrefsInv == Typed /\ Stamped /\ (tp_strays = {} => Known /\ Loading /\ Resetting /\ Newer /\ Coming)

LEMMA TablesExist == Tables # {}
  BY PrefsConstantsFit DEF Prefs!ConstantsFit

LEMMA BoundsAreNat == MaxEdits \in Nat /\ MaxMoves \in Nat /\ MaxFails \in Nat
  BY PrefsConstantsFit DEF Prefs!ConstantsFit

LEMMA NoneIsNone == None \notin Prefs!Entries \cup Prefs!Cached \cup Prefs!LoadValues \cup Prefs!ResetValues
  BY PrefsConstantsFit DEF Prefs!ConstantsFit

LEMMA ATableIs == Prefs!ATable \in Tables
  BY TablesExist DEF Prefs!ATable

\* What is spent is a bound.
LEMMA UseTyped ==
  ASSUME Typed, Prefs!Use("edits") \/ Prefs!Use("moves") \/ Prefs!Use("fails") \/ UNCHANGED tp_room
  PROVE  tp_room' \in [edits : Nat, moves : Nat, fails : Nat]
<1>1. tp_room \in [edits : Nat, moves : Nat, fails : Nat]
  BY DEF Typed
<1>2. ASSUME NEW w \in {"edits", "moves", "fails"}, Prefs!Use(w)
      PROVE  tp_room' \in [edits : Nat, moves : Nat, fails : Nat]
  <2>1. tp_room[w] > 0 /\ tp_room' = [tp_room EXCEPT ![w] = tp_room[w] - 1]
    BY <1>2 DEF Prefs!Use
  <2>2. tp_room[w] - 1 \in Nat
    BY <1>1, <2>1
  <2>3. QED
    BY <1>1, <2>1, <2>2
<1>3. QED
  BY <1>1, <1>2

LEMMA OfTyped ==
  ASSUME NEW e \in Prefs!Entries \cup {None}
  PROVE  Prefs!Of(e) \in SUBSET Int /\ (e # None => Prefs!Of(e) = e.config)
  BY DEF Prefs!Of, Prefs!Entries

\* What the numbers and times are.
LEMMA StampsAre ==
  ASSUME PrefsInv
  PROVE  /\ \A o \in tp_saves : o.no <= tp_clock /\ o.at <= tp_clock /\ o.no \in Nat /\ o.at \in Nat /\ o.table \in Tables
         /\ \A t \in Tables : /\ tp_cache[t] # None => tp_cache[t].at <= tp_clock /\ tp_cache[t].at \in Nat
                              /\ tp_server[t] # None => /\ tp_server[t].at <= tp_clock /\ tp_server[t].no <= tp_clock
                                                        /\ tp_server[t].at \in Nat /\ tp_server[t].no \in Nat
         /\ tp_clock \in Nat /\ tp_table \in Tables
  BY DEF PrefsInv, Stamped, Typed, SaveValues, Prefs!Cached, Prefs!Entries

LEMMA ReadStamped ==
  ASSUME PrefsInv, tp_load # None, tp_load.remote # None
  PROVE  tp_load.remote.at <= tp_clock /\ tp_load.remote.at \in Nat
<1>1. tp_load \in Prefs!LoadValues /\ tp_load.remote \in Prefs!Entries
  BY DEF PrefsInv, Typed, Prefs!LoadValues
<1>2. QED
  BY <1>1 DEF PrefsInv, Stamped, Prefs!Entries

\* An edit: the save that carries it is the newest.
LEMMA ApplyKeeps ==
  ASSUME PrefsInv, NEW flush \in BOOLEAN, Prefs!applyConfig(flush)
  PROVE  PrefsInv'
<1> DEFINE next == tp_shown \cup {1 + MaxEdits - tp_room.edits}
<1>1. PICK s : s = [no |-> tp_clock + 1, table |-> tp_table, config |-> next, at |-> 0,
                    stage |-> IF flush THEN "sent" ELSE "timer"]
  OBVIOUS
<1>2. PICK e : e = [config |-> next, at |-> tp_clock + 1]
  OBVIOUS
<1>3. /\ tp_shown' = next /\ tp_clock' = tp_clock + 1
      /\ tp_cache' = [tp_cache EXCEPT ![tp_table] = e]
      /\ tp_saves' = (tp_saves \ Prefs!Waiting) \cup {s}
      /\ tp_strays' = tp_strays \cup (IF tp_load # None THEN {"early"} ELSE {})
                      \cup (IF \E o \in Prefs!Waiting : o.table # tp_table THEN {"dropped"} ELSE {})
                      \cup (IF tp_reset # None THEN {"revived"} ELSE {})
      /\ UNCHANGED <<tp_table, tp_server, tp_load, tp_reset>>
  BY <1>1, <1>2 DEF Prefs!applyConfig
<1>4. Typed
  BY DEF PrefsInv
<1>5. next \in SUBSET Int /\ tp_clock + 1 \in Nat
  <2>1. tp_room.edits \in Nat /\ tp_shown \in SUBSET Int /\ tp_clock \in Nat
    BY <1>4 DEF Typed
  <2>2. PICK i \in Int : i = 1 + MaxEdits - tp_room.edits
    BY <2>1, BoundsAreNat
  <2>3. next = tp_shown \cup {i}
    BY <2>2
  <2>4. tp_clock + 1 \in Nat
    BY <2>1
  <2>5. tp_shown \cup {i} \in SUBSET Int
    BY <2>1
  <2>6. QED
    BY <2>3, <2>4, <2>5
<1>6. s \in SaveValues /\ s.no = tp_clock + 1 /\ s.at = 0 /\ s.table = tp_table /\ s.config = tp_shown' /\ s.stage # "saved"
  BY <1>1, <1>3, <1>4, <1>5 DEF SaveValues, Stages, Typed
<1>7. e \in Prefs!Cached /\ e.at = tp_clock + 1
  BY <1>2, <1>5 DEF Prefs!Cached
<1>8. tp_room' \in [edits : Nat, moves : Nat, fails : Nat]
  <2>1. Prefs!Use("edits")
    BY DEF Prefs!applyConfig
  <2>2. QED
    BY <1>4, <2>1, UseTyped
<1>9. Typed'
  BY <1>3, <1>4, <1>5, <1>6, <1>7, <1>8 DEF Typed
<1>10. /\ \A o \in tp_saves : o.no <= tp_clock /\ o.at <= tp_clock /\ o.no \in Nat /\ o.at \in Nat
       /\ \A t \in Tables : /\ tp_cache[t] # None => tp_cache[t].at <= tp_clock /\ tp_cache[t].at \in Nat
                            /\ tp_server[t] # None => /\ tp_server[t].at <= tp_clock /\ tp_server[t].no <= tp_clock
                                                      /\ tp_server[t].at \in Nat /\ tp_server[t].no \in Nat
       /\ tp_clock \in Nat
  BY <1>4 DEF PrefsInv, Stamped, Typed, SaveValues, Prefs!Cached, Prefs!Entries
<1>11. Stamped'
  <2>1. \A t \in Tables : /\ tp_cache'[t] # None => tp_cache'[t].at <= tp_clock'
                          /\ tp_server'[t] # None => tp_server'[t].at <= tp_clock' /\ tp_server'[t].no <= tp_clock'
    BY <1>3, <1>4, <1>7, <1>10 DEF Typed
  <2>2. \A o \in tp_saves' : o.no <= tp_clock' /\ o.at <= tp_clock'
    BY <1>3, <1>6, <1>10
  <2>3. \A o, p \in tp_saves' : o.no = p.no => o = p
    <3>1. \A o \in tp_saves : o.no # s.no
      BY <1>6, <1>10
    <3>2. QED
      BY <1>3, <3>1 DEF PrefsInv, Stamped
  <2>4. tp_load' # None /\ tp_load'.remote # None => tp_load'.remote.at <= tp_clock'
    BY <1>3, ReadStamped, StampsAre
  <2>5. QED
    BY <2>1, <2>2, <2>3, <2>4 DEF Stamped
<1>12. SUFFICES ASSUME tp_strays' = {} PROVE Known' /\ Loading' /\ Resetting' /\ Newer' /\ Coming'
  BY <1>9, <1>11 DEF PrefsInv
<1>13. tp_strays = {} /\ tp_load = None /\ tp_reset = None /\ \A o \in Prefs!Waiting : o.table = tp_table
  BY <1>3, <1>12
<1>14. Known /\ Newer
  BY <1>13 DEF PrefsInv
<1>15. Known'
  BY <1>3, <1>6, <1>14 DEF Known
<1>16. Newer'
  <2>1. s \in SavesOf(tp_table)'
    BY <1>3, <1>6 DEF SavesOf
  <2>2. ASSUME NEW t \in Tables, t # tp_table
        PROVE  tp_cache'[t] = tp_cache[t] /\ SavesOf(t)' = SavesOf(t)
    BY <1>3, <1>4, <1>6, <1>13, <2>2 DEF SavesOf, Typed, Prefs!Waiting
  <2>3. ASSUME NEW t \in Tables
        PROVE  \/ tp_cache'[t] # None => tp_server'[t] # None /\ tp_cache'[t].at <= tp_server'[t].at
               \/ SavesOf(t)' # {}
    BY <1>3, <1>13, <1>14, <2>1, <2>2 DEF Newer
  <2>4. QED
    BY <2>3 DEF Newer
<1>17. Carried'
  <2>1. s \in Pending'
    BY <1>3, <1>6 DEF Pending, SavesOf
  <2>2. \A o \in Pending' : o.no <= s.no
    BY <1>3, <1>6, <1>10 DEF Pending, SavesOf
  <2>3. tp_server'[tp_table'] # None => tp_server'[tp_table'].no <= s.no
    BY <1>3, <1>4, <1>6, <1>10 DEF Typed
  <2>4. QED
    BY <1>6, <2>1, <2>2, <2>3 DEF Carried
<1>18. QED
  BY <1>3, <1>13, <1>15, <1>16, <1>17 DEF Loading, Resetting, Coming

\* A timer that fires: the save is another one of the same number and contents.
LEMMA FiresKeeps ==
  ASSUME PrefsInv, NEW s \in tp_saves, Prefs!Fires(s)
  PROVE  PrefsInv'
<1>1. PICK n : n = [s EXCEPT !.stage = "sent"]
  OBVIOUS
<1>2. /\ s.stage \in {"timer", "left"} /\ tp_saves' = (tp_saves \ {s}) \cup {n}
      /\ UNCHANGED <<tp_table, tp_shown, tp_cache, tp_server, tp_clock, tp_load, tp_reset, tp_strays, tp_room>>
  BY <1>1 DEF Prefs!Fires
<1>3. s \in SaveValues
  BY DEF PrefsInv, Typed
<1>4. n \in SaveValues /\ n.no = s.no /\ n.at = s.at /\ n.table = s.table /\ n.config = s.config /\ n.stage = "sent"
  BY <1>1, <1>3 DEF SaveValues, Stages
<1>5. Typed'
  BY <1>2, <1>4 DEF PrefsInv, Typed
<1>6. Stamped'
  <2>1. \A o, p \in tp_saves' : o.no = p.no => o = p
    BY <1>2, <1>4 DEF PrefsInv, Stamped
  <2>2. QED
    BY <1>2, <1>4, <2>1 DEF PrefsInv, Stamped
<1>7. SUFFICES ASSUME tp_strays = {} PROVE Known' /\ Loading' /\ Resetting' /\ Newer' /\ Coming'
  BY <1>2, <1>5, <1>6 DEF PrefsInv
<1>8. Known /\ Loading /\ Resetting /\ Newer /\ Coming
  BY <1>7 DEF PrefsInv
<1>9. \A t : SavesOf(t)' = {} <=> SavesOf(t) = {}
  BY <1>2, <1>4 DEF SavesOf
<1>10. Known' /\ Loading' /\ Resetting' /\ Newer'
  <2>1. Known'
    BY <1>2, <1>4, <1>8 DEF Known
  <2>2. Loading' /\ Resetting'
    BY <1>2, <1>8, <1>9 DEF Loading, Resetting
  <2>3. Newer'
    BY <1>2, <1>8, <1>9 DEF Newer
  <2>4. QED
    BY <2>1, <2>2, <2>3
<1>11. /\ \A o \in Pending' : \E p \in Pending : o.no = p.no /\ o.config = p.config
       /\ \A p \in Pending : \E o \in Pending' : o.no = p.no /\ o.config = p.config
  <2>1. \A o \in Pending' : \E p \in Pending : o.no = p.no /\ o.config = p.config
    <3>1. SUFFICES ASSUME NEW o \in Pending' PROVE \E p \in Pending : o.no = p.no /\ o.config = p.config
      OBVIOUS
    <3>2. CASE o = n
      BY <1>2, <1>4, <3>2 DEF Pending, SavesOf
    <3>3. CASE o # n
      BY <1>2, <1>4, <3>3 DEF Pending, SavesOf
    <3>4. QED
      BY <3>2, <3>3
  <2>2. \A p \in Pending : \E o \in Pending' : o.no = p.no /\ o.config = p.config
    <3>1. SUFFICES ASSUME NEW p \in Pending PROVE \E o \in Pending' : o.no = p.no /\ o.config = p.config
      OBVIOUS
    <3>2. CASE p = s
      BY <1>2, <1>4, <3>2 DEF Pending, SavesOf
    <3>3. CASE p # s
      BY <1>2, <1>4, <3>3 DEF Pending, SavesOf
    <3>4. QED
      BY <3>2, <3>3
  <2>3. QED
    BY <2>1, <2>2
<1>12. Carried => Carried'
  <2>1. SUFFICES ASSUME NEW p \in Pending, p.config = tp_shown, \A o \in Pending : o.no <= p.no,
                        tp_server[tp_table] # None => tp_server[tp_table].no <= p.no
                 PROVE  Carried'
    BY DEF Carried
  <2>2. PICK o \in Pending' : o.no = p.no /\ o.config = p.config
    BY <1>11
  <2>3. \A q \in Pending' : q.no <= o.no
    BY <1>11, <2>1, <2>2
  <2>4. tp_server'[tp_table'] # None => tp_server'[tp_table'].no <= o.no
    BY <1>2, <2>1, <2>2
  <2>5. QED
    BY <1>2, <2>1, <2>2, <2>3, <2>4 DEF Carried
<1>13. Kept => Kept'
  BY <1>2, <1>11 DEF Kept, Prefs!Of
<1>14. QED
  BY <1>2, <1>8, <1>10, <1>12, <1>13 DEF Coming

\* A save arrives: what is shown arrives last.
LEMMA SavedKeeps ==
  ASSUME PrefsInv, NEW s \in tp_saves, Prefs!Saved(s)
  PROVE  PrefsInv'
<1>1. PICK n : n = [s EXCEPT !.stage = "saved", !.at = tp_clock + 1]
  OBVIOUS
<1>2. PICK e : e = [config |-> s.config, at |-> tp_clock + 1, no |-> s.no]
  OBVIOUS
<1>3. /\ s.stage \in {"sent", "lost"} /\ tp_clock' = tp_clock + 1
      /\ tp_server' = [tp_server EXCEPT ![s.table] = e]
      /\ tp_saves' = (tp_saves \ {s}) \cup (IF s.stage = "lost" THEN {} ELSE {n})
      /\ tp_strays' = IF tp_server[s.table] # None /\ tp_server[s.table].no > s.no
                   THEN tp_strays \cup {"overtaken"} ELSE tp_strays
      /\ UNCHANGED <<tp_table, tp_shown, tp_cache, tp_load, tp_reset, tp_room>>
  BY <1>1, <1>2 DEF Prefs!Saved, Prefs!Note
<1>4. s \in SaveValues /\ tp_clock + 1 \in Nat
  BY DEF PrefsInv, Typed
<1>5. /\ n \in SaveValues /\ n.no = s.no /\ n.table = s.table /\ n.stage = "saved" /\ n.at = tp_clock + 1
      /\ e \in Prefs!Entries /\ e.at = tp_clock + 1 /\ e.no = s.no /\ e.config = s.config
      /\ s.table \in Tables
  BY <1>1, <1>2, <1>4 DEF SaveValues, Stages, Prefs!Entries
<1>6. Typed'
  <2>1. tp_server' \in [Tables -> Prefs!Entries \cup {None}] /\ tp_saves' \subseteq SaveValues
    BY <1>3, <1>5 DEF PrefsInv, Typed
  <2>2. QED
    BY <1>3, <1>4, <2>1 DEF PrefsInv, Typed
<1>7. e # None /\ tp_server'[s.table] = e /\ \A t \in Tables : t # s.table => tp_server'[t] = tp_server[t]
  BY <1>3, <1>5, NoneIsNone DEF PrefsInv, Typed
<1>8. Stamped'
  <2>1. \A o, p \in tp_saves' : o.no = p.no => o = p
    BY <1>3, <1>5 DEF PrefsInv, Stamped
  <2>2. \A o \in tp_saves' : o.no <= tp_clock' /\ o.at <= tp_clock'
    BY <1>3, <1>5, StampsAre
  <2>3. \A t \in Tables : /\ tp_cache'[t] # None => tp_cache'[t].at <= tp_clock'
                          /\ tp_server'[t] # None => tp_server'[t].at <= tp_clock' /\ tp_server'[t].no <= tp_clock'
    <3>1. SUFFICES ASSUME NEW t \in Tables
                   PROVE  /\ tp_cache'[t] # None => tp_cache'[t].at <= tp_clock'
                          /\ tp_server'[t] # None => tp_server'[t].at <= tp_clock' /\ tp_server'[t].no <= tp_clock'
      OBVIOUS
    <3>2. tp_cache'[t] # None => tp_cache'[t].at <= tp_clock'
      BY <1>3, StampsAre
    <3>3. CASE t = s.table
      BY <1>3, <1>5, <1>7, <3>2, <3>3, StampsAre
    <3>4. CASE t # s.table
      BY <1>3, <1>7, <3>2, <3>4, StampsAre
    <3>5. QED
      BY <3>3, <3>4
  <2>4. tp_load' # None /\ tp_load'.remote # None => tp_load'.remote.at <= tp_clock'
    BY <1>3, ReadStamped, StampsAre
  <2>5. QED
    BY <2>1, <2>2, <2>3, <2>4 DEF Stamped
<1>9. SUFFICES ASSUME tp_strays' = {} PROVE Known' /\ Loading' /\ Resetting' /\ Newer' /\ Coming'
  BY <1>6, <1>8 DEF PrefsInv
<1>10. tp_strays = {} /\ (tp_server[s.table] # None => tp_server[s.table].no <= s.no)
  BY <1>3, <1>4, <1>5, <1>9, StampsAre DEF SaveValues
<1>11. Known /\ Loading /\ Resetting /\ Newer /\ Coming
  BY <1>10 DEF PrefsInv
<1>12. Known'
  <2>1. SUFFICES ASSUME NEW o \in tp_saves', o.stage = "saved"
                 PROVE  tp_server'[o.table] # None /\ o.at <= tp_server'[o.table].at
    BY DEF Known
  <2>2. CASE o = n
    BY <1>4, <1>5, <1>7, <2>2
  <2>3. CASE o # n
    <3>1. o \in tp_saves /\ tp_server[o.table] # None /\ o.at <= tp_server[o.table].at /\ o.table \in Tables
      BY <1>3, <1>11, <2>1, <2>3, StampsAre DEF Known
    <3>2. o.at <= tp_clock + 1
      BY <3>1, StampsAre
    <3>3. QED
      BY <1>5, <1>7, <3>1, <3>2
  <2>4. QED
    BY <2>2, <2>3
<1>13. s.table = tp_table => tp_load = None /\ tp_reset = None
  BY <1>11 DEF Loading, Resetting, SavesOf
<1>14. \A t : t # s.table => SavesOf(t)' = SavesOf(t)
  BY <1>3, <1>5 DEF SavesOf
<1>15. Loading'
  BY <1>3, <1>7, <1>11, <1>13, <1>14, StampsAre DEF Loading
<1>16. Resetting'
  BY <1>3, <1>7, <1>11, <1>13, <1>14, StampsAre DEF Resetting
<1>17. Newer'
  <2>1. SUFFICES ASSUME NEW t \in Tables
                 PROVE  \/ tp_cache'[t] # None => tp_server'[t] # None /\ tp_cache'[t].at <= tp_server'[t].at
                        \/ SavesOf(t)' # {}
                        \/ tp_reset' # None /\ tp_reset'.done /\ tp_reset'.table = t
    BY DEF Newer
  <2>2. CASE t = s.table
    <3>1. tp_cache'[t] # None => tp_cache'[t].at <= tp_clock + 1
      BY <1>3, StampsAre
    <3>2. QED
      BY <1>5, <1>7, <2>2, <3>1
  <2>3. CASE t # s.table
    BY <1>3, <1>7, <1>11, <1>14, <2>3 DEF Newer
  <2>4. QED
    BY <2>2, <2>3
<1>18. ASSUME tp_load = None, tp_reset = None PROVE Carried' \/ Kept'
  <2>1. Carried \/ Kept
    BY <1>11, <1>18 DEF Coming
  <2>2. CASE s.table # tp_table
    <3>1. Pending' = Pending /\ tp_server'[tp_table'] = tp_server[tp_table]
      BY <1>3, <1>7, <1>14, <2>2, StampsAre DEF Pending
    <3>2. Carried => Carried'
      BY <1>3, <3>1 DEF Carried
    <3>3. Kept => Kept'
      BY <1>3, <3>1 DEF Kept, Prefs!Of
    <3>4. QED
      BY <2>1, <3>2, <3>3
  <2>3. CASE s.table = tp_table
    <3>1. Pending' = Pending \ {s} /\ s \in Pending
      BY <1>3, <1>5, <2>3 DEF Pending, SavesOf
    <3>2. ~Kept
      BY <1>4, <1>10, <2>3, <3>1, StampsAre DEF Kept, SaveValues
    <3>3. PICK p \in Pending : /\ p.config = tp_shown /\ \A o \in Pending : o.no <= p.no
                               /\ tp_server[tp_table] # None => tp_server[tp_table].no <= p.no
      BY <2>1, <3>2 DEF Carried
    <3>4. CASE p = s
      <4>1. tp_shown' = Prefs!Of(tp_server'[tp_table'])
        BY <1>3, <1>5, <1>7, <2>3, <3>3, <3>4 DEF Prefs!Of
      <4>2. \A o \in Pending' : o.no < s.no
        <5>1. SUFFICES ASSUME NEW o \in Pending' PROVE o.no < s.no
          OBVIOUS
        <5>2. o \in tp_saves /\ o # s /\ o.no <= s.no
          BY <3>1, <3>3, <3>4 DEF Pending, SavesOf
        <5>3. o.no # s.no
          BY <5>2 DEF PrefsInv, Stamped
        <5>4. QED
          BY <5>2, <5>3, StampsAre
      <4>3. QED
        BY <1>3, <1>5, <1>7, <2>3, <4>1, <4>2 DEF Kept
    <3>5. CASE p # s
      <4>1. p \in Pending' /\ \A o \in Pending' : o.no <= p.no
        BY <3>1, <3>3, <3>5
      <4>2. tp_server'[tp_table'].no <= p.no
        BY <1>3, <1>5, <1>7, <2>3, <3>1, <3>3
      <4>3. QED
        BY <1>3, <3>3, <4>1, <4>2 DEF Carried
    <3>6. QED
      BY <3>4, <3>5
  <2>4. QED
    BY <2>2, <2>3
<1>19. QED
  BY <1>3, <1>12, <1>15, <1>16, <1>17, <1>18 DEF Coming

\* The reply to a save: IndexedDB has what the server had by then.
LEMMA RepliedKeeps ==
  ASSUME PrefsInv, NEW s \in tp_saves, Prefs!SaveReplied(s)
  PROVE  PrefsInv'
<1>1. PICK e : e = [config |-> s.config, at |-> s.at]
  OBVIOUS
<1>2. /\ s.stage = "saved" /\ tp_saves' = tp_saves \ {s}
      /\ tp_cache' = [tp_cache EXCEPT ![s.table] = e]
      /\ UNCHANGED <<tp_table, tp_shown, tp_server, tp_clock, tp_load, tp_reset, tp_strays, tp_room>>
  BY <1>1 DEF Prefs!SaveReplied
<1>3. s \in SaveValues /\ e \in Prefs!Cached /\ e.at = s.at /\ s.table \in Tables
  BY <1>1 DEF PrefsInv, Typed, SaveValues, Prefs!Cached
<1>4. Typed'
  <2>1. tp_cache' \in [Tables -> Prefs!Cached \cup {None}] /\ tp_saves' \subseteq SaveValues
    BY <1>2, <1>3 DEF PrefsInv, Typed
  <2>2. QED
    BY <1>2, <2>1 DEF PrefsInv, Typed
<1>5. tp_cache'[s.table] = e /\ \A t \in Tables : t # s.table => tp_cache'[t] = tp_cache[t]
  BY <1>2, <1>3 DEF PrefsInv, Typed
<1>6. tp_strays = {} => tp_server[s.table] # None /\ s.at <= tp_server[s.table].at
  BY <1>2 DEF PrefsInv, Known
<1>7. SUFFICES ASSUME tp_strays = {} PROVE Known' /\ Loading' /\ Resetting' /\ Newer' /\ Coming'
  <2>1. Stamped'
    BY <1>2, <1>3, <1>5 DEF PrefsInv, Stamped
  <2>2. QED
    BY <1>2, <1>4, <2>1 DEF PrefsInv
<1>8. Known /\ Loading /\ Resetting /\ Newer /\ Coming
  BY <1>7 DEF PrefsInv
<1>9. Known'
  BY <1>2, <1>8 DEF Known
<1>10. s.table = tp_table => tp_load = None /\ tp_reset = None
  BY <1>8 DEF Loading, Resetting, SavesOf
<1>11. \A t : t # s.table => SavesOf(t)' = SavesOf(t)
  BY <1>2 DEF SavesOf
<1>12. Loading' /\ Resetting'
  BY <1>2, <1>5, <1>8, <1>10, <1>11, StampsAre DEF Loading, Resetting
<1>13. Newer'
  <2>1. SUFFICES ASSUME NEW t \in Tables
                 PROVE  \/ tp_cache'[t] # None => tp_server'[t] # None /\ tp_cache'[t].at <= tp_server'[t].at
                        \/ SavesOf(t)' # {}
                        \/ tp_reset' # None /\ tp_reset'.done /\ tp_reset'.table = t
    BY DEF Newer
  <2>2. CASE t = s.table
    BY <1>2, <1>3, <1>5, <1>6, <1>7, <2>2
  <2>3. CASE t # s.table
    BY <1>2, <1>5, <1>8, <1>11, <2>3 DEF Newer
  <2>4. QED
    BY <2>2, <2>3
<1>14. Coming'
  <2>1. Pending' = Pending
    BY <1>2 DEF Pending, SavesOf
  <2>2. QED
    BY <1>2, <1>8, <2>1 DEF Coming, Carried, Kept, Prefs!Of
<1>15. QED
  BY <1>9, <1>12, <1>13, <1>14

\* What is not kept open: nothing is said of a page that has gone astray.
LEMMA FailsKeeps ==
  ASSUME PrefsInv, NEW s \in tp_saves, Prefs!SaveFails(s)
  PROVE  PrefsInv'
<1>1. /\ tp_saves' = tp_saves \ {s} /\ tp_strays' = tp_strays \cup {"failed"}
      /\ UNCHANGED <<tp_table, tp_shown, tp_cache, tp_server, tp_clock, tp_load, tp_reset>>
      /\ Prefs!Use("fails") \/ UNCHANGED tp_room
  BY DEF Prefs!SaveFails, PrefsInv, Typed, SaveValues, Stages
<1>2. Typed' /\ Stamped'
  BY <1>1, UseTyped DEF PrefsInv, Typed, Stamped
<1>3. QED
  BY <1>1, <1>2 DEF PrefsInv

\* A table is opened for which nothing is under way.
LEMMA OpensKeeps ==
  ASSUME PrefsInv, NEW t \in Tables, NEW before \in SUBSET Int, Prefs!Opens(t, before),
         UNCHANGED <<tp_cache, tp_server, tp_clock>>,
         tp_reset' \in {tp_reset, None},
         tp_room' \in [edits : Nat, moves : Nat, fails : Nat],
         tp_saves' \subseteq SaveValues,
         \A s \in tp_saves' : \E o \in tp_saves : s.no = o.no /\ s.at = o.at,
         \A s, o \in tp_saves' : s.no = o.no => s = o,
         tp_strays' = {} => /\ tp_strays = {} /\ tp_reset = None
                            /\ tp_saves' = tp_saves /\ \A s \in tp_saves : s.table # t
  PROVE  PrefsInv'
<1>1. PICK l : l = [table |-> t, cached |-> tp_cache[t], remote |-> None, stage |-> "get"]
  OBVIOUS
<1>2. tp_table' = t /\ tp_load' = l /\ l.remote = None
  BY <1>1 DEF Prefs!Opens
<1>3. tp_cache[t] \in Prefs!Cached \cup {None}
  BY DEF PrefsInv, Typed
<1>4. l \in Prefs!LoadValues
  BY <1>1, <1>3 DEF Prefs!LoadValues
<1>5. tp_shown' \in SUBSET Int
  BY <1>3 DEF Prefs!Opens, Prefs!Cached
<1>6. Typed'
  BY <1>2, <1>4, <1>5 DEF PrefsInv, Typed
<1>7. Stamped'
  BY <1>2 DEF PrefsInv, Stamped
<1>8. SUFFICES ASSUME tp_strays' = {} PROVE Known' /\ Loading' /\ Resetting' /\ Newer' /\ Coming'
  BY <1>6, <1>7 DEF PrefsInv
<1>9. tp_strays = {} /\ tp_reset = None /\ tp_reset' = None /\ tp_saves' = tp_saves
      /\ \A s \in tp_saves : s.table # t
  BY <1>8
<1>10. Known /\ Newer
  BY <1>9 DEF PrefsInv
<1>11. Known' /\ Newer'
  BY <1>9, <1>10 DEF Known, Newer, SavesOf
<1>12. tp_load' # None /\ l.table = t /\ l.cached = tp_cache[t] /\ l.stage = "get"
  BY <1>1, <1>2, <1>4, NoneIsNone
<1>13. Loading' /\ Resetting' /\ Coming'
  BY <1>2, <1>9, <1>12 DEF Loading, Resetting, Coming, SavesOf
<1>14. QED
  BY <1>11, <1>13

LEMMA SwitchKeeps ==
  ASSUME PrefsInv, NEW t \in Tables, Prefs!SwitchTab(t)
  PROVE  PrefsInv'
<1>1. /\ Prefs!Opens(t, tp_shown) /\ UNCHANGED <<tp_cache, tp_server, tp_clock, tp_saves, tp_reset>> /\ Prefs!Use("moves")
      /\ tp_strays' = IF tp_reset # None \/ \E s \in tp_saves : s.table = t THEN tp_strays \cup {"early"} ELSE tp_strays
  BY DEF Prefs!SwitchTab, Prefs!Note
<1>2. tp_strays' = {} => tp_strays = {} /\ tp_reset = None /\ \A s \in tp_saves : s.table # t
  BY <1>1
<1>3. Typed /\ Stamped
  BY DEF PrefsInv
<1>4. tp_room' \in [edits : Nat, moves : Nat, fails : Nat] /\ tp_shown \in SUBSET Int /\ tp_saves' \subseteq SaveValues
  BY <1>1, <1>3, UseTyped DEF Typed
<1>5. \A s, o \in tp_saves' : s.no = o.no => s = o
  BY <1>1, <1>3 DEF Stamped
<1>6. \A s \in tp_saves' : \E o \in tp_saves : s.no = o.no /\ s.at = o.at
  BY <1>1
<1>7. QED
  BY <1>1, <1>2, <1>4, <1>5, <1>6, OpensKeeps

LEMMA VisitKeeps ==
  ASSUME PrefsInv, Prefs!Visit
  PROVE  PrefsInv'
<1> DEFINE L(s) == IF s.stage = "timer" THEN [s EXCEPT !.stage = "left"] ELSE s
<1>1. /\ Prefs!Opens(Prefs!ATable, {}) /\ UNCHANGED <<tp_cache, tp_server, tp_clock, tp_reset>> /\ Prefs!Use("moves")
      /\ tp_strays' = IF tp_saves # {} \/ tp_reset # None THEN tp_strays \cup {"early"} ELSE tp_strays
      /\ tp_saves' = {L(s) : s \in tp_saves}
  BY DEF Prefs!Visit, Prefs!Note
<1>2. tp_strays' = {} => tp_strays = {} /\ tp_reset = None /\ tp_saves = {}
  BY <1>1
<1>3. Typed /\ Stamped
  BY DEF PrefsInv
<1>4. tp_room' \in [edits : Nat, moves : Nat, fails : Nat]
  BY <1>1, <1>3, UseTyped
<1>5. \A s \in tp_saves : L(s) \in SaveValues /\ L(s).no = s.no /\ L(s).at = s.at
  <2>1. SUFFICES ASSUME NEW s \in tp_saves PROVE L(s) \in SaveValues /\ L(s).no = s.no /\ L(s).at = s.at
    OBVIOUS
  <2>2. s \in SaveValues
    BY <1>3 DEF Typed
  <2>3. PICK n : n = [s EXCEPT !.stage = "left"]
    OBVIOUS
  <2>4. n \in SaveValues /\ n.no = s.no /\ n.at = s.at
    BY <2>2, <2>3 DEF SaveValues, Stages
  <2>5. QED
    BY <2>2, <2>3, <2>4
<1> HIDE DEF L
<1>6. tp_saves' \subseteq SaveValues
  BY <1>1, <1>5
<1>7. \A s, o \in tp_saves' : s.no = o.no => s = o
  <2>1. SUFFICES ASSUME NEW s \in tp_saves, NEW o \in tp_saves, L(s).no = L(o).no PROVE L(s) = L(o)
    BY <1>1
  <2>2. s = o
    BY <1>3, <1>5, <2>1 DEF Stamped
  <2>3. QED
    BY <2>2
<1>8. \A s \in tp_saves' : \E o \in tp_saves : s.no = o.no /\ s.at = o.at
  BY <1>1, <1>5
<1>9. tp_strays' = {} => tp_saves' = tp_saves
  BY <1>1, <1>2
<1>10. QED
  BY <1>1, <1>2, <1>4, <1>6, <1>7, <1>8, <1>9, ATableIs, OpensKeeps

LEMMA ReloadKeeps ==
  ASSUME PrefsInv, Prefs!Reload
  PROVE  PrefsInv'
<1> DEFINE L(s) == [s EXCEPT !.stage = "lost"]
           Gone == {o \in tp_saves : o.stage \in {"sent", "lost"}}
<1>1. /\ Prefs!Opens(Prefs!ATable, {}) /\ UNCHANGED <<tp_cache, tp_server, tp_clock>> /\ tp_reset' = None /\ Prefs!Use("moves")
      /\ tp_saves' = {L(s) : s \in Gone}
      /\ tp_strays' = {} => tp_strays = {} /\ tp_saves = {} /\ tp_reset = None
  BY DEF Prefs!Reload
<1>2. Typed /\ Stamped
  BY DEF PrefsInv
<1>3. tp_room' \in [edits : Nat, moves : Nat, fails : Nat]
  BY <1>1, <1>2, UseTyped
<1>4. \A s \in Gone : L(s) \in SaveValues /\ L(s).no = s.no /\ L(s).at = s.at
  <2>1. SUFFICES ASSUME NEW s \in tp_saves PROVE L(s) \in SaveValues /\ L(s).no = s.no /\ L(s).at = s.at
    OBVIOUS
  <2>2. s \in SaveValues
    BY <1>2 DEF Typed
  <2>3. PICK n : n = [s EXCEPT !.stage = "lost"]
    OBVIOUS
  <2>4. n \in SaveValues /\ n.no = s.no /\ n.at = s.at
    BY <2>2, <2>3 DEF SaveValues, Stages
  <2>5. QED
    BY <2>3, <2>4
<1>5. tp_strays' = {} => tp_saves' = tp_saves /\ \A s \in tp_saves : s.table # Prefs!ATable
  BY <1>1
<1> HIDE DEF L
<1>6. tp_saves' \subseteq SaveValues
  BY <1>1, <1>4 DEF Gone
<1>7. \A s, o \in tp_saves' : s.no = o.no => s = o
  <2>1. SUFFICES ASSUME NEW s \in Gone, NEW o \in Gone, L(s).no = L(o).no PROVE L(s) = L(o)
    BY <1>1
  <2>2. s = o
    BY <1>2, <1>4, <2>1 DEF Stamped
  <2>3. QED
    BY <2>2
<1>8. \A s \in tp_saves' : \E o \in tp_saves : s.no = o.no /\ s.at = o.at
  BY <1>1, <1>4
<1>9. QED
  BY <1>1, <1>3, <1>6, <1>7, <1>8, <1>5, ATableIs, OpensKeeps

\* The server is read for the table that is open.
LEMMA ReadKeeps ==
  ASSUME PrefsInv, Prefs!Read
  PROVE  PrefsInv'
<1>1. PICK l \in Prefs!LoadValues : l = tp_load
  BY DEF Prefs!Read, PrefsInv, Typed
<1>2. PICK m : m = [l EXCEPT !.remote = tp_server[l.table], !.stage = "got"]
  OBVIOUS
<1>3. /\ tp_load # None /\ tp_load' = m
      /\ UNCHANGED <<tp_table, tp_shown, tp_cache, tp_server, tp_clock, tp_saves, tp_reset, tp_strays, tp_room>>
  BY <1>1, <1>2 DEF Prefs!Read
<1>4. tp_server[l.table] \in Prefs!Entries \cup {None}
  BY <1>1 DEF Prefs!LoadValues, PrefsInv, Typed
<1>5. m \in Prefs!LoadValues /\ m.table = l.table /\ m.cached = l.cached /\ m.remote = tp_server[l.table]
  BY <1>1, <1>2, <1>4 DEF Prefs!LoadValues
<1>6. Typed' /\ Stamped'
  <2>1. tp_server[l.table] # None => tp_server[l.table].at <= tp_clock
    BY <1>1, StampsAre DEF Prefs!LoadValues
  <2>2. QED
    BY <1>3, <1>5, <2>1 DEF PrefsInv, Typed, Stamped
<1>7. SUFFICES ASSUME tp_strays = {} PROVE Known' /\ Loading' /\ Resetting' /\ Newer' /\ Coming'
  BY <1>3, <1>6 DEF PrefsInv
<1>8. Known /\ Loading /\ Resetting /\ Newer
  BY <1>7 DEF PrefsInv
<1>9. m # None
  BY <1>5, NoneIsNone
<1>10. Known' /\ Newer'
  BY <1>3, <1>8 DEF Known, Newer, SavesOf
<1>11. Loading'
  BY <1>1, <1>3, <1>5, <1>8 DEF Loading, SavesOf
<1>12. Resetting' /\ Coming'
  BY <1>3, <1>8, <1>9 DEF Loading, Resetting, Coming
<1>13. QED
  BY <1>10, <1>11, <1>12

\* What was read is shown: it is what the server has, and IndexedDB has nothing
\* that is newer.
LEMMA LoadedKeeps ==
  ASSUME PrefsInv, Prefs!Loaded
  PROVE  PrefsInv'
<1> DEFINE Shows == tp_load.remote # None /\ (tp_load.cached = None \/ tp_load.remote.at >= tp_load.cached.at)
<1>1. /\ tp_load # None /\ tp_load.stage = "got" /\ tp_load' = None
      /\ UNCHANGED <<tp_table, tp_server, tp_clock, tp_saves, tp_reset, tp_strays, tp_room>>
  BY DEF Prefs!Loaded
<1>2. tp_load \in Prefs!LoadValues
  BY <1>1 DEF PrefsInv, Typed
<1>3. /\ tp_load.cached \in Prefs!Cached \cup {None} /\ tp_load.remote \in Prefs!Entries \cup {None}
      /\ tp_load.remote # None => /\ tp_load.remote \in Prefs!Entries /\ tp_load.remote.config \in SUBSET Int
                                  /\ tp_load.remote.at \in Nat
  BY <1>2 DEF Prefs!LoadValues, Prefs!Entries
<1>4. PICK e : e = [config |-> tp_load.remote.config, at |-> tp_load.remote.at]
  OBVIOUS
<1>5. CASE Shows
  <2>1. tp_shown' = tp_load.remote.config /\ tp_cache' = [tp_cache EXCEPT ![tp_table] = e]
    BY <1>4, <1>5 DEF Prefs!Loaded
  <2>2. e \in Prefs!Cached /\ e.at = tp_load.remote.at
    BY <1>3, <1>4, <1>5 DEF Prefs!Cached
  <2>3. /\ tp_cache' \in [Tables -> Prefs!Cached \cup {None}] /\ tp_cache'[tp_table] = e
        /\ \A t \in Tables : t # tp_table => tp_cache'[t] = tp_cache[t]
    BY <2>1, <2>2 DEF PrefsInv, Typed
  <2>4. Typed'
    BY <1>1, <1>3, <1>5, <2>1, <2>3 DEF PrefsInv, Typed
  <2>6. Stamped'
    <3>1. tp_load.remote.at <= tp_clock
      BY <1>1, <1>5 DEF PrefsInv, Stamped
    <3>2. QED
      BY <1>1, <2>2, <2>3, <3>1 DEF PrefsInv, Stamped
  <2>7. SUFFICES ASSUME tp_strays = {} PROVE Known' /\ Loading' /\ Resetting' /\ Newer' /\ Coming'
    BY <1>1, <2>4, <2>6 DEF PrefsInv
  <2>8. Known /\ Loading /\ Resetting /\ Newer
    BY <2>7 DEF PrefsInv
  <2>9. tp_load.remote = tp_server[tp_table] /\ tp_reset = None /\ SavesOf(tp_table) = {}
    BY <1>1, <2>8 DEF Loading
  <2>10. Known' /\ Loading' /\ Resetting'
    BY <1>1, <2>8, <2>9 DEF Known, Loading, Resetting
  <2>11. Newer'
    BY <1>1, <1>3, <1>5, <2>2, <2>3, <2>8, <2>9 DEF Newer, SavesOf
  <2>12. Kept'
    BY <1>1, <1>5, <2>1, <2>9 DEF Kept, Prefs!Of, Pending, SavesOf
  <2>13. QED
    BY <2>10, <2>11, <2>12 DEF Coming
<1>6. CASE ~Shows
  <2>1. tp_shown' = (IF tp_load.cached = None THEN {} ELSE tp_shown) /\ tp_cache' = tp_cache
    BY <1>6 DEF Prefs!Loaded
  <2>2. Typed' /\ Stamped'
    BY <1>1, <2>1 DEF PrefsInv, Typed, Stamped
  <2>3. SUFFICES ASSUME tp_strays = {} PROVE Known' /\ Loading' /\ Resetting' /\ Newer' /\ Coming'
    BY <1>1, <2>2 DEF PrefsInv
  <2>4. Known /\ Loading /\ Resetting /\ Newer
    BY <2>3 DEF PrefsInv
  <2>5. tp_load.remote = tp_server[tp_table] /\ tp_load.cached = tp_cache[tp_table] /\ tp_reset = None /\ SavesOf(tp_table) = {}
    BY <1>1, <2>4 DEF Loading
  <2>6. Known' /\ Loading' /\ Resetting' /\ Newer'
    BY <1>1, <2>1, <2>4, <2>5 DEF Known, Loading, Resetting, Newer, SavesOf
  <2>7. tp_cache[tp_table] # None => tp_server[tp_table] # None /\ tp_cache[tp_table].at <= tp_server[tp_table].at
    BY <2>4, <2>5, StampsAre DEF Newer
  <2>8. tp_server[tp_table] = None /\ tp_cache[tp_table] = None
    BY <1>6, <2>5, <2>7, StampsAre
  <2>9. Kept'
    BY <1>1, <2>1, <2>5, <2>8 DEF Kept, Prefs!Of, Pending, SavesOf
  <2>10. QED
    BY <2>6, <2>9 DEF Coming
<1>7. QED
  BY <1>5, <1>6

LEMMA LoadFailsKeeps ==
  ASSUME PrefsInv, Prefs!LoadFails
  PROVE  PrefsInv'
<1>1. /\ tp_load' = None /\ tp_strays' = tp_strays \cup {"failed"} /\ tp_shown' \in {{}, tp_shown} /\ Prefs!Use("fails")
      /\ UNCHANGED <<tp_table, tp_cache, tp_server, tp_clock, tp_saves, tp_reset>>
  BY DEF Prefs!LoadFails
<1>2. Typed' /\ Stamped'
  BY <1>1, UseTyped DEF PrefsInv, Typed, Stamped
<1>3. QED
  BY <1>1, <1>2 DEF PrefsInv

------------------------------------------------------------------------------
LEMMA ResetAllKeeps ==
  ASSUME PrefsInv, Prefs!resetAll
  PROVE  PrefsInv'
<1>1. PICK r : r = [table |-> tp_table, done |-> FALSE]
  OBVIOUS
<1>2. /\ tp_reset = None /\ tp_reset' = r /\ Prefs!Use("moves")
      /\ tp_strays' = {} => tp_strays = {} /\ tp_load = None /\ \A s \in tp_saves : s.table # tp_table
      /\ UNCHANGED <<tp_table, tp_shown, tp_cache, tp_server, tp_clock, tp_load, tp_saves>>
  BY <1>1 DEF Prefs!resetAll
<1>3. r \in Prefs!ResetValues /\ r.table = tp_table /\ r.done = FALSE /\ r # None
  <2>1. r \in Prefs!ResetValues /\ r.table = tp_table /\ r.done = FALSE
    BY <1>1, StampsAre DEF Prefs!ResetValues
  <2>2. QED
    BY <2>1, NoneIsNone
<1>4. Typed' /\ Stamped'
  <2>1. tp_room' \in [edits : Nat, moves : Nat, fails : Nat]
    BY <1>2, UseTyped DEF PrefsInv
  <2>2. QED
    BY <1>2, <1>3, <2>1 DEF PrefsInv, Typed, Stamped
<1>5. SUFFICES ASSUME tp_strays' = {} PROVE Known' /\ Loading' /\ Resetting' /\ Newer' /\ Coming'
  BY <1>4 DEF PrefsInv
<1>6. tp_strays = {} /\ tp_load = None /\ SavesOf(tp_table) = {}
  BY <1>2, <1>5 DEF SavesOf
<1>7. Known /\ Newer
  BY <1>6 DEF PrefsInv
<1>8. Known' /\ Newer'
  BY <1>2, <1>3, <1>7 DEF Known, Newer, SavesOf
<1>9. Loading' /\ Resetting' /\ Coming'
  BY <1>2, <1>3, <1>6 DEF Loading, Resetting, Coming, SavesOf
<1>10. QED
  BY <1>8, <1>9

LEMMA ResetServedKeeps ==
  ASSUME PrefsInv, Prefs!ResetServed
  PROVE  PrefsInv'
<1>1. PICK r \in Prefs!ResetValues : r = tp_reset
  BY DEF Prefs!ResetServed, PrefsInv, Typed
<1>2. PICK n : n = [r EXCEPT !.done = TRUE]
  OBVIOUS
<1>3. /\ tp_reset # None /\ tp_reset' = n
      /\ UNCHANGED <<tp_table, tp_shown, tp_cache, tp_clock, tp_load, tp_saves>>
      /\ \/ tp_server' = [tp_server EXCEPT ![r.table] = None] /\ UNCHANGED <<tp_strays, tp_room>>
         \/ Prefs!Use("fails") /\ tp_strays' = tp_strays \cup {"failed"} /\ UNCHANGED tp_server
  BY <1>1, <1>2 DEF Prefs!ResetServed
<1>4. n \in Prefs!ResetValues /\ n.table = r.table /\ n.done = TRUE /\ n # None
  BY <1>1, <1>2, NoneIsNone DEF Prefs!ResetValues
<1>5. CASE Prefs!Use("fails") /\ tp_strays' = tp_strays \cup {"failed"} /\ UNCHANGED tp_server
  <2>1. tp_room' \in [edits : Nat, moves : Nat, fails : Nat]
    BY <1>5, UseTyped DEF PrefsInv
  <2>2. Typed' /\ Stamped'
    BY <1>3, <1>4, <1>5, <2>1 DEF PrefsInv, Typed, Stamped
  <2>3. QED
    BY <1>5, <2>2 DEF PrefsInv
<1>6. CASE tp_server' = [tp_server EXCEPT ![r.table] = None] /\ UNCHANGED <<tp_strays, tp_room>>
  <2>1. /\ tp_server' \in [Tables -> Prefs!Entries \cup {None}] /\ tp_server'[r.table] = None
        /\ \A t \in Tables : t # r.table => tp_server'[t] = tp_server[t]
    BY <1>1, <1>6 DEF PrefsInv, Typed, Prefs!ResetValues
  <2>2. Typed' /\ Stamped'
    BY <1>3, <1>4, <1>6, <2>1 DEF PrefsInv, Typed, Stamped
  <2>3. SUFFICES ASSUME tp_strays = {} PROVE Known' /\ Loading' /\ Resetting' /\ Newer' /\ Coming'
    BY <1>6, <2>2 DEF PrefsInv
  <2>4. Known /\ Loading /\ Resetting /\ Newer
    BY <2>3 DEF PrefsInv
  <2>5. r.table = tp_table /\ tp_load = None /\ SavesOf(tp_table) = {}
    BY <1>1, <1>3, <2>4 DEF Resetting
  <2>6. Known'
    BY <1>3, <2>1, <2>4, <2>5, StampsAre DEF Known, SavesOf
  <2>7. Newer'
    BY <1>3, <1>4, <2>1, <2>4, <1>1 DEF Newer, SavesOf
  <2>8. Loading' /\ Resetting' /\ Coming'
    BY <1>3, <1>4, <2>1, <2>5 DEF Loading, Resetting, Coming, SavesOf
  <2>9. QED
    BY <2>6, <2>7, <2>8
<1>7. QED
  BY <1>3, <1>5, <1>6

LEMMA ResetRepliedKeeps ==
  ASSUME PrefsInv, Prefs!ResetReplied
  PROVE  PrefsInv'
<1>1. PICK r \in Prefs!ResetValues : r = tp_reset
  BY DEF Prefs!ResetReplied, PrefsInv, Typed
<1>2. /\ tp_reset # None /\ tp_reset.done /\ tp_reset' = None /\ tp_shown' = {}
      /\ tp_cache' = [tp_cache EXCEPT ![r.table] = None]
      /\ tp_strays' = {} => tp_strays = {}
      /\ UNCHANGED <<tp_table, tp_server, tp_clock, tp_load, tp_saves, tp_room>>
  BY <1>1 DEF Prefs!ResetReplied
<1>3. /\ tp_cache' \in [Tables -> Prefs!Cached \cup {None}] /\ tp_cache'[r.table] = None
      /\ \A t \in Tables : t # r.table => tp_cache'[t] = tp_cache[t]
  BY <1>1, <1>2 DEF PrefsInv, Typed, Prefs!ResetValues
<1>4. Typed' /\ Stamped'
  BY <1>2, <1>3 DEF PrefsInv, Typed, Stamped
<1>5. SUFFICES ASSUME tp_strays' = {} PROVE Known' /\ Loading' /\ Resetting' /\ Newer' /\ Coming'
  BY <1>4 DEF PrefsInv
<1>6. Known /\ Loading /\ Resetting /\ Newer
  BY <1>2, <1>5 DEF PrefsInv
<1>7. r.table = tp_table /\ tp_load = None /\ SavesOf(tp_table) = {} /\ tp_server[tp_table] = None
  BY <1>1, <1>2, <1>6 DEF Resetting
<1>8. Known' /\ Loading' /\ Resetting'
  BY <1>2, <1>6, <1>7 DEF Known, Loading, Resetting
<1>9. Newer'
  BY <1>1, <1>2, <1>3, <1>6 DEF Newer, SavesOf
<1>10. Kept'
  BY <1>2, <1>7 DEF Kept, Prefs!Of, Pending, SavesOf
<1>11. QED
  BY <1>8, <1>9, <1>10 DEF Coming

------------------------------------------------------------------------------
LEMMA PrefsInit == Prefs!Init => PrefsInv
<1> SUFFICES ASSUME Prefs!Init PROVE PrefsInv
  OBVIOUS
<1>1. PICK l : l = [table |-> Prefs!ATable, cached |-> None, remote |-> None, stage |-> "get"]
  OBVIOUS
<1>2. l \in Prefs!LoadValues /\ l.table = Prefs!ATable /\ l.cached = None /\ l.remote = None /\ l.stage = "get" /\ l # None
  BY <1>1, ATableIs, NoneIsNone DEF Prefs!LoadValues
<1>3. PICK e : e = [config |-> {0}, at |-> 1, no |-> 0]
  OBVIOUS
<1>4. e \in Prefs!Entries /\ e.at = 1 /\ e.no = 0
  BY <1>3 DEF Prefs!Entries
<1>5. /\ tp_table = Prefs!ATable /\ tp_shown = {} /\ tp_cache = [t \in Tables |-> None]
      /\ tp_server \in [Tables -> {None, e}] /\ tp_clock = 1 /\ tp_load = l
      /\ tp_saves = {} /\ tp_reset = None /\ tp_strays = {}
  BY <1>1, <1>3 DEF Prefs!Init
<1>6. tp_room \in [edits : Nat, moves : Nat, fails : Nat]
  BY BoundsAreNat DEF Prefs!Init
<1>7. Typed
  BY <1>2, <1>4, <1>5, <1>6, ATableIs DEF Typed
<1>8. Stamped
  BY <1>2, <1>4, <1>5 DEF Stamped
<1>9. Known /\ Loading /\ Resetting /\ Newer /\ Coming
  BY <1>2, <1>5, ATableIs DEF Known, Loading, Resetting, Newer, Coming, SavesOf
<1>10. QED
  BY <1>7, <1>8, <1>9 DEF PrefsInv

LEMMA PrefsStep == PrefsInv /\ [Prefs!Next]_vars_tp => PrefsInv'
<1> SUFFICES ASSUME PrefsInv, [Prefs!Next]_vars_tp PROVE PrefsInv'
  OBVIOUS
<1>1. CASE UNCHANGED vars_tp
  BY <1>1 DEF vars_tp, PrefsInv, Typed, Stamped, Known, Loading, Resetting, Newer, Coming, Carried,
              Kept, Pending, SavesOf, Prefs!Of
<1>2. CASE Prefs!Next
  BY <1>2, ApplyKeeps, FiresKeeps, SavedKeeps, RepliedKeeps, FailsKeeps, SwitchKeeps, VisitKeeps,
     ReloadKeeps, ReadKeeps, LoadedKeeps, LoadFailsKeeps, ResetAllKeeps, ResetServedKeeps,
     ResetRepliedKeeps DEF Prefs!Next
<1>3. QED
  BY <1>1, <1>2

LEMMA PrefsAgree == PrefsInv => Prefs!PrefsCatchUp
<1>1. SUFFICES ASSUME PrefsInv, tp_saves = {}, tp_load = None, tp_reset = None, tp_strays = {}
               PROVE  tp_shown = Prefs!Of(tp_server[tp_table])
  BY DEF Prefs!PrefsCatchUp
<1>2. Carried \/ Kept
  BY <1>1 DEF PrefsInv, Coming
<1>3. QED
  BY <1>1, <1>2 DEF Carried, Kept, Pending, SavesOf

------------------------------------------------------------------------------
(* Scenery.                                                                   *)

\* Every variable of the pictures has its type.
PicturesTyped ==
  /\ sc_winnerBase \in HOME_IMAGE_CDNS \cup {None} /\ sc_stored \in HOME_IMAGE_CDNS \cup {None}
  /\ sc_probe \in [asked : SUBSET HOME_IMAGE_CDNS, ok : SUBSET HOME_IMAGE_CDNS]
  /\ sc_awaits \subseteq DOMAIN sc_src

\* A probe runs only while there is no network to load from.
PicturesInv ==
  /\ PicturesTyped /\ Scene!PicturesAgree
  /\ Scene!Probing => sc_winnerBase = None /\ sc_stored = None

Count(b) == IF b THEN 1 ELSE 0

\* A background that is as it should be, but for whether it runs.
Sound(p) ==
  /\ p \in Scene!Prisms /\ p.mounted
  /\ p.frames = Count(p.raf) /\ p.timers = Count(p.timer)
  /\ ~(p.raf /\ p.timer) /\ (p.loopActive <=> p.raf \/ p.timer)

\* A background that runs exactly while it can be seen.
Right(p) == Sound(p) /\ (p.loopActive <=> Scene!Seen(p))

PrismInv == sc_shown \in BOOLEAN /\ (sc_prism # None => Right(sc_prism) /\ sc_prism.pageVisible = sc_shown)

SceneInv == PicturesInv /\ PrismInv

------------------------------------------------------------------------------
LEMMA NetworksExist == HOME_IMAGE_CDNS # {} /\ None \notin HOME_IMAGE_CDNS \cup {LocalCopy}
  BY SceneConstantsFit DEF Scene!ConstantsFit

LEMMA NoneIsNoPrism == None \notin Scene!Prisms
  BY SceneConstantsFit DEF Scene!ConstantsFit

\* Stopped, it has nothing pending.
LEMMA StopIs ==
  ASSUME NEW p, Sound(p)
  PROVE  /\ Sound(Scene!stopLoop(p)) /\ ~Scene!stopLoop(p).loopActive
         /\ Scene!stopLoop(p).visible = p.visible /\ Scene!stopLoop(p).pageVisible = p.pageVisible
<1>1. PICK q : q = Scene!stopLoop(p)
  OBVIOUS
<1>2. p \in Scene!Prisms
  BY DEF Sound
<1>3. q = [p EXCEPT !.loopActive = FALSE, !.raf = FALSE, !.timer = FALSE,
                    !.frames = IF p.raf THEN @ - 1 ELSE @, !.timers = IF p.timer THEN @ - 1 ELSE @]
  BY <1>1 DEF Scene!stopLoop
<1>4. (IF p.raf THEN p.frames - 1 ELSE p.frames) = 0 /\ (IF p.timer THEN p.timers - 1 ELSE p.timers) = 0
  BY <1>2 DEF Sound, Count
<1>5. q = [p EXCEPT !.loopActive = FALSE, !.raf = FALSE, !.timer = FALSE, !.frames = 0, !.timers = 0]
  BY <1>3, <1>4
<1>6. QED
  BY <1>1, <1>2, <1>5 DEF Sound, Scene!Prisms, Count

\* Started where it can be seen, it has one frame pending, otherwise nothing.
LEMMA KickIs ==
  ASSUME NEW p \in Scene!Prisms, p.mounted, p.frames = 0, p.timers = 0, ~p.raf, p.loopActive
  PROVE  /\ Right(Scene!kick(p))
         /\ Scene!kick(p).visible = p.visible /\ Scene!kick(p).pageVisible = p.pageVisible
<1>1. PICK q : q = Scene!kick(p)
  OBVIOUS
<1>2. CASE Scene!Seen(p)
  <2>1. q = [p EXCEPT !.timer = FALSE, !.raf = TRUE, !.frames = 1]
    BY <1>1, <1>2 DEF Scene!kick
  <2>2. /\ q \in Scene!Prisms /\ q.mounted /\ q.frames = 1 /\ q.timers = 0 /\ q.raf /\ ~q.timer /\ q.loopActive
        /\ q.visible = p.visible /\ q.pageVisible = p.pageVisible
    BY <2>1 DEF Scene!Prisms
  <2>3. Count(q.raf) = 1 /\ Count(q.timer) = 0
    BY <2>2 DEF Count
  <2>4. QED
    BY <1>1, <1>2, <2>2, <2>3 DEF Right, Sound, Scene!Seen
<1>3. CASE ~Scene!Seen(p)
  <2>1. q = [p EXCEPT !.timer = FALSE, !.loopActive = FALSE]
    BY <1>1, <1>3 DEF Scene!kick
  <2>2. QED
    BY <1>1, <1>3, <2>1 DEF Right, Sound, Scene!Seen, Scene!Prisms, Count
<1>4. QED
  BY <1>2, <1>3

LEMMA EnsureIs ==
  ASSUME NEW p, Sound(p), p.loopActive => Scene!Seen(p)
  PROVE  /\ Right(Scene!ensureRunning(p))
         /\ Scene!ensureRunning(p).visible = p.visible /\ Scene!ensureRunning(p).pageVisible = p.pageVisible
<1>1. CASE p.loopActive \/ ~Scene!Seen(p)
  BY <1>1 DEF Scene!ensureRunning, Right
<1>2. CASE ~p.loopActive /\ Scene!Seen(p)
  <2>1. PICK r : r = [p EXCEPT !.loopActive = TRUE]
    OBVIOUS
  <2>2. r \in Scene!Prisms /\ r.mounted /\ r.frames = 0 /\ r.timers = 0 /\ ~r.raf /\ r.loopActive
        /\ r.visible = p.visible /\ r.pageVisible = p.pageVisible
    BY <1>2, <2>1 DEF Sound, Scene!Prisms, Count
  <2>3. Scene!ensureRunning(p) = Scene!kick(r)
    BY <1>2, <2>1 DEF Scene!ensureRunning
  <2>4. QED
    BY <2>2, <2>3, KickIs
<1>3. QED
  BY <1>1, <1>2

LEMMA PrismKeeps ==
  ASSUME PrismInv, Scene!mountAuthPrism \/ Scene!dispose \/ Scene!Frame \/ Scene!Timer \/ Scene!onVisibility
                   \/ \E v \in BOOLEAN : Scene!Observed(v)
  PROVE  PrismInv'
<1>1. CASE Scene!mountAuthPrism
  <2>1. PICK p : p = [mounted |-> TRUE, visible |-> TRUE, pageVisible |-> sc_shown, loopActive |-> FALSE,
                      raf |-> FALSE, timer |-> FALSE, frames |-> 0, timers |-> 0]
    OBVIOUS
  <2>2. sc_prism' = Scene!ensureRunning(p) /\ sc_shown' = sc_shown
    BY <1>1, <2>1 DEF Scene!mountAuthPrism
  <2>3. Sound(p) /\ ~p.loopActive /\ p.pageVisible = sc_shown
    BY <2>1 DEF PrismInv, Sound, Scene!Prisms, Count
  <2>4. QED
    BY <2>2, <2>3, EnsureIs DEF PrismInv
<1>2. CASE Scene!dispose
  <2>1. Sound(sc_prism)
    BY <1>2 DEF Scene!dispose, PrismInv, Right
  <2>2. Sound(Scene!stopLoop(sc_prism)) /\ ~Scene!stopLoop(sc_prism).loopActive
    BY <2>1, StopIs
  <2>3. Scene!stopLoop(sc_prism).frames + Scene!stopLoop(sc_prism).timers = 0
    BY <2>2 DEF Sound, Count
  <2>4. sc_prism' = None /\ sc_shown' = sc_shown
    BY <1>2, <2>3 DEF Scene!dispose
  <2>5. QED
    BY <2>4 DEF PrismInv
<1>3. CASE Scene!Frame
  <2>1. sc_prism # None /\ sc_prism.frames > 0 /\ sc_prism' = Scene!paint([sc_prism EXCEPT !.frames = @ - 1]) /\ sc_shown' = sc_shown
    BY <1>3 DEF Scene!Frame
  <2>2. Right(sc_prism) /\ sc_prism.pageVisible = sc_shown
    BY <2>1 DEF PrismInv
  <2>3. sc_prism.raf /\ ~sc_prism.timer /\ sc_prism.frames = 1 /\ sc_prism.timers = 0 /\ sc_prism \in Scene!Prisms /\ sc_prism.mounted
        /\ sc_prism.loopActive
    BY <2>1, <2>2 DEF Right, Sound, Count
  <2>4. PICK r : r = [sc_prism EXCEPT !.frames = 0]
    OBVIOUS
  <2>5. Scene!Seen(r) /\ r.timers = 0
    BY <2>2, <2>3, <2>4 DEF Right, Scene!Seen, Scene!Prisms
  <2>6. sc_prism' = [r EXCEPT !.raf = FALSE, !.timer = TRUE, !.timers = 1]
    <3>1. sc_prism' = Scene!paint(r) /\ r.timers + 1 = 1
      BY <2>1, <2>3, <2>4, <2>5
    <3>2. QED
      BY <2>5, <3>1 DEF Scene!paint
  <2>7. sc_prism' = [sc_prism EXCEPT !.frames = 0, !.raf = FALSE, !.timer = TRUE, !.timers = 1]
    BY <2>3, <2>4, <2>6 DEF Scene!Prisms
  <2>8. Right(sc_prism') /\ sc_prism'.pageVisible = sc_prism.pageVisible
    BY <2>2, <2>3, <2>7 DEF Right, Sound, Scene!Seen, Scene!Prisms, Count
  <2>9. QED
    BY <2>1, <2>2, <2>8 DEF PrismInv
<1>4. CASE Scene!Timer
  <2>1. sc_prism # None /\ sc_prism.timers > 0 /\ sc_prism' = Scene!kick([sc_prism EXCEPT !.timers = @ - 1]) /\ sc_shown' = sc_shown
    BY <1>4 DEF Scene!Timer
  <2>2. Right(sc_prism) /\ sc_prism.pageVisible = sc_shown
    BY <2>1 DEF PrismInv
  <2>3. sc_prism.timer /\ ~sc_prism.raf /\ sc_prism.frames = 0 /\ sc_prism.timers = 1 /\ sc_prism \in Scene!Prisms /\ sc_prism.mounted
        /\ sc_prism.loopActive
    BY <2>1, <2>2 DEF Right, Sound, Count
  <2>4. PICK r : r = [sc_prism EXCEPT !.timers = 0]
    OBVIOUS
  <2>5. r \in Scene!Prisms /\ r.mounted /\ r.frames = 0 /\ r.timers = 0 /\ ~r.raf /\ r.loopActive
        /\ r.pageVisible = sc_prism.pageVisible
    BY <2>3, <2>4 DEF Scene!Prisms
  <2>6. sc_prism' = Scene!kick(r)
    BY <2>1, <2>3, <2>4
  <2>7. QED
    BY <2>1, <2>2, <2>5, <2>6, KickIs DEF PrismInv
<1>5. CASE Scene!onVisibility
  <2>1. sc_shown' = ~sc_shown /\ sc_shown' \in BOOLEAN
    BY <1>5 DEF Scene!onVisibility, PrismInv
  <2>2. CASE sc_prism = None
    BY <1>5, <2>1, <2>2 DEF Scene!onVisibility, PrismInv
  <2>3. CASE sc_prism # None
    <3>1. Right(sc_prism) /\ sc_prism.pageVisible = sc_shown /\ sc_prism.mounted
      BY <2>3 DEF PrismInv, Right, Sound
    <3>2. PICK p : p = [sc_prism EXCEPT !.pageVisible = sc_shown']
      OBVIOUS
    <3>3. Sound(p) /\ p.pageVisible = sc_shown' /\ p.visible = sc_prism.visible /\ p.loopActive = sc_prism.loopActive
      BY <2>1, <3>1, <3>2 DEF Right, Sound, Scene!Prisms
    <3>4. sc_prism' = IF sc_shown' THEN Scene!ensureRunning(p) ELSE Scene!stopLoop(p)
      BY <1>5, <2>3, <3>1, <3>2 DEF Scene!onVisibility
    <3>5. CASE sc_shown'
      <4>1. ~p.loopActive
        BY <2>1, <3>1, <3>3, <3>5 DEF Right, Scene!Seen, Sound, Scene!Prisms
      <4>2. QED
        BY <2>1, <3>3, <3>4, <3>5, <4>1, EnsureIs DEF PrismInv
    <3>6. CASE ~sc_shown'
      <4>1. sc_prism' = Scene!stopLoop(p) /\ Sound(sc_prism') /\ ~sc_prism'.loopActive /\ sc_prism'.pageVisible = p.pageVisible
        BY <3>3, <3>4, <3>6, StopIs
      <4>2. QED
        BY <2>1, <3>3, <3>6, <4>1 DEF PrismInv, Right, Scene!Seen
    <3>7. QED
      BY <3>5, <3>6
  <2>4. QED
    BY <2>2, <2>3
<1>6. ASSUME NEW v \in BOOLEAN, Scene!Observed(v) PROVE PrismInv'
  <2>1. sc_prism # None /\ sc_prism.mounted /\ sc_shown' = sc_shown
    BY <1>6 DEF Scene!Observed
  <2>2. Right(sc_prism) /\ sc_prism.pageVisible = sc_shown
    BY <2>1 DEF PrismInv
  <2>3. PICK p : p = [sc_prism EXCEPT !.visible = v]
    OBVIOUS
  <2>4. Sound(p) /\ p.visible = v /\ p.pageVisible = sc_shown /\ p.loopActive = sc_prism.loopActive
    BY <2>2, <2>3 DEF Right, Sound, Scene!Prisms
  <2>5. sc_prism' = IF v THEN Scene!ensureRunning(p) ELSE Scene!stopLoop(p)
    BY <1>6, <2>3 DEF Scene!Observed
  <2>6. CASE v
    <3>1. p.loopActive => Scene!Seen(p)
      BY <2>2, <2>4, <2>6 DEF Right, Scene!Seen
    <3>2. QED
      BY <2>1, <2>4, <2>5, <2>6, <3>1, EnsureIs DEF PrismInv
  <2>7. CASE ~v
    <3>1. sc_prism' = Scene!stopLoop(p) /\ Sound(sc_prism') /\ ~sc_prism'.loopActive /\ sc_prism'.pageVisible = sc_shown
          /\ sc_prism'.visible = v
      BY <2>4, <2>5, <2>7, StopIs
    <3>2. QED
      BY <2>1, <2>7, <3>1 DEF PrismInv, Right, Scene!Seen
  <2>8. QED
    BY <2>6, <2>7
<1>7. QED
  BY <1>1, <1>2, <1>3, <1>4, <1>5, <1>6

------------------------------------------------------------------------------
\* No picture that is on the page is from anywhere but the server or the network.
LEMMA FromIs ==
  ASSUME PicturesInv, NEW i \in DOMAIN sc_src
  PROVE  sc_src[i] \in {None, LocalCopy, sc_winnerBase} /\ (sc_src[i] = None => i \in sc_awaits \ Logos)
<1>1. sc_src[i] \in {sc_src[j] : j \in DOMAIN sc_src}
  OBVIOUS
<1>2. QED
  BY <1>1 DEF PicturesInv, Scene!PicturesAgree

\* A picture that appears is from the network there is, or waits for the probe.
LEMMA MountImageKeeps ==
  ASSUME PicturesInv, NEW i, Scene!MountImage(i)
  PROVE  PicturesInv'
<1>1. PICK base : base = Scene!peekRacedHomeImageUrl
  OBVIOUS
<1>2. /\ i \notin DOMAIN sc_src /\ sc_winnerBase' = base /\ sc_stored' = sc_stored
      /\ sc_src' = [j \in DOMAIN sc_src \cup {i} |->
                   IF j # i THEN sc_src[j]
                   ELSE IF base # None THEN base ELSE IF i \in Logos THEN LocalCopy ELSE None]
      /\ IF base # None THEN UNCHANGED <<sc_probe, sc_awaits>> ELSE Scene!resolveHomeImageCdnBase(i)
  BY <1>1 DEF Scene!MountImage
<1>3. PicturesTyped /\ Scene!PicturesAgree /\ (Scene!Probing => sc_winnerBase = None /\ sc_stored = None)
  BY DEF PicturesInv
<1>4. DOMAIN sc_src' = DOMAIN sc_src \cup {i} /\ (\A j \in DOMAIN sc_src : sc_src'[j] = sc_src[j])
      /\ sc_src'[i] = IF base # None THEN base ELSE IF i \in Logos THEN LocalCopy ELSE None
  BY <1>2
<1>5. base \in HOME_IMAGE_CDNS \cup {None} /\ (sc_winnerBase # None => base = sc_winnerBase)
      /\ (base = None => sc_stored = None /\ sc_winnerBase = None) /\ (None \notin {sc_stored, base} => sc_stored = base)
      /\ base \in {sc_winnerBase, sc_stored}
  <2>1. None \notin {sc_stored, sc_winnerBase} => sc_stored = sc_winnerBase
    BY <1>3 DEF Scene!PicturesAgree
  <2>2. sc_winnerBase \in HOME_IMAGE_CDNS \cup {None} /\ sc_stored \in HOME_IMAGE_CDNS \cup {None}
    BY <1>3 DEF PicturesTyped
  <2>3. CASE sc_winnerBase # None
    BY <1>1, <2>1, <2>2, <2>3 DEF Scene!peekRacedHomeImageUrl
  <2>4. CASE sc_winnerBase = None
    BY <1>1, <2>2, <2>4 DEF Scene!peekRacedHomeImageUrl
  <2>5. QED
    BY <2>3, <2>4
<1>6. CASE base # None
  <2>1. ~Scene!Probing /\ sc_awaits = {}
    BY <1>3, <1>5, <1>6 DEF Scene!PicturesAgree
  <2>2. sc_probe' = sc_probe /\ sc_awaits' = sc_awaits /\ sc_src'[i] = base
    BY <1>2, <1>4, <1>6
  <2>3. PicturesTyped'
    BY <1>2, <1>3, <1>4, <1>5, <2>2 DEF PicturesTyped
  <2>4. \A j \in DOMAIN sc_src' : sc_src'[j] \in {LocalCopy, base} /\ sc_src'[j] # None
    BY <1>4, <1>5, <1>6, <2>1, <2>2, FromIs, NetworksExist
  <2>5. ~Scene!Probing'
    BY <2>1, <2>2 DEF Scene!Probing
  <2>6. Scene!PicturesAgree'
    BY <1>2, <1>5, <2>1, <2>2, <2>4 DEF Scene!PicturesAgree
  <2>7. QED
    BY <2>3, <2>5, <2>6 DEF PicturesInv
<1>7. CASE base = None
  <2>1. sc_probe' = (IF Scene!Probing THEN sc_probe ELSE [asked |-> HOME_IMAGE_CDNS, ok |-> {}]) /\ sc_awaits' = sc_awaits \cup {i}
    BY <1>2, <1>7 DEF Scene!resolveHomeImageCdnBase
  <2>2. sc_probe' \in [asked : SUBSET HOME_IMAGE_CDNS, ok : SUBSET HOME_IMAGE_CDNS] /\ Scene!Probing'
    <3>1. CASE Scene!Probing
      BY <1>3, <2>1, <3>1 DEF Scene!Probing, PicturesTyped
    <3>2. CASE ~Scene!Probing
      BY <2>1, <3>2, NetworksExist DEF Scene!Probing
    <3>3. QED
      BY <3>1, <3>2
  <2>3. PicturesTyped'
    BY <1>2, <1>3, <1>4, <1>5, <2>1, <2>2 DEF PicturesTyped
  <2>4. \A j \in DOMAIN sc_src' : sc_src'[j] \in {None, LocalCopy} /\ (sc_src'[j] = None => j \in sc_awaits' \ Logos)
    BY <1>4, <1>5, <1>7, <2>1, FromIs, NetworksExist
  <2>5. Scene!PicturesAgree'
    BY <1>2, <1>5, <2>2, <2>4 DEF Scene!PicturesAgree
  <2>6. QED
    BY <1>2, <1>5, <1>7, <2>3, <2>5 DEF PicturesInv
<1>8. QED
  BY <1>6, <1>7

LEMMA UnmountImageKeeps ==
  ASSUME PicturesInv, NEW i, Scene!UnmountImage(i)
  PROVE  PicturesInv'
<1>1. /\ DOMAIN sc_src' = DOMAIN sc_src \ {i} /\ (\A j \in DOMAIN sc_src' : sc_src'[j] = sc_src[j])
      /\ sc_awaits' = sc_awaits \ {i} /\ sc_winnerBase' = sc_winnerBase /\ sc_stored' = sc_stored /\ sc_probe' = sc_probe
  BY DEF Scene!UnmountImage
<1>2. PicturesTyped /\ Scene!PicturesAgree /\ (Scene!Probing => sc_winnerBase = None /\ sc_stored = None)
  BY DEF PicturesInv
<1>3. PicturesTyped'
  BY <1>1, <1>2 DEF PicturesTyped
<1>4. \A j \in DOMAIN sc_src' : sc_src'[j] \in {None, LocalCopy, sc_winnerBase} /\ (sc_src'[j] = None => j \in sc_awaits' \ Logos)
  BY <1>1, FromIs
<1>5. Scene!PicturesAgree'
  BY <1>1, <1>2, <1>4 DEF Scene!PicturesAgree, Scene!Probing
<1>6. QED
  BY <1>1, <1>2, <1>3, <1>5 DEF PicturesInv, Scene!Probing

LEMMA OnErrorKeeps ==
  ASSUME PicturesInv, NEW i, Scene!onError(i)
  PROVE  PicturesInv'
<1>1. /\ DOMAIN sc_src' = DOMAIN sc_src /\ sc_src'[i] = LocalCopy /\ i \in DOMAIN sc_src
      /\ \A j \in DOMAIN sc_src \ {i} : sc_src'[j] = sc_src[j]
      /\ sc_awaits' = sc_awaits /\ sc_winnerBase' = sc_winnerBase /\ sc_stored' = sc_stored /\ sc_probe' = sc_probe
  BY DEF Scene!onError
<1>2. PicturesTyped /\ Scene!PicturesAgree /\ (Scene!Probing => sc_winnerBase = None /\ sc_stored = None)
  BY DEF PicturesInv
<1>3. PicturesTyped'
  BY <1>1, <1>2 DEF PicturesTyped
<1>4. \A j \in DOMAIN sc_src' : sc_src'[j] \in {None, LocalCopy, sc_winnerBase} /\ (sc_src'[j] = None => j \in sc_awaits' \ Logos)
  BY <1>1, FromIs, NetworksExist
<1>5. Scene!PicturesAgree'
  BY <1>1, <1>2, <1>4 DEF Scene!PicturesAgree, Scene!Probing
<1>6. QED
  BY <1>1, <1>2, <1>3, <1>5 DEF PicturesInv, Scene!Probing

\* The last answer gives every picture that waits a place to come from.
LEMMA MeasureKeeps ==
  ASSUME PicturesInv, NEW cdn \in HOME_IMAGE_CDNS, NEW ok \in BOOLEAN, Scene!measureCdnLatency(cdn, ok)
  PROVE  PicturesInv'
<1>1. PICK left : left = sc_probe.asked \ {cdn}
  OBVIOUS
<1>2. PICK good : good = IF ok THEN sc_probe.ok \cup {cdn} ELSE sc_probe.ok
  OBVIOUS
<1>3. /\ cdn \in sc_probe.asked
      /\ IF left = {} THEN Scene!probeLowestLatencyCdn(good)
         ELSE /\ sc_probe' = [asked |-> left, ok |-> good]
              /\ UNCHANGED <<sc_winnerBase, sc_stored, sc_src, sc_awaits>>
  BY <1>1, <1>2 DEF Scene!measureCdnLatency
<1>4. PicturesTyped /\ Scene!PicturesAgree /\ Scene!Probing /\ sc_winnerBase = None /\ sc_stored = None
  BY <1>3 DEF PicturesInv, Scene!Probing
<1>5. left \subseteq HOME_IMAGE_CDNS /\ good \subseteq HOME_IMAGE_CDNS
  BY <1>1, <1>2, <1>4 DEF PicturesTyped
<1>6. CASE left # {}
  <2>1. sc_probe' = [asked |-> left, ok |-> good] /\ UNCHANGED <<sc_winnerBase, sc_stored, sc_src, sc_awaits>>
    BY <1>3, <1>6
  <2>2. PicturesTyped' /\ Scene!Probing'
    BY <1>4, <1>5, <1>6, <2>1 DEF PicturesTyped, Scene!Probing
  <2>3. Scene!PicturesAgree'
    BY <1>4, <2>1, <2>2 DEF Scene!PicturesAgree
  <2>4. QED
    BY <1>4, <2>1, <2>2, <2>3 DEF PicturesInv
<1>7. CASE left = {}
  <2>1. Scene!probeLowestLatencyCdn(good)
    BY <1>3, <1>7
  <2>2. sc_probe' = Scene!Idle /\ sc_awaits' = {}
    BY <2>1 DEF Scene!probeLowestLatencyCdn
  <2>3. sc_probe' \in [asked : SUBSET HOME_IMAGE_CDNS, ok : SUBSET HOME_IMAGE_CDNS] /\ ~Scene!Probing'
    BY <2>2 DEF Scene!Idle, Scene!Probing
  <2>4. PICK base \in good \cup {LocalCopy} :
          /\ sc_src' = [i \in DOMAIN sc_src |-> IF i \in sc_awaits THEN base ELSE sc_src[i]]
          /\ sc_winnerBase' \in HOME_IMAGE_CDNS \cup {None} /\ base \in {LocalCopy, sc_winnerBase'}
          /\ sc_stored' \in {None, sc_winnerBase'}
    <3>1. CASE good = {}
      BY <1>4, <2>1, <3>1 DEF Scene!probeLowestLatencyCdn
    <3>2. CASE good # {}
      <4>1. PICK base \in good, writes \in BOOLEAN :
              /\ sc_winnerBase' = base /\ sc_stored' = (IF writes THEN base ELSE sc_stored)
              /\ sc_src' = [i \in DOMAIN sc_src |-> IF i \in sc_awaits THEN base ELSE sc_src[i]]
        BY <2>1, <3>2 DEF Scene!probeLowestLatencyCdn
      <4>2. QED
        BY <1>4, <1>5, <4>1
    <3>3. QED
      BY <3>1, <3>2
  <2>5. DOMAIN sc_src' = DOMAIN sc_src
    BY <2>4
  <2>6. \A i \in DOMAIN sc_src' : sc_src'[i] # None /\ sc_src'[i] \in {LocalCopy, sc_winnerBase'}
    BY <1>4, <1>5, <2>4, FromIs, NetworksExist
  <2>7. PicturesTyped'
    BY <2>2, <2>3, <2>4 DEF PicturesTyped
  <2>8. Scene!PicturesAgree'
    BY <2>2, <2>4, <2>6 DEF Scene!PicturesAgree
  <2>9. QED
    BY <2>3, <2>7, <2>8 DEF PicturesInv
<1>8. QED
  BY <1>6, <1>7

------------------------------------------------------------------------------
LEMMA SceneInitInv ==
  ASSUME Scene!Init
  PROVE  SceneInv
<1>1. DOMAIN sc_src = {}
  BY DEF Scene!Init
<1>2. PicturesTyped /\ ~Scene!Probing
  BY <1>1 DEF Scene!Init, PicturesTyped, Scene!Idle, Scene!Probing
<1>3. Scene!PicturesAgree
  BY <1>1 DEF Scene!Init, Scene!PicturesAgree
<1>4. PrismInv
  BY DEF Scene!Init, PrismInv
<1>5. QED
  BY <1>2, <1>3, <1>4 DEF SceneInv, PicturesInv

\* The pictures and the background have nothing in common but the page they are on.
LEMMA SceneStep ==
  ASSUME SceneInv, [Scene!Next]_vars_sc
  PROVE  SceneInv'
<1>1. PicturesInv /\ PrismInv
  BY DEF SceneInv
<1>2. ASSUME UNCHANGED <<sc_winnerBase, sc_stored, sc_probe, sc_src, sc_awaits>> PROVE PicturesInv'
  BY <1>1, <1>2 DEF PicturesInv, PicturesTyped, Scene!PicturesAgree, Scene!Probing
<1>3. ASSUME UNCHANGED <<sc_prism, sc_shown>> PROVE PrismInv'
  BY <1>1, <1>3 DEF PrismInv
<1>4. ASSUME NEW i, Scene!MountImage(i) \/ Scene!UnmountImage(i) \/ Scene!onError(i) PROVE SceneInv'
  <2>1. PicturesInv'
    BY <1>1, <1>4, MountImageKeeps, UnmountImageKeeps, OnErrorKeeps
  <2>2. UNCHANGED <<sc_prism, sc_shown>>
    BY <1>4 DEF Scene!MountImage, Scene!UnmountImage, Scene!onError
  <2>3. QED
    BY <1>3, <2>1, <2>2 DEF SceneInv
<1>5. ASSUME NEW cdn \in HOME_IMAGE_CDNS, NEW ok \in BOOLEAN, Scene!measureCdnLatency(cdn, ok) PROVE SceneInv'
  <2>1. PicturesInv'
    BY <1>1, <1>5, MeasureKeeps
  <2>2. UNCHANGED <<sc_prism, sc_shown>>
    BY <1>5 DEF Scene!measureCdnLatency
  <2>3. QED
    BY <1>3, <2>1, <2>2 DEF SceneInv
<1>6. CASE Scene!mountAuthPrism \/ Scene!dispose \/ Scene!Frame \/ Scene!Timer \/ Scene!onVisibility \/ \E v \in BOOLEAN : Scene!Observed(v)
  <2>1. PrismInv'
    BY <1>1, <1>6, PrismKeeps
  <2>2. UNCHANGED <<sc_winnerBase, sc_stored, sc_probe, sc_src, sc_awaits>>
    BY <1>6 DEF Scene!mountAuthPrism, Scene!dispose, Scene!Frame, Scene!Timer, Scene!onVisibility, Scene!Observed, Scene!ElsePrism, Scene!pictures
  <2>3. QED
    BY <1>2, <2>1, <2>2 DEF SceneInv
<1>7. CASE Scene!Load
  <2>1. sc_winnerBase' = None /\ sc_stored' = sc_stored /\ sc_probe' = Scene!Idle /\ DOMAIN sc_src' = {} /\ sc_awaits' = {}
        /\ sc_prism' = None /\ sc_shown' = sc_shown
    BY <1>7 DEF Scene!Load
  <2>2. PicturesTyped' /\ ~Scene!Probing'
    BY <1>1, <2>1 DEF PicturesInv, PicturesTyped, Scene!Idle, Scene!Probing
  <2>3. Scene!PicturesAgree'
    BY <2>1 DEF Scene!PicturesAgree
  <2>4. PrismInv'
    BY <1>1, <2>1 DEF PrismInv
  <2>5. QED
    BY <2>2, <2>3, <2>4 DEF SceneInv, PicturesInv
<1>8. CASE UNCHANGED vars_sc
  <2>1. UNCHANGED <<sc_winnerBase, sc_stored, sc_probe, sc_src, sc_awaits>> /\ UNCHANGED <<sc_prism, sc_shown>>
    BY <1>8 DEF vars_sc
  <2>2. QED
    BY <1>2, <1>3, <2>1 DEF SceneInv
<1>9. QED
  BY <1>4, <1>5, <1>6, <1>7, <1>8 DEF Scene!Next

LEMMA SceneAgrees ==
  ASSUME SceneInv
  PROVE  Scene!SceneryAgrees
<1>1. Scene!PicturesAgree
  BY DEF SceneInv, PicturesInv
<1>2. ASSUME sc_prism # None
      PROVE  /\ sc_prism.mounted /\ sc_prism.pageVisible = sc_shown
             /\ sc_prism.loopActive = Scene!Seen(sc_prism)
             /\ sc_prism.frames + sc_prism.timers = IF sc_prism.loopActive THEN 1 ELSE 0
             /\ sc_prism.frames = (IF sc_prism.raf THEN 1 ELSE 0) /\ sc_prism.timers = (IF sc_prism.timer THEN 1 ELSE 0)
  <2>1. Right(sc_prism) /\ sc_prism.pageVisible = sc_shown
    BY <1>2 DEF SceneInv, PrismInv
  <2>2. sc_prism.mounted /\ sc_prism \in Scene!Prisms
    BY <2>1 DEF Right, Sound
  <2>3. sc_prism.frames = (IF sc_prism.raf THEN 1 ELSE 0) /\ sc_prism.timers = (IF sc_prism.timer THEN 1 ELSE 0)
    BY <2>1 DEF Right, Sound, Count
  <2>4. sc_prism.frames + sc_prism.timers = IF sc_prism.loopActive THEN 1 ELSE 0
    BY <2>1, <2>2, <2>3 DEF Right, Sound
  <2>5. sc_prism.loopActive = Scene!Seen(sc_prism)
    BY <2>1, <2>2 DEF Right, Scene!Seen, Scene!Prisms
  <2>6. QED
    BY <2>1, <2>2, <2>3, <2>4, <2>5
<1>3. Scene!PaintsWhenSeen
  BY <1>2 DEF Scene!PaintsWhenSeen
<1>4. QED
  BY <1>1, <1>3 DEF Scene!SceneryAgrees

------------------------------------------------------------------------------
(* SideNav.                                                                   *)

(* Every variable of the ball and the layout has its type. *)
NavTyped ==
  /\ sn_window \in Windows /\ sn_layout \in Nav!Layouts /\ sn_kept \in Nav!Layouts
  /\ sn_coords \in Nav!Points \cup {None} /\ sn_drag \in Nav!DragValues \cup {None}
  /\ sn_hover \in [open : BOOLEAN, closing : BOOLEAN]

BallInv ==
  /\ sn_coords # None <=> Nav!Folded(sn_layout)
  /\ sn_drag # None \/ sn_pointer = "ball" => sn_coords # None
  /\ Nav!BallStays

CatalogInv ==
  /\ sn_who \in Whos
  /\ \A c, d \in sn_expanded : c = d
  /\ sn_expanded \subseteq Nav!Elements(Trees[sn_who])
  /\ sn_cached = [who |-> sn_who, codes |-> sn_expanded]

NavInv == NavTyped /\ BallInv /\ Nav!MenuHasReason /\ CatalogInv
------------------------------------------------------------------------------
LEMMA Fits ==
  /\ Windows \subseteq Nav!Sizes /\ BallMenus \subseteq Nav!Sizes /\ DragMoves \subseteq Nav!Points
  /\ \A win \in Windows : win.w >= Fab /\ win.h >= Fab
  /\ Fab \in Nat /\ MaxHeight \in Nat /\ Gap \in Nat /\ Pad \in Nat /\ Inset \in Int /\ Header \in Int
  /\ Threshold \in Int /\ MinWidth \in Int /\ MaxWidth \in Int
  /\ Pad <= Fab + Gap
  /\ \A menu \in BallMenus : menu.w >= 0 /\ menu.h >= 0
  /\ None \notin Nav!Points \cup Nav!DragValues
  BY NavConstantsFit DEF Nav!ConstantsFit

LEMMA WindowIs ==
  ASSUME NEW win \in Windows
  PROVE  win \in Nav!Sizes /\ win.w \in Int /\ win.h \in Int /\ win.w >= Fab /\ win.h >= Fab /\ Fab \in Nat
  BY Fits DEF Nav!Sizes

\* Whatever is clamped is in the window, and what is in it stays as it is.
LEMMA ClampIs ==
  ASSUME NEW win \in Windows, NEW at \in Nav!Points
  PROVE  /\ Nav!clampExpandFabPosition(at, win) \in Nav!Points
         /\ Nav!Inside(Nav!clampExpandFabPosition(at, win), [w |-> Fab, h |-> Fab], win)
         /\ Nav!Inside(at, [w |-> Fab, h |-> Fab], win) => Nav!clampExpandFabPosition(at, win) = at
<1>1. win.w \in Int /\ win.h \in Int /\ win.w >= Fab /\ win.h >= Fab /\ Fab \in Nat
  BY WindowIs
<1>2. at.x \in Int /\ at.y \in Int /\ at = [x |-> at.x, y |-> at.y]
  BY DEF Nav!Points
<1>3. PICK x \in Int : x = Nav!Lesser(Nav!Greater(0, win.w - Fab), Nav!Greater(0, at.x))
  BY <1>1, <1>2 DEF Nav!Lesser, Nav!Greater
<1>4. PICK y \in Int : y = Nav!Lesser(Nav!Greater(0, win.h - Fab), Nav!Greater(0, at.y))
  BY <1>1, <1>2 DEF Nav!Lesser, Nav!Greater
<1>5. Nav!clampExpandFabPosition(at, win) = [x |-> x, y |-> y]
  BY <1>3, <1>4 DEF Nav!clampExpandFabPosition
<1>6. x >= 0 /\ x + Fab <= win.w /\ y >= 0 /\ y + Fab <= win.h
  BY <1>1, <1>2, <1>3, <1>4 DEF Nav!Lesser, Nav!Greater
<1>7. at.x >= 0 /\ at.x + Fab <= win.w => x = at.x
  BY <1>1, <1>2, <1>3 DEF Nav!Lesser, Nav!Greater
<1>8. at.y >= 0 /\ at.y + Fab <= win.h => y = at.y
  BY <1>1, <1>2, <1>4 DEF Nav!Lesser, Nav!Greater
<1>9. QED
  BY <1>2, <1>5, <1>6, <1>7, <1>8 DEF Nav!Points, Nav!Inside

LEMMA DefaultIs ==
  ASSUME NEW win \in Windows, NEW side
  PROVE  /\ Nav!defaultExpandFabPosition(side, win) \in Nav!Points
         /\ Nav!Inside(Nav!defaultExpandFabPosition(side, win), [w |-> Fab, h |-> Fab], win)
<1>1. PICK at : at = [x |-> IF side = "left" THEN Inset ELSE Nav!Greater(Inset, win.w - Inset - Fab),
                      y |-> Header - Fab \div 2]
  OBVIOUS
<1>2. Fab \div 2 \in Int
  BY Fits
<1>3. at \in Nav!Points
  BY <1>1, <1>2, WindowIs, Fits DEF Nav!Greater, Nav!Points
<1>4. QED
  BY <1>1, <1>3, ClampIs DEF Nav!defaultExpandFabPosition

\* A normalized layout has its ball in the window, and is as folded as it was.
LEMMA NormalIs ==
  ASSUME NEW l \in Nav!Layouts, NEW win \in Windows, NEW n, n = Nav!normalizeNavLayout(l, win)
  PROVE  /\ n \in Nav!Layouts
         /\ n.position = l.position /\ n.collapsed = l.collapsed
         /\ Nav!Folded(n) = Nav!Folded(l)
         /\ n.fab = IF l.fab = None THEN None ELSE Nav!clampExpandFabPosition(l.fab, win)
         /\ n.fab # None => n.fab \in Nav!Points /\ Nav!Inside(n.fab, [w |-> Fab, h |-> Fab], win)
         /\ n.fab = None <=> l.fab = None
<1>1. PICK fab : fab = IF l.fab = None THEN None ELSE Nav!clampExpandFabPosition(l.fab, win)
  OBVIOUS
<1>2. PICK width \in Int : width = Nav!Lesser(MaxWidth, Nav!Greater(MinWidth, l.width))
  BY Fits DEF Nav!Lesser, Nav!Greater, Nav!Layouts
<1>3. fab \in Nav!Points \cup {None} /\ (fab # None => fab \in Nav!Points /\ Nav!Inside(fab, [w |-> Fab, h |-> Fab], win))
      /\ (fab = None <=> l.fab = None)
  BY <1>1, ClampIs, Fits DEF Nav!Layouts
<1>4. n = [l EXCEPT !.width = width, !.fab = fab]
  BY <1>1, <1>2 DEF Nav!normalizeNavLayout
<1>5. n \in Nav!Layouts /\ n.position = l.position /\ n.collapsed = l.collapsed /\ n.fab = fab
  BY <1>2, <1>3, <1>4 DEF Nav!Layouts
<1>6. QED
  BY <1>1, <1>3, <1>5 DEF Nav!Folded

\* A layout that is applied leaves the ball in the window, or none.
LEMMA ApplyIs ==
  ASSUME NavTyped, BallInv, Nav!MenuHasReason, NEW l \in Nav!Layouts, Nav!applyLayout(l), sn_window' = sn_window,
         sn_drag' \in {sn_drag, None},
         sn_drag' # None => Nav!Folded(l)
  PROVE  NavTyped' /\ BallInv' /\ Nav!MenuHasReason'
<1>1. sn_layout' = Nav!normalizeNavLayout(l, sn_window) /\ sn_kept' = sn_layout' /\ sn_coords' = Nav!FabCoords(sn_layout', sn_layout, sn_window)
      /\ Nav!Mounting(l) /\ sn_window \in Windows
  BY DEF Nav!applyLayout, NavTyped
<1>2. /\ sn_layout' \in Nav!Layouts /\ Nav!Folded(sn_layout') = Nav!Folded(l)
      /\ sn_layout'.fab # None => sn_layout'.fab \in Nav!Points /\ Nav!Inside(sn_layout'.fab, [w |-> Fab, h |-> Fab], sn_window)
  BY <1>1, NormalIs
<1>3. Nav!Folded(l) => /\ sn_coords' \in Nav!Points /\ Nav!Inside(sn_coords', [w |-> Fab, h |-> Fab], sn_window)
                       /\ sn_layout'.fab # None => sn_coords' = sn_layout'.fab
  <2>1. ASSUME Nav!Folded(l), sn_layout'.fab # None
        PROVE  sn_coords' = sn_layout'.fab
    BY <1>1, <1>2, <2>1 DEF Nav!FabCoords
  <2>2. ASSUME Nav!Folded(l), sn_layout'.fab = None, Nav!Folded(sn_layout)
        PROVE  sn_coords' \in Nav!Points /\ Nav!Inside(sn_coords', [w |-> Fab, h |-> Fab], sn_window)
    <3>1. sn_coords \in Nav!Points /\ Nav!Inside(sn_coords, [w |-> Fab, h |-> Fab], sn_window)
      BY <2>2 DEF BallInv, Nav!BallStays, NavTyped
    <3>2. sn_coords' \in {sn_coords, Nav!defaultExpandFabPosition(sn_layout'.position, sn_window)}
      BY <1>1, <1>2, <2>2 DEF Nav!FabCoords
    <3>3. QED
      BY <1>1, <3>1, <3>2, DefaultIs
  <2>3. ASSUME Nav!Folded(l), sn_layout'.fab = None, ~Nav!Folded(sn_layout)
        PROVE  sn_coords' \in Nav!Points /\ Nav!Inside(sn_coords', [w |-> Fab, h |-> Fab], sn_window)
    <3>1. sn_coords' = Nav!defaultExpandFabPosition(sn_layout'.position, sn_window)
      BY <1>1, <1>2, <2>3 DEF Nav!FabCoords
    <3>2. QED
      BY <1>1, <3>1, DefaultIs
  <2>4. QED
    BY <1>2, <2>1, <2>2, <2>3
<1>4. ~Nav!Folded(l) => sn_coords' = None
  BY <1>1, <1>2 DEF Nav!FabCoords
<1>5. sn_coords' # None <=> Nav!Folded(sn_layout')
  BY <1>2, <1>3, <1>4, Fits
<1>6. sn_hover' \in [open : BOOLEAN, closing : BOOLEAN] /\ Nav!MenuHasReason'
  <2>1. CASE Nav!Folded(l) /\ Nav!Folded(sn_layout)
    BY <1>1, <2>1 DEF Nav!Mounting, NavTyped, Nav!MenuHasReason
  <2>2. CASE ~(Nav!Folded(l) /\ Nav!Folded(sn_layout))
    BY <1>1, <2>2 DEF Nav!Mounting, Nav!MenuHasReason, Nav!Closed, Nav!Fresh
  <2>3. QED
    BY <2>1, <2>2
<1>7. NavTyped'
  BY <1>1, <1>2, <1>3, <1>4, <1>6 DEF NavTyped
<1>8. sn_pointer' = "ball" => sn_coords' # None
  BY <1>1, <1>2, <1>5 DEF Nav!Mounting
<1>9. BallInv'
  BY <1>2, <1>3, <1>4, <1>5, <1>8 DEF BallInv, Nav!BallStays
<1>10. QED
  BY <1>6, <1>7, <1>9

------------------------------------------------------------------------------
LEMMA SameCatalogs ==
  ASSUME CatalogInv, UNCHANGED <<sn_who, sn_expanded, sn_cached>>
  PROVE  CatalogInv'
  BY DEF CatalogInv

LEMMA SameBall ==
  ASSUME NavTyped, BallInv, UNCHANGED <<sn_window, sn_layout, sn_kept, sn_coords, sn_drag>>,
         sn_hover' \in [open : BOOLEAN, closing : BOOLEAN], sn_pointer' = "ball" => sn_coords # None
  PROVE  NavTyped' /\ BallInv'
<1>1. NavTyped'
  BY DEF NavTyped
<1>2. BallInv'
  BY DEF BallInv, Nav!BallStays, Nav!Folded, Nav!isSideNavPosition
<1>3. QED
  BY <1>1, <1>2

\* A page that is loaded has its ball where the device keeps it, in its window.
LEMMA LoadKeeps ==
  ASSUME NavInv, NEW win \in Windows, Nav!Load(win)
  PROVE  NavInv'
<1>1. /\ sn_window' = win /\ sn_layout' = Nav!normalizeNavLayout(sn_kept, win) /\ sn_kept' = sn_kept /\ sn_drag' = None
      /\ sn_hover' = (IF Nav!Folded(sn_kept) THEN Nav!Fresh ELSE Nav!Closed)
      /\ sn_coords' = (IF ~Nav!Folded(sn_kept) THEN None
                    ELSE IF sn_kept.fab = None THEN Nav!defaultExpandFabPosition(sn_kept.position, win) ELSE sn_layout'.fab)
      /\ sn_who' = sn_who /\ sn_expanded' = Nav!Unfolded(sn_path, sn_who) /\ sn_cached' = [who |-> sn_who, codes |-> Nav!Unfolded(sn_path, sn_who)]
  BY DEF Nav!Load, Nav!Unfold
<1>2. sn_kept \in Nav!Layouts /\ CatalogInv
  BY DEF NavInv, NavTyped
<1>3. /\ sn_layout' \in Nav!Layouts /\ Nav!Folded(sn_layout') = Nav!Folded(sn_kept)
      /\ sn_layout'.fab # None => sn_layout'.fab \in Nav!Points /\ Nav!Inside(sn_layout'.fab, [w |-> Fab, h |-> Fab], win)
      /\ sn_layout'.fab = None <=> sn_kept.fab = None
  BY <1>1, <1>2, NormalIs
<1>4. Nav!Folded(sn_kept) => /\ sn_coords' \in Nav!Points /\ Nav!Inside(sn_coords', [w |-> Fab, h |-> Fab], win)
                             /\ sn_layout'.fab # None => sn_coords' = sn_layout'.fab
  BY <1>1, <1>3, DefaultIs
<1>5. ~Nav!Folded(sn_kept) => sn_coords' = None
  BY <1>1
<1>6. sn_hover' \in [open : BOOLEAN, closing : BOOLEAN] /\ ~sn_hover'.open
  BY <1>1 DEF Nav!Fresh, Nav!Closed
<1>7. NavTyped'
  BY <1>1, <1>2, <1>3, <1>4, <1>5, <1>6 DEF NavTyped
<1>8. BallInv'
  <2>1. sn_pointer' = "away"
    BY DEF Nav!Load
  <2>2. QED
    BY <1>1, <1>3, <1>4, <1>5, <2>1, Fits DEF BallInv, Nav!BallStays
<1>9. CatalogInv'
  <2>1. \/ Nav!Unfolded(sn_path, sn_who) = {Nav!catalogForPath(sn_path, sn_who)} /\ Nav!catalogForPath(sn_path, sn_who) \in Nav!Elements(Trees[sn_who])
        \/ Nav!Unfolded(sn_path, sn_who) = sn_expanded
    BY <1>2 DEF Nav!Unfolded, Nav!catalogForPath, Nav!readDeviceNavExpanded, CatalogInv
  <2>2. QED
    BY <1>1, <1>2, <2>1 DEF CatalogInv
<1>10. QED
  BY <1>6, <1>7, <1>8, <1>9 DEF NavInv, Nav!MenuHasReason

\* What the ball's listener leaves is in the window as it is now.
LEMMA ResizeKeeps ==
  ASSUME NavInv, NEW win \in Windows, Nav!handleResize(win)
  PROVE  NavInv'
<1>1. PICK next : next = Nav!clampExpandFabPosition(sn_coords, win)
  OBVIOUS
<1>2. /\ sn_window' = win /\ UNCHANGED <<sn_drag, sn_hover, sn_pointer, sn_who, sn_expanded, sn_cached>>
      /\ IF sn_coords = None \/ next = sn_coords THEN UNCHANGED <<sn_layout, sn_kept, sn_coords>>
         ELSE /\ sn_coords' = next /\ sn_kept' = sn_layout'
              /\ sn_layout' = Nav!normalizeNavLayout([sn_layout EXCEPT !.fab = next], win)
  BY <1>1 DEF Nav!handleResize
<1>3. NavTyped /\ BallInv /\ Nav!MenuHasReason /\ CatalogInv
  BY DEF NavInv
<1>4. Nav!MenuHasReason' /\ CatalogInv'
  BY <1>2, <1>3, SameCatalogs DEF Nav!MenuHasReason
<1>5. CASE sn_coords = None
  <2>1. UNCHANGED <<sn_layout, sn_kept, sn_coords, sn_drag, sn_hover>>
    BY <1>2, <1>5
  <2>2. NavTyped'
    BY <1>2, <1>3, <2>1 DEF NavTyped
  <2>3. BallInv'
    BY <1>2, <1>3, <1>5, <2>1 DEF BallInv, Nav!BallStays, Nav!Folded, Nav!isSideNavPosition
  <2>4. QED
    BY <1>4, <2>2, <2>3 DEF NavInv
<1>6. CASE sn_coords # None
  <2>1. sn_coords \in Nav!Points
    BY <1>3, <1>6 DEF NavTyped
  <2>2. next \in Nav!Points /\ Nav!Inside(next, [w |-> Fab, h |-> Fab], win)
    BY <1>1, <2>1, ClampIs
  <2>3. CASE next = sn_coords
    <3>1. UNCHANGED <<sn_layout, sn_kept, sn_coords, sn_drag, sn_hover>>
      BY <1>2, <2>3
    <3>2. NavTyped'
      BY <1>2, <1>3, <3>1 DEF NavTyped
    <3>3. sn_coords' # None <=> Nav!Folded(sn_layout')
      BY <1>3, <3>1 DEF BallInv, Nav!Folded, Nav!isSideNavPosition
    <3>4. BallInv'
      BY <1>2, <1>3, <2>2, <2>3, <3>1, <3>3 DEF BallInv, Nav!BallStays
    <3>5. QED
      BY <1>4, <3>2, <3>4 DEF NavInv
  <2>4. CASE next # sn_coords
    <3>1. PICK l : l = [sn_layout EXCEPT !.fab = next]
      OBVIOUS
    <3>2. l \in Nav!Layouts /\ Nav!Folded(l) = Nav!Folded(sn_layout) /\ l.fab = next
      BY <1>3, <2>2, <3>1 DEF NavTyped, Nav!Layouts, Nav!Folded
    <3>3. sn_layout' = Nav!normalizeNavLayout(l, win) /\ sn_kept' = sn_layout' /\ sn_coords' = next
      BY <1>2, <1>6, <2>4, <3>1
    <3>4. sn_layout' \in Nav!Layouts /\ Nav!Folded(sn_layout') = Nav!Folded(sn_layout) /\ sn_layout'.fab = next
      <4>1. next # None
        BY <2>2, Fits
      <4>2. QED
        BY <2>2, <3>2, <3>3, <4>1, NormalIs, ClampIs
    <3>5. NavTyped'
      BY <1>2, <1>3, <2>2, <3>3, <3>4 DEF NavTyped
    <3>6. BallInv'
      BY <1>2, <1>3, <1>6, <2>2, <3>3, <3>4, Fits DEF BallInv, Nav!BallStays
    <3>7. QED
      BY <1>4, <3>5, <3>6 DEF NavInv
  <2>5. QED
    BY <2>3, <2>4
<1>7. QED
  BY <1>5, <1>6

\* Folding, moving and widening the menu apply a layout; so does the end of a press.
LEMMA AppliesKeep ==
  ASSUME NavInv, \/ Nav!Fold
                 \/ \E p \in {"left", "right", "top", "bottom"} : Nav!setPosition(p)
                 \/ \E d \in {MinWidth, -MinWidth} : Nav!setWidth(d)
                 \/ Nav!handlePointerUp \/ Nav!handlePointerCancel
  PROVE  NavInv'
<1>1. NavTyped /\ BallInv /\ Nav!MenuHasReason /\ CatalogInv /\ sn_layout \in Nav!Layouts /\ sn_window \in Windows
  BY DEF NavInv, NavTyped
<1>2. ASSUME NEW l \in Nav!Layouts, Nav!applyLayout(l), sn_drag' \in {sn_drag, None}, sn_drag' # None => Nav!Folded(l), Nav!Elsewhere
      PROVE  NavInv'
  <2>1. sn_window' = sn_window /\ UNCHANGED <<sn_who, sn_expanded, sn_cached>>
    BY <1>2 DEF Nav!Elsewhere
  <2>2. QED
    BY <1>1, <1>2, <2>1, ApplyIs, SameCatalogs DEF NavInv
<1>3. PICK toggled : toggled = [sn_layout EXCEPT !.collapsed = ~@]
  OBVIOUS
<1>4. toggled \in Nav!Layouts
  BY <1>1, <1>3 DEF Nav!Layouts
<1>5. CASE Nav!Fold
  <2>1. sn_drag = None
    BY <1>1, <1>5 DEF Nav!Fold, BallInv, Nav!Folded
  <2>2. Nav!applyLayout(toggled) /\ sn_drag' = sn_drag /\ Nav!Elsewhere
    BY <1>3, <1>5 DEF Nav!Fold, Nav!toggleCollapsed
  <2>3. QED
    BY <1>2, <1>4, <2>1, <2>2
<1>6. ASSUME NEW p \in {"left", "right", "top", "bottom"}, Nav!setPosition(p) PROVE NavInv'
  <2>1. PICK l : l = [sn_layout EXCEPT !.position = p]
    OBVIOUS
  <2>2. l \in Nav!Layouts
    BY <1>1, <2>1 DEF Nav!Layouts
  <2>3. Nav!applyLayout(l) /\ sn_drag = None /\ sn_drag' = sn_drag /\ Nav!Elsewhere
    BY <1>6, <2>1 DEF Nav!setPosition
  <2>4. QED
    BY <1>2, <2>2, <2>3
<1>7. ASSUME NEW d \in {MinWidth, -MinWidth}, Nav!setWidth(d) PROVE NavInv'
  <2>1. PICK l : l = [sn_layout EXCEPT !.width = IF sn_layout.position = "left" THEN @ + d ELSE @ - d]
    OBVIOUS
  <2>2. sn_layout.width + d \in Int /\ sn_layout.width - d \in Int
    BY <1>1, Fits DEF Nav!Layouts
  <2>3. l \in Nav!Layouts
    BY <1>1, <2>1, <2>2 DEF Nav!Layouts
  <2>4. sn_drag = None
    BY <1>1, <1>7 DEF Nav!setWidth, BallInv, Nav!Folded
  <2>5. Nav!applyLayout(l) /\ sn_drag' = sn_drag /\ Nav!Elsewhere
    BY <1>7, <2>1 DEF Nav!setWidth
  <2>6. QED
    BY <1>2, <2>3, <2>4, <2>5
<1>8. ASSUME NEW next \in Nav!Points, sn_drag # None, Nav!finishDrag(next), Nav!Elsewhere PROVE NavInv'
  <2>1. sn_drag' = None
    BY <1>8 DEF Nav!finishDrag
  <2>2. CASE sn_drag.moved
    <3>1. PICK l : l = [sn_layout EXCEPT !.fab = next]
      OBVIOUS
    <3>2. l \in Nav!Layouts /\ Nav!applyLayout(l)
      BY <1>1, <1>8, <2>2, <3>1 DEF Nav!Layouts, Nav!finishDrag
    <3>3. QED
      BY <1>2, <1>8, <2>1, <3>2
  <2>3. CASE ~sn_drag.moved
    <3>1. Nav!applyLayout(toggled)
      BY <1>3, <1>8, <2>3 DEF Nav!finishDrag, Nav!toggleCollapsed
    <3>2. QED
      BY <1>2, <1>4, <1>8, <2>1, <3>1
  <2>4. QED
    BY <2>2, <2>3
<1>9. CASE Nav!handlePointerUp
  <2>1. sn_drag \in Nav!DragValues /\ sn_drag # None
    BY <1>1, <1>9 DEF Nav!handlePointerUp, NavTyped
  <2>2. Nav!Dragged(sn_drag.by) \in Nav!Points
    <3>1. PICK at : at = [x |-> sn_drag.origin.x + sn_drag.by.x, y |-> sn_drag.origin.y + sn_drag.by.y]
      OBVIOUS
    <3>2. at \in Nav!Points
      BY <2>1, <3>1 DEF Nav!DragValues, Nav!Points
    <3>3. QED
      BY <1>1, <3>1, <3>2, ClampIs DEF Nav!Dragged
  <2>3. Nav!finishDrag(Nav!Dragged(sn_drag.by)) /\ Nav!Elsewhere
    BY <1>9 DEF Nav!handlePointerUp
  <2>4. QED
    BY <1>8, <2>1, <2>2, <2>3
<1>10. CASE Nav!handlePointerCancel
  <2>1. sn_drag # None /\ Nav!finishDrag(sn_coords) /\ Nav!Elsewhere
    BY <1>10 DEF Nav!handlePointerCancel
  <2>2. sn_coords \in Nav!Points
    BY <1>1, <2>1 DEF BallInv, NavTyped
  <2>3. QED
    BY <1>8, <2>1, <2>2
<1>11. QED
  BY <1>5, <1>6, <1>7, <1>9, <1>10

\* A press leaves the ball where it is, a move of it in the window.
LEMMA DragKeeps ==
  ASSUME NavInv, Nav!handlePointerDown \/ \E d \in DragMoves : Nav!handlePointerMove(d)
  PROVE  NavInv'
<1>1. NavTyped /\ BallInv /\ Nav!MenuHasReason /\ CatalogInv /\ sn_window \in Windows
  BY DEF NavInv, NavTyped
<1>2. CASE Nav!handlePointerDown
  <2>1. /\ sn_pointer = "ball" /\ sn_drag = None
        /\ sn_drag' = [origin |-> sn_coords, by |-> [x |-> 0, y |-> 0], moved |-> FALSE]
        /\ UNCHANGED <<sn_window, sn_layout, sn_kept, sn_coords, sn_hover, sn_pointer, sn_who, sn_expanded, sn_cached>>
    BY <1>2 DEF Nav!handlePointerDown
  <2>2. sn_coords \in Nav!Points
    BY <1>1, <2>1 DEF NavTyped, BallInv
  <2>3. sn_drag' \in Nav!DragValues /\ sn_drag' # None
    <3>1. sn_drag' \in Nav!DragValues
      BY <2>1, <2>2 DEF Nav!DragValues, Nav!Points
    <3>2. QED
      BY <3>1, Fits
  <2>4. NavTyped'
    BY <1>1, <2>1, <2>3 DEF NavTyped
  <2>5. sn_coords' # None <=> Nav!Folded(sn_layout')
    BY <1>1, <2>1 DEF BallInv, Nav!Folded, Nav!isSideNavPosition
  <2>6. BallInv'
    BY <1>1, <2>1, <2>3, <2>5 DEF BallInv, Nav!BallStays
  <2>7. QED
    BY <1>1, <2>1, <2>4, <2>6, SameCatalogs DEF NavInv, Nav!MenuHasReason
<1>3. ASSUME NEW d \in DragMoves, Nav!handlePointerMove(d) PROVE NavInv'
  <2>1. /\ sn_drag # None /\ sn_coords' = Nav!Dragged(d)
        /\ UNCHANGED <<sn_window, sn_layout, sn_kept, sn_hover, sn_pointer, sn_who, sn_expanded, sn_cached>>
    BY <1>3 DEF Nav!handlePointerMove, Nav!Elsewhere
  <2>2. sn_drag \in Nav!DragValues /\ d \in Nav!Points
    BY <1>1, <2>1, Fits DEF NavTyped
  <2>3. sn_drag' \in Nav!DragValues
    <3>1. PICK moved : moved = (sn_drag.moved \/ Nav!Abs(d.x) > Threshold \/ Nav!Abs(d.y) > Threshold)
      OBVIOUS
    <3>2. moved \in BOOLEAN
      BY <3>1
    <3>3. sn_drag' = [sn_drag EXCEPT !.by = d, !.moved = moved]
      BY <1>3, <3>1 DEF Nav!handlePointerMove
    <3>4. QED
      BY <2>2, <3>2, <3>3 DEF Nav!DragValues
  <2>4. sn_coords' \in Nav!Points /\ Nav!Inside(sn_coords', [w |-> Fab, h |-> Fab], sn_window)
    <3>1. PICK at : at = [x |-> sn_drag.origin.x + d.x, y |-> sn_drag.origin.y + d.y]
      OBVIOUS
    <3>2. at \in Nav!Points
      BY <2>2, <3>1 DEF Nav!DragValues, Nav!Points
    <3>3. QED
      BY <1>1, <2>1, <3>1, <3>2, ClampIs DEF Nav!Dragged
  <2>5. sn_drag' # None /\ sn_coords' # None
    BY <2>3, <2>4, Fits
  <2>6. NavTyped'
    BY <1>1, <2>1, <2>3, <2>4 DEF NavTyped
  <2>7. Nav!Folded(sn_layout')
    BY <1>1, <2>1 DEF BallInv, Nav!Folded, Nav!isSideNavPosition
  <2>8. BallInv'
    BY <2>1, <2>4, <2>5, <2>7 DEF BallInv, Nav!BallStays
  <2>9. QED
    BY <1>1, <2>1, <2>6, <2>8, SameCatalogs DEF NavInv, Nav!MenuHasReason
<1>4. QED
  BY <1>2, <1>3

\* The menu of the ball opens under the pointer and closes behind it.
LEMMA HoverKeeps ==
  ASSUME NavInv, (\E over \in {"ball", "menu"} : Nav!openNow(over)) \/ Nav!scheduleClose \/ Nav!Close
                 \/ \E c \in Nav!Elements(Trees[sn_who]) : Nav!onHover(c)
  PROVE  NavInv'
<1>1. NavTyped /\ BallInv /\ Nav!MenuHasReason /\ CatalogInv
  BY DEF NavInv
<1>2. ASSUME UNCHANGED <<sn_window, sn_layout, sn_kept, sn_coords, sn_drag>>, UNCHANGED <<sn_who, sn_expanded, sn_cached>>,
             sn_hover' \in [open : BOOLEAN, closing : BOOLEAN], sn_pointer' = "ball" => sn_coords # None, Nav!MenuHasReason'
      PROVE  NavInv'
  BY <1>1, <1>2, SameBall, SameCatalogs DEF NavInv
<1>3. ASSUME NEW over \in {"ball", "menu"}, Nav!openNow(over) PROVE NavInv'
  <2>1. /\ sn_pointer' = over /\ sn_hover' = [open |-> TRUE, closing |-> FALSE]
        /\ over = "ball" => sn_coords # None
        /\ UNCHANGED <<sn_window, sn_layout, sn_kept, sn_coords, sn_drag>> /\ UNCHANGED <<sn_who, sn_expanded, sn_cached>>
    BY <1>3 DEF Nav!openNow
  <2>2. Nav!MenuHasReason'
    BY <2>1 DEF Nav!MenuHasReason
  <2>3. QED
    BY <1>2, <2>1, <2>2
<1>4. CASE Nav!scheduleClose
  <2>1. /\ sn_pointer' = "away" /\ sn_hover' = [sn_hover EXCEPT !.closing = TRUE]
        /\ UNCHANGED <<sn_window, sn_layout, sn_kept, sn_coords, sn_drag>> /\ UNCHANGED <<sn_who, sn_expanded, sn_cached>>
    BY <1>4 DEF Nav!scheduleClose, Nav!Elsewhere
  <2>2. sn_hover' \in [open : BOOLEAN, closing : BOOLEAN] /\ sn_hover'.closing
    BY <1>1, <2>1 DEF NavTyped
  <2>3. QED
    BY <1>2, <2>1, <2>2 DEF Nav!MenuHasReason
<1>5. CASE Nav!Close
  <2>1. /\ sn_pointer' = (IF sn_pointer = "menu" THEN "away" ELSE sn_pointer) /\ sn_hover' = Nav!Closed
        /\ UNCHANGED <<sn_window, sn_layout, sn_kept, sn_coords, sn_drag>> /\ UNCHANGED <<sn_who, sn_expanded, sn_cached>>
    BY <1>5 DEF Nav!Close, Nav!Elsewhere
  <2>2. sn_hover' \in [open : BOOLEAN, closing : BOOLEAN] /\ ~sn_hover'.open
    BY <2>1 DEF Nav!Closed
  <2>3. sn_pointer' = "ball" => sn_coords # None
    BY <1>1, <2>1 DEF BallInv
  <2>4. QED
    BY <1>2, <2>1, <2>2, <2>3 DEF Nav!MenuHasReason
<1>6. ASSUME NEW c, Nav!onHover(c) PROVE NavInv'
  <2>1. UNCHANGED <<sn_window, sn_layout, sn_kept, sn_coords, sn_drag>> /\ UNCHANGED <<sn_who, sn_expanded, sn_cached>>
        /\ sn_hover' = sn_hover /\ sn_pointer' = sn_pointer
    BY <1>6 DEF Nav!onHover
  <2>2. QED
    BY <1>1, <1>2, <2>1 DEF NavTyped, BallInv, Nav!MenuHasReason
<1>7. QED
  BY <1>3, <1>4, <1>5, <1>6

\* At most one catalog is unfolded, of the user's own.
LEMMA CatalogsKeep ==
  ASSUME NavInv, \/ \E c \in Nav!Elements(Trees[sn_who]) : Nav!toggleCatalog(c)
                 \/ \E p : Nav!Navigate(p)
                 \/ \E w \in Whos : Nav!Switch(w)
  PROVE  NavInv'
<1>1. NavTyped /\ BallInv /\ Nav!MenuHasReason /\ CatalogInv
  BY DEF NavInv
<1>2. ASSUME NEW c \in Nav!Elements(Trees[sn_who]), Nav!toggleCatalog(c) PROVE NavInv'
  <2>1. /\ UNCHANGED <<sn_window, sn_layout, sn_kept, sn_coords, sn_drag>> /\ sn_hover' = sn_hover /\ sn_pointer' = sn_pointer /\ sn_who' = sn_who
        /\ sn_expanded' = (IF c \in sn_expanded THEN sn_expanded \ {c} ELSE {c})
        /\ sn_cached' = [who |-> sn_who, codes |-> sn_expanded']
    BY <1>2 DEF Nav!toggleCatalog, Nav!Unfold
  <2>2. CatalogInv'
    BY <1>1, <2>1 DEF CatalogInv
  <2>3. NavTyped' /\ BallInv'
    BY <1>1, <2>1, SameBall DEF NavTyped, BallInv
  <2>4. QED
    BY <1>1, <2>1, <2>2, <2>3 DEF NavInv, Nav!MenuHasReason
<1>3. ASSUME NEW p, NEW w \in Whos, Nav!Turn(p, w) PROVE NavInv'
  <2>1. /\ UNCHANGED <<sn_window, sn_layout, sn_kept, sn_coords, sn_drag>> /\ sn_pointer' = sn_pointer /\ sn_who' = w
        /\ sn_hover' = (IF sn_coords # None /\ p # sn_path THEN [sn_hover EXCEPT !.closing = TRUE] ELSE sn_hover)
        /\ sn_expanded' = (IF w # sn_who THEN Nav!Unfolded(p, w)
                        ELSE IF Nav!catalogForPath(p, w) \in {None, Nav!catalogForPath(sn_path, sn_who)} THEN sn_expanded
                        ELSE {Nav!catalogForPath(p, w)})
        /\ sn_cached' = [who |-> w, codes |-> sn_expanded']
    BY <1>3 DEF Nav!Turn, Nav!Unfold
  <2>2. sn_hover' \in [open : BOOLEAN, closing : BOOLEAN] /\ Nav!MenuHasReason'
    BY <1>1, <2>1 DEF NavTyped, Nav!MenuHasReason
  <2>3. NavTyped' /\ BallInv'
    BY <1>1, <2>1, <2>2, SameBall DEF BallInv
  <2>4. Nav!catalogForPath(p, w) # None => Nav!catalogForPath(p, w) \in Nav!Elements(Trees[w])
    BY DEF Nav!catalogForPath
  <2>5. sn_expanded' \subseteq Nav!Elements(Trees[w]) /\ \A c, d \in sn_expanded' : c = d
    <3>1. CASE w # sn_who
      <4>1. Nav!readDeviceNavExpanded(w) = {}
        BY <1>1, <3>1 DEF Nav!readDeviceNavExpanded, CatalogInv
      <4>2. QED
        BY <2>1, <2>4, <3>1, <4>1 DEF Nav!Unfolded
    <3>2. CASE w = sn_who
      BY <1>1, <2>1, <2>4, <3>2 DEF CatalogInv
    <3>3. QED
      BY <3>1, <3>2
  <2>6. CatalogInv'
    BY <2>1, <2>5 DEF CatalogInv
  <2>7. QED
    BY <2>2, <2>3, <2>6 DEF NavInv
<1>4. sn_who \in Whos
  BY <1>1 DEF CatalogInv
<1>5. QED
  BY <1>2, <1>3, <1>4 DEF Nav!Navigate, Nav!Switch

------------------------------------------------------------------------------
LEMMA NavInitInv ==
  ASSUME Nav!Init
  PROVE  NavInv
<1>1. PICK side \in {"left", "right"} :
        sn_kept = [position |-> side, width |-> MinWidth, collapsed |-> FALSE, fab |-> None]
  BY DEF Nav!Init
<1>2. sn_kept \in Nav!Layouts /\ ~Nav!Folded(sn_kept) /\ sn_layout = sn_kept
  BY <1>1, Fits DEF Nav!Layouts, Nav!Folded, Nav!Init
<1>3. NavTyped
  BY <1>2 DEF Nav!Init, NavTyped, Nav!Closed
<1>4. BallInv
  BY <1>2 DEF Nav!Init, BallInv, Nav!BallStays
<1>5. Nav!MenuHasReason
  BY DEF Nav!Init, Nav!MenuHasReason, Nav!Closed
<1>6. CatalogInv
  <2>1. sn_who \in Whos /\ sn_path \in {None} \cup Nav!Elements(Trees[sn_who])
    BY DEF Nav!Init
  <2>2. QED
    BY <2>1 DEF Nav!Init, CatalogInv
<1>7. QED
  BY <1>3, <1>4, <1>5, <1>6 DEF NavInv

LEMMA NavStep ==
  ASSUME NavInv, [Nav!Next]_vars_sn
  PROVE  NavInv'
<1>1. CASE UNCHANGED vars_sn
  <2>1. UNCHANGED <<sn_window, sn_layout, sn_kept, sn_coords, sn_drag>> /\ UNCHANGED <<sn_who, sn_expanded, sn_cached>>
        /\ sn_hover' = sn_hover /\ sn_pointer' = sn_pointer
    BY <1>1 DEF vars_sn
  <2>2. NavTyped' /\ BallInv'
    BY <2>1, SameBall DEF NavInv, NavTyped, BallInv
  <2>3. QED
    BY <2>1, <2>2, SameCatalogs DEF NavInv, Nav!MenuHasReason
<1>2. CASE Nav!Next
  BY <1>2, LoadKeeps, ResizeKeeps, AppliesKeep, DragKeeps, HoverKeeps, CatalogsKeep DEF Nav!Next
<1>3. QED
  BY <1>1, <1>2

\* The menu is placed beside the ball by arithmetic alone: a side is taken only if it
\* has room, or if neither has.
LEMMA PlacementIs ==
  ASSUME NEW at \in Nav!Points, NEW menu \in BallMenus, NEW side, NEW win \in Windows,
         Nav!Inside(at, [w |-> Fab, h |-> Fab], win)
  PROVE  LET place == Nav!computeSideNavHoverMenuPlacement(at, menu, side, win)
             size == [w |-> menu.w, h |-> Nav!Lesser(menu.h, MaxHeight)]
             free == Nav!Greater(at.x, win.w - at.x - Fab) >= menu.w + Gap + Pad
         IN  /\ size.w + 2 * Pad <= win.w /\ size.h + Pad <= win.h =>
                  Nav!Inside([x |-> place.left, y |-> place.top], size, win)
             /\ free => place.left >= at.x + Fab \/ place.left + menu.w <= at.x
<1>1. /\ win.w \in Int /\ win.h \in Int /\ Fab \in Nat /\ Gap \in Nat /\ Pad \in Nat /\ MaxHeight \in Nat
      /\ Pad <= Fab + Gap /\ menu.w \in Int /\ menu.h \in Int /\ menu.w >= 0 /\ menu.h >= 0
      /\ at.x \in Int /\ at.y \in Int
  BY Fits DEF Nav!Sizes, Nav!Points
<1>2. /\ at.x >= 0 /\ at.x + Fab <= win.w /\ at.y >= 0 /\ at.y + Fab <= win.h
  BY DEF Nav!Inside
<1>3. PICK height \in Int : height = Nav!Lesser(menu.h, MaxHeight)
  BY <1>1 DEF Nav!Lesser
<1>4. height >= 0
  BY <1>1, <1>3 DEF Nav!Lesser
<1>5. PICK after \in Int : after = at.x + Fab + Gap
  BY <1>1
<1>6. PICK before \in Int : before = at.x - Gap - menu.w
  BY <1>1
<1>7. PICK preferred \in Int, alternate \in Int :
        /\ preferred = IF side = "left" THEN after ELSE before
        /\ alternate = IF side = "left" THEN before ELSE after
  OBVIOUS
<1> DEFINE fitsAt(left) == left >= Pad /\ left + menu.w <= win.w - Pad
<1>8. PICK left \in Int : left = IF ~fitsAt(preferred) /\ fitsAt(alternate) THEN alternate ELSE preferred
  BY <1>7
<1>9. PICK placed \in Int : placed = Nav!Lesser(Nav!Greater(left, Pad), Nav!Greater(Pad, win.w - Pad - menu.w))
  BY <1>1, <1>8 DEF Nav!Lesser, Nav!Greater
<1>10. PICK above \in Int : above = at.y + Fab - height
  BY <1>1
<1>11. PICK top \in Int : top = IF at.y + height <= win.h - Pad THEN at.y ELSE IF above >= Pad THEN above ELSE Pad
  BY <1>1, <1>10
<1>12. Nav!computeSideNavHoverMenuPlacement(at, menu, side, win) = [left |-> placed, top |-> top]
  BY <1>3, <1>5, <1>6, <1>7, <1>8, <1>9, <1>10, <1>11 DEF Nav!computeSideNavHoverMenuPlacement
<1>13. menu.w + 2 * Pad <= win.w => placed >= 0 /\ placed + menu.w <= win.w
  BY <1>1, <1>8, <1>9 DEF Nav!Lesser, Nav!Greater
<1>14. height + Pad <= win.h => top >= 0 /\ top + height <= win.h
  BY <1>1, <1>2, <1>4, <1>10, <1>11
<1>15. Nav!Greater(at.x, win.w - at.x - Fab) >= menu.w + Gap + Pad
          => placed >= at.x + Fab \/ placed + menu.w <= at.x
  <2>1. SUFFICES ASSUME Nav!Greater(at.x, win.w - at.x - Fab) >= menu.w + Gap + Pad
                 PROVE  placed >= at.x + Fab \/ placed + menu.w <= at.x
    OBVIOUS
  <2>2. at.x >= menu.w + Gap + Pad \/ win.w - at.x - Fab >= menu.w + Gap + Pad
    BY <1>1, <2>1 DEF Nav!Greater
  <2>3. fitsAt(before) \/ fitsAt(after)
    BY <1>1, <1>2, <1>5, <1>6, <2>2
  <2>4. fitsAt(left) /\ left \in {before, after}
    BY <1>7, <1>8, <2>3
  <2>5. placed = left
    BY <1>1, <1>8, <1>9, <2>4 DEF Nav!Lesser, Nav!Greater
  <2>6. QED
    BY <1>1, <1>5, <1>6, <2>4, <2>5
<1>16. QED
  BY <1>3, <1>12, <1>13, <1>14, <1>15 DEF Nav!Inside

LEMMA NavInvAgrees ==
  ASSUME NavInv
  PROVE  Nav!NavAgrees
<1>1. NavTyped /\ BallInv /\ Nav!MenuHasReason /\ CatalogInv
  BY DEF NavInv
<1>2. Nav!BallStays
  BY <1>1 DEF BallInv
<1>3. Nav!MenuIsBeside
  <2>1. SUFFICES ASSUME sn_coords # None, NEW menu \in BallMenus
                 PROVE  LET at == Nav!computeSideNavHoverMenuPlacement(sn_coords, menu, sn_layout.position, sn_window)
                            size == [w |-> menu.w, h |-> Nav!Lesser(menu.h, MaxHeight)]
                            free == Nav!Greater(sn_coords.x, sn_window.w - sn_coords.x - Fab) >= menu.w + Gap + Pad
                        IN  /\ size.w + 2 * Pad <= sn_window.w /\ size.h + Pad <= sn_window.h =>
                                 Nav!Inside([x |-> at.left, y |-> at.top], size, sn_window)
                            /\ free => at.left >= sn_coords.x + Fab \/ at.left + menu.w <= sn_coords.x
    BY DEF Nav!MenuIsBeside
  <2>2. sn_coords \in Nav!Points /\ sn_window \in Windows /\ Nav!Inside(sn_coords, [w |-> Fab, h |-> Fab], sn_window)
    BY <1>1, <1>2, <2>1 DEF NavTyped, Nav!BallStays
  <2>3. QED
    BY <2>2, PlacementIs
<1>4. Nav!CatalogsAreKept
  BY <1>1 DEF Nav!CatalogsAreKept, CatalogInv, Nav!isOpen
<1>5. QED
  BY <1>1, <1>2, <1>3, <1>4 DEF Nav!NavAgrees

------------------------------------------------------------------------------
(* RegionPicker.                                                              *)

\* The numbers of T up to each of its own are a set of sets, the least of which
\* belongs to the least number.
LEMMA LeastIs ==
  ASSUME NEW T, T \subseteq Nat, T # {}
  PROVE  Region!Min(T) \in T
<1>1. PICK m \in T : m \in Nat
  OBVIOUS
<1> DEFINE U == 0..m
           UpTo(k) == {y \in T : y <= k}
           C == {UpTo(k) : k \in {j \in T : j <= m}}
<1>2. IsFiniteSet(U)
  BY <1>1, FS_Interval
<1>3. C \subseteq FiniteSubsetsOf(U) /\ C # {}
  <2>1. ASSUME NEW k \in T, k <= m PROVE UpTo(k) \in SUBSET U
    <3>1. \A y \in T : y \in Nat /\ (y <= k => y <= m)
      BY <1>1, <2>1
    <3>2. \A y \in T : y <= k => y \in U
      BY <1>1, <3>1
    <3>3. QED
      BY <3>2, Zenon
  <2>2. \A V \in SUBSET U : IsFiniteSet(V)
    BY <1>2, FS_Subset
  <2>3. UpTo(m) \in C
    BY <1>1
  <2>4. C \subseteq SUBSET U
    BY <2>1
  <2>5. QED
    BY <2>2, <2>3, <2>4 DEF FiniteSubsetsOf
<1>4. PICK V \in C : \A W \in C : <<W, V>> \notin StrictSubsetOrdering(U)
  <2> HIDE DEF C, U
  <2>1. IsWellFoundedOn(StrictSubsetOrdering(U), FiniteSubsetsOf(U))
    BY FS_StrictSubsetOrderingWellFounded
  <2>2. QED
    BY <1>3, <2>1, WFMin
<1>5. PICK x \in T : x <= m /\ V = UpTo(x)
  BY <1>4
<1>6. ASSUME NEW y \in T, ~ (x <= y)
      PROVE  FALSE
  <2>1. y < x /\ y <= m /\ x \in Nat /\ y \in Nat
    BY <1>1, <1>5, <1>6
  <2>2. UpTo(y) \in C
    BY <2>1
  <2>3. UpTo(y) \subseteq V /\ x \in V /\ x \notin UpTo(y)
    <3>1. \A z \in T : z <= y => z <= x
      BY <2>1
    <3>2. ~ (x <= y) /\ x <= x
      BY <2>1
    <3>3. QED
      BY <1>5, <3>1, <3>2, Zenon
  <2>4. UpTo(y) \in SUBSET U /\ V \in SUBSET U
    BY <1>3, <2>2 DEF FiniteSubsetsOf
  <2>5. <<UpTo(y), V>> \in StrictSubsetOrdering(U)
    <3>1. PICK W : W = UpTo(y)
      OBVIOUS
    <3>2. W \in SUBSET U /\ V \in SUBSET U /\ W \subseteq V /\ W # V
      BY <2>3, <2>4, <3>1
    <3> HIDE DEF U, UpTo, C
    <3>3. <<W, V>> \in StrictSubsetOrdering(U)
      BY <3>2 DEF StrictSubsetOrdering
    <3>4. QED
      BY <3>1, <3>3
  <2>6. QED
    BY <1>4, <2>2, <2>5
<1>7. QED
  BY <1>6 DEF Region!Min

\* What can be picked: a district, a city, a province.
Picked ==
  {Region!Selection(d) : d \in Region!All}
  \cup {[Region!Blank EXCEPT !.province = d[1], !.city = d[2]] : d \in Region!All}
  \cup {[Region!Blank EXCEPT !.province = d[1]] : d \in Region!All}

(* The field is empty, picked, or as an edited row has it. *)
RegionInv ==
  /\ rg_value = Region!Blank \/ rg_value \in Picked \/ (rg_form # "register" /\ rg_value \in Given)
  /\ rg_locating.at > 0 => rg_form = "register" /\ rg_ready = "data"
  /\ rg_sent = Region!Blank \/ (rg_sent.region \in Region!All /\ rg_sent = Region!Selection(rg_sent.region))

\* A name that is there is found, and only what has it; whatever is found was there.
LEMMA ChildIs ==
  ASSUME NEW paths \in SUBSET DOMAIN Districts, NEW level, NEW name
  PROVE  /\ Region!findChildByName(paths, level, name) \subseteq paths
         /\ (\E i \in paths : Districts[i][level] = name) /\ name # None =>
              Region!findChildByName(paths, level, name) = {i \in paths : Districts[i][level] = name}
         /\ name = None => Region!findChildByName(paths, level, name) = {}
<1> DEFINE same == {i \in paths : Districts[i][level] = name}
<1>1. Region!findChildByName(paths, level, name) \subseteq paths
  BY DEF Region!findChildByName
<1>2. ASSUME same # {}, name # None
      PROVE  Region!findChildByName(paths, level, name) = same
  <2>1. same \subseteq Nat
    BY RegionConstantsFit DEF Region!ConstantsFit
  <2>2. PICK least \in same : least = Region!Min(same)
    BY <1>2, <2>1, LeastIs
  <2>3. Districts[least][level] = name
    BY <2>2
  <2>4. Region!findChildByName(paths, level, name) = {i \in paths : Districts[i][level] = Districts[Region!Min(same)][level]}
    BY <1>2 DEF Region!findChildByName
  <2>5. QED
    BY <2>2, <2>3, <2>4
<1>3. name = None => Region!findChildByName(paths, level, name) = {}
  BY DEF Region!findChildByName
<1>4. QED
  BY <1>1, <1>2, <1>3

\* The names of a district lead to it, or to nothing.
LEMMA NamesLead ==
  ASSUME NEW p, NEW c, NEW d
  PROVE  Region!findSelectionByAdminNames(p, c, d) \subseteq Region!All
<1> DEFINE province == Region!findChildByName(DOMAIN Districts, 1, p)
           named == Region!findChildByName(province, 2, c)
           label == Districts[Region!Min(province)][1]
           capital == Region!findChildByName(province, 2, label)
           city == CASE named # {} -> named
                     [] named = {} /\ Region!adminNamesMatch(label, c) -> IF capital # {} THEN capital ELSE Region!FirstOf(province, 2)
                     [] OTHER -> IF Region!FirstOf(province, 2) = province THEN province ELSE {}
           district == Region!findChildByName(city, 3, d)
<1>1. province \subseteq DOMAIN Districts
  BY ChildIs
<1>2. named \subseteq province /\ capital \subseteq province /\ Region!FirstOf(province, 2) \subseteq province
  <2> HIDE DEF province
  <2>1. Region!FirstOf(province, 2) \subseteq province
    BY DEF Region!FirstOf
  <2>2. QED
    BY <1>1, <2>1, ChildIs
<1>3. city \subseteq province
  <2> HIDE DEF province, named, capital
  <2>1. CASE named # {}
    BY <1>2, <2>1
  <2>2. CASE named = {} /\ Region!adminNamesMatch(label, c)
    BY <1>2, <2>2
  <2>3. CASE named = {} /\ ~Region!adminNamesMatch(label, c)
    BY <2>3
  <2>4. QED
    BY <2>1, <2>2, <2>3
<1>4. district \subseteq DOMAIN Districts
  <2> HIDE DEF city, province
  <2>1. city \in SUBSET DOMAIN Districts
    BY <1>1, <1>3
  <2>2. QED
    BY <2>1, ChildIs
<1>5. district # {} => Districts[Region!Min(district)] \in Region!All
  <2> HIDE DEF district
  <2>1. district \subseteq Nat
    BY <1>4, RegionConstantsFit DEF Region!ConstantsFit
  <2>2. QED
    BY <1>4, <2>1, LeastIs DEF Region!All
<1>6. Region!findSelectionByAdminNames(p, c, d) =
        IF province = {} \/ city = {} \/ district = {} THEN {} ELSE {Districts[Region!Min(district)]}
  BY DEF Region!findSelectionByAdminNames
<1>7. QED
  <2> HIDE DEF district, city, province
  <2>1. QED
    BY <1>5, <1>6

LEMMA AnswersLead ==
  ASSUME NEW n, NEW a
  PROVE  Region!Detected(n, a) \subseteq Region!All
<1>1. ASSUME NEW names PROVE Region!matchRegionOrThrow(names) \subseteq Region!All
  BY NamesLead DEF Region!matchRegionOrThrow
<1>2. Region!detectByNetartIp(a) \subseteq Region!All /\ Region!detectByUapisIp(a) \subseteq Region!All
  BY <1>1 DEF Region!detectByNetartIp, Region!detectByUapisIp
<1>3. Region!detectByIpWho(a) \subseteq Region!All /\ Region!detectByBigDataCloudIp(a) \subseteq Region!All /\ Region!detectByBrowser(a) \subseteq Region!All
  BY <1>1 DEF Region!detectByIpWho, Region!detectByBigDataCloudIp, Region!detectByBrowser
<1>4. QED
  BY <1>2, <1>3 DEF Region!Detected

LEMMA DistrictIs ==
  ASSUME NEW d \in Region!All
  PROVE  /\ d = <<d[1], d[2], d[3]>>
         /\ d[1] # None /\ d[2] # None /\ d[3] # None /\ None \notin Region!All
         /\ \E i \in DOMAIN Districts : d = Districts[i]
  BY RegionConstantsFit DEF Region!ConstantsFit, Region!All

\* What is picked is shown as it is.
LEMMA PickedIs ==
  ASSUME NEW v \in Picked
  PROVE  /\ Region!Prefixes(v)
         /\ v.region = IF v.district = None THEN None ELSE <<v.province, v.city, v.district>>
         /\ Region!resolveRegionSelectionCodes(v) = <<v.province, v.city, v.district>>
<1>1. ASSUME NEW d \in Region!All, v = Region!Selection(d)
      PROVE  /\ Region!Prefixes(v)
             /\ v.region = <<v.province, v.city, v.district>> /\ v.district # None
             /\ Region!resolveRegionSelectionCodes(v) = v.region
  <2>1. v.province = d[1] /\ v.city = d[2] /\ v.district = d[3] /\ v.region = d
    BY <1>1 DEF Region!Selection
  <2>2. QED
    BY <2>1, DistrictIs DEF Region!Prefixes, Region!resolveRegionSelectionCodes
<1>2. ASSUME NEW d \in Region!All, NEW c \in {d[2], None}, v = [Region!Blank EXCEPT !.province = d[1], !.city = c]
      PROVE  /\ Region!Prefixes(v)
             /\ v.region = None /\ v.district = None
             /\ Region!resolveRegionSelectionCodes(v) = <<v.province, v.city, v.district>>
  <2> DEFINE province == Region!findChildByName(DOMAIN Districts, 1, v.province)
             city == Region!findChildByName(province, 2, v.city)
             district == Region!findChildByName(city, 3, v.district)
  <2>1. v.province = d[1] /\ v.city = c /\ v.district = None /\ v.region = None
    BY <1>2 DEF Region!Blank
  <2>2. PICK i \in DOMAIN Districts : d = Districts[i]
    BY DistrictIs
  <2>3. province = {j \in DOMAIN Districts : Districts[j][1] = d[1]}
    <3>1. d[1] # None /\ \E j \in DOMAIN Districts : Districts[j][1] = d[1]
      BY <2>2, DistrictIs
    <3>2. province = Region!findChildByName(DOMAIN Districts, 1, d[1])
      BY <2>1
    <3>3. DOMAIN Districts \in SUBSET DOMAIN Districts
      OBVIOUS
    <3> HIDE DEF province
    <3>4. QED
      BY <3>1, <3>2, <3>3, ChildIs
  <2>4. i \in province /\ province \in SUBSET DOMAIN Districts
    BY <2>2, <2>3
  <2>5. city = IF c = None THEN {} ELSE {j \in province : Districts[j][2] = d[2]}
    <3> HIDE DEF province
    <3>1. QED
      BY <1>2, <2>1, <2>2, <2>4, ChildIs
  <2>6. c # None => i \in city
    BY <1>2, <2>2, <2>4, <2>5
  <2>7. city \in SUBSET DOMAIN Districts
    BY <2>4, <2>5
  <2>8. district = {}
    <3> HIDE DEF city
    <3>1. QED
      BY <2>1, <2>7, ChildIs
  <2>9. Districts[Region!Min(province)][1] = d[1]
    <3>1. province \subseteq Nat
      BY <2>4, RegionConstantsFit DEF Region!ConstantsFit
    <3>2. Region!Min(province) \in province
      BY <2>4, <3>1, LeastIs
    <3>3. QED
      BY <2>3, <3>2
  <2>10. c # None => Districts[Region!Min(city)][2] = c
    <3>1. SUFFICES ASSUME c # None PROVE Districts[Region!Min(city)][2] = c
      OBVIOUS
    <3>2. city \subseteq Nat
      BY <2>7, RegionConstantsFit DEF Region!ConstantsFit
    <3>3. Region!Min(city) \in city
      BY <2>6, <3>1, <3>2, LeastIs
    <3>4. QED
      BY <1>2, <2>5, <3>1, <3>3
  <2>11. Region!resolveRegionSelectionCodes(v) = <<d[1], c, None>>
    <3> DEFINE Label(paths, level) == IF paths = {} THEN None ELSE Districts[Region!Min(paths)][level]
    <3>1. v.region \notin Region!All
      BY <2>1, DistrictIs
    <3>2. Region!resolveRegionSelectionCodes(v) = <<Label(province, 1), Label(city, 2), Label(district, 3)>>
      BY <3>1 DEF Region!resolveRegionSelectionCodes
    <3> HIDE DEF province, city, district
    <3>3. Label(province, 1) = d[1]
      BY <2>4, <2>9
    <3>4. Label(city, 2) = c
      BY <2>5, <2>6, <2>10
    <3>5. Label(district, 3) = None
      BY <2>8
    <3>6. QED
      BY <3>2, <3>3, <3>4, <3>5
  <2>12. Region!Prefixes(v)
    BY <1>2, <2>1 DEF Region!Prefixes
  <2>13. QED
    BY <2>1, <2>11, <2>12
<1>3. PICK d \in Region!All : \/ v = Region!Selection(d)
                      \/ \E c \in {d[2], None} : v = [Region!Blank EXCEPT !.province = d[1], !.city = c]
  <2>1. \A d \in Region!All : /\ d[2] \in {d[2], None} /\ None \in {d[2], None}
                     /\ [Region!Blank EXCEPT !.province = d[1]] = [Region!Blank EXCEPT !.province = d[1], !.city = None]
    <3> DEFINE picked(p) == [province |-> p, city |-> None, district |-> None, region |-> None]
    <3>1. ASSUME NEW p PROVE [Region!Blank EXCEPT !.province = p] = picked(p)
      BY DEF Region!Blank
    <3>2. ASSUME NEW p PROVE [Region!Blank EXCEPT !.province = p, !.city = None] = picked(p)
      <4>1. PICK b : b = [Region!Blank EXCEPT !.province = p, !.city = None]
        OBVIOUS
      <4>2. b = [n \in {"province", "city", "district", "region"} |-> b[n]]
        BY <4>1 DEF Region!Blank
      <4>3. b["province"] = p /\ b["city"] = None /\ b["district"] = None /\ b["region"] = None
        BY <4>1 DEF Region!Blank
      <4>4. QED
        BY <4>1, <4>2, <4>3
    <3>3. QED
      BY <3>1, <3>2
  <2>2. CASE \E d \in Region!All : v = Region!Selection(d)
    BY <2>2
  <2>3. CASE \E d \in Region!All : v = [Region!Blank EXCEPT !.province = d[1], !.city = d[2]]
    BY <2>1, <2>3
  <2>4. CASE \E d \in Region!All : v = [Region!Blank EXCEPT !.province = d[1]]
    BY <2>1, <2>4
  <2>5. QED
    BY <2>2, <2>3, <2>4 DEF Picked
<1>4. QED
  BY <1>1, <1>2, <1>3

------------------------------------------------------------------------------
LEMMA RegionInitInv ==
  ASSUME Region!Init
  PROVE  RegionInv
  BY DEF Region!Init, RegionInv, Region!Nowhere

\* Only what is in the data can be picked.
LEMMA SelectsPick ==
  ASSUME Region!RegionCascaderSelects
  PROVE  /\ rg_value' \in Picked
         /\ UNCHANGED <<rg_form, rg_chunk, rg_ready, rg_locating, rg_tried, rg_sent>>
<1>1. PICK i \in DOMAIN Districts :
        \/ Region!handleProvinceChange(Districts[i][1])
        \/ Region!handleCityChange(Districts[i][1], Districts[i][2])
        \/ Region!handleDistrictChange(Districts[i])
  BY DEF Region!RegionCascaderSelects
<1>2. Districts[i] \in Region!All
  BY DEF Region!All
<1>3. QED
  BY <1>1, <1>2 DEF Region!handleProvinceChange, Region!handleCityChange, Region!handleDistrictChange, Region!Picks, Picked

LEMMA RegionStep ==
  ASSUME RegionInv, [Region!Next]_vars_rg
  PROVE  RegionInv'
<1>1. ASSUME NEW v \in Given PROVE Region!loadChinaRegionData("edit", v) => RegionInv'
  BY DEF Region!loadChinaRegionData, RegionInv, Region!Nowhere
<1>2. Region!loadChinaRegionData("register", Region!Blank) => RegionInv'
  BY DEF Region!loadChinaRegionData, RegionInv, Region!Nowhere
<1>3. ASSUME NEW how \in {"ok", "failed"} PROVE Region!ChunkArrives(how) => RegionInv'
  BY DEF Region!ChunkArrives, RegionInv
<1>4. Region!RegionCascader => RegionInv'
  BY DEF Region!RegionCascader, RegionInv
<1>5. Region!locate => RegionInv'
  BY DEF Region!locate, RegionInv
<1>6. Region!RegionCascaderSelects => RegionInv'
  BY SelectsPick DEF RegionInv
<1>7. Region!handleSubmit => RegionInv'
  <2>1. SUFFICES ASSUME Region!handleSubmit PROVE RegionInv'
    OBVIOUS
  <2>2. rg_form = "register" /\ rg_value.district # None /\ rg_sent' = rg_value
        /\ UNCHANGED <<rg_form, rg_chunk, rg_ready, rg_value, rg_locating, rg_tried>>
    BY <2>1 DEF Region!handleSubmit
  <2>3. rg_value \in Picked
    BY <2>2 DEF RegionInv, Region!Blank
  <2>4. PICK d \in Region!All : rg_value = Region!Selection(d)
    BY <2>2, <2>3 DEF Picked, Region!Blank
  <2>5. rg_sent'.region \in Region!All /\ rg_sent' = Region!Selection(rg_sent'.region)
    BY <2>2, <2>4 DEF Region!Selection
  <2>6. QED
    BY <2>2, <2>5 DEF RegionInv
<1>8. Region!Shut => RegionInv'
  BY DEF Region!Shut, RegionInv, Region!Nowhere
<1>9. ASSUME NEW found \in SUBSET Region!All PROVE Region!detectCurrentRegion(found) => RegionInv'
  <2>1. SUFFICES ASSUME Region!detectCurrentRegion(found) PROVE RegionInv'
    OBVIOUS
  <2>2. rg_locating.at > 0 /\ rg_form = "register" /\ rg_ready = "data" /\ UNCHANGED <<rg_form, rg_ready, rg_sent>>
    BY <2>1 DEF Region!detectCurrentRegion, RegionInv
  <2>3. CASE found # {}
    <3>1. PICK d \in Region!All : d = CHOOSE e \in found : TRUE
      BY <2>3
    <3>2. rg_value' = Region!Selection(d) /\ rg_locating' = Region!Nowhere
      BY <2>1, <2>3, <3>1 DEF Region!detectCurrentRegion
    <3>3. rg_value' \in Picked
      BY <3>2 DEF Picked
    <3>4. QED
      BY <2>2, <3>2, <3>3 DEF RegionInv, Region!Nowhere
  <2>4. CASE found = {}
    <3>1. rg_value' = rg_value
      BY <2>1, <2>4 DEF Region!detectCurrentRegion
    <3>2. QED
      BY <2>2, <3>1 DEF RegionInv
  <2>5. QED
    BY <2>3, <2>4
<1>10. UNCHANGED vars_rg => RegionInv'
  BY DEF vars_rg, RegionInv
<1>11. QED
  BY <1>1, <1>2, <1>3, <1>4, <1>5, <1>6, <1>7, <1>8, <1>9, <1>10, AnswersLead DEF Region!Next

LEMMA RegionInvAgrees ==
  ASSUME RegionInv
  PROVE  Region!RegionAgrees
  BY PickedIs DEF RegionInv, Region!RegionAgrees

------------------------------------------------------------------------------
(* DateRange.  A wall time that exists once is what it is corrected to, whichever side
   of the change the correction begins on; from the first tick of a day that exists
   once to the last of another are then all instants of the days between.  Half a day
   is more than a jump of the clocks, so that the noon a preset counts from stays in
   its day.                                                                          *)

\* The days that can be picked, the ranges shown while one is, and those of the filter.
Held == (-Dates!Longest)..LastDay
Shows == [from : Held \cup {None}, to : Held \cup {None}]
IsRange(r) == r = Dates!Span(r.from, r.to) /\ r.from \in Held /\ r.to \in Held /\ r.from <= r.to
Awaits == [type : {"picking", "edit-from", "edit-to"}, day : Held]

(* What the filter has is a range of days or nothing, and the day that a click waits
   with is one. *)
DatesInv ==
  /\ dr_timezone \in Zones /\ dr_now \in 0..(LastDay * Ticks)
  /\ dr_value = Dates!Empty \/ IsRange(dr_value)
  /\ dr_range \in Shows
  /\ dr_phase = Dates!Idle \/ dr_phase \in Awaits

\* A zone as it is assumed to be.
LEMMA ZoneIs ==
  ASSUME NEW z \in Zones
  PROVE  /\ z.before \in Int /\ z.after \in Int /\ z.at \in Int
         /\ 1 - Ticks <= z.before /\ z.before <= Ticks - 1
         /\ 1 - Ticks <= z.after /\ z.after <= Ticks - 1
         /\ 1 - Ticks <= 2 * (z.after - z.before) /\ 2 * (z.after - z.before) <= Ticks - 1
         /\ Ticks \in Nat /\ Ticks > 0
  BY DatesConstantsFit DEF Dates!ConstantsFit

\* A quotient, and what bounds it.
LEMMA QuotientIs ==
  ASSUME NEW n \in Int, n > 0, NEW l \in Int, NEW d \in Int
  PROVE  /\ l \div n \in Int
         /\ (l \div n) * n <= l /\ l < (l \div n) * n + n
         /\ d * n <= l => d <= l \div n
         /\ l < d * n + n => l \div n <= d
<1> DEFINE q == l \div n
<1>1. q \in Int /\ q * n <= l /\ l < q * n + n
  OBVIOUS
<1>2. ASSUME NEW a \in Int, NEW b \in Int, a < b PROVE a * n + n <= b * n
  <2>1. (b - a - 1) * n >= 0
    BY <1>2
  <2>2. QED
    BY <1>2, <2>1
<1> HIDE DEF q
<1>3. d * n \in Int /\ q * n \in Int
  BY <1>1
<1>4. ASSUME d * n <= l PROVE d <= q
  BY <1>1, <1>2, <1>3, <1>4
<1>5. ASSUME l < d * n + n PROVE q <= d
  BY <1>1, <1>2, <1>3, <1>5
<1>6. QED
  BY <1>1, <1>4, <1>5 DEF q

\* The day of a local time.
LEMMA DayIs ==
  ASSUME NEW l \in Int, NEW d \in Int
  PROVE  /\ l \div Ticks \in Int
         /\ (l \div Ticks) * Ticks <= l /\ l < (l \div Ticks) * Ticks + Ticks
         /\ d * Ticks <= l => d <= l \div Ticks
         /\ l < d * Ticks + Ticks => l \div Ticks <= d
  BY QuotientIs, DatesConstantsFit DEF Dates!ConstantsFit

\* A local time is one of two instants at most.
LEMMA LocalIs ==
  ASSUME NEW z \in Zones, NEW u \in Int
  PROVE  /\ Dates!Offset(u, z) = IF u < z.at THEN z.before ELSE z.after
         /\ Dates!Local(u, z) = u + Dates!Offset(u, z)
         /\ Dates!Written(u, z) = Dates!Local(u, z)
         /\ Dates!Local(u, z) \in Int
<1>1. Dates!Local(u, z) \in Int
  BY ZoneIs DEF Dates!Local, Dates!Offset
<1>2. QED
  BY <1>1, DatesConstantsFit DEF Dates!ConstantsFit, Dates!Local, Dates!Offset, Dates!Written

\* What a wall time is corrected to is it before or after the change, and has it as its
\* local time when it exists on one side only.
LEMMA WallIs ==
  ASSUME NEW z \in Zones, NEW w \in Int
  PROVE  LET u == Dates!zonedWallTimeToUtc(w, z) IN
         /\ u \in {w - z.before, w - z.after}
         /\ (w - z.before < z.at) # (w - z.after >= z.at) => Dates!Local(u, z) = w
<1> DEFINE C(u) == u + (w - Dates!Written(u, z))
<1>1. ASSUME NEW u \in Int PROVE C(u) = IF u < z.at THEN w - z.before ELSE w - z.after
  BY LocalIs, ZoneIs
<1> DEFINE c1 == C(w)  c2 == C(c1)  c3 == C(c2)  c4 == C(c3)
<1>2. Dates!zonedWallTimeToUtc(w, z) = c4
  BY DEF Dates!zonedWallTimeToUtc
<1> HIDE DEF C
<1>3. c1 \in {w - z.before, w - z.after} /\ c1 \in Int
  BY <1>1, ZoneIs
<1>4. c2 = (IF c1 < z.at THEN w - z.before ELSE w - z.after) /\ c2 \in Int
  BY <1>1, <1>3, ZoneIs
<1>5. c3 = (IF c2 < z.at THEN w - z.before ELSE w - z.after) /\ c3 \in Int
  BY <1>1, <1>4, ZoneIs
<1>6. c4 = (IF c3 < z.at THEN w - z.before ELSE w - z.after) /\ c4 \in Int
  BY <1>1, <1>5, ZoneIs
<1> HIDE DEF c1, c2, c3, c4
<1>7. c4 \in {w - z.before, w - z.after}
  BY <1>6
<1>8. ASSUME (w - z.before < z.at) # (w - z.after >= z.at) PROVE Dates!Local(c4, z) = w
  <2>1. CASE w - z.before < z.at
    <3>1. w - z.after < z.at
      BY <1>8, <2>1, ZoneIs
    <3>2. c4 = w - z.before
      BY <1>3, <1>4, <1>5, <1>6, <2>1, <3>1, ZoneIs
    <3>3. QED
      BY <1>6, <2>1, <3>2, LocalIs, ZoneIs
  <2>2. CASE ~(w - z.before < z.at)
    <3>1. w - z.after >= z.at
      BY <1>8, <2>2
    <3>2. c4 = w - z.after
      BY <1>3, <1>4, <1>5, <1>6, <2>2, <3>1, ZoneIs
    <3>3. QED
      BY <1>6, <3>1, <3>2, LocalIs, ZoneIs
  <2>3. QED
    BY <2>1, <2>2
<1>9. QED
  BY <1>2, <1>7, <1>8

\* The instants counted are an interval.
LEMMA InstantsAre ==
  /\ Dates!Instants \subseteq Int /\ IsFiniteSet(Dates!Instants)
  /\ \A i, j \in Dates!Instants : i..j \subseteq Dates!Instants
<1> DEFINE l == -(Dates!Longest + 1) * Ticks
           h == (LastDay + 2) * Ticks
<1>1. l \in Int /\ h \in Int
  BY DatesConstantsFit DEF Dates!ConstantsFit
<1>2. Dates!Instants = l..h
  BY DEF Dates!Instants
<1> HIDE DEF l, h
<1>3. IsFiniteSet(l..h)
  BY <1>1, FS_Interval
<1>4. QED
  BY <1>1, <1>2, <1>3

\* Those that a zone can make of a day that is held are among them.
LEMMA HeldIs ==
  ASSUME NEW d \in Held
  PROVE  /\ d \in Int /\ Ticks \in Int /\ Ticks > 0 /\ d * Ticks \in Int
         /\ \A i \in (d * Ticks - Ticks)..(d * Ticks + 2 * Ticks) : i \in Dates!Instants
<1>1. /\ Ticks \in Int /\ Ticks > 0 /\ Dates!Longest \in Nat /\ LastDay \in Nat
      /\ d \in Int /\ -Dates!Longest <= d /\ d <= LastDay
  BY DatesConstantsFit DEF Dates!ConstantsFit, Held
<1>2. (d + Dates!Longest) * Ticks >= 0 /\ (LastDay - d) * Ticks >= 0
  BY <1>1
<1>3. /\ -(Dates!Longest + 1) * Ticks <= d * Ticks - Ticks /\ d * Ticks + 2 * Ticks <= (LastDay + 2) * Ticks
      /\ -(Dates!Longest + 1) * Ticks \in Int /\ (LastDay + 2) * Ticks \in Int /\ d * Ticks \in Int
  BY <1>1, <1>2
<1>4. QED
  BY <1>1, <1>3 DEF Dates!Instants

\* A wall time of a day that is held has its instants among those counted; when only one
\* of them has it, it is the one that the wall time is corrected to.
LEMMA OnceIs ==
  ASSUME dr_timezone \in Zones, NEW d \in Held, NEW w \in Int, d * Ticks <= w, w < d * Ticks + Ticks
  PROVE  LET u == Dates!zonedWallTimeToUtc(w, dr_timezone) IN
         /\ u \in Dates!Instants
         /\ Dates!Once(w) => /\ Dates!Local(u, dr_timezone) = w
                             /\ (w - dr_timezone.before < dr_timezone.at)
                                  # (w - dr_timezone.after >= dr_timezone.at)
<1> DEFINE z == dr_timezone
           S == {i \in Dates!Instants : Dates!Local(i, z) = w}
           b == w - z.before
           a == w - z.after
<1>1. a \in Dates!Instants /\ b \in Dates!Instants /\ a \in Int /\ b \in Int
  BY HeldIs, ZoneIs
<1>2. Dates!zonedWallTimeToUtc(w, z) \in Dates!Instants
  BY <1>1, WallIs
<1>3. ASSUME Dates!Once(w) PROVE (b < z.at) # (a >= z.at)
  <2>1. IsFiniteSet(Dates!Instants)
    BY InstantsAre
  <2>2. IsFiniteSet(S) /\ Cardinality(S) = 1
    <3>1. Cardinality(S) = 1
      BY <1>3 DEF Dates!Once, Dates!Cardinality, Cardinality
    <3>2. S \subseteq Dates!Instants
      OBVIOUS
    <3>3. QED
      BY <2>1, <3>1, <3>2, FS_Subset
  <2>3. PICK x : S = {x}
    BY <2>2, FS_Singleton
  <2>4. \A i \in Int : Dates!Local(i, z) = IF i < z.at THEN i + z.before ELSE i + z.after
    BY LocalIs
  <2>5. ASSUME b < z.at, a >= z.at PROVE FALSE
    <3>1. Dates!Local(b, z) = w /\ Dates!Local(a, z) = w
      BY <1>1, <2>4, <2>5, ZoneIs
    <3>2. a \in S /\ b \in S
      BY <1>1, <3>1
    <3>3. a = b
      BY <2>3, <3>2
    <3>4. QED
      BY <1>1, <2>5, <3>3, ZoneIs
  <2>6. ASSUME b >= z.at, a < z.at PROVE FALSE
    <3>1. x \in Dates!Instants /\ Dates!Local(x, z) = w
      BY <2>3
    <3>2. x \in Int
      BY <3>1, InstantsAre
    <3>3. QED
      BY <2>4, <2>6, <3>1, <3>2, ZoneIs
  <2>7. QED
    BY <1>1, <2>5, <2>6, ZoneIs
<1>4. QED
  BY <1>2, <1>3, WallIs

\* Of days that exist once, the server is asked for the instants of these days.
LEMMA AskedIs ==
  ASSUME dr_timezone \in Zones, IsRange(dr_value),
         Dates!Once(dr_value.from * Ticks), Dates!Once(dr_value.to * Ticks + Ticks - 1)
  PROVE  Dates!Asked = Dates!TheDays
<1> DEFINE z == dr_timezone
           f == dr_value.from * Ticks
           t == dr_value.to * Ticks + (Ticks - 1)
           u == Dates!zonedWallTimeToUtc(f, z)
           v == Dates!zonedWallTimeToUtc(t, z)
<1>1. /\ dr_value.from \in Held /\ dr_value.to \in Held /\ dr_value.from <= dr_value.to
      /\ dr_value.from \in Int /\ dr_value.to \in Int /\ Ticks \in Int /\ Ticks > 0
      /\ f \in Int /\ dr_value.to * Ticks \in Int /\ t \in Int /\ t = dr_value.to * Ticks + Ticks - 1
  BY HeldIs, ZoneIs DEF IsRange
<1>2. /\ u \in Dates!Instants /\ Dates!Local(u, z) = f
      /\ (f - z.before < z.at) # (f - z.after >= z.at)
  BY <1>1, OnceIs
<1>3. /\ v \in Dates!Instants /\ Dates!Local(v, z) = t
      /\ (t - z.before < z.at) # (t - z.after >= z.at)
  BY <1>1, OnceIs
<1>4. Dates!Asked = u..v
  <2>1. Dates!dateOnlyToApiUtc(dr_value.from, z, "start") = u
    BY <1>1 DEF Dates!dateOnlyToApiUtc
  <2>2. Dates!dateOnlyToApiUtc(dr_value.to, z, "end") = v
    BY <1>1 DEF Dates!dateOnlyToApiUtc
  <2>3. QED
    BY <2>1, <2>2 DEF Dates!Asked
<1> HIDE DEF f, t, u, v
<1>5. u \in Int /\ v \in Int
  BY <1>2, <1>3, InstantsAre
<1>6. ASSUME NEW i \in Int
      PROVE  i \in u..v <=> f <= Dates!Local(i, z) /\ Dates!Local(i, z) <= t
  <2>1. /\ f = IF u < z.at THEN u + z.before ELSE u + z.after
        /\ t = IF v < z.at THEN v + z.before ELSE v + z.after
        /\ Dates!Local(i, z) = IF i < z.at THEN i + z.before ELSE i + z.after
    BY <1>2, <1>3, <1>5, LocalIs
  <2>2. u <= i <=> f <= Dates!Local(i, z)
    BY <1>1, <1>2, <1>5, <2>1, ZoneIs
  <2>3. i <= v <=> Dates!Local(i, z) <= t
    BY <1>1, <1>3, <1>5, <2>1, ZoneIs
  <2>4. QED
    BY <1>5, <2>2, <2>3
<1>7. ASSUME NEW i \in Int
      PROVE  Dates!DayOf(i, z) \in dr_value.from..dr_value.to <=> f <= Dates!Local(i, z) /\ Dates!Local(i, z) <= t
  <2> DEFINE l == Dates!Local(i, z)
  <2>1. l \in Int
    BY LocalIs
  <2>2. /\ Dates!DayOf(i, z) = l \div Ticks /\ l \div Ticks \in Int
        /\ f <= l => dr_value.from <= l \div Ticks
        /\ l <= t => l \div Ticks <= dr_value.to
    BY <1>1, <2>1, DayIs DEF Dates!DayOf, f
  <2>3. ASSUME dr_value.from <= l \div Ticks PROVE f <= l
    <3>1. (l \div Ticks - dr_value.from) * Ticks >= 0
      BY <1>1, <2>2, <2>3
    <3>2. QED
      BY <1>1, <2>1, <2>2, <3>1, DayIs DEF f
  <2>4. ASSUME l \div Ticks <= dr_value.to PROVE l <= t
    <3>1. (dr_value.to - l \div Ticks) * Ticks >= 0
      BY <1>1, <2>2, <2>4
    <3>2. QED
      BY <1>1, <2>1, <2>2, <3>1, DayIs
  <2>5. QED
    BY <1>1, <2>2, <2>3, <2>4
<1>8. u..v \subseteq Dates!Instants
  BY <1>2, <1>3, InstantsAre
<1>9. Dates!Instants \subseteq Int
  BY InstantsAre
<1>10. QED
  BY <1>4, <1>5, <1>6, <1>7, <1>8, <1>9 DEF Dates!TheDays

\* A preset ends today and has as many days as it says: half a day is more than a jump
\* of the clocks.
LEMMA PresetIs ==
  ASSUME NEW z \in Zones, dr_now \in 0..(LastDay * Ticks), NEW n \in RANGE_PRESETS
  PROVE  LET r == Dates!buildPresetDateRange(n, z) IN
         r.to = Dates!DayOf(dr_now, z) /\ r.to - r.from = n - 1 /\ IsRange(r)
<1> DEFINE d == Dates!DayOf(dr_now, z)
           e == -(n - 1)
           w == d * Ticks + Ticks \div 2
           x == Dates!zonedWallTimeToUtc(w, z)
           y == x + e * Ticks
<1>1. /\ Ticks \in Int /\ Ticks > 0 /\ LastDay \in Nat /\ LastDay * Ticks \in Int
      /\ n \in Int /\ 1 <= n /\ n <= Dates!Longest /\ Dates!Longest \in Nat
  BY DatesConstantsFit DEF Dates!ConstantsFit
<1>2. d \in Int /\ -1 <= d /\ d <= LastDay
  <2> DEFINE l == Dates!Local(dr_now, z)
  <2>1. dr_now \in Int /\ 0 <= dr_now /\ dr_now <= LastDay * Ticks
    BY <1>1
  <2>2. l \in Int /\ 1 - Ticks <= l /\ l <= LastDay * Ticks + Ticks - 1
    BY <1>1, <2>1, LocalIs, ZoneIs
  <2>3. d = l \div Ticks
    BY DEF Dates!DayOf
  <2> HIDE DEF l
  <2>4. (-1) * Ticks <= l /\ l < LastDay * Ticks + Ticks
    BY <1>1, <2>2
  <2>5. l \div Ticks \in Int /\ -1 <= l \div Ticks
    BY <2>2, <2>4, DayIs
  <2>6. l \div Ticks <= LastDay
    BY <1>1, <2>2, <2>4, DayIs
  <2>7. QED
    BY <2>3, <2>5, <2>6
<1> HIDE DEF d
<1>3. e \in Int /\ e * Ticks \in Int /\ d * Ticks \in Int /\ d + e \in Int
      /\ (d + e) * Ticks = d * Ticks + e * Ticks
  BY <1>1, <1>2
<1>4. Ticks \div 2 \in Int /\ 2 * (Ticks \div 2) <= Ticks /\ Ticks <= 2 * (Ticks \div 2) + 1
  BY <1>1
<1>5. w \in Int
  BY <1>3, <1>4
<1>6. x \in {w - z.before, w - z.after} /\ x \in Int /\ y \in Int
  BY <1>3, <1>5, WallIs, ZoneIs
<1>7. Dates!addCalendarDaysInTimezone(d, e, z) = Dates!Local(y, z) \div Ticks
  BY DEF Dates!addCalendarDaysInTimezone, Dates!DayOf
<1> HIDE DEF x
<1>8. Dates!Local(y, z) \in Int /\ Dates!Local(y, z) \in {y + z.before, y + z.after}
  BY <1>6, LocalIs
<1>9. (d + e) * Ticks <= Dates!Local(y, z) /\ Dates!Local(y, z) < (d + e) * Ticks + Ticks
  <2>1. Dates!Local(y, z) \in {w + e * Ticks, w + e * Ticks + (z.after - z.before),
                              w + e * Ticks - (z.after - z.before)}
    BY <1>3, <1>5, <1>6, <1>8, ZoneIs
  <2>2. QED
    BY <1>3, <1>4, <2>1, ZoneIs
<1>10. Dates!Local(y, z) \div Ticks = d + e
  <2> DEFINE q == Dates!Local(y, z) \div Ticks
             s == d + e
  <2>1. q \in Int /\ s \in Int
    BY <1>3, <1>8, DayIs
  <2>2. s <= q
    BY <1>3, <1>8, <1>9, DayIs
  <2>3. q <= s
    BY <1>3, <1>8, <1>9, DayIs
  <2> HIDE DEF q, s
  <2>4. q = s
    BY <2>1, <2>2, <2>3
  <2>5. QED
    BY <2>4 DEF q, s
<1>11. Dates!buildPresetDateRange(n, z) = Dates!Span(d + e, d)
  BY <1>7, <1>10 DEF Dates!buildPresetDateRange, d
<1>12. IsRange(Dates!Span(d + e, d))
  <2>1. d + e \in Held /\ d \in Held /\ d + e <= d
    BY <1>1, <1>2 DEF Held
  <2>2. QED
    BY <2>1 DEF IsRange, Dates!Span
<1>13. QED
  BY <1>1, <1>2, <1>11, <1>12 DEF Dates!Span, d

\* A day can be picked and is not none.
LEMMA PickIs ==
  /\ None \notin Held /\ Dates!Days \subseteq Held /\ Held \subseteq Int
  BY DatesConstantsFit DEF Dates!ConstantsFit, Held, Dates!Days

\* Two days make the range from the earlier to the later.
LEMMA CommitIs ==
  ASSUME NEW a \in Held, NEW b \in Held
  PROVE  /\ Dates!normalizePickerRange(Dates!Span(a, b)) = Dates!normalizePickerRange(Dates!Span(b, a))
         /\ IsRange(Dates!normalizePickerRange(Dates!Span(a, b)))
<1>1. Dates!Span(a, b).from = a /\ Dates!Span(a, b).to = b /\ Dates!Span(b, a).from = b /\ Dates!Span(b, a).to = a
  BY DEF Dates!Span
<1>2. a # None /\ b # None /\ a \in Int /\ b \in Int
  BY PickIs
<1>3. /\ Dates!normalizePickerRange(Dates!Span(a, b)) = IF a <= b THEN Dates!Span(a, b) ELSE Dates!Span(b, a)
      /\ Dates!normalizePickerRange(Dates!Span(b, a)) = IF b <= a THEN Dates!Span(b, a) ELSE Dates!Span(a, b)
  BY <1>1, <1>2 DEF Dates!normalizePickerRange
<1>4. QED
  BY <1>1, <1>2, <1>3 DEF IsRange

LEMMA CommittedIs ==
  ASSUME dr_phase \in Awaits, NEW d \in Held
  PROVE  /\ Dates!Committed(d) = Dates!resolveCalendarSelected(d)
         /\ IsRange(Dates!Committed(d))
<1>1. dr_phase.day \in Held /\ dr_phase.type # "idle" /\ d # None
  BY PickIs DEF Awaits
<1>2. Dates!resolveCalendarSelected(d) = Dates!normalizePickerRange(Dates!Span(dr_phase.day, d))
  BY <1>1 DEF Dates!resolveCalendarSelected
<1>3. QED
  BY <1>1, <1>2, CommitIs DEF Dates!Committed

LEMMA DatesInvAgrees ==
  ASSUME DatesInv
  PROVE  Dates!DaysAgree
<1>1. ASSUME dr_value # Dates!Empty
      PROVE  /\ dr_value.from <= dr_value.to
             /\ Dates!Once(dr_value.from * Ticks) /\ Dates!Once(dr_value.to * Ticks + Ticks - 1) =>
                  Dates!Asked = Dates!TheDays
  BY <1>1, AskedIs DEF DatesInv, IsRange
<1>2. ASSUME NEW n \in RANGE_PRESETS
      PROVE  LET r == Dates!buildPresetDateRange(n, dr_timezone) IN
             r.to = Dates!DayOf(dr_now, dr_timezone) /\ r.to - r.from = n - 1
  BY PresetIs DEF DatesInv
<1>3. ASSUME dr_phase.type # "idle", NEW d \in Dates!Days
      PROVE  Dates!Committed(d) = Dates!resolveCalendarSelected(d)
  <2>1. dr_phase \in Awaits
    BY <1>3 DEF DatesInv, Dates!Idle
  <2>2. QED
    BY <2>1, PickIs, CommittedIs
<1>4. QED
  BY <1>1, <1>2, <1>3 DEF Dates!DaysAgree

LEMMA DatesStart == Dates!Init => DatesInv
<1>1. SUFFICES ASSUME Dates!Init PROVE DatesInv
  OBVIOUS
<1>2. dr_now \in 0..(LastDay * Ticks)
  <2>1. PICK d \in Dates!Days : dr_now = d * Ticks
    BY <1>1 DEF Dates!Init
  <2>2. /\ Ticks \in Int /\ Ticks > 0 /\ LastDay \in Nat /\ d \in Int /\ 0 <= d /\ d <= LastDay
    BY DatesConstantsFit DEF Dates!ConstantsFit, Dates!Days
  <2>3. d * Ticks >= 0 /\ (LastDay - d) * Ticks >= 0 /\ d * Ticks \in Int /\ LastDay * Ticks \in Int
    BY <2>2
  <2>4. d * Ticks <= LastDay * Ticks
    BY <2>2, <2>3
  <2>5. QED
    BY <2>1, <2>3, <2>4
<1>3. Dates!Empty \in Shows
  BY DEF Shows, Dates!Empty, Dates!Span
<1>4. QED
  BY <1>1, <1>2, <1>3 DEF Dates!Init, DatesInv

\* What is kept can be shown.
LEMMA RangeShows ==
  ASSUME dr_value = Dates!Empty \/ IsRange(dr_value)
  PROVE  Dates!normalizePickerRange(dr_value) \in Shows
<1>1. CASE dr_value = Dates!Empty
  BY <1>1 DEF Dates!normalizePickerRange, Dates!Empty, Dates!Span, Shows
<1>2. CASE IsRange(dr_value)
  <2>1. dr_value \in Shows /\ dr_value.from # None /\ dr_value.from <= dr_value.to
    BY <1>2, PickIs DEF IsRange, Shows, Dates!Span
  <2>2. QED
    BY <2>1 DEF Dates!normalizePickerRange
<1>3. QED
  BY <1>1, <1>2

LEMMA DatesStep == DatesInv /\ [Dates!Next]_vars_dr => DatesInv'
<1> SUFFICES ASSUME DatesInv, [Dates!Next]_vars_dr PROVE DatesInv'
  OBVIOUS
<1> USE DEF DatesInv
<1>1. ASSUME NEW b \in BOOLEAN, Dates!handleOpenChange(b) PROVE DatesInv'
  <2>1. UNCHANGED <<dr_timezone, dr_now, dr_value>>
    BY <1>1 DEF Dates!handleOpenChange
  <2>2. CASE b
    BY <1>1, <2>1, <2>2, RangeShows DEF Dates!handleOpenChange
  <2>3. CASE ~b
    BY <1>1, <2>1, <2>3 DEF Dates!handleOpenChange
  <2>4. QED
    BY <2>2, <2>3
<1>2. ASSUME NEW d \in Dates!Days, Dates!handleSelect(d) PROVE DatesInv'
  <2>1. UNCHANGED <<dr_timezone, dr_now>> /\ d \in Held
    BY <1>2, PickIs DEF Dates!handleSelect
  <2>2. CASE dr_phase.type # "idle"
    <3>1. dr_phase \in Awaits
      BY <2>2 DEF Dates!Idle
    <3>2. dr_value' = Dates!Committed(d) /\ UNCHANGED <<dr_range, dr_phase>>
      BY <1>2, <2>2 DEF Dates!handleSelect
    <3>3. QED
      BY <2>1, <3>1, <3>2, CommittedIs
  <2>3. CASE dr_phase.type = "idle" /\ Dates!hasCompleteRange(dr_range) /\ d \in {dr_range.from, dr_range.to}
    <3>1. /\ dr_value' = dr_value
          /\ dr_phase' = IF d = dr_range.from THEN [type |-> "edit-from", day |-> dr_range.to]
                         ELSE [type |-> "edit-to", day |-> dr_range.from]
          /\ dr_range' = Dates!Span(dr_range.from, None)
      BY <1>2, <2>3 DEF Dates!handleSelect
    <3>2. dr_range.from \in Held /\ dr_range.to \in Held
      BY <2>3 DEF Dates!hasCompleteRange, Shows
    <3>3. dr_phase' \in Awaits /\ dr_range' \in Shows
      BY <3>1, <3>2 DEF Awaits, Shows, Dates!Span
    <3>4. QED
      BY <2>1, <3>1, <3>3
  <2>4. CASE dr_phase.type = "idle" /\ ~(Dates!hasCompleteRange(dr_range) /\ d \in {dr_range.from, dr_range.to})
    <3>1. /\ dr_value' = dr_value /\ dr_phase' = [type |-> "picking", day |-> d]
          /\ dr_range' = Dates!Span(d, None)
      BY <1>2, <2>4 DEF Dates!handleSelect
    <3>2. dr_phase' \in Awaits /\ dr_range' \in Shows
      BY <2>1, <3>1 DEF Awaits, Shows, Dates!Span
    <3>3. QED
      BY <2>1, <3>1, <3>2
  <2>5. QED
    BY <2>2, <2>3, <2>4
<1>3. ASSUME NEW n \in RANGE_PRESETS, Dates!applyPreset(n) PROVE DatesInv'
  <2> DEFINE r == Dates!buildPresetDateRange(n, dr_timezone)
  <2>1. dr_value' = r /\ dr_range' = r /\ dr_phase' = Dates!Idle /\ UNCHANGED <<dr_timezone, dr_now>>
    BY <1>3 DEF Dates!applyPreset
  <2>2. IsRange(r)
    BY PresetIs
  <2> HIDE DEF r
  <2>3. r \in Shows
    BY <2>2 DEF IsRange, Shows, Dates!Span
  <2>4. QED
    BY <2>1, <2>2, <2>3
<1>4. ASSUME Dates!handleClear PROVE DatesInv'
  BY <1>4 DEF Dates!handleClear, Dates!picker
<1>5. ASSUME Dates!DateRangeFilterCalendar PROVE DatesInv'
  BY <1>5 DEF Dates!DateRangeFilterCalendar
<1>6. ASSUME NEW z \in Zones, Dates!setTimezone(z) PROVE DatesInv'
  BY <1>6 DEF Dates!setTimezone, Dates!picker
<1>7. ASSUME UNCHANGED vars_dr PROVE DatesInv'
  BY <1>7 DEF vars_dr
<1>8. QED
  BY <1>1, <1>2, <1>3, <1>4, <1>5, <1>6, <1>7 DEF Dates!Next

------------------------------------------------------------------------------
(* FilterToolbar.  Whatever the grid, a field is drawn in the row and at the place that
   its number among the fields says: the last row, which is drawn apart from the others
   beside the buttons, has no more fields than are drawn there.  The header of a page
   that has the switch knows the toolbar as it is, since every change tells it.       *)

\* The fields there are.
Names == {"dateRange", "keyword", "jobStatus", "jobTrigger", "tier", "severity", "level", "requestId", "status"}

\* What the header knows of a toolbar is the toolbar that is there.
FiltersInv ==
  /\ ft_page \in {"audit", "downloads"} /\ ft_tab \in Filters!Tabs /\ ft_screen \in DOMAIN GridColumns
  /\ ft_page = "audit" => ft_header = Filters!Told

\* The rows of a grid, of the fields that can be seen.
GridRows == Filters!chunkFilterFields(Filters!visibleFields, GridColumns[ft_screen])
Total == Len(Filters!visibleFields)
Wide == GridColumns[ft_screen]
RowCount == (Total + Wide - 1) \div Wide

\* Short sequences, and the concatenations of them that toolbars have.
LEMMA PairIs ==
  ASSUME NEW S, NEW a \in S, NEW b \in S
  PROVE  <<a, b>> \in Seq(S) /\ Len(<<a, b>>) = 2 /\ <<a, b>>[1] = a /\ <<a, b>>[2] = b
  OBVIOUS

LEMMA SingleIs ==
  ASSUME NEW S, NEW a \in S
  PROVE  <<a>> \in Seq(S) /\ Len(<<a>>) = 1 /\ <<a>>[1] = a
<1>1. <<a>> = [i \in 1..1 |-> a]
  OBVIOUS
<1>2. QED
  BY <1>1

LEMMA FiveAre ==
  ASSUME NEW S, NEW a \in S, NEW b \in S, NEW c \in S, NEW d \in S, NEW e \in S
  PROVE  LET s == <<a, b>> \o <<c, d>> \o <<e>> IN
         s \in Seq(S) /\ Len(s) = 5 /\ s[1] = a /\ s[2] = b /\ s[3] = c /\ s[4] = d /\ s[5] = e
<1> DEFINE p == <<a, b>>  q == <<c, d>>  r == <<e>>  t == p \o q  u == t \o r
<1>1. /\ p \in Seq(S) /\ Len(p) = 2 /\ p[1] = a /\ p[2] = b
      /\ q \in Seq(S) /\ Len(q) = 2 /\ q[1] = c /\ q[2] = d
      /\ r \in Seq(S) /\ Len(r) = 1 /\ r[1] = e
  BY PairIs, SingleIs
<1> HIDE DEF p, q, r
<1>2. /\ t \in Seq(S) /\ Len(t) = 4
      /\ t[1] = a /\ t[2] = b /\ t[3] = c /\ t[4] = d
  <2>1. /\ t \in Seq(S) /\ Len(t) = Len(p) + Len(q)
        /\ \A i \in 1..Len(p) + Len(q) : t[i] = IF i <= Len(p) THEN p[i] ELSE q[i - Len(p)]
    BY <1>1, ConcatProperties
  <2>2. QED
    BY <1>1, <2>1
<1> HIDE DEF t
<1>3. /\ u \in Seq(S) /\ Len(u) = 5
      /\ u[1] = a /\ u[2] = b /\ u[3] = c /\ u[4] = d /\ u[5] = e
  <2>1. /\ u \in Seq(S) /\ Len(u) = Len(t) + Len(r)
        /\ \A i \in 1..Len(t) + Len(r) : u[i] = IF i <= Len(t) THEN t[i] ELSE r[i - Len(t)]
    BY <1>1, <1>2, ConcatProperties
  <2>2. QED
    BY <1>1, <1>2, <2>1
<1>4. QED
  BY <1>3 DEF p, q, r, t, u

LEMMA FourAre ==
  ASSUME NEW S, NEW a \in S, NEW b \in S, NEW c \in S, NEW e \in S
  PROVE  LET s == <<a, b>> \o <<c>> \o <<e>> IN
         s \in Seq(S) /\ Len(s) = 4 /\ s[1] = a /\ s[2] = b /\ s[3] = c /\ s[4] = e
<1> DEFINE p == <<a, b>>  q == <<c>>  r == <<e>>  t == p \o q  u == t \o r
<1>1. /\ p \in Seq(S) /\ Len(p) = 2 /\ p[1] = a /\ p[2] = b
      /\ q \in Seq(S) /\ Len(q) = 1 /\ q[1] = c
      /\ r \in Seq(S) /\ Len(r) = 1 /\ r[1] = e
  BY PairIs, SingleIs
<1> HIDE DEF p, q, r
<1>2. /\ t \in Seq(S) /\ Len(t) = 3
      /\ t[1] = a /\ t[2] = b /\ t[3] = c
  <2>1. /\ t \in Seq(S) /\ Len(t) = Len(p) + Len(q)
        /\ \A i \in 1..Len(p) + Len(q) : t[i] = IF i <= Len(p) THEN p[i] ELSE q[i - Len(p)]
    BY <1>1, ConcatProperties
  <2>2. QED
    BY <1>1, <2>1
<1> HIDE DEF t
<1>3. /\ u \in Seq(S) /\ Len(u) = 4
      /\ u[1] = a /\ u[2] = b /\ u[3] = c /\ u[4] = e
  <2>1. /\ u \in Seq(S) /\ Len(u) = Len(t) + Len(r)
        /\ \A i \in 1..Len(t) + Len(r) : u[i] = IF i <= Len(t) THEN t[i] ELSE r[i - Len(t)]
    BY <1>1, <1>2, ConcatProperties
  <2>2. QED
    BY <1>1, <1>2, <2>1
<1>4. QED
  BY <1>3 DEF p, q, r, t, u

\* A toolbar has a field once.
LEMMA FieldsDiffer ==
  ASSUME FiltersInv
  PROVE  LET F == Filters!Fields(ft_tab) IN
         /\ F \in Seq(Names) /\ Len(F) > 0
         /\ \A i, j \in 1..Len(F) : F[i] = F[j] => i = j
         /\ Len(F) \in {Len(Filters!DownloadCenter)} \cup {Len(Filters!AuditFilterToolbar(t)) : t \in Filters!AuditTabs}
<1> DEFINE F == Filters!Fields(ft_tab)
<1>1. CASE ft_page = "downloads"
  <2>1. F = <<"keyword", "status">>
    BY <1>1 DEF Filters!Fields, Filters!DownloadCenter
  <2>2. "keyword" \in Names /\ "status" \in Names
    BY DEF Names
  <2>3. F \in Seq(Names) /\ Len(F) = 2 /\ F[1] = "keyword" /\ F[2] = "status"
    BY <2>1, <2>2, PairIs
  <2>4. F = Filters!DownloadCenter
    BY <1>1 DEF Filters!Fields
  <2> HIDE DEF F
  <2>5. QED
    BY <2>3, <2>4 DEF F
<1>2. CASE ft_page = "audit"
  <2>1. ft_tab \in Filters!AuditTabs /\ F = Filters!AuditFilterToolbar(ft_tab)
    BY <1>2 DEF FiltersInv, Filters!Tabs, Filters!Fields
  <2>2. Len(F) \in {Len(Filters!AuditFilterToolbar(t)) : t \in Filters!AuditTabs}
    BY <2>1
  <2>3. \E a, b \in Names \ {"dateRange", "keyword", "requestId"} :
           a # b /\ F \in {<<"dateRange", "keyword">> \o <<a, b>> \o <<"requestId">>,
                          <<"dateRange", "keyword">> \o <<a>> \o <<"requestId">>}
    <3>1. CASE ft_tab = "job-runs"
      <4>1. F = <<"dateRange", "keyword">> \o <<"jobStatus", "jobTrigger">> \o <<"requestId">>
        BY <2>1, <3>1 DEF Filters!AuditFilterToolbar
      <4>2. QED
        BY <4>1 DEF Names
    <3>2. CASE ft_tab = "slow-sql"
      <4>1. F = <<"dateRange", "keyword">> \o <<"tier", "severity">> \o <<"requestId">>
        BY <2>1, <3>2 DEF Filters!AuditFilterToolbar
      <4>2. QED
        BY <4>1 DEF Names
    <3>3. CASE ft_tab \in {"requests", "operations"}
      <4>1. F = <<"dateRange", "keyword">> \o <<"level">> \o <<"requestId">>
        BY <2>1, <3>3 DEF Filters!AuditFilterToolbar
      <4>2. /\ "level" \in Names \ {"dateRange", "keyword", "requestId"} /\ "level" # "tier"
            /\ "tier" \in Names \ {"dateRange", "keyword", "requestId"}
        BY DEF Names
      <4>3. QED
        BY <4>1, <4>2
    <3>4. QED
      BY <2>1, <3>1, <3>2, <3>3 DEF Filters!AuditTabs
  <2>4. PICK a, b \in Names \ {"dateRange", "keyword", "requestId"} :
           a # b /\ F \in {<<"dateRange", "keyword">> \o <<a, b>> \o <<"requestId">>,
                          <<"dateRange", "keyword">> \o <<a>> \o <<"requestId">>}
    BY <2>3
  <2>5. "dateRange" \in Names /\ "keyword" \in Names /\ "requestId" \in Names /\ a \in Names /\ b \in Names
    BY DEF Names
  <2> HIDE DEF F
  <2>6. CASE F = <<"dateRange", "keyword">> \o <<a, b>> \o <<"requestId">>
    <3>1. /\ F \in Seq(Names) /\ Len(F) = 5 /\ F[1] = "dateRange" /\ F[2] = "keyword" /\ F[3] = a /\ F[4] = b
          /\ F[5] = "requestId"
      BY <2>5, <2>6, FiveAre
    <3>2. \A i, j \in 1..5 : F[i] = F[j] => i = j
      BY <2>4, <3>1
    <3>3. QED
      BY <2>2, <3>1, <3>2 DEF F
  <2>7. CASE F = <<"dateRange", "keyword">> \o <<a>> \o <<"requestId">>
    <3>1. /\ F \in Seq(Names) /\ Len(F) = 4 /\ F[1] = "dateRange" /\ F[2] = "keyword" /\ F[3] = a
          /\ F[4] = "requestId"
      BY <2>5, <2>7, FourAre
    <3>2. \A i, j \in 1..4 : F[i] = F[j] => i = j
      BY <2>4, <3>1
    <3>3. QED
      BY <2>2, <3>1, <3>2 DEF F
  <2>8. QED
    BY <2>4, <2>6, <2>7
<1>3. QED
  BY <1>1, <1>2 DEF FiltersInv

\* A grid has columns, and what can be seen begins the fields.
LEMMA SeenIs ==
  ASSUME FiltersInv
  PROVE  LET F == Filters!Fields(ft_tab)
             V == Filters!visibleFields
         IN  /\ Wide \in Nat /\ Wide > 0
             /\ V \in Seq(Names) /\ Total \in Nat /\ Total <= Len(F)
             /\ \A i \in 1..Total : V[i] = F[i]
             /\ Filters!isFullyExpanded => V = F
             /\ ~Filters!isFullyExpanded /\ ft_screen # "phone" => Total = Wide
             /\ ~(ft_screen = "phone" /\ ~Filters!isFullyExpanded) => Total > 0
<1>1. Wide \in Nat /\ Wide > 0
  BY FiltersConstantsFit DEF Filters!ConstantsFit, FiltersInv, Wide
<1>2. CASE Filters!isFullyExpanded
  BY <1>1, <1>2, FieldsDiffer DEF Filters!visibleFields, Total
<1>3. CASE ~Filters!isFullyExpanded /\ ft_screen = "phone"
  BY <1>1, <1>3, FieldsDiffer DEF Filters!visibleFields, Total, Filters!isMobile
<1>4. CASE ~Filters!isFullyExpanded /\ ft_screen # "phone"
  <2>1. Len(Filters!Fields(ft_tab)) > Wide
    BY <1>4 DEF Filters!isFullyExpanded, Filters!needsCollapse, Filters!isMobile, Wide
  <2>2. Filters!visibleFields = SubSeq(Filters!Fields(ft_tab), 1, Wide)
    BY <1>4 DEF Filters!visibleFields, Filters!isMobile, Wide
  <2>3. QED
    BY <1>1, <1>4, <2>1, <2>2, FieldsDiffer DEF Total
<1>5. QED
  BY <1>2, <1>3, <1>4

\* The rows are of one width, but for the last, and have all fields in their order.
LEMMA RowsAre ==
  ASSUME FiltersInv, Total > 0
  PROVE  /\ RowCount \in Nat /\ RowCount > 0 /\ (RowCount - 1) * Wide < Total /\ Total <= RowCount * Wide
         /\ GridRows \in Seq(Seq(Names)) /\ Len(GridRows) = RowCount
         /\ \A r \in 1..RowCount :
              /\ (r - 1) * Wide \in Int /\ r * Wide = (r - 1) * Wide + Wide
              /\ Len(GridRows[r]) = IF r < RowCount THEN Wide ELSE Total - (RowCount - 1) * Wide
              /\ Len(GridRows[r]) \in 1..Wide
              /\ \A i \in 1..Len(GridRows[r]) :
                   (r - 1) * Wide + i \in 1..Total /\ GridRows[r][i] = Filters!visibleFields[(r - 1) * Wide + i]
<1> DEFINE V == Filters!visibleFields
           R == RowCount
<1>1. Wide \in Nat /\ Wide > 0 /\ V \in Seq(Names) /\ Total \in Nat /\ Total = Len(V)
  BY SeenIs DEF Total
<1>2. R \in Int /\ R * Wide <= Total + Wide - 1 /\ Total + Wide - 1 < R * Wide + Wide /\ 1 <= R /\ R * Wide \in Int
  <2>1. Total + Wide - 1 \in Int /\ 1 * Wide <= Total + Wide - 1
    BY <1>1
  <2>2. QED
    BY <1>1, <2>1, QuotientIs DEF RowCount
<1>3. (R - 1) * Wide = R * Wide - Wide
  BY <1>1, <1>2
<1>4. ASSUME NEW r \in 1..R
      PROVE  /\ (r - 1) * Wide \in Int /\ r * Wide = (r - 1) * Wide + Wide /\ (r - 1) * Wide >= 0
             /\ r < R => r * Wide <= (R - 1) * Wide
  <2>1. r \in Int /\ 1 <= r /\ r <= R /\ R \in Int /\ Wide \in Int /\ Wide > 0
    BY <1>1, <1>2, <1>4
  <2>2. (r - 1) * Wide >= 0 /\ (r < R => (R - 1 - r) * Wide >= 0)
    BY <2>1
  <2>3. QED
    BY <2>1, <2>2
<1> HIDE DEF R
<1> DEFINE row(r) == SubSeq(V, (r - 1) * Wide + 1, IF r * Wide < Total THEN r * Wide ELSE Total)
<1>5. GridRows = [r \in 1..R |-> row(r)]
  BY DEF GridRows, Filters!chunkFilterFields, R, RowCount, Total, Wide
<1> HIDE DEF V
<1>6. ASSUME NEW r \in 1..R
      PROVE  /\ row(r) \in Seq(Names)
             /\ Len(row(r)) = IF r < R THEN Wide ELSE Total - (R - 1) * Wide
             /\ Len(row(r)) \in 1..Wide
             /\ \A i \in 1..Len(row(r)) : (r - 1) * Wide + i \in 1..Total /\ row(r)[i] = V[(r - 1) * Wide + i]
  <2> DEFINE a == (r - 1) * Wide
             e == IF r * Wide < Total THEN r * Wide ELSE Total
  <2>1. /\ a \in Nat /\ r * Wide = a + Wide /\ e \in Nat /\ e <= Total /\ a < e /\ e <= a + Wide
        /\ e - a = IF r < R THEN Wide ELSE Total - (R - 1) * Wide
    <3>1. CASE r < R
      BY <1>1, <1>2, <1>3, <1>4, <3>1
    <3>2. CASE r = R
      <4>1. a = (R - 1) * Wide /\ r * Wide = R * Wide
        BY <3>2
      <4>2. a \in Int /\ a >= 0
        BY <1>4
      <4>3. a = R * Wide - Wide
        BY <1>3, <4>1
      <4> HIDE DEF a
      <4>4. a < Total /\ Total <= a + Wide /\ r * Wide = a + Wide
        BY <1>1, <1>2, <4>1, <4>2, <4>3
      <4>5. e = Total
        BY <1>1, <4>2, <4>4
      <4> HIDE DEF e
      <4>6. ~(r < R)
        BY <1>2, <3>2
      <4>7. QED
        BY <1>1, <4>1, <4>2, <4>4, <4>5, <4>6
    <3>3. QED
      BY <1>2, <3>1, <3>2
  <2>2. row(r) = SubSeq(V, a + 1, e)
    OBVIOUS
  <2> HIDE DEF a, e, row
  <2>3. /\ SubSeq(V, a + 1, e) \in Seq(Names) /\ Len(SubSeq(V, a + 1, e)) = e - a
        /\ \A i \in 1..(e - a) : SubSeq(V, a + 1, e)[i] = V[a + i]
    BY <1>1, <2>1
  <2>4. \A i \in 1..(e - a) : a + i \in 1..Total
    BY <1>1, <2>1
  <2>5. QED
    BY <1>1, <2>1, <2>2, <2>3, <2>4 DEF a
<1> HIDE DEF row
<1>7. GridRows \in Seq(Seq(Names)) /\ Len(GridRows) = R
  BY <1>2, <1>5, <1>6
<1>8. QED
  BY <1>1, <1>2, <1>3, <1>4, <1>5, <1>6, <1>7 DEF R, V

\* Where a field is drawn: in its row and its place there; a row above the buttons
\* reaches to the end with its last field only, the one beside them does not.
LEMMA CellsAre ==
  ASSUME FiltersInv, Total > 0, ~(ft_screen = "phone" /\ ~Filters!isFullyExpanded)
  PROVE  /\ \A c \in Filters!Cells :
              \E r \in 1..RowCount : \E i \in 1..Len(GridRows[r]) :
                /\ c.field = GridRows[r][i] /\ c.row = r /\ c.from = i
                /\ i # Len(GridRows[r]) => c.to = i
                /\ Filters!desktopActionGrid /\ c.row = Len(Filters!resolveFilterToolbarRowLayout.stretch) + 1
                     => c.to <= Wide
         /\ \A r \in 1..RowCount : \A i \in 1..Len(GridRows[r]) :
              \E c \in Filters!Cells : c.field = GridRows[r][i]
<1> DEFINE l == Filters!resolveFilterToolbarRowLayout
           R == RowCount
           stretches == l.stretch # <<>>
           drawn == Filters!resolveActionFieldRenderCount(Len(l.action), stretches)
           last(row, i) == IF Filters!desktopActionGrid THEN Filters!resolveStretchFieldGridColumn(i, Len(row)) ELSE i
           column(i) == Filters!resolveActionFieldGridColumn(i, Len(l.action), stretches)
           shares == (IF Filters!mobileActionsInHeader THEN FALSE ELSE Filters!showActionBar)
                       /\ ~Filters!mobileExpandedLayout
           A == UNION {{[field |-> l.stretch[r][i], row |-> r, from |-> i, to |-> last(l.stretch[r], i)] :
                          i \in DOMAIN l.stretch[r]} : r \in DOMAIN l.stretch}
           B == {[field |-> l.action[i], row |-> Len(l.stretch) + 1, from |-> column(i), to |-> column(i)] :
                          i \in 1..drawn}
<1>1. Filters!Cells = A \cup B
  BY DEF Filters!Cells
<1>2. /\ R \in Int /\ R > 0 /\ GridRows \in Seq(Seq(Names)) /\ Len(GridRows) = R /\ GridRows # <<>>
      /\ Wide \in Int /\ Wide > 0
      /\ \A r \in 1..R : /\ GridRows[r] \in Seq(Names) /\ Len(GridRows[r]) \in 1..Wide
                         /\ DOMAIN GridRows[r] = 1..Len(GridRows[r])
  <2>1. /\ R \in Int /\ R > 0 /\ GridRows \in Seq(Seq(Names)) /\ Len(GridRows) = R
        /\ Wide \in Int /\ Wide > 0
        /\ \A r \in 1..R : Len(GridRows[r]) \in 1..Wide
    BY RowsAre, SeenIs
  <2>2. \A r \in 1..R : GridRows[r] \in Seq(Names)
    BY <2>1
  <2>3. QED
    BY <2>1, <2>2
<1>3. l = IF ~shares THEN [stretch |-> GridRows, action |-> <<>>]
          ELSE [stretch |-> SubSeq(GridRows, 1, R - 1), action |-> GridRows[R]]
  BY <1>2 DEF Filters!resolveFilterToolbarRowLayout, GridRows
<1> HIDE DEF R, l, shares, drawn, last, column
<1>4. CASE ~shares
  <2>1. l.stretch = GridRows /\ Len(l.action) = 0 /\ DOMAIN l.stretch = 1..R
    BY <1>2, <1>3, <1>4
  <2>2. drawn = 0
    BY <2>1, FiltersConstantsFit DEF drawn, Filters!resolveActionFieldRenderCount, Filters!ConstantsFit
  <2>3. ~Filters!desktopActionGrid
    BY <1>4 DEF shares, Filters!desktopActionGrid, Filters!mobileActionsInHeader, Filters!mobileExpandedLayout,
       Filters!isMobile
  <2>4. A = UNION {{[field |-> GridRows[r][i], row |-> r, from |-> i, to |-> i] :
                      i \in 1..Len(GridRows[r])} : r \in 1..R}
    BY <1>2, <2>1, <2>3 DEF last
  <2>5. B = {}
    BY <2>2
  <2> HIDE DEF A, B
  <2>6. ASSUME NEW c \in A
        PROVE  \E r \in 1..R : \E i \in 1..Len(GridRows[r]) :
                 c = [field |-> GridRows[r][i], row |-> r, from |-> i, to |-> i]
    BY <2>4
  <2>7. ASSUME NEW r \in 1..R, NEW i \in 1..Len(GridRows[r])
        PROVE  [field |-> GridRows[r][i], row |-> r, from |-> i, to |-> i] \in A
    BY <2>4
  <2>8. \A c \in A : \E r \in 1..R : \E i \in 1..Len(GridRows[r]) :
          c.field = GridRows[r][i] /\ c.row = r /\ c.from = i /\ c.to = i
    BY <2>6
  <2>9. \A r \in 1..R : \A i \in 1..Len(GridRows[r]) : \E c \in A : c.field = GridRows[r][i]
    BY <2>7
  <2>10. QED
    BY <1>1, <2>3, <2>5, <2>8, <2>9 DEF R
<1>5. CASE shares
  <2>1. /\ l.stretch = SubSeq(GridRows, 1, R - 1) /\ l.action = GridRows[R]
    BY <1>3, <1>5
  <2>2. /\ Len(l.stretch) = R - 1 /\ DOMAIN l.stretch = 1..(R - 1)
        /\ \A r \in 1..(R - 1) : l.stretch[r] = GridRows[r]
        /\ stretches <=> R > 1
    <3>1. l.stretch \in Seq(Seq(Names)) /\ Len(l.stretch) = R - 1 /\ \A r \in 1..(R - 1) : l.stretch[r] = GridRows[r]
      BY <1>2, <2>1
    <3>2. QED
      BY <1>2, <3>1
  <2> HIDE DEF stretches
  <2>3. Len(l.action) \in 1..Wide /\ R \in 1..R
    BY <1>2, <2>1
  <2>4. R > 1 => Len(l.action) <= FILTER_ACTION_ROW_MAX_COLS
    <3>1. ASSUME R > 1 PROVE Total > Wide /\ (Total - 1) % Wide = Len(l.action) - 1
      <4>1. /\ (R - 1) * Wide \in Int /\ (R - 1) * Wide < Total /\ Len(l.action) = Total - (R - 1) * Wide
            /\ (R - 1) * Wide >= Wide /\ Total \in Int
        <5>1. (R - 2) * Wide >= 0
          BY <1>2, <3>1
        <5>2. (R - 1) * Wide = (R - 2) * Wide + Wide
          BY <1>2
        <5>3. (R - 1) * Wide < Total /\ Len(l.action) = Total - (R - 1) * Wide
          BY <2>1, <2>3, RowsAre DEF R
        <5>4. QED
          BY <1>2, <5>1, <5>2, <5>3, SeenIs
      <4>2. (Total - 1) % Wide = Total - 1 - (R - 1) * Wide
        <5> DEFINE q == R - 1
                   t == Total - 1
        <5>1. q \in Int /\ t \in Int /\ q * Wide <= t /\ t < q * Wide + Wide /\ q * Wide \in Int
          BY <1>2, <2>3, <4>1
        <5> HIDE DEF q, t
        <5>2. t \div Wide = q
          <6>1. t \div Wide \in Int /\ q <= t \div Wide /\ t \div Wide <= q
            BY <1>2, <5>1, QuotientIs
          <6>2. QED
            BY <5>1, <6>1
        <5>3. t % Wide = t - (t \div Wide) * Wide
          BY <1>2, <5>1
        <5>4. QED
          BY <5>2, <5>3 DEF q, t
      <4>3. Total > Wide /\ Total - 1 - (R - 1) * Wide = Len(l.action) - 1
        <5> DEFINE p == (R - 1) * Wide
        <5>1. p \in Int /\ p < Total /\ Len(l.action) = Total - p /\ p >= Wide /\ Total \in Int
          BY <4>1
        <5> HIDE DEF p
        <5>2. Total > Wide /\ Total - 1 - p = Len(l.action) - 1
          BY <1>2, <5>1
        <5>3. QED
          BY <5>2 DEF p
      <4>4. QED
        BY <4>2, <4>3
    <3>2. ASSUME R > 1 PROVE Filters!isFullyExpanded
      <4>1. ASSUME Total = Wide PROVE FALSE
        BY <1>2, <3>1, <3>2, <4>1
      <4>2. QED
        BY <4>1, SeenIs
    <3>3. ASSUME R > 1 PROVE ft_screen # "phone"
      BY <1>5, <3>2, <3>3 DEF shares, Filters!mobileExpandedLayout, Filters!isMobile
    <3>4. QED
      <4>1. SUFFICES ASSUME R > 1 PROVE Len(l.action) <= FILTER_ACTION_ROW_MAX_COLS
        OBVIOUS
      <4>2. Total = Len(Filters!Fields(ft_tab))
        BY <3>2, <4>1, SeenIs DEF Total
      <4>3. (Total - 1) % Wide < FILTER_ACTION_ROW_MAX_COLS
        BY <3>1, <3>3, <4>1, <4>2, FieldsDiffer, FiltersConstantsFit DEF Filters!ConstantsFit, FiltersInv, Wide
      <4>4. QED
        BY <2>3, <3>1, <4>1, <4>3, FiltersConstantsFit DEF Filters!ConstantsFit
  <2>5. drawn = Len(l.action)
    BY <2>2, <2>3, <2>4, FiltersConstantsFit DEF drawn, Filters!resolveActionFieldRenderCount, Filters!ConstantsFit
  <2>6. ASSUME NEW i \in 1..Len(l.action) PROVE column(i) = i
    <3>1. CASE ~stretches
      BY <3>1 DEF column, Filters!resolveActionFieldGridColumn
    <3>2. CASE stretches
      <4> DEFINE N == {Len(l.action), FILTER_ACTION_ROW_MAX_COLS, GridColumns[ft_screen]}
                 capped == CHOOSE n \in N : \A m \in N : n <= m
      <4>1. /\ Len(l.action) \in Int /\ FILTER_ACTION_ROW_MAX_COLS \in Int /\ GridColumns[ft_screen] \in Int
            /\ Len(l.action) <= FILTER_ACTION_ROW_MAX_COLS /\ Len(l.action) <= GridColumns[ft_screen]
        BY <1>2, <2>2, <2>3, <2>4, <3>2, FiltersConstantsFit DEF Filters!ConstantsFit, Wide
      <4>2. Len(l.action) \in N /\ \A m \in N : Len(l.action) <= m
        BY <4>1
      <4>3. capped \in N /\ \A m \in N : capped <= m
        BY <4>2
      <4>4. capped = Len(l.action)
        <5>1. capped <= Len(l.action) /\ Len(l.action) <= capped /\ capped \in Int
          BY <4>1, <4>2, <4>3
        <5>2. QED
          BY <4>1, <5>1
      <4>5. column(i) = IF i < capped THEN i ELSE capped
        BY <3>2 DEF column, Filters!resolveActionFieldGridColumn
      <4> HIDE DEF capped
      <4>6. QED
        BY <2>6, <4>1, <4>4, <4>5
    <3>3. QED
      BY <3>1, <3>2
  <2>7. B = {[field |-> GridRows[R][i], row |-> R, from |-> i, to |-> i] : i \in 1..Len(GridRows[R])}
    BY <1>2, <2>1, <2>2, <2>5, <2>6
  <2>8. A = UNION {{[field |-> GridRows[r][i], row |-> r, from |-> i, to |-> last(GridRows[r], i)] :
                      i \in 1..Len(GridRows[r])} : r \in 1..(R - 1)}
    <3>1. ASSUME NEW r \in 1..(R - 1)
          PROVE  {[field |-> l.stretch[r][i], row |-> r, from |-> i, to |-> last(l.stretch[r], i)] :
                    i \in DOMAIN l.stretch[r]}
                 = {[field |-> GridRows[r][i], row |-> r, from |-> i, to |-> last(GridRows[r], i)] :
                    i \in 1..Len(GridRows[r])}
      <4>1. l.stretch[r] = GridRows[r] /\ r \in 1..R
        BY <1>2, <2>2
      <4>2. DOMAIN l.stretch[r] = 1..Len(GridRows[r])
        BY <1>2, <4>1
      <4>3. QED
        BY <4>1, <4>2
    <3>2. QED
      BY <2>2, <3>1
  <2>9. ASSUME NEW r \in 1..R, NEW i \in 1..Len(GridRows[r]), i # Len(GridRows[r])
        PROVE  last(GridRows[r], i) = i
    BY <2>9 DEF last, Filters!resolveStretchFieldGridColumn
  <2> HIDE DEF A, B
  <2>10. ASSUME NEW c \in A
         PROVE  \E r \in 1..(R - 1) : \E i \in 1..Len(GridRows[r]) :
                  c.field = GridRows[r][i] /\ c.row = r /\ c.from = i /\ c.to = last(GridRows[r], i)
    BY <2>8
  <2>11. ASSUME NEW c \in B
         PROVE  \E i \in 1..Len(GridRows[R]) : c.field = GridRows[R][i] /\ c.row = R /\ c.from = i /\ c.to = i
    BY <2>7
  <2>12. \A c \in A \cup B :
           \E r \in 1..R : \E i \in 1..Len(GridRows[r]) :
             /\ c.field = GridRows[r][i] /\ c.row = r /\ c.from = i
             /\ i # Len(GridRows[r]) => c.to = i
             /\ Filters!desktopActionGrid /\ c.row = Len(l.stretch) + 1 => c.to <= Wide
    <3>1. ASSUME NEW c \in A
          PROVE  \E r \in 1..R : \E i \in 1..Len(GridRows[r]) :
                   /\ c.field = GridRows[r][i] /\ c.row = r /\ c.from = i
                   /\ i # Len(GridRows[r]) => c.to = i
                   /\ c.row # Len(l.stretch) + 1
      <4>1. PICK r \in 1..(R - 1) : \E i \in 1..Len(GridRows[r]) :
               c.field = GridRows[r][i] /\ c.row = r /\ c.from = i /\ c.to = last(GridRows[r], i)
        BY <2>10
      <4>2. r \in 1..R /\ r # Len(l.stretch) + 1
        BY <1>2, <2>2
      <4>3. QED
        BY <2>9, <4>1, <4>2
    <3>2. ASSUME NEW c \in B
          PROVE  \E i \in 1..Len(GridRows[R]) :
                   c.field = GridRows[R][i] /\ c.row = R /\ c.from = i /\ c.to = i /\ c.to <= Wide
      BY <1>2, <2>1, <2>3, <2>11
    <3>3. QED
      BY <2>3, <3>1, <3>2
  <2>13. ASSUME NEW r \in 1..R, NEW i \in 1..Len(GridRows[r])
         PROVE  \E c \in A \cup B : c.field = GridRows[r][i]
    <3>1. CASE r = R
      <4>1. [field |-> GridRows[R][i], row |-> R, from |-> i, to |-> i] \in B
        BY <2>7, <3>1
      <4>2. QED
        BY <3>1, <4>1
    <3>2. CASE r # R
      <4>1. r \in 1..(R - 1)
        BY <1>2, <3>2
      <4>2. [field |-> GridRows[r][i], row |-> r, from |-> i, to |-> last(GridRows[r], i)] \in A
        BY <2>8, <4>1
      <4>3. QED
        BY <4>2
    <3>3. QED
      BY <3>1, <3>2
  <2>14. QED
    BY <1>1, <2>12, <2>13 DEF R, l
<1>6. QED
  BY <1>4, <1>5

\* The place of a field among all is that of its row and its place in it.
LEMMA PlaceIs ==
  ASSUME FiltersInv, Total > 0, NEW r \in 1..RowCount, NEW i \in 1..Len(GridRows[r]),
         NEW k \in 1..Len(Filters!Fields(ft_tab)), GridRows[r][i] = Filters!Fields(ft_tab)[k]
  PROVE  k = (r - 1) * Wide + i
<1>1. /\ (r - 1) * Wide + i \in 1..Total
      /\ GridRows[r][i] = Filters!visibleFields[(r - 1) * Wide + i]
  BY RowsAre
<1>2. (r - 1) * Wide + i \in 1..Len(Filters!Fields(ft_tab))
  BY <1>1, SeenIs, FieldsDiffer
<1>3. GridRows[r][i] = Filters!Fields(ft_tab)[(r - 1) * Wide + i]
  BY <1>1, SeenIs
<1>4. QED
  BY <1>2, <1>3, FieldsDiffer

LEMMA FieldsPlaced ==
  ASSUME FiltersInv
  PROVE  Filters!FieldsHaveTheirPlace
<1> DEFINE F == Filters!Fields(ft_tab)
<1>1. CASE ft_screen = "phone" /\ ~Filters!isFullyExpanded
  BY <1>1 DEF Filters!FieldsHaveTheirPlace, Filters!Drawn, Filters!isMobile
<1>2. CASE ~(ft_screen = "phone" /\ ~Filters!isFullyExpanded)
  <2>1. Total > 0 /\ Wide \in Int /\ Wide > 0 /\ Filters!Drawn = Filters!Cells
    BY <1>2, SeenIs DEF Filters!Drawn, Filters!isMobile
  <2>2. ASSUME Filters!isFullyExpanded PROVE {c.field : c \in Filters!Drawn} = Filters!Range(F)
    <3>1. Filters!visibleFields = F /\ Total = Len(F) /\ Total \in Int /\ DOMAIN F = 1..Len(F)
      BY <2>2, SeenIs, FieldsDiffer DEF Total
    <3>2. ASSUME NEW c \in Filters!Drawn PROVE c.field \in Filters!Range(F)
      <4>1. PICK r \in 1..RowCount : \E i \in 1..Len(GridRows[r]) : c.field = GridRows[r][i]
        BY <1>2, <2>1, CellsAre
      <4> PICK i \in 1..Len(GridRows[r]) : c.field = GridRows[r][i]
        BY <4>1
      <4>2. (r - 1) * Wide + i \in 1..Total /\ c.field = F[(r - 1) * Wide + i]
        BY <2>1, <3>1, <4>1, RowsAre
      <4>3. QED
        BY <3>1, <4>2 DEF Filters!Range
    <3>3. ASSUME NEW k \in 1..Len(F) PROVE \E c \in Filters!Drawn : c.field = F[k]
      <4> DEFINE q == (k - 1) \div Wide
                 r == q + 1
                 i == k - q * Wide
      <4>1. RowCount \in Int /\ Total <= RowCount * Wide /\ (RowCount - 1) * Wide < Total
            /\ RowCount * Wide \in Int /\ (RowCount - 1) * Wide = RowCount * Wide - Wide
        BY <2>1, RowsAre
      <4>2. k \in Int /\ 1 <= k /\ k <= Total
        BY <3>1
      <4>3. /\ q \in Int /\ q * Wide \in Int /\ q * Wide <= k - 1 /\ k - 1 < q * Wide + Wide /\ 0 <= q
            /\ q <= RowCount - 1
        <5>1. k - 1 \in Int /\ 0 * Wide <= k - 1
          BY <2>1, <4>2
        <5>2. k - 1 < (RowCount - 1) * Wide + Wide
          BY <2>1, <3>1, <4>1, <4>2
        <5>3. q \in Int /\ q * Wide <= k - 1 /\ k - 1 < q * Wide + Wide /\ 0 <= q
          BY <2>1, <5>1, QuotientIs
        <5>4. q <= RowCount - 1
          BY <2>1, <4>1, <5>1, <5>2, QuotientIs
        <5>5. QED
          BY <2>1, <5>3, <5>4
      <4> HIDE DEF q
      <4>4. r \in 1..RowCount /\ r - 1 = q
        BY <4>1, <4>3
      <4>5. Len(GridRows[r]) = IF r < RowCount THEN Wide ELSE Total - (RowCount - 1) * Wide
        BY <2>1, <4>4, RowsAre
      <4>6. i \in 1..Len(GridRows[r])
        <5>1. CASE r < RowCount
          BY <2>1, <4>2, <4>3, <4>5, <5>1
        <5>2. CASE r = RowCount
          <6>1. Len(GridRows[r]) = Total - q * Wide
            BY <4>1, <4>3, <4>5, <5>2
          <6>2. QED
            BY <3>1, <4>2, <4>3, <6>1
        <5>3. QED
          BY <4>1, <4>4, <5>1, <5>2
      <4>7. (r - 1) * Wide + i = k
        BY <4>2, <4>3, <4>4
      <4> HIDE DEF r, i
      <4>8. GridRows[r][i] = F[k]
        BY <2>1, <3>1, <4>4, <4>6, <4>7, RowsAre
      <4>9. QED
        BY <1>2, <2>1, <4>4, <4>6, <4>8, CellsAre
    <3>4. QED
      BY <3>1, <3>2, <3>3 DEF Filters!Range
  <2>3. ASSUME NEW i \in 1..Len(F), NEW j \in 1..Len(F), i < j,
               NEW a \in Filters!Drawn, NEW b \in Filters!Drawn, a.field = F[i], b.field = F[j]
        PROVE  Filters!Before(a, b)
    <3> PICK r \in 1..RowCount : \E x \in 1..Len(GridRows[r]) :
             a.field = GridRows[r][x] /\ a.row = r /\ a.from = x /\ (x # Len(GridRows[r]) => a.to = x)
      BY <1>2, <2>1, CellsAre
    <3>1. PICK x \in 1..Len(GridRows[r]) :
             a.field = GridRows[r][x] /\ a.row = r /\ a.from = x /\ (x # Len(GridRows[r]) => a.to = x)
      OBVIOUS
    <3> PICK s \in 1..RowCount : \E y \in 1..Len(GridRows[s]) :
             b.field = GridRows[s][y] /\ b.row = s /\ b.from = y /\ (y # Len(GridRows[s]) => b.to = y)
      BY <1>2, <2>1, CellsAre
    <3>2. PICK y \in 1..Len(GridRows[s]) :
             b.field = GridRows[s][y] /\ b.row = s /\ b.from = y /\ (y # Len(GridRows[s]) => b.to = y)
      OBVIOUS
    <3>3. i = (r - 1) * Wide + x /\ j = (s - 1) * Wide + y
      <4>1. GridRows[r][x] = F[i] /\ GridRows[s][y] = F[j]
        BY <2>3, <3>1, <3>2
      <4>2. i = (r - 1) * Wide + x
        BY <2>1, <4>1, PlaceIs
      <4>3. j = (s - 1) * Wide + y
        BY <2>1, <4>1, PlaceIs
      <4>4. QED
        BY <4>2, <4>3
    <3>4. /\ r \in Int /\ s \in Int /\ x \in Int /\ y \in Int /\ 1 <= x /\ x <= Len(GridRows[r]) /\ 1 <= y
          /\ y <= Len(GridRows[s]) /\ y <= Wide /\ Len(GridRows[r]) \in Int /\ Len(GridRows[s]) \in Int
      <4>1. /\ RowCount \in Int /\ Len(GridRows[r]) \in 1..Wide /\ Len(GridRows[s]) \in 1..Wide
        BY <2>1, RowsAre
      <4>2. QED
        BY <2>1, <4>1
    <3>5. ASSUME s < r PROVE FALSE
      <4>1. (r - s - 1) * Wide >= 0
        BY <2>1, <3>4, <3>5
      <4>2. (r - 1) * Wide = (r - s - 1) * Wide + (s - 1) * Wide + Wide /\ (s - 1) * Wide \in Int
            /\ (r - s - 1) * Wide \in Int
        BY <2>1, <3>4
      <4> DEFINE p == (r - s - 1) * Wide  t == (s - 1) * Wide
      <4>3. i = p + t + Wide + x /\ j = t + y /\ p \in Int /\ t \in Int /\ p >= 0
        BY <3>3, <4>1, <4>2
      <4> HIDE DEF p, t
      <4>4. QED
        BY <2>1, <2>3, <3>4, <4>3
    <3>6. CASE s = r
      <4>1. x < y
        <5> DEFINE t == (s - 1) * Wide
        <5>1. i = t + x /\ j = t + y /\ t \in Int
          BY <2>1, <3>3, <3>4, <3>6
        <5> HIDE DEF t
        <5>2. QED
          BY <2>3, <3>4, <5>1
      <4>2. a.to = x
        BY <3>1, <3>4, <3>6, <4>1
      <4>3. QED
        BY <3>1, <3>2, <3>6, <4>1, <4>2 DEF Filters!Before
    <3>7. CASE r < s
      BY <3>1, <3>2, <3>7 DEF Filters!Before
    <3>8. QED
      BY <3>4, <3>5, <3>6, <3>7
  <2>4. ASSUME NEW c \in Filters!Drawn, Filters!desktopActionGrid,
               c.row = Len(Filters!resolveFilterToolbarRowLayout.stretch) + 1
        PROVE  c.to <= GridColumns[ft_screen]
    BY <1>2, <2>1, <2>4, CellsAre DEF Wide
  <2>5. DOMAIN F = 1..Len(F)
    BY FieldsDiffer
  <2>6. QED
    BY <2>2, <2>3, <2>4, <2>5 DEF Filters!FieldsHaveTheirPlace
<1>3. QED
  BY <1>1, <1>2

LEMMA SwitchAndCount ==
  ASSUME FiltersInv
  PROVE  Filters!SwitchWorks /\ Filters!NoSilentFilter
<1>1. ASSUME Filters!needsCollapse, ~Filters!InToolbar
      PROVE  Filters!InHeader /\ ft_header = Filters!Told
  <2>1. Filters!isMobile /\ Filters!Wrapped
    BY <1>1 DEF Filters!InToolbar, Filters!mobileActionsInHeader
  <2>2. ft_header = Filters!Told
    BY <2>1 DEF FiltersInv, Filters!Wrapped
  <2>3. ft_header.bar = Filters!showActionBar /\ ft_header.collapse = Filters!needsCollapse
    BY <2>2 DEF Filters!Told
  <2>4. Filters!showActionBar
    BY <1>1 DEF Filters!showActionBar
  <2>5. QED
    BY <1>1, <2>1, <2>2, <2>3, <2>4, Zenon DEF Filters!InHeader
<1>2. Filters!SwitchWorks
  BY <1>1 DEF Filters!SwitchWorks, Filters!Told
<1>3. ASSUME ft_page = "audit", NEW f \in ft_active \cap Filters!Range(Filters!Fields(ft_tab))
      PROVE  Filters!hiddenActiveCount > 0
  <2> DEFINE S == ft_active \cap Filters!Range(Filters!Fields(ft_tab))
  <2>1. Filters!Range(Filters!Fields(ft_tab)) \subseteq Names
    BY FieldsDiffer DEF Filters!Range
  <2>2. IsFiniteSet(Names)
    <3>1. IsFiniteSet({}) /\ Names = (((((((({} \cup {"dateRange"}) \cup {"keyword"}) \cup {"jobStatus"}) \cup {"jobTrigger"})
                                 \cup {"tier"}) \cup {"severity"}) \cup {"level"}) \cup {"requestId"}) \cup {"status"}
      BY FS_EmptySet DEF Names
    <3>2. \A T : \A e : IsFiniteSet(T) => IsFiniteSet(T \cup {e})
      BY FS_AddElement
    <3>3. QED
      BY <3>1, <3>2
  <2>3. IsFiniteSet(S) /\ S # {}
    BY <1>3, <2>1, <2>2, FS_Subset
  <2>4. Cardinality(S) \in Nat /\ Cardinality(S) # 0
    BY <2>3, FS_CardinalityType, FS_EmptySet
  <2>5. Filters!hiddenActiveCount = Cardinality(S)
    BY <1>3 DEF Filters!hiddenActiveCount, Filters!Cardinality, Cardinality, Filters!Range
  <2>6. QED
    BY <2>4, <2>5
<1>4. Filters!NoSilentFilter
  <2>1. SUFFICES ASSUME ft_page = "audit", ~Filters!isFullyExpanded,
                        NEW f \in (ft_active \cap Filters!Range(Filters!Fields(ft_tab))) \ {c.field : c \in Filters!Drawn}
                 PROVE  IF Filters!InToolbar THEN Filters!hiddenActiveCount > 0
                        ELSE Filters!InHeader /\ ft_header.count > 0
    BY DEF Filters!NoSilentFilter, Filters!Range
  <2>2. Filters!hiddenActiveCount > 0
    BY <1>3, <2>1
  <2>3. Filters!needsCollapse
    BY <2>1 DEF Filters!isFullyExpanded
  <2>4. QED
    BY <1>1, <2>2, <2>3 DEF Filters!Told
<1>5. QED
  BY <1>2, <1>4

LEMMA FiltersInvAgrees ==
  ASSUME FiltersInv
  PROVE  Filters!FiltersAgree
  BY FieldsPlaced, SwitchAndCount DEF Filters!FiltersAgree

LEMMA FiltersStart == Filters!Init => FiltersInv
  BY DEF Filters!Init, FiltersInv, Filters!Wrapped

LEMMA FiltersStep == FiltersInv /\ [Filters!Next]_vars_ft => FiltersInv'
<1> SUFFICES ASSUME FiltersInv, [Filters!Next]_vars_ft PROVE FiltersInv'
  OBVIOUS
<1>1. ASSUME Filters!usePageFilterToolbarMobileSync, ft_page' = ft_page, ft_tab' \in Filters!Tabs,
             ft_screen' \in DOMAIN GridColumns
      PROVE  FiltersInv'
  <2>1. ft_page = "audit" => ft_header' = Filters!Told'
    BY <1>1 DEF Filters!usePageFilterToolbarMobileSync, Filters!Wrapped
  <2>2. Filters!Tabs' = Filters!Tabs
    BY <1>1 DEF Filters!Tabs
  <2>3. QED
    BY <1>1, <2>1, <2>2 DEF FiltersInv
<1>2. ASSUME NEW t \in Filters!Tabs, Filters!handleTabChange(t) PROVE FiltersInv'
  BY <1>1, <1>2 DEF FiltersInv, Filters!handleTabChange
<1>3. ASSUME NEW f, Filters!Fill(f) PROVE FiltersInv'
  BY <1>1, <1>3 DEF FiltersInv, Filters!Fill
<1>4. CASE Filters!toggleExpanded
  BY <1>1, <1>4 DEF FiltersInv, Filters!toggleExpanded
<1>5. CASE Filters!notifyScroll
  BY <1>1, <1>5 DEF FiltersInv, Filters!notifyScroll
<1>6. ASSUME NEW s \in DOMAIN GridColumns, Filters!useFilterGridConfig(s) PROVE FiltersInv'
  BY <1>1, <1>6 DEF FiltersInv, Filters!useFilterGridConfig
<1>7. CASE UNCHANGED vars_ft
  <2>1. Filters!Told' = Filters!Told
    BY <1>7 DEF vars_ft, Filters!Told, Filters!needsCollapse, Filters!isMobile, Filters!Fields,
       Filters!showActionBar, Filters!hasActions, Filters!hiddenActiveCount
  <2>2. QED
    BY <1>7, <2>1 DEF vars_ft, FiltersInv, Filters!Tabs
<1>8. QED
  BY <1>2, <1>3, <1>4, <1>5, <1>6, <1>7 DEF Filters!Next

------------------------------------------------------------------------------
(* The behaviors of MC_WebForms' Spec.                                        *)

PartsInv ==
  /\ part = "prefs" => PrefsInv
  /\ part = "scenery" => SceneInv
  /\ part = "nav" => NavInv
  /\ part = "region" => RegionInv
  /\ part = "dates" => DatesInv
  /\ part = "filters" => FiltersInv

LEMMA PartsInit == Init => PartsInv
<1> SUFFICES ASSUME Init PROVE PartsInv
  OBVIOUS
<1>1. CASE part = "prefs"
  <2>1. Prefs!Init
    BY <1>1 DEF Init
  <2>2. QED
    BY <1>1, <2>1, PrefsInit DEF PartsInv
<1>2. CASE part = "scenery"
  <2>1. Scene!Init
    BY <1>2 DEF Init
  <2>2. QED
    BY <1>2, <2>1, SceneInitInv DEF PartsInv
<1>3. CASE part = "nav"
  <2>1. Nav!Init
    BY <1>3 DEF Init
  <2>2. QED
    BY <1>3, <2>1, NavInitInv DEF PartsInv
<1>4. CASE part = "region"
  <2>1. Region!Init
    BY <1>4 DEF Init
  <2>2. QED
    BY <1>4, <2>1, RegionInitInv DEF PartsInv
<1>5. CASE part = "dates"
  <2>1. Dates!Init
    BY <1>5 DEF Init
  <2>2. QED
    BY <1>5, <2>1, DatesStart DEF PartsInv
<1>6. CASE part = "filters"
  <2>1. Filters!Init
    BY <1>6 DEF Init
  <2>2. QED
    BY <1>6, <2>1, FiltersStart DEF PartsInv
<1>7. QED
  BY <1>1, <1>2, <1>3, <1>4, <1>5, <1>6 DEF PartsInv

LEMMA PartsStep == PartsInv /\ [Next]_vars => PartsInv'
<1> SUFFICES ASSUME PartsInv, [Next]_vars PROVE PartsInv'
  OBVIOUS
<1>1. part' = part
  BY DEF Next, vars
<1>2. CASE part = "prefs"
  <2>1. [Prefs!Next]_vars_tp
    BY <1>2 DEF Next, vars
  <2>2. PrefsInv'
    BY <1>2, <2>1, PrefsStep DEF PartsInv
  <2>3. QED
    BY <1>1, <1>2, <2>2 DEF PartsInv
<1>3. CASE part = "scenery"
  <2>1. [Scene!Next]_vars_sc
    BY <1>3 DEF Next, vars
  <2>2. SceneInv'
    BY <1>3, <2>1, SceneStep DEF PartsInv
  <2>3. QED
    BY <1>1, <1>3, <2>2 DEF PartsInv
<1>4. CASE part = "nav"
  <2>1. [Nav!Next]_vars_sn
    BY <1>4 DEF Next, vars
  <2>2. NavInv'
    BY <1>4, <2>1, NavStep DEF PartsInv
  <2>3. QED
    BY <1>1, <1>4, <2>2 DEF PartsInv
<1>5. CASE part = "region"
  <2>1. [Region!Next]_vars_rg
    BY <1>5 DEF Next, vars
  <2>2. RegionInv'
    BY <1>5, <2>1, RegionStep DEF PartsInv
  <2>3. QED
    BY <1>1, <1>5, <2>2 DEF PartsInv
<1>6. CASE part = "dates"
  <2>1. [Dates!Next]_vars_dr
    BY <1>6 DEF Next, vars
  <2>2. DatesInv'
    BY <1>6, <2>1, DatesStep DEF PartsInv
  <2>3. QED
    BY <1>1, <1>6, <2>2 DEF PartsInv
<1>7. CASE part = "filters"
  <2>1. [Filters!Next]_vars_ft
    BY <1>7 DEF Next, vars
  <2>2. FiltersInv'
    BY <1>7, <2>1, FiltersStep DEF PartsInv
  <2>3. QED
    BY <1>1, <1>7, <2>2 DEF PartsInv
<1>8. QED
  BY <1>1, <1>2, <1>3, <1>4, <1>5, <1>6, <1>7 DEF PartsInv

LEMMA PartsHold == Spec => []PartsInv
  BY PartsInit, PartsStep, PTL DEF Spec

\* When nothing is under way the page shows what the server keeps of the table, but
\* for the ways they are known to come apart (hooks/useTablePreferences.ts).
THEOREM PrefsCatchUpHolds == Spec => []PrefsCatchUp
<1>1. PartsInv => PrefsCatchUp
  BY PrefsAgree DEF PartsInv, PrefsCatchUp
<1>2. QED
  BY <1>1, PartsHold, PTL

\* No picture waits for a probe that has ended, all are from one network or the
\* server, and the background has exactly one callback pending while it can be seen
\* and none else (home-image-cdn.ts, auth-prism.ts).
THEOREM SceneryAgreesHolds == Spec => []SceneryAgrees
<1>1. PartsInv => SceneryAgrees
  BY SceneAgrees DEF PartsInv, SceneryAgrees
<1>2. QED
  BY <1>1, PartsHold, PTL

\* The ball can always be reached and is where the device has it, its menu is inside
\* the window and leaves it free, none stays open behind a pointer that has left, and
\* what is unfolded is the user's own (use-side-nav-expand-fab.ts, use-nav-catalog-expanded.ts:38).
THEOREM NavAgreesHolds == Spec => []NavAgrees
<1>1. PartsInv => NavAgrees
  BY NavInvAgrees DEF PartsInv, NavAgrees
<1>2. QED
  BY <1>1, PartsHold, PTL

\* Names that were picked or located lead to each other and to their code and are shown
\* as they are, one chain of services is under way, and what is sent is a district
\* (components/region-cascader, lib/china-region.ts).
THEOREM RegionAgreesHolds == Spec => []RegionAgrees
<1>1. PartsInv => RegionAgrees
  BY RegionInvAgrees DEF PartsInv, RegionAgrees
<1>2. QED
  BY <1>1, PartsHold, PTL

\* The server is asked for the days of the filter in the user's zone and for no other,
\* when their first and last tick exist once; a preset ends today and has as many days
\* as it says; a click picks what the calendar shows under the pointer (lib/datetime.ts,
\* components/form/use-date-range-picker.ts).
THEOREM DaysAgreeHolds == Spec => []DaysAgree
<1>1. PartsInv => DaysAgree
  BY DatesInvAgrees DEF PartsInv, DaysAgree
<1>2. QED
  BY <1>1, PartsHold, PTL

\* An unfolded toolbar draws every field once, in order and not under the buttons; what
\* is folded can be unfolded; a filter that is set and not seen is counted, where filters
\* are (lib/filter-grid.ts, components/layout/page-filter-toolbar-context.tsx).
THEOREM FiltersAgreeHolds == Spec => []FiltersAgree
<1>1. PartsInv => FiltersAgree
  BY FiltersInvAgrees DEF PartsInv, FiltersAgree
<1>2. QED
  BY <1>1, PartsHold, PTL

------------------------------------------------------------------------------
(* CronBuilder.  A field that is read and written again means the same: what is
   clamped steps over the whole field either way.  A preset is read where every field
   is the one that the preset writes, so that showing it, and changing one of its
   values, leaves the meaning of the other fields alone; and what a preset writes is
   read as that preset, so that the tab stays.                                      *)

\* What a field means.
Fires(f, k) ==
  CASE f.kind = "any" -> Cron!Values(k)
    [] f.kind = "step" -> {n \in Cron!Values(k) : (n - Cron!Lo(k)) % f.n = 0}
    [] f.kind = "range" -> f.a..f.b
    [] OTHER -> f.of

\* What a field is read as, and what the whole expression is.
ConfigFits(c, k) ==
  /\ c = [mode |-> c.mode, step |-> c.step, specific |-> c.specific, start |-> c.start, end |-> c.end]
  /\ c.mode \in {"any", "step", "range", "specific"}
  /\ c.step \in Int /\ c.specific \subseteq Cron!Values(k) /\ c.start \in Cron!Values(k) /\ c.end \in Cron!Values(k)

CronConfig(c) ==
  /\ c = [mode |-> c.mode, everyNSeconds |-> c.everyNSeconds, everyNMinutes |-> c.everyNMinutes,
          hourlyMinute |-> c.hourlyMinute, dailyHour |-> c.dailyHour, dailyMinute |-> c.dailyMinute,
          weeklyHour |-> c.weeklyHour, weeklyMinute |-> c.weeklyMinute, weeklyDay |-> c.weeklyDay,
          customFields |-> c.customFields]
  /\ c.mode \in Cron!Modes
  /\ c.everyNSeconds \in Int /\ c.everyNMinutes \in Int /\ c.hourlyMinute \in Int /\ c.dailyHour \in Int
  /\ c.dailyMinute \in Int /\ c.weeklyHour \in Int /\ c.weeklyMinute \in Int /\ c.weeklyDay \in Int
  /\ c.customFields = [k \in DOMAIN Hi |-> c.customFields[k]]
  /\ \A k \in DOMAIN Hi : ConfigFits(c.customFields[k], k)

\* The field that is written of a configuration.
Built(c, k) ==
  CASE c.mode = "custom" -> Cron!buildFieldExpr(c.customFields[k], k)
    [] c.mode = "every_n_seconds" /\ k = "second" -> Cron!Step(Cron!Clamp(c.everyNSeconds, 1, Hi["second"]))
    [] c.mode \notin {"custom", "every_n_seconds"} /\ k = "second" -> Cron!Specific({0})
    [] c.mode = "every_n_minutes" /\ k = "minute" -> Cron!Step(Cron!Clamp(c.everyNMinutes, 1, Hi["minute"]))
    [] c.mode = "hourly" /\ k = "minute" -> Cron!At(c.hourlyMinute, "minute")
    [] c.mode = "daily" /\ k = "minute" -> Cron!At(c.dailyMinute, "minute")
    [] c.mode = "daily" /\ k = "hour" -> Cron!At(c.dailyHour, "hour")
    [] c.mode = "weekly" /\ k = "minute" -> Cron!At(c.weeklyMinute, "minute")
    [] c.mode = "weekly" /\ k = "hour" -> Cron!At(c.weeklyHour, "hour")
    [] c.mode = "weekly" /\ k = "weekday" -> Cron!At(c.weeklyDay, "weekday")
    [] OTHER -> Cron!AnyValue

\* With a control of a preset changed.
Patched(c, patch) == [c EXCEPT ![patch.field] = patch.to]

\* Whatever is written is an expression, and the tab shown is the custom one or the preset
\* that the expression is.
CronInv ==
  /\ Cron!Expression(cr_value) /\ cr_lastEmitted = cr_value
  /\ cr_activeMode = "custom" \/ cr_activeMode = Cron!parseCronExpr(cr_value, FALSE).mode

------------------------------------------------------------------------------
LEMMA CountsAlike == \A S : Cron!Cardinality(S) = Cardinality(S)
  BY DEF Cron!Cardinality, Cardinality

LEMMA FieldsAre ==
  /\ DOMAIN Hi = {"second", "minute", "hour", "day", "month", "weekday"}
  /\ Cron!Keys[1] = "second" /\ Cron!Keys[2] = "minute" /\ Cron!Keys[3] = "hour"
  /\ Cron!Keys[4] = "day" /\ Cron!Keys[5] = "month" /\ Cron!Keys[6] = "weekday"
<1>1. /\ Cron!Keys[1] = "second" /\ Cron!Keys[2] = "minute" /\ Cron!Keys[3] = "hour"
      /\ Cron!Keys[4] = "day" /\ Cron!Keys[5] = "month" /\ Cron!Keys[6] = "weekday"
  BY DEF Cron!Keys
<1>2. \A i \in 1..6 : i = 1 \/ i = 2 \/ i = 3 \/ i = 4 \/ i = 5 \/ i = 6
  OBVIOUS
<1>3. {Cron!Keys[i] : i \in 1..6} = {"second", "minute", "hour", "day", "month", "weekday"}
  BY <1>1, <1>2
<1>4. QED
  BY <1>1, <1>3, CronConstantsFit DEF Cron!ConstantsFit

LEMMA PlacesAre ==
  /\ Cron!Place("second") = 1 /\ Cron!Place("minute") = 2 /\ Cron!Place("hour") = 3
  /\ Cron!Place("day") = 4 /\ Cron!Place("month") = 5 /\ Cron!Place("weekday") = 6
<1>1. ASSUME NEW n \in 1..6 PROVE Cron!Place(Cron!Keys[n]) = n
  <2>1. \A i \in 1..6 : Cron!Keys[i] = Cron!Keys[n] => i = n
    <3>1. \A i \in 1..6 : i = 1 \/ i = 2 \/ i = 3 \/ i = 4 \/ i = 5 \/ i = 6
      OBVIOUS
    <3>2. QED
      BY <3>1, FieldsAre
  <2>2. QED
    BY <2>1 DEF Cron!Place
<1>2. QED
  BY <1>1, FieldsAre

LEMMA BoundsAre ==
  ASSUME NEW k \in DOMAIN Hi
  PROVE  Cron!Lo(k) \in {0, 1} /\ Hi[k] \in Nat /\ Cron!Lo(k) <= Hi[k] /\ Cron!Values(k) = Cron!Lo(k)..Hi[k] /\ Cron!Lo(k) \in Cron!Values(k)
  BY CronConstantsFit DEF Cron!ConstantsFit, Cron!Lo, Cron!Values

LEMMA ZeroIs == 0 \in Cron!Values("second") /\ Cron!Lo("second") = 0 /\ "second" \in DOMAIN Hi
<1>1. "second" \in DOMAIN Hi /\ Cron!Lo("second") = 0
  BY FieldsAre DEF Cron!Lo
<1>2. QED
  BY <1>1, BoundsAre

LEMMA ClampFits ==
  ASSUME NEW n \in Int, NEW a \in Int, NEW b \in Int, a <= b
  PROVE  Cron!Clamp(n, a, b) \in a..b /\ (n \in a..b => Cron!Clamp(n, a, b) = n)
  BY DEF Cron!Clamp

\* The kinds of a field.
LEMMA FieldIs ==
  ASSUME NEW k, NEW f, Cron!WellFormed(f, k)
  PROVE  \/ f = Cron!AnyValue \/ f = Cron!Foreign
         \/ \E n \in Nat \ {0} : f = Cron!Step(n)
         \/ \E a, b \in Cron!Values(k) : a <= b /\ f = Cron!Interval(a, b)
         \/ \E S \in SUBSET Cron!Values(k) : S # {} /\ f = Cron!Specific(S)
<1>1. CASE f.n \in Nat \ {0} /\ f = Cron!Step(f.n)
  BY <1>1
<1>2. CASE f.a \in Cron!Values(k) /\ f.b \in Cron!Values(k) /\ f.a <= f.b /\ f = Cron!Interval(f.a, f.b)
  BY <1>2
<1>3. CASE f.of \in SUBSET Cron!Values(k) /\ f.of # {} /\ f = Cron!Specific(f.of)
  BY <1>3
<1>4. QED
  BY <1>1, <1>2, <1>3 DEF Cron!WellFormed

LEMMA FieldsFit ==
  ASSUME NEW k
  PROVE  /\ Cron!WellFormed(Cron!AnyValue, k) /\ Cron!AnyValue # Cron!Foreign
         /\ \A n \in Nat \ {0} : Cron!WellFormed(Cron!Step(n), k) /\ Cron!Step(n) # Cron!Foreign
         /\ \A a, b \in Cron!Values(k) : a <= b => Cron!WellFormed(Cron!Interval(a, b), k) /\ Cron!Interval(a, b) # Cron!Foreign
         /\ \A S \in SUBSET Cron!Values(k) : S # {} => Cron!WellFormed(Cron!Specific(S), k) /\ Cron!Specific(S) # Cron!Foreign
<1>1. Cron!WellFormed(Cron!AnyValue, k) /\ Cron!AnyValue # Cron!Foreign
  BY DEF Cron!WellFormed, Cron!AnyValue, Cron!Foreign
<1>2. ASSUME NEW n \in Nat \ {0} PROVE Cron!WellFormed(Cron!Step(n), k) /\ Cron!Step(n) # Cron!Foreign
  <2>1. Cron!Step(n).kind = "step" /\ Cron!Step(n).n = n /\ Cron!Foreign.kind = "foreign"
    BY DEF Cron!Step, Cron!Foreign
  <2>2. QED
    BY <2>1 DEF Cron!WellFormed
<1>3. ASSUME NEW a \in Cron!Values(k), NEW b \in Cron!Values(k), a <= b
      PROVE  Cron!WellFormed(Cron!Interval(a, b), k) /\ Cron!Interval(a, b) # Cron!Foreign
  <2>1. PICK f : f = Cron!Interval(a, b)
    OBVIOUS
  <2>2. f.kind = "range" /\ f.a = a /\ f.b = b /\ Cron!Foreign.kind = "foreign"
    BY <2>1 DEF Cron!Interval, Cron!Foreign
  <2>3. Cron!WellFormed(f, k) /\ f # Cron!Foreign
    BY <1>3, <2>1, <2>2 DEF Cron!WellFormed
  <2>4. QED
    BY <2>1, <2>3
<1>4. ASSUME NEW S \in SUBSET Cron!Values(k), S # {}
      PROVE  Cron!WellFormed(Cron!Specific(S), k) /\ Cron!Specific(S) # Cron!Foreign
  <2>1. Cron!Specific(S).kind = "specific" /\ Cron!Specific(S).of = S /\ Cron!Foreign.kind = "foreign"
    BY DEF Cron!Specific, Cron!Foreign
  <2>2. QED
    BY <1>4, <2>1 DEF Cron!WellFormed
<1>5. QED
  BY <1>1, <1>2, <1>3, <1>4

\* A single value.
LEMMA OneIs ==
  ASSUME NEW x
  PROVE  Cron!One(Cron!Specific({x})) /\ Cron!Only(Cron!Specific({x})) = x
<1>1. Cron!Specific({x}).kind = "specific" /\ Cron!Specific({x}).of = {x}
  BY DEF Cron!Specific
<1>2. Cron!Cardinality({x}) = 1
  BY FS_Singleton, CountsAlike
<1>3. QED
  BY <1>1, <1>2 DEF Cron!One, Cron!Only

LEMMA OneHas ==
  ASSUME NEW k \in DOMAIN Hi, NEW f, Cron!WellFormed(f, k), Cron!One(f)
  PROVE  \E x \in Cron!Values(k) : f = Cron!Specific({x})
<1>1. f.kind = "specific" /\ Cron!Cardinality(f.of) = 1
  BY DEF Cron!One
<1>2. f = Cron!Specific(f.of) /\ f.of \in SUBSET Cron!Values(k)
  <2>1. Cron!AnyValue.kind = "any" /\ Cron!Foreign.kind = "foreign"
    BY DEF Cron!AnyValue, Cron!Foreign
  <2>2. QED
    BY <1>1, <2>1 DEF Cron!WellFormed
<1>3. IsFiniteSet(Cron!Values(k))
  <2>1. Cron!Lo(k) \in Int /\ Hi[k] \in Int /\ Cron!Values(k) = Cron!Lo(k)..Hi[k]
    BY BoundsAre
  <2>2. IsFiniteSet(Cron!Lo(k)..Hi[k])
    BY <2>1, FS_Interval
  <2>3. QED
    BY <2>1, <2>2
<1>4. IsFiniteSet(f.of)
  BY <1>2, <1>3, FS_Subset, CountsAlike
<1>5. PICK x : f.of = {x}
  BY <1>1, <1>4, FS_Singleton, CountsAlike
<1>6. QED
  BY <1>2, <1>5

LEMMA Remainders ==
  ASSUME NEW m \in Nat \ {0}, NEW x \in 0..m - 1
  PROVE  x % m = x
  OBVIOUS

\* What a field is read as.
LEMMA FieldReads ==
  ASSUME NEW k \in DOMAIN Hi, NEW f, Cron!WellFormed(f, k)
  PROVE  /\ ConfigFits(Cron!parseFieldExpr(f, k), k)
         /\ f = Cron!AnyValue => Cron!parseFieldExpr(f, k).mode = "any"
         /\ \A n \in Nat \ {0} : f = Cron!Step(n) =>
              /\ Cron!parseFieldExpr(f, k).mode = "step"
              /\ Cron!parseFieldExpr(f, k).step = Cron!Clamp(n, 1, Hi[k] - Cron!Lo(k) + 1)
         /\ \A a, b \in Cron!Values(k) : f = Cron!Interval(a, b) =>
              /\ Cron!parseFieldExpr(f, k).mode = "range"
              /\ Cron!parseFieldExpr(f, k).start = a /\ Cron!parseFieldExpr(f, k).end = b
         /\ \A S \in SUBSET Cron!Values(k) : S # {} /\ f = Cron!Specific(S) =>
              /\ Cron!parseFieldExpr(f, k).mode = "specific" /\ Cron!parseFieldExpr(f, k).specific = S
<1>1. PICK lo \in Int, hi \in Int : /\ Cron!Lo(k) = lo /\ Hi[k] = hi /\ lo <= hi /\ Cron!Values(k) = lo..hi /\ lo \in Cron!Values(k)
  BY BoundsAre
<1>2. Cron!Base(k) = [mode |-> "any", step |-> 1, specific |-> {}, start |-> lo, end |-> lo]
  BY <1>1 DEF Cron!Base
<1>3. CASE f = Cron!AnyValue \/ f = Cron!Foreign
  <2>1. f.kind = "any" \/ f.kind = "foreign"
    BY <1>3 DEF Cron!AnyValue, Cron!Foreign
  <2>2. ~Cron!One(f)
    BY <2>1 DEF Cron!One
  <2>3. Cron!parseFieldExpr(f, k) = Cron!Base(k)
    BY <2>1, <2>2 DEF Cron!parseFieldExpr
  <2>4. ConfigFits(Cron!parseFieldExpr(f, k), k)
    BY <1>1, <1>2, <2>3 DEF ConfigFits
  <2>5. /\ \A n : f # Cron!Step(n)
        /\ \A a, b : f # Cron!Interval(a, b)
        /\ \A S : f # Cron!Specific(S)
    BY <2>1 DEF Cron!Step, Cron!Interval, Cron!Specific
  <2>6. QED
    BY <1>2, <2>3, <2>4, <2>5
<1>a. PICK base : base = Cron!Base(k)
  OBVIOUS
<1>b. PICK p : p = Cron!parseFieldExpr(f, k)
  OBVIOUS
<1>c. base = [mode |-> "any", step |-> 1, specific |-> {}, start |-> lo, end |-> lo]
  BY <1>2, <1>a
<1>4. ASSUME NEW n \in Nat \ {0}, f = Cron!Step(n)
      PROVE  /\ p = [mode |-> "step", step |-> Cron!Clamp(n, 1, hi - lo + 1), specific |-> {}, start |-> lo, end |-> lo]
             /\ Cron!Clamp(n, 1, hi - lo + 1) \in Int
  <2>1. f.kind = "step"
    BY <1>4 DEF Cron!Step
  <2>2. f.n = n
    BY <1>4 DEF Cron!Step
  <2>3. p = [base EXCEPT !.mode = "step", !.step = Cron!Clamp(f.n, 1, Hi[k] - Cron!Lo(k) + 1)]
    BY <1>a, <1>b, <2>1 DEF Cron!parseFieldExpr, Cron!One
  <2>4. PICK s : s = Cron!Clamp(f.n, 1, Hi[k] - Cron!Lo(k) + 1)
    OBVIOUS
  <2>5. s = Cron!Clamp(n, 1, hi - lo + 1) /\ s \in Int
    BY <1>1, <2>2, <2>4 DEF Cron!Clamp
  <2>6. p = [base EXCEPT !.mode = "step", !.step = s]
    BY <2>3, <2>4
  <2>7. p = [mode |-> "step", step |-> s, specific |-> {}, start |-> lo, end |-> lo]
    BY <1>c, <2>6
  <2>8. QED
    BY <2>5, <2>7
<1>5. ASSUME NEW a \in Cron!Values(k), NEW b \in Cron!Values(k), f = Cron!Interval(a, b)
      PROVE  p = [mode |-> "range", step |-> 1, specific |-> {}, start |-> a, end |-> b]
  <2>1. f.kind = "range"
    BY <1>5 DEF Cron!Interval
  <2>2. f.a = a /\ f.b = b
    BY <1>5 DEF Cron!Interval
  <2>3. p = [base EXCEPT !.mode = "range", !.start = Cron!Clamp(f.a, Cron!Lo(k), Hi[k]), !.end = Cron!Clamp(f.b, Cron!Lo(k), Hi[k])]
    BY <1>a, <1>b, <2>1 DEF Cron!parseFieldExpr, Cron!One
  <2>4. PICK s, e : s = Cron!Clamp(f.a, Cron!Lo(k), Hi[k]) /\ e = Cron!Clamp(f.b, Cron!Lo(k), Hi[k])
    OBVIOUS
  <2>5. s = a /\ e = b
    BY <1>1, <2>2, <2>4 DEF Cron!Clamp
  <2>6. p = [base EXCEPT !.mode = "range", !.start = s, !.end = e]
    BY <2>3, <2>4
  <2>7. p = [mode |-> "range", step |-> 1, specific |-> {}, start |-> s, end |-> e]
    BY <1>c, <2>6
  <2>8. QED
    BY <2>5, <2>7
<1>6. ASSUME NEW S \in SUBSET Cron!Values(k), S # {}, f = Cron!Specific(S)
      PROVE  p = [mode |-> "specific", step |-> 1, specific |-> S, start |-> lo, end |-> lo]
  <2>1. f.kind = "specific"
    BY <1>6 DEF Cron!Specific
  <2>2. f.of \cap Cron!Values(k) = S
    BY <1>6 DEF Cron!Specific
  <2>3. f.of \cap Cron!Values(k) # {}
    BY <1>6, <2>2
  <2>4. p = [base EXCEPT !.mode = "specific", !.specific = f.of \cap Cron!Values(k)]
    BY <1>a, <1>b, <2>1, <2>3 DEF Cron!parseFieldExpr, Cron!One
  <2>5. p = [base EXCEPT !.mode = "specific", !.specific = S]
    BY <2>2, <2>4
  <2>6. QED
    BY <1>c, <2>5
<1>7. CASE \E n \in Nat \ {0} : f = Cron!Step(n)
  <2>1. PICK n \in Nat \ {0} : f = Cron!Step(n)
    BY <1>7
  <2>2. f.kind = "step" /\ f.n = n
    BY <2>1 DEF Cron!Step
  <2>3. /\ f # Cron!AnyValue /\ \A m : f = Cron!Step(m) => m = n
        /\ \A a, b : f # Cron!Interval(a, b)
        /\ \A S : f # Cron!Specific(S)
    BY <2>2 DEF Cron!AnyValue, Cron!Step, Cron!Interval, Cron!Specific
  <2>4. ConfigFits(Cron!parseFieldExpr(f, k), k)
    BY <1>1, <1>4, <1>b, <2>1 DEF ConfigFits
  <2>5. QED
    BY <1>1, <1>4, <1>b, <2>1, <2>3, <2>4
<1>8. CASE \E a, b \in Cron!Values(k) : f = Cron!Interval(a, b)
  <2>1. PICK a \in Cron!Values(k), b \in Cron!Values(k) : f = Cron!Interval(a, b)
    BY <1>8
  <2>2. f.kind = "range" /\ f.a = a /\ f.b = b
    BY <2>1 DEF Cron!Interval
  <2>3. /\ f # Cron!AnyValue /\ (\A m : f # Cron!Step(m))
        /\ \A x, y : f = Cron!Interval(x, y) => x = a /\ y = b
        /\ \A S : f # Cron!Specific(S)
    BY <2>2 DEF Cron!AnyValue, Cron!Step, Cron!Interval, Cron!Specific
  <2>4. ConfigFits(Cron!parseFieldExpr(f, k), k)
    BY <1>1, <1>5, <1>b, <2>1 DEF ConfigFits
  <2>5. QED
    BY <1>5, <1>b, <2>1, <2>3, <2>4
<1>9. CASE \E S \in SUBSET Cron!Values(k) : S # {} /\ f = Cron!Specific(S)
  <2>1. PICK S \in SUBSET Cron!Values(k) : S # {} /\ f = Cron!Specific(S)
    BY <1>9
  <2>2. f.kind = "specific" /\ f.of = S
    BY <2>1 DEF Cron!Specific
  <2>3. /\ f # Cron!AnyValue /\ (\A m : f # Cron!Step(m))
        /\ \A x, y : f # Cron!Interval(x, y)
        /\ \A T : f = Cron!Specific(T) => T = S
    BY <2>2 DEF Cron!AnyValue, Cron!Step, Cron!Interval, Cron!Specific
  <2>4. ConfigFits(Cron!parseFieldExpr(f, k), k)
    BY <1>1, <1>6, <1>b, <2>1 DEF ConfigFits
  <2>5. QED
    BY <1>6, <1>b, <2>1, <2>3, <2>4
<1>10. QED
  BY <1>3, <1>7, <1>8, <1>9, FieldIs

\* What is written for a field is well formed.
LEMMA FieldWrites ==
  ASSUME NEW k \in DOMAIN Hi, NEW c, ConfigFits(c, k)
  PROVE  Cron!WellFormed(Cron!buildFieldExpr(c, k), k) /\ Cron!buildFieldExpr(c, k) # Cron!Foreign
<1>1. PICK lo \in Int, hi \in Int : Cron!Lo(k) = lo /\ Hi[k] = hi /\ lo <= hi /\ Cron!Values(k) = lo..hi
  BY BoundsAre
<1>2. /\ c.step \in Int /\ c.specific \in SUBSET Cron!Values(k) /\ c.start \in Cron!Values(k) /\ c.end \in Cron!Values(k)
      /\ c.mode \in {"any", "step", "range", "specific"}
  BY DEF ConfigFits
<1>3. CASE c.mode = "any" \/ (c.mode = "specific" /\ c.specific = {})
  BY <1>3, FieldsFit DEF Cron!buildFieldExpr
<1>4. CASE c.mode = "step"
  <2>1. PICK n : n = Cron!Clamp(c.step, 1, hi - lo + 1)
    OBVIOUS
  <2>2. n \in Nat \ {0}
    BY <1>1, <1>2, <2>1 DEF Cron!Clamp
  <2>3. Cron!buildFieldExpr(c, k) = Cron!Step(n)
    BY <1>1, <1>4, <2>1 DEF Cron!buildFieldExpr
  <2>4. QED
    BY <2>2, <2>3, FieldsFit
<1>5. CASE c.mode = "range"
  <2>1. Cron!buildFieldExpr(c, k) = IF c.start <= c.end THEN Cron!Interval(c.start, c.end) ELSE Cron!Interval(c.end, c.start)
    BY <1>5 DEF Cron!buildFieldExpr
  <2>2. c.start <= c.end \/ c.end <= c.start
    BY <1>1, <1>2
  <2>3. QED
    BY <1>2, <2>1, <2>2, FieldsFit
<1>6. CASE c.mode = "specific" /\ c.specific # {}
  <2>1. \A n \in c.specific : Cron!Clamp(n, lo, hi) = n
    BY <1>1, <1>2 DEF Cron!Clamp
  <2>2. {Cron!Clamp(n, lo, hi) : n \in c.specific} = c.specific
    BY <2>1
  <2>3. Cron!buildFieldExpr(c, k) = Cron!Specific(c.specific)
    BY <1>1, <1>6, <2>2 DEF Cron!buildFieldExpr
  <2>4. QED
    BY <1>2, <1>6, <2>3, FieldsFit
<1>7. QED
  BY <1>2, <1>3, <1>4, <1>5, <1>6

\* What is read and written back means the same.
LEMMA FieldMeans ==
  ASSUME NEW k \in DOMAIN Hi, NEW f, Cron!WellFormed(f, k), f # Cron!Foreign
  PROVE  Fires(Cron!buildFieldExpr(Cron!parseFieldExpr(f, k), k), k) = Fires(f, k)
<1>1. PICK lo \in Int, hi \in Int : Cron!Lo(k) = lo /\ Hi[k] = hi /\ lo <= hi /\ Cron!Values(k) = lo..hi
  BY BoundsAre
<1>2. PICK c : c = Cron!parseFieldExpr(f, k) /\ ConfigFits(c, k)
  BY FieldReads
<1>3. CASE f = Cron!AnyValue
  BY <1>2, <1>3, FieldReads DEF Cron!buildFieldExpr
<1>4. CASE \E n \in Nat \ {0} : f = Cron!Step(n)
  <2>1. PICK n \in Nat \ {0} : f = Cron!Step(n)
    BY <1>4
  <2>2. PICK m : m = Cron!Clamp(n, 1, hi - lo + 1)
    OBVIOUS
  <2>3. m \in 1..hi - lo + 1 /\ (n \in 1..hi - lo + 1 => m = n) /\ (n > hi - lo + 1 => m = hi - lo + 1)
    BY <1>1, <2>2 DEF Cron!Clamp
  <2>4. c.mode = "step" /\ c.step = m
    BY <1>1, <1>2, <2>1, <2>2, FieldReads
  <2>5. Cron!Clamp(m, 1, hi - lo + 1) = m
    BY <1>1, <2>3 DEF Cron!Clamp
  <2>6. Cron!buildFieldExpr(c, k) = Cron!Step(m)
    BY <1>1, <2>4, <2>5 DEF Cron!buildFieldExpr
  <2>7. ASSUME NEW j \in Nat \ {0} PROVE Fires(Cron!Step(j), k) = {x \in lo..hi : (x - lo) % j = 0}
    <3>1. PICK g : g = Cron!Step(j)
      OBVIOUS
    <3>2. g.kind = "step" /\ g.n = j
      BY <3>1 DEF Cron!Step
    <3>3. QED
      BY <1>1, <3>1, <3>2 DEF Fires
  <2>8. ASSUME NEW x \in lo..hi PROVE (x - lo) % m = 0 <=> (x - lo) % n = 0
    <3>1. CASE n \in 1..hi - lo + 1
      BY <2>3, <3>1
    <3>2. CASE n > hi - lo + 1
      <4>1. x - lo \in 0..m - 1 /\ x - lo \in 0..n - 1
        BY <1>1, <2>3, <3>2
      <4>2. (x - lo) % m = x - lo /\ (x - lo) % n = x - lo
        BY <2>3, <4>1, Remainders
      <4>3. QED
        BY <4>2
    <3>3. QED
      BY <1>1, <3>1, <3>2
  <2>9. {x \in lo..hi : (x - lo) % m = 0} = {x \in lo..hi : (x - lo) % n = 0}
    BY <2>8
  <2>10. m \in Nat \ {0}
    BY <2>3
  <2>11. Fires(Cron!Step(m), k) = Fires(Cron!Step(n), k)
    BY <2>7, <2>9, <2>10
  <2>12. QED
    BY <1>2, <2>1, <2>6, <2>11
<1>5. CASE \E a, b \in Cron!Values(k) : a <= b /\ f = Cron!Interval(a, b)
  BY <1>2, <1>5, FieldReads DEF Cron!buildFieldExpr
<1>6. CASE \E S \in SUBSET Cron!Values(k) : S # {} /\ f = Cron!Specific(S)
  <2>1. PICK S \in SUBSET Cron!Values(k) : S # {} /\ f = Cron!Specific(S)
    BY <1>6
  <2>2. c.mode = "specific" /\ c.specific = S
    BY <1>2, <2>1, FieldReads
  <2>3. \A n \in S : Cron!Clamp(n, lo, hi) = n
    BY <1>1 DEF Cron!Clamp
  <2>4. {Cron!Clamp(n, lo, hi) : n \in S} = S
    BY <2>3
  <2>5. Cron!buildFieldExpr(c, k) = Cron!Specific(S)
    BY <1>1, <2>1, <2>2, <2>4 DEF Cron!buildFieldExpr
  <2>6. QED
    BY <1>2, <2>1, <2>5
<1>7. QED
  BY <1>3, <1>4, <1>5, <1>6, FieldIs

\* What the controls of a field make of it is a configuration of the field.
LEMMA EditorFits ==
  ASSUME NEW k \in DOMAIN Hi, NEW c, ConfigFits(c, k), NEW d \in Cron!CronFieldEditor(c, k)
  PROVE  ConfigFits(d, k)
<1>1. PICK lo \in Int, hi \in Int : Cron!Lo(k) = lo /\ Hi[k] = hi /\ lo <= hi /\ Cron!Values(k) = lo..hi /\ lo \in Cron!Values(k)
  BY BoundsAre
<1>2. /\ c = [mode |-> c.mode, step |-> c.step, specific |-> c.specific, start |-> c.start, end |-> c.end]
      /\ c.mode \in {"any", "step", "range", "specific"}
      /\ c.step \in Int /\ c.specific \subseteq Cron!Values(k) /\ c.start \in Cron!Values(k) /\ c.end \in Cron!Values(k)
  BY DEF ConfigFits
<1>3. Cron!Clamp(lo + 1, lo, hi) \in Cron!Values(k)
  BY <1>1 DEF Cron!Clamp
<1>4. Steps \subseteq Int /\ Cron!Values(k) \subseteq Int
  BY <1>1, CronConstantsFit DEF Cron!ConstantsFit
<1>5. \E m \in {"any", "step", "range", "specific"}, n \in Int, S \in SUBSET Cron!Values(k), a, b \in Cron!Values(k) :
        d = [mode |-> m, step |-> n, specific |-> S, start |-> a, end |-> b]
  <2>1. ASSUME NEW m \in {"any", "step", "range", "specific"}, NEW n \in Int, NEW S \in SUBSET Cron!Values(k),
               NEW a \in Cron!Values(k), NEW b \in Cron!Values(k),
               d = [mode |-> m, step |-> n, specific |-> S, start |-> a, end |-> b]
        PROVE \E m1 \in {"any", "step", "range", "specific"}, n1 \in Int, S1 \in SUBSET Cron!Values(k), a1, b1 \in Cron!Values(k) :
                d = [mode |-> m1, step |-> n1, specific |-> S1, start |-> a1, end |-> b1]
    BY <2>1
  <2>2. CASE d = [c EXCEPT !.mode = "any"]
    <3>1. d = [mode |-> "any", step |-> c.step, specific |-> c.specific, start |-> c.start, end |-> c.end]
      BY <1>2, <2>2
    <3>2. QED
      BY <1>2, <2>1, <3>1
  <2>3. CASE d = [c EXCEPT !.mode = "step", !.step = IF k = "weekday" THEN @ ELSE 1]
    <3>1. PICK n \in Int : n = IF k = "weekday" THEN c.step ELSE 1
      BY <1>2
    <3>2. d = [mode |-> "step", step |-> n, specific |-> c.specific, start |-> c.start, end |-> c.end]
      BY <1>2, <2>3, <3>1
    <3>3. QED
      BY <1>2, <2>1, <3>2
  <2>4. CASE d = [c EXCEPT !.mode = "range", !.start = Cron!Lo(k), !.end = Cron!Clamp(Cron!Lo(k) + 1, Cron!Lo(k), Hi[k])]
    <3>1. d = [mode |-> "range", step |-> c.step, specific |-> c.specific, start |-> lo, end |-> Cron!Clamp(lo + 1, lo, hi)]
      BY <1>1, <1>2, <2>4
    <3>2. QED
      BY <1>1, <1>2, <1>3, <2>1, <3>1
  <2>5. CASE d = [c EXCEPT !.mode = "specific", !.specific = IF @ = {} THEN {Cron!Lo(k)} ELSE @]
    <3>1. PICK S \in SUBSET Cron!Values(k) : S = IF c.specific = {} THEN {lo} ELSE c.specific
      BY <1>1, <1>2
    <3>2. d = [mode |-> "specific", step |-> c.step, specific |-> S, start |-> c.start, end |-> c.end]
      BY <1>1, <1>2, <2>5, <3>1
    <3>3. QED
      BY <1>2, <2>1, <3>2
  <2>6. CASE \E n \in Int : d = [c EXCEPT !.step = n]
    <3>1. PICK n \in Int : d = [c EXCEPT !.step = n]
      BY <2>6
    <3>2. d = [mode |-> c.mode, step |-> n, specific |-> c.specific, start |-> c.start, end |-> c.end]
      BY <1>2, <3>1
    <3>3. QED
      BY <1>2, <2>1, <3>2
  <2>7. CASE \E n \in Cron!Values(k) : d = [c EXCEPT !.start = n]
    <3>1. PICK n \in Cron!Values(k) : d = [c EXCEPT !.start = n]
      BY <2>7
    <3>2. d = [mode |-> c.mode, step |-> c.step, specific |-> c.specific, start |-> n, end |-> c.end]
      BY <1>2, <3>1
    <3>3. QED
      BY <1>2, <2>1, <3>2
  <2>8. CASE \E n \in Cron!Values(k) : d = [c EXCEPT !.end = n]
    <3>1. PICK n \in Cron!Values(k) : d = [c EXCEPT !.end = n]
      BY <2>8
    <3>2. d = [mode |-> c.mode, step |-> c.step, specific |-> c.specific, start |-> c.start, end |-> n]
      BY <1>2, <3>1
    <3>3. QED
      BY <1>2, <2>1, <3>2
  <2>9. CASE \E n \in Cron!Values(k) : d = [c EXCEPT !.specific = (@ \ {n}) \cup ({n} \ @)]
    <3>1. PICK n \in Cron!Values(k) : d = [c EXCEPT !.specific = (@ \ {n}) \cup ({n} \ @)]
      BY <2>9
    <3>2. PICK S \in SUBSET Cron!Values(k) : S = (c.specific \ {n}) \cup ({n} \ c.specific)
      BY <1>2
    <3>3. d = [mode |-> c.mode, step |-> c.step, specific |-> S, start |-> c.start, end |-> c.end]
      BY <1>2, <3>1, <3>2
    <3>4. QED
      BY <1>2, <2>1, <3>3
  <2>10. QED
    BY <1>2, <1>4, <2>2, <2>3, <2>4, <2>5, <2>6, <2>7, <2>8, <2>9 DEF Cron!CronFieldEditor
<1>6. QED
  BY <1>5 DEF ConfigFits

LEMMA LenIs ==
  ASSUME NEW n \in Nat, NEW v, v = [i \in 1..n |-> v[i]]
  PROVE  Len(v) = n
  OBVIOUS

\* The fields of an expression, by key.
LEMMA FieldsOf ==
  ASSUME NEW v, Cron!Expression(v)
  PROVE  /\ Len(v) \in {5, 6}
         /\ \A k \in DOMAIN Hi : /\ Cron!WellFormed(Cron!FieldOf(v, k), k)
                                 /\ Cron!Known(v) => Cron!FieldOf(v, k) # Cron!Foreign
                                 /\ Cron!Meaning(v, k) = Fires(Cron!FieldOf(v, k), k)
<1>1. PICK n \in {5, 6} : /\ DOMAIN v = 1..n /\ v = [i \in 1..n |-> v[i]]
                          /\ \A i \in 1..n : Cron!WellFormed(v[i], Cron!Keys[i + 6 - n])
  BY DEF Cron!Expression
<1>2. Len(v) = n
  BY <1>1, LenIs
<1>3. ASSUME NEW k \in DOMAIN Hi
      PROVE  Cron!WellFormed(Cron!FieldOf(v, k), k) /\ (Cron!Known(v) => Cron!FieldOf(v, k) # Cron!Foreign)
  <2>1. Cron!Place(k) \in 1..6 /\ Cron!Keys[Cron!Place(k)] = k /\ (k # "second" => Cron!Place(k) \in 2..6)
    BY FieldsAre, PlacesAre
  <2>2. CASE n = 6
    <3>1. Cron!FieldOf(v, k) = v[Cron!Place(k)] /\ Cron!Place(k) \in DOMAIN v /\ Cron!Place(k) + 6 - 6 = Cron!Place(k)
      BY <1>1, <1>2, <2>1, <2>2 DEF Cron!FieldOf
    <3>2. QED
      BY <1>1, <2>1, <2>2, <3>1 DEF Cron!Known
  <2>3. CASE n = 5 /\ k = "second"
    <3>1. Cron!FieldOf(v, k) = Cron!Specific({0})
      BY <1>2, <2>3 DEF Cron!FieldOf
    <3>2. {0} \in SUBSET Cron!Values(k) /\ {0} # {}
      BY <2>3, ZeroIs
    <3>3. QED
      BY <3>1, <3>2, FieldsFit
  <2>4. CASE n = 5 /\ k # "second"
    <3>1. Cron!FieldOf(v, k) = v[Cron!Place(k) - 1] /\ Cron!Place(k) - 1 \in DOMAIN v /\ Cron!Place(k) - 1 + 6 - 5 = Cron!Place(k)
      BY <1>1, <1>2, <2>1, <2>4 DEF Cron!FieldOf
    <3>2. QED
      BY <1>1, <2>1, <2>4, <3>1 DEF Cron!Known
  <2>5. QED
    BY <2>2, <2>3, <2>4
<1>4. ASSUME NEW k \in DOMAIN Hi PROVE Cron!Meaning(v, k) = Fires(Cron!FieldOf(v, k), k)
  BY DEF Cron!Meaning, Fires
<1>5. QED
  BY <1>2, <1>3, <1>4

\* The custom tab reads each field of its own.
LEMMA CustomReads ==
  ASSUME NEW v, Cron!Expression(v)
  PROVE  /\ Cron!parseCustomFields(v) = [k \in DOMAIN Hi |-> Cron!parseCustomFields(v)[k]]
         /\ \A k \in DOMAIN Hi : /\ Cron!parseCustomFields(v)[k] = Cron!parseFieldExpr(Cron!FieldOf(v, k), k)
                                 /\ ConfigFits(Cron!parseCustomFields(v)[k], k)
<1>1. Len(v) \in {5, 6} /\ \A k \in DOMAIN Hi : Cron!WellFormed(Cron!FieldOf(v, k), k)
  BY FieldsOf
<1>2. ASSUME NEW k \in DOMAIN Hi PROVE Cron!parseCustomFields(v)[k] = Cron!parseFieldExpr(Cron!FieldOf(v, k), k)
  <2>1. CASE Len(v) = 6 \/ k # "second"
    BY <2>1 DEF Cron!parseCustomFields, Cron!FieldOf
  <2>2. CASE Len(v) # 6 /\ k = "second"
    <3>1. PICK p : p = Cron!parseCustomFields(v)[k]
      OBVIOUS
    <3>2. p = [Cron!Base(k) EXCEPT !.mode = "specific", !.specific = {0}]
      BY <2>2, <3>1 DEF Cron!parseCustomFields
    <3>3. PICK f : f = Cron!Specific({0})
      OBVIOUS
    <3>4. f.kind = "specific"
      BY <3>3 DEF Cron!Specific
    <3>5. f.of \cap Cron!Values(k) = {0}
      BY <2>2, <3>3, ZeroIs DEF Cron!Specific
    <3>6. f.of \cap Cron!Values(k) # {}
      BY <3>5
    <3>7. PICK q : q = Cron!parseFieldExpr(f, k)
      OBVIOUS
    <3>8. q = [Cron!Base(k) EXCEPT !.mode = "specific", !.specific = f.of \cap Cron!Values(k)]
      BY <3>4, <3>6, <3>7 DEF Cron!parseFieldExpr, Cron!One
    <3>9. q = [Cron!Base(k) EXCEPT !.mode = "specific", !.specific = {0}]
      BY <3>5, <3>8
    <3>10. Cron!FieldOf(v, k) = f
      BY <2>2, <3>3 DEF Cron!FieldOf
    <3>11. p = q
      BY <3>2, <3>9, Zenon
    <3>12. QED
      BY <3>1, <3>7, <3>10, <3>11
  <2>3. QED
    BY <2>1, <2>2
<1>3. Cron!parseCustomFields(v) = [k \in DOMAIN Hi |-> Cron!parseCustomFields(v)[k]]
  <2>1. PICK p : p = Cron!parseCustomFields(v)
    OBVIOUS
  <2>2. p = [k \in DOMAIN Hi |-> p[k]]
    BY <2>1 DEF Cron!parseCustomFields
  <2>3. QED
    BY <2>1, <2>2
<1>4. ASSUME NEW k \in DOMAIN Hi PROVE ConfigFits(Cron!parseCustomFields(v)[k], k)
  BY <1>1, <1>2, FieldReads
<1>5. QED
  BY <1>2, <1>3, <1>4

LEMMA DefaultFits == CronConfig(Cron!defaultCronConfig)
<1>1. ASSUME NEW k \in DOMAIN Hi PROVE ConfigFits(Cron!Base(k), k)
  <2>1. Cron!Lo(k) \in Cron!Values(k)
    BY BoundsAre
  <2>2. PICK b, l : b = Cron!Base(k) /\ l = Cron!Lo(k)
    OBVIOUS
  <2>3. b = [mode |-> "any", step |-> 1, specific |-> {}, start |-> l, end |-> l]
    BY <2>2 DEF Cron!Base
  <2>4. ConfigFits(b, k)
    BY <2>1, <2>2, <2>3 DEF ConfigFits
  <2>5. QED
    BY <2>2, <2>4
<1>2. EveryN \in Int /\ AtHour \in Int /\ OnDay \in Int
  BY CronConstantsFit DEF Cron!ConstantsFit
<1>3. PICK F : F = [k \in DOMAIN Hi |-> Cron!Base(k)]
  OBVIOUS
<1>4. PICK c : c = Cron!defaultCronConfig
  OBVIOUS
<1>5. c = [mode |-> "every_n_minutes", everyNSeconds |-> EveryN, everyNMinutes |-> EveryN,
           hourlyMinute |-> 0, dailyHour |-> AtHour, dailyMinute |-> 0,
           weeklyHour |-> AtHour, weeklyMinute |-> 0, weeklyDay |-> OnDay, customFields |-> F]
  BY <1>3, <1>4 DEF Cron!defaultCronConfig
<1>6. F = [k \in DOMAIN Hi |-> F[k]] /\ \A k \in DOMAIN Hi : ConfigFits(F[k], k)
  BY <1>1, <1>3
<1>7. CronConfig(c)
  BY <1>2, <1>5, <1>6 DEF CronConfig, Cron!Modes
<1>8. QED
  BY <1>4, <1>7

\* A changed mode leaves the rest as it was.
LEMMA ModeSet ==
  ASSUME NEW c, CronConfig(c), NEW m \in Cron!Modes, NEW d, d = [c EXCEPT !.mode = m]
  PROVE  /\ CronConfig(d) /\ d.mode = m /\ d.customFields = c.customFields
         /\ d.everyNSeconds = c.everyNSeconds /\ d.everyNMinutes = c.everyNMinutes
         /\ d.hourlyMinute = c.hourlyMinute /\ d.dailyHour = c.dailyHour /\ d.dailyMinute = c.dailyMinute
         /\ d.weeklyHour = c.weeklyHour /\ d.weeklyMinute = c.weeklyMinute /\ d.weeklyDay = c.weeklyDay
         /\ c.mode = m => d = c
  BY DEF CronConfig

LEMMA CustomSet ==
  ASSUME NEW v, Cron!Expression(v), NEW d,
         d = [Cron!defaultCronConfig EXCEPT !.mode = "custom", !.customFields = Cron!parseCustomFields(v)]
  PROVE  CronConfig(d) /\ d.mode = "custom" /\ d.customFields = Cron!parseCustomFields(v)
<1>1. PICK c, F : c = Cron!defaultCronConfig /\ F = Cron!parseCustomFields(v)
  OBVIOUS
<1>2. CronConfig(c)
  BY <1>1, DefaultFits
<1>3. F = [k \in DOMAIN Hi |-> F[k]] /\ \A k \in DOMAIN Hi : ConfigFits(F[k], k)
  BY <1>1, CustomReads
<1>4. d = [c EXCEPT !.mode = "custom", !.customFields = F]
  BY <1>1
<1>5. CronConfig(d) /\ d.mode = "custom" /\ d.customFields = F
  BY <1>2, <1>3, <1>4 DEF CronConfig, Cron!Modes
<1>6. QED
  BY <1>1, <1>5

\* A value in its bounds is written as it is.
LEMMA AtIs ==
  ASSUME NEW k \in DOMAIN Hi, NEW n \in Int
  PROVE  /\ Cron!At(n, k) \in {Cron!Specific({x}) : x \in Cron!Values(k)}
         /\ n \in Cron!Values(k) => Cron!At(n, k) = Cron!Specific({n})
<1>1. Cron!Lo(k) \in Int /\ Hi[k] \in Int /\ Cron!Lo(k) <= Hi[k] /\ Cron!Values(k) = Cron!Lo(k)..Hi[k]
  BY BoundsAre
<1>2. Cron!Clamp(n, Cron!Lo(k), Hi[k]) \in Cron!Values(k) /\ (n \in Cron!Values(k) => Cron!Clamp(n, Cron!Lo(k), Hi[k]) = n)
  BY <1>1, ClampFits
<1>3. QED
  BY <1>2 DEF Cron!At

LEMMA StepIs ==
  ASSUME NEW k \in {"second", "minute"}, NEW n \in Int
  PROVE  /\ Cron!Clamp(n, 1, Hi[k]) \in 1..Hi[k] /\ 1..Hi[k] \subseteq Nat \ {0}
         /\ n \in 1..Hi[k] => Cron!Clamp(n, 1, Hi[k]) = n
<1>1. Hi[k] \in Nat /\ Hi[k] > 0
  BY FieldsAre, BoundsAre, CronConstantsFit DEF Cron!ConstantsFit
<1>2. PICK h \in Nat : h = Hi[k] /\ h > 0
  BY <1>1
<1>3. Cron!Clamp(n, 1, h) \in 1..h /\ (n \in 1..h => Cron!Clamp(n, 1, h) = n)
  BY <1>2 DEF Cron!Clamp
<1>4. 1..h \subseteq Nat \ {0}
  BY <1>2
<1>5. QED
  BY <1>2, <1>3, <1>4

\* What is written of a configuration, field by field.
LEMMA BuiltFits ==
  ASSUME NEW c, CronConfig(c), NEW k \in DOMAIN Hi
  PROVE  Cron!WellFormed(Built(c, k), k) /\ Built(c, k) # Cron!Foreign
<1>1. CASE c.mode = "custom"
  <2>1. ConfigFits(c.customFields[k], k)
    BY DEF CronConfig
  <2>2. Built(c, k) = Cron!buildFieldExpr(c.customFields[k], k)
    BY <1>1 DEF Built
  <2>3. QED
    BY <2>1, <2>2, FieldWrites
<1>2. CASE c.mode # "custom"
  <2>0. /\ c.everyNSeconds \in Int /\ c.everyNMinutes \in Int /\ c.hourlyMinute \in Int /\ c.dailyHour \in Int
        /\ c.dailyMinute \in Int /\ c.weeklyHour \in Int /\ c.weeklyMinute \in Int /\ c.weeklyDay \in Int
    BY DEF CronConfig
  <2>1. \/ Built(c, k) = Cron!AnyValue
        \/ k = "second" /\ Built(c, k) = Cron!Specific({0})
        \/ k \in {"second", "minute"} /\ \E n \in Int : Built(c, k) = Cron!Step(Cron!Clamp(n, 1, Hi[k]))
        \/ \E n \in Int : Built(c, k) = Cron!At(n, k)
    <3>1. c.mode \in {"every_n_seconds", "every_n_minutes", "hourly", "daily", "weekly"}
      BY <1>2 DEF CronConfig, Cron!Modes
    <3>2. CASE c.mode = "every_n_seconds"
      BY <2>0, <3>2 DEF Built
    <3>3. CASE c.mode = "every_n_minutes"
      BY <2>0, <3>3 DEF Built
    <3>4. CASE c.mode = "hourly"
      BY <2>0, <3>4 DEF Built
    <3>5. CASE c.mode = "daily"
      BY <2>0, <3>5 DEF Built
    <3>6. CASE c.mode = "weekly"
      BY <2>0, <3>6 DEF Built
    <3>7. QED
      BY <3>1, <3>2, <3>3, <3>4, <3>5, <3>6
  <2>2. CASE \E n \in Int : Built(c, k) = Cron!At(n, k)
    <3>1. PICK n \in Int : Built(c, k) = Cron!At(n, k)
      BY <2>2
    <3>2. PICK x \in Cron!Values(k) : Cron!At(n, k) = Cron!Specific({x})
      BY AtIs
    <3>3. {x} \in SUBSET Cron!Values(k) /\ {x} # {}
      OBVIOUS
    <3>4. QED
      BY <3>1, <3>2, <3>3, FieldsFit
  <2>3. CASE k \in {"second", "minute"} /\ \E n \in Int : Built(c, k) = Cron!Step(Cron!Clamp(n, 1, Hi[k]))
    <3>1. PICK n \in Int : Built(c, k) = Cron!Step(Cron!Clamp(n, 1, Hi[k]))
      BY <2>3
    <3>2. Cron!Clamp(n, 1, Hi[k]) \in Nat \ {0}
      BY <2>3, StepIs
    <3>3. QED
      BY <3>1, <3>2, FieldsFit
  <2>4. CASE k = "second" /\ Built(c, k) = Cron!Specific({0})
    <3>1. {0} \in SUBSET Cron!Values(k) /\ {0} # {}
      BY <2>4, ZeroIs
    <3>2. QED
      BY <2>4, <3>1, FieldsFit
  <2>5. QED
    BY <2>1, <2>2, <2>3, <2>4, FieldsFit
<1>3. QED
  BY <1>1, <1>2

\* What is written of a configuration is an expression, and of these fields.
LEMMA Builds ==
  ASSUME NEW c, CronConfig(c)
  PROVE  /\ Cron!Expression(Cron!buildCronExpr(c))
         /\ Len(Cron!buildCronExpr(c)) = IF c.mode \in {"custom", "every_n_seconds"} THEN 6 ELSE 5
         /\ \A k \in DOMAIN Hi : Cron!FieldOf(Cron!buildCronExpr(c), k) = Built(c, k)
<1>1. PICK v : v = Cron!buildCronExpr(c)
  OBVIOUS
<1>2. c.mode \in {"every_n_seconds", "every_n_minutes", "hourly", "daily", "weekly", "custom"}
  BY DEF CronConfig, Cron!Modes
<1>3. ASSUME NEW n \in {5, 6}, v = [i \in 1..n |-> Built(c, Cron!Keys[i + 6 - n])],
             n = 5 => c.mode \notin {"custom", "every_n_seconds"},
             n = 6 => c.mode \in {"custom", "every_n_seconds"}
      PROVE  /\ Cron!Expression(v)
             /\ Len(v) = IF c.mode \in {"custom", "every_n_seconds"} THEN 6 ELSE 5
             /\ \A k \in DOMAIN Hi : Cron!FieldOf(v, k) = Built(c, k)
  <2>1. \A i \in 1..n : Cron!Keys[i + 6 - n] \in DOMAIN Hi
    <3>1. \A i \in 1..n : i + 6 - n \in 1..6
      BY <1>3
    <3>2. \A i \in 1..6 : Cron!Keys[i] \in DOMAIN Hi
      <4>1. \A i \in 1..6 : i = 1 \/ i = 2 \/ i = 3 \/ i = 4 \/ i = 5 \/ i = 6
        OBVIOUS
      <4>2. QED
        BY <4>1, FieldsAre
    <3>3. QED
      BY <3>1, <3>2
  <2>2. DOMAIN v = 1..n /\ v = [i \in 1..n |-> v[i]] /\ \A i \in 1..n : v[i] = Built(c, Cron!Keys[i + 6 - n])
    BY <1>3
  <2>3. Cron!Expression(v)
    <3>1. \A i \in 1..n : Cron!WellFormed(v[i], Cron!Keys[i + 6 - n])
      BY <2>1, <2>2, BuiltFits
    <3>2. QED
      BY <2>2, <3>1 DEF Cron!Expression
  <2>4. Len(v) = n
    BY <2>2, LenIs
  <2>5. ASSUME NEW k \in DOMAIN Hi PROVE Cron!FieldOf(v, k) = Built(c, k)
    <3>1. Cron!Place(k) \in 1..6 /\ Cron!Keys[Cron!Place(k)] = k /\ (k # "second" => Cron!Place(k) \in 2..6)
      BY FieldsAre, PlacesAre
    <3>2. CASE n = 6
      <4>1. Cron!FieldOf(v, k) = v[Cron!Place(k)] /\ Cron!Place(k) \in 1..n /\ Cron!Place(k) + 6 - n = Cron!Place(k)
        BY <2>4, <3>1, <3>2 DEF Cron!FieldOf
      <4>2. QED
        BY <2>2, <3>1, <4>1
    <3>3. CASE n = 5 /\ k = "second"
      <4>1. Cron!FieldOf(v, k) = Cron!Specific({0})
        BY <2>4, <3>3 DEF Cron!FieldOf
      <4>2. c.mode \notin {"custom", "every_n_seconds"}
        BY <1>3, <3>3
      <4>3. QED
        BY <1>2, <3>3, <4>1, <4>2 DEF Built
    <3>4. CASE n = 5 /\ k # "second"
      <4>1. Cron!FieldOf(v, k) = v[Cron!Place(k) - 1] /\ Cron!Place(k) - 1 \in 1..n /\ Cron!Place(k) - 1 + 6 - n = Cron!Place(k)
        BY <2>4, <3>1, <3>4 DEF Cron!FieldOf
      <4>2. QED
        BY <2>2, <3>1, <4>1
    <3>5. QED
      BY <3>2, <3>3, <3>4
  <2>6. QED
    BY <1>3, <2>3, <2>4, <2>5
<1>4. \E n \in {5, 6} : /\ v = [i \in 1..n |-> Built(c, Cron!Keys[i + 6 - n])]
                        /\ n = 5 => c.mode \notin {"custom", "every_n_seconds"}
                        /\ n = 6 => c.mode \in {"custom", "every_n_seconds"}
  <2>1. CASE c.mode = "custom"
    <3>1. v = [i \in 1..6 |-> Cron!buildFieldExpr(c.customFields[Cron!Keys[i]], Cron!Keys[i])]
      BY <1>1, <2>1 DEF Cron!buildCronExpr
    <3>2. \A i \in 1..6 : Built(c, Cron!Keys[i + 6 - 6]) = Cron!buildFieldExpr(c.customFields[Cron!Keys[i]], Cron!Keys[i])
      BY <2>1 DEF Built
    <3>3. v = [i \in 1..6 |-> Built(c, Cron!Keys[i + 6 - 6])]
      BY <3>1, <3>2
    <3>4. QED
      BY <2>1, <3>3
  <2>2. CASE c.mode = "every_n_seconds"
    <3>1. PICK f, g : f = Cron!Step(Cron!Clamp(c.everyNSeconds, 1, Hi["second"])) /\ g = Cron!AnyValue
      OBVIOUS
    <3>2. v = <<f, g, g, g, g, g>>
      BY <1>1, <2>2, <3>1 DEF Cron!buildCronExpr
    <3>3. Built(c, "second") = f /\ \A k \in {"minute", "hour", "day", "month", "weekday"} : Built(c, k) = g
      BY <2>2, <3>1 DEF Built
    <3>4. Len(v) = 6 /\ v = [i \in 1..6 |-> v[i]]
          /\ v[1] = f /\ v[2] = g /\ v[3] = g /\ v[4] = g /\ v[5] = g /\ v[6] = g
      BY <3>2
    <3>5. \A i \in 1..6 : v[i] = Built(c, Cron!Keys[i + 6 - 6])
      <4>1. \A i \in 1..6 : i + 6 - 6 = i /\ (i = 1 \/ i = 2 \/ i = 3 \/ i = 4 \/ i = 5 \/ i = 6)
        OBVIOUS
      <4>2. QED
        BY <3>3, <3>4, <4>1, FieldsAre
    <3>6. v = [i \in 1..6 |-> Built(c, Cron!Keys[i + 6 - 6])]
      BY <3>4, <3>5
    <3>7. QED
      BY <2>2, <3>6
  <2>3. CASE c.mode \in {"every_n_minutes", "hourly", "daily", "weekly"}
    <3>1. PICK m, h, g, w : v = <<m, h, g, g, w>> /\ g = Cron!AnyValue
             /\ Built(c, "minute") = m /\ Built(c, "hour") = h /\ Built(c, "day") = g
             /\ Built(c, "month") = g /\ Built(c, "weekday") = w
      <4>1. CASE c.mode = "every_n_minutes"
        BY <1>1, <4>1 DEF Cron!buildCronExpr, Built
      <4>2. CASE c.mode = "hourly"
        BY <1>1, <4>2 DEF Cron!buildCronExpr, Built
      <4>3. CASE c.mode = "daily"
        BY <1>1, <4>3 DEF Cron!buildCronExpr, Built
      <4>4. CASE c.mode = "weekly"
        BY <1>1, <4>4 DEF Cron!buildCronExpr, Built
      <4>5. QED
        BY <2>3, <4>1, <4>2, <4>3, <4>4
    <3>2. Len(v) = 5 /\ v = [i \in 1..5 |-> v[i]]
          /\ v[1] = m /\ v[2] = h /\ v[3] = g /\ v[4] = g /\ v[5] = w
      BY <3>1
    <3>3. \A i \in 1..5 : v[i] = Built(c, Cron!Keys[i + 6 - 5])
      <4>1. \A i \in 1..5 : i + 6 - 5 = i + 1 /\ (i = 1 \/ i = 2 \/ i = 3 \/ i = 4 \/ i = 5)
        OBVIOUS
      <4>2. QED
        BY <3>1, <3>2, <4>1, FieldsAre
    <3>4. v = [i \in 1..5 |-> Built(c, Cron!Keys[i + 6 - 5])]
      BY <3>2, <3>3
    <3>5. QED
      BY <2>3, <3>4
  <2>4. QED
    BY <1>2, <2>1, <2>2, <2>3
<1>5. QED
  BY <1>1, <1>3, <1>4

\* A preset changes a value of the default.
LEMMA SecondsSet ==
  ASSUME NEW x \in Int, NEW d, d = [Cron!defaultCronConfig EXCEPT !.mode = "every_n_seconds", !.everyNSeconds = x]
  PROVE  CronConfig(d) /\ d.mode = "every_n_seconds" /\ d.everyNSeconds = x
<1>1. PICK c : c = Cron!defaultCronConfig
  OBVIOUS
<1>2. CronConfig(c)
  BY <1>1, DefaultFits
<1>3. c.mode = "every_n_minutes"
  BY <1>1 DEF Cron!defaultCronConfig
<1>4. d = [c EXCEPT !.mode = "every_n_seconds", !.everyNSeconds = x]
  BY <1>1
<1>5. QED
  BY <1>2, <1>3, <1>4 DEF CronConfig, Cron!Modes

\* Five fields that are read as a preset.
LEMMA MinuteReads ==
  ASSUME NEW m, Cron!WellFormed(m[1], "minute"), Cron!WellFormed(m[2], "hour"), Cron!WellFormed(m[5], "weekday")
  PROVE  \/ Cron!parsePresetFromMinuteFields(m) = {}
         \/ \E c : /\ Cron!parsePresetFromMinuteFields(m) = {c} /\ CronConfig(c)
                   /\ c.mode \in {"every_n_minutes", "hourly", "daily", "weekly"}
                   /\ Built(c, "minute") = m[1] /\ Built(c, "hour") = m[2] /\ Built(c, "day") = m[3]
                   /\ Built(c, "month") = m[4] /\ Built(c, "weekday") = m[5]
<1>1. PICK P, d0 : P = Cron!parsePresetFromMinuteFields(m) /\ d0 = Cron!defaultCronConfig
  OBVIOUS
<1>d. CronConfig(d0) /\ d0.mode = "every_n_minutes"
  BY <1>1, DefaultFits DEF Cron!defaultCronConfig
<1>2. Cron!AnyValue.kind = "any" /\ "minute" \in DOMAIN Hi /\ "hour" \in DOMAIN Hi /\ "weekday" \in DOMAIN Hi
  BY FieldsAre DEF Cron!AnyValue
<1>3. \A k \in DOMAIN Hi : Cron!Values(k) \subseteq Int
  BY BoundsAre
<1>4. CASE m[1].kind = "step" /\ m[1].n \in 1..Hi["minute"] /\ \A j \in 2..5 : m[j] = Cron!AnyValue
  <2>1. PICK n \in 1..Hi["minute"] : m[1] = Cron!Step(n) /\ n = m[1].n
    BY <1>4 DEF Cron!WellFormed, Cron!AnyValue, Cron!Foreign
  <2>2. n \in Int /\ Cron!Clamp(n, 1, Hi["minute"]) = n
    BY StepIs
  <2>3. PICK d : d = [d0 EXCEPT !.everyNMinutes = n]
    OBVIOUS
  <2>4. P = {d}
    BY <1>1, <1>4, <2>1, <2>3 DEF Cron!parsePresetFromMinuteFields, Cron!One
  <2>5. CronConfig(d) /\ d.mode = "every_n_minutes" /\ d.everyNMinutes = n
    BY <1>d, <2>2, <2>3 DEF CronConfig, Cron!Modes
  <2>6. Built(d, "minute") = Cron!Step(n) /\ \A k \in {"hour", "day", "month", "weekday"} : Built(d, k) = Cron!AnyValue
    BY <2>2, <2>5 DEF Built
  <2>7. QED
    BY <1>1, <1>4, <2>1, <2>4, <2>5, <2>6
<1>5. CASE Cron!One(m[1]) /\ \A j \in 2..5 : m[j] = Cron!AnyValue
  <2>1. PICK x \in Cron!Values("minute") : m[1] = Cron!Specific({x})
    BY <1>2, <1>5, OneHas
  <2>2. x \in Int /\ Cron!At(x, "minute") = Cron!Specific({x}) /\ Cron!Only(m[1]) = x
    BY <1>2, <1>3, <2>1, AtIs, OneIs
  <2>a. PICK d : d = [d0 EXCEPT !.mode = "hourly", !.hourlyMinute = Cron!Only(m[1])]
    OBVIOUS
  <2>3. d = [d0 EXCEPT !.mode = "hourly", !.hourlyMinute = x]
    BY <2>2, <2>a
  <2>4. P = {d}
    BY <1>1, <1>2, <1>5, <2>a DEF Cron!parsePresetFromMinuteFields, Cron!One
  <2>5. CronConfig(d) /\ d.mode = "hourly" /\ d.hourlyMinute = x
    BY <1>d, <2>2, <2>3 DEF CronConfig, Cron!Modes
  <2>6. Built(d, "minute") = Cron!Specific({x}) /\ \A k \in {"hour", "day", "month", "weekday"} : Built(d, k) = Cron!AnyValue
    BY <2>2, <2>5 DEF Built
  <2>7. QED
    BY <1>1, <1>5, <2>1, <2>4, <2>5, <2>6
<1>6. CASE Cron!One(m[1]) /\ Cron!One(m[2]) /\ \A j \in 3..5 : m[j] = Cron!AnyValue
  <2>1. PICK x \in Cron!Values("minute"), y \in Cron!Values("hour") : m[1] = Cron!Specific({x}) /\ m[2] = Cron!Specific({y})
    <3>1. \E x \in Cron!Values("minute") : m[1] = Cron!Specific({x})
      BY <1>2, <1>6, OneHas
    <3>2. \E y \in Cron!Values("hour") : m[2] = Cron!Specific({y})
      BY <1>2, <1>6, OneHas
    <3>3. QED
      BY <3>1, <3>2
  <2>2. /\ x \in Int /\ Cron!At(x, "minute") = Cron!Specific({x}) /\ Cron!Only(m[1]) = x
        /\ y \in Int /\ Cron!At(y, "hour") = Cron!Specific({y}) /\ Cron!Only(m[2]) = y
    BY <1>2, <1>3, <2>1, AtIs, OneIs
  <2>a. PICK d : d = [d0 EXCEPT !.mode = "daily", !.dailyMinute = Cron!Only(m[1]), !.dailyHour = Cron!Only(m[2])]
    OBVIOUS
  <2>3. d = [d0 EXCEPT !.mode = "daily", !.dailyMinute = x, !.dailyHour = y]
    BY <2>2, <2>a
  <2>4. P = {d}
    BY <1>1, <1>2, <1>6, <2>a DEF Cron!parsePresetFromMinuteFields, Cron!One
  <2>5. CronConfig(d) /\ d.mode = "daily" /\ d.dailyMinute = x /\ d.dailyHour = y
    BY <1>d, <2>2, <2>3 DEF CronConfig, Cron!Modes
  <2>6. Built(d, "minute") = Cron!Specific({x}) /\ Built(d, "hour") = Cron!Specific({y})
        /\ \A k \in {"day", "month", "weekday"} : Built(d, k) = Cron!AnyValue
    BY <2>2, <2>5 DEF Built
  <2>7. QED
    BY <1>1, <1>6, <2>1, <2>4, <2>5, <2>6
<1>7. CASE Cron!One(m[1]) /\ Cron!One(m[2]) /\ m[3] = Cron!AnyValue /\ m[4] = Cron!AnyValue /\ Cron!One(m[5])
  <2>1. PICK x \in Cron!Values("minute"), y \in Cron!Values("hour"), z \in Cron!Values("weekday") :
          m[1] = Cron!Specific({x}) /\ m[2] = Cron!Specific({y}) /\ m[5] = Cron!Specific({z})
    <3>1. \E x \in Cron!Values("minute") : m[1] = Cron!Specific({x})
      BY <1>2, <1>7, OneHas
    <3>2. \E y \in Cron!Values("hour") : m[2] = Cron!Specific({y})
      BY <1>2, <1>7, OneHas
    <3>3. \E z \in Cron!Values("weekday") : m[5] = Cron!Specific({z})
      BY <1>2, <1>7, OneHas
    <3>4. QED
      BY <3>1, <3>2, <3>3
  <2>2. /\ x \in Int /\ Cron!At(x, "minute") = Cron!Specific({x}) /\ Cron!Only(m[1]) = x
        /\ y \in Int /\ Cron!At(y, "hour") = Cron!Specific({y}) /\ Cron!Only(m[2]) = y
        /\ z \in Int /\ Cron!At(z, "weekday") = Cron!Specific({z}) /\ Cron!Only(m[5]) = z
    BY <1>2, <1>3, <2>1, AtIs, OneIs
  <2>a. PICK d : d = [d0 EXCEPT !.mode = "weekly", !.weeklyMinute = Cron!Only(m[1]), !.weeklyHour = Cron!Only(m[2]),
                                !.weeklyDay = Cron!Only(m[5])]
    OBVIOUS
  <2>3. d = [d0 EXCEPT !.mode = "weekly", !.weeklyMinute = x, !.weeklyHour = y, !.weeklyDay = z]
    BY <2>2, <2>a
  <2>4. P = {d}
    BY <1>1, <1>2, <1>7, <2>a DEF Cron!parsePresetFromMinuteFields, Cron!One
  <2>5. CronConfig(d) /\ d.mode = "weekly" /\ d.weeklyMinute = x /\ d.weeklyHour = y /\ d.weeklyDay = z
    BY <1>d, <2>2, <2>3 DEF CronConfig, Cron!Modes
  <2>6. Built(d, "minute") = Cron!Specific({x}) /\ Built(d, "hour") = Cron!Specific({y}) /\ Built(d, "weekday") = Cron!Specific({z})
        /\ \A k \in {"day", "month"} : Built(d, k) = Cron!AnyValue
    BY <2>2, <2>5 DEF Built
  <2>7. QED
    BY <1>1, <1>7, <2>1, <2>4, <2>5, <2>6
<1>8. CASE ~ \/ m[1].kind = "step" /\ m[1].n \in 1..Hi["minute"] /\ \A j \in 2..5 : m[j] = Cron!AnyValue
             \/ Cron!One(m[1]) /\ \A j \in 2..5 : m[j] = Cron!AnyValue
             \/ Cron!One(m[1]) /\ Cron!One(m[2]) /\ \A j \in 3..5 : m[j] = Cron!AnyValue
             \/ Cron!One(m[1]) /\ Cron!One(m[2]) /\ m[3] = Cron!AnyValue /\ m[4] = Cron!AnyValue /\ Cron!One(m[5])
  <2>1. P = {}
    BY <1>1, <1>8 DEF Cron!parsePresetFromMinuteFields, Cron!One
  <2>2. QED
    BY <1>1, <2>1
<1>9. QED
  BY <1>4, <1>5, <1>6, <1>7, <1>8

\* Five fields that are written of a preset are read as that preset.
LEMMA MinuteWrites ==
  ASSUME NEW m, NEW c, CronConfig(c), c.mode \in {"every_n_minutes", "hourly", "daily", "weekly"},
         Built(c, "minute") = m[1], Built(c, "hour") = m[2], Built(c, "day") = m[3],
         Built(c, "month") = m[4], Built(c, "weekday") = m[5]
  PROVE  \E d : Cron!parsePresetFromMinuteFields(m) = {d} /\ CronConfig(d) /\ d.mode = c.mode
<1>0. /\ c.everyNMinutes \in Int /\ c.hourlyMinute \in Int /\ c.dailyHour \in Int
      /\ c.dailyMinute \in Int /\ c.weeklyHour \in Int /\ c.weeklyMinute \in Int /\ c.weeklyDay \in Int
  BY DEF CronConfig
<1>1. PICK P, d0 : P = Cron!parsePresetFromMinuteFields(m) /\ d0 = Cron!defaultCronConfig
  OBVIOUS
<1>d. CronConfig(d0) /\ d0.mode = "every_n_minutes"
  BY <1>1, DefaultFits DEF Cron!defaultCronConfig
<1>2. Cron!AnyValue.kind = "any" /\ "minute" \in DOMAIN Hi /\ "hour" \in DOMAIN Hi /\ "weekday" \in DOMAIN Hi
  BY FieldsAre DEF Cron!AnyValue
<1>3. \A k \in DOMAIN Hi : Cron!Values(k) \subseteq Int
  BY BoundsAre
<1>a. ASSUME NEW k \in DOMAIN Hi, NEW n \in Int
      PROVE  Cron!One(Cron!At(n, k)) /\ Cron!Only(Cron!At(n, k)) \in Int
  <2>1. PICK x \in Cron!Values(k) : Cron!At(n, k) = Cron!Specific({x})
    BY AtIs
  <2>2. QED
    BY <1>3, <2>1, OneIs
<1>4. CASE c.mode = "every_n_minutes"
  <2>1. m[1] = Cron!Step(Cron!Clamp(c.everyNMinutes, 1, Hi["minute"])) /\ \A j \in 2..5 : m[j] = Cron!AnyValue
    <3>1. \A j \in 2..5 : j = 2 \/ j = 3 \/ j = 4 \/ j = 5
      OBVIOUS
    <3>2. QED
      BY <1>4, <3>1 DEF Built
  <2>2. PICK n \in 1..Hi["minute"] : n = Cron!Clamp(c.everyNMinutes, 1, Hi["minute"])
    BY <1>0, StepIs
  <2>3. m[1].kind = "step" /\ m[1].n = n /\ n \in Int
    BY <2>1, <2>2 DEF Cron!Step
  <2>4. PICK d : d = [d0 EXCEPT !.everyNMinutes = n]
    OBVIOUS
  <2>5. P = {d}
    BY <1>1, <2>1, <2>3, <2>4 DEF Cron!parsePresetFromMinuteFields, Cron!One
  <2>6. CronConfig(d) /\ d.mode = "every_n_minutes"
    BY <1>d, <2>3, <2>4 DEF CronConfig, Cron!Modes
  <2>7. QED
    BY <1>1, <1>4, <2>5, <2>6
<1>5. CASE c.mode = "hourly"
  <2>1. Cron!One(m[1]) /\ Cron!Only(m[1]) \in Int /\ \A j \in 2..5 : m[j] = Cron!AnyValue
    <3>1. \A j \in 2..5 : j = 2 \/ j = 3 \/ j = 4 \/ j = 5
      OBVIOUS
    <3>2. m[1] = Cron!At(c.hourlyMinute, "minute") /\ m[2] = Cron!AnyValue /\ m[3] = Cron!AnyValue /\ m[4] = Cron!AnyValue /\ m[5] = Cron!AnyValue
      BY <1>5 DEF Built
    <3>3. QED
      BY <1>0, <1>2, <1>a, <3>1, <3>2
  <2>2. PICK x \in Int : x = Cron!Only(m[1])
    BY <2>1
  <2>a. PICK d : d = [d0 EXCEPT !.mode = "hourly", !.hourlyMinute = Cron!Only(m[1])]
    OBVIOUS
  <2>3. d = [d0 EXCEPT !.mode = "hourly", !.hourlyMinute = x]
    BY <2>2, <2>a
  <2>4. P = {d}
    BY <1>1, <1>2, <2>1, <2>a DEF Cron!parsePresetFromMinuteFields, Cron!One
  <2>5. CronConfig(d) /\ d.mode = "hourly"
    BY <1>d, <2>2, <2>3 DEF CronConfig, Cron!Modes
  <2>6. QED
    BY <1>1, <1>5, <2>4, <2>5
<1>6. CASE c.mode = "daily"
  <2>1. Cron!One(m[1]) /\ Cron!Only(m[1]) \in Int /\ Cron!One(m[2]) /\ Cron!Only(m[2]) \in Int /\ \A j \in 3..5 : m[j] = Cron!AnyValue
    <3>1. \A j \in 3..5 : j = 3 \/ j = 4 \/ j = 5
      OBVIOUS
    <3>2. m[1] = Cron!At(c.dailyMinute, "minute") /\ m[2] = Cron!At(c.dailyHour, "hour")
          /\ m[3] = Cron!AnyValue /\ m[4] = Cron!AnyValue /\ m[5] = Cron!AnyValue
      BY <1>6 DEF Built
    <3>3. QED
      BY <1>0, <1>2, <1>a, <3>1, <3>2
  <2>2. PICK x \in Int, y \in Int : x = Cron!Only(m[1]) /\ y = Cron!Only(m[2])
    BY <2>1
  <2>a. PICK d : d = [d0 EXCEPT !.mode = "daily", !.dailyMinute = Cron!Only(m[1]), !.dailyHour = Cron!Only(m[2])]
    OBVIOUS
  <2>3. d = [d0 EXCEPT !.mode = "daily", !.dailyMinute = x, !.dailyHour = y]
    BY <2>2, <2>a
  <2>4. P = {d}
    BY <1>1, <1>2, <2>1, <2>a DEF Cron!parsePresetFromMinuteFields, Cron!One
  <2>5. CronConfig(d) /\ d.mode = "daily"
    BY <1>d, <2>2, <2>3 DEF CronConfig, Cron!Modes
  <2>6. QED
    BY <1>1, <1>6, <2>4, <2>5
<1>7. CASE c.mode = "weekly"
  <2>1. /\ Cron!One(m[1]) /\ Cron!Only(m[1]) \in Int /\ Cron!One(m[2]) /\ Cron!Only(m[2]) \in Int
        /\ m[3] = Cron!AnyValue /\ m[4] = Cron!AnyValue /\ Cron!One(m[5]) /\ Cron!Only(m[5]) \in Int
    <3>1. m[1] = Cron!At(c.weeklyMinute, "minute") /\ m[2] = Cron!At(c.weeklyHour, "hour")
          /\ m[3] = Cron!AnyValue /\ m[4] = Cron!AnyValue /\ m[5] = Cron!At(c.weeklyDay, "weekday")
      BY <1>7 DEF Built
    <3>2. QED
      BY <1>0, <1>2, <1>a, <3>1
  <2>2. PICK x \in Int, y \in Int, z \in Int : x = Cron!Only(m[1]) /\ y = Cron!Only(m[2]) /\ z = Cron!Only(m[5])
    BY <2>1
  <2>a. PICK d : d = [d0 EXCEPT !.mode = "weekly", !.weeklyMinute = Cron!Only(m[1]), !.weeklyHour = Cron!Only(m[2]),
                                !.weeklyDay = Cron!Only(m[5])]
    OBVIOUS
  <2>3. d = [d0 EXCEPT !.mode = "weekly", !.weeklyMinute = x, !.weeklyHour = y, !.weeklyDay = z]
    BY <2>2, <2>a
  <2>4. P = {d}
    BY <1>1, <1>2, <2>1, <2>a DEF Cron!parsePresetFromMinuteFields, Cron!One
  <2>5. CronConfig(d) /\ d.mode = "weekly"
    BY <1>d, <2>2, <2>3 DEF CronConfig, Cron!Modes
  <2>6. QED
    BY <1>1, <1>7, <2>4, <2>5
<1>8. QED
  BY <1>4, <1>5, <1>6, <1>7

LEMMA FieldsAt ==
  ASSUME NEW v
  PROVE  /\ Len(v) = 6 => /\ Cron!FieldOf(v, "second") = v[1] /\ Cron!FieldOf(v, "minute") = v[2] /\ Cron!FieldOf(v, "hour") = v[3]
                          /\ Cron!FieldOf(v, "day") = v[4] /\ Cron!FieldOf(v, "month") = v[5] /\ Cron!FieldOf(v, "weekday") = v[6]
         /\ Len(v) = 5 => /\ Cron!FieldOf(v, "second") = Cron!Specific({0})
                          /\ Cron!FieldOf(v, "minute") = v[1] /\ Cron!FieldOf(v, "hour") = v[2]
                          /\ Cron!FieldOf(v, "day") = v[3] /\ Cron!FieldOf(v, "month") = v[4] /\ Cron!FieldOf(v, "weekday") = v[5]
  BY PlacesAre DEF Cron!FieldOf

LEMMA TailIs ==
  ASSUME NEW v, Cron!Expression(v), Len(v) = 6, NEW m, m = Tail(v)
  PROVE  m[1] = v[2] /\ m[2] = v[3] /\ m[3] = v[4] /\ m[4] = v[5] /\ m[5] = v[6]
<1>1. PICK n \in {5, 6} : DOMAIN v = 1..n /\ v = [i \in 1..n |-> v[i]]
  BY DEF Cron!Expression
<1>2. n = 6
  BY <1>1, LenIs
<1>3. QED
  BY <1>1, <1>2

LEMMA CustomParse ==
  ASSUME NEW v, Cron!Expression(v), NEW c, c = Cron!parseCronExpr(v, TRUE)
  PROVE  CronConfig(c) /\ c.mode = "custom" /\ c.customFields = Cron!parseCustomFields(v)
<1>1. c = [Cron!defaultCronConfig EXCEPT !.mode = "custom", !.customFields = Cron!parseCustomFields(v)]
  BY DEF Cron!parseCronExpr
<1>2. QED
  BY <1>1, CustomSet

\* The preset that an expression is, if any.
LEMMA ParseIs ==
  ASSUME NEW v, NEW P,
         P = IF Len(v) = 5 THEN Cron!parsePresetFromMinuteFields(v)
             ELSE IF v[1].kind = "step" /\ v[1].n \in 1..Hi["second"] /\ \A i \in 2..6 : v[i] = Cron!AnyValue
                  THEN {[Cron!defaultCronConfig EXCEPT !.mode = "every_n_seconds", !.everyNSeconds = v[1].n]}
             ELSE IF v[1] = Cron!Specific({0}) THEN Cron!parsePresetFromMinuteFields(Tail(v))
             ELSE {}
  PROVE  /\ P = {} => Cron!parseCronExpr(v, FALSE) =
                        [Cron!defaultCronConfig EXCEPT !.mode = "custom", !.customFields = Cron!parseCustomFields(v)]
         /\ \A c : P = {c} => Cron!parseCronExpr(v, FALSE) = c
<1>1. P = {} => Cron!parseCronExpr(v, FALSE) =
                  [Cron!defaultCronConfig EXCEPT !.mode = "custom", !.customFields = Cron!parseCustomFields(v)]
  BY DEF Cron!parseCronExpr
<1>2. ASSUME NEW c, P = {c} PROVE Cron!parseCronExpr(v, FALSE) = c
  <2>1. P # {} => Cron!parseCronExpr(v, FALSE) = CHOOSE x \in P : TRUE
    BY DEF Cron!parseCronExpr
  <2>2. (CHOOSE x \in P : TRUE) = c
    BY <1>2
  <2>3. QED
    BY <1>2, <2>1, <2>2
<1>3. QED
  BY <1>1, <1>2

LEMMA PresetParse ==
  ASSUME NEW v, Cron!Expression(v), NEW c, c = Cron!parseCronExpr(v, FALSE)
  PROVE  /\ CronConfig(c)
         /\ c.mode = "custom" => c.customFields = Cron!parseCustomFields(v)
         /\ c.mode # "custom" => \A k \in DOMAIN Hi : Cron!FieldOf(v, k) = Built(c, k)
<1>1. Len(v) \in {5, 6} /\ \A k \in DOMAIN Hi : Cron!WellFormed(Cron!FieldOf(v, k), k)
  BY FieldsOf
<1>2. DOMAIN Hi = {"second", "minute", "hour", "day", "month", "weekday"}
  BY FieldsAre
<1>3. PICK P : P = IF Len(v) = 5 THEN Cron!parsePresetFromMinuteFields(v)
             ELSE IF v[1].kind = "step" /\ v[1].n \in 1..Hi["second"] /\ \A i \in 2..6 : v[i] = Cron!AnyValue
                  THEN {[Cron!defaultCronConfig EXCEPT !.mode = "every_n_seconds", !.everyNSeconds = v[1].n]}
             ELSE IF v[1] = Cron!Specific({0}) THEN Cron!parsePresetFromMinuteFields(Tail(v))
             ELSE {}
  OBVIOUS
<1>4. CASE P = {}
  <2>1. c = [Cron!defaultCronConfig EXCEPT !.mode = "custom", !.customFields = Cron!parseCustomFields(v)]
    BY <1>3, <1>4, ParseIs
  <2>2. QED
    BY <2>1, CustomSet
<1>5. ASSUME NEW d, P = {d}, CronConfig(d), d.mode # "custom", \A k \in DOMAIN Hi : Cron!FieldOf(v, k) = Built(d, k)
      PROVE  /\ CronConfig(c)
             /\ c.mode = "custom" => c.customFields = Cron!parseCustomFields(v)
             /\ c.mode # "custom" => \A k \in DOMAIN Hi : Cron!FieldOf(v, k) = Built(c, k)
  <2>1. c = d
    BY <1>3, <1>5, ParseIs
  <2>2. QED
    BY <1>5, <2>1
<1>6. CASE Len(v) = 5
  <2>1. P = Cron!parsePresetFromMinuteFields(v)
    BY <1>3, <1>6
  <2>2. /\ Cron!FieldOf(v, "second") = Cron!Specific({0})
        /\ Cron!FieldOf(v, "minute") = v[1] /\ Cron!FieldOf(v, "hour") = v[2]
        /\ Cron!FieldOf(v, "day") = v[3] /\ Cron!FieldOf(v, "month") = v[4] /\ Cron!FieldOf(v, "weekday") = v[5]
    BY <1>6, FieldsAt
  <2>3. Cron!WellFormed(v[1], "minute") /\ Cron!WellFormed(v[2], "hour") /\ Cron!WellFormed(v[5], "weekday")
    BY <1>1, <1>2, <2>2
  <2>4. CASE P # {}
    <3>1. PICK d : /\ P = {d} /\ CronConfig(d)
                   /\ d.mode \in {"every_n_minutes", "hourly", "daily", "weekly"}
                   /\ Built(d, "minute") = v[1] /\ Built(d, "hour") = v[2] /\ Built(d, "day") = v[3]
                   /\ Built(d, "month") = v[4] /\ Built(d, "weekday") = v[5]
      BY <2>1, <2>3, <2>4, MinuteReads
    <3>2. Built(d, "second") = Cron!Specific({0})
      BY <3>1 DEF Built
    <3>3. \A k \in DOMAIN Hi : Cron!FieldOf(v, k) = Built(d, k)
      BY <1>2, <2>2, <3>1, <3>2
    <3>4. QED
      BY <1>5, <3>1, <3>3
  <2>5. QED
    BY <1>4, <2>4
<1>7. CASE Len(v) = 6
  <2>1. /\ Cron!FieldOf(v, "second") = v[1] /\ Cron!FieldOf(v, "minute") = v[2] /\ Cron!FieldOf(v, "hour") = v[3]
        /\ Cron!FieldOf(v, "day") = v[4] /\ Cron!FieldOf(v, "month") = v[5] /\ Cron!FieldOf(v, "weekday") = v[6]
    BY <1>7, FieldsAt
  <2>2. CASE v[1].kind = "step" /\ v[1].n \in 1..Hi["second"] /\ \A i \in 2..6 : v[i] = Cron!AnyValue
    <3>1. PICK n \in 1..Hi["second"] : v[1] = Cron!Step(n) /\ n = v[1].n
      <4>1. Cron!WellFormed(v[1], "second")
        BY <1>1, <1>2, <2>1
      <4>2. QED
        BY <2>2, <4>1 DEF Cron!WellFormed, Cron!AnyValue, Cron!Foreign
    <3>2. n \in Int /\ Cron!Clamp(n, 1, Hi["second"]) = n
      BY StepIs
    <3>3. PICK d : d = [Cron!defaultCronConfig EXCEPT !.mode = "every_n_seconds", !.everyNSeconds = v[1].n]
      OBVIOUS
    <3>4. P = {d}
      BY <1>3, <1>7, <2>2, <3>3
    <3>5. d = [Cron!defaultCronConfig EXCEPT !.mode = "every_n_seconds", !.everyNSeconds = n]
      BY <3>1, <3>3
    <3>6. CronConfig(d) /\ d.mode = "every_n_seconds" /\ d.everyNSeconds = n
      BY <3>2, <3>5, SecondsSet
    <3>7. Built(d, "second") = Cron!Step(n) /\ \A k \in {"minute", "hour", "day", "month", "weekday"} : Built(d, k) = Cron!AnyValue
      BY <3>2, <3>6 DEF Built
    <3>8. v[2] = Cron!AnyValue /\ v[3] = Cron!AnyValue /\ v[4] = Cron!AnyValue /\ v[5] = Cron!AnyValue /\ v[6] = Cron!AnyValue
      BY <2>2
    <3>9. \A k \in DOMAIN Hi : Cron!FieldOf(v, k) = Built(d, k)
      BY <1>2, <2>1, <3>1, <3>7, <3>8
    <3>10. QED
      BY <1>5, <3>4, <3>6, <3>9
  <2>3. CASE /\ ~(v[1].kind = "step" /\ v[1].n \in 1..Hi["second"] /\ \A i \in 2..6 : v[i] = Cron!AnyValue)
             /\ v[1] = Cron!Specific({0})
    <3>1. PICK m : m = Tail(v)
      OBVIOUS
    <3>2. P = Cron!parsePresetFromMinuteFields(m)
      BY <1>3, <1>7, <2>3, <3>1
    <3>3. m[1] = v[2] /\ m[2] = v[3] /\ m[3] = v[4] /\ m[4] = v[5] /\ m[5] = v[6]
      BY <1>7, <3>1, TailIs
    <3>4. Cron!WellFormed(m[1], "minute") /\ Cron!WellFormed(m[2], "hour") /\ Cron!WellFormed(m[5], "weekday")
      BY <1>1, <1>2, <2>1, <3>3
    <3>5. CASE P # {}
      <4>1. PICK d : /\ P = {d} /\ CronConfig(d)
                     /\ d.mode \in {"every_n_minutes", "hourly", "daily", "weekly"}
                     /\ Built(d, "minute") = m[1] /\ Built(d, "hour") = m[2] /\ Built(d, "day") = m[3]
                     /\ Built(d, "month") = m[4] /\ Built(d, "weekday") = m[5]
        BY <3>2, <3>4, <3>5, MinuteReads
      <4>2. Built(d, "second") = Cron!Specific({0})
        BY <4>1 DEF Built
      <4>3. \A k \in DOMAIN Hi : Cron!FieldOf(v, k) = Built(d, k)
        BY <1>2, <2>1, <2>3, <3>3, <4>1, <4>2
      <4>4. QED
        BY <1>5, <4>1, <4>3
    <3>6. QED
      BY <1>4, <3>5
  <2>4. CASE /\ ~(v[1].kind = "step" /\ v[1].n \in 1..Hi["second"] /\ \A i \in 2..6 : v[i] = Cron!AnyValue)
             /\ v[1] # Cron!Specific({0})
    <3>1. P = {}
      BY <1>3, <1>7, <2>4
    <3>2. QED
      BY <1>4, <3>1
  <2>5. QED
    BY <2>2, <2>3, <2>4
<1>8. QED
  BY <1>1, <1>6, <1>7

\* What is written of a preset is read as that preset.
LEMMA ReadBack ==
  ASSUME NEW c, CronConfig(c), c.mode # "custom"
  PROVE  Cron!parseCronExpr(Cron!buildCronExpr(c), FALSE).mode = c.mode
<1>1. PICK v : v = Cron!buildCronExpr(c)
  OBVIOUS
<1>2. /\ Len(v) = IF c.mode \in {"custom", "every_n_seconds"} THEN 6 ELSE 5
      /\ \A k \in DOMAIN Hi : Cron!FieldOf(v, k) = Built(c, k)
  BY <1>1, Builds
<1>3. DOMAIN Hi = {"second", "minute", "hour", "day", "month", "weekday"}
  BY FieldsAre
<1>4. CASE c.mode = "every_n_seconds"
  <2>1. PICK n \in 1..Hi["second"] : n = Cron!Clamp(c.everyNSeconds, 1, Hi["second"])
    BY StepIs DEF CronConfig
  <2>2. Built(c, "second") = Cron!Step(n) /\ \A k \in {"minute", "hour", "day", "month", "weekday"} : Built(c, k) = Cron!AnyValue
    BY <1>4, <2>1 DEF Built
  <2>3. v[1] = Cron!Step(n) /\ \A i \in 2..6 : v[i] = Cron!AnyValue
    <3>1. \A i \in 2..6 : i = 2 \/ i = 3 \/ i = 4 \/ i = 5 \/ i = 6
      OBVIOUS
    <3>2. QED
      BY <1>2, <1>3, <1>4, <2>2, <3>1, FieldsAt
  <2>4. v[1].kind = "step" /\ v[1].n = n
    BY <2>3 DEF Cron!Step
  <2>5. PICK d : d = [Cron!defaultCronConfig EXCEPT !.mode = "every_n_seconds", !.everyNSeconds = v[1].n]
    OBVIOUS
  <2>a. PICK P : P = IF Len(v) = 5 THEN Cron!parsePresetFromMinuteFields(v)
             ELSE IF v[1].kind = "step" /\ v[1].n \in 1..Hi["second"] /\ \A i \in 2..6 : v[i] = Cron!AnyValue
                  THEN {[Cron!defaultCronConfig EXCEPT !.mode = "every_n_seconds", !.everyNSeconds = v[1].n]}
             ELSE IF v[1] = Cron!Specific({0}) THEN Cron!parsePresetFromMinuteFields(Tail(v))
             ELSE {}
    OBVIOUS
  <2>b. P = {d}
    BY <1>2, <1>4, <2>a, <2>3, <2>4, <2>5
  <2>6. Cron!parseCronExpr(v, FALSE) = d
    BY <2>a, <2>b, ParseIs
  <2>7. d.mode = "every_n_seconds"
    <3>1. n \in Int
      BY StepIs
    <3>2. d = [Cron!defaultCronConfig EXCEPT !.mode = "every_n_seconds", !.everyNSeconds = n]
      BY <2>4, <2>5
    <3>3. QED
      BY <3>1, <3>2, SecondsSet
  <2>8. QED
    BY <1>1, <1>4, <2>6, <2>7
<1>5. CASE c.mode # "every_n_seconds"
  <2>1. c.mode \in {"every_n_minutes", "hourly", "daily", "weekly"} /\ Len(v) = 5
    BY <1>2, <1>5 DEF CronConfig, Cron!Modes
  <2>2. /\ Built(c, "minute") = v[1] /\ Built(c, "hour") = v[2] /\ Built(c, "day") = v[3]
        /\ Built(c, "month") = v[4] /\ Built(c, "weekday") = v[5]
    BY <1>2, <1>3, <2>1, FieldsAt
  <2>3. PICK d : Cron!parsePresetFromMinuteFields(v) = {d} /\ d.mode = c.mode
    BY <2>1, <2>2, MinuteWrites
  <2>4. Cron!parseCronExpr(v, FALSE) = d
    BY <2>1, <2>3, ParseIs
  <2>5. QED
    BY <1>1, <2>3, <2>4
<1>6. QED
  BY <1>4, <1>5

\* Written with what is read on the custom tab, or with the preset that it is, an expression
\* keeps its meaning.
LEMMA CustomKeeps ==
  ASSUME NEW v, Cron!Expression(v), Cron!Known(v), NEW c, CronConfig(c), c.mode = "custom", c.customFields = Cron!parseCustomFields(v),
         NEW k \in DOMAIN Hi
  PROVE  Cron!Meaning(Cron!buildCronExpr(c), k) = Cron!Meaning(v, k)
<1>1. PICK f : f = Cron!FieldOf(v, k) /\ Cron!WellFormed(f, k) /\ f # Cron!Foreign /\ Cron!Meaning(v, k) = Fires(f, k)
  BY FieldsOf
<1>2. Built(c, k) = Cron!buildFieldExpr(Cron!parseFieldExpr(f, k), k)
  BY <1>1, CustomReads DEF Built
<1>3. Cron!Meaning(Cron!buildCronExpr(c), k) = Fires(Built(c, k), k)
  BY Builds, FieldsOf
<1>4. QED
  BY <1>1, <1>2, <1>3, FieldMeans

LEMMA TabKeeps ==
  ASSUME NEW v, Cron!Expression(v), NEW mode, mode = "custom" \/ mode = Cron!parseCronExpr(v, FALSE).mode,
         NEW c, c = Cron!readConfig(v, mode)
  PROVE  /\ CronConfig(c) /\ c.mode = mode
         /\ mode = "custom" => c.customFields = Cron!parseCustomFields(v)
         /\ Cron!Known(v) => \A k \in DOMAIN Hi : Cron!Meaning(Cron!buildCronExpr(c), k) = Cron!Meaning(v, k)
<1>1. CASE mode = "custom"
  <2>1. PICK d : d = Cron!parseCronExpr(v, TRUE)
    OBVIOUS
  <2>2. CronConfig(d) /\ d.mode = "custom" /\ d.customFields = Cron!parseCustomFields(v)
    BY <2>1, CustomParse
  <2>3. (mode = "custom") = TRUE
    BY <1>1
  <2>4. Cron!parseCronExpr(v, mode = "custom") = d
    BY <2>1, <2>3, Zenon
  <2>5. c = [d EXCEPT !.mode = mode]
    BY <2>4 DEF Cron!readConfig
  <2>6. c = d
    BY <1>1, <2>2, <2>5, ModeSet DEF Cron!Modes
  <2>7. QED
    BY <1>1, <2>2, <2>6, CustomKeeps
<1>2. CASE mode # "custom"
  <2>1. PICK d : d = Cron!parseCronExpr(v, FALSE)
    OBVIOUS
  <2>2. CronConfig(d) /\ d.mode = mode /\ \A k \in DOMAIN Hi : Cron!FieldOf(v, k) = Built(d, k)
    BY <1>2, <2>1, PresetParse
  <2>3. (mode = "custom") = FALSE
    BY <1>2
  <2>4. Cron!parseCronExpr(v, mode = "custom") = d
    BY <2>1, <2>3, Zenon
  <2>5. c = [d EXCEPT !.mode = mode]
    BY <2>4 DEF Cron!readConfig
  <2>6. mode \in Cron!Modes
    BY <2>2 DEF CronConfig
  <2>7. c = d
    BY <2>2, <2>5, <2>6, ModeSet
  <2>8. ASSUME NEW k \in DOMAIN Hi PROVE Cron!Meaning(Cron!buildCronExpr(d), k) = Cron!Meaning(v, k)
    <3>1. Cron!Meaning(Cron!buildCronExpr(d), k) = Fires(Built(d, k), k)
      BY <2>2, Builds, FieldsOf
    <3>2. Cron!Meaning(v, k) = Fires(Built(d, k), k)
      BY <2>2, FieldsOf
    <3>3. QED
      BY <3>1, <3>2
  <2>9. QED
    BY <1>2, <2>2, <2>7, <2>8
<1>3. QED
  BY <1>1, <1>2

\* A control of a preset changes one field of it.
LEMMA ApplyFits ==
  ASSUME NEW c, CronConfig(c), NEW patch \in Cron!Offered(c.mode), c.mode \in Cron!Modes,
         NEW d, d = Patched(c, patch)
  PROVE  /\ CronConfig(d) /\ d.mode = c.mode /\ c.mode # "custom"
         /\ \E k \in DOMAIN Hi : \A j \in DOMAIN Hi \ {k} : Built(d, j) = Built(c, j)
<1>1. Steps \subseteq Int /\ \A k \in DOMAIN Hi : Cron!Values(k) \subseteq Int
  BY BoundsAre, CronConstantsFit DEF Cron!ConstantsFit
<1>2. DOMAIN Hi = {"second", "minute", "hour", "day", "month", "weekday"}
  BY FieldsAre
<1>3. c.mode \in {"every_n_seconds", "every_n_minutes", "hourly", "daily", "weekly", "custom"}
  BY DEF Cron!Modes
<1>4. CASE c.mode = "every_n_seconds"
  <2>1. PICK n \in Int : d = [c EXCEPT !.everyNSeconds = n]
    BY <1>1, <1>4 DEF Cron!Offered, Patched
  <2>2. CronConfig(d) /\ d.mode = c.mode
    BY <2>1 DEF CronConfig
  <2>3. \A j \in DOMAIN Hi \ {"second"} : Built(d, j) = Built(c, j)
    BY <1>4, <2>2 DEF Built
  <2>4. QED
    BY <1>2, <1>4, <2>2, <2>3
<1>5. CASE c.mode = "every_n_minutes"
  <2>1. PICK n \in Int : d = [c EXCEPT !.everyNMinutes = n]
    BY <1>1, <1>5 DEF Cron!Offered, Patched
  <2>2. CronConfig(d) /\ d.mode = c.mode
    BY <2>1 DEF CronConfig
  <2>3. \A j \in DOMAIN Hi \ {"minute"} : Built(d, j) = Built(c, j)
    BY <1>5, <2>2 DEF Built
  <2>4. QED
    BY <1>2, <1>5, <2>2, <2>3
<1>6. CASE c.mode = "hourly"
  <2>1. PICK n \in Int : d = [c EXCEPT !.hourlyMinute = n]
    BY <1>1, <1>2, <1>6 DEF Cron!Offered, Patched
  <2>2. CronConfig(d) /\ d.mode = c.mode
    BY <2>1 DEF CronConfig
  <2>3. \A j \in DOMAIN Hi \ {"minute"} : Built(d, j) = Built(c, j)
    BY <1>6, <2>2 DEF Built
  <2>4. QED
    BY <1>2, <1>6, <2>2, <2>3
<1>7. CASE c.mode = "daily"
  <2>1. (\E n \in Int : d = [c EXCEPT !.dailyHour = n]) \/ (\E n \in Int : d = [c EXCEPT !.dailyMinute = n])
    BY <1>1, <1>2, <1>7 DEF Cron!Offered, Patched
  <2>2. CASE \E n \in Int : d = [c EXCEPT !.dailyHour = n]
    <3>1. PICK n \in Int : d = [c EXCEPT !.dailyHour = n]
      BY <2>2
    <3>2. CronConfig(d) /\ d.mode = c.mode /\ d.dailyMinute = c.dailyMinute
      BY <3>1 DEF CronConfig
    <3>3. \A j \in DOMAIN Hi \ {"hour"} : Built(d, j) = Built(c, j)
      BY <1>7, <3>2 DEF Built
    <3>4. QED
      BY <1>2, <1>7, <3>2, <3>3
  <2>3. CASE \E n \in Int : d = [c EXCEPT !.dailyMinute = n]
    <3>1. PICK n \in Int : d = [c EXCEPT !.dailyMinute = n]
      BY <2>3
    <3>2. CronConfig(d) /\ d.mode = c.mode /\ d.dailyHour = c.dailyHour
      BY <3>1 DEF CronConfig
    <3>3. \A j \in DOMAIN Hi \ {"minute"} : Built(d, j) = Built(c, j)
      BY <1>7, <3>2 DEF Built
    <3>4. QED
      BY <1>2, <1>7, <3>2, <3>3
  <2>4. QED
    BY <2>1, <2>2, <2>3
<1>8. CASE c.mode = "weekly"
  <2>1. \/ \E n \in Int : d = [c EXCEPT !.weeklyDay = n]
        \/ \E n \in Int : d = [c EXCEPT !.weeklyHour = n]
        \/ \E n \in Int : d = [c EXCEPT !.weeklyMinute = n]
    BY <1>1, <1>2, <1>8 DEF Cron!Offered, Patched
  <2>2. CASE \E n \in Int : d = [c EXCEPT !.weeklyDay = n]
    <3>1. PICK n \in Int : d = [c EXCEPT !.weeklyDay = n]
      BY <2>2
    <3>2. CronConfig(d) /\ d.mode = c.mode /\ d.weeklyHour = c.weeklyHour /\ d.weeklyMinute = c.weeklyMinute
      BY <3>1 DEF CronConfig
    <3>3. \A j \in DOMAIN Hi \ {"weekday"} : Built(d, j) = Built(c, j)
      BY <1>8, <3>2 DEF Built
    <3>4. QED
      BY <1>2, <1>8, <3>2, <3>3
  <2>3. CASE \E n \in Int : d = [c EXCEPT !.weeklyHour = n]
    <3>1. PICK n \in Int : d = [c EXCEPT !.weeklyHour = n]
      BY <2>3
    <3>2. CronConfig(d) /\ d.mode = c.mode /\ d.weeklyDay = c.weeklyDay /\ d.weeklyMinute = c.weeklyMinute
      BY <3>1 DEF CronConfig
    <3>3. \A j \in DOMAIN Hi \ {"hour"} : Built(d, j) = Built(c, j)
      BY <1>8, <3>2 DEF Built
    <3>4. QED
      BY <1>2, <1>8, <3>2, <3>3
  <2>4. CASE \E n \in Int : d = [c EXCEPT !.weeklyMinute = n]
    <3>1. PICK n \in Int : d = [c EXCEPT !.weeklyMinute = n]
      BY <2>4
    <3>2. CronConfig(d) /\ d.mode = c.mode /\ d.weeklyDay = c.weeklyDay /\ d.weeklyHour = c.weeklyHour
      BY <3>1 DEF CronConfig
    <3>3. \A j \in DOMAIN Hi \ {"minute"} : Built(d, j) = Built(c, j)
      BY <1>8, <3>2 DEF Built
    <3>4. QED
      BY <1>2, <1>8, <3>2, <3>3
  <2>5. QED
    BY <2>1, <2>2, <2>3, <2>4
<1>9. CASE c.mode = "custom"
  BY <1>9 DEF Cron!Offered, Patched
<1>10. QED
  BY <1>3, <1>4, <1>5, <1>6, <1>7, <1>8, <1>9

\* And a control of a custom field that field.
LEMMA CustomFieldFits ==
  ASSUME NEW c, CronConfig(c), c.mode = "custom", NEW k \in DOMAIN Hi, NEW x, ConfigFits(x, k),
         NEW d, d = [c EXCEPT !.customFields[k] = x]
  PROVE  CronConfig(d) /\ d.mode = "custom" /\ \A j \in DOMAIN Hi \ {k} : Built(d, j) = Built(c, j)
<1>1. PICK F, G : F = c.customFields /\ G = [F EXCEPT ![k] = x]
  OBVIOUS
<1>2. F = [j \in DOMAIN Hi |-> F[j]] /\ \A j \in DOMAIN Hi : ConfigFits(F[j], j)
  BY <1>1 DEF CronConfig
<1>3. /\ G = [j \in DOMAIN Hi |-> G[j]] /\ \A j \in DOMAIN Hi : ConfigFits(G[j], j)
      /\ \A j \in DOMAIN Hi \ {k} : G[j] = F[j]
  BY <1>1, <1>2
<1>4. d = [c EXCEPT !.customFields = G]
  BY <1>1
<1>5. CronConfig(d) /\ d.mode = "custom" /\ d.customFields = G
  BY <1>3, <1>4 DEF CronConfig
<1>6. QED
  BY <1>1, <1>3, <1>5 DEF Built

LEMMA AtMostOne ==
  ASSUME NEW k, NEW S, S \subseteq {k}
  PROVE  Cron!Cardinality(S) <= 1
<1>1. IsFiniteSet({k}) /\ Cron!Cardinality({k}) = 1
  BY FS_Singleton, CountsAlike
<1>2. QED
  BY <1>1, FS_Subset, CountsAlike

LEMMA StoredFits == \A v \in Stored : Cron!Expression(v)
  BY CronConstantsFit DEF Cron!ConstantsFit

LEMMA CronStarts == Cron!Init => CronInv
  BY StoredFits DEF Cron!Init, CronInv

\* What is written of a configuration in the tab that is shown.
LEMMA WrittenFits ==
  ASSUME NEW c, CronConfig(c), cr_value' = Cron!buildCronExpr(c), cr_lastEmitted' = cr_value', cr_activeMode' = c.mode
  PROVE  CronInv'
<1>1. Cron!Expression(cr_value')
  BY Builds
<1>2. cr_activeMode' = "custom" \/ cr_activeMode' = Cron!parseCronExpr(cr_value', FALSE).mode
  BY ReadBack
<1>3. QED
  BY <1>1, <1>2 DEF CronInv

\* One field at most changes, when one is written.
LEMMA ChangesOne ==
  ASSUME NEW v, Cron!Expression(v), NEW c, CronConfig(c), NEW d, CronConfig(d),
         \A k \in DOMAIN Hi : Cron!Meaning(Cron!buildCronExpr(c), k) = Cron!Meaning(v, k),
         NEW j \in DOMAIN Hi, \A k \in DOMAIN Hi \ {j} : Built(d, k) = Built(c, k)
  PROVE  Cron!Cardinality({k \in DOMAIN Hi : Cron!Meaning(v, k) # Cron!Meaning(Cron!buildCronExpr(d), k)}) <= 1
<1>1. ASSUME NEW k \in DOMAIN Hi \ {j} PROVE Cron!Meaning(Cron!buildCronExpr(d), k) = Cron!Meaning(v, k)
  <2>1. Cron!Meaning(Cron!buildCronExpr(d), k) = Fires(Built(d, k), k) /\ Cron!Meaning(Cron!buildCronExpr(c), k) = Fires(Built(c, k), k)
    BY Builds, FieldsOf
  <2>2. QED
    BY <2>1
<1>2. {k \in DOMAIN Hi : Cron!Meaning(v, k) # Cron!Meaning(Cron!buildCronExpr(d), k)} \subseteq {j}
  BY <1>1
<1>3. QED
  BY <1>2, AtMostOne

LEMMA SameIs ==
  ASSUME NEW v, NEW w, \A k \in DOMAIN Hi : Cron!Meaning(v, k) = Cron!Meaning(w, k)
  PROVE  Cron!SameMeaning(v, w)
  BY DEF Cron!SameMeaning

LEMMA PatchKeeps ==
  ASSUME CronInv, NEW patch \in Cron!Offered(cr_activeMode), Cron!apply(patch)
  PROVE  CronInv' /\ Cron!KeepsMeaning
<1>1. PICK c : c = Cron!readConfig(cr_value, cr_activeMode)
  OBVIOUS
<1>2. Cron!Expression(cr_value) /\ (cr_activeMode = "custom" \/ cr_activeMode = Cron!parseCronExpr(cr_value, FALSE).mode)
  BY DEF CronInv
<1>3. /\ CronConfig(c) /\ c.mode = cr_activeMode /\ cr_activeMode \in Cron!Modes
      /\ Cron!Known(cr_value) => \A k \in DOMAIN Hi : Cron!Meaning(Cron!buildCronExpr(c), k) = Cron!Meaning(cr_value, k)
  <2>1. CronConfig(c) /\ c.mode = cr_activeMode
    BY <1>1, <1>2, TabKeeps
  <2>2. Cron!Known(cr_value) => \A k \in DOMAIN Hi : Cron!Meaning(Cron!buildCronExpr(c), k) = Cron!Meaning(cr_value, k)
    BY <1>1, <1>2, TabKeeps
  <2>3. QED
    BY <2>1, <2>2 DEF CronConfig
<1>4. PICK d : d = Patched(c, patch)
  OBVIOUS
<1>5. PICK j \in DOMAIN Hi : /\ CronConfig(d) /\ d.mode = cr_activeMode
                             /\ \A k \in DOMAIN Hi \ {j} : Built(d, k) = Built(c, k)
  <2>1. c.mode \in Cron!Modes /\ patch \in Cron!Offered(c.mode)
    BY <1>3
  <2>2. /\ CronConfig(d) /\ d.mode = c.mode
        /\ \E k \in DOMAIN Hi : \A j \in DOMAIN Hi \ {k} : Built(d, j) = Built(c, j)
    BY <1>3, <1>4, <2>1, ApplyFits
  <2>3. QED
    BY <1>3, <2>2
<1>6. cr_value' = Cron!buildCronExpr(d) /\ cr_lastEmitted' = cr_value' /\ cr_step' = "field" /\ cr_activeMode' = cr_activeMode
  BY <1>1, <1>4 DEF Cron!apply, Cron!Emit, Patched
<1>7. CronInv'
  BY <1>5, <1>6, WrittenFits
<1>8. ASSUME Cron!Known(cr_value)
      PROVE  /\ Cron!SameMeaning(cr_value, Cron!buildCronExpr(c))
             /\ Cron!Cardinality({k \in DOMAIN Hi : Cron!Meaning(cr_value, k) # Cron!Meaning(cr_value', k)}) <= 1
  <2>1. \A k \in DOMAIN Hi : Cron!Meaning(Cron!buildCronExpr(c), k) = Cron!Meaning(cr_value, k)
    BY <1>3, <1>8
  <2>2. Cron!Cardinality({k \in DOMAIN Hi : Cron!Meaning(cr_value, k) # Cron!Meaning(Cron!buildCronExpr(d), k)}) <= 1
    BY <1>2, <1>3, <1>5, <2>1, ChangesOne
  <2>3. QED
    BY <1>6, <2>1, <2>2, SameIs
<1>9. Cron!KeepsMeaning
  BY <1>1, <1>6, <1>8 DEF Cron!KeepsMeaning
<1>10. QED
  BY <1>7, <1>9

\* The expression that is shown means what the expression means.
LEMMA ShownKeeps ==
  ASSUME CronInv, Cron!Known(cr_value)
  PROVE  Cron!SameMeaning(cr_value, Cron!buildCronExpr(Cron!readConfig(cr_value, cr_activeMode)))
<1>1. Cron!Expression(cr_value) /\ (cr_activeMode = "custom" \/ cr_activeMode = Cron!parseCronExpr(cr_value, FALSE).mode)
  BY DEF CronInv
<1>2. \A k \in DOMAIN Hi : Cron!Meaning(Cron!buildCronExpr(Cron!readConfig(cr_value, cr_activeMode)), k) = Cron!Meaning(cr_value, k)
  BY <1>1, TabKeeps
<1>3. QED
  BY <1>2, SameIs

LEMMA SetModeKeeps ==
  ASSUME CronInv, NEW mode \in Cron!Modes, Cron!setMode(mode)
  PROVE  CronInv' /\ Cron!KeepsMeaning
<1>1. Cron!Expression(cr_value)
  BY DEF CronInv
<1>2. PICK c : c = Cron!parseCronExpr(cr_value, mode = "custom")
  OBVIOUS
<1>3. CronConfig(c) /\ (mode = "custom" => c.mode = "custom" /\ c.customFields = Cron!parseCustomFields(cr_value))
  <2>1. CASE mode = "custom"
    <3>1. (mode = "custom") = TRUE
      BY <2>1
    <3>2. c = Cron!parseCronExpr(cr_value, TRUE)
      BY <1>2, <3>1, Zenon
    <3>3. QED
      BY <1>1, <3>2, CustomParse
  <2>2. CASE mode # "custom"
    <3>1. (mode = "custom") = FALSE
      BY <2>2
    <3>2. c = Cron!parseCronExpr(cr_value, FALSE)
      BY <1>2, <3>1, Zenon
    <3>3. QED
      BY <1>1, <2>2, <3>2, PresetParse
  <2>3. QED
    BY <2>1, <2>2
<1>4. PICK d : d = [c EXCEPT !.mode = mode]
  OBVIOUS
<1>5. CronConfig(d) /\ d.mode = mode /\ d.customFields = c.customFields
  BY <1>3, <1>4, ModeSet
<1>6. /\ cr_value' = Cron!buildCronExpr(d) /\ cr_lastEmitted' = cr_value' /\ cr_activeMode' = mode
      /\ cr_step' = IF mode = "custom" THEN "custom" ELSE "preset"
  BY <1>2, <1>4 DEF Cron!setMode, Cron!Emit
<1>7. CronInv'
  BY <1>5, <1>6, WrittenFits
<1>8. ASSUME Cron!Known(cr_value), mode = "custom" PROVE Cron!SameMeaning(cr_value, cr_value')
  <2>1. \A k \in DOMAIN Hi : Cron!Meaning(Cron!buildCronExpr(d), k) = Cron!Meaning(cr_value, k)
    BY <1>1, <1>3, <1>5, <1>8, CustomKeeps
  <2>2. QED
    BY <1>6, <2>1, SameIs
<1>9. Cron!KeepsMeaning
  BY <1>6, <1>8, ShownKeeps DEF Cron!KeepsMeaning
<1>10. QED
  BY <1>7, <1>9

LEMMA SetFieldKeeps ==
  ASSUME CronInv, NEW k \in DOMAIN Hi, NEW x \in Cron!CronFieldEditor(Cron!readConfig(cr_value, "custom").customFields[k], k),
         Cron!setCustomField(k, x)
  PROVE  CronInv' /\ Cron!KeepsMeaning
<1>1. Cron!Expression(cr_value)
  BY DEF CronInv
<1>2. PICK c : c = Cron!parseCronExpr(cr_value, TRUE)
  OBVIOUS
<1>3. CronConfig(c) /\ c.mode = "custom" /\ c.customFields = Cron!parseCustomFields(cr_value)
  BY <1>1, <1>2, CustomParse
<1>4. ConfigFits(x, k)
  <2>1. PICK r : r = Cron!readConfig(cr_value, "custom")
    OBVIOUS
  <2>2. CronConfig(r)
    BY <1>1, <2>1, TabKeeps
  <2>3. ConfigFits(r.customFields[k], k) /\ x \in Cron!CronFieldEditor(r.customFields[k], k)
    BY <2>1, <2>2 DEF CronConfig
  <2>4. QED
    BY <2>3, EditorFits
<1>5. PICK d : d = [c EXCEPT !.customFields[k] = x]
  OBVIOUS
<1>6. CronConfig(d) /\ d.mode = "custom" /\ \A j \in DOMAIN Hi \ {k} : Built(d, j) = Built(c, j)
  BY <1>3, <1>4, <1>5, CustomFieldFits
<1>7. cr_value' = Cron!buildCronExpr(d) /\ cr_lastEmitted' = cr_value' /\ cr_activeMode' = "custom" /\ cr_step' = "field"
  BY <1>2, <1>5 DEF Cron!setCustomField, Cron!Emit
<1>8. CronInv'
  BY <1>6, <1>7, WrittenFits
<1>9. ASSUME Cron!Known(cr_value)
      PROVE  Cron!Cardinality({j \in DOMAIN Hi : Cron!Meaning(cr_value, j) # Cron!Meaning(cr_value', j)}) <= 1
  <2>1. \A j \in DOMAIN Hi : Cron!Meaning(Cron!buildCronExpr(c), j) = Cron!Meaning(cr_value, j)
    BY <1>1, <1>3, <1>9, CustomKeeps
  <2>2. Cron!Cardinality({j \in DOMAIN Hi : Cron!Meaning(cr_value, j) # Cron!Meaning(Cron!buildCronExpr(d), j)}) <= 1
    BY <1>1, <1>3, <1>6, <2>1, ChangesOne
  <2>3. QED
    BY <1>7, <2>2
<1>10. Cron!KeepsMeaning
  BY <1>7, <1>9, ShownKeeps DEF Cron!KeepsMeaning
<1>11. QED
  BY <1>8, <1>10

LEMMA FilledKeeps ==
  ASSUME CronInv, NEW v \in Stored, Cron!Filled(v)
  PROVE  CronInv' /\ Cron!KeepsMeaning
<1>1. cr_value' = v /\ Cron!Expression(v) /\ cr_step' = "filled"
  BY StoredFits DEF Cron!Filled
<1>2. ASSUME v = cr_lastEmitted PROVE CronInv'
  <2>1. cr_activeMode' = cr_activeMode /\ cr_lastEmitted' = cr_lastEmitted /\ cr_value' = cr_value
    BY <1>1, <1>2 DEF Cron!Filled, CronInv
  <2>2. Cron!Expression(cr_value') /\ cr_lastEmitted' = cr_value'
    BY <1>1, <2>1 DEF CronInv
  <2>3. cr_activeMode' = "custom" \/ cr_activeMode' = Cron!parseCronExpr(cr_value', FALSE).mode
    BY <2>1, Zenon DEF CronInv
  <2>4. QED
    BY <2>2, <2>3 DEF CronInv
<1>3. ASSUME v # cr_lastEmitted PROVE CronInv'
  <2>1. cr_activeMode' = Cron!parseCronExpr(v, FALSE).mode /\ cr_lastEmitted' = v
    BY <1>3 DEF Cron!Filled
  <2>2. cr_activeMode' = Cron!parseCronExpr(cr_value', FALSE).mode
    BY <1>1, <2>1
  <2>3. Cron!Expression(cr_value') /\ cr_lastEmitted' = cr_value'
    BY <1>1, <2>1, Zenon
  <2>4. QED
    BY <2>2, <2>3 DEF CronInv
<1>4. CronInv'
  BY <1>2, <1>3
<1>5. QED
  BY <1>1, <1>4, ShownKeeps DEF Cron!KeepsMeaning

LEMMA CronSteps == CronInv /\ Cron!Next => CronInv' /\ Cron!KeepsMeaning
<1>1. SUFFICES ASSUME CronInv, Cron!Next PROVE CronInv' /\ Cron!KeepsMeaning
  OBVIOUS
<1>2. CASE \E patch \in Cron!Offered(cr_activeMode) : Cron!apply(patch)
  BY <1>1, <1>2, PatchKeeps
<1>3. CASE \E mode \in Cron!Modes : Cron!setMode(mode)
  BY <1>1, <1>3, SetModeKeeps
<1>4. CASE \E k \in DOMAIN Hi :
             \E c \in Cron!CronFieldEditor(Cron!readConfig(cr_value, "custom").customFields[k], k) :
               Cron!setCustomField(k, c)
  BY <1>1, <1>4, SetFieldKeeps
<1>5. CASE \E v \in Stored : Cron!Filled(v)
  BY <1>1, <1>5, FilledKeeps
<1>6. QED
  BY <1>1, <1>2, <1>3, <1>4, <1>5 DEF Cron!Next

CronPart == part = "cron" => CronInv

\* As long as the expression is one the editor knows, what is shown means what it means,
\* the custom tab changes nothing by being chosen, and a control changes one field only
\* (lib/cron-builder.ts, components/cron-builder/index.tsx).
THEOREM EditorKeepsMeaningHolds == Spec => EditorKeepsMeaning
<1>1. Init => CronPart
  BY CronStarts DEF Init, CronPart
<1>2. CronPart /\ [Next]_vars => CronPart' /\ [part = "cron" => Cron!KeepsMeaning]_vars
  <2>1. SUFFICES ASSUME CronPart, [Next]_vars
                 PROVE  CronPart' /\ [part = "cron" => Cron!KeepsMeaning]_vars
    OBVIOUS
  <2>2. CASE part # "cron"
    BY <2>1, <2>2 DEF CronPart, Next, vars
  <2>3. CASE part = "cron" /\ UNCHANGED vars
    BY <2>1, <2>3 DEF CronPart, CronInv, vars, vars_cr
  <2>4. CASE part = "cron" /\ Next
    <3>1. Cron!Next /\ part' = part /\ CronInv
      BY <2>1, <2>4 DEF Next, CronPart
    <3>2. CronInv' /\ Cron!KeepsMeaning
      BY <3>1, CronSteps
    <3>3. QED
      BY <3>2 DEF CronPart
  <2>5. QED
    BY <2>1, <2>2, <2>3, <2>4
<1>3. QED
  BY <1>1, <1>2, PTL DEF Spec, EditorKeepsMeaning
================================================================================
