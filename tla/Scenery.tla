------------------------------- MODULE Scenery -------------------------------
(* What moves and loads by itself on the pages before the login: the pictures, which
   all come from the content network found fastest, and the animated background,
   which is to paint only while it can be seen.  Paths are relative to src/web/src/. *)
EXTENDS Integers, FiniteSets

CONSTANTS
  HOME_IMAGE_CDNS,  \* the networks
  Images,           \* the pictures of a page
  Logos,            \* those of them that are its brand, which never waits
  Local,            \* the server's own copy
  MaxActs,          \* bound on what the user does
  None

VARIABLES
  winnerBase,   \* the network chosen, of this page
  stored,       \* the one in sessionStorage, which survives the page
  probe,        \* networks that have not answered, and those that have
  src,          \* where each picture on the page is from: None while it waits
  awaits,       \* pictures on the page that hear of the probe
  prism,        \* None, or the background: what it believes and what it has pending
  shown,        \* whether the browser shows the page at all
  acts

vars == <<winnerBase, stored, probe, src, awaits, prism, shown, acts>>
pictures == <<winnerBase, stored, probe, src, awaits>>

Prisms ==
  [mounted : BOOLEAN, visible : BOOLEAN, pageVisible : BOOLEAN, loopActive : BOOLEAN,
   raf : BOOLEAN, timer : BOOLEAN, frames : Nat, timers : Nat]

\* What the constants are supposed to be: there is a network to ask, and None is
\* neither a place to load from nor a background.
ConstantsFit ==
  /\ HOME_IMAGE_CDNS # {}
  /\ None \notin HOME_IMAGE_CDNS \cup {Local} \cup Prisms

Act == acts < MaxActs /\ acts' = acts + 1

-----------------------------------------------------------------------------
Idle == [asked |-> {}, ok |-> {}]
Probing == probe.asked # {}

\* The network of this page, or of an earlier page of the tab.
peekRacedHomeImageUrl == IF winnerBase # None THEN winnerBase ELSE stored

\* A picture without one waits for the probe, which all pictures share.
resolveHomeImageCdnBase(i) ==
  /\ probe' = IF Probing THEN probe ELSE [asked |-> HOME_IMAGE_CDNS, ok |-> {}]
  /\ awaits' = awaits \cup {i}

\* A picture appears.  The brand is there at once, if only the server's.
MountImage(i) ==
  LET base == peekRacedHomeImageUrl IN
  /\ Act
  /\ i \notin DOMAIN src
  /\ winnerBase' = base
  /\ src' = [j \in DOMAIN src \cup {i} |->
               IF j # i THEN src[j]
               ELSE IF base # None THEN base
               ELSE IF i \in Logos THEN Local ELSE None]
  /\ IF base # None THEN UNCHANGED <<probe, awaits>> ELSE resolveHomeImageCdnBase(i)
  /\ UNCHANGED <<stored, prism, shown>>

UnmountImage(i) ==
  /\ Act
  /\ i \in DOMAIN src
  /\ src' = [j \in DOMAIN src \ {i} |-> src[j]]
  /\ awaits' = awaits \ {i}
  /\ UNCHANGED <<winnerBase, stored, probe, prism, shown>>

\* The probe has ended with the networks that are good: the fastest of them, which
\* may be any, is chosen and kept, if the browser lets it; without one the pictures
\* are the server's, and the next one that appears asks again.
probeLowestLatencyCdn(good) ==
  LET Settle(base) == src' = [i \in DOMAIN src |-> IF i \in awaits THEN base ELSE src[i]] IN
  /\ probe' = Idle /\ awaits' = {}
  /\ IF good = {} THEN Settle(Local) /\ UNCHANGED <<winnerBase, stored>>
     ELSE \E base \in good, writes \in BOOLEAN :
            /\ winnerBase' = base
            /\ stored' = IF writes THEN base ELSE stored
            /\ Settle(base)

\* HEAD, or GET where that is refused, has answered or not in time; all must have.
measureCdnLatency(cdn, ok) ==
  LET left == probe.asked \ {cdn}
      good == IF ok THEN probe.ok \cup {cdn} ELSE probe.ok IN
  /\ cdn \in probe.asked
  /\ IF left = {} THEN probeLowestLatencyCdn(good)
     ELSE /\ probe' = [asked |-> left, ok |-> good]
          /\ UNCHANGED <<winnerBase, stored, src, awaits>>
  /\ UNCHANGED <<prism, shown, acts>>

\* The brand falls back to the server's copy when the network's will not load.
onError(i) ==
  /\ Act
  /\ i \in DOMAIN src \cap Logos /\ src[i] # Local
  /\ src' = [src EXCEPT ![i] = Local]
  /\ UNCHANGED <<winnerBase, stored, probe, awaits, prism, shown>>

-----------------------------------------------------------------------------
\* frames and timers count the callbacks the browser holds; raf and timer say which
\* of them the code knows of, and could take back.
\* A stop that forgets the timer.
FaultyStopLoop(p) ==
  [p EXCEPT !.loopActive = FALSE, !.raf = FALSE, !.frames = IF p.raf THEN @ - 1 ELSE @]

stopLoop(p) ==
  [p EXCEPT !.loopActive = FALSE, !.raf = FALSE, !.timer = FALSE,
            !.frames = IF p.raf THEN @ - 1 ELSE @, !.timers = IF p.timer THEN @ - 1 ELSE @]

Seen(p) == p.visible /\ p.pageVisible

kick(p) ==
  IF Seen(p) THEN [p EXCEPT !.timer = FALSE, !.raf = TRUE, !.frames = @ + 1]
  ELSE [p EXCEPT !.timer = FALSE, !.loopActive = FALSE]

paint(p) ==
  IF Seen(p) THEN [p EXCEPT !.raf = FALSE, !.timer = TRUE, !.timers = @ + 1]
  ELSE [p EXCEPT !.raf = FALSE, !.loopActive = FALSE]

ensureRunning(p) ==
  IF p.loopActive \/ ~Seen(p) THEN p ELSE kick([p EXCEPT !.loopActive = TRUE])

ElsePrism == UNCHANGED pictures

\* Without WebGL, or where less motion is asked for, there is none.
mountAuthPrism ==
  /\ Act /\ prism = None
  /\ prism' = ensureRunning([mounted |-> TRUE, visible |-> TRUE, pageVisible |-> shown, loopActive |-> FALSE,
                             raf |-> FALSE, timer |-> FALSE, frames |-> 0, timers |-> 0])
  /\ UNCHANGED shown /\ ElsePrism

\* The background goes with its page; a callback it did not take back remains.
dispose ==
  /\ Act /\ prism # None /\ prism.mounted
  /\ prism' = LET p == stopLoop(prism) IN
                IF p.frames + p.timers = 0 THEN None ELSE [p EXCEPT !.mounted = FALSE]
  /\ UNCHANGED shown /\ ElsePrism

Frame ==
  /\ prism # None /\ prism.frames > 0 /\ shown
  /\ prism' = paint([prism EXCEPT !.frames = @ - 1])
  /\ UNCHANGED <<shown, acts>> /\ ElsePrism

Timer ==
  /\ prism # None /\ prism.timers > 0
  /\ prism' = kick([prism EXCEPT !.timers = @ - 1])
  /\ UNCHANGED <<shown, acts>> /\ ElsePrism

\* What the observers say: the background is scrolled away or back, the tab is.
Observed(visible) ==
  /\ Act /\ prism # None /\ prism.mounted
  /\ LET p == [prism EXCEPT !.visible = visible] IN
       prism' = IF visible THEN ensureRunning(p) ELSE stopLoop(p)
  /\ UNCHANGED shown /\ ElsePrism

onVisibility ==
  /\ Act
  /\ shown' = ~shown
  /\ prism' = IF prism = None THEN None ELSE IF ~prism.mounted THEN prism
              ELSE LET p == [prism EXCEPT !.pageVisible = shown'] IN
                     IF shown' THEN ensureRunning(p) ELSE stopLoop(p)
  /\ ElsePrism

\* The page is loaded anew in its tab.
Load ==
  /\ Act
  /\ winnerBase' = None /\ probe' = Idle /\ src' = [i \in {} |-> None] /\ awaits' = {}
  /\ prism' = None
  /\ UNCHANGED <<stored, shown>>

Init ==
  /\ winnerBase = None /\ stored = None
  /\ probe = Idle /\ src = [i \in {} |-> None] /\ awaits = {}
  /\ prism = None /\ shown \in BOOLEAN /\ acts = 0

Next ==
  \/ \E i \in Images : MountImage(i) \/ UnmountImage(i) \/ onError(i)
  \/ \E cdn \in HOME_IMAGE_CDNS, ok \in BOOLEAN : measureCdnLatency(cdn, ok)
  \/ mountAuthPrism \/ dispose \/ Frame \/ Timer \/ onVisibility
  \/ \E visible \in BOOLEAN : Observed(visible)
  \/ Load

Spec == Init /\ [][Next]_vars
-----------------------------------------------------------------------------
\* No picture waits for a probe that has ended, and those from a network are all
\* from the one chosen, which is the one the tab remembers, if it does.
PicturesAgree ==
  /\ \A i \in DOMAIN src : src[i] = None => i \in awaits \ Logos
  /\ awaits # {} => Probing
  /\ {src[i] : i \in DOMAIN src} \subseteq {None, Local, winnerBase}
  /\ None \notin {stored, winnerBase} => stored = winnerBase

\* The background paints exactly while it can be seen, one frame at a time, and
\* has nothing pending it could not take back.
PaintsWhenSeen ==
  prism # None =>
    /\ prism.mounted /\ prism.pageVisible = shown
    /\ prism.loopActive = Seen(prism)
    /\ prism.frames + prism.timers = IF prism.loopActive THEN 1 ELSE 0
    /\ prism.frames = (IF prism.raf THEN 1 ELSE 0) /\ prism.timers = (IF prism.timer THEN 1 ELSE 0)

\* What loads and moves by itself comes to an end.
SceneryAgrees == PicturesAgree /\ PaintsWhenSeen
=============================================================================
