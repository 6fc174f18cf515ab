------------------------------- MODULE SideNav -------------------------------
(* The navigation menu at the side of the pages: where it stands and how wide it
   is, which a device keeps; the ball it folds into, which is dragged, opens a menu
   beside it and must stay in the window; the one catalog that is unfolded, which
   is kept for a user in a tenant.  A step is one handler with the effects React
   runs after it.  Paths are relative to src/web/src/.                           *)
EXTENDS Integers, Sequences

CONSTANTS
  Windows,       \* sizes the browser's window can have
  Menus,         \* sizes the menu beside the ball can have, as measured
  Fab,           \* EXPAND_FAB_SIZE
  MaxHeight,     \* SIDE_NAV_HOVER_MENU_MAX_HEIGHT
  Gap, Pad,      \* FAB_MENU_GAP, VIEWPORT_PADDING
  Inset, Header, \* the ball's place when it was never dragged
  Threshold,     \* DRAG_THRESHOLD_PX
  Moves,         \* how far the pointer can be from where it was pressed
  MinWidth, MaxWidth, \* SIDEBAR_MIN_WIDTH, SIDEBAR_MAX_WIDTH
  Whos,          \* users in their tenants
  Trees,         \* the catalogs of each, in order
  MaxActs,       \* bound on what the user does
  None

VARIABLES
  window,    \* the window's size
  layout,    \* the layout of the page, as React has it
  kept,      \* the one in localStorage
  coords,    \* where the ball is, None while the menu is not folded into it
  drag,      \* the ball's drag: from where, how far, whether it counts as one
  hover,     \* the ball's menu: open, and whether its timer to close runs
  pointer,   \* over the ball, over its menu, or elsewhere
  hovered,   \* the catalog whose menus the ball's menu shows
  who, path, \* whose page it is, and the catalog of its route
  expanded,  \* the catalogs unfolded in the panel
  cached,    \* those in localStorage, and whose they are
  acts

vars == <<window, layout, kept, coords, drag, hover, pointer, hovered, who, path,
          expanded, cached, acts>>

Lesser(a, b) == IF a < b THEN a ELSE b
Greater(a, b) == IF a < b THEN b ELSE a
Abs(n) == IF n < 0 THEN -n ELSE n
Elements(s) == {s[i] : i \in DOMAIN s}

\* Places and sizes in pixels, the layouts, the values of a drag.
Points == [x : Int, y : Int]
Sizes == [w : Int, h : Int]
Layouts ==
  [position : {"left", "right", "top", "bottom"}, width : Int, collapsed : BOOLEAN, fab : Points \cup {None}]
DragValues == [origin : Points, by : Points, moved : BOOLEAN]

\* What the constants are supposed to be: numbers, a window that the ball fits into, a
\* ball and its gap at least as wide as the padding (36, 8 and 8 pixels), and a None
\* that is no place and no drag.
ConstantsFit ==
  /\ Windows \subseteq Sizes /\ Menus \subseteq Sizes /\ Moves \subseteq Points
  /\ {Fab, MaxHeight, Gap, Pad} \subseteq Nat /\ {Inset, Header, Threshold, MinWidth, MaxWidth} \subseteq Int
  /\ \A win \in Windows : win.w >= Fab /\ win.h >= Fab
  /\ \A menu \in Menus : menu.w >= 0 /\ menu.h >= 0
  /\ Pad <= Fab + Gap
  /\ None \notin Points \cup DragValues

Act == acts < MaxActs /\ acts' = acts + 1
-----------------------------------------------------------------------------
isSideNavPosition(p) == p \in {"left", "right"}

clampExpandFabPosition(at, win) ==
  [x |-> Lesser(Greater(0, win.w - Fab), Greater(0, at.x)),
   y |-> Lesser(Greater(0, win.h - Fab), Greater(0, at.y))]

defaultExpandFabPosition(side, win) ==
  clampExpandFabPosition(
    [x |-> IF side = "left" THEN Inset ELSE Greater(Inset, win.w - Inset - Fab),
     y |-> Header - Fab \div 2], win)

normalizeNavLayout(l, win) ==
  [l EXCEPT !.width = Lesser(MaxWidth, Greater(MinWidth, l.width)),
            !.fab = IF l.fab = None THEN None ELSE clampExpandFabPosition(l.fab, win)]

\* The menu is folded into the ball.
Folded(l) == isSideNavPosition(l.position) /\ l.collapsed

\* Where the ball is once the layout is l, of a page whose layout was before.
FabCoords(l, before, win) ==
  IF ~Folded(l) THEN None
  ELSE IF l.fab # None THEN l.fab
  ELSE IF Folded(before) /\ before.position = l.position THEN coords
  ELSE defaultExpandFabPosition(l.position, win)

\* Beside the ball, on the side of the page if there is room, else on the other
\* side if there is room there; pushed into the window at last.
computeSideNavHoverMenuPlacement(fab, menu, side, win) ==
  LET height == Lesser(menu.h, MaxHeight)
      after == fab.x + Fab + Gap
      before == fab.x - Gap - menu.w
      preferred == IF side = "left" THEN after ELSE before
      alternate == IF side = "left" THEN before ELSE after
      fitsAt(left) == left >= Pad /\ left + menu.w <= win.w - Pad
      left == IF ~fitsAt(preferred) /\ fitsAt(alternate) THEN alternate ELSE preferred
      above == fab.y + Fab - height
  IN  [left |-> Lesser(Greater(left, Pad), Greater(Pad, win.w - Pad - menu.w)),
       top |-> IF fab.y + height <= win.h - Pad THEN fab.y
               ELSE IF above >= Pad THEN above ELSE Pad]

Closed == [open |-> FALSE, closing |-> FALSE]

\* What a ball that has just appeared begins with: the effect of its first route
\* sets the timer, though nothing is open.
Fresh == [open |-> FALSE, closing |-> TRUE]

\* Nothing of a ball that has gone remains; one that stays keeps its menu.
Mounting(l) ==
  /\ hover' = IF ~Folded(l) THEN Closed ELSE IF Folded(layout) THEN hover ELSE Fresh
  /\ pointer' = IF Folded(l) /\ Folded(layout) THEN pointer ELSE "away"

\* A layout that mounts the ball at whatever place is kept.
FaultyApply(l) ==
  /\ layout' = l
  /\ kept' = normalizeNavLayout(l, window)
  /\ coords' = FabCoords(layout', layout, window)
  /\ Mounting(l)

\* Every change of the layout is normalized for the window as it is now and kept.
applyLayout(l) ==
  /\ layout' = normalizeNavLayout(l, window)
  /\ kept' = layout'
  /\ coords' = FabCoords(layout', layout, window)
  /\ Mounting(l)

toggleCollapsed == applyLayout([layout EXCEPT !.collapsed = ~@])

-----------------------------------------------------------------------------
\* The catalog of a route, if it is one of the user's.
catalogForPath(p, w) == IF p \in Elements(Trees[w]) THEN p ELSE None

\* The menu of the ball begins with the catalog of the route or with the first.
activeCatalogCode(p, w) ==
  IF catalogForPath(p, w) # None \/ Trees[w] = <<>> THEN catalogForPath(p, w) ELSE Trees[w][1]

readDeviceNavExpanded(w) == IF cached.who = w THEN cached.codes ELSE {}

\* What is unfolded at first: the route's catalog, or else what was kept.
Unfolded(p, w) ==
  IF catalogForPath(p, w) # None THEN {catalogForPath(p, w)} ELSE readDeviceNavExpanded(w)

\* What the panel shows unfolded: always the route's catalog.
isOpen(c) == c \in expanded \/ c = catalogForPath(path, who)

\* Every change of what is unfolded is kept for the user it is shown to.
Unfold(codes, w) ==
  /\ expanded' = codes
  /\ cached' = [who |-> w, codes |-> codes]

-----------------------------------------------------------------------------
Init ==
  /\ window \in Windows
  /\ \E side \in {"left", "right"} :
       kept = [position |-> side, width |-> MinWidth, collapsed |-> FALSE, fab |-> None]
  /\ layout = kept
  /\ coords = None /\ drag = None
  /\ hover = Closed /\ pointer = "away"
  /\ who \in Whos /\ path \in {None} \cup Elements(Trees[who])
  /\ hovered = activeCatalogCode(path, who)
  /\ expanded = IF path = None THEN {} ELSE {path}
  /\ cached = [who |-> who, codes |-> expanded]
  /\ acts = 0

\* The page is loaded anew, in a window of any size.
Load(win) ==
  /\ Act
  /\ window' = win
  /\ layout' = normalizeNavLayout(kept, win)
  /\ coords' = IF ~Folded(kept) THEN None
               ELSE IF kept.fab = None THEN defaultExpandFabPosition(kept.position, win)
               ELSE layout'.fab
  /\ drag' = None
  /\ hover' = IF Folded(kept) THEN Fresh ELSE Closed
  /\ pointer' = "away"
  /\ hovered' = activeCatalogCode(path, who)
  /\ Unfold(Unfolded(path, who), who)
  /\ UNCHANGED <<kept, who, path>>

\* The listener of the ball, which is there only while the ball is.
handleResize(win) ==
  /\ Act
  /\ window' = win /\ win # window
  /\ LET next == clampExpandFabPosition(coords, win) IN
       IF coords = None \/ next = coords THEN UNCHANGED <<layout, kept, coords>>
       ELSE /\ coords' = next
            /\ layout' = normalizeNavLayout([layout EXCEPT !.fab = next], win)
            /\ kept' = layout'
  /\ UNCHANGED <<drag, hover, pointer, hovered, who, path, expanded, cached>>

Elsewhere == UNCHANGED <<window, hovered, who, path, expanded, cached>>

\* The button below the panel.
Fold ==
  /\ Act
  /\ isSideNavPosition(layout.position) /\ ~layout.collapsed
  /\ toggleCollapsed
  /\ UNCHANGED drag /\ Elsewhere

setPosition(p) ==
  /\ Act /\ drag = None /\ p # layout.position
  /\ applyLayout([layout EXCEPT !.position = p])
  /\ UNCHANGED drag /\ Elsewhere

\* The separator, dragged by d: the panel grows away from its side.
setWidth(d) ==
  /\ Act
  /\ isSideNavPosition(layout.position) /\ ~layout.collapsed
  /\ applyLayout([layout EXCEPT !.width = IF layout.position = "left" THEN @ + d ELSE @ - d])
  /\ UNCHANGED drag /\ Elsewhere

\* A press hides the menu, which begins anew when it is back.
handlePointerDown ==
  /\ Act
  /\ pointer = "ball" /\ drag = None
  /\ drag' = [origin |-> coords, by |-> [x |-> 0, y |-> 0], moved |-> FALSE]
  /\ hovered' = activeCatalogCode(path, who)
  /\ UNCHANGED <<window, layout, kept, coords, hover, pointer, who, path, expanded, cached>>

Dragged(d) == clampExpandFabPosition([x |-> drag.origin.x + d.x, y |-> drag.origin.y + d.y], window)

handlePointerMove(d) ==
  /\ drag # None /\ d # drag.by
  /\ Act
  /\ drag' = [drag EXCEPT !.by = d,
                !.moved = @ \/ Abs(d.x) > Threshold \/ Abs(d.y) > Threshold]
  /\ coords' = Dragged(d)
  /\ UNCHANGED <<layout, kept, hover, pointer>> /\ Elsewhere

\* The end of a press: a drag is kept, anything less unfolds the panel.
finishDrag(next) ==
  /\ drag' = None
  /\ IF drag.moved THEN applyLayout([layout EXCEPT !.fab = next])
     ELSE toggleCollapsed

handlePointerUp == drag # None /\ finishDrag(Dragged(drag.by)) /\ UNCHANGED acts /\ Elsewhere
handlePointerCancel == drag # None /\ finishDrag(coords) /\ UNCHANGED acts /\ Elsewhere

-----------------------------------------------------------------------------
MenuShown == coords # None /\ hover.open /\ drag = None

\* Onto the ball, or from it into its menu.  A menu that appears shows the
\* catalog of the route.
openNow(over) ==
  /\ Act /\ drag = None /\ pointer # over
  /\ IF over = "ball" THEN coords # None ELSE MenuShown
  /\ pointer' = over
  /\ hover' = [open |-> TRUE, closing |-> FALSE]
  /\ hovered' = IF MenuShown THEN hovered ELSE activeCatalogCode(path, who)
  /\ UNCHANGED <<window, layout, kept, coords, drag, who, path, expanded, cached>>

scheduleClose ==
  /\ pointer # "away" /\ drag = None
  /\ pointer' = "away"
  /\ hover' = [hover EXCEPT !.closing = TRUE]
  /\ UNCHANGED <<layout, kept, coords, drag, acts>> /\ Elsewhere

\* The timer: a menu that goes from under the pointer says nothing of it.
Close ==
  /\ hover.closing
  /\ hover' = Closed
  /\ pointer' = IF pointer = "menu" THEN "away" ELSE pointer
  /\ UNCHANGED <<layout, kept, coords, drag, acts>> /\ Elsewhere

\* The pointer over a catalog of the menu.
onHover(c) ==
  /\ Act
  /\ MenuShown /\ pointer = "menu" /\ c # hovered
  /\ hovered' = c
  /\ UNCHANGED <<window, layout, kept, coords, drag, hover, pointer, who, path, expanded, cached>>

-----------------------------------------------------------------------------
\* Unfolding a catalog folds the one unfolded before.
toggleCatalog(c) ==
  /\ Act
  /\ isSideNavPosition(layout.position) /\ ~layout.collapsed
  /\ Unfold(IF c \in expanded THEN expanded \ {c} ELSE {c}, who)
  /\ UNCHANGED <<window, layout, kept, coords, drag, hover, pointer, hovered, who, path>>

\* Another route or another user: the effects of the catalog it is in.
Turn(p, w) ==
  /\ path' = p /\ who' = w
  /\ Unfold(IF w # who THEN Unfolded(p, w)
            ELSE IF catalogForPath(p, w) \in {None, catalogForPath(path, who)} THEN expanded
            ELSE {catalogForPath(p, w)}, w)
  /\ hovered' = IF activeCatalogCode(p, w) = activeCatalogCode(path, who) THEN hovered
                ELSE activeCatalogCode(p, w)
  /\ hover' = IF coords # None /\ p # path THEN [hover EXCEPT !.closing = TRUE] ELSE hover
  /\ UNCHANGED <<window, layout, kept, coords, drag, pointer>>

Navigate(p) == Act /\ drag = None /\ p # path /\ Turn(p, who)
Switch(w) == Act /\ w # who /\ Turn(path, w)

Next ==
  \/ \E win \in Windows : Load(win) \/ handleResize(win)
  \/ Fold
  \/ \E p \in {"left", "right", "top", "bottom"} : setPosition(p)
  \/ \E d \in {MinWidth, -MinWidth} : setWidth(d)
  \/ handlePointerDown \/ handlePointerUp \/ handlePointerCancel
  \/ \E d \in Moves : handlePointerMove(d)
  \/ \E over \in {"ball", "menu"} : openNow(over)
  \/ scheduleClose \/ Close
  \/ \E c \in Elements(Trees[who]) : onHover(c) \/ toggleCatalog(c)
  \/ \E p \in UNION {Elements(Trees[w]) : w \in Whos} \cup {None} : Navigate(p)
  \/ \E w \in Whos : Switch(w)

Spec == Init /\ [][Next]_vars
-----------------------------------------------------------------------------
Inside(at, size, win) ==
  /\ at.x >= 0 /\ at.x + size.w <= win.w
  /\ at.y >= 0 /\ at.y + size.h <= win.h

\* The ball can always be reached, whatever has become of the window while it was
\* there or not, and unless it is being dragged it is where the device has it.
BallStays ==
  coords # None =>
    /\ Inside(coords, [w |-> Fab, h |-> Fab], window)
    /\ drag = None /\ layout.fab # None => coords = layout.fab

\* Its menu is inside the window, if it fits there at all, and leaves the ball
\* free, if there is room for it on one side of the ball.
MenuIsBeside ==
  coords # None => \A menu \in Menus :
    LET at == computeSideNavHoverMenuPlacement(coords, menu, layout.position, window)
        size == [w |-> menu.w, h |-> Lesser(menu.h, MaxHeight)]
        free == Greater(coords.x, window.w - coords.x - Fab) >= menu.w + Gap + Pad
    IN  /\ size.w + 2 * Pad <= window.w /\ size.h + Pad <= window.h =>
             Inside([x |-> at.left, y |-> at.top], size, window)
        /\ free => at.left >= coords.x + Fab \/ at.left + menu.w <= coords.x

\* It does not stay open behind a pointer that has left.
MenuHasReason == hover.open /\ ~hover.closing => pointer # "away"

\* The accordion of use-nav-catalog-expanded.ts:38: besides the route's, at most one
\* catalog is unfolded, it is the user's own, and the next page load finds it under
\* the user's name.
CatalogsAreKept ==
  /\ \A a, b \in {c \in Elements(Trees[who]) : isOpen(c)} \ {catalogForPath(path, who)} : a = b
  /\ expanded \subseteq Elements(Trees[who])
  /\ cached = [who |-> who, codes |-> expanded]

\* docs/web-client-state.md: the layout survives the page, the ball stays in the
\* window, the unfolded catalog is each user's own.
NavAgrees == BallStays /\ MenuIsBeside /\ MenuHasReason /\ CatalogsAreKept
=============================================================================
