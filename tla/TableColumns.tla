----------------------------- MODULE TableColumns -----------------------------
(* The columns of a table and the sheet that sets them up: types/table-preference.ts,
   the mutations of hooks/table-preferences-helpers.ts, the cards of the settings
   sheet, the dragging of a card and of a column's edge.  A configuration gives each
   column a preference; what the table shows is computed from it and from the columns
   the code defines, which a release may change.  Labels, tips and the row height
   take no part; widths are counted in units of a few pixels.
   Paths are relative to src/web/src/.                                         *)
EXTENDS Integers, Sequences, FiniteSets, SequencesExt

CONSTANTS
  Releases,    \* lists of column definitions [id, width, actions], one per release
  ActionId,    \* the id of the column of buttons
  Containers,  \* widths the page may give the table
  MinWidth, DefaultWidth,
  InlineDefault, InlineMax,  \* buttons shown beside the "more" menu
  MaxEdits     \* bound on edits

VARIABLES
  defs,        \* the definitions of the running release
  config,      \* the preference of each column
  container,   \* the width of the table's container
  hand,        \* what the pointer holds: nothing, a card or a column's edge
  edits        \* edits left

vars == <<defs, config, container, hand, edits>>

Empty == [kind |-> "empty"]
Larger(a, b) == IF a > b THEN a ELSE b
Ids(d) == [i \in DOMAIN d |-> d[i].id]
Place(s, id) == CHOOSE i \in DOMAIN s : s[i] = id
Def(d, id) == d[Place(Ids(d), id)]
Scrollable(ids) == SelectSeq(ids, LAMBDA id : id # ActionId)
normalizeColumnOrderIds(ids) == Scrollable(ids) \o SelectSeq(ids, LAMBDA id : id = ActionId)

-----------------------------------------------------------------------------
(* Configurations *)

buildDefaultConfig(d) ==
  [id \in ToSet(Ids(d)) |->
     [visible |-> TRUE, pinned |-> FALSE,
      pinRight |-> IF id = ActionId THEN "yes" ELSE "unset",
      order |-> Place(normalizeColumnOrderIds(Ids(d)), id) - 1,
      width |-> Def(d, id).width,
      actionOrder |-> Def(d, id).actions, inlineMax |-> 0]]

resolveTableActionInlineVisibleMax(n) ==
  IF n = 0 THEN InlineDefault ELSE IF n > InlineMax THEN InlineMax ELSE n

normalizeTableColumnPreference(p) ==
  [p EXCEPT !.inlineMax = IF @ = 0 THEN 0 ELSE resolveTableActionInlineVisibleMax(@)]

mergeActionOrder(saved, ids) ==
  IF saved = <<>> THEN ids
  ELSE LET kept == SelectSeq(saved, LAMBDA a : a \in ToSet(ids))
       IN kept \o SelectSeq(ids, LAMBDA a : a \notin ToSet(kept))

\* What a release makes of a configuration that was kept: columns it lacks are
\* dropped, its new ones have their defaults, and so has what was left unset.
mergePreferenceConfig(d, saved) ==
  LET base == buildDefaultConfig(d)
      Merged(id) ==
        LET p == normalizeTableColumnPreference(saved[id])
        IN [p EXCEPT !.pinRight = IF @ = "unset" THEN base[id].pinRight ELSE @,
                     !.width = IF @ = 0 THEN base[id].width ELSE @,
                     !.actionOrder = mergeActionOrder(@, Def(d, id).actions)]
  IN [id \in DOMAIN base \cap DOMAIN saved |-> Merged(id)] @@ base

\* The sheet lists every column; the table those that are visible, what is fixed to
\* the right last.
Listed(d, c) ==
  SortSeq(Ids(d), LAMBDA x, y :
     \/ c[x].order < c[y].order
     \/ c[x].order = c[y].order /\ Place(Ids(d), x) < Place(Ids(d), y))
FixedRight(c, id) == c[id].pinRight = "yes" \/ (c[id].pinRight = "unset" /\ id = ActionId)
resolveColumns(d, c) ==
  LET seen == SelectSeq(Listed(d, c), LAMBDA id : c[id].visible \/ id = ActionId)
      ids == SelectSeq(seen, LAMBDA id : ~FixedRight(c, id)) \o SelectSeq(seen, LAMBDA id : FixedRight(c, id))
  IN [i \in DOMAIN ids |->
        [id |-> ids[i], fixedRight |-> FixedRight(c, ids[i]),
         pinned |-> c[ids[i]].pinned /\ ids[i] # ActionId,
         width |-> IF c[ids[i]].width = 0 THEN Def(d, ids[i]).width ELSE c[ids[i]].width]]

-----------------------------------------------------------------------------
(* Widths and buttons *)

resolveColumnPixelWidth(w) == Larger(MinWidth, IF w = 0 THEN DefaultWidth ELSE w)
Rounded(a, b) == (2 * a + b) \div (2 * b)
Total(ws) == FoldSeq(LAMBDA w, sum : w + sum, 0, ws)

\* Columns narrower than the container share it in proportion; the last one takes
\* what rounding leaves.
distributeTableColumnWidths(ws, room) ==
  LET prefs == [i \in DOMAIN ws |-> resolveColumnPixelWidth(ws[i])]
      sum == Total(prefs)
      shares == [i \in DOMAIN ws |-> Larger(MinWidth, Rounded(prefs[i] * room, sum))]
  IN IF ws = <<>> \/ room <= 0 \/ sum >= room THEN prefs
     ELSE [shares EXCEPT ![Len(ws)] = Larger(MinWidth, @ + room - Total(shares))]

Shown == resolveColumns(defs, config)
Widths(c) == LET cols == resolveColumns(defs, c)
             IN distributeTableColumnWidths([i \in DOMAIN cols |-> cols[i].width], container)

\* The buttons of a row in the order preferred, those without a place after them;
\* a menu takes what is over, unless that is one button.
resolveOrderedTableActionItems(items, order) ==
  SelectSeq(order, LAMBDA a : a \in ToSet(items)) \o SelectSeq(items, LAMBDA a : a \notin ToSet(order))
splitTableActionItems(items, n) ==
  LET max == resolveTableActionInlineVisibleMax(n)
  IN IF Len(items) <= max + 1 THEN [inline |-> items, folded |-> <<>>]
     ELSE [inline |-> SubSeq(items, 1, max), folded |-> SubSeq(items, max + 1, Len(items))]
TableRowActions(permitted) ==
  splitTableActionItems(
    resolveOrderedTableActionItems(SelectSeq(Def(defs, ActionId).actions, LAMBDA a : a \in permitted),
                                   config[ActionId].actionOrder),
    config[ActionId].inlineMax)

-----------------------------------------------------------------------------
(* Moving *)

Movable == Scrollable(Listed(defs, config))
Swapped(s, i, j) == [s EXCEPT ![i] = s[j], ![j] = s[i]]
Moved(s, i, to) == InsertAt(RemoveAt(s, i), to, s[i])

\* The places "top", "up", "down" and "bottom" take an entry to.
Target(s, i, action) ==
  CASE action = "top" -> 1 [] action = "up" -> i - 1
    [] action = "down" -> i + 1 [] action = "bottom" -> Len(s)
Moves == {"top", "up", "down", "bottom"}

\* The orders a card's buttons and arrow keys may ask for; the column of buttons
\* neither moves nor is moved past.
moveColumnByAction(id) ==
  LET i == Place(Movable, id)
  IN {Moved(Movable, i, Target(Movable, i, a)) :
        a \in {m \in Moves : Target(Movable, i, m) \in DOMAIN Movable \ {i}}}
moveColumnByKeyboard(id) ==
  LET i == Place(Movable, id)
  IN {Swapped(Movable, i, j) : j \in {i - 1, i + 1} \cap DOMAIN Movable}

\* The column of buttons is left where it is when the ids lack it (a drag).
reorderColumns(ids, c) ==
  [id \in DOMAIN c |-> IF id \in ToSet(ids) THEN [c[id] EXCEPT !.order = Place(ids, id) - 1] ELSE c[id]]

\* Orders of the buttons that the arrows beside them ask for.
TableActionOrderSettings ==
  LET s == mergeActionOrder(config[ActionId].actionOrder, Def(defs, ActionId).actions)
  IN UNION {{Moved(s, i, Target(s, i, a)) : a \in {m \in Moves : Target(s, i, m) \in DOMAIN s \ {i}}} : i \in DOMAIN s}

-----------------------------------------------------------------------------
(* The settings sheet *)

\* updateColumn: whether the column of buttons is visible, pinned or where is not
\* for the user to say.
Patched(id, p) ==
  IF id = ActionId THEN [p EXCEPT !.visible = config[id].visible, !.pinned = config[id].pinned]
  ELSE p

\* What the controls in the head of a card make of its column's preference: to hide
\* a column also takes its pins.
TableColumnSettingsCardHeader(id) ==
  LET p == config[id] IN
  {Patched(id, [p EXCEPT !.visible = FALSE, !.pinned = FALSE, !.pinRight = "no"]),
   Patched(id, [p EXCEPT !.visible = TRUE])} \cup
  (IF ~p.visible THEN {}
   ELSE IF id = ActionId THEN {[p EXCEPT !.pinRight = IF FixedRight(config, id) THEN "no" ELSE "yes"]}
   ELSE {[p EXCEPT !.pinned = ~@]})

\* What its fields make of it.  A width may be cleared.
TableColumnSettingsCard(id) ==
  {[config[id] EXCEPT !.width = w] : w \in {0, 1, DefaultWidth + 1}} \cup
  (IF id # ActionId THEN {}
   ELSE {[config[id] EXCEPT !.inlineMax = n] : n \in {0, 1, InlineMax + 1}} \cup
        {[config[id] EXCEPT !.actionOrder = order] : order \in TableActionOrderSettings})

TableColumnSettingsSheet ==
  UNION {{[config EXCEPT ![id] = p] :
             p \in TableColumnSettingsCardHeader(id) \cup TableColumnSettingsCard(id)
                   \cup {buildDefaultConfig(defs)[id]}} : id \in DOMAIN config}
  \cup {reorderColumns(ids, config) :
          ids \in UNION {moveColumnByAction(id) \cup moveColumnByKeyboard(id) : id \in ToSet(Movable)}}
  \cup {buildDefaultConfig(defs)}

Spend == edits > 0 /\ edits' = edits - 1

Edit ==
  /\ hand = Empty /\ Spend
  /\ config' \in TableColumnSettingsSheet
  /\ UNCHANGED <<defs, container, hand>>

\* A card is taken, drawn over others and let go, or the drag is cancelled.
startDrag(id) ==
  /\ hand = Empty /\ id # ActionId
  /\ hand' = [kind |-> "card", id |-> id, preview |-> Movable]
  /\ UNCHANGED <<defs, config, container, edits>>

reorderColumnIdsAtPoint(target, below) ==
  LET rest == Remove(hand.preview, hand.id)
      at == Place(rest, target) + (IF below THEN 1 ELSE 0)
  IN InsertAt(rest, at, hand.id)

DragOver(target, below) ==
  /\ hand.kind = "card" /\ target \in ToSet(hand.preview) \ {hand.id}
  /\ Spend
  /\ hand' = [hand EXCEPT !.preview = reorderColumnIdsAtPoint(target, below)]
  /\ UNCHANGED <<defs, config, container>>

finishColumnDrag(commit) ==
  /\ hand.kind = "card"
  /\ config' = IF commit THEN reorderColumns(hand.preview, config) ELSE config
  /\ hand' = Empty
  /\ UNCHANGED <<defs, container, edits>>

-----------------------------------------------------------------------------
(* A column's edge *)

\* The widths shown are frozen as they are; ...
startResize(i) ==
  /\ hand = Empty /\ i \in DOMAIN Shown
  /\ hand' = [kind |-> "edge", ids |-> [k \in DOMAIN Shown |-> Shown[k].id],
              at |-> i, widths |-> Widths(config)]
  /\ UNCHANGED <<defs, config, container, edits>>

\* ... the column follows the pointer; ...
ResizeMoves(by) ==
  /\ hand.kind = "edge" /\ Spend
  /\ hand' = [hand EXCEPT !.widths[hand.at] = Larger(MinWidth, @ + by)]
  /\ UNCHANGED <<defs, config, container>>

\* Only the column that was pulled is kept.
FaultyReleased == [id \in DOMAIN config |->
  IF id = hand.ids[hand.at] THEN [config[id] EXCEPT !.width = hand.widths[hand.at]] ELSE config[id]]


\* ... and every frozen width becomes the column's own, unless the table goes.
Released == [id \in DOMAIN config |->
  IF id \in ToSet(hand.ids) THEN [config[id] EXCEPT !.width = hand.widths[Place(hand.ids, id)]] ELSE config[id]]
stopResize(commit) ==
  /\ hand.kind = "edge"
  /\ config' = IF commit THEN Released ELSE config
  /\ hand' = Empty
  /\ UNCHANGED <<defs, container, edits>>

-----------------------------------------------------------------------------

\* The window changes; the page is opened again, perhaps in another release.
WindowResizes == Spend /\ container' \in Containers \ {container} /\ UNCHANGED <<defs, config, hand>>
Reload(d) ==
  /\ Spend
  /\ defs' = d /\ config' = mergePreferenceConfig(d, config) /\ hand' = Empty
  /\ UNCHANGED container

Init ==
  /\ defs \in Releases /\ container \in Containers
  /\ config = buildDefaultConfig(defs)
  /\ hand = Empty /\ edits = MaxEdits

Next ==
  \/ Edit
  \/ \E id \in DOMAIN config : startDrag(id)
  \/ \E id \in DOMAIN config, below \in BOOLEAN : DragOver(id, below)
  \/ \E commit \in BOOLEAN : finishColumnDrag(commit) \/ stopResize(commit)
  \/ \E i \in 1..Len(Shown) : startResize(i)
  \/ \E by \in {-2, 2} : ResizeMoves(by)
  \/ WindowResizes
  \/ \E d \in Releases : Reload(d)

Spec == Init /\ [][Next]_vars

-----------------------------------------------------------------------------

(* Properties *)

\* The columns both releases have, as a user sees them, outlive being kept, read
\* back and merged with what another release defines.
Common(d) == ToSet(Ids(d)) \cap DOMAIN config
ColumnsSurvive ==
  \A d \in Releases :
    SelectSeq(resolveColumns(d, mergePreferenceConfig(d, config)), LAMBDA c : c.id \in Common(d))
      = SelectSeq(Shown, LAMBDA c : c.id \in Common(d))

\* Whatever buttons a user is permitted, each is in the row or in its menu, and the
\* menu is never for one.
ButtonsSurvive ==
  \A permitted \in SUBSET ToSet(Def(defs, ActionId).actions) :
    LET row == TableRowActions(permitted) IN
    /\ ToSet(row.inline \o row.folded) = permitted
    /\ Len(row.inline \o row.folded) = Cardinality(permitted)
    /\ Len(row.folded) # 1

\* A drag loses no card, and pulled edges stay where they were let go unless the
\* table would fall short of its container.
HandIsSafe ==
  /\ hand.kind = "card" =>
       /\ ToSet(hand.preview) = ToSet(Movable)
       /\ Len(hand.preview) = Len(Movable)
  /\ hand.kind = "edge" /\ Total(hand.widths) >= container => Widths(Released) = hand.widths

\* (types/table-preference.ts, hooks/table-preferences-helpers.ts and the settings
\* sheet) Nothing a user does to the columns, the buttons or the widths of a table
\* loses a column or a button, is undone by a reload, or leaves the table narrower
\* than its container.
ColumnsAgree ==
  ColumnsSurvive /\ ButtonsSurvive /\ HandIsSafe /\ Total(Widths(config)) >= container

=============================================================================
