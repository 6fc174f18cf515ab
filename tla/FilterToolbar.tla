---------------------------- MODULE FilterToolbar ----------------------------
(* The filters above a list: a grid of fields that folds when there are more of
   them than a row holds, on a phone altogether.  The switch that unfolds it is in
   the toolbar or, on a phone, in the header of the page, which knows of the
   toolbar what an effect has told it.  Paths are relative to src/web/src/.      *)
EXTENDS Integers, Sequences, FiniteSets, Functions

CONSTANTS
  Columns,  \* fields in a row, for each kind of screen; "phone" is one
  FILTER_ACTION_ROW_MAX_COLS,
  MaxActs   \* bound on what the user does

VARIABLES
  page, tab, screen,
  active,    \* the filters that are set
  expanded,
  mount,     \* which toolbar this is: a tab mounts one of its own
  header,    \* what the page's header knows of it
  acts

vars == <<page, tab, screen, active, expanded, mount, header, acts>>

AuditTabs == {"requests", "operations", "slow-sql", "job-runs"}
Tabs == IF page = "audit" THEN AuditTabs ELSE {"exports"}

\* The fields of a tab, in order; most of them are those of other tabs as well.
AuditFilterToolbar(t) ==
  <<"dateRange", "keyword">>
  \o (IF t = "job-runs" THEN <<"jobStatus", "jobTrigger">>
      ELSE IF t = "slow-sql" THEN <<"tier", "severity">>
      ELSE <<"level">>)
  \o <<"requestId">>
DownloadCenter == <<"keyword", "status">>

Fields(t) == IF page = "audit" THEN AuditFilterToolbar(t) ELSE DownloadCenter

\* A last row that shares its line with the buttons has no more fields than fit beside
\* them: what is more would not be drawn.
ConstantsFit ==
  /\ \A s \in DOMAIN Columns : Columns[s] \in Nat \ {0}
  /\ FILTER_ACTION_ROW_MAX_COLS \in Nat
  /\ \A s \in DOMAIN Columns \ {"phone"} :
       \A n \in {Len(DownloadCenter)} \cup {Len(AuditFilterToolbar(t)) : t \in AuditTabs} :
         n > Columns[s] => (n - 1) % Columns[s] < FILTER_ACTION_ROW_MAX_COLS

\* Only the audit page wraps itself for the header, counts its filters, has a button.
Wrapped == page = "audit"
isMobile == screen = "phone"
Act == acts < MaxActs /\ acts' = acts + 1

-----------------------------------------------------------------------------
needsCollapse == isMobile \/ Len(Fields(tab)) > Columns[screen]
isFullyExpanded == ~needsCollapse \/ expanded
hasActions == page = "audit" /\ tab # "job-runs"
showActionBar == needsCollapse \/ hasActions
mobileExpandedLayout == isMobile /\ isFullyExpanded
mobileActionsInHeader == isMobile /\ Wrapped

\* The first row stays when the toolbar is folded; on a phone, nothing.
visibleFields ==
  IF isFullyExpanded THEN Fields(tab)
  ELSE IF isMobile THEN <<>>
  ELSE SubSeq(Fields(tab), 1, Columns[screen])

chunkFilterFields(fields, cols) ==
  [r \in 1..((Len(fields) + cols - 1) \div cols) |->
     SubSeq(fields, (r - 1) * cols + 1,
            IF r * cols < Len(fields) THEN r * cols ELSE Len(fields))]

\* The last row shares its line with the buttons, where there are any.
resolveFilterToolbarRowLayout ==
  LET rows == chunkFilterFields(visibleFields, Columns[screen])
      shares == (IF mobileActionsInHeader THEN FALSE ELSE showActionBar) /\ ~mobileExpandedLayout
  IN  IF rows = <<>> \/ ~shares THEN [stretch |-> rows, action |-> <<>>]
      ELSE [stretch |-> SubSeq(rows, 1, Len(rows) - 1), action |-> rows[Len(rows)]]

resolveActionFieldRenderCount(count, stretches) ==
  IF stretches /\ count > FILTER_ACTION_ROW_MAX_COLS THEN FILTER_ACTION_ROW_MAX_COLS ELSE count

desktopActionGrid == showActionBar /\ ~mobileExpandedLayout

\* The last field of a row above the buttons reaches to the end, their column included.
resolveStretchFieldGridColumn(i, count) == IF i = count THEN Columns[screen] + 1 ELSE i

resolveActionFieldGridColumn(i, count, stretches) ==
  LET capped == CHOOSE n \in {count, FILTER_ACTION_ROW_MAX_COLS, Columns[screen]} :
                  \A m \in {count, FILTER_ACTION_ROW_MAX_COLS, Columns[screen]} : n <= m
  IN  IF ~stretches \/ i < capped THEN i ELSE capped

\* Where each field is drawn: its row, and its columns.
Cells ==
  LET l == resolveFilterToolbarRowLayout
      stretches == l.stretch # <<>>
      drawn == resolveActionFieldRenderCount(Len(l.action), stretches)
      last(row, i) == IF desktopActionGrid THEN resolveStretchFieldGridColumn(i, Len(row)) ELSE i
      column(i) == resolveActionFieldGridColumn(i, Len(l.action), stretches)
  IN  (UNION {{[field |-> l.stretch[r][i], row |-> r, from |-> i, to |-> last(l.stretch[r], i)] :
                 i \in DOMAIN l.stretch[r]} : r \in DOMAIN l.stretch})
      \cup {[field |-> l.action[i], row |-> Len(l.stretch) + 1, from |-> column(i), to |-> column(i)] :
                 i \in 1..drawn}

\* The toolbar itself: on a phone that folds it into the header there is none.
Drawn == IF isMobile /\ ~isFullyExpanded THEN {} ELSE Cells

-----------------------------------------------------------------------------
hiddenActiveCount == IF page = "audit" THEN Cardinality(active \cap Range(Fields(tab))) ELSE 0

Told == [collapse |-> needsCollapse, bar |-> showActionBar, expanded |-> expanded,
         count |-> hiddenActiveCount, toggle |-> mount]

\* A header that compares everything but whose switch it has.
FaultyMobileSync ==
  header' = IF ~Wrapped \/ [header EXCEPT !.toggle = Told'.toggle] = Told' THEN header ELSE Told'

\* The effect after every change: the header is told when anything differs.
usePageFilterToolbarMobileSync ==
  header' = IF ~Wrapped \/ header = Told' THEN header ELSE Told'

Nothing == [collapse |-> FALSE, bar |-> FALSE, expanded |-> FALSE, count |-> 0, toggle |-> 0]

Init ==
  /\ page \in {"audit", "downloads"}
  /\ tab \in Tabs
  /\ screen \in DOMAIN Columns
  /\ active = {} /\ expanded = FALSE /\ mount = 1
  /\ header = IF Wrapped THEN Told ELSE Nothing
  /\ acts = 0

\* A tab mounts a toolbar of its own, folded; what is filled in stays.
handleTabChange(t) ==
  /\ Act /\ t # tab
  /\ tab' = t /\ expanded' = FALSE /\ mount' = mount + 1
  /\ UNCHANGED <<page, screen, active>>
  /\ usePageFilterToolbarMobileSync

\* A field that can be seen is filled in or cleared.
Fill(f) ==
  /\ Act /\ f \in {c.field : c \in Drawn}
  /\ active' = IF f \in active THEN active \ {f} ELSE active \cup {f}
  /\ UNCHANGED <<page, tab, screen, expanded, mount>>
  /\ usePageFilterToolbarMobileSync

InToolbar == needsCollapse /\ ~mobileActionsInHeader
InHeader == Wrapped /\ isMobile /\ header.bar /\ header.collapse

\* The switch, wherever it is; that of the header is some toolbar's.
toggleExpanded ==
  /\ Act
  /\ InToolbar \/ InHeader
  /\ expanded' = IF InToolbar \/ header.toggle = mount THEN ~expanded ELSE expanded
  /\ UNCHANGED <<page, tab, screen, active, mount>>
  /\ usePageFilterToolbarMobileSync

\* The list is scrolled down: what can fold does.
notifyScroll ==
  /\ Act /\ needsCollapse /\ expanded
  /\ expanded' = FALSE
  /\ UNCHANGED <<page, tab, screen, active, mount>>
  /\ usePageFilterToolbarMobileSync

\* The window crosses a breakpoint.
useFilterGridConfig(s) ==
  /\ Act /\ s # screen
  /\ screen' = s
  /\ UNCHANGED <<page, tab, active, expanded, mount>>
  /\ usePageFilterToolbarMobileSync

Next ==
  \/ \E t \in Tabs : handleTabChange(t)
  \/ \E f \in Range(Fields(tab)) : Fill(f)
  \/ toggleExpanded \/ notifyScroll
  \/ \E s \in DOMAIN Columns : useFilterGridConfig(s)

Spec == Init /\ [][Next]_vars
-----------------------------------------------------------------------------
Before(a, b) == a.row < b.row \/ (a.row = b.row /\ a.to < b.from)

\* An unfolded toolbar shows every field, each in cells of its own, in the order of
\* the page, and beside the buttons, not under them.
FieldsHaveTheirPlace ==
  /\ isFullyExpanded => {c.field : c \in Drawn} = Range(Fields(tab))
  /\ \A i, j \in DOMAIN Fields(tab) : i < j =>
       \A a, b \in Drawn :
         a.field = Fields(tab)[i] /\ b.field = Fields(tab)[j] => Before(a, b)
  /\ \A c \in Drawn :
       desktopActionGrid /\ c.row = Len(resolveFilterToolbarRowLayout.stretch) + 1
         => c.to <= Columns[screen]

\* What can be folded can be unfolded, where PageFilterToolbar.tsx:43 says.
SwitchWorks ==
  needsCollapse => InToolbar \/ (InHeader /\ header.toggle = mount /\ header.expanded = expanded)

\* A list that is narrowed by a filter one cannot see says so, on a page that
\* counts its filters; the download center does not.
NoSilentFilter ==
  page = "audit" /\ ~isFullyExpanded /\ (active \cap Range(Fields(tab))) \ {c.field : c \in Drawn} # {} =>
    IF InToolbar THEN hiddenActiveCount > 0 ELSE InHeader /\ header.count > 0

\* Whatever filters are set, shown or hidden, the user can see and change them all.
FiltersAgree == FieldsHaveTheirPlace /\ SwitchWorks /\ NoSilentFilter
=============================================================================
