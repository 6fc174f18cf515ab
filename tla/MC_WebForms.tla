----------------------------- MODULE MC_WebForms -----------------------------
(* Model-checking instance of the modules whose state is one form, table or sheet:
   each is a part of this run, chosen at the start; the others stay out of it.    *)
EXTENDS Integers, Sequences, FiniteSets, TLC

CONSTANTS
  None,
  Tables, MaxEdits, MaxMoves, MaxFails,                         \* of TablePrefs
  Hi, Stored, EveryN, AtHour, OnDay, Steps, MaxCronEdits,       \* of CronBuilder
  Ticks, MidnightHour, Zones, LastDay, DaysPerMonth, RANGE_PRESETS, MaxDateActs, \* of DateRange
  Districts, Alike, Answers, Given, MaxRegionActs,              \* of RegionPicker
  Windows, BallMenus, Fab, MaxHeight, Gap, Pad, Inset, Header, Threshold,
  DragMoves, MinWidth, MaxWidth, Whos, Trees, MaxNavActs,       \* of SideNav
  GridColumns, FILTER_ACTION_ROW_MAX_COLS, MaxFilterActs,       \* of FilterToolbar
  HOME_IMAGE_CDNS, Images, Logos, LocalCopy, MaxSceneryActs     \* of Scenery

(* TableColumns: two releases, the later with one more column and one more button. *)
Column(id, width) == [id |-> id, width |-> width, actions |-> <<>>]
ButtonColumn(s) == [id |-> "actions", width |-> 4, actions |-> s]
MCReleases == {
  <<Column("a", 3), Column("b", 0), ButtonColumn(<<"x", "y", "z">>)>>,
  <<Column("a", 3), Column("c", 3), Column("b", 0), ButtonColumn(<<"x", "w", "y", "z">>)>>}

(* RoleAssignment: a catalog in a catalog, a menu with two buttons, one with one and
   one with none; a department with two below it, one of them disabled.           *)
MCParent == "c1" :> None @@ "c2" :> "c1" @@ "m1" :> "c1" @@ "m2" :> "c2" @@ "m3" :> "c2"
            @@ "b1" :> "m1" @@ "b2" :> "m1" @@ "b3" :> "m2"
MCDeptParent == "d1" :> None @@ "d2" :> "d1" @@ "d3" :> "d1"

(* CronBuilder: fields of two and three values; the expressions stored are presets,
   their six-field forms, custom ones and some the editor does not know.          *)
MCHi == [second |-> 2, minute |-> 2, hour |-> 2, day |-> 2, month |-> 2, weekday |-> 1]
AnyValue == [kind |-> "any"]
Zero == [kind |-> "specific", of |-> {0}]
Step(n) == [kind |-> "step", n |-> n]
Foreign == [kind |-> "foreign"]
Some(lo, hi) == {AnyValue, Step(2)} \cup {[kind |-> "specific", of |-> {n}] : n \in {lo, hi}}
MCStored ==
  {<<m, h, AnyValue, AnyValue, w>> : m \in Some(0, 2), h \in Some(0, 2), w \in Some(0, 1)} \cup
  {<<s, m, [kind |-> "range", a |-> 0, b |-> 1], AnyValue, AnyValue, AnyValue>> :
      s \in Some(0, 2), m \in Some(0, 2)} \cup
  {<<Zero, m, AnyValue, AnyValue, AnyValue, AnyValue>> : m \in Some(0, 2) \cup {Foreign}} \cup
  {<<Step(1), AnyValue, AnyValue, AnyValue, AnyValue, AnyValue>>,
   <<Zero, AnyValue, AnyValue, Foreign, AnyValue>>}

(* DateRange: days of four ticks, months of three days; the clocks change by a tick
   at any time of the second or third day, either way, or never.                   *)
MCZones ==
  {z \in {[before |-> b, after |-> a, at |-> t] : b \in {-1, 1}, a \in -1..2, t \in 7..12} :
     z.after - z.before \in {-1, 1}} \cup {[before |-> 0, after |-> 0, at |-> 0]}

(* ClientPages: lists of none, three and nine rows, some without a value in the
   column they are sorted by.                                                      *)
Row(i, v) == [id |-> i, a |-> v, b |-> 10 - i,
              can |-> IF i = 1 THEN {"edit", "run"} ELSE IF i = 2 THEN {"run", "log"} ELSE {},
              disabled |-> IF i = 2 THEN {"run"} ELSE {}]
MCLists ==
  {<<>>, <<Row(1, 2), Row(2, None), Row(3, 1)>>,
   [i \in 1..9 |-> Row(i, IF i % 4 = 0 THEN None ELSE i % 3)]}
MCActions == <<"run", "log", "edit">>

(* RegionPicker: a province with two cities, the first of which has a district of
   nearly its own name, and a province that is a city.                              *)
MCDistricts == <<<<"P", "C", "C1">>, <<"P", "C", "D">>, <<"P", "E", "F">>, <<"Q", "Q1", "G">>>>
MCAlike == {<<"C", "C1">>, <<"Q", "Q1">>}
Named(p, c, d) == [code |-> None, names |-> <<p, c, d>>]
MCAnswers ==
  {[code |-> <<"P", "C", "D">>, names |-> <<None, None, None>>], Named("P", "C", "D"), Named("P", "C", None),
   [code |-> <<"Z">>, names |-> <<"Q", None, "G">>], Named("P", "X", "F"), Named(None, "C", "D")}
MCGiven == {[province |-> "P", city |-> "C", district |-> None, region |-> None],
            [province |-> "P", city |-> "X", district |-> "F", region |-> <<"Q", "Q1", "G">>]}

(* SideNav: a window with room for every menu, and one without.                     *)
MCWindows == {[w |-> 14, h |-> 9], [w |-> 9, h |-> 6]}
MCMenus == {[w |-> 4, h |-> 3], [w |-> 5, h |-> 7]}
MCMoves == {[x |-> 1, y |-> 1], [x |-> -9, y |-> 3], [x |-> 12, y |-> 6]}
MCTrees == "u1" :> <<"c1", "c2">> @@ "u2" :> <<"c2", "c3">>

(* FilterToolbar: fields in a row of each kind of screen.                           *)
MCGrids == "phone" :> 1 @@ "lg" :> 4 @@ "xl" :> 6

VARIABLES part,
  cl_defs, cl_config, cl_container, cl_hand, cl_edits,
  ra_granted, ra_scope, ra_sheet, ra_ticked, ra_active, ra_wanted, ra_clicks,
  cr_value, cr_activeMode, cr_lastEmitted, cr_step, cr_edits,
  dr_timezone, dr_now, dr_value, dr_open, dr_range, dr_phase, dr_hoverDate,
  dr_viewMonth, dr_acts,
  pg_rows, pg_sort, pg_page, pg_pageSize, pg_loaded, pg_expired, pg_jumpValue,
  pg_typing, pg_tapped, pg_acts,
  rg_form, rg_chunk, rg_ready, rg_value, rg_locating, rg_tried, rg_sent, rg_acts,
  tp_table, tp_shown, tp_cache, tp_server, tp_clock, tp_load, tp_saves, tp_reset,
  tp_strays, tp_room,
  sn_window, sn_layout, sn_kept, sn_coords, sn_drag, sn_hover, sn_pointer,
  sn_hovered, sn_who, sn_path, sn_expanded, sn_cached, sn_acts,
  ft_page, ft_tab, ft_screen, ft_active, ft_expanded, ft_mount, ft_header, ft_acts,
  sc_winnerBase, sc_stored, sc_probe, sc_src, sc_awaits, sc_prism, sc_shown, sc_acts

Table == INSTANCE TableColumns WITH
  ActionId <- "actions", Releases <- MCReleases, Containers <- {0, 19}, MinWidth <- 2,
  DefaultWidth <- 5, InlineDefault <- 2, InlineMax <- 3, MaxEdits <- 2,
  defs <- cl_defs, config <- cl_config, container <- cl_container, hand <- cl_hand,
  edits <- cl_edits
Roles == INSTANCE RoleAssignment WITH
  Catalogs <- {"c1", "c2"}, Menus <- {"m1", "m2", "m3"}, Buttons <- {"b1", "b2", "b3"}, Parent <- MCParent,
  Depts <- DOMAIN MCDeptParent, DeptParent <- MCDeptParent, Disabled <- {"d2"}, MaxClicks <- 3,
  granted <- ra_granted, scope <- ra_scope, sheet <- ra_sheet, ticked <- ra_ticked,
  active <- ra_active, wanted <- ra_wanted, clicks <- ra_clicks
Cron == INSTANCE CronBuilder WITH
  MaxEdits <- MaxCronEdits,
  value <- cr_value, activeMode <- cr_activeMode, lastEmitted <- cr_lastEmitted,
  step <- cr_step, edits <- cr_edits
Dates == INSTANCE DateRange WITH
  MaxActs <- MaxDateActs,
  timezone <- dr_timezone, now <- dr_now, value <- dr_value, open <- dr_open,
  range <- dr_range, phase <- dr_phase, hoverDate <- dr_hoverDate,
  viewMonth <- dr_viewMonth, acts <- dr_acts
Pages == INSTANCE ClientPages WITH
  Lists <- MCLists, Actions <- MCActions, Columns <- {"a", "b"}, Jumps <- {0, 2, 12},
  PAGE_SIZE_OPTIONS <- {1, 2}, EXPIRED_TENANT_LIST_LIMIT <- 5, MaxActs <- 4,
  rows <- pg_rows, sort <- pg_sort, page <- pg_page, pageSize <- pg_pageSize,
  loaded <- pg_loaded, expired <- pg_expired, jumpValue <- pg_jumpValue,
  typing <- pg_typing, tapped <- pg_tapped, acts <- pg_acts
Region == INSTANCE RegionPicker WITH
  Empty <- None, MaxActs <- MaxRegionActs,
  form <- rg_form, chunk <- rg_chunk, ready <- rg_ready, value <- rg_value,
  locating <- rg_locating, tried <- rg_tried, sent <- rg_sent, acts <- rg_acts
Prefs == INSTANCE TablePrefs WITH
  table <- tp_table, shown <- tp_shown, cache <- tp_cache, server <- tp_server,
  clock <- tp_clock, load <- tp_load, saves <- tp_saves, reset <- tp_reset,
  strays <- tp_strays, room <- tp_room
Nav == INSTANCE SideNav WITH
  Menus <- BallMenus, Moves <- DragMoves, MaxActs <- MaxNavActs,
  window <- sn_window, layout <- sn_layout, kept <- sn_kept, coords <- sn_coords,
  drag <- sn_drag, hover <- sn_hover, pointer <- sn_pointer, hovered <- sn_hovered,
  who <- sn_who, path <- sn_path, expanded <- sn_expanded, cached <- sn_cached,
  acts <- sn_acts
Filters == INSTANCE FilterToolbar WITH
  Columns <- GridColumns, MaxActs <- MaxFilterActs,
  page <- ft_page, tab <- ft_tab, screen <- ft_screen, active <- ft_active,
  expanded <- ft_expanded, mount <- ft_mount, header <- ft_header, acts <- ft_acts
Scene == INSTANCE Scenery WITH
  Local <- LocalCopy, MaxActs <- MaxSceneryActs,
  winnerBase <- sc_winnerBase, stored <- sc_stored, probe <- sc_probe,
  src <- sc_src, awaits <- sc_awaits, prism <- sc_prism, shown <- sc_shown,
  acts <- sc_acts

ASSUME PrefsConstantsFit == Prefs!ConstantsFit
ASSUME CronConstantsFit == Cron!ConstantsFit
ASSUME DatesConstantsFit == Dates!ConstantsFit
ASSUME RegionConstantsFit == Region!ConstantsFit
ASSUME NavConstantsFit == Nav!ConstantsFit
ASSUME FiltersConstantsFit == Filters!ConstantsFit
ASSUME SceneConstantsFit == Scene!ConstantsFit

vars_cl == <<cl_defs, cl_config, cl_container, cl_hand, cl_edits>>
vars_ra == <<ra_granted, ra_scope, ra_sheet, ra_ticked, ra_active, ra_wanted, ra_clicks>>
vars_cr == <<cr_value, cr_activeMode, cr_lastEmitted, cr_step, cr_edits>>
vars_dr == <<dr_timezone, dr_now, dr_value, dr_open, dr_range, dr_phase, dr_hoverDate, dr_viewMonth, dr_acts>>
vars_pg == <<pg_rows, pg_sort, pg_page, pg_pageSize, pg_loaded, pg_expired, pg_jumpValue, pg_typing, pg_tapped, pg_acts>>
vars_rg == <<rg_form, rg_chunk, rg_ready, rg_value, rg_locating, rg_tried, rg_sent, rg_acts>>
vars_tp == <<tp_table, tp_shown, tp_cache, tp_server, tp_clock, tp_load, tp_saves, tp_reset, tp_strays, tp_room>>
vars_sn == <<sn_window, sn_layout, sn_kept, sn_coords, sn_drag, sn_hover, sn_pointer,
    sn_hovered, sn_who, sn_path, sn_expanded, sn_cached, sn_acts>>
vars_ft == <<ft_page, ft_tab, ft_screen, ft_active, ft_expanded, ft_mount, ft_header, ft_acts>>
vars_sc == <<sc_winnerBase, sc_stored, sc_probe, sc_src, sc_awaits, sc_prism, sc_shown,
    sc_acts>>

off_cl ==
  cl_defs = None /\ cl_config = None /\ cl_container = None /\ cl_hand = None /\
  cl_edits = None
off_ra ==
  ra_granted = None /\ ra_scope = None /\ ra_sheet = None /\ ra_ticked = None /\
  ra_active = None /\ ra_wanted = None /\ ra_clicks = None
off_cr ==
  cr_value = None /\ cr_activeMode = None /\ cr_lastEmitted = None /\
  cr_step = None /\ cr_edits = None
off_dr ==
  dr_timezone = None /\ dr_now = None /\ dr_value = None /\ dr_open = None /\
  dr_range = None /\ dr_phase = None /\ dr_hoverDate = None /\
  dr_viewMonth = None /\ dr_acts = None
off_pg ==
  pg_rows = None /\ pg_sort = None /\ pg_page = None /\ pg_pageSize = None /\
  pg_loaded = None /\ pg_expired = None /\ pg_jumpValue = None /\
  pg_typing = None /\ pg_tapped = None /\ pg_acts = None
off_rg ==
  rg_form = None /\ rg_chunk = None /\ rg_ready = None /\ rg_value = None /\
  rg_locating = None /\ rg_tried = None /\ rg_sent = None /\ rg_acts = None
off_tp ==
  tp_table = None /\ tp_shown = None /\ tp_cache = None /\ tp_server = None /\
  tp_clock = None /\ tp_load = None /\ tp_saves = None /\ tp_reset = None /\
  tp_strays = None /\ tp_room = None
off_sn ==
  sn_window = None /\ sn_layout = None /\ sn_kept = None /\ sn_coords = None /\
  sn_drag = None /\ sn_hover = None /\ sn_pointer = None /\ sn_hovered = None /\
  sn_who = None /\ sn_path = None /\ sn_expanded = None /\ sn_cached = None /\
  sn_acts = None
off_ft ==
  ft_page = None /\ ft_tab = None /\ ft_screen = None /\ ft_active = None /\
  ft_expanded = None /\ ft_mount = None /\ ft_header = None /\ ft_acts = None
off_sc ==
  sc_winnerBase = None /\ sc_stored = None /\ sc_probe = None /\ sc_src = None /\
  sc_awaits = None /\ sc_prism = None /\ sc_shown = None /\ sc_acts = None

Init ==
  /\ part \in {"columns", "roles", "cron", "dates", "pages", "region", "prefs", "nav", "filters", "scenery"}
  /\ IF part = "columns" THEN Table!Init ELSE off_cl
  /\ IF part = "roles" THEN Roles!Init ELSE off_ra
  /\ IF part = "cron" THEN Cron!Init ELSE off_cr
  /\ IF part = "dates" THEN Dates!Init ELSE off_dr
  /\ IF part = "pages" THEN Pages!Init ELSE off_pg
  /\ IF part = "region" THEN Region!Init ELSE off_rg
  /\ IF part = "prefs" THEN Prefs!Init ELSE off_tp
  /\ IF part = "nav" THEN Nav!Init ELSE off_sn
  /\ IF part = "filters" THEN Filters!Init ELSE off_ft
  /\ IF part = "scenery" THEN Scene!Init ELSE off_sc

Next ==
  /\ UNCHANGED part
  /\ IF part = "columns" THEN Table!Next ELSE UNCHANGED vars_cl
  /\ IF part = "roles" THEN Roles!Next ELSE UNCHANGED vars_ra
  /\ IF part = "cron" THEN Cron!Next ELSE UNCHANGED vars_cr
  /\ IF part = "dates" THEN Dates!Next ELSE UNCHANGED vars_dr
  /\ IF part = "pages" THEN Pages!Next ELSE UNCHANGED vars_pg
  /\ IF part = "region" THEN Region!Next ELSE UNCHANGED vars_rg
  /\ IF part = "prefs" THEN Prefs!Next ELSE UNCHANGED vars_tp
  /\ IF part = "nav" THEN Nav!Next ELSE UNCHANGED vars_sn
  /\ IF part = "filters" THEN Filters!Next ELSE UNCHANGED vars_ft
  /\ IF part = "scenery" THEN Scene!Next ELSE UNCHANGED vars_sc

vars == <<part, vars_cl, vars_ra, vars_cr, vars_dr, vars_pg, vars_rg, vars_tp,
          vars_sn, vars_ft, vars_sc>>
Spec == Init /\ [][Next]_vars

------------------------------------------------------------------------------
\* Nothing a user does to the columns of a table loses a column, a button or a width.
ColumnsAgree == part = "columns" => Table!ColumnsAgree
\* What is ticked for a role is granted, and ticked when the sheet is opened again.
AssignmentAgrees == part = "roles" => Roles!AssignmentAgrees
\* What the schedule editor shows and changes is what the expression means.
EditorKeepsMeaning == [][part = "cron" => Cron!KeepsMeaning]_vars
\* What is cleared is not granted (permission-assign-panel.tsx:109).
ClearedIsNotGranted == part = "roles" => Roles!ClearedIsNotGranted
\* The days picked, shown and asked for are the same days.
DaysAgree == part = "dates" => Dates!DaysAgree
\* A row is on one page, and the phone reaches every row.
PagesAgree == part = "pages" => Pages!PagesAgree
\* What the region field shows is one place, and what is sent is what it shows.
RegionAgrees == part = "region" => Region!RegionAgrees
\* The configuration of a table on the server catches up with the one shown.
PrefsCatchUp == part = "prefs" => Prefs!PrefsCatchUp
\* The navigation is where it can be reached, and as it was left.
NavAgrees == part = "nav" => Nav!NavAgrees
\* Whatever filters are set, shown or hidden, the user can see and change them all.
FiltersAgree == part = "filters" => Filters!FiltersAgree
\* What loads and moves by itself comes to an end.
SceneryAgrees == part = "scenery" => Scene!SceneryAgrees
==============================================================================
