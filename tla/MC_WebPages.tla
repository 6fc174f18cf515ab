----------------------------- MODULE MC_WebPages -----------------------------
(* Model-checking instance of the pages that talk to the server: EditPages, WebLists
   beside it, and RealtimeHub, by which the server talks to them; a behavior is one
   of the three.                                                                 *)
EXTENDS EditPages

CONSTANTS
  Keys, Filters, First, Stock, MaxTurns,          \* of WebLists
  Conns, Probes, HubTurns, HubActs, HubFails      \* of RealtimeHub

VARIABLES part, kind, phone, world, asked, draft, rows, total, loading, mobile, armed,
          picked, loads, order, pushed, strayed, room,
          hub_session, hub_conn, hub_conns, hub_task, hub_print, hub_probe,
          hub_redis, hub_ready, hub_strays, hub_left

L == INSTANCE WebLists WITH MaxActs <- 3, astray <- strayed, left <- room

Hub == INSTANCE RealtimeHub WITH
  MaxTurns <- HubTurns, MaxActs <- HubActs, MaxFails <- HubFails, Dead <- None,
  session <- hub_session, conn <- hub_conn, conns <- hub_conns, task <- hub_task,
  print <- hub_print, probe <- hub_probe, redis <- hub_redis, ready <- hub_ready,
  strays <- hub_strays, left <- hub_left

ASSUME ListsConstantsFit == L!ConstantsFit
ASSUME HubConstantsFit == Hub!ConstantsFit

edits == vars
lists == <<kind, phone, world, asked, draft, rows, total, loading, mobile, armed,
           picked, loads, order, pushed, strayed, room>>
hub == <<hub_session, hub_conn, hub_conns, hub_task, hub_print, hub_probe, hub_redis,
         hub_ready, hub_strays, hub_left>>

ModelSymmetry == Permutations(Procs)

NoEdits ==
  page = None /\ server = None /\ list = None /\ form = None /\ busy = None /\ op = None
  /\ astray = None /\ left = None
NoLists ==
  kind = None /\ phone = None /\ world = None /\ asked = None /\ draft = None /\ rows = None
  /\ total = None /\ loading = None /\ mobile = None /\ armed = None /\ picked = None
  /\ loads = None /\ order = None /\ pushed = None /\ strayed = None /\ room = None
NoHub ==
  hub_session = None /\ hub_conn = None /\ hub_conns = None /\ hub_task = None
  /\ hub_print = None /\ hub_probe = None /\ hub_redis = None /\ hub_ready = None
  /\ hub_strays = None /\ hub_left = None

PagesInit ==
  /\ part \in {"edits", "lists", "hub"}
  /\ IF part = "edits" THEN Init ELSE NoEdits
  /\ IF part = "lists" THEN L!Init ELSE NoLists
  /\ IF part = "hub" THEN Hub!Init ELSE NoHub

PagesNext ==
  /\ UNCHANGED part
  /\ IF part = "edits" THEN Next ELSE UNCHANGED edits
  /\ IF part = "lists" THEN L!Next ELSE UNCHANGED lists
  /\ IF part = "hub" THEN Hub!Next ELSE UNCHANGED hub

PagesSpec == PagesInit /\ [][PagesNext]_<<part, edits, lists, hub>>

-----------------------------------------------------------------------------
\* EditPages: a row keeps its own data.
RowsKeepTheirs == part = "edits" => RowsKeepTheirOwn
\* EditPages: the list catches up with the rows.
ListFollows == part = "edits" => ListCatchesUp
\* EditPages: what is being done is marked as busy.
HandledIsBusy == part = "edits" => BusyWhileHandled
\* EditPages: a sheet changes by what its user does.
SheetIsOnlyTheUsers == [][part = "edits" => SheetStep]_edits

\* WebLists: the list shows what it was asked for.
ShowsWhatIsAsked == part = "lists" => L!ShowsWhatIsAsked
\* WebLists: scrolling down reaches every row once.
ScrollReachesAll == part = "lists" => L!ScrollReachesAll

\* RealtimeHub: the subscribers of a session hear of it, by one probe.
HubAgrees == part = "hub" => Hub!HubAgrees

\* WebLists: on a desktop the table is the page (docs/web-tables.md:138).
TableIsThePage == part = "lists" => L!TableIsThePage
=============================================================================
