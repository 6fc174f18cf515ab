------------------------------- MODULE WebLists -------------------------------
(* The lists of the web client that the server pages: the audit logs, the
   download center, the runs of a scheduled job and the tenants a job can be run
   for.  Requests are answered in any order, and on a phone the pages read so far
   are shown as one list that grows by scrolling.
   Paths are relative to src/web/src/.                                        *)
EXTENDS Integers, Sequences, FiniteSets, SequencesExt, TLC

CONSTANTS
  Keys,       \* tabs of the audit logs, jobs whose runs are shown
  Filters,    \* what the list can be filtered by
  First,      \* the filter at the start
  None,
  Stock,      \* how many rows the server has at the start
  MaxActs,    \* bound on what the user does
  MaxFails,   \* bound on requests that fail
  MaxTurns    \* bound on changes of the rows on the server

VARIABLES
  kind,       \* the list
  phone,      \* whether it is shown on a phone
  world,      \* the rows on the server: how many were added, how often they changed
  asked,      \* what the page is set to
  draft,      \* the keyword typed, before the timer has passed it on
  rows,       \* by key: the rows of the last reply, and what it was the reply to
  total, loading,
  mobile,     \* the pages accumulated
  armed,      \* scrolling to the end asks for another page
  picked,     \* the tenant chosen
  loads,      \* requests under way, numbered
  order,      \* the number of requests sent, and the highest one whose reply was shown
  pushed,     \* an event tells of a change
  astray,     \* how the list came to show something else than it should
  left        \* what remains of the bounds

vars == <<kind, phone, world, asked, draft, rows, total, loading, mobile, armed,
          picked, loads, order, pushed, astray, left>>

(* keyed   there are several tabs or jobs; sheet: the list opens and closes
   scrolls a phone accumulates the pages; tells: the scrolling sees "loading"
   listens an event reloads the page; merged: the desktop table shows the
           accumulated rows as well
   replied the page number is the reply's; drops: a request made superfluous is
           ignored; resizes, restarts: the page size can be changed, and that
           goes back to the first page                                        *)
AuditLogs == {"keyed", "scrolls", "tells", "resizes", "restarts"}
Downloads == {"scrolls", "listens", "resizes"}
DownloadTable == Downloads \cup {"merged"}
JobRuns == {"keyed", "sheet", "tells", "replied", "restarts"}
TenantOptions == {"sheet", "tells", "drops", "restarts"}

Kinds == {"audit", "downloads", "runs", "tenants"}
F == CASE kind = "audit" -> AuditLogs [] kind = "downloads" -> DownloadTable
       [] kind = "runs" -> JobRuns [] kind = "tenants" -> TenantOptions
Has(fact) == fact \in F

ConstantsFit == Keys # {} /\ Stock \in Nat /\ MaxTurns \in Nat

\* Bound on the rows added at a time; every request of the console is an audit log.
Burst == IF kind = "audit" THEN 2 ELSE 1

AKey == CHOOSE k \in Keys : TRUE
Spend(what) == left[what] > 0 /\ left' = [left EXCEPT ![what] = @ - 1]
Query(a) == [key |-> a.key, filter |-> a.filter, size |-> a.size, page |-> a.page]

\* A page as the server has it; an added row comes first.
Page(q, w) ==
  LET before == (q.page - 1) * q.size IN
  [n \in 1..Max({0, Min({q.size, Stock + w.added - before})}) |->
     [key |-> q.key, filter |-> q.filter, n |-> before + n - w.added, rev |-> w.rev]]

-----------------------------------------------------------------------------
NoRows == [q |-> None, rows |-> <<>>]
Same(r, s) == r.key = s.key /\ r.filter = s.filter /\ r.n = s.n

\* Merging that does not look for rows that are there already.
FaultyMergeUniqueRows(previous, incoming) == previous \o incoming

\* Incoming rows that are there already are left as they were.
mergeUniqueRows(previous, incoming) ==
  LET new == {i \in DOMAIN incoming : ~ \E j \in DOMAIN previous : Same(previous[j], incoming[i])}
      Nth(k) == CHOOSE i \in new : Cardinality({j \in new : j <= i}) = k
  IN previous \o [k \in 1..Cardinality(new) |-> incoming[Nth(k)]]

HasMore == asked.page * asked.size < total

\* The page is set to a, shows rs of t rows in all and is loading or not: the
\* accumulated list, and what lets it be scrolled further, follow.
Accumulated(a, rs) ==
  IF ~Has("scrolls") THEN <<>> ELSE
  LET reset == a.filter # asked.filter \/ a.size # asked.size \/ a.key # asked.key
      now == rs[a.key].rows
  IN IF a.page <= 1 THEN now ELSE mergeUniqueRows(IF reset THEN <<>> ELSE mobile, now)

\* The trigger re-armed by the end of a request only when rows came with it.
FaultyRearmed(a, m, l, arm) == arm \/ Len(m) # Len(mobile)

Rearmed(a, m, l, arm) ==
  arm \/ Len(m) # Len(mobile) \/ (Has("tells") /\ loading /\ ~l) \/ (Has("tells") /\ a.key # asked.key)

Shows(a, rs, t, l, arm) ==
  LET m == Accumulated(a, rs) IN
  /\ asked' = a /\ rows' = rs /\ total' = t /\ loading' = l
  /\ mobile' = m
  /\ armed' = Rearmed(a, m, l, arm)

\* A request leaves; of the execute sheet's only the last counts.
Asks(q) ==
  /\ loads' = (IF Has("drops") THEN {} ELSE loads)
           \cup {[no |-> order.sent + 1, q |-> q, since |-> world]}
  /\ order' = [order EXCEPT !.sent = @ + 1]

Init ==
  /\ kind \in Kinds /\ phone \in IF Has("scrolls") THEN BOOLEAN ELSE {FALSE}
  /\ world = [added |-> 0, rev |-> 0]
  /\ asked = [key |-> AKey, filter |-> First, size |-> 1, page |-> 1, open |-> ~Has("sheet")]
  /\ draft = First
  /\ rows = [k \in Keys |-> NoRows]
  /\ total = 0 /\ loading = ~Has("sheet") /\ mobile = <<>> /\ armed = TRUE
  /\ picked = None
  /\ loads = IF Has("sheet") THEN {} ELSE {[no |-> 1, q |-> Query(asked), since |-> world]}
  /\ order = [sent |-> 1, shown |-> 0] /\ pushed = FALSE /\ astray = {}
  /\ left = [acts |-> MaxActs, fails |-> MaxFails, turns |-> MaxTurns]

-----------------------------------------------------------------------------
\* The page is set to something else, which is read.
Set(a, arm) ==
  /\ Spend("acts")
  /\ Shows(a, rows, total, TRUE, arm)
  /\ Asks(Query(a))
  /\ UNCHANGED <<kind, phone, world, draft, picked, pushed>>

\* Another tab or another filter: from the first page.
ChangeFilter ==
  ~Has("sheet") /\ \E k \in Keys, f \in Filters :
    /\ <<k, f>> # <<asked.key, asked.filter>> /\ (k = asked.key \/ Has("keyed"))
    /\ Set([asked EXCEPT !.key = k, !.filter = f, !.page = 1], armed)
    /\ UNCHANGED astray

ChangeSize ==
  /\ Has("resizes")
  /\ Set([asked EXCEPT !.size = 3 - @, !.page = IF Has("restarts") THEN 1 ELSE @], armed)
  /\ astray' = IF asked.page > 1 /\ ~Has("restarts") THEN astray \cup {"resized"} ELSE astray

\* The buttons of the table's footer.
GoToPage ==
  ~Has("sheet") /\ \E n \in 1..Stock + MaxTurns :
    /\ n # asked.page /\ (n - 1) * asked.size < total
    /\ Set([asked EXCEPT !.page = n], armed)
    /\ astray' = IF phone /\ n > 1 THEN astray \cup {"jumped"} ELSE astray

\* On a phone: scrolling to the end, or a list too short to fill the screen.
LoadMore(arm) ==
  /\ phone /\ Has("scrolls") /\ HasMore /\ ~(Has("tells") /\ loading)
  /\ Set([asked EXCEPT !.page = @ + 1], arm)
  /\ astray' = IF loads # {} THEN astray \cup {"hurried"} ELSE astray

Scroll == armed /\ LoadMore(FALSE)
FillScreen == LoadMore(armed)

\* The buttons of the runs sheet.
TurnPage ==
  Has("replied") /\ asked.open /\ ~loading /\ \E n \in {asked.page - 1, asked.page + 1} :
    /\ n > 0 /\ (n - 1) * asked.size < total
    /\ Spend("acts")
    /\ loading' = TRUE /\ Asks(Query([asked EXCEPT !.page = n]))
    /\ UNCHANGED <<kind, phone, world, asked, draft, rows, total, mobile, armed,
                   picked, pushed, astray>>

OpenSheet ==
  Has("sheet") /\ ~asked.open /\ \E k \in Keys :
    /\ (k = AKey \/ Has("keyed"))
    /\ Set([asked EXCEPT !.key = k, !.page = 1, !.filter = First, !.open = TRUE], armed)
    /\ UNCHANGED astray

\* What the sheet shows is forgotten; of the runs a request under way is not.
CloseSheet ==
  /\ Has("sheet") /\ asked.open
  /\ asked' = [asked EXCEPT !.open = FALSE, !.page = 1, !.filter = First]
  /\ draft' = First /\ picked' = None
  /\ rows' = [k \in Keys |-> NoRows] /\ total' = 0
  /\ loads' = IF Has("drops") THEN {} ELSE loads
  /\ UNCHANGED <<kind, phone, world, loading, mobile, armed, order, pushed, astray, left>>

\* The keyword of the execute sheet is passed on when it has rested for a while.
Type ==
  Has("drops") /\ asked.open /\ \E f \in Filters \ {draft} :
    /\ draft' = f /\ Spend("acts")
    /\ UNCHANGED <<kind, phone, world, asked, rows, total, loading, mobile, armed,
                   picked, loads, order, pushed, astray>>
Rested ==
  /\ Has("drops") /\ asked.open /\ draft # asked.filter
  /\ asked' = [asked EXCEPT !.filter = draft] /\ loading' = TRUE
  /\ Asks(Query(asked'))
  /\ UNCHANGED <<kind, phone, world, draft, rows, total, mobile, armed,
                 picked, pushed, astray, left>>

Pick ==
  Has("drops") /\ asked.open /\ \E r \in ToSet(rows[asked.key].rows) :
    /\ picked' = r
    /\ UNCHANGED <<kind, phone, world, asked, draft, rows, total, loading, mobile, armed,
                   loads, order, pushed, astray, left>>

-----------------------------------------------------------------------------
\* Rows are added and change on the server; the download center is told ...
Change ==
  /\ Spend("turns")
  /\ \/ world' = [world EXCEPT !.rev = @ + 1]
     \/ \E n \in 1..Burst : world' = [world EXCEPT !.added = @ + n]
  /\ pushed' = Has("listens")
  /\ UNCHANGED <<kind, phone, asked, draft, rows, total, loading, mobile, armed,
                 picked, loads, order, astray>>

\* An event that is not listened to.
FaultyEvent ==
  /\ pushed /\ pushed' = FALSE
  /\ UNCHANGED <<kind, phone, world, asked, draft, rows, total, loading, mobile, armed,
                 picked, loads, order, astray, left>>

\* ... and reloads the page it is at.
Event ==
  /\ pushed /\ pushed' = FALSE
  /\ Asks(Query(asked))
  /\ UNCHANGED <<kind, phone, world, asked, draft, rows, total, loading, mobile, armed,
                 picked, astray, left>>

Since(l) == [added : l.since.added..world.added, rev : l.since.rev..world.rev]

\* More rows were added than the list was scrolled by: the next page begins in front
\* of the rows accumulated, and is put behind them.
Outruns(page) ==
  phone /\ asked.page > 1 /\ page # <<>> /\ mobile # <<>> /\ page[1].n < mobile[1].n

\* The server has answered at some time since: the reply is shown whatever the
\* page is set to by now.
Reply(l, w) ==
  LET page == Page(l.q, w) IN
  /\ loads' = loads \ {l}
  /\ Shows(IF Has("replied") THEN [asked EXCEPT !.page = l.q.page] ELSE asked,
           [rows EXCEPT ![IF Has("sheet") THEN asked.key ELSE l.q.key] = [q |-> l.q, rows |-> page]],
           Stock + w.added, FALSE, armed)
  /\ picked' = IF picked \in ToSet(page) THEN picked ELSE None
  /\ order' = [order EXCEPT !.shown = IF l.no > @ THEN l.no ELSE @]
  /\ astray' = astray \cup (IF l.no < order.shown THEN {"overtaken"} ELSE {})
                    \cup (IF Outruns(page) THEN {"outrun"} ELSE {})
  /\ UNCHANGED <<kind, phone, world, draft, pushed, left>>

Failure(l) ==
  /\ Spend("fails")
  /\ loads' = loads \ {l}
  /\ Shows(asked, IF Has("drops") THEN [k \in Keys |-> NoRows] ELSE rows, IF Has("drops") THEN 0 ELSE total, FALSE, armed)
  /\ astray' = astray \cup {"failed"}
  /\ UNCHANGED <<kind, phone, world, draft, picked, order, pushed>>

Next ==
  \/ ChangeFilter \/ ChangeSize \/ GoToPage \/ Scroll \/ FillScreen
  \/ TurnPage \/ OpenSheet \/ CloseSheet \/ Type \/ Rested \/ Pick
  \/ Change \/ Event
  \/ \E l \in loads : Failure(l) \/ \E w \in Since(l) : Reply(l, w)

Spec == Init /\ [][Next]_vars

-----------------------------------------------------------------------------
Quiet == loads = {} /\ ~pushed /\ asked.open /\ (Has("drops") => draft = asked.filter)
Table == IF phone \/ Has("merged") THEN mobile ELSE rows[asked.key].rows
Untouched(tags) == astray \cap tags = {}

\* When every request has ended the page shows the reply to what it is set to,
\* unless replies overtook each other or a request failed; the execute sheet
\* ignores replies that come too late.  There is a page to show unless the size
\* of the download center's pages was changed further down.
ShowsWhatIsAsked ==
  /\ Quiet /\ Untouched(IF Has("drops") THEN {"failed"} ELSE {"failed", "overtaken"})
       => /\ rows[asked.key].q = Query(asked)
          /\ Has("listens") => rows[asked.key].rows = Page(Query(asked), world)
          /\ Stock > 0 /\ rows[asked.key].rows = <<>> => "resized" \in astray
  /\ Has("drops") /\ picked # None /\ "failed" \notin astray => picked \in ToSet(rows[asked.key].rows)

\* The list accumulated on a phone has neither gaps nor rows twice, unless a page
\* failed, was skipped with the footer's buttons, was asked for before the one in
\* front of it had come, replies overtook each other, or more rows were added than
\* the list was scrolled by.
ScrollHasNoGap ==
  phone /\ Quiet /\ Untouched({"failed", "overtaken", "hurried", "jumped", "resized", "outrun"})
    => \A i \in 2..Len(mobile) : mobile[i].n = mobile[i - 1].n + 1 /\ mobile[i].key = mobile[1].key

\* Scrolling the audit logs asks for more rows whenever the server has more.  The
\* download center does not say that it is loading, and stops scrolling when a
\* page fails, brings nothing new, or as many rows as were shown.
ScrollGoesOn ==
  phone /\ Has("tells") /\ Quiet /\ HasMore => armed

\* Scrolling down reaches every row once.
ScrollReachesAll == ScrollHasNoGap /\ ScrollGoesOn

\* Accumulating pages is for phones: on a desktop the table is the page.
TableIsThePage ==
  ~phone /\ Quiet /\ astray = {} => Table = rows[asked.key].rows
=============================================================================
