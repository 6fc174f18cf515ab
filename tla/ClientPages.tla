----------------------------- MODULE ClientPages -----------------------------
(* A list that the client sorts and cuts into pages itself: hooks/useClientTable.ts
   and useClientPagination.ts, the pagination bar below it and, on a phone, the cards
   that are loaded by scrolling.  The page size is that of every list; the list is
   replaced by reloads.
   Paths are relative to src/web/src/.                                         *)
EXTENDS Integers, Sequences, SequencesExt, FiniteSets, FiniteSetsExt, TLC

CONSTANTS
  Lists,                      \* what a reload may bring: sequences of rows
  Columns,                    \* columns to sort by
  Actions,                    \* what can be done to a row, as buttons
  Jumps,                      \* what is typed as a page
  PAGE_SIZE_OPTIONS,
  EXPIRED_TENANT_LIST_LIMIT,  \* rows a tenant whose plan has run out is shown
  None,
  MaxActs                     \* bound on what happens

VARIABLES
  rows,       \* the list
  sort,       \* the column and its order, or None
  page, pageSize,
  loaded,     \* pages the phone has loaded
  expired,    \* the tenant's plan has run out
  jumpValue,  \* the page in the input
  typing,     \* the input has the focus
  tapped,     \* what the last tap did
  acts        \* acts left

vars == <<rows, sort, page, pageSize, loaded, expired, jumpValue, typing, tapped, acts>>

Blank == 0

-----------------------------------------------------------------------------
(* Sorting *)

cycleSortState(c) ==
  CASE sort = None \/ (sort # None /\ sort.columnId # c) -> [columnId |-> c, order |-> "asc"]
    [] sort # None /\ sort = [columnId |-> c, order |-> "asc"] -> [columnId |-> c, order |-> "desc"]
    [] OTHER -> None

\* Rows without a value come last in either order; rows that are equal keep their places.
Before(a, b, s) ==
  LET x == a[s.columnId] y == b[s.columnId] IN
  x # None /\ (y = None \/ (y # None /\ IF s.order = "asc" THEN x < y ELSE y < x))
sortRows(list, s) ==
  IF s = None THEN list
  ELSE LET order == SortSeq([i \in DOMAIN list |-> i],
             LAMBDA i, j : Before(list[i], list[j], s) \/ (~Before(list[j], list[i], s) /\ i < j))
       IN [i \in DOMAIN list |-> list[order[i]]]

-----------------------------------------------------------------------------
(* Pages *)

totalPages(total, size) == IF total = 0 THEN 1 ELSE (total + size - 1) \div size

\* A page past the last is left as it is.
FaultyClampPage(n, total, size) == IF n < 1 THEN 1 ELSE n
clampPage(n, total, size) == IF n < 1 THEN 1 ELSE Min({n, totalPages(total, size)})

slicePage(list, n, size) ==
  LET safe == clampPage(n, Len(list), size) IN
  SubSeq(list, (safe - 1) * size + 1, Min({safe * size, Len(list)}))
sliceThroughPages(list, count, size) == SubSeq(list, 1, Min({count * size, Len(list)}))

\* The pages there are buttons for: the first, the last and those beside the current
\* one; a gap between two of them is an ellipsis.
buildPageTokens(current, total) ==
  IF total <= 7 THEN 1..total ELSE {1, total} \cup ((current - 1..current + 1) \cap 1..total)

Source(list, s, ex) ==
  LET sorted == sortRows(list, s) IN IF ex THEN SubSeq(sorted, 1, Min({EXPIRED_TENANT_LIST_LIMIT, Len(sorted)})) ELSE sorted
sourceItems == Source(rows, sort, expired)
pages == totalPages(Len(sourceItems), pageSize)
mobileItems == sliceThroughPages(sourceItems, loaded, pageSize)
mobileHasMore == loaded < pages

\* A tenant whose plan has run out stays on the first page.
guardTenantListPage(n) == n <= 1 \/ ~expired

-----------------------------------------------------------------------------
Init ==
  /\ rows \in Lists /\ sort = None /\ pageSize \in PAGE_SIZE_OPTIONS /\ expired \in BOOLEAN
  /\ page = 1 /\ loaded = 1 /\ jumpValue = 1 /\ typing = FALSE /\ tapped = None
  /\ acts = MaxActs

\* What the effects make of a change: the page is one there is, the phone starts
\* over when the list is of another length or its pages are, the input shows the
\* page if it is another.
useClientPagination(list, s, ex, n, size, count, jump) ==
  LET total == Len(Source(list, s, ex))
      safe == IF ex THEN 1 ELSE clampPage(n, total, size)
  IN /\ acts > 0 /\ acts' = acts - 1
     /\ rows' = list /\ sort' = s /\ expired' = ex /\ page' = safe /\ pageSize' = size
     /\ loaded' = IF total # Len(sourceItems) \/ size # pageSize \/ (ex /\ n > 1) THEN 1 ELSE count
     /\ jumpValue' = IF safe # page THEN safe ELSE jump

cycleSort(c) ==
  /\ useClientPagination(rows, cycleSortState(c), expired, page, pageSize, loaded, jumpValue)
  /\ UNCHANGED <<typing, tapped>>

Reload(list) ==
  /\ useClientPagination(list, sort, expired, page, pageSize, loaded, jumpValue)
  /\ UNCHANGED <<typing, tapped>>

\* The session says that the plan has run out, or no longer.
Expires ==
  /\ useClientPagination(rows, sort, ~expired, page, pageSize, loaded, jumpValue)
  /\ UNCHANGED <<typing, tapped>>

changePageSize(n) ==
  /\ n # pageSize
  /\ useClientPagination(rows, sort, expired, 1, n, loaded, jumpValue)
  /\ UNCHANGED <<typing, tapped>>

\* Another tab has changed the size for all: it is read when the list is next drawn.
OtherTab(n) ==
  /\ n # pageSize
  /\ useClientPagination(rows, sort, expired, page, n, loaded, jumpValue)
  /\ UNCHANGED <<typing, tapped>>

goToPage(n) ==
  /\ ~typing /\ guardTenantListPage(n)
  /\ useClientPagination(rows, sort, expired, n, pageSize, loaded, n)
  /\ UNCHANGED <<typing, tapped>>

\* The buttons of the bar: a page on the desktop, the one before or after on a phone.
TablePaginationDesktop == \E n \in buildPageTokens(page, pages) : goToPage(n)
TablePaginationMobile == (page > 1 /\ goToPage(page - 1)) \/ (page < pages /\ goToPage(page + 1))

\* Digits are typed in the input ...
handleJumpChange(n) ==
  /\ jumpValue' = n /\ typing' = TRUE
  /\ UNCHANGED <<rows, sort, page, pageSize, loaded, expired, tapped, acts>>

\* ... and taken when it loses the focus; what is no page, or may not be seen, is put back.
commitJump ==
  LET target == clampPage(jumpValue, Len(sourceItems), pageSize) IN
  /\ typing /\ typing' = FALSE
  /\ IF jumpValue # Blank /\ guardTenantListPage(target)
     THEN useClientPagination(rows, sort, expired, target, pageSize, loaded, target)
     ELSE useClientPagination(rows, sort, expired, page, pageSize, loaded, page)
  /\ UNCHANGED tapped

mobileLoadMore ==
  LET next == Min({loaded + 1, pages}) IN
  /\ mobileHasMore /\ guardTenantListPage(next)
  /\ useClientPagination(rows, sort, expired, page, pageSize, next, jumpValue)
  /\ UNCHANGED <<typing, tapped>>

-----------------------------------------------------------------------------
(* Cards *)

\* A card has the buttons that its row has, in the user's order.
resolveMobileRowActionItems(row) == SelectSeq(Actions, LAMBDA a : a \in row.can)

\* A tap on it does the first of these, unless there is one for details or to edit;
\* whether its button is disabled does not matter.
resolveMobilePrimaryRowAction(row) ==
  LET items == ToSet(resolveMobileRowActionItems(row)) IN
  CASE items = {} -> None
    [] "detail" \in items -> "detail"
    [] "edit" \in items /\ "detail" \notin items -> "edit"
    [] OTHER -> Head(resolveMobileRowActionItems(row))

\* The two columns of cards.
splitMasonryRows(list, side) ==
  LET n == (Len(list) + (IF side = "left" THEN 1 ELSE 0)) \div 2 IN
  [i \in 1..n |-> list[2 * i - (IF side = "left" THEN 1 ELSE 0)]]

TableMobileMasonryView == ToSet(splitMasonryRows(mobileItems, "left")) \cup ToSet(splitMasonryRows(mobileItems, "right"))
TableMobileListView == ToSet(mobileItems)

invokeMobileRowClick(row) ==
  /\ ~typing /\ resolveMobilePrimaryRowAction(row) # None
  /\ tapped' = [row |-> row, did |-> resolveMobilePrimaryRowAction(row)]
  /\ UNCHANGED <<rows, sort, page, pageSize, loaded, expired, jumpValue, typing, acts>>

Next ==
  \/ \E c \in Columns : cycleSort(c)
  \/ \E list \in Lists : Reload(list)
  \/ Expires
  \/ \E n \in PAGE_SIZE_OPTIONS : changePageSize(n) \/ OtherTab(n)
  \/ TablePaginationDesktop \/ TablePaginationMobile
  \/ \E n \in Jumps : handleJumpChange(n)
  \/ commitJump \/ mobileLoadMore
  \/ \E row \in TableMobileMasonryView \cup TableMobileListView : invokeMobileRowClick(row)

Spec == Init /\ [][Next]_vars

-----------------------------------------------------------------------------
(* Properties *)

\* (hooks/useClientPagination.ts) Every row the user may see is on one page and no
\* more, whatever sorts, reloads, sizes and expiries came before; the page shown is one
\* there is, and has rows if the list has; it has a button, and the input shows it
\* unless it is typed in; the phone shows a beginning of the list, all of it when it
\* says that there is no more, and the same rows as cards and as a list.
PagesAgree ==
  /\ FlattenSeq([n \in 1..pages |-> slicePage(sourceItems, n, pageSize)]) = sourceItems
  /\ ~expired => ToSet(sourceItems) = ToSet(rows) /\ Len(sourceItems) = Len(rows)
  /\ expired => page = 1 /\ Len(sourceItems) <= EXPIRED_TENANT_LIST_LIMIT
  /\ page \in 1..pages /\ page \in buildPageTokens(page, pages)
  /\ rows # <<>> => slicePage(sourceItems, page, pageSize) # <<>>
  /\ Len(slicePage(sourceItems, page, pageSize)) <= pageSize
  /\ ~typing => jumpValue = page
  /\ IsPrefix(mobileItems, sourceItems) /\ (~mobileHasMore => mobileItems = sourceItems)
  /\ TableMobileMasonryView = TableMobileListView

\* A button that is disabled is not done by other means (docs/web-tables.md:133: on a
\* phone the buttons are those of the desktop).
DisabledIsNotDone == tapped # None => tapped.did \notin tapped.row.disabled

=============================================================================
