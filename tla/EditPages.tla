------------------------------ MODULE EditPages ------------------------------
(* The administration pages of the web client.  Every page is a list, sheets
   that edit one row, and handlers that await requests between their writes to
   the React state; what differs from page to page is said by its Facts.  A
   handler keeps what it read when it was called, and its effects fall on
   whatever the page shows by the time its reply arrives.
   Paths are relative to src/web/src/.                                       *)
EXTENDS Integers, Sequences, FiniteSets, TLC

CONSTANTS
  Rows,       \* rows of the list
  New,        \* the row a create form makes
  None,       \* no row
  Procs,      \* handlers that may overlap
  MaxActs,    \* bound on what the user does
  MaxFails    \* bound on requests that fail

\* The names of the sheets, which are told apart from rows and from the two values a
\* field can have that are no row's.
Sheets == {"form", "perms", "scope", "create", "cron", "tenant", "name", "profile", "avatar"}
ASSUME RowsExist == Rows # {} /\ New \notin Rows
ASSUME NamesDiffer ==
  /\ None \notin Rows \cup {New} \cup Sheets \cup {"blank", "defaults"}
  /\ {"blank", "defaults"} \cap (Rows \cup {New}) = {}
ASSUME BoundsAreNat == MaxActs \in Nat /\ MaxFails \in Nat

VARIABLES
  page,       \* the page
  server,     \* every row: how often it was written, and whose data it carries
  list,       \* every row as listed: as many writes as it shows
  form,       \* the sheet that is open and its fields
  busy,       \* saving: the sheets being saved; row: the marked row; dialog
  op,         \* the handler each process is in
  astray,     \* how the page came to show or send something else than it should
  left        \* what remains of the bounds

vars == <<page, server, list, form, busy, op, astray, left>>

Targets == Rows \cup {New}
Idle == [do |-> "idle", kind |-> "none", row |-> None, sheet |-> None, main |-> None,
         extra |-> None, fresh |-> FALSE, todo |-> <<>>, snap |-> None]
Spend(what) == left[what] > 0 /\ left' = [left EXCEPT ![what] = @ - 1]

-----------------------------------------------------------------------------
(* Facts.
   sheets   the sheets a row can be edited in
   opens    what a sheet can be opened for: to "edit" a row, for a "new" one
   start    a form is there from the start, and cannot be closed
   sections the sheets are sections of one form, all there at once
   waits    openings ("edit", "new") whose sheet opens when a request has answered
   marks    the row being edited is noted at the click, not with the reply
   instead  what an opening shows when its request fails: nothing ("shut"), the
            row's "own" data all the same, or the "defaults"
   modal    while a sheet is open nothing else can be clicked
   forgets  closing a sheet forgets the row
   nullNew  a form without a row is a create form
   steps, newSteps  the requests of a save, by the fields they write
   flags    the sheets whose save button is disabled while they are saved
   rowFlags the sheets whose save marks the row, as "run" does
   closes, clears, wipes   a save that succeeds closes its sheet, forgets the
            row, empties the fields
   shared   the sheets share the noted row
   follows  every reload puts the row as listed back into the form
   echoes   a save is answered with the row: there is no reload
   acts     what can be done to a row without a sheet: "toggle"; "move", which
            is several requests; "run" and "reset" mark the row; "remove" is
            confirmed in a dialog
   taps     what a tap on a row does on a phone, its button disabled or not  *)
Plain == [sheets |-> {}, opens |-> {"edit"}, start |-> FALSE, sections |-> FALSE, waits |-> {},
  marks |-> TRUE, instead |-> "shut", modal |-> TRUE, forgets |-> TRUE, nullNew |-> FALSE,
  steps |-> <<"both">>, newSteps |-> <<"both">>, flags |-> {}, rowFlags |-> {},
  closes |-> TRUE, clears |-> TRUE, wipes |-> {}, shared |-> FALSE, follows |-> FALSE,
  echoes |-> FALSE, acts |-> {}, taps |-> {}]

\* openEdit notes the user, then waits for the tenants and their departments.
UsersForm(f) == [f EXCEPT !.sheets = {"form"}, !.opens = {"edit", "new"}, !.waits = {"edit", "new"}, !.forgets = FALSE]
\* A user of the platform is written first, then the tenants it is bound to ...
UsersWrites(f) == [f EXCEPT !.steps = <<"main", "extra">>, !.newSteps = <<"main", "extra">>]
\* ... in one save, which then empties the form.
UsersSubmit(f) == [f EXCEPT !.flags = {"form"}, !.wipes = {"main", "extra"}]
UsersActions(f) == [f EXCEPT !.acts = {"toggle", "reset"}]

\* In a tenant the same page waits for departments only, without which it opens
\* as well, and writes a user in one request.
TenantUsersOptions(f) == [f EXCEPT !.instead = "own", !.steps = <<"both">>, !.newSteps = <<"both">>]
TenantUsersActions(f) == [f EXCEPT !.acts = {"toggle", "remove"}]

RolesForm(f) == [f EXCEPT !.sheets = {"perms", "scope"}, !.shared = TRUE]
\* A role is created, then given its data scope and permissions.
RolesActions(f) == [f EXCEPT !.newSteps = <<"main", "extra">>]
RoleCreate(f) == [f EXCEPT !.sheets = {"create"}, !.opens = {"new"}, !.wipes = {"main", "extra"}]

\* A tenant's roles that cannot be read are shown as the default ones.
TenantsForm(f) == [f EXCEPT !.sheets = {"form"}, !.opens = {"edit", "new"}, !.waits = {"edit"}, !.instead = "defaults"]
TenantsActions(f) == [f EXCEPT !.nullNew = TRUE, !.steps = <<"main", "extra">>]
OrgsForm(f) == [f EXCEPT !.sheets = {"form"}, !.opens = {"edit", "new"}]
OrgsActions(f) == [f EXCEPT !.nullNew = TRUE]

\* A group is noted with the reply; it is saved first, then parameter by parameter.
DevParamsActions(f) == [f EXCEPT !.waits = {"edit"}, !.marks = FALSE, !.steps = <<"main", "extra">>,
  !.flags = {"form"}, !.wipes = {"extra"}]
DevParamsPage(f) == [f EXCEPT !.sheets = {"form"}, !.forgets = FALSE]

JobsActions(f) == [f EXCEPT !.flags = {"cron", "tenant"}, !.rowFlags = {"tenant"}]
JobsPage(f) == [f EXCEPT !.sheets = {"cron", "tenant"}]
JobColumns(f) == [f EXCEPT !.acts = {"run"}]
\* To run a job is the first thing that a tenant can do to it.
TenantJobColumns(f) == [f EXCEPT !.acts = {"run"}, !.taps = {"run"}]

DeptsForm(f) == [f EXCEPT !.sheets = {"form"}, !.opens = {"edit", "new"}, !.start = TRUE, !.modal = FALSE]
DeptsActions(f) == [f EXCEPT !.flags = {"form"}, !.closes = FALSE, !.clears = FALSE, !.acts = {"move", "remove"}]
DeptsPage(f) == [f EXCEPT !.follows = TRUE]

PermissionsActions(f) == [f EXCEPT !.acts = {"move"}]
PermissionsPage(f) == [f EXCEPT !.sheets = {"name"}, !.modal = FALSE]

ProfileActions(f) == [f EXCEPT !.flags = {"profile", "avatar"}, !.closes = FALSE, !.clears = FALSE, !.echoes = TRUE]
ProfilePage(f) == [f EXCEPT !.sheets = {"profile", "avatar"}, !.opens = {}, !.start = TRUE, !.sections = TRUE]

Facts ==
  [users       |-> UsersForm(UsersWrites(UsersSubmit(UsersActions(Plain)))),
   tenantUsers |-> TenantUsersOptions(TenantUsersActions(UsersForm(UsersSubmit(Plain)))),
   roles       |-> RolesForm(RolesActions(Plain)),
   roleCreate  |-> RoleCreate(RolesActions(Plain)),
   tenants     |-> TenantsForm(TenantsActions(Plain)),
   orgs        |-> OrgsForm(OrgsActions(Plain)),
   devParams   |-> DevParamsActions(DevParamsPage(Plain)),
   jobs        |-> JobsActions(JobsPage(JobColumns(Plain))),
   tenantJobs  |-> TenantJobColumns(Plain),
   depts       |-> DeptsForm(DeptsActions(DeptsPage(Plain))),
   permissions |-> PermissionsActions(PermissionsPage(Plain)),
   profile     |-> ProfileActions(ProfilePage(Plain))]

F == Facts[page]

-----------------------------------------------------------------------------
NoForm == [sheet |-> None, row |-> None, new |-> FALSE, main |-> "blank", extra |-> "blank",
           typed |-> FALSE, amid |-> FALSE]
\* The form of a row, opened while other handlers were under way or not.
FormOf(s, r, amid) ==
  [sheet |-> s, row |-> r, new |-> FALSE, main |-> r, extra |-> r,
   typed |-> FALSE, amid |-> amid]

\* An opening that does not note the row.
FaultyOpening(s, r, amid) == [FormOf(s, r, amid) EXCEPT !.row = form.row]

Opening(s, r, amid) ==
  IF r = New THEN [FormOf(s, New, amid) EXCEPT !.row = None, !.new = TRUE] ELSE FormOf(s, r, amid)

Others(p) == \E q \in Procs \ {p} : op[q] # Idle
Versions == [r \in Targets |-> server[r].version]
Free == ~F.modal \/ form.sheet = None
Shown(s) == form.sheet = s \/ F.sections

\* The row a save of the form is for: none if the row has been forgotten.
Target == IF form.row # None THEN form.row
          ELSE IF form.new \/ F.nullNew THEN New ELSE None

Init ==
  /\ page \in DOMAIN Facts
  /\ server = [r \in Targets |-> [version |-> 0, main |-> r, extra |-> r]]
  /\ list = [r \in Targets |-> 0]
  /\ form = IF F.start THEN FormOf(CHOOSE s \in F.sheets : TRUE, CHOOSE r \in Rows : TRUE, FALSE)
            ELSE NoForm
  /\ busy = [saving |-> {}, row |-> None, dialog |-> FALSE]
  /\ op = [p \in Procs |-> Idle]
  /\ astray = {}
  /\ left = [acts |-> MaxActs, fails |-> MaxFails]

Way(r) == IF r = New THEN "new" ELSE "edit"

\* A sheet is opened for a row: at once, or when what it shows has been read.
Open(p, s, r) ==
  /\ s \in F.sheets /\ Free /\ op[p] = Idle /\ Spend("acts")
  /\ Way(r) \in F.opens
  /\ IF Way(r) \in F.waits
     THEN /\ op' = [op EXCEPT ![p] = [Idle EXCEPT !.do = "open", !.row = r, !.sheet = s]]
          /\ form' = IF F.marks
                     THEN [Opening(None, r, FALSE) EXCEPT !.extra = IF r = New THEN "blank" ELSE form.extra]
                     ELSE form
     ELSE /\ form' = Opening(s, r, Others(p))
          /\ UNCHANGED op
  /\ UNCHANGED <<page, server, list, busy, astray>>

\* What the sheet shows arrives: the rest of the row noted at the click, or all.
Opened(p, data) ==
  LET noted == IF form.new THEN New ELSE form.row IN
  /\ form' = IF F.marks
             THEN [form EXCEPT !.sheet = op[p].sheet, !.extra = data, !.amid = @ \/ Others(p)]
             ELSE FormOf(op[p].sheet, op[p].row, Others(p))
  /\ astray' = astray \cup (IF F.marks /\ noted # op[p].row THEN {"crossed"} ELSE {})
                      \cup (IF data = "defaults" THEN {"defaults"} ELSE {})

OpenReply(p) ==
  /\ op[p].do = "open"
  /\ \/ Opened(p, op[p].row) /\ UNCHANGED left
     \/ /\ Spend("fails")
        /\ CASE op[p].row = New \/ F.instead = "own" -> Opened(p, op[p].row)
             [] F.instead = "defaults" /\ op[p].row # New -> Opened(p, "defaults")
             [] OTHER -> UNCHANGED <<form, astray>>
  /\ op' = [op EXCEPT ![p] = Idle]
  /\ UNCHANGED <<page, server, list, busy>>

\* The user fills in a field.
Type ==
  /\ form.sheet # None
  /\ form' = [form EXCEPT !.typed = TRUE]
  /\ UNCHANGED <<page, server, list, busy, op, astray, left>>

\* The sheet is closed by its buttons, or the name field loses the focus.
Close ==
  /\ form.sheet # None /\ ~F.start
  /\ form' = [form EXCEPT !.sheet = None, !.typed = FALSE, !.amid = FALSE,
                          !.row = IF F.forgets THEN None ELSE @]
  /\ UNCHANGED <<page, server, list, busy, op, astray, left>>

\* The handler keeps the row and the fields as they are now.
Submit(p, s) ==
  /\ Shown(s) /\ op[p] = Idle /\ Spend("acts")
  /\ s \in F.flags => s \notin busy.saving
  /\ Target # None /\ form.main # "blank" /\ form.extra # "blank"
  /\ op' = [op EXCEPT ![p] = [Idle EXCEPT !.do = "calls", !.kind = "save", !.row = Target, !.sheet = s,
              !.main = form.main, !.extra = form.extra,
              !.fresh = form.row = None, !.todo = IF form.row = None THEN F.newSteps ELSE F.steps]]
  /\ busy' = [busy EXCEPT !.saving = IF s \in F.flags THEN @ \cup {s} ELSE @,
                          !.row = IF s \in F.rowFlags THEN Target ELSE @]
  /\ astray' = IF s \in F.rowFlags /\ busy.row # None THEN astray \cup {"lent"} ELSE astray
  /\ UNCHANGED <<page, server, list, form>>

\* Something is done to a listed row.
Act(p, k, r) ==
  /\ k \in F.acts /\ Free /\ op[p] = Idle /\ Spend("acts")
  /\ k \in {"run", "reset"} \ F.taps => busy.row # r
  /\ k = "remove" => ~busy.dialog
  /\ op' = [op EXCEPT ![p] = [Idle EXCEPT !.do = "calls", !.kind = k, !.row = r,
              !.todo = IF k = "move" THEN <<"place", "order">> ELSE <<k>>]]
  /\ busy' = [busy EXCEPT !.row = IF k \in {"run", "reset"} THEN r ELSE @,
                          !.dialog = @ \/ k = "remove"]
  /\ astray' = IF k \in {"run", "reset"} /\ busy.row # None THEN astray \cup {"lent"} ELSE astray
  /\ UNCHANGED <<page, server, list, form>>

\* A save that succeeds: the sheet, the row and the fields of the page now.  The
\* department just created is selected, and shown when the tree has it.
Succeeded(o) ==
  LET own == form.sheet = o.sheet
      f == [form EXCEPT !.sheet = IF F.closes /\ own THEN None ELSE @,
                        !.typed = IF F.closes /\ own THEN FALSE ELSE @,
                        !.row = IF F.clears /\ (own \/ form.sheet = None \/ F.shared) THEN None ELSE @,
                        !.main = IF "main" \in F.wipes THEN "blank" ELSE @,
                        !.extra = IF "extra" \in F.wipes THEN "blank" ELSE @]
  IN IF F.follows /\ o.fresh THEN [f EXCEPT !.sheet = None, !.row = New, !.new = FALSE] ELSE f

\* A finally block that leaves the sheet disabled.
FaultyFinally(o) == busy' = [busy EXCEPT !.row = None, !.dialog = FALSE]

\* The finally block of a handler.
Finally(o) ==
  busy' = [busy EXCEPT !.saving = IF o.kind = "save" THEN @ \ {o.sheet} ELSE @,
                       !.row = IF o.kind \in {"run", "reset"} \/ o.sheet \in F.rowFlags THEN None ELSE @,
                       !.dialog = @ /\ o.kind # "remove"]

\* The next request of a handler is done ...
CallDone(p) ==
  LET o == op[p]
      part == Head(o.todo)
      last == Len(o.todo) = 1
      now == [server EXCEPT ![o.row] =
                [version |-> @.version + (IF o.kind = "reset" THEN 0 ELSE 1),
                 main  |-> IF part \in {"main", "both"} THEN o.main ELSE @.main,
                 extra |-> IF part \in {"extra", "both"} THEN o.extra ELSE @.extra]]
  IN /\ o.do = "calls"
     /\ server' = now
     /\ form' = IF last /\ o.kind = "save" THEN Succeeded(o) ELSE form
     /\ IF last /\ o.kind = "reset"
        THEN op' = [op EXCEPT ![p] = Idle] /\ Finally(o)
        ELSE /\ op' = [op EXCEPT ![p] =
                         IF last THEN [o EXCEPT !.do = "load", !.todo = <<>>,
                                         !.snap = IF F.echoes THEN [r \in Targets |-> now[r].version] ELSE None]
                         ELSE [o EXCEPT !.todo = Tail(@)]]
             /\ UNCHANGED busy
     /\ UNCHANGED <<page, list, astray, left>>

\* A failure that closes the sheet like a success.
FaultyCallFails(p) ==
  /\ op[p].do = "calls" /\ Spend("fails")
  /\ op' = [op EXCEPT ![p] = Idle]
  /\ form' = IF op[p].kind = "save" THEN Succeeded(op[p]) ELSE form
  /\ Finally(op[p])
  /\ UNCHANGED <<page, server, list, astray>>

\* The requests of a handler.
Whole(o) ==
  IF o.kind = "save" THEN IF o.fresh THEN F.newSteps ELSE F.steps
  ELSE IF o.kind = "move" THEN <<"place", "order">> ELSE <<o.kind>>

\* ... or fails, and what follows it is left undone, the reload too.
CallFails(p) ==
  /\ op[p].do = "calls" /\ Spend("fails")
  /\ astray' = IF op[p].todo # Whole(op[p]) THEN astray \cup {"partial"} ELSE astray
  /\ op' = [op EXCEPT ![p] = Idle]
  /\ Finally(op[p])
  /\ UNCHANGED <<page, server, list, form>>

\* A reload answered from what is shown already.
FaultyLoadServed(p) ==
  /\ op[p].do = "load" /\ op[p].snap = None
  /\ op' = [op EXCEPT ![p].snap = list]
  /\ UNCHANGED <<page, server, list, form, busy, astray, left>>

\* The reload: the list is read ...
LoadServed(p) ==
  /\ op[p].do = "load" /\ op[p].snap = None
  /\ op' = [op EXCEPT ![p].snap = Versions]
  /\ UNCHANGED <<page, server, list, form, busy, astray, left>>

\* ... and shown, whatever is shown already ...
LoadApplied(p) ==
  /\ op[p].do = "load" /\ op[p].snap # None
  /\ list' = op[p].snap
  /\ form' = IF F.follows /\ form.row # None
             THEN FormOf("form", IF op[p].snap[form.row] > 0 \/ form.row # New THEN form.row
                                 ELSE CHOOSE r \in Rows : TRUE, form.amid)
             ELSE form
  /\ astray' = IF \E r \in Targets : op[p].snap[r] < list[r] THEN astray \cup {"overtaken"} ELSE astray
  /\ op' = [op EXCEPT ![p] = Idle]
  /\ Finally(op[p])
  /\ UNCHANGED <<page, server, left>>

\* ... or it fails.
LoadFails(p) ==
  /\ op[p].do = "load" /\ ~F.echoes /\ Spend("fails")
  /\ astray' = astray \cup {"unread"}
  /\ op' = [op EXCEPT ![p] = Idle]
  /\ Finally(op[p])
  /\ UNCHANGED <<page, server, list, form>>

Next ==
  \/ Type \/ Close
  \/ \E p \in Procs :
       \/ \E s \in F.sheets : Submit(p, s) \/ \E r \in Targets : Open(p, s, r)
       \/ \E k \in F.acts, r \in Rows : Act(p, k, r)
       \/ OpenReply(p) \/ CallDone(p) \/ CallFails(p)
       \/ LoadServed(p) \/ LoadApplied(p) \/ LoadFails(p)

Spec == Init /\ [][Next]_vars

-----------------------------------------------------------------------------
\* What is saved to a row is the row's own, unless its sheet was filled by the
\* reply of another opening, or with defaults for what could not be read.
RowsKeepTheirOwn ==
  \A r \in Targets : server[r].main # r \/ server[r].extra # r
                    => astray \cap {"crossed", "defaults"} # {}

\* When every handler has ended the list shows what the server has, unless a
\* handler failed half-way, its reload failed, or the reloads arrived out of order.
ListCatchesUp ==
  (\A p \in Procs : op[p] = Idle) /\ list # Versions
    => astray \cap {"partial", "unread", "overtaken"} # {}

\* A disabled button is disabled by a handler under way and only by it; a row
\* that is marked is in one handler, unless another row has taken the mark.
BusyWhileHandled ==
  /\ \A s \in F.sheets : s \in F.flags =>
       Cardinality({p \in Procs : op[p].kind = "save" /\ op[p].sheet = s})
         = IF s \in busy.saving THEN 1 ELSE 0
  /\ busy.dialog <=> \E p \in Procs : op[p].kind = "remove"
  /\ busy.row # None => \E p \in Procs : op[p].row = busy.row /\ op[p].do # "open"
  /\ \A p, q \in Procs : p # q /\ op[p].kind = "run" /\ op[q].kind = "run" /\ op[p].row = op[q].row
                           => "lent" \in astray

\* A sheet that was opened while nothing else was under way is only changed by
\* the user, or by the success of its own save; the department form also by a
\* reload.
SheetStep ==
  form.sheet # None /\ form' # form =>
    \/ form.amid \/ Type \/ Close
    \/ \E p \in Procs, s \in F.sheets, r \in Targets : Open(p, s, r)
    \/ \E p \in Procs : /\ op[p].do = "calls" /\ op'[p].do = "load"
                       /\ op[p].sheet = form.sheet /\ op[p].row = Target
    \/ F.follows /\ \E p \in Procs : op[p].do = "load" /\ op'[p] = Idle
SheetIsTheUsers == [][SheetStep]_vars
=============================================================================
