--------------------------- MODULE WebPages_proofs ---------------------------
(***************************************************************************)
(* Proofs about the administration pages: what is saved to a row is its    *)
(* own, the list catches up, what is being done is marked as busy, and a   *)
(* sheet changes by what its user does.  All hold on every page whose      *)
(* Facts are among those of EditPages, for any number of rows, handlers    *)
(* that overlap, clicks and failures.  Those of RealtimeHub_proofs hold in *)
(* the behaviors of PagesSpec that are the hub's; in those of the paged    *)
(* lists a list at rest shows what it is set to, however requests and      *)
(* replies overtake each other, and scrolling down reaches every row once, *)
(* whatever rows are added in the meantime.                                *)
(***************************************************************************)
EXTENDS MC_WebPages, FiniteSetTheorems, TLAPS

------------------------------------------------------------------------------
(* Types.                                                                     *)
MaybeRow == Targets \cup {None}
MaybeSheet == Sheets \cup {None}
VersionsOf == [Targets -> Nat]
Records == [version : Nat, main : Targets \cup {"defaults"}, extra : Targets \cup {"defaults"}]
Forms == [sheet : MaybeSheet, row : MaybeRow, new : BOOLEAN, main : Targets \cup {"blank"},
          extra : Targets \cup {"blank", "defaults"}, typed : BOOLEAN, amid : BOOLEAN]
Marks == [saving : SUBSET Sheets, row : MaybeRow, dialog : BOOLEAN]
ActKinds == {"toggle", "move", "run", "reset", "remove"}
Wholes == {<<"both">>, <<"main", "extra">>, <<"toggle">>, <<"place", "order">>,
           <<"run">>, <<"reset">>, <<"remove">>}
Todos == Wholes \cup {<<>>, <<"extra">>, <<"order">>}
Ops == [do : {"idle", "open", "calls", "load"}, kind : ActKinds \cup {"none", "save"},
        row : MaybeRow, sheet : MaybeSheet, main : MaybeRow,
        extra : MaybeRow \cup {"defaults"}, fresh : BOOLEAN, todo : Todos,
        snap : VersionsOf \cup {None}]

\* What the pages have in common.
PageFacts(G) ==
  /\ G.sheets \subseteq Sheets /\ G.flags \subseteq G.sheets /\ G.rowFlags \subseteq G.sheets
  /\ G.acts \subseteq ActKinds
  /\ G.steps \in {<<"both">>, <<"main", "extra">>} /\ G.newSteps \in {<<"both">>, <<"main", "extra">>}
  /\ G.start => G.sheets # {} /\ ~G.closes
  /\ ~G.modal => G.waits = {}
  /\ G.clears => G.closes
  /\ G.nullNew => G.closes /\ ~G.shared
  /\ G.sections => /\ G.start /\ G.opens = {} /\ ~G.nullNew /\ ~G.closes /\ ~G.follows
                   /\ G.wipes = {}
  /\ G.follows => /\ G.start /\ G.sheets = {"form"} /\ G.flags = {"form"} /\ G.waits = {}
                  /\ ~G.nullNew /\ ~G.closes /\ G.wipes = {}

\* What a handler may be doing.
Shaped(o) ==
  /\ o.do = "idle" => o = Idle
  /\ o.do = "open" => /\ o.kind = "none" /\ o.row \in Targets /\ o.sheet \in F.sheets
                      /\ Way(o.row) \in F.opens \cap F.waits
  /\ o.do \in {"calls", "load"} =>
       /\ o.kind # "none" /\ o.row \in Targets
       /\ IF o.kind = "save" THEN o.sheet \in F.sheets ELSE o.sheet = None
  /\ o.do = "calls" => /\ o.todo = Whole(o) \/ (Len(Whole(o)) = 2 /\ o.todo = Tail(Whole(o)))
                       /\ o.kind = "save" => o.main \in Targets /\ o.extra # None
  /\ o.do = "load" => o.kind # "reset"
  /\ o.do # "load" => o.snap = None

TypeOK ==
  /\ page \in DOMAIN Facts
  /\ server \in [Targets -> Records] /\ list \in VersionsOf
  /\ form \in Forms /\ form.sheet \in F.sheets \cup {None}
  /\ busy \in Marks /\ busy.saving \subseteq F.flags
  /\ op \in [Procs -> Ops]
  /\ astray \subseteq {"crossed", "defaults", "lent", "partial", "unread", "overtaken"}
  /\ left \in [acts : Nat, fails : Nat]
  /\ \A p \in Procs : Shaped(op[p])

------------------------------------------------------------------------------
(* The inductive invariant, part by part.                                     *)

\* A create form has no row, and a form that is always there is there.
FormIsWhose ==
  /\ form.new => form.row = None
  /\ F.start /\ ~F.follows => form.sheet # None

\* Unless a sheet was filled by another opening or with defaults: what is in it
\* is its row's own, and so is what a handler sends.
Filled == astray \cap {"crossed", "defaults"} # {}
FormIsOwn ==
  /\ form.sheet # None /\ F.nullNew /\ form.row = None => form.new
  /\ form.new => form.main \in {"blank", New}
  /\ form.row # None /\ (form.sheet # None \/ ~F.follows) => form.main \in {"blank", form.row}
  /\ form.sheet # None /\ Target # None => form.extra \in {"blank", Target}
SentIsOwn ==
  \A p \in Procs : op[p].do = "calls" /\ op[p].kind = "save" =>
                     op[p].main = op[p].row /\ op[p].extra = op[p].row
OwnData == ~Filled => FormIsOwn /\ SentIsOwn
RowsAreOwn == ~Filled => \A r \in Targets : server[r].main = r /\ server[r].extra = r

\* Nothing listed is newer than the row, and what the list lacks is brought by a
\* handler, unless it failed half-way, was not read, or was overtaken.
ListIsPast ==
  \A r \in Targets : /\ list[r] <= server[r].version
                     /\ \A p \in Procs : op[p].snap # None => op[p].snap[r] <= server[r].version
Brings(p, r) ==
  \/ op[p].do = "calls" /\ op[p].row = r /\ op[p].todo # Whole(op[p])
  \/ op[p].do = "load" /\ (op[p].snap = None \/ op[p].snap[r] = server[r].version)
ListIsBrought ==
  astray \cap {"partial", "unread", "overtaken"} = {} =>
    \A r \in Targets : list[r] = server[r].version \/ \E p \in Procs : Brings(p, r)

\* The marks are their handlers'.
SavesOf(s) == {p \in Procs : op[p].kind = "save" /\ op[p].sheet = s}
Marking(o) == o.do # "open" /\ (o.kind \in {"run", "reset"} \/ o.sheet \in F.rowFlags)
SavingIsMarked ==
  \A s \in F.flags : /\ s \in busy.saving <=> SavesOf(s) # {}
                     /\ \A p, q \in SavesOf(s) : p = q
DialogIsRemoval ==
  /\ busy.dialog <=> \E p \in Procs : op[p].kind = "remove"
  /\ \A p, q \in Procs : op[p].kind = "remove" /\ op[q].kind = "remove" => p = q
RowIsMarked ==
  /\ busy.row # None => \E p \in Procs : Marking(op[p]) /\ op[p].row = busy.row
  /\ "lent" \notin astray =>
       \A p \in Procs : Marking(op[p]) =>
         /\ busy.row = op[p].row
         /\ \A q \in Procs : Marking(op[q]) => p = q

\* While a sheet is open that was opened when nothing was under way, nothing is
\* about to open another, and what is being saved is the sheet.
SheetIsAlone ==
  /\ form.sheet # None /\ ~form.amid =>
       \A p \in Procs :
         /\ op[p].do # "open"
         /\ op[p].do = "calls" /\ op[p].kind = "save" /\ ~F.sections /\ (F.follows => op[p].fresh) =>
              /\ op[p].sheet = form.sheet /\ op[p].row = Target
              /\ op[p].fresh => form.row = None
  /\ F.follows /\ form.sheet = None =>
       \A p \in Procs : ~(op[p].do = "calls" /\ op[p].kind = "save")

Inv ==
  /\ TypeOK /\ FormIsWhose /\ OwnData /\ RowsAreOwn /\ ListIsPast /\ ListIsBrought
  /\ SavingIsMarked /\ DialogIsRemoval /\ RowIsMarked /\ SheetIsAlone

------------------------------------------------------------------------------
(* Lemmas about the values and the operators of the model.                    *)
LEMMA PagesAre ==
  ASSUME NEW g \in DOMAIN Facts PROVE PageFacts(Facts[g])
<1>1. g \in {"users", "tenantUsers", "roles", "roleCreate", "tenants", "orgs", "devParams", "jobs",
             "tenantJobs", "depts", "permissions", "profile"}
  BY DEF Facts
<1>2. PageFacts(Facts["users"])
  BY DEF PageFacts, Sheets, ActKinds, Facts, UsersForm, UsersWrites, UsersSubmit, UsersActions, Plain
<1>3. PageFacts(Facts["tenantUsers"])
  BY DEF PageFacts, Sheets, ActKinds, Facts, TenantUsersOptions, TenantUsersActions, UsersForm, UsersSubmit, Plain
<1>4. PageFacts(Facts["roles"])
  BY DEF PageFacts, Sheets, ActKinds, Facts, RolesForm, RolesActions, Plain
<1>5. PageFacts(Facts["roleCreate"])
  BY DEF PageFacts, Sheets, ActKinds, Facts, RoleCreate, RolesActions, Plain
<1>6. PageFacts(Facts["tenants"])
  BY DEF PageFacts, Sheets, ActKinds, Facts, TenantsForm, TenantsActions, Plain
<1>7. PageFacts(Facts["orgs"])
  BY DEF PageFacts, Sheets, ActKinds, Facts, OrgsForm, OrgsActions, Plain
<1>8. PageFacts(Facts["devParams"])
  BY DEF PageFacts, Sheets, ActKinds, Facts, DevParamsActions, DevParamsPage, Plain
<1>9. PageFacts(Facts["jobs"])
  BY DEF PageFacts, Sheets, ActKinds, Facts, JobsActions, JobsPage, JobColumns, Plain
<1>10. PageFacts(Facts["tenantJobs"])
  BY DEF PageFacts, Sheets, ActKinds, Facts, TenantJobColumns, Plain
<1>11. PageFacts(Facts["depts"])
  BY DEF PageFacts, Sheets, ActKinds, Facts, DeptsForm, DeptsActions, DeptsPage, Plain
<1>12. PageFacts(Facts["permissions"])
  BY DEF PageFacts, Sheets, ActKinds, Facts, PermissionsActions, PermissionsPage, Plain
<1>13. PageFacts(Facts["profile"])
  BY DEF PageFacts, Sheets, ActKinds, Facts, ProfileActions, ProfilePage, Plain
<1>14. QED
  BY <1>1, <1>2, <1>3, <1>4, <1>5, <1>6, <1>7, <1>8, <1>9, <1>10, <1>11, <1>12, <1>13

LEMMA FIs == ASSUME TypeOK PROVE PageFacts(F)
  BY PagesAre DEF TypeOK, F

LEMMA IdleIs == Idle \in Ops /\ Idle.do = "idle" /\ Idle.kind = "none" /\ Idle.sheet = None
                /\ Idle.row = None /\ Idle.snap = None /\ Idle.todo = <<>> /\ Idle.fresh = FALSE
  BY DEF Idle, Ops, MaybeRow, MaybeSheet, Todos

\* The lists of requests are short enough to be enumerated.
LEMMA Lists ==
  /\ \A w \in Wholes : Len(w) \in {1, 2} /\ w # <<>>
  /\ \A w \in Wholes : Len(w) = 2 => /\ Tail(w) \in Todos /\ Tail(w) # w /\ Len(Tail(w)) = 1
  /\ Head(<<"extra">>) = "extra" /\ Tail(<<"main", "extra">>) = <<"extra">>
  /\ Head(<<"main", "extra">>) = "main" /\ Head(<<"both">>) = "both"
  /\ Len(<<"main", "extra">>) = 2 /\ Len(<<"both">>) = 1 /\ Len(<<"extra">>) = 1
  /\ Len(<<"place", "order">>) = 2 /\ Tail(<<"place", "order">>) = <<"order">>
  /\ Head(<<"place", "order">>) = "place" /\ Head(<<"order">>) = "order"
  /\ \A k \in ActKinds : Len(<<k>>) = 1 /\ Head(<<k>>) = k
  BY DEF Wholes, Todos, ActKinds

LEMMA TodoIs ==
  ASSUME TypeOK, NEW p \in Procs, op[p].do = "calls"
  PROVE  LET o == op[p] IN
         /\ Whole(o) \in Wholes
         /\ o.todo = Whole(o) \/ (Len(Whole(o)) = 2 /\ o.todo = Tail(Whole(o)))
         /\ Len(o.todo) = 1 \/ (/\ Len(o.todo) = 2 /\ o.todo = Whole(o)
                                /\ Tail(o.todo) \in Todos /\ Tail(o.todo) # Whole(o))
         /\ o.kind = "reset" => Len(o.todo) = 1 /\ o.todo = Whole(o)
         /\ o.kind # "save" => Head(o.todo) \notin {"main", "extra", "both"}
<1> DEFINE o == op[p]
<1>1. o \in Ops /\ Shaped(o) /\ PageFacts(F)
  BY FIs DEF TypeOK
<1>2. o.kind \in ActKinds \cup {"save"}
  BY <1>1 DEF Shaped, Ops
<1>3. Whole(o) \in Wholes
  BY <1>1, <1>2 DEF Whole, PageFacts, Wholes, ActKinds
<1>4. o.todo = Whole(o) \/ (Len(Whole(o)) = 2 /\ o.todo = Tail(Whole(o)))
  BY <1>1 DEF Shaped
<1>5. Len(o.todo) = 1 \/ (/\ Len(o.todo) = 2 /\ o.todo = Whole(o)
                          /\ Tail(o.todo) \in Todos /\ Tail(o.todo) # Whole(o))
  BY <1>3, <1>4, Lists
<1>6. o.kind = "reset" => Len(o.todo) = 1 /\ o.todo = Whole(o)
  BY <1>4, Lists DEF Whole, ActKinds
<1>7. o.kind # "save" => Head(o.todo) \notin {"main", "extra", "both"}
  <2>1. CASE o.kind = "move"
    BY <1>4, <2>1, Lists DEF Whole
  <2>2. CASE o.kind \in ActKinds \ {"move"}
    BY <1>4, <2>2, Lists DEF Whole, ActKinds
  <2>3. QED
    BY <1>2, <2>1, <2>2
<1>8. QED
  BY <1>3, <1>4, <1>5, <1>6, <1>7

LEMMA OpIs ==
  ASSUME TypeOK, NEW p \in Procs
  PROVE  /\ op[p] \in Ops /\ Shaped(op[p])
         /\ op[p].row \in MaybeRow /\ op[p].sheet \in MaybeSheet
         /\ op[p].do # "load" => op[p].snap = None
         /\ op[p].snap # None => op[p].snap \in VersionsOf
  BY DEF TypeOK, Ops, Shaped

LEMMA OpStep ==
  ASSUME op \in [Procs -> Ops], NEW p \in Procs, NEW x \in Ops, op' = [op EXCEPT ![p] = x]
  PROVE  /\ op' \in [Procs -> Ops] /\ op'[p] = x
         /\ \A q \in Procs \ {p} : op'[q] = op[q]
  OBVIOUS

LEMMA FStays == ASSUME UNCHANGED page PROVE F' = F
  BY DEF F

LEMMA SpendTyped ==
  ASSUME TypeOK, NEW what \in {"acts", "fails"}, Spend(what)
  PROVE  left' \in [acts : Nat, fails : Nat]
<1>1. PICK l : l = left /\ l \in [acts : Nat, fails : Nat]
  BY DEF TypeOK
<1>2. l[what] \in Nat /\ l[what] > 0 /\ left' = [l EXCEPT ![what] = l[what] - 1]
  BY <1>1 DEF Spend
<1>3. l[what] - 1 \in Nat
  BY <1>2
<1>4. QED
  BY <1>1, <1>2, <1>3

------------------------------------------------------------------------------
(* Types are kept.                                                            *)

\* The steps that write neither the rows nor the list keep the types, given the
\* form, the marks and the handler they leave.
LEMMA Typed ==
  ASSUME TypeOK, NEW p \in Procs, NEW x \in Ops,
         op' = [op EXCEPT ![p] = x], Shaped(op[p])',
         UNCHANGED page, server' \in [Targets -> Records], list' \in VersionsOf,
         form' \in Forms, form'.sheet \in F.sheets \cup {None},
         busy' \in Marks, busy'.saving \subseteq F.flags,
         astray' \subseteq {"crossed", "defaults", "lent", "partial", "unread", "overtaken"},
         left' \in [acts : Nat, fails : Nat]
  PROVE  TypeOK'
<1>1. op' \in [Procs -> Ops] /\ op'[p] = x /\ \A q \in Procs \ {p} : op'[q] = op[q]
  BY OpStep DEF TypeOK
<1>2. F' = F
  BY DEF F
<1>3. ASSUME NEW q \in Procs PROVE Shaped(op[q])'
  <2>1. CASE q = p
    BY <2>1
  <2>2. CASE q # p
    <3>1. op'[q] = op[q] /\ Shaped(op[q])
      BY <1>1, <2>2 DEF TypeOK
    <3>2. QED
      BY <3>1, <1>2 DEF Shaped, Whole, Way
  <2>3. QED
    BY <2>1, <2>2
<1>4. QED
  BY <1>1, <1>2, <1>3 DEF TypeOK, VersionsOf, Records, Forms, Marks, Ops, Targets, MaybeRow, MaybeSheet

LEMMA OpeningIs ==
  ASSUME NEW s \in MaybeSheet, NEW r \in Targets, NEW a \in BOOLEAN
  PROVE  LET f == Opening(s, r, a) IN
         /\ f \in Forms /\ f.sheet = s /\ f.main = r /\ f.extra = r /\ f.amid = a
         /\ r = New => f.row = None /\ f.new
         /\ r # New => f.row = r /\ ~f.new
<1>1. PICK g : g = FormOf(s, r, a)
  OBVIOUS
<1>2. g \in Forms /\ g.sheet = s /\ g.row = r /\ g.new = FALSE /\ g.main = r /\ g.extra = r /\ g.amid = a
  BY <1>1 DEF FormOf, Forms, MaybeRow
<1>3. CASE r # New
  BY <1>1, <1>2, <1>3 DEF Opening
<1>4. CASE r = New
  <2>1. PICK h : h = [g EXCEPT !.row = None, !.new = TRUE]
    OBVIOUS
  <2>2. h \in Forms /\ h.sheet = s /\ h.row = None /\ h.new /\ h.main = r /\ h.extra = r /\ h.amid = a
    BY <1>2, <2>1 DEF Forms, MaybeRow
  <2>3. Opening(s, r, a) = h
    BY <1>1, <1>4, <2>1 DEF Opening
  <2>4. QED
    BY <1>4, <2>2, <2>3
<1>5. QED
  BY <1>3, <1>4

LEMMA OthersIs == ASSUME NEW p PROVE Others(p) \in BOOLEAN
  BY DEF Others

\* The sheets of a page, its rows and the values a click may find.
LEMMA FormIs ==
  ASSUME TypeOK
  PROVE  /\ form \in Forms /\ form.sheet \in F.sheets \cup {None} /\ form.row \in MaybeRow
         /\ form.main \in Targets \cup {"blank"} /\ form.extra \in Targets \cup {"blank", "defaults"}
         /\ Target \in MaybeRow /\ form.amid \in BOOLEAN /\ form.new \in BOOLEAN
  BY DEF TypeOK, Forms, Target, MaybeRow, Targets

LEMMA ApartIs ==
  /\ None \notin Targets /\ "blank" \notin Targets /\ "defaults" \notin Targets
  /\ None \notin Sheets /\ None # "blank" /\ None # "defaults"
  BY NamesDiffer, RowsExist DEF Targets

\* What is left of the marks when a handler ends.
LEMMA FinallyDoes ==
  ASSUME TypeOK, NEW p \in Procs, Finally(op[p])
  PROVE  /\ busy' \in Marks /\ busy'.saving \subseteq F.flags
         /\ busy'.saving = IF op[p].kind = "save" THEN busy.saving \ {op[p].sheet} ELSE busy.saving
         /\ busy'.row = IF op[p].kind \in {"run", "reset"} \/ op[p].sheet \in F.rowFlags
                        THEN None ELSE busy.row
         /\ busy'.dialog <=> busy.dialog /\ op[p].kind # "remove"
<1>1. PICK b : b = busy /\ b \in Marks /\ b.saving \subseteq F.flags
  BY DEF TypeOK
<1>2. PICK s, r, d : /\ s = IF op[p].kind = "save" THEN b.saving \ {op[p].sheet} ELSE b.saving
                     /\ r = IF op[p].kind \in {"run", "reset"} \/ op[p].sheet \in F.rowFlags
                            THEN None ELSE b.row
                     /\ d = (b.dialog /\ op[p].kind # "remove")
  OBVIOUS
<1>3. busy' = [b EXCEPT !.saving = s, !.row = r, !.dialog = d]
  BY <1>1, <1>2 DEF Finally
<1>4. s \in SUBSET Sheets /\ s \subseteq F.flags /\ r \in MaybeRow /\ d \in BOOLEAN
  BY <1>1, <1>2 DEF Marks, MaybeRow
<1>5. busy' \in Marks
  BY <1>1, <1>3, <1>4 DEF Marks
<1>6. busy'.saving = s /\ busy'.row = r /\ busy'.dialog = d
  BY <1>1, <1>3 DEF Marks
<1>7. QED
  BY <1>1, <1>2, <1>4, <1>5, <1>6

\* An opening that waits: nothing is open, the row is noted or not.
LEMMA OpenWaits ==
  ASSUME TypeOK, NEW p \in Procs, NEW s \in F.sheets, NEW r \in Targets, Open(p, s, r),
         Way(r) \in F.waits
  PROVE  /\ TypeOK' /\ UNCHANGED <<page, server, list, busy, astray>>
         /\ op[p] = Idle /\ form.sheet = None /\ form'.sheet = None /\ F.waits # {}
         /\ op'[p].do = "open" /\ op'[p].kind = "none" /\ op'[p].sheet = s
         /\ \A q \in Procs \ {p} : op'[q] = op[q]
         /\ \/ UNCHANGED form
            \/ form'.new /\ form'.row = None /\ form'.main = New
            \/ ~form'.new /\ form'.row = r /\ form'.main = r
<1> DEFINE x == [Idle EXCEPT !.do = "open", !.row = r, !.sheet = s]
<1>1. /\ Free /\ op[p] = Idle /\ Spend("acts") /\ Way(r) \in F.opens
      /\ op' = [op EXCEPT ![p] = x]
      /\ form' = IF F.marks
                 THEN [Opening(None, r, FALSE) EXCEPT !.extra = IF r = New THEN "blank" ELSE form.extra]
                 ELSE form
      /\ UNCHANGED <<page, server, list, busy, astray>>
  BY DEF Open
<1>2. PageFacts(F) /\ form \in Forms /\ form.extra \in Targets \cup {"blank", "defaults"}
  BY FIs, FormIs
<1>3. form.sheet = None /\ F.waits # {}
  BY <1>1, <1>2 DEF PageFacts, Free
<1>4. x \in Ops /\ x.do = "open" /\ x.kind = "none" /\ x.row = r /\ x.sheet = s /\ x.snap = None
  BY <1>2 DEF Idle, Ops, MaybeRow, MaybeSheet, Todos, PageFacts
<1>5. op'[p] = x /\ \A q \in Procs \ {p} : op'[q] = op[q]
  BY <1>1, <1>4, OpStep DEF TypeOK
<1>6. F' = F
  BY <1>1 DEF F
<1>7. Shaped(op[p])'
  BY <1>1, <1>4, <1>5, <1>6 DEF Shaped, Way
<1>8. /\ form' \in Forms /\ form'.sheet = None
      /\ \/ UNCHANGED form
         \/ form'.new /\ form'.row = None /\ form'.main = New
         \/ ~form'.new /\ form'.row = r /\ form'.main = r
  <2>1. CASE F.marks
    <3>1. PICK g, e : g = Opening(None, r, FALSE) /\ e = IF r = New THEN "blank" ELSE form.extra
      OBVIOUS
    <3>2. /\ g \in Forms /\ g.sheet = None /\ g.main = r
          /\ r = New => g.row = None /\ g.new
          /\ r # New => g.row = r /\ ~g.new
      BY <3>1, OpeningIs DEF MaybeSheet
    <3>3. e \in Targets \cup {"blank", "defaults"}
      BY <3>1, <1>2
    <3>4. form' = [g EXCEPT !.extra = e]
      BY <1>1, <2>1, <3>1
    <3>5. form' \in Forms /\ form'.sheet = None /\ form'.main = r /\ form'.row = g.row /\ form'.new = g.new
      BY <3>2, <3>3, <3>4 DEF Forms
    <3>6. QED
      BY <3>2, <3>5
  <2>2. CASE ~F.marks
    BY <1>1, <1>2, <1>3, <2>2
  <2>3. QED
    BY <2>1, <2>2
<1>9. left' \in [acts : Nat, fails : Nat]
  BY <1>1, SpendTyped
<1>10. TypeOK'
  BY <1>1, <1>4, <1>7, <1>8, <1>9, Typed DEF TypeOK
<1>11. QED
  BY <1>1, <1>3, <1>4, <1>5, <1>8, <1>10

\* An opening that does not.
LEMMA OpenShows ==
  ASSUME TypeOK, NEW p \in Procs, NEW s \in F.sheets, NEW r \in Targets, Open(p, s, r),
         Way(r) \notin F.waits
  PROVE  /\ TypeOK' /\ UNCHANGED <<page, server, list, busy, astray, op>>
         /\ op[p] = Idle /\ ~F.sections /\ (F.modal => form.sheet = None)
         /\ form' = Opening(s, r, Others(p))
         /\ form'.sheet = s /\ form'.main = r /\ form'.extra = r /\ form'.amid = Others(p)
         /\ r = New => form'.row = None /\ form'.new
         /\ r # New => form'.row = r /\ ~form'.new
<1>1. /\ Free /\ op[p] = Idle /\ Spend("acts") /\ Way(r) \in F.opens
      /\ form' = Opening(s, r, Others(p))
      /\ UNCHANGED <<page, server, list, busy, astray, op>>
  BY DEF Open
<1>2. PageFacts(F) /\ s \in MaybeSheet
  BY FIs DEF PageFacts, MaybeSheet
<1>3. /\ form' \in Forms /\ form'.sheet = s /\ form'.main = r /\ form'.extra = r
      /\ form'.amid = Others(p)
      /\ r = New => form'.row = None /\ form'.new
      /\ r # New => form'.row = r /\ ~form'.new
  BY <1>1, <1>2, OpeningIs, OthersIs
<1>4. left' \in [acts : Nat, fails : Nat]
  BY <1>1, SpendTyped
<1>5. F' = F
  BY <1>1 DEF F
<1>6. op' = [op EXCEPT ![p] = op[p]] /\ op[p] \in Ops /\ Shaped(op[p])'
  BY <1>1, <1>5 DEF TypeOK, Shaped, Whole, Way
<1>7. TypeOK'
  BY <1>1, <1>3, <1>4, <1>6, Typed DEF TypeOK
<1>8. QED
  BY <1>1, <1>2, <1>3, <1>7 DEF PageFacts, Free

\* A sheet that has waited opens, with data from another opening or by default only
\* if that is recorded.
LEMMA OpenedDoes ==
  ASSUME TypeOK, NEW p \in Procs, op[p].do = "open", NEW data \in {op[p].row, "defaults"},
         Opened(p, data)
  PROVE  /\ form' \in Forms /\ form'.sheet = op[p].sheet /\ form'.sheet \in F.sheets
         /\ astray' \subseteq {"crossed", "defaults", "lent", "partial", "unread", "overtaken"}
         /\ astray \subseteq astray'
         /\ astray' \cap {"partial", "unread", "overtaken", "lent"}
              = astray \cap {"partial", "unread", "overtaken", "lent"}
         /\ Others(p) => form'.amid
         /\ ~Filled' =>
              /\ form'.extra = op[p].row
              /\ \/ /\ form'.new = form.new /\ form'.row = form.row /\ form'.main = form.main
                    /\ op[p].row = IF form.new THEN New ELSE form.row
                 \/ ~form'.new /\ form'.row = op[p].row /\ form'.main = op[p].row
         /\ (form.new => form.row = None) => (form'.new => form'.row = None)
<1>1. PICK o : o = op[p] /\ o \in Ops /\ Shaped(o) /\ o.row \in Targets /\ o.sheet \in F.sheets
  BY OpIs DEF Shaped
<1>2. PageFacts(F) /\ form \in Forms /\ Others(p) \in BOOLEAN /\ o.sheet \in MaybeSheet
  BY <1>1, FIs, FormIs, OthersIs DEF PageFacts, MaybeSheet
<1>3. PICK noted : noted = IF form.new THEN New ELSE form.row
  OBVIOUS
<1>4. astray' = astray \cup (IF F.marks /\ noted # o.row THEN {"crossed"} ELSE {})
                       \cup (IF data = "defaults" THEN {"defaults"} ELSE {})
  BY <1>1, <1>3 DEF Opened
<1>5. ~Filled' => data = o.row /\ (F.marks => noted = o.row)
  BY <1>1, <1>4 DEF Filled
<1>6. CASE F.marks
  <2>1. PICK g, a : g = form /\ a = (form.amid \/ Others(p))
    OBVIOUS
  <2>2. form' = [g EXCEPT !.sheet = o.sheet, !.extra = data, !.amid = a]
    BY <1>1, <1>6, <2>1 DEF Opened
  <2>3. g \in Forms /\ a \in BOOLEAN /\ data \in Targets \cup {"blank", "defaults"}
    BY <1>1, <1>2, <2>1 DEF Forms
  <2>4. /\ form' \in Forms /\ form'.sheet = o.sheet /\ form'.extra = data /\ form'.amid = a
        /\ form'.new = g.new /\ form'.row = g.row /\ form'.main = g.main
    BY <1>2, <2>2, <2>3 DEF Forms
  <2>5. QED
    BY <1>1, <1>2, <1>3, <1>4, <1>5, <1>6, <2>1, <2>4 DEF TypeOK
<1>7. CASE ~F.marks
  <2>1. form' = FormOf(o.sheet, o.row, Others(p))
    BY <1>1, <1>7 DEF Opened
  <2>2. /\ form' \in Forms /\ form'.sheet = o.sheet /\ form'.row = o.row /\ form'.new = FALSE
        /\ form'.main = o.row /\ form'.extra = o.row /\ form'.amid = Others(p)
    BY <1>1, <1>2, <2>1 DEF FormOf, Forms, MaybeRow
  <2>3. QED
    BY <1>1, <1>2, <1>4, <1>5, <2>2 DEF TypeOK
<1>8. QED
  BY <1>6, <1>7

LEMMA OpenReplyDoes ==
  ASSUME TypeOK, NEW p \in Procs, OpenReply(p)
  PROVE  /\ TypeOK' /\ UNCHANGED <<page, server, list, busy>>
         /\ op[p].do = "open" /\ op[p].kind = "none" /\ op'[p] = Idle
         /\ \A q \in Procs \ {p} : op'[q] = op[q]
         /\ \/ UNCHANGED <<form, astray>>
            \/ \E data \in {op[p].row, "defaults"} : Opened(p, data)
<1>1. op[p].do = "open" /\ op' = [op EXCEPT ![p] = Idle] /\ UNCHANGED <<page, server, list, busy>>
  BY DEF OpenReply
<1>2. /\ UNCHANGED left \/ Spend("fails")
      /\ \/ UNCHANGED <<form, astray>>
         \/ \E data \in {op[p].row, "defaults"} : Opened(p, data)
  BY DEF OpenReply
<1>3. op[p].kind = "none"
  BY <1>1, OpIs DEF Shaped
<1>4. /\ form' \in Forms /\ form'.sheet \in F.sheets \cup {None}
      /\ astray' \subseteq {"crossed", "defaults", "lent", "partial", "unread", "overtaken"}
  BY <1>1, <1>2, OpenedDoes DEF TypeOK
<1>5. left' \in [acts : Nat, fails : Nat]
  BY <1>2, SpendTyped DEF TypeOK
<1>6. op'[p] = Idle /\ \A q \in Procs \ {p} : op'[q] = op[q]
  BY <1>1, IdleIs, OpStep DEF TypeOK
<1>7. Shaped(op[p])'
  BY <1>6, IdleIs DEF Shaped
<1>8. TypeOK'
  BY <1>1, <1>4, <1>5, <1>7, IdleIs, Typed DEF TypeOK
<1>9. QED
  BY <1>1, <1>2, <1>3, <1>6, <1>8

\* The steps of the user alone.
LEMMA TypedForm ==
  ASSUME TypeOK, UNCHANGED <<page, server, list, busy, op, astray, left>>,
         form' \in Forms, form'.sheet \in F.sheets \cup {None}
  PROVE  TypeOK'
<1>1. F' = F
  BY DEF F
<1>2. \A q \in Procs : Shaped(op[q])'
  BY <1>1 DEF TypeOK, Shaped, Whole, Way
<1>3. QED
  BY <1>1, <1>2 DEF TypeOK, VersionsOf, Records, Forms, Marks, Ops, Targets, MaybeRow, MaybeSheet

LEMMA TypeDoes ==
  ASSUME TypeOK, Type
  PROVE  /\ TypeOK' /\ UNCHANGED <<page, server, list, busy, op, astray>>
         /\ form.sheet # None /\ form'.sheet = form.sheet /\ form'.row = form.row
         /\ form'.new = form.new /\ form'.main = form.main /\ form'.extra = form.extra
         /\ form'.amid = form.amid
<1>1. PICK g : g = form /\ g \in Forms /\ form' = [g EXCEPT !.typed = TRUE]
  BY FormIs DEF Type
<1>2. /\ form' \in Forms /\ form'.sheet = g.sheet /\ form'.row = g.row
      /\ form'.new = g.new /\ form'.main = g.main /\ form'.extra = g.extra
      /\ form'.amid = g.amid
  BY <1>1 DEF Forms
<1>3. QED
  BY <1>1, <1>2, FormIs, TypedForm DEF Type

LEMMA CloseDoes ==
  ASSUME TypeOK, Close
  PROVE  /\ TypeOK' /\ UNCHANGED <<page, server, list, busy, op, astray>>
         /\ form.sheet # None /\ ~F.start /\ form'.sheet = None
         /\ form'.row \in {form.row, None} /\ form'.new = form.new
         /\ form'.main = form.main
<1>1. PICK g, r : g = form /\ r = IF F.forgets THEN None ELSE form.row
  OBVIOUS
<1>2. form' = [g EXCEPT !.sheet = None, !.typed = FALSE, !.amid = FALSE, !.row = r]
  BY <1>1 DEF Close
<1>3. g \in Forms /\ r \in MaybeRow /\ r \in {g.row, None}
  BY <1>1, FormIs DEF MaybeRow
<1>4. /\ form' \in Forms /\ form'.sheet = None /\ form'.row = r
      /\ form'.new = g.new /\ form'.main = g.main
  BY <1>2, <1>3 DEF Forms, MaybeSheet
<1>5. QED
  BY <1>1, <1>3, <1>4, TypedForm DEF Close

\* A save begins.
LEMMA SubmitDoes ==
  ASSUME TypeOK, NEW p \in Procs, NEW s \in F.sheets, Submit(p, s)
  PROVE  /\ TypeOK' /\ UNCHANGED <<page, server, list, form>>
         /\ op[p] = Idle /\ Shown(s) /\ Target \in Targets
         /\ form.main \in Targets /\ form.extra \in Targets \cup {"defaults"}
         /\ op'[p].do = "calls" /\ op'[p].kind = "save" /\ op'[p].row = Target
         /\ op'[p].sheet = s /\ op'[p].main = form.main /\ op'[p].extra = form.extra
         /\ op'[p].fresh <=> form.row = None
         /\ op'[p].todo = Whole(op[p])' /\ op'[p].snap = None
         /\ \A q \in Procs \ {p} : op'[q] = op[q]
         /\ s \in F.flags => s \notin busy.saving
         /\ busy'.saving = IF s \in F.flags THEN busy.saving \cup {s} ELSE busy.saving
         /\ busy'.row = IF s \in F.rowFlags THEN Target ELSE busy.row
         /\ busy'.dialog = busy.dialog
         /\ astray' \in {astray, astray \cup {"lent"}}
         /\ s \in F.rowFlags /\ "lent" \notin astray' => busy.row = None
<1>1. /\ Shown(s) /\ op[p] = Idle /\ Spend("acts")
      /\ s \in F.flags => s \notin busy.saving
      /\ Target # None /\ form.main # "blank" /\ form.extra # "blank"
      /\ astray' = IF s \in F.rowFlags /\ busy.row # None THEN astray \cup {"lent"} ELSE astray
      /\ UNCHANGED <<page, server, list, form>>
  BY DEF Submit
<1>2. /\ PageFacts(F) /\ Target \in Targets /\ form.main \in Targets
      /\ form.extra \in Targets \cup {"defaults"}
  BY <1>1, FIs, FormIs DEF MaybeRow
<1>3. PICK t, m, e, fr, w : /\ t = Target /\ m = form.main /\ e = form.extra /\ fr = (form.row = None)
                            /\ w = IF form.row = None THEN F.newSteps ELSE F.steps
  OBVIOUS
<1>4. PICK x : x = [Idle EXCEPT !.do = "calls", !.kind = "save", !.row = t, !.sheet = s,
                       !.main = m, !.extra = e, !.fresh = fr, !.todo = w]
  OBVIOUS
<1>5. op' = [op EXCEPT ![p] = x]
  BY <1>1, <1>3, <1>4 DEF Submit
<1>6. /\ t \in Targets /\ m \in Targets /\ e \in Targets \cup {"defaults"} /\ fr \in BOOLEAN
      /\ w \in Todos /\ s \in Sheets
  BY <1>2, <1>3 DEF PageFacts, Todos, Wholes
<1>7. /\ x \in Ops /\ x.do = "calls" /\ x.kind = "save" /\ x.row = t /\ x.sheet = s /\ x.main = m
      /\ x.extra = e /\ x.fresh = fr /\ x.todo = w /\ x.snap = None
  BY <1>4, <1>6 DEF Idle, Ops, MaybeRow, MaybeSheet
<1>8. op'[p] = x /\ \A q \in Procs \ {p} : op'[q] = op[q]
  BY <1>5, <1>7, OpStep DEF TypeOK
<1>9. F' = F
  BY <1>1 DEF F
<1>10. op'[p].todo = Whole(op[p])'
  BY <1>3, <1>7, <1>8, <1>9 DEF Whole
<1>11. Shaped(op[p])'
  BY <1>6, <1>7, <1>8, <1>9, <1>10, ApartIs DEF Shaped
<1>12. PICK b, sv, br : /\ b = busy /\ b \in Marks /\ b.saving \subseteq F.flags
                        /\ sv = IF s \in F.flags THEN b.saving \cup {s} ELSE b.saving
                        /\ br = IF s \in F.rowFlags THEN t ELSE b.row
  BY DEF TypeOK
<1>13. busy' = [b EXCEPT !.saving = sv, !.row = br]
  BY <1>3, <1>12 DEF Submit
<1>14. sv \in SUBSET Sheets /\ sv \subseteq F.flags /\ br \in MaybeRow
  BY <1>6, <1>12 DEF Marks, MaybeRow
<1>15. busy' \in Marks /\ busy'.saving = sv /\ busy'.row = br /\ busy'.dialog = b.dialog
  BY <1>12, <1>13, <1>14 DEF Marks
<1>16. left' \in [acts : Nat, fails : Nat]
  BY <1>1, SpendTyped
<1>17. TypeOK'
  BY <1>1, <1>5, <1>7, <1>11, <1>14, <1>15, <1>16, Typed DEF TypeOK
<1>18. QED
  BY <1>1, <1>2, <1>3, <1>7, <1>8, <1>10, <1>12, <1>15, <1>17

\* Something is done to a row.
LEMMA ActDoes ==
  ASSUME TypeOK, NEW p \in Procs, NEW k \in F.acts, NEW r \in Rows, Act(p, k, r)
  PROVE  /\ TypeOK' /\ UNCHANGED <<page, server, list, form>>
         /\ op[p] = Idle /\ k \in ActKinds
         /\ op'[p].do = "calls" /\ op'[p].kind = k /\ op'[p].row = r /\ op'[p].sheet = None
         /\ op'[p].todo = Whole(op[p])' /\ op'[p].snap = None
         /\ \A q \in Procs \ {p} : op'[q] = op[q]
         /\ k = "remove" => ~busy.dialog
         /\ busy'.saving = busy.saving
         /\ busy'.row = IF k \in {"run", "reset"} THEN r ELSE busy.row
         /\ busy'.dialog <=> busy.dialog \/ k = "remove"
         /\ astray' \in {astray, astray \cup {"lent"}}
         /\ k \in {"run", "reset"} /\ "lent" \notin astray' => busy.row = None
<1>1. /\ op[p] = Idle /\ Spend("acts")
      /\ k = "remove" => ~busy.dialog
      /\ astray' = IF k \in {"run", "reset"} /\ busy.row # None THEN astray \cup {"lent"} ELSE astray
      /\ UNCHANGED <<page, server, list, form>>
  BY DEF Act
<1>2. PageFacts(F) /\ k \in ActKinds
  BY FIs DEF PageFacts
<1>3. PICK w, x : /\ w = IF k = "move" THEN <<"place", "order">> ELSE <<k>>
                  /\ x = [Idle EXCEPT !.do = "calls", !.kind = k, !.row = r, !.todo = w]
  OBVIOUS
<1>4. op' = [op EXCEPT ![p] = x]
  BY <1>3 DEF Act
<1>5. w \in Todos /\ r \in Targets
  BY <1>2, <1>3 DEF Todos, Wholes, ActKinds, Targets
<1>6. /\ x \in Ops /\ x.do = "calls" /\ x.kind = k /\ x.row = r /\ x.sheet = None
      /\ x.todo = w /\ x.snap = None
  BY <1>2, <1>3, <1>5 DEF Idle, Ops, MaybeRow, MaybeSheet
<1>7. op'[p] = x /\ \A q \in Procs \ {p} : op'[q] = op[q]
  BY <1>4, <1>6, OpStep DEF TypeOK
<1>8. F' = F
  BY <1>1 DEF F
<1>9. op'[p].todo = Whole(op[p])' /\ k # "save" /\ k # "none"
  BY <1>2, <1>3, <1>6, <1>7, <1>8 DEF Whole, ActKinds
<1>10. Shaped(op[p])'
  BY <1>5, <1>6, <1>7, <1>8, <1>9, ApartIs DEF Shaped
<1>11. PICK b, br, d : /\ b = busy /\ b \in Marks
                       /\ br = IF k \in {"run", "reset"} THEN r ELSE b.row
                       /\ d = (b.dialog \/ k = "remove")
  BY DEF TypeOK
<1>12. busy' = [b EXCEPT !.row = br, !.dialog = d]
  BY <1>11 DEF Act
<1>13. br \in MaybeRow /\ d \in BOOLEAN
  BY <1>5, <1>11 DEF Marks, MaybeRow
<1>14. busy' \in Marks /\ busy'.saving = b.saving /\ busy'.row = br /\ busy'.dialog = d
  BY <1>11, <1>12, <1>13 DEF Marks
<1>15. left' \in [acts : Nat, fails : Nat]
  BY <1>1, SpendTyped
<1>16. TypeOK'
  BY <1>1, <1>4, <1>6, <1>10, <1>11, <1>14, <1>15, Typed DEF TypeOK
<1>17. QED
  BY <1>1, <1>2, <1>6, <1>7, <1>9, <1>11, <1>14, <1>16

\* What a save that succeeds does to the form of the page now.
LEMMA SucceededIs ==
  ASSUME TypeOK, NEW o \in Ops, o.sheet \in F.sheets
  PROVE  LET f == Succeeded(o) IN
         /\ f \in Forms /\ f.sheet \in F.sheets \cup {None} /\ f.amid = form.amid
         /\ f.sheet \in {form.sheet, None}
         /\ F.closes /\ form.sheet = o.sheet => f.sheet = None
         /\ F.follows /\ o.fresh => f.sheet = None /\ f.row = New /\ ~f.new
         /\ ~(F.follows /\ o.fresh) =>
              /\ f.new = form.new /\ f.row \in {form.row, None}
              /\ f.main \in {form.main, "blank"} /\ f.extra \in {form.extra, "blank"}
              /\ f.row # form.row /\ f.sheet # None => F.shared /\ F.clears
              /\ ~F.closes => f.sheet = form.sheet /\ f.row = form.row
              /\ ~F.closes /\ F.wipes = {} => f = form
<1> DEFINE own == form.sheet = o.sheet
<1>1. PICK g, sh, ty, ro, ma, ex :
        /\ g = form
        /\ sh = IF F.closes /\ own THEN None ELSE g.sheet
        /\ ty = IF F.closes /\ own THEN FALSE ELSE g.typed
        /\ ro = IF F.clears /\ (own \/ g.sheet = None \/ F.shared) THEN None ELSE g.row
        /\ ma = IF "main" \in F.wipes THEN "blank" ELSE g.main
        /\ ex = IF "extra" \in F.wipes THEN "blank" ELSE g.extra
  OBVIOUS
<1>2. PICK f : f = [g EXCEPT !.sheet = sh, !.typed = ty, !.row = ro, !.main = ma, !.extra = ex]
  OBVIOUS
<1>3. PageFacts(F) /\ g \in Forms /\ g.sheet \in F.sheets \cup {None}
  BY <1>1, FIs, FormIs
<1>4. /\ sh \in F.sheets \cup {None} /\ sh \in MaybeSheet /\ ty \in BOOLEAN /\ ro \in MaybeRow
      /\ ma \in Targets \cup {"blank"} /\ ex \in Targets \cup {"blank", "defaults"}
  BY <1>1, <1>3 DEF Forms, MaybeSheet, MaybeRow
<1>5. /\ f \in Forms /\ f.sheet = sh /\ f.row = ro /\ f.main = ma /\ f.extra = ex
      /\ f.new = g.new /\ f.amid = g.amid /\ f.typed = ty
  BY <1>2, <1>3, <1>4 DEF Forms
<1>6. Succeeded(o) = IF F.follows /\ o.fresh THEN [f EXCEPT !.sheet = None, !.row = New, !.new = FALSE]
                     ELSE f
  BY <1>1, <1>2 DEF Succeeded
<1>7. CASE F.follows /\ o.fresh
  <2>1. PICK h : h = [f EXCEPT !.sheet = None, !.row = New, !.new = FALSE]
    OBVIOUS
  <2>2. New \in Targets /\ None \in MaybeSheet
    BY DEF Targets, MaybeSheet
  <2>3. h \in Forms /\ h.sheet = None /\ h.row = New /\ h.new = FALSE /\ h.amid = f.amid
    BY <1>5, <2>1, <2>2 DEF Forms, MaybeRow
  <2>4. Succeeded(o) = h
    BY <1>6, <1>7, <2>1
  <2>5. QED
    BY <1>1, <1>5, <1>7, <2>3, <2>4
<1>8. CASE ~(F.follows /\ o.fresh)
  <2>1. Succeeded(o) = f
    BY <1>6, <1>8
  <2>2. ro # g.row /\ sh # None => F.shared /\ F.clears
    BY <1>1, <1>3 DEF PageFacts
  <2>3. ~F.closes => sh = g.sheet /\ ro = g.row /\ ty = g.typed
    BY <1>1, <1>3 DEF PageFacts
  <2>4. ASSUME ~F.closes, F.wipes = {} PROVE f = g
    <3>1. sh = g.sheet /\ ro = g.row /\ ty = g.typed /\ ma = g.main /\ ex = g.extra
      BY <1>1, <2>3, <2>4
    <3>2. QED
      BY <1>2, <1>3, <3>1 DEF Forms
  <2>5. /\ f.sheet \in {form.sheet, None}
        /\ F.closes /\ form.sheet = o.sheet => f.sheet = None
    BY <1>1, <1>5
  <2>6. f.main \in {form.main, "blank"} /\ f.extra \in {form.extra, "blank"} /\ f.row \in {form.row, None}
    BY <1>1, <1>5
  <2>7. ~F.closes => f.sheet = form.sheet /\ f.row = form.row
    BY <1>1, <1>5, <2>3
  <2>8. f.row # form.row /\ f.sheet # None => F.shared /\ F.clears
    BY <1>1, <1>5, <2>2
  <2>9. QED
    BY <1>1, <1>4, <1>5, <1>8, <2>1, <2>4, <2>5, <2>6, <2>7, <2>8
<1>9. QED
  BY <1>7, <1>8

\* A request is done: what is written, and what the handler does next.
LEMMA CallDoneDoes ==
  ASSUME TypeOK, NEW p \in Procs, CallDone(p)
  PROVE  LET o == op[p] IN
         /\ TypeOK' /\ UNCHANGED <<page, list, astray>>
         /\ o.do = "calls" /\ o.row \in Targets
         /\ server' \in [Targets -> Records]
         /\ \A r \in Targets : server[r].version <= server'[r].version
         /\ \A r \in Targets \ {o.row} : server'[r] = server[r]
         /\ o.kind = "reset" => server'[o.row].version = server[o.row].version
         /\ server'[o.row].main = server[o.row].main
              \/ (o.kind = "save" /\ server'[o.row].main = o.main)
         /\ server'[o.row].extra = server[o.row].extra
              \/ (o.kind = "save" /\ server'[o.row].extra = o.extra)
         /\ \A q \in Procs \ {p} : op'[q] = op[q]
         /\ \/ /\ op'[p].do \in {"calls", "load"} /\ UNCHANGED busy
               /\ op'[p].kind = o.kind /\ op'[p].row = o.row /\ op'[p].sheet = o.sheet
               /\ op'[p].fresh = o.fresh
            \/ op'[p] = Idle /\ Finally(o) /\ o.kind = "reset" /\ o.todo = Whole(o)
         /\ op'[p].do = "calls" =>
              /\ op'[p].todo # Whole(o) /\ op'[p].main = o.main /\ op'[p].extra = o.extra
              /\ UNCHANGED form
         /\ op'[p].do = "load" =>
              /\ op'[p].snap # None => \A r \in Targets : op'[p].snap[r] = server'[r].version
              /\ form' = IF o.kind = "save" THEN Succeeded(o) ELSE form
         /\ op'[p].do = "idle" => UNCHANGED form
<1>1. PICK o : o = op[p] /\ o \in Ops /\ Shaped(o)
  BY OpIs
<1> DEFINE last == Len(o.todo) = 1
           head == Head(o.todo)
           old == server[o.row]
           rec == [version |-> old.version + (IF o.kind = "reset" THEN 0 ELSE 1),
                   main  |-> IF head \in {"main", "both"} THEN o.main ELSE old.main,
                   extra |-> IF head \in {"extra", "both"} THEN o.extra ELSE old.extra]
           now == [server EXCEPT ![o.row] = rec]
<1>3. /\ o.do = "calls" /\ server' = now /\ UNCHANGED <<page, list, astray, left>>
      /\ form' = IF last /\ o.kind = "save" THEN Succeeded(o) ELSE form
  BY <1>1 DEF CallDone
<1>4. /\ Whole(o) \in Wholes
      /\ o.todo = Whole(o) \/ (Len(Whole(o)) = 2 /\ o.todo = Tail(Whole(o)))
      /\ last \/ (/\ Len(o.todo) = 2 /\ o.todo = Whole(o)
                  /\ Tail(o.todo) \in Todos /\ Tail(o.todo) # Whole(o))
      /\ o.kind = "reset" => last /\ o.todo = Whole(o)
      /\ o.kind # "save" => head \notin {"main", "extra", "both"}
  BY <1>1, <1>3, TodoIs
<1>5. /\ o.kind \in ActKinds \cup {"save"} /\ o.row \in Targets
      /\ o.kind = "save" => o.main \in Targets /\ o.extra \in Targets \cup {"defaults"}
      /\ IF o.kind = "save" THEN o.sheet \in F.sheets ELSE o.sheet = None
  BY <1>1, <1>3 DEF Shaped, Ops, MaybeRow
<1>6. old \in Records /\ old.version \in Nat
  BY <1>5 DEF TypeOK, Records
<1>7. rec \in Records /\ rec.version >= old.version
      /\ (o.kind = "reset" => rec.version = old.version)
  BY <1>4, <1>5, <1>6 DEF Records
<1>8. /\ rec.main = old.main \/ (o.kind = "save" /\ rec.main = o.main)
      /\ rec.extra = old.extra \/ (o.kind = "save" /\ rec.extra = o.extra)
  BY <1>4
<1>9. /\ server' \in [Targets -> Records] /\ server'[o.row] = rec
      /\ \A r \in Targets \ {o.row} : server'[r] = server[r]
  BY <1>3, <1>5, <1>7 DEF TypeOK
<1>10. \A r \in Targets : server[r].version <= server'[r].version
  BY <1>6, <1>7, <1>9 DEF TypeOK, Records
<1>11. form' \in Forms /\ form'.sheet \in F.sheets \cup {None}
  BY <1>1, <1>3, <1>5, FormIs, SucceededIs
<1>12. F' = F
  BY <1>3 DEF F
<1>13. CASE last /\ o.kind = "reset"
  <2>1. op' = [op EXCEPT ![p] = Idle] /\ Finally(o)
    BY <1>1, <1>13 DEF CallDone
  <2>2. op'[p] = Idle /\ \A q \in Procs \ {p} : op'[q] = op[q]
    BY <2>1, IdleIs, OpStep DEF TypeOK
  <2>3. busy' \in Marks /\ busy'.saving \subseteq F.flags
    BY <1>1, <2>1, FinallyDoes
  <2>4. Shaped(op[p])'
    BY <2>2, IdleIs DEF Shaped
  <2>5. TypeOK'
    BY <1>3, <1>9, <1>11, <2>1, <2>3, <2>4, IdleIs, Typed DEF TypeOK
  <2>6. UNCHANGED form
    BY <1>3, <1>13
  <2>7. QED
    BY <1>1, <1>3, <1>4, <1>5, <1>7, <1>8, <1>9, <1>10, <1>13, <2>1, <2>2, <2>5, <2>6, IdleIs
<1>14. CASE last /\ o.kind # "reset"
  <2>1. PICK sn, x : /\ sn = IF F.echoes THEN [r \in Targets |-> server'[r].version] ELSE None
                     /\ x = [o EXCEPT !.do = "load", !.todo = <<>>, !.snap = sn]
    OBVIOUS
  <2>2. /\ UNCHANGED busy
        /\ op' = [op EXCEPT ![p] = [o EXCEPT !.do = "load", !.todo = <<>>,
                    !.snap = IF F.echoes THEN [r \in Targets |-> now[r].version] ELSE None]]
    BY <1>1, <1>14 DEF CallDone
  <2>3. op' = [op EXCEPT ![p] = x]
    BY <1>3, <2>1, <2>2
  <2>4. /\ sn \in VersionsOf \cup {None}
        /\ sn # None => \A r \in Targets : sn[r] = server'[r].version
    BY <1>9, <2>1 DEF VersionsOf, Records
  <2>5. <<>> \in Todos
    BY DEF Todos
  <2>6. x \in Ops
    BY <1>1, <2>1, <2>4, <2>5 DEF Ops
  <2>7. /\ x.do = "load" /\ x.snap = sn /\ x.kind = o.kind /\ x.row = o.row
        /\ x.sheet = o.sheet /\ x.fresh = o.fresh
    BY <1>1, <2>1 DEF Ops
  <2>8. op'[p] = x /\ \A q \in Procs \ {p} : op'[q] = op[q]
    BY <2>3, <2>6, OpStep DEF TypeOK
  <2>9. Shaped(op[p])'
    BY <1>5, <1>12, <1>14, <2>7, <2>8 DEF Shaped, ActKinds
  <2>10. TypeOK'
    BY <1>3, <1>9, <1>11, <2>2, <2>3, <2>6, <2>9, Typed DEF TypeOK
  <2>11. form' = IF o.kind = "save" THEN Succeeded(o) ELSE form
    BY <1>3, <1>14
  <2>12. op'[p].snap # None => \A r \in Targets : op'[p].snap[r] = server'[r].version
    BY <2>4, <2>7, <2>8
  <2>13. QED
    BY <1>1, <1>3, <1>5, <1>7, <1>8, <1>9, <1>10, <2>2, <2>7, <2>8, <2>10, <2>11, <2>12
<1>15. CASE ~last
  <2>1. PICK t, x : t = Tail(o.todo) /\ x = [o EXCEPT !.todo = t]
    OBVIOUS
  <2>2. op' = [op EXCEPT ![p] = x] /\ UNCHANGED busy
    BY <1>1, <1>15, <2>1 DEF CallDone
  <2>3. t \in Todos /\ t # Whole(o) /\ o.todo = Whole(o) /\ Len(Whole(o)) = 2
    BY <1>4, <1>15, <2>1
  <2>4. x \in Ops
    BY <1>1, <2>1, <2>3 DEF Ops
  <2>5. /\ x.do = "calls" /\ x.snap = o.snap /\ x.kind = o.kind /\ x.row = o.row
        /\ x.sheet = o.sheet /\ x.fresh = o.fresh /\ x.main = o.main /\ x.extra = o.extra
        /\ x.todo = t
    BY <1>1, <1>3, <2>1 DEF Ops
  <2>6. op'[p] = x /\ \A q \in Procs \ {p} : op'[q] = op[q]
    BY <2>2, <2>4, OpStep DEF TypeOK
  <2>7. Whole(op[p])' = Whole(o)
    BY <1>12, <2>5, <2>6 DEF Whole
  <2>8. x.todo = Tail(Whole(o))
    BY <2>1, <2>3, <2>5
  <2>9. x.kind = "save" => x.main \in Targets /\ x.extra # None
    BY <1>5, <2>5, ApartIs
  <2>10. x.snap = None
    BY <1>1, <1>3, <2>5 DEF Shaped
  <2>11. Shaped(op[p])'
    BY <1>3, <1>5, <1>12, <2>3, <2>5, <2>6, <2>7, <2>8, <2>9, <2>10 DEF Shaped, ActKinds
  <2>12. TypeOK'
    BY <1>3, <1>9, <1>11, <2>2, <2>4, <2>11, Typed DEF TypeOK
  <2>13. UNCHANGED form
    BY <1>3, <1>15
  <2>14. \/ /\ op'[p].do \in {"calls", "load"} /\ UNCHANGED busy
            /\ op'[p].kind = o.kind /\ op'[p].row = o.row /\ op'[p].sheet = o.sheet
            /\ op'[p].fresh = o.fresh
         \/ op'[p] = Idle /\ Finally(o) /\ o.kind = "reset" /\ o.todo = Whole(o)
    BY <2>2, <2>5, <2>6
  <2>15. op'[p].do = "calls" /\ op'[p].todo # Whole(o) /\ op'[p].main = o.main /\ op'[p].extra = o.extra
    BY <2>3, <2>5, <2>6
  <2>16. QED
    BY <1>1, <1>3, <1>5, <1>7, <1>8, <1>9, <1>10, <2>6, <2>12, <2>13, <2>14, <2>15
<1>16. QED
  BY <1>13, <1>14, <1>15

\* A request fails.
LEMMA CallFailsDoes ==
  ASSUME TypeOK, NEW p \in Procs, CallFails(p)
  PROVE  /\ TypeOK' /\ UNCHANGED <<page, server, list, form>>
         /\ op[p].do = "calls" /\ op'[p] = Idle /\ Finally(op[p])
         /\ \A q \in Procs \ {p} : op'[q] = op[q]
         /\ astray \subseteq astray' /\ astray' \subseteq astray \cup {"partial"}
         /\ op[p].todo # Whole(op[p]) => "partial" \in astray'
<1>1. /\ op[p].do = "calls" /\ Spend("fails") /\ op' = [op EXCEPT ![p] = Idle] /\ Finally(op[p])
      /\ astray' = IF op[p].todo # Whole(op[p]) THEN astray \cup {"partial"} ELSE astray
      /\ UNCHANGED <<page, server, list, form>>
  BY DEF CallFails
<1>2. op'[p] = Idle /\ \A q \in Procs \ {p} : op'[q] = op[q]
  BY <1>1, IdleIs, OpStep DEF TypeOK
<1>3. busy' \in Marks /\ busy'.saving \subseteq F.flags
  BY <1>1, FinallyDoes
<1>4. left' \in [acts : Nat, fails : Nat]
  BY <1>1, SpendTyped
<1>5. Shaped(op[p])'
  BY <1>2, IdleIs DEF Shaped
<1>6. TypeOK'
  BY <1>1, <1>3, <1>4, <1>5, IdleIs, Typed DEF TypeOK
<1>7. QED
  BY <1>1, <1>2, <1>6

\* The list is read for a handler.
LEMMA LoadServedDoes ==
  ASSUME TypeOK, NEW p \in Procs, LoadServed(p)
  PROVE  LET o == op[p] IN
         /\ TypeOK' /\ UNCHANGED <<page, server, list, form, busy, astray>>
         /\ o.do = "load" /\ o.snap = None /\ op'[p].do = "load"
         /\ op'[p].kind = o.kind /\ op'[p].row = o.row /\ op'[p].sheet = o.sheet
         /\ \A r \in Targets : op'[p].snap[r] = server[r].version
         /\ \A q \in Procs \ {p} : op'[q] = op[q]
<1>1. PICK o : o = op[p] /\ o \in Ops /\ Shaped(o)
  BY OpIs
<1>2. /\ o.do = "load" /\ o.snap = None /\ op' = [op EXCEPT ![p] = [o EXCEPT !.snap = Versions]]
      /\ UNCHANGED <<page, server, list, form, busy, astray, left>>
  BY <1>1 DEF LoadServed
<1>3. PICK sn, x : sn = Versions /\ x = [o EXCEPT !.snap = sn]
  OBVIOUS
<1>4. sn \in VersionsOf /\ \A r \in Targets : sn[r] = server[r].version
  BY <1>3 DEF Versions, VersionsOf, TypeOK, Records
<1>5. x \in Ops
  BY <1>1, <1>3, <1>4 DEF Ops
<1>6. /\ x.do = "load" /\ x.kind = o.kind /\ x.row = o.row /\ x.sheet = o.sheet
      /\ x.snap = sn
  BY <1>1, <1>2, <1>3 DEF Ops
<1>7. op' = [op EXCEPT ![p] = x]
  BY <1>2, <1>3
<1>8. op'[p] = x /\ \A q \in Procs \ {p} : op'[q] = op[q]
  BY <1>5, <1>7, OpStep DEF TypeOK
<1>9. F' = F
  BY <1>2 DEF F
<1>10. Shaped(op[p])'
  BY <1>1, <1>2, <1>6, <1>8, <1>9 DEF Shaped
<1>11. TypeOK'
  BY <1>2, <1>5, <1>7, <1>10, Typed DEF TypeOK
<1>12. QED
  BY <1>1, <1>2, <1>4, <1>6, <1>8, <1>11

\* What was read is shown, and put back into the form that follows the list.
LEMMA LoadAppliedDoes ==
  ASSUME TypeOK, NEW p \in Procs, LoadApplied(p)
  PROVE  LET o == op[p] IN
         /\ TypeOK' /\ UNCHANGED <<page, server>>
         /\ o.do = "load" /\ o.snap # None /\ op'[p] = Idle /\ Finally(o) /\ list' = o.snap
         /\ \A q \in Procs \ {p} : op'[q] = op[q]
         /\ astray \subseteq astray' /\ astray' \subseteq astray \cup {"overtaken"}
         /\ "overtaken" \notin astray' => \A r \in Targets : list[r] <= o.snap[r]
         /\ \/ UNCHANGED form /\ ~(F.follows /\ form.row # None)
            \/ /\ F.follows /\ form.row # None /\ form'.sheet = "form" /\ form'.row \in Targets
               /\ ~form'.new /\ form'.main = form'.row /\ form'.extra = form'.row
               /\ form'.amid = form.amid
<1>1. PICK o : o = op[p] /\ o \in Ops /\ Shaped(o)
  BY OpIs
<1>2. /\ o.do = "load" /\ o.snap # None /\ op' = [op EXCEPT ![p] = Idle] /\ Finally(o)
      /\ list' = o.snap /\ UNCHANGED <<page, server, left>>
      /\ astray' = IF \E r \in Targets : o.snap[r] < list[r] THEN astray \cup {"overtaken"} ELSE astray
  BY <1>1 DEF LoadApplied
<1>3. o.snap \in VersionsOf /\ list \in VersionsOf
  BY <1>1, <1>2 DEF Ops, TypeOK
<1>4. op'[p] = Idle /\ \A q \in Procs \ {p} : op'[q] = op[q]
  BY <1>2, IdleIs, OpStep DEF TypeOK
<1>5. busy' \in Marks /\ busy'.saving \subseteq F.flags
  BY <1>1, <1>2, FinallyDoes
<1>6. "overtaken" \notin astray' => \A r \in Targets : list[r] <= o.snap[r]
  BY <1>2, <1>3 DEF VersionsOf
<1>7. /\ form' \in Forms /\ form'.sheet \in F.sheets \cup {None}
      /\ \/ UNCHANGED form /\ ~(F.follows /\ form.row # None)
         \/ /\ F.follows /\ form.row # None /\ form'.sheet = "form" /\ form'.row \in Targets
            /\ ~form'.new /\ form'.main = form'.row /\ form'.extra = form'.row
            /\ form'.amid = form.amid
  <2>1. CASE ~(F.follows /\ form.row # None)
    BY <2>1, FormIs DEF LoadApplied
  <2>2. CASE F.follows /\ form.row # None
    <3>1. PICK r : r = IF o.snap[form.row] > 0 \/ form.row # New THEN form.row
                       ELSE CHOOSE x \in Rows : TRUE
      OBVIOUS
    <3>2. form.row \in Targets /\ (CHOOSE x \in Rows : TRUE) \in Rows
      BY <2>2, FormIs, RowsExist DEF MaybeRow
    <3>3. r \in Targets
      BY <3>1, <3>2 DEF Targets
    <3>4. form' = FormOf("form", r, form.amid)
      BY <1>1, <2>2, <3>1 DEF LoadApplied
    <3>5. F.sheets = {"form"} /\ "form" \in MaybeSheet /\ form.amid \in BOOLEAN
      BY <2>2, FIs, FormIs DEF PageFacts, MaybeSheet, Sheets
    <3>6. /\ form' \in Forms /\ form'.sheet = "form" /\ form'.row = r /\ form'.new = FALSE
          /\ form'.main = r /\ form'.extra = r /\ form'.amid = form.amid
      BY <3>3, <3>4, <3>5 DEF FormOf, Forms, MaybeRow
    <3>7. QED
      BY <2>2, <3>3, <3>5, <3>6
  <2>3. QED
    BY <2>1, <2>2
<1>8. Shaped(op[p])'
  BY <1>4, IdleIs DEF Shaped
<1>9. TypeOK'
  BY <1>2, <1>3, <1>5, <1>7, <1>8, IdleIs, Typed DEF TypeOK
<1>10. QED
  BY <1>1, <1>2, <1>4, <1>6, <1>7, <1>9

LEMMA LoadFailsDoes ==
  ASSUME TypeOK, NEW p \in Procs, LoadFails(p)
  PROVE  /\ TypeOK' /\ UNCHANGED <<page, server, list, form>>
         /\ op[p].do = "load" /\ op'[p] = Idle /\ Finally(op[p])
         /\ \A q \in Procs \ {p} : op'[q] = op[q]
         /\ astray' = astray \cup {"unread"}
<1>1. /\ op[p].do = "load" /\ Spend("fails") /\ op' = [op EXCEPT ![p] = Idle] /\ Finally(op[p])
      /\ astray' = astray \cup {"unread"} /\ UNCHANGED <<page, server, list, form>>
  BY DEF LoadFails
<1>2. op'[p] = Idle /\ \A q \in Procs \ {p} : op'[q] = op[q]
  BY <1>1, IdleIs, OpStep DEF TypeOK
<1>3. busy' \in Marks /\ busy'.saving \subseteq F.flags
  BY <1>1, FinallyDoes
<1>4. left' \in [acts : Nat, fails : Nat]
  BY <1>1, SpendTyped
<1>5. Shaped(op[p])'
  BY <1>2, IdleIs DEF Shaped
<1>6. TypeOK'
  BY <1>1, <1>3, <1>4, <1>5, IdleIs, Typed DEF TypeOK
<1>7. QED
  BY <1>1, <1>2, <1>6

------------------------------------------------------------------------------
(* Whose data is in the form, in what is sent and in the rows.                *)
Own == FormIsWhose /\ OwnData /\ RowsAreOwn

\* A step that leaves the form, the rows and what is sent as they are.
LEMMA OwnStays ==
  ASSUME Own, UNCHANGED <<page, server, form>>, ~Filled' => ~Filled,
         \A q \in Procs : op'[q].do = "calls" /\ op'[q].kind = "save" => op'[q] = op[q]
  PROVE  Own'
<1>1. F' = F /\ Target' = Target
  BY DEF F, Target
<1>2. FormIsWhose' /\ RowsAreOwn'
  BY <1>1 DEF Own, FormIsWhose, RowsAreOwn
<1>3. ASSUME ~Filled' PROVE FormIsOwn' /\ SentIsOwn'
  <2>1. FormIsOwn /\ SentIsOwn
    BY <1>3 DEF Own, OwnData
  <2>2. FormIsOwn'
    BY <1>1, <2>1 DEF FormIsOwn
  <2>3. SentIsOwn'
    BY <2>1 DEF SentIsOwn
  <2>4. QED
    BY <2>2, <2>3
<1>4. QED
  BY <1>2, <1>3 DEF Own, OwnData

\* The user: Type, Close and Open.
LEMMA OwnType ==
  ASSUME TypeOK, Own, Type PROVE Own'
<1>1. /\ UNCHANGED <<page, server, op, astray>>
      /\ form'.sheet = form.sheet /\ form'.row = form.row
      /\ form'.new = form.new /\ form'.main = form.main /\ form'.extra = form.extra
  BY TypeDoes
<1>2. F' = F /\ Target' = Target /\ (Filled' <=> Filled)
  BY <1>1 DEF F, Target, Filled
<1>3. QED
  BY <1>1, <1>2 DEF Own, FormIsWhose, OwnData, FormIsOwn, SentIsOwn, RowsAreOwn

LEMMA OwnClose ==
  ASSUME TypeOK, Own, Close PROVE Own'
<1>1. /\ UNCHANGED <<page, server, op, astray>>
      /\ form.sheet # None /\ ~F.start /\ form'.sheet = None
      /\ form'.row \in {form.row, None} /\ form'.new = form.new /\ form'.main = form.main
  BY CloseDoes
<1>2. F' = F /\ (Filled' <=> Filled)
  BY <1>1 DEF F, Filled
<1>3. FormIsWhose' /\ RowsAreOwn'
  BY <1>1, <1>2 DEF Own, FormIsWhose, RowsAreOwn
<1>4. ASSUME ~Filled' PROVE FormIsOwn' /\ SentIsOwn'
  <2>1. FormIsOwn /\ SentIsOwn
    BY <1>2, <1>4 DEF Own, OwnData
  <2>2. QED
    BY <1>1, <1>2, <2>1 DEF FormIsOwn, SentIsOwn
<1>5. QED
  BY <1>3, <1>4 DEF Own, OwnData

LEMMA OwnOpen ==
  ASSUME TypeOK, Own, NEW p \in Procs, NEW s \in F.sheets, NEW r \in Targets, Open(p, s, r)
  PROVE  Own'
<1>1. PageFacts(F)
  BY FIs
<1>2. CASE Way(r) \in F.waits
  <2>1. /\ UNCHANGED <<page, server, astray>>
        /\ form.sheet = None /\ form'.sheet = None /\ F.waits # {} /\ op'[p].do = "open"
        /\ \A q \in Procs \ {p} : op'[q] = op[q]
        /\ \/ UNCHANGED form
           \/ form'.new /\ form'.row = None /\ form'.main = New
           \/ ~form'.new /\ form'.row = r /\ form'.main = r
    BY <1>2, OpenWaits
  <2>2. F' = F /\ (Filled' <=> Filled) /\ ~(F.start /\ ~F.follows)
    BY <2>1 DEF F, Filled, Own, FormIsWhose
  <2>3. FormIsWhose' /\ RowsAreOwn'
    BY <2>1, <2>2 DEF Own, FormIsWhose, RowsAreOwn
  <2>4. ASSUME ~Filled' PROVE FormIsOwn' /\ SentIsOwn'
    <3>1. FormIsOwn /\ SentIsOwn
      BY <2>2, <2>4 DEF Own, OwnData
    <3>2. FormIsOwn'
      BY <2>1, <2>2, <3>1 DEF FormIsOwn
    <3>3. SentIsOwn'
      BY <2>1, <3>1 DEF SentIsOwn
    <3>4. QED
      BY <3>2, <3>3
  <2>5. QED
    BY <2>3, <2>4 DEF Own, OwnData
<1>3. CASE Way(r) \notin F.waits
  <2>1. /\ UNCHANGED <<page, server, astray, op>>
        /\ form'.sheet = s /\ form'.main = r /\ form'.extra = r
        /\ r = New => form'.row = None /\ form'.new
        /\ r # New => form'.row = r /\ ~form'.new
    BY <1>3, OpenShows
  <2>2. F' = F /\ (Filled' <=> Filled) /\ s # None /\ r # None
    BY <1>1, <2>1, ApartIs DEF F, Filled, PageFacts
  <2>3. Target' = r
    BY <2>1, <2>2 DEF Target
  <2>4. FormIsWhose' /\ FormIsOwn'
    BY <2>1, <2>2, <2>3 DEF FormIsWhose, FormIsOwn
  <2>5. QED
    BY <2>1, <2>2, <2>4 DEF Own, OwnData, SentIsOwn, RowsAreOwn
<1>4. QED
  BY <1>2, <1>3

LEMMA OwnOpenReply ==
  ASSUME TypeOK, Own, NEW p \in Procs, OpenReply(p) PROVE Own'
<1>1. /\ UNCHANGED <<page, server>> /\ op[p].do = "open" /\ op'[p] = Idle
      /\ \A q \in Procs \ {p} : op'[q] = op[q]
      /\ \/ UNCHANGED <<form, astray>>
         \/ \E data \in {op[p].row, "defaults"} : Opened(p, data)
  BY OpenReplyDoes
<1>2. \A q \in Procs : op'[q].do = "calls" /\ op'[q].kind = "save" => op'[q] = op[q]
  BY <1>1, IdleIs
<1>3. CASE UNCHANGED <<form, astray>>
  BY <1>1, <1>2, <1>3, OwnStays DEF Filled
<1>4. ASSUME NEW data \in {op[p].row, "defaults"}, Opened(p, data) PROVE Own'
  <2>1. /\ form'.sheet = op[p].sheet /\ form'.sheet \in F.sheets /\ astray \subseteq astray'
        /\ ~Filled' =>
              /\ form'.extra = op[p].row
              /\ \/ /\ form'.new = form.new /\ form'.row = form.row /\ form'.main = form.main
                    /\ op[p].row = IF form.new THEN New ELSE form.row
                 \/ ~form'.new /\ form'.row = op[p].row /\ form'.main = op[p].row
        /\ (form.new => form.row = None) => (form'.new => form'.row = None)
    BY <1>1, <1>4, OpenedDoes
  <2>2. F' = F /\ (~Filled' => ~Filled) /\ form'.sheet # None
    BY <1>1, <2>1, FIs, ApartIs DEF F, Filled, PageFacts
  <2>3. op[p].row \in Targets /\ op[p].row # None /\ ~F.follows
    BY <1>1, OpIs, FIs, ApartIs DEF Shaped, PageFacts
  <2>4. FormIsWhose' /\ RowsAreOwn'
    BY <1>1, <2>1, <2>2 DEF Own, FormIsWhose, RowsAreOwn
  <2>5. ASSUME ~Filled' PROVE FormIsOwn' /\ SentIsOwn'
    <3>1. FormIsOwn /\ SentIsOwn /\ (form.new => form.row = None)
      BY <2>2, <2>5 DEF Own, OwnData, FormIsWhose
    <3>2. SentIsOwn'
      BY <1>2, <3>1 DEF SentIsOwn
    <3>3. CASE /\ form'.new = form.new /\ form'.row = form.row /\ form'.main = form.main
               /\ op[p].row = IF form.new THEN New ELSE form.row
      <4>1. Target' = op[p].row
        BY <2>2, <2>3, <3>1, <3>3 DEF Target
      <4>2. QED
        BY <2>1, <2>2, <2>3, <2>5, <3>1, <3>2, <3>3, <4>1 DEF FormIsOwn
    <3>4. CASE ~form'.new /\ form'.row = op[p].row /\ form'.main = op[p].row
      <4>1. Target' = op[p].row
        BY <2>2, <2>3, <3>4 DEF Target
      <4>2. QED
        BY <2>1, <2>2, <2>3, <2>5, <3>2, <3>4, <4>1 DEF FormIsOwn
    <3>5. QED
      BY <2>1, <2>5, <3>3, <3>4
  <2>6. QED
    BY <2>4, <2>5 DEF Own, OwnData
<1>5. QED
  BY <1>1, <1>3, <1>4

\* The handlers: what is sent is the form's at the click.
LEMMA OwnSubmit ==
  ASSUME TypeOK, Own, NEW p \in Procs, NEW s \in F.sheets, Submit(p, s) PROVE Own'
<1>1. /\ UNCHANGED <<page, server, form>> /\ Shown(s) /\ Target \in Targets
      /\ form.main \in Targets /\ form.extra \in Targets \cup {"defaults"}
      /\ op'[p].row = Target /\ op'[p].main = form.main /\ op'[p].extra = form.extra
      /\ \A q \in Procs \ {p} : op'[q] = op[q]
      /\ astray' \in {astray, astray \cup {"lent"}}
  BY SubmitDoes
<1>2. F' = F /\ Target' = Target /\ (Filled' <=> Filled)
  BY <1>1 DEF F, Target, Filled
<1>3. form.sheet # None
  BY <1>1, FIs, ApartIs DEF Shown, Own, FormIsWhose, PageFacts
<1>4. FormIsWhose' /\ RowsAreOwn'
  BY <1>1, <1>2 DEF Own, FormIsWhose, RowsAreOwn
<1>5. ASSUME ~Filled' PROVE FormIsOwn' /\ SentIsOwn'
  <2>1. FormIsOwn /\ SentIsOwn
    BY <1>2, <1>5 DEF Own, OwnData
  <2>2. form.main = Target /\ form.extra = Target
    BY <1>1, <1>3, <2>1, ApartIs DEF FormIsOwn, Target
  <2>3. FormIsOwn'
    BY <1>1, <1>2, <2>1 DEF FormIsOwn
  <2>4. SentIsOwn'
    BY <1>1, <2>1, <2>2 DEF SentIsOwn
  <2>5. QED
    BY <2>3, <2>4
<1>6. QED
  BY <1>4, <1>5 DEF Own, OwnData

LEMMA OwnAct ==
  ASSUME TypeOK, Own, NEW p \in Procs, NEW k \in F.acts, NEW r \in Rows, Act(p, k, r) PROVE Own'
<1>1. /\ UNCHANGED <<page, server, form>> /\ k \in ActKinds /\ op'[p].kind = k
      /\ \A q \in Procs \ {p} : op'[q] = op[q]
      /\ astray' \in {astray, astray \cup {"lent"}}
  BY ActDoes
<1>2. Filled' <=> Filled
  BY <1>1 DEF Filled
<1>3. \A q \in Procs : op'[q].do = "calls" /\ op'[q].kind = "save" => op'[q] = op[q]
  BY <1>1 DEF ActKinds
<1>4. QED
  BY <1>1, <1>2, <1>3, OwnStays

\* ... and is written to its row; a save that succeeds leaves no row in a form
\* that is not the row's.
LEMMA OwnSucceeded ==
  ASSUME TypeOK, Own, NEW o \in Ops, o.sheet \in F.sheets, UNCHANGED page, form' = Succeeded(o)
  PROVE  FormIsWhose' /\ (FormIsOwn => FormIsOwn')
<1>1. /\ form'.sheet \in {form.sheet, None}
      /\ F.follows /\ o.fresh => form'.sheet = None /\ form'.row = New /\ ~form'.new
      /\ ~(F.follows /\ o.fresh) =>
              /\ form'.new = form.new /\ form'.row \in {form.row, None}
              /\ form'.main \in {form.main, "blank"} /\ form'.extra \in {form.extra, "blank"}
              /\ form'.row # form.row /\ form'.sheet # None => F.shared /\ F.clears
              /\ ~F.closes => form'.sheet = form.sheet /\ form'.row = form.row
  BY SucceededIs
<1>2. F' = F /\ PageFacts(F)
  BY FIs DEF F
<1>3. CASE F.follows /\ o.fresh
  BY <1>1, <1>2, <1>3 DEF FormIsWhose, FormIsOwn
<1>4. CASE ~(F.follows /\ o.fresh)
  <2>1. FormIsWhose'
    BY <1>1, <1>2, <1>4 DEF Own, FormIsWhose, PageFacts
  <2>2. ASSUME FormIsOwn PROVE FormIsOwn'
    <3>1. form'.sheet # None /\ F.nullNew /\ form'.row = None => form'.new
      BY <1>1, <1>2, <1>4, <2>2 DEF FormIsOwn, PageFacts
    <3>2. form'.new => form'.main \in {"blank", New}
      BY <1>1, <1>4, <2>2 DEF FormIsOwn
    <3>3. form'.row # None /\ (form'.sheet # None \/ ~F.follows) => form'.main \in {"blank", form'.row}
      BY <1>1, <1>4, <2>2 DEF FormIsOwn
    <3>4. ASSUME form'.sheet # None, Target' # None PROVE form'.extra \in {"blank", Target'}
      <4>1. form'.row = form.row
        BY <1>1, <1>2, <1>4, <3>4 DEF Target, Own, FormIsWhose, PageFacts
      <4>2. Target' = Target /\ form.sheet # None
        BY <1>1, <1>2, <1>4, <3>4, <4>1 DEF Target
      <4>3. QED
        BY <1>1, <1>4, <2>2, <3>4, <4>2 DEF FormIsOwn
    <3>5. QED
      BY <1>2, <3>1, <3>2, <3>3, <3>4 DEF FormIsOwn
  <2>3. QED
    BY <2>1, <2>2
<1>5. QED
  BY <1>3, <1>4

LEMMA OwnCallDone ==
  ASSUME TypeOK, Own, NEW p \in Procs, CallDone(p) PROVE Own'
<1>1. PICK o : o = op[p] /\ o \in Ops /\ Shaped(o)
  BY OpIs
<1>2. /\ UNCHANGED <<page, astray>> /\ o.do = "calls" /\ o.row \in Targets
      /\ \A r \in Targets \ {o.row} : server'[r] = server[r]
      /\ server'[o.row].main = server[o.row].main
           \/ (o.kind = "save" /\ server'[o.row].main = o.main)
      /\ server'[o.row].extra = server[o.row].extra
           \/ (o.kind = "save" /\ server'[o.row].extra = o.extra)
      /\ \A q \in Procs \ {p} : op'[q] = op[q]
  BY <1>1, CallDoneDoes
<1>3. /\ \/ /\ op'[p].do \in {"calls", "load"}
            /\ op'[p].kind = o.kind /\ op'[p].row = o.row
         \/ op'[p] = Idle
      /\ op'[p].do = "calls" => /\ op'[p].main = o.main /\ op'[p].extra = o.extra
                                /\ UNCHANGED form
      /\ op'[p].do = "load" => form' = IF o.kind = "save" THEN Succeeded(o) ELSE form
      /\ op'[p].do = "idle" => UNCHANGED form
  BY <1>1, CallDoneDoes
<1>4. UNCHANGED form \/ (o.kind = "save" /\ form' = Succeeded(o))
  BY <1>3, IdleIs
<1>5. FormIsWhose' /\ (FormIsOwn => FormIsOwn')
  <2>1. CASE UNCHANGED form
    <3>1. F' = F /\ Target' = Target
      BY <1>2, <2>1 DEF F, Target
    <3>2. QED
      BY <2>1, <3>1 DEF Own, FormIsWhose, FormIsOwn
  <2>2. CASE o.kind = "save" /\ form' = Succeeded(o)
    <3>1. o.sheet \in F.sheets
      BY <1>1, <1>2, <2>2 DEF Shaped
    <3>2. QED
      BY <1>1, <1>2, <2>2, <3>1, OwnSucceeded
  <2>3. QED
    BY <1>4, <2>1, <2>2
<1>6. Filled' <=> Filled
  BY <1>2 DEF Filled
<1>7. ASSUME ~Filled PROVE FormIsOwn' /\ SentIsOwn' /\ \A r \in Targets : server'[r].main = r /\ server'[r].extra = r
  <2>1. FormIsOwn /\ SentIsOwn /\ \A r \in Targets : server[r].main = r /\ server[r].extra = r
    BY <1>7 DEF Own, OwnData, RowsAreOwn
  <2>2. o.kind = "save" => o.main = o.row /\ o.extra = o.row
    BY <1>1, <1>2, <2>1 DEF SentIsOwn
  <2>3. \A r \in Targets : server'[r].main = r /\ server'[r].extra = r
    BY <1>2, <2>1, <2>2
  <2>4. op'[p].do = "calls" /\ op'[p].kind = "save" =>
          op'[p].main = op'[p].row /\ op'[p].extra = op'[p].row
    BY <1>3, <2>2, IdleIs
  <2>5. SentIsOwn'
    BY <1>2, <2>1, <2>4 DEF SentIsOwn
  <2>6. QED
    BY <1>5, <2>1, <2>3, <2>5
<1>8. QED
  BY <1>5, <1>6, <1>7 DEF Own, OwnData, RowsAreOwn

LEMMA OwnEnds ==
  ASSUME TypeOK, Own, NEW p \in Procs, CallFails(p) \/ LoadServed(p) \/ LoadFails(p) PROVE Own'
<1>1. /\ UNCHANGED <<page, server, form>> /\ op'[p].do # "calls"
      /\ \A q \in Procs \ {p} : op'[q] = op[q]
      /\ astray \subseteq astray'
  <2>1. CASE CallFails(p)
    BY <2>1, CallFailsDoes, IdleIs
  <2>2. CASE LoadServed(p)
    BY <2>2, LoadServedDoes
  <2>3. CASE LoadFails(p)
    BY <2>3, LoadFailsDoes, IdleIs
  <2>4. QED
    BY <2>1, <2>2, <2>3
<1>2. ~Filled' => ~Filled
  BY <1>1 DEF Filled
<1>3. \A q \in Procs : op'[q].do = "calls" /\ op'[q].kind = "save" => op'[q] = op[q]
  BY <1>1
<1>4. QED
  BY <1>1, <1>2, <1>3, OwnStays

LEMMA OwnLoadApplied ==
  ASSUME TypeOK, Own, NEW p \in Procs, LoadApplied(p) PROVE Own'
<1>1. /\ UNCHANGED <<page, server>> /\ op'[p] = Idle
      /\ \A q \in Procs \ {p} : op'[q] = op[q]
      /\ astray \subseteq astray'
      /\ \/ UNCHANGED form
         \/ /\ F.follows /\ form'.sheet = "form" /\ form'.row \in Targets
            /\ ~form'.new /\ form'.main = form'.row /\ form'.extra = form'.row
  BY LoadAppliedDoes
<1>2. ~Filled' => ~Filled
  BY <1>1 DEF Filled
<1>3. \A q \in Procs : op'[q].do = "calls" /\ op'[q].kind = "save" => op'[q] = op[q]
  BY <1>1, IdleIs
<1>4. CASE UNCHANGED form
  BY <1>1, <1>2, <1>3, <1>4, OwnStays
<1>5. CASE /\ F.follows /\ form'.sheet = "form" /\ form'.row \in Targets
           /\ ~form'.new /\ form'.main = form'.row /\ form'.extra = form'.row
  <2>1. F' = F /\ form'.row # None
    BY <1>1, <1>5, ApartIs DEF F
  <2>2. Target' = form'.row
    BY <2>1 DEF Target
  <2>3. FormIsWhose' /\ FormIsOwn'
    BY <1>5, <2>1, <2>2 DEF FormIsWhose, FormIsOwn
  <2>4. SentIsOwn => SentIsOwn'
    BY <1>3 DEF SentIsOwn
  <2>5. QED
    BY <1>1, <1>2, <2>3, <2>4 DEF Own, OwnData, RowsAreOwn
<1>6. QED
  BY <1>1, <1>4, <1>5

------------------------------------------------------------------------------
(* The list: never ahead of the rows, and what it lacks is brought.           *)
Listed == ListIsPast /\ ListIsBrought
Missed == astray \cap {"partial", "unread", "overtaken"} # {}

\* A step that writes neither the rows nor the list, and lets no handler drop what
\* it brings, or records that it does.
LEMMA ListedStays ==
  ASSUME Listed, UNCHANGED <<server, list>>, ~Missed' => ~Missed,
         \A q \in Procs, r \in Targets : op'[q].snap # None => op'[q].snap[r] <= server[r].version,
         ~Missed' => \A q \in Procs, r \in Targets : Brings(q, r) => Brings(q, r)'
  PROVE  Listed'
<1>1. ListIsPast'
  BY DEF Listed, ListIsPast
<1>2. ASSUME ~Missed', NEW r \in Targets
      PROVE  list'[r] = server'[r].version \/ \E q \in Procs : Brings(q, r)'
  <2>1. list[r] = server[r].version \/ \E q \in Procs : Brings(q, r)
    BY <1>2 DEF Listed, ListIsBrought, Missed
  <2>2. QED
    BY <1>2, <2>1
<1>3. ListIsBrought'
  BY <1>2 DEF ListIsBrought, Missed
<1>4. QED
  BY <1>1, <1>3 DEF Listed

\* One handler takes a step from nothing, or to something that brings as much.
LEMMA ListedStep ==
  ASSUME Listed, TypeOK', UNCHANGED <<page, server, list>>, ~Missed' => ~Missed, NEW p \in Procs,
         \A q \in Procs \ {p} : op'[q] = op[q],
         op'[p].do # "load" \/ op'[p].snap = None
           \/ \A r \in Targets : op'[p].snap[r] = server[r].version,
         ~Missed' => \A r \in Targets : Brings(p, r) => Brings(p, r)'
  PROVE  Listed'
<1>1. F' = F
  BY DEF F
<1>2. \A q \in Procs \ {p}, r \in Targets : Brings(q, r) => Brings(q, r)'
  BY <1>1 DEF Brings, Whole
<1>3. ASSUME NEW q \in Procs, NEW r \in Targets, op'[q].snap # None
      PROVE  op'[q].snap[r] <= server[r].version
  <2>1. CASE q # p
    BY <1>3, <2>1 DEF Listed, ListIsPast
  <2>2. CASE q = p
    <3>1. op'[p].snap[r] = server'[r].version /\ server'[r].version \in Nat
      BY <1>3, <2>2 DEF TypeOK, Shaped, Records
    <3>2. QED
      BY <2>2, <3>1
  <2>3. QED
    BY <2>1, <2>2
<1>4. QED
  BY <1>2, <1>3, ListedStays

LEMMA ListedUser ==
  ASSUME TypeOK, Listed, Type \/ Close PROVE Listed'
<1>1. UNCHANGED <<page, server, list, op, astray>>
  BY TypeDoes, CloseDoes
<1>2. F' = F
  BY <1>1 DEF F
<1>3. QED
  BY <1>1, <1>2, ListedStays DEF Missed, Brings, Whole, Listed, ListIsPast

LEMMA ListedOpen ==
  ASSUME TypeOK, Listed, NEW p \in Procs, NEW s \in F.sheets, NEW r \in Targets, Open(p, s, r)
  PROVE  Listed'
<1>1. CASE Way(r) \in F.waits
  <2>1. /\ TypeOK' /\ UNCHANGED <<page, server, list, astray>> /\ op[p] = Idle
        /\ op'[p].do = "open" /\ \A q \in Procs \ {p} : op'[q] = op[q]
    BY <1>1, OpenWaits
  <2>2. QED
    BY <2>1, IdleIs, ListedStep DEF Missed, Brings
<1>2. CASE Way(r) \notin F.waits
  <2>1. UNCHANGED <<page, server, list, op, astray>>
    BY <1>2, OpenShows
  <2>2. F' = F
    BY <2>1 DEF F
  <2>3. QED
    BY <2>1, <2>2, ListedStays DEF Missed, Brings, Whole, Listed, ListIsPast
<1>3. QED
  BY <1>1, <1>2

LEMMA ListedOpenReply ==
  ASSUME TypeOK, Listed, NEW p \in Procs, OpenReply(p) PROVE Listed'
<1>1. /\ TypeOK' /\ UNCHANGED <<page, server, list>> /\ op[p].do = "open" /\ op'[p] = Idle
      /\ \A q \in Procs \ {p} : op'[q] = op[q]
      /\ \/ UNCHANGED <<form, astray>>
         \/ \E data \in {op[p].row, "defaults"} : Opened(p, data)
  BY OpenReplyDoes
<1>2. Missed' <=> Missed
  <2>1. CASE UNCHANGED <<form, astray>>
    BY <2>1 DEF Missed
  <2>2. ASSUME NEW data \in {op[p].row, "defaults"}, Opened(p, data) PROVE Missed' <=> Missed
    <3>1. astray' \cap {"partial", "unread", "overtaken", "lent"}
            = astray \cap {"partial", "unread", "overtaken", "lent"}
      BY <1>1, <2>2, OpenedDoes
    <3>2. QED
      BY <3>1 DEF Missed
  <2>3. QED
    BY <1>1, <2>1, <2>2
<1>3. QED
  BY <1>1, <1>2, IdleIs, ListedStep DEF Brings

LEMMA ListedStarts ==
  ASSUME TypeOK, Listed, NEW p \in Procs,
         (\E s \in F.sheets : Submit(p, s)) \/ (\E k \in F.acts, r \in Rows : Act(p, k, r))
  PROVE  Listed'
<1>1. /\ TypeOK' /\ UNCHANGED <<page, server, list>> /\ op[p] = Idle /\ op'[p].do = "calls"
      /\ \A q \in Procs \ {p} : op'[q] = op[q]
      /\ astray' \in {astray, astray \cup {"lent"}}
  <2>1. CASE \E s \in F.sheets : Submit(p, s)
    <3>1. PICK s \in F.sheets : Submit(p, s)
      BY <2>1
    <3>2. QED
      BY <3>1, SubmitDoes
  <2>2. CASE \E k \in F.acts, r \in Rows : Act(p, k, r)
    <3>1. PICK k \in F.acts, r \in Rows : Act(p, k, r)
      BY <2>2
    <3>2. QED
      BY <3>1, ActDoes
  <2>3. QED
    BY <2>1, <2>2
<1>2. Missed' <=> Missed
  BY <1>1 DEF Missed
<1>3. QED
  BY <1>1, <1>2, IdleIs, ListedStep DEF Brings

LEMMA ListedCallDone ==
  ASSUME TypeOK, Listed, NEW p \in Procs, CallDone(p) PROVE Listed'
<1>1. PICK o : o = op[p]
  OBVIOUS
<1>2. /\ TypeOK' /\ UNCHANGED <<page, list, astray>> /\ o.do = "calls" /\ o.row \in Targets
      /\ \A r \in Targets : server[r].version <= server'[r].version
      /\ \A r \in Targets \ {o.row} : server'[r] = server[r]
      /\ o.kind = "reset" => server'[o.row].version = server[o.row].version
      /\ \A q \in Procs \ {p} : op'[q] = op[q]
  BY <1>1, CallDoneDoes
<1>3. /\ \/ /\ op'[p].do \in {"calls", "load"}
            /\ op'[p].kind = o.kind /\ op'[p].row = o.row /\ op'[p].fresh = o.fresh
         \/ op'[p] = Idle /\ o.kind = "reset" /\ o.todo = Whole(o)
      /\ op'[p].do = "calls" => op'[p].todo # Whole(o)
      /\ op'[p].do = "load" =>
           (op'[p].snap # None => \A r \in Targets : op'[p].snap[r] = server'[r].version)
  BY <1>1, CallDoneDoes
<1>4. F' = F
  BY <1>2 DEF F
<1>5. /\ \A r \in Targets : list[r] \in Nat /\ server[r].version \in Nat /\ server'[r].version \in Nat
      /\ \A q \in Procs, r \in Targets : op[q].snap # None => op[q].snap[r] \in Nat
  BY <1>2, OpIs DEF TypeOK, VersionsOf, Records
<1>6. op'[p].do # "load" => op'[p].snap = None
  BY <1>2 DEF TypeOK, Shaped
<1>7. ListIsPast'
  <2>1. ASSUME NEW r \in Targets PROVE list'[r] <= server'[r].version
    BY <1>2, <1>5, <2>1 DEF Listed, ListIsPast
  <2>2. ASSUME NEW r \in Targets, NEW q \in Procs, op'[q].snap # None
        PROVE  op'[q].snap[r] <= server'[r].version
    <3>1. CASE q = p
      BY <1>3, <1>5, <1>6, <2>2, <3>1
    <3>2. CASE q # p
      <4>1. op'[q] = op[q] /\ op[q].snap[r] <= server[r].version
        BY <1>2, <2>2, <3>2 DEF Listed, ListIsPast
      <4>2. QED
        BY <1>2, <1>5, <2>2, <4>1
    <3>3. QED
      BY <3>1, <3>2
  <2>3. QED
    BY <2>1, <2>2 DEF ListIsPast
<1>8. ASSUME ~Missed', NEW r \in Targets
      PROVE  list'[r] = server'[r].version \/ \E q \in Procs : Brings(q, r)'
  <2>1. list[r] = server[r].version \/ \E q \in Procs : Brings(q, r)
    BY <1>2, <1>8 DEF Listed, ListIsBrought, Missed
  <2>2. CASE server'[r].version = server[r].version /\ ~Brings(p, r)
    <3>1. \A q \in Procs \ {p} : Brings(q, r) => Brings(q, r)'
      BY <1>2, <1>4, <2>2 DEF Brings, Whole
    <3>2. QED
      BY <1>2, <2>1, <2>2, <3>1
  <2>3. CASE r = o.row /\ op'[p].do \in {"calls", "load"}
    <3>1. Whole(op[p])' = Whole(o)
      BY <1>3, <1>4, <2>3, IdleIs DEF Whole
    <3>2. Brings(p, r)'
      BY <1>3, <2>3, <3>1, IdleIs DEF Brings
    <3>3. QED
      BY <3>2
  <2>4. CASE r # o.row
    BY <1>1, <1>2, <2>2, <2>4 DEF Brings
  <2>5. CASE r = o.row /\ op'[p] = Idle /\ o.kind = "reset" /\ o.todo = Whole(o)
    BY <1>1, <1>2, <2>2, <2>5 DEF Brings
  <2>6. QED
    BY <1>3, <2>3, <2>4, <2>5
<1>9. QED
  BY <1>7, <1>8 DEF Listed, ListIsBrought, Missed

LEMMA ListedEnds ==
  ASSUME TypeOK, Listed, NEW p \in Procs, CallFails(p) \/ LoadServed(p) \/ LoadFails(p)
  PROVE  Listed'
<1>1. CASE CallFails(p)
  <2>1. /\ TypeOK' /\ UNCHANGED <<page, server, list>> /\ op[p].do = "calls" /\ op'[p] = Idle
        /\ \A q \in Procs \ {p} : op'[q] = op[q]
        /\ astray \subseteq astray' /\ (op[p].todo # Whole(op[p]) => "partial" \in astray')
    BY <1>1, CallFailsDoes
  <2>2. QED
    BY <2>1, IdleIs, ListedStep DEF Brings, Missed
<1>2. CASE LoadServed(p)
  <2>1. /\ TypeOK' /\ UNCHANGED <<page, server, list, astray>> /\ op'[p].do = "load"
        /\ \A r \in Targets : op'[p].snap[r] = server[r].version
        /\ \A q \in Procs \ {p} : op'[q] = op[q]
    BY <1>2, LoadServedDoes
  <2>2. QED
    BY <2>1, ListedStep DEF Brings, Missed
<1>3. CASE LoadFails(p)
  <2>1. /\ TypeOK' /\ UNCHANGED <<page, server, list>> /\ op'[p] = Idle
        /\ \A q \in Procs \ {p} : op'[q] = op[q]
        /\ astray' = astray \cup {"unread"}
    BY <1>3, LoadFailsDoes
  <2>2. QED
    BY <2>1, IdleIs, ListedStep DEF Missed
<1>4. QED
  BY <1>1, <1>2, <1>3

LEMMA ListedLoadApplied ==
  ASSUME TypeOK, Listed, NEW p \in Procs, LoadApplied(p) PROVE Listed'
<1>1. PICK o : o = op[p]
  OBVIOUS
<1>2. /\ UNCHANGED <<page, server>> /\ o.do = "load" /\ o.snap # None /\ op'[p] = Idle
      /\ list' = o.snap /\ \A q \in Procs \ {p} : op'[q] = op[q]
      /\ astray \subseteq astray'
      /\ "overtaken" \notin astray' => \A r \in Targets : list[r] <= o.snap[r]
  BY <1>1, LoadAppliedDoes
<1>3. F' = F
  BY <1>2 DEF F
<1>4. \A r \in Targets : /\ list[r] \in Nat /\ server[r].version \in Nat /\ o.snap[r] \in Nat
                         /\ o.snap[r] <= server[r].version
  BY <1>1, <1>2, OpIs DEF TypeOK, VersionsOf, Records, Listed, ListIsPast
<1>5. ListIsPast'
  BY <1>2, <1>4, IdleIs DEF Listed, ListIsPast
<1>6. ASSUME ~Missed', NEW r \in Targets
      PROVE  list'[r] = server'[r].version \/ \E q \in Procs : Brings(q, r)'
  <2>1. list[r] <= o.snap[r] /\ ~Missed
    BY <1>2, <1>6 DEF Missed
  <2>2. list[r] = server[r].version \/ \E q \in Procs : Brings(q, r)
    BY <2>1 DEF Listed, ListIsBrought, Missed
  <2>3. CASE list[r] = server[r].version
    BY <1>2, <1>4, <2>1, <2>3
  <2>4. CASE Brings(p, r)
    BY <1>1, <1>2, <2>4 DEF Brings
  <2>5. ASSUME NEW q \in Procs \ {p}, Brings(q, r) PROVE Brings(q, r)'
    BY <1>2, <1>3, <2>5 DEF Brings, Whole
  <2>6. QED
    BY <2>2, <2>3, <2>4, <2>5
<1>7. QED
  BY <1>5, <1>6 DEF Listed, ListIsBrought, Missed

------------------------------------------------------------------------------
(* The marks: set by the handler that starts, cleared by the one that ends.   *)
Marked == SavingIsMarked /\ DialogIsRemoval /\ RowIsMarked

LEMMA MarkingIs ==
  ASSUME TypeOK, NEW p \in Procs
  PROVE  /\ Marking(op[p]) => op[p].row \in Targets /\ op[p].row # None
         /\ op[p] = Idle => ~Marking(op[p]) /\ op[p].kind = "none"
         /\ op[p].do = "open" => ~Marking(op[p]) /\ op[p].kind = "none"
<1>1. PageFacts(F) /\ Shaped(op[p]) /\ op[p] \in Ops
  BY FIs, OpIs
<1>2. op[p] = Idle => ~Marking(op[p]) /\ op[p].kind = "none"
  BY <1>1, IdleIs, ApartIs DEF Marking, PageFacts
<1>3. op[p].do = "open" => ~Marking(op[p]) /\ op[p].kind = "none"
  BY <1>1 DEF Marking, Shaped
<1>4. op[p].do \in {"idle", "open", "calls", "load"}
  BY <1>1 DEF Ops
<1>5. QED
  BY <1>1, <1>2, <1>3, <1>4, ApartIs DEF Shaped

\* A step of a handler that goes on, or that leaves no mark.
LEMMA MarkedStays ==
  ASSUME Marked, UNCHANGED <<page, busy>>, "lent" \in astray => "lent" \in astray',
         \A q \in Procs :
           \/ /\ op'[q].kind = op[q].kind /\ op'[q].sheet = op[q].sheet /\ op'[q].row = op[q].row
              /\ op'[q].do = "open" <=> op[q].do = "open"
           \/ op'[q].kind = "none" /\ op[q].kind = "none" /\ ~Marking(op[q]) /\ ~Marking(op[q])'
  PROVE  Marked'
<1>1. F' = F
  BY DEF F
<1>2. \A q \in Procs : /\ op'[q].kind = op[q].kind
                       /\ op'[q].kind # "none" => op'[q].sheet = op[q].sheet
                       /\ Marking(op[q])' <=> Marking(op[q])
                       /\ Marking(op[q]) => op'[q].row = op[q].row
  BY <1>1 DEF Marking
<1>3. SavingIsMarked'
  <2>1. \A s \in F.flags : SavesOf(s)' = SavesOf(s)
    BY <1>2 DEF SavesOf
  <2>2. QED
    BY <1>1, <2>1 DEF Marked, SavingIsMarked
<1>4. DialogIsRemoval'
  BY <1>2 DEF Marked, DialogIsRemoval
<1>5. RowIsMarked'
  BY <1>2 DEF Marked, RowIsMarked
<1>6. QED
  BY <1>3, <1>4, <1>5 DEF Marked

LEMMA MarkedStarts ==
  ASSUME TypeOK, TypeOK', Marked, UNCHANGED page, astray \subseteq astray', NEW p \in Procs,
         op[p] = Idle, op'[p].do = "calls", \A q \in Procs \ {p} : op'[q] = op[q],
         op'[p].kind = "save" /\ op'[p].sheet \in F.flags => op'[p].sheet \notin busy.saving,
         op'[p].kind = "remove" => ~busy.dialog,
         Marking(op[p])' /\ "lent" \notin astray' => busy.row = None,
         busy'.saving = IF op'[p].kind = "save" /\ op'[p].sheet \in F.flags
                        THEN busy.saving \cup {op'[p].sheet} ELSE busy.saving,
         busy'.row = IF Marking(op[p])' THEN op'[p].row ELSE busy.row,
         busy'.dialog <=> busy.dialog \/ op'[p].kind = "remove"
  PROVE  Marked'
<1>1. F' = F
  BY DEF F
<1>2. op[p].kind = "none" /\ ~Marking(op[p])
  BY MarkingIs
<1>3. \A q \in Procs \ {p} : Marking(op[q])' <=> Marking(op[q])
  BY <1>1 DEF Marking
<1>4. ASSUME NEW s \in F.flags
      PROVE  /\ s \in busy'.saving <=> SavesOf(s)' # {}
             /\ \A q, r \in SavesOf(s)' : q = r
  <2>1. /\ s \in busy.saving <=> SavesOf(s) # {}
        /\ \A q, r \in SavesOf(s) : q = r
    BY DEF Marked, SavingIsMarked
  <2>2. CASE op'[p].kind = "save" /\ op'[p].sheet = s
    <3>1. SavesOf(s) = {} /\ s \in busy'.saving
      BY <1>4, <2>1, <2>2
    <3>2. SavesOf(s)' = {p}
      BY <2>2, <3>1 DEF SavesOf
    <3>3. QED
      BY <3>1, <3>2
  <2>3. CASE ~(op'[p].kind = "save" /\ op'[p].sheet = s)
    <3>1. SavesOf(s)' = SavesOf(s)
      BY <1>2, <2>3 DEF SavesOf
    <3>2. s \in busy'.saving <=> s \in busy.saving
      BY <2>3
    <3>3. QED
      BY <2>1, <3>1, <3>2
  <2>4. QED
    BY <2>2, <2>3
<1>5. DialogIsRemoval'
  BY <1>2 DEF Marked, DialogIsRemoval
<1>6. RowIsMarked'
  <2>1. busy'.row # None => \E q \in Procs : Marking(op[q])' /\ op'[q].row = busy'.row
    <3>1. CASE Marking(op[p])'
      BY <3>1
    <3>2. CASE ~Marking(op[p])'
      BY <1>2, <1>3, <3>2 DEF Marked, RowIsMarked
    <3>3. QED
      BY <3>1, <3>2
  <2>2. ASSUME "lent" \notin astray', NEW q \in Procs, Marking(op[q])'
        PROVE  busy'.row = op'[q].row /\ \A r \in Procs : Marking(op[r])' => q = r
    <3>1. \A r \in Procs : Marking(op[r]) =>
            busy.row = op[r].row /\ \A t \in Procs : Marking(op[t]) => r = t
      BY <2>2 DEF Marked, RowIsMarked
    <3>2. CASE Marking(op[p])'
      <4>1. \A r \in Procs : ~Marking(op[r])
        BY <2>2, <3>1, <3>2, MarkingIs
      <4>2. QED
        BY <1>3, <2>2, <3>2, <4>1
    <3>3. CASE ~Marking(op[p])'
      BY <1>3, <2>2, <3>1, <3>3
    <3>4. QED
      BY <3>2, <3>3
  <2>3. QED
    BY <2>1, <2>2 DEF RowIsMarked
<1>7. QED
  BY <1>1, <1>4, <1>5, <1>6 DEF Marked, SavingIsMarked

LEMMA MarkedEnds ==
  ASSUME TypeOK, TypeOK', Marked, UNCHANGED page, astray \subseteq astray', NEW p \in Procs,
         op[p].do \in {"calls", "load"}, op'[p] = Idle, \A q \in Procs \ {p} : op'[q] = op[q],
         Finally(op[p])
  PROVE  Marked'
<1>1. F' = F
  BY DEF F
<1>2. op'[p].kind = "none" /\ ~Marking(op[p])'
  BY MarkingIs, IdleIs, FIs, <1>1, ApartIs DEF Marking, PageFacts
<1>3. \A q \in Procs \ {p} : Marking(op[q])' <=> Marking(op[q])
  BY <1>1 DEF Marking
<1>4. /\ busy'.saving = IF op[p].kind = "save" THEN busy.saving \ {op[p].sheet} ELSE busy.saving
      /\ busy'.row = IF Marking(op[p]) THEN None ELSE busy.row
      /\ busy'.dialog <=> busy.dialog /\ op[p].kind # "remove"
  BY FinallyDoes DEF Marking
<1>5. ASSUME NEW s \in F.flags
      PROVE  /\ s \in busy'.saving <=> SavesOf(s)' # {}
             /\ \A q, r \in SavesOf(s)' : q = r
  <2>1. /\ s \in busy.saving <=> SavesOf(s) # {}
        /\ \A q, r \in SavesOf(s) : q = r
    BY DEF Marked, SavingIsMarked
  <2>2. CASE op[p].kind = "save" /\ op[p].sheet = s
    <3>1. p \in SavesOf(s) /\ s \notin busy'.saving
      BY <1>4, <2>2 DEF SavesOf
    <3>2. \A q \in SavesOf(s)' : q \in SavesOf(s) /\ q # p
      BY <1>2 DEF SavesOf
    <3>3. SavesOf(s)' = {}
      BY <2>1, <3>1, <3>2
    <3>4. QED
      BY <3>1, <3>3
  <2>3. CASE ~(op[p].kind = "save" /\ op[p].sheet = s)
    <3>1. SavesOf(s)' = SavesOf(s)
      BY <1>2, <2>3 DEF SavesOf
    <3>2. s \in busy'.saving <=> s \in busy.saving
      BY <1>4, <2>3
    <3>3. QED
      BY <2>1, <3>1, <3>2
  <2>4. QED
    BY <2>2, <2>3
<1>6. DialogIsRemoval'
  <2>1. /\ busy.dialog <=> \E q \in Procs : op[q].kind = "remove"
        /\ \A q, r \in Procs : op[q].kind = "remove" /\ op[r].kind = "remove" => q = r
    BY DEF Marked, DialogIsRemoval
  <2>2. \A q \in Procs : op'[q].kind = "remove" <=> q # p /\ op[q].kind = "remove"
    BY <1>2
  <2>3. QED
    BY <1>4, <2>1, <2>2 DEF DialogIsRemoval
<1>7. RowIsMarked'
  <2>1. busy'.row # None => \E q \in Procs : Marking(op[q])' /\ op'[q].row = busy'.row
    BY <1>2, <1>3, <1>4 DEF Marked, RowIsMarked
  <2>2. ASSUME "lent" \notin astray', NEW q \in Procs, Marking(op[q])'
        PROVE  busy'.row = op'[q].row /\ \A r \in Procs : Marking(op[r])' => q = r
    <3>1. q # p /\ Marking(op[q])
      BY <1>2, <1>3, <2>2
    <3>2. busy.row = op[q].row /\ \A r \in Procs : Marking(op[r]) => q = r
      BY <2>2, <3>1 DEF Marked, RowIsMarked
    <3>3. QED
      BY <1>2, <1>3, <1>4, <3>1, <3>2
  <2>3. QED
    BY <2>1, <2>2 DEF RowIsMarked
<1>8. QED
  BY <1>1, <1>5, <1>6, <1>7 DEF Marked, SavingIsMarked

LEMMA MarkedUser ==
  ASSUME TypeOK, Marked, Type \/ Close PROVE Marked'
<1>1. UNCHANGED <<page, busy, op, astray>>
  BY TypeDoes, CloseDoes
<1>2. QED
  BY <1>1, MarkedStays

LEMMA MarkedOpen ==
  ASSUME TypeOK, Marked, NEW p \in Procs, NEW s \in F.sheets, NEW r \in Targets, Open(p, s, r)
  PROVE  Marked'
<1>1. CASE Way(r) \in F.waits
  <2>1. /\ TypeOK' /\ UNCHANGED <<page, busy, astray>> /\ op[p] = Idle /\ op'[p].do = "open"
        /\ op'[p].kind = "none" /\ \A q \in Procs \ {p} : op'[q] = op[q]
    BY <1>1, OpenWaits
  <2>2. op[p].kind = "none" /\ ~Marking(op[p]) /\ ~Marking(op[p])'
    BY <2>1, MarkingIs DEF Marking
  <2>3. QED
    BY <2>1, <2>2, MarkedStays
<1>2. CASE Way(r) \notin F.waits
  <2>1. UNCHANGED <<page, busy, op, astray>>
    BY <1>2, OpenShows
  <2>2. QED
    BY <2>1, MarkedStays
<1>3. QED
  BY <1>1, <1>2

LEMMA MarkedOpenReply ==
  ASSUME TypeOK, Marked, NEW p \in Procs, OpenReply(p) PROVE Marked'
<1>1. /\ TypeOK' /\ UNCHANGED <<page, busy>> /\ op[p].do = "open" /\ op[p].kind = "none"
      /\ op'[p] = Idle /\ \A q \in Procs \ {p} : op'[q] = op[q]
      /\ \/ UNCHANGED <<form, astray>>
         \/ \E data \in {op[p].row, "defaults"} : Opened(p, data)
  BY OpenReplyDoes
<1>2. "lent" \in astray => "lent" \in astray'
  BY <1>1, OpenedDoes
<1>3. ~Marking(op[p]) /\ ~Marking(op[p])' /\ op'[p].kind = "none"
  BY <1>1, MarkingIs, IdleIs, FIs, ApartIs DEF Marking, PageFacts, F
<1>4. QED
  BY <1>1, <1>2, <1>3, MarkedStays

LEMMA MarkedSubmit ==
  ASSUME TypeOK, Marked, NEW p \in Procs, NEW s \in F.sheets, Submit(p, s) PROVE Marked'
<1>1. /\ TypeOK' /\ UNCHANGED page /\ op[p] = Idle
      /\ op'[p].do = "calls" /\ op'[p].kind = "save" /\ op'[p].row = Target /\ op'[p].sheet = s
      /\ \A q \in Procs \ {p} : op'[q] = op[q]
      /\ s \in F.flags => s \notin busy.saving
      /\ busy'.saving = IF s \in F.flags THEN busy.saving \cup {s} ELSE busy.saving
      /\ busy'.row = IF s \in F.rowFlags THEN Target ELSE busy.row
      /\ busy'.dialog = busy.dialog
      /\ astray \subseteq astray'
      /\ s \in F.rowFlags /\ "lent" \notin astray' => busy.row = None
  BY SubmitDoes
<1>2. Marking(op[p])' <=> s \in F.rowFlags
  BY <1>1 DEF Marking, F
<1>3. QED
  BY <1>1, <1>2, MarkedStarts

LEMMA MarkedAct ==
  ASSUME TypeOK, Marked, NEW p \in Procs, NEW k \in F.acts, NEW r \in Rows, Act(p, k, r)
  PROVE  Marked'
<1>1. /\ TypeOK' /\ UNCHANGED page /\ op[p] = Idle /\ k \in ActKinds
      /\ op'[p].do = "calls" /\ op'[p].kind = k /\ op'[p].row = r /\ op'[p].sheet = None
      /\ \A q \in Procs \ {p} : op'[q] = op[q]
      /\ k = "remove" => ~busy.dialog
      /\ busy'.saving = busy.saving
      /\ busy'.row = IF k \in {"run", "reset"} THEN r ELSE busy.row
      /\ busy'.dialog <=> busy.dialog \/ k = "remove"
      /\ astray \subseteq astray'
      /\ k \in {"run", "reset"} /\ "lent" \notin astray' => busy.row = None
  BY ActDoes
<1>2. k # "save" /\ None \notin F.rowFlags
  BY <1>1, FIs, ApartIs DEF ActKinds, PageFacts
<1>3. Marking(op[p])' <=> k \in {"run", "reset"}
  BY <1>1, <1>2 DEF Marking, F
<1>4. QED
  BY <1>1, <1>2, <1>3, MarkedStarts

LEMMA MarkedCallDone ==
  ASSUME TypeOK, Marked, NEW p \in Procs, CallDone(p) PROVE Marked'
<1>1. /\ TypeOK' /\ UNCHANGED <<page, astray>> /\ op[p].do = "calls"
      /\ \A q \in Procs \ {p} : op'[q] = op[q]
      /\ \/ /\ op'[p].do \in {"calls", "load"} /\ UNCHANGED busy
            /\ op'[p].kind = op[p].kind /\ op'[p].row = op[p].row /\ op'[p].sheet = op[p].sheet
         \/ op'[p] = Idle /\ Finally(op[p])
  BY CallDoneDoes
<1>2. CASE /\ op'[p].do \in {"calls", "load"} /\ UNCHANGED busy
           /\ op'[p].kind = op[p].kind /\ op'[p].row = op[p].row /\ op'[p].sheet = op[p].sheet
  <2>1. \A q \in Procs : /\ op'[q].kind = op[q].kind /\ op'[q].sheet = op[q].sheet
                         /\ op'[q].row = op[q].row
                         /\ op'[q].do = "open" <=> op[q].do = "open"
    BY <1>1, <1>2
  <2>2. QED
    BY <1>1, <1>2, <2>1, MarkedStays
<1>3. CASE op'[p] = Idle /\ Finally(op[p])
  BY <1>1, <1>3, MarkedEnds
<1>4. QED
  BY <1>1, <1>2, <1>3

LEMMA MarkedLoads ==
  ASSUME TypeOK, Marked, NEW p \in Procs,
         CallFails(p) \/ LoadServed(p) \/ LoadApplied(p) \/ LoadFails(p)
  PROVE  Marked'
<1>1. CASE CallFails(p)
  <2>1. /\ TypeOK' /\ UNCHANGED page /\ op[p].do = "calls" /\ op'[p] = Idle /\ Finally(op[p])
        /\ \A q \in Procs \ {p} : op'[q] = op[q]
        /\ astray \subseteq astray'
    BY <1>1, CallFailsDoes
  <2>2. QED
    BY <2>1, MarkedEnds
<1>2. CASE LoadServed(p)
  <2>1. /\ UNCHANGED <<page, busy, astray>> /\ op[p].do = "load" /\ op'[p].do = "load"
        /\ op'[p].kind = op[p].kind /\ op'[p].row = op[p].row /\ op'[p].sheet = op[p].sheet
        /\ \A q \in Procs \ {p} : op'[q] = op[q]
    BY <1>2, LoadServedDoes
  <2>2. \A q \in Procs : /\ op'[q].kind = op[q].kind /\ op'[q].sheet = op[q].sheet
                         /\ op'[q].row = op[q].row
                         /\ op'[q].do = "open" <=> op[q].do = "open"
    BY <2>1
  <2>3. QED
    BY <2>1, <2>2, MarkedStays
<1>3. CASE LoadApplied(p)
  <2>1. /\ TypeOK' /\ UNCHANGED page /\ op[p].do = "load" /\ op'[p] = Idle /\ Finally(op[p])
        /\ \A q \in Procs \ {p} : op'[q] = op[q]
        /\ astray \subseteq astray'
    BY <1>3, LoadAppliedDoes
  <2>2. QED
    BY <2>1, MarkedEnds
<1>4. CASE LoadFails(p)
  <2>1. /\ TypeOK' /\ UNCHANGED page /\ op[p].do = "load" /\ op'[p] = Idle /\ Finally(op[p])
        /\ \A q \in Procs \ {p} : op'[q] = op[q]
        /\ astray \subseteq astray'
    BY <1>4, LoadFailsDoes
  <2>2. QED
    BY <2>1, MarkedEnds
<1>5. QED
  BY <1>1, <1>2, <1>3, <1>4

------------------------------------------------------------------------------
(* The sheet: nobody else's while it is open.                                 *)

\* A step that leaves the form, and starts neither an opening nor a save.
LEMMA AloneStays ==
  ASSUME SheetIsAlone, UNCHANGED <<page, form>>,
         \A q \in Procs :
           \/ op'[q].do \in {"idle", "load"}
           \/ op'[q].do = "calls" /\ op'[q].kind # "save"
           \/ /\ op'[q].do = op[q].do /\ op'[q].kind = op[q].kind /\ op'[q].sheet = op[q].sheet
              /\ op'[q].row = op[q].row /\ op'[q].fresh = op[q].fresh
  PROVE  SheetIsAlone'
<1>1. F' = F /\ Target' = Target
  BY DEF F, Target
<1>2. QED
  BY <1>1 DEF SheetIsAlone

LEMMA AloneUser ==
  ASSUME TypeOK, SheetIsAlone, Type \/ Close PROVE SheetIsAlone'
<1>1. CASE Type
  <2>1. /\ UNCHANGED <<page, op>>
        /\ form'.sheet = form.sheet /\ form'.row = form.row
        /\ form'.new = form.new /\ form'.amid = form.amid
    BY <1>1, TypeDoes
  <2>2. F' = F /\ Target' = Target
    BY <2>1 DEF F, Target
  <2>3. QED
    BY <2>1, <2>2 DEF SheetIsAlone
<1>2. CASE Close
  <2>1. UNCHANGED page /\ ~F.start /\ form'.sheet = None
    BY <1>2, CloseDoes
  <2>2. F' = F /\ ~F.follows
    BY <2>1, FIs DEF F, PageFacts
  <2>3. QED
    BY <2>1, <2>2 DEF SheetIsAlone
<1>3. QED
  BY <1>1, <1>2

LEMMA AloneOpen ==
  ASSUME TypeOK, SheetIsAlone, NEW p \in Procs, NEW s \in F.sheets, NEW r \in Targets, Open(p, s, r)
  PROVE  SheetIsAlone'
<1>1. CASE Way(r) \in F.waits
  <2>1. UNCHANGED page /\ form'.sheet = None /\ F.waits # {}
    BY <1>1, OpenWaits
  <2>2. F' = F /\ ~F.follows
    BY <2>1, FIs DEF F, PageFacts
  <2>3. QED
    BY <2>1, <2>2 DEF SheetIsAlone
<1>2. CASE Way(r) \notin F.waits
  <2>1. /\ UNCHANGED <<page, op>> /\ op[p] = Idle /\ form'.sheet = s /\ form'.amid = Others(p)
    BY <1>2, OpenShows
  <2>2. s # None
    BY FIs, ApartIs DEF PageFacts
  <2>3. ~form'.amid => \A q \in Procs : op'[q] = Idle
    BY <2>1 DEF Others
  <2>4. QED
    BY <2>1, <2>2, <2>3, IdleIs DEF SheetIsAlone
<1>3. QED
  BY <1>1, <1>2

LEMMA AloneOpenReply ==
  ASSUME TypeOK, SheetIsAlone, NEW p \in Procs, OpenReply(p) PROVE SheetIsAlone'
<1>1. /\ UNCHANGED page /\ op[p].do = "open" /\ op'[p] = Idle
      /\ \A q \in Procs \ {p} : op'[q] = op[q]
      /\ \/ UNCHANGED form
         \/ \E data \in {op[p].row, "defaults"} : Opened(p, data)
  BY OpenReplyDoes
<1>2. CASE UNCHANGED form
  BY <1>1, <1>2, IdleIs, AloneStays
<1>3. ASSUME NEW data \in {op[p].row, "defaults"}, Opened(p, data) PROVE SheetIsAlone'
  <2>1. form'.sheet \in F.sheets /\ (Others(p) => form'.amid)
    BY <1>1, <1>3, OpenedDoes
  <2>2. form'.sheet # None
    BY <2>1, FIs, ApartIs DEF PageFacts
  <2>3. ~form'.amid => \A q \in Procs : op'[q] = Idle
    BY <1>1, <2>1 DEF Others
  <2>4. QED
    BY <2>2, <2>3, IdleIs DEF SheetIsAlone
<1>4. QED
  BY <1>1, <1>2, <1>3

LEMMA AloneSubmit ==
  ASSUME TypeOK, SheetIsAlone, NEW p \in Procs, NEW s \in F.sheets, Submit(p, s) PROVE SheetIsAlone'
<1>1. /\ UNCHANGED <<page, form>> /\ Shown(s) /\ op'[p].do = "calls" /\ op'[p].row = Target
      /\ op'[p].sheet = s /\ (op'[p].fresh <=> form.row = None)
      /\ \A q \in Procs \ {p} : op'[q] = op[q]
  BY SubmitDoes
<1>2. F' = F /\ Target' = Target /\ (F.sections => ~F.follows) /\ s # None
  BY <1>1, FIs, ApartIs DEF F, Target, PageFacts
<1>3. F.sections \/ form.sheet = s
  BY <1>1 DEF Shown
<1>4. QED
  BY <1>1, <1>2, <1>3 DEF SheetIsAlone

LEMMA AloneAct ==
  ASSUME TypeOK, SheetIsAlone, NEW p \in Procs, NEW k \in F.acts, NEW r \in Rows, Act(p, k, r)
  PROVE  SheetIsAlone'
<1>1. /\ UNCHANGED <<page, form>> /\ k \in ActKinds /\ op'[p].do = "calls" /\ op'[p].kind = k
      /\ \A q \in Procs \ {p} : op'[q] = op[q]
  BY ActDoes
<1>2. QED
  BY <1>1, AloneStays DEF ActKinds

\* A save that succeeds forgets the row of another sheet only when the sheets
\* share it, and then the sheet was not alone.
LEMMA AloneCallDone ==
  ASSUME TypeOK, SavingIsMarked, SheetIsAlone, NEW p \in Procs, CallDone(p) PROVE SheetIsAlone'
<1>1. PICK o : o = op[p] /\ o \in Ops /\ Shaped(o)
  BY OpIs
<1>2. /\ UNCHANGED page /\ o.do = "calls" /\ \A q \in Procs \ {p} : op'[q] = op[q]
      /\ \/ /\ op'[p].do \in {"calls", "load"}
            /\ op'[p].kind = o.kind /\ op'[p].row = o.row /\ op'[p].sheet = o.sheet
            /\ op'[p].fresh = o.fresh
         \/ op'[p] = Idle
      /\ op'[p].do = "calls" => UNCHANGED form
      /\ op'[p].do = "load" => form' = IF o.kind = "save" THEN Succeeded(o) ELSE form
      /\ op'[p].do = "idle" => UNCHANGED form
  BY <1>1, CallDoneDoes
<1>3. CASE UNCHANGED form
  <2>1. op'[p].do \in {"idle", "load"} \/ /\ op'[p].do = o.do /\ op'[p].kind = o.kind
                                          /\ op'[p].sheet = o.sheet /\ op'[p].row = o.row
                                          /\ op'[p].fresh = o.fresh
    BY <1>2, IdleIs
  <2>2. QED
    BY <1>1, <1>2, <1>3, <2>1, AloneStays
<1>4. CASE o.kind = "save" /\ form' = Succeeded(o) /\ op'[p].do = "load"
  <2>1. F' = F /\ PageFacts(F) /\ o.sheet \in F.sheets
    BY <1>1, <1>2, <1>4, FIs DEF F, Shaped
  <2>2. /\ form'.amid = form.amid /\ form'.sheet \in {form.sheet, None}
        /\ F.closes /\ form.sheet = o.sheet => form'.sheet = None
        /\ ~(F.follows /\ o.fresh) =>
              /\ form'.new = form.new
              /\ form'.row # form.row /\ form'.sheet # None => F.shared /\ F.clears
              /\ ~F.closes => form'.sheet = form.sheet
        /\ F.follows /\ o.fresh => form'.sheet = None
    BY <1>1, <1>4, <2>1, SucceededIs
  <2>3. ASSUME form'.sheet # None, ~form'.amid, NEW q \in Procs
        PROVE  /\ op'[q].do # "open"
               /\ op'[q].do = "calls" /\ op'[q].kind = "save" /\ ~F.sections /\ (F.follows => op'[q].fresh)
                    => /\ op'[q].sheet = form'.sheet /\ op'[q].row = Target'
                       /\ op'[q].fresh => form'.row = None
    <3>1. form.sheet = form'.sheet /\ form.sheet # None /\ ~form.amid /\ ~(F.follows /\ o.fresh)
      BY <2>2, <2>3
    <3>2. form'.row = form.row
      <4>1. SUFFICES ASSUME form'.row # form.row PROVE FALSE
        OBVIOUS
      <4>2. F.closes /\ ~F.sections /\ ~F.follows
        BY <2>1, <2>2, <2>3, <3>1, <4>1 DEF PageFacts
      <4>3. o.sheet = form.sheet
        BY <1>1, <1>2, <1>4, <3>1, <4>2 DEF SheetIsAlone
      <4>4. QED
        BY <2>2, <2>3, <4>2, <4>3
    <3>3. Target' = Target
      BY <2>1, <2>2, <3>1, <3>2 DEF Target
    <3>4. CASE q = p
      BY <1>4, <3>4
    <3>5. CASE q # p
      BY <1>2, <2>1, <3>1, <3>2, <3>3, <3>5 DEF SheetIsAlone
    <3>6. QED
      BY <3>4, <3>5
  <2>4. ASSUME F.follows, form'.sheet = None, NEW q \in Procs
        PROVE  ~(op'[q].do = "calls" /\ op'[q].kind = "save")
    <3>1. F.sheets = {"form"} /\ F.flags = {"form"}
      BY <2>1, <2>4 DEF PageFacts
    <3>2. q # p => op[q].kind # "save"
      <4>1. SUFFICES ASSUME q # p, op[q].kind = "save" PROVE FALSE
        OBVIOUS
      <4>2. op[q].do = op'[q].do /\ Shaped(op[q]) /\ op[q] \in Ops
        BY <1>2, <4>1, OpIs
      <4>3. op[q].do \in {"calls", "load"}
        BY <4>1, <4>2, IdleIs DEF Shaped, Ops
      <4>4. op[q].sheet = "form" /\ o.sheet = "form"
        BY <2>1, <3>1, <4>1, <4>2, <4>3 DEF Shaped
      <4>5. p \in SavesOf("form") /\ q \in SavesOf("form")
        BY <1>1, <1>4, <4>1, <4>4 DEF SavesOf
      <4>6. QED
        BY <3>1, <4>1, <4>5 DEF SavingIsMarked
    <3>3. QED
      BY <1>2, <1>4, <3>2
  <2>5. QED
    BY <2>1, <2>3, <2>4 DEF SheetIsAlone
<1>5. QED
  BY <1>2, <1>3, <1>4, IdleIs

LEMMA AloneEnds ==
  ASSUME TypeOK, SheetIsAlone, NEW p \in Procs, CallFails(p) \/ LoadServed(p) \/ LoadFails(p)
  PROVE  SheetIsAlone'
<1>1. /\ UNCHANGED <<page, form>> /\ op'[p].do \in {"idle", "load"}
      /\ \A q \in Procs \ {p} : op'[q] = op[q]
  <2>1. CASE CallFails(p)
    BY <2>1, CallFailsDoes, IdleIs
  <2>2. CASE LoadServed(p)
    BY <2>2, LoadServedDoes
  <2>3. CASE LoadFails(p)
    BY <2>3, LoadFailsDoes, IdleIs
  <2>4. QED
    BY <2>1, <2>2, <2>3
<1>2. QED
  BY <1>1, AloneStays

\* A reload that shows a row finds no department being created: that would have no row.
LEMMA AloneLoadApplied ==
  ASSUME TypeOK, SheetIsAlone, NEW p \in Procs, LoadApplied(p) PROVE SheetIsAlone'
<1>1. /\ UNCHANGED page /\ op'[p] = Idle /\ \A q \in Procs \ {p} : op'[q] = op[q]
      /\ \/ UNCHANGED form
         \/ /\ F.follows /\ form.row # None /\ form'.sheet = "form" /\ form'.amid = form.amid
  BY LoadAppliedDoes
<1>2. CASE UNCHANGED form
  BY <1>1, <1>2, IdleIs, AloneStays
<1>3. CASE F.follows /\ form.row # None /\ form'.sheet = "form" /\ form'.amid = form.amid
  <2>1. F' = F /\ form'.sheet # None /\ F.waits = {}
    BY <1>1, <1>3, FIs, ApartIs DEF F, PageFacts, Sheets
  <2>2. \A q \in Procs : op[q].do # "open"
    BY <2>1, OpIs DEF Shaped
  <2>3. ASSUME ~form.amid, NEW q \in Procs, op[q].do = "calls", op[q].kind = "save", op[q].fresh,
               ~F.sections
        PROVE  FALSE
    BY <1>3, <2>3 DEF SheetIsAlone
  <2>4. QED
    BY <1>1, <1>3, <2>1, <2>2, <2>3, IdleIs DEF SheetIsAlone
<1>4. QED
  BY <1>1, <1>2, <1>3

------------------------------------------------------------------------------
(* The invariant holds at first, and every step keeps it.                     *)
LEMMA InitInv == ASSUME Init PROVE Inv
<1>1. page \in DOMAIN Facts /\ PageFacts(F)
  BY PagesAre DEF Init, F
<1>2. op = [p \in Procs |-> Idle] /\ \A p \in Procs : op[p] = Idle
  BY DEF Init
<1>3. /\ server \in [Targets -> Records] /\ list \in VersionsOf
      /\ \A r \in Targets : /\ server[r].version = 0 /\ server[r].main = r /\ server[r].extra = r
                            /\ list[r] = 0
  BY DEF Init, Records, VersionsOf
<1>4. /\ form \in Forms /\ form.sheet \in F.sheets \cup {None} /\ form.new = FALSE
      /\ F.start => form.sheet # None
      /\ \/ form.row = None /\ form.sheet = None
         \/ form.row \in Rows /\ form.main = form.row /\ form.extra = form.row /\ F.start
  <2>1. CASE F.start
    <3>1. PICK s, r : s = (CHOOSE x \in F.sheets : TRUE) /\ r = (CHOOSE x \in Rows : TRUE)
      OBVIOUS
    <3>2. s \in F.sheets /\ r \in Rows
      BY <1>1, <2>1, <3>1, RowsExist DEF PageFacts
    <3>3. form = FormOf(s, r, FALSE)
      BY <2>1, <3>1 DEF Init
    <3>4. s \in MaybeSheet /\ r \in Targets /\ s # None
      BY <1>1, <3>2, ApartIs DEF PageFacts, MaybeSheet, Targets
    <3>5. /\ form \in Forms /\ form.sheet = s /\ form.row = r /\ form.new = FALSE
          /\ form.main = r /\ form.extra = r
      BY <3>3, <3>4 DEF FormOf, Forms, MaybeRow
    <3>6. QED
      BY <2>1, <3>2, <3>4, <3>5
  <2>2. CASE ~F.start
    <3>1. form = NoForm
      BY <2>2 DEF Init
    <3>2. form \in Forms /\ form.sheet = None /\ form.row = None /\ form.new = FALSE
      BY <3>1 DEF NoForm, Forms, MaybeSheet, MaybeRow
    <3>3. QED
      BY <2>2, <3>2
  <2>3. QED
    BY <2>1, <2>2
<1>5. busy \in Marks /\ busy.saving = {} /\ busy.row = None /\ busy.dialog = FALSE
  BY DEF Init, Marks, MaybeRow
<1>6. astray = {} /\ left \in [acts : Nat, fails : Nat]
  BY BoundsAreNat DEF Init
<1>7. TypeOK
  BY <1>1, <1>2, <1>3, <1>4, <1>5, <1>6, IdleIs DEF TypeOK, Shaped
<1>8. FormIsWhose /\ FormIsOwn /\ SentIsOwn /\ RowsAreOwn
  <2>1. Target \in {None, New} \/ Target = form.row
    BY DEF Target
  <2>2. form.row \in Rows => Target = form.row
    BY NamesDiffer DEF Target
  <2>3. FormIsWhose /\ FormIsOwn
    BY <1>4, <2>2, NamesDiffer DEF FormIsWhose, FormIsOwn
  <2>4. SentIsOwn
    BY <1>2, IdleIs DEF SentIsOwn
  <2>5. QED
    BY <1>3, <2>3, <2>4 DEF RowsAreOwn
<1>9. ListIsPast /\ ListIsBrought
  BY <1>2, <1>3, IdleIs DEF ListIsPast, ListIsBrought
<1>10. SavingIsMarked /\ DialogIsRemoval /\ RowIsMarked
  BY <1>2, <1>5, <1>7, IdleIs, MarkingIs DEF SavingIsMarked, SavesOf, DialogIsRemoval, RowIsMarked
<1>11. SheetIsAlone
  BY <1>2, IdleIs DEF SheetIsAlone
<1>12. QED
  BY <1>7, <1>8, <1>9, <1>10, <1>11 DEF Inv, OwnData

LEMMA InvIs == Inv <=> TypeOK /\ Own /\ Listed /\ Marked /\ SheetIsAlone
  BY DEF Inv, Own, Listed, Marked

LEMMA StutterInv == ASSUME Inv, UNCHANGED vars PROVE Inv'
<1>1. /\ TypeOK /\ Own /\ Listed /\ Marked /\ SheetIsAlone
      /\ UNCHANGED <<page, server, list, form, busy, op, astray, left>>
  BY InvIs DEF vars
<1>2. TypeOK'
  BY <1>1, FormIs, TypedForm
<1>3. Own'
  BY <1>1, OwnStays DEF Filled
<1>4. F' = F
  BY <1>1 DEF F
<1>5. Listed'
  BY <1>1, <1>4 DEF Listed, ListIsPast, ListIsBrought, Brings, Whole
<1>6. Marked'
  BY <1>1, MarkedStays
<1>7. SheetIsAlone'
  BY <1>1, AloneStays
<1>8. QED
  BY <1>2, <1>3, <1>5, <1>6, <1>7 DEF Inv, Own, Listed, Marked

LEMMA StepInv == ASSUME Inv, Next PROVE Inv'
<1>1. TypeOK /\ Own /\ Listed /\ Marked /\ SavingIsMarked /\ SheetIsAlone
  BY InvIs DEF Marked
<1>2. SUFFICES TypeOK' /\ Own' /\ Listed' /\ Marked' /\ SheetIsAlone'
  BY DEF Inv, Own, Listed, Marked
<1>3. CASE Type \/ Close
  BY <1>1, <1>3, TypeDoes, CloseDoes, OwnType, OwnClose, ListedUser, MarkedUser, AloneUser
<1>4. ASSUME NEW p \in Procs, NEW s \in F.sheets, Submit(p, s)
      PROVE  TypeOK' /\ Own' /\ Listed' /\ Marked' /\ SheetIsAlone'
  BY <1>1, <1>4, SubmitDoes, OwnSubmit, ListedStarts, MarkedSubmit, AloneSubmit
<1>5. ASSUME NEW p \in Procs, NEW s \in F.sheets, NEW r \in Targets, Open(p, s, r)
      PROVE  TypeOK' /\ Own' /\ Listed' /\ Marked' /\ SheetIsAlone'
  <2>1. TypeOK'
    BY <1>1, <1>5, OpenWaits, OpenShows
  <2>2. QED
    BY <1>1, <1>5, <2>1, OwnOpen, ListedOpen, MarkedOpen, AloneOpen
<1>6. ASSUME NEW p \in Procs, NEW k \in F.acts, NEW r \in Rows, Act(p, k, r)
      PROVE  TypeOK' /\ Own' /\ Listed' /\ Marked' /\ SheetIsAlone'
  BY <1>1, <1>6, ActDoes, OwnAct, ListedStarts, MarkedAct, AloneAct
<1>7. ASSUME NEW p \in Procs, OpenReply(p)
      PROVE  TypeOK' /\ Own' /\ Listed' /\ Marked' /\ SheetIsAlone'
  BY <1>1, <1>7, OpenReplyDoes, OwnOpenReply, ListedOpenReply, MarkedOpenReply, AloneOpenReply
<1>8. ASSUME NEW p \in Procs, CallDone(p)
      PROVE  TypeOK' /\ Own' /\ Listed' /\ Marked' /\ SheetIsAlone'
  BY <1>1, <1>8, CallDoneDoes, OwnCallDone, ListedCallDone, MarkedCallDone, AloneCallDone
<1>9. ASSUME NEW p \in Procs, CallFails(p) \/ LoadServed(p) \/ LoadFails(p)
      PROVE  TypeOK' /\ Own' /\ Listed' /\ Marked' /\ SheetIsAlone'
  <2>1. TypeOK'
    BY <1>1, <1>9, CallFailsDoes, LoadServedDoes, LoadFailsDoes
  <2>2. QED
    BY <1>1, <1>9, <2>1, OwnEnds, ListedEnds, MarkedLoads, AloneEnds
<1>10. ASSUME NEW p \in Procs, LoadApplied(p)
       PROVE  TypeOK' /\ Own' /\ Listed' /\ Marked' /\ SheetIsAlone'
  BY <1>1, <1>10, LoadAppliedDoes, OwnLoadApplied, ListedLoadApplied, MarkedLoads, AloneLoadApplied
<1>11. QED
  BY <1>3, <1>4, <1>5, <1>6, <1>7, <1>8, <1>9, <1>10 DEF Next

------------------------------------------------------------------------------
(* What the invariant says.                                                   *)
LEMMA InvKeeps == ASSUME Inv PROVE RowsKeepTheirOwn
  BY DEF Inv, RowsAreOwn, Filled, RowsKeepTheirOwn

LEMMA InvCatchesUp == ASSUME Inv PROVE ListCatchesUp
<1>1. SUFFICES ASSUME \A p \in Procs : op[p] = Idle, list # Versions, ~Missed PROVE FALSE
  BY DEF ListCatchesUp, Missed
<1>2. \A r \in Targets : list[r] = server[r].version
  BY <1>1, IdleIs DEF Inv, ListIsBrought, Missed, Brings
<1>3. list = Versions
  BY <1>2 DEF Inv, TypeOK, VersionsOf, Versions
<1>4. QED
  BY <1>1, <1>3

LEMMA InvIsBusy == ASSUME Inv PROVE BusyWhileHandled
<1>1. TypeOK /\ SavingIsMarked /\ DialogIsRemoval /\ RowIsMarked
  BY DEF Inv
<1>2. ASSUME NEW s \in F.flags PROVE Cardinality(SavesOf(s)) = IF s \in busy.saving THEN 1 ELSE 0
  <2>1. CASE s \in busy.saving
    <3>1. PICK p : p \in SavesOf(s)
      BY <1>1, <2>1 DEF SavingIsMarked
    <3>2. SavesOf(s) = {p}
      BY <1>1, <3>1 DEF SavingIsMarked
    <3>3. QED
      BY <2>1, <3>2, FS_Singleton
  <2>2. CASE s \notin busy.saving
    <3>1. SavesOf(s) = {}
      BY <1>1, <2>2 DEF SavingIsMarked
    <3>2. QED
      BY <2>2, <3>1, FS_EmptySet
  <2>3. QED
    BY <2>1, <2>2
<1>3. busy.row # None => \E p \in Procs : op[p].row = busy.row /\ op[p].do # "open"
  BY <1>1 DEF RowIsMarked, Marking
<1>4. ASSUME NEW p \in Procs, NEW q \in Procs, p # q, op[p].kind = "run", op[q].kind = "run"
      PROVE  "lent" \in astray
  <2>1. Marking(op[p]) /\ Marking(op[q])
    BY <1>1, <1>4, OpIs DEF Shaped, Marking
  <2>2. QED
    BY <1>1, <1>4, <2>1 DEF RowIsMarked
<1>5. QED
  BY <1>1, <1>2, <1>3, <1>4 DEF BusyWhileHandled, SavesOf, DialogIsRemoval

\* Who changes a sheet.
LEMMA InvSheetStep == ASSUME Inv, [Next]_vars PROVE SheetStep
<1>1. SUFFICES ASSUME form.sheet # None, form' # form, ~form.amid, ~Type, ~Close,
                      ~\E p \in Procs, s \in F.sheets, r \in Targets : Open(p, s, r)
               PROVE  \/ \E p \in Procs : /\ op[p].do = "calls" /\ op'[p].do = "load"
                                         /\ op[p].sheet = form.sheet /\ op[p].row = Target
                      \/ F.follows /\ \E p \in Procs : op[p].do = "load" /\ op'[p] = Idle
  BY DEF SheetStep
<1>2. TypeOK /\ SheetIsAlone /\ PageFacts(F)
  BY FIs DEF Inv
<1>3. ASSUME NEW p \in Procs, OpenReply(p) PROVE FALSE
  <2>1. op[p].do = "open"
    BY <1>2, <1>3, OpenReplyDoes
  <2>2. QED
    BY <1>1, <1>2, <2>1 DEF SheetIsAlone
<1>4. ASSUME NEW p \in Procs, CallDone(p)
      PROVE  /\ op[p].do = "calls" /\ op'[p].do = "load"
             /\ op[p].sheet = form.sheet /\ op[p].row = Target
  <2>1. PICK o : o = op[p] /\ o \in Ops /\ Shaped(o)
    BY <1>2, OpIs
  <2>2. /\ op'[p].do \in {"calls", "load"} \/ op'[p] = Idle
        /\ op'[p].do = "calls" => UNCHANGED form
        /\ op'[p].do = "load" => form' = IF o.kind = "save" THEN Succeeded(o) ELSE form
        /\ op'[p].do = "idle" => UNCHANGED form
    BY <1>2, <1>4, <2>1, CallDoneDoes
  <2>3. o.do = "calls"
    BY <1>2, <1>4, <2>1, CallDoneDoes
  <2>4. op'[p].do = "load" /\ o.kind = "save" /\ form' = Succeeded(o)
    BY <1>1, <2>2, IdleIs
  <2>5. o.sheet \in F.sheets
    BY <2>1, <2>3, <2>4 DEF Shaped
  <2>6. ~(F.follows /\ o.fresh) /\ ~F.closes /\ F.wipes = {} => form' = form
    BY <1>2, <2>1, <2>4, <2>5, SucceededIs
  <2>7. ~F.sections /\ (F.follows => o.fresh)
    BY <1>1, <1>2, <2>6 DEF PageFacts
  <2>8. o.sheet = form.sheet /\ o.row = Target
    BY <1>1, <1>2, <2>1, <2>3, <2>4, <2>7 DEF SheetIsAlone
  <2>9. QED
    BY <2>1, <2>3, <2>4, <2>8
<1>5. ASSUME NEW p \in Procs, LoadApplied(p)
      PROVE  F.follows /\ op[p].do = "load" /\ op'[p] = Idle
  BY <1>1, <1>2, <1>5, LoadAppliedDoes
<1>6. ASSUME NEW p \in Procs, CallFails(p) \/ LoadServed(p) \/ LoadFails(p) PROVE FALSE
  BY <1>1, <1>2, <1>6, CallFailsDoes, LoadServedDoes, LoadFailsDoes
<1>7. ASSUME NEW p \in Procs, NEW s \in F.sheets, Submit(p, s) PROVE FALSE
  BY <1>1, <1>2, <1>7, SubmitDoes
<1>8. ASSUME NEW p \in Procs, NEW k \in F.acts, NEW r \in Rows, Act(p, k, r) PROVE FALSE
  BY <1>1, <1>2, <1>8, ActDoes
<1>9. Next
  BY <1>1 DEF vars
<1>10. QED
  BY <1>1, <1>3, <1>4, <1>5, <1>6, <1>7, <1>8, <1>9 DEF Next

------------------------------------------------------------------------------
(* The theorems, of the pages as they are checked: one of three parts at a    *)
(* time, the administration pages being the part "edits".                     *)
EditInv == part = "edits" => Inv

LEMMA PagesInv == PagesSpec => []EditInv
<1>1. PagesInit => EditInv
  BY InitInv DEF PagesInit, EditInv
<1>2. ASSUME EditInv, [PagesNext]_<<part, edits, lists, hub>> PROVE EditInv'
  <2>1. SUFFICES ASSUME part' = "edits" PROVE Inv'
    BY DEF EditInv
  <2>2. part = "edits" /\ (Next \/ UNCHANGED vars)
    BY <1>2, <2>1 DEF PagesNext, edits
  <2>3. QED
    BY <1>2, <2>2, StepInv, StutterInv DEF EditInv
<1>3. QED
  BY <1>1, <1>2, PTL DEF PagesSpec

\* A row is only written with what is its own, on every page of Facts, however its
\* sheets are opened, left and saved while replies come late, unless a reply filled
\* the sheet of another row or the tenant form showed roles by default
\* (pages/UsersPage/hooks/use-users-page-form.ts:72, pages/TenantsPage/hooks/
\* use-tenants-page-form.ts:83).
THEOREM RowsKeepTheirsHolds == PagesSpec => []RowsKeepTheirs
<1>1. EditInv => RowsKeepTheirs
  BY InvKeeps DEF EditInv, RowsKeepTheirs
<1>2. QED
  BY <1>1, PagesInv, PTL

\* When every handler has ended the list is what the server has, unless a handler
\* failed half-way, its reload failed, or an older reload came last: the reloads of a
\* page take no turns (pages/RolesPage/hooks/use-roles-page-state.ts:28).
THEOREM ListFollowsHolds == PagesSpec => []ListFollows
<1>1. EditInv => ListFollows
  BY InvCatchesUp DEF EditInv, ListFollows
<1>2. QED
  BY <1>1, PagesInv, PTL

\* A save button is disabled while the one save of its sheet runs and no longer, the
\* dialog is busy while the one removal is, and a row is not run twice at once
\* unless another row has taken the mark (pages/ScheduledJobsPage/hooks/
\* use-scheduled-jobs-page-actions.ts:65, :119 and :154).
THEOREM HandledIsBusyHolds == PagesSpec => []HandledIsBusy
<1>1. EditInv => HandledIsBusy
  BY InvIsBusy DEF EditInv, HandledIsBusy
<1>2. QED
  BY <1>1, PagesInv, PTL

\* A sheet that was opened while nothing else was under way is changed by nothing
\* but its user, the success of its own save and, of departments, a reload
\* (pages/RolesPage/hooks/use-roles-page-actions.ts:64, pages/DeptsPage/hooks/
\* use-depts-page-state.ts:11).
THEOREM SheetIsOnlyTheUsersHolds == PagesSpec => SheetIsOnlyTheUsers
<1>1. ASSUME EditInv, [PagesNext]_<<part, edits, lists, hub>>
      PROVE  [part = "edits" => SheetStep]_edits
  <2>1. SUFFICES ASSUME part = "edits" PROVE SheetStep
    OBVIOUS
  <2>2. Inv /\ [Next]_vars
    BY <1>1, <2>1 DEF EditInv, PagesNext, edits
  <2>3. QED
    BY <2>2, InvSheetStep
<1>2. QED
  BY <1>1, PagesInv, PTL DEF PagesSpec, SheetIsOnlyTheUsers

------------------------------------------------------------------------------
(* RealtimeHub, of which RealtimeHub_proofs speaks: the behaviors that are the  *)
(* hub's are behaviors of that module.                                          *)
HubProofs == INSTANCE RealtimeHub_proofs WITH
  MaxTurns <- HubTurns, MaxActs <- HubActs, MaxFails <- HubFails, Dead <- None,
  session <- hub_session, conn <- hub_conn, conns <- hub_conns, task <- hub_task,
  print <- hub_print, probe <- hub_probe, redis <- hub_redis, ready <- hub_ready,
  strays <- hub_strays, left <- hub_left

HubInv == part = "hub" => HubProofs!Inv

LEMMA HubFits == HubProofs!ConstantsFit
  BY HubConstantsFit DEF Hub!ConstantsFit, HubProofs!ConstantsFit

LEMMA HubInit == Hub!Init => HubProofs!Init
  BY DEF Hub!Init, HubProofs!Init, Hub!Closed, HubProofs!Closed, Hub!Over, HubProofs!Over

LEMMA HubNext == Hub!Next => HubProofs!Next
  BY DEF
    Hub!Next, HubProofs!Next, Hub!probing, HubProofs!probing, Hub!events,
    HubProofs!events, Hub!Spend, HubProofs!Spend, Hub!Closed, HubProofs!Closed,
    Hub!Over, HubProofs!Over, Hub!Subscribed, HubProofs!Subscribed,
    Hub!_maybe_stop_auth_probe, HubProofs!_maybe_stop_auth_probe,
    Hub!_ensure_auth_probe, HubProofs!_ensure_auth_probe, Hub!unregister,
    HubProofs!unregister, Hub!_send, HubProofs!_send, Hub!Sent, HubProofs!Sent,
    Hub!realtime_ws, HubProofs!realtime_ws, Hub!Leaves, HubProofs!Leaves, Hub!Ends,
    HubProofs!Ends, Hub!Disconnect, HubProofs!Disconnect, Hub!subscribe,
    HubProofs!subscribe, Hub!unsubscribe, HubProofs!unsubscribe, Hub!Refreshed,
    HubProofs!Refreshed, Hub!RefreshRaises, HubProofs!RefreshRaises,
    Hub!_push_auth_snapshot, HubProofs!_push_auth_snapshot, Hub!ProbeEnds,
    HubProofs!ProbeEnds, Hub!Runs, HubProofs!Runs, Hub!Wakes, HubProofs!Wakes,
    Hub!ProbeRefreshed, HubProofs!ProbeRefreshed, Hub!ProbeRaises,
    HubProofs!ProbeRaises, Hub!Cancelled, HubProofs!Cancelled, Hub!publish,
    HubProofs!publish, Hub!Notices, HubProofs!Notices, Hub!_deliver_envelope,
    HubProofs!_deliver_envelope, Hub!_on_bus_message, HubProofs!_on_bus_message,
    Hub!_listen_loop, HubProofs!_listen_loop, Hub!Turns, HubProofs!Turns

LEMMA HubHolds == PagesSpec => []HubInv
<1>1. PagesInit => HubInv
  BY HubFits, HubInit, HubProofs!InitInv DEF PagesInit, HubInv
<1>2. HubInv /\ [PagesNext]_<<part, edits, lists, hub>> => HubInv'
  <2>1. SUFFICES ASSUME HubInv, [PagesNext]_<<part, edits, lists, hub>>, part' = "hub"
                 PROVE  HubProofs!Inv'
    BY DEF HubInv
  <2>2. part = "hub" /\ (Hub!Next \/ UNCHANGED hub)
    BY <2>1 DEF PagesNext
  <2>3. [HubProofs!Next]_(HubProofs!vars)
    BY <2>2, HubNext DEF hub, HubProofs!vars
  <2>4. QED
    BY <2>1, <2>2, <2>3, HubFits, HubProofs!StepInv DEF HubInv
<1>3. QED
  BY <1>1, <1>2, PTL DEF PagesSpec

\* Whatever connects, leaves, changes and fails: a session that is subscribed has a
\* probe, and no other, nothing is kept for one that is not, and every subscriber
\* has been sent the session as it is, but for what is known to go astray
\* (services/realtime_hub.py:283 and :322).
THEOREM HubAgreesHolds == PagesSpec => []HubAgrees
<1>1. HubProofs!Inv => HubProofs!HubAgrees
  BY HubFits, HubProofs!InvAgrees
<1>2. HubProofs!HubAgrees => Hub!HubAgrees
  BY DEF
    Hub!Live, HubProofs!Live, Hub!OneProbe, HubProofs!OneProbe,
    Hub!SubscribersAreProbed, HubProofs!SubscribersAreProbed, Hub!ProbeHasReason,
    HubProofs!ProbeHasReason, Hub!Quiet, HubProofs!Quiet, Hub!SnapshotsArrive,
    HubProofs!SnapshotsArrive, Hub!HubAgrees, HubProofs!HubAgrees, Hub!Subscribed,
    HubProofs!Subscribed
<1>3. HubInv => HubAgrees
  BY <1>1, <1>2 DEF HubInv, HubAgrees
<1>4. QED
  BY <1>3, HubHolds, PTL
------------------------------------------------------------------------------
(* The paged lists.  The request that was sent last is for what the list is set
   to; it is still under way, or its reply is what is shown.                  *)
ListAsks == [key : Keys, filter : Filters \cup {First}, size : {1, 2}, page : Nat \ {0}, open : BOOLEAN]
Worlds == [added : Nat, rev : Nat]

\* The page that is asked for has rows, when Stock + added are there.
Reaches(q, added, strays) ==
  /\ q.page \in Nat \ {0} /\ q.size \in {1, 2}
  /\ "resized" \notin strays => q.page = 1 \/ (q.page - 1) * q.size < Stock + added

ListTyped ==
  /\ kind \in L!Kinds /\ asked \in ListAsks /\ world \in Worlds /\ DOMAIN rows = Keys
  /\ draft \in Filters \cup {First} /\ pushed \in BOOLEAN
  /\ ~L!Has("keyed") => asked.key = L!AKey
  /\ total \in Int /\ total <= Stock + world.added
  /\ Reaches(asked, world.added, strayed)

\* Requests are numbered, and shown by their numbers.
ListNumbered ==
  /\ order = [sent |-> order.sent, shown |-> order.shown]
  /\ order.sent \in Nat /\ order.shown \in Nat /\ order.shown <= order.sent
  /\ \A l \in loads : l.no \in Nat /\ l.no <= order.sent /\ l.no # order.shown
  /\ \A l, m \in loads : l.no = m.no => l = m
  /\ L!Has("drops") => \A l \in loads : l.no = order.sent

ListLoads ==
  /\ \A l \in loads : /\ l.since \in Worlds /\ l.since.added <= world.added
                      /\ Reaches(l.q, l.since.added, strayed)
  /\ L!Has("replied") => asked.size = 1 /\ \A l \in loads : l.q.size = 1

\* The request for what the page is set to is under way ...
ListPending ==
  \E l \in loads :
    /\ l.no = order.sent
    /\ l.q = L!Query(asked) \/ (L!Has("replied") /\ l.q = L!Query([asked EXCEPT !.page = l.q.page]))
    /\ L!Has("listens") /\ ~pushed => l.since = world

\* ... or its reply is what the page shows.
ListShown ==
  /\ order.shown = order.sent /\ rows[asked.key].q = L!Query(asked)
  /\ L!Has("listens") /\ ~pushed => rows[asked.key].rows = L!Page(L!Query(asked), world)
  /\ Stock > 0 /\ "resized" \notin strayed => rows[asked.key].rows # <<>>

Calm == "failed" \notin strayed /\ (L!Has("drops") \/ "overtaken" \notin strayed)
ListFollowed == asked.open /\ Calm => ListPending \/ ListShown

PickedIsThere ==
  L!Has("drops") /\ "failed" \notin strayed =>
    picked = None \/ picked \in L!ToSet(rows[asked.key].rows)

ListInv == ListTyped /\ ListNumbered /\ ListLoads /\ ListFollowed /\ PickedIsThere
------------------------------------------------------------------------------
LEMMA ListFits == Keys # {} /\ Stock \in Nat /\ MaxTurns \in Nat
  BY ListsConstantsFit DEF L!ConstantsFit

LEMMA KindIs ==
  ASSUME kind \in L!Kinds
  PROVE  /\ L!Has("replied") => L!Has("sheet") /\ ~L!Has("resizes") /\ ~L!Has("drops") /\ ~L!Has("scrolls")
         /\ L!Has("drops") => L!Has("sheet") /\ ~L!Has("keyed") /\ ~L!Has("listens")
         /\ L!Has("listens") => ~L!Has("sheet")
  BY DEF L!Kinds, L!Has, L!F, L!AuditLogs, L!Downloads, L!DownloadTable, L!JobRuns, L!TenantOptions

LEMMA KindStays ==
  ASSUME kind' = kind
  PROVE  /\ L!Has("keyed")' <=> L!Has("keyed")
         /\ L!Has("drops")' <=> L!Has("drops")
         /\ L!Has("listens")' <=> L!Has("listens")
         /\ L!Has("replied")' <=> L!Has("replied")
  BY DEF L!Has, L!F

\* A setting is known by its fields.
LEMMA AskIs ==
  ASSUME NEW a \in ListAsks, NEW b, b = [n \in {"key", "filter", "size", "page", "open"} |-> b[n]],
         b["key"] \in Keys, b["filter"] \in Filters \cup {First}, b["size"] \in {1, 2},
         b["page"] \in Nat \ {0}, b["open"] \in BOOLEAN
  PROVE  b \in ListAsks
  BY DEF ListAsks

LEMMA ReachesOn ==
  ASSUME NEW q, NEW n \in Int, NEW m \in Int, n <= m, NEW s, NEW t, s \subseteq t, Reaches(q, n, s)
  PROVE  Reaches(q, m, t)
<1>1. q.page \in Nat /\ q.size \in {1, 2}
  BY DEF Reaches
<1>2. (q.page - 1) * q.size \in Int
  BY <1>1
<1>3. (q.page - 1) * q.size < Stock + n => (q.page - 1) * q.size < Stock + m
  BY <1>2, ListFits
<1>4. QED
  BY <1>3 DEF Reaches

\* A page that is there is not empty.
LEMMA PageIs ==
  ASSUME NEW q, NEW w \in Worlds, NEW s, Reaches(q, w.added, s), "resized" \notin s, Stock > 0
  PROVE  L!Page(q, w) # <<>>
<1>1. q.page \in Nat \ {0} /\ q.size \in {1, 2}
  BY DEF Reaches
<1>2. PICK before \in Int : before = (q.page - 1) * q.size
  BY <1>1
<1>3. w.added \in Nat
  BY DEF Worlds
<1>4. PICK there \in Int : there = Stock + w.added - before
  BY <1>2, <1>3, ListFits
<1>5. there >= 1
  <2>1. CASE q.page = 1
    BY <1>1, <1>2, <1>3, <1>4, <2>1, ListFits
  <2>2. CASE before < Stock + w.added
    BY <1>2, <1>3, <1>4, <2>2, ListFits
  <2>3. QED
    BY <1>2, <2>1, <2>2 DEF Reaches
<1>6. PICK n \in Int : n = L!Min({q.size, there}) /\ n >= 1
  BY <1>1, <1>4, <1>5 DEF L!Min
<1>7. L!Max({0, n}) = n
  BY <1>6 DEF L!Max
<1>8. DOMAIN L!Page(q, w) = 1..n
  BY <1>2, <1>4, <1>6, <1>7 DEF L!Page
<1>9. 1 \in DOMAIN L!Page(q, w)
  BY <1>6, <1>8
<1>10. QED
  BY <1>9

\* A request that leaves is the last, and knows what there is.
LEMMA AsksIs ==
  ASSUME ListTyped, ListNumbered, ListLoads, NEW q, L!Asks(q), kind' = kind, world' = world,
         strayed \subseteq strayed', Reaches(q, world.added, strayed'),
         L!Has("replied") => q.size = 1 /\ asked'.size = 1
  PROVE  /\ ListNumbered' /\ ListLoads'
         /\ \E l \in loads' : l.no = order'.sent /\ l.q = q /\ l.since = world
<1>1. PICK new : new = [no |-> order.sent + 1, q |-> q, since |-> world]
  OBVIOUS
<1>2. /\ loads' = (IF L!Has("drops") THEN {} ELSE loads) \cup {new}
      /\ order' = [order EXCEPT !.sent = @ + 1]
  BY <1>1 DEF L!Asks
<1>3. order' = [sent |-> order.sent + 1, shown |-> order.shown] /\ order.sent \in Nat /\ order.shown \in Nat
  BY <1>2 DEF ListNumbered
<1>4. new.no = order.sent + 1 /\ new.q = q /\ new.since = world
  BY <1>1
<1>5. ListNumbered'
  <2>1. \A l \in loads' : l = new \/ (l \in loads /\ ~L!Has("drops"))
    BY <1>2
  <2>2. \A l \in loads : l.no \in Nat /\ l.no <= order.sent /\ l.no # order.shown
    BY DEF ListNumbered
  <2>3. \A l \in loads' : l.no \in Nat /\ l.no <= order'.sent /\ l.no # order'.shown
    BY <1>3, <1>4, <2>1, <2>2 DEF ListNumbered
  <2>4. \A l, m \in loads' : l.no = m.no => l = m
    BY <1>3, <1>4, <2>1, <2>2 DEF ListNumbered
  <2>5. L!Has("drops") => \A l \in loads' : l.no = order'.sent
    BY <1>3, <1>4, <2>1
  <2>6. order'.shown <= order'.sent
    BY <1>3 DEF ListNumbered
  <2>7. QED
    BY <1>3, <2>3, <2>4, <2>5, <2>6, KindStays DEF ListNumbered
<1>6. ListLoads'
  <2>1. ASSUME NEW l \in loads
        PROVE  /\ l.since \in Worlds /\ l.since.added <= world.added
               /\ Reaches(l.q, l.since.added, strayed')
    <3>1. l.since \in Worlds /\ l.since.added <= world.added /\ Reaches(l.q, l.since.added, strayed)
      BY <2>1 DEF ListLoads
    <3>2. l.since.added \in Int /\ l.since.added <= l.since.added
      BY <3>1 DEF Worlds
    <3>3. QED
      BY <3>1, <3>2, ReachesOn
  <2>2. /\ new.since \in Worlds /\ new.since.added <= world.added
        /\ Reaches(new.q, new.since.added, strayed')
    BY <1>4 DEF ListTyped, Worlds
  <2>3. \A l \in loads' : l = new \/ l \in loads
    BY <1>2
  <2>4. L!Has("replied") => \A l \in loads' : l.q.size = 1
    BY <1>4, <2>3 DEF ListLoads
  <2>5. QED
    BY <2>1, <2>2, <2>3, <2>4, KindStays DEF ListLoads
<1>7. QED
  BY <1>2, <1>3, <1>4, <1>5, <1>6

\* What the page is set to is asked for.
LEMMA SetIs ==
  ASSUME ListInv, NEW a \in ListAsks, NEW arm, L!Set(a, arm), strayed \subseteq strayed',
         Reaches(a, world.added, strayed'),
         ~L!Has("keyed") => a.key = L!AKey, L!Has("replied") => a.size = 1
  PROVE  ListInv'
<1>1. /\ L!Asks(L!Query(a)) /\ asked' = a /\ rows' = rows /\ total' = total
      /\ UNCHANGED <<kind, world, draft, picked, pushed>>
  BY DEF L!Set, L!Shows
<1>2. ListTyped /\ ListNumbered /\ ListLoads /\ PickedIsThere
  BY DEF ListInv
<1>3. L!Query(a).page = a.page /\ L!Query(a).size = a.size
  BY DEF L!Query
<1>4. Reaches(L!Query(a), world.added, strayed')
  BY <1>3 DEF Reaches
<1>5. /\ ListNumbered' /\ ListLoads'
      /\ \E l \in loads' : l.no = order'.sent /\ l.q = L!Query(a) /\ l.since = world
  BY <1>1, <1>2, <1>3, <1>4, AsksIs
<1>6. ListTyped'
  BY <1>1, <1>2, KindStays DEF ListTyped
<1>7. ListFollowed'
  BY <1>1, <1>5, KindStays DEF ListFollowed, ListPending
<1>8. PickedIsThere'
  <2>1. L!Has("drops") => a.key = asked.key
    BY <1>2, KindIs DEF ListTyped
  <2>2. QED
    BY <1>1, <1>2, <2>1, KindStays DEF PickedIsThere
<1>9. QED
  BY <1>5, <1>6, <1>7, <1>8 DEF ListInv

LEMMA SetsKeep ==
  ASSUME ListInv, L!ChangeFilter \/ L!ChangeSize \/ L!GoToPage \/ L!Scroll \/ L!FillScreen \/ L!OpenSheet
  PROVE  ListInv'
<1>1. ListTyped /\ ListLoads /\ asked \in ListAsks /\ world.added \in Nat
  BY DEF ListInv, ListTyped, Worlds
<1>2. asked.page \in Nat \ {0} /\ asked.size \in {1, 2} /\ asked.page * asked.size \in Int
  BY <1>1 DEF ListAsks
<1>3. ASSUME NEW a \in ListAsks, a.page = 1, NEW s
      PROVE  Reaches(a, world.added, s)
  BY <1>3 DEF Reaches, ListAsks
<1>4. (~L!Has("keyed") => asked.key = L!AKey) /\ (L!Has("replied") => asked.size = 1)
  BY <1>1 DEF ListTyped, ListLoads
<1>5. total \in Int /\ total <= Stock + world.added
  BY <1>1 DEF ListTyped
<1>6. ASSUME L!ChangeFilter PROVE ListInv'
  <2>1. PICK k \in Keys, f \in Filters :
          /\ k = asked.key \/ L!Has("keyed")
          /\ L!Set([asked EXCEPT !.key = k, !.filter = f, !.page = 1], armed) /\ strayed' = strayed
    BY <1>6 DEF L!ChangeFilter
  <2>2. PICK a : a = [asked EXCEPT !.key = k, !.filter = f, !.page = 1]
    OBVIOUS
  <2>3. /\ a = [n \in {"key", "filter", "size", "page", "open"} |-> a[n]]
        /\ a["key"] = k /\ a["filter"] = f /\ a["page"] = 1
        /\ a["size"] = asked["size"] /\ a["open"] = asked["open"]
    BY <1>1, <2>2 DEF ListAsks
  <2>4. a \in ListAsks
    BY <1>1, <2>3, AskIs DEF ListAsks
  <2>5. QED
    BY <1>3, <1>4, <2>1, <2>2, <2>3, <2>4, SetIs
<1>7. ASSUME L!ChangeSize PROVE ListInv'
  <2>1. PICK a : a = [asked EXCEPT !.size = 3 - @, !.page = IF L!Has("restarts") THEN 1 ELSE @]
    OBVIOUS
  <2>2. /\ L!Has("resizes") /\ L!Set(a, armed)
        /\ strayed' = IF asked.page > 1 /\ ~L!Has("restarts") THEN strayed \cup {"resized"} ELSE strayed
    BY <1>7, <2>1 DEF L!ChangeSize
  <2>3. 3 - asked.size \in {1, 2}
    BY <1>2
  <2>4. PICK p \in Nat \ {0} : p = IF L!Has("restarts") THEN 1 ELSE asked.page
    BY <1>2
  <2>5. /\ a = [n \in {"key", "filter", "size", "page", "open"} |-> a[n]]
        /\ a["key"] = asked["key"] /\ a["filter"] = asked["filter"] /\ a["page"] = p
        /\ a["size"] = 3 - asked["size"] /\ a["open"] = asked["open"]
    BY <1>1, <2>1, <2>4 DEF ListAsks
  <2>6. a \in ListAsks /\ a.key = asked.key /\ a.page = p
    BY <1>1, <2>3, <2>5, AskIs DEF ListAsks
  <2>7. Reaches(a, world.added, strayed')
    BY <1>2, <1>3, <2>2, <2>6, <2>4 DEF Reaches, ListAsks
  <2>8. ~L!Has("replied")
    BY <1>1, <2>2, KindIs DEF ListTyped
  <2>9. QED
    BY <1>4, <2>2, <2>6, <2>7, <2>8, SetIs
<1>8. ASSUME NEW n \in Nat \ {0}, NEW arm, L!Set([asked EXCEPT !.page = n], arm), strayed \subseteq strayed',
             (n - 1) * asked.size < total
      PROVE  ListInv'
  <2>1. PICK a : a = [asked EXCEPT !.page = n]
    OBVIOUS
  <2>2. a \in ListAsks /\ a.page = n /\ a.size = asked.size /\ a.key = asked.key
    BY <1>1, <2>1 DEF ListAsks
  <2>3. (n - 1) * asked.size \in Int
    BY <1>2
  <2>4. (n - 1) * asked.size < Stock + world.added
    BY <1>1, <1>5, <1>8, <2>3, ListFits
  <2>5. Reaches(a, world.added, strayed')
    BY <1>2, <2>2, <2>4 DEF Reaches
  <2>6. QED
    BY <1>4, <1>8, <2>1, <2>2, <2>5, SetIs
<1>9. ASSUME L!GoToPage PROVE ListInv'
  <2>1. PICK n \in 1..Stock + MaxTurns :
          /\ (n - 1) * asked.size < total /\ L!Set([asked EXCEPT !.page = n], armed)
          /\ strayed' = IF phone /\ n > 1 THEN strayed \cup {"jumped"} ELSE strayed
    BY <1>9 DEF L!GoToPage
  <2>2. n \in Nat \ {0} /\ strayed \subseteq strayed'
    BY <2>1, ListFits
  <2>3. QED
    BY <1>8, <2>1, <2>2
<1>10. ASSUME NEW arm, L!LoadMore(arm) PROVE ListInv'
  <2>1. /\ asked.page * asked.size < total
        /\ L!Set([asked EXCEPT !.page = asked.page + 1], arm) /\ strayed \subseteq strayed'
    BY <1>10 DEF L!LoadMore, L!HasMore
  <2>2. asked.page + 1 \in Nat \ {0} /\ (asked.page + 1) - 1 = asked.page
    BY <1>2
  <2>3. QED
    BY <1>8, <2>1, <2>2
<1>11. ASSUME L!OpenSheet PROVE ListInv'
  <2>1. PICK k \in Keys :
          /\ k = L!AKey \/ L!Has("keyed")
          /\ L!Set([asked EXCEPT !.key = k, !.page = 1, !.filter = First, !.open = TRUE], armed)
          /\ strayed' = strayed
    BY <1>11 DEF L!OpenSheet
  <2>2. PICK a : a = [asked EXCEPT !.key = k, !.page = 1, !.filter = First, !.open = TRUE]
    OBVIOUS
  <2>3. /\ a = [n \in {"key", "filter", "size", "page", "open"} |-> a[n]]
        /\ a["key"] = k /\ a["filter"] = First /\ a["page"] = 1
        /\ a["size"] = asked["size"] /\ a["open"] = TRUE
    BY <1>1, <2>2 DEF ListAsks
  <2>4. a["open"] \in BOOLEAN /\ asked["size"] \in {1, 2}
    BY <1>1, <2>3 DEF ListAsks
  <2>5. a \in ListAsks
    BY <2>3, <2>4, AskIs, <1>1
  <2>6. QED
    BY <1>3, <1>4, <2>1, <2>2, <2>3, <2>5, SetIs
<1>12. QED
  BY <1>6, <1>7, <1>9, <1>10, <1>11 DEF L!Scroll, L!FillScreen

\* Asking once more, for another page or by the event, leaves what the page is set to.
LEMMA AsksAgain ==
  ASSUME ListInv, NEW q, L!Asks(q), Reaches(q, world.added, strayed),
         q = L!Query(asked) \/ (L!Has("replied") /\ q = L!Query([asked EXCEPT !.page = q.page])),
         UNCHANGED <<kind, world, asked, draft, rows, total, picked, strayed>>,
         pushed' \in BOOLEAN
  PROVE  ListInv'
<1>1. ListTyped /\ ListNumbered /\ ListLoads /\ PickedIsThere
  BY DEF ListInv
<1>2. L!Has("replied") => q.size = 1 /\ asked.size = 1
  BY <1>1 DEF ListLoads, L!Query, ListTyped, ListAsks
<1>3. /\ ListNumbered' /\ ListLoads'
      /\ \E l \in loads' : l.no = order'.sent /\ l.q = q /\ l.since = world
  BY <1>1, <1>2, AsksIs
<1>4. ListTyped'
  BY <1>1, KindStays DEF ListTyped
<1>5. ListPending'
  BY <1>3, KindStays DEF ListPending
<1>6. PickedIsThere'
  BY <1>1, KindStays DEF PickedIsThere
<1>7. QED
  BY <1>3, <1>4, <1>5, <1>6 DEF ListInv, ListFollowed

LEMMA AsksKeep ==
  ASSUME ListInv, L!TurnPage \/ L!Event
  PROVE  ListInv'
<1>1. ListTyped /\ asked \in ListAsks /\ world.added \in Nat /\ total \in Int /\ total <= Stock + world.added
  BY DEF ListInv, ListTyped, Worlds
<1>2. asked.page \in Nat \ {0} /\ asked.size \in {1, 2}
  BY <1>1 DEF ListAsks
<1>3. ASSUME L!TurnPage PROVE ListInv'
  <2>1. PICK n \in {asked.page - 1, asked.page + 1} :
          /\ L!Has("replied") /\ n > 0 /\ (n - 1) * asked.size < total
          /\ L!Asks(L!Query([asked EXCEPT !.page = n]))
          /\ UNCHANGED <<kind, world, asked, draft, rows, total, picked, pushed, strayed>>
    BY <1>3 DEF L!TurnPage
  <2>2. n \in Nat \ {0}
    BY <1>2, <2>1
  <2>3. PICK q : q = L!Query([asked EXCEPT !.page = n])
    OBVIOUS
  <2>4. q.page = n /\ q.size = asked.size
    BY <1>1, <2>3 DEF L!Query, ListAsks
  <2>5. (n - 1) * asked.size < Stock + world.added
    <3>1. (n - 1) * asked.size \in Int
      BY <1>2, <2>2
    <3>2. QED
      BY <1>1, <2>1, <3>1, ListFits
  <2>6. Reaches(q, world.added, strayed)
    BY <1>2, <2>2, <2>4, <2>5 DEF Reaches
  <2>7. q = L!Query([asked EXCEPT !.page = q.page])
    BY <2>3, <2>4
  <2>8. QED
    BY <1>1, <2>1, <2>3, <2>6, <2>7, AsksAgain DEF ListTyped
<1>4. ASSUME L!Event PROVE ListInv'
  <2>1. /\ L!Asks(L!Query(asked)) /\ pushed' = FALSE
        /\ UNCHANGED <<kind, world, asked, draft, rows, total, picked, strayed>>
    BY <1>4 DEF L!Event
  <2>2. Reaches(L!Query(asked), world.added, strayed)
    BY <1>1 DEF ListTyped, Reaches, L!Query
  <2>3. QED
    BY <2>1, <2>2, AsksAgain
<1>5. QED
  BY <1>3, <1>4

LEMMA SheetKeeps ==
  ASSUME ListInv, L!CloseSheet \/ L!Type \/ L!Rested \/ L!Pick
  PROVE  ListInv'
<1>1. ListTyped /\ ListNumbered /\ ListLoads /\ ListFollowed /\ PickedIsThere /\ asked \in ListAsks
  BY DEF ListInv, ListTyped
<1>2. ASSUME L!CloseSheet PROVE ListInv'
  <2>1. /\ asked' = [asked EXCEPT !.open = FALSE, !.page = 1, !.filter = First]
        /\ draft' = First /\ picked' = None /\ rows' = [k \in Keys |-> L!NoRows] /\ total' = 0
        /\ loads' = IF L!Has("drops") THEN {} ELSE loads
        /\ UNCHANGED <<kind, world, order, pushed, strayed>>
    BY <1>2 DEF L!CloseSheet
  <2>2. PICK a : a = [asked EXCEPT !.open = FALSE, !.page = 1, !.filter = First]
    OBVIOUS
  <2>3. /\ a = [n \in {"key", "filter", "size", "page", "open"} |-> a[n]]
        /\ a["key"] = asked["key"] /\ a["filter"] = First /\ a["page"] = 1
        /\ a["size"] = asked["size"] /\ a["open"] = FALSE
    BY <1>1, <2>2 DEF ListAsks
  <2>4. a["open"] \in BOOLEAN /\ asked["size"] \in {1, 2} /\ asked["key"] \in Keys
    BY <1>1, <2>3 DEF ListAsks
  <2>5. a \in ListAsks
    BY <1>1, <2>3, <2>4, AskIs
  <2>6. /\ asked' \in ListAsks /\ ~asked'.open /\ asked'.page = 1
        /\ asked'.size = asked.size /\ asked'.key = asked.key
    BY <2>1, <2>2, <2>3, <2>5
  <2>7. Reaches(asked', world.added, strayed)
    BY <2>6 DEF Reaches, ListAsks
  <2>8. ListTyped'
    <3>1. world.added \in Nat /\ 0 <= Stock + world.added
      BY <1>1, ListFits DEF ListTyped, Worlds
    <3>2. QED
      BY <1>1, <2>1, <2>6, <2>7, <3>1, KindStays DEF ListTyped
  <2>9. ListNumbered' /\ ListLoads'
    BY <1>1, <2>1, <2>6, KindStays DEF ListNumbered, ListLoads
  <2>10. ListFollowed' /\ PickedIsThere'
    BY <2>1, <2>6 DEF ListFollowed, PickedIsThere
  <2>11. QED
    BY <2>8, <2>9, <2>10 DEF ListInv
<1>3. ASSUME L!Type \/ L!Pick PROVE ListInv'
  <2>1. /\ draft' \in Filters \cup {First}
        /\ UNCHANGED <<kind, world, asked, rows, total, loads, order, pushed, strayed>>
        /\ picked' \in {picked} \cup L!ToSet(rows[asked.key].rows)
    BY <1>1, <1>3 DEF L!Type, L!Pick, ListTyped
  <2>2. ListTyped' /\ ListNumbered' /\ ListLoads'
    BY <1>1, <2>1, KindStays DEF ListTyped, ListNumbered, ListLoads
  <2>3. ListPending \/ ListShown => (ListPending \/ ListShown)'
    BY <2>1, KindStays DEF ListPending, ListShown
  <2>4. ListFollowed' /\ PickedIsThere'
    BY <1>1, <2>1, <2>3, KindStays DEF ListFollowed, PickedIsThere, Calm
  <2>5. QED
    BY <2>2, <2>4 DEF ListInv
<1>4. ASSUME L!Rested PROVE ListInv'
  <2>1. /\ asked' = [asked EXCEPT !.filter = draft] /\ L!Has("drops") /\ L!Asks(L!Query(asked'))
        /\ UNCHANGED <<kind, world, draft, rows, total, picked, pushed, strayed>>
    BY <1>4 DEF L!Rested
  <2>2. asked' \in ListAsks /\ asked'.page = asked.page /\ asked'.size = asked.size /\ asked'.key = asked.key
    BY <1>1, <2>1 DEF ListAsks, ListTyped
  <2>3. Reaches(asked', world.added, strayed) /\ Reaches(L!Query(asked'), world.added, strayed)
    BY <1>1, <2>2 DEF ListTyped, Reaches, L!Query
  <2>4. ~L!Has("replied")
    BY <1>1, <2>1, KindIs DEF ListTyped
  <2>5. /\ ListNumbered' /\ ListLoads'
        /\ \E l \in loads' : l.no = order'.sent /\ l.q = L!Query(asked') /\ l.since = world
    BY <1>1, <2>1, <2>3, <2>4, AsksIs
  <2>6. ListTyped'
    BY <1>1, <2>1, <2>2, <2>3, KindStays DEF ListTyped
  <2>7. ListFollowed' /\ PickedIsThere'
    BY <1>1, <2>1, <2>2, <2>5, KindStays DEF ListFollowed, ListPending, PickedIsThere
  <2>8. QED
    BY <2>5, <2>6, <2>7 DEF ListInv
<1>5. QED
  BY <1>2, <1>3, <1>4

\* What is on the server only grows.
LEMMA ChangeKeeps ==
  ASSUME ListInv, L!Change
  PROVE  ListInv'
<1>1. ListTyped /\ ListNumbered /\ ListLoads /\ ListFollowed /\ PickedIsThere /\ world \in Worlds
  BY DEF ListInv, ListTyped
<1>2. /\ world' = [world EXCEPT !.rev = @ + 1]
         \/ \E n \in Nat : world' = [world EXCEPT !.added = @ + n]
      /\ pushed' = L!Has("listens")
      /\ UNCHANGED <<kind, asked, draft, rows, total, picked, loads, order, strayed>>
  BY DEF L!Change, L!Burst
<1>3. world' \in Worlds /\ world.added \in Nat /\ world'.added \in Nat /\ world.added <= world'.added
  BY <1>1, <1>2 DEF Worlds
<1>4. Reaches(asked, world'.added, strayed)
  BY <1>1, <1>3, ReachesOn DEF ListTyped
<1>5. pushed' \in BOOLEAN /\ (L!Has("listens") => pushed')
  <2>1. L!Has("listens") \in BOOLEAN
    BY DEF L!Has
  <2>2. pushed' = L!Has("listens")
    BY <1>2
  <2>3. QED
    BY <2>1, <2>2, Zenon
<1>6. total \in Int /\ total <= Stock + world'.added
  BY <1>1, <1>3, ListFits DEF ListTyped
<1>7. ListTyped'
  BY <1>1, <1>2, <1>3, <1>4, <1>5, <1>6, KindStays DEF ListTyped
<1>8. ListNumbered'
  BY <1>1, <1>2, KindStays DEF ListNumbered
<1>9. ListLoads'
  <2>1. \A l \in loads : l.since.added <= world'.added
    BY <1>1, <1>3 DEF ListLoads, Worlds
  <2>2. QED
    BY <1>1, <1>2, <2>1, KindStays DEF ListLoads
<1>10. ListPending \/ ListShown => (ListPending \/ ListShown)'
  BY <1>2, <1>5, KindStays DEF ListPending, ListShown
<1>11. ListFollowed' /\ PickedIsThere'
  BY <1>1, <1>2, <1>10, KindStays DEF ListFollowed, PickedIsThere, Calm
<1>12. QED
  BY <1>7, <1>8, <1>9, <1>11 DEF ListInv

LEMMA FailureKeeps ==
  ASSUME ListInv, NEW l \in loads, L!Failure(l)
  PROVE  ListInv'
<1>1. ListTyped /\ ListNumbered /\ ListLoads /\ world.added \in Nat
  BY DEF ListInv, ListTyped, Worlds
<1>2. /\ loads' = loads \ {l} /\ asked' = asked
      /\ rows' = IF L!Has("drops") THEN [k \in Keys |-> L!NoRows] ELSE rows
      /\ total' = IF L!Has("drops") THEN 0 ELSE total
      /\ strayed' = strayed \cup {"failed"}
      /\ UNCHANGED <<kind, world, draft, picked, order, pushed>>
  BY DEF L!Failure, L!Shows
<1>3. Reaches(asked, world.added, strayed')
  BY <1>1, <1>2 DEF ListTyped, Reaches
<1>4. DOMAIN rows' = Keys
  BY <1>1, <1>2 DEF ListTyped
<1>5. total' \in Int /\ total' <= Stock + world.added
  BY <1>1, <1>2, ListFits DEF ListTyped
<1>6. ListTyped'
  BY <1>1, <1>2, <1>3, <1>4, <1>5, KindStays DEF ListTyped
<1>7. ListNumbered'
  BY <1>1, <1>2, KindStays DEF ListNumbered
<1>8. ListLoads'
  <2>1. \A m \in loads : Reaches(m.q, m.since.added, strayed')
    BY <1>1, <1>2 DEF ListLoads, Reaches
  <2>2. QED
    BY <1>1, <1>2, <2>1, KindStays DEF ListLoads
<1>9. ListFollowed' /\ PickedIsThere'
  BY <1>2 DEF ListFollowed, PickedIsThere, Calm
<1>10. QED
  BY <1>6, <1>7, <1>8, <1>9 DEF ListInv

\* A reply was made from the rows of some time since its request.
LEMMA SinceIs ==
  ASSUME NEW l, l.since \in Worlds, world \in Worlds, l.since.added <= world.added, NEW w \in L!Since(l)
  PROVE  /\ w \in Worlds /\ l.since.added <= w.added /\ w.added <= world.added
         /\ l.since = world => w = world
<1>1. /\ w = [added |-> w.added, rev |-> w.rev]
      /\ w.added \in l.since.added..world.added /\ w.rev \in l.since.rev..world.rev
  BY DEF L!Since
<1>2. /\ l.since.added \in Nat /\ world.added \in Nat /\ l.since.rev \in Nat /\ world.rev \in Nat
      /\ world = [added |-> world.added, rev |-> world.rev]
  BY DEF Worlds
<1>3. w \in Worlds /\ l.since.added <= w.added /\ w.added <= world.added
  BY <1>1, <1>2 DEF Worlds
<1>4. ASSUME l.since = world PROVE w = world
  <2>1. w.added = world.added /\ w.rev = world.rev
    BY <1>1, <1>2, <1>4
  <2>2. QED
    BY <1>1, <1>2, <2>1
<1>5. QED
  BY <1>3, <1>4

\* The reply to the last request is what the page is set to; any other is either
\* outdone already or leaves the last one under way.
LEMMA ReplyKeeps ==
  ASSUME ListInv, NEW l \in loads, NEW w \in L!Since(l), L!Reply(l, w)
  PROVE  ListInv'
<1> DEFINE K == IF L!Has("sheet") THEN asked.key ELSE l.q.key
           P == L!Page(l.q, w)
<1>1. /\ ListTyped /\ ListNumbered /\ ListLoads /\ ListFollowed /\ PickedIsThere
      /\ asked \in ListAsks /\ world \in Worlds /\ world.added \in Nat /\ kind \in L!Kinds
  BY DEF ListInv, ListTyped, Worlds
<1>2. /\ loads' = loads \ {l}
      /\ asked' = IF L!Has("replied") THEN [asked EXCEPT !.page = l.q.page] ELSE asked
      /\ rows' = [rows EXCEPT ![K] = [q |-> l.q, rows |-> P]]
      /\ total' = Stock + w.added
      /\ picked' = IF picked \in L!ToSet(P) THEN picked ELSE None
      /\ order' = [order EXCEPT !.shown = IF l.no > @ THEN l.no ELSE @]
      /\ strayed \subseteq strayed' /\ strayed' \subseteq strayed \cup {"overtaken", "outrun"}
      /\ l.no < order.shown => "overtaken" \in strayed'
      /\ UNCHANGED <<kind, world, draft, pushed>>
  BY DEF L!Reply, L!Shows
<1>3. /\ l.since \in Worlds /\ l.since.added <= world.added /\ l.since.added \in Nat
      /\ Reaches(l.q, l.since.added, strayed)
  BY <1>1 DEF ListLoads, Worlds
<1>4. /\ w \in Worlds /\ w.added \in Nat /\ l.since.added <= w.added /\ w.added <= world.added
      /\ l.since = world => w = world
  BY <1>1, <1>3, SinceIs DEF Worlds
<1>5. Reaches(l.q, w.added, strayed) /\ Reaches(l.q, world.added, strayed)
  BY <1>1, <1>3, <1>4, ReachesOn
<1>6. l.q.page \in Nat \ {0} /\ l.q.size \in {1, 2}
  BY <1>5 DEF Reaches
<1>7. /\ asked' \in ListAsks /\ asked'.key = asked.key /\ asked'.size = asked.size
      /\ asked'.filter = asked.filter /\ asked'.open = asked.open
      /\ L!Has("replied") => asked'.page = l.q.page
  BY <1>1, <1>2, <1>6 DEF ListAsks
<1>8. L!Has("replied") => asked.size = 1 /\ l.q.size = 1
  BY <1>1 DEF ListLoads
<1>9. Reaches(asked', world.added, strayed')
  <2>1. CASE L!Has("replied")
    BY <1>2, <1>5, <1>7, <1>8, <2>1 DEF Reaches
  <2>2. CASE ~L!Has("replied")
    BY <1>1, <1>2, <2>2 DEF ListTyped, Reaches
  <2>3. QED
    BY <2>1, <2>2
<1>10. DOMAIN rows' = Keys
  BY <1>1, <1>2 DEF ListTyped
<1>11. total' \in Int /\ total' <= Stock + world.added
  BY <1>1, <1>2, <1>4, ListFits
<1>12. ListTyped'
  BY <1>1, <1>2, <1>7, <1>9, <1>10, <1>11, KindStays DEF ListTyped
<1>13. /\ order' = [sent |-> order.sent, shown |-> IF l.no > order.shown THEN l.no ELSE order.shown]
       /\ l.no \in Nat /\ order.sent \in Nat /\ order.shown \in Nat /\ l.no <= order.sent
       /\ order.shown <= order.sent /\ l.no # order.shown
       /\ \A m \in loads' : m \in loads /\ m.no # l.no
  BY <1>1, <1>2 DEF ListNumbered
<1>14. order'.sent = order.sent /\ order'.shown = IF l.no > order.shown THEN l.no ELSE order.shown
  BY <1>13
<1>15. ListNumbered'
  <2>1. order'.shown \in Nat /\ order'.shown <= order'.sent /\ order'.sent \in Nat
    BY <1>13, <1>14
  <2>2. order' = [sent |-> order'.sent, shown |-> order'.shown]
    BY <1>13
  <2>3. \A m \in loads' : m.no \in Nat /\ m.no <= order'.sent /\ m.no # order'.shown
    BY <1>1, <1>13, <1>14 DEF ListNumbered
  <2>4. \A m, n \in loads' : m.no = n.no => m = n
    BY <1>1, <1>13 DEF ListNumbered
  <2>5. L!Has("drops") => \A m \in loads' : m.no = order'.sent
    BY <1>1, <1>13, <1>14 DEF ListNumbered
  <2>6. QED
    BY <1>2, <2>1, <2>2, <2>3, <2>4, <2>5, KindStays DEF ListNumbered
<1>16. ListLoads'
  <2>1. \A m \in loads' : m \in loads
    BY <1>13
  <2>2. \A m \in loads : Reaches(m.q, m.since.added, strayed')
    BY <1>1, <1>2 DEF ListLoads, Reaches
  <2>3. QED
    BY <1>1, <1>2, <1>7, <2>1, <2>2, KindStays DEF ListLoads
<1>17. ASSUME asked'.open, Calm' PROVE (ListPending \/ ListShown)'
  <2>1. Calm /\ (L!Has("drops") \/ ~(l.no < order.shown))
    BY <1>2, <1>17, KindStays DEF Calm
  <2>2. asked.open
    BY <1>7, <1>17
  <2>3. ~ListShown
    <3>1. L!Has("drops") => l.no = order.sent
      BY <1>1 DEF ListNumbered
    <3>2. QED
      BY <1>13, <2>1, <3>1 DEF ListShown
  <2>4. PICK m \in loads :
          /\ m.no = order.sent
          /\ m.q = L!Query(asked) \/ (L!Has("replied") /\ m.q = L!Query([asked EXCEPT !.page = m.q.page]))
          /\ L!Has("listens") /\ ~pushed => m.since = world
    BY <1>1, <2>1, <2>2, <2>3 DEF ListFollowed, ListPending
  <2>5. CASE m # l
    <3>1. m \in loads' /\ m.no = order'.sent
      BY <1>2, <1>14, <2>4, <2>5
    <3>2. ~L!Has("replied") => m.q = L!Query(asked')
      BY <1>2, <2>4
    <3>3. L!Has("replied") => m.q = L!Query([asked' EXCEPT !.page = m.q.page])
      BY <1>1, <1>2, <1>7, <2>4 DEF L!Query, ListAsks
    <3>4. QED
      BY <1>2, <2>4, <3>1, <3>2, <3>3, KindStays DEF ListPending
  <2>6. CASE m = l
    <3>1. l.q.key = asked.key /\ K = asked.key
      BY <1>1, <2>4, <2>6 DEF L!Query, ListAsks
    <3>2. asked.key \in DOMAIN rows
      BY <1>1 DEF ListAsks, ListTyped
    <3>3. rows'[asked'.key] = [q |-> l.q, rows |-> P]
      BY <1>2, <1>7, <3>1, <3>2
    <3>4. order'.shown = order'.sent
      BY <1>13, <1>14, <2>4, <2>6
    <3>5. l.q = L!Query(asked')
      <4>1. CASE L!Has("replied")
        BY <1>1, <1>7, <2>4, <2>6, <4>1 DEF L!Query, ListAsks
      <4>2. CASE ~L!Has("replied")
        BY <1>2, <2>4, <2>6, <4>2
      <4>3. QED
        BY <4>1, <4>2
    <3>6. L!Has("listens") /\ ~pushed => P = L!Page(L!Query(asked'), world)
      BY <1>4, <2>4, <2>6, <3>5
    <3>7. Stock > 0 /\ "resized" \notin strayed' => P # <<>>
      BY <1>2, <1>4, <1>5, PageIs
    <3>8. QED
      BY <1>2, <3>3, <3>4, <3>5, <3>6, <3>7, KindStays DEF ListShown
  <2>7. QED
    BY <2>5, <2>6
<1>18. ListFollowed'
  BY <1>17 DEF ListFollowed
<1>19. PickedIsThere'
  <2>1. ASSUME L!Has("drops") PROVE picked' = None \/ picked' \in L!ToSet(rows'[asked'.key].rows)
    <3>1. K = asked.key /\ asked.key \in DOMAIN rows
      BY <1>1, <2>1, KindIs DEF ListAsks, ListTyped
    <3>2. rows'[asked'.key] = [q |-> l.q, rows |-> P]
      BY <1>2, <1>7, <3>1
    <3>3. QED
      BY <1>2, <3>2
  <2>2. QED
    BY <1>2, <2>1, KindStays DEF PickedIsThere
<1>20. QED
  BY <1>12, <1>15, <1>16, <1>18, <1>19 DEF ListInv

LEMMA ListsInit ==
  ASSUME L!Init
  PROVE  ListInv
<1>1. /\ kind \in L!Kinds /\ world = [added |-> 0, rev |-> 0]
      /\ asked = [key |-> L!AKey, filter |-> First, size |-> 1, page |-> 1, open |-> ~L!Has("sheet")]
      /\ draft = First /\ rows = [k \in Keys |-> L!NoRows] /\ total = 0 /\ picked = None
      /\ loads = IF L!Has("sheet") THEN {} ELSE {[no |-> 1, q |-> L!Query(asked), since |-> world]}
      /\ order = [sent |-> 1, shown |-> 0] /\ pushed = FALSE
  BY DEF L!Init
<1>2. L!AKey \in Keys
  BY ListFits DEF L!AKey
<1>3. world \in Worlds /\ world.added = 0
  BY <1>1 DEF Worlds
<1>4. PICK o \in BOOLEAN : o <=> ~L!Has("sheet")
  OBVIOUS
<1>5. asked = [key |-> L!AKey, filter |-> First, size |-> 1, page |-> 1, open |-> o]
  BY <1>1, <1>4
<1>6. /\ asked \in ListAsks /\ asked.page = 1 /\ asked.size = 1 /\ asked.key = L!AKey
      /\ L!Query(asked).page = 1 /\ L!Query(asked).size = 1
  BY <1>2, <1>5 DEF ListAsks, L!Query
<1>7. Reaches(asked, world.added, strayed) /\ Reaches(L!Query(asked), world.added, strayed)
  BY <1>6 DEF Reaches
<1>8. ListTyped
  <2>1. pushed \in BOOLEAN /\ draft \in Filters \cup {First} /\ DOMAIN rows = Keys
    BY <1>1
  <2>2. total \in Int /\ total <= Stock + world.added
    BY <1>1, <1>3, ListFits
  <2>3. QED
    BY <1>1, <1>3, <1>6, <1>7, <2>1, <2>2 DEF ListTyped
<1>9. ListNumbered
  <2>1. \A l \in loads : l.no = 1
    BY <1>1
  <2>2. \A l, m \in loads : l = m
    BY <1>1
  <2>3. order.sent = 1 /\ order.shown = 0
    BY <1>1
  <2>4. QED
    BY <1>1, <2>1, <2>2, <2>3 DEF ListNumbered
<1>10. ListLoads
  <2>1. \A l \in loads : l.q = L!Query(asked) /\ l.since = world
    BY <1>1
  <2>2. QED
    BY <1>3, <1>6, <1>7, <2>1 DEF ListLoads
<1>11. ListFollowed
  <2>1. asked.open <=> ~L!Has("sheet")
    BY <1>1
  <2>2. ASSUME ~L!Has("sheet") PROVE ListPending
    <3>1. PICK l : l = [no |-> 1, q |-> L!Query(asked), since |-> world]
      OBVIOUS
    <3>2. l \in loads /\ l.no = order.sent /\ l.q = L!Query(asked) /\ l.since = world
      BY <1>1, <2>2, <3>1
    <3>3. QED
      BY <3>2 DEF ListPending
  <2>3. QED
    BY <2>1, <2>2 DEF ListFollowed
<1>12. PickedIsThere
  BY <1>1 DEF PickedIsThere
<1>13. QED
  BY <1>8, <1>9, <1>10, <1>11, <1>12 DEF ListInv

LEMMA ListsStep ==
  ASSUME ListInv, [L!Next]_lists
  PROVE  ListInv'
<1>1. CASE UNCHANGED lists
  <2>1. UNCHANGED <<kind, world, asked, draft, rows, total, picked, loads, order, pushed, strayed>>
    BY <1>1 DEF lists
  <2>2. /\ ListTyped' <=> ListTyped
        /\ ListNumbered' <=> ListNumbered
        /\ ListLoads' <=> ListLoads
    BY <2>1, KindStays DEF ListTyped, ListNumbered, ListLoads
  <2>3. (ListPending' <=> ListPending) /\ (ListShown' <=> ListShown)
    BY <2>1, KindStays DEF ListPending, ListShown
  <2>4. (ListFollowed' <=> ListFollowed) /\ (PickedIsThere' <=> PickedIsThere)
    BY <2>1, <2>3, KindStays DEF ListFollowed, PickedIsThere, Calm
  <2>5. QED
    BY <2>2, <2>4 DEF ListInv
<1>2. CASE L!Next
  BY <1>2, SetsKeep, AsksKeep, SheetKeeps, ChangeKeeps, FailureKeeps, ReplyKeeps DEF L!Next
<1>3. QED
  BY <1>1, <1>2

LEMMA ListsShow ==
  ASSUME ListInv
  PROVE  L!ShowsWhatIsAsked
<1>1. ASSUME L!Quiet, L!Untouched(IF L!Has("drops") THEN {"failed"} ELSE {"failed", "overtaken"})
      PROVE  /\ rows[asked.key].q = L!Query(asked)
             /\ L!Has("listens") => rows[asked.key].rows = L!Page(L!Query(asked), world)
             /\ Stock > 0 /\ rows[asked.key].rows = <<>> => "resized" \in strayed
  <2>1. Calm
    BY <1>1 DEF L!Untouched, Calm
  <2>2. asked.open /\ loads = {} /\ ~pushed
    BY <1>1 DEF L!Quiet
  <2>3. ListShown
    BY <2>1, <2>2 DEF ListInv, ListFollowed, ListPending
  <2>4. QED
    BY <2>2, <2>3 DEF ListShown
<1>2. L!Has("drops") /\ picked # None /\ "failed" \notin strayed => picked \in L!ToSet(rows[asked.key].rows)
  BY DEF ListInv, PickedIsThere
<1>3. QED
  BY <1>1, <1>2 DEF L!ShowsWhatIsAsked

------------------------------------------------------------------------------
(* The list accumulated on a phone.  It is a run of rows, without gaps and without
   rows twice, that every reply to come begins within or right behind: the page
   shown last is part of it, and rows that are added later only move a page up. *)
Begins(q, w) == (q.page - 1) * q.size - w.added

\* A sequence of the rows after lo up to hi, of what a asks for.
IsRun(s, a, lo, hi) ==
  /\ lo \in Int /\ hi \in Int /\ lo <= hi
  /\ DOMAIN s = 1..hi - lo /\ s = [i \in DOMAIN s |-> s[i]]
  /\ \A i \in DOMAIN s : s[i].key = a.key /\ s[i].filter = a.filter /\ s[i].n = lo + i

Past == [added : 0..world.added, rev : 0..world.rev]
Smooth == L!Untouched({"failed", "overtaken", "hurried", "jumped", "resized", "outrun"})

\* When the last request has been answered its reply is what the page shows.
LastShown ==
  Calm /\ order.shown = order.sent =>
    \E w \in Past : /\ rows[asked.key].q = L!Query(asked)
                    /\ rows[asked.key].rows = L!Page(L!Query(asked), w)
                    /\ total = Stock + w.added

\* The rows after lo up to hi are accumulated, and every reply to come continues them.
ScrolledTo(lo, hi) ==
  /\ lo < hi /\ IsRun(mobile, asked, lo, hi)
  /\ Begins(asked, world) <= hi
  /\ \A l \in loads : l.q = L!Query(asked) /\ Begins(asked, l.since) <= hi
  /\ \A i \in DOMAIN rows[asked.key].rows :
       /\ rows[asked.key].rows[i].key = asked.key /\ rows[asked.key].rows[i].filter = asked.filter
       /\ rows[asked.key].rows[i].n \in lo + 1..hi

ScrollHolds ==
  /\ asked.open /\ LastShown
  /\ asked.page = 1 => mobile = rows[asked.key].rows
  /\ phone /\ Smooth /\ asked.page > 1 => \E lo, hi \in Int : ScrolledTo(lo, hi)
  /\ loading => loads # {}
  /\ L!Has("tells") => armed \/ loading

ScrollInv == (phone => L!Has("scrolls")) /\ (L!Has("scrolls") => ScrollHolds)

------------------------------------------------------------------------------
LEMMA CountsAlike == \A S : L!Cardinality(S) = Cardinality(S)
  BY DEF L!Cardinality, Cardinality

\* A page is one.
LEMMA PageRuns ==
  ASSUME NEW q, q.page \in Nat \ {0}, q.size \in {1, 2}, NEW w \in Worlds
  PROVE  /\ Begins(q, w) \in Int
         /\ \E m \in 0..q.size :
              /\ IsRun(L!Page(q, w), q, Begins(q, w), Begins(q, w) + m)
              /\ q.page * q.size < Stock + w.added => m = q.size
<1>1. PICK before \in Int : before = (q.page - 1) * q.size
  OBVIOUS
<1>2. q.page * q.size = before + q.size
  BY <1>1
<1>3. w.added \in Nat
  BY DEF Worlds
<1>4. PICK there \in Int : there = Stock + w.added - before
  BY <1>1, <1>3, ListFits
<1>5. PICK k \in Int : k = L!Min({q.size, there}) /\ (k = q.size \/ k = there) /\ k <= q.size /\ k <= there
  BY <1>4 DEF L!Min
<1>6. PICK m \in Int : m = L!Max({0, k}) /\ (m = 0 \/ m = k) /\ 0 <= m /\ k <= m
  BY <1>5 DEF L!Max
<1>7. m \in 0..q.size
  BY <1>5, <1>6
<1>8. L!Page(q, w) = [n \in 1..m |-> [key |-> q.key, filter |-> q.filter, n |-> before + n - w.added, rev |-> w.rev]]
  BY <1>1, <1>4, <1>5, <1>6 DEF L!Page
<1>9. Begins(q, w) = before - w.added /\ Begins(q, w) \in Int
  BY <1>1, <1>3 DEF Begins
<1>10. IsRun(L!Page(q, w), q, Begins(q, w), Begins(q, w) + m)
  <2>1. Begins(q, w) + m \in Int /\ Begins(q, w) <= Begins(q, w) + m /\ (Begins(q, w) + m) - Begins(q, w) = m
    BY <1>7, <1>9
  <2>2. DOMAIN L!Page(q, w) = 1..m
    BY <1>8
  <2>3. L!Page(q, w) = [i \in DOMAIN L!Page(q, w) |-> L!Page(q, w)[i]]
    BY <1>8
  <2>4. ASSUME NEW i \in 1..m
        PROVE  /\ L!Page(q, w)[i].key = q.key /\ L!Page(q, w)[i].filter = q.filter
               /\ L!Page(q, w)[i].n = Begins(q, w) + i
    <3>1. L!Page(q, w)[i].key = q.key /\ L!Page(q, w)[i].filter = q.filter /\ L!Page(q, w)[i].n = before + i - w.added
      BY <1>8
    <3>2. before + i - w.added = Begins(q, w) + i
      BY <1>1, <1>3, <1>7, <1>9
    <3>3. QED
      BY <3>1, <3>2
  <2>5. QED
    BY <1>9, <2>1, <2>2, <2>3, <2>4 DEF IsRun
<1>11. q.page * q.size < Stock + w.added => m = q.size
  BY <1>2, <1>3, <1>4, <1>5, <1>6, ListFits
<1>12. QED
  BY <1>7, <1>9, <1>10, <1>11

LEMMA IsItsElements ==
  ASSUME NEW S, NEW s \in Seq(S)
  PROVE  s = [i \in DOMAIN s |-> s[i]]
  OBVIOUS

\* Appending to a sequence, element by element.
LEMMA Appended ==
  ASSUME NEW s, NEW c \in Nat, NEW d \in Nat, s = [i \in DOMAIN s |-> s[i]], DOMAIN s = 1..c,
         NEW t, t = [i \in DOMAIN t |-> t[i]], DOMAIN t = 1..d
  PROVE  /\ s \o t = [i \in DOMAIN (s \o t) |-> (s \o t)[i]]
         /\ DOMAIN (s \o t) = 1..c + d
         /\ \A i \in 1..c : (s \o t)[i] = s[i]
         /\ \A i \in c + 1..c + d : (s \o t)[i] = t[i - c]
         /\ d = 0 => s \o t = s
<1> DEFINE S == {s[i] : i \in 1..c} \cup {t[i] : i \in 1..d}
<1>1. s \in Seq(S) /\ Len(s) = c
  <2>1. \A i \in 1..c : s[i] \in S
    OBVIOUS
  <2>2. QED
    BY <2>1
<1>2. t \in Seq(S) /\ Len(t) = d
  <2>1. \A i \in 1..d : t[i] \in S
    OBVIOUS
  <2>2. QED
    BY <2>1
<1> HIDE DEF S
<1>3. s \o t \in Seq(S) /\ Len(s \o t) = c + d
  BY <1>1, <1>2
<1>4. DOMAIN (s \o t) = 1..c + d /\ s \o t = [i \in DOMAIN (s \o t) |-> (s \o t)[i]]
  <2>1. DOMAIN (s \o t) = 1..Len(s \o t)
    BY <1>3
  <2>2. s \o t = [i \in DOMAIN (s \o t) |-> (s \o t)[i]]
    BY <1>3, IsItsElements
  <2>3. QED
    BY <1>3, <2>1, <2>2
<1>5. \A i \in 1..c : (s \o t)[i] = s[i]
  BY <1>1, <1>2
<1>6. \A i \in c + 1..c + d : (s \o t)[i] = t[i - c]
  BY <1>1, <1>2
<1>7. ASSUME d = 0 PROVE s \o t = s
  <2>1. DOMAIN (s \o t) = DOMAIN s
    BY <1>4, <1>7
  <2>2. \A i \in DOMAIN s : (s \o t)[i] = s[i]
    BY <1>5
  <2>3. s \o t = [i \in DOMAIN s |-> (s \o t)[i]]
    BY <1>4, <2>1
  <2>4. [i \in DOMAIN s |-> (s \o t)[i]] = [i \in DOMAIN s |-> s[i]]
    BY <2>2
  <2>5. QED
    BY <2>3, <2>4
<1>8. QED
  BY <1>4, <1>5, <1>6, <1>7

\* Merging a page that begins within, or right after, the rows that are there.
LEMMA Merges ==
  ASSUME NEW a, NEW lo, NEW hi, NEW s, IsRun(s, a, lo, hi),
         NEW from, NEW to, NEW t, IsRun(t, a, from, to),
         lo <= from \/ from = to, from <= hi
  PROVE  \E top \in Int : /\ hi <= top /\ to <= top
                          /\ IsRun(L!mergeUniqueRows(s, t), a, lo, top)
<1>0. PICK c, m : c = hi - lo /\ m = to - from
  OBVIOUS
<1> DEFINE new == {i \in DOMAIN t : ~ \E j \in DOMAIN s : L!Same(s[j], t[i])}
           Nth(k) == CHOOSE i \in new : L!Cardinality({j \in new : j <= i}) = k
           u == [k \in 1..L!Cardinality(new) |-> t[Nth(k)]]
<1>1. /\ lo \in Int /\ hi \in Int /\ from \in Int /\ to \in Int /\ c \in Nat /\ m \in Nat
      /\ hi = lo + c /\ to = from + m
  BY <1>0 DEF IsRun
<1>2. /\ DOMAIN s = 1..c /\ s = [i \in DOMAIN s |-> s[i]]
      /\ \A i \in 1..c : s[i].key = a.key /\ s[i].filter = a.filter /\ s[i].n = lo + i
  BY <1>0 DEF IsRun
<1>3. /\ DOMAIN t = 1..m /\ t = [i \in DOMAIN t |-> t[i]]
      /\ \A i \in 1..m : t[i].key = a.key /\ t[i].filter = a.filter /\ t[i].n = from + i
  BY <1>0 DEF IsRun
<1>4. PICK d \in Nat : d = IF m <= hi - from THEN m ELSE hi - from
  <2>1. hi - from \in Nat
    BY <1>1
  <2>2. QED
    BY <1>1, <2>1
<1>5. PICK e \in Nat : e = m - d
  BY <1>1, <1>4
<1>6. new = d + 1..m
  <2>1. ASSUME NEW i \in 1..m PROVE (\E j \in 1..c : L!Same(s[j], t[i])) <=> i <= d
    <3>1. ASSUME i <= d PROVE \E j \in 1..c : L!Same(s[j], t[i])
      <4>1. PICK j \in Int : j = from + i - lo
        BY <1>1, <2>1
      <4>2. from <= hi /\ (lo <= from \/ m = 0)
        BY <1>1
      <4>3. j \in 1..c /\ lo + j = from + i
        BY <1>1, <1>4, <2>1, <3>1, <4>1, <4>2
      <4>4. s[j].n = t[i].n /\ s[j].key = t[i].key /\ s[j].filter = t[i].filter
        BY <1>2, <1>3, <2>1, <4>3
      <4>5. QED
        BY <4>3, <4>4 DEF L!Same
    <3>2. ASSUME NEW j \in 1..c, L!Same(s[j], t[i]) PROVE i <= d
      <4>1. lo + j = from + i
        BY <1>2, <1>3, <2>1, <3>2 DEF L!Same
      <4>2. QED
        BY <1>1, <1>4, <2>1, <3>2, <4>1
    <3>3. QED
      BY <3>1, <3>2
  <2>2. new = {i \in 1..m : ~ (i <= d)}
    BY <1>2, <1>3, <2>1
  <2>3. {i \in 1..m : ~ (i <= d)} = d + 1..m
    BY <1>1, <1>4
  <2>4. QED
    BY <2>2, <2>3
<1> HIDE DEF new
<1>7. L!Cardinality(new) = e
  <2>1. d + 1 \in Int /\ m \in Int /\ (IF d + 1 > m THEN 0 ELSE m - (d + 1) + 1) = e
    BY <1>1, <1>5
  <2>2. L!Cardinality(d + 1..m) = IF d + 1 > m THEN 0 ELSE m - (d + 1) + 1
    BY <2>1, FS_Interval, CountsAlike
  <2>3. QED
    BY <1>6, <2>1, <2>2
<1>8. ASSUME NEW k \in 1..e PROVE Nth(k) = d + k
  <2>1. ASSUME NEW i \in new PROVE L!Cardinality({j \in new : j <= i}) = i - d
    <3>1. i \in d + 1..m
      BY <1>6, <2>1
    <3>2. {j \in new : j <= i} = d + 1..i
      BY <1>1, <1>6, <3>1
    <3>3. L!Cardinality(d + 1..i) = i - d
      <4>1. d + 1 \in Int /\ i \in Int /\ (IF d + 1 > i THEN 0 ELSE i - (d + 1) + 1) = i - d
        BY <1>1, <3>1
      <4>2. L!Cardinality(d + 1..i) = IF d + 1 > i THEN 0 ELSE i - (d + 1) + 1
        BY <4>1, FS_Interval, CountsAlike
      <4>3. QED
        BY <4>1, <4>2
    <3>4. QED
      BY <3>2, <3>3
  <2>2. d + k \in new /\ L!Cardinality({j \in new : j <= d + k}) = k
    <3>1. d + k \in new
      BY <1>1, <1>5, <1>6, <1>8
    <3>2. (d + k) - d = k
      BY <1>8
    <3>3. QED
      BY <2>1, <3>1, <3>2
  <2>3. \A i \in new : L!Cardinality({j \in new : j <= i}) = k => i = d + k
    <3>1. \A i \in new : i \in Int
      BY <1>1, <1>6
    <3>2. QED
      BY <1>8, <2>1, <3>1
  <2>4. QED
    BY <2>2, <2>3
<1> HIDE DEF Nth
<1>9. L!mergeUniqueRows(s, t) = s \o u
  BY DEF L!mergeUniqueRows, new, Nth
<1>10. DOMAIN u = 1..e /\ u = [k \in DOMAIN u |-> u[k]] /\ \A k \in 1..e : u[k] = t[d + k]
  BY <1>7, <1>8
<1> HIDE DEF u
<1>11. /\ s \o u = [i \in DOMAIN (s \o u) |-> (s \o u)[i]]
       /\ DOMAIN (s \o u) = 1..c + e
       /\ \A i \in 1..c : (s \o u)[i] = s[i]
       /\ \A i \in c + 1..c + e : (s \o u)[i] = u[i - c]
  <2>1. c \in Nat /\ s = [i \in DOMAIN s |-> s[i]] /\ DOMAIN s = 1..c
    BY <1>1, <1>2
  <2>2. u = [k \in DOMAIN u |-> u[k]] /\ DOMAIN u = 1..e
    BY <1>10
  <2>3. QED
    BY <2>1, <2>2, Appended
<1>12. PICK r : r = s \o u
  OBVIOUS
<1>13. PICK top \in Int : top = hi + e
  BY <1>1
<1>14. hi <= top /\ top - lo = c + e /\ lo <= top
  BY <1>1, <1>13
<1>15. to <= top
  BY <1>1, <1>4, <1>5, <1>13
<1>16. ASSUME NEW i \in 1..c + e
       PROVE  r[i].key = a.key /\ r[i].filter = a.filter /\ r[i].n = lo + i
  <2>1. CASE i <= c
    <3>1. i \in 1..c
      BY <1>1, <2>1
    <3>2. QED
      BY <1>2, <1>11, <1>12, <3>1
  <2>2. CASE ~(i <= c)
    <3>1. PICK k \in 1..e : k = i - c /\ i \in c + 1..c + e
      BY <1>1, <2>2
    <3>2. PICK j \in 1..m : j = d + k
      BY <1>1, <1>5, <3>1
    <3>3. r[i] = t[j]
      BY <1>10, <1>11, <1>12, <3>1, <3>2
    <3>4. r[i].key = a.key /\ r[i].filter = a.filter /\ r[i].n = from + j
      BY <1>3, <3>2, <3>3
    <3>5. d = hi - from
      BY <1>1, <1>4, <1>5, <3>1
    <3>6. from + j = lo + i
      BY <1>1, <3>1, <3>2, <3>5
    <3>7. QED
      BY <3>4, <3>6
  <2>3. QED
    BY <2>1, <2>2
<1>17. IsRun(r, a, lo, top)
  BY <1>1, <1>11, <1>12, <1>13, <1>14, <1>16 DEF IsRun
<1>18. QED
  BY <1>9, <1>12, <1>14, <1>15, <1>17

\* Rows that are there are not added again.
LEMMA MergesNothing ==
  ASSUME NEW a, NEW lo, NEW hi, NEW s, IsRun(s, a, lo, hi), NEW t,
         \A i \in DOMAIN t : t[i].key = a.key /\ t[i].filter = a.filter /\ t[i].n \in lo + 1..hi
  PROVE  L!mergeUniqueRows(s, t) = s
<1> DEFINE new == {i \in DOMAIN t : ~ \E j \in DOMAIN s : L!Same(s[j], t[i])}
           Nth(k) == CHOOSE i \in new : L!Cardinality({j \in new : j <= i}) = k
           u == [k \in 1..L!Cardinality(new) |-> t[Nth(k)]]
<1>1. /\ lo \in Int /\ hi \in Int /\ hi - lo \in Nat
      /\ DOMAIN s = 1..hi - lo /\ s = [i \in DOMAIN s |-> s[i]]
      /\ \A i \in 1..hi - lo : s[i].key = a.key /\ s[i].filter = a.filter /\ s[i].n = lo + i
  BY DEF IsRun
<1>2. ASSUME NEW i \in DOMAIN t PROVE \E j \in DOMAIN s : L!Same(s[j], t[i])
  <2>1. PICK j \in Int : j = t[i].n - lo
    BY <1>1, <1>2
  <2>2. j \in 1..hi - lo /\ lo + j = t[i].n
    BY <1>1, <1>2, <2>1
  <2>3. QED
    BY <1>1, <1>2, <2>2 DEF L!Same
<1>3. new = {}
  BY <1>2
<1> HIDE DEF new
<1>4. L!Cardinality(new) = 0
  BY <1>3, FS_EmptySet, CountsAlike
<1>5. L!mergeUniqueRows(s, t) = s \o u
  BY DEF L!mergeUniqueRows, new
<1>6. DOMAIN u = 1..0 /\ u = [k \in DOMAIN u |-> u[k]]
  BY <1>4
<1> HIDE DEF u
<1>7. QED
  BY <1>1, <1>5, <1>6, Appended

LEMMA ScrollingIs ==
  ASSUME kind \in L!Kinds, L!Has("scrolls")
  PROVE  ~L!Has("sheet") /\ ~L!Has("drops") /\ ~L!Has("replied")
  BY DEF L!Kinds, L!Has, L!F, L!AuditLogs, L!Downloads, L!DownloadTable, L!JobRuns, L!TenantOptions

LEMMA ScrollingStays ==
  ASSUME kind' = kind
  PROVE  (L!Has("scrolls")' <=> L!Has("scrolls")) /\ (L!Has("tells")' <=> L!Has("tells"))
  BY DEF L!Has, L!F

\* The product of two numbers is a number.
LEMMA BeginsIs ==
  ASSUME NEW q, q.page \in Nat, q.size \in {1, 2}, NEW v, NEW w, v.added \in Nat, w.added \in Nat,
         v.added <= w.added
  PROVE  Begins(q, v) \in Int /\ Begins(q, w) \in Int /\ Begins(q, w) <= Begins(q, v)
<1>1. PICK before \in Int : before = (q.page - 1) * q.size
  OBVIOUS
<1>2. QED
  BY <1>1 DEF Begins

\* What the first page asks for accumulates nothing else.
LEMMA Restarts ==
  ASSUME L!Has("scrolls"), NEW a, a.page \in Nat, NEW rs
  PROVE  /\ a.page = 1 => L!Accumulated(a, rs) = rs[a.key].rows
         /\ a.page > 1 /\ a.key = asked.key /\ a.filter = asked.filter /\ a.size = asked.size
              => L!Accumulated(a, rs) = L!mergeUniqueRows(mobile, rs[a.key].rows)
  BY DEF L!Accumulated

LEMMA SetScrolls ==
  ASSUME ListInv, ScrollHolds, L!Has("scrolls"), NEW a \in ListAsks, NEW arm, L!Set(a, arm),
         a.open, phone' = phone,
         phone /\ Smooth' /\ a.page > 1 => \E lo, hi \in Int : ScrolledTo(lo, hi)'
  PROVE  ScrollHolds'
<1>1. /\ asked' = a /\ rows' = rows /\ loading' = TRUE /\ mobile' = L!Accumulated(a, rows) /\ kind' = kind
      /\ L!Asks(L!Query(a))
  BY DEF L!Set, L!Shows
<1>2. ListNumbered
  BY DEF ListInv
<1>3. /\ order'.sent = order.sent + 1 /\ order'.shown = order.shown /\ loads' # {}
      /\ order.sent \in Nat /\ order.shown \in Nat /\ order.shown <= order.sent
  BY <1>1, <1>2 DEF L!Asks, ListNumbered
<1>4. LastShown'
  <2>1. ~(order'.shown = order'.sent)
    BY <1>3
  <2>2. QED
    BY <2>1 DEF LastShown
<1>5. a.page = 1 => mobile' = rows'[a.key].rows
  BY <1>1, Restarts DEF ListAsks
<1>6. QED
  BY <1>1, <1>3, <1>4, <1>5 DEF ScrollHolds

\* A list that is scrolled on is at rest: the last page is what it shows.
LEMMA LoadMoreScrolls ==
  ASSUME ListInv, ScrollHolds, L!Has("scrolls"), NEW arm, L!LoadMore(arm)
  PROVE  ScrollHolds'
<1> DEFINE a == [asked EXCEPT !.page = @ + 1]
           P == rows[asked.key].rows
<1>1. /\ ListTyped /\ ListNumbered /\ ListFollowed /\ asked \in ListAsks /\ world \in Worlds
      /\ world.added \in Nat /\ total \in Int /\ kind \in L!Kinds
  BY DEF ListInv, ListTyped, Worlds
<1>2. asked.page \in Nat \ {0} /\ asked.size \in {1, 2} /\ asked.open
  BY <1>1 DEF ListAsks, ScrollHolds
<1>3. /\ phone /\ phone' = phone /\ asked.page * asked.size < total /\ L!Set(a, arm)
      /\ strayed' = IF loads # {} THEN strayed \cup {"hurried"} ELSE strayed
  BY DEF L!LoadMore, L!HasMore, L!Set
<1>4. /\ a \in ListAsks /\ a.page = asked.page + 1 /\ a.size = asked.size /\ a.key = asked.key
      /\ a.filter = asked.filter /\ a.open = asked.open
  <2>1. asked.page + 1 \in Nat \ {0}
    BY <1>2
  <2>2. a = [asked EXCEPT !.page = asked.page + 1]
    OBVIOUS
  <2> HIDE DEF a
  <2>3. QED
    BY <1>1, <2>1, <2>2 DEF ListAsks
<1> HIDE DEF a
<1>5. /\ asked' = a /\ rows' = rows /\ mobile' = L!Accumulated(a, rows) /\ world' = world
      /\ loads' = loads \cup {[no |-> order.sent + 1, q |-> L!Query(a), since |-> world]}
  BY <1>1, <1>3, ScrollingIs DEF L!Set, L!Shows, L!Asks
<1>6. ASSUME Smooth' PROVE \E lo, hi \in Int : ScrolledTo(lo, hi)'
  <2>1. loads = {} /\ Smooth /\ Calm
    BY <1>3, <1>6 DEF Smooth, L!Untouched, Calm
  <2>2. order.shown = order.sent
    BY <1>1, <1>2, <2>1 DEF ListFollowed, ListPending, ListShown
  <2>3. PICK w \in Past : P = L!Page(L!Query(asked), w) /\ total = Stock + w.added
    BY <2>1, <2>2 DEF ScrollHolds, LastShown
  <2>4. w \in Worlds /\ w.added \in Nat /\ w.added <= world.added
    BY <1>1, <2>3 DEF Past, Worlds
  <2>5. L!Query(asked).page = asked.page /\ L!Query(asked).size = asked.size
        /\ L!Query(asked).key = asked.key /\ L!Query(asked).filter = asked.filter
    BY DEF L!Query
  <2>6. PICK from \in Int : /\ from = Begins(asked, w)
                            /\ IsRun(P, asked, from, from + asked.size)
    <3>1. Begins(L!Query(asked), w) = Begins(asked, w)
      BY <2>5 DEF Begins
    <3>2. PICK m \in 0..asked.size :
            /\ IsRun(P, L!Query(asked), Begins(asked, w), Begins(asked, w) + m)
            /\ asked.page * asked.size < Stock + w.added => m = asked.size
      BY <1>2, <2>3, <2>4, <2>5, <3>1, PageRuns
    <3>3. m = asked.size
      BY <1>3, <2>3, <3>2
    <3>4. Begins(asked, w) \in Int
      BY <1>2, <2>4, BeginsIs
    <3>5. IsRun(P, asked, Begins(asked, w), Begins(asked, w) + m)
      BY <2>5, <3>2 DEF IsRun
    <3>6. QED
      BY <3>3, <3>4, <3>5
  <2>7. /\ DOMAIN P = 1..asked.size
        /\ \A i \in DOMAIN P : P[i].key = asked.key /\ P[i].filter = asked.filter /\ P[i].n = from + i
    <3>1. (from + asked.size) - from = asked.size
      BY <1>2
    <3>2. QED
      BY <2>6, <3>1 DEF IsRun
  <2>8. \E lo, hi \in Int :
          /\ lo < hi /\ IsRun(mobile, asked, lo, hi) /\ lo <= from /\ from + asked.size <= hi
    <3>1. CASE asked.page = 1
      <4>1. IsRun(mobile, asked, from, from + asked.size)
        BY <2>6, <3>1 DEF ScrollHolds
      <4>2. from + asked.size \in Int /\ from < from + asked.size
        BY <1>2
      <4>3. QED
        BY <4>1, <4>2
    <3>2. CASE asked.page > 1
      <4>1. PICK lo \in Int, hi \in Int : ScrolledTo(lo, hi)
        BY <1>3, <2>1, <3>2 DEF ScrollHolds
      <4>2. lo < hi /\ IsRun(mobile, asked, lo, hi) /\ \A i \in DOMAIN P : P[i].n \in lo + 1..hi
        BY <4>1 DEF ScrolledTo
      <4>3. 1 \in DOMAIN P /\ asked.size \in DOMAIN P
        BY <1>2, <2>7
      <4>4. from + 1 \in lo + 1..hi /\ from + asked.size \in lo + 1..hi
        BY <2>7, <4>2, <4>3
      <4>5. lo <= from /\ from + asked.size <= hi
        BY <1>2, <4>4
      <4>6. QED
        BY <4>2, <4>5
    <3>3. QED
      BY <1>2, <3>1, <3>2
  <2>9. PICK lo \in Int, hi \in Int :
          /\ lo < hi /\ IsRun(mobile, asked, lo, hi) /\ lo <= from /\ from + asked.size <= hi
    BY <2>8
  <2>10. \A i \in DOMAIN P : P[i].key = asked.key /\ P[i].filter = asked.filter /\ P[i].n \in lo + 1..hi
    BY <1>2, <2>7, <2>9
  <2>11. mobile' = mobile
    <3>1. L!mergeUniqueRows(mobile, P) = mobile
      BY <2>9, <2>10, MergesNothing
    <3>2. a.page \in Nat /\ a.page > 1
      BY <1>2, <1>4
    <3>3. QED
      BY <1>4, <1>5, <3>1, <3>2, Restarts
  <2>12. IsRun(mobile', asked', lo, hi)
    BY <1>4, <1>5, <2>9, <2>11 DEF IsRun
  <2>13. Begins(a, world) <= hi
    <3>1. PICK b \in Int : b = (asked.page - 1) * asked.size
      BY <1>2
    <3>2. (a.page - 1) * a.size = b + asked.size
      BY <1>2, <1>4, <3>1
    <3>3. from = b - w.added
      <4>1. from = (asked.page - 1) * asked.size - w.added
        BY <2>6 DEF Begins
      <4>2. QED
        BY <3>1, <4>1, Zenon
    <3>4. PICK c \in Int : c = (a.page - 1) * a.size
      BY <3>1, <3>2, <1>2
    <3>5. Begins(a, world) = c - world.added /\ c = b + asked.size
      <4>1. Begins(a, world) = c - world.added
        BY <3>4 DEF Begins
      <4>2. c = b + asked.size
        BY <3>2, <3>4
      <4>3. QED
        BY <4>1, <4>2
    <3>6. QED
      BY <1>1, <1>2, <2>4, <2>9, <3>1, <3>3, <3>5
  <2>14. \A l \in loads' : l.q = L!Query(a) /\ l.since = world
    BY <1>5, <2>1
  <2>15. ScrolledTo(lo, hi)'
    BY <1>4, <1>5, <2>9, <2>10, <2>12, <2>13, <2>14 DEF ScrolledTo
  <2>16. QED
    BY <2>15
<1>7. QED
  BY <1>2, <1>3, <1>4, <1>6, SetScrolls

LEMMA SetsScroll ==
  ASSUME ListInv, ScrollHolds, L!Has("scrolls"), L!ChangeFilter \/ L!ChangeSize \/ L!GoToPage
  PROVE  ScrollHolds'
<1>1. asked \in ListAsks /\ asked.page \in Nat \ {0} /\ asked.size \in {1, 2} /\ asked.open
  BY DEF ListInv, ListTyped, ListAsks, ScrollHolds
<1>2. ASSUME NEW a \in ListAsks, L!Set(a, armed), a.open, phone /\ Smooth' => ~(a.page > 1)
      PROVE  ScrollHolds'
  BY <1>2, SetScrolls DEF L!Set
<1>3. ASSUME L!ChangeFilter PROVE ScrollHolds'
  <2>1. PICK k \in Keys, f \in Filters : L!Set([asked EXCEPT !.key = k, !.filter = f, !.page = 1], armed)
    BY <1>3 DEF L!ChangeFilter
  <2>2. PICK a : a = [asked EXCEPT !.key = k, !.filter = f, !.page = 1]
    OBVIOUS
  <2>3. /\ a = [n \in {"key", "filter", "size", "page", "open"} |-> a[n]]
        /\ a["key"] = k /\ a["filter"] = f /\ a["page"] = 1
        /\ a["size"] = asked["size"] /\ a["open"] = asked["open"]
    BY <1>1, <2>2 DEF ListAsks
  <2>4. a \in ListAsks
    BY <1>1, <2>3, AskIs DEF ListAsks
  <2>5. a.open /\ ~(a.page > 1)
    BY <1>1, <2>3
  <2>6. QED
    BY <1>2, <2>1, <2>2, <2>4, <2>5
<1>4. ASSUME L!ChangeSize PROVE ScrollHolds'
  <2>1. PICK a : a = [asked EXCEPT !.size = 3 - @, !.page = IF L!Has("restarts") THEN 1 ELSE @]
    OBVIOUS
  <2>2. /\ L!Set(a, armed)
        /\ strayed' = IF asked.page > 1 /\ ~L!Has("restarts") THEN strayed \cup {"resized"} ELSE strayed
    BY <1>4, <2>1 DEF L!ChangeSize
  <2>3. 3 - asked.size \in {1, 2}
    BY <1>1
  <2>4. PICK p \in Nat \ {0} : p = IF L!Has("restarts") THEN 1 ELSE asked.page
    BY <1>1
  <2>5. /\ a = [n \in {"key", "filter", "size", "page", "open"} |-> a[n]]
        /\ a["key"] = asked["key"] /\ a["filter"] = asked["filter"] /\ a["page"] = p
        /\ a["size"] = 3 - asked["size"] /\ a["open"] = asked["open"]
    BY <1>1, <2>1, <2>4 DEF ListAsks
  <2>6. a \in ListAsks /\ a.page = p /\ a.open
    BY <1>1, <2>3, <2>5, AskIs DEF ListAsks
  <2>7. p > 1 => "resized" \in strayed'
    BY <2>2, <2>4
  <2>8. Smooth' => ~(a.page > 1)
    BY <2>6, <2>7 DEF Smooth, L!Untouched
  <2>9. QED
    BY <1>2, <2>2, <2>6, <2>8
<1>5. ASSUME L!GoToPage PROVE ScrollHolds'
  <2>1. PICK n \in 1..Stock + MaxTurns :
          /\ L!Set([asked EXCEPT !.page = n], armed)
          /\ strayed' = IF phone /\ n > 1 THEN strayed \cup {"jumped"} ELSE strayed
    BY <1>5 DEF L!GoToPage
  <2>2. PICK a : a = [asked EXCEPT !.page = n]
    OBVIOUS
  <2>3. a \in ListAsks /\ a.page = n /\ a.open
    BY <1>1, <2>1, <2>2, ListFits DEF ListAsks
  <2>4. phone /\ Smooth' => ~(a.page > 1)
    BY <2>1, <2>3 DEF Smooth, L!Untouched
  <2>5. QED
    BY <1>2, <2>1, <2>2, <2>3, <2>4
<1>6. QED
  BY <1>3, <1>4, <1>5

LEMMA EventScrolls ==
  ASSUME ListInv, ScrollHolds, L!Has("scrolls"), L!Event
  PROVE  ScrollHolds'
<1>1. /\ L!Asks(L!Query(asked)) /\ UNCHANGED <<kind, phone, world, asked, rows, total, loading, mobile, armed, strayed>>
  BY DEF L!Event
<1>2. ListNumbered /\ kind \in L!Kinds
  BY DEF ListInv, ListTyped
<1>3. /\ order'.sent = order.sent + 1 /\ order'.shown = order.shown /\ loads' # {}
      /\ order.sent \in Nat /\ order.shown \in Nat /\ order.shown <= order.sent
      /\ \A l \in loads' : l \in loads \/ (l.q = L!Query(asked) /\ l.since = world)
  <2>1. /\ order' = [order EXCEPT !.sent = @ + 1]
        /\ loads' = loads \cup {[no |-> order.sent + 1, q |-> L!Query(asked), since |-> world]}
    BY <1>1, <1>2, ScrollingIs DEF L!Asks
  <2>2. order' = [sent |-> order.sent + 1, shown |-> order.shown]
    BY <1>2, <2>1 DEF ListNumbered
  <2>3. PICK new : new = [no |-> order.sent + 1, q |-> L!Query(asked), since |-> world]
    OBVIOUS
  <2>4. new.q = L!Query(asked) /\ new.since = world /\ loads' = loads \cup {new}
    BY <2>1, <2>3
  <2>5. order'.sent = order.sent + 1 /\ order'.shown = order.shown
    BY <2>2
  <2>6. QED
    BY <1>2, <2>4, <2>5 DEF ListNumbered
<1>4. LastShown'
  <2>1. ~(order'.shown = order'.sent)
    BY <1>3
  <2>2. QED
    BY <2>1 DEF LastShown
<1>5. ASSUME NEW lo, NEW hi, ScrolledTo(lo, hi) PROVE ScrolledTo(lo, hi)'
  <2>1. IsRun(mobile', asked', lo, hi)
    BY <1>1, <1>5 DEF ScrolledTo
  <2>2. L!Query(asked') = L!Query(asked) /\ Begins(asked', world') <= hi
    BY <1>1, <1>5 DEF ScrolledTo
  <2>3. ASSUME NEW l \in loads' PROVE l.q = L!Query(asked') /\ Begins(asked', l.since) <= hi
    BY <1>1, <1>3, <1>5, <2>2 DEF ScrolledTo
  <2>4. QED
    BY <1>1, <1>5, <2>1, <2>2, <2>3 DEF ScrolledTo
<1>6. Smooth' => Smooth
  BY <1>1 DEF Smooth, L!Untouched
<1>7. QED
  BY <1>1, <1>3, <1>4, <1>5, <1>6, ScrollingStays DEF ScrollHolds

LEMMA ChangeScrolls ==
  ASSUME ListInv, ScrollHolds, L!Has("scrolls"), L!Change
  PROVE  ScrollHolds'
<1>1. /\ world' = [world EXCEPT !.rev = @ + 1]
         \/ \E n \in Nat : world' = [world EXCEPT !.added = @ + n]
      /\ UNCHANGED <<kind, phone, asked, rows, total, loading, mobile, armed, loads, order, strayed>>
  BY DEF L!Change, L!Burst
<1>2. asked \in ListAsks /\ asked.page \in Nat /\ asked.size \in {1, 2} /\ world \in Worlds
  BY DEF ListInv, ListTyped, ListAsks
<1>3. /\ world.added \in Nat /\ world'.added \in Nat /\ world.added <= world'.added
      /\ world.rev \in Nat /\ world'.rev \in Nat /\ world.rev <= world'.rev
  BY <1>1, <1>2 DEF Worlds
<1>4. \A w \in Past : w \in Past'
  BY <1>3 DEF Past
<1>5. LastShown => LastShown'
  <2>1. (Calm' <=> Calm) /\ (\A w : L!Page(L!Query(asked'), w) = L!Page(L!Query(asked), w))
    BY <1>1, KindStays DEF Calm
  <2>2. QED
    BY <1>1, <1>4, <2>1 DEF LastShown
<1>6. ASSUME NEW lo \in Int, NEW hi \in Int, ScrolledTo(lo, hi) PROVE ScrolledTo(lo, hi)'
  <2>1. Begins(asked, world) <= hi
    BY <1>6 DEF ScrolledTo
  <2>2. Begins(asked, world') \in Int /\ Begins(asked, world) \in Int /\ Begins(asked, world') <= Begins(asked, world)
    BY <1>2, <1>3, BeginsIs
  <2>3. Begins(asked', world') <= hi
    BY <1>1, <2>1, <2>2
  <2>4. IsRun(mobile', asked', lo, hi)
    BY <1>1, <1>6 DEF ScrolledTo
  <2>5. L!Query(asked') = L!Query(asked) /\ loads' = loads
    BY <1>1
  <2>6. \A l \in loads' : l.q = L!Query(asked') /\ Begins(asked', l.since) <= hi
    BY <1>1, <1>6, <2>5 DEF ScrolledTo
  <2>7. QED
    BY <1>1, <1>6, <2>3, <2>4, <2>6 DEF ScrolledTo
<1>7. Smooth' => Smooth
  BY <1>1 DEF Smooth, L!Untouched
<1>8. QED
  BY <1>1, <1>5, <1>6, <1>7, ScrollingStays DEF ScrollHolds

\* The trigger is armed again by the end of a request.
LEMMA Ends ==
  ASSUME ScrollHolds, NEW a, NEW rs, NEW t, L!Shows(a, rs, t, FALSE, armed)
  PROVE  ~loading' /\ (L!Has("tells") => armed')
<1>1. loading' = FALSE /\ armed' = L!Rearmed(a, L!Accumulated(a, rs), FALSE, armed)
  BY DEF L!Shows
<1>2. ASSUME L!Has("tells") PROVE L!Rearmed(a, L!Accumulated(a, rs), FALSE, armed)
  BY <1>2, Zenon DEF ScrollHolds, L!Rearmed
<1>3. QED
  BY <1>1, <1>2

LEMMA FailureScrolls ==
  ASSUME ListInv, ScrollHolds, L!Has("scrolls"), NEW l \in loads, L!Failure(l)
  PROVE  ScrollHolds'
<1>1. asked \in ListAsks /\ kind \in L!Kinds /\ asked.page \in Nat
  BY DEF ListInv, ListTyped, ListAsks
<1>2. /\ L!Shows(asked, rows, total, FALSE, armed) /\ strayed' = strayed \cup {"failed"}
      /\ UNCHANGED <<kind, phone>>
  BY <1>1, ScrollingIs DEF L!Failure
<1>3. asked' = asked /\ rows' = rows /\ mobile' = L!Accumulated(asked, rows)
  BY <1>2 DEF L!Shows
<1>4. asked'.page = 1 => mobile' = rows'[asked'.key].rows
  BY <1>1, <1>3, Restarts
<1>5. ~Calm' /\ ~Smooth'
  BY <1>2 DEF Calm, Smooth, L!Untouched
<1>6. ~loading' /\ (L!Has("tells") => armed')
  BY <1>2, Ends
<1>7. QED
  BY <1>2, <1>3, <1>4, <1>5, <1>6, ScrollingStays DEF ScrollHolds, LastShown

\* A reply to come continues the rows that are there.
LEMMA ReplyScrolls ==
  ASSUME ListInv, ScrollHolds, L!Has("scrolls"), NEW l \in loads, NEW w \in L!Since(l), L!Reply(l, w)
  PROVE  ScrollHolds'
<1> DEFINE P == L!Page(l.q, w)
<1>1. /\ ListTyped /\ ListNumbered /\ ListLoads /\ ListFollowed /\ asked \in ListAsks /\ kind \in L!Kinds
      /\ world \in Worlds /\ world.added \in Nat /\ world.rev \in Nat /\ asked.key \in DOMAIN rows
      /\ asked.page \in Nat \ {0} /\ asked.size \in {1, 2} /\ asked.open
  BY DEF ListInv, ListTyped, ListAsks, Worlds, ScrollHolds
<1>2. ~L!Has("sheet") /\ ~L!Has("drops") /\ ~L!Has("replied")
  BY <1>1, ScrollingIs
<1>3. /\ L!Shows(asked, [rows EXCEPT ![l.q.key] = [q |-> l.q, rows |-> P]], Stock + w.added, FALSE, armed)
      /\ loads' = loads \ {l} /\ UNCHANGED <<kind, phone, world>>
      /\ order' = [order EXCEPT !.shown = IF l.no > @ THEN l.no ELSE @]
      /\ strayed \subseteq strayed'
      /\ l.no < order.shown => "overtaken" \in strayed'
      /\ L!Outruns(P) => "outrun" \in strayed'
  BY <1>2 DEF L!Reply
<1>4. /\ asked' = asked /\ rows' = [rows EXCEPT ![l.q.key] = [q |-> l.q, rows |-> P]]
      /\ total' = Stock + w.added /\ mobile' = L!Accumulated(asked, rows')
  BY <1>3 DEF L!Shows
<1>5. asked'.page = 1 => mobile' = rows'[asked'.key].rows
  BY <1>1, <1>4, Restarts
<1>6. ~loading' /\ (L!Has("tells") => armed')
  BY <1>3, Ends
<1>7. /\ l.since \in Worlds /\ l.since.added <= world.added /\ l.since.added \in Nat
      /\ l.since.rev \in Nat /\ Reaches(l.q, l.since.added, strayed)
  BY <1>1 DEF ListLoads, Worlds
<1>8. w \in Worlds /\ w.added \in Nat /\ l.since.added <= w.added /\ w.added <= world.added
  BY <1>1, <1>7, SinceIs DEF Worlds
<1>9. LastShown'
  <2>1. SUFFICES ASSUME Calm', order'.shown = order'.sent
                 PROVE  \E v \in Past' : /\ rows'[asked'.key].q = L!Query(asked')
                                         /\ rows'[asked'.key].rows = L!Page(L!Query(asked'), v)
                                         /\ total' = Stock + v.added
    BY DEF LastShown
  <2>2. Calm /\ ~(l.no < order.shown)
    BY <1>2, <1>3, <2>1, KindStays DEF Calm
  <2>3. /\ l.no \in Nat /\ order.sent \in Nat /\ order.shown \in Nat /\ l.no # order.shown
        /\ order.shown <= order.sent /\ l.no <= order.sent
        /\ order'.sent = order.sent /\ order'.shown = IF l.no > order.shown THEN l.no ELSE order.shown
    <3>1. order' = [sent |-> order.sent, shown |-> IF l.no > order.shown THEN l.no ELSE order.shown]
      BY <1>1, <1>3 DEF ListNumbered
    <3>2. QED
      BY <1>1, <3>1 DEF ListNumbered
  <2>4. l.no = order.sent /\ order.shown # order.sent
    BY <2>1, <2>2, <2>3
  <2>5. l.q = L!Query(asked)
    BY <1>1, <1>2, <2>2, <2>4 DEF ListFollowed, ListPending, ListShown, ListNumbered
  <2>6. l.q.key = asked.key
    BY <2>5 DEF L!Query
  <2>7. rows'[asked.key] = [q |-> l.q, rows |-> P]
    BY <1>1, <1>4, <2>6
  <2>8. w \in Past'
    <3>1. w = [added |-> w.added, rev |-> w.rev] /\ w.rev \in l.since.rev..world.rev
      BY DEF L!Since
    <3>2. w.added \in 0..world.added /\ w.rev \in 0..world.rev
      BY <1>1, <1>7, <1>8, <3>1
    <3>3. QED
      BY <1>3, <3>1, <3>2 DEF Past
  <2>9. QED
    BY <1>4, <2>5, <2>7, <2>8
<1>10. ASSUME phone, Smooth', asked.page > 1 PROVE \E lo, hi \in Int : ScrolledTo(lo, hi)'
  <2>1. Smooth /\ ~L!Outruns(P)
    BY <1>3, <1>10 DEF Smooth, L!Untouched
  <2>2. PICK lo \in Int, hi \in Int : ScrolledTo(lo, hi)
    BY <1>10, <2>1 DEF ScrollHolds
  <2>3. /\ lo < hi /\ IsRun(mobile, asked, lo, hi) /\ Begins(asked, world) <= hi
        /\ \A m \in loads : m.q = L!Query(asked) /\ Begins(asked, m.since) <= hi
    BY <2>2 DEF ScrolledTo
  <2>4. l.q = L!Query(asked) /\ Begins(asked, l.since) <= hi
    BY <2>3
  <2>5. /\ L!Query(asked).page = asked.page /\ L!Query(asked).size = asked.size
        /\ L!Query(asked).key = asked.key /\ L!Query(asked).filter = asked.filter
    BY DEF L!Query
  <2>6. rows'[asked.key].rows = P
    BY <1>1, <1>4, <2>4, <2>5
  <2>7. PICK from \in Int, m \in Nat : from = Begins(asked, w) /\ IsRun(P, asked, from, from + m)
    <3>1. Begins(L!Query(asked), w) = Begins(asked, w)
      BY <2>5 DEF Begins
    <3>2. PICK m \in 0..asked.size : IsRun(P, L!Query(asked), Begins(asked, w), Begins(asked, w) + m)
      BY <1>1, <1>8, <2>4, <2>5, <3>1, PageRuns
    <3>3. Begins(asked, w) \in Int
      BY <1>1, <1>8, BeginsIs
    <3>4. IsRun(P, asked, Begins(asked, w), Begins(asked, w) + m)
      BY <2>5, <3>2 DEF IsRun
    <3>5. m \in Nat
      BY <1>1, <3>2
    <3>6. QED
      BY <3>3, <3>4, <3>5
  <2>8. from <= hi
    <3>1. Begins(asked, w) <= Begins(asked, l.since) /\ Begins(asked, w) \in Int /\ Begins(asked, l.since) \in Int
      BY <1>1, <1>7, <1>8, BeginsIs
    <3>2. QED
      BY <2>4, <2>7, <3>1
  <2>9. /\ DOMAIN P = 1..m
        /\ \A i \in DOMAIN P : P[i].key = asked.key /\ P[i].filter = asked.filter /\ P[i].n = from + i
    <3>1. (from + m) - from = m
      BY <2>7
    <3>2. QED
      BY <2>7, <3>1 DEF IsRun
  <2>10. DOMAIN mobile = 1..hi - lo /\ \A i \in DOMAIN mobile : mobile[i].n = lo + i
    BY <2>3 DEF IsRun
  <2>11. lo <= from \/ from = from + m
    <3>1. ASSUME m # 0 PROVE lo <= from
      <4>1. 1 \in DOMAIN P /\ 1 \in DOMAIN mobile
        BY <2>3, <2>7, <2>9, <2>10, <3>1
      <4>2. P # <<>> /\ mobile # <<>>
        BY <4>1
      <4>3. ~(P[1].n < mobile[1].n)
        BY <1>10, <2>1, <4>2 DEF L!Outruns
      <4>4. P[1].n = from + 1 /\ mobile[1].n = lo + 1
        BY <2>9, <2>10, <4>1
      <4>5. QED
        BY <2>7, <4>3, <4>4
    <3>2. QED
      BY <2>7, <3>1
  <2>12. PICK top \in Int : hi <= top /\ from + m <= top /\ IsRun(L!mergeUniqueRows(mobile, P), asked, lo, top)
    BY <2>3, <2>7, <2>8, <2>11, Merges
  <2>13. mobile' = L!mergeUniqueRows(mobile, P)
    BY <1>1, <1>4, <1>10, <2>6, Restarts
  <2>14. \A i \in DOMAIN P : P[i].n \in lo + 1..top
    <3>1. ASSUME NEW i \in 1..m PROVE from + i \in lo + 1..top
      <4>1. lo <= from
        BY <2>7, <2>11, <3>1
      <4>2. QED
        BY <2>7, <2>12, <3>1, <4>1
    <3>2. QED
      BY <2>9, <3>1
  <2>15. Begins(asked, world) <= top /\ lo < top
    <3>1. Begins(asked, world) \in Int
      BY <1>1, BeginsIs
    <3>2. QED
      BY <2>3, <2>12, <3>1
  <2>16. \A v \in loads' : v.q = L!Query(asked) /\ Begins(asked, v.since) <= top
    <3>1. ASSUME NEW v \in loads PROVE Begins(asked, v.since) \in Int
      <4>1. v.since.added \in Nat
        BY <1>1 DEF ListLoads, Worlds
      <4>2. QED
        BY <1>1, <4>1, BeginsIs
    <3>2. QED
      BY <1>3, <2>3, <2>12, <3>1
  <2>17. ScrolledTo(lo, top)'
    <3>1. IsRun(mobile', asked', lo, top)
      BY <1>4, <2>12, <2>13
    <3>2. L!Query(asked') = L!Query(asked) /\ world' = world
      BY <1>3, <1>4
    <3>3. \A v \in loads' : v.q = L!Query(asked') /\ Begins(asked', v.since) <= top
      BY <1>4, <2>16
    <3>4. Begins(asked', world') <= top
      BY <1>4, <2>15, <3>2
    <3>5. \A i \in DOMAIN rows'[asked'.key].rows :
            /\ rows'[asked'.key].rows[i].key = asked'.key /\ rows'[asked'.key].rows[i].filter = asked'.filter
            /\ rows'[asked'.key].rows[i].n \in lo + 1..top
      BY <1>4, <2>6, <2>9, <2>14
    <3>6. QED
      BY <2>15, <3>1, <3>3, <3>4, <3>5 DEF ScrolledTo
  <2>18. QED
    BY <2>17
<1>11. QED
  BY <1>1, <1>3, <1>4, <1>5, <1>6, <1>9, <1>10, ScrollingStays DEF ScrollHolds

LEMMA ScrollsInit ==
  ASSUME L!Init
  PROVE  ScrollInv
<1>1. /\ kind \in L!Kinds /\ phone \in IF L!Has("scrolls") THEN BOOLEAN ELSE {FALSE}
      /\ asked = [key |-> L!AKey, filter |-> First, size |-> 1, page |-> 1, open |-> ~L!Has("sheet")]
      /\ rows = [k \in Keys |-> L!NoRows] /\ loading = ~L!Has("sheet") /\ mobile = <<>> /\ armed = TRUE
      /\ loads = IF L!Has("sheet") THEN {} ELSE {[no |-> 1, q |-> L!Query(asked), since |-> world]}
      /\ order = [sent |-> 1, shown |-> 0]
  BY DEF L!Init
<1>2. phone => L!Has("scrolls")
  BY <1>1
<1>3. ASSUME L!Has("scrolls") PROVE ScrollHolds
  <2>1. ~L!Has("sheet")
    BY <1>1, <1>3, ScrollingIs
  <2>2. asked.page = 1 /\ asked.key = L!AKey /\ asked.open
    BY <1>1, <2>1
  <2>3. L!AKey \in Keys
    BY ListFits DEF L!AKey
  <2>4. mobile = rows[asked.key].rows
    BY <1>1, <2>2, <2>3 DEF L!NoRows
  <2>5. LastShown
    BY <1>1 DEF LastShown
  <2>6. loads # {}
    BY <1>1, <2>1
  <2>7. QED
    BY <1>1, <2>2, <2>4, <2>5, <2>6 DEF ScrollHolds
<1>4. QED
  BY <1>2, <1>3 DEF ScrollInv

LEMMA ScrollsStep ==
  ASSUME ListInv, ScrollInv, [L!Next]_lists
  PROVE  ScrollInv'
<1>1. UNCHANGED <<kind, phone>>
  BY DEF L!Next, lists, L!Set, L!ChangeFilter, L!ChangeSize, L!GoToPage, L!Scroll, L!FillScreen, L!LoadMore, L!TurnPage, L!OpenSheet,
         L!CloseSheet, L!Type, L!Rested, L!Pick, L!Change, L!Event, L!Failure, L!Reply
<1>2. L!Has("scrolls")' <=> L!Has("scrolls")
  BY <1>1, ScrollingStays
<1>3. ASSUME L!Has("scrolls") PROVE ScrollHolds'
  <2>1. ScrollHolds /\ kind \in L!Kinds
    BY <1>3 DEF ScrollInv, ListInv, ListTyped
  <2>2. CASE UNCHANGED lists
    <3>1. UNCHANGED <<kind, phone, world, asked, rows, total, loading, mobile, armed, loads, order, strayed>>
      BY <2>2 DEF lists
    <3>2. /\ (Calm' <=> Calm) /\ (Smooth' <=> Smooth) /\ Past' = Past
          /\ (\A w : L!Page(L!Query(asked'), w) = L!Page(L!Query(asked), w))
          /\ (\A lo, hi : ScrolledTo(lo, hi)' <=> ScrolledTo(lo, hi))
      BY <3>1, KindStays DEF Calm, Smooth, L!Untouched, Past, ScrolledTo, IsRun, Begins, L!Query
    <3>3. LastShown' <=> LastShown
      BY <3>1, <3>2 DEF LastShown
    <3>4. QED
      BY <2>1, <3>1, <3>2, <3>3, ScrollingStays DEF ScrollHolds
  <2>3. CASE L!Next
    <3>1. ~L!TurnPage /\ ~L!OpenSheet /\ ~L!CloseSheet /\ ~L!Type /\ ~L!Rested /\ ~L!Pick
      BY <1>3, <2>1, ScrollingIs DEF L!TurnPage, L!OpenSheet, L!CloseSheet, L!Type, L!Rested, L!Pick
    <3>2. L!Scroll \/ L!FillScreen => ScrollHolds'
      BY <1>3, <2>1, LoadMoreScrolls DEF L!Scroll, L!FillScreen
    <3>3. L!ChangeFilter \/ L!ChangeSize \/ L!GoToPage => ScrollHolds'
      BY <1>3, <2>1, SetsScroll
    <3>4. L!Change \/ L!Event => ScrollHolds'
      BY <1>3, <2>1, ChangeScrolls, EventScrolls
    <3>5. \A l \in loads : L!Failure(l) \/ (\E w \in L!Since(l) : L!Reply(l, w)) => ScrollHolds'
      BY <1>3, <2>1, FailureScrolls, ReplyScrolls
    <3>6. QED
      BY <2>3, <3>1, <3>2, <3>3, <3>4, <3>5 DEF L!Next
  <2>4. QED
    BY <2>2, <2>3
<1>4. phone' => L!Has("scrolls")'
  BY <1>1, <1>2 DEF ScrollInv
<1>5. QED
  BY <1>2, <1>3, <1>4 DEF ScrollInv

LEMMA ScrollsReach ==
  ASSUME ListInv, ScrollInv
  PROVE  L!ScrollReachesAll
<1>1. /\ ListTyped /\ ListFollowed /\ asked \in ListAsks /\ world \in Worlds /\ kind \in L!Kinds
      /\ asked.page \in Nat \ {0} /\ asked.size \in {1, 2}
  BY DEF ListInv, ListTyped, ListAsks
<1>2. ASSUME phone, L!Quiet PROVE L!Has("scrolls") /\ ScrollHolds /\ loads = {} /\ asked.open
  BY <1>2 DEF ScrollInv, L!Quiet
<1>3. ASSUME phone, L!Quiet, Smooth
      PROVE  \A i \in 2..Len(mobile) : mobile[i].n = mobile[i - 1].n + 1 /\ mobile[i].key = mobile[1].key
  <2>1. L!Has("scrolls") /\ ScrollHolds /\ loads = {} /\ asked.open
    BY <1>2, <1>3
  <2>2. \E lo, hi \in Int : IsRun(mobile, asked, lo, hi)
    <3>1. CASE asked.page = 1
      <4>1. Calm
        BY <1>3 DEF Smooth, L!Untouched, Calm
      <4>2. order.shown = order.sent
        BY <1>1, <2>1, <4>1 DEF ListFollowed, ListPending, ListShown
      <4>3. PICK w \in Past : mobile = L!Page(L!Query(asked), w)
        BY <2>1, <3>1, <4>1, <4>2 DEF ScrollHolds, LastShown
      <4>4. w \in Worlds
        BY <1>1, <4>3 DEF Past, Worlds
      <4>5. /\ L!Query(asked).page = asked.page /\ L!Query(asked).size = asked.size
            /\ L!Query(asked).key = asked.key /\ L!Query(asked).filter = asked.filter
        BY DEF L!Query
      <4>6. PICK m \in 0..asked.size :
              IsRun(mobile, L!Query(asked), Begins(L!Query(asked), w), Begins(L!Query(asked), w) + m)
        BY <1>1, <4>3, <4>4, <4>5, PageRuns
      <4>7. IsRun(mobile, asked, Begins(L!Query(asked), w), Begins(L!Query(asked), w) + m)
        BY <4>5, <4>6 DEF IsRun
      <4>8. QED
        BY <4>7 DEF IsRun
    <3>2. CASE asked.page > 1
      BY <1>3, <2>1, <3>2 DEF ScrollHolds, ScrolledTo
    <3>3. QED
      BY <1>1, <3>1, <3>2
  <2>3. PICK lo \in Int, hi \in Int : IsRun(mobile, asked, lo, hi)
    BY <2>2
  <2>4. PICK c \in Nat : c = hi - lo
    BY <2>3 DEF IsRun
  <2>5. /\ DOMAIN mobile = 1..c /\ mobile = [i \in DOMAIN mobile |-> mobile[i]]
        /\ \A i \in 1..c : mobile[i].key = asked.key /\ mobile[i].n = lo + i
    BY <2>3, <2>4 DEF IsRun
  <2>6. Len(mobile) = c
    <3>1. mobile \in Seq({mobile[i] : i \in 1..c})
      BY <2>5
    <3>2. QED
      BY <2>4, <2>5, <3>1
  <2>7. ASSUME NEW i \in 2..c
        PROVE  mobile[i].n = mobile[i - 1].n + 1 /\ mobile[i].key = mobile[1].key
    <3>1. i \in 1..c /\ i - 1 \in 1..c /\ 1 \in 1..c
      BY <2>4, <2>7
    <3>2. mobile[i].n = lo + i /\ mobile[i - 1].n = lo + (i - 1) /\ mobile[i].key = mobile[1].key
      BY <2>5, <3>1
    <3>3. QED
      BY <2>3, <3>1, <3>2
  <2>8. QED
    BY <2>6, <2>7
<1>4. L!ScrollHasNoGap
  BY <1>3 DEF L!ScrollHasNoGap, Smooth
<1>5. L!ScrollGoesOn
  BY <1>2 DEF L!ScrollGoesOn, ScrollHolds
<1>6. QED
  BY <1>4, <1>5 DEF L!ScrollReachesAll

ListsInv == part = "lists" => ListInv /\ ScrollInv

LEMMA ListsHold == PagesSpec => []ListsInv
<1>1. PagesInit => ListsInv
  BY ListsInit, ScrollsInit DEF PagesInit, ListsInv
<1>2. ListsInv /\ [PagesNext]_<<part, edits, lists, hub>> => ListsInv'
  BY ListsStep, ScrollsStep DEF PagesNext, ListsInv
<1>3. QED
  BY <1>1, <1>2, PTL DEF PagesSpec

\* However requests and replies overtake each other, a list at rest shows the reply
\* to what it is set to, and the tenant picked is one of those shown, but for what
\* is known to go astray (pages/AuditLogsPage/hooks/use-audit-logs-state.ts:202,
\* pages/ScheduledJobsPage/components/scheduled-job-execute-sheet.tsx:65).
THEOREM ShowsWhatIsAskedHolds == PagesSpec => []ShowsWhatIsAsked
<1>1. ListsInv => ShowsWhatIsAsked
  BY ListsShow DEF ListsInv, ShowsWhatIsAsked
<1>2. QED
  BY <1>1, ListsHold, PTL

\* Scrolling down on a phone reaches every row once, whatever rows are added in the
\* meantime (hooks/use-server-mobile-infinite-scroll.ts:17), but for what is known to
\* go astray; the audit logs go on as long as there are more
\* (hooks/use-mobile-scroll-load-more.ts:8).
THEOREM ScrollReachesAllHolds == PagesSpec => []ScrollReachesAll
<1>1. ListsInv => ScrollReachesAll
  BY ScrollsReach DEF ListsInv, ScrollReachesAll
<1>2. QED
  BY <1>1, ListsHold, PTL
==============================================================================
