---------------------------- MODULE RoleAssignment ----------------------------
(* What a role permits, as its sheets on RolesPage show and save it: the panel of
   menus and buttons (components/permission-assign, components/menu-catalog-tree,
   lib/permissions.ts) and the departments of its data scope (lib/data-scope.ts,
   components/dept).  The sheets' requests and their failures are in EditPages; here
   a save is served.  A menu lies in catalogs only, a button in a menu; interfaces
   follow their menu or button on the server and take no part.
   Paths are relative to src/web/src/.                                         *)
EXTENDS Integers, FiniteSets

CONSTANTS
  Catalogs, Menus, Buttons,
  Parent,      \* of a catalog, menu or button; None at the root
  Depts,
  DeptParent,  \* of a department; None at the root
  Disabled,    \* departments that are not enabled
  None,
  MaxClicks    \* bound on clicks in a sheet

VARIABLES
  granted,     \* the permissions of the role, as saved
  scope,       \* its data scope, as saved: custom or not, and the departments
  sheet,       \* the sheet that is open
  ticked,      \* [menus, buttons, depts, custom]: what is ticked in it
  active,      \* the menu whose buttons it shows
  wanted,      \* what was ticked when it was last saved
  clicks       \* clicks left

vars == <<granted, scope, sheet, ticked, active, wanted, clicks>>

Nodes == Catalogs \cup Menus \cup Buttons
Above[n \in Nodes] == IF Parent[n] = None THEN {} ELSE {Parent[n]} \cup Above[Parent[n]]
AboveDept[d \in Depts] == IF DeptParent[d] = None THEN {} ELSE {DeptParent[d]} \cup AboveDept[DeptParent[d]]
Below(n) == {m \in Nodes : n \in Above[m]}
codesForMenuButtons(m) == {b \in Buttons : Parent[b] = m}
collectMenuCodesUnderNode(c) == Menus \cap Below(c)
collectButtonCodesForMenus(ms) == UNION {codesForMenuButtons(m) : m \in ms}
NoTicks == [menus |-> {}, buttons |-> {}, depts |-> {}, custom |-> FALSE]

-----------------------------------------------------------------------------
(* What the checkboxes show *)

menuAssignmentState(m) ==
  LET all == codesForMenuButtons(m)
      some == all \cap ticked.buttons
  IN IF m \notin ticked.menus THEN "no"
     ELSE IF some \in {{}, all} THEN "yes" ELSE "partly"

catalogAssignmentState(c) ==
  LET ms == collectMenuCodesUnderNode(c)
      bs == collectButtonCodesForMenus(ms)
  IN IF ms = {} THEN "no"
     ELSE IF ms \subseteq ticked.menus /\ bs \subseteq ticked.buttons THEN "yes"
     ELSE IF ms \cap ticked.menus = {} /\ bs \cap ticked.buttons = {} THEN "no" ELSE "partly"

isFullAssignmentSelected ==
  Menus \cup Buttons # {} /\ Menus \subseteq ticked.menus /\ Buttons \subseteq ticked.buttons

-----------------------------------------------------------------------------
(* What is saved, and what is ticked when it is read again *)

\* Without the catalogs a menu or button lies in.
FaultyExpandPermissionCodes(codes) == codes \cup UNION {Below(n) : n \in codes}

\* With a code go the catalogs and the menu above it and whatever is below it.
expandPermissionCodes(codes) == codes \cup UNION {Above[n] \cup Below(n) : n \in codes}

\* Menus are taken from the buttons only when no menu was saved.
resolveAssignmentSelection(codes) ==
  LET bs == codes \cap Buttons
      ms == codes \cap Menus
  IN [menus |-> IF ms # {} THEN ms ELSE {Parent[b] : b \in bs}, buttons |-> bs]

-----------------------------------------------------------------------------

Init ==
  /\ granted \in {{}, Nodes}
  /\ scope = [custom |-> FALSE, depts |-> {}]
  /\ sheet = "none" /\ ticked = NoTicks /\ wanted = NoTicks
  /\ active \in Menus /\ clicks = 0

\* The sheets are opened with what is saved.
openFunctionalPermissions ==
  /\ sheet = "none" /\ sheet' = "menus" /\ clicks' = MaxClicks
  /\ LET r == resolveAssignmentSelection(granted)
     IN ticked' = [NoTicks EXCEPT !.menus = r.menus, !.buttons = r.buttons]
  /\ active' \in Menus
  /\ UNCHANGED <<granted, scope, wanted>>

openDataScope ==
  /\ sheet = "none" /\ sheet' = "scope" /\ clicks' = MaxClicks
  /\ ticked' = [NoTicks EXCEPT !.depts = scope.depts, !.custom = scope.custom]
  /\ UNCHANGED <<granted, scope, active, wanted>>

Click(which) == sheet = which /\ clicks > 0 /\ clicks' = clicks - 1

\* The menus ticked change: buttons of menus that are not ticked are dropped, those
\* of the menus just ticked are added.
handleMenusChange(ms, fill) ==
  ticked' = [ticked EXCEPT
    !.menus = ms,
    !.buttons = {b \in @ : Parent[b] \in ms} \cup collectButtonCodesForMenus(fill \cap ms)]

\* The checkbox of a menu or catalog: what is ticked in part is cleared.
MenuCatalogTreeNodeCheckboxes(n) ==
  /\ Click("menus")
  /\ LET under == IF n \in Menus THEN {n} ELSE collectMenuCodesUnderNode(n)
         state == IF n \in Menus THEN menuAssignmentState(n) ELSE catalogAssignmentState(n)
     IN /\ under # {}
        /\ IF state = "no" THEN handleMenusChange(ticked.menus \cup under, under)
           ELSE handleMenusChange(ticked.menus \ under, {})
  /\ UNCHANGED <<granted, scope, sheet, active, wanted>>

SelectMenu(m) ==
  /\ Click("menus") /\ active' = m
  /\ UNCHANGED <<granted, scope, sheet, ticked, wanted>>

\* A button of the menu shown, whether or not the menu is ticked.
ButtonPermissionSelect(b) ==
  /\ Click("menus") /\ b \in codesForMenuButtons(active)
  /\ ticked' = [ticked EXCEPT !.buttons = IF b \in @ THEN @ \ {b} ELSE @ \cup {b}]
  /\ UNCHANGED <<granted, scope, sheet, active, wanted>>

handleToggleAll ==
  /\ Click("menus")
  /\ ticked' = IF isFullAssignmentSelected THEN [ticked EXCEPT !.menus = {}, !.buttons = {}]
               ELSE [ticked EXCEPT !.menus = Menus, !.buttons = Buttons]
  /\ UNCHANGED <<granted, scope, sheet, active, wanted>>

\* A department is ticked, or cleared, with all below it, enabled or not.
toggleDeptScopeCascade(d) ==
  /\ Click("scope") /\ ticked.custom /\ d \notin Disabled
  /\ LET all == {d} \cup {e \in Depts : d \in AboveDept[e]}
     IN ticked' = [ticked EXCEPT !.depts = IF d \in @ THEN @ \ all ELSE @ \cup all]
  /\ UNCHANGED <<granted, scope, sheet, active, wanted>>

DataScopeFields ==
  /\ Click("scope") /\ ticked' = [ticked EXCEPT !.custom = ~@]
  /\ UNCHANGED <<granted, scope, sheet, active, wanted>>

handleSaveFunctionalPermissions ==
  /\ sheet = "menus" /\ sheet' = "none"
  /\ granted' = expandPermissionCodes(ticked.menus \cup ticked.buttons)
  /\ ticked' = NoTicks /\ wanted' = ticked /\ clicks' = 0
  /\ UNCHANGED <<scope, active>>

\* A custom scope needs a department; another scope keeps none.
handleSaveDataScope ==
  /\ sheet = "scope" /\ (ticked.custom => ticked.depts # {}) /\ sheet' = "none"
  /\ scope' = [custom |-> ticked.custom, depts |-> IF ticked.custom THEN ticked.depts ELSE {}]
  /\ ticked' = NoTicks /\ clicks' = 0
  /\ UNCHANGED <<granted, active, wanted>>

Cancel ==
  /\ sheet # "none" /\ sheet' = "none" /\ ticked' = NoTicks /\ clicks' = 0
  /\ UNCHANGED <<granted, scope, active, wanted>>

Next ==
  \/ openFunctionalPermissions \/ openDataScope
  \/ \E n \in Catalogs \cup Menus : MenuCatalogTreeNodeCheckboxes(n)
  \/ \E m \in Menus : SelectMenu(m)
  \/ \E b \in Buttons : ButtonPermissionSelect(b)
  \/ handleToggleAll
  \/ \E d \in Depts : toggleDeptScopeCascade(d)
  \/ DataScopeFields
  \/ handleSaveFunctionalPermissions \/ handleSaveDataScope \/ Cancel

Spec == Init /\ [][Next]_vars

-----------------------------------------------------------------------------
(* Properties *)

\* What was ticked when the role was saved is ticked when it is opened again, and
\* everything granted can be reached: the catalogs and the menu above it are
\* granted too, so that the server's navigation shows them.
TickedIsGranted ==
  LET r == resolveAssignmentSelection(granted) IN
  /\ wanted.menus \subseteq r.menus /\ wanted.buttons \subseteq r.buttons
  /\ \A n \in granted : Above[n] \subseteq granted

\* Saving what was opened, time after time, soon grants no more.
SavingSettles ==
  LET Again(codes) == LET r == resolveAssignmentSelection(codes)
                      IN expandPermissionCodes(r.menus \cup r.buttons)
  IN Again(Again(granted)) = Again(granted)

\* The checkboxes tell one story: a catalog is wholly ticked only when everything in
\* it is, and "all" only when every catalog is.
BoxesAgree ==
  /\ \A c \in Catalogs : catalogAssignmentState(c) = "yes" =>
       \A n \in Below(c) \cap (Catalogs \cup Menus) :
         n \in Menus => menuAssignmentState(n) = "yes" /\ n \in ticked.menus
  /\ isFullAssignmentSelected =>
       \A c \in Catalogs : collectMenuCodesUnderNode(c) # {} => catalogAssignmentState(c) = "yes"

\* (lib/permissions.ts, permission-assign-panel.tsx, use-roles-page-actions.ts) What is
\* ticked for a role is granted, can be reached, is ticked again, and is stable.
AssignmentAgrees == TickedIsGranted /\ SavingSettles /\ BoxesAgree

\* The panel says that the buttons of a menu can be tuned one by one
\* (permission-assign-panel.tsx:109): a button that was cleared is not granted.
ClearedIsNotGranted ==
  wanted # NoTicks => granted \cap Buttons \subseteq wanted.buttons

=============================================================================
