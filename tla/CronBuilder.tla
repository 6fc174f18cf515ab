----------------------------- MODULE CronBuilder -----------------------------
(* The editor of a job's schedule: lib/cron-builder.ts and components/cron-builder.
   It keeps no schedule of its own: whatever is shown is read from the expression,
   and every click writes an expression, five fields from the minute on or six from
   the second on.  A field is what the editor knows (any, a step, a range, values) or
   something only the server knows.
   Paths are relative to src/web/src/.                                         *)
EXTENDS Integers, Sequences, FiniteSets

CONSTANTS
  Hi,        \* the largest value of a field, by key
  Stored,    \* expressions a job may have when the editor is opened
  EveryN, AtHour, OnDay,  \* what a preset starts with
  Steps,     \* steps offered
  MaxEdits   \* bound on clicks

VARIABLES
  value,       \* the expression
  activeMode,  \* the tab
  lastEmitted, \* the expression the editor wrote, or saw, last
  step,        \* what the last step did
  edits        \* clicks left

vars == <<value, activeMode, lastEmitted, step, edits>>

Keys == <<"second", "minute", "hour", "day", "month", "weekday">>
Lo(k) == IF k \in {"day", "month"} THEN 1 ELSE 0
Place(k) == CHOOSE i \in 1..6 : Keys[i] = k
Values(k) == Lo(k)..Hi[k]
Clamp(n, a, b) == IF n < a THEN a ELSE IF n > b THEN b ELSE n

AnyValue == [kind |-> "any"]
Step(n) == [kind |-> "step", n |-> n]
Interval(a, b) == [kind |-> "range", a |-> a, b |-> b]
Specific(S) == [kind |-> "specific", of |-> S]
Foreign == [kind |-> "foreign"]
One(f) == f.kind = "specific" /\ Cardinality(f.of) = 1
Only(f) == CHOOSE n \in f.of : TRUE

\* An expression of the server's: five fields or six, of values the editor offers.  (The
\* server also takes 7 for Sunday, which the editor reads as Saturday: none such is stored.)
WellFormed(f, k) ==
  \/ f \in {AnyValue, Foreign}
  \/ f.kind = "step" /\ f = Step(f.n) /\ f.n \in Nat \ {0}
  \/ f.kind = "range" /\ f = Interval(f.a, f.b) /\ f.a \in Values(k) /\ f.b \in Values(k) /\ f.a <= f.b
  \/ f.kind = "specific" /\ f = Specific(f.of) /\ f.of \in (SUBSET Values(k)) \ {{}}
Expression(v) ==
  \E n \in {5, 6} : DOMAIN v = 1..n /\ v = [i \in 1..n |-> v[i]]
                    /\ \A i \in 1..n : WellFormed(v[i], Keys[i + 6 - n])

ConstantsFit ==
  /\ DOMAIN Hi = {Keys[i] : i \in 1..6}
  /\ \A k \in DOMAIN Hi : Hi[k] \in Nat /\ Lo(k) <= Hi[k]
  /\ Hi["second"] > 0 /\ Hi["minute"] > 0
  /\ \A v \in Stored : Expression(v)
  /\ EveryN \in Nat /\ AtHour \in Nat /\ OnDay \in Nat /\ Steps \subseteq Nat /\ MaxEdits \in Nat

-----------------------------------------------------------------------------
(* Reading *)

Base(k) == [mode |-> "any", step |-> 1, specific |-> {}, start |-> Lo(k), end |-> Lo(k)]

\* What the editor does not know is read as "any".
parseFieldExpr(f, k) ==
  CASE f.kind = "step" -> [Base(k) EXCEPT !.mode = "step", !.step = Clamp(f.n, 1, Hi[k] - Lo(k) + 1)]
    [] f.kind = "range" ->
         [Base(k) EXCEPT !.mode = "range", !.start = Clamp(f.a, Lo(k), Hi[k]), !.end = Clamp(f.b, Lo(k), Hi[k])]
    [] f.kind = "specific" /\ f.of \cap Values(k) # {} ->
         [Base(k) EXCEPT !.mode = "specific", !.specific = f.of \cap Values(k)]
    [] One(f) /\ f.of \cap Values(k) = {} ->
         [Base(k) EXCEPT !.mode = "specific", !.specific = {Clamp(Only(f), Lo(k), Hi[k])}]
    [] OTHER -> Base(k)

\* Five fields have no second: it is taken to be left open.
FaultyParseCustomFields(parts) ==
  [k \in DOMAIN Hi |->
     IF Len(parts) = 6 THEN parseFieldExpr(parts[Place(k)], k)
     ELSE IF k = "second" THEN Base(k) ELSE parseFieldExpr(parts[Place(k) - 1], k)]

\* Five fields have no second: it is zero.
parseCustomFields(parts) ==
  [k \in DOMAIN Hi |->
     IF Len(parts) = 6 THEN parseFieldExpr(parts[Place(k)], k)
     ELSE IF k = "second" THEN [Base(k) EXCEPT !.mode = "specific", !.specific = {0}]
     ELSE parseFieldExpr(parts[Place(k) - 1], k)]

defaultCronConfig ==
  [mode |-> "every_n_minutes", everyNSeconds |-> EveryN, everyNMinutes |-> EveryN,
   hourlyMinute |-> 0, dailyHour |-> AtHour, dailyMinute |-> 0,
   weeklyHour |-> AtHour, weeklyMinute |-> 0, weeklyDay |-> OnDay,
   customFields |-> [k \in DOMAIN Hi |-> Base(k)]]

\* The preset that five fields from the minute on amount to, if any.
parsePresetFromMinuteFields(m) ==
  LET AnyFrom(i) == \A j \in i..5 : m[j] = AnyValue IN
  CASE m[1].kind = "step" /\ m[1].n \in 1..Hi["minute"] /\ AnyFrom(2) ->
         {[defaultCronConfig EXCEPT !.everyNMinutes = m[1].n]}
    [] One(m[1]) /\ AnyFrom(2) ->
         {[defaultCronConfig EXCEPT !.mode = "hourly", !.hourlyMinute = Only(m[1])]}
    [] One(m[1]) /\ One(m[2]) /\ AnyFrom(3) ->
         {[defaultCronConfig EXCEPT !.mode = "daily", !.dailyMinute = Only(m[1]), !.dailyHour = Only(m[2])]}
    [] One(m[1]) /\ One(m[2]) /\ m[3] = AnyValue /\ m[4] = AnyValue /\ One(m[5]) ->
         {[defaultCronConfig EXCEPT !.mode = "weekly", !.weeklyMinute = Only(m[1]),
                                    !.weeklyHour = Only(m[2]), !.weeklyDay = Only(m[5])]}
    [] OTHER -> {}

\* Six fields are a preset when all but the second are any, or the second is zero.
parseCronExpr(parts, preferCustom) ==
  LET custom == [defaultCronConfig EXCEPT !.mode = "custom", !.customFields = parseCustomFields(parts)]
      presets ==
        IF preferCustom THEN {}
        ELSE IF Len(parts) = 5 THEN parsePresetFromMinuteFields(parts)
        ELSE IF /\ parts[1].kind = "step" /\ parts[1].n \in 1..Hi["second"]
                /\ \A i \in 2..6 : parts[i] = AnyValue
             THEN {[defaultCronConfig EXCEPT !.mode = "every_n_seconds", !.everyNSeconds = parts[1].n]}
        ELSE IF parts[1] = Specific({0}) THEN parsePresetFromMinuteFields(Tail(parts))
        ELSE {}
  IN IF presets = {} THEN custom ELSE CHOOSE c \in presets : TRUE

readConfig(v, mode) == [parseCronExpr(v, mode = "custom") EXCEPT !.mode = mode]

-----------------------------------------------------------------------------
(* Writing *)

\* A range is put in order; no values at all are any value.
buildFieldExpr(c, k) ==
  CASE c.mode = "any" \/ (c.mode = "specific" /\ c.specific = {}) -> AnyValue
    [] c.mode = "step" -> Step(Clamp(c.step, 1, Hi[k] - Lo(k) + 1))
    [] c.mode = "range" -> IF c.start <= c.end THEN Interval(c.start, c.end) ELSE Interval(c.end, c.start)
    [] OTHER -> Specific({Clamp(n, Lo(k), Hi[k]) : n \in c.specific})

At(n, k) == Specific({Clamp(n, Lo(k), Hi[k])})
buildCronExpr(c) ==
  CASE c.mode = "every_n_seconds" ->
         <<Step(Clamp(c.everyNSeconds, 1, Hi["second"])), AnyValue, AnyValue, AnyValue, AnyValue, AnyValue>>
    [] c.mode = "every_n_minutes" ->
         <<Step(Clamp(c.everyNMinutes, 1, Hi["minute"])), AnyValue, AnyValue, AnyValue, AnyValue>>
    [] c.mode = "hourly" -> <<At(c.hourlyMinute, "minute"), AnyValue, AnyValue, AnyValue, AnyValue>>
    [] c.mode = "daily" ->
         <<At(c.dailyMinute, "minute"), At(c.dailyHour, "hour"), AnyValue, AnyValue, AnyValue>>
    [] c.mode = "weekly" ->
         <<At(c.weeklyMinute, "minute"), At(c.weeklyHour, "hour"), AnyValue, AnyValue, At(c.weeklyDay, "weekday")>>
    [] OTHER -> [i \in 1..6 |-> buildFieldExpr(c.customFields[Keys[i]], Keys[i])]

-----------------------------------------------------------------------------
(* The editor *)

Modes == {"every_n_seconds", "every_n_minutes", "hourly", "daily", "weekly", "custom"}

\* What the controls of a tab change in a preset.
Offered(mode) ==
  CASE mode = "every_n_seconds" -> [field : {"everyNSeconds"}, to : Steps]
    [] mode = "every_n_minutes" -> [field : {"everyNMinutes"}, to : Steps]
    [] mode = "hourly" -> [field : {"hourlyMinute"}, to : Values("minute")]
    [] mode = "daily" -> [field : {"dailyHour"}, to : Values("hour")] \cup [field : {"dailyMinute"}, to : Values("minute")]
    [] mode = "weekly" -> [field : {"weeklyDay"}, to : Values("weekday")]
         \cup [field : {"weeklyHour"}, to : Values("hour")] \cup [field : {"weeklyMinute"}, to : Values("minute")]
    [] OTHER -> {}

\* What the controls of a custom field make of it.
CronFieldEditor(c, k) ==
  {[c EXCEPT !.mode = "any"],
   [c EXCEPT !.mode = "step", !.step = IF k = "weekday" THEN @ ELSE 1],
   [c EXCEPT !.mode = "range", !.start = Lo(k), !.end = Clamp(Lo(k) + 1, Lo(k), Hi[k])],
   [c EXCEPT !.mode = "specific", !.specific = IF @ = {} THEN {Lo(k)} ELSE @]} \cup
  (CASE c.mode = "step" -> {[c EXCEPT !.step = n] : n \in IF k = "weekday" THEN Values(k) ELSE Steps}
     [] c.mode = "range" -> {[c EXCEPT !.start = n] : n \in Values(k)} \cup {[c EXCEPT !.end = n] : n \in Values(k)}
     [] c.mode = "specific" ->
          {[c EXCEPT !.specific = (@ \ {n}) \cup ({n} \ @)] : n \in Values(k)}
     [] OTHER -> {})

Emit(what, next) ==
  /\ edits > 0 /\ edits' = edits - 1
  /\ value' = next /\ lastEmitted' = next /\ step' = what

apply(patch) ==
  /\ Emit("field", buildCronExpr([readConfig(value, activeMode) EXCEPT ![patch.field] = patch.to]))
  /\ UNCHANGED activeMode

setMode(mode) ==
  /\ mode # activeMode /\ activeMode' = mode
  /\ Emit(IF mode = "custom" THEN "custom" ELSE "preset",
          buildCronExpr([parseCronExpr(value, mode = "custom") EXCEPT !.mode = mode]))

setCustomField(k, c) ==
  /\ activeMode = "custom"
  /\ Emit("field", buildCronExpr([parseCronExpr(value, TRUE) EXCEPT !.customFields[k] = c]))
  /\ UNCHANGED activeMode

\* Another expression is put in, and the tab follows it.
Filled(v) ==
  /\ edits > 0 /\ edits' = edits - 1
  /\ value' = v /\ step' = "filled"
  /\ IF v = lastEmitted THEN UNCHANGED <<activeMode, lastEmitted>>
     ELSE activeMode' = parseCronExpr(v, FALSE).mode /\ lastEmitted' = v

Init ==
  /\ value \in Stored /\ lastEmitted = value
  /\ activeMode = parseCronExpr(value, FALSE).mode
  /\ step = "filled" /\ edits = MaxEdits

Next ==
  \/ \E patch \in Offered(activeMode) : apply(patch)
  \/ \E mode \in Modes : setMode(mode)
  \/ \E k \in DOMAIN Hi : \E c \in CronFieldEditor(readConfig(value, "custom").customFields[k], k) : setCustomField(k, c)
  \/ \E v \in Stored : Filled(v)

Spec == Init /\ [][Next]_vars

-----------------------------------------------------------------------------
(* Properties *)

\* The values at which the server fires, by field (croniter; five fields fire in
\* second zero).
FieldOf(v, k) == IF Len(v) = 6 THEN v[Place(k)] ELSE IF k = "second" THEN Specific({0}) ELSE v[Place(k) - 1]
Meaning(v, k) ==
  LET f == FieldOf(v, k) IN
  CASE f.kind = "any" -> Values(k)
    [] f.kind = "step" -> {n \in Values(k) : (n - Lo(k)) % f.n = 0}
    [] f.kind = "range" -> f.a..f.b
    [] OTHER -> f.of
Known(v) == \A i \in DOMAIN v : v[i] # Foreign
SameMeaning(v, w) == {k \in DOMAIN Hi : Meaning(v, k) = Meaning(w, k)} = DOMAIN Hi

\* (lib/cron-builder.ts, components/cron-builder/index.tsx) As long as the expression
\* is one the editor knows: what is shown means what the expression means, the custom
\* tab changes nothing by being chosen, and a control changes one field only.
KeepsMeaning ==
  Known(value) =>
    /\ SameMeaning(value, buildCronExpr(readConfig(value, activeMode)))
    /\ step' = "custom" /\ edits' # edits => SameMeaning(value, value')
    /\ step' = "field" /\ edits' # edits =>
         Cardinality({k \in DOMAIN Hi : Meaning(value, k) # Meaning(value', k)}) <= 1
EditorKeepsMeaning == [][KeepsMeaning]_vars

\* "Every N hours": the comment says that this is for a given minute
\* (lib/cron-builder.ts:315), and tenants see the text only (docs/interfaces.md:239).
describeEveryNHours(fields) ==
  /\ fields["second"].mode = "any" \/ (fields["second"].mode = "specific" /\ fields["second"].specific = {0})
  /\ fields["minute"].mode = "any" \/ (fields["minute"].mode = "specific" /\ Cardinality(fields["minute"].specific) = 1)
  /\ fields["hour"].mode = "step"
  /\ \A k \in {"day", "month", "weekday"} : fields[k].mode = "any"

\* What is described as run every N hours runs once in such an hour.
EveryNHoursIsOnce ==
  LET c == parseCronExpr(value, activeMode = "custom") IN
  c.mode = "custom" /\ describeEveryNHours(c.customFields) =>
    Cardinality(Meaning(value, "minute")) = 1 /\ Cardinality(Meaning(value, "second")) = 1

=============================================================================
