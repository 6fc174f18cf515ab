------------------------------ MODULE DateRange ------------------------------
(* The date filter: components/form/use-date-range-picker.ts, with which a range of
   days is picked in a calendar, and lib/datetime.ts, which makes of these days, in
   the time zone of the user, the instants that the server is asked for.
   Time is counted in ticks; a time zone changes its clocks once at most.
   Paths are relative to src/web/src/.                                        *)
EXTENDS Integers, FiniteSets

CONSTANTS
  Ticks,          \* ticks of a day
  MidnightHour,   \* the hour the browser writes for midnight: 0, or Ticks
  Zones,          \* time zones: the offset before and after the clocks change, and when
  LastDay,        \* days are 0..LastDay
  DaysPerMonth,
  RANGE_PRESETS,  \* days of the presets
  None,           \* no day
  MaxActs         \* bound on what the user does

VARIABLES
  timezone,   \* the user's
  now,        \* the instant
  value,      \* the days of the filter
  open,       \* the calendar is open
  range,      \* the days it shows
  phase,      \* what the next click means, and the day it keeps
  hoverDate, viewMonth,
  acts        \* acts left

picker == <<open, range, phase, hoverDate, viewMonth>>
vars == <<timezone, now, value, picker, acts>>

Days == 0..LastDay
Span(a, b) == [from |-> a, to |-> b]
Empty == Span(None, None)
MonthOf(d) == d \div DaysPerMonth
Longest == CHOOSE n \in RANGE_PRESETS : \A m \in RANGE_PRESETS : m <= n

\* Midnight is hour 0; the clocks of a zone are less than a day off, and jump by less
\* than half a day.
ConstantsFit ==
  /\ Ticks \in Nat \ {0} /\ LastDay \in Nat /\ MidnightHour = 0
  /\ Longest \in Nat /\ RANGE_PRESETS \subseteq 1..Longest
  /\ \A z \in Zones : /\ z.at \in Int /\ {z.before, z.after} \subseteq (1 - Ticks)..(Ticks - 1)
                      /\ 2 * (z.after - z.before) \in (1 - Ticks)..(Ticks - 1)
  /\ None \notin Int

-----------------------------------------------------------------------------
(* Clocks *)

Offset(u, z) == IF u < z.at THEN z.before ELSE z.after
Local(u, z) == u + Offset(u, z)
DayOf(u, z) == Local(u, z) \div Ticks

\* What the formatter writes, read as an instant: midnight may be hour 24 of the day.
Written(u, z) == Local(u, z) + (IF Local(u, z) % Ticks = 0 THEN MidnightHour ELSE 0)

\* A wall time is corrected by what it was off, four times at most: once it is right, a
\* correction changes nothing.
FaultyZonedWallTimeToUtc(wall, z) == wall - (Written(wall, z) - wall)
zonedWallTimeToUtc(wall, z) ==
  LET Corrected(u) == u + (wall - Written(u, z))
  IN Corrected(Corrected(Corrected(Corrected(wall))))

\* The first and the last tick of a day.
dateOnlyToApiUtc(d, z, bound) ==
  zonedWallTimeToUtc(d * Ticks + (IF bound = "start" THEN 0 ELSE Ticks - 1), z)

\* Days are counted from the noon of a day.
addCalendarDaysInTimezone(d, delta, z) ==
  DayOf(zonedWallTimeToUtc(d * Ticks + Ticks \div 2, z) + delta * Ticks, z)

buildPresetDateRange(days, z) ==
  Span(addCalendarDaysInTimezone(DayOf(now, z), -(days - 1), z), DayOf(now, z))

-----------------------------------------------------------------------------
(* The calendar *)

normalizePickerRange(r) ==
  IF r.from = None THEN Empty
  ELSE IF r.to = None \/ r.from <= r.to THEN r ELSE Span(r.to, r.from)

hasCompleteRange(r) == r.from # None /\ r.to # None
resolveViewMonth(r) == MonthOf(IF r.from # None THEN r.from ELSE DayOf(now, timezone))
Idle == [type |-> "idle", day |-> None]

\* While the second day is awaited the calendar shows the range that it would make.
resolveCalendarSelected(hover) ==
  IF phase.type = "idle" THEN range
  ELSE IF hover # None THEN normalizePickerRange(Span(phase.day, hover))
  ELSE IF phase.type = "picking" THEN Span(phase.day, None) ELSE Span(range.from, None)

Committed(d) == normalizePickerRange(IF phase.type = "edit-from" THEN Span(d, phase.day) ELSE Span(phase.day, d))

Init ==
  /\ timezone \in Zones /\ now \in {d * Ticks : d \in Days}
  /\ value = Empty /\ open = FALSE /\ range = Empty /\ phase = Idle /\ hoverDate = None
  /\ viewMonth = MonthOf(DayOf(now, timezone))
  /\ acts = MaxActs

Spend == acts > 0 /\ acts' = acts - 1

handleOpenChange(nextOpen) ==
  /\ nextOpen # open /\ Spend
  /\ open' = nextOpen /\ hoverDate' = None
  /\ IF nextOpen
     THEN /\ range' = normalizePickerRange(value) /\ phase' = Idle
          /\ viewMonth' = resolveViewMonth(normalizePickerRange(value))
     ELSE UNCHANGED <<range, phase, viewMonth>>
  /\ UNCHANGED <<timezone, now, value>>

\* A day is clicked: the second one, an end of the range shown, or a first one.
handleSelect(d) ==
  /\ open /\ MonthOf(d) = viewMonth /\ Spend
  /\ hoverDate' = None
  /\ IF phase.type # "idle"
     THEN value' = Committed(d) /\ open' = FALSE /\ UNCHANGED <<range, phase>>
     ELSE /\ UNCHANGED <<value, open>>
          /\ IF hasCompleteRange(range) /\ d \in {range.from, range.to}
             THEN /\ phase' = IF d = range.from THEN [type |-> "edit-from", day |-> range.to]
                              ELSE [type |-> "edit-to", day |-> range.from]
                  /\ range' = Span(range.from, None)
             ELSE phase' = [type |-> "picking", day |-> d] /\ range' = Span(d, None)
  /\ UNCHANGED <<timezone, now, viewMonth>>

applyPreset(days) ==
  LET next == buildPresetDateRange(days, timezone) IN
  /\ open /\ Spend
  /\ value' = next /\ range' = next /\ phase' = Idle /\ hoverDate' = None
  /\ viewMonth' = resolveViewMonth(next) /\ open' = FALSE
  /\ UNCHANGED <<timezone, now>>

\* Cleared by its cross, whether the calendar is open or not.
handleClear ==
  /\ value # Empty /\ Spend /\ value' = Empty
  /\ UNCHANGED <<timezone, now, picker>>

\* The pointer over a day matters when the second day is awaited.
DateRangeFilterCalendar ==
  /\ open
  /\ \/ \E d \in Days : phase.type # "idle" /\ MonthOf(d) = viewMonth /\ hoverDate' = d /\ UNCHANGED <<viewMonth, acts>>
     \/ hoverDate' = None /\ UNCHANGED <<viewMonth, acts>>
     \/ \E m \in {MonthOf(d) : d \in Days} : Spend /\ viewMonth' = m /\ UNCHANGED hoverDate
  /\ UNCHANGED <<timezone, now, value, open, range, phase>>

setTimezone(z) ==
  /\ ~open /\ z # timezone /\ Spend /\ timezone' = z
  /\ UNCHANGED <<now, value, picker>>

Next ==
  \/ \E b \in BOOLEAN : handleOpenChange(b)
  \/ \E d \in Days : handleSelect(d)
  \/ \E days \in RANGE_PRESETS : applyPreset(days)
  \/ handleClear \/ DateRangeFilterCalendar
  \/ \E z \in Zones : setTimezone(z)

Spec == Init /\ [][Next]_vars

-----------------------------------------------------------------------------
(* Properties *)

\* All instants that can be asked for: from the longest preset that ends on day 0, a
\* day earlier, to the end of the last day, a day later.
Instants == (-(Longest + 1) * Ticks)..((LastDay + 2) * Ticks)
Asked == dateOnlyToApiUtc(value.from, timezone, "start")..dateOnlyToApiUtc(value.to, timezone, "end")
TheDays == {u \in Instants : DayOf(u, timezone) \in value.from..value.to}
Once(wall) == Cardinality({u \in Instants : Local(u, timezone) = wall}) = 1

\* (lib/datetime.ts zonedWallTimeToUtc) The server is asked for the days of the filter
\* in the user's zone and for nothing else, when their first and last tick exist there
\* once; a preset ends today and has as many days as it says; what a click would pick
\* is what the calendar shows with the pointer there.
DaysAgree ==
  /\ value # Empty =>
       /\ value.from <= value.to
       /\ Once(value.from * Ticks) /\ Once(value.to * Ticks + Ticks - 1) => Asked = TheDays
  /\ \A n \in RANGE_PRESETS :
       LET r == buildPresetDateRange(n, timezone) IN r.to = DayOf(now, timezone) /\ r.to - r.from = n - 1
  /\ phase.type # "idle" => \A d \in Days : Committed(d) = resolveCalendarSelected(d)

\* The same for every day, as the comment on dateOnlyToApiUtc has it: from its first
\* tick to its last (lib/datetime.ts:192).
AskedIsTheDays == value # Empty => Asked = TheDays

=============================================================================
