--------------------------- MODULE DateRangeFilter ---------------------------
(***************************************************************************)
(* The date range control (web/src/components/DateRangeFilter.tsx) while   *)
(* days, weeks and months pass: the user selects a preset or enters dates, *)
(* and a search resolves the value at the moment it is sent.               *)
(***************************************************************************)
EXTENDS DateRange

CONSTANTS
  Moments,  \* the instants at which the page is used
  Dates     \* the days that are entered

ASSUME MomentsAssumption ==
  /\ Moments \subseteq Nat /\ Dates \subseteq Nat
  /\ ClockYears(Moments)

VARIABLES now, value

vars == <<now, value>>

(* The value the page starts with. *)
Init == now \in Moments /\ value = PresetValue("today")

(* Up to a day goes by. *)
PassTime ==
  /\ now' \in {m \in (now + 1)..(now + DayLength + 1) : m \in Moments}
  /\ UNCHANGED value

SelectPreset ==
  /\ \E p \in Presets : value' = PresetValue(p)
  /\ UNCHANGED now

(* Selecting Custom, again too, begins with no dates. *)
SelectCustom ==
  /\ value' = CustomValue({}, {})
  /\ UNCHANGED now

(* A date is entered or cleared; the other one is kept. *)
SetCustomDate ==
  /\ value.preset = "custom"
  /\ \E date \in {{}} \cup {{d} : d \in Dates} :
       value' \in {CustomValue(date, value.to), CustomValue(value.from, date)}
  /\ UNCHANGED now

Next == PassTime \/ SelectPreset \/ SelectCustom \/ SetCustomDate

Spec == Init /\ [][Next]_vars

-----------------------------------------------------------------------------
(* What a user means by a value: the days of the period, told by counting  *)
(* the Mondays and comparing the months between them and today.            *)
MonthNumber(day) == 12 * FullYear(day) + Month(day)

MondaysSince(day, today) == Cardinality({m \in (day + 1)..today : Weekday(m) = 1})

Means(day, today) ==
  CASE value.preset = "custom" ->
         \E f \in value.from, t \in value.to : day \in f..t
    [] value.preset = "today" -> day = today
    [] value.preset = "yesterday" -> day = today - 1
    [] value.preset = "this_week" -> day =< today /\ MondaysSince(day, today) = 0
    [] value.preset = "last_week" -> MondaysSince(day, today) = 1
    [] value.preset = "this_month" ->
         day =< today /\ MonthNumber(day) = MonthNumber(today)
    [] value.preset = "last_month" -> MonthNumber(day) = MonthNumber(today) - 1

(* The dates entered, if any, are of years that are typed in full. *)
FourDigitYears == \A d \in value.from \cup value.to : FullYear(d) >= 100

(* At any moment a value resolves to whole days: exactly those it names,   *)
(* up to their last millisecond, across weeks, months, years, leap days    *)
(* and clock changes (dateRange.ts:14-79).  A typed year below 100 is left *)
(* out: dateRange.ts:73 and 78 take it to be of the twentieth century.     *)
RangeIsPeriod ==
  Complete(value) /\ FourDigitYears =>
    LET today == DayOf(now)
        range == ResolveDateRange(value, now)
    IN \A day \in (today - 63)..(today + 1) :
         IF Means(day, today)
         THEN range.from =< StartOfDay(day) /\ EndOfDay(day) =< range.to
         ELSE EndOfDay(day) < range.from \/ range.to < StartOfDay(day)

(* A period and the one before it share no instant, so no event is counted *)
(* in both, and leave out nothing but what follows the last millisecond    *)
(* (the inclusive bounds of event_repository.go:239-244).                  *)
PeriodsAdjoin ==
  \A pair \in {<<"yesterday", "today">>, <<"last_week", "this_week">>,
               <<"last_month", "this_month">>} :
    LET before == ResolveDateRange(PresetValue(pair[1]), now)
        after == ResolveDateRange(PresetValue(pair[2]), now)
    IN before.to < after.from /\ after.from =< before.to + Millisecond
=============================================================================
