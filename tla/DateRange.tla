------------------------------ MODULE DateRange ------------------------------
(***************************************************************************)
(* The date range of the query page (web/src/dateRange.ts): what a preset  *)
(* or a pair of dates resolves to at a given moment, in the time zone of   *)
(* the browser.                                                            *)
(*                                                                         *)
(* A local date is a day number, 0 being 1 January of the year 1, and      *)
(* Date(y, m, d) is the day of new Date(y, m, d): months count from 0, and *)
(* a month or a day outside its range carries over.  An instant counts     *)
(* units of which a day has DayLength, a few standing for 24 hours; the    *)
(* clocks go forward or back within the days of ShortDays and LongDays.    *)
(***************************************************************************)
EXTENDS Integers, FiniteSets

CONSTANTS
  DayLength,    \* units in a day
  Millisecond,  \* units in a millisecond
  ShortDays, LongDays  \* days that lose or gain one unit

ASSUME DateRangeAssumption ==
  /\ DayLength \in Nat /\ Millisecond \in Nat \ {0}
  /\ DayLength > Millisecond + 1
  /\ ShortDays \subseteq Nat /\ LongDays \subseteq Nat
  /\ IsFiniteSet(ShortDays \cup LongDays)
  /\ ShortDays \cap LongDays = {}

LeapYear(y) == y % 4 = 0 /\ (y % 100 # 0 \/ y % 400 = 0)

DaysBeforeYear(y) ==
  365 * (y - 1) + (y - 1) \div 4 - (y - 1) \div 100 + (y - 1) \div 400

DaysBeforeMonth(y, m) ==
  <<0, 31, 59, 90, 120, 151, 181, 212, 243, 273, 304, 334>>[m + 1]
    + (IF m > 1 /\ LeapYear(y) THEN 1 ELSE 0)

Date(y, m, d) ==
  LET year == y + m \div 12
  IN DaysBeforeYear(year) + DaysBeforeMonth(year, m % 12) + d - 1

(* getFullYear, getMonth, getDate and getDay, Sunday being 0. *)
FullYear(day) ==
  CHOOSE y \in (day \div 366)..(day \div 365 + 1) :
    DaysBeforeYear(y) =< day /\ day < DaysBeforeYear(y + 1)

Month(day) ==
  CHOOSE m \in 0..11 :
    /\ Date(FullYear(day), m, 1) =< day
    /\ day < Date(FullYear(day), m + 1, 1)

DateOf(day) == day - Date(FullYear(day), Month(day), 1) + 1

Weekday(day) == (day + 1) % 7

(* The first instant of a day, and the day of an instant. *)
StartOfDay(day) ==
  DayLength * day - Cardinality({s \in ShortDays : s < day})
                  + Cardinality({l \in LongDays : l < day})

DayOf(instant) ==
  CHOOSE day \in ((instant - Cardinality(LongDays)) \div DayLength)
                   ..((instant + Cardinality(ShortDays)) \div DayLength) :
    StartOfDay(day) =< instant /\ instant < StartOfDay(day + 1)

(* 23:59:59.999: the last millisecond, not the instants after its start.   *)
EndOfDay(day) == StartOfDay(day + 1) - Millisecond

(* Monday is the first day of a week. *)
StartOfWeek(day) == day - ((Weekday(day) + 6) % 7)

Presets ==
  {"today", "yesterday", "this_week", "last_week", "this_month", "last_month"}

(* A preset, or two dates of which either may not have been entered yet.   *)
PresetValue(p) == [from |-> {}, to |-> {}, preset |-> p]
CustomValue(from, to) == [from |-> from, to |-> to, preset |-> "custom"]

(* The day of a date that was typed: the year goes through new Date(year,  *)
(* ...), which takes 0 to 99 to be of the twentieth century.               *)
TypedDate(day) ==
  LET year == FullYear(day)
  IN Date(IF year \in 0..99 THEN 1900 + year ELSE year, Month(day), DateOf(day))

(* The first and the last day that a value resolves to on a day.  Today is *)
(* of a year in which new Date makes no difference.                        *)
FirstDay(value, today) ==
  CASE value.preset = "today" -> today
    [] value.preset = "yesterday" ->
         Date(FullYear(today), Month(today), DateOf(today) - 1)
    [] value.preset = "this_week" -> StartOfWeek(today)
    [] value.preset = "last_week" -> StartOfWeek(today) - 7
    [] value.preset = "this_month" -> Date(FullYear(today), Month(today), 1)
    [] value.preset = "last_month" -> Date(FullYear(today), Month(today) - 1, 1)
    [] value.preset = "custom" -> TypedDate(CHOOSE d \in value.from : TRUE)

LastDay(value, today) ==
  CASE value.preset \in {"today", "this_week", "this_month"} -> today
    [] value.preset = "yesterday" -> FirstDay(value, today)
    [] value.preset = "last_week" -> FirstDay(value, today) + 6
    [] value.preset = "last_month" -> Date(FullYear(today), Month(today), 0)
    [] value.preset = "custom" -> TypedDate(CHOOSE d \in value.to : TRUE)

(* Mutation of ResolveDateRange: days are subtracted as 24 hours.          *)
ResolveByHours(value, now) ==
  LET today == DayOf(now)
      back == DayLength * (today - FirstDay(value, today))
  IN [from |-> StartOfDay(today) - back, to |-> EndOfDay(LastDay(value, today))]

(* Mutation of ResolveDateRange: a day ends where the next one begins.     *)
ResolveToMidnight(value, now) ==
  LET today == DayOf(now)
  IN [from |-> StartOfDay(FirstDay(value, today)),
      to |-> StartOfDay(LastDay(value, today) + 1)]

ResolveDateRange(value, now) ==
  LET today == DayOf(now)
  IN [from |-> StartOfDay(FirstDay(value, today)),
      to |-> EndOfDay(LastDay(value, today))]

(* Both dates of a custom range have been entered. *)
Complete(value) ==
  value.preset = "custom" => value.from # {} /\ value.to # {}

(* A clock shows a date after the year 100: only then is a date that a     *)
(* preset computes, the last day of the year before included, not typed    *)
(* into another century.                                                   *)
ClockYears(moments) == \A m \in moments : FullYear(DayOf(m)) > 100
=============================================================================
