------------------------- MODULE DateRangeFilterProofs -------------------------
(***************************************************************************)
(* A value of the date range control resolves to the days it names: a      *)
(* preset at any moment after the year 100, two dates when their years are *)
(* 100 or later, for any length of a day and any days on which the clocks  *)
(* change.                                                                 *)
(*                                                                         *)
(* Where a proof goes from one day, month or year to the next, it looks at *)
(* the least counterexample.                                               *)
(***************************************************************************)
EXTENDS DateRangeFilter, FiniteSetTheorems, WellFoundedInduction, TLAPS

LEMMA LeastNatural ==
  ASSUME NEW T \in SUBSET Nat, T # {}
  PROVE  \E m \in T : \A k \in T : m =< k
<1>1. PICK m \in T : \A k \in T : ~ (<<k, m>> \in OpToRel(<, Nat))
  BY NatLessThanWellFounded, WFMin
<1>2. \A k \in T : ~ (k < m)
  BY <1>1 DEF OpToRel
<1> QED
  BY <1>2

(* A function of the integers that grows with every step grows.            *)
LEMMA Grows ==
  ASSUME NEW f, \A i \in Int : f[i] \in Int /\ f[i + 1] > f[i],
         NEW a \in Int, NEW n \in Nat
  PROVE  f[a + n] >= f[a] + n
<1> DEFINE T == {k \in Nat : ~(f[a + k] >= f[a] + k)}
<1> SUFFICES ASSUME T # {}
             PROVE  FALSE
  OBVIOUS
<1>1. PICK m \in T : \A k \in T : m =< k
  BY LeastNatural
<1>2. m # 0
  <2>1. f[a + 0] = f[a] /\ f[a] \in Int
    OBVIOUS
  <2> QED
    BY <2>1
<1>3. m - 1 \in Nat /\ ~(m =< m - 1)
  BY <1>2
<1>4. f[a + (m - 1)] >= f[a] + (m - 1)
  BY <1>1, <1>3
<1>5. f[(a + (m - 1)) + 1] > f[a + (m - 1)] /\ (a + (m - 1)) + 1 = a + m
  BY <1>3
<1>6. f[a] \in Int /\ f[a + m] \in Int /\ f[a + (m - 1)] \in Int
  BY <1>3
<1> QED
  BY <1>4, <1>5, <1>6

-----------------------------------------------------------------------------
(* Days: each begins after the one before it.                              *)
Earlier(days, day) == {s \in days : s < day}

LEMMA EarlierCount ==
  ASSUME NEW days \in SUBSET Nat, IsFiniteSet(days), NEW day \in Int
  PROVE  /\ Cardinality(Earlier(days, day)) \in 0..Cardinality(days)
         /\ Cardinality(days) \in Nat
         /\ Cardinality(Earlier(days, day + 1)) =
              Cardinality(Earlier(days, day)) + (IF day \in days THEN 1 ELSE 0)
<1>1. /\ IsFiniteSet(Earlier(days, day))
      /\ Cardinality(Earlier(days, day)) =< Cardinality(days)
      /\ Cardinality(Earlier(days, day)) \in Nat /\ Cardinality(days) \in Nat
  <2>1. Earlier(days, day) \subseteq days
    BY DEF Earlier
  <2> QED
    BY <2>1, FS_Subset, FS_CardinalityType
<1>2. CASE day \in days
  <2>1. Earlier(days, day + 1) = Earlier(days, day) \cup {day}
        /\ day \notin Earlier(days, day)
    <3>1. \A s \in days : s < day + 1 <=> s < day \/ s = day
      OBVIOUS
    <3> QED
      BY <1>2, <3>1, ~(day < day) DEF Earlier
  <2> QED
    BY <1>1, <1>2, <2>1, FS_AddElement
<1>3. CASE day \notin days
  <2>1. Earlier(days, day + 1) = Earlier(days, day)
    <3>1. \A s \in days : s < day + 1 <=> s < day
      BY <1>3
    <3> QED
      BY <3>1 DEF Earlier
  <2> QED
    BY <1>1, <1>3, <2>1
<1> QED
  BY <1>1, <1>2, <1>3

LEMMA WholeParts ==
  ASSUME NEW x \in Int, NEW d \in Nat \ {0}
  PROVE  /\ x \div d \in Int
         /\ d * (x \div d) =< x
         /\ x < d * (x \div d + 1)
OBVIOUS

LEMMA ClockDays ==
  /\ ShortDays \in SUBSET Nat /\ IsFiniteSet(ShortDays)
  /\ LongDays \in SUBSET Nat /\ IsFiniteSet(LongDays)
<1>1. ShortDays \subseteq ShortDays \cup LongDays /\ LongDays \subseteq ShortDays \cup LongDays
  OBVIOUS
<1> QED
  BY <1>1, FS_Subset, DateRangeAssumption

LEMMA DayStarts ==
  ASSUME NEW day \in Int
  PROVE  /\ StartOfDay(day) \in Int
         /\ StartOfDay(day) >= DayLength * day - Cardinality(ShortDays)
         /\ StartOfDay(day) =< DayLength * day + Cardinality(LongDays)
         /\ StartOfDay(day + 1) > StartOfDay(day) + Millisecond
<1> DEFINE short(d) == Cardinality(Earlier(ShortDays, d))
           long(d) == Cardinality(Earlier(LongDays, d))
<1>1. \A d \in Int : StartOfDay(d) = DayLength * d - short(d) + long(d)
  BY DEF StartOfDay, Earlier
<1>2. /\ short(day) \in 0..Cardinality(ShortDays) /\ Cardinality(ShortDays) \in Nat
      /\ short(day + 1) = short(day) + (IF day \in ShortDays THEN 1 ELSE 0)
  BY ClockDays, EarlierCount
<1>3. /\ long(day) \in 0..Cardinality(LongDays) /\ Cardinality(LongDays) \in Nat
      /\ long(day + 1) = long(day) + (IF day \in LongDays THEN 1 ELSE 0)
  BY ClockDays, EarlierCount
<1> HIDE DEF short, long
<1>4. /\ DayLength \in Nat /\ Millisecond \in Nat \ {0} /\ DayLength > Millisecond + 1
  BY DateRangeAssumption
<1>5. DayLength * (day + 1) = DayLength * day + DayLength /\ DayLength * day \in Int
  BY <1>4
<1>6. /\ StartOfDay(day) = DayLength * day - short(day) + long(day)
      /\ StartOfDay(day + 1) = DayLength * (day + 1) - short(day + 1) + long(day + 1)
  BY <1>1
<1> QED
  BY <1>2, <1>3, <1>4, <1>5, <1>6

LEMMA DaysInOrder ==
  ASSUME NEW a \in Int, NEW b \in Int
  PROVE  /\ a =< b => StartOfDay(a) =< StartOfDay(b)
         /\ a < b => StartOfDay(a + 1) =< StartOfDay(b)
         /\ a =< b => StartOfDay(b) >= StartOfDay(a) + (b - a)
<1> DEFINE f == [i \in Int |-> StartOfDay(i)]
<1>1. \A i \in Int : f[i] \in Int /\ f[i + 1] > f[i]
  <2> SUFFICES ASSUME NEW i \in Int
               PROVE  StartOfDay(i) \in Int /\ StartOfDay(i + 1) > StartOfDay(i)
    OBVIOUS
  <2> QED
    BY DayStarts, DateRangeAssumption
<1>2. \A i \in Int : f[i] = StartOfDay(i)
  OBVIOUS
<1> HIDE DEF f
<1>3. \A i \in Int, n \in Nat : f[i + n] >= f[i] + n
  BY <1>1, Grows
<1>4. ASSUME NEW i \in Int, i =< b
      PROVE  f[b] >= f[i] + (b - i)
  <2>1. b - i \in Nat /\ i + (b - i) = b
    BY <1>4
  <2> QED
    BY <1>3, <2>1
<1>5. a + 1 \in Int /\ f[a] \in Int /\ f[a + 1] \in Int /\ f[b] \in Int
  BY <1>1
<1>6. a < b => f[a + 1] =< f[b]
  <2> SUFFICES ASSUME a < b
               PROVE  f[a + 1] =< f[b]
    OBVIOUS
  <2>1. f[b] >= f[a + 1] + (b - (a + 1))
    BY <1>4, <1>5
  <2> QED
    BY <1>5, <2>1
<1>7. a =< b => f[b] >= f[a] + (b - a) /\ f[a] =< f[b]
  BY <1>4, <1>5
<1> QED
  BY <1>2, <1>5, <1>6, <1>7

(* The day of an instant is the one during which it is.                    *)
LEMMA DayOfInstant ==
  ASSUME NEW instant \in Nat
  PROVE  /\ DayOf(instant) \in Nat
         /\ StartOfDay(DayOf(instant)) =< instant
         /\ instant < StartOfDay(DayOf(instant) + 1)
<1> DEFINE during(d) == StartOfDay(d) =< instant /\ instant < StartOfDay(d + 1)
           low == (instant - Cardinality(LongDays)) \div DayLength
           high == (instant + Cardinality(ShortDays)) \div DayLength
<1>1. StartOfDay(0) = 0
  <2>1. Earlier(ShortDays, 0) = {} /\ Earlier(LongDays, 0) = {}
    <3>1. \A s \in Nat : ~(s < 0)
      OBVIOUS
    <3> QED
      BY <3>1, ClockDays DEF Earlier
  <2>2. Cardinality(Earlier(ShortDays, 0)) = 0 /\ Cardinality(Earlier(LongDays, 0)) = 0
    BY <2>1, FS_EmptySet
  <2>3. DayLength * 0 = 0
    BY DateRangeAssumption
  <2> QED
    BY <2>2, <2>3 DEF StartOfDay, Earlier
<1>2. PICK n \in Nat : during(n)
  <2> DEFINE T == {k \in Nat : instant < StartOfDay(k + 1)}
  <2>1. instant \in T
    <3>1. StartOfDay(instant + 1) >= StartOfDay(0) + ((instant + 1) - 0)
      BY DaysInOrder
    <3>2. StartOfDay(instant + 1) \in Int
      BY DayStarts
    <3> QED
      BY <1>1, <3>1, <3>2
  <2>2. PICK m \in T : \A k \in T : m =< k
    BY <2>1, LeastNatural
  <2>3. StartOfDay(m) =< instant
    <3>1. CASE m = 0
      BY <1>1, <3>1
    <3>2. CASE m # 0
      <4>1. m - 1 \in Nat /\ ~(m =< m - 1) /\ (m - 1) + 1 = m
        BY <3>2
      <4>2. ~(instant < StartOfDay(m))
        BY <2>2, <4>1
      <4>3. StartOfDay(m) \in Int
        BY DayStarts
      <4> QED
        BY <4>2, <4>3
    <3> QED
      BY <3>1, <3>2
  <2> QED
    BY <2>2, <2>3
<1>3. n \in low..high
  <2>1. /\ StartOfDay(n) >= DayLength * n - Cardinality(ShortDays)
        /\ StartOfDay(n + 1) =< DayLength * (n + 1) + Cardinality(LongDays)
        /\ StartOfDay(n) \in Int /\ StartOfDay(n + 1) \in Int
    BY DayStarts
  <2>2. Cardinality(ShortDays) \in Nat /\ Cardinality(LongDays) \in Nat
    BY ClockDays, FS_CardinalityType
  <2>3. /\ DayLength * n =< instant + Cardinality(ShortDays)
        /\ instant - Cardinality(LongDays) < DayLength * (n + 1)
    BY <1>2, <2>1, <2>2, DateRangeAssumption
  <2>5. \A d \in Nat \ {0}, i, j \in Int : d * i < d * j => i < j
    OBVIOUS
  <2>6. DayLength \in Nat \ {0}
    BY DateRangeAssumption
  <2>7. n =< high
    <3> DEFINE x == instant + Cardinality(ShortDays)
    <3>1. x \in Int /\ high \in Int /\ x < DayLength * (high + 1)
      <4>1. x \in Int /\ high = x \div DayLength
        BY <2>2
      <4> HIDE DEF x, high
      <4> QED
        BY <2>6, <4>1, WholeParts
    <3>2. DayLength * n < DayLength * (high + 1)
      BY <2>3, <2>6, <3>1
    <3> HIDE DEF high, x
    <3>3. n < high + 1
      BY <2>5, <2>6, <3>1, <3>2
    <3> QED
      BY <3>1, <3>3
  <2>8. low =< n
    <3> DEFINE x == instant - Cardinality(LongDays)
    <3>1. x \in Int /\ low \in Int /\ DayLength * low =< x
      BY <2>2, <2>6, WholeParts
    <3>2. DayLength * low < DayLength * (n + 1)
      BY <2>3, <2>6, <3>1
    <3> HIDE DEF low, x
    <3>3. low < n + 1
      BY <2>5, <2>6, <3>1, <3>2
    <3> QED
      BY <3>1, <3>3
  <2>9. low \in Int /\ high \in Int
    BY <2>2, <2>6, WholeParts
  <2> QED
    BY <2>7, <2>8, <2>9
<1>4. DayOf(instant) = CHOOSE d \in low..high : during(d)
  BY DEF DayOf
<1>5. DayOf(instant) \in low..high /\ during(DayOf(instant))
  BY <1>2, <1>3, <1>4
<1>6. DayOf(instant) = n
  <2>1. PICK d \in Int : d = DayOf(instant)
    BY <1>5
  <2>2. /\ StartOfDay(d) \in Int /\ StartOfDay(d + 1) \in Int
        /\ StartOfDay(n) \in Int /\ StartOfDay(n + 1) \in Int
    BY DayStarts
  <2>3. during(d)
    BY <1>5, <2>1
  <2>4. ~(d < n)
    BY <1>2, <2>2, <2>3, DaysInOrder
  <2>5. ~(n < d)
    BY <1>2, <2>2, <2>3, DaysInOrder
  <2> QED
    BY <2>1, <2>4, <2>5
<1> QED
  BY <1>2, <1>6

-----------------------------------------------------------------------------
(* Years: a leap year is a day longer.                                     *)
LeapDays(y) == IF LeapYear(y) THEN 1 ELSE 0

LEMMA YearLength ==
  ASSUME NEW y \in Int
  PROVE  /\ DaysBeforeYear(y) \in Int
         /\ DaysBeforeYear(y + 1) = DaysBeforeYear(y) + 365 + LeapDays(y)
<1>1. y \div 4 = (y - 1) \div 4 + (IF y % 4 = 0 THEN 1 ELSE 0)
  OBVIOUS
<1>2. y \div 100 = (y - 1) \div 100 + (IF y % 100 = 0 THEN 1 ELSE 0)
  OBVIOUS
<1>3. y \div 400 = (y - 1) \div 400 + (IF y % 400 = 0 THEN 1 ELSE 0)
  OBVIOUS
<1>4. (y % 100 = 0 => y % 4 = 0) /\ (y % 400 = 0 => y % 100 = 0)
  OBVIOUS
<1>5. (y + 1) - 1 = y
  OBVIOUS
<1> QED
  BY <1>1, <1>2, <1>3, <1>4, <1>5 DEF DaysBeforeYear, LeapDays, LeapYear

LEMMA YearsBefore ==
  ASSUME NEW y \in Int, y =< 0, y >= -1
  PROVE  DaysBeforeYear(y) = 365 * (y - 1) - 1
<1>1. (y - 1) \div 4 = -1 /\ (y - 1) \div 100 = -1 /\ (y - 1) \div 400 = -1
  OBVIOUS
<1> QED
  BY <1>1 DEF DaysBeforeYear

LEMMA YearsInDays ==
  ASSUME NEW n \in Nat
  PROVE  /\ 365 * n =< DaysBeforeYear(n + 1)
         /\ DaysBeforeYear(n + 1) =< 366 * n
<1>1. n \div 100 =< n \div 4 /\ n \div 4 - n \div 100 + n \div 400 =< n /\ 0 =< n \div 400
  OBVIOUS
<1>2. n \div 4 \in Int /\ n \div 100 \in Int /\ n \div 400 \in Int /\ (n + 1) - 1 = n
  OBVIOUS
<1> QED
  BY <1>1, <1>2 DEF DaysBeforeYear

LEMMA YearOfDay ==
  ASSUME NEW day \in Int, day >= -365
  PROVE  /\ FullYear(day) \in Nat
         /\ DaysBeforeYear(FullYear(day)) =< day
         /\ day < DaysBeforeYear(FullYear(day) + 1)
<1> DEFINE T == {n \in Nat : day < DaysBeforeYear(n + 1)}
<1>1. DaysBeforeYear(0) = -366 /\ DaysBeforeYear(1) = 0
  <2>1. DaysBeforeYear(0) = 365 * (0 - 1) - 1
    BY YearsBefore
  <2>2. 365 * 0 =< DaysBeforeYear(0 + 1) /\ DaysBeforeYear(0 + 1) =< 366 * 0
    BY YearsInDays
  <2>3. DaysBeforeYear(1) \in Int /\ 0 + 1 = 1
    BY YearLength
  <2> QED
    BY <2>1, <2>2, <2>3
<1>2. T # {}
  <2>1. CASE day < 0
    BY <1>1, <2>1
  <2>2. CASE day >= 0
    <3>1. day + 1 \in Nat /\ 365 * (day + 1) > day
      BY <2>2
    <3>2. 365 * (day + 1) =< DaysBeforeYear((day + 1) + 1)
      BY <3>1, YearsInDays
    <3>3. DaysBeforeYear((day + 1) + 1) \in Int
      BY YearLength
    <3>4. day < DaysBeforeYear((day + 1) + 1)
      BY <3>1, <3>2, <3>3
    <3> QED
      BY <3>1, <3>4
  <2> QED
    BY <2>1, <2>2
<1>3. PICK m \in T : \A k \in T : m =< k
  BY <1>2, LeastNatural
<1>4. /\ m \in Nat /\ day < DaysBeforeYear(m + 1)
      /\ DaysBeforeYear(m) \in Int /\ DaysBeforeYear(m + 1) \in Int
  BY YearLength
<1>5. DaysBeforeYear(m) =< day
  <2>1. CASE m = 0
    BY <1>1, <2>1
  <2>2. CASE m # 0
    <3>1. m - 1 \in Nat /\ ~(m =< m - 1) /\ (m - 1) + 1 = m
      BY <2>2
    <3>2. ~(day < DaysBeforeYear(m))
      BY <1>3, <3>1
    <3> QED
      BY <1>4, <3>2
  <2> QED
    BY <2>1, <2>2
<1> HIDE DEF T
<1>6. m \in (day \div 366)..(day \div 365 + 1)
  <2>1. day < 366 * m
    BY <1>4, YearsInDays
  <2>2. m # 0 => 365 * (m - 1) =< day
    <3> SUFFICES ASSUME m # 0
                 PROVE  365 * (m - 1) =< day
      OBVIOUS
    <3>1. m - 1 \in Nat /\ (m - 1) + 1 = m
      BY <1>4
    <3>2. 365 * (m - 1) =< DaysBeforeYear(m)
      BY <3>1, YearsInDays
    <3> QED
      BY <1>4, <1>5, <3>1, <3>2
  <2> QED
    BY <1>4, <2>1, <2>2
<1>7. \E y \in (day \div 366)..(day \div 365 + 1) :
        DaysBeforeYear(y) =< day /\ day < DaysBeforeYear(y + 1)
  BY <1>4, <1>5, <1>6
<1>8. /\ FullYear(day) \in (day \div 366)..(day \div 365 + 1)
      /\ DaysBeforeYear(FullYear(day)) =< day
      /\ day < DaysBeforeYear(FullYear(day) + 1)
  BY <1>7 DEF FullYear
<1>9. FullYear(day) # -1 /\ FullYear(day) # -2
  <2>1. DaysBeforeYear(-1 + 1) = -366 /\ DaysBeforeYear(-2 + 1) = -731
    BY YearsBefore
  <2> QED
    BY <1>8, <2>1
<1> QED
  BY <1>8, <1>9

-----------------------------------------------------------------------------
(* Months are numbered through the years, and each begins after the one    *)
(* before it.                                                              *)
MonthStart(n) == Date(n \div 12, n % 12, 1)

LEMMA MonthsInYear ==
  ASSUME NEW y \in Int
  PROVE  /\ DaysBeforeMonth(y, 0) = 0
         /\ DaysBeforeMonth(y, 1) = 31
         /\ DaysBeforeMonth(y, 2) = 59 + LeapDays(y)
         /\ DaysBeforeMonth(y, 3) = 90 + LeapDays(y)
         /\ DaysBeforeMonth(y, 4) = 120 + LeapDays(y)
         /\ DaysBeforeMonth(y, 5) = 151 + LeapDays(y)
         /\ DaysBeforeMonth(y, 6) = 181 + LeapDays(y)
         /\ DaysBeforeMonth(y, 7) = 212 + LeapDays(y)
         /\ DaysBeforeMonth(y, 8) = 243 + LeapDays(y)
         /\ DaysBeforeMonth(y, 9) = 273 + LeapDays(y)
         /\ DaysBeforeMonth(y, 10) = 304 + LeapDays(y)
         /\ DaysBeforeMonth(y, 11) = 334 + LeapDays(y)
BY DEF DaysBeforeMonth, LeapDays

LEMMA MonthStarts ==
  ASSUME NEW n \in Int
  PROVE  /\ MonthStart(n) = DaysBeforeYear(n \div 12) + DaysBeforeMonth(n \div 12, n % 12)
         /\ MonthStart(n) \in Int
         /\ n % 12 \in 0..11
         /\ n % 12 # 11 => (n + 1) \div 12 = n \div 12 /\ (n + 1) % 12 = (n % 12) + 1
         /\ n % 12 = 11 => (n + 1) \div 12 = n \div 12 + 1 /\ (n + 1) % 12 = 0
<1>1. n \div 12 \in Int /\ n % 12 \in 0..11
  OBVIOUS
<1>2. (n % 12) \div 12 = 0 /\ (n % 12) % 12 = n % 12
  BY <1>1
<1>3. /\ n % 12 # 11 => (n + 1) \div 12 = n \div 12 /\ (n + 1) % 12 = (n % 12) + 1
      /\ n % 12 = 11 => (n + 1) \div 12 = n \div 12 + 1 /\ (n + 1) % 12 = 0
  OBVIOUS
<1>4. DaysBeforeYear(n \div 12) \in Int /\ LeapDays(n \div 12) \in 0..1
  BY <1>1, YearLength DEF LeapDays
<1>5. DaysBeforeMonth(n \div 12, n % 12) \in Int
  BY <1>1, <1>4, MonthsInYear
<1>6. MonthStart(n) = DaysBeforeYear(n \div 12) + DaysBeforeMonth(n \div 12, n % 12)
  BY <1>1, <1>2, <1>4, <1>5 DEF MonthStart, Date
<1> QED
  BY <1>1, <1>3, <1>4, <1>5, <1>6

LEMMA MonthGrows ==
  ASSUME NEW n \in Int
  PROVE  MonthStart(n) \in Int /\ MonthStart(n + 1) > MonthStart(n)
<1> DEFINE y == n \div 12
           m == n % 12
<1>1. y \in Int /\ m \in 0..11 /\ n + 1 \in Int
  OBVIOUS
<1>2. MonthStart(n) = DaysBeforeYear(y) + DaysBeforeMonth(y, m)
  BY MonthStarts
<1>3. MonthStart(n + 1) = DaysBeforeYear((n + 1) \div 12)
                            + DaysBeforeMonth((n + 1) \div 12, (n + 1) % 12)
  BY <1>1, MonthStarts
<1>4. /\ m # 11 => (n + 1) \div 12 = y /\ (n + 1) % 12 = m + 1
      /\ m = 11 => (n + 1) \div 12 = y + 1 /\ (n + 1) % 12 = 0
  BY MonthStarts
<1> HIDE DEF y, m
<1>5. DaysBeforeYear(y) \in Int /\ LeapDays(y) \in 0..1
  BY <1>1, YearLength DEF LeapDays
<1>6. CASE m # 11
  <2>1. DaysBeforeMonth(y, m + 1) > DaysBeforeMonth(y, m) /\ DaysBeforeMonth(y, m) \in Int
        /\ DaysBeforeMonth(y, m + 1) \in Int
    BY <1>1, <1>5, <1>6, MonthsInYear
  <2> QED
    BY <1>2, <1>3, <1>4, <1>5, <1>6, <2>1
<1>7. CASE m = 11
  <2>1. DaysBeforeMonth(y, m) = 334 + LeapDays(y) /\ DaysBeforeMonth(y + 1, 0) = 0
    BY <1>1, <1>7, MonthsInYear
  <2>2. DaysBeforeYear(y + 1) = DaysBeforeYear(y) + 365 + LeapDays(y)
    BY <1>1, YearLength
  <2> QED
    BY <1>2, <1>3, <1>4, <1>5, <1>7, <2>1, <2>2
<1> QED
  BY <1>6, <1>7, MonthStarts

LEMMA MonthsInOrder ==
  ASSUME NEW a \in Int, NEW b \in Int, a =< b
  PROVE  MonthStart(a) =< MonthStart(b)
<1> DEFINE f == [i \in Int |-> MonthStart(i)]
<1>1. \A i \in Int : f[i] \in Int /\ f[i + 1] > f[i]
  BY MonthGrows
<1>2. f[a] = MonthStart(a) /\ f[b] = MonthStart(b) /\ f[a] \in Int /\ f[b] \in Int
  BY <1>1
<1> HIDE DEF f
<1>3. b - a \in Nat /\ a + (b - a) = b
  OBVIOUS
<1>4. f[a + (b - a)] >= f[a] + (b - a)
  BY <1>1, <1>3, Grows
<1> QED
  BY <1>2, <1>3, <1>4

LEMMA DateInMonth ==
  ASSUME NEW y \in Int, NEW m \in Int, NEW d \in Int
  PROVE  Date(y, m, d) = MonthStart(12 * y + m) + d - 1
<1>1. (12 * y + m) \div 12 = y + m \div 12 /\ (12 * y + m) % 12 = m % 12
  OBVIOUS
<1>2. MonthStart(12 * y + m) = DaysBeforeYear(y + m \div 12)
                                 + DaysBeforeMonth(y + m \div 12, m % 12)
  <2>1. PICK n \in Int : n = 12 * y + m
    OBVIOUS
  <2>2. MonthStart(n) = DaysBeforeYear(n \div 12) + DaysBeforeMonth(n \div 12, n % 12)
    BY MonthStarts
  <2> QED
    BY <1>1, <2>1, <2>2
<1> QED
  BY <1>2 DEF Date

(* The month of a day is the one it is in.                                 *)
LEMMA MonthOfDay ==
  ASSUME NEW day \in Int, day >= -365
  PROVE  /\ FullYear(day) \in Nat /\ Month(day) \in 0..11
         /\ MonthNumber(day) \in Nat
         /\ MonthStart(MonthNumber(day)) =< day
         /\ day < MonthStart(MonthNumber(day) + 1)
         /\ DateOf(day) = day - MonthStart(MonthNumber(day)) + 1
<1> DEFINE y == FullYear(day)
           T == {k \in Nat : day < MonthStart(12 * y + k + 1)}
<1>1. y \in Nat /\ DaysBeforeYear(y) =< day /\ day < DaysBeforeYear(y + 1)
  BY YearOfDay
<1> HIDE DEF y
<1>2. \A k \in Nat : MonthStart(12 * y + k) \in Int /\ Date(y, k, 1) = MonthStart(12 * y + k)
  <2> SUFFICES ASSUME NEW k \in Nat
               PROVE  MonthStart(12 * y + k) \in Int /\ Date(y, k, 1) = MonthStart(12 * y + k)
    OBVIOUS
  <2>1. 12 * y + k \in Int
    BY <1>1
  <2>2. MonthStart(12 * y + k) \in Int
    BY <2>1, MonthGrows
  <2>3. Date(y, k, 1) = MonthStart(12 * y + k) + 1 - 1
    BY <1>1, DateInMonth
  <2> QED
    BY <2>2, <2>3
<1>3. MonthStart(12 * y + 0) = DaysBeforeYear(y)
  <2>1. PICK n \in Int : n = 12 * y + 0
    BY <1>1
  <2>2. n \div 12 = y /\ n % 12 = 0
    BY <1>1, <2>1
  <2>3. MonthStart(n) = DaysBeforeYear(n \div 12) + DaysBeforeMonth(n \div 12, n % 12)
    BY MonthStarts
  <2> QED
    BY <1>1, <2>1, <2>2, <2>3, YearLength, MonthsInYear
<1>4. MonthStart(12 * y + 12) = DaysBeforeYear(y + 1)
  <2>1. PICK n \in Int : n = 12 * y + 12
    BY <1>1
  <2>2. n \div 12 = y + 1 /\ n % 12 = 0
    BY <1>1, <2>1
  <2>3. MonthStart(n) = DaysBeforeYear(n \div 12) + DaysBeforeMonth(n \div 12, n % 12)
    BY MonthStarts
  <2> QED
    BY <1>1, <2>1, <2>2, <2>3, YearLength, MonthsInYear
<1>5. 11 \in T
  <2>1. 12 * y + 11 + 1 = 12 * y + 12
    BY <1>1
  <2> QED
    BY <1>1, <1>4, <2>1
<1>6. PICK m \in T : \A k \in T : m =< k
  BY <1>5, LeastNatural
<1>7. m \in 0..11 /\ day < MonthStart(12 * y + (m + 1))
  <2>1. 12 * y + m + 1 = 12 * y + (m + 1)
    BY <1>1, <1>6
  <2> QED
    BY <1>5, <1>6, <2>1
<1>8. MonthStart(12 * y + m) =< day
  <2>1. CASE m = 0
    BY <1>1, <1>3, <2>1
  <2>2. CASE m # 0
    <3>1. m - 1 \in Nat /\ ~(m =< m - 1) /\ 12 * y + (m - 1) + 1 = 12 * y + m
      BY <1>1, <1>7, <2>2
    <3>2. ~(day < MonthStart(12 * y + m))
      BY <1>6, <3>1
    <3>3. MonthStart(12 * y + m) \in Int
      BY <1>2, <1>7
    <3> QED
      BY <3>2, <3>3
  <2> QED
    BY <2>1, <2>2
<1>9. Date(y, m, 1) =< day /\ day < Date(y, m + 1, 1)
  BY <1>2, <1>7, <1>8
<1>10. /\ Month(day) \in 0..11
       /\ Date(y, Month(day), 1) =< day /\ day < Date(y, Month(day) + 1, 1)
  BY <1>7, <1>9 DEF Month, y
<1>11. PICK k \in 0..11 : k = Month(day)
  BY <1>10
<1>12. /\ MonthNumber(day) = 12 * y + k
       /\ 12 * y + k \in Nat /\ 12 * y + k + 1 = 12 * y + (k + 1)
  BY <1>1, <1>11 DEF MonthNumber, y
<1>13. MonthStart(12 * y + k) =< day /\ day < MonthStart(12 * y + (k + 1))
  BY <1>2, <1>10, <1>11
<1>14. DateOf(day) = day - MonthStart(12 * y + k) + 1
  BY <1>2, <1>11 DEF DateOf, y
<1> QED
  BY <1>1, <1>10, <1>12, <1>13, <1>14 DEF y

LEMMA DaysOfMonth ==
  ASSUME NEW day \in Int, day >= -365, NEW n \in Int
  PROVE  MonthNumber(day) = n <=> MonthStart(n) =< day /\ day < MonthStart(n + 1)
<1>1. PICK k \in Int : k = MonthNumber(day)
  BY MonthOfDay
<1>2. MonthStart(k) =< day /\ day < MonthStart(k + 1)
  BY <1>1, MonthOfDay
<1>3. /\ MonthStart(k) \in Int /\ MonthStart(k + 1) \in Int
      /\ MonthStart(n) \in Int /\ MonthStart(n + 1) \in Int
  BY MonthGrows
<1>4. k < n => MonthStart(k + 1) =< MonthStart(n)
  <2>1. k < n => k + 1 =< n
    OBVIOUS
  <2> QED
    BY <2>1, MonthsInOrder
<1>5. n < k => MonthStart(n + 1) =< MonthStart(k)
  <2>1. n < k => n + 1 =< k
    OBVIOUS
  <2> QED
    BY <2>1, MonthsInOrder
<1> QED
  BY <1>1, <1>2, <1>3, <1>4, <1>5

-----------------------------------------------------------------------------
(* Weeks begin on the days whose number 7 divides.                         *)
LEMMA WeekOfDay ==
  ASSUME NEW day \in Int
  PROVE  /\ StartOfWeek(day) \in Int
         /\ StartOfWeek(day) =< day /\ day < StartOfWeek(day) + 7
         /\ StartOfWeek(day) % 7 = 0
<1>1. (((day + 1) % 7) + 6) % 7 = day % 7
  OBVIOUS
<1>2. (day - (day % 7)) % 7 = 0 /\ (day % 7) \in 0..6
  OBVIOUS
<1> QED
  BY <1>1, <1>2 DEF StartOfWeek, Weekday

LEMMA MondaysCounted ==
  ASSUME NEW day \in Int, NEW today \in Int
  PROVE  /\ day =< today /\ MondaysSince(day, today) = 0
              <=> StartOfWeek(today) =< day /\ day =< today
         /\ MondaysSince(day, today) = 1
              <=> StartOfWeek(today) - 7 =< day /\ day < StartOfWeek(today)
<1> DEFINE M == {m \in (day + 1)..today : Weekday(m) = 1}
<1>1. PICK w \in Int : w = StartOfWeek(today)
  BY WeekOfDay
<1>2. w =< today /\ today < w + 7 /\ w % 7 = 0
  BY <1>1, WeekOfDay
<1>3. \A m \in Int : Weekday(m) = 1 <=> m % 7 = 0
  BY DEF Weekday
<1>4. \A m : m \in M <=> m \in Int /\ day < m /\ m =< today /\ m % 7 = 0
  BY <1>3
<1>5. IsFiniteSet(M)
  <2>1. IsFiniteSet((day + 1)..today)
    BY FS_Interval
  <2> QED
    BY <2>1, FS_Subset
<1>6. MondaysSince(day, today) = Cardinality(M)
  BY DEF MondaysSince
<1> HIDE DEF M
<1>7. \A m \in M : m =< w
  BY <1>2, <1>4
<1>8. w - 7 \in Int /\ (w - 7) % 7 = 0
  BY <1>2
<1>9. CASE w =< day
  <2>1. M = {}
    BY <1>4, <1>7, <1>9
  <2> QED
    BY <1>1, <1>6, <1>9, <2>1, FS_EmptySet
<1>10. CASE w - 7 =< day /\ day < w
  <2>1. M = {w}
    <3>1. \A m \in M : m = w
      BY <1>2, <1>4, <1>7, <1>10
    <3> QED
      BY <1>2, <1>4, <1>10, <3>1
  <2>2. Cardinality(M) = 1
    BY <2>1, FS_Singleton
  <2> QED
    BY <1>1, <1>6, <1>10, <2>2
<1>11. CASE day < w - 7
  <2>1. w \in M /\ w - 7 \in M /\ w # w - 7
    BY <1>2, <1>4, <1>8, <1>11
  <2>2. Cardinality(M) # 0
    BY <1>5, <2>1, FS_EmptySet
  <2>3. Cardinality(M) # 1
    BY <1>5, <2>1, FS_Singleton
  <2> QED
    BY <1>1, <1>6, <1>11, <2>2, <2>3
<1> QED
  BY <1>9, <1>10, <1>11

-----------------------------------------------------------------------------
(* The first and the last day of each preset.                              *)
LEMMA DaysOfPresets ==
  ASSUME NEW today \in Nat, NEW v
  PROVE  /\ v.preset = "today" => FirstDay(v, today) = today /\ LastDay(v, today) = today
         /\ v.preset = "yesterday" =>
              FirstDay(v, today) = today - 1 /\ LastDay(v, today) = today - 1
         /\ v.preset = "this_week" =>
              FirstDay(v, today) = StartOfWeek(today) /\ LastDay(v, today) = today
         /\ v.preset = "last_week" =>
              /\ FirstDay(v, today) = StartOfWeek(today) - 7
              /\ LastDay(v, today) = StartOfWeek(today) - 1
         /\ v.preset = "this_month" =>
              /\ FirstDay(v, today) = MonthStart(MonthNumber(today))
              /\ LastDay(v, today) = today
         /\ v.preset = "last_month" =>
              /\ FirstDay(v, today) = MonthStart(MonthNumber(today) - 1)
              /\ LastDay(v, today) = MonthStart(MonthNumber(today)) - 1
<1> DEFINE y == FullYear(today)
           m == Month(today)
           start == MonthStart(MonthNumber(today))
<1>1. /\ y \in Nat /\ m \in 0..11 /\ MonthNumber(today) = 12 * y + m
      /\ DateOf(today) = today - start + 1
  BY MonthOfDay DEF MonthNumber
<1>2. start \in Int /\ MonthStart(MonthNumber(today) - 1) \in Int
  <2>1. MonthNumber(today) \in Int /\ MonthNumber(today) - 1 \in Int
    BY <1>1
  <2> QED
    BY <2>1, MonthGrows
<1> HIDE DEF y, m
<1>3. Date(y, m, DateOf(today) - 1) = today - 1
  <2>1. DateOf(today) - 1 \in Int
    BY <1>1, <1>2
  <2>2. Date(y, m, DateOf(today) - 1) = start + (DateOf(today) - 1) - 1
    <3>1. Date(y, m, DateOf(today) - 1) = MonthStart(12 * y + m) + (DateOf(today) - 1) - 1
      BY <1>1, <2>1, DateInMonth
    <3> QED
      BY <1>1, <3>1
  <2> QED
    BY <1>1, <1>2, <2>2
<1>4. Date(y, m, 1) = start /\ Date(y, m, 0) = start - 1
  <2>1. \A d \in Int : Date(y, m, d) = MonthStart(12 * y + m) + d - 1
    BY <1>1, DateInMonth
  <2>2. start = MonthStart(12 * y + m)
    BY <1>1
  <2> QED
    BY <1>2, <2>1, <2>2
<1>5. Date(y, m - 1, 1) = MonthStart(MonthNumber(today) - 1)
  <2>1. m - 1 \in Int /\ 12 * y + (m - 1) = MonthNumber(today) - 1
    BY <1>1
  <2>2. Date(y, m - 1, 1) = MonthStart(12 * y + (m - 1)) + 1 - 1
    BY <1>1, <2>1, DateInMonth
  <2> QED
    BY <1>2, <2>1, <2>2
<1>6. StartOfWeek(today) \in Int /\ StartOfWeek(today) - 7 + 6 = StartOfWeek(today) - 1
  <2>1. StartOfWeek(today) \in Int
    BY WeekOfDay
  <2> QED
    BY <2>1
<1> HIDE DEF start
<1>7. /\ FirstDay(v, today) = CASE v.preset = "today" -> today
           [] v.preset = "yesterday" -> Date(y, m, DateOf(today) - 1)
           [] v.preset = "this_week" -> StartOfWeek(today)
           [] v.preset = "last_week" -> StartOfWeek(today) - 7
           [] v.preset = "this_month" -> Date(y, m, 1)
           [] v.preset = "last_month" -> Date(y, m - 1, 1)
           [] v.preset = "custom" -> TypedDate(CHOOSE d \in v.from : TRUE)
      /\ LastDay(v, today) = CASE v.preset \in {"today", "this_week", "this_month"} -> today
           [] v.preset = "yesterday" -> FirstDay(v, today)
           [] v.preset = "last_week" -> FirstDay(v, today) + 6
           [] v.preset = "last_month" -> Date(y, m, 0)
           [] v.preset = "custom" -> TypedDate(CHOOSE d \in v.to : TRUE)
  BY DEF FirstDay, LastDay, y, m
<1> QED
  BY <1>3, <1>4, <1>5, <1>6, <1>7 DEF start

-----------------------------------------------------------------------------
(* A value is a preset, or dates of which each is a day or not entered.    *)
Entered == {{}} \cup {{d} : d \in Nat}

ValueInv ==
  /\ now \in Nat
  /\ \/ \E p \in Presets : value = PresetValue(p)
     \/ \E f \in Entered, t \in Entered : value = CustomValue(f, t)

LEMMA ValueInvInit == Init => ValueInv
BY MomentsAssumption DEF Init, ValueInv, Presets

LEMMA ValueInvStep == ValueInv /\ [Next]_vars => ValueInv'
<1> SUFFICES ASSUME ValueInv, [Next]_vars
             PROVE  ValueInv'
  OBVIOUS
<1>1. CASE PassTime
  BY <1>1, MomentsAssumption DEF PassTime, ValueInv
<1>2. CASE SelectPreset
  BY <1>2 DEF SelectPreset, ValueInv
<1>3. CASE SelectCustom
  BY <1>3 DEF SelectCustom, ValueInv, Entered
<1>4. CASE SetCustomDate
  <2>1. PICK date \in {{}} \cup {{d} : d \in Dates} :
          value' \in {CustomValue(date, value.to), CustomValue(value.from, date)}
    BY <1>4 DEF SetCustomDate
  <2>2. date \in Entered
    BY <2>1, MomentsAssumption DEF Entered
  <2>3. value.from \in Entered /\ value.to \in Entered
    BY DEF ValueInv, Entered, PresetValue, CustomValue
  <2> QED
    BY <1>4, <2>1, <2>2, <2>3 DEF SetCustomDate, ValueInv
<1>5. CASE UNCHANGED vars
  BY <1>5 DEF ValueInv, vars
<1> QED
  BY <1>1, <1>2, <1>3, <1>4, <1>5 DEF Next

(* A date typed with a year from 100 on is the day that was meant.         *)
LEMMA TypedInFull ==
  ASSUME NEW day \in Nat, FullYear(day) >= 100
  PROVE  TypedDate(day) = day
<1> DEFINE y == FullYear(day)
           m == Month(day)
           start == MonthStart(MonthNumber(day))
<1>1. /\ y \in Nat /\ m \in 0..11 /\ MonthNumber(day) = 12 * y + m
      /\ DateOf(day) = day - start + 1
  BY MonthOfDay DEF MonthNumber
<1>2. start \in Int
  <2>1. MonthNumber(day) \in Int
    BY <1>1
  <2> QED
    BY <2>1, MonthGrows
<1>3. TypedDate(day) = Date(y, m, DateOf(day))
  <2>1. y \notin 0..99
    BY <1>1
  <2> QED
    BY <2>1 DEF TypedDate
<1> HIDE DEF y, m
<1>4. DateOf(day) \in Int
  BY <1>1, <1>2
<1>5. \A d \in Int : Date(y, m, d) = MonthStart(12 * y + m) + d - 1
  BY <1>1, DateInMonth
<1>6. start = MonthStart(12 * y + m)
  BY <1>1
<1> HIDE DEF start
<1> QED
  BY <1>1, <1>2, <1>3, <1>4, <1>5, <1>6

(* The days that a value names are those it resolves to, first to last.    *)
LEMMA NamedDays ==
  ASSUME ValueInv, Complete(value), FourDigitYears, NEW today \in Nat,
         NEW day \in Int, day >= -365
  PROVE  /\ FirstDay(value, today) \in Int /\ LastDay(value, today) \in Int
         /\ Means(day, today) <=>
              FirstDay(value, today) =< day /\ day =< LastDay(value, today)
<1>1. CASE \E p \in Presets : value = PresetValue(p)
  <2> DEFINE n == MonthNumber(today)
  <2>1. n \in Int /\ n - 1 \in Int /\ n - 1 + 1 = n
    BY MonthOfDay
  <2>2. /\ MonthStart(n) \in Int /\ MonthStart(n + 1) \in Int /\ MonthStart(n - 1) \in Int
        /\ today < MonthStart(n + 1) /\ StartOfWeek(today) \in Int
    BY <2>1, MonthGrows, MonthOfDay, WeekOfDay
  <2>3. /\ MonthNumber(day) = n <=> MonthStart(n) =< day /\ day < MonthStart(n + 1)
        /\ MonthNumber(day) = n - 1 <=> MonthStart(n - 1) =< day /\ day < MonthStart(n)
    BY <2>1, DaysOfMonth
  <2>4. PICK p \in Presets : value.preset = p
    BY <1>1 DEF PresetValue
  <2>5. CASE p = "today"
    BY <2>4, <2>5, DaysOfPresets DEF Means
  <2>6. CASE p = "yesterday"
    BY <2>4, <2>6, DaysOfPresets DEF Means
  <2>7. CASE p = "this_week"
    BY <2>2, <2>4, <2>7, DaysOfPresets, MondaysCounted DEF Means
  <2>8. CASE p = "last_week"
    BY <2>2, <2>4, <2>8, DaysOfPresets, MondaysCounted DEF Means
  <2>9. CASE p = "this_month"
    BY <2>2, <2>3, <2>4, <2>9, DaysOfPresets DEF Means
  <2>10. CASE p = "last_month"
    BY <2>2, <2>3, <2>4, <2>10, DaysOfPresets DEF Means
  <2> QED
    BY <2>5, <2>6, <2>7, <2>8, <2>9, <2>10 DEF Presets
<1>2. CASE \E f \in Entered, t \in Entered : value = CustomValue(f, t)
  <2>1. value.preset = "custom" /\ value.from \in Entered /\ value.to \in Entered
    BY <1>2 DEF CustomValue
  <2>2. PICK f \in Nat, t \in Nat : value.from = {f} /\ value.to = {t}
    BY <2>1 DEF Complete, Entered
  <2>3. FirstDay(value, today) = f /\ LastDay(value, today) = t
    <3>1. /\ FirstDay(value, today) = TypedDate(CHOOSE d \in value.from : TRUE)
          /\ LastDay(value, today) = TypedDate(CHOOSE d \in value.to : TRUE)
      BY <2>1 DEF FirstDay, LastDay
    <3>2. (CHOOSE d \in value.from : TRUE) = f /\ (CHOOSE d \in value.to : TRUE) = t
      BY <2>2
    <3>3. FullYear(f) >= 100 /\ FullYear(t) >= 100
      BY <2>2 DEF FourDigitYears
    <3> QED
      BY <3>1, <3>2, <3>3, TypedInFull
  <2>4. Means(day, today) <=> day \in f..t
    BY <2>1, <2>2 DEF Means
  <2> QED
    BY <2>3, <2>4
<1> QED
  BY <1>1, <1>2 DEF ValueInv

(* RangeIsPeriod for every day on which the calendar is defined, not only  *)
(* for the nine weeks that it looks at.                                    *)
ResolvesToPeriod ==
  Complete(value) /\ FourDigitYears =>
    LET today == DayOf(now)
        range == ResolveDateRange(value, now)
    IN \A day \in {d \in Int : d >= -365} :
         IF Means(day, today)
         THEN range.from =< StartOfDay(day) /\ EndOfDay(day) =< range.to
         ELSE EndOfDay(day) < range.from \/ range.to < StartOfDay(day)

LEMMA PeriodHolds == ValueInv => ResolvesToPeriod
<1> DEFINE today == DayOf(now)
           first == FirstDay(value, today)
           last == LastDay(value, today)
           range == ResolveDateRange(value, now)
<1> SUFFICES ASSUME ValueInv, Complete(value), FourDigitYears,
                    NEW day \in {d \in Int : d >= -365}
             PROVE  IF Means(day, today)
                    THEN range.from =< StartOfDay(day) /\ EndOfDay(day) =< range.to
                    ELSE EndOfDay(day) < range.from \/ range.to < StartOfDay(day)
  BY DEF ResolvesToPeriod
<1>1. today \in Nat
  BY DayOfInstant DEF ValueInv
<1>2. day \in Int /\ day >= -365
  BY <1>1
<1>3. /\ first \in Int /\ last \in Int
      /\ Means(day, today) <=> first =< day /\ day =< last
  BY <1>1, <1>2, NamedDays
<1>4. range.from = StartOfDay(first) /\ range.to = StartOfDay(last + 1) - Millisecond
  BY DEF ResolveDateRange, EndOfDay
<1>5. EndOfDay(day) = StartOfDay(day + 1) - Millisecond
  BY DEF EndOfDay
<1> HIDE DEF today, first, last, range
<1>6. /\ StartOfDay(first) \in Int /\ StartOfDay(last + 1) \in Int
      /\ StartOfDay(day) \in Int /\ StartOfDay(day + 1) \in Int
      /\ Millisecond \in Nat \ {0}
  BY <1>2, <1>3, DayStarts, DateRangeAssumption
<1>7. CASE Means(day, today)
  <2>1. first =< day /\ day + 1 =< last + 1
    BY <1>2, <1>3, <1>7
  <2>2. StartOfDay(first) =< StartOfDay(day) /\ StartOfDay(day + 1) =< StartOfDay(last + 1)
    BY <1>2, <1>3, <2>1, DaysInOrder
  <2> QED
    BY <1>4, <1>5, <1>6, <1>7, <2>2
<1>8. CASE ~Means(day, today)
  <2>1. CASE day < first
    <3>1. StartOfDay(day + 1) =< StartOfDay(first)
      BY <1>2, <1>3, <2>1, DaysInOrder
    <3> QED
      BY <1>4, <1>5, <1>6, <1>8, <3>1
  <2>2. CASE last < day
    <3>1. StartOfDay(last + 1) =< StartOfDay(day)
      BY <1>2, <1>3, <2>2, DaysInOrder
    <3> QED
      BY <1>4, <1>5, <1>6, <1>8, <3>1
  <2> QED
    BY <1>2, <1>3, <1>8, <2>1, <2>2
<1> QED
  BY <1>7, <1>8

LEMMA RangeHolds == ValueInv /\ ResolvesToPeriod => RangeIsPeriod
<1> SUFFICES ASSUME ValueInv, ResolvesToPeriod, Complete(value), FourDigitYears,
                    NEW day \in (DayOf(now) - 63)..(DayOf(now) + 1)
             PROVE  day \in {d \in Int : d >= -365}
  BY DEF ResolvesToPeriod, RangeIsPeriod
<1> QED
  BY DayOfInstant DEF ValueInv

LEMMA AdjoinHolds == ValueInv => PeriodsAdjoin
<1> DEFINE today == DayOf(now)
           n == MonthNumber(today)
<1> SUFFICES ASSUME ValueInv,
                    NEW pair \in {<<"yesterday", "today">>, <<"last_week", "this_week">>,
                                  <<"last_month", "this_month">>}
             PROVE  LET before == ResolveDateRange(PresetValue(pair[1]), now)
                        after == ResolveDateRange(PresetValue(pair[2]), now)
                    IN before.to < after.from /\ after.from =< before.to + Millisecond
  BY DEF PeriodsAdjoin
<1> DEFINE last == LastDay(PresetValue(pair[1]), today)
           first == FirstDay(PresetValue(pair[2]), today)
<1>1. today \in Nat
  BY DayOfInstant DEF ValueInv
<1>2. StartOfWeek(today) \in Int /\ MonthStart(n) \in Int
  BY <1>1, WeekOfDay, MonthOfDay, MonthGrows
<1> HIDE DEF today, n
<1>3. first \in Int /\ last + 1 = first
  <2>1. \A p : PresetValue(p).preset = p
    BY DEF PresetValue
  <2>2. CASE pair = <<"yesterday", "today">>
    BY <1>1, <2>1, <2>2, DaysOfPresets
  <2>3. CASE pair = <<"last_week", "this_week">>
    BY <1>1, <1>2, <2>1, <2>3, DaysOfPresets
  <2>4. CASE pair = <<"last_month", "this_month">>
    BY <1>1, <1>2, <2>1, <2>4, DaysOfPresets DEF n
  <2> QED
    BY <2>2, <2>3, <2>4
<1>4. /\ ResolveDateRange(PresetValue(pair[1]), now).to = StartOfDay(last + 1) - Millisecond
      /\ ResolveDateRange(PresetValue(pair[2]), now).from = StartOfDay(first)
  BY DEF ResolveDateRange, EndOfDay, today
<1> HIDE DEF first, last
<1>5. StartOfDay(first) \in Int /\ Millisecond \in Nat \ {0}
  BY <1>3, DayStarts, DateRangeAssumption
<1> QED
  BY <1>3, <1>4, <1>5

(* For any length of a day and any changes of the clocks, a preset at any  *)
(* moment after the year 100, and any two dates of years from 100 on,      *)
(* resolve to exactly the days they name, up to their last millisecond     *)
(* (dateRange.ts:14-79).                                                   *)
THEOREM RangeNamesPeriod == Spec => []RangeIsPeriod
BY ValueInvInit, ValueInvStep, PeriodHolds, RangeHolds, PTL DEF Spec

(* The same, of the same values, for days however far in the past or the   *)
(* future: no instant of a day outside the period is searched              *)
(* (dateRange.ts:14-79).                                                   *)
THEOREM RangeNamesNothingElse == Spec => []ResolvesToPeriod
BY ValueInvInit, ValueInvStep, PeriodHolds, PTL DEF Spec

(* At any such moment, yesterday and today, the last week and this one,    *)
(* and the last month and this one share no instant, and between them is   *)
(* no more than what follows the last millisecond                          *)
(* (event_repository.go:239-244).                                          *)
THEOREM PeriodsMeet == Spec => []PeriodsAdjoin
BY ValueInvInit, ValueInvStep, AdjoinHolds, PTL DEF Spec
=============================================================================
