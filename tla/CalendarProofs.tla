---------------------------- MODULE CalendarProofs ----------------------------
(***************************************************************************)
(* That the arithmetic of Calendar is that of the calendar, for every day. *)
(* An era of 400 years is cut into years from March 1 on, a year into      *)
(* months, and a month into days (Parts); the two conversions, which       *)
(* compute with such parts, then undo each other, and the rest follows     *)
(* without looking into them again. The arithmetic itself is the prover's: *)
(* its lemmas state ranges as inequalities (Within), never as sets, whose  *)
(* members it would go through.                                            *)
(***************************************************************************)
EXTENDS Calendar, SequenceTheorems, TLAPS

\* A number in Int, from a to b: what `\in a..b` says, for a prover that would
\* else take the numbers one by one.
Within(x, a, b) == x \in Int /\ a <= x /\ x <= b

\* The years of an era begin on March 1.
YearOfEra(day) == (day - day \div 1460 + day \div 36524 - day \div 146096) \div 365
YearStart(year) == 365 * year + year \div 4 - year \div 100
LeapEnd(year) == (year + 1) % 4 = 0 /\ ((year + 1) % 100 # 0 \/ (year + 1) % 400 = 0)
YearDays(year) == IF LeapEnd(year) THEN 366 ELSE 365

\* Every day of an era is in the year that YearOfEra finds.
LEMMA YearOfEraFinds ==
  ASSUME NEW day \in Int, 0 <= day, day <= 146096
  PROVE  /\ Within(YearOfEra(day), 0, 399)
         /\ 0 <= day - YearStart(YearOfEra(day))
         /\ day - YearStart(YearOfEra(day)) < YearDays(YearOfEra(day))
BY Z3 DEF YearOfEra, YearStart, YearDays, LeapEnd, Within

\* And it is the only one.
LEMMA YearOfEraIs ==
  ASSUME NEW year \in Int, 0 <= year, year <= 399, NEW n \in Int, 0 <= n, n < YearDays(year)
  PROVE  /\ Within(YearStart(year) + n, 0, 146096)
         /\ YearOfEra(YearStart(year) + n) = year
BY Z3 DEF YearOfEra, YearStart, YearDays, LeapEnd, Within

\* The months of such a year, from March on, and their first days.
MonthOf(n) == (5 * n + 2) \div 153
MonthStart(month) == (153 * month + 2) \div 5
MonthDays(month) == IF month = 11 THEN 29 ELSE IF month \in {1, 3, 6, 8} THEN 30 ELSE 31

LEMMA MonthOfFinds ==
  ASSUME NEW n \in Int, 0 <= n, n <= 365
  PROVE  /\ Within(MonthOf(n), 0, 11)
         /\ 0 <= n - MonthStart(MonthOf(n))
         /\ n - MonthStart(MonthOf(n)) < MonthDays(MonthOf(n))
BY Z3 DEF MonthOf, MonthStart, MonthDays, Within

LEMMA MonthOfIs ==
  ASSUME NEW month \in Int, 0 <= month, month <= 11, NEW n \in Int, 0 <= n, n < MonthDays(month)
  PROVE  /\ Within(MonthStart(month) + n, 0, 365)
         /\ MonthOf(MonthStart(month) + n) = month
BY Z3 DEF MonthOf, MonthStart, MonthDays, Within

-------------------------------------------------------------------------------
(* Days and dates *)

\* The month that begins on the first of `month` after March, by its number.
March(month) == IF month < 10 THEN month + 3 ELSE month - 9

\* A date that exists, in any year.
IsDay(date) == /\ date = <<date[1], date[2], date[3]>>
               /\ date[1] \in Int /\ Within(date[2], 1, 12)
               /\ Within(date[3], 1, DaysInMonth(date[1], date[2]))

\* What DateFromDays computes, by the parts of a date.
LEMMA DateParts ==
  ASSUME NEW era \in Int, NEW year \in Int, 0 <= year, year <= 399,
         NEW month \in Int, 0 <= month, month <= 11,
         NEW n \in Int, 0 <= n, n < MonthDays(month),
         MonthStart(month) + n < YearDays(year),
         NEW day, day = 146097 * era + YearStart(year) + MonthStart(month) + n - 719468
  PROVE  /\ day \in Int
         /\ DateFromDays(day) = <<year + era * 400 + (IF March(month) <= 2 THEN 1 ELSE 0),
                                  March(month), n + 1>>
<1> DEFINE shifted == day + 719468
           dayOfYear == MonthStart(month) + n
           dayOfEra == YearStart(year) + dayOfYear
<1>1. MonthStart(month) \in Int /\ YearStart(year) \in Int
  BY Z3 DEF MonthStart, YearStart
<1>2. dayOfYear \in Int /\ 0 <= dayOfYear /\ MonthOf(dayOfYear) = month
  BY MonthOfIs, Z3 DEF Within
<1>3. /\ dayOfEra \in Int /\ 0 <= dayOfEra /\ dayOfEra <= 146096
      /\ YearOfEra(dayOfEra) = year
  BY <1>2, YearOfEraIs, Z3 DEF Within
<1>4. day \in Int /\ shifted = 146097 * era + dayOfEra
  BY <1>1, <1>2, <1>3, Z3
<1> HIDE DEF shifted, dayOfEra, dayOfYear
<1>5. shifted \div 146097 = era /\ shifted % 146097 = dayOfEra
  BY <1>3, <1>4, Z3
<1>6. dayOfEra - YearStart(year) = dayOfYear /\ dayOfYear - MonthStart(month) = n
  BY <1>1, <1>2, <1>3, Z3 DEF dayOfEra, dayOfYear
<1>7. QED
  BY <1>2, <1>3, <1>4, <1>5, <1>6, Z3
     DEF DateFromDays, YearOfEra, YearStart, MonthOf, MonthStart, March, shifted

\* The parts of a date, from March 1 of the era's first year on.
Parts(era, year, month, n) ==
  /\ era \in Int /\ Within(year, 0, 399) /\ Within(month, 0, 11)
  /\ n \in Int /\ 0 <= n /\ n < MonthDays(month) /\ MonthStart(month) + n < YearDays(year)

DayOf(era, year, month, n) == 146097 * era + YearStart(year) + MonthStart(month) + n - 719468
DateOf(era, year, month, n) ==
  <<year + era * 400 + (IF March(month) <= 2 THEN 1 ELSE 0), March(month), n + 1>>

\* Every day has such parts.
LEMMA DayHasParts ==
  ASSUME NEW day \in Int
  PROVE  \E era, year, month, n : Parts(era, year, month, n) /\ day = DayOf(era, year, month, n)
<1> DEFINE shifted == day + 719468
           era == shifted \div 146097
           dayOfEra == shifted % 146097
           year == YearOfEra(dayOfEra)
           dayOfYear == dayOfEra - YearStart(year)
           month == MonthOf(dayOfYear)
           n == dayOfYear - MonthStart(month)
<1>1. /\ era \in Int /\ dayOfEra \in Int /\ 0 <= dayOfEra /\ dayOfEra <= 146096
      /\ day = 146097 * era + dayOfEra - 719468
  BY Z3
<1> HIDE DEF era, dayOfEra
<1>2. Within(year, 0, 399) /\ 0 <= dayOfYear /\ dayOfYear < YearDays(year)
  BY <1>1, YearOfEraFinds, Z3
<1> HIDE DEF year
<1>3. YearStart(year) \in Int /\ dayOfYear \in Int /\ dayOfYear <= 365
      /\ dayOfEra = YearStart(year) + dayOfYear
  BY <1>1, <1>2, Z3 DEF YearStart, YearDays, Within
<1> HIDE DEF dayOfYear
<1>4. Within(month, 0, 11) /\ 0 <= n /\ n < MonthDays(month)
  BY <1>2, <1>3, MonthOfFinds, Z3
<1> HIDE DEF month
<1>5. MonthStart(month) \in Int /\ n \in Int /\ dayOfYear = MonthStart(month) + n
  BY <1>3, <1>4, Z3 DEF MonthStart, Within
<1> HIDE DEF n
<1>6. Parts(era, year, month, n)
  BY <1>1, <1>2, <1>3, <1>4, <1>5, Z3 DEF Parts
<1>7. day = DayOf(era, year, month, n)
  BY <1>1, <1>3, <1>5, Z3 DEF DayOf
<1>8. QED
  BY <1>6, <1>7

\* The length of a month of the calendar.
LEMMA MonthLength ==
  ASSUME NEW era \in Int, NEW year \in Int, 0 <= year, year <= 399,
         NEW month \in Int, 0 <= month, month <= 11
  PROVE  /\ March(month) \in Int /\ 1 <= March(month) /\ March(month) <= 12
         /\ (March(month) + 9) % 12 = month
         /\ MonthStart(month) + MonthDays(month) <= IF month = 11 THEN 366 ELSE 365
         /\ DaysInMonth(year + era * 400 + (IF March(month) <= 2 THEN 1 ELSE 0), March(month))
              = IF month = 11 THEN IF LeapEnd(year) THEN 29 ELSE 28 ELSE MonthDays(month)
<1> DEFINE calendarYear == year + era * 400 + (IF March(month) <= 2 THEN 1 ELSE 0)
<1>1. /\ March(month) \in Int /\ 1 <= March(month) /\ March(month) <= 12
      /\ (March(month) + 9) % 12 = month
      /\ MonthStart(month) + MonthDays(month) <= IF month = 11 THEN 366 ELSE 365
  BY Z3 DEF March, MonthStart, MonthDays
<1>2. CASE month = 11
  <2>1. Leap(year + era * 400 + 1) <=> LeapEnd(year)
    BY Z3 DEF Leap, LeapEnd
  <2>2. QED
    BY <1>1, <1>2, <2>1, Z3 DEF March, DaysInMonth
<1>3. CASE month # 11
  BY <1>1, <1>3, Z3 DEF March, DaysInMonth, MonthDays
<1>4. QED
  BY <1>1, <1>2, <1>3

\* Parts make a date that exists, and each of day and date the other.
LEMMA PartsAgree ==
  ASSUME NEW era, NEW year, NEW month, NEW n, Parts(era, year, month, n)
  PROVE  LET day == DayOf(era, year, month, n)
             date == DateOf(era, year, month, n)
         IN  day \in Int /\ IsDay(date) /\ DateFromDays(day) = date /\ DaysFromDate(date) = day
<1> DEFINE day == DayOf(era, year, month, n)
           date == DateOf(era, year, month, n)
           y == date[1] - (IF date[2] <= 2 THEN 1 ELSE 0)
<1>1. /\ era \in Int /\ year \in Int /\ 0 <= year /\ year <= 399
      /\ month \in Int /\ 0 <= month /\ month <= 11
      /\ n \in Int /\ 0 <= n /\ n < MonthDays(month) /\ MonthStart(month) + n < YearDays(year)
  BY DEF Parts, Within
<1>2. day \in Int /\ DateFromDays(day) = date
  BY <1>1, DateParts, Z3 DEF DayOf, DateOf
<1>3. /\ date[1] = year + era * 400 + (IF March(month) <= 2 THEN 1 ELSE 0)
      /\ date[2] = March(month) /\ date[3] = n + 1 /\ date = <<date[1], date[2], date[3]>>
  BY DEF DateOf
<1>4. /\ March(month) \in Int /\ 1 <= March(month) /\ March(month) <= 12
      /\ (March(month) + 9) % 12 = month
      /\ DaysInMonth(date[1], date[2])
           = IF month = 11 THEN IF LeapEnd(year) THEN 29 ELSE 28 ELSE MonthDays(month)
  BY <1>1, <1>3, MonthLength
<1> HIDE DEF day, date
<1>5. date[1] \in Int /\ y = year + era * 400
  BY <1>1, <1>3, <1>4, Z3
<1>6. n + 1 <= DaysInMonth(date[1], date[2])
  BY <1>1, <1>4, Z3 DEF YearDays, MonthStart, MonthDays
<1>7. IsDay(date)
  <2>1. Within(date[2], 1, 12)
    BY <1>3, <1>4 DEF Within
  <2>2. Within(date[3], 1, DaysInMonth(date[1], date[2]))
    BY <1>1, <1>3, <1>6, Z3 DEF Within
  <2>3. QED
    BY <1>3, <1>5, <2>1, <2>2 DEF IsDay
<1>8. y \div 400 = era /\ y % 400 = year
  BY <1>1, <1>5, Z3
<1>9. DaysFromDate(date) = day
  <2>1. DaysFromDate(date) = (y \div 400) * 146097
          + ((y % 400) * 365 + (y % 400) \div 4 - (y % 400) \div 100
             + ((153 * ((date[2] + 9) % 12) + 2) \div 5 + date[3] - 1)) - 719468
    BY DEF DaysFromDate
  <2> HIDE DEF y
  <2>2. DaysFromDate(date) = era * 146097 + (year * 365 + year \div 4 - year \div 100
             + ((153 * month + 2) \div 5 + (n + 1) - 1)) - 719468
    BY <1>3, <1>4, <1>8, <2>1
  <2>3. QED
    BY <1>1, <2>2, Z3 DEF day, DayOf, YearStart, MonthStart
<1>10. QED
  BY <1>2, <1>7, <1>9 DEF day, date

LEMMA Between == ASSUME NEW a \in Int, NEW b \in Int, NEW x PROVE x \in a..b <=> Within(x, a, b)
BY DEF Within

\* A date is the date of its day.
LEMMA DateHasParts ==
  ASSUME NEW date, IsDay(date)
  PROVE  \E era, year, month, n : Parts(era, year, month, n) /\ date = DateOf(era, year, month, n)
<1> DEFINE y == date[1] - (IF date[2] <= 2 THEN 1 ELSE 0)
           era == y \div 400
           year == y % 400
           month == (date[2] + 9) % 12
           n == date[3] - 1
<1>1. /\ date[1] \in Int /\ date[2] \in Int /\ 1 <= date[2] /\ date[2] <= 12
      /\ date[3] \in Int /\ 1 <= date[3] /\ date[3] <= DaysInMonth(date[1], date[2])
      /\ date = <<date[1], date[2], date[3]>>
  BY DEF IsDay, Within
<1>2. y \in Int
  BY <1>1, Z3
<1>3. era \in Int /\ year \in Int /\ 0 <= year /\ year <= 399 /\ y = year + era * 400
  BY <1>2, Z3
<1>4. month \in Int /\ 0 <= month /\ month <= 11 /\ March(month) = date[2]
  BY <1>1, Z3 DEF March
<1>5. date[1] = year + era * 400 + (IF March(month) <= 2 THEN 1 ELSE 0)
  BY <1>1, <1>3, <1>4, Z3
<1> HIDE DEF era, year, month
<1>6. /\ DaysInMonth(date[1], date[2]) = IF month = 11 THEN IF LeapEnd(year) THEN 29 ELSE 28
                                                      ELSE MonthDays(month)
      /\ MonthStart(month) + MonthDays(month) <= IF month = 11 THEN 366 ELSE 365
  <2> DEFINE calendarYear == year + era * 400 + (IF March(month) <= 2 THEN 1 ELSE 0)
  <2>1. DaysInMonth(date[1], date[2]) = DaysInMonth(calendarYear, March(month))
    BY <1>4, <1>5
  <2>2. QED
    BY <1>3, <1>4, <2>1, MonthLength, SMTT(30)
<1>7. n \in Int /\ 0 <= n /\ n < MonthDays(month) /\ MonthStart(month) + n < YearDays(year)
  BY <1>1, <1>3, <1>4, <1>6, Z3 DEF YearDays, MonthStart, MonthDays
<1>8. Parts(era, year, month, n)
  BY <1>3, <1>4, <1>7 DEF Parts, Within
<1>9. date = DateOf(era, year, month, n)
  BY <1>1, <1>4, <1>5 DEF DateOf
<1>10. QED
  BY <1>8, <1>9

\* date_from_days gives every day, before 1970 and beyond the range too, a date of the calendar,
\* and days_from_date takes it back to that day.
THEOREM DayDateDay ==
  ASSUME NEW day \in Int
  PROVE  IsDay(DateFromDays(day)) /\ DaysFromDate(DateFromDays(day)) = day
BY DayHasParts, PartsAgree

\* And every date of the calendar is that of the day days_from_date gives it.
THEOREM DateDayDate ==
  ASSUME NEW date, IsDay(date)
  PROVE  DaysFromDate(date) \in Int /\ DateFromDays(DaysFromDate(date)) = date
BY DateHasParts, PartsAgree

\* The days of the years 0000 to 9999 are those from FirstDay to LastDay.
LEMMA DaysOfYears ==
  ASSUME NEW day \in Int
  PROVE  Within(day, FirstDay, LastDay) <=> Within(DateFromDays(day)[1], 0, 9999)
<1>1. PICK era, year, month, n : Parts(era, year, month, n) /\ day = DayOf(era, year, month, n)
  BY DayHasParts
<1>2. DateFromDays(day) = DateOf(era, year, month, n)
  BY <1>1, PartsAgree
<1>3. DateFromDays(day)[1] = year + era * 400 + (IF March(month) <= 2 THEN 1 ELSE 0)
  BY <1>2 DEF DateOf
<1>4. QED
  BY <1>1, <1>3, Z3 DEF Parts, DayOf, March, YearStart, MonthStart, YearDays, MonthDays, LeapEnd, Within, FirstDay, LastDay

LEMMA DayRange ==
  /\ FirstDay \in Int /\ LastDay \in Int
  /\ \A day : day \in FirstDay..LastDay <=> Within(day, FirstDay, LastDay)
<1>1. FirstDay \in Int
  BY DEF FirstDay
<1>2. LastDay \in Int
  BY DEF LastDay
<1>3. QED
  BY <1>1, <1>2, Between

LEMMA YearRange == \A year : year \in Years <=> Within(year, 0, 9999)
<1>1. SUFFICES ASSUME NEW year PROVE year \in 0..9999 <=> Within(year, 0, 9999)
  BY DEF Years
<1>2. ASSUME year \in 0..9999 PROVE Within(year, 0, 9999)
  BY <1>2, Z3 DEF Within
<1>3. ASSUME Within(year, 0, 9999) PROVE year \in 0..9999
  <2>1. year \in Int /\ 0 <= year /\ year <= 9999
    BY <1>3 DEF Within
  <2>2. QED
    BY <2>1, Z3
<1>4. QED
  BY <1>2, <1>3

LEMMA DateIsDate ==
  ASSUME NEW day \in Int, DateFromDays(day)[1] \in Years
  PROVE  IsDate(DateFromDays(day))
<1>1. IsDay(DateFromDays(day))
  BY DayDateDay
<1>2. DateFromDays(day)[3] \in 1..DaysInMonth(DateFromDays(day)[1], DateFromDays(day)[2])
  BY <1>1 DEF IsDay, Within
<1>3. DateFromDays(day)[2] \in 1..12
  BY <1>1 DEF IsDay, Within
<1>4. QED
  BY <1>2, <1>3 DEF IsDate

LEMMA DayHasDate ==
  ASSUME NEW day \in FirstDay..LastDay
  PROVE  day \in Int /\ IsDate(DateFromDays(day))
<1>1. day \in Int /\ Within(day, FirstDay, LastDay)
  BY DayRange DEF Within
<1>2. DateFromDays(day)[1] \in Years
  BY <1>1, DaysOfYears, YearRange
<1>3. QED
  BY <1>1, <1>2, DateIsDate

\* The day of March 1 of a year, and of other dates from it.
YearBase(year) == (year \div 400) * 146097 + YearStart(year % 400)

LEMMA YearBaseNext ==
  ASSUME NEW year \in Int
  PROVE  /\ YearBase(year) \in Int
         /\ YearBase(year) = YearBase(year - 1) + IF Leap(year) THEN 366 ELSE 365
<1> DEFINE era == year \div 400
           n == year % 400
<1>1. era \in Int /\ n \in Int /\ 0 <= n /\ n <= 399 /\ year = 400 * era + n
  BY Z3
<1>2. YearBase(year) = era * 146097 + YearStart(n)
  BY DEF YearBase
<1> HIDE DEF era, n
<1>3. CASE n = 0
  <2>1. (year - 1) \div 400 = era - 1 /\ (year - 1) % 400 = 399
    BY <1>1, <1>3, Z3
  <2>2. YearBase(year - 1) = (era - 1) * 146097 + YearStart(399)
    BY <2>1 DEF YearBase
  <2>3. Leap(year)
    BY <1>1, <1>3, Z3 DEF Leap
  <2>4. QED
    BY <1>1, <1>2, <1>3, <2>2, <2>3, Z3 DEF YearStart
<1>4. CASE n # 0
  <2>1. (year - 1) \div 400 = era /\ (year - 1) % 400 = n - 1
    BY <1>1, <1>4, Z3
  <2>2. YearBase(year - 1) = era * 146097 + YearStart(n - 1)
    BY <2>1 DEF YearBase
  <2>3. Leap(year) <=> n % 4 = 0 /\ n % 100 # 0
    BY <1>1, <1>4, Z3 DEF Leap
  <2>4. QED
    BY <1>1, <1>2, <1>4, <2>2, <2>3, Z3 DEF YearStart
<1>5. QED
  BY <1>3, <1>4

LEMMA DaysFromDateIs ==
  ASSUME NEW year \in Int, NEW month \in Int, NEW n \in Int
  PROVE  /\ DaysFromDate(<<year, month, n>>)
              = YearBase(year - (IF month <= 2 THEN 1 ELSE 0)) + MonthStart((month + 9) % 12) + n - 719469
         /\ DaysFromDate(<<year, month, n>>) \in Int
<1> DEFINE y == year - (IF month <= 2 THEN 1 ELSE 0)
<1>1. y \in Int /\ YearBase(y) \in Int
  BY YearBaseNext, Z3
<1>2. DaysFromDate(<<year, month, n>>)
        = (y \div 400) * 146097
          + ((y % 400) * 365 + (y % 400) \div 4 - (y % 400) \div 100
             + ((153 * ((month + 9) % 12) + 2) \div 5 + n - 1)) - 719468
  BY DEF DaysFromDate
<1> HIDE DEF y
<1>3. DaysFromDate(<<year, month, n>>) = YearBase(y) + MonthStart((month + 9) % 12) + n - 719469
  BY <1>1, <1>2, Z3 DEF YearBase, YearStart, MonthStart
<1>4. MonthStart((month + 9) % 12) \in Int
  BY Z3 DEF MonthStart
<1>5. QED
  BY <1>1, <1>3, <1>4, Z3 DEF y

\* The next day has the next date.
Following(date) ==
  IF date[3] < DaysInMonth(date[1], date[2]) THEN <<date[1], date[2], date[3] + 1>>
  ELSE IF date[2] < 12 THEN <<date[1], date[2] + 1, 1>> ELSE <<date[1] + 1, 1, 1>>

LEMMA MonthHasDays ==
  ASSUME NEW year \in Int, NEW month \in Int
  PROVE  DaysInMonth(year, month) \in {28, 29, 30, 31}
BY Z3 DEF DaysInMonth

\* The first of the next month comes when the days of this one are over.
MonthAfter(date) == IF date[2] = 12 THEN <<date[1] + 1, 1, 1>> ELSE <<date[1], date[2] + 1, 1>>

LEMMA MonthsFollow ==
  ASSUME NEW date, IsDay(date)
  PROVE  /\ IsDay(MonthAfter(date)) /\ IsDay(<<date[1], date[2], 1>>)
         /\ DaysFromDate(<<date[1], date[2], 1>>) = DaysFromDate(date) - (date[3] - 1)
         /\ DaysFromDate(MonthAfter(date)) = DaysFromDate(date) - date[3] + 1 + DaysInMonth(date[1], date[2])
<1>1. /\ date[1] \in Int /\ date[2] \in Int /\ 1 <= date[2] /\ date[2] <= 12
      /\ date[3] \in Int /\ 1 <= date[3] /\ date[3] <= DaysInMonth(date[1], date[2])
      /\ date = <<date[1], date[2], date[3]>>
  BY DEF IsDay, Within
<1> DEFINE y == date[1]
           m == date[2]
           d == date[3]
           length == DaysInMonth(y, m)
<1>2. length \in {28, 29, 30, 31}
  BY <1>1, MonthHasDays
<1>3. IsDay(<<y, m, 1>>)
  BY <1>1, <1>2, Z3 DEF IsDay, Within
<1>4. IsDay(MonthAfter(date))
  <2>1. CASE m = 12
    <3>1. MonthAfter(date) = <<y + 1, 1, 1>>
      BY <2>1 DEF MonthAfter
    <3>2. DaysInMonth(y + 1, 1) \in {28, 29, 30, 31}
      BY <1>1, MonthHasDays
    <3>3. QED
      BY <1>1, <3>1, <3>2, Z3 DEF IsDay, Within
  <2>2. CASE m # 12
    <3>1. MonthAfter(date) = <<y, m + 1, 1>>
      BY <2>2 DEF MonthAfter
    <3>2. DaysInMonth(y, m + 1) \in {28, 29, 30, 31}
      BY <1>1, MonthHasDays
    <3>3. QED
      BY <1>1, <2>2, <3>1, <3>2, Z3 DEF IsDay, Within
  <2>3. QED
    BY <2>1, <2>2
<1>5. DaysFromDate(<<y, m, 1>>) = DaysFromDate(<<y, m, d>>) - (d - 1)
  BY <1>1, Z3 DEF DaysFromDate
<1>6. /\ YearBase(y) \in Int /\ YearBase(y - 1) \in Int
       /\ YearBase(y) = YearBase(y - 1) + IF Leap(y) THEN 366 ELSE 365
  BY <1>1, YearBaseNext
<1>7. DaysFromDate(MonthAfter(date)) = DaysFromDate(<<y, m, d>>) - d + 1 + length
  <2>1. CASE m = 12
    <3>1. MonthAfter(date) = <<y + 1, 1, 1>> /\ length = 31
      BY <2>1 DEF MonthAfter, DaysInMonth
    <3>2. QED
      BY <1>1, <2>1, <3>1, Z3 DEF DaysFromDate
  <2>2. CASE m = 2
    <3>1. MonthAfter(date) = <<y, 3, 1>> /\ length = IF Leap(y) THEN 29 ELSE 28
      BY <2>2 DEF MonthAfter, DaysInMonth
    <3>2. DaysFromDate(<<y, 3, 1>>) = YearBase(y) + MonthStart(0) + 1 - 719469
      BY <1>1, DaysFromDateIs, Z3
    <3>3. DaysFromDate(<<y, 2, d>>) = YearBase(y - 1) + MonthStart(11) + d - 719469
      BY <1>1, DaysFromDateIs, Z3
    <3>4. QED
      BY <1>1, <1>6, <2>2, <3>1, <3>2, <3>3, Z3 DEF MonthStart
  <2>3. CASE m # 12 /\ m # 2
    <3>1. MonthAfter(date) = <<y, m + 1, 1>> /\ length = IF m \in {4, 6, 9, 11} THEN 30 ELSE 31
      BY <2>3, Z3 DEF MonthAfter, DaysInMonth
    <3> DEFINE base == YearBase(y - (IF m <= 2 THEN 1 ELSE 0))
    <3>2. base \in Int /\ (m + 1 <= 2 <=> m <= 2)
      BY <1>1, <1>6, <2>3, Z3
    <3>3. DaysFromDate(<<y, m, d>>) = base + MonthStart((m + 9) % 12) + d - 719469
      BY <1>1, DaysFromDateIs
    <3>4. DaysFromDate(<<y, m + 1, 1>>) = base + MonthStart((m + 1 + 9) % 12) + 1 - 719469
      BY <1>1, <3>2, DaysFromDateIs
    <3> HIDE DEF base
    <3>5. QED
      BY <1>1, <2>3, <3>1, <3>2, <3>3, <3>4, Z3 DEF MonthStart
  <2>4. QED
    BY <2>1, <2>2, <2>3
<1>8. QED
  BY <1>1, <1>3, <1>4, <1>5, <1>7

\* The date date_from_days gives the next day is the next date, through the ends of months, leap
\* years and centuries.
THEOREM DaysFollow ==
  ASSUME NEW day \in Int
  PROVE  DateFromDays(day + 1) = Following(DateFromDays(day))
<1> DEFINE date == DateFromDays(day)
<1>1. IsDay(date) /\ DaysFromDate(date) = day
  BY DayDateDay
<1> HIDE DEF date
<1>2. /\ date[1] \in Int /\ date[2] \in Int /\ 1 <= date[2] /\ date[2] <= 12
      /\ date[3] \in Int /\ 1 <= date[3] /\ date[3] <= DaysInMonth(date[1], date[2])
      /\ date = <<date[1], date[2], date[3]>>
  BY <1>1 DEF IsDay, Within
<1>3. DaysInMonth(date[1], date[2]) \in {28, 29, 30, 31}
  BY <1>2, MonthHasDays
<1>4. IsDay(Following(date)) /\ DaysFromDate(Following(date)) = day + 1
  <2>1. CASE date[3] < DaysInMonth(date[1], date[2])
    <3>1. Following(date) = <<date[1], date[2], date[3] + 1>>
      BY <2>1 DEF Following
    <3>2. IsDay(<<date[1], date[2], date[3] + 1>>)
      BY <1>2, <1>3, <2>1, Z3 DEF IsDay, Within
    <3>3. DaysFromDate(<<date[1], date[2], date[3] + 1>>) = DaysFromDate(<<date[1], date[2], date[3]>>) + 1
      BY <1>2, Z3 DEF DaysFromDate
    <3>4. QED
      BY <1>1, <1>2, <3>1, <3>2, <3>3
  <2>2. CASE ~(date[3] < DaysInMonth(date[1], date[2]))
    <3>1. Following(date) = MonthAfter(date)
      BY <1>2, <2>2, Z3 DEF Following, MonthAfter
    <3>2. date[3] = DaysInMonth(date[1], date[2])
      BY <1>2, <1>3, <2>2, Z3
    <3>3. IsDay(MonthAfter(date))
          /\ DaysFromDate(MonthAfter(date)) = DaysFromDate(date) - date[3] + 1 + DaysInMonth(date[1], date[2])
      BY <1>1, MonthsFollow, Zenon
    <3>4. DaysFromDate(MonthAfter(date)) = day + 1
      BY <1>1, <1>2, <3>2, <3>3, Z3
    <3>5. QED
      BY <3>1, <3>3, <3>4
  <2>3. QED
    BY <2>1, <2>2
<1>5. QED
  BY <1>4, DateDayDate DEF date

-------------------------------------------------------------------------------
(* The intervals of partitions *)

\* The month of a day: its start, its end, and the dates of its days.
LEMMA MonthOfDay ==
  ASSUME NEW day \in Int, Within(day, FirstDay, LastDay)
  PROVE  LET start == FirstOfMonth(day)
             next == DaysFromDate(MonthAfter(DateFromDays(day)))
         IN  /\ Within(start, FirstDay, day) /\ next \in Int /\ day < next /\ next <= day + 31
             /\ FirstOfNextMonth(day) = Clamped(next)
             /\ DateFromDays(next)[3] = 1
             /\ \A other \in Int : start <= other /\ other < next /\ Within(other, FirstDay, LastDay)
                                     => FirstOfMonth(other) = start
<1> DEFINE date == DateFromDays(day)
           y == date[1]
           m == date[2]
           first == DaysFromDate(<<y, m, 1>>)
           next == DaysFromDate(MonthAfter(date))
           length == DaysInMonth(y, m)
<1>1. IsDay(date) /\ DaysFromDate(date) = day
  BY DayDateDay
<1>2. Within(y, 0, 9999)
  BY DaysOfYears
<1>3. FirstOfMonth(day) = Clamped(first) /\ FirstOfNextMonth(day) = Clamped(next)
  BY DEF FirstOfMonth, FirstOfNextMonth, MonthAfter
<1> HIDE DEF date
<1>4. /\ y \in Int /\ m \in Int /\ 1 <= m /\ m <= 12
      /\ date[3] \in Int /\ 1 <= date[3] /\ date[3] <= length
      /\ date = <<y, m, date[3]>>
  BY <1>1 DEF IsDay, Within
<1>5. length \in {28, 29, 30, 31}
  BY <1>4, MonthHasDays
<1>6. /\ IsDay(MonthAfter(date)) /\ IsDay(<<y, m, 1>>)
      /\ first = DaysFromDate(date) - (date[3] - 1)
      /\ next = DaysFromDate(date) - date[3] + 1 + length
  BY <1>1, MonthsFollow, Zenon
<1>7. /\ first \in Int /\ first <= day /\ first = day - (date[3] - 1)
      /\ next \in Int /\ day < next /\ next <= day + 31 /\ next = first + length
  BY <1>1, <1>4, <1>5, <1>6, Z3
<1>8. Within(first, FirstDay, LastDay)
  <2>1. DateFromDays(first) = <<y, m, 1>>
    BY <1>6, DateDayDate
  <2>2. QED
    BY <1>2, <1>7, <2>1, DaysOfYears
<1>9. Clamped(first) = first
  BY <1>8, DayRange, Z3 DEF Clamped, Within
<1>10. DateFromDays(next)[3] = 1
  <2>1. DateFromDays(next) = MonthAfter(date)
    BY <1>6, DateDayDate
  <2>2. QED
    BY <2>1 DEF MonthAfter
<1> HIDE DEF first, next
<1>11. ASSUME NEW other \in Int, first <= other, other < next, Within(other, FirstDay, LastDay)
       PROVE  FirstOfMonth(other) = first
  <2> DEFINE n == other - first + 1
  <2>1. n \in Int /\ 1 <= n /\ n <= length
    BY <1>5, <1>7, <1>11, Z3
  <2>2. IsDay(<<y, m, n>>)
    BY <1>4, <1>5, <2>1 DEF IsDay, Within
  <2>3. DaysFromDate(<<y, m, n>>) = other
    <3>1. DaysFromDate(<<y, m, n>>)
            = YearBase(y - (IF m <= 2 THEN 1 ELSE 0)) + MonthStart((m + 9) % 12) + n - 719469
      BY <1>4, <2>1, DaysFromDateIs
    <3>2. first = YearBase(y - (IF m <= 2 THEN 1 ELSE 0)) + MonthStart((m + 9) % 12) + 1 - 719469
      BY <1>4, DaysFromDateIs DEF first
    <3>3. YearBase(y - (IF m <= 2 THEN 1 ELSE 0)) \in Int /\ MonthStart((m + 9) % 12) \in Int
      <4>1. y - (IF m <= 2 THEN 1 ELSE 0) \in Int /\ (m + 9) % 12 \in Int
        BY <1>4, Z3
      <4>2. YearBase(y - (IF m <= 2 THEN 1 ELSE 0)) \in Int
        BY <4>1, YearBaseNext
      <4>3. QED
        BY <1>4, <4>2, Z3 DEF MonthStart
    <3> HIDE DEF n
    <3>4. DaysFromDate(<<y, m, n>>) - n = first - 1 /\ DaysFromDate(<<y, m, n>>) \in Int
      BY <1>7, <2>1, <3>1, <3>2, <3>3, Z3
    <3>5. QED
      BY <1>7, <1>11, <2>1, <3>4, Z3 DEF n
  <2>4. DateFromDays(other) = <<y, m, n>>
    BY <2>2, <2>3, DateDayDate
  <2>5. FirstOfMonth(other) = Clamped(first)
    BY <2>4 DEF FirstOfMonth, first
  <2>6. QED
    BY <1>9, <2>5
<1>12. QED
  BY <1>3, <1>7, <1>8, <1>9, <1>10, <1>11 DEF Within, first, next, date

\* PartitionInterval's days, weeks and months each tile the days: a day is in its interval, an
\* interval starts where the one before it ends, and nowhere else. The range's ends, which cut
\* intervals short, are left out.
THEOREM IntervalsTileDays ==
  ASSUME NEW day \in Int, day - 7 > FirstDay, day + 31 <= LastDay, NEW interval \in Intervals
  PROVE  LET start == Start(interval, day)
             end == End(interval, day)
         IN  /\ start <= day /\ day < end
             /\ Start(interval, end) = end /\ Start(interval, end - 1) = start
             /\ (start = day) <=> (End(interval, day - 1) = day)
<1>1. FirstDay \in Int /\ LastDay \in Int
  BY DayRange
<1>2. CASE interval = "day"
  BY <1>1, <1>2, Z3 DEF Start, End, AddDays, Clamped
<1>3. CASE interval = "week"
  BY <1>1, <1>3, Z3 DEF Start, End, AddDays, Monday, Clamped
<1>4. CASE interval = "month"
  <2> DEFINE start == FirstOfMonth(day)
             next == DaysFromDate(MonthAfter(DateFromDays(day)))
             before == FirstOfMonth(day - 1)
             nextBefore == DaysFromDate(MonthAfter(DateFromDays(day - 1)))
  <2>1. /\ Within(day, FirstDay, LastDay) /\ day - 1 \in Int /\ Within(day - 1, FirstDay, LastDay)
        /\ (day - 1) + 31 <= LastDay
    BY <1>1, Z3 DEF Within
  <2>2. /\ Within(start, FirstDay, day) /\ next \in Int /\ day < next /\ next <= day + 31
        /\ FirstOfNextMonth(day) = Clamped(next) /\ DateFromDays(next)[3] = 1
        /\ \A other \in Int : start <= other /\ other < next /\ Within(other, FirstDay, LastDay)
                                => FirstOfMonth(other) = start
    BY <2>1, MonthOfDay
  <2>3. /\ Within(before, FirstDay, day - 1) /\ nextBefore \in Int
        /\ day - 1 < nextBefore /\ nextBefore <= (day - 1) + 31
        /\ FirstOfNextMonth(day - 1) = Clamped(nextBefore) /\ DateFromDays(nextBefore)[3] = 1
        /\ \A other \in Int : before <= other /\ other < nextBefore /\ Within(other, FirstDay, LastDay)
                                => FirstOfMonth(other) = before
    BY <2>1, MonthOfDay
  <2> HIDE DEF start, next, before, nextBefore
  <2>4. /\ FirstOfNextMonth(day) = next /\ FirstOfNextMonth(day - 1) = nextBefore
        /\ Within(next, FirstDay, LastDay) /\ Within(next - 1, FirstDay, LastDay)
        /\ Within(nextBefore, FirstDay, LastDay)
    BY <1>1, <2>1, <2>2, <2>3, Z3 DEF Clamped, Within
  <2>5. \A first \in Int : Within(first, FirstDay, LastDay) /\ DateFromDays(first)[3] = 1
                            => FirstOfMonth(first) = first
    <3>1. SUFFICES ASSUME NEW first \in Int, Within(first, FirstDay, LastDay),
                          DateFromDays(first)[3] = 1
                   PROVE  FirstOfMonth(first) = first
      OBVIOUS
    <3>2. DateFromDays(first) = <<DateFromDays(first)[1], DateFromDays(first)[2], 1>>
          /\ DaysFromDate(DateFromDays(first)) = first
      BY <3>1, DayDateDay DEF IsDay
    <3>3. FirstOfMonth(first) = Clamped(first)
      BY <3>2 DEF FirstOfMonth
    <3>4. QED
      BY <1>1, <3>1, <3>3, Z3 DEF Clamped, Within
  <2>6. FirstOfMonth(next) = next /\ FirstOfMonth(nextBefore) = nextBefore
    BY <2>2, <2>3, <2>4, <2>5
  <2>7. FirstOfMonth(next - 1) = start
    <3>1. next - 1 \in Int /\ start <= next - 1 /\ next - 1 < next
      BY <2>2, Z3 DEF Within
    <3>2. QED
      BY <2>2, <2>4, <3>1
  <2>8. start = day <=> nextBefore = day
    <3>1. CASE nextBefore = day
      BY <2>6, <3>1 DEF start
    <3>2. CASE nextBefore # day
      <4>1. before <= day /\ day < nextBefore /\ before < day
        BY <2>3, <3>2, Z3 DEF Within
      <4>2. start = before
        BY <2>1, <2>3, <4>1 DEF start
      <4>3. QED
        BY <2>3, <3>2, <4>1, <4>2, Z3 DEF Within
    <3>3. QED
      BY <3>1, <3>2
  <2>9. /\ Start(interval, day) = start /\ End(interval, day) = next
        /\ Start(interval, next) = next /\ Start(interval, next - 1) = start
        /\ End(interval, day - 1) = nextBefore
    BY <1>4, <2>4, <2>6, <2>7 DEF Start, End, start
  <2>10. start <= day
    BY <2>2 DEF Within
  <2>11. QED
    BY <2>2, <2>8, <2>9, <2>10
<1>5. QED
  BY <1>2, <1>3, <1>4 DEF Intervals

-------------------------------------------------------------------------------
(* Times and their texts *)

\* The digit at a place of the digits after the point, zero past their end.
DigitAt(digits, place) == IF place <= Len(digits) THEN digits[place] ELSE 0

\* What the loop over nine digits adds up to.
LEMMA NanosAddUp ==
  ASSUME NEW digits, \A place \in 1..9 : DigitAt(digits, place) \in Int
  PROVE  Nanos(digits) = 100000000 * DigitAt(digits, 1) + 10000000 * DigitAt(digits, 2)
           + 1000000 * DigitAt(digits, 3) + 100000 * DigitAt(digits, 4) + 10000 * DigitAt(digits, 5)
           + 1000 * DigitAt(digits, 6) + 100 * DigitAt(digits, 7) + 10 * DigitAt(digits, 8)
           + DigitAt(digits, 9)
<1> DEFINE d(place) == DigitAt(digits, place)
           Sums(sum) == sum = [place \in 0..9 |-> IF place = 0 THEN 0
                                                  ELSE sum[place - 1] * 10 + d(place)]
           v1 == 0 * 10 + d(1)
           v2 == v1 * 10 + d(2)
           v3 == v2 * 10 + d(3)
           v4 == v3 * 10 + d(4)
           v5 == v4 * 10 + d(5)
           v6 == v5 * 10 + d(6)
           v7 == v6 * 10 + d(7)
           v8 == v7 * 10 + d(8)
           v9 == v8 * 10 + d(9)
           values == <<v1, v2, v3, v4, v5, v6, v7, v8, v9>>
           witness == [place \in 0..9 |-> IF place = 0 THEN 0 ELSE values[place]]
<1>1. Nanos(digits) = (CHOOSE sum : Sums(sum))[9]
  BY DEF Nanos, DigitAt
<1> HIDE DEF d
<1>2. Sums(witness)
  <2> HIDE DEF v1, v2, v3, v4, v5, v6, v7, v8, v9
  <2>1. /\ witness[0] = 0 /\ witness[1] = v1 /\ witness[2] = v2 /\ witness[3] = v3 /\ witness[4] = v4
        /\ witness[5] = v5 /\ witness[6] = v6 /\ witness[7] = v7 /\ witness[8] = v8 /\ witness[9] = v9
    OBVIOUS
  <2> DEFINE step == [place \in 0..9 |-> IF place = 0 THEN 0 ELSE witness[place - 1] * 10 + d(place)]
  <2>2. /\ step[0] = 0 /\ step[1] = witness[0] * 10 + d(1) /\ step[2] = witness[1] * 10 + d(2)
        /\ step[3] = witness[2] * 10 + d(3) /\ step[4] = witness[3] * 10 + d(4)
        /\ step[5] = witness[4] * 10 + d(5) /\ step[6] = witness[5] * 10 + d(6)
        /\ step[7] = witness[6] * 10 + d(7) /\ step[8] = witness[7] * 10 + d(8)
        /\ step[9] = witness[8] * 10 + d(9)
    <3> HIDE DEF witness
    <3>1. QED
      OBVIOUS
  <2>3. \A place \in 0..9 : step[place] = witness[place]
    <3> HIDE DEF step, witness
    <3>1. /\ step[0] = witness[0] /\ step[1] = witness[1] /\ step[2] = witness[2]
          /\ step[3] = witness[3] /\ step[4] = witness[4] /\ step[5] = witness[5]
          /\ step[6] = witness[6] /\ step[7] = witness[7] /\ step[8] = witness[8] /\ step[9] = witness[9]
      BY <2>1, <2>2 DEF v1, v2, v3, v4, v5, v6, v7, v8, v9
    <3>2. QED
      BY <3>1
  <2>4. step = witness
    BY <2>3
  <2>5. QED
    BY <2>4
<1> DEFINE sum == CHOOSE s : Sums(s)
<1>3. Sums(sum)
  <2> HIDE DEF Sums, witness
  <2>1. QED
    BY <1>2
<1> HIDE DEF sum
<1>4. /\ sum[0] = 0 /\ sum[1] = sum[0] * 10 + d(1) /\ sum[2] = sum[1] * 10 + d(2)
      /\ sum[3] = sum[2] * 10 + d(3) /\ sum[4] = sum[3] * 10 + d(4)
      /\ sum[5] = sum[4] * 10 + d(5) /\ sum[6] = sum[5] * 10 + d(6)
      /\ sum[7] = sum[6] * 10 + d(7) /\ sum[8] = sum[7] * 10 + d(8)
      /\ sum[9] = sum[8] * 10 + d(9)
  BY <1>3
<1>5. /\ d(1) \in Int /\ d(2) \in Int /\ d(3) \in Int /\ d(4) \in Int /\ d(5) \in Int
      /\ d(6) \in Int /\ d(7) \in Int /\ d(8) \in Int /\ d(9) \in Int
  BY DEF d
<1>6. Nanos(digits) = sum[9]
  BY <1>1 DEF sum
<1> HIDE DEF Sums, d
<1>7. /\ sum[1] = d(1) /\ sum[1] \in Int
      /\ sum[2] = 10 * d(1) + d(2) /\ sum[2] \in Int
      /\ sum[3] = 100 * d(1) + 10 * d(2) + d(3) /\ sum[3] \in Int
  BY <1>4, <1>5, Z3
<1>8. /\ sum[4] = 10 * sum[3] + d(4) /\ sum[4] \in Int
      /\ sum[5] = 100 * sum[3] + 10 * d(4) + d(5) /\ sum[5] \in Int
      /\ sum[6] = 1000 * sum[3] + 100 * d(4) + 10 * d(5) + d(6) /\ sum[6] \in Int
  BY <1>4, <1>5, <1>7, Z3
<1>9. /\ sum[7] = 10 * sum[6] + d(7) /\ sum[7] \in Int
      /\ sum[8] = 100 * sum[6] + 10 * d(7) + d(8) /\ sum[8] \in Int
      /\ sum[9] = 1000 * sum[6] + 100 * d(7) + 10 * d(8) + d(9) /\ sum[9] \in Int
  BY <1>4, <1>5, <1>8, Z3
<1>10. sum[9] = 100000000 * d(1) + 10000000 * d(2) + 1000000 * d(3) + 100000 * d(4)
                + 10000 * d(5) + 1000 * d(6) + 100 * d(7) + 10 * d(8) + d(9)
  BY <1>5, <1>7, <1>8, <1>9, Z3
<1>11. QED
  BY <1>6, <1>10 DEF d

\* A set of places has a last one.
LEMMA LastPlace ==
  ASSUME NEW places \in SUBSET (1..9), places # {}
  PROVE  /\ Max(places) \in places
         /\ \A place \in places : place <= Max(places)
<1>1. \E x \in places : \A y \in places : x >= y
  <2>1. \A y \in places : y \in {1, 2, 3, 4, 5, 6, 7, 8, 9}
    OBVIOUS
  <2>2. CASE 9 \in places
    BY <2>1, <2>2
  <2>3. CASE 8 \in places /\ 9 \notin places
    BY <2>1, <2>3
  <2>4. CASE 7 \in places /\ places \cap {8, 9} = {}
    BY <2>1, <2>4
  <2>5. CASE 6 \in places /\ places \cap {7, 8, 9} = {}
    BY <2>1, <2>5
  <2>6. CASE 5 \in places /\ places \cap {6, 7, 8, 9} = {}
    BY <2>1, <2>6
  <2>7. CASE places \cap {5, 6, 7, 8, 9} = {}
    <3>1. \A y \in places : y \in {1, 2, 3, 4}
      BY <2>1, <2>7
    <3>2. CASE 4 \in places
      BY <3>1, <3>2
    <3>3. CASE 3 \in places /\ 4 \notin places
      BY <3>1, <3>3
    <3>4. CASE 3 \notin places /\ 4 \notin places
      <4>1. CASE 2 \in places
        BY <3>1, <3>4, <4>1
      <4>2. CASE 2 \notin places
        <5>1. \A y \in places : y = 1
          BY <3>1, <3>4, <4>2
        <5>2. 1 \in places
          <6>1. PICK y \in places : TRUE
            BY Zenon
          <6>2. QED
            BY <5>1, <6>1
        <5>3. \A y \in places : 1 >= y
          BY <5>1
        <5>4. QED
          BY <5>2, <5>3
      <4>3. QED
        BY <4>1, <4>2
    <3>5. QED
      BY <3>1, <3>2, <3>3, <3>4
  <2>8. QED
    BY <2>1, <2>2, <2>3, <2>4, <2>5, <2>6, <2>7
<1>2. Max(places) \in places /\ \A y \in places : Max(places) >= y
  BY <1>1, Zenon DEF Max
<1>3. \A place \in places : place \in Int
  OBVIOUS
<1>4. QED
  BY <1>2, <1>3

\* The digits that are written are those of the number, and none when it is zero.
Digit(nanos, place) == (nanos \div Worth[place]) % 10

LEMMA FractionReads ==
  ASSUME NEW nanos \in Int, 0 <= nanos, nanos < NanosPerSecond
  PROVE  /\ Fraction(nanos) \in Seq(Int)
         /\ Len(Fraction(nanos)) <= 9
         /\ \A place \in 1..9 : DigitAt(Fraction(nanos), place) = Digit(nanos, place)
         /\ nanos # 0 => Fraction(nanos) # <<>>
<1> DEFINE digits == [place \in 1..9 |-> Digit(nanos, place)]
           used == {place \in 1..9 : digits[place] # 0}
           last == Max(used)
           fraction == SubSeq(digits, 1, last)
<1>1. Fraction(nanos) = IF used = {} THEN <<>> ELSE fraction
  BY DEF Fraction, Digit
<1>2. used \in SUBSET (1..9) /\ \A place \in 1..9 : place \in used <=> digits[place] # 0
  OBVIOUS
<1>3. \A place \in 1..9 : Worth[place] \in Nat \ {0}
  BY DEF Worth
<1>4. \A place \in 1..9 : Digit(nanos, place) \in Int
  BY <1>3 DEF Digit
<1>5. digits \in Seq(Int) /\ Len(digits) = 9
  BY <1>4
<1>6. \A place \in 1..9 : digits[place] = Digit(nanos, place)
  OBVIOUS
<1> HIDE DEF digits, used, last, fraction
<1>7. CASE used = {}
  <2>1. \A place \in 1..9 : Digit(nanos, place) = 0
    BY <1>2, <1>6, <1>7
  <2>2. Fraction(nanos) = <<>>
    BY <1>1, <1>7
  <2>3. \A place \in 1..9 : DigitAt(<<>>, place) = 0
    BY DEF DigitAt
  <2>4. nanos = 0
    <3>1. /\ Digit(nanos, 1) = 0 /\ Digit(nanos, 2) = 0 /\ Digit(nanos, 3) = 0
          /\ Digit(nanos, 4) = 0 /\ Digit(nanos, 5) = 0 /\ Digit(nanos, 6) = 0
          /\ Digit(nanos, 7) = 0 /\ Digit(nanos, 8) = 0 /\ Digit(nanos, 9) = 0
      BY <2>1
    <3>2. QED
      BY <3>1, Z3 DEF Digit, Worth, NanosPerSecond
  <2>5. QED
    BY <2>1, <2>2, <2>3, <2>4
<1>8. CASE used # {}
  <2>1. last \in used /\ \A place \in used : place <= last
    BY <1>2, <1>8, LastPlace DEF last
  <2>2. last \in 1..9 /\ last \in Int /\ 1 <= last /\ last <= 9
    BY <1>2, <2>1
  <2>3. \A place \in 1..9 : place > last => digits[place] = 0
    BY <1>2, <2>1, <2>2
  <2>4. /\ fraction \in Seq(Int) /\ Len(fraction) = last
        /\ \A place \in 1..last : fraction[place] = digits[place]
    <3>1. \A place \in 1..last : digits[place] \in Int
      BY <1>4, <1>6, <2>2
    <3>2. /\ SubSeq(digits, 1, last) \in Seq(Int)
          /\ Len(SubSeq(digits, 1, last)) = IF 1 <= last THEN last - 1 + 1 ELSE 0
          /\ \A i \in 1..(last - 1 + 1) : SubSeq(digits, 1, last)[i] = digits[1 + i - 1]
      BY <2>2, <3>1, SubSeqProperties
    <3> DEFINE cut == SubSeq(digits, 1, last)
    <3>3. cut = fraction
      BY DEF fraction
    <3> HIDE DEF cut
    <3>4. /\ cut \in Seq(Int)
          /\ Len(cut) = last
          /\ \A i \in 1..last : cut[i] = digits[i]
      BY <2>2, <3>2 DEF cut
    <3>5. QED
      BY <3>3, <3>4
  <2>5. Fraction(nanos) = fraction
    BY <1>1, <1>8
  <2>6. \A place \in 1..9 : DigitAt(fraction, place) = Digit(nanos, place)
    <3> TAKE place \in 1..9
    <3>1. CASE place <= last
      <4>1. place \in 1..last
        BY <2>2, <3>1
      <4>2. fraction[place] = Digit(nanos, place)
        BY <1>6, <2>4, <4>1
      <4>3. place <= Len(fraction)
        BY <2>4, <3>1
      <4>4. QED
        BY <4>2, <4>3 DEF DigitAt
    <3>2. CASE place > last
      <4>1. digits[place] = 0 /\ digits[place] = Digit(nanos, place)
        BY <1>6, <2>3, <3>2
      <4>2. ~(place <= Len(fraction))
        BY <2>2, <2>4, <3>2
      <4>3. QED
        BY <4>1, <4>2 DEF DigitAt
    <3>3. QED
      BY <2>2, <3>1, <3>2
  <2>7. fraction # <<>>
    BY <2>2, <2>4
  <2>8. QED
    BY <2>2, <2>4, <2>5, <2>6, <2>7
<1>9. QED
  BY <1>7, <1>8

\* Nine digits are the number they were taken from.
LEMMA NanosFromDigits ==
  ASSUME NEW digits, NEW nanos \in Int, 0 <= nanos, nanos < NanosPerSecond,
         \A place \in 1..9 : DigitAt(digits, place) = Digit(nanos, place)
  PROVE  Nanos(digits) = nanos
<1>1. /\ DigitAt(digits, 1) = Digit(nanos, 1) /\ DigitAt(digits, 2) = Digit(nanos, 2)
      /\ DigitAt(digits, 3) = Digit(nanos, 3) /\ DigitAt(digits, 4) = Digit(nanos, 4)
      /\ DigitAt(digits, 5) = Digit(nanos, 5) /\ DigitAt(digits, 6) = Digit(nanos, 6)
      /\ DigitAt(digits, 7) = Digit(nanos, 7) /\ DigitAt(digits, 8) = Digit(nanos, 8)
      /\ DigitAt(digits, 9) = Digit(nanos, 9)
  OBVIOUS
<1>2. \A place \in 1..9 : DigitAt(digits, place) \in Int
  <2>1. \A place \in 1..9 : Digit(nanos, place) \in Int
    <3>1. \A place \in 1..9 : Worth[place] \in Nat \ {0}
      BY DEF Worth
    <3>2. QED
      BY <3>1 DEF Digit
  <2>2. QED
    BY <2>1
<1>3. 100000000 * Digit(nanos, 1) + 10000000 * Digit(nanos, 2)
           + 1000000 * Digit(nanos, 3) + 100000 * Digit(nanos, 4) + 10000 * Digit(nanos, 5)
           + 1000 * Digit(nanos, 6) + 100 * Digit(nanos, 7) + 10 * Digit(nanos, 8)
           + Digit(nanos, 9) = nanos
  <2> DEFINE q8 == nanos \div 10
             q7 == nanos \div 100
             q6 == nanos \div 1000
             q5 == nanos \div 10000
             q4 == nanos \div 100000
             q3 == nanos \div 1000000
             q2 == nanos \div 10000000
             q1 == nanos \div 100000000
  <2>1. /\ Digit(nanos, 9) = nanos - 10 * q8 /\ Digit(nanos, 8) = q8 - 10 * q7
        /\ q8 \in Int /\ q7 \in Int
    BY Z3 DEF Digit, Worth
  <2>2. Digit(nanos, 7) = q7 - 10 * q6 /\ q6 \in Int
    BY Z3 DEF Digit, Worth
  <2>3. Digit(nanos, 6) = q6 - 10 * q5 /\ q5 \in Int
    BY Z3 DEF Digit, Worth
  <2>4. Digit(nanos, 5) = q5 - 10 * q4 /\ q4 \in Int
    BY Z3 DEF Digit, Worth
  <2>5. Digit(nanos, 4) = q4 - 10 * q3 /\ q3 \in Int
    BY Z3 DEF Digit, Worth
  <2>6. Digit(nanos, 3) = q3 - 10 * q2 /\ q2 \in Int
    BY Z3 DEF Digit, Worth
  <2>7. Digit(nanos, 2) = q2 - 10 * q1 /\ q1 \in Int
    BY Z3 DEF Digit, Worth
  <2>8. Digit(nanos, 1) = q1
    BY Z3 DEF Digit, Worth, NanosPerSecond
  <2> HIDE DEF q1, q2, q3, q4, q5, q6, q7, q8
  <2>9. QED
    BY <2>1, <2>2, <2>3, <2>4, <2>5, <2>6, <2>7, <2>8, Z3
<1>4. QED
  BY <1>1, <1>2, <1>3, NanosAddUp

\* Of a clock's hour, minute and second, the seconds of a day.
LEMMA ClockReads ==
  ASSUME NEW second \in Int, 0 <= second, second < SecondsPerDay
  PROVE  /\ Within(second \div 3600, 0, 23)
         /\ Within((second \div 60) % 60, 0, 59)
         /\ Within(second % 60, 0, 59)
         /\ (second \div 3600) * 3600 + ((second \div 60) % 60) * 60 + (second % 60) = second
<1>1. (second \div 60) % 60 = second \div 60 - 60 * (second \div 3600)
  BY Z3
<1>2. second % 60 = second - 60 * (second \div 60)
  BY Z3
<1>3. Within(second \div 3600, 0, 23) /\ second \div 60 \in Int
  BY Z3 DEF SecondsPerDay, Within
<1>4. Within((second \div 60) % 60, 0, 59) /\ Within(second % 60, 0, 59)
  BY <1>3, Z3 DEF Within
<1> DEFINE hour == second \div 3600
           minutes == second \div 60
           minute == minutes % 60
<1> HIDE DEF hour, minutes, minute
<1>5. /\ minute = minutes - 60 * hour /\ second % 60 = second - 60 * minutes
      /\ hour \in Int /\ minutes \in Int
  BY <1>1, <1>2, <1>3 DEF Within, hour, minutes, minute
<1>6. hour * 3600 + minute * 60 + (second % 60) = second
  BY <1>5, Z3
<1>7. QED
  BY <1>3, <1>4, <1>6 DEF hour, minutes, minute

\* A text with the fields of Display, at an offset, and the time it reads as.
Text(day, second, point, digits, offset) ==
  [date |-> DateFromDays(day),
   clock |-> <<second \div 3600, (second \div 60) % 60, second % 60>>,
   point |-> point, digits |-> digits, offset |-> offset]

Shift(offset) == offset.sign * (offset.hour * 3600 + offset.minute * 60)

IsOffset(offset) ==
  offset.sign \in {1, -1} /\ offset.hour \in 0..23 /\ offset.minute \in 0..59

LEMMA ShiftIsInt == ASSUME NEW offset, IsOffset(offset) PROVE Shift(offset) \in Int
<1>1. offset.hour * 3600 + offset.minute * 60 \in Int
  BY DEF IsOffset
<1>2. QED
  BY <1>1 DEF Shift, IsOffset

LEMMA ClockRange ==
  /\ \A hour : Within(hour, 0, 23) => hour \in 0..23
  /\ \A minute : Within(minute, 0, 59) => minute \in 0..59
<1>1. ASSUME NEW hour, Within(hour, 0, 23) PROVE hour \in 0..23
  <2>1. hour \in Int /\ 0 <= hour /\ hour <= 23
    BY <1>1 DEF Within
  <2>2. QED
    BY <2>1, Z3
<1>2. ASSUME NEW minute, Within(minute, 0, 59) PROVE minute \in 0..59
  <2>1. minute \in Int /\ 0 <= minute /\ minute <= 59
    BY <1>2 DEF Within
  <2>2. QED
    BY <2>1, Z3
<1>3. QED
  BY <1>1, <1>2

LEMMA TextReads ==
  ASSUME NEW day \in Int, DateFromDays(day)[1] \in Years,
         NEW second \in Int, 0 <= second, second < SecondsPerDay,
         NEW nanos \in Int, 0 <= nanos, nanos < NanosPerSecond,
         NEW digits, \A place \in 1..9 : DigitAt(digits, place) = Digit(nanos, place),
         NEW point, point => digits # <<>>,
         NEW offset, IsOffset(offset)
  PROVE  LET text == Text(day, second, point, digits, offset)
             read == [day |-> day + (second - Shift(offset)) \div SecondsPerDay,
                      second |-> (second - Shift(offset)) % SecondsPerDay,
                      nanos |-> nanos]
         IN  /\ ReadTime(text) = read
             /\ Within(read.day, FirstDay, LastDay) => ReadsAsTime(text)
<1> DEFINE text == Text(day, second, point, digits, offset)
           seconds == second - Shift(offset)
           read == [day |-> day + seconds \div SecondsPerDay, second |-> seconds % SecondsPerDay,
                    nanos |-> nanos]
           clock == <<second \div 3600, (second \div 60) % 60, second % 60>>
<1>1. /\ text.date = DateFromDays(day) /\ text.point = point /\ text.digits = digits
      /\ text.offset = offset
      /\ text.clock = clock
  BY DEF Text
<1>2. DaysFromDate(DateFromDays(day)) = day /\ IsDate(DateFromDays(day))
  BY DayDateDay, DateIsDate
<1>3. Nanos(digits) = nanos
  BY NanosFromDigits
<1>4. /\ Within(clock[1], 0, 23) /\ Within(clock[2], 0, 59) /\ Within(clock[3], 0, 59)
      /\ clock[1] * 3600 + clock[2] * 60 + clock[3] = second
  BY ClockReads
<1> HIDE DEF text, clock
<1>5. ReadTime(text) =
        LET taken == text.clock[1] * 3600 + text.clock[2] * 60 + text.clock[3] - Shift(text.offset)
        IN  [day |-> DaysFromDate(text.date) + taken \div SecondsPerDay,
             second |-> taken % SecondsPerDay, nanos |-> Nanos(text.digits)]
  BY DEF ReadTime, Shift
<1>6. ReadTime(text) = read
  <2> DEFINE taken == clock[1] * 3600 + clock[2] * 60 + clock[3] - Shift(offset)
  <2>1. taken = seconds
    <3>1. Shift(offset) \in Int
      BY ShiftIsInt
    <3>2. clock[1] \in Int /\ clock[2] \in Int /\ clock[3] \in Int
      BY <1>4 DEF Within
    <3> DEFINE hour == clock[1]
               minute == clock[2]
               rest == clock[3]
               shift == Shift(offset)
    <3>3. /\ hour \in Int /\ minute \in Int /\ rest \in Int /\ shift \in Int
          /\ hour * 3600 + minute * 60 + rest = second
      BY <1>4, <3>1, <3>2
    <3> HIDE DEF hour, minute, rest, shift
    <3>4. hour * 3600 + minute * 60 + rest - shift = second - shift
      BY <3>3, Z3
    <3>5. QED
      BY <3>4 DEF hour, minute, rest, shift
  <2>2. ReadTime(text) = [day |-> DaysFromDate(DateFromDays(day)) + taken \div SecondsPerDay,
                          second |-> taken % SecondsPerDay, nanos |-> Nanos(digits)]
    BY <1>1, <1>5
  <2> HIDE DEF taken, seconds
  <2>3. QED
    BY <1>2, <1>3, <2>1, <2>2
<1>7. ASSUME Within(read.day, FirstDay, LastDay)
      PROVE  ReadsAsTime(text)
  <2>1. IsDate(text.date)
    BY <1>1, <1>2
  <2>2. text.clock[1] \in 0..23 /\ text.clock[2] \in 0..59 /\ text.clock[3] \in 0..59
    <3>1. clock[1] \in 0..23
      BY <1>4, ClockRange
    <3>2. clock[2] \in 0..59
      BY <1>4, ClockRange
    <3>3. clock[3] \in 0..59
      BY <1>4, ClockRange
    <3>4. QED
      BY <1>1, <3>1, <3>2, <3>3
  <2>3. text.point => text.digits # <<>>
    BY <1>1
  <2>4. text.offset.hour \in 0..23 /\ text.offset.minute \in 0..59
    BY <1>1 DEF IsOffset
  <2>5. ReadTime(text).day \in FirstDay..LastDay
    <3> HIDE DEF read
    <3>1. QED
      BY <1>6, <1>7, DayRange
  <2>6. QED
    BY <2>1, <2>2, <2>3, <2>4, <2>5, Zenon DEF ReadsAsTime
<1>8. QED
  BY <1>6, <1>7 DEF text

LEMMA TimeRange ==
  ASSUME NEW time, IsTime(time)
  PROVE  /\ time.day \in Int /\ Within(time.day, FirstDay, LastDay)
         /\ time.second \in Int /\ 0 <= time.second /\ time.second < SecondsPerDay
         /\ time.nanos \in Int /\ 0 <= time.nanos /\ time.nanos < NanosPerSecond
<1>1. /\ time.day \in FirstDay..LastDay
      /\ time.second \in 0..(SecondsPerDay - 1)
      /\ time.nanos \in 0..(NanosPerSecond - 1)
  BY DEF IsTime
<1>2. SecondsPerDay \in Int /\ NanosPerSecond \in Int
  BY DEF SecondsPerDay, NanosPerSecond
<1>3. Within(time.day, FirstDay, LastDay)
  BY <1>1, DayRange
<1>4. QED
  BY <1>1, <1>2, <1>3 DEF Within

\* A time written at any offset, with any digits that begin with its nine, reads as that time
\* (Timestamp's parse), whichever day the offset carries it over to.
THEOREM OffsetTextReads ==
  ASSUME NEW day \in Int, Within(day, FirstDay, LastDay),
         NEW second \in Int, 0 <= second, second < SecondsPerDay,
         NEW nanos \in Int, 0 <= nanos, nanos < NanosPerSecond,
         NEW digits, \A place \in 1..9 : DigitAt(digits, place) = Digit(nanos, place),
         NEW point, point => digits # <<>>,
         NEW offset, IsOffset(offset),
         DateFromDays(day + (second + Shift(offset)) \div SecondsPerDay)[1] \in Years
  PROVE  LET there == second + Shift(offset)
             text == Text(day + there \div SecondsPerDay, there % SecondsPerDay, point, digits, offset)
         IN  ReadsAsTime(text) /\ ReadTime(text) = [day |-> day, second |-> second, nanos |-> nanos]
<1> DEFINE shift == Shift(offset)
           there == second + shift
           localDay == day + there \div SecondsPerDay
           local == there % SecondsPerDay
           text == Text(localDay, local, point, digits, offset)
           read == [day |-> localDay + (local - shift) \div SecondsPerDay,
                    second |-> (local - shift) % SecondsPerDay, nanos |-> nanos]
<1>1. shift \in Int
  BY ShiftIsInt
<1> HIDE DEF shift
<1>2. /\ Within(local, 0, SecondsPerDay - 1) /\ there \div SecondsPerDay \in Int
      /\ localDay + (local - shift) \div SecondsPerDay = day
      /\ (local - shift) % SecondsPerDay = second
  BY <1>1, Z3 DEF SecondsPerDay, Within
<1>3. localDay \in Int
  BY <1>2
<1>4. DateFromDays(localDay)[1] \in Years
  BY DEF shift
<1>5. local \in Int /\ 0 <= local /\ local < SecondsPerDay
  <2> HIDE DEF local
  <2>1. QED
    BY <1>2, Z3 DEF Within, SecondsPerDay
<1> HIDE DEF there, localDay, local
<1>6. /\ ReadTime(text) = read
      /\ Within(read.day, FirstDay, LastDay) => ReadsAsTime(text)
  BY <1>3, <1>4, <1>5, TextReads DEF shift
<1>7. read = [day |-> day, second |-> second, nanos |-> nanos]
  BY <1>2
<1>8. QED
  BY <1>6, <1>7 DEF shift, there, localDay, local

\* What Timestamp's Display writes, its parse takes, and reads as the same time to the nanosecond.
THEOREM WrittenReads ==
  ASSUME NEW time, IsTime(time),
         time = [day |-> time.day, second |-> time.second, nanos |-> time.nanos]
  PROVE  ReadsAsTime(WriteTime(time)) /\ ReadTime(WriteTime(time)) = time
<1> DEFINE day == time.day
           second == time.second
           nanos == time.nanos
           digits == Fraction(nanos)
           point == nanos # 0
<1>1. WriteTime(time) = Text(day, second, point, digits, Utc)
  BY DEF WriteTime, Text
<1>2. /\ day \in Int /\ Within(day, FirstDay, LastDay)
      /\ second \in Int /\ 0 <= second /\ second < SecondsPerDay
      /\ nanos \in Int /\ 0 <= nanos /\ nanos < NanosPerSecond
  BY TimeRange
<1>3. IsOffset(Utc) /\ Shift(Utc) = 0
  BY DEF IsOffset, Shift, Utc
<1> HIDE DEF day, second, nanos
<1>4. /\ \A place \in 1..9 : DigitAt(digits, place) = Digit(nanos, place)
      /\ point => digits # <<>>
  BY <1>2, FractionReads
<1> HIDE DEF digits, point
<1>5. DateFromDays(day)[1] \in Years
  BY <1>2, DaysOfYears, YearRange
<1>6. (second - 0) \div SecondsPerDay = 0 /\ (second - 0) % SecondsPerDay = second
  BY <1>2, Z3 DEF SecondsPerDay
<1>7. LET text == Text(day, second, point, digits, Utc)
          read == [day |-> day + (second - Shift(Utc)) \div SecondsPerDay,
                   second |-> (second - Shift(Utc)) % SecondsPerDay, nanos |-> nanos]
      IN  /\ ReadTime(text) = read
          /\ Within(read.day, FirstDay, LastDay) => ReadsAsTime(text)
  BY <1>2, <1>3, <1>4, <1>5, TextReads
<1>8. LET text == Text(day, second, point, digits, Utc)
          read == [day |-> day + (second - 0) \div SecondsPerDay,
                   second |-> (second - 0) % SecondsPerDay, nanos |-> nanos]
      IN  /\ ReadTime(text) = read
          /\ Within(read.day, FirstDay, LastDay) => ReadsAsTime(text)
  BY <1>3, <1>7
<1>9. LET text == Text(day, second, point, digits, Utc)
          read == [day |-> day, second |-> second, nanos |-> nanos]
      IN  ReadTime(text) = read /\ ReadsAsTime(text)
  BY <1>2, <1>6, <1>8
<1>10. QED
  BY <1>1, <1>9 DEF day, second, nanos
===============================================================================
