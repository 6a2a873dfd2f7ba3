------------------------------- MODULE Calendar -------------------------------
(***************************************************************************)
(* Days, dates and times (core/time.rs) and the intervals of partitions    *)
(* (core/partition.rs). A day is its number since 1970-01-01, negative     *)
(* before it, a date <<year, month, day of the month>>, and a time a       *)
(* record of its day, its second within the day and its nanosecond within  *)
(* the second: the seconds since 1970 that the code keeps are              *)
(* 86400 * day + second, whose div_euclid and rem_euclid by 86400 the two  *)
(* are. \div and % floor in TLA+, as div_euclid and rem_euclid do here.    *)
(***************************************************************************)
EXTENDS Integers, Sequences, SequencesExt

-------------------------------------------------------------------------------
(* Days and dates *)

\* FIRST_SECOND and END_SECOND, in days: 0000-01-01, and the day after 9999-12-31.
FirstDay == -719528
LastDay == 2932896

\* Slip: the days before 1970 are divided towards zero, as `/` does.
DateFromDaysTruncated(days) ==
  LET shifted == days + 719468
      era == IF shifted >= 0 THEN shifted \div 146097 ELSE 0 - ((0 - shifted) \div 146097)
      dayOfEra == shifted - 146097 * era
      yearOfEra == (dayOfEra - dayOfEra \div 1460 + dayOfEra \div 36524 - dayOfEra \div 146096) \div 365
      dayOfYear == dayOfEra - (365 * yearOfEra + yearOfEra \div 4 - yearOfEra \div 100)
      monthFromMarch == (5 * dayOfYear + 2) \div 153
      month == IF monthFromMarch < 10 THEN monthFromMarch + 3 ELSE monthFromMarch - 9
  IN  << yearOfEra + era * 400 + (IF month <= 2 THEN 1 ELSE 0),
         month, dayOfYear - (153 * monthFromMarch + 2) \div 5 + 1 >>

DateFromDays(days) ==
  LET shifted == days + 719468
      era == shifted \div 146097
      dayOfEra == shifted % 146097
      yearOfEra == (dayOfEra - dayOfEra \div 1460 + dayOfEra \div 36524 - dayOfEra \div 146096) \div 365
      dayOfYear == dayOfEra - (365 * yearOfEra + yearOfEra \div 4 - yearOfEra \div 100)
      monthFromMarch == (5 * dayOfYear + 2) \div 153
      month == IF monthFromMarch < 10 THEN monthFromMarch + 3 ELSE monthFromMarch - 9
  IN  << yearOfEra + era * 400 + (IF month <= 2 THEN 1 ELSE 0),
         month, dayOfYear - (153 * monthFromMarch + 2) \div 5 + 1 >>

DaysFromDate(date) ==
  LET year == date[1] - (IF date[2] <= 2 THEN 1 ELSE 0)
      era == year \div 400
      yearOfEra == year % 400
      monthFromMarch == (date[2] + 9) % 12
      dayOfYear == (153 * monthFromMarch + 2) \div 5 + date[3] - 1
      dayOfEra == yearOfEra * 365 + yearOfEra \div 4 - yearOfEra \div 100 + dayOfYear
  IN  era * 146097 + dayOfEra - 719468

Leap(year) == year % 4 = 0 /\ (year % 100 # 0 \/ year % 400 = 0)

DaysInMonth(year, month) ==
  CASE month = 2             -> IF Leap(year) THEN 29 ELSE 28
    [] month \in {4, 6, 9, 11} -> 30
    [] OTHER                 -> 31

\* Date::new's check, and parse's of the same fields.
Years == 0..9999
IsDate(date) ==
  /\ date[1] \in Years
  /\ date[2] \in 1..12
  /\ date[3] \in 1..DaysInMonth(date[1], date[2])

\* Date::from_days, which every Date goes through: clamped to the years 0000 to 9999.
Clamped(days) == IF days < FirstDay THEN FirstDay ELSE IF days > LastDay THEN LastDay ELSE days

AddDays(day, days) == Clamped(day + days)

\* 1970-01-01 was a Thursday, three days after a Monday.
Monday(day) == Clamped(day - ((day + 3) % 7))

FirstOfMonth(day) ==
  LET date == DateFromDays(day) IN Clamped(DaysFromDate(<<date[1], date[2], 1>>))

FirstOfNextMonth(day) ==
  LET date == DateFromDays(day)
  IN  Clamped(DaysFromDate(IF date[2] = 12 THEN <<date[1] + 1, 1, 1>>
                                           ELSE <<date[1], date[2] + 1, 1>>))

\* PartitionInterval, its start and its end.
Intervals == {"day", "week", "month"}

Start(interval, day) ==
  CASE interval = "day"   -> day
    [] interval = "week"  -> Monday(day)
    [] interval = "month" -> FirstOfMonth(day)

End(interval, day) ==
  CASE interval = "day"   -> AddDays(day, 1)
    [] interval = "week"  -> AddDays(Monday(day), 7)
    [] interval = "month" -> FirstOfNextMonth(day)

-------------------------------------------------------------------------------
(* Times and their RFC 3339 text: the fields of the text, the digits after *)
(* its point when it has one, and its offset from UTC, `Z` being zero.     *)

SecondsPerDay == 86400
NanosPerSecond == 1000000000
IsTime(time) ==
  /\ time.day \in FirstDay..LastDay
  /\ time.second \in 0..(SecondsPerDay - 1)
  /\ time.nanos \in 0..(NanosPerSecond - 1)

\* A text with the fields of a time.
IsWritten(text) ==
  /\ text.date \in Nat \X Nat \X Nat /\ text.clock \in Nat \X Nat \X Nat
  /\ text.digits \in Seq(0..9)
  /\ text.offset \in [sign : {-1, 1}, hour : Nat, minute : Nat]

\* The first nine digits; those past them are below a nanosecond.
Nanos(digits) ==
  LET nanos[place \in 0..9] ==
        IF place = 0 THEN 0
        ELSE nanos[place - 1] * 10 + (IF place <= Len(digits) THEN digits[place] ELSE 0)
  IN  nanos[9]

\* The time that the fields of a text name, in range or not.
ReadTime(text) ==
  LET seconds == text.clock[1] * 3600 + text.clock[2] * 60 + text.clock[3]
                 - text.offset.sign * (text.offset.hour * 3600 + text.offset.minute * 60)
  IN  [day |-> DaysFromDate(text.date) + seconds \div SecondsPerDay,
       second |-> seconds % SecondsPerDay, nanos |-> Nanos(text.digits)]

\* Whether parse takes a text. An offset can carry 9999-12-31 out of range, and 0000-01-01.
ReadsAsTime(text) ==
  /\ IsDate(text.date)
  /\ text.clock[1] \in 0..23 /\ text.clock[2] \in 0..59 /\ text.clock[3] \in 0..59
  /\ text.point => text.digits # <<>>
  /\ text.offset.hour \in 0..23 /\ text.offset.minute \in 0..59
  /\ ReadTime(text).day \in FirstDay..LastDay

Utc == [sign |-> 1, hour |-> 0, minute |-> 0]

\* The nine digits of the nanoseconds, without the zeros at their end.
Worth == <<100000000, 10000000, 1000000, 100000, 10000, 1000, 100, 10, 1>>
Fraction(nanos) ==
  LET digits == [place \in 1..9 |-> (nanos \div Worth[place]) % 10]
      used == {place \in 1..9 : digits[place] # 0}
  IN  IF used = {} THEN <<>> ELSE SubSeq(digits, 1, Max(used))

\* Display.
WriteTime(time) ==
  [date |-> DateFromDays(time.day),
   clock |-> <<time.second \div 3600, (time.second \div 60) % 60, time.second % 60>>,
   point |-> time.nanos # 0,
   digits |-> Fraction(time.nanos),
   offset |-> Utc]

===============================================================================
