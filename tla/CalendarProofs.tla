-------------------------- MODULE CalendarProofs --------------------------
(***************************************************************************)
(* The walk of Calendar for every year: days_after() counts days.          *)
(***************************************************************************)
EXTENDS Calendar, DatesProofs

(* The walk stays on the calendar, and rdn() grows by one with every step. *)
Counting == rdn(year, month, day) = rdn(FirstYear, 1, 1) + passed

(* The count in rdn() and the types of the walk are preserved together.    *)
LEMMA WalkCounts == Spec => [](TypeOK /\ Counting)
  <1>1. Init => TypeOK /\ Counting
    <2>1. FirstWeekday \in 0..6
      BY YearsAssumption DEF NewYearsDay
    <2> QED  BY <2>1, YearsAssumption DEF Init, TypeOK, Counting, DaysIn, rdn, Quotient
  <1>2. TypeOK /\ Counting /\ [Next]_vars => (TypeOK /\ Counting)'
    <2> SUFFICES ASSUME TypeOK, Counting, [Next]_vars
                 PROVE  (TypeOK /\ Counting)'
      OBVIOUS
    <2> USE YearsAssumption
    <2>0. DaysIn(year, month) \in 1..31
      BY DEF DaysIn, TypeOK
    <2>9. rdn(FirstYear, 1, 1) \in Int /\ passed \in Int
      BY RdnIsInt DEF TypeOK
    <2>1. CASE NextDay
      <3>1. TypeOK'
        BY <2>0, <2>1 DEF NextDay, Counted, TypeOK
      <3>2. rdn(year, month, day + 1) = rdn(year, month, day) + 1
        BY <2>0, <2>1 DEF NextDay, TypeOK, rdn, Quotient
      <3> QED  BY <2>1, <2>9, <3>1, <3>2 DEF NextDay, Counted, Counting
    <2>2. CASE NextMonth
      <3>1. TypeOK'
        BY <2>2 DEF NextMonth, Counted, TypeOK, DaysIn
      <3>2. rdn(year, month + 1, 1) = rdn(year, month, day) + 1
        BY <2>2, MonthFollows DEF NextMonth, TypeOK
      <3> QED  BY <2>2, <2>9, <3>1, <3>2 DEF NextMonth, Counted, Counting
    <2>3. CASE NextYear
      <3>1. TypeOK'
        BY <2>3 DEF NextYear, Counted, TypeOK, DaysIn
      <3>2. rdn(year + 1, 1, 1) = rdn(year, month, day) + 1
        BY <2>3, YearFollows DEF NextYear, TypeOK, DaysIn
      <3> QED  BY <2>3, <2>9, <3>1, <3>2 DEF NextYear, Counted, Counting
    <2>4. CASE UNCHANGED vars
      BY <2>4 DEF vars, TypeOK, Counting
    <2> QED  BY <2>1, <2>2, <2>3, <2>4 DEF Next
  <1> QED  BY <1>1, <1>2, PTL DEF Spec

(***************************************************************************)
(* days_after() counts the days between any two dates, whatever the first  *)
(* year is and however far the walk goes.                                  *)
(***************************************************************************)
THEOREM DaysAreCounted == Spec => []DaysAfterCountsDays
  <1>1. TypeOK /\ Counting => DaysAfterCountsDays
    <2> SUFFICES ASSUME TypeOK, Counting  PROVE DaysAfterCountsDays
      OBVIOUS
    <2>1. DaysIn(year, month) \in 1..31
      BY DEF DaysIn, TypeOK
    <2>2. /\ Year(Today) = year /\ Month(Today) = month /\ Day(Today) = day
      BY <2>1, PartsOfCode DEF Today, TypeOK
    <2>3. /\ Year(Start) = FirstYear /\ Month(Start) = 1 /\ Day(Start) = 1
      BY PartsOfCode, YearsAssumption DEF Start
    <2>4. rdn(FirstYear, 1, 1) \in Int /\ passed \in Int
      BY RdnIsInt, YearsAssumption DEF TypeOK
    <2> QED  BY <2>2, <2>3, <2>4 DEF Counting, DaysAfterCountsDays, days_after
  <1> QED  BY <1>1, WalkCounts, PTL

-----------------------------------------------------------------------------
(* Weekdays                                                                *)

(* What day_of_week() divides by seven.                                    *)
Shifted(y, m, d) ==
    LET yy == IF m < 3 THEN y - 1 ELSE y
    IN  yy + yy \div 4 - yy \div 100 + yy \div 400 + MonthShift[m] + d

(* The result is one less, and Sunday is the last day.                     *)
LEMMA WeekdayOfShifted ==
    ASSUME NEW y \in Nat, y >= 1, NEW m \in 1..12, NEW d \in 1..31
    PROVE  /\ Shifted(y, m, d) \in Nat
           /\ day_of_week(d, m, y) = (Shifted(y, m, d) + 6) % 7
  <1>1. MonthShift[m] \in 0..6
    BY DEF MonthShift
  <1> DEFINE yy == IF m < 3 THEN y - 1 ELSE y
  <1>2. yy \in Nat /\ yy \div 100 <= yy /\ yy \div 4 \in Nat /\ yy \div 100 \in Nat
          /\ yy \div 400 \in Nat
    OBVIOUS
  <1>3. Shifted(y, m, d) \in Nat
    BY <1>1, <1>2 DEF Shifted
  <1>4. day_of_week(d, m, y) =
          IF Shifted(y, m, d) % 7 = 0 THEN 6 ELSE (Shifted(y, m, d) % 7) - 1
    BY DEF day_of_week, Shifted
  <1> QED  BY <1>3, <1>4

(* The weekday of the first day of a month follows that of the last day of *)
(* the month before: the table MonthShift fits the lengths of the months.  *)
LEMMA ShiftedMonthFollows ==
    ASSUME NEW y \in Nat, y >= 1, NEW m \in 1..11
    PROVE  (Shifted(y, m + 1, 1) + 6) % 7 = (Shifted(y, m, DaysIn(y, m)) + 7) % 7
  <1>1. CASE m = 2
    <2>1. /\ Shifted(y, 3, 1) = y + y \div 4 - y \div 100 + y \div 400 + 3
          /\ Shifted(y, 2, DaysIn(y, 2)) = y - 1 + (y - 1) \div 4 - (y - 1) \div 100
                + (y - 1) \div 400 + 3 + DaysIn(y, 2)
      BY DEF Shifted, MonthShift
    <2>2. DaysIn(y, 2) = IF Leap(y) THEN 29 ELSE 28
      BY DEF DaysIn
    <2> DEFINE a == y \div 4 - y \div 100 + y \div 400
               b == (y - 1) \div 4 - (y - 1) \div 100 + (y - 1) \div 400
    <2>3. a \in Int /\ b \in Int /\ a = b + (IF Leap(y) THEN 1 ELSE 0)
      BY LeapDay
    <2>4. Shifted(y, 3, 1) = y + a + 3 /\ Shifted(y, 2, DaysIn(y, 2)) = y + 2 + b + DaysIn(y, 2)
      BY <2>1, <2>2
    <2> HIDE DEF a, b
    <2>5. Shifted(y, 2, DaysIn(y, 2)) + 7 = Shifted(y, 3, 1) + 6 + 28
      BY <2>2, <2>3, <2>4
    <2>6. Shifted(y, 3, 1) \in Int
      BY <2>3, <2>4
    <2> QED  BY <1>1, <2>5, <2>6
  <1>2. CASE m = 1
    BY <1>2 DEF Shifted, MonthShift, DaysIn
  <1>3. CASE m \in {3, 4, 5, 6, 7, 8, 9, 10, 11}
    <2> DEFINE x == y + y \div 4 - y \div 100 + y \div 400
    <2>1. /\ Shifted(y, m + 1, 1) = x + MonthShift[m + 1] + 1
          /\ Shifted(y, m, DaysIn(y, m)) = x + MonthShift[m] + DaysIn(y, m)
      BY <1>3 DEF Shifted
    <2>2. x \in Int
      OBVIOUS
    <2>3. \/ MonthShift[m + 1] + 7 = MonthShift[m] + DaysIn(y, m) - 21
          \/ MonthShift[m + 1] + 7 = MonthShift[m] + DaysIn(y, m) - 14
          \/ MonthShift[m + 1] + 7 = MonthShift[m] + DaysIn(y, m) - 28
      BY <1>3 DEF MonthShift, DaysIn
    <2>4. MonthShift[m] \in Int /\ MonthShift[m + 1] \in Int /\ DaysIn(y, m) \in Int
      BY <1>3 DEF MonthShift, DaysIn
    <2> HIDE DEF x
    <2> QED  BY <2>1, <2>2, <2>3, <2>4
  <1> QED  BY <1>1, <1>2, <1>3

(* ... and so does the weekday of New Year's Day.                         *)
LEMMA ShiftedYearFollows ==
    ASSUME NEW y \in Nat, y >= 1
    PROVE  (Shifted(y + 1, 1, 1) + 6) % 7 = (Shifted(y, 12, 31) + 7) % 7
  <1>1. Shifted(y + 1, 1, 1) = y + y \div 4 - y \div 100 + y \div 400 + 1
    BY DEF Shifted, MonthShift
  <1>2. Shifted(y, 12, 31) = y + y \div 4 - y \div 100 + y \div 400 + 35
    BY DEF Shifted, MonthShift
  <1> QED  BY <1>1, <1>2

(* The days before a year make its first weekday: 364 of 365 are weeks.    *)
LEMMA NewYearIsShifted ==
    ASSUME NEW y \in Nat, y >= 1
    PROVE  day_of_week(1, 1, y) = NewYearsDay(y)
  <1> DEFINE b == y - 1
             leaps == b \div 4 - b \div 100 + b \div 400
  <1>1. b \in Nat /\ leaps \in Int
    OBVIOUS
  <1>2. Shifted(y, 1, 1) = b + leaps + 1
    BY DEF Shifted, MonthShift
  <1>3. NewYearsDay(y) = (365 * b + leaps) % 7
    BY DEF NewYearsDay
  <1>4. day_of_week(1, 1, y) = (Shifted(y, 1, 1) + 6) % 7
    BY WeekdayOfShifted
  <1> HIDE DEF b, leaps
  <1>5. 365 * b + leaps + 7 = b + leaps + 1 + 6 + 7 * (52 * b)
    BY <1>1
  <1>6. (365 * b + leaps) % 7 = (b + leaps + 1 + 6) % 7
    BY <1>1, <1>5
  <1> QED  BY <1>2, <1>3, <1>4, <1>6

(***************************************************************************)
(* day_of_week() is right on every day of every month and year: the walk   *)
(* advances by one weekday a day from a New Year's Day of the calendar.    *)
(***************************************************************************)
THEOREM WeekdaysFollow == Spec => []WeekdayFollows
  <1>1. Init => WeekdayFollows
    BY YearsAssumption, NewYearIsShifted DEF Init, WeekdayFollows
  <1>2. TypeOK /\ WeekdayFollows /\ [Next]_vars => WeekdayFollows'
    <2> SUFFICES ASSUME TypeOK, WeekdayFollows, [Next]_vars
                 PROVE  WeekdayFollows'
      OBVIOUS
    <2>1. DaysIn(year, month) \in 1..31 /\ year \in Nat /\ year >= 1 /\ month \in 1..12
            /\ day \in 1..31
      BY YearsAssumption DEF DaysIn, TypeOK
    <2>2. Shifted(year, month, day) \in Nat /\ weekday = (Shifted(year, month, day) + 6) % 7
      BY <2>1, WeekdayOfShifted DEF WeekdayFollows
    <2>3. (weekday + 1) % 7 = (Shifted(year, month, day) + 7) % 7
      BY <2>2
    <2>4. CASE NextDay
      <3>1. day + 1 \in 1..31
        BY <2>1, <2>4 DEF NextDay, TypeOK
      <3>2. Shifted(year, month, day + 1) = Shifted(year, month, day) + 1
        BY <2>1 DEF Shifted, MonthShift
      <3> DEFINE d == day + 1
      <3>3. d \in 1..31
        BY <3>1
      <3> HIDE DEF d
      <3>4. day_of_week(d, month, year) = (Shifted(year, month, d) + 6) % 7
        BY <2>1, <3>3, WeekdayOfShifted
      <3>5. day_of_week(d, month, year) = (Shifted(year, month, day) + 7) % 7
        BY <2>2, <3>2, <3>4 DEF d
      <3> QED  BY <2>3, <2>4, <3>5 DEF NextDay, Counted, WeekdayFollows, d
    <2>5. CASE NextMonth
      <3>1. month \in 1..11 /\ month + 1 \in 1..12 /\ day = DaysIn(year, month)
        BY <2>1, <2>5 DEF NextMonth
      <3> DEFINE m == month + 1
      <3>2. m \in 1..12 /\ 1 \in 1..31
        BY <3>1
      <3>3. (Shifted(year, m, 1) + 6) % 7 = (Shifted(year, month, day) + 7) % 7
        BY <2>1, <3>1, ShiftedMonthFollows
      <3> HIDE DEF m
      <3>4. day_of_week(1, m, year) = (Shifted(year, m, 1) + 6) % 7
        BY <2>1, <3>2, WeekdayOfShifted
      <3> QED  BY <2>3, <2>5, <3>3, <3>4 DEF NextMonth, Counted, WeekdayFollows, m
    <2>6. CASE NextYear
      <3>1. day = 31
        BY <2>6 DEF NextYear, DaysIn
      <3>2. day_of_week(1, 1, year + 1) = (Shifted(year, month, day) + 7) % 7
        BY <2>1, <2>6, <3>1, ShiftedYearFollows, WeekdayOfShifted DEF NextYear
      <3> QED  BY <2>3, <2>6, <3>2 DEF NextYear, Counted, WeekdayFollows
    <2>7. CASE UNCHANGED vars
      BY <2>7 DEF vars, WeekdayFollows
    <2> QED  BY <2>4, <2>5, <2>6, <2>7 DEF Next
  <1> QED  BY <1>1, <1>2, WalkCounts, PTL DEF Spec

(* int_to_date() undoes date_to_int().                                     *)
LEMMA CodeIsDate ==
    ASSUME NEW y \in Nat, NEW m \in 1..12, NEW d \in 1..31
    PROVE  int_to_date(date_to_int(y, m, d)) = <<y, m, d>>
  <1> DEFINE c == y * 10000 + m * 100 + d
  <1>1. c \div 10000 = y
    OBVIOUS
  <1>2. (c - y * 10000) \div 100 = m
    <2>1. c - y * 10000 = m * 100 + d
      OBVIOUS
    <2>2. (m * 100 + d) \div 100 = m
      OBVIOUS
    <2> QED  BY <2>1, <2>2
  <1>3. c - y * 10000 - m * 100 = d
    OBVIOUS
  <1> HIDE DEF c
  <1>4. int_to_date(c) = <<y, m, d>>
    BY <1>1, <1>2, <1>3 DEF int_to_date
  <1> QED  BY <1>4 DEF date_to_int, c

(***************************************************************************)
(* From one day to the next the code of the date grows, so that comparing  *)
(* codes compares dates, and int_to_date() finds the date again.           *)
(***************************************************************************)
THEOREM CodesFollow == Spec => CodesFollowDays
  <1> DEFINE Follows == Today' > Today /\ int_to_date(Today') = <<year', month', day'>>
  <1>1. TypeOK /\ TypeOK' /\ [Next]_vars => [Follows]_vars
    <2> SUFFICES ASSUME TypeOK, TypeOK', Next  PROVE Follows
      OBVIOUS
    <2>1. /\ year \in Nat /\ month \in 1..12 /\ day \in 1..31
          /\ year' \in Nat /\ month' \in 1..12 /\ day' \in 1..31
      BY DEF TypeOK, DaysIn
    <2>2. /\ Today = date_to_int(year, month, day)
          /\ Today' = date_to_int(year', month', day')
      BY DEF Today
    <2>3. int_to_date(Today') = <<year', month', day'>>
      BY <2>1, <2>2, CodeIsDate
    <2>4. Today' > Today
      <3>1. /\ Today = year * 10000 + month * 100 + day
            /\ Today' = year' * 10000 + month' * 100 + day'
        BY <2>2 DEF date_to_int
      <3>2. CASE NextDay
        BY <2>1, <3>1, <3>2 DEF NextDay
      <3>3. CASE NextMonth
        BY <2>1, <3>1, <3>3 DEF NextMonth
      <3>4. CASE NextYear
        BY <2>1, <3>1, <3>4 DEF NextYear
      <3> QED  BY <3>2, <3>3, <3>4 DEF Next
    <2> QED  BY <2>3, <2>4
  <1> QED  BY <1>1, WalkCounts, PTL DEF Spec, CodesFollowDays
=============================================================================
