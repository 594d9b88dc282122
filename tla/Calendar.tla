----------------------------- MODULE Calendar -----------------------------
(***************************************************************************)
(* The date arithmetic of Dates checked against the calendar itself: a     *)
(* walk from one day to the next, that knows only the lengths of months    *)
(* and the leap years and counts the days and weekdays it passes.          *)
(***************************************************************************)
EXTENDS Dates, Sequences

CONSTANTS FirstYear,      \* the walk starts on 1 January of this year,
          FirstWeekday,   \* which is this day of the week (Monday is 0),
          LastYear        \* and ends with this year

(* The weekday of New Year's Day: 0001-01-01 is a Monday, and every year   *)
(* before has 365 days, a leap year one more.                              *)
NewYearsDay(y) ==
    LET before == y - 1
    IN  (365 * before + before \div 4 - before \div 100 + before \div 400) % 7

ASSUME YearsAssumption ==
    /\ FirstYear \in Nat \ {0}
    /\ LastYear \in Nat
    /\ FirstWeekday = NewYearsDay(FirstYear)

VARIABLES year, month, day,   \* today
          passed,             \* days since the start
          weekday             \* day of the week

vars == <<year, month, day, passed, weekday>>

TypeOK ==
    /\ year \in Nat /\ year >= FirstYear
    /\ month \in 1..12
    /\ day \in 1..DaysIn(year, month)
    /\ passed \in Nat
    /\ weekday \in 0..6

Init ==
    /\ year = FirstYear /\ month = 1 /\ day = 1
    /\ passed = 0
    /\ weekday = FirstWeekday

Counted ==
    /\ passed' = passed + 1
    /\ weekday' = (weekday + 1) % 7

NextDay ==
    /\ day < DaysIn(year, month)
    /\ day' = day + 1
    /\ Counted
    /\ UNCHANGED <<year, month>>

NextMonth ==
    /\ day = DaysIn(year, month)
    /\ month < 12
    /\ month' = month + 1
    /\ day' = 1
    /\ Counted
    /\ UNCHANGED year

NextYear ==
    /\ day = DaysIn(year, month)
    /\ month = 12
    /\ year < LastYear
    /\ year' = year + 1 /\ month' = 1 /\ day' = 1
    /\ Counted

Next == NextDay \/ NextMonth \/ NextYear

Spec == Init /\ [][Next]_vars

Start == date_to_int(FirstYear, 1, 1)
Today == date_to_int(year, month, day)

(***************************************************************************)
(* days_after() is the number of days that passed between two dates, over  *)
(* the ends of months, leap years and centuries.  Stays, and the limits    *)
(* that the searches by day set for their answers, are made of it.         *)
(***************************************************************************)
DaysAfterCountsDays == days_after(Today, Start) = passed

(***************************************************************************)
(* day_of_week() advances by one every day, over the ends of months and    *)
(* years.  Its table and its shift of January and February must fit rdn's. *)
(***************************************************************************)
WeekdayFollows ==
    day_of_week(day, month, year) = weekday

(***************************************************************************)
(* Codes are compared as numbers by the filters and by getTop(), and keyed *)
(* on by the searches by day: from one day to the next the code grows, and *)
(* what int_to_date() prints of it is the date again.                      *)
(***************************************************************************)
CodesFollowDays ==
    [][Today' > Today /\ int_to_date(Today') = <<year', month', day'>>]_vars
=============================================================================
