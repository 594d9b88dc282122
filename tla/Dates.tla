------------------------------- MODULE Dates -------------------------------
(***************************************************************************)
(* The date arithmetic of utils.cpp and of types::Date.  A date is the     *)
(* number YYYYMMDD that date_to_int() reads, called its code; types::Date  *)
(* splits it into year, month and day.  The code checks the form of the    *)
(* text only, so that a month or a day may be any two digits.              *)
(***************************************************************************)
EXTENDS Integers

(* The parts that the constructor of types::Date takes out of the code.    *)
Year(code) == code \div 10000
Month(code) == (code \div 100) % 100
Day(code) == code % 100

(* A slip in date_to_int(): the month has one digit.                       *)
date_to_intShort(y, m, d) == y * 10000 + m * 10 + d

(* The text "YYYY-MM-DD" that date_to_int() accepts, as its three numbers. *)
date_to_int(y, m, d) == y * 10000 + m * 100 + d

(* int_to_date(): the three numbers that are printed for a code.           *)
int_to_date(code) ==
    LET year == code \div 10000
        month == (code - year * 10000) \div 100
    IN  <<year, month, code - year * 10000 - month * 100>>

(* Division of ints rounds to zero.                                        *)
Quotient(a, b) == IF a >= 0 THEN a \div b ELSE -((-a) \div b)

(* A slip in rdn(): every fourth year is a leap year.                      *)
rdnJulian(y, m, d) ==
    LET yy == IF m < 3 THEN y - 1 ELSE y
        mm == IF m < 3 THEN m + 12 ELSE m
    IN  365 * yy + Quotient(yy, 4) + Quotient(153 * mm - 457, 5) + d - 306

(* The number of a day, counted from 0001-01-01.  Years begin in March, so *)
(* that the leap day is the last one.                                      *)
rdn(y, m, d) ==
    LET yy == IF m < 3 THEN y - 1 ELSE y
        mm == IF m < 3 THEN m + 12 ELSE m
    IN  365 * yy + Quotient(yy, 4) - Quotient(yy, 100) + Quotient(yy, 400)
          + Quotient(153 * mm - 457, 5) + d - 306

(* Date::days_after().  The difference is a uint32_t: a negative one stands *)
(* for a number above 2^31 (see Above).                                    *)
days_after(to, from) ==
    rdn(Year(to), Month(to), Day(to)) - rdn(Year(from), Month(from), Day(from))

(* x > y for two uint32_t, either of which may have wrapped.               *)
Above(x, y) == IF (x < 0) = (y < 0) THEN x > y ELSE x < 0

(* Monday is 0.  Defined for months 1 to 12; for any other month the code  *)
(* reads outside of its table.                                             *)
MonthShift == <<0, 3, 2, 5, 0, 3, 5, 1, 4, 6, 2, 4>>

(* A slip in day_of_week(): January and February count to their own year.  *)
day_of_weekOwnYear(d, m, y) ==
    (y + y \div 4 - y \div 100 + y \div 400 + MonthShift[m] + d + 6) % 7

day_of_week(d, m, y) ==
    LET yy == IF m < 3 THEN y - 1 ELSE y
        res == (yy + yy \div 4 - yy \div 100 + yy \div 400 + MonthShift[m] + d) % 7
    IN  IF res = 0 THEN 6 ELSE res - 1

(* A bitmask of weekdays is the set of the days whose bits are set.  The   *)
(* mask of a date that is not defined is that of an arbitrary day: month 0 *)
(* makes day_of_week() read before the beginning of its table.             *)
WeekdayMasks(dates, stray) ==
    IF dates = {} THEN {{w} : w \in stray}
    ELSE {{day_of_week(Day(c), Month(c), Year(c))} : c \in dates}

(* The calendar itself, for what is said about the code: leap years, the   *)
(* lengths of the months, and the codes that are dates.                    *)
Leap(y) == y % 4 = 0 /\ (y % 100 # 0 \/ y % 400 = 0)

DaysIn(y, m) ==
    CASE m \in {4, 6, 9, 11} -> 30
      [] m = 2 -> IF Leap(y) THEN 29 ELSE 28
      [] OTHER -> 31

CalendarDate(code) ==
    /\ Year(code) >= 1 /\ Month(code) \in 1..12
    /\ Day(code) \in 1..DaysIn(Year(code), Month(code))
=============================================================================
