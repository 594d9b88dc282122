---------------------------- MODULE DatesProofs ----------------------------
(***************************************************************************)
(* rdn() and the calendar: the number of a day grows by one from each day  *)
(* to the next, so that later dates have larger numbers.                   *)
(***************************************************************************)
EXTENDS Dates, TLAPS

(* How a quotient by k grows from one number to the next.                  *)
LEMMA QuotientGrows ==
    ASSUME NEW y \in Nat, y >= 1
    PROVE  /\ y \div 4 = (y - 1) \div 4 + (IF y % 4 = 0 THEN 1 ELSE 0)
           /\ y \div 100 = (y - 1) \div 100 + (IF y % 100 = 0 THEN 1 ELSE 0)
           /\ y \div 400 = (y - 1) \div 400 + (IF y % 400 = 0 THEN 1 ELSE 0)
  BY SMTT(30)

(* A year that 400 divides is one that 100 divides, and that is one that 4  *)
(* divides.                                                                 *)
LEMMA Divisors ==
    ASSUME NEW y \in Nat
    PROVE  /\ y % 400 = 0 => y % 100 = 0
           /\ y % 100 = 0 => y % 4 = 0
  BY SMTT(30)

(* A leap year is one day longer, counted from March to March.             *)
LEMMA LeapDay ==
    ASSUME NEW y \in Nat, y >= 1
    PROVE  y \div 4 - y \div 100 + y \div 400
             = (y - 1) \div 4 - (y - 1) \div 100 + (y - 1) \div 400
                 + (IF Leap(y) THEN 1 ELSE 0)
  BY QuotientGrows, Divisors DEF Leap

(* The parts of a code are the numbers it was made of.                     *)
LEMMA PartsOfCode ==
    ASSUME NEW y \in Nat, NEW m \in 1..12, NEW d \in 1..31
    PROVE  LET c == date_to_int(y, m, d)
           IN  Year(c) = y /\ Month(c) = m /\ Day(c) = d
  <1> DEFINE c == y * 10000 + m * 100 + d
  <1>1. c \div 10000 = y
    OBVIOUS
  <1>2. c \div 100 = y * 100 + m /\ (y * 100 + m) % 100 = m
    OBVIOUS
  <1>3. c % 100 = d
    OBVIOUS
  <1> QED  BY <1>1, <1>2, <1>3 DEF date_to_int, Year, Month, Day

(* rdn() without the rounding of negative numbers, which it never meets.   *)
LEMMA RdnPlain ==
    ASSUME NEW y \in Nat, y >= 1, NEW m \in 1..12, NEW d \in 1..31
    PROVE  LET yy == IF m < 3 THEN y - 1 ELSE y
               mm == IF m < 3 THEN m + 12 ELSE m
           IN  rdn(y, m, d) = 365 * yy + yy \div 4 - yy \div 100 + yy \div 400
                                + (153 * mm - 457) \div 5 + d - 306
  BY DEF rdn, Quotient

(* The number of a day is an integer. *)
LEMMA RdnIsInt ==
    ASSUME NEW y \in Nat, y >= 1, NEW m \in 1..12, NEW d \in 1..31
    PROVE  rdn(y, m, d) \in Int
  BY DEF rdn, Quotient

(* The first day of a month follows the last one of the month before.      *)
LEMMA MonthFollows ==
    ASSUME NEW y \in Nat, y >= 1, NEW m \in 1..11
    PROVE  rdn(y, m + 1, 1) = rdn(y, m, DaysIn(y, m)) + 1
  <1>0. DaysIn(y, m) \in 1..31
    BY DEF DaysIn
  <1>1. CASE m = 2
    BY <1>1, RdnPlain, LeapDay, <1>0 DEF DaysIn
  <1>2. CASE m # 2
    BY <1>2, RdnPlain, <1>0 DEF DaysIn
  <1> QED  BY <1>1, <1>2

(* New Year's Day follows the 31st of December.                            *)
LEMMA YearFollows ==
    ASSUME NEW y \in Nat, y >= 1
    PROVE  rdn(y + 1, 1, 1) = rdn(y, 12, 31) + 1
  <1>1. rdn(y + 1, 1, 1) = 365 * y + y \div 4 - y \div 100 + y \div 400
                             + (153 * 13 - 457) \div 5 + 1 - 306
    BY DEF rdn, Quotient
  <1>2. rdn(y, 12, 31) = 365 * y + y \div 4 - y \div 100 + y \div 400
                           + (153 * 12 - 457) \div 5 + 31 - 306
    BY DEF rdn, Quotient
  <1> QED  BY <1>1, <1>2

(* A code is made of its three parts.                                      *)
LEMMA CodeOfParts ==
    ASSUME NEW c \in Nat
    PROVE  /\ Year(c) \in Nat /\ Month(c) \in Nat /\ Day(c) \in Nat
           /\ Month(c) <= 99 /\ Day(c) <= 99
           /\ c = Year(c) * 10000 + Month(c) * 100 + Day(c)
  <1> DEFINE y == c \div 10000
             h == c \div 100
  <1>1. y \in Nat /\ h \in Nat /\ h \div 100 = y
    BY SMTT(30)
  <1> HIDE DEF y
  <1>2. h % 100 \in Nat /\ h % 100 <= 99 /\ h = y * 100 + (h % 100)
    BY <1>1
  <1>3. c % 100 \in Nat /\ c % 100 <= 99 /\ c = h * 100 + (c % 100)
    OBVIOUS
  <1> HIDE DEF h
  <1>4. c = y * 10000 + (h % 100) * 100 + (c % 100)
    BY <1>1, <1>2, <1>3
  <1> QED  BY <1>1, <1>2, <1>3, <1>4 DEF Year, Month, Day, y, h

(* The parts of a date of the calendar.                                    *)
LEMMA CalendarParts ==
    ASSUME NEW c \in Nat, CalendarDate(c)
    PROVE  /\ Year(c) \in Nat /\ Year(c) >= 1
           /\ Month(c) \in Nat /\ 1 <= Month(c) /\ Month(c) <= 12
           /\ Day(c) \in Nat /\ 1 <= Day(c) /\ Day(c) <= 31
           /\ Day(c) <= DaysIn(Year(c), Month(c))
  <1> DEFINE y == Year(c)
             m == Month(c)
             d == Day(c)
             n == DaysIn(y, m)
  <1>1. n \in {28, 29, 30, 31}
    BY DEF DaysIn
  <1>2. y \in Nat /\ m \in Nat /\ d \in Nat
    BY CodeOfParts
  <1>3. y >= 1 /\ m \in 1..12 /\ d \in 1..n
    BY DEF CalendarDate
  <1> HIDE DEF y, m, d, n
  <1>4. 1 <= m /\ m <= 12 /\ n \in Nat /\ n <= 31
    BY <1>1, <1>3
  <1>5. 1 <= d /\ d <= n
    BY <1>3, <1>4
  <1> QED  BY <1>2, <1>3, <1>4, <1>5 DEF y, m, d, n

(* The days before a year that begins in March.                            *)
DaysBefore(y) == 365 * y + y \div 4 - y \div 100 + y \div 400

(* ... grow by a year at least.                                            *)
LEMMA YearsGrow ==
    ASSUME NEW y \in Nat, NEW z \in Nat, y <= z
    PROVE  DaysBefore(y) \in Int /\ DaysBefore(z) \in Int /\ DaysBefore(z) >= DaysBefore(y) + 365 * (z - y)
  <1>1. z \div 4 - y \div 4 >= z \div 100 - y \div 100
    BY SMTT(30)
  <1>2. z \div 400 >= y \div 400
    BY SMTT(30)
  <1>3. /\ z \div 4 \in Int /\ y \div 4 \in Int /\ z \div 100 \in Int /\ y \div 100 \in Int
        /\ z \div 400 \in Int /\ y \div 400 \in Int
    OBVIOUS
  <1> QED  BY <1>1, <1>2, <1>3 DEF DaysBefore

(* The days of a year that begins in March, before a month.                *)
MonthsBefore(m) == (153 * (IF m < 3 THEN m + 12 ELSE m) - 457) \div 5

(* The number of a day by its year, its month and its day.                 *)
LEMMA RdnParts ==
    ASSUME NEW y \in Nat, y >= 1, NEW m \in Nat, 1 <= m, m <= 12,
           NEW d \in Nat, 1 <= d, d <= 31
    PROVE  /\ rdn(y, m, d) = DaysBefore(IF m < 3 THEN y - 1 ELSE y) + MonthsBefore(m) + d - 306
           /\ MonthsBefore(m) \in Int
           /\ m >= 3 => MonthsBefore(m) >= 0 /\ MonthsBefore(m) <= 275
           /\ m < 3 => MonthsBefore(m) >= 306 /\ MonthsBefore(m) <= 337
  <1>1. rdn(y, m, d) = DaysBefore(IF m < 3 THEN y - 1 ELSE y) + MonthsBefore(m) + d - 306
    <2> DEFINE yy == IF m < 3 THEN y - 1 ELSE y
               mm == IF m < 3 THEN m + 12 ELSE m
    <2>1. rdn(y, m, d) = 365 * yy + Quotient(yy, 4) - Quotient(yy, 100) + Quotient(yy, 400)
                           + Quotient(153 * mm - 457, 5) + d - 306
      BY DEF rdn
    <2>2. yy \in Nat /\ yy >= 0 /\ mm \in Nat /\ mm >= 3 /\ 153 * mm - 457 >= 0
      OBVIOUS
    <2>3. DaysBefore(yy) = 365 * yy + yy \div 4 - yy \div 100 + yy \div 400
      BY DEF DaysBefore
    <2>4. MonthsBefore(m) = (153 * mm - 457) \div 5
      BY DEF MonthsBefore
    <2> HIDE DEF yy, mm
    <2>5. /\ Quotient(yy, 4) = yy \div 4 /\ Quotient(yy, 100) = yy \div 100
          /\ Quotient(yy, 400) = yy \div 400
          /\ Quotient(153 * mm - 457, 5) = (153 * mm - 457) \div 5
      BY <2>2 DEF Quotient
    <2>6. rdn(y, m, d) = DaysBefore(yy) + MonthsBefore(m) + d - 306
      <3> DEFINE i == yy \div 4
                 j == yy \div 100
                 k == yy \div 400
                 l == (153 * mm - 457) \div 5
      <3>1. i \in Int /\ j \in Int /\ k \in Int /\ l \in Int
        BY <2>2
      <3>2. rdn(y, m, d) = 365 * yy + i - j + k + l + d - 306
        BY <2>1, <2>5
      <3>3. DaysBefore(yy) = 365 * yy + i - j + k /\ MonthsBefore(m) = l
        BY <2>3, <2>4
      <3> HIDE DEF i, j, k, l
      <3> QED  BY <2>2, <3>1, <3>2, <3>3
    <2> QED  BY <2>6 DEF yy
  <1>2. /\ MonthsBefore(m) \in Int
        /\ m >= 3 => MonthsBefore(m) >= 0 /\ MonthsBefore(m) <= 275
        /\ m < 3 => MonthsBefore(m) >= 306 /\ MonthsBefore(m) <= 337
    BY DEF MonthsBefore
  <1> QED  BY <1>1, <1>2

(* All days of a year lie between the first of March of the year before    *)
(* and the end of February of the year behind it.                          *)
LEMMA WithinYear ==
    ASSUME NEW y \in Nat, y >= 1, NEW m \in Nat, 1 <= m, m <= 12,
           NEW d \in Nat, 1 <= d, d <= 31
    PROVE  /\ rdn(y, m, d) \in Int
           /\ DaysBefore(y - 1) < rdn(y, m, d) /\ rdn(y, m, d) <= DaysBefore(y)
  <1>1. y - 1 \in Nat /\ DaysBefore(y - 1) \in Int /\ DaysBefore(y) \in Int
          /\ DaysBefore(y) >= DaysBefore(y - 1) + 365
    <2>1. y - 1 \in Nat /\ y - 1 <= y /\ y - (y - 1) = 1
      OBVIOUS
    <2>2. /\ DaysBefore(y - 1) \in Int /\ DaysBefore(y) \in Int
          /\ DaysBefore(y) >= DaysBefore(y - 1) + 365 * (y - (y - 1))
      BY <2>1, YearsGrow
    <2> QED  BY <2>1, <2>2
  <1>2. CASE m < 3
    <2>1. rdn(y, m, d) = DaysBefore(y - 1) + MonthsBefore(m) + d - 306
            /\ MonthsBefore(m) \in Int /\ MonthsBefore(m) >= 306 /\ MonthsBefore(m) <= 337
      BY <1>2, RdnParts
    <2> QED  BY <1>1, <2>1
  <1>3. CASE m >= 3
    <2>1. rdn(y, m, d) = DaysBefore(y) + MonthsBefore(m) + d - 306
            /\ MonthsBefore(m) \in Int /\ MonthsBefore(m) >= 0 /\ MonthsBefore(m) <= 275
      BY <1>3, RdnParts
    <2> QED  BY <1>1, <2>1
  <1> QED  BY <1>2, <1>3

(* The months of a year follow each other.                                 *)
LEMMA MonthsGrow ==
    ASSUME NEW y \in Nat, y >= 1, NEW m \in Nat, 1 <= m, NEW n \in Nat, m < n, n <= 12
    PROVE  rdn(y, m, DaysIn(y, m)) < rdn(y, n, 1)
  <1>1. m \in 1..11 /\ m + 1 \in Nat /\ 1 <= m + 1 /\ m + 1 <= 12 /\ 1 <= n /\ m <= 12
    OBVIOUS
  <1>2. rdn(y, m + 1, 1) = rdn(y, m, DaysIn(y, m)) + 1
    BY <1>1, MonthFollows
  <1>3. rdn(y, m + 1, 1) <= rdn(y, n, 1)
    <2>1. /\ rdn(y, m + 1, 1) = DaysBefore(IF m + 1 < 3 THEN y - 1 ELSE y) + MonthsBefore(m + 1) + 1 - 306
          /\ rdn(y, n, 1) = DaysBefore(IF n < 3 THEN y - 1 ELSE y) + MonthsBefore(n) + 1 - 306
      BY <1>1, RdnParts
    <2>2. y - 1 \in Nat /\ DaysBefore(y - 1) \in Int /\ DaysBefore(y) \in Int
            /\ DaysBefore(y) >= DaysBefore(y - 1) + 365
      <3>1. y - 1 \in Nat /\ y - 1 <= y /\ y - (y - 1) = 1
        OBVIOUS
      <3>2. /\ DaysBefore(y - 1) \in Int /\ DaysBefore(y) \in Int
            /\ DaysBefore(y) >= DaysBefore(y - 1) + 365 * (y - (y - 1))
        BY <3>1, YearsGrow
      <3> QED  BY <3>1, <3>2
    <2>3. CASE m + 1 < 3 /\ n >= 3
      <3>1. /\ MonthsBefore(m + 1) \in Int /\ MonthsBefore(m + 1) <= 337
            /\ MonthsBefore(n) \in Int /\ MonthsBefore(n) >= 0
        BY <1>1, <2>3, RdnParts
      <3> QED  BY <2>1, <2>2, <2>3, <3>1
    <2>4. CASE (m + 1 < 3) = (n < 3)
      <3>1. /\ MonthsBefore(m + 1) \in Int /\ MonthsBefore(n) \in Int
            /\ MonthsBefore(m + 1) <= MonthsBefore(n)
        BY <2>4 DEF MonthsBefore
      <3> QED  BY <2>1, <2>2, <2>4, <3>1
    <2> QED  BY <2>3, <2>4
  <1>4. rdn(y, m, DaysIn(y, m)) \in Int /\ rdn(y, n, 1) \in Int /\ rdn(y, m + 1, 1) \in Int
    <2>1. DaysIn(y, m) \in Nat /\ 1 <= DaysIn(y, m) /\ DaysIn(y, m) <= 31
      BY DEF DaysIn
    <2> QED  BY <1>1, <2>1, WithinYear
  <1> QED  BY <1>2, <1>3, <1>4

(* The number of the day of a code.                                        *)
DayNumber(c) == rdn(Year(c), Month(c), Day(c))

(***************************************************************************)
(* Of two dates of the calendar, the one with the larger code comes later: *)
(* the filters may compare codes where days_after() counts days.           *)
(***************************************************************************)
THEOREM LaterIsLater ==
    ASSUME NEW a \in Nat, NEW b \in Nat, CalendarDate(a), CalendarDate(b), a < b
    PROVE  /\ DayNumber(a) \in Int /\ DayNumber(b) \in Int
           /\ DayNumber(a) < DayNumber(b)
  <1> DEFINE y == Year(a)
             m == Month(a)
             d == Day(a)
             z == Year(b)
             n == Month(b)
             e == Day(b)
  <1>0. a = y * 10000 + m * 100 + d /\ b = z * 10000 + n * 100 + e
    BY CodeOfParts
  <1>1. /\ y \in Nat /\ y >= 1 /\ m \in Nat /\ 1 <= m /\ m <= 12
        /\ d \in Nat /\ 1 <= d /\ d <= 31 /\ d <= DaysIn(y, m)
    BY CalendarParts
  <1>2. /\ z \in Nat /\ z >= 1 /\ n \in Nat /\ 1 <= n /\ n <= 12
        /\ e \in Nat /\ 1 <= e /\ e <= 31 /\ e <= DaysIn(z, n)
    BY CalendarParts
  <1>3. DaysIn(y, m) \in Nat /\ 1 <= DaysIn(y, m) /\ DaysIn(y, m) <= 31
    BY DEF DaysIn
  <1> HIDE DEF y, m, d, z, n, e
  <1>4. rdn(y, m, d) \in Int /\ rdn(z, n, e) \in Int
    BY <1>1, <1>2, WithinYear
  <1>5. CASE y < z
    <2>1. rdn(y, m, d) <= DaysBefore(y) /\ DaysBefore(z - 1) < rdn(z, n, e)
      BY <1>1, <1>2, WithinYear
    <2>2. DaysBefore(y) \in Int /\ DaysBefore(z - 1) \in Int /\ DaysBefore(z - 1) >= DaysBefore(y)
      <3>1. z - 1 \in Nat /\ y <= z - 1 /\ 365 * ((z - 1) - y) >= 0
        BY <1>1, <1>2, <1>5
      <3>2. /\ DaysBefore(y) \in Int /\ DaysBefore(z - 1) \in Int
            /\ DaysBefore(z - 1) >= DaysBefore(y) + 365 * ((z - 1) - y)
        BY <1>1, <1>2, <3>1, YearsGrow
      <3> QED  BY <1>1, <1>2, <3>1, <3>2
    <2> QED  BY <1>4, <2>1, <2>2 DEF DayNumber, y, m, d, z, n, e
  <1>6. CASE y = z /\ m < n
    <2>1. rdn(y, m, DaysIn(y, m)) < rdn(y, n, 1)
      BY <1>1, <1>2, <1>6, MonthsGrow
    <2>2. rdn(y, m, d) <= rdn(y, m, DaysIn(y, m)) /\ rdn(y, n, 1) <= rdn(y, n, e)
      <3>1. ASSUME NEW k \in Nat, 1 <= k, k <= 12, NEW i \in Nat, 1 <= i, i <= 31,
                   NEW j \in Nat, j <= 31, i <= j
            PROVE  rdn(y, k, i) <= rdn(y, k, j) /\ rdn(y, k, i) \in Int /\ rdn(y, k, j) \in Int
        <4>1. \E x \in Int : rdn(y, k, i) = x + i - 306 /\ rdn(y, k, j) = x + j - 306
          <5> DEFINE w == DaysBefore(IF k < 3 THEN y - 1 ELSE y)
          <5>1. /\ rdn(y, k, i) = w + MonthsBefore(k) + i - 306
                /\ rdn(y, k, j) = w + MonthsBefore(k) + j - 306
                /\ MonthsBefore(k) \in Int
            <6>1. 1 <= j
              BY <3>1
            <6> QED  BY <1>1, <3>1, <6>1, RdnParts
          <5>2. w \in Int
            <6>1. y - 1 \in Nat
              BY <1>1
            <6>2. DaysBefore(y - 1) \in Int /\ DaysBefore(y) \in Int
              BY <1>1, <6>1, YearsGrow
            <6> QED  BY <6>2
          <5> HIDE DEF w
          <5>3. w + MonthsBefore(k) \in Int
            BY <5>1, <5>2
          <5> QED  BY <5>1, <5>3
        <4> QED  BY <3>1, <4>1
      <3> QED  BY <1>1, <1>2, <1>3, <3>1
    <2>3. rdn(y, m, DaysIn(y, m)) \in Int /\ rdn(y, n, 1) \in Int
      BY <1>1, <1>2, <1>3, WithinYear
    <2> QED  BY <1>4, <1>6, <2>1, <2>2, <2>3 DEF DayNumber, y, m, d, z, n, e
  <1>7. CASE y = z /\ m = n /\ d < e
    <2>1. rdn(y, m, d) < rdn(y, m, e)
      <3> DEFINE w == DaysBefore(IF m < 3 THEN y - 1 ELSE y) + MonthsBefore(m)
      <3>1. rdn(y, m, d) = w + d - 306 /\ rdn(y, m, e) = w + e - 306
        BY <1>1, <1>2, <1>7, RdnParts
      <3>2. w \in Int
        <4>1. y - 1 \in Nat
          BY <1>1
        <4>2. DaysBefore(y) \in Int /\ DaysBefore(y - 1) \in Int /\ MonthsBefore(m) \in Int
          BY <1>1, <4>1, YearsGrow, RdnParts
        <4> QED  BY <4>2
      <3> HIDE DEF w
      <3> QED  BY <1>1, <1>2, <1>7, <3>1, <3>2
    <2> QED  BY <1>4, <1>7, <2>1 DEF DayNumber, y, m, d, z, n, e
  <1>8. y < z \/ (y = z /\ m < n) \/ (y = z /\ m = n /\ d < e)
    BY <1>0, <1>1, <1>2
  <1> QED  BY <1>5, <1>6, <1>7, <1>8

(* Dates that are at most ten days apart have codes that differ by less    *)
(* than 14 bits, over the end of a year too.                               *)
LEMMA NearDates ==
    ASSUME NEW a \in Nat, NEW b \in Nat, CalendarDate(a), CalendarDate(b),
           DayNumber(b) - DayNumber(a) <= 10
    PROVE  b - a < 16384
  <1> DEFINE y == Year(a)
             m == Month(a)
             d == Day(a)
             z == Year(b)
             n == Month(b)
             e == Day(b)
  <1>0. a = y * 10000 + m * 100 + d /\ b = z * 10000 + n * 100 + e
    BY CodeOfParts
  <1>1. /\ y \in Nat /\ y >= 1 /\ m \in Nat /\ 1 <= m /\ m <= 12
        /\ d \in Nat /\ 1 <= d /\ d <= 31 /\ d <= DaysIn(y, m)
    BY CalendarParts
  <1>2. /\ z \in Nat /\ z >= 1 /\ n \in Nat /\ 1 <= n /\ n <= 12
        /\ e \in Nat /\ 1 <= e /\ e <= 31 /\ e <= DaysIn(z, n)
    BY CalendarParts
  <1>3. DaysIn(y, m) \in Nat /\ 1 <= DaysIn(y, m) /\ DaysIn(y, m) <= 31
    BY DEF DaysIn
  <1> HIDE DEF y, m, d, z, n, e
  <1>4. CASE z <= y + 1
    BY <1>0, <1>1, <1>2, <1>4
  <1>5. CASE z >= y + 2
    <2>1. /\ rdn(y, m, d) <= DaysBefore(y) /\ DaysBefore(z - 1) < rdn(z, n, e)
          /\ rdn(y, m, d) \in Int /\ rdn(z, n, e) \in Int
      BY <1>1, <1>2, WithinYear
    <2>2. DaysBefore(y) \in Int /\ DaysBefore(z - 1) \in Int /\ DaysBefore(z - 1) >= DaysBefore(y) + 365
      <3>1. z - 1 \in Nat /\ y <= z - 1 /\ 365 * ((z - 1) - y) >= 365
        BY <1>1, <1>2, <1>5
      <3>2. /\ DaysBefore(y) \in Int /\ DaysBefore(z - 1) \in Int
            /\ DaysBefore(z - 1) >= DaysBefore(y) + 365 * ((z - 1) - y)
        BY <1>1, <1>2, <3>1, YearsGrow
      <3> QED  BY <1>1, <1>2, <3>1, <3>2
    <2>3. rdn(z, n, e) - rdn(y, m, d) > 10
      BY <2>1, <2>2
    <2>4. rdn(z, n, e) - rdn(y, m, d) <= 10
      BY DEF DayNumber, y, m, d, z, n, e
    <2> QED  BY <2>1, <2>3, <2>4
  <1> QED  BY <1>1, <1>2, <1>4, <1>5
=============================================================================
