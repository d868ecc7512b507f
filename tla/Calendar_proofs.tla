-------------------------- MODULE Calendar_proofs --------------------------
(***************************************************************************)
(* What Calendar computes, for every date.                                 *)
(***************************************************************************)
EXTENDS Calendar, TLAPS

Leap(y) == IF IsLeapYear(y) THEN 1 ELSE 0

LEMMA DatesAreTyped ==
    ASSUME NEW d, IsDate(d)
    PROVE  /\ d \in [year : Nat, month : 0..11, day : 1..31]
           /\ d.year \in Nat /\ d.month \in 0..11 /\ d.day \in 1..31
           /\ d.day <= MonthLength(d.year, d.month)
BY DEF IsDate

LEMMA MonthLengths ==
    ASSUME NEW y \in Nat, NEW m \in 0..11
    PROVE  /\ MonthLength(y, m) \in 28..31
           /\ m = 11 => MonthLength(y, m) = 31
BY DEF MonthLength

-----------------------------------------------------------------------------
(* The number of a day.                                                    *)

\* A year has 365 days, and one more if it is a leap year.
LEMMA YearLength ==
    ASSUME NEW y \in Nat
    PROVE  YearStart(y + 1) = YearStart(y) + 365 + Leap(y)
<1>1. (y + 4) \div 4 - (y + 3) \div 4 = IF y % 4 = 0 THEN 1 ELSE 0
  OBVIOUS
<1>2. (y + 100) \div 100 - (y + 99) \div 100 = IF y % 100 = 0 THEN 1 ELSE 0
  OBVIOUS
<1>3. (y + 400) \div 400 - (y + 399) \div 400 = IF y % 400 = 0 THEN 1 ELSE 0
  OBVIOUS
<1>4. (y % 100 = 0 => y % 4 = 0) /\ (y % 400 = 0 => y % 100 = 0)
  OBVIOUS
<1>5. /\ YearStart(y) \in Int
      /\ YearStart(y) = 365 * y + (y + 3) \div 4 - (y + 99) \div 100 + (y + 399) \div 400
      /\ YearStart(y + 1) = 365 * (y + 1) + (y + 4) \div 4 - (y + 100) \div 100
                              + (y + 400) \div 400
  BY DEF YearStart
<1>6. CASE IsLeapYear(y)
  BY <1>1, <1>2, <1>3, <1>4, <1>5, <1>6 DEF Leap, IsLeapYear
<1>7. CASE ~IsLeapYear(y)
  BY <1>1, <1>2, <1>3, <1>4, <1>5, <1>7 DEF Leap, IsLeapYear
<1> QED
  BY <1>6, <1>7

LEMMA MonthStarts ==
    ASSUME NEW y \in Nat
    PROVE  /\ \A m \in 0..11 : DaysBefore(y, m) \in 0..335
           /\ DaysBefore(y, 0) = 0
           /\ \A m \in 0..10 : DaysBefore(y, m + 1) = DaysBefore(y, m) + MonthLength(y, m)
           /\ DaysBefore(y, 11) + 31 = 365 + Leap(y)
BY DEF DaysBefore, MonthLength, Leap

LEMMA NextMonthStarts ==
    ASSUME NEW y \in Nat, NEW m \in 0..10
    PROVE  DaysBefore(y, m + 1) = DaysBefore(y, m) + MonthLength(y, m)
BY MonthStarts

LEMMA NumbersTyped ==
    ASSUME NEW y \in Nat, NEW m \in 0..11
    PROVE  /\ YearStart(y) \in Int
           /\ DaysBefore(y, m) \in Int
           /\ Leap(y) \in 0..1
<1>1. YearStart(y) \in Int
  BY DEF YearStart
<1>2. DaysBefore(y, m) \in 0..335
  BY MonthStarts
<1>3. Leap(y) \in 0..1
  BY DEF Leap
<1> QED
  BY <1>1, <1>2, <1>3

\* Two years in a row are not both leap years.
LEMMA LeapYearsApart ==
    ASSUME NEW y \in Nat
    PROVE  ~(IsLeapYear(y) /\ IsLeapYear(y + 1))
<1>1. y % 4 = 0 => (y + 1) % 4 # 0
  OBVIOUS
<1> QED
  BY <1>1 DEF IsLeapYear

\* From the start of one year to the start of the next.
LEMMA YearTurns ==
    ASSUME NEW y \in Nat
    PROVE  YearStart(y + 1) + DaysBefore(y + 1, 0) = YearStart(y) + DaysBefore(y, 11) + 31
<1>1. YearStart(y + 1) = YearStart(y) + 365 + Leap(y)
  BY YearLength
<1>2. DaysBefore(y, 11) + 31 = 365 + Leap(y)
  BY MonthStarts
<1>3. DaysBefore(y + 1, 0) = 0
  BY DEF DaysBefore
<1>4. YearStart(y) \in Int /\ DaysBefore(y, 11) \in Int /\ Leap(y) \in 0..1
  BY NumbersTyped, 11 \in 0..11
<1> QED
  BY <1>1, <1>2, <1>3, <1>4

\* The number of a day that was normalised is that of the day it was given.
LEMMA NormalizedNumber ==
    ASSUME NEW y \in Nat, NEW m \in 0..11, NEW day \in 1..31
    PROVE  /\ IsDate(Normalized(y, m, day))
           /\ DayNumber(Normalized(y, m, day)) = YearStart(y) + DaysBefore(y, m) + day - 1
<1>1. CASE day <= MonthLength(y, m)
  <2>1. Normalized(y, m, day) = [year |-> y, month |-> m, day |-> day]
    BY <1>1 DEF Normalized
  <2> QED
    BY <1>1, <2>1 DEF IsDate, DayNumber
<1>2. CASE day > MonthLength(y, m)
  <2>1. /\ m + 1 \in 1..11 /\ day - MonthLength(y, m) \in 1..3
        /\ MonthLength(y, m) \in 28..31
    BY <1>2, MonthLengths
  <2>2. Normalized(y, m, day)
          = [year |-> y, month |-> m + 1, day |-> day - MonthLength(y, m)]
    BY <1>2, <2>1, ~(day <= MonthLength(y, m)) DEF Normalized
  <2>3. day - MonthLength(y, m) <= MonthLength(y, m + 1)
    BY <2>1, MonthLengths
  <2>4. DaysBefore(y, m + 1) = DaysBefore(y, m) + MonthLength(y, m)
    <3>1. m \in 0..10
      BY <2>1
    <3> QED
      BY <3>1, NextMonthStarts
  <2>9. DaysBefore(y, m) \in Int /\ YearStart(y) \in Int
    BY NumbersTyped
  <2> DEFINE e == Normalized(y, m, day)
  <2>5. e.year = y /\ e.month = m + 1 /\ e.day = day - MonthLength(y, m)
    BY <2>2
  <2>6. e \in [year : Nat, month : 0..11, day : 1..31]
    BY <2>1, <2>2
  <2>7. DayNumber(e) = YearStart(y) + DaysBefore(y, m + 1) + (day - MonthLength(y, m)) - 1
    BY <2>5 DEF DayNumber
  <2>8. IsDate(e)
    BY <2>3, <2>5, <2>6 DEF IsDate
  <2> QED
    BY <2>1, <2>4, <2>7, <2>8, <2>9
<1> QED
  BY <1>1, <1>2, MonthLengths

\* The day after a date is the next one, and none lies between.
THEOREM TomorrowIsNext ==
    ASSUME NEW d, IsDate(d)
    PROVE  IsDate(Tomorrow(d)) /\ DayNumber(Tomorrow(d)) = DayNumber(d) + 1
<1> DEFINE y == d.year  m == d.month
<1>0. /\ y \in Nat /\ m \in 0..11 /\ d.day \in 1..31 /\ d.day <= MonthLength(y, m)
      /\ MonthLength(y, m) \in 28..31 /\ (m = 11 => MonthLength(y, m) = 31)
      /\ d = [year |-> y, month |-> m, day |-> d.day]
      /\ DaysBefore(y, m) \in Int /\ YearStart(y) \in Int
  BY DatesAreTyped, MonthLengths, NumbersTyped
<1>1. CASE d.day < MonthLength(y, m)
  <2>1. Tomorrow(d) = [year |-> y, month |-> m, day |-> d.day + 1]
    BY <1>0, <1>1 DEF Tomorrow
  <2> QED
    BY <1>0, <1>1, <2>1 DEF IsDate, DayNumber
<1>2. CASE d.day = MonthLength(y, m) /\ m < 11
  <2>1. Tomorrow(d) = [year |-> y, month |-> m + 1, day |-> 1]
    BY <1>0, <1>2 DEF Tomorrow
  <2>2. DaysBefore(y, m + 1) = DaysBefore(y, m) + MonthLength(y, m)
        /\ MonthLength(y, m + 1) \in 28..31
    BY <1>0, <1>2, MonthStarts, MonthLengths
  <2> QED
    BY <1>0, <1>2, <2>1, <2>2 DEF IsDate, DayNumber
<1>3. CASE d.day = MonthLength(y, m) /\ m = 11
  <2>1. Tomorrow(d) = [year |-> y + 1, month |-> 0, day |-> 1]
    BY <1>0, <1>3 DEF Tomorrow
  <2>2. /\ DaysBefore(y, 11) + 31 = 365 + Leap(y) /\ DaysBefore(y + 1, 0) = 0
        /\ YearStart(y + 1) = YearStart(y) + 365 + Leap(y) /\ Leap(y) \in Int
        /\ MonthLength(y + 1, 0) \in 28..31
    BY <1>0, MonthStarts, YearLength, MonthLengths DEF Leap
  <2> QED
    BY <1>0, <1>3, <2>1, <2>2 DEF IsDate, DayNumber
<1> QED
  BY <1>0, <1>1, <1>2, <1>3

-----------------------------------------------------------------------------
(* The billing cycles.                                                     *)

\* Where the end of a membership lies, counted from the start of a year.
LEMMA EndInSameYear ==
    ASSUME NEW d, IsDate(d), NEW n \in {1, 6}, d.month + n <= 11
    PROVE  DayNumber(AddMonths(d, n))
             = YearStart(d.year) + DaysBefore(d.year, d.month + n) + d.day - 1
<1>1. d.year \in Nat /\ d.month \in 0..11 /\ d.day \in 1..31
  BY DatesAreTyped
<1>2. (d.month + n) \div 12 = 0 /\ (d.month + n) % 12 = d.month + n
  BY <1>1
<1>3. d.year + 0 = d.year /\ d.month + n \in 0..11
  BY <1>1
<1>4. AddMonths(d, n) = Normalized(d.year, d.month + n, d.day)
  BY <1>2, <1>3, Zenon DEF AddMonths
<1> QED
  BY <1>1, <1>3, <1>4, NormalizedNumber

LEMMA EndInNextYear ==
    ASSUME NEW d, IsDate(d), NEW n \in {1, 6}, d.month + n > 11
    PROVE  DayNumber(AddMonths(d, n))
             = YearStart(d.year + 1) + DaysBefore(d.year + 1, d.month + n - 12) + d.day - 1
<1>1. d.year \in Nat /\ d.month \in 0..11 /\ d.day \in 1..31
  BY DatesAreTyped
<1>2. (d.month + n) \div 12 = 1 /\ (d.month + n) % 12 = d.month + n - 12
  BY <1>1
<1>3. d.year + 1 \in Nat /\ d.month + n - 12 \in 0..11
  BY <1>1
<1>4. AddMonths(d, n) = Normalized(d.year + 1, d.month + n - 12, d.day)
  BY <1>2, Zenon DEF AddMonths
<1> QED
  BY <1>1, <1>3, <1>4, NormalizedNumber

LEMMA EndOfYear ==
    ASSUME NEW d, IsDate(d)
    PROVE  DayNumber(AddYears(d, 1))
             = YearStart(d.year + 1) + DaysBefore(d.year + 1, d.month) + d.day - 1
<1>1. d.year + 1 \in Nat /\ d.month \in 0..11 /\ d.day \in 1..31
  BY DatesAreTyped
<1>2. AddYears(d, 1) = Normalized(d.year + 1, d.month, d.day)
  BY Zenon DEF AddYears
<1> QED
  BY <1>1, <1>2, NormalizedNumber

\* A month lasts as long as the month in which it begins.
LEMMA MonthlyLasts ==
    ASSUME NEW d, IsDate(d)
    PROVE  DaysFrom(d, AddMonths(d, 1)) = MonthLength(d.year, d.month)
<1> DEFINE y == d.year  m == d.month
<1>1. y \in Nat /\ m \in 0..11 /\ d.day \in 1..31
  BY DatesAreTyped
<1>2. /\ MonthLength(y, m) \in 28..31 /\ (m = 11 => MonthLength(y, m) = 31)
      /\ DaysBefore(y, m) \in Int /\ YearStart(y) \in Int
  BY <1>1, MonthLengths, NumbersTyped
<1>3. CASE m < 11
  <2>1. DaysBefore(y, m + 1) = DaysBefore(y, m) + MonthLength(y, m)
    BY <1>1, <1>3, NextMonthStarts
  <2>2. m + 1 <= 11
    BY <1>1, <1>3
  <2>3. DayNumber(AddMonths(d, 1)) = YearStart(y) + DaysBefore(y, m + 1) + d.day - 1
    BY <2>2, EndInSameYear
  <2> QED
    BY <1>1, <1>2, <2>1, <2>3 DEF DaysFrom, DayNumber
<1>4. CASE m = 11
  <2>1. YearStart(y + 1) + DaysBefore(y + 1, 0) = YearStart(y) + DaysBefore(y, 11) + 31
    BY <1>1, YearTurns
  <2>2. m + 1 > 11 /\ m + 1 - 12 = 0
    BY <1>4
  <2>3. DayNumber(AddMonths(d, 1))
          = YearStart(y + 1) + DaysBefore(y + 1, m + 1 - 12) + d.day - 1
    BY <2>2, EndInNextYear
  <2>4. DayNumber(AddMonths(d, 1)) = YearStart(y + 1) + DaysBefore(y + 1, 0) + d.day - 1
    BY <2>2, <2>3
  <2>5. YearStart(y + 1) \in Int /\ DaysBefore(y + 1, 0) \in Int
    BY <1>1, NumbersTyped, y + 1 \in Nat, 0 \in 0..11
  <2> QED
    BY <1>1, <1>2, <1>4, <2>1, <2>4, <2>5 DEF DaysFrom, DayNumber
<1> QED
  BY <1>1, <1>3, <1>4

\* Half a year lasts 181 to 184 days.
LEMMA SemiannualLasts ==
    ASSUME NEW d, IsDate(d)
    PROVE  DaysFrom(d, AddMonths(d, 6)) \in 181..184
<1> DEFINE y == d.year  m == d.month
<1>1. y \in Nat /\ y + 1 \in Nat /\ m \in 0..11 /\ d.day \in 1..31
  BY DatesAreTyped
<1>2. DaysBefore(y, m) \in Int /\ YearStart(y) \in Int /\ Leap(y) \in 0..1
  BY <1>1, NumbersTyped
<1>3. CASE m <= 5
  <2>1. m + 6 <= 11 /\ m + 6 \in 0..11
    BY <1>1, <1>3
  <2>2. DayNumber(AddMonths(d, 6)) = YearStart(y) + DaysBefore(y, m + 6) + d.day - 1
    BY <2>1, EndInSameYear
  <2>3. DaysBefore(y, m + 6) - DaysBefore(y, m) \in 181..184
    BY <1>1, <1>3 DEF DaysBefore
  <2>4. DaysBefore(y, m + 6) \in Int
    BY <1>1, <2>1, NumbersTyped
  <2> QED
    BY <1>1, <1>2, <2>2, <2>3, <2>4 DEF DaysFrom, DayNumber
<1>4. CASE m > 5
  <2>1. m + 6 > 11 /\ m + 6 - 12 = m - 6 /\ m - 6 \in 0..11
    BY <1>1, <1>4
  <2>2. DayNumber(AddMonths(d, 6)) = YearStart(y + 1) + DaysBefore(y + 1, m + 6 - 12) + d.day - 1
    BY <2>1, EndInNextYear
  <2>3. DayNumber(AddMonths(d, 6)) = YearStart(y + 1) + DaysBefore(y + 1, m - 6) + d.day - 1
    BY <2>1, <2>2
  <2>4. DaysBefore(y + 1, m - 6) + 365 + Leap(y) - DaysBefore(y, m) \in 181..184
    BY <1>1, <1>4 DEF DaysBefore, Leap
  <2>5. YearStart(y + 1) = YearStart(y) + 365 + Leap(y)
    BY <1>1, YearLength
  <2>6. DaysBefore(y + 1, m - 6) \in Int
    BY <1>1, <2>1, NumbersTyped
  <2> QED
    BY <1>1, <1>2, <2>3, <2>4, <2>5, <2>6 DEF DaysFrom, DayNumber
<1> QED
  BY <1>1, <1>3, <1>4

\* A year lasts 365 or 366 days.
LEMMA AnnualLasts ==
    ASSUME NEW d, IsDate(d)
    PROVE  DaysFrom(d, AddYears(d, 1)) \in 365..366
<1> DEFINE y == d.year  m == d.month
<1>1. y \in Nat /\ y + 1 \in Nat /\ m \in 0..11 /\ d.day \in 1..31
  BY DatesAreTyped
<1>2. /\ DaysBefore(y, m) \in Int /\ YearStart(y) \in Int /\ Leap(y) \in 0..1
      /\ DaysBefore(y + 1, m) \in Int
  BY <1>1, NumbersTyped
<1>3. DayNumber(AddYears(d, 1)) = YearStart(y + 1) + DaysBefore(y + 1, m) + d.day - 1
  BY EndOfYear
<1>4. DaysBefore(y + 1, m) + Leap(y) - DaysBefore(y, m) \in 0..1
  BY <1>1, LeapYearsApart DEF DaysBefore, Leap
<1>5. YearStart(y + 1) = YearStart(y) + 365 + Leap(y)
  BY <1>1, YearLength
<1> QED
  BY <1>1, <1>2, <1>3, <1>4, <1>5 DEF DaysFrom, DayNumber
-----------------------------------------------------------------------------
(* Months counted from January of the year 0.                              *)

MonthNumber(d) == 12 * d.year + d.month
FirstOf(k) == YearStart(k \div 12) + DaysBefore(k \div 12, k % 12)
LengthOf(k) == MonthLength(k \div 12, k % 12)

Months(cycle) ==
    CASE cycle = "MONTHLY" -> 1 [] cycle = "SEMIANNUAL" -> 6 [] cycle = "ANNUAL" -> 12

LEMMA MonthNumbers ==
    ASSUME NEW y \in Nat, NEW m \in 0..11
    PROVE  /\ 12 * y + m \in Nat
           /\ (12 * y + m) \div 12 = y
           /\ (12 * y + m) % 12 = m
           /\ FirstOf(12 * y + m) = YearStart(y) + DaysBefore(y, m)
<1>1. 12 * y + m \in Nat
  OBVIOUS
<1>2. (12 * y + m) \div 12 = y
  OBVIOUS
<1>3. (12 * y + m) % 12 = m
  OBVIOUS
<1> QED
  BY <1>1, <1>2, <1>3, Zenon DEF FirstOf

\* A month begins when the one before it has ended.
LEMMA MonthsFollow ==
    ASSUME NEW k \in Nat
    PROVE  /\ FirstOf(k) \in Int /\ LengthOf(k) \in 28..31
           /\ FirstOf(k + 1) = FirstOf(k) + LengthOf(k)
<1> DEFINE y == k \div 12  m == k % 12
<1>1. y \in Nat /\ m \in 0..11 /\ k = 12 * y + m
  OBVIOUS
<1> HIDE DEF y, m
<1>2. FirstOf(k) = YearStart(y) + DaysBefore(y, m) /\ LengthOf(k) = MonthLength(y, m)
  BY Zenon DEF FirstOf, LengthOf, y, m
<1>3. /\ YearStart(y) \in Int /\ DaysBefore(y, m) \in Int
      /\ MonthLength(y, m) \in 28..31 /\ (m = 11 => MonthLength(y, m) = 31)
  BY <1>1, NumbersTyped, MonthLengths
<1>4. CASE m < 11
  <2>1. m + 1 \in 0..11 /\ m \in 0..10 /\ k + 1 = 12 * y + (m + 1)
    BY <1>1, <1>4
  <2>2. FirstOf(k + 1) = YearStart(y) + DaysBefore(y, m + 1)
    BY <1>1, <2>1, MonthNumbers, ZenonT(30)
  <2>3. DaysBefore(y, m + 1) = DaysBefore(y, m) + MonthLength(y, m)
    BY <1>1, <2>1, NextMonthStarts
  <2> QED
    BY <1>2, <1>3, <2>2, <2>3
<1>5. CASE m = 11
  <2>1. y + 1 \in Nat /\ 0 \in 0..11 /\ k + 1 = 12 * (y + 1) + 0
    BY <1>1, <1>5
  <2>2. FirstOf(k + 1) = YearStart(y + 1) + DaysBefore(y + 1, 0)
    BY <2>1, MonthNumbers
  <2>3. YearStart(y + 1) + DaysBefore(y + 1, 0) = YearStart(y) + DaysBefore(y, 11) + 31
    BY <1>1, YearTurns
  <2> QED
    BY <1>2, <1>3, <1>5, <2>2, <2>3
<1> QED
  BY <1>1, <1>2, <1>3, <1>4, <1>5

\* The number of a date, and that of the end of a membership that begins on it.
LEMMA DateNumber ==
    ASSUME NEW d, IsDate(d)
    PROVE  /\ MonthNumber(d) \in Nat
           /\ DayNumber(d) = FirstOf(MonthNumber(d)) + d.day - 1
           /\ LengthOf(MonthNumber(d)) = MonthLength(d.year, d.month)
<1>1. d.year \in Nat /\ d.month \in 0..11 /\ d.day \in 1..31
  BY DatesAreTyped
<1>2. /\ MonthNumber(d) \in Nat /\ MonthNumber(d) \div 12 = d.year
      /\ MonthNumber(d) % 12 = d.month
      /\ FirstOf(MonthNumber(d)) = YearStart(d.year) + DaysBefore(d.year, d.month)
  BY <1>1, MonthNumbers DEF MonthNumber
<1> QED
  BY <1>2, Zenon DEF DayNumber, LengthOf

LEMMA EndNumber ==
    ASSUME NEW d, IsDate(d), NEW cycle \in BillingCycles
    PROVE  DayNumber(CalculateEndsAt(d, cycle))
             = FirstOf(MonthNumber(d) + Months(cycle)) + d.day - 1
<1>1. d.year \in Nat /\ d.year + 1 \in Nat /\ d.month \in 0..11 /\ d.day \in 1..31
  BY DatesAreTyped
<1>2. ASSUME NEW n \in {1, 6}
      PROVE  DayNumber(AddMonths(d, n)) = FirstOf(MonthNumber(d) + n) + d.day - 1
  <2>1. CASE d.month + n <= 11
    <3>1. d.month + n \in 0..11 /\ MonthNumber(d) + n = 12 * d.year + (d.month + n)
      BY <1>1, <2>1 DEF MonthNumber
    <3>2. FirstOf(MonthNumber(d) + n) = YearStart(d.year) + DaysBefore(d.year, d.month + n)
      BY <1>1, <3>1, MonthNumbers
    <3> QED
      BY <2>1, <3>2, EndInSameYear
  <2>2. CASE d.month + n > 11
    <3>1. /\ d.month + n - 12 \in 0..11
          /\ MonthNumber(d) + n = 12 * (d.year + 1) + (d.month + n - 12)
      BY <1>1, <2>2 DEF MonthNumber
    <3>2. FirstOf(MonthNumber(d) + n)
            = YearStart(d.year + 1) + DaysBefore(d.year + 1, d.month + n - 12)
      BY <1>1, <3>1, MonthNumbers
    <3> QED
      BY <2>2, <3>2, EndInNextYear
  <2> QED
    BY <1>1, <2>1, <2>2
<1>3. DayNumber(AddYears(d, 1)) = FirstOf(MonthNumber(d) + 12) + d.day - 1
  <2>1. MonthNumber(d) + 12 = 12 * (d.year + 1) + d.month
    BY <1>1 DEF MonthNumber
  <2>2. FirstOf(MonthNumber(d) + 12) = YearStart(d.year + 1) + DaysBefore(d.year + 1, d.month)
    BY <1>1, <2>1, MonthNumbers
  <2> QED
    BY <2>2, EndOfYear
<1>4. CASE cycle = "MONTHLY"
  <2>1. CalculateEndsAt(d, cycle) = AddMonths(d, 1) /\ Months(cycle) = 1
    BY <1>4 DEF CalculateEndsAt, Months
  <2> QED
    BY <1>2, <2>1
<1>5. CASE cycle = "SEMIANNUAL"
  <2>1. CalculateEndsAt(d, cycle) = AddMonths(d, 6) /\ Months(cycle) = 6
    BY <1>5 DEF CalculateEndsAt, Months
  <2> QED
    BY <1>2, <2>1
<1>6. CASE cycle = "ANNUAL"
  <2>1. CalculateEndsAt(d, cycle) = AddYears(d, 1) /\ Months(cycle) = 12
    BY <1>6 DEF CalculateEndsAt, Months
  <2> QED
    BY <1>3, <2>1
<1> QED
  BY <1>4, <1>5, <1>6 DEF BillingCycles

\* A membership that begins a day later ends at most two days earlier.
LEMMA LaterEndsLater ==
    ASSUME NEW d, IsDate(d), NEW cycle \in BillingCycles
    PROVE  DaysFrom(CalculateEndsAt(d, cycle), CalculateEndsAt(Tomorrow(d), cycle)) >= -2
<1> DEFINE t == Tomorrow(d)  k == MonthNumber(d) + Months(cycle)
<1>1. IsDate(t)
  BY TomorrowIsNext
<1>2. /\ d.year \in Nat /\ d.month \in 0..11 /\ d.day \in 1..31
      /\ d.day <= MonthLength(d.year, d.month) /\ MonthLength(d.year, d.month) \in 28..31
  BY DatesAreTyped, MonthLengths
<1>3. /\ DayNumber(CalculateEndsAt(d, cycle)) = FirstOf(k) + d.day - 1
      /\ DayNumber(CalculateEndsAt(t, cycle)) = FirstOf(MonthNumber(t) + Months(cycle)) + t.day - 1
  BY <1>1, EndNumber
<1>4. MonthNumber(d) \in Nat /\ Months(cycle) \in Nat /\ k \in Nat
  <2>1. MonthNumber(d) \in Nat
    BY DateNumber
  <2>2. Months(cycle) \in Nat
    BY DEF Months, BillingCycles
  <2> QED
    BY <2>1, <2>2
<1> HIDE DEF k
<1>5. /\ FirstOf(k) \in Int /\ LengthOf(k) \in 28..31
      /\ FirstOf(k + 1) = FirstOf(k) + LengthOf(k)
  BY <1>4, MonthsFollow
<1>6. CASE d.day < MonthLength(d.year, d.month)
  <2>1. t.day = d.day + 1 /\ t.month = d.month /\ t.year = d.year
    <3>1. t = [d EXCEPT !.day = d.day + 1]
      BY <1>6 DEF Tomorrow
    <3>2. d = [year |-> d.year, month |-> d.month, day |-> d.day]
      BY DatesAreTyped
    <3> QED
      BY <3>1, <3>2
  <2>2. MonthNumber(t) + Months(cycle) = k
    BY <2>1 DEF MonthNumber, k
  <2> QED
    BY <1>2, <1>3, <1>5, <2>1, <2>2 DEF DaysFrom
<1>7. CASE ~(d.day < MonthLength(d.year, d.month))
  <2>1. t.day = 1 /\ MonthNumber(t) = MonthNumber(d) + 1
    <3>1. CASE d.month < 11
      BY <1>2, <1>7, <3>1 DEF Tomorrow, MonthNumber
    <3>2. CASE ~(d.month < 11)
      BY <1>2, <1>7, <3>2 DEF Tomorrow, MonthNumber
    <3> QED
      BY <3>1, <3>2
  <2>2. MonthNumber(t) + Months(cycle) = k + 1
    BY <1>4, <2>1 DEF k
  <2> QED
    BY <1>2, <1>3, <1>5, <2>1, <2>2 DEF DaysFrom
<1> QED
  BY <1>6, <1>7

\* Whenever it begins, a membership lasts as many days as the month in which it
\* begins has, half a year or a year, and one that begins a day later ends at most
\* two days before it (calculateEndsAt).
THEOREM PeriodsFitEveryDate ==
    ASSUME NEW d, IsDate(d)
    PROVE  PeriodsFit(d)
<1>1. /\ CalculateEndsAt(d, "MONTHLY") = AddMonths(d, 1)
      /\ CalculateEndsAt(d, "SEMIANNUAL") = AddMonths(d, 6)
      /\ CalculateEndsAt(d, "ANNUAL") = AddYears(d, 1)
  BY DEF CalculateEndsAt
<1>2. DaysFrom(d, CalculateEndsAt(d, "MONTHLY")) = MonthLength(d.year, d.month)
  BY <1>1, MonthlyLasts
<1>3. DaysFrom(d, CalculateEndsAt(d, "SEMIANNUAL")) \in 181..184
  BY <1>1, SemiannualLasts
<1>4. DaysFrom(d, CalculateEndsAt(d, "ANNUAL")) \in 365..366
  BY <1>1, AnnualLasts
<1>5. \A cycle \in BillingCycles :
        DaysFrom(CalculateEndsAt(d, cycle), CalculateEndsAt(Tomorrow(d), cycle)) >= -2
  BY LaterEndsLater
<1> QED
  BY <1>2, <1>3, <1>4, <1>5, Zenon DEF PeriodsFit
-----------------------------------------------------------------------------
(* The age.                                                                *)

LEMMA YesterdayTyped ==
    ASSUME NEW b, IsDate(b)
    PROVE  Yesterday(b).year \in Int /\ Yesterday(b).month \in Int /\ Yesterday(b).day \in Int
<1>1. /\ b \in [year : Nat, month : 0..11, day : 1..31]
      /\ b.year \in Nat /\ b.month \in 0..11 /\ b.day \in 1..31
  BY DatesAreTyped
<1>2. CASE b.day > 1
  BY <1>1, <1>2 DEF Yesterday
<1>3. CASE ~(b.day > 1) /\ b.month > 0
  <2>1. b.month - 1 \in 0..11
    BY <1>1, <1>3
  <2> QED
    BY <1>1, <1>3, <2>1, MonthLengths DEF Yesterday
<1>4. CASE ~(b.day > 1) /\ ~(b.month > 0)
  BY <1>1, <1>4 DEF Yesterday
<1> QED
  BY <1>2, <1>3, <1>4

\* Nobody becomes younger.
LEMMA AgeGrows ==
    ASSUME NEW x, x.year \in Int, x.month \in Int, x.day \in Int,
           NEW t, IsDate(t), NEW u, IsDate(u), NotAfter(t, u)
    PROVE  Age(x, t) <= Age(x, u)
<1>1. /\ t.year \in Nat /\ t.month \in 0..11 /\ t.day \in 1..31
      /\ u.year \in Nat /\ u.month \in 0..11 /\ u.day \in 1..31
  BY DatesAreTyped
<1> QED
  BY <1>1 DEF Age, NotAfter

\* In another year a month is at most a day shorter.
LEMMA MonthsOfYears ==
    ASSUME NEW y \in Nat, NEW z \in Nat, NEW m \in 0..11
    PROVE  MonthLength(z, m) - MonthLength(y, m) \in -1..1
BY DEF MonthLength

\* Whoever is 18 has had the 18th birthday.
THEOREM AdultsHadTheirBirthday ==
    ASSUME NEW b, IsDate(b), NEW t, IsDate(t), Age(b, t) >= MinimumAge
    PROVE  NotAfter(AddYears(b, MinimumAge), t)
<1> DEFINE y == b.year + 18  m == b.month
<1>1. /\ b.year \in Nat /\ y \in Nat /\ m \in 0..11 /\ b.day \in 1..31
      /\ t.year \in Nat /\ t.month \in 0..11 /\ t.day \in 1..31
      /\ t.day <= MonthLength(t.year, t.month) /\ MonthLength(t.year, t.month) \in 28..31
      /\ MonthLength(y, m) \in 28..31 /\ b.day <= MonthLength(b.year, m)
  BY DatesAreTyped, MonthLengths
<1>2. \/ t.year > y
      \/ t.year = y /\ t.month > m
      \/ t.year = y /\ t.month = m /\ t.day >= b.day
  BY <1>1 DEF Age, MinimumAge
<1>3. AddYears(b, MinimumAge) = Normalized(y, m, b.day)
  BY Zenon DEF AddYears, MinimumAge
<1>4. CASE b.day <= MonthLength(y, m)
  <2>1. AddYears(b, MinimumAge) = [year |-> y, month |-> m, day |-> b.day]
    BY <1>3, <1>4, Zenon DEF Normalized
  <2> QED
    BY <1>1, <1>2, <2>1 DEF NotAfter
<1>5. CASE ~(b.day <= MonthLength(y, m))
  <2>1. AddYears(b, MinimumAge)
          = [year |-> y, month |-> m + 1, day |-> b.day - MonthLength(y, m)]
    BY <1>3, <1>5, Zenon DEF Normalized
  <2>2. b.day - MonthLength(y, m) = 1
    <3>1. MonthLength(b.year, m) - MonthLength(y, m) \in -1..1
      BY <1>1, MonthsOfYears
    <3>2. MonthLength(b.year, m) \in 28..31
      BY <1>1, MonthLengths
    <3> QED
      BY <1>1, <1>5, <3>1, <3>2
  <2>3. ~(t.year = y /\ t.month = m)
    BY <1>1, <1>2, <1>5
  <2> QED
    BY <1>1, <1>2, <2>1, <2>2, <2>3 DEF NotAfter
<1> QED
  BY <1>4, <1>5

\* Whoever counts as born a day early has the 18th birthday within two days.
THEOREM AdultsWithinTwoDays ==
    ASSUME NEW b, IsDate(b), NEW t, IsDate(t), Age(Yesterday(b), t) >= MinimumAge
    PROVE  NotAfter(AddYears(b, MinimumAge), Tomorrow(Tomorrow(t)))
<1> DEFINE y == b.year + 18  m == b.month  x == Yesterday(b)
           u == Tomorrow(t)  v == Tomorrow(u)  e == AddYears(b, MinimumAge)
<1>1. /\ b.year \in Nat /\ y \in Nat /\ m \in 0..11 /\ b.day \in 1..31
      /\ b.day <= MonthLength(b.year, m)
      /\ MonthLength(b.year, m) \in 28..31 /\ MonthLength(y, m) \in 28..31
      /\ MonthLength(y, m) - MonthLength(b.year, m) \in -1..1
  BY DatesAreTyped, MonthLengths, MonthsOfYears
<1>2. IsDate(u) /\ IsDate(v)
  BY TomorrowIsNext
<1>3. /\ t.year \in Nat /\ t.month \in 0..11 /\ t.day \in 1..31
      /\ t.day <= MonthLength(t.year, t.month)
      /\ u.year \in Nat /\ u.month \in 0..11 /\ u.day \in 1..31
      /\ u.day <= MonthLength(u.year, u.month)
      /\ v.year \in Nat /\ v.month \in 0..11 /\ v.day \in 1..31
  BY <1>2, DatesAreTyped
<1>4. ASSUME NEW a, IsDate(a)
      PROVE  \/ /\ a.day < MonthLength(a.year, a.month)
                /\ Tomorrow(a).year = a.year /\ Tomorrow(a).month = a.month
                /\ Tomorrow(a).day = a.day + 1
             \/ /\ a.day = MonthLength(a.year, a.month) /\ a.month < 11
                /\ Tomorrow(a).year = a.year /\ Tomorrow(a).month = a.month + 1
                /\ Tomorrow(a).day = 1
             \/ /\ a.day = MonthLength(a.year, a.month) /\ a.month = 11
                /\ Tomorrow(a).year = a.year + 1 /\ Tomorrow(a).month = 0
                /\ Tomorrow(a).day = 1
  <2>1. /\ a = [year |-> a.year, month |-> a.month, day |-> a.day] /\ a.month \in 0..11
        /\ a.day \in 1..31 /\ a.day <= MonthLength(a.year, a.month) /\ a.year \in Nat
        /\ MonthLength(a.year, a.month) \in 28..31
    BY <1>4, DatesAreTyped, MonthLengths
  <2>2. CASE a.day < MonthLength(a.year, a.month)
    BY <2>1, <2>2 DEF Tomorrow
  <2>3. CASE ~(a.day < MonthLength(a.year, a.month)) /\ a.month < 11
    BY <2>1, <2>3 DEF Tomorrow
  <2>4. CASE ~(a.day < MonthLength(a.year, a.month)) /\ ~(a.month < 11)
    BY <2>1, <2>4 DEF Tomorrow
  <2> QED
    BY <2>2, <2>3, <2>4
<1>5. \/ t.year > x.year + 18
      \/ t.year = x.year + 18 /\ t.month > x.month
      \/ t.year = x.year + 18 /\ t.month = x.month /\ t.day >= x.day
  <2>1. x.year \in Int /\ x.month \in Int /\ x.day \in Int
    BY YesterdayTyped
  <2> QED
    BY <1>3, <2>1 DEF Age, MinimumAge
<1>6. \/ b.day <= MonthLength(y, m) /\ e.year = y /\ e.month = m /\ e.day = b.day
      \/ b.day > MonthLength(y, m) /\ e.year = y /\ e.month = m + 1 /\ e.day = 1
  <2>1. e = Normalized(y, m, b.day)
    BY Zenon DEF AddYears, MinimumAge
  <2>2. b.day - MonthLength(y, m) \in Int /\ b.day - MonthLength(y, m) <= 1
    BY <1>1
  <2>3. CASE b.day <= MonthLength(y, m)
    BY <2>1, <2>3 DEF Normalized
  <2>4. CASE ~(b.day <= MonthLength(y, m))
    BY <1>1, <2>1, <2>2, <2>4 DEF Normalized
  <2> QED
    BY <2>3, <2>4
<1>7. NotAfter(t, u) /\ NotAfter(u, v)
  BY <1>2, <1>3, <1>4 DEF NotAfter
<1>8. e.year \in Int /\ e.month \in Int /\ e.day \in Int
  BY <1>1, <1>6
<1>9. NotAfter(e, u) => NotAfter(e, v)
  BY <1>3, <1>7, <1>8 DEF NotAfter
<1>10. CASE b.day > 1
  <2>1. x.year = b.year /\ x.month = m /\ x.day = b.day - 1
    BY <1>10, DatesAreTyped DEF Yesterday
  <2> HIDE DEF x, y, m, u, v, e
  <2>2. NotAfter(e, u)
    BY <1>1, <1>3, <1>4, <1>5, <1>6, <1>10, <2>1 DEF NotAfter, u, y
  <2> QED
    BY <1>9, <2>2 DEF e, v, u
<1>11. CASE b.day = 1 /\ m > 0
  <2>1. x.year = b.year /\ x.month = m - 1 /\ x.day = MonthLength(b.year, m - 1)
    BY <1>11 DEF Yesterday
  <2>2. /\ MonthLength(b.year, m - 1) \in 28..31 /\ MonthLength(y, m - 1) \in 28..31
        /\ MonthLength(y, m - 1) - MonthLength(b.year, m - 1) \in -1..1
    BY <1>1, <1>11, MonthLengths, MonthsOfYears, m - 1 \in 0..11
  <2>3. e.year = y /\ e.month = m /\ e.day = 1
    BY <1>1, <1>6, <1>11
  <2>4. y = x.year + 18
    BY <2>1
  <2> HIDE DEF x, y, m, u, v, e
  <2>5. CASE t.year = y /\ t.month = m - 1
    <3>1. t.day >= MonthLength(t.year, t.month) - 1
      BY <1>1, <1>3, <1>5, <1>11, <2>1, <2>2, <2>4, <2>5
    <3>2. u.day = MonthLength(u.year, u.month) \/ NotAfter(e, u)
      <4>1. MonthLength(t.year, t.month) \in 28..31
        BY <1>3, MonthLengths
      <4>2. CASE t.day < MonthLength(t.year, t.month)
        <5>1. u.year = t.year /\ u.month = t.month /\ u.day = t.day + 1
          BY <1>3, <1>4, <4>1, <4>2 DEF u
        <5> QED
          BY <1>3, <3>1, <4>1, <4>2, <5>1
      <4>3. CASE ~(t.day < MonthLength(t.year, t.month))
        <5>1. u.year = t.year /\ u.month = t.month + 1
          BY <1>1, <1>3, <1>4, <1>11, <2>5, <4>3 DEF u
        <5> QED
          BY <1>1, <1>3, <2>3, <2>5, <5>1 DEF NotAfter
      <4> QED
        BY <4>2, <4>3
    <3>3. (u.year = y /\ u.month = m - 1) \/ NotAfter(e, u)
      BY <1>1, <1>3, <1>4, <1>11, <2>3, <2>5 DEF NotAfter, u
    <3>4. NotAfter(e, u) \/ NotAfter(e, v)
      BY <1>1, <1>2, <1>3, <1>4, <1>11, <2>3, <3>2, <3>3 DEF NotAfter, v
    <3> QED
      BY <1>9, <3>4 DEF e, v, u
  <2>6. CASE ~(t.year = y /\ t.month = m - 1)
    <3>1. NotAfter(e, t)
      BY <1>1, <1>3, <1>5, <1>11, <2>1, <2>3, <2>4, <2>6 DEF NotAfter
    <3>2. NotAfter(e, u)
      BY <1>3, <1>7, <1>8, <3>1 DEF NotAfter
    <3> QED
      BY <1>9, <3>2 DEF e, v, u
  <2> QED
    BY <2>5, <2>6
<1>12. CASE b.day = 1 /\ m = 0
  <2>1. x.year = b.year - 1 /\ x.month = 11 /\ x.day = 31
    BY <1>12 DEF Yesterday
  <2>2. e.year = y /\ e.month = 0 /\ e.day = 1
    BY <1>1, <1>6, <1>12
  <2>3. y = x.year + 19 /\ x.year \in Int
    BY <1>1, <2>1
  <2> HIDE DEF x, y, m, u, v, e
  <2>4. CASE t.year = x.year + 18
    <3>1. u.year = t.year + 1
      BY <1>3, <1>4, <1>5, <2>1, <2>4, MonthLengths DEF u
    <3>2. NotAfter(e, u)
      BY <1>1, <1>3, <2>2, <2>3, <2>4, <3>1 DEF NotAfter
    <3> QED
      BY <1>9, <3>2 DEF e, v, u
  <2>5. CASE ~(t.year = x.year + 18)
    <3>1. NotAfter(e, t)
      BY <1>1, <1>3, <1>5, <2>1, <2>2, <2>3, <2>5 DEF NotAfter
    <3>2. NotAfter(e, u)
      BY <1>3, <1>7, <1>8, <3>1 DEF NotAfter
    <3> QED
      BY <1>9, <3>2 DEF e, v, u
  <2> QED
    BY <2>4, <2>5
<1> QED
  BY <1>1, <1>10, <1>11, <1>12
=============================================================================
