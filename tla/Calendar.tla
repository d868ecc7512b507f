------------------------------ MODULE Calendar ------------------------------
(***************************************************************************)
(* The days that the program computes with: the end of a membership and    *)
(* the age of a user.  A date is a day of the process's time zone; the     *)
(* time of day, which every computation keeps, is left out.  Months count  *)
(* from 0, as in JavaScript.                                               *)
(***************************************************************************)
EXTENDS Integers

IsLeapYear(y) == y % 4 = 0 /\ (y % 100 # 0 \/ y % 400 = 0)

MonthLength(y, m) ==
    IF m = 1 THEN IF IsLeapYear(y) THEN 29 ELSE 28
    ELSE IF m \in {3, 5, 8, 10} THEN 30 ELSE 31

IsDate(d) ==
    /\ d \in [year : Nat, month : 0..11, day : 1..31]
    /\ d.day <= MonthLength(d.year, d.month)

\* The days of a year before its month m.
DaysBefore(y, m) ==
    (CASE m = 0 -> 0 [] m = 1 -> 31 [] m = 2 -> 59 [] m = 3 -> 90
       [] m = 4 -> 120 [] m = 5 -> 151 [] m = 6 -> 181 [] m = 7 -> 212
       [] m = 8 -> 243 [] m = 9 -> 273 [] m = 10 -> 304 [] m = 11 -> 334)
    + (IF m > 1 /\ IsLeapYear(y) THEN 1 ELSE 0)

\* The days of the years 0 to y - 1.
YearStart(y) ==
    365 * y + (y + 3) \div 4 - (y + 99) \div 100 + (y + 399) \div 400

\* The days from 1 January of the year 0, and those between two dates.
DayNumber(d) == YearStart(d.year) + DaysBefore(d.year, d.month) + d.day - 1
DaysFrom(d, e) == DayNumber(e) - DayNumber(d)

NotAfter(d, e) ==
    \/ d.year < e.year
    \/ d.year = e.year /\ d.month < e.month
    \/ d.year = e.year /\ d.month = e.month /\ d.day <= e.day

Tomorrow(d) ==
    IF d.day < MonthLength(d.year, d.month) THEN [d EXCEPT !.day = d.day + 1]
    ELSE IF d.month < 11 THEN [year |-> d.year, month |-> d.month + 1, day |-> 1]
    ELSE [year |-> d.year + 1, month |-> 0, day |-> 1]

Yesterday(d) ==
    IF d.day > 1 THEN [d EXCEPT !.day = d.day - 1]
    ELSE IF d.month > 0 THEN [year |-> d.year, month |-> d.month - 1,
                              day |-> MonthLength(d.year, d.month - 1)]
    ELSE [year |-> d.year - 1, month |-> 11, day |-> 31]

-----------------------------------------------------------------------------
(* PremiumService.calculateEndsAt.                                         *)

\* A day that the month does not have runs over into the next one, as setMonth
\* and setFullYear do.
Normalized(y, m, day) ==
    IF day <= MonthLength(y, m) THEN [year |-> y, month |-> m, day |-> day]
    ELSE [year |-> y, month |-> m + 1, day |-> day - MonthLength(y, m)]

\* Mutated: the day is cut to the last one of the month.
AddMonths_Clamped(d, n) ==
    LET y == d.year + (d.month + n) \div 12  m == (d.month + n) % 12
        last == MonthLength(y, m)
    IN  [year |-> y, month |-> m, day |-> IF d.day < last THEN d.day ELSE last]

AddMonths(d, n) ==
    Normalized(d.year + (d.month + n) \div 12, (d.month + n) % 12, d.day)

AddYears(d, n) == Normalized(d.year + n, d.month, d.day)

BillingCycles == {"MONTHLY", "SEMIANNUAL", "ANNUAL"}

CalculateEndsAt(startsAt, cycle) ==
    CASE cycle = "MONTHLY"    -> AddMonths(startsAt, 1)
      [] cycle = "SEMIANNUAL" -> AddMonths(startsAt, 6)
      [] cycle = "ANNUAL"     -> AddYears(startsAt, 1)

\* A membership lasts as many days as the month in which it begins has, half a
\* year or a year; one that begins a day later ends at most two days before it.
PeriodsFit(d) ==
    /\ DaysFrom(d, CalculateEndsAt(d, "MONTHLY")) = MonthLength(d.year, d.month)
    /\ DaysFrom(d, CalculateEndsAt(d, "SEMIANNUAL")) \in 181..184
    /\ DaysFrom(d, CalculateEndsAt(d, "ANNUAL")) \in 365..366
    /\ \A cycle \in BillingCycles :
          DaysFrom(CalculateEndsAt(d, cycle), CalculateEndsAt(Tomorrow(d), cycle)) >= -2

-----------------------------------------------------------------------------
(* The age of a user.                                                      *)

MinimumAge == 18

\* Mutated: the day within the month of birth does not count.
Age_ByMonth(birth, today) ==
    today.year - birth.year - (IF today.month < birth.month THEN 1 ELSE 0)

\* calculateAgeFromBirthDate.
Age(birth, today) ==
    LET birthdayToCome == \/ today.month < birth.month
                          \/ today.month = birth.month /\ today.day < birth.day
    IN  today.year - birth.year - (IF birthdayToCome THEN 1 ELSE 0)
=============================================================================
