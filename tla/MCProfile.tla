----------------------------- MODULE MCProfile -----------------------------
(* The days and bodies of the runs of Profile.                             *)
EXTENDS Profile

Day(y, m, d) == [year |-> y, month |-> m - 1, day |-> d]

\* The ends of long and short months, and days around the 18th birthdays.
MCDays == {Day(2024, 1, 31), Day(2024, 2, 28), Day(2024, 2, 29), Day(2024, 8, 20),
           Day(2024, 8, 31), Day(2024, 12, 31)}

MCBirths == {Day(2006, 3, 1), Day(2006, 9, 1)}

Nothing == [phone |-> Absent, firstName |-> Absent, city |-> Absent,
            birthDate |-> Absent, latitude |-> Absent, longitude |-> Absent]

MCRegistrations ==
    {[phone |-> "real", firstName |-> f, city |-> c, birthDate |-> b,
      latitude |-> x, longitude |-> y] :
        f \in Text, c \in Text, b \in MCBirths, x \in Coordinates, y \in Coordinates}

\* Bodies that name one column, or one or both coordinates.
MCUpdates ==
    {[Nothing EXCEPT !.phone = "real"]}
    \cup {[Nothing EXCEPT !.firstName = f] : f \in Text \cup {None}}
    \cup {[Nothing EXCEPT !.city = c] : c \in Text \cup {None}}
    \cup {[Nothing EXCEPT !.birthDate = b] : b \in MCBirths \cup {None}}
    \cup {[Nothing EXCEPT !.latitude = x, !.longitude = y] :
            x \in Coordinates, y \in Coordinates}
=============================================================================
