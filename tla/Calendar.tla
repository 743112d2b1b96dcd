------------------------------ MODULE Calendar ------------------------------
(***************************************************************************)
(* The calendar of the chrono crate, as period.rs uses it: the proleptic   *)
(* Gregorian calendar, days counted from 1 January 1970, a Thursday.       *)
(***************************************************************************)
EXTENDS Integers, Sequences

CONSTANT Years  \* an interval of years that contains all days looked at

ASSUME YearsAssumption == Years \subseteq Nat /\ Years # {}

LeapsUpTo(y) == y \div 4 - y \div 100 + y \div 400
DaysBefore(y) == 365 * (y - 1970) + LeapsUpTo(y - 1) - LeapsUpTo(1969)
Leap(y) == LeapsUpTo(y) - LeapsUpTo(y - 1)

Year(d) == CHOOSE y \in Years : DaysBefore(y) <= d /\ d < DaysBefore(y + 1)
Ordinal(d) == d - DaysBefore(Year(d)) + 1

(* Days of a year before each month.                                       *)
Before == <<0, 31, 59, 90, 120, 151, 181, 212, 243, 273, 304, 334>>
BeforeMonth(y, m) == Before[m] + IF m > 2 THEN Leap(y) ELSE 0
Month(d) == CHOOSE m \in 1 .. 12 :
              /\ BeforeMonth(Year(d), m) < Ordinal(d)
              /\ m = 12 \/ BeforeMonth(Year(d), m + 1) >= Ordinal(d)
MonthDay(d) == Ordinal(d) - BeforeMonth(Year(d), Month(d))

DaysFromSunday(d) == (d + 4) % 7
DaysFromMonday(d) == (d + 3) % 7

(* A week of ISO 8601 belongs to the year its Thursday is in.              *)
IsoWeek(d) == (Ordinal(d - DaysFromMonday(d) + 3) - 1) \div 7 + 1
=============================================================================
