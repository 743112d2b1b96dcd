------------------------------ MODULE MCPeriod ------------------------------
(* Alphabets and calendars for TLC.                                        *)
EXTENDS PeriodDocs

(* Pieces of expressions: two scales that share a number, and a name and   *)
(* an hour that only one of them has, so that 3su is written too.          *)
Pieces == {<<Word("wd"), OpenBrace>>, <<Word("hr"), OpenBrace>>,
           <<CloseBrace>>, <<To>>, <<Comma>>, <<Word("su")>>, <<Number(3)>>,
           <<Number(3), CloseBrace>>, <<Hour(12, "am")>>}

(* 2024, a leap year, and 2025.                                            *)
TwoYears == 2024 .. 2025
EveryDay == DaysBefore(2024) .. DaysBefore(2026) - 1

(* The hours and minutes of the recipes, a second before and after.        *)
Around(h, m) == {t \in {h * 3600 + m * 60 + s : s \in {-1, 0, 1, 59, 60}} : t >= 0}
TimesOfDay == Around(0, 0) \cup Around(8, 0) \cup Around(12, 0)
              \cup Around(14, 15) \cup Around(22, 0) \cup {12 * 3600 + 30 * 60 - 1}
              \cup Around(12, 30) \cup {86399}
=============================================================================
