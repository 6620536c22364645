------------------------------ MODULE Calendar ------------------------------
(***************************************************************************)
(* Calendar dates as lib/analytics.mjs computes with them.  A date is the  *)
(* number of days since 1 January 2024, a month the number of months since *)
(* January 2024; right from then until 2099.                               *)
(***************************************************************************)
EXTENDS Integers, SequencesExt

IsLeap(month) == ((month \div 12) % 4) = 0

DaysIn(month) ==
    IF (month % 12) = 1 /\ IsLeap(month) THEN 29
    ELSE <<31, 28, 31, 30, 31, 30, 31, 31, 30, 31, 30, 31>>[(month % 12) + 1]

FirstOf(month) ==
    LET year == month \div 12
    IN  (365 * year) + ((year + 3) \div 4)
        + <<0, 31, 59, 90, 120, 151, 181, 212, 243, 273, 304, 334>>[(month % 12) + 1]
        + (IF (month % 12) > 1 /\ IsLeap(month) THEN 1 ELSE 0)

MonthOf(date) ==
    CHOOSE m \in (date \div 31)..((date \div 30) + 1) : date \in FirstOf(m)..(FirstOf(m + 1) - 1)

DayOf(date) == date - FirstOf(MonthOf(date)) + 1

\* calendarMonthDate: a day of a month, its last day if it has no such day.
CalendarMonthDate(month, day) == FirstOf(month) + Min({day, DaysIn(month)}) - 1

\* monthEnd: the last day of a month.
MonthEnd(month) == FirstOf(month + 1) - 1
=============================================================================
