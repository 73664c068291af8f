------------------------------ MODULE Calendar ------------------------------
(***************************************************************************)
(* A small calendar for the modules that look dates up, in place of        *)
(* JavaScript's Date: days are numbered from 0, in weeks and in months     *)
(* that begin again after a number of years.                               *)
(***************************************************************************)
EXTENDS Integers, Sequences

CONSTANTS
  WeekDays,   \* days of a week
  YearMonths, \* months of a year
  FirstDays   \* the first day of each month, and the first after the last

\* The months until they begin again, and their days.
Months == 1 .. Len(FirstDays) - 1
CycleDays == FirstDays[Len(FirstDays)]
MonthDays(i) == FirstDays[i + 1] - FirstDays[i]

\* Months follow one another without a gap, and a round of the calendar is
\* whole weeks: 400 years are 146097 days, and those 20871 weeks.
CalendarHolds ==
  /\ WeekDays \in Nat \ {0} /\ YearMonths \in Nat \ {0}
  /\ FirstDays \in Seq(Nat) /\ Len(FirstDays) >= 2 /\ FirstDays[1] = 0
  /\ \A i, j \in 1 .. Len(FirstDays) : i < j => FirstDays[i] < FirstDays[j]
  /\ CycleDays % WeekDays = 0

\* Which of the months a day is in.
MonthOf == [d \in 0 .. CycleDays - 1 |-> CHOOSE i \in Months : FirstDays[i] <= d /\ d < FirstDays[i + 1]]
MonthIndex(d) == MonthOf[d % CycleDays]

Month(d) == ((MonthIndex(d) - 1) % YearMonths) + 1
DayOfMonth(d) == (d % CycleDays) - FirstDays[MonthIndex(d)] + 1
LastOfMonth(d) == MonthDays(MonthIndex(d))
FirstOfNextMonth(d) == d - DayOfMonth(d) + 1 + LastOfMonth(d)
DayOfWeek(d) == d % WeekDays
=============================================================================
