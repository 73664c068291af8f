---------------------------- MODULE ChoiceProofs ----------------------------
(***************************************************************************)
(* What the server works out from rows and the time is what it should be,  *)
(* for any rows and any calendar.                                          *)
(*                                                                         *)
(* Cron: the answer is the first minute after the moment that matches, of  *)
(* all minutes to come, and the search gives up only on an expression that *)
(* never matches.  It skips no match (NoneSkipped), and after its first    *)
(* hour and its first day it tries minutes and hours from the first one    *)
(* on, so none of them is tried to its end in vain.  Therefore it takes    *)
(* about one step a day (StepsCounted), its patience outlasts a round of   *)
(* the calendar, and after a round everything comes again.                 *)
(*                                                                         *)
(* Maintenance: every occurrence that overlaps a range is found, whenever  *)
(* it began.  The planned start of a day's occurrence is within a day of   *)
(* what its zone's clock says, so one that overlaps the range is of a day  *)
(* that the search looks at (LookedAt).                                    *)
(*                                                                         *)
(* On call: the shifts of a range say of every moment what the pager is    *)
(* told at that moment.  From one point to the next nobody else comes on   *)
(* call (NobodyElse): a roster and the overrides change at their edges     *)
(* only, and a rotation at its handovers, all of which are points as long  *)
(* as the range has no more of them than renderShifts looks at.            *)
(***************************************************************************)
EXTENDS Cron, Occurrences, WellFoundedInduction, NaturalsInduction, TLAPS

CONSTANTS Nobody, MaxHandovers, Schedules
VARIABLES schedule, points, shifts

OnCall == INSTANCE OnCall

-----------------------------------------------------------------------------
(* Numbers, and the least and the greatest of them. *)

\* Multiplication by a number keeps order.
LEMMA TimesInOrder ==
  ASSUME NEW n \in Nat, NEW a \in Int, NEW b \in Int, a <= b
  PROVE  a * n \in Int /\ b * n \in Int /\ a * n <= b * n
OBVIOUS

\* Division leaves less than the divisor.
LEMMA Division ==
  ASSUME NEW n \in Nat \ {0}, NEW a \in Int
  PROVE  /\ a \div n \in Int /\ a % n \in 0 .. n - 1
         /\ a = (a \div n) * n + (a % n)
         /\ (a \div n) * n <= a /\ a < (a \div n) * n + n
OBVIOUS

\* Quotient and remainder are the only ones.
LEMMA DivisionOf ==
  ASSUME NEW n \in Nat \ {0}, NEW q \in Int, NEW r \in 0 .. n - 1, NEW a \in Int, a = q * n + r
  PROVE  (a \div n) = q /\ (a % n) = r
OBVIOUS

\* What comes of a natural number is one.
LEMMA NatDivision ==
  ASSUME NEW n \in Nat \ {0}, NEW a \in Nat
  PROVE  a \div n \in Nat
<1>1. a \div n \in Int /\ a < (a \div n) * n + n
  BY Division
<1>2. ASSUME a \div n <= -1 PROVE FALSE
  <2>1. (a \div n) * n <= (-1) * n
    BY <1>1, <1>2, TimesInOrder
  <2> QED
    BY <1>1, <2>1
<1> QED
  BY <1>1, <1>2

\* What a number is divided into.
LEMMA NatParts ==
  ASSUME NEW n \in Nat \ {0}, NEW a \in Nat
  PROVE  a \div n \in Nat /\ a % n \in 0 .. n - 1 /\ a = (a \div n) * n + (a % n)
<1>1. a \in Int
  OBVIOUS
<1>2. a \div n \in Nat
  BY NatDivision
<1>3. a % n \in 0 .. n - 1 /\ a = (a \div n) * n + (a % n)
  BY <1>1, Division
<1> QED
  BY <1>2, <1>3

\* The least of a set, once it is known.
LEMMA MinIs ==
  ASSUME NEW S, NEW a \in S, a \in Int, \A b \in S : b \in Int /\ a <= b
  PROVE  Min(S) = a
<1>1. \A x \in S : (\A y \in S : x <= y) => x = a
  OBVIOUS
<1>2. a \in S /\ \A y \in S : a <= y
  OBVIOUS
<1> QED
  BY <1>1, <1>2, Zenon DEF Min

\* A set of numbers has a least one.
LEMMA LeastOf ==
  ASSUME NEW S, S \subseteq Nat, S # {}
  PROVE  \E m \in S : \A y \in S : m <= y
<1> DEFINE Less == {ss \in Nat \X Nat : ss[1] < ss[2]}
<1>1. IsWellFoundedOn(Less, Nat)
  BY NatLessThanWellFounded DEF OpToRel
<1>2. PICK m \in S : \A y \in S : <<y, m>> \notin Less
  <2> HIDE DEF Less
  <2> QED
    BY <1>1, WFMin
<1> QED
  <2> SUFFICES ASSUME NEW y \in S, ~(m <= y) PROVE FALSE
    OBVIOUS
  <2>1. y \in Nat /\ m \in Nat /\ y < m
    OBVIOUS
  <2>2. <<y, m>> \in Nat \X Nat /\ <<y, m>>[1] < <<y, m>>[2]
    BY <2>1
  <2>3. <<y, m>> \in Less
    BY <2>2
  <2> QED
    BY <1>2, <2>3

\* And a bounded one a greatest.
LEMMA GreatestOf ==
  ASSUME NEW S, NEW n \in Nat, S \subseteq 1 .. n, S # {}
  PROVE  Max(S) \in S /\ \A y \in S : y <= Max(S)
<1> DEFINE T == {n - i : i \in S}
<1>1. T \subseteq Nat /\ T # {}
  <2>1. \A i \in S : n - i \in Nat
    OBVIOUS
  <2>2. \E i \in S : n - i \in T
    OBVIOUS
  <2> QED
    BY <2>1, <2>2
<1>2. PICK m \in T : \A y \in T : m <= y
  <2> HIDE DEF T
  <2> QED
    BY <1>1, LeastOf
<1>3. PICK i \in S : m = n - i
  BY <1>2
<1>4. \A y \in S : i >= y
  <2> TAKE y \in S
  <2>1. m <= n - y
    BY <1>2
  <2> QED
    BY <1>3, <2>1
<1>5. \E x \in S : \A y \in S : x >= y
  BY <1>4
<1>6. Max(S) \in S /\ \A y \in S : Max(S) >= y
  BY <1>5, Zenon DEF Max
<1> QED
  BY <1>6

-----------------------------------------------------------------------------
(* The clock and the calendar. *)

\* The hours since the first.
HourIndex(m) == m \div HourMinutes

\* A day has a number of minutes.
LEMMA MinutesIs ==
  ASSUME ClockHolds
  PROVE  Minutes \in Nat \ {0} /\ Minutes = DayHours * HourMinutes
BY DEF ClockHolds, Minutes

\* A time is what is read of it.
LEMMA TimeIs ==
  ASSUME ClockHolds, NEW m \in Nat
  PROVE  /\ HourIndex(m) \in Nat /\ Day(m) \in Nat
         /\ HourOfDay(m) \in 0 .. DayHours - 1 /\ MinuteOfHour(m) \in 0 .. HourMinutes - 1
         /\ HourIndex(m) = Day(m) * DayHours + HourOfDay(m)
         /\ m = HourIndex(m) * HourMinutes + MinuteOfHour(m)
         /\ m = Day(m) * Minutes + (m % Minutes) /\ m % Minutes \in 0 .. Minutes - 1
<1> DEFINE q == m \div HourMinutes
           s == m % HourMinutes
           d == q \div DayHours
           h == q % DayHours
<1>1. q \in Nat /\ s \in 0 .. HourMinutes - 1 /\ m = q * HourMinutes + s
  BY Division, NatDivision DEF ClockHolds
<1>2. d \in Nat /\ h \in 0 .. DayHours - 1 /\ q = d * DayHours + h
  <2> HIDE DEF q
  <2>1. q \in Nat /\ q \in Int /\ DayHours \in Nat \ {0}
    BY <1>1 DEF ClockHolds
  <2>2. /\ (q \div DayHours) \in Nat
        /\ (q % DayHours) \in 0 .. DayHours - 1
        /\ q = (q \div DayHours) * DayHours + (q % DayHours)
    BY <2>1, Division, NatDivision
  <2> QED
    BY <2>2
<1> HIDE DEF q, s, d, h
<1>3. h * HourMinutes + s \in 0 .. Minutes - 1
  <2>1. h * HourMinutes <= (DayHours - 1) * HourMinutes /\ h * HourMinutes \in Nat
    BY <1>2, TimesInOrder DEF ClockHolds
  <2>2. (DayHours - 1) * HourMinutes = DayHours * HourMinutes - HourMinutes
    BY DEF ClockHolds
  <2> QED
    BY <1>1, <2>1, <2>2, MinutesIs DEF ClockHolds
<1>4. m = d * Minutes + (h * HourMinutes + s)
  <2>1. q * HourMinutes = d * DayHours * HourMinutes + h * HourMinutes
    BY <1>2 DEF ClockHolds
  <2>2. d * DayHours * HourMinutes = d * Minutes
    BY <1>2 DEF ClockHolds, Minutes
  <2> QED
    BY <1>1, <1>2, <2>1, <2>2, MinutesIs DEF ClockHolds
<1>5. m \div Minutes = d /\ m % Minutes = h * HourMinutes + s
  BY <1>2, <1>3, <1>4, DivisionOf, MinutesIs
<1>6. (h * HourMinutes + s) \div HourMinutes = h
  BY <1>1, <1>2, DivisionOf DEF ClockHolds
<1>7. HourIndex(m) = q /\ Day(m) = d /\ HourOfDay(m) = h /\ MinuteOfHour(m) = s
  BY <1>5, <1>6 DEF HourIndex, Day, HourOfDay, MinuteOfHour, q, s
<1> QED
  BY <1>1, <1>2, <1>3, <1>4, <1>5, <1>7

\* The day and the hour are read of the hour alone.
LEMMA HourIs ==
  ASSUME ClockHolds, NEW m \in Nat
  PROVE  HourIndex(m) \div DayHours = Day(m) /\ HourIndex(m) % DayHours = HourOfDay(m)
<1> DEFINE q == HourIndex(m)
           d == Day(m)
           h == HourOfDay(m)
<1>1. q \in Int /\ d \in Int /\ h \in 0 .. DayHours - 1 /\ q = d * DayHours + h
  BY TimeIs
<1>2. DayHours \in Nat \ {0}
  BY DEF ClockHolds
<1> HIDE DEF q, d, h
<1>3. (q \div DayHours) = d /\ (q % DayHours) = h
  BY <1>1, <1>2, DivisionOf
<1> QED
  BY <1>3 DEF q, d, h

\* What is read of the time that has these parts.
LEMMA PartsAre ==
  ASSUME ClockHolds, NEW d \in Nat, NEW h \in 0 .. DayHours - 1, NEW s \in 0 .. HourMinutes - 1,
         NEW m \in Nat, m = (d * DayHours + h) * HourMinutes + s
  PROVE  Day(m) = d /\ HourOfDay(m) = h /\ MinuteOfHour(m) = s /\ HourIndex(m) = d * DayHours + h
<1>1. d * DayHours + h \in Nat
  BY DEF ClockHolds
<1>2. m \div HourMinutes = d * DayHours + h /\ m % HourMinutes = s
  BY <1>1, DivisionOf DEF ClockHolds
<1>3. HourIndex(m) = d * DayHours + h /\ MinuteOfHour(m) = s
  BY <1>2 DEF HourIndex, MinuteOfHour
<1>4. /\ Day(m) \in Nat /\ HourOfDay(m) \in 0 .. DayHours - 1
      /\ HourIndex(m) = Day(m) * DayHours + HourOfDay(m)
  BY TimeIs
<1>5. (d * DayHours + h) \div DayHours = d /\ (d * DayHours + h) % DayHours = h
  BY DivisionOf DEF ClockHolds
<1>6. HourIndex(m) \div DayHours = Day(m) /\ HourIndex(m) % DayHours = HourOfDay(m)
  BY HourIs
<1> QED
  BY <1>3, <1>5, <1>6

\* The days of times that are in order, and the times of an hour.
LEMMA DaysInOrder ==
  ASSUME ClockHolds, NEW a \in Nat, NEW m \in Nat, a <= m, NEW e \in Nat, m < e * Minutes
  PROVE  Day(m) \in Nat /\ Day(a) <= Day(m) /\ Day(m) < e
<1> DEFINE k == Day(a)
           d == Day(m)
           r == a % Minutes
           s == m % Minutes
<1>1. /\ k \in Nat /\ d \in Nat /\ r \in 0 .. Minutes - 1 /\ s \in 0 .. Minutes - 1
      /\ a = k * Minutes + r /\ m = d * Minutes + s
  BY TimeIs
<1> HIDE DEF k, d, r, s
<1>2. k * Minutes \in Nat /\ d * Minutes \in Nat /\ e * Minutes \in Nat
  BY <1>1, MinutesIs
<1>3. ~(d + 1 <= k)
  <2> SUFFICES ASSUME d + 1 <= k PROVE FALSE
    OBVIOUS
  <2>1. (d + 1) * Minutes <= k * Minutes /\ (d + 1) * Minutes = d * Minutes + Minutes
    BY <1>1, TimesInOrder, MinutesIs
  <2> QED
    BY <1>1, <1>2, <2>1, MinutesIs
<1>4. ~(e <= d)
  <2> SUFFICES ASSUME e <= d PROVE FALSE
    OBVIOUS
  <2>1. e * Minutes <= d * Minutes
    BY <1>1, TimesInOrder, MinutesIs
  <2> QED
    BY <1>1, <1>2, <2>1, MinutesIs
<1> QED
  BY <1>1, <1>3, <1>4 DEF k, d

\* What is before the next hour is in this one.
LEMMA SameHour ==
  ASSUME ClockHolds, NEW a \in Nat, NEW m \in Nat, a <= m, m < NextHour(a)
  PROVE  HourIndex(m) = HourIndex(a) /\ Day(m) = Day(a) /\ HourOfDay(m) = HourOfDay(a)
<1> DEFINE q == HourIndex(a)
<1>1. q \in Nat /\ q * HourMinutes <= a
  <2>1. q \in Nat /\ MinuteOfHour(a) \in 0 .. HourMinutes - 1 /\ a = q * HourMinutes + MinuteOfHour(a)
    BY TimeIs
  <2> HIDE DEF q
  <2>2. q * HourMinutes \in Nat
    BY <2>1 DEF ClockHolds
  <2> QED
    BY <2>1, <2>2 DEF ClockHolds
<1>2. m < q * HourMinutes + HourMinutes
  <2>1. (q + 1) * HourMinutes = q * HourMinutes + HourMinutes
    BY <1>1 DEF ClockHolds
  <2> QED
    BY <2>1 DEF NextHour, HourIndex
<1> HIDE DEF q
<1>3. m \div HourMinutes = q
  <2>1. q * HourMinutes \in Nat
    BY <1>1 DEF ClockHolds
  <2>2. m - q * HourMinutes \in 0 .. HourMinutes - 1
    BY <1>1, <1>2, <2>1 DEF ClockHolds
  <2>3. m = q * HourMinutes + (m - q * HourMinutes)
    BY <2>1
  <2> QED
    BY <1>1, <2>2, <2>3, DivisionOf DEF ClockHolds
<1>4. HourIndex(m) = HourIndex(a)
  BY <1>3 DEF HourIndex, q
<1>5. \A x \in Nat : HourIndex(x) \div DayHours = Day(x) /\ HourIndex(x) % DayHours = HourOfDay(x)
  BY HourIs
<1> QED
  BY <1>4, <1>5

-----------------------------------------------------------------------------
(* Months come after one another, and after a round they come again. *)

\* A round of the calendar has days, and months begin in it.
LEMMA RoundIs ==
  ASSUME CalendarHolds
  PROVE  /\ CycleDays \in Nat \ {0} /\ Len(FirstDays) \in Nat
         /\ \A i \in 1 .. Len(FirstDays) : FirstDays[i] \in Nat /\ FirstDays[i] <= CycleDays
BY DEF CalendarHolds, CycleDays

\* Every day is in one month.
LEMMA MonthIs ==
  ASSUME CalendarHolds, NEW d \in 0 .. CycleDays - 1
  PROVE  MonthOf[d] \in Months /\ FirstDays[MonthOf[d]] <= d /\ d < FirstDays[MonthOf[d] + 1]
<1> DEFINE After == {i \in 1 .. Len(FirstDays) : d < FirstDays[i]}
<1>1. Len(FirstDays) \in After /\ After \subseteq Nat
  BY RoundIs DEF CalendarHolds, CycleDays
<1>2. PICK i \in After : \A y \in After : i <= y
  <2> HIDE DEF After
  <2> QED
    BY <1>1, LeastOf
<1>3. i # 1
  BY RoundIs DEF CalendarHolds
<1>4. i - 1 \in Months /\ i - 1 \notin After
  BY <1>2, <1>3, RoundIs DEF Months
<1>5. FirstDays[i - 1] <= d /\ d < FirstDays[(i - 1) + 1]
  BY <1>4, RoundIs DEF Months
<1> QED
  BY <1>4, <1>5 DEF MonthOf

\* The days of a month are in it.
LEMMA MonthHas ==
  ASSUME CalendarHolds, NEW d \in 0 .. CycleDays - 1, NEW i \in Months,
         FirstDays[i] <= d, d < FirstDays[i + 1]
  PROVE  MonthOf[d] = i
<1> DEFINE j == MonthOf[d]
<1>1. j \in Months /\ FirstDays[j] <= d /\ d < FirstDays[j + 1]
  BY MonthIs
<1>2. \A k \in Months : /\ k \in 1 .. Len(FirstDays) /\ k + 1 \in 1 .. Len(FirstDays)
                        /\ FirstDays[k] \in Nat /\ FirstDays[k + 1] \in Nat
  BY RoundIs DEF Months
<1> HIDE DEF j
<1>3. ASSUME NEW k \in Months, NEW l \in Months, FirstDays[k] <= d, d < FirstDays[l + 1], l < k
      PROVE  FALSE
  <2>1. l + 1 <= k
    BY <1>3 DEF Months
  <2>2. l + 1 < k \/ l + 1 = k
    BY <1>2, <2>1 DEF Months
  <2>3. CASE l + 1 < k
    <3>1. l + 1 \in 1 .. Len(FirstDays) /\ k \in 1 .. Len(FirstDays)
      BY <1>2
    <3>2. FirstDays[l + 1] < FirstDays[k]
      BY <2>3, <3>1 DEF CalendarHolds
    <3> QED
      BY <1>2, <1>3, <3>2
  <2>4. CASE l + 1 = k
    BY <1>2, <1>3, <2>4
  <2> QED
    BY <2>2, <2>3, <2>4
<1>4. ~(i < j) /\ ~(j < i)
  BY <1>1, <1>3
<1> QED
  BY <1>1, <1>4 DEF j, Months

\* The first of the next month comes later, and until then the month is this one.
LEMMA NextMonthIs ==
  ASSUME CalendarHolds, NEW d \in Nat
  PROVE  /\ FirstOfNextMonth(d) \in Nat /\ d < FirstOfNextMonth(d)
         /\ \A e \in Nat : d <= e /\ e < FirstOfNextMonth(d) => Month(e) = Month(d)
<1> DEFINE c == CycleDays
           k == d \div CycleDays
           r == d % CycleDays
           i == MonthIndex(d)
           a == FirstDays[i]
           b == FirstDays[i + 1]
<1>1. c \in Nat \ {0} /\ k \in Nat /\ r \in 0 .. c - 1 /\ d = k * c + r
  <2>1. CycleDays \in Nat \ {0}
    BY RoundIs
  <2> QED
    BY <2>1, NatParts
<1>2. i \in Months /\ a <= r /\ r < b
  BY <1>1, MonthIs DEF MonthIndex
<1>3. a \in Nat /\ b \in Nat /\ b <= c
  BY <1>2, RoundIs DEF Months
<1>4. FirstOfNextMonth(d) = d - (r - a + 1) + 1 + (b - a)
  BY DEF FirstOfNextMonth, DayOfMonth, LastOfMonth, MonthDays
<1> HIDE DEF c, k, r, i, a, b
<1>5. FirstOfNextMonth(d) = k * c + b /\ k * c \in Nat
  BY <1>1, <1>3, <1>4
<1>6. ASSUME NEW e \in Nat, d <= e, e < FirstOfNextMonth(d) PROVE Month(e) = Month(d)
  <2>1. e - k * c \in 0 .. c - 1 /\ e = k * c + (e - k * c) /\ a <= e - k * c /\ e - k * c < b
    BY <1>1, <1>2, <1>3, <1>5, <1>6
  <2>2. e % c = e - k * c
    <3> DEFINE x == e - k * c
    <3>1. x \in 0 .. c - 1 /\ e = k * c + x /\ k \in Int
      BY <1>1, <2>1
    <3> HIDE DEF x
    <3>2. e % c = x
      BY <1>1, <3>1, DivisionOf
    <3> QED
      BY <3>2 DEF x
  <2>3. MonthOf[e - k * c] = i
    BY <1>2, <2>1, MonthHas DEF a, b, c
  <2>4. MonthIndex(e) = i
    BY <2>2, <2>3 DEF MonthIndex, c
  <2> QED
    BY <2>4 DEF Month, i
<1> QED
  BY <1>1, <1>2, <1>3, <1>5, <1>6

\* After any number of rounds the calendar is the same.
LEMMA RoundAgain ==
  ASSUME CalendarHolds, NEW d \in Nat, NEW n \in Nat
  PROVE  /\ d + n * CycleDays \in Nat
         /\ Month(d + n * CycleDays) = Month(d) /\ DayOfMonth(d + n * CycleDays) = DayOfMonth(d)
         /\ DayOfWeek(d + n * CycleDays) = DayOfWeek(d)
<1> DEFINE c == CycleDays
           e == d + n * c
<1>1. c \in Nat \ {0} /\ e \in Nat
  BY RoundIs
<1>2. e % c = d % c
  <2> DEFINE k == d \div c
             r == d % c
  <2>1. k \in Nat /\ r \in 0 .. c - 1 /\ d = k * c + r
    BY <1>1, NatParts
  <2> HIDE DEF c
  <2> HIDE DEF k, r
  <2>2. e = (k + n) * c + r /\ k + n \in Int
    BY <1>1, <2>1
  <2> HIDE DEF e
  <2>3. e % c = r
    BY <1>1, <2>1, <2>2, DivisionOf
  <2> QED
    BY <2>3 DEF r
<1>3. e % WeekDays = d % WeekDays
  <2> DEFINE w == WeekDays
             p == c \div w
             k == d \div w
             r == d % w
  <2>1. w \in Nat \ {0} /\ c % w = 0
    BY DEF CalendarHolds
  <2>2. p \in Nat /\ c = p * w + (c % w) /\ k \in Nat /\ r \in 0 .. w - 1 /\ d = k * w + r
    BY <1>1, <2>1, NatParts
  <2> HIDE DEF p, k, r, c, w
  <2>3. c = p * w
    <3>1. p * w \in Int
      BY <2>1, <2>2
    <3> QED
      BY <2>1, <2>2, <3>1
  <2>4. n * c = (n * p) * w /\ n * p \in Nat
    BY <2>1, <2>2, <2>3
  <2>5. e = (k + n * p) * w + r /\ k + n * p \in Int
    BY <2>1, <2>2, <2>4
  <2> DEFINE x == k + n * p
  <2>6. e \in Int /\ w \in Nat \ {0} /\ x \in Int /\ r \in 0 .. w - 1 /\ e = x * w + r
    BY <1>1, <2>1, <2>2, <2>5
  <2> HIDE DEF e, x
  <2>7. e % w = r
    BY <2>6, DivisionOf
  <2> QED
    BY <2>7 DEF r, w
<1> QED
  BY <1>1, <1>2, <1>3 DEF Month, DayOfMonth, DayOfWeek, MonthIndex

-----------------------------------------------------------------------------
(* The times the search goes to. *)

\* Where a day starts, and where an hour does.
LEMMA DayStarts ==
  ASSUME ClockHolds, NEW d \in Nat
  PROVE  /\ d * Minutes \in Nat /\ Day(d * Minutes) = d
         /\ HourOfDay(d * Minutes) = 0 /\ MinuteOfHour(d * Minutes) = 0
         /\ HourIndex(d * Minutes) = d * DayHours
<1>1. d * Minutes \in Nat /\ d * Minutes = d * DayHours * HourMinutes
  BY MinutesIs DEF ClockHolds
<1>2. 0 \in 0 .. DayHours - 1 /\ 0 \in 0 .. HourMinutes - 1 /\ d * DayHours \in Nat
  BY DEF ClockHolds
<1>3. d * Minutes = (d * DayHours + 0) * HourMinutes + 0
  BY <1>1, <1>2 DEF ClockHolds
<1>4. /\ Day(d * Minutes) = d /\ HourOfDay(d * Minutes) = 0 /\ MinuteOfHour(d * Minutes) = 0
      /\ HourIndex(d * Minutes) = d * DayHours + 0
  BY <1>1, <1>2, <1>3, PartsAre
<1> QED
  BY <1>1, <1>2, <1>4

\* The next minute of an hour, the next hour of a day, and a later day.
WithinHour(m, n) ==
  /\ HourIndex(n) = HourIndex(m) /\ Day(n) = Day(m) /\ HourOfDay(n) = HourOfDay(m)
  /\ MinuteOfHour(n) = MinuteOfHour(m) + 1
ToNextHour(m, n) ==
  /\ HourIndex(n) = HourIndex(m) + 1 /\ Day(n) = Day(m) /\ HourOfDay(n) = HourOfDay(m) + 1
  /\ MinuteOfHour(n) = 0
ToLaterDay(m, n) ==
  HourIndex(n) > HourIndex(m) /\ Day(n) > Day(m) /\ HourOfDay(n) = 0 /\ MinuteOfHour(n) = 0

\* Of a day, and of an hour.
LastHour(m) == HourOfDay(m) = DayHours - 1
LastMinute(m) == MinuteOfHour(m) = HourMinutes - 1

\* The start of a later day is later.
LEMMA LaterDay ==
  ASSUME ClockHolds, NEW m \in Nat, NEW d \in Nat, Day(m) < d
  PROVE  ToLaterDay(m, d * Minutes) /\ m < d * Minutes
<1>1. /\ Day(m) \in Nat /\ HourOfDay(m) \in 0 .. DayHours - 1 /\ HourIndex(m) \in Nat
      /\ HourIndex(m) = Day(m) * DayHours + HourOfDay(m)
      /\ m = Day(m) * Minutes + (m % Minutes) /\ m % Minutes \in 0 .. Minutes - 1
  BY TimeIs
<1> DEFINE k == Day(m)
           r == m % Minutes
           h == HourOfDay(m)
<1>2. (k + 1) * DayHours <= d * DayHours /\ (k + 1) * DayHours = k * DayHours + DayHours
  BY <1>1, TimesInOrder DEF ClockHolds
<1>3. (k + 1) * Minutes <= d * Minutes /\ (k + 1) * Minutes = k * Minutes + Minutes
  BY <1>1, TimesInOrder, MinutesIs
<1>4. k * DayHours \in Nat /\ k * Minutes \in Nat /\ d * DayHours \in Nat /\ d * Minutes \in Nat
  BY <1>1, MinutesIs DEF ClockHolds
<1> HIDE DEF k, r, h
<1>5. k * DayHours + h < d * DayHours
  BY <1>1, <1>2, <1>4 DEF ClockHolds, h
<1>6. k * Minutes + r < d * Minutes
  BY <1>1, <1>3, <1>4, MinutesIs DEF r
<1>7. HourIndex(m) < d * DayHours /\ m < d * Minutes
  BY <1>1, <1>5, <1>6 DEF k, h, r
<1> QED
  BY <1>1, <1>7, DayStarts DEF ToLaterDay

\* The start of the next hour, in the same day or in the next.
LEMMA NextHourIs ==
  ASSUME ClockHolds, NEW m \in Nat
  PROVE  /\ NextHour(m) \in Nat /\ m < NextHour(m)
         /\ ToNextHour(m, NextHour(m)) \/ (LastHour(m) /\ ToLaterDay(m, NextHour(m)))
<1> DEFINE q == HourIndex(m)
           d == Day(m)
           h == HourOfDay(m)
           s == MinuteOfHour(m)
           n == NextHour(m)
<1>1. /\ q \in Nat /\ d \in Nat /\ h \in 0 .. DayHours - 1 /\ s \in 0 .. HourMinutes - 1
      /\ q = d * DayHours + h /\ m = q * HourMinutes + s
  BY TimeIs
<1>2. n = (q + 1) * HourMinutes
  BY DEF NextHour, HourIndex
<1> HIDE DEF q, d, h, s, n
<1>3. n = q * HourMinutes + HourMinutes /\ q * HourMinutes \in Nat
  BY <1>1, <1>2 DEF ClockHolds
<1>4. n \in Nat /\ m < n
  BY <1>1, <1>3 DEF ClockHolds
<1>5. CASE h < DayHours - 1
  <2>1. h + 1 \in 0 .. DayHours - 1 /\ 0 \in 0 .. HourMinutes - 1
    BY <1>1, <1>5 DEF ClockHolds
  <2>2. q + 1 = d * DayHours + (h + 1) /\ n = (q + 1) * HourMinutes + 0
    BY <1>1, <1>2, <1>3, <1>4 DEF ClockHolds
  <2>3. n = (d * DayHours + (h + 1)) * HourMinutes + 0
    BY <2>2
  <2>4. Day(n) = d /\ HourOfDay(n) = h + 1 /\ MinuteOfHour(n) = 0 /\ HourIndex(n) = d * DayHours + (h + 1)
    BY <1>1, <1>4, <2>1, <2>3, PartsAre
  <2>5. ToNextHour(m, n)
    BY <2>2, <2>4 DEF ToNextHour, q, d, h
  <2> QED
    BY <1>4, <2>5 DEF n
<1>6. CASE h = DayHours - 1
  <2>1. q + 1 = (d + 1) * DayHours
    BY <1>1, <1>6 DEF ClockHolds
  <2>2. n = (d + 1) * DayHours * HourMinutes
    BY <1>2, <2>1
  <2>3. n = (d + 1) * Minutes
    BY <1>1, <2>2 DEF ClockHolds, Minutes
  <2>4. ToLaterDay(m, (d + 1) * Minutes)
    BY <1>1, LaterDay DEF d
  <2>5. LastHour(m) /\ ToLaterDay(m, n)
    BY <1>6, <2>3, <2>4 DEF LastHour, h
  <2> QED
    BY <1>4, <2>5 DEF n
<1> QED
  BY <1>1, <1>5, <1>6 DEF ClockHolds

\* The next minute, in the same hour, the next one or the next day.
LEMMA NextMinuteIs ==
  ASSUME ClockHolds, NEW m \in Nat
  PROVE  \/ WithinHour(m, m + 1)
         \/ LastMinute(m) /\ ToNextHour(m, m + 1)
         \/ LastMinute(m) /\ LastHour(m) /\ ToLaterDay(m, m + 1)
<1> DEFINE q == HourIndex(m)
           d == Day(m)
           h == HourOfDay(m)
           s == MinuteOfHour(m)
<1>1. /\ q \in Nat /\ d \in Nat /\ h \in 0 .. DayHours - 1 /\ s \in 0 .. HourMinutes - 1
      /\ q = d * DayHours + h /\ m = q * HourMinutes + s
  BY TimeIs
<1>2. NextHour(m) = (q + 1) * HourMinutes
  BY DEF NextHour, HourIndex
<1> HIDE DEF q, d, h, s
<1>3. CASE s < HourMinutes - 1
  <2>1. s + 1 \in 0 .. HourMinutes - 1
    BY <1>1, <1>3 DEF ClockHolds
  <2>2. m + 1 = q * HourMinutes + (s + 1)
    BY <1>1 DEF ClockHolds
  <2>3. m + 1 = (d * DayHours + h) * HourMinutes + (s + 1)
    BY <1>1, <2>2
  <2>4. Day(m + 1) = d /\ HourOfDay(m + 1) = h /\ MinuteOfHour(m + 1) = s + 1 /\ HourIndex(m + 1) = d * DayHours + h
    BY <1>1, <2>1, <2>3, PartsAre
  <2>5. WithinHour(m, m + 1)
    BY <1>1, <2>4 DEF WithinHour, q, d, h, s
  <2> QED
    BY <2>5
<1>4. CASE s = HourMinutes - 1
  <2>1. (q + 1) * HourMinutes = q * HourMinutes + HourMinutes
    BY <1>1 DEF ClockHolds
  <2>2. m + 1 = NextHour(m)
    BY <1>1, <1>2, <1>4, <2>1 DEF ClockHolds
  <2>3. LastMinute(m)
    BY <1>4 DEF LastMinute, s
  <2> QED
    BY <2>2, <2>3, NextHourIs
<1> QED
  BY <1>1, <1>3, <1>4 DEF ClockHolds

-----------------------------------------------------------------------------
(* Nothing that is skipped matches. *)

\* The search tries what an expression means.
LEMMA MatchesIs ==
  ASSUME NEW m
  PROVE  Matches(m) <=> MonthMatches(m) /\ DayMatches(m) /\ HourMatches(m) /\ MinuteMatches(m)
BY DEF Matches, MonthMatches, DayMatches, HourMatches, MinuteMatches

\* In the rest of a month that does not match nothing matches.
LEMMA MonthSkipped ==
  ASSUME CalendarHolds, ClockHolds, NEW m \in Nat, ~MonthMatches(m)
  PROVE  /\ NextMonth(m) \in Nat /\ ToLaterDay(m, NextMonth(m)) /\ m < NextMonth(m)
         /\ \A x \in Nat : m <= x /\ x < NextMonth(m) => ~Matches(x)
<1> DEFINE d == Day(m)
           e == FirstOfNextMonth(d)
<1>1. d \in Nat
  BY TimeIs
<1>2. e \in Nat /\ d < e /\ \A y \in Nat : d <= y /\ y < e => Month(y) = Month(d)
  BY <1>1, NextMonthIs
<1>3. NextMonth(m) = e * Minutes
  BY DEF NextMonth
<1> HIDE DEF e
<1>4. ToLaterDay(m, e * Minutes) /\ m < e * Minutes /\ e * Minutes \in Nat
  BY <1>1, <1>2, LaterDay, DayStarts
<1>5. ASSUME NEW x \in Nat, m <= x, x < e * Minutes PROVE ~Matches(x)
  <2>1. Day(x) \in Nat /\ d <= Day(x) /\ Day(x) < e
    BY <1>1, <1>2, <1>5, DaysInOrder
  <2>2. Month(Day(x)) = Month(d)
    BY <1>2, <2>1
  <2>3. ~MonthMatches(x)
    BY <2>2 DEF MonthMatches
  <2> QED
    BY <2>3, MatchesIs
<1> QED
  BY <1>3, <1>4, <1>5

\* Nor in the rest of such a day.
LEMMA DaySkipped ==
  ASSUME ClockHolds, NEW m \in Nat, ~DayMatches(m)
  PROVE  /\ NextDay(m) \in Nat /\ ToLaterDay(m, NextDay(m)) /\ m < NextDay(m)
         /\ \A x \in Nat : m <= x /\ x < NextDay(m) => ~Matches(x)
<1> DEFINE d == Day(m)
<1>1. d \in Nat /\ d + 1 \in Nat /\ d < d + 1
  BY TimeIs
<1>2. NextDay(m) = (d + 1) * Minutes
  BY DEF NextDay
<1>3. ToLaterDay(m, (d + 1) * Minutes) /\ m < (d + 1) * Minutes /\ (d + 1) * Minutes \in Nat
  BY <1>1, LaterDay, DayStarts
<1>4. ASSUME NEW x \in Nat, m <= x, x < (d + 1) * Minutes PROVE ~Matches(x)
  <2>1. Day(x) \in Nat /\ d <= Day(x) /\ Day(x) < d + 1
    BY <1>1, <1>4, DaysInOrder
  <2>2. Day(x) = d
    BY <1>1, <2>1
  <2>3. ~DayMatches(x)
    BY <2>2 DEF DayMatches
  <2> QED
    BY <2>3, MatchesIs
<1> QED
  BY <1>2, <1>3, <1>4

\* Nor in the rest of such an hour.
LEMMA HourSkipped ==
  ASSUME ClockHolds, NEW m \in Nat, ~HourMatches(m)
  PROVE  \A x \in Nat : m <= x /\ x < NextHour(m) => ~Matches(x)
<1> TAKE x \in Nat
<1> HAVE m <= x /\ x < NextHour(m)
<1>1. HourOfDay(x) = HourOfDay(m)
  BY SameHour
<1>2. ~HourMatches(x)
  BY <1>1 DEF HourMatches
<1> QED
  BY <1>2, MatchesIs

-----------------------------------------------------------------------------
(* The invariant of the search. *)

\* Where the search starts: the seconds of the moment are dropped.
Start == after \div 2 + 1

SearchTypeOK ==
  /\ spec \in Spec5 /\ after \in Nat /\ t \in Nat
  /\ steps \in 0 .. Patience
  /\ answer \in {"none", "found", "never"}

\* What comes before the place the search is at does not match.
NoneSkipped == Start <= t /\ \A m \in Nat : Start <= m /\ m < t => ~Matches(m)

\* What was found matches, and who gives up has no patience left.
AnswerHolds ==
  /\ answer = "found" => Matches(t)
  /\ answer = "never" => steps = Patience

\* After its first hour the search tries the minutes of an hour from the first
\* on, and only of one that matches; after its first day so it does with hours.
InOrder ==
  /\ HourIndex(Start) <= HourIndex(t) /\ Day(Start) <= Day(t)
  /\ Day(Start) < Day(t) => HourIndex(Start) < HourIndex(t)
MinutesTried ==
  HourIndex(Start) < HourIndex(t) =>
    /\ \A x \in 0 .. MinuteOfHour(t) - 1 : x \notin spec.minute
    /\ MinuteOfHour(t) > 0 => MonthMatches(t) /\ DayMatches(t) /\ HourMatches(t)
HoursTried ==
  Day(Start) < Day(t) =>
    /\ \A x \in 0 .. HourOfDay(t) - 1 : x \notin spec.hour
    /\ HourOfDay(t) > 0 => MonthMatches(t) /\ DayMatches(t)

\* So no hour and no day after the first is tried to its end in vain, and the
\* steps are few: about one a day.
StepsCounted ==
  /\ HourIndex(t) = HourIndex(Start) => steps <= MinuteOfHour(t)
  /\ Day(t) = Day(Start) => steps <= HourMinutes + HourOfDay(t) + MinuteOfHour(t)
  /\ Day(Start) < Day(t) =>
       steps <= (Day(t) - Day(Start)) + (DayHours + HourMinutes) + HourOfDay(t) + MinuteOfHour(t)

SearchInv ==
  SearchTypeOK /\ NoneSkipped /\ AnswerHolds /\ InOrder /\ MinutesTried /\ HoursTried /\ StepsCounted

\* A place is later than the start of the search by a whole number of minutes.
LEMMA StartIs ==
  ASSUME after \in Nat
  PROVE  Start \in Nat /\ 2 * (after \div 2) <= after /\ after < 2 * Start
<1>1. (after \div 2) \in Nat /\ after % 2 \in 0 .. 1 /\ after = (after \div 2) * 2 + (after % 2)
  BY NatParts
<1> QED
  BY <1>1 DEF Start

\* The search has skipped nothing yet.
LEMMA StartsWell ==
  ASSUME CalendarHolds, ClockHolds, PatienceEnough, Init
  PROVE  SearchInv
<1>1. after \in Nat /\ t = Start /\ steps = 0 /\ answer = "none" /\ spec \in Spec5
  BY DEF Init, PatienceEnough, Start
<1>2. t \in Nat
  BY <1>1, StartIs
<1>3. SearchTypeOK /\ NoneSkipped /\ AnswerHolds
  BY <1>1, <1>2 DEF SearchTypeOK, NoneSkipped, AnswerHolds, PatienceEnough
<1>4. /\ HourIndex(t) \in Nat /\ Day(t) \in Nat /\ HourOfDay(t) \in Nat /\ MinuteOfHour(t) \in Nat
      /\ HourIndex(t) = HourIndex(Start) /\ Day(t) = Day(Start)
  BY <1>1, <1>2, TimeIs
<1>5. InOrder /\ MinutesTried /\ HoursTried /\ StepsCounted
  BY <1>1, <1>4 DEF InOrder, MinutesTried, HoursTried, StepsCounted, ClockHolds
<1> QED
  BY <1>3, <1>5 DEF SearchInv

\* A whole hour of minutes is not tried in vain, nor a whole day of hours.
LEMMA HourNotInVain ==
  ASSUME ClockHolds, SearchInv, HourIndex(Start) < HourIndex(t), LastMinute(t)
  PROVE  MinuteMatches(t)
<1>1. spec.minute \subseteq 0 .. HourMinutes - 1 /\ spec.minute # {}
  BY DEF SearchInv, SearchTypeOK, Spec5
<1>2. \A x \in 0 .. HourMinutes - 2 : x \notin spec.minute
  BY DEF SearchInv, MinutesTried, LastMinute, ClockHolds
<1>3. HourMinutes - 1 \in spec.minute
  BY <1>1, <1>2 DEF ClockHolds
<1> QED
  BY <1>3 DEF LastMinute, MinuteMatches

\* A whole day of hours is not tried in vain.
LEMMA DayNotInVain ==
  ASSUME ClockHolds, SearchInv, Day(Start) < Day(t), LastHour(t)
  PROVE  HourMatches(t)
<1>1. spec.hour \subseteq 0 .. DayHours - 1 /\ spec.hour # {}
  BY DEF SearchInv, SearchTypeOK, Spec5
<1>2. \A x \in 0 .. DayHours - 2 : x \notin spec.hour
  BY DEF SearchInv, HoursTried, LastHour, ClockHolds
<1>3. DayHours - 1 \in spec.hour
  BY <1>1, <1>2 DEF ClockHolds
<1> QED
  BY <1>3 DEF LastHour, HourMatches

\* What a skip does whatever it skips.
LEMMA SkipKeeps ==
  ASSUME SearchInv, NEW n \in Nat, Skip(n), t < n, Patience \in Nat,
         \A x \in Nat : t <= x /\ x < n => ~Matches(x)
  PROVE  SearchTypeOK' /\ NoneSkipped' /\ AnswerHolds'
<1>1. /\ t' = n /\ steps' = steps + 1 /\ steps < Patience /\ answer = "none"
      /\ spec' = spec /\ after' = after /\ answer' = answer
  BY DEF Skip
<1>2. SearchTypeOK /\ NoneSkipped
  BY DEF SearchInv
<1>3. SearchTypeOK'
  BY <1>1, <1>2 DEF SearchTypeOK
<1>4. Start' = Start /\ Start \in Nat /\ t \in Nat
  BY <1>1, <1>2, StartIs DEF Start, SearchTypeOK
<1>5. \A x \in Nat : Matches(x)' <=> Matches(x)
  BY <1>1 DEF Matches
<1>6. NoneSkipped'
  <2>1. Start <= t'
    BY <1>1, <1>2, <1>4 DEF NoneSkipped
  <2>2. ASSUME NEW x \in Nat, Start <= x, x < t' PROVE ~Matches(x)
    <3>1. CASE x < t
      BY <1>2, <2>2, <3>1 DEF NoneSkipped
    <3>2. CASE t <= x
      BY <1>1, <2>2, <3>2
    <3> QED
      BY <1>4, <3>1, <3>2
  <2> QED
    BY <1>4, <1>5, <2>1, <2>2 DEF NoneSkipped
<1> QED
  BY <1>1, <1>3, <1>6 DEF AnswerHolds

\* The places of the start and of the search, before a step and after it.
LEMMA PlacesAre ==
  ASSUME ClockHolds, SearchInv, after' = after, t' \in Nat
  PROVE  /\ Start' = Start /\ steps \in Nat
         /\ HourIndex(Start) \in Nat /\ Day(Start) \in Nat
         /\ HourIndex(t) \in Nat /\ Day(t) \in Nat
         /\ HourOfDay(t) \in 0 .. DayHours - 1 /\ MinuteOfHour(t) \in 0 .. HourMinutes - 1
         /\ HourIndex(t') \in Nat /\ Day(t') \in Nat
<1>1. after \in Nat /\ t \in Nat /\ steps \in Nat
  BY DEF SearchInv, SearchTypeOK
<1>2. Start \in Nat /\ Start' = Start
  BY <1>1, StartIs DEF Start
<1> QED
  BY <1>1, <1>2, TimeIs

\* The search goes on in its hour.
LEMMA WithinHourKeeps ==
  ASSUME ClockHolds, SearchInv, after' = after, spec' = spec, t' \in Nat, steps' = steps + 1,
         WithinHour(t, t'), MonthMatches(t), DayMatches(t), HourMatches(t), ~MinuteMatches(t)
  PROVE  InOrder' /\ MinutesTried' /\ HoursTried' /\ StepsCounted'
<1>1. InOrder /\ MinutesTried /\ HoursTried /\ StepsCounted
  BY DEF SearchInv
<1>2. InOrder'
  BY <1>1, PlacesAre DEF InOrder, WithinHour
<1>3. MonthMatches(t)' /\ DayMatches(t)' /\ HourMatches(t)'
  BY DEF MonthMatches, DayMatches, HourMatches, WithinHour
<1>4. MinutesTried'
  BY <1>1, <1>3, PlacesAre DEF MinutesTried, MinuteMatches, WithinHour
<1>5. HoursTried'
  BY <1>1, <1>3, PlacesAre DEF HoursTried, WithinHour
<1>6. StepsCounted'
  BY <1>1, PlacesAre DEF StepsCounted, WithinHour, ClockHolds
<1> QED
  BY <1>2, <1>4, <1>5, <1>6

\* The search goes on to the next hour of its day: the one before it was its
\* first, did not match, or had a minute that does not.
LEMMA NextHourKeeps ==
  ASSUME ClockHolds, SearchInv, after' = after, spec' = spec, t' \in Nat, steps' = steps + 1,
         ToNextHour(t, t'), MonthMatches(t), DayMatches(t),
         ~HourMatches(t) \/ (~MinuteMatches(t) /\ LastMinute(t))
  PROVE  InOrder' /\ MinutesTried' /\ HoursTried' /\ StepsCounted'
<1>1. InOrder /\ MinutesTried /\ HoursTried /\ StepsCounted
  BY DEF SearchInv
<1>2. InOrder'
  BY <1>1, PlacesAre DEF InOrder, ToNextHour
<1>3. MinutesTried'
  BY <1>1, PlacesAre DEF MinutesTried, ToNextHour
<1>4. MonthMatches(t)' /\ DayMatches(t)'
  BY DEF MonthMatches, DayMatches, ToNextHour
<1>5. HourIndex(Start) < HourIndex(t) => ~HourMatches(t) /\ MinuteOfHour(t) = 0
  BY <1>1, HourNotInVain, PlacesAre DEF MinutesTried
<1>6. HoursTried'
  BY <1>1, <1>4, <1>5, PlacesAre DEF HoursTried, InOrder, ToNextHour, HourMatches
<1>7. StepsCounted'
  BY <1>1, <1>5, PlacesAre DEF StepsCounted, InOrder, ToNextHour, ClockHolds
<1> QED
  BY <1>2, <1>3, <1>6, <1>7

\* The search goes on to the start of a later day.
LEMMA LaterDayKeeps ==
  ASSUME ClockHolds, SearchInv, after' = after, spec' = spec, t' \in Nat, steps' = steps + 1,
         ToLaterDay(t, t'),
         \/ ~(MonthMatches(t) /\ DayMatches(t))
         \/ ~HourMatches(t) /\ LastHour(t)
         \/ ~MinuteMatches(t) /\ LastMinute(t)
  PROVE  InOrder' /\ MinutesTried' /\ HoursTried' /\ StepsCounted'
<1>1. InOrder /\ MinutesTried /\ HoursTried /\ StepsCounted
  BY DEF SearchInv
<1>2. InOrder'
  BY <1>1, PlacesAre DEF InOrder, ToLaterDay
<1>3. MinutesTried' /\ HoursTried'
  BY PlacesAre DEF MinutesTried, HoursTried, ToLaterDay
<1>4. HourIndex(Start) < HourIndex(t) => MinuteOfHour(t) = 0
  BY <1>1, HourNotInVain, PlacesAre DEF MinutesTried
<1>5. Day(Start) < Day(t) => HourOfDay(t) = 0
  <2>1. Day(Start) < Day(t) => HourIndex(Start) < HourIndex(t)
    BY <1>1 DEF InOrder
  <2> QED
    BY <1>1, <2>1, HourNotInVain, DayNotInVain, PlacesAre DEF HoursTried
<1>6. Day(Start) < Day(t') /\ HourOfDay(t') = 0 /\ MinuteOfHour(t') = 0
  BY <1>1, PlacesAre DEF InOrder, ToLaterDay
<1>7. steps + 1 <= (Day(t') - Day(Start)) + (DayHours + HourMinutes)
  BY <1>1, <1>4, <1>5, <1>6, PlacesAre DEF StepsCounted, InOrder, ToLaterDay, ClockHolds
<1>8. StepsCounted'
  BY <1>2, <1>6, <1>7, PlacesAre DEF StepsCounted, InOrder, ClockHolds
<1> QED
  BY <1>2, <1>3, <1>8

\* Whatever the search does next, it keeps the invariant.
LEMMA StepKeeps ==
  ASSUME CalendarHolds, ClockHolds, PatienceEnough, SearchInv, [Next]_vars
  PROVE  SearchInv'
<1> USE CalendarHolds, ClockHolds
<1>0. t \in Nat /\ Patience \in Nat
  BY DEF SearchInv, SearchTypeOK, PatienceEnough
<1>1. ASSUME NEW n \in Nat, Skip(n)
      PROVE  after' = after /\ spec' = spec /\ t' = n /\ t' \in Nat /\ steps' = steps + 1
  BY <1>1 DEF Skip
<1>2. CASE SkipMonth
  <2>1. ~MonthMatches(t) /\ Skip(NextMonth(t))
    BY <1>2 DEF SkipMonth
  <2>2. /\ NextMonth(t) \in Nat /\ ToLaterDay(t, NextMonth(t)) /\ t < NextMonth(t)
        /\ \A x \in Nat : t <= x /\ x < NextMonth(t) => ~Matches(x)
    BY <1>0, <2>1, MonthSkipped
  <2>3. SearchTypeOK' /\ NoneSkipped' /\ AnswerHolds'
    BY <1>0, <2>1, <2>2, SkipKeeps
  <2>4. InOrder' /\ MinutesTried' /\ HoursTried' /\ StepsCounted'
    BY <1>1, <2>1, <2>2, LaterDayKeeps
  <2> QED
    BY <2>3, <2>4 DEF SearchInv
<1>3. CASE SkipDay
  <2>1. ~DayMatches(t) /\ Skip(NextDay(t))
    BY <1>3 DEF SkipDay
  <2>2. /\ NextDay(t) \in Nat /\ ToLaterDay(t, NextDay(t)) /\ t < NextDay(t)
        /\ \A x \in Nat : t <= x /\ x < NextDay(t) => ~Matches(x)
    BY <1>0, <2>1, DaySkipped
  <2>3. SearchTypeOK' /\ NoneSkipped' /\ AnswerHolds'
    BY <1>0, <2>1, <2>2, SkipKeeps
  <2>4. InOrder' /\ MinutesTried' /\ HoursTried' /\ StepsCounted'
    BY <1>1, <2>1, <2>2, LaterDayKeeps
  <2> QED
    BY <2>3, <2>4 DEF SearchInv
<1>4. CASE SkipHour
  <2>1. MonthMatches(t) /\ DayMatches(t) /\ ~HourMatches(t) /\ Skip(NextHour(t))
    BY <1>4 DEF SkipHour
  <2>2. /\ NextHour(t) \in Nat /\ t < NextHour(t)
        /\ ToNextHour(t, NextHour(t)) \/ (LastHour(t) /\ ToLaterDay(t, NextHour(t)))
    BY <1>0, NextHourIs
  <2>3. SearchTypeOK' /\ NoneSkipped' /\ AnswerHolds'
    BY <1>0, <2>1, <2>2, HourSkipped, SkipKeeps
  <2>4. CASE ToNextHour(t, NextHour(t))
    BY <1>1, <2>1, <2>2, <2>3, <2>4, NextHourKeeps DEF SearchInv
  <2>5. CASE LastHour(t) /\ ToLaterDay(t, NextHour(t))
    BY <1>1, <2>1, <2>2, <2>3, <2>5, LaterDayKeeps DEF SearchInv
  <2> QED
    BY <2>2, <2>3, <2>4, <2>5 DEF SearchInv
<1>5. CASE SkipMinute
  <2>1. MonthMatches(t) /\ DayMatches(t) /\ HourMatches(t) /\ ~MinuteMatches(t) /\ Skip(t + 1)
    BY <1>5 DEF SkipMinute
  <2>2. t + 1 \in Nat /\ t < t + 1 /\ \A x \in Nat : t <= x /\ x < t + 1 => ~Matches(x)
    <3>1. \A x \in Nat : t <= x /\ x < t + 1 => x = t
      BY <1>0
    <3> QED
      BY <1>0, <2>1, <3>1, MatchesIs
  <2>3. SearchTypeOK' /\ NoneSkipped' /\ AnswerHolds'
    BY <1>0, <2>1, <2>2, SkipKeeps
  <2>4. CASE WithinHour(t, t + 1)
    BY <1>1, <2>1, <2>2, <2>3, <2>4, WithinHourKeeps DEF SearchInv
  <2>5. CASE LastMinute(t) /\ ToNextHour(t, t + 1)
    BY <1>1, <2>1, <2>2, <2>3, <2>5, NextHourKeeps DEF SearchInv
  <2>6. CASE LastMinute(t) /\ ToLaterDay(t, t + 1)
    BY <1>1, <2>1, <2>2, <2>3, <2>6, LaterDayKeeps DEF SearchInv
  <2> QED
    BY <1>0, <2>3, <2>4, <2>5, <2>6, NextMinuteIs DEF SearchInv
<1>6. ASSUME UNCHANGED <<spec, after, t, steps>>, NEW a \in {"found", "never"} \cup {answer}, answer' = a,
             a = "found" => Matches(t), a = "never" => steps = Patience
      PROVE  SearchInv'
  BY <1>6 DEF SearchInv, SearchTypeOK, NoneSkipped, AnswerHolds, InOrder, MinutesTried, HoursTried, StepsCounted,
     Start, Matches, MonthMatches, DayMatches, HourMatches
<1>7. CASE Found
  BY <1>6, <1>7, MatchesIs DEF Found, Answer
<1>8. CASE GiveUp
  BY <1>6, <1>8 DEF GiveUp, Answer
<1>9. CASE UNCHANGED vars
  BY <1>6, <1>9 DEF vars, SearchInv, AnswerHolds
<1> QED
  BY <1>2, <1>3, <1>4, <1>5, <1>7, <1>8, <1>9 DEF Next

-----------------------------------------------------------------------------
(* The answer. *)

\* What matches once matches again after every round of the calendar.
LEMMA MatchesAgain ==
  ASSUME CalendarHolds, ClockHolds, NEW m \in Nat, NEW n \in Nat
  PROVE  /\ m + n * (CycleDays * Minutes) \in Nat
         /\ Matches(m + n * (CycleDays * Minutes)) <=> Matches(m)
<1> DEFINE d == Day(m)
           h == HourOfDay(m)
           s == MinuteOfHour(m)
           c == CycleDays
           l == m + n * (c * Minutes)
<1>1. /\ d \in Nat /\ h \in 0 .. DayHours - 1 /\ s \in 0 .. HourMinutes - 1
      /\ m = (d * DayHours + h) * HourMinutes + s
  BY TimeIs
<1>2. c \in Nat
  BY RoundIs
<1>3. /\ d + n * c \in Nat /\ Month(d + n * c) = Month(d) /\ DayOfMonth(d + n * c) = DayOfMonth(d)
      /\ DayOfWeek(d + n * c) = DayOfWeek(d)
  BY <1>1, RoundAgain
<1> HIDE DEF d, h, s, c
<1>4. l \in Nat
  BY <1>2, MinutesIs
<1>5. l = ((d + n * c) * DayHours + h) * HourMinutes + s
  <2>1. n * (c * Minutes) = (n * c) * DayHours * HourMinutes
    <3>1. n * c \in Nat /\ n * (c * Minutes) = (n * c) * Minutes
      BY <1>2, MinutesIs
    <3> QED
      BY <3>1, MinutesIs DEF ClockHolds
  <2>2. (d + n * c) * DayHours + h = (d * DayHours + h) + (n * c) * DayHours
    BY <1>1, <1>2 DEF ClockHolds
  <2>3. d * DayHours + h \in Nat /\ (n * c) * DayHours \in Nat
    BY <1>1, <1>2 DEF ClockHolds
  <2>4. ((d * DayHours + h) + (n * c) * DayHours) * HourMinutes
          = (d * DayHours + h) * HourMinutes + (n * c) * DayHours * HourMinutes
    BY <2>3 DEF ClockHolds
  <2>5. (d * DayHours + h) * HourMinutes \in Nat /\ (n * c) * DayHours * HourMinutes \in Nat
    BY <2>3 DEF ClockHolds
  <2> QED
    BY <1>1, <2>1, <2>2, <2>4, <2>5 DEF ClockHolds
<1> HIDE DEF l
<1>6. Day(l) = d + n * c /\ HourOfDay(l) = h /\ MinuteOfHour(l) = s
  BY <1>1, <1>3, <1>4, <1>5, PartsAre
<1>7. /\ Month(Day(l)) = Month(Day(m)) /\ DayOfMonth(Day(l)) = DayOfMonth(Day(m))
      /\ DayOfWeek(Day(l)) = DayOfWeek(Day(m))
      /\ HourOfDay(l) = HourOfDay(m) /\ MinuteOfHour(l) = MinuteOfHour(m)
  BY <1>3, <1>6 DEF d, h, s
<1>8. Matches(l) <=> Matches(m)
  BY <1>7 DEF Matches
<1> QED
  BY <1>4, <1>8 DEF l, c

\* A round of the calendar without a match is a calendar without one.
LEMMA RoundInVain ==
  ASSUME CalendarHolds, ClockHolds, SearchInv, Start + CycleDays * Minutes <= t, NEW m \in Nat
  PROVE  ~Matches(m)
<1> DEFINE w == CycleDays * Minutes
<1>1. w \in Nat \ {0}
  BY RoundIs, MinutesIs
<1>2. Start \in Nat /\ t \in Nat /\ Start + w <= t /\ NoneSkipped
  BY StartIs DEF SearchInv, SearchTypeOK
<1>3. \A x \in Nat, n \in Nat : x + n * w \in Nat /\ (Matches(x + n * w) <=> Matches(x))
  BY MatchesAgain
<1> HIDE DEF w
<1>4. ASSUME NEW x \in Nat, Start <= x PROVE ~Matches(x)
  <2> DEFINE y == x - Start
             k == y \div w
             r == y % w
  <2>1. y \in Nat
    BY <1>2, <1>4
  <2>2. k \in Nat /\ r \in 0 .. w - 1 /\ y = k * w + r
    BY <1>1, <2>1, NatParts
  <2> HIDE DEF k, r
  <2>3. k * w \in Nat
    BY <1>1, <2>2
  <2>4. Start + r \in Nat /\ Start <= Start + r /\ Start + r < t /\ x = (Start + r) + k * w
    BY <1>1, <1>2, <1>4, <2>2, <2>3
  <2>5. ~Matches(Start + r)
    BY <1>2, <2>4 DEF NoneSkipped
  <2> QED
    BY <1>3, <2>2, <2>4, <2>5
<1>5. Start <= m + Start * w
  <2>1. 1 * Start <= w * Start /\ w * Start \in Int
    BY <1>1, <1>2, TimesInOrder
  <2> QED
    BY <1>1, <1>2, <2>1
<1> QED
  BY <1>2, <1>3, <1>4, <1>5

\* Within the patience a search that is still going on is within a round, so
\* one that gives up has seen it all.
LEMMA NeverIsARound ==
  ASSUME CalendarHolds, ClockHolds, PatienceEnough, SearchInv, steps = Patience
  PROVE  Start + CycleDays * Minutes <= t
<1>1. Start \in Nat /\ t \in Nat
  BY StartIs DEF SearchInv, SearchTypeOK
<1> DEFINE d == Day(t)
           e == Day(Start)
           c == CycleDays
           r == Start % Minutes
           q == t % Minutes
<1>2. /\ d \in Nat /\ e \in Nat /\ HourOfDay(t) \in 0 .. DayHours - 1
      /\ MinuteOfHour(t) \in 0 .. HourMinutes - 1 /\ r \in 0 .. Minutes - 1 /\ q \in 0 .. Minutes - 1
      /\ Start = e * Minutes + r /\ t = d * Minutes + q
  BY <1>1, TimeIs
<1>3. c \in Nat \ {0}
  BY RoundIs
<1>4. /\ e <= d /\ d = e => steps <= HourMinutes + HourOfDay(t) + MinuteOfHour(t)
      /\ e < d => steps <= (d - e) + (DayHours + HourMinutes) + HourOfDay(t) + MinuteOfHour(t)
  BY DEF SearchInv, InOrder, StepsCounted
<1>5. steps \in Nat /\ steps >= c + 2 * (DayHours + HourMinutes)
  BY DEF PatienceEnough
<1> HIDE DEF d, e, c, r, q
<1>6. e + c + 1 <= d
  BY <1>2, <1>3, <1>4, <1>5 DEF SearchInv, InOrder, ClockHolds, d, e
<1>7. (e + c + 1) * Minutes <= d * Minutes /\ (e + c + 1) * Minutes = e * Minutes + c * Minutes + Minutes
  BY <1>2, <1>3, <1>6, TimesInOrder, MinutesIs
<1>8. e * Minutes \in Nat /\ c * Minutes \in Nat /\ d * Minutes \in Nat
  BY <1>2, <1>3, MinutesIs
<1>9. Start + c * Minutes <= t
  BY <1>2, <1>7, <1>8, MinutesIs
<1> QED
  BY <1>9 DEF c

\* The answer is the first of all minutes to come that matches, and there is none
\* only if none ever does (nextCronTime: "the first minute strictly after").
FirstEver ==
  /\ answer = "found" => t \in Nat /\ 2 * t > after /\ Matches(t)
                         /\ \A m \in Nat : 2 * m > after /\ Matches(m) => t <= m
  /\ answer = "never" => \A m \in Nat : ~Matches(m)

\* What the invariant says of an answer: nothing before it was skipped that
\* matches, and after a round in vain nothing ever matches.
LEMMA InvIsFirstEver ==
  ASSUME CalendarHolds, ClockHolds, PatienceEnough, SearchInv
  PROVE  FirstEver
<1>1. /\ after \in Nat /\ t \in Nat /\ Start \in Nat /\ 2 * (after \div 2) <= after /\ after < 2 * Start
      /\ (after \div 2) \in Nat /\ Start = after \div 2 + 1
  BY StartIs, NatParts DEF SearchInv, SearchTypeOK, Start
<1>2. NoneSkipped /\ AnswerHolds
  BY DEF SearchInv
<1>3. ASSUME answer = "found"
      PROVE  2 * t > after /\ Matches(t) /\ \A m \in Nat : 2 * m > after /\ Matches(m) => t <= m
  <2>1. 2 * t > after /\ Matches(t)
    BY <1>1, <1>2, <1>3 DEF NoneSkipped, AnswerHolds
  <2>2. ASSUME NEW m \in Nat, 2 * m > after, Matches(m) PROVE t <= m
    <3>1. Start <= m
      BY <1>1, <2>2
    <3> QED
      BY <1>1, <1>2, <2>2, <3>1 DEF NoneSkipped
  <2> QED
    BY <2>1, <2>2
<1>4. ASSUME answer = "never" PROVE \A m \in Nat : ~Matches(m)
  BY <1>2, <1>4, NeverIsARound, RoundInVain DEF AnswerHolds
<1> QED
  BY <1>1, <1>3, <1>4 DEF FirstEver

\* The first of all minutes is the first of two rounds of the calendar.
LEMMA FirstEverIsFirst ==
  ASSUME CalendarHolds, ClockHolds, PatienceEnough, SearchInv
  PROVE  FirstMatch
<1>1. FirstEver
  BY InvIsFirstEver
<1> DEFINE w == CycleDays * Minutes
           g == after \div 2
<1>2. after \in Nat /\ t \in Nat /\ g \in Nat /\ w \in Nat \ {0} /\ Start = g + 1
  BY NatParts, RoundIs, MinutesIs DEF SearchInv, SearchTypeOK, Start
<1>3. Rounds = g .. g + 2 * w
  BY DEF Rounds
<1>4. ASSUME answer = "found" PROVE t \in Later /\ t = Min(Later)
  <2>1. t < Start + w
    BY <1>1, <1>2, <1>4, RoundInVain DEF FirstEver
  <2>2. g <= t
    BY <1>2 DEF SearchInv, NoneSkipped
  <2> HIDE DEF w, g
  <2>3. t \in Rounds
    BY <1>2, <1>3, <2>1, <2>2
  <2>4. t \in Later
    BY <1>1, <1>4, <2>3 DEF Later, FirstEver
  <2>5. \A m \in Later : m \in Nat /\ t <= m
    BY <1>1, <1>2, <1>3, <1>4 DEF Later, FirstEver
  <2>6. t = Min(Later)
    <3>1. t \in Int /\ \A m \in Later : m \in Int /\ t <= m
      BY <1>2, <2>5
    <3> QED
      BY <2>4, <3>1, MinIs
  <2> QED
    BY <2>4, <2>6
<1>5. ASSUME answer = "never" PROVE Later = {}
  BY <1>1, <1>2, <1>3, <1>5 DEF Later, FirstEver
<1> QED
  BY <1>4, <1>5 DEF FirstMatch

\* The invariant holds of every search.
LEMMA SearchKeeps == CalendarHolds /\ ClockHolds /\ PatienceEnough /\ Spec => []SearchInv
<1> SUFFICES ASSUME CalendarHolds /\ ClockHolds /\ PatienceEnough PROVE Spec => []SearchInv
  OBVIOUS
<1>1. Init => SearchInv
  BY StartsWell
<1>2. SearchInv /\ [Next]_vars => SearchInv'
  BY StepKeeps
<1> QED
  BY <1>1, <1>2, PTL DEF Spec

\* nextCronTime answers with the first minute strictly after the moment that
\* the expression matches, within two rounds of the calendar.
THEOREM AnswerIsFirst == CalendarHolds /\ ClockHolds /\ PatienceEnough /\ Spec => []FirstMatch
<1> SUFFICES ASSUME CalendarHolds /\ ClockHolds /\ PatienceEnough PROVE Spec => []FirstMatch
  OBVIOUS
<1>1. SearchInv => FirstMatch
  BY FirstEverIsFirst
<1>2. Spec => []SearchInv
  BY SearchKeeps
<1> QED
  BY <1>1, <1>2, PTL

\* nextCronTime answers with the first of all minutes after the moment that the
\* expression matches, and with none only if there is none: its patience is
\* enough for every expression.
THEOREM AnswerIsFirstEver == CalendarHolds /\ ClockHolds /\ PatienceEnough /\ Spec => []FirstEver
<1> SUFFICES ASSUME CalendarHolds /\ ClockHolds /\ PatienceEnough PROVE Spec => []FirstEver
  OBVIOUS
<1>1. SearchInv => FirstEver
  BY InvIsFirstEver
<1>2. Spec => []SearchInv
  BY SearchKeeps
<1> QED
  BY <1>1, <1>2, PTL

-----------------------------------------------------------------------------
(* When maintenance takes place. *)

\* Half a day is rounded up to a day.
LEMMA Ceiling ==
  ASSUME NEW n \in Nat \ {0}, NEW a \in Int
  PROVE  CeilDiv(a, n) \in Int /\ a <= CeilDiv(a, n) * n
<1>1. -a \in Int /\ (-a) \div n \in Int /\ ((-a) \div n) * n <= -a
  BY Division
<1>2. (-((-a) \div n)) * n = -(((-a) \div n) * n)
  BY <1>1
<1> QED
  BY <1>1, <1>2 DEF CeilDiv

\* The greatest of a set, once it is known.
LEMMA MaxIs ==
  ASSUME NEW S, NEW a \in S, a \in Int, \A b \in S : b \in Int /\ b <= a
  PROVE  Max(S) = a
<1>1. \A x \in S : (\A y \in S : x >= y) => x = a
  OBVIOUS
<1>2. a \in S /\ \A y \in S : a >= y
  OBVIOUS
<1> QED
  BY <1>1, <1>2, Zenon DEF Max

\* The greater of two numbers.
LEMMA MaxOfTwo ==
  ASSUME NEW a \in Int, NEW b \in Int
  PROVE  Max({a, b}) = IF a >= b THEN a ELSE b
<1>1. CASE a >= b
  <2>1. a \in {a, b} /\ \A c \in {a, b} : c \in Int /\ c <= a
    BY <1>1
  <2> QED
    BY <1>1, <2>1, MaxIs
<1>2. CASE ~(a >= b)
  <2>1. b \in {a, b} /\ \A c \in {a, b} : c \in Int /\ c <= b
    BY <1>2
  <2> QED
    BY <1>2, <2>1, MaxIs
<1> QED
  BY <1>1, <1>2

\* The lesser of two numbers.
LEMMA MinOfTwo ==
  ASSUME NEW a \in Int, NEW b \in Int
  PROVE  Min({a, b}) = IF a <= b THEN a ELSE b
<1>1. CASE a <= b
  <2>1. a \in {a, b} /\ \A c \in {a, b} : c \in Int /\ a <= c
    BY <1>1
  <2> QED
    BY <1>1, <2>1, MinIs
<1>2. CASE ~(a <= b)
  <2>1. b \in {a, b} /\ \A c \in {a, b} : c \in Int /\ b <= c
    BY <1>2
  <2> QED
    BY <1>2, <2>1, MinIs
<1> QED
  BY <1>1, <1>2

\* A clock is ahead of UTC, or behind it, by a day at most.
IsZone(zone) ==
  /\ zone.before \in -DayLength .. DayLength
  /\ zone.after \in -DayLength .. DayLength
  /\ zone.moved \in Int

\* A clock is one of its two offsets ahead.
LEMMA OffsetIs ==
  ASSUME DayLength \in Nat \ {0}, NEW zone, IsZone(zone), NEW at \in Int
  PROVE  /\ Offset(zone, at) \in {zone.before, zone.after} /\ Offset(zone, at) \in Int
         /\ zone.before \in Int /\ zone.after \in Int
BY DEF Offset, IsZone

\* zonedTimeToUtc: the moment it answers with is one at which the zone's clock
\* shows the date and time asked for, whenever there is such a moment: on days
\* that the clock is moved too.
THEOREM WallClockIsKept ==
  ASSUME DayLength \in Nat \ {0}, NEW zone, IsZone(zone), NEW day \in Int, NEW time \in 0 .. DayLength - 1
  PROVE  WallClock(day, time, zone)
<1> DEFINE local == day * DayLength + time
           utc == ZonedTimeToUtc(day, time, zone)
<1>0. /\ day * DayLength \in Int /\ local \in Int
      /\ (day - 1) * DayLength = day * DayLength - DayLength
      /\ (day + 2) * DayLength = day * DayLength + DayLength + DayLength
  OBVIOUS
<1> SUFFICES ASSUME NEW at \in Int, at + Offset(zone, at) = local
             PROVE  /\ utc + Offset(zone, utc) = local
                    /\ utc \in (day - 1) * DayLength .. (day + 2) * DayLength
  BY <1>0 DEF WallClock
<1>1. utc = local - Offset(zone, local - Offset(zone, local))
  BY DEF ZonedTimeToUtc
<1>2. utc \in Int /\ utc + Offset(zone, utc) = local
  BY <1>0, <1>1 DEF Offset, IsZone
<1>3. Offset(zone, utc) \in -DayLength .. DayLength
  BY <1>2 DEF Offset, IsZone
<1> QED
  BY <1>0, <1>2, <1>3

\* A window as its row is read.
IsWindow(window) ==
  /\ window.date \in Int /\ window.length \in Nat
  /\ window.time \in 0 .. DayLength - 1
  /\ window.until # Never => window.until \in Int

\* By how much a clock is moved.
Jump(zone) ==
  IF zone.after >= zone.before THEN zone.after - zone.before ELSE zone.before - zone.after

\* One change for each occurrence, as they are kept by key.
OneEach(changes) ==
  /\ \A c \in changes : c.endsAt # Never => c.endsAt \in Int
  /\ \A c, d \in changes : c.key = d.key => c = d

\* No occurrence of a series was extended past the days that are looked back.
WithinLookBack(window, zone, changes) ==
  \A c \in changes : c.endsAt # Never => c.endsAt - c.key <= LookBack(window) * DayLength - Jump(zone)

\* The days of the range, and those looked back, are no more than the search
\* looks at.
ShortEnough(window, zone, from, to) ==
  LocalDay(to, zone) + 1 - (LocalDay(from, zone) - LookBack(window)) < MaxDays

\* When an occurrence ends.
EndOf(window, changes, start) ==
  IF \E c \in changes : c.key = start /\ c.endsAt # Never
  THEN (CHOOSE c \in changes : c.key = start).endsAt
  ELSE start + window.length

\* An occurrence that was not skipped and overlaps the range.
Remains(window, changes, start, from, to) ==
  /\ ~(\E c \in changes : c.key = start /\ c.skipped)
  /\ /\ from < EndOf(window, changes, start)
     /\ start < to
     /\ start < EndOf(window, changes, start)

\* The ends that were changed.
Moved(changes, start) == {c.endsAt : c \in {d \in changes : d.key = start}} \ {Never}

\* The end that expandOccurrences works out is the one that was changed, or the
\* planned one.
LEMMA EndIs ==
  ASSUME NEW window, IsWindow(window), NEW changes, OneEach(changes), NEW start \in Int
  PROVE  /\ Moved(changes, start) = {} => start + window.length = EndOf(window, changes, start)
         /\ Moved(changes, start) # {} => Max(Moved(changes, start)) = EndOf(window, changes, start)
         /\ EndOf(window, changes, start) \in Int
<1>1. CASE Moved(changes, start) = {}
  <2>1. ~\E c \in changes : c.key = start /\ c.endsAt # Never
    BY <1>1 DEF Moved
  <2> QED
    BY <1>1, <2>1 DEF EndOf, IsWindow
<1>2. CASE Moved(changes, start) # {}
  <2>1. PICK c \in changes : c.key = start /\ c.endsAt # Never
    BY <1>2 DEF Moved
  <2>2. {d \in changes : d.key = start} = {c} /\ c.endsAt \in Int
    BY <2>1 DEF OneEach
  <2>3. Moved(changes, start) = {c.endsAt}
    BY <2>1, <2>2 DEF Moved
  <2>4. Max(Moved(changes, start)) = c.endsAt
    BY <2>2, <2>3, MaxIs
  <2>5. (CHOOSE d \in changes : d.key = start) = c
    BY <2>1 DEF OneEach
  <2>6. EndOf(window, changes, start) = c.endsAt
    BY <2>1, <2>5 DEF EndOf
  <2> QED
    BY <1>2, <2>2, <2>4, <2>6
<1> QED
  BY <1>1, <1>2

\* What expandOccurrences makes of one planned start.
LEMMA MakeIs ==
  ASSUME NEW window, IsWindow(window), NEW changes, OneEach(changes), NEW start \in Int,
         NEW from \in Int, NEW to \in Int
  PROVE  Make(window, changes, start, from, to) =
           IF Remains(window, changes, start, from, to)
           THEN {[key |-> start, endsAt |-> EndOf(window, changes, start)]} ELSE {}
<1> DEFINE mine == {c \in changes : c.key = start}
           end == IF Moved(changes, start) = {} THEN start + window.length ELSE Max(Moved(changes, start))
<1>1. end = EndOf(window, changes, start) /\ end \in Int
  BY EndIs
<1>2. Make(window, changes, start, from, to) =
        IF (\E c \in mine : c.skipped) \/ end <= start \/ end <= from \/ start >= to THEN {}
        ELSE {[key |-> start, endsAt |-> end]}
  BY DEF Make, Moved
<1>3. (\E c \in mine : c.skipped) <=> \E c \in changes : c.key = start /\ c.skipped
  OBVIOUS
<1>4. Remains(window, changes, start, from, to) <=>
        ~((\E c \in mine : c.skipped) \/ end <= start \/ end <= from \/ start >= to)
  <2>1. (from < end /\ start < to /\ start < end) <=> ~(end <= start \/ end <= from \/ start >= to)
    <3> HIDE DEF end
    <3> QED
      BY <1>1
  <2> HIDE DEF mine, end
  <2> QED
    BY <1>1, <1>3, <2>1, Zenon DEF Remains
<1> HIDE DEF mine, end
<1> QED
  BY <1>1, <1>2, <1>4

\* A moment is in its local day.
LEMMA LocalDayIs ==
  ASSUME DayLength \in Nat \ {0}, NEW zone, IsZone(zone), NEW at \in Int
  PROVE  /\ LocalDay(at, zone) \in Int
         /\ LocalDay(at, zone) * DayLength <= at + Offset(zone, at)
         /\ at + Offset(zone, at) < LocalDay(at, zone) * DayLength + DayLength
<1>1. at + Offset(zone, at) \in Int
  BY OffsetIs
<1> QED
  BY <1>1, Division DEF LocalDay

\* The planned start of a day's occurrence, up to what the clock is moved by.
LEMMA PlannedIs ==
  ASSUME DayLength \in Nat \ {0}, NEW zone, IsZone(zone), NEW day \in Int, NEW time \in 0 .. DayLength - 1,
         NEW at \in Int
  PROVE  LET p == ZonedTimeToUtc(day, time, zone)
         IN  /\ p \in Int /\ Jump(zone) \in Int
             /\ p <= day * DayLength + time - Offset(zone, at) + Jump(zone)
             /\ p >= day * DayLength + time - Offset(zone, at) - Jump(zone)
<1>1. day * DayLength \in Int
  OBVIOUS
<1> QED
  BY <1>1 DEF ZonedTimeToUtc, Offset, IsZone, Jump

\* What overlaps the range is planned for a day that the search looks at.
LEMMA LookedAt ==
  ASSUME DayLength \in Nat \ {0}, NEW window, IsWindow(window), NEW zone, IsZone(zone), Jump(zone) <= DayLength,
         NEW changes, OneEach(changes), WithinLookBack(window, zone, changes),
         NEW from \in Int, NEW to \in Int, NEW day \in Int,
         Remains(window, changes, ZonedTimeToUtc(day, window.time, zone), from, to)
  PROVE  /\ LocalDay(from, zone) - LookBack(window) <= day
         /\ day <= LocalDay(to, zone) + 1
<1> DEFINE p == ZonedTimeToUtc(day, window.time, zone)
           first == LocalDay(from, zone)
           last == LocalDay(to, zone)
           back == LookBack(window)
           end == EndOf(window, changes, p)
<1>0. /\ window.time \in 0 .. DayLength - 1 /\ window.length \in Int
      /\ p \in Int /\ Jump(zone) \in Int
  BY PlannedIs DEF IsWindow
<1>1. /\ p <= day * DayLength + window.time - Offset(zone, from) + Jump(zone)
      /\ p >= day * DayLength + window.time - Offset(zone, to) - Jump(zone)
      /\ Offset(zone, from) \in Int /\ Offset(zone, to) \in Int
  BY <1>0, PlannedIs, OffsetIs
<1>2. /\ first \in Int /\ first * DayLength <= from + Offset(zone, from)
      /\ last \in Int /\ to + Offset(zone, to) < last * DayLength + DayLength
  BY LocalDayIs
<1>3. /\ back \in Int
      /\ window.length <= back * DayLength - DayLength
  <2>1. CeilDiv(window.length, DayLength) \in Int /\ window.length <= CeilDiv(window.length, DayLength) * DayLength
    BY <1>0, Ceiling
  <2>2. (CeilDiv(window.length, DayLength) + 1) * DayLength = CeilDiv(window.length, DayLength) * DayLength + DayLength
    BY <2>1
  <2> QED
    BY <2>1, <2>2, <1>0 DEF LookBack
<1>4. end \in Int /\ end - p <= back * DayLength - Jump(zone)
  <2>1. end \in Int
    BY <1>0, EndIs
  <2>2. CASE \E c \in changes : c.key = p /\ c.endsAt # Never
    <3>1. PICK c \in changes : c.key = p /\ c.endsAt # Never
      BY <2>2
    <3>2. (CHOOSE d \in changes : d.key = p) = c
      BY <3>1 DEF OneEach
    <3>3. end = c.endsAt
      BY <3>1, <3>2 DEF EndOf
    <3> QED
      BY <2>1, <3>1, <3>3 DEF WithinLookBack
  <2>3. CASE ~\E c \in changes : c.key = p /\ c.endsAt # Never
    <3>1. end = p + window.length
      BY <2>3 DEF EndOf
    <3>2. back * DayLength \in Int
      BY <1>3
    <3> HIDE DEF end, p, back
    <3> QED
      BY <2>1, <3>1, <3>2, <1>0, <1>3
  <2> QED
    BY <2>2, <2>3
<1>5. from < end /\ p < to
  BY DEF Remains
<1>6. ASSUME day < first - back PROVE FALSE
  <2>1. day <= first - back - 1 /\ first - back - 1 \in Int
    BY <1>6, <1>2, <1>3
  <2>2. day * DayLength <= (first - back - 1) * DayLength
    BY <2>1, TimesInOrder
  <2>3. (first - back - 1) * DayLength = first * DayLength - back * DayLength - DayLength
    BY <1>2, <1>3
  <2>4. day * DayLength \in Int /\ first * DayLength \in Int /\ back * DayLength \in Int
    BY <1>2, <1>3
  <2> HIDE DEF p, first, last, back, end
  <2> QED
    BY <1>0, <1>1, <1>2, <1>4, <1>5, <2>2, <2>3, <2>4
<1>7. ASSUME day > last + 1 PROVE FALSE
  <2>1. last + 2 <= day /\ last + 2 \in Int
    BY <1>7, <1>2
  <2>2. (last + 2) * DayLength <= day * DayLength
    BY <2>1, TimesInOrder
  <2>3. (last + 2) * DayLength = last * DayLength + DayLength + DayLength
    BY <1>2
  <2>4. day * DayLength \in Int /\ last * DayLength \in Int
    BY <1>2
  <2> HIDE DEF p, first, last, back, end
  <2> QED
    BY <1>0, <1>1, <1>2, <1>5, <2>2, <2>3, <2>4
<1> QED
  BY <1>2, <1>3, <1>6, <1>7

\* The days of a series, from its start to its end.
Takes(window) ==
  {d \in Int : /\ window.kind # "none" /\ TakesPlace(window, d) /\ window.date <= d
               /\ window.until # Never => d <= window.until}

\* expandOccurrences: of a window in any zone whose clock is moved by a day at
\* most, every occurrence that overlaps the range is found, and nothing else,
\* if none was extended past the days that are looked back and the range is not
\* longer than the days that are looked at.
THEOREM EveryOccurrenceIsFound ==
  ASSUME DayLength \in Nat \ {0}, NEW window, IsWindow(window), NEW zone, IsZone(zone), Jump(zone) <= DayLength,
         NEW changes, OneEach(changes), window.kind # "none" => WithinLookBack(window, zone, changes),
         NEW from \in Int, NEW to \in Int, ShortEnough(window, zone, from, to), MaxDays \in Int
  PROVE  AllFound(window, zone, changes, from, to, Int)
<1> DEFINE Ends(p) == EndOf(window, changes, p)
           Seen(p) == Remains(window, changes, p, from, to)
           Row(p) == [key |-> p, endsAt |-> Ends(p)]
           Plan(d) == ZonedTimeToUtc(d, window.time, zone)
           takes == Takes(window)
           planned == IF window.kind = "none" THEN {window.date * DayLength + window.time} ELSE {Plan(d) : d \in takes}
<1>1. AllFound(window, zone, changes, from, to, Int) <=>
        Expand(window, zone, changes, from, to) = {Row(p) : p \in {q \in planned : Seen(q)}}
  BY DEF AllFound, EndOf, Remains, Takes
<1>2. CASE window.kind = "none"
  <2> DEFINE start == window.date * DayLength + window.time
  <2>1. start \in Int
    BY DEF IsWindow
  <2>2. Expand(window, zone, changes, from, to) = Make(window, changes, start, from, to)
    BY <1>2 DEF Expand
  <2>3. planned = {start}
    BY <1>2
  <2>4. Make(window, changes, start, from, to) = IF Seen(start) THEN {Row(start)} ELSE {}
    BY <2>1, MakeIs
  <2> HIDE DEF start, Row, Seen, planned
  <2> QED
    BY <1>1, <2>2, <2>3, <2>4
<1>3. CASE window.kind # "none"
  <2> DEFINE a == LocalDay(from, zone) - LookBack(window)
             b == LocalDay(to, zone) + 1
             first == Max({window.date, a})
             last == Min({b} \cup ({window.until} \ {Never}))
             days == {d \in first .. Min({last, first + MaxDays - 1}) : TakesPlace(window, d)}
  <2>1. Expand(window, zone, changes, from, to) = UNION {Make(window, changes, Plan(d), from, to) : d \in days}
    BY <1>3 DEF Expand
  <2>2. \A d \in Int : /\ Plan(d) \in Int
                        /\ Make(window, changes, Plan(d), from, to) = IF Seen(Plan(d)) THEN {Row(Plan(d))} ELSE {}
    BY PlannedIs, MakeIs DEF IsWindow
  <2>3. /\ LocalDay(from, zone) \in Int /\ LocalDay(to, zone) \in Int
        /\ LookBack(window) \in Int
    <3>1. window.length \in Int
      BY DEF IsWindow
    <3> QED
      BY <3>1, LocalDayIs, Ceiling DEF LookBack
  <2>12. a \in Int /\ b \in Int /\ window.date \in Int /\ (window.until # Never => window.until \in Int)
    BY <2>3 DEF IsWindow
  <2>4. /\ first \in Int
        /\ \A d \in Int : d >= first <=> d >= window.date /\ d >= a
    <3> HIDE DEF a
    <3>1. first = IF window.date >= a THEN window.date ELSE a
      BY <2>12, MaxOfTwo
    <3> HIDE DEF first
    <3> QED
      BY <2>12, <3>1
  <2>5. /\ last \in Int
        /\ \A d \in Int : d <= last <=> d <= b /\ (window.until # Never => d <= window.until)
    <3> HIDE DEF b
    <3>1. CASE window.until = Never
      <4>1. {b} \cup ({window.until} \ {Never}) = {b, b}
        BY <3>1
      <4>2. last = b
        BY <2>12, <4>1, MinOfTwo
      <4> HIDE DEF last
      <4> QED
        BY <2>12, <3>1, <4>2
    <3>2. CASE window.until # Never
      <4>1. {b} \cup ({window.until} \ {Never}) = {b, window.until}
        BY <3>2
      <4>2. last = IF b <= window.until THEN b ELSE window.until
        BY <2>12, <3>2, <4>1, MinOfTwo
      <4> HIDE DEF last
      <4> QED
        BY <2>12, <3>2, <4>2
    <3> QED
      BY <3>1, <3>2
  <2>6. last < first + MaxDays
    <3>1. b - a < MaxDays
      BY <2>3 DEF ShortEnough
    <3> HIDE DEF first, last, a, b
    <3> QED
      BY <3>1, <2>4, <2>5, <2>12
  <2>7. Min({last, first + MaxDays - 1}) = last
    <3> HIDE DEF first, last
    <3> QED
      BY <2>4, <2>5, <2>6, MinOfTwo
  <2>8. days \subseteq takes
    <3> HIDE DEF first, last
    <3> QED
      BY <1>3, <2>4, <2>5, <2>7 DEF Takes
  <2>9. ASSUME NEW d \in takes, Seen(Plan(d)) PROVE d \in days
    <3>1. d \in Int /\ TakesPlace(window, d) /\ window.date <= d /\ (window.until # Never => d <= window.until)
      BY DEF Takes
    <3>2. a <= d /\ d <= b
      BY <1>3, <2>9, <3>1, LookedAt
    <3> HIDE DEF first, last, Plan, Seen, a, b, takes
    <3>3. first <= d /\ d <= last
      BY <3>1, <3>2, <2>4, <2>5, <2>12
    <3> QED
      BY <3>1, <3>3, <2>4, <2>5, <2>7
  <2>10. planned = {Plan(d) : d \in takes} /\ takes \subseteq Int
    BY <1>3 DEF Takes
  <2> HIDE DEF Plan, Seen, Row, days, takes, planned
  <2>11. Expand(window, zone, changes, from, to) = {Row(p) : p \in {q \in planned : Seen(q)}}
    BY <2>1, <2>2, <2>8, <2>9, <2>10
  <2> QED
    BY <1>1, <2>11
<1> QED
  BY <1>2, <1>3

-----------------------------------------------------------------------------
(* On call: between two points nobody else comes on. *)

\* No point is later than p and no later than the moment.
NoneUntil(s, p, at) == \A e \in OnCall!Points(s) : ~(p < e /\ e <= at)

\* The moments of a range that have no point after p.
Between(s, p, at) ==
  s \in Schedules /\ p \in Int /\ at \in Int /\ s.from <= p /\ p <= at /\ at < s.to /\ NoneUntil(s, p, at)

\* In a range what a layer or an override begins or ends with is a point.
LEMMA EdgesArePoints ==
  ASSUME NEW s, NEW e \in Int, s.from < e, e < s.to,
         \/ e \in OnCall!EdgesOf(s.overrides)
         \/ \E i \in DOMAIN s.layers :
              IF s.layers[i].rotation = "roster" THEN e \in OnCall!EdgesOf(s.layers[i].entries)
              ELSE e \in OnCall!Handovers(s.layers[i], s.from)
  PROVE  e \in OnCall!Points(s)
BY DEF OnCall!Points

\* Of the same entries the same ones cover both moments.
LEMMA CoveringStays ==
  ASSUME NEW entries, OnCall!HaveTimes(entries), NEW p \in Int, NEW at \in Int, p <= at,
         \A e \in OnCall!EdgesOf(entries) : ~(p < e /\ e <= at)
  PROVE  OnCall!Covering(entries, at) = OnCall!Covering(entries, p)
<1>1. ASSUME NEW i \in DOMAIN entries
      PROVE  entries[i].startsAt <= at /\ at < entries[i].endsAt <=> entries[i].startsAt <= p /\ p < entries[i].endsAt
  <2>1. /\ entries[i].startsAt \in Int /\ entries[i].endsAt \in Int
        /\ entries[i].startsAt \in OnCall!EdgesOf(entries) /\ entries[i].endsAt \in OnCall!EdgesOf(entries)
    BY DEF OnCall!HaveTimes, OnCall!EdgesOf
  <2> QED
    BY <2>1
<1> QED
  BY <1>1 DEF OnCall!Covering

\* Of a rotation the same turn.
LEMMA TurnStays ==
  ASSUME OnCall!SchedulesHold, NEW s, NEW p, NEW at, Between(s, p, at), NEW i \in DOMAIN s.layers,
         s.layers[i].rotation # "roster"
  PROVE  LET l == s.layers[i]
         IN  /\ at < l.start <=> p < l.start
             /\ ~(at < l.start) => (at - l.start) \div l.length = (p - l.start) \div l.length
<1> DEFINE l == s.layers[i]
           a == l.start
           n == l.length
           k == (at - a) \div n
           first == IF a > s.from THEN 0 ELSE OnCall!RoundUp(s.from - a, n)
<1>1. /\ s.from \in Nat /\ s.to \in Nat /\ a \in Int /\ n \in Nat \ {0} /\ MaxHandovers \in Nat
      /\ s.to - s.from <= MaxHandovers * n /\ MaxHandovers * n \in Nat
  BY DEF OnCall!SchedulesHold, Between
<1>2. p \in Int /\ at \in Int /\ s.from <= p /\ p <= at /\ at < s.to
  BY DEF Between
<1>3. at < a => p < a
  BY <1>1, <1>2
<1>4. ASSUME a <= at PROVE a + k * n \in Int /\ a + k * n <= at /\ at < a + k * n + n /\ k \in Nat /\ k * n \in Int
  <2>1. at - a \in Int /\ at - a >= 0
    BY <1>1, <1>2, <1>4
  <2>2. k \in Int /\ k * n <= at - a /\ at - a < k * n + n
    BY <1>1, <2>1, Division
  <2>3. ~(k <= -1)
    <3> SUFFICES ASSUME k <= -1 PROVE FALSE
      OBVIOUS
    <3>1. k * n <= (-1) * n
      BY <1>1, <2>2, TimesInOrder
    <3> QED
      BY <1>1, <2>1, <2>2, <3>1
  <2>4. k * n \in Int
    BY <1>1, <2>2
  <2> HIDE DEF k, n, a
  <2> QED
    BY <1>1, <1>2, <2>1, <2>2, <2>3, <2>4
<1>5. /\ first \in Nat /\ first * n \in Int /\ s.from <= a + first * n
      /\ first > 0 => a + first * n < s.from + n
  <2>1. CASE a > s.from
    BY <1>1, <2>1
  <2>2. CASE ~(a > s.from)
    <3> DEFINE b == s.from - a
               q == (-b) \div n
    <3>1. b \in Int /\ b >= 0
      BY <1>1, <2>2
    <3>2. q \in Int /\ q * n <= -b /\ -b < q * n + n
      <4> DEFINE c == -b
      <4>1. c \in Int /\ n \in Nat \ {0}
        BY <1>1, <3>1
      <4> HIDE DEF c, n
      <4>2. c \div n \in Int /\ (c \div n) * n <= c /\ c < (c \div n) * n + n
        BY <4>1, Division
      <4> QED
        BY <4>2 DEF c
    <3>3. first = -q
      BY <2>2 DEF OnCall!RoundUp
    <3> HIDE DEF q, b, first, n, a
    <3>4. q <= 0
      <4> SUFFICES ASSUME 1 <= q PROVE FALSE
        BY <3>2
      <4>1. 1 * n <= q * n
        BY <1>1, <3>2, TimesInOrder
      <4> QED
        BY <1>1, <3>1, <3>2, <4>1
    <3>5. (-q) * n = -(q * n) /\ q * n \in Int
      BY <1>1, <3>2
    <3>6. first \in Nat /\ first * n = -(q * n)
      BY <3>2, <3>3, <3>4, <3>5
    <3> QED
      BY <1>1, <3>1, <3>2, <3>5, <3>6 DEF b
  <2> QED
    BY <1>1, <2>1, <2>2
<1>6. ASSUME a <= at, p < a + k * n PROVE FALSE
  <2> DEFINE e == a + k * n
  <2>1. k \in Nat /\ k * n \in Int /\ e \in Int /\ e <= at
    BY <1>4, <1>6
  <2> HIDE DEF k, n, a, first
  <2>2. first <= k
    <3> SUFFICES ASSUME k + 1 <= first PROVE FALSE
      BY <1>5, <2>1
    <3>1. (k + 1) * n <= first * n /\ (k + 1) * n = k * n + n
      BY <1>1, <1>5, <2>1, TimesInOrder
    <3> QED
      BY <1>1, <1>2, <1>5, <1>6, <2>1, <3>1
  <2>3. k <= first + MaxHandovers - 1
    <3> SUFFICES ASSUME first + MaxHandovers <= k PROVE FALSE
      BY <1>1, <1>5, <2>1
    <3>1. (first + MaxHandovers) * n <= k * n /\ (first + MaxHandovers) * n = first * n + MaxHandovers * n
      BY <1>1, <1>5, <2>1, TimesInOrder
    <3> QED
      BY <1>1, <1>2, <1>5, <2>1, <3>1
  <2>4. k \in first .. first + MaxHandovers - 1
    BY <1>1, <1>5, <2>1, <2>2, <2>3
  <2>5. e \in OnCall!Handovers(l, s.from)
    BY <2>4 DEF OnCall!Handovers, first, n, a
  <2>6. s.from < e /\ e < s.to
    BY <1>1, <1>2, <1>6, <2>1
  <2>7. e \in OnCall!Points(s)
    BY <2>1, <2>5, <2>6, EdgesArePoints
  <2> QED
    BY <1>6, <2>1, <2>7 DEF Between, NoneUntil
<1>7. ASSUME a <= at PROVE a <= p /\ (p - a) \div n = k
  <2>1. k \in Nat /\ k * n \in Int /\ a + k * n <= p /\ at < a + k * n + n
    BY <1>1, <1>2, <1>4, <1>6, <1>7
  <2>2. k * n >= 0
    BY <1>1, <2>1
  <2> DEFINE r == p - a - k * n
  <2> HIDE DEF k, n, a
  <2>3. a <= p /\ r \in 0 .. n - 1 /\ p - a = k * n + r /\ p - a \in Int /\ k \in Int
    BY <1>1, <1>2, <2>1, <2>2
  <2> HIDE DEF r
  <2>4. (p - a) \div n = k
    BY <1>1, <2>3, DivisionOf
  <2> QED
    BY <2>3, <2>4
<1> QED
  BY <1>1, <1>2, <1>3, <1>7

\* Of a layer the same person is on call at both moments.
LEMMA LayerStays ==
  ASSUME OnCall!SchedulesHold, NEW s, NEW p, NEW at, Between(s, p, at), NEW i \in DOMAIN s.layers
  PROVE  OnCall!LayerOnCallAt(s.layers[i], at) = OnCall!LayerOnCallAt(s.layers[i], p)
<1>1. CASE s.layers[i].rotation = "roster"
  <2>1. OnCall!HaveTimes(s.layers[i].entries) /\ s.from \in Int /\ s.to \in Int
    BY DEF OnCall!SchedulesHold, Between
  <2>2. ASSUME NEW e \in OnCall!EdgesOf(s.layers[i].entries), p < e, e <= at PROVE FALSE
    <3>1. e \in Int
      BY <2>1 DEF OnCall!HaveTimes, OnCall!EdgesOf
    <3>2. s.from < e /\ e < s.to
      BY <2>1, <2>2, <3>1 DEF Between
    <3>3. e \in OnCall!Points(s)
      BY <1>1, <3>1, <3>2, EdgesArePoints
    <3> QED
      BY <2>2, <3>3 DEF Between, NoneUntil
  <2>3. OnCall!Covering(s.layers[i].entries, at) = OnCall!Covering(s.layers[i].entries, p)
    BY <2>1, <2>2, CoveringStays DEF Between
  <2> QED
    BY <1>1, <2>3 DEF OnCall!LayerOnCallAt
<1>2. CASE s.layers[i].rotation # "roster"
  BY <1>2, TurnStays DEF OnCall!LayerOnCallAt
<1> QED
  BY <1>1, <1>2

\* Nobody else comes on call from a point until the next: onCallAt answers the
\* same of both moments.
LEMMA NobodyElse ==
  ASSUME OnCall!SchedulesHold, NEW s, NEW p, NEW at, Between(s, p, at)
  PROVE  OnCall!OnCallAt(s.layers, s.overrides, at) = OnCall!OnCallAt(s.layers, s.overrides, p)
<1>1. OnCall!HaveTimes(s.overrides) /\ s.from \in Int /\ s.to \in Int
  BY DEF OnCall!SchedulesHold, Between
<1>2. ASSUME NEW e \in OnCall!EdgesOf(s.overrides), p < e, e <= at PROVE FALSE
  <2>1. e \in Int
    BY <1>1 DEF OnCall!HaveTimes, OnCall!EdgesOf
  <2>2. s.from < e /\ e < s.to
    BY <1>1, <1>2, <2>1 DEF Between
  <2>3. e \in OnCall!Points(s)
    BY <1>2, <2>1, <2>2, EdgesArePoints
  <2> QED
    BY <1>2, <2>3 DEF Between, NoneUntil
<1>3. OnCall!Covering(s.overrides, at) = OnCall!Covering(s.overrides, p)
  BY <1>1, <1>2, CoveringStays DEF Between
<1>4. \A i \in DOMAIN s.layers : OnCall!LayerOnCallAt(s.layers[i], at) = OnCall!LayerOnCallAt(s.layers[i], p)
  BY LayerStays
<1> DEFINE Hits(x) == {i \in DOMAIN s.layers : OnCall!LayerOnCallAt(s.layers[i], x) # Nobody}
           Turn(x) == IF Hits(x) = {} THEN Nobody ELSE OnCall!LayerOnCallAt(s.layers[Max(Hits(x))], x)
<1>5. Hits(at) = Hits(p)
  BY <1>4
<1>6. Turn(at) = Turn(p)
  <2>1. CASE Hits(p) = {}
    BY <1>5, <2>1
  <2>2. CASE Hits(p) # {}
    <3>1. Hits(p) \subseteq 1 .. Len(s.layers) /\ Len(s.layers) \in Nat
      BY DEF Between, OnCall!SchedulesHold
    <3>2. Max(Hits(p)) \in Hits(p)
      <4> HIDE DEF Hits
      <4> QED
        BY <2>2, <3>1, GreatestOf
    <3>3. Max(Hits(p)) \in DOMAIN s.layers
      BY <3>2
    <3> QED
      BY <1>4, <1>5, <2>2, <3>3
  <2> QED
    BY <2>1, <2>2
<1>7. ASSUME NEW x
      PROVE  OnCall!OnCallAt(s.layers, s.overrides, x) =
               IF OnCall!Covering(s.overrides, x) # {}
               THEN [user |-> OnCall!Latest(s.overrides, OnCall!Covering(s.overrides, x)).user, source |-> "override"]
               ELSE [user |-> Turn(x), source |-> "layer"]
  <2>1. OnCall!Max(Hits(x)) = Max(Hits(x))
    BY DEF OnCall!Max, Max
  <2> QED
    BY <2>1, Zenon DEF OnCall!OnCallAt
<1> HIDE DEF Turn
<1> QED
  BY <1>3, <1>6, <1>7

-----------------------------------------------------------------------------
(* The shifts that have been made. *)

\* Who is on call, and what a shift is.
Who(s, at) == OnCall!OnCallAt(s.layers, s.overrides, at)
Shift(s) == [who : {Who(s, at) : at \in Nat}, startsAt : Nat, endsAt : Nat]

\* The point that comes next, and after the last of them the end.
NextPoint(s, rest) == IF rest = {} THEN s.to ELSE Min(rest)

RenderTypeOK ==
  schedule \in Schedules /\ points \subseteq OnCall!Points(schedule) /\ shifts \in Seq(Shift(schedule))

\* Points are taken in their order, and no shift reaches past the next.
InTurn == \A e \in OnCall!Points(schedule) \ points : \A f \in points : e < f
WithinTurn == \A i \in DOMAIN shifts : shifts[i].startsAt < shifts[i].endsAt /\ shifts[i].endsAt <= OnCall!Upto

RenderInv == RenderTypeOK /\ InTurn /\ WithinTurn /\ OnCall!ShiftsAgree

\* The points are moments of the range, and its start is one.
LEMMA PointsAre ==
  ASSUME OnCall!SchedulesHold, NEW s \in Schedules
  PROVE  /\ s.from \in Nat /\ s.to \in Nat /\ s.from < s.to /\ s.from \in OnCall!Points(s)
         /\ \A e \in OnCall!Points(s) : e \in Nat /\ s.from <= e /\ e < s.to
<1>1. s.from \in Nat /\ s.to \in Nat /\ s.from < s.to
  BY DEF OnCall!SchedulesHold
<1>2. s.from \in OnCall!Points(s)
  BY DEF OnCall!Points
<1>3. ASSUME NEW e \in OnCall!Points(s), e # s.from PROVE e \in Int /\ s.from < e /\ e < s.to
  <2>1. /\ s.from < e /\ e < s.to
        /\ \/ e \in OnCall!EdgesOf(s.overrides)
           \/ \E i \in DOMAIN s.layers :
                IF s.layers[i].rotation = "roster" THEN e \in OnCall!EdgesOf(s.layers[i].entries)
                ELSE e \in OnCall!Handovers(s.layers[i], s.from)
    BY <1>3 DEF OnCall!Points
  <2>2. ASSUME NEW entries, OnCall!HaveTimes(entries), e \in OnCall!EdgesOf(entries) PROVE e \in Int
    BY <2>2 DEF OnCall!HaveTimes, OnCall!EdgesOf
  <2>3. CASE e \in OnCall!EdgesOf(s.overrides)
    BY <2>1, <2>2, <2>3 DEF OnCall!SchedulesHold
  <2>4. ASSUME NEW i \in DOMAIN s.layers, s.layers[i].rotation = "roster", e \in OnCall!EdgesOf(s.layers[i].entries)
        PROVE  e \in Int
    BY <2>2, <2>4 DEF OnCall!SchedulesHold
  <2>5. ASSUME NEW i \in DOMAIN s.layers, s.layers[i].rotation # "roster",
               e \in OnCall!Handovers(s.layers[i], s.from)
        PROVE  e \in Int
    <3>1. s.layers[i].start \in Int /\ s.layers[i].length \in Nat \ {0} /\ MaxHandovers \in Nat
      BY <2>5 DEF OnCall!SchedulesHold
    <3> DEFINE l == s.layers[i]
               first == IF l.start > s.from THEN 0 ELSE OnCall!RoundUp(s.from - l.start, l.length)
    <3>2. first \in Int
      <4> DEFINE b == -(s.from - l.start)
                 n == l.length
      <4>1. b \in Int /\ n \in Nat \ {0}
        BY <1>1, <3>1
      <4>2. OnCall!RoundUp(s.from - l.start, l.length) = -(b \div n)
        BY DEF OnCall!RoundUp
      <4> HIDE DEF b, n
      <4>3. b \div n \in Int
        BY <4>1, Division
      <4> QED
        BY <4>2, <4>3
    <3>3. PICK k \in first .. first + MaxHandovers - 1 : e = l.start + k * l.length
      BY <2>5 DEF OnCall!Handovers
    <3> QED
      BY <3>1, <3>2, <3>3
  <2> QED
    BY <2>1, <2>3, <2>4, <2>5
<1> QED
  BY <1>1, <1>2, <1>3

\* The next point comes no later than the others, and no later than the end.
LEMMA NextPointIs ==
  ASSUME OnCall!SchedulesHold, NEW s \in Schedules, NEW rest, rest \subseteq OnCall!Points(s)
  PROVE  LET n == NextPoint(s, rest)
         IN  /\ n \in Nat /\ s.from <= n /\ n <= s.to
             /\ rest # {} => n \in rest /\ n < s.to
             /\ \A e \in rest : e \in Nat /\ n <= e
<1>1. s.to \in Nat /\ s.from \in Nat /\ s.from < s.to /\ \A e \in rest : e \in Nat /\ s.from <= e /\ e < s.to
  BY PointsAre
<1>2. CASE rest = {}
  BY <1>1, <1>2 DEF NextPoint
<1>3. CASE rest # {}
  <2>1. rest \subseteq Nat
    BY <1>1
  <2>2. PICK m \in rest : \A y \in rest : m <= y
    BY <1>3, <2>1, LeastOf
  <2>3. Min(rest) = m
    BY <1>1, <2>2, MinIs
  <2>4. NextPoint(s, rest) = m
    BY <1>3, <2>3 DEF NextPoint
  <2> QED
    BY <1>1, <2>2, <2>4
<1> QED
  BY <1>2, <1>3

\* The shifts are made up to the next point.
LEMMA UptoIs ==
  OnCall!Upto = NextPoint(schedule, points)
BY DEF OnCall!Upto, NextPoint, OnCall!Min, Min

\* What the shifts show of a moment.
LEMMA ShownIs ==
  ASSUME NEW at, NEW who
  PROVE  who \in OnCall!Shown(at) <=>
           \E i \in DOMAIN shifts : shifts[i].startsAt <= at /\ at < shifts[i].endsAt /\ shifts[i].who = who
BY DEF OnCall!Shown

\* No shift says anything at first.
LEMMA RenderStarts ==
  ASSUME OnCall!SchedulesHold, OnCall!Init
  PROVE  RenderInv
<1>1. schedule \in Schedules /\ points = OnCall!Points(schedule) /\ shifts = <<>>
  BY DEF OnCall!Init
<1>2. RenderTypeOK /\ InTurn /\ WithinTurn
  BY <1>1 DEF RenderTypeOK, InTurn, WithinTurn
<1>3. OnCall!Upto = schedule.from
  <2>1. schedule.from \in points /\ schedule.from \in Nat /\ \A e \in points : e \in Nat /\ schedule.from <= e
    BY <1>1, PointsAre
  <2>2. Min(points) = schedule.from
    BY <2>1, MinIs
  <2> QED
    BY <2>1, <2>2, UptoIs DEF NextPoint
<1>4. OnCall!ShiftsAgree
  <2>1. schedule.from \in Nat
    BY <1>1, PointsAre
  <2>2. \A at \in schedule.from .. schedule.from - 1 : FALSE
    BY <2>1
  <2>3. \A i \in 1 .. Len(shifts) - 1 : FALSE
    BY <1>1
  <2> QED
    BY <1>3, <2>2, <2>3 DEF OnCall!ShiftsAgree
<1> QED
  BY <1>2, <1>4 DEF RenderInv

\* What a step finds: the next point, the one after it, and who is on call
\* from the one to the other.
LEMMA StepIs ==
  ASSUME OnCall!SchedulesHold, RenderInv, OnCall!Render
  PROVE  /\ schedule' = schedule /\ points' \subseteq OnCall!Points(schedule)
         /\ schedule.from \in Nat /\ OnCall!Upto \in Nat /\ OnCall!Upto' \in Nat
         /\ schedule.from <= OnCall!Upto /\ OnCall!Upto < OnCall!Upto'
         /\ InTurn'
         /\ \A at \in OnCall!Upto .. OnCall!Upto' - 1 : Who(schedule, at) = Who(schedule, OnCall!Upto)
<1> DEFINE p == OnCall!Upto
           q == NextPoint(schedule, points')
<1>1. schedule \in Schedules /\ points \subseteq OnCall!Points(schedule) /\ InTurn
  BY DEF RenderInv, RenderTypeOK
<1>2. schedule' = schedule /\ points # {} /\ points' = points \ {p}
  BY DEF OnCall!Render
<1>3. OnCall!Upto' = q
  BY <1>2 DEF OnCall!Upto, NextPoint, OnCall!Min, Min
<1>4. /\ schedule.from \in Nat /\ p \in Nat /\ schedule.from <= p /\ p \in points /\ p < schedule.to
      /\ \A e \in points : e \in Nat /\ p <= e
  BY <1>1, <1>2, PointsAre, NextPointIs, UptoIs
<1>5. /\ q \in Nat /\ q <= schedule.to /\ (points' # {} => q \in points') /\ \A e \in points' : q <= e
  BY <1>1, <1>2, NextPointIs
<1>6. p < q
  <2>1. CASE points' = {}
    <3>1. q = schedule.to
      BY <2>1 DEF NextPoint
    <3> QED
      BY <1>4, <3>1
  <2>2. CASE points' # {}
    <3>1. q \in points /\ q # p
      BY <1>2, <1>5, <2>2
    <3> HIDE DEF p, q
    <3> QED
      BY <1>4, <1>5, <3>1
  <2> QED
    BY <2>1, <2>2
<1>7. InTurn'
  <2> SUFFICES ASSUME NEW e \in OnCall!Points(schedule) \ points', NEW f \in points' PROVE e < f
    BY <1>2 DEF InTurn
  <2>1. CASE e \in points
    <3>1. e = p /\ q <= f /\ f \in points
      BY <1>2, <1>5, <2>1
    <3> HIDE DEF p, q
    <3> QED
      BY <1>4, <1>5, <1>6, <3>1
  <2>2. CASE e \notin points
    BY <1>1, <1>2, <2>2 DEF InTurn
  <2> QED
    BY <2>1, <2>2
<1>8. ASSUME NEW at \in p .. q - 1 PROVE Who(schedule, at) = Who(schedule, p)
  <2>1. at \in Int /\ p <= at /\ at < q /\ at < schedule.to /\ schedule.to \in Nat
    <3>1. schedule.to \in Nat
      BY <1>1, PointsAre
    <3> HIDE DEF p, q
    <3> QED
      BY <1>4, <1>5, <1>8, <3>1
  <2>2. ASSUME NEW e \in OnCall!Points(schedule), p < e, e <= at PROVE FALSE
    <3>1. e \in Nat
      BY <1>1, PointsAre
    <3>2. CASE e \in points'
      <4>1. q <= e
        BY <1>5, <3>2
      <4> HIDE DEF p, q
      <4> QED
        BY <1>5, <2>1, <2>2, <3>1, <4>1
    <3>3. CASE e = p
      BY <1>4, <2>2, <3>3
    <3>4. CASE e \notin points
      <4>1. e < p
        BY <1>1, <1>4, <3>4 DEF InTurn
      <4> HIDE DEF p, q
      <4> QED
        BY <1>4, <2>2, <3>1, <4>1
    <3> QED
      BY <1>2, <3>2, <3>3, <3>4
  <2>3. Between(schedule, p, at)
    BY <1>1, <1>4, <2>1, <2>2 DEF Between, NoneUntil
  <2> QED
    BY <1>4, <2>1, <2>3, NobodyElse DEF Who
<1> HIDE DEF p, q
<1> QED
  BY <1>1, <1>2, <1>3, <1>4, <1>5, <1>6, <1>7, <1>8 DEF p

\* What the invariant says of each shift.
LEMMA ShiftsAre ==
  ASSUME RenderInv, OnCall!Upto \in Nat
  PROVE  /\ Len(shifts) \in Nat /\ DOMAIN shifts = 1 .. Len(shifts) /\ (shifts # <<>> => Len(shifts) >= 1)
         /\ \A i \in 1 .. Len(shifts) :
              /\ shifts[i] \in Shift(schedule) /\ shifts[i].startsAt \in Nat /\ shifts[i].endsAt \in Nat
              /\ shifts[i].startsAt < shifts[i].endsAt /\ shifts[i].endsAt <= OnCall!Upto
<1>1. shifts \in Seq(Shift(schedule)) /\ WithinTurn
  BY DEF RenderInv, RenderTypeOK
<1>2. Len(shifts) \in Nat /\ DOMAIN shifts = 1 .. Len(shifts) /\ (shifts # <<>> => Len(shifts) >= 1)
  BY <1>1
<1>3. \A i \in 1 .. Len(shifts) : shifts[i] \in Shift(schedule)
  BY <1>1, <1>2
<1>4. \A i \in 1 .. Len(shifts) : shifts[i].startsAt \in Nat /\ shifts[i].endsAt \in Nat
  BY <1>3 DEF Shift
<1>5. \A i \in 1 .. Len(shifts) : shifts[i].startsAt < shifts[i].endsAt /\ shifts[i].endsAt <= OnCall!Upto
  BY <1>1, <1>2 DEF WithinTurn
<1> QED
  BY <1>2, <1>3, <1>4, <1>5

\* The shifts of the next state, of which what is known is said of each.
NextShiftsOK(p, q, who) ==
  /\ shifts' \in Seq(Shift(schedule))
  /\ \A i \in DOMAIN shifts' : shifts'[i].startsAt < shifts'[i].endsAt /\ shifts'[i].endsAt <= q
  /\ \A at \in schedule.from .. p - 1 : OnCall!Shown(at)' = OnCall!Shown(at)
  /\ \A at \in p .. q - 1 : OnCall!Shown(at)' = IF who.user = Nobody THEN {} ELSE {who}
  /\ \A i \in 1 .. Len(shifts') - 1 :
       \/ shifts'[i].endsAt < shifts'[i + 1].startsAt
       \/ shifts'[i].endsAt = shifts'[i + 1].startsAt /\ shifts'[i].who # shifts'[i + 1].who

\* What the shifts must do to agree with the pager up to the next point: say
\* the same of what was before it, and who is on call from there on.
LEMMA NextShiftsAgree ==
  ASSUME OnCall!SchedulesHold, RenderInv, OnCall!Render,
         NextShiftsOK(OnCall!Upto, OnCall!Upto', Who(schedule, OnCall!Upto))
  PROVE  RenderInv'
<1> DEFINE p == OnCall!Upto
           q == OnCall!Upto'
           who == Who(schedule, p)
           from == schedule.from
<1>1. /\ schedule' = schedule /\ points' \subseteq OnCall!Points(schedule) /\ InTurn'
      /\ from \in Nat /\ p \in Nat /\ q \in Nat /\ from <= p /\ p < q
      /\ \A at \in p .. q - 1 : Who(schedule, at) = who
  BY StepIs
<1>2. schedule \in Schedules /\ \A at \in from .. p - 1 : OnCall!Shown(at) = OnCall!Told(at)
  BY DEF RenderInv, RenderTypeOK, OnCall!ShiftsAgree
<1>3. \A at : OnCall!Told(at)' = OnCall!Told(at)
  BY <1>1 DEF OnCall!Told
<1>4. \A at \in p .. q - 1 : OnCall!Told(at) = IF who.user = Nobody THEN {} ELSE {who}
  BY <1>1 DEF OnCall!Told, Who
<1>5. /\ \A at \in from .. p - 1 : OnCall!Shown(at)' = OnCall!Shown(at)
      /\ \A at \in p .. q - 1 : OnCall!Shown(at)' = IF who.user = Nobody THEN {} ELSE {who}
  BY DEF NextShiftsOK
<1>6. RenderTypeOK' /\ WithinTurn'
  BY <1>1, <1>2 DEF RenderTypeOK, WithinTurn, NextShiftsOK
<1>7. ASSUME NEW at \in from .. q - 1 PROVE OnCall!Shown(at)' = OnCall!Told(at)'
  <2> HIDE DEF p, q, who, from
  <2>1. at \in from .. p - 1 \/ at \in p .. q - 1
    BY <1>1, <1>7
  <2> QED
    BY <1>2, <1>3, <1>4, <1>5, <2>1
<1>8. OnCall!ShiftsAgree'
  BY <1>1, <1>7 DEF OnCall!ShiftsAgree, NextShiftsOK
<1> QED
  BY <1>1, <1>6, <1>8 DEF RenderInv

\* What the shifts of either state show of a moment.
LEMMA ShowsIs ==
  ASSUME NEW at, NEW w
  PROVE  /\ w \in OnCall!Shown(at) <=>
              \E i \in DOMAIN shifts : shifts[i].startsAt <= at /\ at < shifts[i].endsAt /\ shifts[i].who = w
         /\ w \in OnCall!Shown(at)' <=>
              \E i \in DOMAIN shifts' : shifts'[i].startsAt <= at /\ at < shifts'[i].endsAt /\ shifts'[i].who = w
BY DEF OnCall!Shown

\* Nobody is on call: no shift is made.
LEMMA NobodyOn ==
  ASSUME RenderInv, NEW p \in Nat, NEW q \in Nat, p < q, p = OnCall!Upto, schedule.from \in Nat, schedule.from <= p,
         NEW who, who.user = Nobody, shifts' = shifts
  PROVE  NextShiftsOK(p, q, who)
<1>1. /\ Len(shifts) \in Nat /\ DOMAIN shifts = 1 .. Len(shifts)
      /\ \A i \in 1 .. Len(shifts) :
           /\ shifts[i].startsAt \in Nat /\ shifts[i].endsAt \in Nat
           /\ shifts[i].startsAt < shifts[i].endsAt /\ shifts[i].endsAt <= p
  BY ShiftsAre
<1>2. \A at : OnCall!Shown(at)' = OnCall!Shown(at)
  BY DEF OnCall!Shown
<1>3. ASSUME NEW at \in p .. q - 1 PROVE OnCall!Shown(at) = {}
  <2>1. \A w : w \notin OnCall!Shown(at)
    BY <1>1, <1>3, ShowsIs
  <2> QED
    BY <2>1
<1>4. \A i \in DOMAIN shifts' : shifts'[i].startsAt < shifts'[i].endsAt /\ shifts'[i].endsAt <= q
  BY <1>1
<1>5. /\ shifts' \in Seq(Shift(schedule))
      /\ \A i \in 1 .. Len(shifts') - 1 :
           \/ shifts'[i].endsAt < shifts'[i + 1].startsAt
           \/ shifts'[i].endsAt = shifts'[i + 1].startsAt /\ shifts'[i].who # shifts'[i + 1].who
  BY DEF RenderInv, RenderTypeOK, OnCall!ShiftsAgree
<1> QED
  BY <1>2, <1>3, <1>4, <1>5 DEF NextShiftsOK

\* The same person carries on: the last shift ends later.
LEMMA CarriesOn ==
  ASSUME RenderInv, NEW p \in Nat, NEW q \in Nat, p < q, p = OnCall!Upto, schedule.from \in Nat, schedule.from <= p,
         NEW who, who.user # Nobody, shifts # <<>>,
         shifts[Len(shifts)].who = who, shifts[Len(shifts)].endsAt = p,
         shifts' = [shifts EXCEPT ![Len(shifts)].endsAt = q]
  PROVE  NextShiftsOK(p, q, who)
<1> DEFINE n == Len(shifts)
<1>1. /\ n \in Nat /\ DOMAIN shifts = 1 .. n /\ n >= 1
      /\ \A i \in 1 .. n :
           /\ shifts[i] \in Shift(schedule) /\ shifts[i].startsAt \in Nat /\ shifts[i].endsAt \in Nat
           /\ shifts[i].startsAt < shifts[i].endsAt /\ shifts[i].endsAt <= p
  BY ShiftsAre
<1>2. shifts \in Seq(Shift(schedule))
  BY DEF RenderInv, RenderTypeOK
<1>3. [shifts[n] EXCEPT !.endsAt = q] \in Shift(schedule)
  BY <1>1 DEF Shift
<1>4. shifts' \in Seq(Shift(schedule)) /\ Len(shifts') = n /\ DOMAIN shifts' = 1 .. n
  BY <1>1, <1>2, <1>3
<1>5. /\ \A i \in 1 .. n - 1 : shifts'[i] = shifts[i]
      /\ shifts'[n] = [shifts[n] EXCEPT !.endsAt = q]
  BY <1>1
<1>6. /\ \A i \in 1 .. n : shifts'[i].startsAt = shifts[i].startsAt /\ shifts'[i].who = shifts[i].who
      /\ \A i \in 1 .. n - 1 : shifts'[i].endsAt = shifts[i].endsAt
      /\ shifts'[n].endsAt = q
  <2>1. shifts'[n].startsAt = shifts[n].startsAt /\ shifts'[n].who = shifts[n].who /\ shifts'[n].endsAt = q
    BY <1>1, <1>5 DEF Shift
  <2>2. \A i \in 1 .. n : i \in 1 .. n - 1 \/ i = n
    BY <1>1
  <2> QED
    BY <1>5, <2>1, <2>2
<1>7. \A i \in 1 .. n - 1 :
        \/ shifts[i].endsAt < shifts[i + 1].startsAt
        \/ shifts[i].endsAt = shifts[i + 1].startsAt /\ shifts[i].who # shifts[i + 1].who
  BY DEF RenderInv, OnCall!ShiftsAgree
<1>n. n \in 1 .. n /\ shifts[n].who = who /\ shifts[n].endsAt = p /\ \A i \in 1 .. n - 1 : i \in 1 .. n /\ i + 1 \in 1 .. n
  BY <1>1
<1> HIDE DEF n
<1>8. \A i \in DOMAIN shifts' : shifts'[i].startsAt < shifts'[i].endsAt /\ shifts'[i].endsAt <= q
  <2>1. \A i \in 1 .. n : i \in 1 .. n - 1 \/ i = n
    BY <1>1
  <2>2. \A i \in 1 .. n - 1 : shifts'[i].startsAt < shifts'[i].endsAt /\ shifts'[i].endsAt <= q
    BY <1>1, <1>6, <1>n
  <2>3. shifts'[n].startsAt < shifts'[n].endsAt /\ shifts'[n].endsAt <= q
    BY <1>1, <1>6, <1>n
  <2> QED
    BY <1>4, <2>1, <2>2, <2>3
<1>9. ASSUME NEW at \in schedule.from .. p - 1 PROVE OnCall!Shown(at)' = OnCall!Shown(at)
  <2>1. at \in Int /\ at < p /\ at < q
    BY <1>9
  <2>2. \A i \in 1 .. n : i \in 1 .. n - 1 \/ i = n
    BY <1>1
  <2>3. \A i \in 1 .. n : at < shifts'[i].endsAt <=> at < shifts[i].endsAt
    BY <1>6, <1>n, <2>1, <2>2
  <2>4. ASSUME NEW w PROVE w \in OnCall!Shown(at)' <=> w \in OnCall!Shown(at)
    <3>1. \A i \in 1 .. n :
            shifts'[i].startsAt <= at /\ at < shifts'[i].endsAt /\ shifts'[i].who = w
              <=> shifts[i].startsAt <= at /\ at < shifts[i].endsAt /\ shifts[i].who = w
      BY <1>6, <2>3
    <3>2. w \in OnCall!Shown(at)' <=>
            \E i \in 1 .. n : shifts'[i].startsAt <= at /\ at < shifts'[i].endsAt /\ shifts'[i].who = w
      BY <1>4, ShowsIs
    <3>3. w \in OnCall!Shown(at) <=>
            \E i \in 1 .. n : shifts[i].startsAt <= at /\ at < shifts[i].endsAt /\ shifts[i].who = w
      BY <1>1, ShowsIs
    <3> QED
      BY <3>1, <3>2, <3>3
  <2> QED
    BY <2>4
<1>10. ASSUME NEW at \in p .. q - 1 PROVE OnCall!Shown(at)' = {who}
  <2>1. at \in Int /\ p <= at /\ at < q
    BY <1>10
  <2>2. \A i \in 1 .. n : i \in 1 .. n - 1 \/ i = n
    BY <1>1
  <2>3. \A i \in 1 .. n - 1 : ~(at < shifts'[i].endsAt)
    BY <1>1, <1>6, <1>n, <2>1
  <2>4. shifts'[n].startsAt <= at /\ at < shifts'[n].endsAt /\ shifts'[n].who = who
    BY <1>1, <1>6, <1>n, <2>1
  <2>5. ASSUME NEW w PROVE w \in OnCall!Shown(at)' <=> w = who
    <3>1. w \in OnCall!Shown(at)' <=>
            \E i \in 1 .. n : shifts'[i].startsAt <= at /\ at < shifts'[i].endsAt /\ shifts'[i].who = w
      BY <1>4, ShowsIs
    <3> QED
      BY <1>n, <2>2, <2>3, <2>4, <3>1
  <2> QED
    BY <2>5
<1>11. \A i \in 1 .. Len(shifts') - 1 :
         \/ shifts'[i].endsAt < shifts'[i + 1].startsAt
         \/ shifts'[i].endsAt = shifts'[i + 1].startsAt /\ shifts'[i].who # shifts'[i + 1].who
  BY <1>4, <1>6, <1>7, <1>n
<1> QED
  BY <1>4, <1>8, <1>9, <1>10, <1>11 DEF NextShiftsOK

\* Somebody else comes on: a shift is added.
LEMMA ComesOn ==
  ASSUME RenderInv, NEW p \in Nat, NEW q \in Nat, p < q, p = OnCall!Upto, schedule.from \in Nat, schedule.from <= p,
         NEW who, who.user # Nobody, who = Who(schedule, p),
         ~(shifts # <<>> /\ shifts[Len(shifts)].who = who /\ shifts[Len(shifts)].endsAt = p),
         shifts' = Append(shifts, [who |-> who, startsAt |-> p, endsAt |-> q])
  PROVE  NextShiftsOK(p, q, who)
<1> DEFINE n == Len(shifts)
           m == n + 1
<1>1. /\ n \in Nat /\ DOMAIN shifts = 1 .. n
      /\ \A i \in 1 .. n :
           /\ shifts[i].startsAt \in Nat /\ shifts[i].endsAt \in Nat
           /\ shifts[i].startsAt < shifts[i].endsAt /\ shifts[i].endsAt <= p
  BY ShiftsAre
<1>2. shifts \in Seq(Shift(schedule))
  BY DEF RenderInv, RenderTypeOK
<1>3. [who |-> who, startsAt |-> p, endsAt |-> q] \in Shift(schedule)
  BY DEF Shift
<1>4. /\ shifts' \in Seq(Shift(schedule)) /\ Len(shifts') = m /\ DOMAIN shifts' = 1 .. m
      /\ \A i \in 1 .. n : shifts'[i] = shifts[i]
      /\ shifts'[m] = [who |-> who, startsAt |-> p, endsAt |-> q]
  BY <1>1, <1>2, <1>3
<1>5. shifts'[m].who = who /\ shifts'[m].startsAt = p /\ shifts'[m].endsAt = q
  BY <1>4
<1>6. \A i \in 1 .. m : i \in 1 .. n \/ i = m
  BY <1>1
<1>7. \A i \in 1 .. n - 1 :
        \/ shifts[i].endsAt < shifts[i + 1].startsAt
        \/ shifts[i].endsAt = shifts[i + 1].startsAt /\ shifts[i].who # shifts[i + 1].who
  BY DEF RenderInv, OnCall!ShiftsAgree
<1>8. n \in 1 .. n => shifts[n].endsAt < p \/ (shifts[n].endsAt = p /\ shifts[n].who # who)
  <2>1. n \in 1 .. n => shifts # <<>>
    BY <1>1, <1>2
  <2> QED
    BY <1>1, <2>1
<1>n. m \in 1 .. m /\ \A i \in 1 .. n : i \in 1 .. m /\ (i # n => i \in 1 .. n - 1 /\ i + 1 \in 1 .. n)
  <2>1. n \in Nat
    BY <1>1
  <2> HIDE DEF n
  <2> QED
    BY <2>1
<1>9. \A i \in DOMAIN shifts' : shifts'[i].startsAt < shifts'[i].endsAt /\ shifts'[i].endsAt <= q
  <2>1. \A i \in 1 .. n : shifts'[i].startsAt < shifts'[i].endsAt /\ shifts'[i].endsAt <= q
    BY <1>1, <1>4
  <2>2. shifts'[m].startsAt < shifts'[m].endsAt /\ shifts'[m].endsAt <= q
    BY <1>5
  <2> QED
    BY <1>4, <1>6, <2>1, <2>2
<1>10. ASSUME NEW at \in schedule.from .. p - 1 PROVE OnCall!Shown(at)' = OnCall!Shown(at)
  <2>1. at \in Int /\ ~(p <= at)
    BY <1>10
  <2>2. ASSUME NEW w PROVE w \in OnCall!Shown(at)' <=> w \in OnCall!Shown(at)
    <3>1. w \in OnCall!Shown(at)' <=>
            \E i \in 1 .. m : shifts'[i].startsAt <= at /\ at < shifts'[i].endsAt /\ shifts'[i].who = w
      BY <1>4, ShowsIs
    <3>2. w \in OnCall!Shown(at) <=>
            \E i \in DOMAIN shifts : shifts[i].startsAt <= at /\ at < shifts[i].endsAt /\ shifts[i].who = w
      BY ShowsIs
    <3>3. ~(shifts'[m].startsAt <= at)
      BY <1>5, <2>1
    <3> QED
      BY <1>1, <1>4, <1>6, <1>n, <3>1, <3>2, <3>3
  <2> QED
    BY <2>2
<1>11. ASSUME NEW at \in p .. q - 1 PROVE OnCall!Shown(at)' = {who}
  <2>1. at \in Int /\ p <= at /\ at < q
    BY <1>11
  <2>2. \A i \in 1 .. n : ~(at < shifts'[i].endsAt)
    BY <1>1, <1>4, <2>1
  <2>3. ASSUME NEW w PROVE w \in OnCall!Shown(at)' <=> w = who
    <3>1. w \in OnCall!Shown(at)' <=>
            \E i \in 1 .. m : shifts'[i].startsAt <= at /\ at < shifts'[i].endsAt /\ shifts'[i].who = w
      BY <1>4, ShowsIs
    <3>2. shifts'[m].startsAt <= at /\ at < shifts'[m].endsAt
      BY <1>5, <2>1
    <3> QED
      BY <1>5, <1>6, <1>n, <2>2, <3>1, <3>2
  <2> QED
    BY <2>3
<1>12. ASSUME NEW i \in 1 .. Len(shifts') - 1
       PROVE  \/ shifts'[i].endsAt < shifts'[i + 1].startsAt
              \/ shifts'[i].endsAt = shifts'[i + 1].startsAt /\ shifts'[i].who # shifts'[i + 1].who
  <2>1. i \in 1 .. n
    BY <1>1, <1>4, <1>12
  <2>2. CASE i = n
    BY <1>4, <1>5, <1>8, <2>1, <2>2
  <2>3. CASE i # n
    <3>1. i \in 1 .. n - 1 /\ i + 1 \in 1 .. n
      BY <1>n, <2>1, <2>3
    <3>2. shifts'[i] = shifts[i] /\ shifts'[i + 1] = shifts[i + 1]
      BY <1>4, <2>1, <3>1
    <3> QED
      BY <1>7, <3>1, <3>2
  <2> QED
    BY <2>2, <2>3
<1> QED
  BY <1>4, <1>9, <1>10, <1>11, <1>12 DEF NextShiftsOK

\* Every step of renderShifts keeps the invariant.
LEMMA RenderKeeps ==
  ASSUME OnCall!SchedulesHold, RenderInv, OnCall!Render
  PROVE  RenderInv'
<1> DEFINE p == OnCall!Upto
           q == OnCall!Upto'
           who == Who(schedule, p)
           carries == shifts # <<>> /\ shifts[Len(shifts)].who = who /\ shifts[Len(shifts)].endsAt = p
<1>1. p \in Nat /\ q \in Nat /\ p < q /\ schedule.from \in Nat /\ schedule.from <= p
  BY StepIs
<1>2. shifts' = IF who.user = Nobody THEN shifts
                ELSE IF carries THEN [shifts EXCEPT ![Len(shifts)].endsAt = q]
                ELSE Append(shifts, [who |-> who, startsAt |-> p, endsAt |-> q])
  BY DEF OnCall!Render, Who
<1> SUFFICES NextShiftsOK(p, q, who)
  BY NextShiftsAgree
<1>3. CASE who.user = Nobody
  BY <1>1, <1>2, <1>3, NobodyOn
<1>4. CASE who.user # Nobody /\ carries
  BY <1>1, <1>2, <1>4, CarriesOn
<1>5. CASE who.user # Nobody /\ ~carries
  BY <1>1, <1>2, <1>5, ComesOn
<1> QED
  BY <1>3, <1>4, <1>5

\* The shifts people look at say of every moment of any range that is not too
\* long for its rotations what the pager is told, joined where somebody stays.
THEOREM ShiftsSayWhoIsTold == OnCall!SchedulesHold /\ OnCall!Spec => []OnCall!ShiftsAgree
<1> SUFFICES ASSUME OnCall!SchedulesHold PROVE OnCall!Spec => []OnCall!ShiftsAgree
  OBVIOUS
<1>1. OnCall!Init => RenderInv
  BY RenderStarts
<1>2. RenderInv /\ [OnCall!Next]_(OnCall!vars) => RenderInv'
  <2> SUFFICES ASSUME RenderInv, [OnCall!Next]_(OnCall!vars) PROVE RenderInv'
    OBVIOUS
  <2>1. CASE OnCall!Render
    BY <2>1, RenderKeeps
  <2>2. CASE UNCHANGED OnCall!vars
    <3>1. schedule' = schedule /\ points' = points /\ shifts' = shifts
      BY <2>2 DEF OnCall!vars
    <3>2. OnCall!Upto' = OnCall!Upto
      BY <3>1 DEF OnCall!Upto
    <3>3. \A at : OnCall!Shown(at)' = OnCall!Shown(at) /\ OnCall!Told(at)' = OnCall!Told(at)
      BY <3>1 DEF OnCall!Shown, OnCall!Told
    <3>4. RenderTypeOK' /\ InTurn' /\ WithinTurn'
      BY <3>1, <3>2 DEF RenderInv, RenderTypeOK, InTurn, WithinTurn
    <3>5. OnCall!ShiftsAgree'
      BY <3>1, <3>2, <3>3 DEF RenderInv, OnCall!ShiftsAgree
    <3> QED
      BY <3>4, <3>5 DEF RenderInv
  <2> QED
    BY <2>1, <2>2 DEF OnCall!Next
<1>3. RenderInv => OnCall!ShiftsAgree
  BY DEF RenderInv
<1> QED
  BY <1>1, <1>2, <1>3, PTL DEF OnCall!Spec
=============================================================================
