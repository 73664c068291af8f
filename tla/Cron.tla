-------------------------------- MODULE Cron --------------------------------
(***************************************************************************)
(* nextCronTime (server/ops/cron.ts): the first minute strictly after a    *)
(* moment that a five-field expression matches.  The search skips months,  *)
(* days and hours that cannot match as a whole.                            *)
(*                                                                         *)
(* Times are minutes of the calendar, and the moment is in half minutes,   *)
(* for its seconds are dropped.  A field is the set of values it parses    *)
(* to; a day field is also "*" or restricted.                              *)
(***************************************************************************)
EXTENDS Calendar, FiniteSets, FiniteSetsExt

CONSTANTS
  HourMinutes,  \* minutes of an hour
  DayHours,     \* hours of a day
  Patience,     \* how many steps the search takes before it gives up
  Moments       \* the moments the next time is asked for, in half minutes

ClockHolds == HourMinutes \in Nat \ {0} /\ DayHours \in Nat \ {0}

\* The patience is enough for a round of the calendar.
PatienceEnough ==
  Moments \subseteq Nat /\ Patience \in Nat /\ Patience >= CycleDays + 2 * (DayHours + HourMinutes)

VARIABLES
  spec,   \* the expression, parsed
  after,  \* the moment, in half minutes
  t,      \* the minute the search is at
  steps,  \* how many it has taken
  answer  \* "none" while it goes on

vars == <<spec, after, t, steps, answer>>

Minutes == HourMinutes * DayHours  \* of a day
HourOfDay(m) == (m % Minutes) \div HourMinutes
MinuteOfHour(m) == m % HourMinutes
Day(m) == m \div Minutes

LongestMonth == Max({MonthDays(i) : i \in Months})

Restricted(all) == {[any |-> FALSE, values |-> v] : v \in (SUBSET all) \ {{}}}
Field(all) == {[any |-> TRUE, values |-> all]} \cup Restricted(all)

Spec5 == [minute : (SUBSET (0 .. HourMinutes - 1)) \ {{}}, hour : (SUBSET (0 .. DayHours - 1)) \ {{}},
          dayOfMonth : Field(1 .. LongestMonth), month : (SUBSET (1 .. YearMonths)) \ {{}},
          dayOfWeek : Field(0 .. WeekDays - 1)]

Init ==
  /\ spec \in Spec5
  /\ after \in Moments
  /\ t = after \div 2 + 1
  /\ steps = 0 /\ answer = "none"

\* Classic cron: when both day fields are restricted, either may match.
DayMatches(m) ==
  LET domMatch == DayOfMonth(Day(m)) \in spec.dayOfMonth.values
      dowMatch == DayOfWeek(Day(m)) \in spec.dayOfWeek.values
  IN  IF spec.dayOfMonth.any /\ spec.dayOfWeek.any THEN TRUE
      ELSE IF spec.dayOfMonth.any THEN dowMatch
      ELSE IF spec.dayOfWeek.any THEN domMatch ELSE domMatch \/ dowMatch

MonthMatches(m) == Month(Day(m)) \in spec.month
HourMatches(m) == HourOfDay(m) \in spec.hour
MinuteMatches(m) == MinuteOfHour(m) \in spec.minute

\* The first minutes of the next month, day and hour.
NextMonth(m) == FirstOfNextMonth(Day(m)) * Minutes
NextHour(m) == (m \div HourMinutes + 1) * HourMinutes

\* Mutant: the hour is not set back to the first.
NextDayLater(m) == m + Minutes

NextDay(m) == (Day(m) + 1) * Minutes

Skip(to) ==
  /\ answer = "none" /\ steps < Patience
  /\ t' = to
  /\ steps' = steps + 1
  /\ UNCHANGED <<spec, after, answer>>

SkipMonth == ~MonthMatches(t) /\ Skip(NextMonth(t))
SkipDay == MonthMatches(t) /\ ~DayMatches(t) /\ Skip(NextDay(t))
SkipHour == MonthMatches(t) /\ DayMatches(t) /\ ~HourMatches(t) /\ Skip(NextHour(t))
SkipMinute ==
  MonthMatches(t) /\ DayMatches(t) /\ HourMatches(t) /\ ~MinuteMatches(t) /\ Skip(t + 1)

Answer(a) ==
  /\ answer = "none"
  /\ answer' = a
  /\ UNCHANGED <<spec, after, t, steps>>

Found ==
  /\ steps < Patience
  /\ MonthMatches(t) /\ DayMatches(t) /\ HourMatches(t) /\ MinuteMatches(t)
  /\ Answer("found")

\* "Four years of minutes is more than any valid expression needs."
GiveUp == steps = Patience /\ Answer("never")

Next == SkipMonth \/ SkipDay \/ SkipHour \/ SkipMinute \/ Found \/ GiveUp

Spec == Init /\ [][Next]_vars

-----------------------------------------------------------------------------
(* What the search promises. *)

\* What an expression means: each restricted field matches, but of two day
\* fields that are both restricted one is enough.
Matches(m) ==
  LET dom == spec.dayOfMonth
      dow == spec.dayOfWeek
      Fits(f, value) == f.any \/ value \in f.values
      InDom == Fits(dom, DayOfMonth(Day(m)))
      InDow == Fits(dow, DayOfWeek(Day(m)))
  IN  /\ MinuteOfHour(m) \in spec.minute /\ HourOfDay(m) \in spec.hour /\ Month(Day(m)) \in spec.month
      /\ IF ~dom.any /\ ~dow.any THEN InDom \/ InDow ELSE InDom /\ InDow

\* Over two rounds of the calendar, after which there is nothing new to match.
Rounds == after \div 2 .. after \div 2 + 2 * (CycleDays * Minutes)
Later == {m \in Rounds : 2 * m > after /\ Matches(m)}

\* The answer is the first minute strictly after the moment that matches, and
\* there is none only if nothing ever does.
FirstMatch ==
  /\ answer = "found" => t \in Later /\ t = Min(Later)
  /\ answer = "never" => Later = {}
=============================================================================
