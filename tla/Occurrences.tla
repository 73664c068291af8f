---------------------------- MODULE Occurrences -----------------------------
(***************************************************************************)
(* When a maintenance window takes place (server/ops/maintenance.ts).  A   *)
(* series is never written out: what of it overlaps a range is worked out  *)
(* from its recurrence, at a wall-clock time of its own time zone, and     *)
(* from the changes people made to single occurrences.                     *)
(*                                                                         *)
(* A window is [kind, date, time, length, until, days, dayOfMonth]; a      *)
(* change is [key, skipped, endsAt], for the occurrence whose planned      *)
(* start is `key`.                                                         *)
(***************************************************************************)
EXTENDS Calendar, FiniteSets, FiniteSetsExt

CONSTANTS
  DayLength,  \* units of time in a day
  MaxDays,    \* the most days that expandOccurrences looks at
  Never       \* no end of the series, no end that was changed

-----------------------------------------------------------------------------
(* Time zones: a clock ahead of UTC that is moved once. *)

\* zoneOffsetMs.
Offset(zone, t) == IF t < zone.moved THEN zone.before ELSE zone.after
LocalDay(t, zone) == (t + Offset(zone, t)) \div DayLength

\* The offset where the first guess leads may differ from the one at the guess.
ZonedTimeToUtc(day, time, zone) ==
  LET guess == day * DayLength + time
  IN  guess - Offset(zone, guess - Offset(zone, guess))

-----------------------------------------------------------------------------
(* expandOccurrences. *)

\* Whether a series takes place on a day of its time.
TakesPlace(window, day) ==
  CASE window.kind = "daily" -> TRUE
    [] window.kind = "weekly" -> DayOfWeek(day) \in window.days
    [] window.kind = "monthly" ->
         DayOfMonth(day) = Min({window.dayOfMonth, LastOfMonth(day)})

\* What the changes leave of an occurrence, if it overlaps the range.
Make(window, changes, start, from, to) ==
  LET mine == {c \in changes : c.key = start}
      ends == {c.endsAt : c \in mine} \ {Never}
      end == IF ends = {} THEN start + window.length ELSE Max(ends)
  IN  IF (\E c \in mine : c.skipped) \/ end <= start \/ end <= from \/ start >= to THEN {}
      ELSE {[key |-> start, endsAt |-> end]}

CeilDiv(a, b) == -((-a) \div b)

\* Mutant: an occurrence begun before the range is not looked for.
LookBackNone(window) == 0

\* In days, from that of the range's start.
LookBack(window) == CeilDiv(window.length, DayLength) + 1

Expand(window, zone, changes, from, to) ==
  LET first == Max({window.date, LocalDay(from, zone) - LookBack(window)})
      last == Min({LocalDay(to, zone) + 1} \cup ({window.until} \ {Never}))
  IN  IF window.kind = "none"
      THEN Make(window, changes, window.date * DayLength + window.time, from, to)
      ELSE UNION {Make(window, changes, ZonedTimeToUtc(day, window.time, zone), from, to) :
                    day \in {d \in first .. Min({last, first + MaxDays - 1}) : TakesPlace(window, d)}}

-----------------------------------------------------------------------------

\* "Every occurrence of a window overlapping [from, to)", whenever it began:
\* looked for among all the days of a series.
AllFound(window, zone, changes, from, to, days) ==
  LET takes == {d \in days : /\ window.kind # "none" /\ TakesPlace(window, d) /\ window.date <= d
                             /\ window.until # Never => d <= window.until}
      planned == IF window.kind = "none" THEN {window.date * DayLength + window.time}
                 ELSE {ZonedTimeToUtc(d, window.time, zone) : d \in takes}
      Skipped(p) == \E c \in changes : c.key = p /\ c.skipped
      Ends(p) == IF \E c \in changes : c.key = p /\ c.endsAt # Never
                 THEN (CHOOSE c \in changes : c.key = p).endsAt ELSE p + window.length
      Overlaps(p) == from < Ends(p) /\ p < to /\ p < Ends(p)
  IN  Expand(window, zone, changes, from, to) =
        {[key |-> p, endsAt |-> Ends(p)] : p \in {q \in planned : ~Skipped(q) /\ Overlaps(q)}}

\* "The UTC instant at which a wall clock shows this date and time", on every
\* day on which the clock shows it.
WallClock(day, time, zone) ==
  LET shown == {t \in (day - 1) * DayLength .. (day + 2) * DayLength :
                  t + Offset(zone, t) = day * DayLength + time}
  IN  shown = {} \/ ZonedTimeToUtc(day, time, zone) \in shown
=============================================================================
