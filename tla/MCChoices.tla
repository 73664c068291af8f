----------------------------- MODULE MCChoices ------------------------------
(***************************************************************************)
(* What the server works out from rows and the time, against what it is    *)
(* meant to be, for TLC: who is on call, when a backup is next due, and    *)
(* when maintenance takes place.  The first two go on step by step; the    *)
(* last is asked of every small input.  MCOverlap runs this module.        *)
(***************************************************************************)
EXTENDS Integers, Sequences, FiniteSets, TLC

CONSTANTS
  u, v, w, Nobody, Never,
  Longest  \* bound: how long an occurrence lasts once it has been extended

VARIABLES question, asked, schedule, points, shifts, spec, after, t, steps, answer

render == <<schedule, points, shifts>>
search == <<spec, after, t, steps, answer>>
vars == <<question, asked, render, search>>

-----------------------------------------------------------------------------
(* The components, and how small they are here. *)

\* Two years of two months, the second with a leap day; two hours of two minutes.
\* Asked for from every moment of the first day on.
Cron == INSTANCE Cron WITH
  WeekDays <- 3, YearMonths <- 2, FirstDays <- <<0, 3, 4, 7, 9>>, HourMinutes <- 2, DayHours <- 2, Patience <- 30,
  Moments <- 0 .. 7

\* Days of four parts.
Occurrences == INSTANCE Occurrences WITH
  WeekDays <- 3, YearMonths <- 2, FirstDays <- <<0, 3, 5>>, DayLength <- 4, MaxDays <- 7

-----------------------------------------------------------------------------
(* Schedules of up to two layers and two overrides, over six hours. *)

Spans == {<<s, e>> \in {0, 2, 3, 5} \X {0, 2, 3, 5} : s < e}
Entry(user, span) == [user |-> user, startsAt |-> span[1], endsAt |-> span[2]]

Rotations ==
  {[rotation |-> "custom", start |-> s, length |-> l, members |-> m, entries |-> <<>>] :
     s \in {0, 3}, l \in {1, 2}, m \in {<<>>, <<u>>, <<u, v>>}}

\* Sorted, without an overlap (parseRosterEntries).
Rosters ==
  {[rotation |-> "roster", start |-> 0, length |-> 7, members |-> <<>>, entries |-> e] :
     e \in {<<Entry(u, s)>> : s \in Spans}
       \cup {<<Entry(u, s[1]), Entry(x, s[2])>> : s \in {s \in Spans \X Spans : s[1][2] <= s[2][1]}, x \in {u, v}}}

Layers == {<<l>> : l \in Rotations \cup Rosters} \cup ((Rotations \cup Rosters) \X (Rotations \cup Rosters))

\* In the order of their starts.
Overrides ==
  {<<>>} \cup {<<Entry(w, s)>> : s \in Spans}
    \cup {<<Entry(w, s[1]), Entry(u, s[2])>> : s \in {s \in Spans \X Spans : s[1][1] <= s[2][1]}}

OnCall == INSTANCE OnCall WITH
  MaxHandovers <- 6, Schedules <- [layers : Layers, overrides : Overrides, from : {0, 1}, to : {6}]

-----------------------------------------------------------------------------
(* Windows and zones, and one change of one occurrence. *)

Windows ==
  [kind : {"none", "daily", "monthly"}, date : {1, 2}, time : {0, 3}, length : {1, 4}, until : {Never, 4},
   days : {{}}, dayOfMonth : {1, 3}]
  \cup
  [kind : {"weekly"}, date : {1, 2}, time : {0, 3}, length : {1, 4}, until : {Never, 4},
   days : {{0}, {1, 2}}, dayOfMonth : {1}]

Zones == [before : {0, 1}, after : {1}, moved : {10}] \cup [before : {-1}, after : {-2}, moved : {9}]

Planned(window, zone, day) ==
  IF window.kind = "none" THEN window.date * 4 + window.time
  ELSE Occurrences!ZonedTimeToUtc(day, window.time, zone)

Changes(window, zone) ==
  LET keys == {Planned(window, zone, day) : day \in 1 .. 3}
  IN  {{}} \cup {{[key |-> k, skipped |-> TRUE, endsAt |-> Never]} : k \in keys}
           \cup {{[key |-> k, skipped |-> FALSE, endsAt |-> k + n]} : k \in keys, n \in 1 .. Longest}

-----------------------------------------------------------------------------

\* What the theorems of module ChoiceProofs suppose of the constants.
Holds == Cron!CalendarHolds /\ Cron!ClockHolds /\ Cron!PatienceEnough /\ OnCall!SchedulesHold

\* What goes on by itself, while another question is asked.
NoRender == schedule = <<>> /\ points = {} /\ shifts = <<>>
NoSearch == spec = <<>> /\ after = 0 /\ t = 0 /\ steps = 0 /\ answer = "none"
Idle == question = "none" /\ asked = <<>> /\ NoRender /\ NoSearch

Init ==
  /\ question \in {"shifts", "cron", "occurrences"}
  /\ asked = <<>>
  /\ IF question = "shifts" THEN OnCall!Init ELSE NoRender
  /\ IF question = "cron" THEN Cron!Init ELSE NoSearch

AskOccurrences ==
  /\ question = "occurrences" /\ asked = <<>>
  /\ \E window \in Windows, zone \in Zones, from \in 4 .. 20, length \in {1, 6} :
       \E changes \in Changes(window, zone) :
         asked' = [window |-> window, zone |-> zone, changes |-> changes, from |-> from, to |-> from + length]
  /\ UNCHANGED <<question, render, search>>

\* Every question has its answer.
Over ==
  /\ question = "shifts" => points = {}
  /\ question = "cron" => answer # "none"
  /\ question = "occurrences" => asked # <<>>
  /\ UNCHANGED vars

Next ==
  \/ AskOccurrences
  \/ question = "shifts" /\ OnCall!Next /\ UNCHANGED <<question, asked, search>>
  \/ question = "cron" /\ Cron!Next /\ UNCHANGED <<question, asked, render>>
  \/ Over

-----------------------------------------------------------------------------
(* The properties, each stated with its component. *)

\* The shifts people look at agree with what the pager is told.
ShiftsAgree == question = "shifts" => OnCall!ShiftsAgree

\* The next time of a schedule is the first that matches.
FirstMatch == question = "cron" => Cron!FirstMatch

\* No occurrence that overlaps a range is missed, in a series in any zone.
OccurrencesFound ==
  question = "occurrences" /\ asked # <<>> =>
    /\ Occurrences!AllFound(asked.window, asked.zone, asked.changes, asked.from, asked.to, 0 .. 9)
    /\ \A day \in 1 .. 4 : Occurrences!WallClock(day, asked.window.time, asked.zone)
=============================================================================
