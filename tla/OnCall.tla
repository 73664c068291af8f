------------------------------- MODULE OnCall -------------------------------
(***************************************************************************)
(* Who a schedule has on call (server/ops/oncall.ts): the answer at one    *)
(* moment, which the pager asks for, and the shifts of a range, which      *)
(* people look at.  Both are worked out from a schedule's layers and       *)
(* overrides; nothing is stored.                                           *)
(*                                                                         *)
(* Layers come lowest first and overrides in the order of their starts, as *)
(* loadScheduleParts reads them.                                           *)
(***************************************************************************)
EXTENDS Integers, Sequences, FiniteSets, FiniteSetsExt

CONSTANTS
  Nobody,
  MaxHandovers, \* the most handovers of one layer that renderShifts looks at
  Schedules     \* what is asked about: [layers, overrides, from, to]

VARIABLES
  schedule,  \* the one that is rendered
  points,    \* the moments of it that are still to come
  shifts     \* what has been made of the others

vars == <<schedule, points, shifts>>

\* Roster entries and overrides have times and every rotation turns, and in a
\* range it does so no more often than renderShifts looks.
HaveTimes(entries) == \A i \in DOMAIN entries : entries[i].startsAt \in Int /\ entries[i].endsAt \in Int
SchedulesHold ==
  MaxHandovers \in Nat /\ \A s \in Schedules :
    /\ s.from \in Nat /\ s.to \in Nat /\ s.from < s.to
    /\ HaveTimes(s.overrides)
    /\ DOMAIN s.layers = 1 .. Len(s.layers) /\ \A i \in DOMAIN s.layers :
         /\ HaveTimes(s.layers[i].entries)
         /\ s.layers[i].rotation # "roster" =>
              /\ s.layers[i].start \in Int /\ s.layers[i].length \in Nat \ {0}
              /\ s.to - s.from <= MaxHandovers * s.layers[i].length

-----------------------------------------------------------------------------
(* At one moment. *)

\* Which of roster entries or overrides.
Covering(entries, at) == {i \in DOMAIN entries : entries[i].startsAt <= at /\ at < entries[i].endsAt}

\* layerOnCallAt: a roster lists who is on when, a rotation takes turns.
LayerOnCallAt(layer, at) ==
  LET covering == Covering(layer.entries, at)
      turn == (at - layer.start) \div layer.length
  IN  IF layer.rotation = "roster" THEN IF covering = {} THEN Nobody ELSE layer.entries[Min(covering)].user
      ELSE IF layer.members = <<>> \/ at < layer.start THEN Nobody
      ELSE layer.members[(turn % Len(layer.members)) + 1]

\* The override that started last, the first of them if several did.
Latest(overrides, among) ==
  LET Beats(i, k) == \/ overrides[i].startsAt > overrides[k].startsAt
                     \/ overrides[i].startsAt = overrides[k].startsAt /\ i <= k
  IN  overrides[CHOOSE i \in among : \A k \in among : Beats(i, k)]

\* onCallAt: an override beats every layer, and a higher layer a lower one.
OnCallAt(layers, overrides, at) ==
  LET covers == Covering(overrides, at)
      hits == {i \in DOMAIN layers : LayerOnCallAt(layers[i], at) # Nobody}
  IN  IF covers # {} THEN [user |-> Latest(overrides, covers).user, source |-> "override"]
      ELSE [user |-> IF hits = {} THEN Nobody ELSE LayerOnCallAt(layers[Max(hits)], at), source |-> "layer"]

-----------------------------------------------------------------------------
(* Over a range. *)

EdgesOf(entries) == UNION {{entries[i].startsAt, entries[i].endsAt} : i \in DOMAIN entries}

RoundUp(a, b) == -((-a) \div b)

\* Mutant: a rotation that began before the range has no handover in it.
HandoversFromStart(layer, from) == {layer.start}

\* The moments a rotation hands over, from the first one in the range.
Handovers(layer, from) ==
  LET first == IF layer.start > from THEN 0 ELSE RoundUp(from - layer.start, layer.length)
  IN  {layer.start + k * layer.length : k \in first .. first + MaxHandovers - 1}

\* The moments at which somebody else may be on call.
Points(s) ==
  LET OfLayer(l) == IF l.rotation = "roster" THEN EdgesOf(l.entries) ELSE Handovers(l, s.from)
      edges == EdgesOf(s.overrides) \cup UNION {OfLayer(s.layers[i]) : i \in DOMAIN s.layers}
  IN  {s.from} \cup {p \in edges : s.from < p /\ p < s.to}

\* Up to where the shifts have been made.
Upto == IF points = {} THEN schedule.to ELSE Min(points)

Init ==
  /\ schedule \in Schedules
  /\ points = Points(schedule)
  /\ shifts = <<>>

\* renderShifts: who is on from each point to the next, joined where the same
\* person carries on.
Render ==
  LET who == OnCallAt(schedule.layers, schedule.overrides, Upto)
      carries == shifts # <<>> /\ shifts[Len(shifts)].who = who /\ shifts[Len(shifts)].endsAt = Upto
  IN  /\ points # {} /\ UNCHANGED schedule
      /\ points' = points \ {Upto}
      /\ shifts' = IF who.user = Nobody THEN shifts
                   ELSE IF carries THEN [shifts EXCEPT ![Len(shifts)].endsAt = Upto']
                   ELSE Append(shifts, [who |-> who, startsAt |-> Upto, endsAt |-> Upto'])

Next == Render

Spec == Init /\ [][Next]_vars

-----------------------------------------------------------------------------

\* Who the shifts say, and who the pager is told.
Shown(at) == {shifts[i].who : i \in {j \in DOMAIN shifts : shifts[j].startsAt <= at /\ at < shifts[j].endsAt}}
Told(at) ==
  LET who == OnCallAt(schedule.layers, schedule.overrides, at)
  IN  IF who.user = Nobody THEN {} ELSE {who}

\* The shifts people look at say of every moment what the pager is told, and no
\* two of them are one.
ShiftsAgree ==
  /\ \A at \in schedule.from .. Upto - 1 : Shown(at) = Told(at)
  /\ \A i \in 1 .. Len(shifts) - 1 :
       \/ shifts[i].endsAt < shifts[i + 1].startsAt
       \/ shifts[i].endsAt = shifts[i + 1].startsAt /\ shifts[i].who # shifts[i + 1].who
=============================================================================
