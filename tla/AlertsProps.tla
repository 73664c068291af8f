---------------------------- MODULE AlertsProps -----------------------------
(***************************************************************************)
(* What the alert pipeline must guarantee: a problem is seen, once, and    *)
(* wakes people when it should and only then.                              *)
(***************************************************************************)
EXTENDS Alerts

\* A repeat of an alert that is still open opens no second alert, and so no
\* second ticket: not in a burst, after maintenance, or after a closed ticket.
OneAlertPerKey ==
  \A a, b \in Alert : Firing(a) /\ Firing(b) /\ alerts[a].key = alerts[b].key => a = b

\* Once the handlers are done, every alert that fires is on a ticket or held by
\* a window, whose end will raise it: each crash loses sight of one at most.
NothingVanishes ==
  AllIdle =>
    Cardinality({a \in Alert : Firing(a) /\ alerts[a].ticket = None /\ alerts[a].window = None}) <= crashes

\* Once the handlers are done, an incident nobody has touched has an alert that
\* still fires: when the last one resolves, so does the incident.
NoOrphanIncident ==
  AllIdle => \A t \in Ticket :
    tickets[t].status = "open" => \E a \in Alert : Firing(a) /\ alerts[a].ticket = t

\* The pipeline resolves an incident only when none of its alerts fires.
ResolvesLast ==
  [][\A t \in Ticket :
       tickets[t].status # "resolved" /\ tickets'[t].status = "resolved" =>
         \A a \in Alert : ~(Firing(a) /\ alerts[a].ticket = t)]_vars

Shown(a) ==
  alerts[a].window # None \/ (alerts[a].ticket # None /\ ~Terminal(alerts[a].ticket))

\* A signal that fires ends in the open: on an incident that has not ended, or
\* held by a window, unless a rule drops it.  It never vanishes as a repeat of
\* an alert whose ticket somebody closed.
SignalShown ==
  [][\A j \in Job : jobs[j].op = "fire" /\ jobs'[j].op = "none" /\ UNCHANGED crashes =>
       \/ \E route \in Routes[jobs[j].key] : route.drop
       \/ \E k \in {jobs[j].key} : (\E a \in Alert : Firing(a) /\ alerts[a].key = k /\ Shown(a))']_vars

\* Nobody is paged for an alert while a window holds it, and an alert that has
\* been paged for is never put on hold.
HeldNotPaged == \A a \in pagedFor : alerts[a].window = None

\* An alert a rule makes ticket-only never pages anybody.
QuietNeverPaged == \A a \in pagedFor : ~alerts[a].quiet

\* Once maintenance is over for good, nothing stays held.
HeldIsRaised ==
  <>[](active = {}) => \A a \in Alert :
    Firing(a) /\ alerts[a].window # None ~> ~(Firing(a) /\ alerts[a].window # None)

-----------------------------------------------------------------------------
(* The abstract view: which problems belong to which incident. *)

Members(t) == {alerts[a].key : a \in {b \in Alert : Firing(b) /\ alerts[b].ticket = t}}

Abstract == INSTANCE Incidents WITH
  members <- [t \in Ticket |-> Members(t)],
  status <- [t \in Ticket |-> tickets[t].status]

\* The pipeline implements module Incidents when its handlers do not overlap.
ImplementsIncidents == Abstract!Spec
=============================================================================
