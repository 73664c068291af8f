------------------------------- MODULE Alerts -------------------------------
(***************************************************************************)
(* The alert pipeline (server/ops/alerts.ts) for one source: signals that  *)
(* fire and clear, the incidents they open, join and resolve, and alerts   *)
(* held back by a maintenance window and raised again when it ends.        *)
(*                                                                         *)
(* As in module Pager a handler is a job that makes one database statement *)
(* per step, with copies of the rows it has read.  What a routing rule and *)
(* the windows say is read in the step that uses it.                       *)
(*                                                                         *)
(* Paging is only its beginning and end here: module Pager has the rest.   *)
(***************************************************************************)
EXTENDS Integers, FiniteSets

CONSTANTS
  Alert,         \* ids for alerts; bound: the rows in use at the same time
  Ticket,        \* ids for incident tickets; bounded likewise
  Key,           \* dedup keys of the source
  Window,        \* maintenance windows whose scope covers the source
  Effect,        \* of each: "pause_paging" or "pause_alerting"
  Team,          \* departments
  TeamPolicy,    \* those with a default escalation policy
  SourcePolicy,  \* whether the source has a policy of its own
  Routes,        \* what routeSignal may make of a signal with each key
  None,          \* no alert, ticket or window
  Job,           \* handlers that may run at the same time
  May,           \* the operations each of them runs
  MaxCrashes,    \* bound: handlers lost to a crash
  Calm           \* whether people and windows wait until no handler runs

Op == {"fire", "clear", "reraise"}
Route == [drop : BOOLEAN, quiet : BOOLEAN, severe : BOOLEAN, policy : BOOLEAN, team : Team]

ASSUME NoneAssumption == None \notin Alert \cup Ticket \cup Window
ASSUME WindowAssumption == Effect \in [Window -> {"pause_paging", "pause_alerting"}]
ASSUME RouteAssumption ==
  /\ TeamPolicy \subseteq Team
  /\ SourcePolicy \in BOOLEAN
  /\ Routes \in [Key -> SUBSET Route]
  /\ \A k \in Key : Routes[k] # {}
ASSUME JobAssumption ==
  /\ May \in [Job -> SUBSET Op]
  /\ MaxCrashes \in Nat
  /\ Calm \in BOOLEAN

VARIABLES
  alerts,    \* the alerts table
  tickets,   \* the incident tickets: status and department
  paging,    \* the tickets with a page escalating
  pagedFor,  \* the alerts for which triggerPage was called
  active,    \* the windows in effect now
  jobs,      \* the handlers in progress
  crashes

vars == <<alerts, tickets, paging, pagedFor, active, jobs, crashes>>

\* quiet: a rule said ticket only (the table keeps less: that paging was
\* suppressed, for that or for a window); severe: the severity is one that pages.
AlertRow == [status : {"none", "firing", "resolved"}, key : Key \cup {None}, ticket : Ticket \cup {None},
             window : Window \cup {None}, quiet : BOOLEAN, severe : BOOLEAN]
TicketRow == [status : {"none", "open", "in_progress", "resolved", "closed"}, team : Team \cup {None}]
NoAlert == [status |-> "none", key |-> None, ticket |-> None, window |-> None, quiet |-> FALSE, severe |-> FALSE]
NoTicket == [status |-> "none", team |-> None]

\* What a handler keeps of an alert it has read.
Copy == [alert : Alert \cup {None}, ticket : Ticket \cup {None}]
Nothing == [alert |-> None, ticket |-> None]

PC == {"idle", "lookup", "check", "end", "resolve", "count", "look", "close", "settle", "insert",
       "group", "join", "create", "attach", "page", "next", "still", "release", "ask", "requeue"}

Idle == [op |-> "none", pc |-> "idle", key |-> None, row |-> Nothing, held |-> {},
         route |-> None, cover |-> None, alert |-> None, ticket |-> None]

JobRecord == [op : Op \cup {"none"}, pc : PC, key : Key \cup {None}, row : Copy, held : SUBSET Copy,
              route : Route \cup {None}, cover : Window \cup {None},
              alert : Alert \cup {None}, ticket : Ticket \cup {None}]

TypeOK ==
  /\ alerts \in [Alert -> AlertRow]
  /\ tickets \in [Ticket -> TicketRow]
  /\ paging \subseteq Ticket
  /\ pagedFor \subseteq Alert
  /\ active \subseteq Window
  /\ jobs \in [Job -> JobRecord]
  /\ crashes \in 0 .. MaxCrashes

Init ==
  /\ alerts = [a \in Alert |-> NoAlert]
  /\ tickets = [t \in Ticket |-> NoTicket]
  /\ paging = {} /\ pagedFor = {}
  /\ active = {}
  /\ jobs = [j \in Job |-> Idle]
  /\ crashes = 0

At(j, pc) == jobs[j].pc = pc
AllIdle == \A j \in Job : At(j, "idle")
Go(j, job) == jobs' = [jobs EXCEPT ![j] = job]
GoTo(j, pc) == Go(j, [jobs[j] EXCEPT !.pc = pc])

\* ingestSignal returns: to its caller, or to the loop of reraiseAfterMaintenance.
Done(j) ==
  Go(j, IF jobs[j].op = "reraise" THEN [Idle EXCEPT !.op = "reraise", !.pc = "next", !.held = jobs[j].held]
                                  ELSE Idle)

Firing(a) == alerts[a].status = "firing"
Terminal(t) == tickets[t].status \in {"resolved", "closed"}
Update(a, row) == alerts' = [alerts EXCEPT ![a] = row]
Resolved(row) == [row EXCEPT !.status = "resolved"]

\* maintenanceFor: pause_alerting wins over pause_paging.
Coverage ==
  LET Pausing == {w \in active : Effect[w] = "pause_alerting"}
  IN  IF active = {} THEN {None} ELSE IF Pausing # {} THEN Pausing ELSE active

Held(w) == w # None /\ Effect[w] = "pause_alerting"

-----------------------------------------------------------------------------
(* ingestSignal *)

Receive(j, op) ==
  /\ At(j, "idle")
  /\ op \in May[j]
  /\ \E k \in Key : Go(j, [Idle EXCEPT !.op = op, !.pc = "lookup", !.key = k])
  /\ UNCHANGED <<alerts, tickets, paging, pagedFor, active, crashes>>

Fire(j) == Receive(j, "fire")
Clear(j) == Receive(j, "clear")

\* Mutant: an alert without a ticket is not found.
OpenAlertsWithTicket(k) == {a \in Alert : Firing(a) /\ alerts[a].key = k /\ alerts[a].ticket # None}

OpenAlerts(k) == {a \in Alert : Firing(a) /\ alerts[a].key = k}

\* routeSignal; a rule may drop the signal.
TakeRoute(j) ==
  \E route \in Routes[jobs[j].key] :
    IF route.drop THEN Done(j)
                  ELSE Go(j, [jobs[j] EXCEPT !.pc = "insert", !.route = route, !.row = Nothing])

\* Overlapping handlers can leave two alerts open; the one that was first seen
\* later is found, and its handler may be either.
Lookup(j) ==
  LET key == jobs[j].key
      clears == jobs[j].op = "clear"
  IN
  /\ At(j, "lookup")
  /\ \/ /\ OpenAlerts(key) = {}
        /\ IF clears THEN Done(j) ELSE TakeRoute(j)
     \/ \E a \in OpenAlerts(key) :
          LET job == [jobs[j] EXCEPT !.row = [alert |-> a, ticket |-> alerts[a].ticket]]
          IN  \/ clears /\ Go(j, [job EXCEPT !.pc = "resolve"])
              \/ ~clears /\ alerts[a].ticket # None /\ Go(j, [job EXCEPT !.pc = "check"])
              \/ ~clears /\ alerts[a].ticket = None /\ Done(j)
  /\ UNCHANGED <<alerts, tickets, paging, pagedFor, active, crashes>>

\* Mutant: a repeat is counted on the alert whatever became of its ticket.
CheckNever(j) ==
  /\ At(j, "check")
  /\ Done(j)
  /\ UNCHANGED <<alerts, tickets, paging, pagedFor, active, crashes>>

\* A repeat only counts, unless its ticket was closed while it was firing.
Check(j) ==
  /\ At(j, "check")
  /\ IF Terminal(jobs[j].row.ticket) THEN GoTo(j, "end") ELSE Done(j)
  /\ UNCHANGED <<alerts, tickets, paging, pagedFor, active, crashes>>

End(j) ==
  /\ At(j, "end")
  /\ Update(jobs[j].row.alert, Resolved(alerts[jobs[j].row.alert]))
  /\ TakeRoute(j)
  /\ UNCHANGED <<tickets, paging, pagedFor, active, crashes>>

\* The alert is recorded; pausing alerting stops there.
Insert(j) ==
  LET job == jobs[j]
  IN
  /\ At(j, "insert")
  /\ \E a \in Alert, w \in Coverage :
       /\ alerts[a].status = "none"
       /\ Update(a, [status |-> "firing", key |-> job.key, ticket |-> None, window |-> w,
                     quiet |-> job.route.quiet, severe |-> job.route.severe])
       /\ IF Held(w) THEN Done(j)
                     ELSE Go(j, [job EXCEPT !.pc = "group", !.alert = a, !.cover = w])
  /\ UNCHANGED <<tickets, paging, pagedFor, active, crashes>>

\* Mutant: an incident that has ended is joined.
SiblingsEnded(j) ==
  {alerts[a].ticket : a \in {b \in Alert \ {jobs[j].alert} :
     /\ Firing(b) /\ alerts[b].ticket # None
     /\ tickets[alerts[b].ticket].team = jobs[j].route.team}}

\* Tickets of the other open alerts, not ended, of the same department.
Siblings(j) ==
  {alerts[a].ticket : a \in {b \in Alert \ {jobs[j].alert} :
     /\ Firing(b) /\ alerts[b].ticket # None
     /\ ~Terminal(alerts[b].ticket)
     /\ tickets[alerts[b].ticket].team = jobs[j].route.team}}

\* The sibling may have been seen too long ago: its age is not kept.
Group(j) ==
  /\ At(j, "group")
  /\ \/ \E t \in Siblings(j) : Go(j, [jobs[j] EXCEPT !.pc = "join", !.ticket = t])
     \/ GoTo(j, "create")
  /\ UNCHANGED <<alerts, tickets, paging, pagedFor, active, crashes>>

SetTicket(j) == Update(jobs[j].alert, [alerts[jobs[j].alert] EXCEPT !.ticket = jobs[j].ticket])

Join(j) ==
  /\ At(j, "join")
  /\ SetTicket(j)
  /\ Done(j)
  /\ UNCHANGED <<tickets, paging, pagedFor, active, crashes>>

CreateTicket(j) ==
  /\ At(j, "create")
  /\ \E t \in Ticket :
       /\ tickets[t].status = "none"
       /\ tickets' = [tickets EXCEPT ![t] = [status |-> "open", team |-> jobs[j].route.team]]
       /\ Go(j, [jobs[j] EXCEPT !.pc = "attach", !.ticket = t])
  /\ UNCHANGED <<alerts, paging, pagedFor, active, crashes>>

HasPolicy(own, team) == own \/ team \in TeamPolicy

\* Mutant: only a window that pauses alerting keeps people asleep.
PagesUnlessHeld(job) ==
  ~Held(job.cover) /\ ~job.route.quiet /\ job.route.severe /\ HasPolicy(job.route.policy, job.route.team)

\* Nobody is paged under a window, by a rule that says so, or for a SEV4.
Pages(job) ==
  job.cover = None /\ ~job.route.quiet /\ job.route.severe /\ HasPolicy(job.route.policy, job.route.team)

Attach(j) ==
  /\ At(j, "attach")
  /\ SetTicket(j)
  /\ IF Pages(jobs[j]) THEN GoTo(j, "page") ELSE Done(j)
  /\ UNCHANGED <<tickets, paging, pagedFor, active, crashes>>

\* triggerPage; a page that is already escalating is left alone.
TriggerPage(j) ==
  /\ At(j, "page")
  /\ paging' = paging \cup {jobs[j].ticket}
  /\ pagedFor' = pagedFor \cup {jobs[j].alert}
  /\ Done(j)
  /\ UNCHANGED <<alerts, tickets, active, crashes>>

-----------------------------------------------------------------------------
(* A signal that clears, and autoResolveTicket. *)

\* Mutant: the alert takes the status of its ticket.
ResolveAsTicket(j) ==
  /\ At(j, "resolve")
  /\ Update(jobs[j].row.alert, [alerts[jobs[j].row.alert] EXCEPT !.status = "closed"])
  /\ IF jobs[j].row.ticket = None THEN Done(j) ELSE GoTo(j, "count")
  /\ UNCHANGED <<tickets, paging, pagedFor, active, crashes>>

ResolveAlert(j) ==
  /\ At(j, "resolve")
  /\ Update(jobs[j].row.alert, Resolved(alerts[jobs[j].row.alert]))
  /\ IF jobs[j].row.ticket = None THEN Done(j) ELSE GoTo(j, "count")
  /\ UNCHANGED <<tickets, paging, pagedFor, active, crashes>>

\* Mutant: the alerts that were resolved count.
RemainingEver(t) == {a \in Alert : alerts[a].ticket = t}

Remaining(t) == {a \in Alert : alerts[a].ticket = t /\ Firing(a)}

Count(j) ==
  /\ At(j, "count")
  /\ IF Remaining(jobs[j].row.ticket) = {} THEN GoTo(j, "look") ELSE Done(j)
  /\ UNCHANGED <<alerts, tickets, paging, pagedFor, active, crashes>>

Look(j) ==
  /\ At(j, "look")
  /\ IF Terminal(jobs[j].row.ticket) THEN Done(j) ELSE GoTo(j, "close")
  /\ UNCHANGED <<alerts, tickets, paging, pagedFor, active, crashes>>

CloseTicket(j) ==
  /\ At(j, "close")
  /\ tickets' = [tickets EXCEPT ![jobs[j].row.ticket].status = "resolved"]
  /\ GoTo(j, "settle")
  /\ UNCHANGED <<alerts, paging, pagedFor, active, crashes>>

\* resolvePagesForTicket
SettlePages(j) ==
  /\ At(j, "settle")
  /\ paging' = paging \ {jobs[j].row.ticket}
  /\ Done(j)
  /\ UNCHANGED <<alerts, tickets, pagedFor, active, crashes>>

-----------------------------------------------------------------------------
(* reraiseAfterMaintenance, called by maintenanceTick. *)

HeldBy(w) == {a \in Alert : Firing(a) /\ alerts[a].window = w}

Reraise(j) ==
  /\ At(j, "idle")
  /\ "reraise" \in May[j]
  /\ \E w \in Window \ active :
       /\ HeldBy(w) # {}
       /\ Go(j, [Idle EXCEPT !.op = "reraise", !.pc = "next",
                   !.held = {[alert |-> a, ticket |-> alerts[a].ticket] : a \in HeldBy(w)}])
  /\ UNCHANGED <<alerts, tickets, paging, pagedFor, active, crashes>>

NextHeld(j) ==
  /\ At(j, "next")
  /\ \/ /\ jobs[j].held = {}
        /\ Go(j, Idle)
     \/ \E row \in jobs[j].held :
          Go(j, [jobs[j] EXCEPT !.pc = "still", !.row = row, !.held = @ \ {row}])
  /\ UNCHANGED <<alerts, tickets, paging, pagedFor, active, crashes>>

\* Another window may still cover it; then that window's end handles it.
Still(j) ==
  LET row == jobs[j].row
  IN
  /\ At(j, "still")
  /\ \/ \E w \in Coverage \ {None} :
          /\ Update(row.alert, [alerts[row.alert] EXCEPT !.window = w])
          /\ Done(j)
     \/ /\ active = {}
        /\ GoTo(j, IF row.ticket # None THEN "release" ELSE "requeue")
        /\ UNCHANGED alerts
  /\ UNCHANGED <<tickets, paging, pagedFor, active, crashes>>

\* Mutant: the alert stays with its window.
ReleaseLater(j) ==
  /\ At(j, "release")
  /\ GoTo(j, "ask")
  /\ UNCHANGED <<alerts, tickets, paging, pagedFor, active, crashes>>

Release(j) ==
  /\ At(j, "release")
  /\ Update(jobs[j].row.alert, [alerts[jobs[j].row.alert] EXCEPT !.window = None])
  /\ GoTo(j, "ask")
  /\ UNCHANGED <<tickets, paging, pagedFor, active, crashes>>

\* A ticket whose paging was paused is paged now.
Ask(j) ==
  LET row == jobs[j].row
  IN
  /\ At(j, "ask")
  /\ IF /\ ~Terminal(row.ticket)
        /\ HasPolicy(SourcePolicy, tickets[row.ticket].team)
        /\ alerts[row.alert].severe
       THEN Go(j, [jobs[j] EXCEPT !.pc = "page", !.alert = row.alert, !.ticket = row.ticket])
       ELSE Done(j)
  /\ UNCHANGED <<alerts, tickets, paging, pagedFor, active, crashes>>

\* Mutant: the alert is released as it is.
RequeueAsIs(j) ==
  /\ At(j, "requeue")
  /\ Update(jobs[j].row.alert, [alerts[jobs[j].row.alert] EXCEPT !.window = None])
  /\ Done(j)
  /\ UNCHANGED <<tickets, paging, pagedFor, active, crashes>>

\* An alert that was only recorded is closed quietly and comes in again as new.
Requeue(j) ==
  LET row == alerts[jobs[j].row.alert]
  IN
  /\ At(j, "requeue")
  /\ Update(jobs[j].row.alert, [Resolved(row) EXCEPT !.window = None])
  /\ Go(j, [jobs[j] EXCEPT !.pc = "lookup", !.key = row.key, !.row = Nothing])
  /\ UNCHANGED <<tickets, paging, pagedFor, active, crashes>>

-----------------------------------------------------------------------------
(* The environment. *)

\* A window starts, or ends: on time, early or cancelled.
WindowStarts(w) ==
  /\ Calm => AllIdle
  /\ w \notin active
  /\ active' = active \cup {w}
  /\ UNCHANGED <<alerts, tickets, paging, pagedFor, jobs, crashes>>

WindowEnds(w) ==
  /\ Calm => AllIdle
  /\ w \in active
  /\ active' = active \ {w}
  /\ UNCHANGED <<alerts, tickets, paging, pagedFor, jobs, crashes>>

\* A person closes a ticket, which leaves its pages alone, or reopens it.
EditTicket(t) ==
  /\ Calm => AllIdle
  /\ tickets[t].status # "none"
  /\ tickets' = [tickets EXCEPT ![t].status = IF Terminal(t) THEN "in_progress" ELSE "closed"]
  /\ UNCHANGED <<alerts, paging, pagedFor, active, jobs, crashes>>

\* The pager stops: somebody acknowledged, or the policy is exhausted.
PageStops(t) ==
  /\ t \in paging
  /\ paging' = paging \ {t}
  /\ UNCHANGED <<alerts, tickets, pagedFor, active, jobs, crashes>>

\* The process dies: what the handler knew is gone, what it wrote is not.
Crash(j) ==
  /\ ~At(j, "idle")
  /\ crashes < MaxCrashes
  /\ crashes' = crashes + 1
  /\ Go(j, Idle)
  /\ UNCHANGED <<alerts, tickets, paging, pagedFor, active>>

InHand(j) == {jobs[j].row, [alert |-> jobs[j].alert, ticket |-> jobs[j].ticket]} \cup jobs[j].held

\* An id whose row is history stands for a new one, so that behaviours have no
\* end: an alert that resolved, and a ticket without alerts or a page.
ForgetAlert(a) ==
  /\ alerts[a].status = "resolved"
  /\ \A j \in Job : \A copy \in InHand(j) : copy.alert # a
  /\ alerts' = [alerts EXCEPT ![a] = NoAlert]
  /\ pagedFor' = pagedFor \ {a}
  /\ UNCHANGED <<tickets, paging, active, jobs, crashes>>

ForgetTicket(t) ==
  /\ tickets[t].status # "none"
  /\ t \notin paging
  /\ \A a \in Alert : alerts[a].ticket # t
  /\ \A j \in Job : \A copy \in InHand(j) : copy.ticket # t
  /\ tickets' = [tickets EXCEPT ![t] = NoTicket]
  /\ UNCHANGED <<alerts, paging, pagedFor, active, jobs, crashes>>

JobStep(j) ==
  \/ Lookup(j) \/ Check(j) \/ End(j) \/ Insert(j) \/ Group(j) \/ Join(j)
  \/ CreateTicket(j) \/ Attach(j) \/ TriggerPage(j)
  \/ ResolveAlert(j) \/ Count(j) \/ Look(j) \/ CloseTicket(j) \/ SettlePages(j)
  \/ NextHeld(j) \/ Still(j) \/ Release(j) \/ Ask(j) \/ Requeue(j)

JobStart(j) == Fire(j) \/ Clear(j) \/ Reraise(j)

\* What happens while no process dies.
Undisturbed ==
  \/ \E j \in Job : JobStart(j) \/ JobStep(j)
  \/ \E w \in Window : WindowStarts(w) \/ WindowEnds(w)
  \/ \E t \in Ticket : EditTicket(t) \/ PageStops(t) \/ ForgetTicket(t)
  \/ \E a \in Alert : ForgetAlert(a)

Next == Undisturbed \/ \E j \in Job : Crash(j)

Spec == Init /\ [][Next]_vars

\* The runner calls maintenanceTick every TICK_MS, between requests as much as
\* among them; a handler runs to its end; a page stops (see module Pager); and
\* ids for new rows do not run out.
Fairness ==
  /\ \A j \in Job : WF_vars(JobStep(j)) /\ SF_vars(Reraise(j))
  /\ \A a \in Alert : WF_vars(ForgetAlert(a))
  /\ \A t \in Ticket : WF_vars(PageStops(t)) /\ WF_vars(ForgetTicket(t))

FairSpec == Spec /\ Fairness
=============================================================================
