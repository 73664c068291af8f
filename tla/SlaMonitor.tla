----------------------------- MODULE SlaMonitor -----------------------------
(***************************************************************************)
(* The SLA sweep (server/jobs/sla-monitor.ts): tickets past their due date *)
(* are marked and announced, batch by batch, by the process that holds the *)
(* lease.                                                                  *)
(*                                                                         *)
(* A sweep is the timer's of a process - `running` lets it have one - or a *)
(* request's to /api/cron/sla, which looks at no such flag; all sweeps of  *)
(* a process hold the lease under its name, so they may overlap, as a      *)
(* sweep that outlasts the lease may overlap the next holder's.            *)
(*                                                                         *)
(* Due dates are numbered in the order a ticket gets them.                 *)
(***************************************************************************)
EXTENDS Naturals, FiniteSets

CONSTANTS
  Process,    \* instances of the server
  Entry,      \* what sweeps in a process: its timer, and requests
  Ticket,
  Batch,      \* BATCH
  MaxDue,     \* bound: due dates of a ticket
  MaxCrashes  \* bound: crashes

VARIABLES
  holder,     \* who holds the lease; {} when it has lapsed
  ticket,
  sweep,
  announced,  \* due dates announced never, once, or (2) more often (history)
  shared,     \* tickets that two sweeps had in hand at once (history)
  crashes

vars == <<holder, ticket, sweep, announced, shared, crashes>>

Sweep == Process \X Entry
Due == 1 .. MaxDue
Row == Ticket \X Due
Idle == [pc |-> "idle", rows |-> {}, full |-> FALSE]

TypeOK ==
  /\ holder \in SUBSET Process
  /\ ticket \in [Ticket -> [due : Due, past : BOOLEAN, open : BOOLEAN, notified : 0 .. MaxDue]]
  /\ sweep \in [Sweep -> [pc : {"idle", "select", "mark", "announce"}, rows : SUBSET Row, full : BOOLEAN]]
  /\ announced \in [Row -> 0 .. 2]
  /\ shared \subseteq Ticket
  /\ crashes \in 0 .. MaxCrashes

\* notified is sla_notified_due, 0 for NULL.
Init ==
  /\ holder = {}
  /\ ticket = [t \in Ticket |-> [due |-> 1, past |-> FALSE, open |-> TRUE, notified |-> 0]]
  /\ sweep = [s \in Sweep |-> Idle]
  /\ announced = [r \in Row |-> 0]
  /\ shared = {}
  /\ crashes = 0

At(s, pc) == sweep[s].pc = pc
Enter(s, to) == sweep' = [sweep EXCEPT ![s] = to]

-----------------------------------------------------------------------------
(* checkBreaches. *)

\* acquireLease, under the name of the process.
Start(s) ==
  /\ At(s, "idle")
  /\ holder \subseteq {s[1]}
  /\ holder' = {s[1]}
  /\ Enter(s, [Idle EXCEPT !.pc = "select"])
  /\ UNCHANGED <<ticket, announced, shared, crashes>>

\* Mutant: a ticket announced once is done with.
BreachedOnce(t) == ticket[t].past /\ ticket[t].open /\ ticket[t].notified = 0

\* Past due, open, and not announced for this due date.
Breached(t) == ticket[t].past /\ ticket[t].open /\ ticket[t].notified # ticket[t].due

Breaches == {<<t, ticket[t].due>> : t \in {u \in Ticket : Breached(u)}}

InHand(s, t) == \E r \in sweep[s].rows : r[1] = t

\* A batch; the oldest come first, which is any of them here.
Select(s) ==
  /\ At(s, "select")
  /\ \E rows \in SUBSET Breaches :
       /\ Cardinality(rows) = Batch \/ (rows = Breaches /\ Cardinality(rows) < Batch)
       /\ Enter(s, IF rows = {} THEN Idle
                   ELSE [pc |-> "mark", rows |-> rows, full |-> Cardinality(rows) = Batch])
       /\ shared' = shared \cup {t \in Ticket : /\ \E r \in rows : r[1] = t
                                               /\ \E o \in Sweep \ {s} : InHand(o, t)}
  /\ UNCHANGED <<holder, ticket, announced, crashes>>

Current(s) == CHOOSE r \in sweep[s].rows : TRUE

\* What follows a row: the next one, another batch after a full one, or the end.
AfterRow(s) ==
  LET rest == sweep[s].rows \ {Current(s)}
  IN IF rest # {} THEN [sweep[s] EXCEPT !.pc = "mark", !.rows = rest]
     ELSE IF sweep[s].full THEN [Idle EXCEPT !.pc = "select"] ELSE Idle

\* sla_notified_due becomes the due date that was read.
Notified(r) == ticket' = [ticket EXCEPT ![r[1]].notified = r[2]]

\* notifyUsers and dispatchAsync.
Tell(r) == announced' = [announced EXCEPT ![r] = IF @ = 0 THEN 1 ELSE 2]

Mark(s) ==
  /\ At(s, "mark")
  /\ Notified(Current(s))
  /\ Enter(s, [sweep[s] EXCEPT !.pc = "announce"])
  /\ UNCHANGED <<holder, announced, shared, crashes>>

Announce(s) ==
  /\ At(s, "announce")
  /\ Tell(Current(s))
  /\ Enter(s, AfterRow(s))
  /\ UNCHANGED <<holder, ticket, shared, crashes>>

\* Mutant: announced first, marked when that is done.
TellFirst(s) ==
  /\ At(s, "mark")
  /\ Tell(Current(s))
  /\ Enter(s, [sweep[s] EXCEPT !.pc = "announce"])
  /\ UNCHANGED <<holder, ticket, shared, crashes>>
MarkAfter(s) ==
  /\ At(s, "announce")
  /\ Notified(Current(s))
  /\ Enter(s, AfterRow(s))
  /\ UNCHANGED <<holder, announced, shared, crashes>>
StepMarkingLast(s) == Select(s) \/ TellFirst(s) \/ MarkAfter(s)

SweepStep(s) == Select(s) \/ Mark(s) \/ Announce(s)

\* The process dies, or a statement throws.
Crash(s) ==
  /\ ~At(s, "idle")
  /\ crashes < MaxCrashes
  /\ crashes' = crashes + 1
  /\ Enter(s, Idle)
  /\ UNCHANGED <<holder, ticket, announced, shared>>

-----------------------------------------------------------------------------
(* Time, and people at the tickets. *)

\* The lease may lapse while its holder's sweep is still at work.
Lapse ==
  /\ holder # {}
  /\ holder' = {}
  /\ UNCHANGED <<ticket, sweep, announced, shared, crashes>>

Edit(t, to) ==
  /\ ticket' = [ticket EXCEPT ![t] = to]
  /\ UNCHANGED <<holder, sweep, announced, shared, crashes>>

Passes(t) == ~ticket[t].past /\ Edit(t, [ticket[t] EXCEPT !.past = TRUE])
MoveDue(t) == ticket[t].due < MaxDue /\ Edit(t, [ticket[t] EXCEPT !.due = @ + 1, !.past = FALSE])
SetOpen(t) == Edit(t, [ticket[t] EXCEPT !.open = ~@])

Next ==
  \/ \E s \in Sweep : Start(s) \/ SweepStep(s) \/ Crash(s)
  \/ Lapse
  \/ \E t \in Ticket : Passes(t) \/ MoveDue(t) \/ SetOpen(t)

Spec == Init /\ [][Next]_vars

\* Some process's timer goes off again and again, and every sweep goes on.
Fairness ==
  /\ WF_vars(\E s \in Sweep : Start(s))
  /\ \A s \in Sweep : WF_vars(SweepStep(s))

FairSpec == Spec /\ Fairness

-----------------------------------------------------------------------------
(* What the monitor promises. *)

\* "Announces each SLA breach once": "a restart does not announce everything
\* again and two instances do not both announce it" (checkBreaches).
AnnouncedOnce == \A r \in Row : announced[r] <= 1

\* What the code gives of that: a breach is announced again only when two sweeps
\* had its ticket in hand at the same time - two of one process, or one that
\* outlasted its lease and the next holder's.  A restart repeats nothing, nor
\* does a due date that moves under a sweep.
AnnouncedAgainByTwo == \A r \in Row : announced[r] > 1 => r[1] \in shared

\* "moving it re-arms the announcement": a ticket that stays open past any of
\* its due dates is announced for it, however sweeps overlap; a sweep that dies
\* on the way costs one announcement, and no other breach is overlooked for it.
BreachIsAnnounced ==
  \A t \in Ticket :
    /\ \A d \in Due :
         ticket[t].due = d /\ ticket[t].past /\ ticket[t].open ~>
           ticket[t].due # d \/ ~ticket[t].open \/ announced[<<t, d>>] > 0 \/ crashes > 0
    /\ <>[](ticket[t].past /\ ticket[t].open) => <>[](ticket[t].notified = ticket[t].due)
=============================================================================
