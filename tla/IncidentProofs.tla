----------------------------- MODULE IncidentProofs --------------------------
(***************************************************************************)
(* Two more guarantees of the alert pipeline, on the types of module       *)
(* AlertsProofs, and that it implements module Incidents.                  *)
(*                                                                         *)
(* NothingVanishes, for any handlers that overlap in any way: an alert     *)
(* that fires without a ticket is held by a window or in the hands of the  *)
(* handler that recorded it, and the crash of one handler loses one.       *)
(*                                                                         *)
(* With one handler at a time and no crash, what a handler has read is     *)
(* still so when it acts.  Hence an incident ends with its last alert, a   *)
(* signal that fires ends in the open, and the pipeline implements the     *)
(* incidents of module Incidents.                                          *)
(***************************************************************************)
EXTENDS AlertsProofs, FiniteSetTheorems

\* The steps between an alert's record and its ticket.
Recording == {"group", "join", "create", "attach"}

\* An alert that fires, but on no ticket and held by no window.
Missing(row) == row.status = "firing" /\ row.ticket = None /\ row.window = None

\* Nobody will ever give it a ticket.
Lost == {a \in Alert : Missing(alerts[a]) /\ \A j \in Job : ~(jobs[j].pc \in Recording /\ jobs[j].alert = a)}

\* What had a ticket when it was read still has one.
Ticketed(job, rows) ==
  \A c \in {job.row} \cup job.held : c.alert \in Alert /\ c.ticket # None => rows[c.alert].ticket # None

LostInv ==
  /\ IsFiniteSet(Lost) /\ Cardinality(Lost) <= crashes
  /\ \A j \in Job : /\ Ticketed(jobs[j], alerts)
                    /\ jobs[j].pc = "release" => alerts[jobs[j].row.alert].ticket # None

-----------------------------------------------------------------------------
(* NothingVanishes. *)

\* A step of one handler loses no alert if its record goes on with the one it
\* had recorded, and what stops being on a ticket or in a window is its own.
LEMMA CarriedLost ==
  ASSUME TypeInv, LostInv, NEW j \in Job, NEW r, jobs' = [jobs EXCEPT ![j] = r],
         \A a \in Alert : alerts[a].status # "none" /\ alerts[a].ticket # None => alerts'[a].ticket # None,
         \A a \in Alert : Missing(alerts'[a]) => Missing(alerts[a]) \/ (r.pc \in Recording /\ r.alert = a),
         \A a \in Alert : jobs[j].pc \in Recording /\ jobs[j].alert = a /\ Missing(alerts'[a]) =>
           r.pc \in Recording /\ r.alert = a,
         Ticketed(r, alerts'), r.pc = "release" => alerts'[r.row.alert].ticket # None,
         UNCHANGED crashes
  PROVE  LostInv'
<1>1. \A i \in Job : jobs'[i] = IF i = j THEN r ELSE jobs[i]
  BY DEF TypeInv, TypeOK
<1>2. Lost' \subseteq Lost
  <2> SUFFICES ASSUME NEW a \in Lost' PROVE a \in Lost
    OBVIOUS
  <2>1. a \in Alert /\ Missing(alerts'[a]) /\ \A i \in Job : ~(jobs'[i].pc \in Recording /\ jobs'[i].alert = a)
    BY DEF Lost, Missing
  <2>2. ~(r.pc \in Recording /\ r.alert = a)
    BY <1>1, <2>1
  <2>3. \A i \in Job : ~(jobs[i].pc \in Recording /\ jobs[i].alert = a)
    BY <1>1, <2>1, <2>2
  <2> QED
    BY <2>1, <2>2, <2>3 DEF Lost
<1>3. IsFiniteSet(Lost') /\ Cardinality(Lost') <= Cardinality(Lost) /\ Cardinality(Lost') \in Nat /\ Cardinality(Lost) \in Nat
  BY <1>2, FS_Subset, FS_CardinalityType DEF LostInv
<1>4. Cardinality(Lost') <= crashes'
  BY <1>3 DEF LostInv, TypeInv, TypeOK
<1>5. ASSUME NEW i \in Job, i # j
      PROVE  Ticketed(jobs[i], alerts') /\ (jobs[i].pc = "release" => alerts'[jobs[i].row.alert].ticket # None)
  <2>1. /\ Ticketed(jobs[i], alerts) /\ (jobs[i].pc = "release" => alerts[jobs[i].row.alert].ticket # None)
        /\ Shaped(jobs[i])
    BY DEF LostInv, TypeInv
  <2>2. \A c \in {jobs[i].row} \cup jobs[i].held : c.alert \in Alert => alerts[c.alert].status # "none"
    BY DEF TypeInv, InUse, Hand
  <2> QED
    BY <2>1, <2>2 DEF Ticketed, Shaped
<1>6. \A i \in Job : /\ Ticketed(jobs'[i], alerts')
                     /\ jobs'[i].pc = "release" => alerts'[jobs'[i].row.alert].ticket # None
  BY <1>1, <1>5
<1> QED
  BY <1>3, <1>4, <1>6 DEF LostInv, Ticketed

\* What a handler keeps of its copies is as it was, and nothing is no copy.
LEMMA CopiesLost ==
  ASSUME TypeInv, LostInv, NEW j \in Job, NEW r,
         {r.row} \cup r.held \subseteq {jobs[j].row, Nothing} \cup jobs[j].held,
         \A a \in Alert : alerts[a].status # "none" /\ alerts[a].ticket # None => alerts'[a].ticket # None
  PROVE  Ticketed(r, alerts')
<1>1. Ticketed(jobs[j], alerts) /\ Nothing.ticket = None
  BY DEF LostInv, Nothing
<1>2. \A c \in {jobs[j].row} \cup jobs[j].held : c.alert \in Alert => alerts[c.alert].status # "none"
  BY DEF TypeInv, InUse, Hand
<1> QED
  BY <1>1, <1>2 DEF Ticketed

\* A handler that records nothing goes on, and the alerts keep their tickets,
\* their windows or their end.
LEMMA PlainLost ==
  ASSUME TypeInv, LostInv, NEW j \in Job, NEW r, jobs' = [jobs EXCEPT ![j] = r],
         {r.row} \cup r.held \subseteq {jobs[j].row, Nothing} \cup jobs[j].held,
         r.pc = "release" => jobs[j].pc = "release" /\ r.row = jobs[j].row,
         jobs[j].pc \notin Recording \/ (r.pc \in Recording /\ r.alert = jobs[j].alert),
         \A a \in Alert : alerts[a].status # "none" /\ alerts[a].ticket # None => alerts'[a].ticket # None,
         \A a \in Alert : Missing(alerts'[a]) => Missing(alerts[a]) \/ (r.pc \in Recording /\ r.alert = a),
         UNCHANGED crashes
  PROVE  LostInv'
<1>1. Ticketed(r, alerts')
  BY CopiesLost
<1>2. jobs[j].pc = "release" => alerts[jobs[j].row.alert].status # "none" /\ alerts[jobs[j].row.alert].ticket # None
                                /\ jobs[j].row.alert \in Alert
  BY DEF TypeInv, InUse, Hand, Shaped, LostInv
<1>3. r.pc = "release" => alerts'[r.row.alert].ticket # None
  BY <1>2
<1> QED
  BY <1>1, <1>3, CarriedLost

\* A handler is done: what it had recorded is on a ticket.
LEMMA DoneLost ==
  ASSUME TypeInv, LostInv, NEW j \in Job, Done(j),
         jobs[j].pc \notin Recording \/ alerts'[jobs[j].alert].ticket # None,
         \A a \in Alert : alerts[a].status # "none" /\ alerts[a].ticket # None => alerts'[a].ticket # None,
         \A a \in Alert : Missing(alerts'[a]) => Missing(alerts[a]),
         UNCHANGED crashes
  PROVE  LostInv'
<1>1. PICK r \in JobRecord : /\ jobs' = [jobs EXCEPT ![j] = r]
                             /\ r.held = jobs[j].held /\ r.row = Nothing
                             /\ r.pc \in {"idle", "next"}
  BY DoneTypes
<1>2. Ticketed(r, alerts')
  BY <1>1, CopiesLost
<1> QED
  BY <1>1, <1>2, CarriedLost DEF Missing, Recording

\* A handler that changes no alert and goes to another step.
LEMMA GoLost ==
  ASSUME TypeInv, LostInv, NEW j \in Job, NEW pc, GoTo(j, pc), pc # "release",
         jobs[j].pc \notin Recording \/ pc \in Recording,
         \A a \in Alert : alerts[a].status # "none" /\ alerts[a].ticket # None => alerts'[a].ticket # None,
         \A a \in Alert : Missing(alerts'[a]) => Missing(alerts[a]),
         UNCHANGED crashes
  PROVE  LostInv'
<1> DEFINE r == [jobs[j] EXCEPT !.pc = pc]
<1>1. r.pc = pc /\ r.row = jobs[j].row /\ r.held = jobs[j].held /\ r.alert = jobs[j].alert
  BY DEF TypeInv, TypeOK, JobRecord
<1>2. jobs' = [jobs EXCEPT ![j] = r]
  BY DEF GoTo, Go
<1> HIDE DEF r
<1> QED
  BY <1>1, <1>2, PlainLost

\* A signal comes in, is looked up and routed, and its alert is recorded.
LEMMA IngestLost ==
  ASSUME TypeInv, LostInv, NEW j \in Job,
         Fire(j) \/ Clear(j) \/ Lookup(j) \/ Check(j) \/ End(j) \/ Insert(j)
  PROVE  LostInv'
<1> DEFINE job == jobs[j]
<1>a. job \in JobRecord /\ Shaped(job) /\ alerts \in [Alert -> AlertRow]
  BY DEF TypeInv, TypeOK
<1>1. ASSUME NEW op, Receive(j, op) PROVE LostInv'
  <2>1. PICK k \in Key : jobs' = [jobs EXCEPT ![j] = [Idle EXCEPT !.op = op, !.pc = "lookup", !.key = k]]
    BY <1>1 DEF Receive, Go
  <2> DEFINE r == [Idle EXCEPT !.op = op, !.pc = "lookup", !.key = k]
  <2>2. r.pc = "lookup" /\ r.row = Nothing /\ r.held = {}
    BY DEF Idle
  <2>3. job.pc \notin Recording /\ UNCHANGED <<alerts, crashes>>
    BY <1>1 DEF Receive, At, Recording
  <2> HIDE DEF r
  <2> QED
    BY <2>1, <2>2, <2>3, PlainLost DEF r
<1>2. ASSUME TakeRoute(j), job.pc \in {"lookup", "end"}, UNCHANGED crashes,
             \A a \in Alert : alerts'[a].ticket = alerts[a].ticket /\ (Missing(alerts'[a]) => Missing(alerts[a]))
      PROVE  LostInv'
  <2>1. job.key \in Key
    BY <1>a, <1>2 DEF Shaped
  <2>2. PICK r \in JobRecord : /\ jobs' = [jobs EXCEPT ![j] = r]
                               /\ r.held = job.held /\ r.row = Nothing
                               /\ r.pc \in {"idle", "next", "insert"}
    BY <1>2, <2>1, RouteTypes
  <2> QED
    BY <1>2, <2>2, PlainLost DEF Recording
<1>3. CASE Lookup(j)
  <2>1. job.pc = "lookup" /\ UNCHANGED <<alerts, crashes>> /\ job.pc \notin Recording
    BY <1>3 DEF Lookup, At, Recording
  <2>2. ASSUME NEW a \in OpenAlerts(job.key), NEW pc \in {"resolve", "check"},
               Go(j, [[job EXCEPT !.row = [alert |-> a, ticket |-> alerts[a].ticket]] EXCEPT !.pc = pc])
        PROVE  LostInv'
    <3> DEFINE r == [[job EXCEPT !.row = [alert |-> a, ticket |-> alerts[a].ticket]] EXCEPT !.pc = pc]
    <3>1. r.pc = pc /\ r.held = job.held /\ r.row = [alert |-> a, ticket |-> alerts[a].ticket] /\ r.alert = job.alert
      BY <1>a, <2>2 DEF JobRecord
    <3>2. Ticketed(r, alerts')
      BY <2>1, <3>1 DEF LostInv, Ticketed
    <3>3. jobs' = [jobs EXCEPT ![j] = r]
      BY <2>2 DEF Go
    <3> HIDE DEF r
    <3> QED
      BY <2>1, <3>1, <3>2, <3>3, CarriedLost
  <2> QED
    BY <1>2, <1>3, <2>1, <2>2, DoneLost DEF Lookup
<1>4. CASE Check(j)
  <2>1. job.pc \notin Recording /\ UNCHANGED <<alerts, crashes>>
    BY <1>4 DEF Check, At, Recording
  <2> QED
    BY <1>4, <2>1, DoneLost, GoLost DEF Check
<1>5. CASE End(j)
  <2>1. job.pc = "end" /\ UNCHANGED crashes /\ TakeRoute(j)
    BY <1>5 DEF End, At
  <2>2. alerts' = [alerts EXCEPT ![job.row.alert] = Resolved(alerts[job.row.alert])]
    BY <1>5 DEF End, Update
  <2>3. \A a \in Alert : alerts'[a].ticket = alerts[a].ticket /\ (Missing(alerts'[a]) => Missing(alerts[a]))
    BY <1>a, <2>2 DEF Resolved, AlertRow, Missing
  <2> QED
    BY <1>2, <2>1, <2>3
<1>6. CASE Insert(j)
  <2>1. PICK a \in Alert, w \in Coverage :
          /\ alerts[a].status = "none"
          /\ Update(a, [status |-> "firing", key |-> job.key, ticket |-> None, window |-> w,
                        quiet |-> job.route.quiet, severe |-> job.route.severe])
          /\ IF Held(w) THEN Done(j) ELSE Go(j, [job EXCEPT !.pc = "group", !.alert = a, !.cover = w])
    BY <1>6 DEF Insert
  <2>2. /\ alerts'[a].window = w
        /\ \A b \in Alert : b # a => alerts'[b] = alerts[b]
        /\ UNCHANGED crashes /\ job.pc \notin Recording
    BY <1>6, <1>a, <2>1 DEF Update, Insert, At, Recording
  <2>3. \A b \in Alert : alerts[b].status # "none" /\ alerts[b].ticket # None => alerts'[b].ticket # None
    BY <2>1, <2>2
  <2>4. CASE Held(w) /\ Done(j)
    <3>1. \A b \in Alert : Missing(alerts'[b]) => Missing(alerts[b])
      BY <2>2, <2>4 DEF Held, Missing
    <3> QED
      BY <2>2, <2>3, <2>4, <3>1, DoneLost
  <2>5. CASE Go(j, [job EXCEPT !.pc = "group", !.alert = a, !.cover = w])
    <3> DEFINE r == [job EXCEPT !.pc = "group", !.alert = a, !.cover = w]
    <3>1. r.pc = "group" /\ r.alert = a /\ r.row = job.row /\ r.held = job.held
      BY <1>a DEF JobRecord
    <3>2. jobs' = [jobs EXCEPT ![j] = r]
      BY <2>5 DEF Go
    <3>3. \A b \in Alert : Missing(alerts'[b]) => Missing(alerts[b]) \/ (r.pc \in Recording /\ r.alert = b)
      BY <2>2, <3>1 DEF Recording
    <3> HIDE DEF r
    <3> QED
      BY <2>2, <2>3, <3>1, <3>2, <3>3, PlainLost
  <2> QED
    BY <2>1, <2>4, <2>5
<1> QED
  BY <1>1, <1>3, <1>4, <1>5, <1>6 DEF Fire, Clear

\* What was recorded stays in hand until it is on a ticket.
LEMMA IncidentLost ==
  ASSUME TypeInv, LostInv, NEW j \in Job,
         Group(j) \/ Join(j) \/ CreateTicket(j) \/ Attach(j) \/ TriggerPage(j)
  PROVE  LostInv'
<1> DEFINE job == jobs[j]
<1>a. job \in JobRecord /\ Shaped(job) /\ alerts \in [Alert -> AlertRow]
  BY DEF TypeInv, TypeOK
<1>1. ASSUME NEW t, NEW pc \in {"join", "attach"}, Go(j, [job EXCEPT !.pc = pc, !.ticket = t]),
             UNCHANGED <<alerts, crashes>>
      PROVE  LostInv'
  <2> DEFINE r == [job EXCEPT !.pc = pc, !.ticket = t]
  <2>1. r.pc = pc /\ r.alert = job.alert /\ r.row = job.row /\ r.held = job.held
    BY <1>a DEF JobRecord
  <2>2. jobs' = [jobs EXCEPT ![j] = r]
    BY <1>1 DEF Go
  <2> HIDE DEF r
  <2> QED
    BY <1>1, <2>1, <2>2, PlainLost DEF Recording
<1>2. CASE Group(j)
  BY <1>1, <1>2, GoLost DEF Group, Recording
<1>3. CASE CreateTicket(j)
  BY <1>1, <1>3 DEF CreateTicket
<1>4. ASSUME SetTicket(j), job.pc \in {"join", "attach"}
      PROVE  /\ alerts'[job.alert].ticket # None
             /\ \A a \in Alert : alerts[a].status # "none" /\ alerts[a].ticket # None => alerts'[a].ticket # None
             /\ \A a \in Alert : Missing(alerts'[a]) => Missing(alerts[a])
  <2>1. job.alert \in Alert /\ job.ticket # None
    BY <1>a, <1>4, NoneIsNone DEF Shaped
  <2>2. /\ alerts'[job.alert].ticket = job.ticket
        /\ \A a \in Alert : a # job.alert => alerts'[a] = alerts[a]
    BY <1>a, <1>4, <2>1 DEF SetTicket, Update, AlertRow
  <2> QED
    BY <2>1, <2>2 DEF Missing
<1>5. CASE Join(j)
  BY <1>4, <1>5, DoneLost DEF Join, At
<1>6. CASE Attach(j)
  <2>1. job.pc = "attach" /\ SetTicket(j) /\ UNCHANGED crashes
    BY <1>6 DEF Attach, At
  <2>2. CASE GoTo(j, "page")
    <3> DEFINE r == [job EXCEPT !.pc = "page"]
    <3>1. r.pc = "page" /\ r.row = job.row /\ r.held = job.held
      BY <1>a DEF JobRecord
    <3>2. jobs' = [jobs EXCEPT ![j] = r]
      BY <2>2 DEF GoTo, Go
    <3> HIDE DEF r
    <3>3. Ticketed(r, alerts')
      BY <1>4, <2>1, <3>1, CopiesLost
    <3> QED
      BY <1>4, <2>1, <3>1, <3>2, <3>3, CarriedLost DEF Missing
  <2> QED
    BY <1>4, <1>6, <2>1, <2>2, DoneLost DEF Attach
<1>7. CASE TriggerPage(j)
  BY <1>7, DoneLost DEF TriggerPage, At, Recording
<1> QED
  BY <1>2, <1>3, <1>5, <1>6, <1>7

\* What resolves has not vanished.
LEMMA ClearLost ==
  ASSUME TypeInv, LostInv, NEW j \in Job,
         ResolveAlert(j) \/ Count(j) \/ Look(j) \/ CloseTicket(j) \/ SettlePages(j)
  PROVE  LostInv'
<1>a. alerts \in [Alert -> AlertRow]
  BY DEF TypeInv, TypeOK
<1>1. \A a \in Alert : alerts'[a].ticket = alerts[a].ticket /\ (Missing(alerts'[a]) => Missing(alerts[a]))
  <2>1. CASE ResolveAlert(j)
    BY <2>1, <1>a DEF ResolveAlert, Update, Resolved, AlertRow, Missing
  <2> QED
    BY <2>1 DEF Count, Look, CloseTicket, SettlePages
<1>2. UNCHANGED crashes /\ jobs[j].pc \notin Recording
  BY DEF ResolveAlert, Count, Look, CloseTicket, SettlePages, At, Recording
<1>3. Done(j) \/ \E pc \in {"count", "look", "close", "settle"} : GoTo(j, pc)
  BY DEF ResolveAlert, Count, Look, CloseTicket, SettlePages
<1> QED
  BY <1>1, <1>2, <1>3, DoneLost, GoLost

\* The end of maintenance releases what is on a ticket, and closes the rest.
LEMMA ReraiseLost ==
  ASSUME TypeInv, LostInv, NEW j \in Job,
         Reraise(j) \/ NextHeld(j) \/ Still(j) \/ Release(j) \/ Ask(j) \/ Requeue(j)
  PROVE  LostInv'
<1> DEFINE job == jobs[j]
           x == job.row.alert
<1>a. job \in JobRecord /\ Shaped(job) /\ alerts \in [Alert -> AlertRow] /\ Ticketed(job, alerts)
  BY DEF TypeInv, TypeOK, LostInv
<1>b. UNCHANGED crashes /\ job.pc \notin Recording
  BY DEF Reraise, NextHeld, Still, Release, Ask, Requeue, At, Recording
<1>1. CASE Reraise(j)
  <2>1. PICK w : jobs' = [jobs EXCEPT ![j] = [Idle EXCEPT !.op = "reraise", !.pc = "next",
                   !.held = {[alert |-> a, ticket |-> alerts[a].ticket] : a \in HeldBy(w)}]]
    BY <1>1 DEF Reraise, Go
  <2> DEFINE r == [Idle EXCEPT !.op = "reraise", !.pc = "next",
                     !.held = {[alert |-> a, ticket |-> alerts[a].ticket] : a \in HeldBy(w)}]
  <2>2. r.pc = "next" /\ r.row = Nothing /\ r.held = {[alert |-> a, ticket |-> alerts[a].ticket] : a \in HeldBy(w)}
    BY DEF Idle
  <2>3. UNCHANGED alerts
    BY <1>1 DEF Reraise
  <2> HIDE DEF r
  <2>4. Ticketed(r, alerts')
    BY <2>2, <2>3 DEF Ticketed, Nothing
  <2> QED
    BY <1>b, <2>1, <2>2, <2>3, <2>4, CarriedLost DEF r
<1>2. CASE NextHeld(j)
  <2>1. UNCHANGED alerts
    BY <1>2 DEF NextHeld
  <2>2. CASE Go(j, Idle)
    <3>1. Idle.pc = "idle" /\ Idle.row = Nothing /\ Idle.held = {}
      BY DEF Idle
    <3> QED
      BY <1>b, <2>1, <2>2, <3>1, PlainLost DEF Go
  <2>3. ASSUME NEW row \in job.held, Go(j, [job EXCEPT !.pc = "still", !.row = row, !.held = @ \ {row}])
        PROVE  LostInv'
    <3> DEFINE r == [job EXCEPT !.pc = "still", !.row = row, !.held = @ \ {row}]
    <3>1. r.pc = "still" /\ r.row = row /\ r.held = job.held \ {row}
      BY <1>a DEF JobRecord
    <3>2. jobs' = [jobs EXCEPT ![j] = r]
      BY <2>3 DEF Go
    <3> HIDE DEF r
    <3> QED
      BY <1>b, <2>1, <2>3, <3>1, <3>2, PlainLost
  <2> QED
    BY <1>2, <2>2, <2>3 DEF NextHeld
<1>3. CASE Still(j)
  <2>1. job.pc = "still" /\ x \in Alert
    BY <1>3, <1>a DEF Still, At, Shaped
  <2>2. ASSUME NEW w \in Coverage \ {None}, Update(x, [alerts[x] EXCEPT !.window = w]), Done(j) PROVE LostInv'
    <3>1. \A a \in Alert : alerts'[a].ticket = alerts[a].ticket /\ (Missing(alerts'[a]) => Missing(alerts[a]))
      BY <1>a, <2>1, <2>2 DEF Update, AlertRow, Missing
    <3> QED
      BY <1>b, <2>2, <3>1, DoneLost
  <2>3. ASSUME NEW pc \in {"release", "requeue"}, GoTo(j, pc), UNCHANGED alerts, pc = "release" => job.row.ticket # None
        PROVE  LostInv'
    <3> DEFINE r == [job EXCEPT !.pc = pc]
    <3>1. r.pc = pc /\ r.row = job.row /\ r.held = job.held
      BY <1>a DEF JobRecord
    <3>2. jobs' = [jobs EXCEPT ![j] = r]
      BY <2>3 DEF GoTo, Go
    <3> HIDE DEF r
    <3>3. Ticketed(r, alerts') /\ (r.pc = "release" => alerts'[r.row.alert].ticket # None)
      BY <1>a, <2>1, <2>3, <3>1 DEF Ticketed
    <3> QED
      BY <1>b, <2>3, <3>1, <3>2, <3>3, CarriedLost
  <2> QED
    BY <1>3, <2>2, <2>3 DEF Still
<1>4. CASE Release(j)
  <2>1. alerts[x].ticket # None /\ alerts' = [alerts EXCEPT ![x] = [alerts[x] EXCEPT !.window = None]] /\ GoTo(j, "ask")
    BY <1>4 DEF Release, At, Update, LostInv
  <2>2. \A a \in Alert : alerts'[a].ticket = alerts[a].ticket /\ (Missing(alerts'[a]) => Missing(alerts[a]))
    BY <1>a, <2>1 DEF AlertRow, Missing
  <2> QED
    BY <1>b, <2>1, <2>2, GoLost
<1>5. CASE Ask(j)
  <2>1. UNCHANGED alerts
    BY <1>5 DEF Ask
  <2>2. CASE Go(j, [job EXCEPT !.pc = "page", !.alert = x, !.ticket = job.row.ticket])
    <3> DEFINE r == [job EXCEPT !.pc = "page", !.alert = x, !.ticket = job.row.ticket]
    <3>1. r.pc = "page" /\ r.row = job.row /\ r.held = job.held
      BY <1>a DEF JobRecord
    <3>2. jobs' = [jobs EXCEPT ![j] = r]
      BY <2>2 DEF Go
    <3> HIDE DEF r
    <3> QED
      BY <1>b, <2>1, <3>1, <3>2, PlainLost
  <2> QED
    BY <1>5, <1>b, <2>1, <2>2, DoneLost DEF Ask
<1>6. CASE Requeue(j)
  <2>1. alerts' = [alerts EXCEPT ![x] = [Resolved(alerts[x]) EXCEPT !.window = None]]
    BY <1>6 DEF Requeue, Update
  <2>2. \A a \in Alert : alerts'[a].ticket = alerts[a].ticket /\ (Missing(alerts'[a]) => Missing(alerts[a]))
    BY <1>a, <2>1 DEF AlertRow, Missing, Resolved
  <2> DEFINE r == [job EXCEPT !.pc = "lookup", !.key = alerts[x].key, !.row = Nothing]
  <2>3. r.pc = "lookup" /\ r.row = Nothing /\ r.held = job.held
    BY <1>a DEF JobRecord
  <2>4. jobs' = [jobs EXCEPT ![j] = r]
    BY <1>6 DEF Requeue, Go
  <2> HIDE DEF r
  <2> QED
    BY <1>b, <2>2, <2>3, <2>4, PlainLost
<1> QED
  BY <1>1, <1>2, <1>3, <1>4, <1>5, <1>6

\* A crash loses the alert its handler was recording, and nothing else does.
LEMMA EnvironmentLost ==
  ASSUME TypeInv, LostInv,
         \/ \E w \in Window : WindowStarts(w) \/ WindowEnds(w)
         \/ \E t \in Ticket : EditTicket(t) \/ PageStops(t) \/ ForgetTicket(t)
         \/ \E a \in Alert : ForgetAlert(a)
         \/ \E j \in Job : Crash(j)
         \/ UNCHANGED vars
  PROVE  LostInv'
<1>1. ASSUME UNCHANGED <<alerts, jobs, crashes>> PROVE LostInv'
  BY <1>1 DEF LostInv, Lost, Ticketed, Missing
<1>2. ASSUME NEW a \in Alert, ForgetAlert(a) PROVE LostInv'
  <2>1. /\ \A b \in Alert : b # a => alerts'[b] = alerts[b]
        /\ alerts'[a] = NoAlert /\ UNCHANGED <<jobs, crashes>>
    BY <1>2 DEF ForgetAlert, TypeInv, TypeOK
  <2>2. Lost' \subseteq Lost
    BY <2>1 DEF Lost, Missing, NoAlert
  <2>3. IsFiniteSet(Lost') /\ Cardinality(Lost') <= Cardinality(Lost) /\ Cardinality(Lost') \in Nat /\ Cardinality(Lost) \in Nat
    BY <2>2, FS_Subset, FS_CardinalityType DEF LostInv
  <2>4. Cardinality(Lost') <= crashes'
    BY <2>1, <2>3 DEF LostInv, TypeInv, TypeOK
  <2>5. ASSUME NEW j \in Job
        PROVE  Ticketed(jobs[j], alerts') /\ (jobs[j].pc = "release" => alerts'[jobs[j].row.alert].ticket # None)
    <3>1. \A c \in {jobs[j].row} \cup jobs[j].held : c.alert # a
      BY <1>2 DEF ForgetAlert, InHand
    <3>2. /\ Ticketed(jobs[j], alerts) /\ (jobs[j].pc = "release" => alerts[jobs[j].row.alert].ticket # None)
          /\ jobs[j].pc = "release" => jobs[j].row.alert \in Alert
      BY DEF LostInv, TypeInv, Shaped
    <3> QED
      BY <2>1, <3>1, <3>2 DEF Ticketed
  <2> QED
    BY <2>1, <2>3, <2>4, <2>5 DEF LostInv, Ticketed
<1>3. ASSUME NEW j \in Job, Crash(j) PROVE LostInv'
  <2>1. jobs' = [jobs EXCEPT ![j] = Idle] /\ UNCHANGED alerts /\ crashes' = crashes + 1
    BY <1>3 DEF Crash, Go
  <2>2. Idle.pc = "idle" /\ Idle.row = Nothing /\ Idle.held = {} /\ Nothing.ticket = None
    BY DEF Idle, Nothing
  <2>3. \A i \in Job : jobs'[i] = IF i = j THEN Idle ELSE jobs[i]
    BY <2>1 DEF TypeInv, TypeOK
  <2>4. Lost' \subseteq Lost \cup {jobs[j].alert}
    <3> SUFFICES ASSUME NEW a \in Lost', a # jobs[j].alert PROVE a \in Lost
      OBVIOUS
    <3>1. a \in Alert /\ Missing(alerts[a]) /\ \A i \in Job : ~(jobs'[i].pc \in Recording /\ jobs'[i].alert = a)
      BY <2>1 DEF Lost, Missing
    <3> QED
      BY <2>3, <3>1 DEF Lost
  <2> DEFINE Most == Lost \cup {jobs[j].alert}
  <2>5. IsFiniteSet(Lost) /\ IsFiniteSet(Most) /\ Cardinality(Most) <= Cardinality(Lost) + 1 /\ Cardinality(Lost) \in Nat
    <3>1. IsFiniteSet(Lost) /\ Cardinality(Lost) \in Nat
      BY FS_CardinalityType DEF LostInv
    <3>2. /\ IsFiniteSet(Most)
          /\ Cardinality(Most) = IF jobs[j].alert \in Lost THEN Cardinality(Lost) ELSE Cardinality(Lost) + 1
      BY <3>1, FS_AddElement
    <3> QED
      BY <3>1, <3>2
  <2>6. IsFiniteSet(Lost') /\ Cardinality(Lost') <= Cardinality(Most) /\ Cardinality(Lost') \in Nat /\ Cardinality(Most) \in Nat
    BY <2>4, <2>5, FS_Subset, FS_CardinalityType
  <2>7. Cardinality(Lost') <= crashes'
    BY <2>1, <2>5, <2>6 DEF LostInv, TypeInv, TypeOK
  <2>8. \A i \in Job : /\ Ticketed(jobs'[i], alerts')
                       /\ jobs'[i].pc = "release" => alerts'[jobs'[i].row.alert].ticket # None
    BY <2>1, <2>2, <2>3 DEF LostInv, Ticketed
  <2> QED
    BY <2>6, <2>7, <2>8 DEF LostInv, Ticketed
<1>4. CASE UNCHANGED vars
  BY <1>1, <1>4 DEF vars
<1> QED
  BY <1>1, <1>2, <1>3, <1>4 DEF WindowStarts, WindowEnds, EditTicket, PageStops, ForgetTicket

\* Every step keeps the invariant.
LEMMA NextLost ==
  ASSUME TypeInv, LostInv, [Next]_vars
  PROVE  LostInv'
<1>1. ASSUME NEW j \in Job, JobStart(j) \/ JobStep(j) PROVE LostInv'
  BY <1>1, IngestLost, IncidentLost, ClearLost, ReraiseLost DEF JobStart, JobStep
<1> QED
  BY <1>1, EnvironmentLost DEF Next, Undisturbed

\* Nothing is lost at first.
LEMMA InitLost == Init => LostInv
<1> SUFFICES ASSUME Init PROVE LostInv
  OBVIOUS
<1>1. Lost = {}
  BY DEF Init, Lost, Missing, NoAlert
<1>2. IsFiniteSet(Lost) /\ Cardinality(Lost) <= crashes
  BY <1>1, FS_EmptySet DEF Init
<1>3. \A j \in Job : jobs[j].pc = "idle" /\ jobs[j].row.ticket = None /\ jobs[j].held = {}
  BY DEF Init, Idle, Nothing
<1> QED
  BY <1>2, <1>3 DEF LostInv, Ticketed

\* What was recorded and not lost is in somebody's hands.
LEMMA LostHolds == Spec => []LostInv
<1>1. Spec => []TypeInv
  BY TypeCorrect
<1>2. TypeInv /\ LostInv /\ [Next]_vars => LostInv'
  BY NextLost
<1> QED
  BY <1>1, <1>2, InitLost, PTL DEF Spec

\* However handlers overlap, an alert that fires ends on a ticket or is held by
\* a window, whose end raises it: each crash loses sight of one at most.
THEOREM AlertsDoNotVanish == Spec => []NothingVanishes
<1>1. LostInv => NothingVanishes
  <2> SUFFICES ASSUME LostInv, AllIdle
               PROVE  Cardinality({a \in Alert : Firing(a) /\ alerts[a].ticket = None /\ alerts[a].window = None}) <= crashes
    BY DEF NothingVanishes
  <2>1. Lost = {a \in Alert : Firing(a) /\ alerts[a].ticket = None /\ alerts[a].window = None}
    BY DEF Lost, Missing, Firing, AllIdle, At, Recording
  <2> QED
    BY <2>1 DEF LostInv
<1> QED
  BY <1>1, LostHolds, PTL
-----------------------------------------------------------------------------
(* One handler. *)

NoCrash == MaxCrashes = 0

\* The ticket has an alert to come or has just lost one.
Supports(job, t) ==
  \/ job.pc = "attach" /\ job.ticket = t
  \/ job.pc \in {"count", "look", "close"} /\ job.row.ticket = t

Ended(row) == row.status \in {"resolved", "closed"}

\* What a handler has read is still so.
CopyPart(job, rows) ==
  /\ job.pc \in {"check", "end", "resolve", "still", "release", "requeue"} =>
       rows[job.row.alert].ticket = job.row.ticket
  /\ \A c \in job.held : rows[c.alert].ticket = c.ticket
  /\ job.pc = "requeue" => job.row.ticket = None
  /\ job.pc \in {"check", "end"} => job.row.ticket # None

\* The alert a handler records, until it is paged for.
RecordPart(job, rows) ==
  /\ job.pc \in Recording =>
       /\ rows[job.alert].status = "firing" /\ rows[job.alert].ticket = None
       /\ rows[job.alert].key = job.key
       /\ \A c \in job.held : c.alert # job.alert
  /\ job.pc = "page" /\ job.op = "fire" =>
       /\ rows[job.alert].status = "firing"
       /\ rows[job.alert].key = job.key
       /\ rows[job.alert].ticket = job.ticket

\* The ticket a handler acts on; people leave it alone meanwhile if all is calm.
TicketPart(job, rows, tix) ==
  /\ job.pc = "end" => tix[job.row.ticket].status # "open"
  /\ job.pc \in {"join", "attach"} => tix[job.ticket].status # "none"
  /\ job.pc \in {"count", "look", "close"} => tix[job.row.ticket].status # "none"
  /\ job.pc \in {"look", "close"} =>
       \A a \in Alert : ~(rows[a].status = "firing" /\ rows[a].ticket = job.row.ticket)
  /\ Calm => /\ job.pc \in {"join", "attach"} => ~Ended(tix[job.ticket])
             /\ job.pc = "close" => ~Ended(tix[job.row.ticket])
             /\ job.pc = "page" /\ job.op = "fire" => ~Ended(tix[job.ticket])

\* An alert's ticket is in use.
Backed == \A a \in Alert : alerts[a].ticket # None => tickets[alerts[a].ticket].status # "none"

\* An incident that nobody has touched has an alert, or a handler sees to it.
Cared ==
  \A t \in Ticket : tickets[t].status = "open" =>
    \/ \E a \in Alert : alerts[a].status = "firing" /\ alerts[a].ticket = t
    \/ \E j \in Job : Supports(jobs[j], t)

SoloInv ==
  /\ Backed /\ Cared
  /\ \A j \in Job : CopyPart(jobs[j], alerts) /\ RecordPart(jobs[j], alerts) /\ TicketPart(jobs[j], alerts, tickets)
\* Nothing is in hand or in use at first.
LEMMA InitSolo == Init => SoloInv
BY DEF Init, SoloInv, Backed, Cared, CopyPart, RecordPart, TicketPart, Idle, NoAlert, NoTicket, Recording

\* A step of the handler keeps the invariant if its own new record is sound.
LEMMA CarriedSolo ==
  ASSUME OneHandler, TypeInv, NEW j \in Job, NEW r, jobs' = [jobs EXCEPT ![j] = r],
         CopyPart(r, alerts'), RecordPart(r, alerts'), TicketPart(r, alerts', tickets'), Backed',
         \A t \in Ticket : tickets'[t].status = "open" =>
           Supports(r, t) \/ \E a \in Alert : alerts'[a].status = "firing" /\ alerts'[a].ticket = t
  PROVE  SoloInv'
<1>1. \A i \in Job : jobs'[i] = r
  BY DEF OneHandler, TypeInv, TypeOK
<1>2. Cared'
  BY <1>1 DEF Cared
<1> QED
  BY <1>1, <1>2 DEF SoloInv

\* An incident nobody has touched has an alert, unless the handler sees to it.
LEMMA CaredSolo ==
  ASSUME OneHandler, SoloInv, NEW j \in Job, NEW t \in Ticket, tickets[t].status = "open", ~Supports(jobs[j], t)
  PROVE  \E a \in Alert : alerts[a].status = "firing" /\ alerts[a].ticket = t
BY DEF OneHandler, SoloInv, Cared

\* Where a handler neither records an alert nor acts on what it has read, only
\* what it still holds matters.
LEMMA FreeParts ==
  ASSUME NEW r, NEW rows, NEW tix,
         r.pc \in {"idle", "next", "lookup", "insert", "settle", "ask"} \/ (r.pc = "page" /\ r.op # "fire"),
         \A c \in r.held : rows[c.alert].ticket = c.ticket
  PROVE  CopyPart(r, rows) /\ RecordPart(r, rows) /\ TicketPart(r, rows, tix)
BY DEF CopyPart, RecordPart, TicketPart, Recording

\* What is held is in use.
LEMMA HeldInUse ==
  ASSUME TypeInv, SoloInv, NEW j \in Job
  PROVE  /\ \A c \in jobs[j].held : c.alert \in Alert /\ alerts[c.alert].status # "none" /\ alerts[c.alert].ticket = c.ticket
         /\ \A a \in {jobs[j].row.alert, jobs[j].alert} : a \in Alert => alerts[a].status # "none"
BY DEF TypeInv, InUse, Hand, Shaped, SoloInv, CopyPart

\* A step without consequences for what the handler has read.
LEMMA FreeSolo ==
  ASSUME OneHandler, TypeInv, SoloInv, NEW j \in Job, NEW r, jobs' = [jobs EXCEPT ![j] = r],
         r.pc \in {"idle", "next", "lookup", "insert", "settle", "ask"} \/ (r.pc = "page" /\ r.op # "fire"),
         r.held \subseteq jobs[j].held,
         \A a \in Alert : alerts[a].status # "none" =>
           alerts'[a].ticket = alerts[a].ticket \/ \A c \in jobs[j].held : c.alert # a,
         Backed',
         \A t \in Ticket : tickets'[t].status = "open" =>
           \E a \in Alert : alerts'[a].status = "firing" /\ alerts'[a].ticket = t
  PROVE  SoloInv'
<1>1. \A c \in r.held : alerts'[c.alert].ticket = c.ticket
  BY HeldInUse
<1>2. CopyPart(r, alerts') /\ RecordPart(r, alerts') /\ TicketPart(r, alerts', tickets')
  BY <1>1, FreeParts
<1> QED
  BY <1>2, CarriedSolo

\* A handler that is done.
LEMMA DoneSolo ==
  ASSUME OneHandler, TypeInv, SoloInv, NEW j \in Job, Done(j),
         \A a \in Alert : alerts[a].status # "none" =>
           alerts'[a].ticket = alerts[a].ticket \/ \A c \in jobs[j].held : c.alert # a,
         Backed',
         \A t \in Ticket : tickets'[t].status = "open" =>
           \E a \in Alert : alerts'[a].status = "firing" /\ alerts'[a].ticket = t
  PROVE  SoloInv'
<1>1. PICK r \in JobRecord : jobs' = [jobs EXCEPT ![j] = r] /\ r.held = jobs[j].held /\ r.pc \in {"idle", "next"}
  BY DoneTypes
<1> QED
  BY <1>1, FreeSolo

\* A handler that has read, and goes on.
LEMMA ReadSolo ==
  ASSUME OneHandler, TypeInv, SoloInv, NEW j \in Job, NEW r, jobs' = [jobs EXCEPT ![j] = r],
         CopyPart(r, alerts), RecordPart(r, alerts), TicketPart(r, alerts, tickets),
         UNCHANGED <<alerts, tickets>>,
         \A t \in Ticket : Supports(jobs[j], t) /\ tickets[t].status = "open" =>
           Supports(r, t) \/ \E a \in Alert : alerts[a].status = "firing" /\ alerts[a].ticket = t
  PROVE  SoloInv'
<1>1. Backed'
  BY DEF SoloInv, Backed
<1>2. \A t \in Ticket : tickets'[t].status = "open" =>
           Supports(r, t) \/ \E a \in Alert : alerts'[a].status = "firing" /\ alerts'[a].ticket = t
  BY CaredSolo
<1> QED
  BY <1>1, <1>2, CarriedSolo

\* A handler that has read, and is done or free again.
LEMMA ReadFreeSolo ==
  ASSUME OneHandler, TypeInv, SoloInv, NEW j \in Job, UNCHANGED <<alerts, tickets>>,
         \A t \in Ticket : ~Supports(jobs[j], t)
           \/ tickets[t].status # "open" \/ \E a \in Alert : alerts[a].status = "firing" /\ alerts[a].ticket = t
  PROVE  /\ Done(j) => SoloInv'
         /\ \A r : /\ jobs' = [jobs EXCEPT ![j] = r] /\ r.held \subseteq jobs[j].held
                   /\ r.pc \in {"idle", "next", "lookup", "insert", "settle", "ask"} \/ (r.pc = "page" /\ r.op # "fire")
                   => SoloInv'
<1>1. Backed'
  BY DEF SoloInv, Backed
<1>2. \A t \in Ticket : tickets'[t].status = "open" =>
           \E a \in Alert : alerts'[a].status = "firing" /\ alerts'[a].ticket = t
  BY CaredSolo
<1> QED
  BY <1>1, <1>2, DoneSolo, FreeSolo

\* An alert that resolves leaves the others as they were, and their tickets.
LEMMA ResolvedRows ==
  ASSUME TypeInv, SoloInv, NEW x \in Alert,
         \/ alerts' = [alerts EXCEPT ![x] = Resolved(alerts[x])]
         \/ alerts' = [alerts EXCEPT ![x] = [Resolved(alerts[x]) EXCEPT !.window = None]],
         UNCHANGED tickets
  PROVE  /\ \A a \in Alert : a # x => alerts'[a] = alerts[a]
         /\ alerts'[x].status = "resolved" /\ alerts'[x].key = alerts[x].key
         /\ \A a \in Alert : alerts'[a].ticket = alerts[a].ticket
         /\ Backed'
         /\ \A t \in Ticket : /\ alerts[x].ticket # t
                              /\ \E a \in Alert : alerts[a].status = "firing" /\ alerts[a].ticket = t
              => \E a \in Alert : alerts'[a].status = "firing" /\ alerts'[a].ticket = t
<1>1. alerts \in [Alert -> AlertRow]
  BY DEF TypeInv, TypeOK
<1>2. /\ \A a \in Alert : a # x => alerts'[a] = alerts[a]
      /\ alerts'[x].status = "resolved" /\ alerts'[x].ticket = alerts[x].ticket /\ alerts'[x].key = alerts[x].key
  BY <1>1 DEF Resolved, AlertRow
<1>3. \A a \in Alert : alerts'[a].ticket = alerts[a].ticket
  BY <1>2
<1>4. Backed'
  BY <1>3 DEF SoloInv, Backed
<1> QED
  BY <1>2, <1>3, <1>4

\* A signal comes in, is looked up and routed, and its alert is recorded.
LEMMA IngestSolo ==
  ASSUME OneHandler, TypeInv, SoloInv, NEW j \in Job,
         Fire(j) \/ Clear(j) \/ Lookup(j) \/ Check(j) \/ End(j) \/ Insert(j)
  PROVE  SoloInv'
<1> DEFINE job == jobs[j]
<1>a. /\ job \in JobRecord /\ Shaped(job) /\ alerts \in [Alert -> AlertRow]
      /\ CopyPart(job, alerts) /\ RecordPart(job, alerts) /\ TicketPart(job, alerts, tickets)
  BY DEF TypeInv, TypeOK, SoloInv
<1>b. job.pc \in {"idle", "lookup", "check", "end", "insert"} /\ UNCHANGED tickets
  BY DEF Fire, Clear, Receive, Lookup, Check, End, Insert, At
<1>c. \A t \in Ticket : ~Supports(job, t)
  BY <1>b DEF Supports
<1>1. ASSUME NEW op, Receive(j, op) PROVE SoloInv'
  <2>1. PICK k \in Key : jobs' = [jobs EXCEPT ![j] = [Idle EXCEPT !.op = op, !.pc = "lookup", !.key = k]]
    BY <1>1 DEF Receive, Go
  <2> DEFINE r == [Idle EXCEPT !.op = op, !.pc = "lookup", !.key = k]
  <2>2. r.pc = "lookup" /\ r.held = {}
    BY DEF Idle
  <2> HIDE DEF r
  <2> QED
    BY <1>1, <1>c, <2>1, <2>2, ReadFreeSolo DEF Receive, r
<1>2. ASSUME TakeRoute(j), job.pc \in {"lookup", "end"}
      PROVE  \E r : /\ jobs' = [jobs EXCEPT ![j] = r]
                    /\ r.held = job.held /\ r.pc \in {"idle", "next", "insert"}
  <2>1. job.key \in Key
    BY <1>a, <1>2 DEF Shaped
  <2> QED
    BY <1>2, <2>1, RouteTypes
<1>3. CASE Lookup(j)
  <2>1. job.pc = "lookup" /\ UNCHANGED alerts
    BY <1>3 DEF Lookup, At
  <2>2. ASSUME NEW a \in OpenAlerts(job.key), NEW pc \in {"resolve", "check"}, pc = "check" => alerts[a].ticket # None,
               Go(j, [[job EXCEPT !.row = [alert |-> a, ticket |-> alerts[a].ticket]] EXCEPT !.pc = pc])
        PROVE  SoloInv'
    <3> DEFINE r == [[job EXCEPT !.row = [alert |-> a, ticket |-> alerts[a].ticket]] EXCEPT !.pc = pc]
    <3>1. r.pc = pc /\ r.held = job.held /\ r.row = [alert |-> a, ticket |-> alerts[a].ticket]
      BY <1>a, <2>2 DEF JobRecord
    <3>2. CopyPart(r, alerts) /\ RecordPart(r, alerts) /\ TicketPart(r, alerts, tickets)
      BY <1>a, <2>2, <3>1 DEF CopyPart, RecordPart, TicketPart, Recording
    <3>3. jobs' = [jobs EXCEPT ![j] = r]
      BY <2>2 DEF Go
    <3> HIDE DEF r
    <3> QED
      BY <1>b, <1>c, <2>1, <3>2, <3>3, ReadSolo
  <2>3. CASE TakeRoute(j) \/ Done(j)
    BY <1>2, <1>b, <1>c, <2>1, <2>3, ReadFreeSolo
  <2> QED
    BY <1>3, <2>2, <2>3 DEF Lookup
<1>4. CASE Check(j)
  <2>1. job.pc = "check" /\ UNCHANGED alerts
    BY <1>4 DEF Check, At
  <2>2. CASE Terminal(job.row.ticket) /\ GoTo(j, "end")
    <3> DEFINE r == [job EXCEPT !.pc = "end"]
    <3>1. r.pc = "end" /\ r.held = job.held /\ r.row = job.row
      BY <1>a DEF JobRecord
    <3>2. CopyPart(r, alerts) /\ RecordPart(r, alerts) /\ TicketPart(r, alerts, tickets)
      BY <1>a, <2>1, <2>2, <3>1 DEF CopyPart, RecordPart, TicketPart, Recording, Terminal
    <3>3. jobs' = [jobs EXCEPT ![j] = r]
      BY <2>2 DEF GoTo, Go
    <3> HIDE DEF r
    <3> QED
      BY <1>b, <1>c, <2>1, <3>2, <3>3, ReadSolo
  <2> QED
    BY <1>4, <1>b, <1>c, <2>1, <2>2, ReadFreeSolo DEF Check
<1>5. CASE End(j)
  <2> DEFINE x == job.row.alert
  <2>1. /\ job.pc = "end" /\ x \in Alert /\ alerts[x].ticket = job.row.ticket /\ tickets[job.row.ticket].status # "open"
        /\ alerts' = [alerts EXCEPT ![x] = Resolved(alerts[x])] /\ TakeRoute(j)
    BY <1>5, <1>a DEF End, At, Shaped, CopyPart, TicketPart, Update
  <2>2. Backed' /\ \A a \in Alert : alerts'[a].ticket = alerts[a].ticket
    BY <1>b, <2>1, ResolvedRows
  <2>3. \A t \in Ticket : tickets'[t].status = "open" =>
           \E a \in Alert : alerts'[a].status = "firing" /\ alerts'[a].ticket = t
    BY <1>b, <1>c, <2>1, ResolvedRows, CaredSolo
  <2> QED
    BY <1>2, <2>1, <2>2, <2>3, FreeSolo
<1>6. CASE Insert(j)
  <2>1. PICK a \in Alert, w \in Coverage :
          /\ alerts[a].status = "none"
          /\ Update(a, [status |-> "firing", key |-> job.key, ticket |-> None, window |-> w,
                        quiet |-> job.route.quiet, severe |-> job.route.severe])
          /\ IF Held(w) THEN Done(j) ELSE Go(j, [job EXCEPT !.pc = "group", !.alert = a, !.cover = w])
    BY <1>6 DEF Insert
  <2>2. /\ alerts'[a].status = "firing" /\ alerts'[a].ticket = None /\ alerts'[a].key = job.key
        /\ \A b \in Alert : b # a => alerts'[b] = alerts[b]
    BY <1>a, <2>1 DEF Update
  <2>3. \A c \in job.held : c.alert \in Alert /\ c.alert # a
    BY <2>1, HeldInUse
  <2>4. Backed'
    BY <1>b, <2>2 DEF SoloInv, Backed
  <2>5. \A t \in Ticket : tickets'[t].status = "open" =>
           \E b \in Alert : alerts'[b].status = "firing" /\ alerts'[b].ticket = t
    <3> SUFFICES ASSUME NEW t \in Ticket, tickets[t].status = "open"
                 PROVE  \E b \in Alert : alerts'[b].status = "firing" /\ alerts'[b].ticket = t
      BY <1>b
    <3>1. PICK b \in Alert : alerts[b].status = "firing" /\ alerts[b].ticket = t
      BY <1>c, CaredSolo
    <3> QED
      BY <2>1, <2>2, <3>1
  <2>6. CASE Done(j)
    BY <2>2, <2>3, <2>4, <2>5, <2>6, DoneSolo
  <2>7. CASE Go(j, [job EXCEPT !.pc = "group", !.alert = a, !.cover = w])
    <3> DEFINE r == [job EXCEPT !.pc = "group", !.alert = a, !.cover = w]
    <3>1. r.pc = "group" /\ r.alert = a /\ r.held = job.held /\ r.key = job.key
      BY <1>a DEF JobRecord
    <3>2. CopyPart(r, alerts') /\ RecordPart(r, alerts') /\ TicketPart(r, alerts', tickets')
      BY <1>a, <2>2, <2>3, <3>1 DEF CopyPart, RecordPart, TicketPart, Recording
    <3>3. jobs' = [jobs EXCEPT ![j] = r]
      BY <2>7 DEF Go
    <3> HIDE DEF r
    <3> QED
      BY <2>4, <2>5, <3>2, <3>3, CarriedSolo
  <2> QED
    BY <2>1, <2>6, <2>7
<1> QED
  BY <1>1, <1>3, <1>4, <1>5, <1>6 DEF Fire, Clear

\* The alert that was recorded comes to its ticket.
LEMMA IncidentSolo ==
  ASSUME OneHandler, TypeInv, SoloInv, NEW j \in Job,
         Group(j) \/ Join(j) \/ CreateTicket(j) \/ Attach(j) \/ TriggerPage(j)
  PROVE  SoloInv'
<1> DEFINE job == jobs[j]
           x == job.alert
           t == job.ticket
<1>a. /\ job \in JobRecord /\ Shaped(job) /\ alerts \in [Alert -> AlertRow] /\ tickets \in [Ticket -> TicketRow]
      /\ CopyPart(job, alerts) /\ RecordPart(job, alerts) /\ TicketPart(job, alerts, tickets) /\ Backed
  BY DEF TypeInv, TypeOK, SoloInv
<1>1. CASE Group(j)
  <2>1. job.pc = "group" /\ UNCHANGED <<alerts, tickets>> /\ \A u \in Ticket : ~Supports(job, u)
    BY <1>1 DEF Group, At, Supports
  <2>2. ASSUME NEW u \in Siblings(j), Go(j, [job EXCEPT !.pc = "join", !.ticket = u]) PROVE SoloInv'
    <3> DEFINE r == [job EXCEPT !.pc = "join", !.ticket = u]
    <3>1. /\ r.pc = "join" /\ r.ticket = u /\ r.alert = job.alert /\ r.key = job.key /\ r.held = job.held
          /\ r.row = job.row
      BY <1>a DEF JobRecord
    <3>2. tickets[u].status # "none" /\ ~Ended(tickets[u])
      BY <1>a DEF Siblings, Terminal, Ended, Backed
    <3>3. CopyPart(r, alerts) /\ RecordPart(r, alerts) /\ TicketPart(r, alerts, tickets)
      BY <1>a, <2>1, <3>1, <3>2 DEF CopyPart, RecordPart, TicketPart, Recording
    <3>4. jobs' = [jobs EXCEPT ![j] = r]
      BY <2>2 DEF Go
    <3> HIDE DEF r
    <3> QED
      BY <2>1, <3>3, <3>4, ReadSolo
  <2>3. CASE GoTo(j, "create")
    <3> DEFINE r == [job EXCEPT !.pc = "create"]
    <3>1. r.pc = "create" /\ r.alert = job.alert /\ r.key = job.key /\ r.held = job.held
      BY <1>a DEF JobRecord
    <3>2. CopyPart(r, alerts) /\ RecordPart(r, alerts) /\ TicketPart(r, alerts, tickets)
      BY <1>a, <2>1, <3>1 DEF CopyPart, RecordPart, TicketPart, Recording
    <3>3. jobs' = [jobs EXCEPT ![j] = r]
      BY <2>3 DEF GoTo, Go
    <3> HIDE DEF r
    <3> QED
      BY <2>1, <3>2, <3>3, ReadSolo
  <2> QED
    BY <1>1, <2>2, <2>3 DEF Group
<1>2. CASE CreateTicket(j)
  <2>1. job.pc = "create" /\ UNCHANGED alerts /\ \A u \in Ticket : ~Supports(job, u)
    BY <1>2 DEF CreateTicket, At, Supports
  <2>2. PICK u \in Ticket : /\ tickets[u].status = "none"
                            /\ tickets' = [tickets EXCEPT ![u] = [status |-> "open", team |-> job.route.team]]
                            /\ Go(j, [job EXCEPT !.pc = "attach", !.ticket = u])
    BY <1>2 DEF CreateTicket
  <2>3. tickets'[u].status = "open" /\ \A y \in Ticket : y # u => tickets'[y] = tickets[y]
    BY <1>a, <2>2
  <2> DEFINE r == [job EXCEPT !.pc = "attach", !.ticket = u]
  <2>4. r.pc = "attach" /\ r.ticket = u /\ r.alert = job.alert /\ r.key = job.key /\ r.held = job.held
    BY <1>a DEF JobRecord
  <2>5. CopyPart(r, alerts') /\ RecordPart(r, alerts') /\ TicketPart(r, alerts', tickets')
    BY <1>a, <2>1, <2>3, <2>4 DEF CopyPart, RecordPart, TicketPart, Recording, Ended
  <2>6. jobs' = [jobs EXCEPT ![j] = r]
    BY <2>2 DEF Go
  <2> HIDE DEF r
  <2>7. Backed'
    BY <1>a, <2>1, <2>2, <2>3 DEF Backed, AlertRow
  <2>8. \A y \in Ticket : tickets'[y].status = "open" =>
           Supports(r, y) \/ \E a \in Alert : alerts'[a].status = "firing" /\ alerts'[a].ticket = y
    BY <2>1, <2>3, <2>4, CaredSolo DEF Supports
  <2> QED
    BY <2>5, <2>6, <2>7, <2>8, CarriedSolo
<1>3. ASSUME SetTicket(j), job.pc \in {"join", "attach"}, UNCHANGED tickets
      PROVE  /\ x \in Alert /\ t \in Ticket
             /\ alerts'[x].ticket = t /\ alerts'[x].status = "firing" /\ alerts'[x].key = job.key
             /\ \A a \in Alert : alerts[a].status # "none" =>
                  alerts'[a].ticket = alerts[a].ticket \/ \A c \in job.held : c.alert # a
             /\ Backed'
             /\ \A y \in Ticket : tickets'[y].status = "open" =>
                  \E a \in Alert : alerts'[a].status = "firing" /\ alerts'[a].ticket = y
  <2>1. x \in Alert /\ t \in Ticket
    BY <1>a, <1>3 DEF Shaped
  <2>2. /\ alerts'[x].ticket = t /\ alerts'[x].status = alerts[x].status /\ alerts'[x].key = alerts[x].key
        /\ \A a \in Alert : a # x => alerts'[a] = alerts[a]
    BY <1>a, <1>3, <2>1 DEF SetTicket, Update, AlertRow
  <2>3. /\ alerts[x].status = "firing" /\ alerts[x].ticket = None /\ alerts[x].key = job.key
        /\ \A c \in job.held : c.alert # x
    BY <1>a, <1>3 DEF RecordPart, Recording
  <2>4. Backed'
    BY <1>a, <1>3, <2>2 DEF Backed, TicketPart
  <2>5. ASSUME NEW y \in Ticket, tickets'[y].status = "open"
        PROVE  \E a \in Alert : alerts'[a].status = "firing" /\ alerts'[a].ticket = y
    <3>1. CASE y = t
      BY <2>1, <2>2, <2>3, <3>1
    <3>2. CASE y # t
      <4>1. ~Supports(job, y) /\ tickets[y].status = "open"
        BY <1>3, <2>5, <3>2 DEF Supports
      <4>2. PICK a \in Alert : alerts[a].status = "firing" /\ alerts[a].ticket = y
        BY <4>1, CaredSolo
      <4>3. a # x
        BY <2>3, <4>2, NoneIsNone
      <4> QED
        BY <2>2, <4>2, <4>3
    <3> QED
      BY <3>1, <3>2
  <2> QED
    BY <2>1, <2>2, <2>3, <2>4, <2>5
<1>4. CASE Join(j)
  BY <1>3, <1>4, DoneSolo DEF Join, At
<1>5. CASE Attach(j)
  <2>1. job.pc = "attach" /\ SetTicket(j) /\ UNCHANGED tickets
    BY <1>5 DEF Attach, At
  <2>2. CASE GoTo(j, "page")
    <3> DEFINE r == [job EXCEPT !.pc = "page"]
    <3>1. /\ r.pc = "page" /\ r.alert = x /\ r.ticket = t /\ r.key = job.key /\ r.held = job.held
      BY <1>a DEF JobRecord
    <3>2. \A c \in r.held : alerts'[c.alert].ticket = c.ticket
      BY <1>3, <2>1, <3>1, HeldInUse
    <3>3. CopyPart(r, alerts') /\ RecordPart(r, alerts') /\ TicketPart(r, alerts', tickets')
      BY <1>3, <1>a, <2>1, <3>1, <3>2 DEF CopyPart, RecordPart, TicketPart, Recording
    <3>4. jobs' = [jobs EXCEPT ![j] = r]
      BY <2>2 DEF GoTo, Go
    <3> HIDE DEF r
    <3> QED
      BY <1>3, <2>1, <3>3, <3>4, CarriedSolo
  <2> QED
    BY <1>3, <1>5, <2>1, <2>2, DoneSolo DEF Attach
<1>6. CASE TriggerPage(j)
  <2>1. Done(j) /\ UNCHANGED <<alerts, tickets>> /\ \A u \in Ticket : ~Supports(job, u)
    BY <1>6 DEF TriggerPage, At, Supports
  <2> QED
    BY <2>1, ReadFreeSolo
<1> QED
  BY <1>1, <1>2, <1>4, <1>5, <1>6

\* The problem has cleared: the last one to clear ends the incident.
LEMMA ClearSolo ==
  ASSUME OneHandler, TypeInv, SoloInv, NEW j \in Job,
         ResolveAlert(j) \/ Count(j) \/ Look(j) \/ CloseTicket(j) \/ SettlePages(j)
  PROVE  SoloInv'
<1> DEFINE job == jobs[j]
           x == job.row.alert
           t == job.row.ticket
<1>a. /\ job \in JobRecord /\ Shaped(job) /\ alerts \in [Alert -> AlertRow] /\ tickets \in [Ticket -> TicketRow]
      /\ CopyPart(job, alerts) /\ TicketPart(job, alerts, tickets) /\ Backed
  BY DEF TypeInv, TypeOK, SoloInv
<1>b. \A y \in Ticket : Supports(job, y) => job.pc \in {"count", "look", "close"} /\ t = y
  BY DEF ResolveAlert, Count, Look, CloseTicket, SettlePages, At, Supports
<1>1. ASSUME NEW pc \in {"count", "look", "close", "settle"}, GoTo(j, pc)
      PROVE  \E r : /\ jobs' = [jobs EXCEPT ![j] = r]
                    /\ r.pc = pc /\ r.row = job.row /\ r.held = job.held
  <2> DEFINE r == [job EXCEPT !.pc = pc]
  <2>1. r.pc = pc /\ r.row = job.row /\ r.held = job.held
    BY <1>a DEF JobRecord
  <2>2. jobs' = [jobs EXCEPT ![j] = r]
    BY <1>1 DEF GoTo, Go
  <2> HIDE DEF r
  <2> QED
    BY <2>1, <2>2
<1>2. CASE ResolveAlert(j)
  <2>1. /\ job.pc = "resolve" /\ x \in Alert /\ alerts[x].ticket = t /\ UNCHANGED tickets
        /\ alerts' = [alerts EXCEPT ![x] = Resolved(alerts[x])]
    BY <1>2, <1>a DEF ResolveAlert, At, Shaped, CopyPart, Update
  <2>2. Backed' /\ \A a \in Alert : alerts'[a].ticket = alerts[a].ticket
    BY <2>1, ResolvedRows
  <2>3. \A y \in Ticket : tickets[y].status = "open" /\ y # t =>
           \E a \in Alert : alerts'[a].status = "firing" /\ alerts'[a].ticket = y
    BY <1>b, <2>1, ResolvedRows, CaredSolo
  <2>4. CASE t = None /\ Done(j)
    BY <2>1, <2>2, <2>3, <2>4, NoneIsNone, DoneSolo
  <2>5. CASE t # None /\ GoTo(j, "count")
    <3>1. PICK r : jobs' = [jobs EXCEPT ![j] = r] /\ r.pc = "count" /\ r.row = job.row /\ r.held = job.held
      BY <1>1, <2>5
    <3>2. t \in Ticket /\ tickets[t].status # "none"
      BY <1>a, <2>1, <2>5 DEF JobRecord, Copy, Backed
    <3>3. \A c \in r.held : alerts'[c.alert].ticket = c.ticket
      BY <2>2, <3>1, HeldInUse
    <3>4. CopyPart(r, alerts') /\ RecordPart(r, alerts') /\ TicketPart(r, alerts', tickets')
      BY <2>1, <3>1, <3>2, <3>3 DEF CopyPart, RecordPart, TicketPart, Recording
    <3>5. Supports(r, t)
      BY <3>1 DEF Supports
    <3> QED
      BY <2>1, <2>2, <2>3, <3>1, <3>4, <3>5, CarriedSolo
  <2> QED
    BY <1>2, <2>4, <2>5 DEF ResolveAlert
<1>3. CASE Count(j)
  <2>1. job.pc = "count" /\ UNCHANGED <<alerts, tickets>>
    BY <1>3 DEF Count, At
  <2>2. CASE Remaining(t) = {} /\ GoTo(j, "look")
    <3>1. PICK r : jobs' = [jobs EXCEPT ![j] = r] /\ r.pc = "look" /\ r.row = job.row /\ r.held = job.held
      BY <1>1, <2>2
    <3>2. CopyPart(r, alerts) /\ RecordPart(r, alerts) /\ TicketPart(r, alerts, tickets)
      BY <1>a, <2>1, <2>2, <3>1 DEF CopyPart, RecordPart, TicketPart, Recording, Remaining, Firing
    <3>3. \A y \in Ticket : Supports(job, y) => Supports(r, y)
      BY <1>b, <3>1 DEF Supports
    <3> QED
      BY <2>1, <3>1, <3>2, <3>3, ReadSolo
  <2>3. CASE Remaining(t) # {} /\ Done(j)
    <3>1. \E a \in Alert : alerts[a].status = "firing" /\ alerts[a].ticket = t
      BY <2>3 DEF Remaining, Firing
    <3> QED
      BY <1>b, <2>1, <2>3, <3>1, ReadFreeSolo
  <2> QED
    BY <1>3, <2>2, <2>3 DEF Count
<1>4. CASE Look(j)
  <2>1. job.pc = "look" /\ UNCHANGED <<alerts, tickets>>
    BY <1>4 DEF Look, At
  <2>2. CASE ~Terminal(t) /\ GoTo(j, "close")
    <3>1. PICK r : jobs' = [jobs EXCEPT ![j] = r] /\ r.pc = "close" /\ r.row = job.row /\ r.held = job.held
      BY <1>1, <2>2
    <3>2. CopyPart(r, alerts) /\ RecordPart(r, alerts) /\ TicketPart(r, alerts, tickets)
      BY <1>a, <2>1, <2>2, <3>1 DEF CopyPart, RecordPart, TicketPart, Recording, Terminal, Ended
    <3>3. \A y \in Ticket : Supports(job, y) => Supports(r, y)
      BY <1>b, <3>1 DEF Supports
    <3> QED
      BY <2>1, <3>1, <3>2, <3>3, ReadSolo
  <2>3. CASE Terminal(t) /\ Done(j)
    <3>1. tickets[t].status # "open"
      BY <2>3 DEF Terminal
    <3> QED
      BY <1>b, <2>1, <2>3, <3>1, ReadFreeSolo
  <2> QED
    BY <1>4, <2>2, <2>3 DEF Look
<1>5. CASE CloseTicket(j)
  <2>1. /\ job.pc = "close" /\ UNCHANGED alerts /\ t \in Ticket
        /\ tickets' = [tickets EXCEPT ![t].status = "resolved"]
    BY <1>5, <1>a DEF CloseTicket, At, Shaped
  <2>2. tickets'[t].status = "resolved" /\ \A y \in Ticket : y # t => tickets'[y] = tickets[y]
    BY <1>a, <2>1 DEF TicketRow
  <2>3. PICK r : jobs' = [jobs EXCEPT ![j] = r] /\ r.pc = "settle" /\ r.row = job.row /\ r.held = job.held
    BY <1>1, <1>5 DEF CloseTicket
  <2>4. Backed'
    BY <1>a, <2>1, <2>2 DEF Backed, AlertRow
  <2>5. \A y \in Ticket : tickets'[y].status = "open" =>
           \E a \in Alert : alerts'[a].status = "firing" /\ alerts'[a].ticket = y
    BY <1>b, <2>1, <2>2, CaredSolo
  <2> QED
    BY <2>1, <2>3, <2>4, <2>5, FreeSolo
<1>6. CASE SettlePages(j)
  <2>1. Done(j) /\ UNCHANGED <<alerts, tickets>> /\ job.pc = "settle"
    BY <1>6 DEF SettlePages, At
  <2> QED
    BY <1>b, <2>1, ReadFreeSolo
<1> QED
  BY <1>2, <1>3, <1>4, <1>5, <1>6

\* The end of maintenance takes tickets from nobody.
LEMMA ReraiseSolo ==
  ASSUME OneHandler, TypeInv, SoloInv, NEW j \in Job,
         Reraise(j) \/ NextHeld(j) \/ Still(j) \/ Release(j) \/ Ask(j) \/ Requeue(j)
  PROVE  SoloInv'
<1> DEFINE job == jobs[j]
           x == job.row.alert
<1>a. /\ job \in JobRecord /\ Shaped(job) /\ alerts \in [Alert -> AlertRow]
      /\ CopyPart(job, alerts) /\ Backed
  BY DEF TypeInv, TypeOK, SoloInv
<1>b. UNCHANGED tickets /\ \A y \in Ticket : ~Supports(job, y)
  BY DEF Reraise, NextHeld, Still, Release, Ask, Requeue, At, Supports
<1>1. CASE Reraise(j)
  <2>1. PICK w : jobs' = [jobs EXCEPT ![j] = [Idle EXCEPT !.op = "reraise", !.pc = "next",
                   !.held = {[alert |-> a, ticket |-> alerts[a].ticket] : a \in HeldBy(w)}]]
    BY <1>1 DEF Reraise, Go
  <2> DEFINE r == [Idle EXCEPT !.op = "reraise", !.pc = "next",
                     !.held = {[alert |-> a, ticket |-> alerts[a].ticket] : a \in HeldBy(w)}]
  <2>2. r.pc = "next" /\ r.held = {[alert |-> a, ticket |-> alerts[a].ticket] : a \in HeldBy(w)}
    BY DEF Idle
  <2>3. UNCHANGED alerts
    BY <1>1 DEF Reraise
  <2> HIDE DEF r
  <2>4. CopyPart(r, alerts) /\ RecordPart(r, alerts) /\ TicketPart(r, alerts, tickets)
    BY <2>2, FreeParts
  <2> QED
    BY <1>b, <2>1, <2>3, <2>4, ReadSolo DEF r
<1>2. CASE NextHeld(j)
  <2>1. UNCHANGED alerts /\ job.pc = "next"
    BY <1>2 DEF NextHeld, At
  <2>2. CASE Go(j, Idle)
    <3>1. Idle.pc = "idle" /\ Idle.held = {}
      BY DEF Idle
    <3> QED
      BY <1>b, <2>1, <2>2, <3>1, ReadFreeSolo DEF Go
  <2>3. ASSUME NEW row \in job.held, Go(j, [job EXCEPT !.pc = "still", !.row = row, !.held = @ \ {row}])
        PROVE  SoloInv'
    <3> DEFINE r == [job EXCEPT !.pc = "still", !.row = row, !.held = @ \ {row}]
    <3>1. r.pc = "still" /\ r.row = row /\ r.held = job.held \ {row}
      BY <1>a DEF JobRecord
    <3>2. jobs' = [jobs EXCEPT ![j] = r]
      BY <2>3 DEF Go
    <3> HIDE DEF r
    <3>3. CopyPart(r, alerts) /\ RecordPart(r, alerts) /\ TicketPart(r, alerts, tickets)
      BY <1>a, <2>3, <3>1 DEF CopyPart, RecordPart, TicketPart, Recording
    <3> QED
      BY <1>b, <2>1, <3>2, <3>3, ReadSolo
  <2> QED
    BY <1>2, <2>2, <2>3 DEF NextHeld
<1>3. ASSUME NEW w, alerts' = [alerts EXCEPT ![x] = [alerts[x] EXCEPT !.window = w]], x \in Alert
      PROVE  /\ Backed' /\ \A a \in Alert : alerts'[a].ticket = alerts[a].ticket
             /\ \A t \in Ticket : tickets'[t].status = "open" =>
                  \E a \in Alert : alerts'[a].status = "firing" /\ alerts'[a].ticket = t
  <2>1. \A a \in Alert : alerts'[a].ticket = alerts[a].ticket /\ alerts'[a].status = alerts[a].status
    BY <1>a, <1>3 DEF AlertRow
  <2> QED
    BY <1>a, <1>b, <2>1, CaredSolo DEF Backed
<1>4. CASE Still(j)
  <2>1. job.pc = "still" /\ x \in Alert
    BY <1>4, <1>a DEF Still, At, Shaped
  <2>2. ASSUME NEW w, Update(x, [alerts[x] EXCEPT !.window = w]), Done(j) PROVE SoloInv'
    BY <1>3, <2>1, <2>2, DoneSolo DEF Update
  <2>3. ASSUME NEW pc \in {"release", "requeue"}, GoTo(j, pc), UNCHANGED alerts, pc = "requeue" => job.row.ticket = None
        PROVE  SoloInv'
    <3> DEFINE r == [job EXCEPT !.pc = pc]
    <3>1. r.pc = pc /\ r.row = job.row /\ r.held = job.held
      BY <1>a DEF JobRecord
    <3>2. jobs' = [jobs EXCEPT ![j] = r]
      BY <2>3 DEF GoTo, Go
    <3> HIDE DEF r
    <3>3. CopyPart(r, alerts) /\ RecordPart(r, alerts) /\ TicketPart(r, alerts, tickets)
      BY <1>a, <2>1, <2>3, <3>1 DEF CopyPart, RecordPart, TicketPart, Recording
    <3> QED
      BY <1>b, <2>3, <3>2, <3>3, ReadSolo
  <2> QED
    BY <1>4, <2>2, <2>3 DEF Still
<1>5. CASE Release(j)
  <2>1. x \in Alert /\ alerts' = [alerts EXCEPT ![x] = [alerts[x] EXCEPT !.window = None]] /\ GoTo(j, "ask")
    BY <1>5, <1>a DEF Release, At, Update, Shaped
  <2> DEFINE r == [job EXCEPT !.pc = "ask"]
  <2>2. r.pc = "ask" /\ r.held = job.held
    BY <1>a DEF JobRecord
  <2>3. jobs' = [jobs EXCEPT ![j] = r]
    BY <2>1 DEF GoTo, Go
  <2> HIDE DEF r
  <2> QED
    BY <1>3, <2>1, <2>2, <2>3, FreeSolo
<1>6. CASE Ask(j)
  <2>1. UNCHANGED alerts /\ job.op = "reraise"
    BY <1>6, <1>a DEF Ask, At, Shaped
  <2>2. CASE Go(j, [job EXCEPT !.pc = "page", !.alert = x, !.ticket = job.row.ticket])
    <3> DEFINE r == [job EXCEPT !.pc = "page", !.alert = x, !.ticket = job.row.ticket]
    <3>1. r.pc = "page" /\ r.op = job.op /\ r.held = job.held
      BY <1>a DEF JobRecord
    <3>2. jobs' = [jobs EXCEPT ![j] = r]
      BY <2>2 DEF Go
    <3> HIDE DEF r
    <3> QED
      BY <1>b, <2>1, <3>1, <3>2, ReadFreeSolo
  <2> QED
    BY <1>6, <1>b, <2>1, <2>2, ReadFreeSolo DEF Ask
<1>7. CASE Requeue(j)
  <2>1. /\ job.pc = "requeue" /\ x \in Alert /\ alerts[x].ticket = None
        /\ alerts' = [alerts EXCEPT ![x] = [Resolved(alerts[x]) EXCEPT !.window = None]]
    BY <1>7, <1>a DEF Requeue, At, Update, Shaped, CopyPart
  <2>2. Backed' /\ \A a \in Alert : alerts'[a].ticket = alerts[a].ticket
    BY <1>b, <2>1, ResolvedRows
  <2>3. \A t \in Ticket : tickets'[t].status = "open" =>
           \E a \in Alert : alerts'[a].status = "firing" /\ alerts'[a].ticket = t
    BY <1>b, <2>1, ResolvedRows, CaredSolo, NoneIsNone
  <2> DEFINE r == [job EXCEPT !.pc = "lookup", !.key = alerts[x].key, !.row = Nothing]
  <2>4. r.pc = "lookup" /\ r.held = job.held
    BY <1>a DEF JobRecord
  <2>5. jobs' = [jobs EXCEPT ![j] = r]
    BY <1>7 DEF Requeue, Go
  <2> HIDE DEF r
  <2> QED
    BY <2>2, <2>3, <2>4, <2>5, FreeSolo
<1> QED
  BY <1>1, <1>2, <1>4, <1>5, <1>6, <1>7

\* People close and reopen tickets, never back to open, and only history that
\* nobody has in hand is forgotten.
LEMMA EnvironmentSolo ==
  ASSUME OneHandler, NoCrash, TypeInv, SoloInv,
         \/ \E w \in Window : WindowStarts(w) \/ WindowEnds(w)
         \/ \E t \in Ticket : EditTicket(t) \/ PageStops(t) \/ ForgetTicket(t)
         \/ \E a \in Alert : ForgetAlert(a)
         \/ \E j \in Job : Crash(j)
         \/ UNCHANGED vars
  PROVE  SoloInv'
<1>a. alerts \in [Alert -> AlertRow] /\ tickets \in [Ticket -> TicketRow]
  BY DEF TypeInv, TypeOK
<1>1. ASSUME UNCHANGED <<alerts, tickets, jobs>> PROVE SoloInv'
  BY <1>1 DEF SoloInv, Backed, Cared, CopyPart, RecordPart, TicketPart
<1>2. ASSUME NEW t \in Ticket, EditTicket(t) PROVE SoloInv'
  <2>1. /\ tickets'[t].status \in {"in_progress", "closed"} /\ \A y \in Ticket : y # t => tickets'[y] = tickets[y]
        /\ UNCHANGED <<alerts, jobs>> /\ (Calm => AllIdle)
    BY <1>2, <1>a DEF EditTicket, TicketRow
  <2>2. Backed'
    BY <2>1, <1>a DEF SoloInv, Backed, AlertRow
  <2>3. Cared'
    BY <2>1 DEF SoloInv, Cared
  <2>4. ASSUME NEW j \in Job
        PROVE  CopyPart(jobs[j], alerts) /\ RecordPart(jobs[j], alerts) /\ TicketPart(jobs[j], alerts, tickets')
    <3>1. CopyPart(jobs[j], alerts) /\ RecordPart(jobs[j], alerts) /\ TicketPart(jobs[j], alerts, tickets) /\ Shaped(jobs[j])
      BY DEF SoloInv, TypeInv
    <3>2. /\ jobs[j].pc \in {"end", "check"} => jobs[j].row.ticket \in Ticket
          /\ Calm => jobs[j].pc = "idle"
      <4>1. jobs[j].row \in Copy
        BY DEF TypeInv, TypeOK, JobRecord
      <4> QED
        BY <2>1, <3>1, <4>1 DEF AllIdle, At, CopyPart, Copy
    <3>3. TicketPart(jobs[j], alerts, tickets')
      BY <2>1, <3>1, <3>2 DEF TicketPart, Shaped
    <3> QED
      BY <3>1, <3>3
  <2> QED
    BY <2>1, <2>2, <2>3, <2>4 DEF SoloInv
<1>3. ASSUME NEW t \in Ticket, ForgetTicket(t) PROVE SoloInv'
  <2>a. \A j \in Job : jobs[j].row.ticket # t /\ jobs[j].ticket # t
    <3> SUFFICES ASSUME NEW j \in Job PROVE jobs[j].row.ticket # t /\ jobs[j].ticket # t
      OBVIOUS
    <3>1. \A copy \in InHand(j) : copy.ticket # t
      BY <1>3 DEF ForgetTicket
    <3>2. jobs[j].row \in InHand(j) /\ [alert |-> jobs[j].alert, ticket |-> jobs[j].ticket] \in InHand(j)
      BY DEF InHand
    <3> QED
      BY <3>1, <3>2
  <2>1. /\ tickets'[t] = NoTicket /\ \A y \in Ticket : y # t => tickets'[y] = tickets[y]
        /\ UNCHANGED <<alerts, jobs>> /\ \A a \in Alert : alerts[a].ticket # t
    BY <1>3, <1>a DEF ForgetTicket
  <2>2. Backed'
    BY <2>1, <1>a DEF SoloInv, Backed, AlertRow
  <2>3. Cared'
    BY <2>1 DEF SoloInv, Cared, NoTicket
  <2>4. ASSUME NEW j \in Job
        PROVE  CopyPart(jobs[j], alerts) /\ RecordPart(jobs[j], alerts) /\ TicketPart(jobs[j], alerts, tickets')
    <3>1. CopyPart(jobs[j], alerts) /\ RecordPart(jobs[j], alerts) /\ TicketPart(jobs[j], alerts, tickets) /\ Shaped(jobs[j])
      BY DEF SoloInv, TypeInv
    <3>2. jobs[j].pc \in {"end", "check"} => jobs[j].row.ticket \in Ticket
      <4>1. jobs[j].row \in Copy
        BY DEF TypeInv, TypeOK, JobRecord
      <4> QED
        BY <3>1, <4>1 DEF CopyPart, Copy
    <3>3. TicketPart(jobs[j], alerts, tickets')
      BY <2>a, <2>1, <3>1, <3>2 DEF TicketPart, Shaped
    <3> QED
      BY <3>1, <3>3
  <2> QED
    BY <2>1, <2>2, <2>3, <2>4 DEF SoloInv
<1>4. ASSUME NEW a \in Alert, ForgetAlert(a) PROVE SoloInv'
  <2>a. \A j \in Job : jobs[j].row.alert # a /\ jobs[j].alert # a /\ \A c \in jobs[j].held : c.alert # a
    <3> SUFFICES ASSUME NEW j \in Job
                 PROVE  jobs[j].row.alert # a /\ jobs[j].alert # a /\ \A c \in jobs[j].held : c.alert # a
      OBVIOUS
    <3>1. \A copy \in InHand(j) : copy.alert # a
      BY <1>4 DEF ForgetAlert
    <3>2. jobs[j].row.alert # a /\ \A c \in jobs[j].held : c.alert # a
      BY <3>1 DEF InHand
    <3>3. [alert |-> jobs[j].alert, ticket |-> jobs[j].ticket].alert # a
      BY <3>1, Zenon DEF InHand
    <3> QED
      BY <3>2, <3>3
  <2>1. /\ alerts'[a] = NoAlert /\ alerts[a].status = "resolved" /\ \A b \in Alert : b # a => alerts'[b] = alerts[b]
        /\ UNCHANGED <<tickets, jobs>>
    BY <1>4, <1>a DEF ForgetAlert
  <2>2. NoAlert.ticket = None /\ NoAlert.status = "none"
    BY DEF NoAlert
  <2>3. Backed'
    BY <2>1, <2>2 DEF SoloInv, Backed
  <2>4. Cared'
    BY <2>1, <2>2 DEF SoloInv, Cared
  <2>5. ASSUME NEW j \in Job
        PROVE  CopyPart(jobs[j], alerts') /\ RecordPart(jobs[j], alerts') /\ TicketPart(jobs[j], alerts', tickets)
    <3>1. CopyPart(jobs[j], alerts) /\ RecordPart(jobs[j], alerts) /\ TicketPart(jobs[j], alerts, tickets) /\ Shaped(jobs[j])
      BY DEF SoloInv, TypeInv
    <3>2. CopyPart(jobs[j], alerts')
      BY <2>a, <2>1, <3>1 DEF CopyPart, Shaped
    <3>3. RecordPart(jobs[j], alerts')
      BY <2>a, <2>1, <3>1 DEF RecordPart, Shaped, Recording
    <3>a. \A b \in Alert : alerts'[b].status = "firing" => alerts'[b] = alerts[b]
      BY <2>1, <2>2
    <3>4. TicketPart(jobs[j], alerts', tickets)
      BY <3>a, <3>1 DEF TicketPart
    <3> QED
      BY <3>2, <3>3, <3>4
  <2> QED
    BY <2>1, <2>3, <2>4, <2>5 DEF SoloInv
<1>5. ASSUME NEW j \in Job, Crash(j) PROVE FALSE
  BY <1>5 DEF Crash, NoCrash, TypeInv, TypeOK
<1>6. CASE UNCHANGED vars
  BY <1>1, <1>6 DEF vars
<1> QED
  BY <1>1, <1>2, <1>3, <1>4, <1>5, <1>6 DEF WindowStarts, WindowEnds, PageStops

\* Every step keeps the invariant.
LEMMA NextSolo ==
  ASSUME OneHandler, NoCrash, TypeInv, SoloInv, [Next]_vars
  PROVE  SoloInv'
<1>1. ASSUME NEW j \in Job, JobStart(j) \/ JobStep(j) PROVE SoloInv'
  BY <1>1, IngestSolo, IncidentSolo, ClearSolo, ReraiseSolo DEF JobStart, JobStep
<1> QED
  BY <1>1, EnvironmentSolo DEF Next, Undisturbed

\* What a handler at work relies on, as long as handlers neither overlap nor
\* die.
LEMMA SoloHolds == OneHandler /\ NoCrash /\ Spec => []SoloInv
<1> SUFFICES ASSUME OneHandler, NoCrash PROVE Spec => []SoloInv
  OBVIOUS
<1>1. Spec => []TypeInv
  BY TypeCorrect
<1>2. TypeInv /\ SoloInv /\ [Next]_vars => SoloInv'
  BY NextSolo
<1> QED
  BY <1>1, <1>2, InitSolo, PTL DEF Spec

\* When the last alert of an incident resolves, so does the incident: once the
\* handlers are done, one that nobody has touched has an alert that fires.
THEOREM NoIncidentIsOrphaned == OneHandler /\ NoCrash /\ Spec => []NoOrphanIncident
<1> SUFFICES ASSUME OneHandler, NoCrash PROVE Spec => []NoOrphanIncident
  OBVIOUS
<1>1. Spec => []SoloInv
  BY SoloHolds
<1>2. SoloInv => NoOrphanIncident
  BY DEF SoloInv, Cared, NoOrphanIncident, AllIdle, At, Supports, Firing
<1> QED
  BY <1>1, <1>2, PTL
-----------------------------------------------------------------------------
(* SignalShown. *)

\* Without crashes no alert that fires is out of sight, but for the one that
\* the handler is recording.
LEMMA NoneMissing ==
  ASSUME OneHandler, NoCrash, TypeInv, LostInv, NEW j \in Job, jobs[j].pc \notin Recording, NEW a \in Alert
  PROVE  ~Missing(alerts[a])
<1>1. crashes = 0
  BY DEF NoCrash, TypeInv, TypeOK
<1>2. IsFiniteSet(Lost) /\ Cardinality(Lost) <= 0
  BY <1>1 DEF LostInv
<1>3. Cardinality(Lost) \in Nat
  BY <1>2, FS_CardinalityType
<1>4. Cardinality(Lost) = 0
  BY <1>2, <1>3
<1>5. Lost = {}
  BY <1>2, <1>4, FS_EmptySet
<1>6. \A i \in Job : i = j
  BY DEF OneHandler
<1>7. a \notin Lost
  BY <1>5
<1> QED
  BY <1>6, <1>7 DEF Lost

\* An alert of the problem that people can see.
Seen(k, rows, tix) ==
  \E a \in Alert : /\ rows[a].status = "firing" /\ rows[a].key = k
                   /\ rows[a].window # None \/ (rows[a].ticket # None /\ ~Ended(tix[rows[a].ticket]))

\* The step that ends the handling of a signal, unless it may be dropped.
LEMMA ShownStep ==
  ASSUME OneHandler, NoCrash, Calm, TypeInv, KeyInv, LostInv, SoloInv, NEW j \in Job, JobStart(j) \/ JobStep(j),
         jobs[j].op = "fire", jobs'[j].op = "none", \A route \in Routes[jobs[j].key] : ~route.drop
  PROVE  Seen(jobs[j].key, alerts', tickets')
<1> DEFINE job == jobs[j]
<1>a. /\ job \in JobRecord /\ Shaped(job) /\ alerts \in [Alert -> AlertRow] /\ KeyPart(job, alerts)
      /\ CopyPart(job, alerts) /\ RecordPart(job, alerts) /\ TicketPart(job, alerts, tickets)
  BY DEF TypeInv, TypeOK, KeyInv, SoloInv
<1>1. ASSUME NEW r, jobs' = [jobs EXCEPT ![j] = r] PROVE r.op = "none"
  BY <1>1 DEF TypeInv, TypeOK
<1>2. ASSUME NEW pc, GoTo(j, pc) PROVE FALSE
  BY <1>1, <1>2, <1>a DEF GoTo, Go, JobRecord
<1>3. ASSUME TakeRoute(j) PROVE FALSE
  <2>1. PICK route : Go(j, [job EXCEPT !.pc = "insert", !.route = route, !.row = Nothing])
    BY <1>3 DEF TakeRoute
  <2>2. [job EXCEPT !.pc = "insert", !.route = route, !.row = Nothing].op = job.op
    BY <1>a DEF JobRecord
  <2> QED
    BY <1>1, <2>1, <2>2 DEF Go
<1>4. CASE JobStart(j)
  <2>1. ASSUME NEW op \in {"fire", "clear"}, NEW k, Go(j, [Idle EXCEPT !.op = op, !.pc = "lookup", !.key = k])
        PROVE  FALSE
    BY <1>1, <2>1 DEF Go, Idle
  <2>2. ASSUME NEW rows, Go(j, [Idle EXCEPT !.op = "reraise", !.pc = "next", !.held = rows]) PROVE FALSE
    BY <1>1, <2>2 DEF Go, Idle
  <2> QED
    BY <1>4, <2>1, <2>2 DEF JobStart, Fire, Clear, Receive, Reraise
<1>5. CASE Lookup(j)
  <2>1. job.pc = "lookup" /\ UNCHANGED <<alerts, tickets>>
    BY <1>5 DEF Lookup, At
  <2>2. ASSUME NEW a, NEW pc,
               Go(j, [[job EXCEPT !.row = [alert |-> a, ticket |-> alerts[a].ticket]] EXCEPT !.pc = pc])
        PROVE  FALSE
    <3>1. [[job EXCEPT !.row = [alert |-> a, ticket |-> alerts[a].ticket]] EXCEPT !.pc = pc].op = job.op
      BY <1>a DEF JobRecord
    <3> QED
      BY <1>1, <2>2, <3>1 DEF Go
  <2>3. PICK a \in OpenAlerts(job.key) : alerts[a].ticket = None
    BY <1>3, <1>5, <2>2 DEF Lookup
  <2>4. a \in Alert /\ alerts[a].status = "firing" /\ alerts[a].key = job.key
    BY <2>3 DEF OpenAlerts, Firing
  <2>5. alerts[a].window # None
    BY <2>1, <2>3, <2>4, NoneMissing DEF Recording, Missing
  <2> QED
    BY <2>1, <2>4, <2>5 DEF Seen
<1>6. CASE Check(j)
  <2>1. job.pc = "check" /\ UNCHANGED <<alerts, tickets>> /\ ~Ended(tickets[job.row.ticket])
    BY <1>2, <1>6 DEF Check, At, Terminal, Ended
  <2>2. /\ job.row.alert \in Alert /\ alerts[job.row.alert].status = "firing" /\ alerts[job.row.alert].key = job.key
        /\ alerts[job.row.alert].ticket = job.row.ticket /\ job.row.ticket # None
    BY <1>a, <2>1 DEF KeyPart, CopyPart, Shaped
  <2> QED
    BY <2>1, <2>2 DEF Seen
<1>7. CASE Insert(j)
  <2>1. PICK a \in Alert, w \in Coverage :
          /\ Update(a, [status |-> "firing", key |-> job.key, ticket |-> None, window |-> w,
                        quiet |-> job.route.quiet, severe |-> job.route.severe])
          /\ IF Held(w) THEN Done(j) ELSE Go(j, [job EXCEPT !.pc = "group", !.alert = a, !.cover = w])
    BY <1>7 DEF Insert
  <2>2. alerts'[a].status = "firing" /\ alerts'[a].key = job.key /\ alerts'[a].window = w
    BY <1>a, <2>1 DEF Update
  <2>3. [job EXCEPT !.pc = "group", !.alert = a, !.cover = w].op = job.op
    BY <1>a DEF JobRecord
  <2>4. Held(w)
    BY <1>1, <2>1, <2>3 DEF Go
  <2> QED
    BY <2>2, <2>4 DEF Seen, Held
<1>8. CASE Join(j) \/ Attach(j)
  <2>1. job.pc \in {"join", "attach"} /\ SetTicket(j) /\ UNCHANGED tickets
    BY <1>8 DEF Join, Attach, At
  <2>2. /\ job.alert \in Alert /\ job.ticket \in Ticket /\ job.ticket # None
        /\ alerts[job.alert].status = "firing" /\ alerts[job.alert].key = job.key
        /\ ~Ended(tickets[job.ticket])
    BY <1>a, <2>1, NoneIsNone DEF Shaped, RecordPart, TicketPart, Recording
  <2>3. /\ alerts'[job.alert].status = "firing" /\ alerts'[job.alert].key = job.key
        /\ alerts'[job.alert].ticket = job.ticket
    BY <1>a, <2>1, <2>2 DEF SetTicket, Update, AlertRow
  <2> QED
    BY <2>1, <2>2, <2>3 DEF Seen
<1>9. CASE TriggerPage(j)
  <2>1. job.pc = "page" /\ UNCHANGED <<alerts, tickets>>
    BY <1>9 DEF TriggerPage, At
  <2>2. /\ job.alert \in Alert /\ job.ticket \in Ticket /\ job.ticket # None
        /\ alerts[job.alert].status = "firing" /\ alerts[job.alert].key = job.key
        /\ alerts[job.alert].ticket = job.ticket /\ ~Ended(tickets[job.ticket])
    BY <1>a, <2>1, NoneIsNone DEF Shaped, RecordPart, TicketPart
  <2> QED
    BY <2>1, <2>2 DEF Seen
<1>10. CASE Group(j) \/ CreateTicket(j)
  <2>1. \A pc, t : [job EXCEPT !.pc = pc, !.ticket = t].op = job.op
    BY <1>a DEF JobRecord
  <2>2. ASSUME NEW pc, NEW t, Go(j, [job EXCEPT !.pc = pc, !.ticket = t]) PROVE FALSE
    BY <1>1, <2>1, <2>2 DEF Go
  <2> QED
    BY <1>2, <1>10, <2>2 DEF Group, CreateTicket
<1>11. CASE End(j)
  BY <1>3, <1>11 DEF End
<1>12. ~(ResolveAlert(j) \/ Count(j) \/ Look(j) \/ CloseTicket(j) \/ SettlePages(j))
  BY <1>a DEF ResolveAlert, Count, Look, CloseTicket, SettlePages, At, Shaped
<1>13. ~(NextHeld(j) \/ Still(j) \/ Release(j) \/ Ask(j) \/ Requeue(j))
  BY <1>a DEF NextHeld, Still, Release, Ask, Requeue, At, Shaped
<1> QED
  BY <1>4, <1>5, <1>6, <1>7, <1>8, <1>9, <1>10, <1>11, <1>12, <1>13 DEF JobStep

\* What SignalShown says of every step.
Shows ==
  \A j \in Job : jobs[j].op = "fire" /\ jobs'[j].op = "none" /\ UNCHANGED crashes =>
     \/ \E route \in Routes[jobs[j].key] : route.drop
     \/ \E k \in {jobs[j].key} : (\E a \in Alert : Firing(a) /\ alerts[a].key = k /\ Shown(a))'

\* A signal that fires ends in the open, on an incident or held by a window: a
\* repeat is never counted on an alert whose ticket has ended.  People and
\* windows wait until the handler is done.
THEOREM SignalsAreShown == OneHandler /\ NoCrash /\ Calm /\ Spec => SignalShown
<1> SUFFICES ASSUME OneHandler, NoCrash, Calm PROVE Spec => SignalShown
  OBVIOUS
<1>1. Spec => []TypeInv /\ []KeyInv /\ []LostInv /\ []SoloInv
  BY TypeCorrect, KeyHolds, LostHolds, SoloHolds
<1>2. TypeInv /\ KeyInv /\ LostInv /\ SoloInv /\ [Next]_vars => [Shows]_vars
  <2> SUFFICES ASSUME TypeInv, KeyInv, LostInv, SoloInv, Next,
                      NEW j \in Job, jobs[j].op = "fire", jobs'[j].op = "none", UNCHANGED crashes,
                      \A route \in Routes[jobs[j].key] : ~route.drop
               PROVE  \E k \in {jobs[j].key} : (\E a \in Alert : Firing(a) /\ alerts[a].key = k /\ Shown(a))'
    BY DEF Shows
  <2>1. jobs' # jobs
    OBVIOUS
  <2>2. \E i \in Job : JobStart(i) \/ JobStep(i)
    <3>1. ASSUME NEW i \in Job, Crash(i) PROVE FALSE
      BY <3>1 DEF Crash, TypeInv, TypeOK
    <3> QED
      BY <2>1, <3>1 DEF Next, Undisturbed, WindowStarts, WindowEnds, EditTicket, PageStops, ForgetTicket, ForgetAlert
  <2>3. JobStart(j) \/ JobStep(j)
    BY <2>2 DEF OneHandler
  <2>4. Seen(jobs[j].key, alerts', tickets')
    BY <2>3, ShownStep
  <2> QED
    BY <2>4 DEF Seen, Firing, Shown, Terminal, Ended
<1> QED
  BY <1>1, <1>2, PTL DEF Spec, SignalShown, Shows
-----------------------------------------------------------------------------
(* ImplementsIncidents. *)

\* The alerts on incidents, and what they are about.
On(a, t, k, rows) == rows[a].status = "firing" /\ rows[a].ticket = t /\ rows[a].key = k

\* A problem belongs to an incident through one of its alerts.
LEMMA MemberIff ==
  ASSUME NEW t, NEW k
  PROVE  /\ k \in Members(t) <=> \E a \in Alert : On(a, t, k, alerts)
         /\ k \in Members(t)' <=> \E a \in Alert : On(a, t, k, alerts')
BY DEF Members, Firing, On

\* What the abstract incidents are after a step.
LEMMA AbstractStep ==
  /\ (\A t \in Ticket : Members(t)' = Members(t)) /\ (\A t \in Ticket : tickets'[t].status = tickets[t].status)
     => UNCHANGED Abstract!vars
  /\ (\A t \in Ticket : Members(t)' = Members(t)) => UNCHANGED [t \in Ticket |-> Members(t)]
  /\ (\A t \in Ticket : tickets'[t].status = tickets[t].status) => UNCHANGED [t \in Ticket |-> tickets[t].status]
BY DEF Abstract!vars

\* The members stay the same if the alerts on incidents do.
LEMMA SameMembers ==
  ASSUME \A a \in Alert : \/ alerts'[a].status = alerts[a].status /\ alerts'[a].key = alerts[a].key
                             /\ alerts'[a].ticket = alerts[a].ticket
                          \/ /\ alerts'[a].status # "firing" \/ alerts'[a].ticket = None
                             /\ alerts[a].status # "firing" \/ alerts[a].ticket = None
  PROVE  \A t \in Ticket : Members(t)' = Members(t)
<1> SUFFICES ASSUME NEW t \in Ticket, NEW k
             PROVE  k \in Members(t)' <=> k \in Members(t)
  BY DEF Members
<1>1. \A a \in Alert : On(a, t, k, alerts') <=> On(a, t, k, alerts)
  BY NoneIsNone DEF On
<1> QED
  BY <1>1, MemberIff

\* An alert that is put on an incident brings its problem.
LEMMA JoinStep ==
  ASSUME TypeInv, KeyInv, NEW x \in Alert, NEW t \in Ticket,
         alerts[x].status = "firing", alerts[x].ticket = None,
         tickets[t].status # "none", ~Ended(tickets[t]),
         alerts' = [alerts EXCEPT ![x] = [alerts[x] EXCEPT !.ticket = t]], UNCHANGED tickets
  PROVE  Abstract!Next
<1> DEFINE k == alerts[x].key
<1>1. alerts \in [Alert -> AlertRow] /\ k \in Key
  BY DEF TypeInv, TypeOK, Keyed
<1>2. /\ alerts'[x].status = "firing" /\ alerts'[x].ticket = t /\ alerts'[x].key = k
      /\ \A a \in Alert : a # x => alerts'[a] = alerts[a]
  BY <1>1 DEF AlertRow
<1>3. \A a \in Alert : alerts[a].status = "firing" /\ alerts[a].key = k => a = x
  BY DEF KeyInv, OneAlertPerKey, Firing
<1>4. \A u \in Ticket : k \notin Members(u)
  BY <1>3, MemberIff, NoneIsNone DEF On
<1>5. ASSUME NEW u \in Ticket PROVE Members(u)' = IF u = t THEN Members(u) \cup {k} ELSE Members(u)
  <2> SUFFICES ASSUME NEW c PROVE c \in Members(u)' <=> c \in Members(u) \/ (u = t /\ c = k)
    BY DEF Members
  <2>1. (\E a \in Alert : On(a, u, c, alerts')) <=> (\E a \in Alert : On(a, u, c, alerts)) \/ (u = t /\ c = k)
    <3>1. \A a \in Alert : a # x => (On(a, u, c, alerts') <=> On(a, u, c, alerts))
      BY <1>2 DEF On
    <3>2. On(x, u, c, alerts') <=> u = t /\ c = k
      BY <1>2 DEF On
    <3>3. ~On(x, u, c, alerts)
      BY NoneIsNone DEF On
    <3> QED
      BY <3>1, <3>2, <3>3
  <2> QED
    BY <2>1, MemberIff
<1>6. [u \in Ticket |-> Members(u)]' = [[u \in Ticket |-> Members(u)] EXCEPT ![t] = @ \cup {k}]
  BY <1>5
<1>7. Abstract!Join(t, k)
  BY <1>4, <1>6 DEF Abstract!Join, Abstract!Ended, Ended
<1> QED
  BY <1>1, <1>7 DEF Abstract!Next

\* An alert that resolves takes its problem from its incident.
LEMMA LeaveStep ==
  ASSUME TypeInv, KeyInv, NEW x \in Alert, alerts[x].status # "none",
         alerts' = [alerts EXCEPT ![x] = Resolved(alerts[x])], UNCHANGED tickets
  PROVE  Abstract!Next \/ UNCHANGED Abstract!vars
<1> DEFINE k == alerts[x].key
           t == alerts[x].ticket
<1>1. alerts \in [Alert -> AlertRow] /\ k \in Key
  BY DEF TypeInv, TypeOK, Keyed
<1>2. /\ alerts'[x].status = "resolved" /\ \A a \in Alert : a # x => alerts'[a] = alerts[a]
  BY <1>1 DEF AlertRow, Resolved
<1>3. CASE alerts[x].status # "firing" \/ t = None
  BY <1>2, <1>3, SameMembers, AbstractStep
<1>4. CASE alerts[x].status = "firing" /\ t # None
  <2>1. t \in Ticket
    BY <1>1, <1>4 DEF AlertRow
  <2>2. \A a \in Alert : alerts[a].status = "firing" /\ alerts[a].key = k => a = x
    BY <1>4 DEF KeyInv, OneAlertPerKey, Firing
  <2>3. On(x, t, k, alerts) /\ k \in Members(t)
    BY <1>4, MemberIff DEF On
  <2>4. ASSUME NEW u \in Ticket PROVE Members(u)' = IF u = t THEN Members(u) \ {k} ELSE Members(u)
    <3> SUFFICES ASSUME NEW c PROVE c \in Members(u)' <=> c \in Members(u) /\ ~(u = t /\ c = k)
      BY DEF Members
    <3>1. \A a \in Alert : a # x => (On(a, u, c, alerts') <=> On(a, u, c, alerts))
      BY <1>2 DEF On
    <3>2. ~On(x, u, c, alerts')
      BY <1>2 DEF On
    <3>3. On(x, u, c, alerts) => u = t /\ c = k
      BY DEF On
    <3>4. u = t /\ c = k => \A a \in Alert : On(a, u, c, alerts) => a = x
      BY <2>2 DEF On
    <3> QED
      BY <3>1, <3>2, <3>3, <3>4, MemberIff
  <2>5. [u \in Ticket |-> Members(u)]' = [[u \in Ticket |-> Members(u)] EXCEPT ![t] = @ \ {k}]
    BY <2>4
  <2>6. Abstract!Leave(t, k)
    BY <2>1, <2>3, <2>5 DEF Abstract!Leave
  <2> QED
    BY <1>1, <2>1, <2>6 DEF Abstract!Next
<1> QED
  BY <1>3, <1>4

\* A ticket's status changes as the abstract one does.
LEMMA StatusStep ==
  ASSUME TypeInv, NEW t \in Ticket, NEW row \in TicketRow, tickets' = [tickets EXCEPT ![t] = row], UNCHANGED alerts,
         \/ tickets[t].status = "none" /\ row.status = "open"
         \/ /\ tickets[t].status # "none" /\ ~Ended(tickets[t]) /\ row.status = "resolved"
            /\ \A a \in Alert : ~(alerts[a].status = "firing" /\ alerts[a].ticket = t)
         \/ tickets[t].status # "none" /\ row.status = IF Ended(tickets[t]) THEN "in_progress" ELSE "closed"
         \/ /\ tickets[t].status \notin {"none", "open"} /\ row.status = "none"
            /\ \A a \in Alert : ~(alerts[a].status = "firing" /\ alerts[a].ticket = t)
  PROVE  Abstract!Next
<1>1. tickets \in [Ticket -> TicketRow] /\ tickets[t].status \in {"none", "open", "in_progress", "resolved", "closed"}
  BY DEF TypeInv, TypeOK, TicketRow
<1> DEFINE status == [u \in Ticket |-> tickets[u].status]
           members == [u \in Ticket |-> Members(u)]
<1>2. status' = [status EXCEPT ![t] = row.status] /\ status[t] = tickets[t].status
  BY <1>1
<1>3. UNCHANGED members
  BY SameMembers, AbstractStep
<1>4. (\A a \in Alert : ~(alerts[a].status = "firing" /\ alerts[a].ticket = t)) => members[t] = {}
  BY DEF Members, Firing
<1>5. Abstract!Open(t) \/ Abstract!Resolve(t) \/ Abstract!Edit(t) \/ Abstract!Forget(t)
  <2>1. CASE tickets[t].status = "none" /\ row.status = "open"
    BY <1>2, <1>3, <2>1 DEF Abstract!Open
  <2>2. CASE /\ tickets[t].status # "none" /\ ~Ended(tickets[t]) /\ row.status = "resolved"
             /\ \A a \in Alert : ~(alerts[a].status = "firing" /\ alerts[a].ticket = t)
    BY <1>2, <1>3, <1>4, <2>2 DEF Abstract!Resolve, Abstract!Ended, Ended
  <2>3. CASE tickets[t].status # "none" /\ row.status = IF Ended(tickets[t]) THEN "in_progress" ELSE "closed"
    BY <1>2, <1>3, <2>3 DEF Abstract!Edit, Abstract!Ended, Ended
  <2>4. CASE /\ tickets[t].status \notin {"none", "open"} /\ row.status = "none"
             /\ \A a \in Alert : ~(alerts[a].status = "firing" /\ alerts[a].ticket = t)
    BY <1>1, <1>2, <1>3, <1>4, <2>4 DEF Abstract!Forget, Abstract!Ended
  <2> QED
    BY <2>1, <2>2, <2>3, <2>4
<1> QED
  BY <1>5 DEF Abstract!Next

\* Every step of a handler is one of the incidents, or none.
LEMMA HandlerRefines ==
  ASSUME OneHandler, Calm, TypeInv, KeyInv, SoloInv, NEW j \in Job, JobStart(j) \/ JobStep(j)
  PROVE  Abstract!Next \/ UNCHANGED Abstract!vars
<1> DEFINE job == jobs[j]
           x == job.row.alert
<1>a. /\ job \in JobRecord /\ Shaped(job) /\ alerts \in [Alert -> AlertRow] /\ tickets \in [Ticket -> TicketRow]
      /\ KeyPart(job, alerts) /\ CopyPart(job, alerts) /\ RecordPart(job, alerts) /\ TicketPart(job, alerts, tickets)
      /\ x \in Alert => alerts[x].status # "none"
  BY HeldInUse DEF TypeInv, TypeOK, KeyInv, SoloInv
<1>1. CASE Join(j) \/ Attach(j)
  <2>1. job.pc \in {"join", "attach"} /\ SetTicket(j) /\ UNCHANGED tickets
    BY <1>1 DEF Join, Attach, At
  <2>2. /\ job.alert \in Alert /\ job.ticket \in Ticket
        /\ alerts[job.alert].status = "firing" /\ alerts[job.alert].ticket = None
        /\ tickets[job.ticket].status # "none" /\ ~Ended(tickets[job.ticket])
    BY <1>a, <2>1 DEF Shaped, RecordPart, TicketPart, Recording
  <2> QED
    BY <2>1, <2>2, JoinStep DEF SetTicket, Update
<1>2. CASE End(j) \/ ResolveAlert(j)
  <2>1. x \in Alert /\ alerts' = [alerts EXCEPT ![x] = Resolved(alerts[x])] /\ UNCHANGED tickets
    BY <1>2, <1>a DEF End, ResolveAlert, At, Update, Shaped
  <2> QED
    BY <1>a, <2>1, LeaveStep
<1>3. CASE CreateTicket(j)
  <2>1. PICK t \in Ticket : /\ tickets[t].status = "none"
                            /\ tickets' = [tickets EXCEPT ![t] = [status |-> "open", team |-> job.route.team]]
    BY <1>3 DEF CreateTicket
  <2>2. [status |-> "open", team |-> job.route.team] \in TicketRow /\ UNCHANGED alerts
    BY <1>3, <1>a DEF CreateTicket, At, Shaped, Route, TicketRow
  <2> DEFINE row == [status |-> "open", team |-> job.route.team]
  <2>3. row \in TicketRow /\ row.status = "open" /\ tickets' = [tickets EXCEPT ![t] = row]
    BY <2>1, <2>2
  <2> HIDE DEF row
  <2> QED
    BY <2>1, <2>2, <2>3, StatusStep
<1>4. CASE CloseTicket(j)
  <2> DEFINE t == job.row.ticket
             row == [tickets[t] EXCEPT !.status = "resolved"]
  <2>1. job.pc = "close" /\ t \in Ticket /\ UNCHANGED alerts /\ tickets' = [tickets EXCEPT ![t].status = "resolved"]
    BY <1>4, <1>a DEF CloseTicket, At, Shaped
  <2>2. row \in TicketRow /\ row.status = "resolved" /\ tickets' = [tickets EXCEPT ![t] = row]
    BY <1>a, <2>1 DEF TicketRow
  <2>3. /\ tickets[t].status # "none" /\ ~Ended(tickets[t])
        /\ \A a \in Alert : ~(alerts[a].status = "firing" /\ alerts[a].ticket = t)
    BY <1>a, <2>1 DEF TicketPart
  <2> HIDE DEF row
  <2> QED
    BY <2>1, <2>2, <2>3, StatusStep
<1>5. ASSUME UNCHANGED tickets,
             \A a \in Alert : \/ alerts'[a].status = alerts[a].status /\ alerts'[a].key = alerts[a].key
                                 /\ alerts'[a].ticket = alerts[a].ticket
                              \/ /\ alerts'[a].status # "firing" \/ alerts'[a].ticket = None
                                 /\ alerts[a].status # "firing" \/ alerts[a].ticket = None
      PROVE  UNCHANGED Abstract!vars
  BY <1>5, SameMembers, AbstractStep
<1>6. CASE Insert(j)
  <2>1. PICK a \in Alert, w \in Coverage :
          /\ alerts[a].status = "none"
          /\ Update(a, [status |-> "firing", key |-> job.key, ticket |-> None, window |-> w,
                        quiet |-> job.route.quiet, severe |-> job.route.severe])
    BY <1>6 DEF Insert
  <2>2. alerts'[a].ticket = None /\ \A b \in Alert : b # a => alerts'[b] = alerts[b]
    BY <1>a, <2>1 DEF Update
  <2> QED
    BY <1>5, <1>6, <2>1, <2>2 DEF Insert
<1>7. CASE Requeue(j)
  <2>1. /\ x \in Alert /\ alerts' = [alerts EXCEPT ![x] = [Resolved(alerts[x]) EXCEPT !.window = None]]
        /\ alerts[x].ticket = None /\ UNCHANGED tickets
    BY <1>7, <1>a DEF Requeue, At, Update, Shaped, CopyPart
  <2>2. alerts'[x].ticket = None /\ \A b \in Alert : b # x => alerts'[b] = alerts[b]
    BY <1>a, <2>1 DEF Resolved, AlertRow
  <2> QED
    BY <1>5, <2>1, <2>2
<1>8. CASE Still(j) \/ Release(j)
  <2>1. ASSUME NEW w, alerts' = [alerts EXCEPT ![x] = [alerts[x] EXCEPT !.window = w]]
        PROVE  \A a \in Alert : /\ alerts'[a].status = alerts[a].status /\ alerts'[a].key = alerts[a].key
                                /\ alerts'[a].ticket = alerts[a].ticket
    BY <2>1, <1>a DEF AlertRow
  <2>2. UNCHANGED tickets /\ (UNCHANGED alerts \/ \E w : alerts' = [alerts EXCEPT ![x] = [alerts[x] EXCEPT !.window = w]])
    BY <1>8 DEF Still, Release, Update
  <2> QED
    BY <1>5, <2>1, <2>2
<1>9. CASE UNCHANGED <<alerts, tickets>>
  BY <1>5, <1>9
<1>10. \/ Join(j) \/ Attach(j) \/ End(j) \/ ResolveAlert(j) \/ CreateTicket(j) \/ CloseTicket(j) \/ Insert(j)
       \/ Requeue(j) \/ Still(j) \/ Release(j) \/ UNCHANGED <<alerts, tickets>>
  BY DEF JobStart, JobStep, Fire, Clear, Receive, Reraise, Lookup, Check, Group, TriggerPage, Count, Look, SettlePages,
         NextHeld, Ask
<1> QED
  BY <1>1, <1>2, <1>3, <1>4, <1>6, <1>7, <1>8, <1>9, <1>10

\* People edit incidents, and an incident nobody has touched is not forgotten.
LEMMA EnvironmentRefines ==
  ASSUME NoCrash, TypeInv, SoloInv,
         \/ \E w \in Window : WindowStarts(w) \/ WindowEnds(w)
         \/ \E t \in Ticket : EditTicket(t) \/ PageStops(t) \/ ForgetTicket(t)
         \/ \E a \in Alert : ForgetAlert(a)
         \/ \E j \in Job : Crash(j)
         \/ UNCHANGED vars
  PROVE  Abstract!Next \/ UNCHANGED Abstract!vars
<1>a. alerts \in [Alert -> AlertRow] /\ tickets \in [Ticket -> TicketRow]
  BY DEF TypeInv, TypeOK
<1>1. ASSUME UNCHANGED <<alerts, tickets>> PROVE UNCHANGED Abstract!vars
  BY <1>1, SameMembers, AbstractStep
<1>2. ASSUME NEW t \in Ticket, EditTicket(t) PROVE Abstract!Next
  <2> DEFINE row == [tickets[t] EXCEPT !.status = IF Terminal(t) THEN "in_progress" ELSE "closed"]
  <2>1. /\ row \in TicketRow /\ row.status = IF Ended(tickets[t]) THEN "in_progress" ELSE "closed"
        /\ tickets' = [tickets EXCEPT ![t] = row]
    BY <1>2, <1>a DEF EditTicket, TicketRow, Terminal, Ended
  <2>2. tickets[t].status # "none" /\ UNCHANGED alerts
    BY <1>2 DEF EditTicket
  <2> HIDE DEF row
  <2> QED
    BY <2>1, <2>2, StatusStep
<1>3. ASSUME NEW t \in Ticket, ForgetTicket(t) PROVE Abstract!Next
  <2>1. /\ tickets[t].status # "none" /\ tickets' = [tickets EXCEPT ![t] = NoTicket] /\ UNCHANGED alerts
        /\ \A a \in Alert : alerts[a].ticket # t
    BY <1>3 DEF ForgetTicket
  <2>2. NoTicket \in TicketRow /\ NoTicket.status = "none"
    BY DEF NoTicket, TicketRow
  <2>3. ASSUME NEW j \in Job PROVE ~Supports(jobs[j], t)
    <3>1. \A copy \in InHand(j) : copy.ticket # t
      BY <1>3 DEF ForgetTicket
    <3>2. jobs[j].row.ticket # t
      BY <3>1 DEF InHand
    <3>3. [alert |-> jobs[j].alert, ticket |-> jobs[j].ticket].ticket # t
      BY <3>1, Zenon DEF InHand
    <3> QED
      BY <3>2, <3>3 DEF Supports
  <2>4. tickets[t].status # "open"
    BY <2>1, <2>3 DEF SoloInv, Cared
  <2> QED
    BY <2>1, <2>2, <2>4, StatusStep
<1>4. ASSUME NEW a \in Alert, ForgetAlert(a) PROVE UNCHANGED Abstract!vars
  <2>1. /\ alerts' = [alerts EXCEPT ![a] = NoAlert] /\ alerts[a].status = "resolved" /\ UNCHANGED tickets
    BY <1>4 DEF ForgetAlert
  <2>2. alerts'[a].status = "none" /\ \A b \in Alert : b # a => alerts'[b] = alerts[b]
    BY <1>a, <2>1 DEF NoAlert
  <2> QED
    BY <2>1, <2>2, SameMembers, AbstractStep
<1>5. ASSUME NEW j \in Job, Crash(j) PROVE FALSE
  BY <1>5 DEF Crash, NoCrash, TypeInv, TypeOK
<1>6. CASE UNCHANGED vars
  BY <1>1, <1>6 DEF vars
<1> QED
  BY <1>1, <1>2, <1>3, <1>4, <1>5, <1>6 DEF WindowStarts, WindowEnds, PageStops

\* The pipeline implements the incidents of module Incidents: its initial
\* states are theirs, and each of its steps is one of theirs or none.  Handlers
\* do not overlap or die, and people and windows wait until none runs.
THEOREM PipelineImplementsIncidents == OneHandler /\ NoCrash /\ Calm /\ Spec => ImplementsIncidents
<1> SUFFICES ASSUME OneHandler, NoCrash, Calm PROVE Spec => ImplementsIncidents
  OBVIOUS
<1>1. Spec => []TypeInv /\ []KeyInv /\ []SoloInv
  BY TypeCorrect, KeyHolds, SoloHolds
<1>2. Init => Abstract!Init
  BY DEF Init, NoAlert, NoTicket, Abstract!Init, Members, Firing
<1>3. TypeInv /\ KeyInv /\ SoloInv /\ [Next]_vars => [Abstract!Next]_(Abstract!vars)
  <2> SUFFICES ASSUME TypeInv, KeyInv, SoloInv, [Next]_vars PROVE Abstract!Next \/ UNCHANGED Abstract!vars
    OBVIOUS
  <2>1. ASSUME NEW j \in Job, JobStart(j) \/ JobStep(j) PROVE Abstract!Next \/ UNCHANGED Abstract!vars
    BY <2>1, HandlerRefines
  <2> QED
    BY <2>1, EnvironmentRefines DEF Next, Undisturbed
<1> QED
  BY <1>1, <1>2, <1>3, PTL DEF Spec, ImplementsIncidents, Abstract!Spec
=============================================================================
