---------------------------- MODULE AlertsProofs -----------------------------
(***************************************************************************)
(* The alert pipeline for any number of alerts, tickets, windows and       *)
(* handlers.                                                               *)
(*                                                                         *)
(* TypeCorrect: an alert somebody has in hand is not forgotten, so a copy  *)
(* never turns into another alert.                                         *)
(*                                                                         *)
(* HeldNotPaged, with one process that ends maintenance at a time and any  *)
(* number of other handlers: an alert gets its window when it is recorded, *)
(* and afterwards only the end of maintenance changes it, for alerts it    *)
(* read as held, one after the other.                                      *)
(*                                                                         *)
(* OneAlertPerKey, with one handler at a time: an alert is recorded when   *)
(* none was open, or when the only open one has been ended.                *)
(***************************************************************************)
EXTENDS AlertsProps, TLAPS

\* The alerts a handler has in hand.
Hand(job) == {job.row.alert, job.alert} \cup {c.alert : c \in job.held}

\* What a handler knows at each of its steps.
Shaped(job) ==
  /\ job.pc \in {"lookup", "check", "end", "insert"} => job.key \in Key
  /\ job.pc \in {"check", "end", "resolve", "still", "release", "ask", "requeue"} => job.row.alert \in Alert
  /\ job.pc \in {"count", "look", "close", "settle", "release", "ask"} => job.row.ticket \in Ticket
  /\ job.pc \in {"insert", "group", "join", "create", "attach"} => job.route \in Route
  /\ job.pc \in {"group", "join", "create", "attach", "page"} => job.alert \in Alert
  /\ job.pc \in {"join", "attach", "page"} => job.ticket \in Ticket
  /\ job.pc \in {"next", "still", "release", "ask", "requeue"} => job.op = "reraise"
  /\ job.pc \in {"resolve", "count", "look", "close", "settle"} => job.op = "clear"
  /\ job.op # "reraise" => job.held = {}
  /\ \A c \in job.held : c.alert \in Alert

\* An alert in use is about a problem, and what is in hand is in use.
Keyed == \A a \in Alert : alerts[a].status # "none" => alerts[a].key \in Key
InUse == \A j \in Job : \A a \in Hand(jobs[j]) : a \in Alert => alerts[a].status # "none"

TypeInv == TypeOK /\ (\A j \in Job : Shaped(jobs[j])) /\ Keyed /\ InUse
-----------------------------------------------------------------------------
(* Types. *)

\* None is none of the ids it stands in for.
LEMMA NoneIsNone == None \notin Alert /\ None \notin Ticket /\ None \notin Window
BY NoneAssumption

\* Everything is well typed at first.
LEMMA InitTypes == Init => TypeInv
BY NoneAssumption, JobAssumption
   DEF Init, TypeInv, TypeOK, Shaped, Keyed, InUse, Hand, AlertRow, TicketRow, NoAlert, NoTicket,
       Idle, Nothing, JobRecord, Copy, PC, Op

\* A step of one handler keeps the types if its own new record is sound and no
\* alert goes out of use.
LEMMA CarriedTypes ==
  ASSUME TypeInv, NEW j \in Job, NEW r \in JobRecord, Shaped(r),
         jobs' = [jobs EXCEPT ![j] = r],
         alerts' \in [Alert -> AlertRow], Keyed',
         \A a \in Alert : alerts[a].status # "none" => alerts'[a].status # "none",
         \A a \in Hand(r) : a \in Alert => alerts'[a].status # "none",
         tickets' \in [Ticket -> TicketRow], paging' \subseteq Ticket, pagedFor' \subseteq Alert,
         active' \subseteq Window, crashes' \in 0 .. MaxCrashes
  PROVE  TypeInv'
<1>1. jobs' \in [Job -> JobRecord] /\ \A i \in Job : jobs'[i] = IF i = j THEN r ELSE jobs[i]
  BY DEF TypeInv, TypeOK
<1>2. TypeOK'
  BY <1>1 DEF TypeOK
<1>3. \A i \in Job : Shaped(jobs'[i])
  BY <1>1 DEF TypeInv
<1>4. InUse'
  <2> SUFFICES ASSUME NEW i \in Job, NEW a \in Hand(jobs'[i]), a \in Alert PROVE alerts'[a].status # "none"
    BY DEF InUse, Hand
  <2>1. CASE i = j
    BY <1>1, <2>1
  <2>2. CASE i # j
    <3>1. a \in Hand(jobs[i])
      BY <1>1, <2>2
    <3> QED
      BY <3>1 DEF TypeInv, InUse
  <2> QED
    BY <2>1, <2>2
<1> QED
  BY <1>2, <1>3, <1>4 DEF TypeInv, Shaped

\* A handler that is done waits for the next signal, or goes on with what the
\* window held.
LEMMA DoneTypes ==
  ASSUME TypeInv, NEW j \in Job, Done(j)
  PROVE  \E r \in JobRecord : /\ jobs' = [jobs EXCEPT ![j] = r]
                              /\ Shaped(r)
                              /\ Hand(r) \subseteq Hand(jobs[j]) \cup {None}
                              /\ r.held = jobs[j].held /\ r.op \in {"none", jobs[j].op}
                              /\ r.op = "none" => r.held = {}
                              /\ r.row = Nothing /\ r.pc \in {"idle", "next"}
<1>1. jobs[j] \in JobRecord /\ Shaped(jobs[j])
  BY DEF TypeInv, TypeOK
<1>2. CASE jobs[j].op = "reraise"
  <2> DEFINE r == [Idle EXCEPT !.op = "reraise", !.pc = "next", !.held = jobs[j].held]
  <2>0. jobs[j].held \in SUBSET Copy /\ \A c \in jobs[j].held : c.alert \in Alert
    BY <1>1 DEF JobRecord, Shaped
  <2>a. Idle \in JobRecord
    BY DEF JobRecord, Idle, Nothing, Copy, PC, Op
  <2>b. r \in JobRecord /\ r.op = "reraise" /\ r.pc = "next" /\ r.held = jobs[j].held
    BY <2>0, <2>a DEF JobRecord, PC, Op
  <2>1. r \in JobRecord /\ Shaped(r)
    BY <2>0, <2>b DEF Shaped
  <2>2. Hand(r) \subseteq Hand(jobs[j]) \cup {None}
    BY DEF Hand, Idle, Nothing
  <2>3. r.held = jobs[j].held /\ r.op = "reraise" /\ r.pc = "next" /\ r.row = Nothing
    BY DEF Idle
  <2> QED
    BY <1>2, <2>1, <2>2, <2>3 DEF Done, Go
<1>3. CASE jobs[j].op # "reraise"
  <2>1. Idle \in JobRecord /\ Shaped(Idle) /\ Hand(Idle) = {None}
    BY DEF JobRecord, Shaped, Hand, Idle, Nothing, Copy, PC, Op
  <2>2. Idle.held = {} /\ jobs[j].held = {} /\ Idle.op = "none" /\ Idle.pc = "idle" /\ Idle.row = Nothing
    BY <1>1, <1>3 DEF Idle, Shaped
  <2> QED
    BY <1>3, <2>1, <2>2 DEF Done, Go
<1> QED
  BY <1>2, <1>3

\* A handler's step that writes no alert, and takes none in hand that is not in
\* use.
LEMMA ReadTypes ==
  ASSUME TypeInv, NEW j \in Job, NEW r \in JobRecord, Shaped(r),
         jobs' = [jobs EXCEPT ![j] = r],
         \A a \in Hand(r) : a \in Hand(jobs[j]) \cup {None} \/ alerts[a].status # "none",
         tickets' \in [Ticket -> TicketRow], paging' \subseteq Ticket, pagedFor' \subseteq Alert,
         UNCHANGED <<alerts, active, crashes>>
  PROVE  TypeInv'
<1>1. \A a \in Hand(r) : a \in Alert => alerts'[a].status # "none"
  BY NoneIsNone DEF TypeInv, InUse
<1>2. /\ alerts' \in [Alert -> AlertRow] /\ Keyed'
      /\ active' \subseteq Window /\ crashes' \in 0 .. MaxCrashes
      /\ \A a \in Alert : alerts[a].status # "none" => alerts'[a].status # "none"
  BY DEF TypeInv, TypeOK, Keyed
<1> QED
  BY <1>1, <1>2, CarriedTypes

\* A handler's step that writes one alert, which stays in use or comes to be,
\* with a problem to be about.
LEMMA WriteTypes ==
  ASSUME TypeInv, NEW j \in Job, NEW r \in JobRecord, Shaped(r),
         jobs' = [jobs EXCEPT ![j] = r],
         NEW x \in Alert, NEW row \in AlertRow, alerts' = [alerts EXCEPT ![x] = row],
         row.status # "none", row.key \in Key,
         Hand(r) \subseteq Hand(jobs[j]) \cup {None, x},
         UNCHANGED <<tickets, paging, pagedFor, active, crashes>>
  PROVE  TypeInv'
<1>1. alerts' \in [Alert -> AlertRow] /\ \A a \in Alert : alerts'[a] = IF a = x THEN row ELSE alerts[a]
  BY DEF TypeInv, TypeOK
<1>2. Keyed' /\ \A a \in Alert : alerts[a].status # "none" => alerts'[a].status # "none"
  BY <1>1 DEF TypeInv, Keyed
<1>3. \A a \in Hand(r) : a \in Alert => alerts'[a].status # "none"
  BY <1>1, NoneIsNone DEF TypeInv, InUse
<1>4. /\ tickets' \in [Ticket -> TicketRow] /\ paging' \subseteq Ticket /\ pagedFor' \subseteq Alert
      /\ active' \subseteq Window /\ crashes' \in 0 .. MaxCrashes
  BY DEF TypeInv, TypeOK
<1> QED
  BY <1>1, <1>2, <1>3, <1>4, CarriedTypes

\* Moving on changes the place and nothing that is in hand.
LEMMA GoToTypes ==
  ASSUME TypeInv, NEW j \in Job, NEW pc \in PC
  PROVE  LET r == [jobs[j] EXCEPT !.pc = pc]
         IN  /\ r \in JobRecord /\ Hand(r) = Hand(jobs[j]) /\ r.pc = pc
             /\ r.op = jobs[j].op /\ r.key = jobs[j].key /\ r.row = jobs[j].row /\ r.held = jobs[j].held
             /\ r.route = jobs[j].route /\ r.cover = jobs[j].cover
             /\ r.alert = jobs[j].alert /\ r.ticket = jobs[j].ticket
<1>1. jobs[j] \in JobRecord
  BY DEF TypeInv, TypeOK
<1> QED
  BY <1>1 DEF JobRecord, Hand

\* routeSignal drops the signal or goes on to record it.
LEMMA RouteTypes ==
  ASSUME TypeInv, NEW j \in Job, jobs[j].key \in Key, jobs[j].pc \in {"lookup", "end"}, TakeRoute(j)
  PROVE  \E r \in JobRecord : /\ jobs' = [jobs EXCEPT ![j] = r]
                              /\ Shaped(r)
                              /\ Hand(r) \subseteq Hand(jobs[j]) \cup {None}
                              /\ r.held = jobs[j].held /\ r.op \in {"none", jobs[j].op}
                              /\ r.op = "none" => r.held = {}
                              /\ r.row = Nothing
                              /\ \/ r.pc \in {"idle", "next"}
                                 \/ r.pc = "insert" /\ r.key = jobs[j].key
<1>1. PICK route \in Routes[jobs[j].key] :
        IF route.drop THEN Done(j) ELSE Go(j, [jobs[j] EXCEPT !.pc = "insert", !.route = route, !.row = Nothing])
  BY DEF TakeRoute
<1>2. CASE route.drop
  BY <1>1, <1>2, DoneTypes
<1>3. CASE ~route.drop
  <2> DEFINE r == [jobs[j] EXCEPT !.pc = "insert", !.route = route, !.row = Nothing]
  <2>1. route \in Route
    BY RouteAssumption
  <2>2. jobs[j] \in JobRecord /\ Shaped(jobs[j])
    BY DEF TypeInv, TypeOK
  <2>3. Nothing \in Copy /\ Nothing.alert = None
    BY DEF Nothing, Copy
  <2>4. /\ r \in JobRecord /\ r.pc = "insert" /\ r.route = route /\ r.row = Nothing /\ r.op = jobs[j].op
        /\ r.held = jobs[j].held /\ r.key = jobs[j].key /\ r.alert = jobs[j].alert
    BY <2>1, <2>2, <2>3 DEF JobRecord, PC
  <2>5. Shaped(r)
    BY <2>1, <2>2, <2>4 DEF Shaped
  <2>6. Hand(r) \subseteq Hand(jobs[j]) \cup {None}
    BY <2>3, <2>4 DEF Hand
  <2>7. jobs' = [jobs EXCEPT ![j] = r]
    BY <1>1, <1>3 DEF Go
  <2>8. r.op = "none" => r.held = {}
    BY <2>5 DEF Shaped
  <2> QED
    BY <2>4, <2>5, <2>6, <2>7, <2>8
<1> QED
  BY <1>2, <1>3

\* A handler that is done has changed nothing but itself.
LEMMA DoneKeeps ==
  ASSUME TypeInv, NEW j \in Job, Done(j),
         tickets' \in [Ticket -> TicketRow], paging' \subseteq Ticket, pagedFor' \subseteq Alert,
         UNCHANGED <<alerts, active, crashes>>
  PROVE  TypeInv'
<1>1. PICK r \in JobRecord : /\ jobs' = [jobs EXCEPT ![j] = r] /\ Shaped(r)
                             /\ Hand(r) \subseteq Hand(jobs[j]) \cup {None}
  BY DoneTypes
<1> QED
  BY <1>1, ReadTypes

\* The steps of ingestSignal up to the alert's record.
LEMMA IngestTypes ==
  ASSUME TypeInv, NEW j \in Job, Fire(j) \/ Clear(j) \/ Lookup(j) \/ Check(j) \/ End(j) \/ Insert(j)
  PROVE  TypeInv'
<1> DEFINE job == jobs[j]
<1>a. job \in JobRecord /\ Shaped(job) /\ (\A a \in Hand(job) : a \in Alert => alerts[a].status # "none")
  BY DEF TypeInv, TypeOK, InUse
<1>b. /\ alerts \in [Alert -> AlertRow] /\ tickets \in [Ticket -> TicketRow] /\ paging \subseteq Ticket
      /\ pagedFor \subseteq Alert /\ Keyed
  BY DEF TypeInv, TypeOK
<1>1. ASSUME NEW op \in {"fire", "clear"}, Receive(j, op) PROVE TypeInv'
  <2>1. PICK k \in Key : jobs' = [jobs EXCEPT ![j] = [Idle EXCEPT !.op = op, !.pc = "lookup", !.key = k]]
    BY <1>1 DEF Receive, Go
  <2> DEFINE r == [Idle EXCEPT !.op = op, !.pc = "lookup", !.key = k]
  <2>2. Idle \in JobRecord /\ Hand(Idle) = {None} /\ Idle.held = {}
    BY DEF JobRecord, Idle, Nothing, Copy, PC, Op, Hand
  <2>3. r \in JobRecord /\ r.op = op /\ r.pc = "lookup" /\ r.key = k /\ r.held = {} /\ Hand(r) = {None}
    BY <2>2 DEF JobRecord, PC, Op, Hand
  <2>4. Shaped(r)
    BY <2>3 DEF Shaped
  <2> HIDE DEF r
  <2> QED
    BY <1>1, <1>b, <2>1, <2>3, <2>4, ReadTypes DEF Receive, r
<1>2. CASE Lookup(j)
  <2>1. job.pc = "lookup" /\ job.key \in Key /\ UNCHANGED <<alerts, tickets, paging, pagedFor, active, crashes>>
    BY <1>2, <1>a DEF Lookup, At, Shaped
  <2>2. CASE Done(j)
    BY <2>1, <2>2, <1>b, DoneKeeps
  <2>3. CASE TakeRoute(j)
    <3>1. PICK r \in JobRecord : /\ jobs' = [jobs EXCEPT ![j] = r] /\ Shaped(r)
                                 /\ Hand(r) \subseteq Hand(job) \cup {None}
      BY <2>1, <2>3, RouteTypes
    <3> QED
      BY <2>1, <3>1, <1>b, ReadTypes
  <2>4. ASSUME NEW a \in OpenAlerts(job.key), NEW pc \in {"resolve", "check"}, pc = "resolve" => job.op = "clear",
               Go(j, [[job EXCEPT !.row = [alert |-> a, ticket |-> alerts[a].ticket]] EXCEPT !.pc = pc])
        PROVE  TypeInv'
    <3> DEFINE r == [[job EXCEPT !.row = [alert |-> a, ticket |-> alerts[a].ticket]] EXCEPT !.pc = pc]
    <3>1. a \in Alert /\ alerts[a].status = "firing" /\ alerts[a].ticket \in Ticket \cup {None}
      BY <2>4, <1>b DEF OpenAlerts, Firing, AlertRow
    <3>2. [alert |-> a, ticket |-> alerts[a].ticket] \in Copy
      BY <3>1 DEF Copy
    <3>3. /\ r \in JobRecord /\ r.pc = pc /\ r.row.alert = a /\ r.key = job.key /\ r.op = job.op
          /\ r.held = job.held /\ r.alert = job.alert
      BY <1>a, <2>4, <3>2 DEF JobRecord, PC
    <3>4. Shaped(r)
      BY <1>a, <2>1, <2>4, <3>1, <3>3 DEF Shaped
    <3>5. \A b \in Hand(r) : b \in Hand(job) \/ alerts[b].status # "none"
      BY <3>1, <3>3 DEF Hand
    <3>6. jobs' = [jobs EXCEPT ![j] = r]
      BY <2>4 DEF Go
    <3> HIDE DEF r
    <3> QED
      BY <1>b, <2>1, <3>3, <3>4, <3>5, <3>6, ReadTypes
  <2> QED
    BY <1>2, <2>2, <2>3, <2>4 DEF Lookup
<1>3. CASE Check(j)
  <2>1. job.pc = "check" /\ UNCHANGED <<alerts, tickets, paging, pagedFor, active, crashes>>
    BY <1>3 DEF Check, At
  <2>2. CASE Done(j)
    BY <2>1, <2>2, <1>b, DoneKeeps
  <2>3. CASE GoTo(j, "end")
    <3> DEFINE r == [job EXCEPT !.pc = "end"]
    <3>0. "end" \in PC
      BY DEF PC
    <3>1. /\ r \in JobRecord /\ Hand(r) = Hand(job) /\ r.pc = "end" /\ r.row = job.row
          /\ r.key = job.key /\ r.held = job.held /\ r.op = job.op
      BY <3>0, GoToTypes
    <3>2. Shaped(r)
      BY <1>a, <2>1, <3>1 DEF Shaped
    <3>3. jobs' = [jobs EXCEPT ![j] = r]
      BY <2>3 DEF GoTo, Go
    <3> HIDE DEF r
    <3> QED
      BY <1>b, <2>1, <3>1, <3>2, <3>3, ReadTypes
  <2> QED
    BY <1>3, <2>2, <2>3 DEF Check
<1>4. CASE End(j)
  <2> DEFINE x == job.row.alert
  <2>1. /\ job.pc = "end" /\ job.key \in Key /\ x \in Alert /\ x \in Hand(job)
        /\ UNCHANGED <<tickets, paging, pagedFor, active, crashes>>
    BY <1>4, <1>a DEF End, At, Shaped, Hand
  <2>2. alerts' = [alerts EXCEPT ![x] = Resolved(alerts[x])]
    BY <1>4 DEF End, Update
  <2>3. alerts[x] \in AlertRow /\ alerts[x].key \in Key
    BY <1>a, <1>b, <2>1 DEF Keyed
  <2>4. Resolved(alerts[x]) \in AlertRow /\ Resolved(alerts[x]).status # "none" /\ Resolved(alerts[x]).key \in Key
    BY <2>3 DEF Resolved, AlertRow
  <2>5. PICK r \in JobRecord : /\ jobs' = [jobs EXCEPT ![j] = r] /\ Shaped(r)
                               /\ Hand(r) \subseteq Hand(job) \cup {None, x}
    BY <1>4, <2>1, RouteTypes DEF End
  <2> QED
    BY <2>1, <2>2, <2>4, <2>5, WriteTypes
<1>5. CASE Insert(j)
  <2>1. job.pc = "insert" /\ job.key \in Key /\ job.route \in Route /\ UNCHANGED <<tickets, paging, pagedFor, active, crashes>>
    BY <1>5, <1>a DEF Insert, At, Shaped
  <2>2. PICK a \in Alert, w \in Coverage :
          /\ Update(a, [status |-> "firing", key |-> job.key, ticket |-> None, window |-> w,
                        quiet |-> job.route.quiet, severe |-> job.route.severe])
          /\ IF Held(w) THEN Done(j) ELSE Go(j, [job EXCEPT !.pc = "group", !.alert = a, !.cover = w])
    BY <1>5 DEF Insert
  <2> DEFINE row == [status |-> "firing", key |-> job.key, ticket |-> None, window |-> w,
                     quiet |-> job.route.quiet, severe |-> job.route.severe]
  <2>3. w \in Window \cup {None}
    BY DEF Coverage, TypeInv, TypeOK
  <2>4. row \in AlertRow /\ row.status # "none" /\ row.key \in Key
    BY <2>1, <2>3 DEF AlertRow, Route
  <2>5. alerts' = [alerts EXCEPT ![a] = row]
    BY <2>2 DEF Update
  <2> HIDE DEF row
  <2>6. CASE Done(j)
    <3>1. PICK r \in JobRecord : /\ jobs' = [jobs EXCEPT ![j] = r] /\ Shaped(r)
                                 /\ Hand(r) \subseteq Hand(job) \cup {None, a}
      BY <2>6, DoneTypes
    <3> QED
      BY <2>1, <2>4, <2>5, <3>1, WriteTypes
  <2>7. CASE Go(j, [job EXCEPT !.pc = "group", !.alert = a, !.cover = w])
    <3> DEFINE r == [job EXCEPT !.pc = "group", !.alert = a, !.cover = w]
    <3>1. /\ r \in JobRecord /\ r.pc = "group" /\ r.alert = a /\ r.route = job.route
          /\ r.row = job.row /\ r.held = job.held /\ r.op = job.op
      BY <1>a, <2>3 DEF JobRecord, PC
    <3>2. Shaped(r)
      BY <1>a, <2>1, <3>1 DEF Shaped
    <3>3. Hand(r) \subseteq Hand(job) \cup {None, a}
      BY <3>1 DEF Hand
    <3>4. jobs' = [jobs EXCEPT ![j] = r]
      BY <2>7 DEF Go
    <3> HIDE DEF r
    <3> QED
      BY <2>1, <2>4, <2>5, <3>1, <3>2, <3>3, <3>4, WriteTypes
  <2> QED
    BY <2>2, <2>6, <2>7
<1> QED
  BY <1>1, <1>2, <1>3, <1>4, <1>5 DEF Fire, Clear

\* The steps of ingestSignal that find or open the incident and page for it.
LEMMA IncidentTypes ==
  ASSUME TypeInv, NEW j \in Job, Group(j) \/ Join(j) \/ CreateTicket(j) \/ Attach(j) \/ TriggerPage(j)
  PROVE  TypeInv'
<1> DEFINE job == jobs[j]
           x == job.alert
<1>a. job \in JobRecord /\ Shaped(job) /\ (\A a \in Hand(job) : a \in Alert => alerts[a].status # "none")
  BY DEF TypeInv, TypeOK, InUse
<1>b. /\ alerts \in [Alert -> AlertRow] /\ tickets \in [Ticket -> TicketRow] /\ paging \subseteq Ticket
      /\ pagedFor \subseteq Alert /\ Keyed
  BY DEF TypeInv, TypeOK
<1>c. {"create", "page"} \subseteq PC
  BY DEF PC
<1>1. CASE Group(j)
  <2>1. job.pc = "group" /\ UNCHANGED <<alerts, tickets, paging, pagedFor, active, crashes>>
    BY <1>1 DEF Group, At
  <2>2. ASSUME NEW t \in Siblings(j), Go(j, [job EXCEPT !.pc = "join", !.ticket = t]) PROVE TypeInv'
    <3> DEFINE r == [job EXCEPT !.pc = "join", !.ticket = t]
    <3>1. t \in Ticket
      BY <1>b DEF Siblings, AlertRow
    <3>2. /\ r \in JobRecord /\ r.pc = "join" /\ r.ticket = t /\ r.alert = job.alert /\ r.route = job.route
          /\ r.row = job.row /\ r.held = job.held /\ r.op = job.op
      BY <1>a, <3>1 DEF JobRecord, PC
    <3>3. Shaped(r)
      BY <1>a, <2>1, <3>1, <3>2 DEF Shaped
    <3>4. Hand(r) = Hand(job)
      BY <3>2 DEF Hand
    <3>5. jobs' = [jobs EXCEPT ![j] = r]
      BY <2>2 DEF Go
    <3> HIDE DEF r
    <3> QED
      BY <1>b, <2>1, <3>2, <3>3, <3>4, <3>5, ReadTypes
  <2>3. CASE GoTo(j, "create")
    <3> DEFINE r == [job EXCEPT !.pc = "create"]
    <3>1. /\ r \in JobRecord /\ Hand(r) = Hand(job) /\ r.pc = "create" /\ r.route = job.route /\ r.alert = job.alert
          /\ r.held = job.held /\ r.op = job.op
      BY <1>c, GoToTypes
    <3>2. Shaped(r)
      BY <1>a, <2>1, <3>1 DEF Shaped
    <3>3. jobs' = [jobs EXCEPT ![j] = r]
      BY <2>3 DEF GoTo, Go
    <3> HIDE DEF r
    <3> QED
      BY <1>b, <2>1, <3>1, <3>2, <3>3, ReadTypes
  <2> QED
    BY <1>1, <2>2, <2>3 DEF Group
<1>2. CASE CreateTicket(j)
  <2>1. job.pc = "create" /\ job.route \in Route /\ UNCHANGED <<alerts, paging, pagedFor, active, crashes>>
    BY <1>2, <1>a DEF CreateTicket, At, Shaped
  <2>2. PICK t \in Ticket : /\ tickets' = [tickets EXCEPT ![t] = [status |-> "open", team |-> job.route.team]]
                            /\ Go(j, [job EXCEPT !.pc = "attach", !.ticket = t])
    BY <1>2 DEF CreateTicket
  <2> DEFINE r == [job EXCEPT !.pc = "attach", !.ticket = t]
  <2>3. [status |-> "open", team |-> job.route.team] \in TicketRow
    BY <2>1 DEF TicketRow, Route
  <2>4. tickets' \in [Ticket -> TicketRow]
    BY <1>b, <2>2, <2>3
  <2>5. /\ r \in JobRecord /\ r.pc = "attach" /\ r.ticket = t /\ r.alert = job.alert /\ r.route = job.route
        /\ r.row = job.row /\ r.held = job.held /\ r.op = job.op
    BY <1>a DEF JobRecord, PC
  <2>6. Shaped(r)
    BY <1>a, <2>1, <2>5 DEF Shaped
  <2>7. Hand(r) = Hand(job)
    BY <2>5 DEF Hand
  <2>8. jobs' = [jobs EXCEPT ![j] = r]
    BY <2>2 DEF Go
  <2> HIDE DEF r
  <2> QED
    BY <1>b, <2>1, <2>4, <2>5, <2>6, <2>7, <2>8, ReadTypes
<1>3. ASSUME SetTicket(j), job.pc \in {"join", "attach"}, UNCHANGED <<tickets, paging, pagedFor, active, crashes>>,
             Done(j) \/ (job.pc = "attach" /\ GoTo(j, "page"))
      PROVE  TypeInv'
  <2>1. x \in Alert /\ x \in Hand(job) /\ job.ticket \in Ticket
    BY <1>a, <1>3 DEF Shaped, Hand
  <2> DEFINE row == [alerts[x] EXCEPT !.ticket = job.ticket]
  <2>2. alerts[x] \in AlertRow /\ alerts[x].status # "none" /\ alerts[x].key \in Key
    BY <1>a, <1>b, <2>1 DEF Keyed
  <2>3. row \in AlertRow /\ row.status # "none" /\ row.key \in Key
    BY <2>1, <2>2 DEF AlertRow
  <2>4. alerts' = [alerts EXCEPT ![x] = row]
    BY <1>3 DEF SetTicket, Update
  <2> HIDE DEF row
  <2>5. CASE Done(j)
    <3>1. PICK r \in JobRecord : /\ jobs' = [jobs EXCEPT ![j] = r] /\ Shaped(r)
                                 /\ Hand(r) \subseteq Hand(job) \cup {None, x}
      BY <2>5, DoneTypes
    <3> QED
      BY <1>3, <2>1, <2>3, <2>4, <3>1, WriteTypes
  <2>6. CASE job.pc = "attach" /\ GoTo(j, "page")
    <3> DEFINE r == [job EXCEPT !.pc = "page"]
    <3>1. /\ r \in JobRecord /\ Hand(r) = Hand(job) /\ r.pc = "page" /\ r.ticket = job.ticket /\ r.alert = job.alert
          /\ r.held = job.held /\ r.op = job.op
      BY <1>c, GoToTypes
    <3>2. Shaped(r)
      BY <1>a, <2>6, <3>1 DEF Shaped
    <3>3. jobs' = [jobs EXCEPT ![j] = r] /\ Hand(r) \subseteq Hand(job) \cup {None, x}
      BY <2>6, <3>1 DEF GoTo, Go
    <3> HIDE DEF r
    <3> QED
      BY <1>3, <2>1, <2>3, <2>4, <3>1, <3>2, <3>3, WriteTypes
  <2> QED
    BY <1>3, <2>5, <2>6
<1>4. CASE Join(j)
  BY <1>3, <1>4 DEF Join, At
<1>5. CASE Attach(j)
  BY <1>3, <1>5 DEF Attach, At
<1>6. CASE TriggerPage(j)
  <2>1. job.alert \in Alert /\ job.ticket \in Ticket
    BY <1>6, <1>a DEF TriggerPage, At, Shaped
  <2>2. /\ paging' = paging \cup {job.ticket} /\ pagedFor' = pagedFor \cup {job.alert}
        /\ Done(j) /\ UNCHANGED <<alerts, tickets, active, crashes>>
    BY <1>6 DEF TriggerPage
  <2> QED
    BY <1>b, <2>1, <2>2, DoneKeeps
<1> QED
  BY <1>1, <1>2, <1>4, <1>5, <1>6

\* The steps of a signal that clears, and of the incident it may end.
LEMMA ClearTypes ==
  ASSUME TypeInv, NEW j \in Job, ResolveAlert(j) \/ Count(j) \/ Look(j) \/ CloseTicket(j) \/ SettlePages(j)
  PROVE  TypeInv'
<1> DEFINE job == jobs[j]
           x == job.row.alert
<1>a. job \in JobRecord /\ Shaped(job) /\ (\A a \in Hand(job) : a \in Alert => alerts[a].status # "none")
  BY DEF TypeInv, TypeOK, InUse
<1>b. /\ alerts \in [Alert -> AlertRow] /\ tickets \in [Ticket -> TicketRow] /\ paging \subseteq Ticket
      /\ pagedFor \subseteq Alert /\ Keyed
  BY DEF TypeInv, TypeOK
<1>c. {"count", "look", "close", "settle"} \subseteq PC
  BY DEF PC
<1>1. CASE ResolveAlert(j)
  <2>1. /\ job.pc = "resolve" /\ x \in Alert /\ x \in Hand(job)
        /\ UNCHANGED <<tickets, paging, pagedFor, active, crashes>>
    BY <1>1, <1>a DEF ResolveAlert, At, Shaped, Hand
  <2>2. alerts' = [alerts EXCEPT ![x] = Resolved(alerts[x])]
    BY <1>1 DEF ResolveAlert, Update
  <2>3. alerts[x] \in AlertRow /\ alerts[x].key \in Key
    BY <1>a, <1>b, <2>1 DEF Keyed
  <2>4. Resolved(alerts[x]) \in AlertRow /\ Resolved(alerts[x]).status # "none" /\ Resolved(alerts[x]).key \in Key
    BY <2>3 DEF Resolved, AlertRow
  <2>5. CASE Done(j)
    <3>1. PICK r \in JobRecord : /\ jobs' = [jobs EXCEPT ![j] = r] /\ Shaped(r)
                                 /\ Hand(r) \subseteq Hand(job) \cup {None, x}
      BY <2>5, DoneTypes
    <3> QED
      BY <2>1, <2>2, <2>4, <3>1, WriteTypes
  <2>6. CASE job.row.ticket # None /\ GoTo(j, "count")
    <3> DEFINE r == [job EXCEPT !.pc = "count"]
    <3>1. /\ r \in JobRecord /\ Hand(r) = Hand(job) /\ r.pc = "count" /\ r.row = job.row
          /\ r.held = job.held /\ r.op = job.op
      BY <1>c, GoToTypes
    <3>2. job.row.ticket \in Ticket
      BY <1>a, <2>6 DEF JobRecord, Copy
    <3>3. Shaped(r)
      BY <1>a, <2>1, <3>1, <3>2 DEF Shaped
    <3>4. jobs' = [jobs EXCEPT ![j] = r] /\ Hand(r) \subseteq Hand(job) \cup {None, x}
      BY <2>6, <3>1 DEF GoTo, Go
    <3> HIDE DEF r
    <3> QED
      BY <2>1, <2>2, <2>4, <3>1, <3>3, <3>4, WriteTypes
  <2> QED
    BY <1>1, <2>5, <2>6 DEF ResolveAlert
<1>2. ASSUME NEW pc \in {"look", "close", "settle"}, job.pc \in {"count", "look", "close"}, GoTo(j, pc),
             tickets' \in [Ticket -> TicketRow], UNCHANGED <<alerts, paging, pagedFor, active, crashes>>
      PROVE  TypeInv'
  <2> DEFINE r == [job EXCEPT !.pc = pc]
  <2>1. /\ r \in JobRecord /\ Hand(r) = Hand(job) /\ r.pc = pc /\ r.row = job.row
        /\ r.held = job.held /\ r.op = job.op
    BY <1>c, GoToTypes
  <2>a. job.op = "clear" /\ job.row.ticket \in Ticket /\ job.held = {}
    BY <1>a, <1>2 DEF Shaped
  <2>2. Shaped(r)
    BY <1>2, <2>1, <2>a DEF Shaped
  <2>3. jobs' = [jobs EXCEPT ![j] = r]
    BY <1>2 DEF GoTo, Go
  <2> HIDE DEF r
  <2> QED
    BY <1>b, <1>2, <2>1, <2>2, <2>3, ReadTypes
<1>3. CASE Count(j)
  <2>1. job.pc = "count" /\ UNCHANGED <<alerts, tickets, paging, pagedFor, active, crashes>>
    BY <1>3 DEF Count, At
  <2>2. Done(j) \/ GoTo(j, "look")
    BY <1>3 DEF Count
  <2> QED
    BY <1>2, <1>b, <2>1, <2>2, DoneKeeps
<1>4. CASE Look(j)
  <2>1. job.pc = "look" /\ UNCHANGED <<alerts, tickets, paging, pagedFor, active, crashes>>
    BY <1>4 DEF Look, At
  <2>2. Done(j) \/ GoTo(j, "close")
    BY <1>4 DEF Look
  <2> QED
    BY <1>2, <1>b, <2>1, <2>2, DoneKeeps
<1>5. CASE CloseTicket(j)
  <2>1. job.pc = "close" /\ job.row.ticket \in Ticket /\ UNCHANGED <<alerts, paging, pagedFor, active, crashes>>
    BY <1>5, <1>a DEF CloseTicket, At, Shaped
  <2>2. tickets' \in [Ticket -> TicketRow]
    BY <1>5, <1>b, <2>1 DEF CloseTicket, TicketRow
  <2>3. GoTo(j, "settle")
    BY <1>5 DEF CloseTicket
  <2> QED
    BY <1>2, <2>1, <2>2, <2>3
<1>6. CASE SettlePages(j)
  <2>1. Done(j) /\ paging' = paging \ {job.row.ticket} /\ UNCHANGED <<alerts, tickets, pagedFor, active, crashes>>
    BY <1>6 DEF SettlePages
  <2> QED
    BY <1>b, <2>1, DoneKeeps
<1> QED
  BY <1>1, <1>3, <1>4, <1>5, <1>6

\* The steps of the end of maintenance.
LEMMA ReraiseTypes ==
  ASSUME TypeInv, NEW j \in Job,
         Reraise(j) \/ NextHeld(j) \/ Still(j) \/ Release(j) \/ Ask(j) \/ Requeue(j)
  PROVE  TypeInv'
<1> DEFINE job == jobs[j]
           x == job.row.alert
<1>a. job \in JobRecord /\ Shaped(job) /\ (\A a \in Hand(job) : a \in Alert => alerts[a].status # "none")
  BY DEF TypeInv, TypeOK, InUse
<1>b. /\ alerts \in [Alert -> AlertRow] /\ tickets \in [Ticket -> TicketRow] /\ paging \subseteq Ticket
      /\ pagedFor \subseteq Alert /\ active \subseteq Window /\ Keyed
  BY DEF TypeInv, TypeOK
<1>c. {"still", "release", "requeue", "ask"} \subseteq PC
  BY DEF PC
<1>d. x \in Alert => alerts[x] \in AlertRow /\ alerts[x].status # "none" /\ alerts[x].key \in Key /\ x \in Hand(job)
  BY <1>a, <1>b DEF Keyed, Hand
<1>1. CASE Reraise(j)
  <2>1. PICK w \in Window \ active :
          Go(j, [Idle EXCEPT !.op = "reraise", !.pc = "next",
                   !.held = {[alert |-> a, ticket |-> alerts[a].ticket] : a \in HeldBy(w)}])
    BY <1>1 DEF Reraise
  <2> DEFINE copies == {[alert |-> a, ticket |-> alerts[a].ticket] : a \in HeldBy(w)}
             r == [Idle EXCEPT !.op = "reraise", !.pc = "next", !.held = copies]
  <2>2. \A a \in HeldBy(w) : a \in Alert /\ alerts[a].status = "firing" /\ alerts[a].ticket \in Ticket \cup {None}
    BY <1>b DEF HeldBy, Firing, AlertRow
  <2>3. copies \in SUBSET Copy /\ \A c \in copies : c.alert \in Alert /\ alerts[c.alert].status = "firing"
    BY <2>2 DEF Copy
  <2> HIDE DEF copies
  <2>4. Idle \in JobRecord /\ Idle.row.alert = None /\ Idle.alert = None
    BY DEF JobRecord, Idle, Nothing, Copy, PC, Op
  <2>5. /\ r \in JobRecord /\ r.pc = "next" /\ r.op = "reraise" /\ r.held = copies
        /\ r.row.alert = None /\ r.alert = None
    BY <2>3, <2>4 DEF JobRecord, PC, Op
  <2>6. Shaped(r)
    BY <2>3, <2>5 DEF Shaped
  <2>7. \A a \in Hand(r) : a \in Hand(job) \cup {None} \/ alerts[a].status # "none"
    BY <2>3, <2>5 DEF Hand
  <2>8. jobs' = [jobs EXCEPT ![j] = r]
    BY <2>1 DEF Go, copies
  <2> HIDE DEF r
  <2> QED
    BY <1>1, <1>b, <2>5, <2>6, <2>7, <2>8, ReadTypes DEF Reraise
<1>2. CASE NextHeld(j)
  <2>1. job.pc = "next" /\ job.op = "reraise" /\ UNCHANGED <<alerts, tickets, paging, pagedFor, active, crashes>>
    BY <1>2, <1>a DEF NextHeld, At, Shaped
  <2>2. CASE Go(j, Idle)
    <3>1. Idle \in JobRecord /\ Shaped(Idle) /\ Hand(Idle) = {None}
      BY DEF JobRecord, Shaped, Hand, Idle, Nothing, Copy, PC, Op
    <3>2. jobs' = [jobs EXCEPT ![j] = Idle]
      BY <2>2 DEF Go
    <3> QED
      BY <1>b, <2>1, <3>1, <3>2, ReadTypes
  <2>3. ASSUME NEW row \in job.held, Go(j, [job EXCEPT !.pc = "still", !.row = row, !.held = @ \ {row}])
        PROVE  TypeInv'
    <3> DEFINE r == [job EXCEPT !.pc = "still", !.row = row, !.held = @ \ {row}]
    <3>1. row \in Copy /\ row.alert \in Alert /\ job.held \ {row} \in SUBSET Copy
      BY <1>a DEF JobRecord, Shaped
    <3>2. /\ r \in JobRecord /\ r.pc = "still" /\ r.row = row /\ r.held = job.held \ {row}
          /\ r.op = job.op /\ r.alert = job.alert
      BY <1>a, <3>1 DEF JobRecord, PC
    <3>3. Shaped(r)
      BY <1>a, <2>1, <3>1, <3>2 DEF Shaped
    <3>4. Hand(r) \subseteq Hand(job)
      BY <3>2 DEF Hand
    <3>5. jobs' = [jobs EXCEPT ![j] = r]
      BY <2>3 DEF Go
    <3> HIDE DEF r
    <3> QED
      BY <1>b, <2>1, <3>2, <3>3, <3>4, <3>5, ReadTypes
  <2> QED
    BY <1>2, <2>2, <2>3 DEF NextHeld
<1>3. CASE Still(j)
  <2>1. job.pc = "still" /\ job.op = "reraise" /\ x \in Alert /\ UNCHANGED <<tickets, paging, pagedFor, active, crashes>>
    BY <1>3, <1>a DEF Still, At, Shaped
  <2>2. ASSUME NEW w \in Coverage \ {None}, Update(x, [alerts[x] EXCEPT !.window = w]), Done(j) PROVE TypeInv'
    <3> DEFINE row == [alerts[x] EXCEPT !.window = w]
    <3>1. w \in Window
      BY <1>b, <2>2 DEF Coverage
    <3>2. row \in AlertRow /\ row.status # "none" /\ row.key \in Key
      BY <1>d, <2>1, <3>1 DEF AlertRow
    <3>3. alerts' = [alerts EXCEPT ![x] = row]
      BY <2>2 DEF Update
    <3>4. PICK r \in JobRecord : /\ jobs' = [jobs EXCEPT ![j] = r] /\ Shaped(r)
                                 /\ Hand(r) \subseteq Hand(job) \cup {None, x}
      BY <2>2, DoneTypes
    <3> HIDE DEF row
    <3> QED
      BY <2>1, <3>2, <3>3, <3>4, WriteTypes
  <2>3. ASSUME NEW pc \in {"release", "requeue"}, pc = "release" => job.row.ticket # None, GoTo(j, pc), UNCHANGED alerts
        PROVE  TypeInv'
    <3> DEFINE r == [job EXCEPT !.pc = pc]
    <3>1. /\ r \in JobRecord /\ Hand(r) = Hand(job) /\ r.pc = pc /\ r.row = job.row
          /\ r.held = job.held /\ r.op = job.op
      BY <1>c, GoToTypes
    <3>2. pc = "release" => job.row.ticket \in Ticket
      BY <1>a, <2>3 DEF JobRecord, Copy
    <3>3. Shaped(r)
      BY <1>a, <2>1, <2>3, <3>1, <3>2 DEF Shaped
    <3>4. jobs' = [jobs EXCEPT ![j] = r]
      BY <2>3 DEF GoTo, Go
    <3> HIDE DEF r
    <3> QED
      BY <1>b, <2>1, <2>3, <3>1, <3>3, <3>4, ReadTypes
  <2> QED
    BY <1>3, <2>2, <2>3 DEF Still
<1>4. CASE Release(j)
  <2>1. /\ job.pc = "release" /\ x \in Alert /\ UNCHANGED <<tickets, paging, pagedFor, active, crashes>>
        /\ GoTo(j, "ask") /\ Update(x, [alerts[x] EXCEPT !.window = None])
    BY <1>4, <1>a DEF Release, At, Shaped
  <2> DEFINE row == [alerts[x] EXCEPT !.window = None]
             r == [job EXCEPT !.pc = "ask"]
  <2>2. row \in AlertRow /\ row.status # "none" /\ row.key \in Key
    BY <1>d, <2>1 DEF AlertRow
  <2>3. alerts' = [alerts EXCEPT ![x] = row]
    BY <2>1 DEF Update
  <2>4. /\ r \in JobRecord /\ Hand(r) = Hand(job) /\ r.pc = "ask" /\ r.row = job.row
        /\ r.held = job.held /\ r.op = job.op
    BY <1>c, GoToTypes
  <2>5. Shaped(r)
    BY <1>a, <2>1, <2>4 DEF Shaped
  <2>6. jobs' = [jobs EXCEPT ![j] = r] /\ Hand(r) \subseteq Hand(job) \cup {None, x}
    BY <2>1, <2>4 DEF GoTo, Go
  <2> HIDE DEF r, row
  <2> QED
    BY <2>1, <2>2, <2>3, <2>4, <2>5, <2>6, WriteTypes
<1>5. CASE Ask(j)
  <2>1. /\ job.pc = "ask" /\ x \in Alert /\ job.row.ticket \in Ticket
        /\ UNCHANGED <<alerts, tickets, paging, pagedFor, active, crashes>>
    BY <1>5, <1>a DEF Ask, At, Shaped
  <2>2. CASE Go(j, [job EXCEPT !.pc = "page", !.alert = x, !.ticket = job.row.ticket])
    <3> DEFINE r == [job EXCEPT !.pc = "page", !.alert = x, !.ticket = job.row.ticket]
    <3>1. /\ r \in JobRecord /\ r.pc = "page" /\ r.alert = x /\ r.ticket = job.row.ticket
          /\ r.row = job.row /\ r.held = job.held /\ r.op = job.op
      BY <1>a, <2>1 DEF JobRecord, PC
    <3>2. Shaped(r)
      BY <1>a, <2>1, <3>1 DEF Shaped
    <3>3. Hand(r) \subseteq Hand(job)
      BY <3>1 DEF Hand
    <3>4. jobs' = [jobs EXCEPT ![j] = r]
      BY <2>2 DEF Go
    <3> HIDE DEF r
    <3> QED
      BY <1>b, <2>1, <3>1, <3>2, <3>3, <3>4, ReadTypes
  <2>3. CASE Done(j)
    BY <1>b, <2>1, <2>3, DoneKeeps
  <2> QED
    BY <1>5, <2>2, <2>3 DEF Ask
<1>6. CASE Requeue(j)
  <2>1. job.pc = "requeue" /\ x \in Alert /\ UNCHANGED <<tickets, paging, pagedFor, active, crashes>>
    BY <1>6, <1>a DEF Requeue, At, Shaped
  <2> DEFINE row == [Resolved(alerts[x]) EXCEPT !.window = None]
             r == [job EXCEPT !.pc = "lookup", !.key = alerts[x].key, !.row = Nothing]
  <2>2. row \in AlertRow /\ row.status # "none" /\ row.key \in Key
    BY <1>d, <2>1 DEF AlertRow, Resolved
  <2>3. alerts' = [alerts EXCEPT ![x] = row]
    BY <1>6 DEF Requeue, Update
  <2>4. alerts[x].key \in Key /\ Nothing \in Copy /\ Nothing.alert = None
    BY <1>d, <2>1 DEF Nothing, Copy
  <2>5. /\ r \in JobRecord /\ r.pc = "lookup" /\ r.key = alerts[x].key /\ r.row = Nothing
        /\ r.held = job.held /\ r.op = job.op /\ r.alert = job.alert
    BY <1>a, <2>4 DEF JobRecord, PC
  <2>6. Shaped(r)
    BY <1>a, <2>1, <2>4, <2>5 DEF Shaped
  <2>7. Hand(r) \subseteq Hand(job) \cup {None, x}
    BY <2>4, <2>5 DEF Hand
  <2>8. jobs' = [jobs EXCEPT ![j] = r]
    BY <1>6 DEF Requeue, Go
  <2> HIDE DEF r, row
  <2> QED
    BY <2>1, <2>2, <2>3, <2>5, <2>6, <2>7, <2>8, WriteTypes
<1> QED
  BY <1>1, <1>2, <1>3, <1>4, <1>5, <1>6

\* People, windows, the pager, a crash, and rows that become history.
LEMMA EnvironmentTypes ==
  ASSUME TypeInv,
         \/ \E w \in Window : WindowStarts(w) \/ WindowEnds(w)
         \/ \E t \in Ticket : EditTicket(t) \/ PageStops(t) \/ ForgetTicket(t)
         \/ \E a \in Alert : ForgetAlert(a)
         \/ \E j \in Job : Crash(j)
         \/ UNCHANGED vars
  PROVE  TypeInv'
<1>1. ASSUME UNCHANGED <<alerts, jobs, pagedFor, crashes>>, tickets' \in [Ticket -> TicketRow],
             paging' \subseteq Ticket, active' \subseteq Window
      PROVE  TypeInv'
  BY <1>1 DEF TypeInv, TypeOK, Keyed, InUse
<1>b. /\ tickets \in [Ticket -> TicketRow] /\ paging \subseteq Ticket /\ active \subseteq Window
      /\ alerts \in [Alert -> AlertRow]
  BY DEF TypeInv, TypeOK
<1>2. ASSUME NEW w \in Window, WindowStarts(w) \/ WindowEnds(w) PROVE TypeInv'
  BY <1>1, <1>2, <1>b DEF WindowStarts, WindowEnds
<1>3. ASSUME NEW t \in Ticket, EditTicket(t) PROVE TypeInv'
  <2>1. tickets' \in [Ticket -> TicketRow]
    BY <1>3, <1>b DEF EditTicket, TicketRow
  <2> QED
    BY <1>1, <1>3, <1>b, <2>1 DEF EditTicket
<1>4. ASSUME NEW t \in Ticket, PageStops(t) PROVE TypeInv'
  BY <1>1, <1>4, <1>b DEF PageStops
<1>5. ASSUME NEW t \in Ticket, ForgetTicket(t) PROVE TypeInv'
  <2>1. tickets' \in [Ticket -> TicketRow]
    BY <1>5, <1>b DEF ForgetTicket, TicketRow, NoTicket
  <2> QED
    BY <1>1, <1>5, <1>b, <2>1 DEF ForgetTicket
<1>6. ASSUME NEW a \in Alert, ForgetAlert(a) PROVE TypeInv'
  <2>1. alerts' = [alerts EXCEPT ![a] = NoAlert] /\ UNCHANGED <<tickets, paging, active, jobs, crashes>>
    BY <1>6 DEF ForgetAlert
  <2>2. NoAlert \in AlertRow /\ NoAlert.status = "none"
    BY DEF NoAlert, AlertRow
  <2>3. alerts' \in [Alert -> AlertRow] /\ \A b \in Alert : alerts'[b] = IF b = a THEN NoAlert ELSE alerts[b]
    BY <1>b, <2>1, <2>2
  <2>4. ASSUME NEW j \in Job PROVE a \notin Hand(jobs[j])
    <3>1. \A copy \in InHand(j) : copy.alert # a
      BY <1>6 DEF ForgetAlert
    <3>2. jobs[j].row.alert # a /\ \A c \in jobs[j].held : c.alert # a
      BY <3>1 DEF InHand
    <3>3. [alert |-> jobs[j].alert, ticket |-> jobs[j].ticket].alert # a
      BY <3>1 DEF InHand
    <3> QED
      BY <3>2, <3>3 DEF Hand
  <2>5. Keyed' /\ InUse'
    BY <2>1, <2>2, <2>3, <2>4 DEF TypeInv, Keyed, InUse
  <2>6. pagedFor' \subseteq Alert
    BY <1>6 DEF ForgetAlert, TypeInv, TypeOK
  <2> QED
    BY <2>1, <2>3, <2>5, <2>6 DEF TypeInv, TypeOK
<1>7. ASSUME NEW j \in Job, Crash(j) PROVE TypeInv'
  <2>1. Idle \in JobRecord /\ Shaped(Idle) /\ Hand(Idle) = {None}
    BY DEF JobRecord, Shaped, Hand, Idle, Nothing, Copy, PC, Op
  <2>2. jobs' = [jobs EXCEPT ![j] = Idle] /\ UNCHANGED <<alerts, tickets, paging, pagedFor, active>>
    BY <1>7 DEF Crash, Go
  <2>3. crashes' \in 0 .. MaxCrashes
    BY <1>7, JobAssumption DEF Crash, TypeInv, TypeOK
  <2>4. \A a \in Hand(Idle) : a \in Alert => alerts'[a].status # "none"
    BY <2>1, NoneIsNone
  <2>5. Keyed' /\ pagedFor' \subseteq Alert
    BY <2>2 DEF TypeInv, TypeOK, Keyed
  <2> QED
    BY <1>b, <2>1, <2>2, <2>3, <2>4, <2>5, CarriedTypes
<1>8. CASE UNCHANGED vars
  BY <1>1, <1>8, <1>b DEF vars
<1> QED
  BY <1>2, <1>3, <1>4, <1>5, <1>6, <1>7, <1>8

\* Every step keeps the types.
LEMMA NextTypes == TypeInv /\ [Next]_vars => TypeInv'
BY IngestTypes, IncidentTypes, ClearTypes, ReraiseTypes, EnvironmentTypes
   DEF Next, Undisturbed, JobStart, JobStep

\* Every reachable state of the alert pipeline is well typed, and each handler
\* knows what its next statement needs.
THEOREM TypeCorrect == Spec => []TypeInv
BY InitTypes, NextTypes, PTL DEF Spec

-----------------------------------------------------------------------------
(* HeldNotPaged and OneAlertPerKey.                                        *)

\* One process runs maintenanceTick (the leader of module OpsRunner).
OneReraiser == \A i, j \in Job : "reraise" \in May[i] /\ "reraise" \in May[j] => i = j

\* Handlers do not overlap.
OneHandler == \A i, j \in Job : i = j

\* What the end of maintenance still has to do is held, each alert once.
HeldPart(job, rows) ==
  /\ \A c \in job.held : rows[c.alert].window # None
  /\ \A c, d \in job.held : c.alert = d.alert => c = d

\* What a handler works on is held until it is released, and not held when it
\* is going to be paged for.
StepPart(job, rows) ==
  /\ job.pc \in {"still", "release", "requeue"} =>
       rows[job.row.alert].window # None /\ \A c \in job.held : c.alert # job.row.alert
  /\ job.pc = "ask" => rows[job.row.alert].window = None
  /\ job.pc \in {"group", "create", "attach"} /\ job.cover = None => rows[job.alert].window = None
  /\ job.pc = "page" => rows[job.alert].window = None

\* Only the handlers that may end maintenance do.
Allowed == \A j \in Job : jobs[j].op = "reraise" => "reraise" \in May[j]

\* Paged for, and so in use and not held.
Paged == \A a \in pagedFor : alerts[a].window = None /\ alerts[a].status # "none"

HeldInv ==
  /\ Allowed /\ Paged
  /\ \A j \in Job : HeldPart(jobs[j], alerts) /\ StepPart(jobs[j], alerts)
-----------------------------------------------------------------------------
(* HeldNotPaged. *)

\* Nothing is held or paged for at first.
LEMMA InitHeld == Init => HeldInv
BY DEF Init, HeldInv, Allowed, Paged, HeldPart, StepPart, Idle

\* A step of one handler keeps the invariant if its own new record is sound,
\* nothing that was not held becomes held, and what was held stays held unless
\* the handler is the one that ends maintenance.
LEMMA CarriedHeld ==
  ASSUME OneReraiser, TypeInv, HeldInv, NEW j \in Job, NEW r, jobs' = [jobs EXCEPT ![j] = r],
         r.op = "reraise" => "reraise" \in May[j],
         HeldPart(r, alerts'), StepPart(r, alerts'),
         \A a \in Alert : alerts[a].status # "none" =>
           /\ alerts'[a].status # "none"
           /\ alerts[a].window = None => alerts'[a].window = None
           /\ "reraise" \notin May[j] /\ alerts[a].window # None => alerts'[a].window # None,
         \A a \in pagedFor' : a \in pagedFor \/ (alerts'[a].window = None /\ alerts'[a].status # "none")
  PROVE  HeldInv'
<1>1. \A i \in Job : jobs'[i] = IF i = j THEN r ELSE jobs[i]
  BY DEF TypeInv, TypeOK
<1>2. Allowed'
  BY <1>1 DEF HeldInv, Allowed
<1>3. Paged'
  <2> SUFFICES ASSUME NEW a \in pagedFor', a \in pagedFor PROVE alerts'[a].window = None /\ alerts'[a].status # "none"
    BY DEF Paged
  <2>1. a \in Alert /\ alerts[a].window = None /\ alerts[a].status # "none"
    BY DEF HeldInv, Paged, TypeInv, TypeOK
  <2> QED
    BY <2>1
<1>4. ASSUME NEW i \in Job, i # j
      PROVE  HeldPart(jobs[i], alerts') /\ StepPart(jobs[i], alerts')
  <2>1. HeldPart(jobs[i], alerts) /\ StepPart(jobs[i], alerts) /\ Shaped(jobs[i])
    BY DEF HeldInv, TypeInv
  <2>2. \A a \in Hand(jobs[i]) : a \in Alert =>
          /\ alerts[a].window = None => alerts'[a].window = None
          /\ "reraise" \notin May[j] /\ alerts[a].window # None => alerts'[a].window # None
    BY DEF TypeInv, InUse
  <2>3. jobs[i].op = "reraise" => "reraise" \notin May[j]
    BY <1>4 DEF HeldInv, Allowed, OneReraiser
  <2>4. \A c \in jobs[i].held : c.alert \in Hand(jobs[i]) /\ c.alert \in Alert /\ jobs[i].op = "reraise"
    BY <2>1 DEF Hand, Shaped
  <2>5. HeldPart(jobs[i], alerts')
    BY <2>1, <2>2, <2>3, <2>4 DEF HeldPart
  <2>6. jobs[i].row.alert \in Hand(jobs[i]) /\ jobs[i].alert \in Hand(jobs[i])
    BY DEF Hand
  <2>7. StepPart(jobs[i], alerts')
    BY <2>1, <2>2, <2>3, <2>6 DEF StepPart, Shaped
  <2> QED
    BY <2>5, <2>7
<1>5. \A i \in Job : HeldPart(jobs'[i], alerts') /\ StepPart(jobs'[i], alerts')
  BY <1>1, <1>4
<1> QED
  BY <1>2, <1>3, <1>5 DEF HeldInv

\* Most steps leave every window as it is, and take nothing new to be raised.
LEMMA PlainHeld ==
  ASSUME OneReraiser, TypeInv, HeldInv, NEW j \in Job, NEW r, jobs' = [jobs EXCEPT ![j] = r],
         r.op = "reraise" => jobs[j].op = "reraise",
         r.held \subseteq jobs[j].held, StepPart(r, alerts'),
         \A a \in Alert : alerts[a].status # "none" =>
           alerts'[a].status # "none" /\ alerts'[a].window = alerts[a].window,
         \A a \in pagedFor' : a \in pagedFor \/ (alerts'[a].window = None /\ alerts'[a].status # "none")
  PROVE  HeldInv'
<1>1. r.op = "reraise" => "reraise" \in May[j]
  BY DEF HeldInv, Allowed
<1>2. HeldPart(jobs[j], alerts) /\ Shaped(jobs[j]) /\ \A a \in Hand(jobs[j]) : a \in Alert => alerts[a].status # "none"
  BY DEF HeldInv, TypeInv, InUse
<1>3. \A c \in jobs[j].held : c.alert \in Alert /\ alerts[c.alert].status # "none"
  BY <1>2 DEF Shaped, Hand
<1>4. HeldPart(r, alerts')
  BY <1>2, <1>3 DEF HeldPart
<1> QED
  BY <1>1, <1>4, CarriedHeld

\* A handler that is done takes nothing along but what is left to be raised.
LEMMA DoneHeld ==
  ASSUME OneReraiser, TypeInv, HeldInv, NEW j \in Job, Done(j),
         \A a \in Alert : alerts[a].status # "none" =>
           alerts'[a].status # "none" /\ alerts'[a].window = alerts[a].window,
         \A a \in pagedFor' : a \in pagedFor \/ (alerts'[a].window = None /\ alerts'[a].status # "none")
  PROVE  HeldInv'
<1>1. PICK r \in JobRecord : /\ jobs' = [jobs EXCEPT ![j] = r]
                             /\ r.held = jobs[j].held /\ r.op \in {"none", jobs[j].op}
                             /\ r.pc \in {"idle", "next"}
  BY DoneTypes
<1>2. StepPart(r, alerts')
  BY <1>1 DEF StepPart
<1> QED
  BY <1>1, <1>2, PlainHeld

\* Signals come in, are looked up and routed.
LEMMA IngestHeld ==
  ASSUME OneReraiser, TypeInv, HeldInv, NEW j \in Job,
         Fire(j) \/ Clear(j) \/ Lookup(j) \/ Check(j) \/ End(j) \/ Insert(j)
  PROVE  HeldInv'
<1> DEFINE job == jobs[j]
<1>a. job \in JobRecord /\ Shaped(job) /\ alerts \in [Alert -> AlertRow] /\ StepPart(job, alerts)
  BY DEF TypeInv, TypeOK, HeldInv
<1>1. ASSUME NEW op \in {"fire", "clear"}, Receive(j, op) PROVE HeldInv'
  <2>1. PICK k \in Key : jobs' = [jobs EXCEPT ![j] = [Idle EXCEPT !.op = op, !.pc = "lookup", !.key = k]]
    BY <1>1 DEF Receive, Go
  <2> DEFINE r == [Idle EXCEPT !.op = op, !.pc = "lookup", !.key = k]
  <2>2. r.op = op /\ r.pc = "lookup" /\ r.held = {}
    BY DEF Idle
  <2>3. StepPart(r, alerts')
    BY <2>2 DEF StepPart
  <2> HIDE DEF r
  <2> QED
    BY <1>1, <2>1, <2>2, <2>3, PlainHeld DEF Receive, r
<1>2. ASSUME TakeRoute(j), job.pc \in {"lookup", "end"}, UNCHANGED pagedFor,
             \A a \in Alert : alerts[a].status # "none" =>
               alerts'[a].status # "none" /\ alerts'[a].window = alerts[a].window
      PROVE  HeldInv'
  <2>1. job.key \in Key
    BY <1>a, <1>2 DEF Shaped
  <2>2. PICK r \in JobRecord : /\ jobs' = [jobs EXCEPT ![j] = r]
                               /\ r.held = job.held /\ r.op \in {"none", job.op}
                               /\ r.pc \in {"idle", "next", "insert"}
    BY <1>2, <2>1, RouteTypes
  <2>3. StepPart(r, alerts')
    BY <2>2 DEF StepPart
  <2> QED
    BY <1>2, <2>2, <2>3, PlainHeld
<1>3. CASE Lookup(j)
  <2>1. job.pc = "lookup" /\ UNCHANGED <<alerts, pagedFor>>
    BY <1>3 DEF Lookup, At
  <2>2. ASSUME NEW a, NEW pc \in {"resolve", "check"},
               Go(j, [[job EXCEPT !.row = [alert |-> a, ticket |-> alerts[a].ticket]] EXCEPT !.pc = pc])
        PROVE  HeldInv'
    <3> DEFINE r == [[job EXCEPT !.row = [alert |-> a, ticket |-> alerts[a].ticket]] EXCEPT !.pc = pc]
    <3>1. r.pc = pc /\ r.op = job.op /\ r.held = job.held
      BY <1>a, <2>2 DEF JobRecord
    <3>2. StepPart(r, alerts')
      BY <2>2, <3>1 DEF StepPart
    <3>3. jobs' = [jobs EXCEPT ![j] = r]
      BY <2>2 DEF Go
    <3> HIDE DEF r
    <3> QED
      BY <2>1, <3>1, <3>2, <3>3, PlainHeld
  <2> QED
    BY <1>2, <1>3, <2>1, <2>2, DoneHeld DEF Lookup
<1>4. CASE Check(j)
  <2>1. UNCHANGED <<alerts, pagedFor>>
    BY <1>4 DEF Check
  <2>2. CASE GoTo(j, "end")
    <3> DEFINE r == [job EXCEPT !.pc = "end"]
    <3>1. r.pc = "end" /\ r.op = job.op /\ r.held = job.held
      BY <1>a DEF JobRecord
    <3>2. StepPart(r, alerts')
      BY <3>1 DEF StepPart
    <3>3. jobs' = [jobs EXCEPT ![j] = r]
      BY <2>2 DEF GoTo, Go
    <3> HIDE DEF r
    <3> QED
      BY <2>1, <3>1, <3>2, <3>3, PlainHeld
  <2> QED
    BY <1>4, <2>1, <2>2, DoneHeld DEF Check
<1>5. CASE End(j)
  <2>1. job.pc = "end" /\ UNCHANGED pagedFor /\ TakeRoute(j)
    BY <1>5 DEF End, At
  <2>2. alerts' = [alerts EXCEPT ![job.row.alert] = Resolved(alerts[job.row.alert])]
    BY <1>5 DEF End, Update
  <2>3. \A a \in Alert : alerts[a].status # "none" =>
               alerts'[a].status # "none" /\ alerts'[a].window = alerts[a].window
    BY <1>a, <2>2 DEF Resolved, AlertRow
  <2> QED
    BY <1>2, <2>1, <2>3
<1>6. CASE Insert(j)
  <2>1. PICK a \in Alert, w \in Coverage :
          /\ alerts[a].status = "none"
          /\ Update(a, [status |-> "firing", key |-> job.key, ticket |-> None, window |-> w,
                        quiet |-> job.route.quiet, severe |-> job.route.severe])
          /\ IF Held(w) THEN Done(j) ELSE Go(j, [job EXCEPT !.pc = "group", !.alert = a, !.cover = w])
    BY <1>6 DEF Insert
  <2>2. /\ alerts'[a].window = w
        /\ \A b \in Alert : b # a => alerts'[b] = alerts[b]
        /\ UNCHANGED pagedFor
    BY <1>6, <1>a, <2>1 DEF Update, Insert
  <2>3. \A b \in Alert : alerts[b].status # "none" =>
               alerts'[b].status # "none" /\ alerts'[b].window = alerts[b].window
    BY <2>1, <2>2
  <2>4. CASE Go(j, [job EXCEPT !.pc = "group", !.alert = a, !.cover = w])
    <3> DEFINE r == [job EXCEPT !.pc = "group", !.alert = a, !.cover = w]
    <3>1. r.pc = "group" /\ r.alert = a /\ r.cover = w /\ r.op = job.op /\ r.held = job.held
      BY <1>a DEF JobRecord
    <3>2. StepPart(r, alerts')
      BY <2>2, <3>1 DEF StepPart
    <3>3. jobs' = [jobs EXCEPT ![j] = r]
      BY <2>4 DEF Go
    <3> HIDE DEF r
    <3> QED
      BY <2>2, <2>3, <3>1, <3>2, <3>3, PlainHeld
  <2> QED
    BY <2>1, <2>2, <2>3, <2>4, DoneHeld
<1> QED
  BY <1>1, <1>3, <1>4, <1>5, <1>6 DEF Fire, Clear

\* An alert is paged for as it was recorded, under no window.
LEMMA IncidentHeld ==
  ASSUME OneReraiser, TypeInv, HeldInv, NEW j \in Job,
         Group(j) \/ Join(j) \/ CreateTicket(j) \/ Attach(j) \/ TriggerPage(j)
  PROVE  HeldInv'
<1> DEFINE job == jobs[j]
<1>a. job \in JobRecord /\ Shaped(job) /\ alerts \in [Alert -> AlertRow] /\ StepPart(job, alerts)
  BY DEF TypeInv, TypeOK, HeldInv
<1>1. ASSUME NEW t, NEW pc \in {"join", "attach"}, job.pc = "group" \/ job.pc = "create",
             Go(j, [job EXCEPT !.pc = pc, !.ticket = t]), UNCHANGED <<alerts, pagedFor>>
      PROVE  HeldInv'
  <2> DEFINE r == [job EXCEPT !.pc = pc, !.ticket = t]
  <2>1. r.pc = pc /\ r.alert = job.alert /\ r.cover = job.cover /\ r.op = job.op /\ r.held = job.held
    BY <1>a DEF JobRecord
  <2>2. StepPart(r, alerts')
    BY <1>1, <1>a, <2>1 DEF StepPart
  <2>3. jobs' = [jobs EXCEPT ![j] = r]
    BY <1>1 DEF Go
  <2> HIDE DEF r
  <2> QED
    BY <1>1, <2>1, <2>2, <2>3, PlainHeld
<1>2. CASE Group(j)
  <2>1. job.pc = "group" /\ UNCHANGED <<alerts, pagedFor>>
    BY <1>2 DEF Group, At
  <2>2. CASE GoTo(j, "create")
    <3> DEFINE r == [job EXCEPT !.pc = "create"]
    <3>1. r.pc = "create" /\ r.alert = job.alert /\ r.cover = job.cover /\ r.op = job.op /\ r.held = job.held
      BY <1>a DEF JobRecord
    <3>2. StepPart(r, alerts')
      BY <1>a, <2>1, <3>1 DEF StepPart
    <3>3. jobs' = [jobs EXCEPT ![j] = r]
      BY <2>2 DEF GoTo, Go
    <3> HIDE DEF r
    <3> QED
      BY <2>1, <3>1, <3>2, <3>3, PlainHeld
  <2> QED
    BY <1>1, <1>2, <2>1, <2>2 DEF Group
<1>3. CASE CreateTicket(j)
  BY <1>1, <1>3 DEF CreateTicket, At
<1>4. ASSUME SetTicket(j)
      PROVE  \A a \in Alert : alerts[a].status # "none" =>
               alerts'[a].status # "none" /\ alerts'[a].window = alerts[a].window
  BY <1>4, <1>a DEF SetTicket, Update, AlertRow
<1>5. CASE Join(j)
  BY <1>4, <1>5, DoneHeld DEF Join
<1>6. CASE Attach(j)
  <2>1. job.pc = "attach" /\ SetTicket(j) /\ UNCHANGED pagedFor /\ job.alert \in Alert
    BY <1>6, <1>a DEF Attach, At, Shaped
  <2>2. CASE Pages(job) /\ GoTo(j, "page")
    <3> DEFINE r == [job EXCEPT !.pc = "page"]
    <3>1. r.pc = "page" /\ r.alert = job.alert /\ r.op = job.op /\ r.held = job.held
      BY <1>a DEF JobRecord
    <3>2. alerts[job.alert].window = None /\ alerts[job.alert].status # "none"
      BY <1>a, <2>1, <2>2 DEF Pages, StepPart, TypeInv, InUse, Hand
    <3>3. StepPart(r, alerts')
      BY <1>4, <2>1, <3>1, <3>2 DEF StepPart
    <3>4. jobs' = [jobs EXCEPT ![j] = r]
      BY <2>2 DEF GoTo, Go
    <3> HIDE DEF r
    <3> QED
      BY <1>4, <2>1, <3>1, <3>3, <3>4, PlainHeld
  <2> QED
    BY <1>4, <1>6, <2>1, <2>2, DoneHeld DEF Attach
<1>7. CASE TriggerPage(j)
  <2>1. job.pc = "page" /\ Done(j) /\ pagedFor' = pagedFor \cup {job.alert} /\ UNCHANGED alerts
    BY <1>7 DEF TriggerPage, At
  <2>2. alerts[job.alert].window = None /\ alerts[job.alert].status # "none"
    BY <1>a, <2>1 DEF StepPart, Shaped, TypeInv, InUse, Hand
  <2> QED
    BY <2>1, <2>2, DoneHeld
<1> QED
  BY <1>2, <1>3, <1>5, <1>6, <1>7

\* A problem that clears leaves windows alone.
LEMMA ClearHeld ==
  ASSUME OneReraiser, TypeInv, HeldInv, NEW j \in Job,
         ResolveAlert(j) \/ Count(j) \/ Look(j) \/ CloseTicket(j) \/ SettlePages(j)
  PROVE  HeldInv'
<1> DEFINE job == jobs[j]
<1>a. job \in JobRecord /\ alerts \in [Alert -> AlertRow]
  BY DEF TypeInv, TypeOK
<1>1. \A a \in Alert : alerts[a].status # "none" =>
               alerts'[a].status # "none" /\ alerts'[a].window = alerts[a].window
  <2>1. CASE ResolveAlert(j)
    BY <2>1, <1>a DEF ResolveAlert, Update, Resolved, AlertRow
  <2>2. CASE Count(j) \/ Look(j) \/ CloseTicket(j) \/ SettlePages(j)
    BY <2>2 DEF Count, Look, CloseTicket, SettlePages
  <2> QED
    BY <2>1, <2>2
<1>2. UNCHANGED pagedFor
  BY DEF ResolveAlert, Count, Look, CloseTicket, SettlePages
<1>3. ASSUME NEW pc \in {"count", "look", "close", "settle"}, GoTo(j, pc) PROVE HeldInv'
  <2> DEFINE r == [job EXCEPT !.pc = pc]
  <2>1. r.pc = pc /\ r.op = job.op /\ r.held = job.held
    BY <1>a DEF JobRecord
  <2>2. StepPart(r, alerts')
    BY <1>3, <2>1 DEF StepPart
  <2>3. jobs' = [jobs EXCEPT ![j] = r]
    BY <1>3 DEF GoTo, Go
  <2> HIDE DEF r
  <2> QED
    BY <1>1, <1>2, <2>1, <2>2, <2>3, PlainHeld
<1>4. Done(j) \/ \E pc \in {"count", "look", "close", "settle"} : GoTo(j, pc)
  BY DEF ResolveAlert, Count, Look, CloseTicket, SettlePages
<1> QED
  BY <1>1, <1>2, <1>3, <1>4, DoneHeld

\* The end of maintenance: what a window held is released one by one.
LEMMA ReraiseHeld ==
  ASSUME OneReraiser, TypeInv, HeldInv, NEW j \in Job,
         Reraise(j) \/ NextHeld(j) \/ Still(j) \/ Release(j) \/ Ask(j) \/ Requeue(j)
  PROVE  HeldInv'
<1> DEFINE job == jobs[j]
           x == job.row.alert
<1>a. /\ job \in JobRecord /\ Shaped(job) /\ alerts \in [Alert -> AlertRow]
      /\ StepPart(job, alerts) /\ HeldPart(job, alerts)
      /\ job.op = "reraise" => "reraise" \in May[j]
  BY DEF TypeInv, TypeOK, HeldInv, Allowed
<1>b. x \in Alert => alerts[x].status # "none"
  BY DEF TypeInv, InUse, Hand
<1>c. \A c \in job.held : c.alert \in Alert
  BY <1>a DEF Shaped
<1>1. CASE Reraise(j)
  <2>1. PICK w \in Window \ active :
          Go(j, [Idle EXCEPT !.op = "reraise", !.pc = "next",
                   !.held = {[alert |-> a, ticket |-> alerts[a].ticket] : a \in HeldBy(w)}])
    BY <1>1 DEF Reraise
  <2>2. "reraise" \in May[j] /\ UNCHANGED <<alerts, pagedFor>> /\ w # None
    BY <1>1, NoneIsNone DEF Reraise
  <2> DEFINE copies == {[alert |-> a, ticket |-> alerts[a].ticket] : a \in HeldBy(w)}
             r == [Idle EXCEPT !.op = "reraise", !.pc = "next", !.held = copies]
  <2>3. /\ \A c \in copies : alerts[c.alert].window # None
        /\ \A c, d \in copies : c.alert = d.alert => c = d
    BY <2>2 DEF HeldBy
  <2> HIDE DEF copies
  <2>4. r.op = "reraise" /\ r.pc = "next" /\ r.held = copies
    BY DEF Idle
  <2>5. HeldPart(r, alerts') /\ StepPart(r, alerts')
    BY <2>2, <2>3, <2>4 DEF HeldPart, StepPart
  <2>6. jobs' = [jobs EXCEPT ![j] = r]
    BY <2>1 DEF Go, copies
  <2> HIDE DEF r
  <2> QED
    BY <2>2, <2>5, <2>6, CarriedHeld
<1>2. CASE NextHeld(j)
  <2>1. UNCHANGED <<alerts, pagedFor>>
    BY <1>2 DEF NextHeld
  <2>2. CASE Go(j, Idle)
    <3>1. Idle.op = "none" /\ Idle.pc = "idle" /\ Idle.held = {}
      BY DEF Idle
    <3>2. StepPart(Idle, alerts')
      BY <3>1 DEF StepPart
    <3>3. jobs' = [jobs EXCEPT ![j] = Idle]
      BY <2>2 DEF Go
    <3> QED
      BY <2>1, <3>1, <3>2, <3>3, PlainHeld
  <2>3. ASSUME NEW row \in job.held, Go(j, [job EXCEPT !.pc = "still", !.row = row, !.held = @ \ {row}])
        PROVE  HeldInv'
    <3> DEFINE r == [job EXCEPT !.pc = "still", !.row = row, !.held = @ \ {row}]
    <3>1. r.pc = "still" /\ r.row = row /\ r.held = job.held \ {row} /\ r.op = job.op
      BY <1>a DEF JobRecord
    <3>2. alerts[row.alert].window # None /\ \A c \in job.held \ {row} : c.alert # row.alert
      BY <1>a, <2>3 DEF HeldPart
    <3>3. StepPart(r, alerts')
      BY <2>1, <3>1, <3>2 DEF StepPart
    <3>4. jobs' = [jobs EXCEPT ![j] = r]
      BY <2>3 DEF Go
    <3> HIDE DEF r
    <3> QED
      BY <2>1, <3>1, <3>3, <3>4, PlainHeld
  <2> QED
    BY <1>2, <2>2, <2>3 DEF NextHeld
<1>3. CASE Still(j)
  <2>1. job.pc = "still" /\ job.op = "reraise" /\ x \in Alert /\ UNCHANGED pagedFor
    BY <1>3, <1>a DEF Still, At, Shaped
  <2>2. alerts[x].window # None /\ \A c \in job.held : c.alert # x
    BY <1>a, <2>1 DEF StepPart
  <2>3. ASSUME NEW w \in Coverage \ {None}, Update(x, [alerts[x] EXCEPT !.window = w]), Done(j) PROVE HeldInv'
    <3>1. \A a \in Alert : alerts'[a] = IF a = x THEN [alerts[x] EXCEPT !.window = w] ELSE alerts[a]
      BY <1>a, <2>3 DEF Update
    <3>2. alerts'[x].window = w /\ alerts'[x].status = alerts[x].status
      BY <1>a, <2>1, <3>1 DEF AlertRow
    <3>3. PICK r \in JobRecord : /\ jobs' = [jobs EXCEPT ![j] = r]
                                 /\ r.held = job.held /\ r.op \in {"none", job.op}
                                 /\ r.pc \in {"idle", "next"}
      BY <2>3, DoneTypes
    <3>4. HeldPart(r, alerts') /\ StepPart(r, alerts')
      BY <1>a, <1>c, <2>2, <3>1, <3>3 DEF HeldPart, StepPart
    <3>5. \A a \in Alert : alerts[a].status # "none" =>
           /\ alerts'[a].status # "none"
           /\ alerts[a].window = None => alerts'[a].window = None
           /\ "reraise" \notin May[j] /\ alerts[a].window # None => alerts'[a].window # None
      BY <1>b, <2>1, <2>2, <2>3, <3>1, <3>2
    <3> QED
      BY <1>a, <2>1, <3>3, <3>4, <3>5, CarriedHeld
  <2>4. ASSUME NEW pc \in {"release", "requeue"}, GoTo(j, pc), UNCHANGED alerts PROVE HeldInv'
    <3> DEFINE r == [job EXCEPT !.pc = pc]
    <3>1. r.pc = pc /\ r.row = job.row /\ r.held = job.held /\ r.op = job.op
      BY <1>a DEF JobRecord
    <3>2. StepPart(r, alerts')
      BY <2>2, <2>4, <3>1 DEF StepPart
    <3>3. jobs' = [jobs EXCEPT ![j] = r]
      BY <2>4 DEF GoTo, Go
    <3> HIDE DEF r
    <3> QED
      BY <2>1, <2>4, <3>1, <3>2, <3>3, PlainHeld
  <2> QED
    BY <1>3, <2>3, <2>4 DEF Still
<1>4. ASSUME NEW row, NEW r, alerts' = [alerts EXCEPT ![x] = row], row.status # "none", row.window = None,
             x \in Alert, \A c \in job.held : c.alert # x,
             jobs' = [jobs EXCEPT ![j] = r], r.held = job.held, r.op = "reraise", job.op = "reraise",
             (r.pc = "ask" /\ r.row = job.row) \/ r.pc = "lookup", UNCHANGED pagedFor
      PROVE  HeldInv'
  <2>1. \A a \in Alert : alerts'[a] = IF a = x THEN row ELSE alerts[a]
    BY <1>a, <1>4
  <2>2. HeldPart(r, alerts') /\ StepPart(r, alerts')
    BY <1>a, <1>c, <1>4, <2>1 DEF HeldPart, StepPart
  <2>3. \A a \in Alert : alerts[a].status # "none" =>
           /\ alerts'[a].status # "none"
           /\ alerts[a].window = None => alerts'[a].window = None
           /\ "reraise" \notin May[j] /\ alerts[a].window # None => alerts'[a].window # None
    BY <1>a, <1>4, <2>1
  <2> QED
    BY <1>a, <1>4, <2>2, <2>3, CarriedHeld
<1>5. CASE Release(j)
  <2>1. /\ job.pc = "release" /\ job.op = "reraise" /\ x \in Alert /\ UNCHANGED pagedFor
        /\ GoTo(j, "ask") /\ Update(x, [alerts[x] EXCEPT !.window = None])
        /\ \A c \in job.held : c.alert # x
    BY <1>5, <1>a DEF Release, At, Shaped, StepPart
  <2> DEFINE row == [alerts[x] EXCEPT !.window = None]
             r == [job EXCEPT !.pc = "ask"]
  <2>2. row.status # "none" /\ row.window = None
    BY <1>a, <1>b, <2>1 DEF AlertRow
  <2>3. r.pc = "ask" /\ r.row = job.row /\ r.held = job.held /\ r.op = job.op
    BY <1>a DEF JobRecord
  <2>4. alerts' = [alerts EXCEPT ![x] = row] /\ jobs' = [jobs EXCEPT ![j] = r]
    BY <2>1 DEF Update, GoTo, Go
  <2> HIDE DEF r, row
  <2> QED
    BY <1>4, <2>1, <2>2, <2>3, <2>4
<1>6. CASE Ask(j)
  <2>1. /\ job.pc = "ask" /\ UNCHANGED <<alerts, pagedFor>> /\ alerts[x].window = None
    BY <1>6, <1>a DEF Ask, At, StepPart
  <2>2. CASE Go(j, [job EXCEPT !.pc = "page", !.alert = x, !.ticket = job.row.ticket])
    <3> DEFINE r == [job EXCEPT !.pc = "page", !.alert = x, !.ticket = job.row.ticket]
    <3>1. r.pc = "page" /\ r.alert = x /\ r.held = job.held /\ r.op = job.op
      BY <1>a DEF JobRecord
    <3>2. StepPart(r, alerts')
      BY <2>1, <3>1 DEF StepPart
    <3>3. jobs' = [jobs EXCEPT ![j] = r]
      BY <2>2 DEF Go
    <3> HIDE DEF r
    <3> QED
      BY <2>1, <3>1, <3>2, <3>3, PlainHeld
  <2> QED
    BY <1>6, <2>1, <2>2, DoneHeld DEF Ask
<1>7. CASE Requeue(j)
  <2>1. /\ job.pc = "requeue" /\ job.op = "reraise" /\ x \in Alert /\ UNCHANGED pagedFor
        /\ \A c \in job.held : c.alert # x
    BY <1>7, <1>a DEF Requeue, At, Shaped, StepPart
  <2> DEFINE row == [Resolved(alerts[x]) EXCEPT !.window = None]
             r == [job EXCEPT !.pc = "lookup", !.key = alerts[x].key, !.row = Nothing]
  <2>2. row.status # "none" /\ row.window = None
    BY <1>a, <2>1 DEF AlertRow, Resolved
  <2>3. r.pc = "lookup" /\ r.held = job.held /\ r.op = job.op
    BY <1>a DEF JobRecord
  <2>4. alerts' = [alerts EXCEPT ![x] = row] /\ jobs' = [jobs EXCEPT ![j] = r]
    BY <1>7 DEF Requeue, Update, Go
  <2> HIDE DEF r, row
  <2> QED
    BY <1>4, <2>1, <2>2, <2>3, <2>4
<1> QED
  BY <1>1, <1>2, <1>3, <1>5, <1>6, <1>7

\* Nothing else takes an alert from a window or puts it under one.
LEMMA EnvironmentHeld ==
  ASSUME OneReraiser, TypeInv, HeldInv,
         \/ \E w \in Window : WindowStarts(w) \/ WindowEnds(w)
         \/ \E t \in Ticket : EditTicket(t) \/ PageStops(t) \/ ForgetTicket(t)
         \/ \E a \in Alert : ForgetAlert(a)
         \/ \E j \in Job : Crash(j)
         \/ UNCHANGED vars
  PROVE  HeldInv'
<1>1. ASSUME UNCHANGED <<alerts, jobs, pagedFor>> PROVE HeldInv'
  BY <1>1 DEF HeldInv, Allowed, Paged
<1>2. ASSUME NEW a \in Alert, ForgetAlert(a) PROVE HeldInv'
  <2>1. alerts' = [alerts EXCEPT ![a] = NoAlert] /\ pagedFor' = pagedFor \ {a} /\ UNCHANGED jobs
    BY <1>2 DEF ForgetAlert
  <2>2. \A b \in Alert : b # a => alerts'[b] = alerts[b]
    BY <2>1 DEF TypeInv, TypeOK
  <2>3. ASSUME NEW j \in Job PROVE a \notin Hand(jobs[j])
    <3>1. \A copy \in InHand(j) : copy.alert # a
      BY <1>2 DEF ForgetAlert
    <3>2. jobs[j].row.alert # a /\ \A c \in jobs[j].held : c.alert # a
      BY <3>1 DEF InHand
    <3>3. [alert |-> jobs[j].alert, ticket |-> jobs[j].ticket].alert # a
      BY <3>1 DEF InHand
    <3> QED
      BY <3>2, <3>3 DEF Hand
  <2>4. ASSUME NEW j \in Job PROVE HeldPart(jobs[j], alerts') /\ StepPart(jobs[j], alerts')
    <3>1. HeldPart(jobs[j], alerts) /\ StepPart(jobs[j], alerts) /\ Shaped(jobs[j])
      BY DEF HeldInv, TypeInv
    <3>2. \A b \in Hand(jobs[j]) : b \in Alert => alerts'[b] = alerts[b]
      BY <2>2, <2>3
    <3>3. /\ jobs[j].row.alert \in Hand(jobs[j]) /\ jobs[j].alert \in Hand(jobs[j])
          /\ \A c \in jobs[j].held : c.alert \in Hand(jobs[j]) /\ c.alert \in Alert
      BY <3>1 DEF Hand, Shaped
    <3>4. HeldPart(jobs[j], alerts')
      BY <3>1, <3>2, <3>3 DEF HeldPart
    <3>5. StepPart(jobs[j], alerts')
      BY <3>1, <3>2, <3>3 DEF StepPart, Shaped
    <3> QED
      BY <3>4, <3>5
  <2>5. Allowed' /\ Paged'
    BY <2>1, <2>2 DEF HeldInv, Allowed, Paged, TypeInv, TypeOK
  <2> QED
    BY <2>1, <2>4, <2>5 DEF HeldInv
<1>3. ASSUME NEW j \in Job, Crash(j) PROVE HeldInv'
  <2>1. jobs' = [jobs EXCEPT ![j] = Idle] /\ UNCHANGED <<alerts, pagedFor>>
    BY <1>3 DEF Crash, Go
  <2>2. Idle.op = "none" /\ Idle.held = {} /\ Idle.pc = "idle"
    BY DEF Idle
  <2>3. StepPart(Idle, alerts')
    BY <2>2 DEF StepPart
  <2> QED
    BY <2>1, <2>2, <2>3, PlainHeld
<1>4. CASE UNCHANGED vars
  BY <1>1, <1>4 DEF vars
<1> QED
  BY <1>1, <1>2, <1>3, <1>4 DEF WindowStarts, WindowEnds, EditTicket, PageStops, ForgetTicket

\* Every step keeps the invariant.
LEMMA NextHeldInv ==
  ASSUME OneReraiser, TypeInv, HeldInv, [Next]_vars
  PROVE  HeldInv'
<1>1. ASSUME NEW j \in Job, JobStart(j) \/ JobStep(j) PROVE HeldInv'
  BY <1>1, IngestHeld, IncidentHeld, ClearHeld, ReraiseHeld DEF JobStart, JobStep
<1> QED
  BY <1>1, EnvironmentHeld DEF Next, Undisturbed

\* Nobody is paged for an alert that a maintenance window holds, and what has
\* been paged for is never put on hold, when maintenanceTick runs in one
\* process; signals may come in at the same time.
THEOREM PagedIsNotHeld == OneReraiser /\ Spec => []HeldNotPaged
<1> SUFFICES ASSUME OneReraiser PROVE Spec => []HeldNotPaged
  OBVIOUS
<1>1. Spec => []TypeInv
  BY TypeCorrect
<1>2. Init => HeldInv
  BY InitHeld
<1>3. TypeInv /\ HeldInv /\ [Next]_vars => HeldInv'
  BY NextHeldInv
<1>4. HeldInv => HeldNotPaged
  BY DEF HeldInv, Paged, HeldNotPaged
<1> QED
  BY <1>1, <1>2, <1>3, <1>4, PTL DEF Spec
-----------------------------------------------------------------------------
(* OneAlertPerKey. *)

\* A handler records an alert when none of its key is open, and ends the one it
\* found.
KeyPart(job, rows) ==
  /\ job.pc = "insert" => \A a \in Alert : ~(rows[a].status = "firing" /\ rows[a].key = job.key)
  /\ job.pc \in {"check", "end"} =>
       rows[job.row.alert].status = "firing" /\ rows[job.row.alert].key = job.key

KeyInv == OneAlertPerKey /\ \A j \in Job : KeyPart(jobs[j], alerts)

\* A step after which nothing fires that did not keeps the invariant if its own
\* new record is sound.
LEMMA KeptKey ==
  ASSUME OneHandler, TypeInv, KeyInv, NEW j \in Job, NEW r, jobs' = [jobs EXCEPT ![j] = r],
         \A a \in Alert : alerts'[a].status = "firing" =>
           alerts[a].status = "firing" /\ alerts'[a].key = alerts[a].key,
         KeyPart(r, alerts')
  PROVE  KeyInv'
<1>1. \A i \in Job : jobs'[i] = r
  BY DEF OneHandler, TypeInv, TypeOK
<1>2. OneAlertPerKey'
  BY DEF KeyInv, OneAlertPerKey, Firing
<1> QED
  BY <1>1, <1>2 DEF KeyInv

\* A handler whose next statement neither records an alert nor ends one.
LEMMA FreeKey ==
  ASSUME OneHandler, TypeInv, KeyInv, NEW j \in Job, NEW r, jobs' = [jobs EXCEPT ![j] = r],
         \A a \in Alert : alerts'[a].status = "firing" =>
           alerts[a].status = "firing" /\ alerts'[a].key = alerts[a].key,
         r.pc \notin {"insert", "check", "end"}
  PROVE  KeyInv'
BY KeptKey DEF KeyPart

\* A handler that is done.
LEMMA DoneKey ==
  ASSUME OneHandler, TypeInv, KeyInv, NEW j \in Job, Done(j),
         \A a \in Alert : alerts'[a].status = "firing" =>
           alerts[a].status = "firing" /\ alerts'[a].key = alerts[a].key
  PROVE  KeyInv'
<1>1. PICK r \in JobRecord : jobs' = [jobs EXCEPT ![j] = r] /\ r.pc \in {"idle", "next"}
  BY DoneTypes
<1> QED
  BY <1>1, FreeKey

\* A handler that goes on to a step that neither records an alert nor ends one.
LEMMA GoKey ==
  ASSUME OneHandler, TypeInv, KeyInv, NEW j \in Job, NEW pc, GoTo(j, pc), pc \notin {"insert", "check", "end"},
         \A a \in Alert : alerts'[a].status = "firing" =>
           alerts[a].status = "firing" /\ alerts'[a].key = alerts[a].key
  PROVE  KeyInv'
<1> DEFINE r == [jobs[j] EXCEPT !.pc = pc]
<1>1. r.pc = pc
  BY DEF TypeInv, TypeOK, JobRecord
<1>2. jobs' = [jobs EXCEPT ![j] = r]
  BY DEF GoTo, Go
<1> HIDE DEF r
<1> QED
  BY <1>1, <1>2, FreeKey

\* Signals: the statement that finds an open alert, and those that act on it.
LEMMA IngestKey ==
  ASSUME OneHandler, TypeInv, KeyInv, NEW j \in Job,
         Fire(j) \/ Clear(j) \/ Lookup(j) \/ Check(j) \/ End(j) \/ Insert(j)
  PROVE  KeyInv'
<1> DEFINE job == jobs[j]
<1>a. job \in JobRecord /\ Shaped(job) /\ alerts \in [Alert -> AlertRow] /\ KeyPart(job, alerts) /\ OneAlertPerKey
  BY DEF TypeInv, TypeOK, KeyInv
<1>1. ASSUME NEW op, Receive(j, op) PROVE KeyInv'
  <2>1. PICK k \in Key : jobs' = [jobs EXCEPT ![j] = [Idle EXCEPT !.op = op, !.pc = "lookup", !.key = k]]
    BY <1>1 DEF Receive, Go
  <2> DEFINE r == [Idle EXCEPT !.op = op, !.pc = "lookup", !.key = k]
  <2>2. r.pc = "lookup"
    BY DEF Idle
  <2> HIDE DEF r
  <2> QED
    BY <1>1, <2>1, <2>2, FreeKey DEF Receive, r
<1>2. ASSUME TakeRoute(j),
             \A a \in Alert : alerts'[a].status = "firing" =>
               alerts[a].status = "firing" /\ alerts'[a].key = alerts[a].key,
             \A a \in Alert : ~(alerts'[a].status = "firing" /\ alerts'[a].key = job.key)
      PROVE  KeyInv'
  <2>1. ASSUME NEW route, Go(j, [job EXCEPT !.pc = "insert", !.route = route, !.row = Nothing]) PROVE KeyInv'
    <3> DEFINE r == [job EXCEPT !.pc = "insert", !.route = route, !.row = Nothing]
    <3>1. r.pc = "insert" /\ r.key = job.key
      BY <1>a DEF JobRecord
    <3>2. KeyPart(r, alerts')
      BY <1>2, <3>1 DEF KeyPart
    <3>3. jobs' = [jobs EXCEPT ![j] = r]
      BY <2>1 DEF Go
    <3> HIDE DEF r
    <3> QED
      BY <1>2, <3>2, <3>3, KeptKey
  <2> QED
    BY <1>2, <2>1, DoneKey DEF TakeRoute
<1>3. CASE Lookup(j)
  <2>1. UNCHANGED alerts
    BY <1>3 DEF Lookup
  <2>2. ASSUME NEW a \in OpenAlerts(job.key), NEW pc \in {"resolve", "check"},
               Go(j, [[job EXCEPT !.row = [alert |-> a, ticket |-> alerts[a].ticket]] EXCEPT !.pc = pc])
        PROVE  KeyInv'
    <3> DEFINE r == [[job EXCEPT !.row = [alert |-> a, ticket |-> alerts[a].ticket]] EXCEPT !.pc = pc]
    <3>1. r.pc = pc /\ r.key = job.key /\ r.row = [alert |-> a, ticket |-> alerts[a].ticket]
      BY <1>a DEF JobRecord
    <3>2. KeyPart(r, alerts')
      BY <2>1, <2>2, <3>1 DEF KeyPart, OpenAlerts, Firing
    <3>3. jobs' = [jobs EXCEPT ![j] = r]
      BY <2>2 DEF Go
    <3> HIDE DEF r
    <3> QED
      BY <2>1, <3>2, <3>3, KeptKey
  <2>3. CASE OpenAlerts(job.key) = {} /\ TakeRoute(j)
    BY <1>2, <2>1, <2>3 DEF OpenAlerts, Firing
  <2> QED
    BY <1>3, <2>1, <2>2, <2>3, DoneKey DEF Lookup
<1>4. CASE Check(j)
  <2>1. job.pc = "check" /\ UNCHANGED alerts
    BY <1>4 DEF Check, At
  <2>2. CASE GoTo(j, "end")
    <3> DEFINE r == [job EXCEPT !.pc = "end"]
    <3>1. r.pc = "end" /\ r.key = job.key /\ r.row = job.row
      BY <1>a DEF JobRecord
    <3>2. KeyPart(r, alerts')
      BY <1>a, <2>1, <3>1 DEF KeyPart
    <3>3. jobs' = [jobs EXCEPT ![j] = r]
      BY <2>2 DEF GoTo, Go
    <3> HIDE DEF r
    <3> QED
      BY <2>1, <3>2, <3>3, KeptKey
  <2> QED
    BY <1>4, <2>1, <2>2, DoneKey DEF Check
<1>5. CASE End(j)
  <2> DEFINE x == job.row.alert
  <2>1. job.pc = "end" /\ TakeRoute(j) /\ x \in Alert /\ alerts' = [alerts EXCEPT ![x] = Resolved(alerts[x])]
    BY <1>5, <1>a DEF End, At, Update, Shaped
  <2>2. \A a \in Alert : alerts'[a] = IF a = x THEN Resolved(alerts[x]) ELSE alerts[a]
    BY <1>a, <2>1
  <2>3. Resolved(alerts[x]).status = "resolved"
    BY <1>a, <2>1 DEF Resolved, AlertRow
  <2>4. \A a \in Alert : ~(alerts'[a].status = "firing" /\ alerts'[a].key = job.key)
    <3> SUFFICES ASSUME NEW a \in Alert, a # x, alerts[a].status = "firing", alerts[a].key = job.key PROVE FALSE
      BY <2>2, <2>3
    <3> QED
      BY <1>a, <2>1 DEF KeyPart, OneAlertPerKey, Firing
  <2> QED
    BY <1>2, <2>1, <2>2, <2>3, <2>4
<1>6. CASE Insert(j)
  <2>1. PICK a \in Alert, w \in Coverage :
          /\ Update(a, [status |-> "firing", key |-> job.key, ticket |-> None, window |-> w,
                        quiet |-> job.route.quiet, severe |-> job.route.severe])
          /\ IF Held(w) THEN Done(j) ELSE Go(j, [job EXCEPT !.pc = "group", !.alert = a, !.cover = w])
    BY <1>6 DEF Insert
  <2>2. /\ job.pc = "insert"
        /\ \A b \in Alert : ~(Firing(b) /\ alerts[b].key = job.key)
    BY <1>6, <1>a DEF Insert, At, KeyPart, Firing
  <2>3. /\ alerts'[a].key = job.key
        /\ \A b \in Alert : b # a => alerts'[b] = alerts[b]
    BY <1>a, <2>1 DEF Update
  <2>4. OneAlertPerKey'
    BY <1>a, <2>2, <2>3 DEF OneAlertPerKey, Firing
  <2>5. \E r : jobs' = [jobs EXCEPT ![j] = r] /\ r.pc \in {"idle", "next", "group"}
    <3>1. CASE Go(j, [job EXCEPT !.pc = "group", !.alert = a, !.cover = w])
      <4>1. [job EXCEPT !.pc = "group", !.alert = a, !.cover = w].pc = "group"
        BY <1>a DEF JobRecord
      <4> QED
        BY <3>1, <4>1 DEF Go
    <3>2. CASE Done(j)
      BY <3>2, DoneTypes
    <3> QED
      BY <2>1, <3>1, <3>2
  <2>6. PICK r : jobs' = [jobs EXCEPT ![j] = r] /\ r.pc \in {"idle", "next", "group"}
    BY <2>5
  <2>7. \A i \in Job : jobs'[i] = r
    BY <2>6 DEF OneHandler, TypeInv, TypeOK
  <2> QED
    BY <2>4, <2>6, <2>7 DEF KeyInv, KeyPart
<1> QED
  BY <1>1, <1>3, <1>4, <1>5, <1>6 DEF Fire, Clear

\* Every other statement of a handler leaves an alert firing or ends it.
LEMMA OtherKey ==
  ASSUME OneHandler, TypeInv, KeyInv, NEW j \in Job,
         \/ Group(j) \/ Join(j) \/ CreateTicket(j) \/ Attach(j) \/ TriggerPage(j)
         \/ ResolveAlert(j) \/ Count(j) \/ Look(j) \/ CloseTicket(j) \/ SettlePages(j)
         \/ Reraise(j) \/ NextHeld(j) \/ Still(j) \/ Release(j) \/ Ask(j) \/ Requeue(j)
  PROVE  KeyInv'
<1> DEFINE job == jobs[j]
           x == job.row.alert
<1>a. job \in JobRecord /\ Shaped(job) /\ alerts \in [Alert -> AlertRow]
  BY DEF TypeInv, TypeOK
<1>1. \A a \in Alert : alerts'[a].status = "firing" =>
        alerts[a].status = "firing" /\ alerts'[a].key = alerts[a].key
  <2>1. CASE Join(j) \/ Attach(j)
    BY <2>1, <1>a DEF Join, Attach, SetTicket, Update, AlertRow
  <2>2. CASE ResolveAlert(j)
    BY <2>2, <1>a DEF ResolveAlert, Update, Resolved, AlertRow
  <2>3. CASE Requeue(j)
    BY <2>3, <1>a DEF Requeue, Update, Resolved, AlertRow
  <2>4. CASE Release(j)
    BY <2>4, <1>a DEF Release, Update, AlertRow
  <2>5. CASE Still(j)
    <3>1. ASSUME NEW w, alerts' = [alerts EXCEPT ![x] = [alerts[x] EXCEPT !.window = w]]
          PROVE  \A a \in Alert : alerts'[a].status = alerts[a].status /\ alerts'[a].key = alerts[a].key
      BY <3>1, <1>a DEF AlertRow
    <3>2. UNCHANGED alerts \/ \E w : alerts' = [alerts EXCEPT ![x] = [alerts[x] EXCEPT !.window = w]]
      BY <2>5 DEF Still, Update
    <3> QED
      BY <3>1, <3>2
  <2>6. CASE Group(j) \/ CreateTicket(j) \/ TriggerPage(j) \/ Count(j) \/ Look(j) \/ CloseTicket(j) \/ SettlePages(j)
             \/ Reraise(j) \/ NextHeld(j) \/ Ask(j)
    BY <2>6 DEF Group, CreateTicket, TriggerPage, Count, Look, CloseTicket, SettlePages, Reraise, NextHeld, Ask
  <2> QED
    BY <2>1, <2>2, <2>3, <2>4, <2>5, <2>6
<1>2. ASSUME NEW r, jobs' = [jobs EXCEPT ![j] = r], r.pc \notin {"insert", "check", "end"} PROVE KeyInv'
  BY <1>1, <1>2, FreeKey
<1>3. ASSUME NEW pc \in {"create", "page", "count", "look", "close", "settle", "release", "requeue", "ask"}, GoTo(j, pc)
      PROVE  KeyInv'
  BY <1>1, <1>3, GoKey
<1>4. CASE Done(j)
  BY <1>1, <1>4, DoneKey
<1>5. CASE Group(j) \/ CreateTicket(j)
  <2>1. ASSUME NEW pc \in {"join", "attach"}, NEW t, Go(j, [job EXCEPT !.pc = pc, !.ticket = t]) PROVE KeyInv'
    <3> DEFINE r == [job EXCEPT !.pc = pc, !.ticket = t]
    <3>1. r.pc = pc
      BY <1>a DEF JobRecord
    <3>2. jobs' = [jobs EXCEPT ![j] = r]
      BY <2>1 DEF Go
    <3> HIDE DEF r
    <3> QED
      BY <1>2, <2>1, <3>1, <3>2
  <2> QED
    BY <1>3, <1>5, <2>1 DEF Group, CreateTicket
<1>6. CASE Reraise(j)
  <2>1. PICK rows : jobs' = [jobs EXCEPT ![j] = [Idle EXCEPT !.op = "reraise", !.pc = "next", !.held = rows]]
    BY <1>6 DEF Reraise, Go
  <2>2. [Idle EXCEPT !.op = "reraise", !.pc = "next", !.held = rows].pc = "next"
    BY DEF Idle
  <2> QED
    BY <1>2, <2>1, <2>2
<1>7. CASE NextHeld(j)
  <2>1. ASSUME NEW row, Go(j, [job EXCEPT !.pc = "still", !.row = row, !.held = @ \ {row}]) PROVE KeyInv'
    <3> DEFINE r == [job EXCEPT !.pc = "still", !.row = row, !.held = @ \ {row}]
    <3>1. r.pc = "still"
      BY <1>a DEF JobRecord
    <3>2. jobs' = [jobs EXCEPT ![j] = r]
      BY <2>1 DEF Go
    <3> HIDE DEF r
    <3> QED
      BY <1>2, <3>1, <3>2
  <2>2. CASE Go(j, Idle)
    <3>1. Idle.pc = "idle"
      BY DEF Idle
    <3> QED
      BY <1>2, <2>2, <3>1 DEF Go
  <2> QED
    BY <1>7, <2>1, <2>2 DEF NextHeld
<1>8. CASE Ask(j)
  <2>1. CASE Go(j, [job EXCEPT !.pc = "page", !.alert = x, !.ticket = job.row.ticket])
    <3> DEFINE r == [job EXCEPT !.pc = "page", !.alert = x, !.ticket = job.row.ticket]
    <3>1. r.pc = "page"
      BY <1>a DEF JobRecord
    <3>2. jobs' = [jobs EXCEPT ![j] = r]
      BY <2>1 DEF Go
    <3> HIDE DEF r
    <3> QED
      BY <1>2, <3>1, <3>2
  <2> QED
    BY <1>4, <1>8, <2>1 DEF Ask
<1>9. CASE Requeue(j)
  <2> DEFINE r == [job EXCEPT !.pc = "lookup", !.key = alerts[x].key, !.row = Nothing]
  <2>1. r.pc = "lookup"
    BY <1>a DEF JobRecord
  <2>2. jobs' = [jobs EXCEPT ![j] = r]
    BY <1>9 DEF Requeue, Go
  <2> HIDE DEF r
  <2> QED
    BY <1>2, <2>1, <2>2
<1>10. CASE Join(j) \/ Attach(j) \/ TriggerPage(j) \/ ResolveAlert(j) \/ Count(j) \/ Look(j) \/ CloseTicket(j)
            \/ SettlePages(j) \/ Still(j) \/ Release(j)
  BY <1>3, <1>4, <1>10
     DEF Join, Attach, TriggerPage, ResolveAlert, Count, Look, CloseTicket, SettlePages, Still, Release
<1> QED
  BY <1>5, <1>6, <1>7, <1>8, <1>9, <1>10

\* People, windows and the pager change no alert, and only history is forgotten.
LEMMA EnvironmentKey ==
  ASSUME OneHandler, TypeInv, KeyInv,
         \/ \E w \in Window : WindowStarts(w) \/ WindowEnds(w)
         \/ \E t \in Ticket : EditTicket(t) \/ PageStops(t) \/ ForgetTicket(t)
         \/ \E a \in Alert : ForgetAlert(a)
         \/ \E j \in Job : Crash(j)
         \/ UNCHANGED vars
  PROVE  KeyInv'
<1>1. ASSUME UNCHANGED <<alerts, jobs>> PROVE KeyInv'
  BY <1>1 DEF KeyInv, OneAlertPerKey, Firing
<1>2. ASSUME NEW a \in Alert, ForgetAlert(a) PROVE KeyInv'
  <2>1. alerts' = [alerts EXCEPT ![a] = NoAlert] /\ alerts[a].status = "resolved" /\ UNCHANGED jobs
    BY <1>2 DEF ForgetAlert
  <2>2. \A b \in Alert : alerts'[b] = IF b = a THEN NoAlert ELSE alerts[b]
    BY <2>1 DEF TypeInv, TypeOK
  <2>3. NoAlert.status = "none"
    BY DEF NoAlert
  <2>4. OneAlertPerKey'
    BY <2>2, <2>3 DEF KeyInv, OneAlertPerKey, Firing
  <2>5. ASSUME NEW j \in Job PROVE KeyPart(jobs[j], alerts')
    <3>1. KeyPart(jobs[j], alerts) /\ (jobs[j].pc \in {"check", "end"} => jobs[j].row.alert \in Alert)
      BY DEF KeyInv, TypeInv, Shaped
    <3> QED
      BY <2>1, <2>2, <2>3, <3>1 DEF KeyPart
  <2> QED
    BY <2>1, <2>4, <2>5 DEF KeyInv
<1>3. ASSUME NEW j \in Job, Crash(j) PROVE KeyInv'
  <2>1. jobs' = [jobs EXCEPT ![j] = Idle] /\ UNCHANGED alerts
    BY <1>3 DEF Crash, Go
  <2>2. Idle.pc = "idle"
    BY DEF Idle
  <2> QED
    BY <2>1, <2>2, FreeKey
<1>4. CASE UNCHANGED vars
  BY <1>1, <1>4 DEF vars
<1> QED
  BY <1>1, <1>2, <1>3, <1>4 DEF WindowStarts, WindowEnds, EditTicket, PageStops, ForgetTicket

\* Every step keeps the invariant.
LEMMA NextKey ==
  ASSUME OneHandler, TypeInv, KeyInv, [Next]_vars
  PROVE  KeyInv'
<1>1. ASSUME NEW j \in Job, JobStart(j) \/ JobStep(j) PROVE KeyInv'
  BY <1>1, IngestKey, OtherKey DEF JobStart, JobStep
<1> QED
  BY <1>1, EnvironmentKey DEF Next, Undisturbed

\* What a handler knows of its problem when handlers do not overlap.
LEMMA KeyHolds == OneHandler /\ Spec => []KeyInv
<1> SUFFICES ASSUME OneHandler PROVE Spec => []KeyInv
  OBVIOUS
<1>1. Spec => []TypeInv
  BY TypeCorrect
<1>2. Init => KeyInv
  BY DEF Init, KeyInv, OneAlertPerKey, Firing, NoAlert, Idle, KeyPart
<1>3. TypeInv /\ KeyInv /\ [Next]_vars => KeyInv'
  BY NextKey
<1> QED
  BY <1>1, <1>2, <1>3, PTL DEF Spec

\* As long as handlers do not overlap, a problem that is open is open once:
\* through repeats, maintenance, closed tickets and crashes.
THEOREM OneAlertForEachProblem == OneHandler /\ Spec => []OneAlertPerKey
<1> SUFFICES ASSUME OneHandler PROVE Spec => []OneAlertPerKey
  OBVIOUS
<1>1. Spec => []KeyInv
  BY KeyHolds
<1>2. KeyInv => OneAlertPerKey
  BY DEF KeyInv
<1> QED
  BY <1>1, <1>2, PTL
=============================================================================
