----------------------------- MODULE LoopProofs ------------------------------
(***************************************************************************)
(* What the loops of the scheduler send once, and not too soon.            *)
(*                                                                         *)
(* The SLA sweep: a breach is announced again only when two sweeps had its *)
(* ticket in hand at once, for any number of processes, of sweeps in each, *)
(* of tickets and of crashes, and any batch.  A due date that was          *)
(* announced was marked before, and the mark of a ticket that one sweep    *)
(* has in hand only grows.  What the sweep selected is past the mark, and  *)
(* stays so until the sweep itself marks it: nobody else has the ticket,   *)
(* and moving a due date leaves the mark alone.                            *)
(*                                                                         *)
(* Maintenance windows: a notice goes out once while one process ticks.  A *)
(* notice is recorded before it is sent, and the one the tick has in hand  *)
(* was not recorded when the tick read the window.                         *)
(*                                                                         *)
(* Monitors: one is called down only after as many failures in a row as    *)
(* its threshold, while its handlers do not overlap and none fails.  The   *)
(* count in its row is never ahead of the failures seen.                   *)
(***************************************************************************)
EXTENDS SlaMonitor, TLAPS

CONSTANTS MaxKey, SkipBegun, Job, May, MaxThreshold, MaxFaults, Edits
VARIABLES
  phase, skipped, cancelled, noted, ticker, sent, deaths,  \* Maintenance
  monitor, broken, alert, job, streak, faults              \* Monitors

Maintenance == INSTANCE Maintenance WITH announced <- noted, crashes <- deaths
Monitors == INSTANCE Monitors

TicketRow == [due : Due, past : BOOLEAN, open : BOOLEAN, notified : 0 .. MaxDue]
SweepState == [pc : {"idle", "select", "mark", "announce"}, rows : SUBSET Row, full : BOOLEAN]

\* The types, with no bound on crashes.
Shape ==
  /\ holder \subseteq Process
  /\ ticket \in [Ticket -> TicketRow]
  /\ sweep \in [Sweep -> SweepState]
  /\ announced \in [Row -> 0 .. 2]
  /\ shared \subseteq Ticket

Working(s) == At(s, "mark") \/ At(s, "announce")

\* A sweep has tickets in hand while it works on them, and only one sweep has
\* a ticket that is not shared.
Apart ==
  /\ \A s \in Sweep : ~Working(s) => sweep[s].rows = {}
  /\ \A t \in Ticket \ shared, s, o \in Sweep : InHand(s, t) /\ InHand(o, t) => s = o

\* Nothing is marked ahead of its time, and what was announced is marked.
Marked ==
  /\ \A t \in Ticket : ticket[t].notified <= ticket[t].due
  /\ \A t \in Ticket \ shared, d \in Due : announced[<<t, d>>] > 0 => ticket[t].notified >= d

Unmarked(r) == ticket[r[1]].notified < r[2]

\* The rows of a batch are of different tickets; none that is not shared was
\* announced, and of these only the one that is being announced is marked.
BatchOf(s) ==
  /\ sweep[s].rows # {}
  /\ \A r, q \in sweep[s].rows : r[1] = q[1] => r = q
  /\ \A r \in sweep[s].rows : r[2] <= ticket[r[1]].due
  /\ \A r \in sweep[s].rows : r[1] \notin shared =>
       /\ announced[r] = 0
       /\ At(s, "mark") \/ r # Current(s) => Unmarked(r)
       /\ At(s, "announce") /\ r = Current(s) => ~Unmarked(r)

Batches == \A s \in Sweep : Working(s) => BatchOf(s)

OnceInv == Shape /\ Apart /\ Marked /\ Batches /\ AnnouncedAgainByTwo

\* Due dates can be numbered.
DueCounted == MaxDue \in Nat \ {0}
-----------------------------------------------------------------------------

\* A row that is being worked on is one of the batch.
LEMMA CurrentIn ==
  ASSUME NEW s \in Sweep, sweep[s].rows # {}
  PROVE  Current(s) \in sweep[s].rows
BY DEF Current

\* Nothing has been selected or announced at first.
LEMMA InitOnce == DueCounted /\ Init => OnceInv
<1> SUFFICES ASSUME DueCounted, Init PROVE OnceInv
  OBVIOUS
<1>1. Shape
  BY DEF DueCounted, Init, Shape, TicketRow, SweepState, Idle, Due
<1>2. Apart /\ Batches
  BY DEF Init, Apart, Batches, Working, InHand, At, Idle
<1>3. Marked /\ AnnouncedAgainByTwo
  BY DEF DueCounted, Init, Marked, AnnouncedAgainByTwo, Due, Row
<1> QED
  BY <1>1, <1>2, <1>3 DEF OnceInv

\* Whatever people change, a mark stays, and a due date only moves on.
LEMMA EditOnce ==
  ASSUME DueCounted, OnceInv, NEW t \in Ticket, NEW to \in TicketRow, Edit(t, to),
         to.notified = ticket[t].notified, to.due >= ticket[t].due
  PROVE  OnceInv'
<1>1. Shape'
  BY DEF OnceInv, Shape, Edit
<1>2. /\ \A u \in Ticket : ticket'[u].notified = ticket[u].notified /\ ticket'[u].due >= ticket[u].due
      /\ \A u \in Ticket : ticket[u] \in TicketRow /\ ticket'[u] \in TicketRow
      /\ UNCHANGED <<holder, sweep, announced, shared>>
  BY <1>1 DEF OnceInv, Shape, Edit, TicketRow, Due
<1>3. Apart'
  BY <1>2 DEF OnceInv, Apart, Working, InHand, At
<1>4. Marked'
  BY <1>2 DEF DueCounted, OnceInv, Marked, TicketRow, Due
<1>5. Batches'
  <2> SUFFICES ASSUME NEW s \in Sweep, Working(s) PROVE BatchOf(s)'
    BY <1>2 DEF Batches, Working, At
  <2>1. BatchOf(s)
    BY DEF OnceInv, Batches
  <2>2. \A r \in sweep[s].rows : r[1] \in Ticket /\ r[2] \in Due
    BY DEF OnceInv, Shape, SweepState, Row
  <2>3. Current(s)' = Current(s)
    BY <1>2 DEF Current
  <2> QED
    BY <1>2, <2>1, <2>2, <2>3 DEF DueCounted, BatchOf, Unmarked, At, TicketRow, Due
<1>6. AnnouncedAgainByTwo'
  BY <1>2 DEF OnceInv, AnnouncedAgainByTwo
<1> QED
  BY <1>1, <1>3, <1>4, <1>5, <1>6 DEF OnceInv

\* The tickets a sweep finds are past their mark; one that another sweep has
\* in hand is shared from then on.
LEMMA SelectOnce ==
  ASSUME DueCounted, OnceInv, NEW s \in Sweep, Select(s)
  PROVE  OnceInv'
<1>1. PICK rows \in SUBSET Breaches :
        /\ Enter(s, IF rows = {} THEN Idle
                    ELSE [pc |-> "mark", rows |-> rows, full |-> Cardinality(rows) = Batch])
        /\ shared' = shared \cup {t \in Ticket : /\ \E r \in rows : r[1] = t
                                                 /\ \E o \in Sweep \ {s} : InHand(o, t)}
  BY DEF Select
<1>2. At(s, "select") /\ UNCHANGED <<holder, ticket, announced>>
  BY DEF Select, At
<1>3. \A r \in rows : /\ r \in Row /\ r[2] = ticket[r[1]].due
                      /\ r[1] \notin shared => announced[r] = 0
                      /\ Unmarked(r)
  <2> SUFFICES ASSUME NEW t \in Ticket, Breached(t)
               PROVE  /\ <<t, ticket[t].due>> \in Row
                      /\ t \notin shared => announced[<<t, ticket[t].due>>] = 0
                      /\ ticket[t].notified < ticket[t].due
    BY DEF Breaches, Unmarked
  <2>1. ticket[t].due \in Due /\ ticket[t].notified \in 0 .. MaxDue
    BY DEF OnceInv, Shape, TicketRow
  <2>2. ticket[t].notified < ticket[t].due
    BY <2>1 DEF DueCounted, Breached, OnceInv, Marked, Due
  <2>3. <<t, ticket[t].due>> \in Row /\ announced[<<t, ticket[t].due>>] \in 0 .. 2
    BY <2>1 DEF Row, OnceInv, Shape
  <2> QED
    BY <2>1, <2>2, <2>3 DEF DueCounted, OnceInv, Marked, Due
<1>4. Shape'
  <2>1. (IF rows = {} THEN Idle ELSE [pc |-> "mark", rows |-> rows, full |-> Cardinality(rows) = Batch]) \in SweepState
    BY <1>3 DEF SweepState, Idle
  <2>2. shared' \subseteq Ticket
    BY <1>1 DEF OnceInv, Shape
  <2> QED
    BY <1>1, <1>2, <2>1, <2>2 DEF Enter, OnceInv, Shape
<1>5. /\ \A q \in Sweep : q # s => sweep'[q] = sweep[q]
      /\ IF rows = {} THEN sweep'[s].pc = "idle" ELSE sweep'[s].pc = "mark"
      /\ sweep'[s].rows = rows
      /\ shared \subseteq shared'
  BY <1>1 DEF Enter, OnceInv, Shape, Idle
<1>6. Apart'
  <2>1. ASSUME NEW q \in Sweep, ~Working(q)' PROVE sweep'[q].rows = {}
    BY <1>5, <2>1 DEF OnceInv, Apart, Working, At
  <2>2. ASSUME NEW t \in Ticket \ shared', NEW q \in Sweep, q # s, InHand(q, t)', InHand(s, t)' PROVE FALSE
    <3>1. InHand(q, t)
      BY <1>5, <2>2 DEF InHand
    <3>2. \E r \in rows : r[1] = t
      BY <1>5, <2>2 DEF InHand
    <3> QED
      BY <1>1, <2>2, <3>1, <3>2
  <2>3. ASSUME NEW t \in Ticket \ shared', NEW q \in Sweep, NEW o \in Sweep, InHand(q, t)', InHand(o, t)' PROVE q = o
    <3>1. CASE q # s /\ o # s
      <4>1. InHand(q, t) /\ InHand(o, t) /\ t \in Ticket \ shared
        BY <1>5, <2>3, <3>1 DEF InHand
      <4> QED
        BY <4>1 DEF OnceInv, Apart
    <3> QED
      BY <2>2, <2>3, <3>1
  <2> QED
    BY <2>1, <2>3 DEF Apart
<1>7. Batches'
  <2> SUFFICES ASSUME NEW q \in Sweep, Working(q)' PROVE BatchOf(q)'
    BY DEF Batches
  <2>1. CASE q = s
    <3>1. sweep'[s].pc = "mark" /\ sweep'[s].rows = rows /\ rows # {}
      BY <1>5, <2>1 DEF Working, At
    <3>2. \A r, x \in rows : r[1] = x[1] => r = x
      BY <1>3 DEF Row
    <3>3. \A r \in rows : r[2] <= ticket'[r[1]].due
      <4>1. \A r \in rows : r[2] \in Due
        BY <1>3 DEF Row
      <4> QED
        BY <1>2, <1>3, <4>1 DEF DueCounted, Due
    <3> QED
      BY <1>2, <1>3, <1>5, <2>1, <3>1, <3>2, <3>3 DEF BatchOf, Unmarked, At
  <2>2. CASE q # s
    <3>1. sweep'[q] = sweep[q] /\ BatchOf(q)
      BY <1>5, <2>2 DEF OnceInv, Batches, Working, At
    <3>2. Current(q)' = Current(q)
      BY <3>1 DEF Current
    <3> QED
      BY <1>2, <1>5, <3>1, <3>2 DEF BatchOf, Unmarked, At
  <2> QED
    BY <2>1, <2>2
<1>8. Marked' /\ AnnouncedAgainByTwo'
  BY <1>2, <1>5 DEF OnceInv, Marked, AnnouncedAgainByTwo
<1> QED
  BY <1>4, <1>6, <1>7, <1>8 DEF OnceInv

\* A row is marked as due as it was read.
LEMMA MarkOnce ==
  ASSUME DueCounted, OnceInv, NEW s \in Sweep, Mark(s)
  PROVE  OnceInv'
<1> DEFINE c == Current(s)
<1>1. At(s, "mark") /\ BatchOf(s) /\ UNCHANGED <<holder, announced, shared>>
  BY DEF Mark, At, OnceInv, Batches, Working
<1>2. c \in sweep[s].rows /\ c \in Row
  BY <1>1, CurrentIn DEF BatchOf, OnceInv, Shape, SweepState
<1>3. /\ ticket' = [ticket EXCEPT ![c[1]].notified = c[2]]
      /\ sweep' = [sweep EXCEPT ![s] = [sweep[s] EXCEPT !.pc = "announce"]]
  BY DEF Mark, Notified, Enter
<1>4. c[1] \in Ticket /\ c[2] \in Due
  BY <1>2 DEF Row
<1>5. c[2] <= ticket[c[1]].due /\ (c[1] \notin shared => ticket[c[1]].notified < c[2])
  BY <1>1, <1>2 DEF BatchOf, Unmarked
<1>6. \A u \in Ticket : /\ ticket[u] \in TicketRow
                        /\ ticket'[u] = IF u = c[1] THEN [ticket[u] EXCEPT !.notified = c[2]] ELSE ticket[u]
  BY <1>3 DEF OnceInv, Shape
<1>7. c[2] \in 0 .. MaxDue
  BY <1>4 DEF DueCounted, Due
<1>8. \A u \in Ticket : ticket'[u] \in TicketRow
  BY <1>6, <1>7 DEF TicketRow
<1>9. /\ \A q \in Sweep : sweep'[q].rows = sweep[q].rows /\ (q # s => sweep'[q] = sweep[q])
      /\ sweep'[s].pc = "announce" /\ sweep' \in [Sweep -> SweepState]
  BY <1>3 DEF OnceInv, Shape, SweepState
<1>10. Shape'
  BY <1>1, <1>3, <1>8, <1>9 DEF OnceInv, Shape
<1>11. Apart'
  <2>1. \A q \in Sweep, t \in Ticket : InHand(q, t)' <=> InHand(q, t)
    BY <1>9 DEF InHand
  <2>2. \A q \in Sweep : ~Working(q)' => ~Working(q)
    BY <1>9 DEF Working, At
  <2> QED
    BY <1>1, <1>9, <2>1, <2>2 DEF OnceInv, Apart
<1>12. \A u \in Ticket : /\ ticket'[u].due = ticket[u].due
                         /\ ticket'[u].notified = IF u = c[1] THEN c[2] ELSE ticket[u].notified
                         /\ ticket[u].notified \in 0 .. MaxDue /\ ticket[u].due \in Due
  BY <1>6 DEF TicketRow
<1>13. Marked'
  BY <1>1, <1>4, <1>5, <1>12 DEF DueCounted, OnceInv, Marked, Due
<1>14. Batches'
  <2> SUFFICES ASSUME NEW q \in Sweep, Working(q)' PROVE BatchOf(q)'
    BY DEF Batches
  <2>0. BatchOf(q) /\ Current(q)' = Current(q)
    BY <1>1, <1>9 DEF OnceInv, Batches, Working, At, Current
  <2>1. \A r \in sweep[q].rows : r[1] \in Ticket /\ r[2] \in Due
    BY DEF OnceInv, Shape, SweepState, Row
  <2>2. sweep'[q].rows = sweep[q].rows
    BY <1>9
  <2>3. \A r \in sweep[q].rows : r[2] <= ticket'[r[1]].due
    BY <1>12, <2>0, <2>1 DEF BatchOf
  <2>4. ASSUME NEW r \in sweep[q].rows, r[1] \notin shared
        PROVE  (At(q, "mark") \/ r # Current(q) => Unmarked(r))' /\ (At(q, "announce") /\ r = Current(q) => ~Unmarked(r))'
    <3>1. CASE q = s /\ r = c
      <4>1. ~(ticket'[c[1]].notified < c[2])
        BY <1>4, <1>12 DEF DueCounted, Due
      <4>2. ~At(q, "mark")' /\ r = Current(q)'
        BY <1>9, <2>0, <3>1 DEF At
      <4> QED
        BY <3>1, <4>1, <4>2 DEF Unmarked
    <3>2. CASE ~(q = s /\ r = c)
      <4>1. r[1] # c[1]
        <5>1. CASE q = s
          BY <1>1, <1>2, <3>2, <5>1 DEF BatchOf
        <5>2. CASE q # s
          <6>1. InHand(q, r[1]) /\ InHand(s, c[1])
            BY <1>2 DEF InHand
          <6> QED
            BY <2>1, <2>4, <5>2, <6>1 DEF OnceInv, Apart
        <5> QED
          BY <5>1, <5>2
      <4>2. ticket'[r[1]].notified = ticket[r[1]].notified
        BY <1>12, <2>1, <4>1
      <4>3. Unmarked(r)' <=> Unmarked(r)
        BY <4>2 DEF Unmarked
      <4>4. CASE q = s
        BY <1>1, <1>9, <2>0, <2>4, <3>2, <4>3, <4>4 DEF BatchOf, At
      <4>5. CASE q # s
        BY <1>9, <2>0, <2>4, <4>3, <4>5 DEF BatchOf, At
      <4> QED
        BY <4>4, <4>5
    <3> QED
      BY <3>1, <3>2
  <2>5. \A r \in sweep[q].rows : r[1] \notin shared => announced'[r] = 0
    BY <1>1, <2>0 DEF BatchOf
  <2>6. sweep[q].rows # {} /\ \A r, x \in sweep[q].rows : r[1] = x[1] => r = x
    BY <2>0 DEF BatchOf
  <2>7. shared' = shared
    BY <1>1
  <2> QED
    BY <2>2, <2>3, <2>4, <2>5, <2>6, <2>7 DEF BatchOf
<1> QED
  BY <1>1, <1>10, <1>11, <1>13, <1>14 DEF OnceInv, AnnouncedAgainByTwo

\* The row that is announced was never announced before, or is shared.
LEMMA AnnounceOnce ==
  ASSUME DueCounted, OnceInv, NEW s \in Sweep, Announce(s)
  PROVE  OnceInv'
<1> DEFINE c == Current(s)
<1>1. At(s, "announce") /\ BatchOf(s) /\ UNCHANGED <<holder, ticket, shared>>
  BY DEF Announce, At, OnceInv, Batches, Working
<1>2. c \in sweep[s].rows /\ c \in Row
  BY <1>1, CurrentIn DEF BatchOf, OnceInv, Shape, SweepState
<1>3. /\ announced' = [announced EXCEPT ![c] = IF @ = 0 THEN 1 ELSE 2]
      /\ sweep' = [sweep EXCEPT ![s] = AfterRow(s)]
  BY DEF Announce, Tell, Enter
<1>4. c[1] \notin shared => announced[c] = 0
  BY <1>1, <1>2 DEF BatchOf
<1>5. \A r \in Row : announced'[r] = IF r # c THEN announced[r] ELSE IF announced[c] = 0 THEN 1 ELSE 2
  BY <1>3 DEF OnceInv, Shape
<1>6. AfterRow(s) \in SweepState /\ AfterRow(s).pc # "announce"
  BY DEF OnceInv, Shape, SweepState, AfterRow, Idle
<1>7. Shape'
  <2>1. announced' \in [Row -> 0 .. 2]
    BY <1>2, <1>3, <1>5 DEF OnceInv, Shape
  <2>2. sweep' \in [Sweep -> SweepState]
    BY <1>3, <1>6 DEF OnceInv, Shape
  <2> QED
    BY <1>1, <2>1, <2>2 DEF OnceInv, Shape
<1>8. \A q \in Sweep : sweep'[q] = IF q = s THEN AfterRow(s) ELSE sweep[q]
  BY <1>3 DEF OnceInv, Shape
<1> DEFINE rest == sweep[s].rows \ {c}
<1>9. /\ AfterRow(s).rows = rest
      /\ rest # {} <=> AfterRow(s).pc = "mark"
  BY DEF AfterRow, Idle, OnceInv, Shape, SweepState
<1>10. Apart'
  <2>1. \A q \in Sweep, t \in Ticket : InHand(q, t)' => InHand(q, t)
    BY <1>8, <1>9 DEF InHand
  <2>2. \A q \in Sweep : ~Working(q)' => sweep'[q].rows = {}
    BY <1>8, <1>9 DEF Working, At, OnceInv, Apart
  <2> QED
    BY <1>1, <2>1, <2>2 DEF OnceInv, Apart
<1>11. Marked'
  <2> SUFFICES ASSUME NEW t \in Ticket \ shared, NEW d \in Due, announced'[<<t, d>>] > 0 PROVE ticket[t].notified >= d
    BY <1>1 DEF OnceInv, Marked
  <2>0. <<t, d>> \in Row /\ ticket[t].notified \in 0 .. MaxDue
    BY DEF Row, OnceInv, Shape, TicketRow
  <2>1. CASE <<t, d>> = c
    <3>1. ~Unmarked(c) /\ c[1] = t /\ c[2] = d
      BY <1>1, <1>2, <2>1 DEF BatchOf
    <3> QED
      BY <2>0, <3>1 DEF Unmarked, DueCounted, Due
  <2>2. CASE <<t, d>> # c
    BY <1>5, <2>0, <2>2 DEF OnceInv, Marked
  <2> QED
    BY <2>1, <2>2
<1>12. Batches'
  <2> SUFFICES ASSUME NEW q \in Sweep, Working(q)' PROVE BatchOf(q)'
    BY DEF Batches
  <2>1. CASE q = s
    <3>1. rest # {} /\ sweep'[s].pc = "mark" /\ sweep'[s].rows = rest
      BY <1>6, <1>8, <1>9, <2>1 DEF Working, At
    <3>2. \A r \in rest : /\ r \in Row /\ r[2] <= ticket'[r[1]].due
                          /\ r[1] \notin shared => announced'[r] = 0 /\ Unmarked(r)'
      BY <1>1, <1>5 DEF BatchOf, Unmarked, OnceInv, Shape, SweepState
    <3>3. \A r, x \in rest : r[1] = x[1] => r = x
      BY <1>1 DEF BatchOf
    <3> HIDE DEF rest
    <3> QED
      BY <1>1, <2>1, <3>1, <3>2, <3>3 DEF BatchOf, At
  <2>2. CASE q # s
    <3>1. sweep'[q] = sweep[q] /\ BatchOf(q)
      BY <1>8, <2>2 DEF OnceInv, Batches, Working, At
    <3>2. Current(q)' = Current(q)
      BY <3>1 DEF Current
    <3>3. \A r \in sweep[q].rows : r \in Row
      BY DEF OnceInv, Shape, SweepState
    <3>4. ASSUME NEW r \in sweep[q].rows, r[1] \notin shared PROVE r # c
      <4>1. InHand(q, r[1]) /\ InHand(s, c[1]) /\ r[1] \in Ticket
        BY <1>2, <3>3 DEF InHand, Row
      <4> QED
        BY <2>2, <3>4, <4>1 DEF OnceInv, Apart
    <3>5. \A r \in sweep[q].rows : r[1] \notin shared => announced'[r] = 0
      BY <1>5, <3>1, <3>3, <3>4 DEF BatchOf
    <3> QED
      BY <1>1, <3>1, <3>2, <3>5 DEF BatchOf, Unmarked, At
  <2> QED
    BY <2>1, <2>2
<1>13. AnnouncedAgainByTwo'
  <2> SUFFICES ASSUME NEW r \in Row, announced'[r] > 1 PROVE r[1] \in shared
    BY <1>1 DEF AnnouncedAgainByTwo
  <2> QED
    BY <1>4, <1>5 DEF OnceInv, AnnouncedAgainByTwo
<1> QED
  BY <1>7, <1>10, <1>11, <1>12, <1>13 DEF OnceInv

\* A sweep that starts, and one that dies, has no ticket in hand.
LEMMA SwitchOnce ==
  ASSUME DueCounted, OnceInv, NEW s \in Sweep, Start(s) \/ Crash(s)
  PROVE  OnceInv'
<1>1. UNCHANGED <<ticket, announced, shared>>
  BY DEF Start, Crash
<1>2. /\ \A q \in Sweep : q # s => sweep'[q] = sweep[q]
      /\ sweep'[s].pc \in {"idle", "select"} /\ sweep'[s].rows = {}
      /\ sweep' \in [Sweep -> SweepState]
  <2>1. sweep \in [Sweep -> SweepState]
    BY DEF OnceInv, Shape
  <2>2. PICK to : /\ to = Idle \/ to = [Idle EXCEPT !.pc = "select"]
                  /\ sweep' = [sweep EXCEPT ![s] = to]
    BY DEF Start, Crash, Enter
  <2>3. /\ Idle \in SweepState /\ Idle.pc = "idle" /\ Idle.rows = {}
        /\ [Idle EXCEPT !.pc = "select"] \in SweepState
        /\ [Idle EXCEPT !.pc = "select"].pc = "select" /\ [Idle EXCEPT !.pc = "select"].rows = {}
    BY DEF SweepState, Idle
  <2>4. to \in SweepState /\ to.pc \in {"idle", "select"} /\ to.rows = {}
    BY <2>2, <2>3
  <2> QED
    BY <2>1, <2>2, <2>4
<1>3. Shape'
  <2>1. s[1] \in Process
    BY DEF Sweep
  <2> QED
    BY <1>1, <1>2, <2>1 DEF Start, Crash, OnceInv, Shape
<1>4. Apart'
  <2>1. \A q \in Sweep, t \in Ticket : InHand(q, t)' => InHand(q, t)
    BY <1>2 DEF InHand
  <2>2. \A q \in Sweep : ~Working(q)' => sweep'[q].rows = {}
    BY <1>2 DEF Working, At, OnceInv, Apart
  <2> QED
    BY <1>1, <2>1, <2>2 DEF OnceInv, Apart
<1>5. Batches'
  <2> SUFFICES ASSUME NEW q \in Sweep, Working(q)' PROVE BatchOf(q)'
    BY DEF Batches
  <2>1. sweep'[q] = sweep[q] /\ BatchOf(q)
    BY <1>2 DEF OnceInv, Batches, Working, At
  <2>2. Current(q)' = Current(q)
    BY <2>1 DEF Current
  <2> QED
    BY <1>1, <2>1, <2>2 DEF BatchOf, Unmarked, At
<1> QED
  BY <1>1, <1>3, <1>4, <1>5 DEF OnceInv, Marked, AnnouncedAgainByTwo

\* The lease lapses, or nothing happens.
LEMMA LapseOnce ==
  ASSUME DueCounted, OnceInv, Lapse \/ UNCHANGED vars
  PROVE  OnceInv'
<1>1. UNCHANGED <<ticket, sweep, announced, shared>>
  BY DEF Lapse, vars
<1>2. Shape' /\ Apart'
  BY <1>1 DEF Lapse, vars, OnceInv, Shape, Apart, Working, InHand, At
<1>3. \A s \in Sweep : Current(s)' = Current(s)
  BY <1>1 DEF Current
<1>4. Batches'
  BY <1>1, <1>3 DEF OnceInv, Batches, BatchOf, Unmarked, Working, At
<1> QED
  BY <1>1, <1>2, <1>4 DEF OnceInv, Marked, AnnouncedAgainByTwo

\* No step announces a breach a second time while its ticket is in one hand.
LEMMA NextOnce == DueCounted /\ OnceInv /\ [Next]_vars => OnceInv'
<1> SUFFICES ASSUME DueCounted, OnceInv, [Next]_vars PROVE OnceInv'
  OBVIOUS
<1>1. ASSUME NEW s \in Sweep, Start(s) \/ SweepStep(s) \/ Crash(s) PROVE OnceInv'
  BY <1>1, SwitchOnce, SelectOnce, MarkOnce, AnnounceOnce DEF SweepStep
<1>2. ASSUME NEW t \in Ticket, Passes(t) \/ MoveDue(t) \/ SetOpen(t) PROVE OnceInv'
  <2>1. ticket[t] \in TicketRow
    BY DEF OnceInv, Shape
  <2>0. ticket[t].due >= ticket[t].due
    BY <2>1 DEF TicketRow, Due, DueCounted
  <2>2. CASE Passes(t)
    <3> DEFINE to == [ticket[t] EXCEPT !.past = TRUE]
    <3>1. to \in TicketRow /\ to.notified = ticket[t].notified /\ to.due = ticket[t].due
      BY <2>1 DEF TicketRow
    <3> QED
      BY <2>0, <2>2, <3>1, EditOnce DEF Passes
  <2>3. CASE MoveDue(t)
    <3> DEFINE to == [ticket[t] EXCEPT !.due = @ + 1, !.past = FALSE]
    <3>1. ticket[t].due + 1 \in Due /\ ticket[t].due + 1 >= ticket[t].due
      BY <2>1, <2>3 DEF TicketRow, Due, DueCounted, MoveDue
    <3>2. to \in TicketRow /\ to.notified = ticket[t].notified /\ to.due >= ticket[t].due
      BY <2>1, <3>1 DEF TicketRow
    <3> QED
      BY <2>3, <3>2, EditOnce DEF MoveDue
  <2>4. CASE SetOpen(t)
    <3> DEFINE to == [ticket[t] EXCEPT !.open = ~@]
    <3>1. to \in TicketRow /\ to.notified = ticket[t].notified /\ to.due = ticket[t].due
      BY <2>1 DEF TicketRow
    <3> QED
      BY <2>0, <2>4, <3>1, EditOnce DEF SetOpen
  <2> QED
    BY <1>2, <2>2, <2>3, <2>4
<1> QED
  BY <1>1, <1>2, LapseOnce DEF Next

\* A breach is announced again only when two sweeps had its ticket in hand at
\* once, whoever sweeps, in how many processes, whether or not the lease holds
\* for so long, and whoever dies or moves due dates (checkBreaches).
THEOREM AgainOnlyByTwo == DueCounted /\ Spec => []AnnouncedAgainByTwo
<1> SUFFICES ASSUME DueCounted PROVE Spec => []AnnouncedAgainByTwo
  OBVIOUS
<1>1. OnceInv => AnnouncedAgainByTwo
  BY DEF OnceInv
<1> QED
  BY InitOnce, NextOnce, <1>1, PTL DEF Spec

\* There is room for a number of crashes.
CrashesCounted == MaxCrashes \in Nat

\* The types, with the bounds of what is counted.
SweepInv == OnceInv /\ crashes \in 0 .. MaxCrashes

\* Every ticket and sweep is well typed, over any crashes (checkBreaches).
THEOREM SweepsTyped == DueCounted /\ CrashesCounted /\ Spec => []TypeOK
<1> SUFFICES ASSUME DueCounted, CrashesCounted PROVE Spec => []TypeOK
  OBVIOUS
<1>1. Init => SweepInv
  BY InitOnce DEF Init, SweepInv, CrashesCounted
<1>2. SweepInv /\ [Next]_vars => SweepInv'
  <2> SUFFICES ASSUME SweepInv, [Next]_vars PROVE crashes' \in 0 .. MaxCrashes
    BY NextOnce DEF SweepInv
  <2>1. ASSUME NEW s \in Sweep, Start(s) \/ SweepStep(s) \/ Crash(s) PROVE crashes' \in 0 .. MaxCrashes
    BY <2>1 DEF Start, SweepStep, Select, Mark, Announce, Crash, SweepInv, CrashesCounted
  <2>2. ASSUME NEW t \in Ticket, Passes(t) \/ MoveDue(t) \/ SetOpen(t) PROVE crashes' \in 0 .. MaxCrashes
    BY <2>2 DEF Passes, MoveDue, SetOpen, Edit, SweepInv
  <2> QED
    BY <2>1, <2>2 DEF Next, Lapse, vars, SweepInv
<1>3. SweepInv => TypeOK
  BY DEF SweepInv, OnceInv, Shape, TypeOK, TicketRow, SweepState
<1> QED
  BY <1>1, <1>2, <1>3, PTL DEF Spec

-----------------------------------------------------------------------------
(* Notices of maintenance. *)

Tick ==
  [stage : {"idle", "occurrences", "cancelled"}, pc : {"next", "write", "send"},
   todo : SUBSET Maintenance!Notice, seen : SUBSET Maintenance!Notice]

\* What was sent is remembered.
SentIsNoted == \A n \in Maintenance!Notice : sent[n] <= 1 /\ (n \notin noted => sent[n] = 0)

\* The notice in hand is new when it is written down, and not sent when it is
\* about to be; what is written was read just before.
Carried(p) ==
  /\ ticker[p].stage = "idle" => ticker[p].pc = "next" /\ ticker[p].todo = {}
  /\ ticker[p].pc # "next" => ticker[p].todo # {}
  /\ ticker[p].pc = "write" => ticker[p].seen = noted /\ Maintenance!Current(p) \notin noted
  /\ ticker[p].pc = "send" => Maintenance!Current(p) \in noted /\ sent[Maintenance!Current(p)] = 0

NoticeInv ==
  /\ noted \subseteq Maintenance!Notice
  /\ ticker \in [Process -> Tick]
  /\ sent \in [Maintenance!Notice -> Nat]
  /\ SentIsNoted
  /\ \A p \in Process : Carried(p)

\* One process ticks at a time: the leader.
OneTicker == \A p, q \in Process : p = q

LEMMA InitNotice == Maintenance!Init => NoticeInv
BY DEF Maintenance!Init, Maintenance!Idle, NoticeInv, Tick, SentIsNoted, Carried

\* The one process that ticks, and nothing said or remembered meanwhile.
LEMMA NoticeMoves ==
  ASSUME OneTicker, NoticeInv, NEW p \in Process, NEW t \in Tick, t.pc = "next", t.stage = "idle" => t.todo = {},
         ticker' = [ticker EXCEPT ![p] = t], UNCHANGED <<noted, sent>>
  PROVE  NoticeInv'
<1>1. ticker' \in [Process -> Tick] /\ \A q \in Process : ticker'[q] = t
  BY DEF NoticeInv, OneTicker
<1>2. \A q \in Process : Carried(q)'
  BY <1>1 DEF Carried
<1> QED
  BY <1>1, <1>2 DEF NoticeInv, SentIsNoted

LEMMA ReadNotice ==
  ASSUME OneTicker, NoticeInv, NEW p \in Process, Maintenance!Read(p)
  PROVE  NoticeInv'
<1>1. ticker[p] \in Tick /\ ticker[p].pc = "next"
  BY DEF NoticeInv, Carried, Maintenance!Read
<1>2. PICK n \in SUBSET Maintenance!Notice :
        ticker' = [ticker EXCEPT ![p].stage = "occurrences", ![p].todo = n]
  BY DEF Maintenance!Read
<1>3. PICK t : t = [ticker[p] EXCEPT !.stage = "occurrences", !.todo = n]
  OBVIOUS
<1>4. t \in Tick /\ t.pc = "next" /\ t.stage # "idle"
  BY <1>1, <1>3 DEF Tick
<1>5. ticker' = [ticker EXCEPT ![p] = t]
  BY <1>2, <1>3 DEF NoticeInv
<1> QED
  BY <1>4, <1>5, NoticeMoves DEF Maintenance!Read

LEMMA ReadCancelledNotice ==
  ASSUME OneTicker, NoticeInv, NEW p \in Process, Maintenance!ReadCancelled(p)
  PROVE  NoticeInv'
<1>1. ticker[p] \in Tick /\ ticker[p].pc = "next"
  BY DEF NoticeInv, Carried, Tick, Maintenance!ReadCancelled
<1>2. Maintenance!CutShort \subseteq Maintenance!Notice
  <2> SUFFICES ASSUME NEW n \in Maintenance!CutShort PROVE n \in Maintenance!Notice
    OBVIOUS
  <2>1. PICK k \in Maintenance!Occurrence : n = <<k, "ended">>
    BY DEF Maintenance!CutShort
  <2> QED
    BY <2>1 DEF Maintenance!Notice, Maintenance!What
<1>3. PICK t : t = [ticker[p] EXCEPT !.stage = "cancelled", !.todo = Maintenance!CutShort]
  OBVIOUS
<1>4. t \in Tick /\ t.pc = "next" /\ t.stage # "idle"
  BY <1>1, <1>2, <1>3 DEF Tick
<1>5. ticker' = [ticker EXCEPT ![p] = t]
  BY <1>3 DEF NoticeInv, Maintenance!ReadCancelled
<1> QED
  BY <1>4, <1>5, NoticeMoves DEF Maintenance!ReadCancelled

LEMMA EndNotice ==
  ASSUME OneTicker, NoticeInv, NEW p \in Process, Maintenance!End(p) \/ Maintenance!Crash(p)
  PROVE  NoticeInv'
<1>1. Maintenance!Idle \in Tick /\ Maintenance!Idle.pc = "next" /\ Maintenance!Idle.todo = {}
  BY DEF Maintenance!Idle, Tick
<1>2. ticker' = [ticker EXCEPT ![p] = Maintenance!Idle] /\ UNCHANGED <<noted, sent>>
  BY DEF Maintenance!End, Maintenance!Crash
<1> QED
  BY <1>1, <1>2, NoticeMoves

LEMMA MarkReadNotice ==
  ASSUME OneTicker, NoticeInv, NEW p \in Process, Maintenance!MarkRead(p)
  PROVE  NoticeInv'
<1>1. ticker[p] \in Tick /\ ticker[p].pc = "next" /\ ticker[p].todo # {} /\ UNCHANGED <<noted, sent>>
  BY DEF NoticeInv, Maintenance!MarkRead
<1>0. ticker[p].stage # "idle"
  BY <1>1 DEF NoticeInv, Carried
<1>2. CASE Maintenance!Current(p) \in noted
  <2>1. ticker' = [ticker EXCEPT ![p] = Maintenance!Dropped(p)]
    BY <1>2 DEF Maintenance!MarkRead
  <2>2. Maintenance!Dropped(p) \in Tick /\ Maintenance!Dropped(p).pc = "next" /\ Maintenance!Dropped(p).stage # "idle"
    BY <1>1, <1>0 DEF Tick, Maintenance!Dropped
  <2> QED
    BY <1>1, <2>1, <2>2, NoticeMoves
<1>3. CASE Maintenance!Current(p) \notin noted
  <2>1. PICK t : t = [ticker[p] EXCEPT !.pc = "write", !.seen = noted]
    OBVIOUS
  <2>2. t \in Tick /\ t.pc = "write" /\ t.seen = noted /\ t.todo = ticker[p].todo /\ t.stage = ticker[p].stage
    BY <1>1, <2>1 DEF Tick, NoticeInv
  <2>3. ticker' = [ticker EXCEPT ![p] = t]
    BY <1>3, <2>1 DEF Maintenance!MarkRead, NoticeInv
  <2>4. ticker' \in [Process -> Tick] /\ \A q \in Process : q = p /\ ticker'[q] = t
    BY <2>2, <2>3 DEF NoticeInv, OneTicker
  <2>5. Maintenance!Current(p)' = Maintenance!Current(p)
    BY <2>2, <2>4 DEF Maintenance!Current
  <2>6. t.stage # "idle"
    BY <1>0, <2>2
  <2>7. \A q \in Process : Carried(q)'
    BY <1>1, <1>3, <2>2, <2>4, <2>5, <2>6 DEF Carried
  <2> QED
    BY <1>1, <2>4, <2>7 DEF NoticeInv, SentIsNoted
<1> QED
  BY <1>2, <1>3

LEMMA MarkWriteNotice ==
  ASSUME OneTicker, NoticeInv, NEW p \in Process, Maintenance!MarkWrite(p)
  PROVE  NoticeInv'
<1>1. ticker[p] \in Tick /\ ticker[p].pc = "write" /\ sent' = sent
  BY DEF NoticeInv, Maintenance!MarkWrite
<1>2. PICK n : n = Maintenance!Current(p)
  OBVIOUS
<1>3. n \in ticker[p].todo /\ n \in Maintenance!Notice /\ n \notin noted /\ ticker[p].seen = noted
      /\ ticker[p].stage # "idle"
  BY <1>1, <1>2 DEF NoticeInv, Carried, Tick, Maintenance!Current
<1>4. noted' = noted \cup {n}
  BY <1>2, <1>3 DEF Maintenance!MarkWrite
<1>5. PICK t : t = [ticker[p] EXCEPT !.pc = "send"]
  OBVIOUS
<1>6. t \in Tick /\ t.pc = "send" /\ t.todo = ticker[p].todo /\ t.stage = ticker[p].stage
  BY <1>1, <1>5 DEF Tick
<1>7. ticker' = [ticker EXCEPT ![p] = t]
  BY <1>5 DEF NoticeInv, Maintenance!MarkWrite
<1>8. ticker' \in [Process -> Tick] /\ \A q \in Process : q = p /\ ticker'[q] = t
  BY <1>6, <1>7 DEF NoticeInv, OneTicker
<1>9. Maintenance!Current(p)' = n
  BY <1>2, <1>6, <1>8 DEF Maintenance!Current
<1>10. sent[n] = 0
  BY <1>3 DEF NoticeInv, SentIsNoted
<1>11. \A q \in Process : Carried(q)'
  BY <1>1, <1>3, <1>4, <1>6, <1>8, <1>9, <1>10 DEF Carried
<1>12. SentIsNoted'
  BY <1>1, <1>4 DEF NoticeInv, SentIsNoted
<1> QED
  BY <1>1, <1>3, <1>4, <1>8, <1>11, <1>12 DEF NoticeInv

LEMMA SendNotice ==
  ASSUME OneTicker, NoticeInv, NEW p \in Process, Maintenance!Send(p)
  PROVE  NoticeInv'
<1>1. ticker[p] \in Tick /\ ticker[p].pc = "send" /\ noted' = noted
  BY DEF NoticeInv, Maintenance!Send
<1>2. PICK n : n = Maintenance!Current(p)
  OBVIOUS
<1>3. n \in Maintenance!Notice /\ n \in noted /\ sent[n] = 0 /\ ticker[p].stage # "idle"
  BY <1>1, <1>2 DEF NoticeInv, Carried, Tick, Maintenance!Current
<1>4. sent' = [sent EXCEPT ![n] = 1]
  BY <1>2, <1>3 DEF Maintenance!Send, NoticeInv
<1>5. PICK t : t = [Maintenance!Dropped(p) EXCEPT !.seen = {}]
  OBVIOUS
<1>6. t \in Tick /\ t.pc = "next" /\ t.stage = ticker[p].stage
  BY <1>1, <1>5 DEF Tick, Maintenance!Dropped
<1>7. ticker' = [ticker EXCEPT ![p] = t]
  BY <1>5 DEF Maintenance!Send
<1>8. ticker' \in [Process -> Tick] /\ \A q \in Process : ticker'[q] = t
  BY <1>6, <1>7 DEF NoticeInv, OneTicker
<1>9. \A q \in Process : Carried(q)'
  BY <1>3, <1>6, <1>8 DEF Carried
<1>10. SentIsNoted' /\ sent' \in [Maintenance!Notice -> Nat]
  BY <1>1, <1>3, <1>4 DEF NoticeInv, SentIsNoted
<1> QED
  BY <1>1, <1>8, <1>9, <1>10 DEF NoticeInv

LEMMA NextNotice == OneTicker /\ NoticeInv /\ [Maintenance!Next]_(Maintenance!vars) => NoticeInv'
<1> SUFFICES ASSUME OneTicker, NoticeInv, [Maintenance!Next]_(Maintenance!vars) PROVE NoticeInv'
  OBVIOUS
<1>1. ASSUME NEW p \in Process, Maintenance!TickStep(p) PROVE NoticeInv'
  BY <1>1, ReadNotice, ReadCancelledNotice, EndNotice, MarkReadNotice, MarkWriteNotice, SendNotice
     DEF Maintenance!TickStep
<1>2. ASSUME NEW p \in Process, Maintenance!Crash(p) PROVE NoticeInv'
  BY <1>2, EndNotice
<1>3. ASSUME UNCHANGED <<noted, ticker, sent>> PROVE NoticeInv'
  BY <1>3 DEF NoticeInv, SentIsNoted, Carried, Maintenance!Current
<1>4. ASSUME NEW k \in Maintenance!Occurrence, Maintenance!Advance(k) \/ Maintenance!EndNow(k) \/ Maintenance!Skip(k)
      PROVE  NoticeInv'
  BY <1>3, <1>4 DEF Maintenance!Advance, Maintenance!EndNow, Maintenance!Skip
<1>5. CASE Maintenance!Cancel
  BY <1>3, <1>5 DEF Maintenance!Cancel
<1>6. CASE UNCHANGED Maintenance!vars
  BY <1>3, <1>6 DEF Maintenance!vars
<1> QED
  BY <1>1, <1>2, <1>4, <1>5, <1>6 DEF Maintenance!Next

\* "a restart or a second instance never sends it twice", of the notices of an
\* occurrence, by the one process that ticks, over any crashes and edits.
THEOREM NoticesOnce == OneTicker /\ Maintenance!Spec => []Maintenance!SentOnce
<1> SUFFICES ASSUME OneTicker PROVE Maintenance!Spec => []Maintenance!SentOnce
  OBVIOUS
<1>1. Maintenance!Spec => []NoticeInv
  BY InitNotice, NextNotice, PTL DEF Maintenance!Spec
<1>2. NoticeInv => Maintenance!SentOnce
  BY DEF NoticeInv, SentIsNoted, Maintenance!SentOnce
<1> QED
  BY <1>1, <1>2, PTL

\* The types of a window and its tick, with the bounds of what is counted.
WindowInv ==
  /\ NoticeInv
  /\ phase \in [Maintenance!Occurrence -> {"ahead", "soon", "running", "over"}]
  /\ skipped \subseteq Maintenance!Occurrence /\ cancelled \in BOOLEAN
  /\ deaths \in 0 .. MaxCrashes

\* Every window and tick is well typed, over any crashes, skips and
\* cancellations (server/ops/maintenance.ts).
THEOREM NoticesTyped == OneTicker /\ CrashesCounted /\ Maintenance!Spec => []Maintenance!TypeOK
<1> SUFFICES ASSUME OneTicker, CrashesCounted PROVE Maintenance!Spec => []Maintenance!TypeOK
  OBVIOUS
<1>1. Maintenance!Init => WindowInv
  <2> SUFFICES ASSUME Maintenance!Init PROVE WindowInv
    OBVIOUS
  <2>1. deaths \in 0 .. MaxCrashes
    BY DEF Maintenance!Init, CrashesCounted
  <2> QED
    BY <2>1, InitNotice DEF Maintenance!Init, WindowInv
<1>2. WindowInv /\ [Maintenance!Next]_(Maintenance!vars) => WindowInv'
  <2> SUFFICES ASSUME WindowInv, [Maintenance!Next]_(Maintenance!vars) PROVE WindowInv'
    OBVIOUS
  <2>0. NoticeInv'
    BY NextNotice DEF WindowInv
  <2>1. ASSUME NEW p \in Process, Maintenance!TickStep(p) PROVE WindowInv'
    BY <2>0, <2>1 DEF WindowInv, Maintenance!TickStep, Maintenance!Read, Maintenance!ReadCancelled, Maintenance!End,
                Maintenance!MarkRead, Maintenance!MarkWrite, Maintenance!Send
  <2>2. ASSUME NEW p \in Process, Maintenance!Crash(p) PROVE WindowInv'
    <3>1. deaths' \in 0 .. MaxCrashes
      BY <2>2 DEF WindowInv, Maintenance!Crash, CrashesCounted
    <3> QED
      BY <2>0, <2>2, <3>1 DEF WindowInv, Maintenance!Crash
  <2>3. ASSUME NEW k \in Maintenance!Occurrence, Maintenance!Advance(k) PROVE WindowInv'
    <3>1. PICK to \in {"soon", "running", "over"} : phase' = [phase EXCEPT ![k] = to]
      <4>1. phase[k] \in {"ahead", "soon", "running"}
        BY <2>3 DEF Maintenance!Advance, WindowInv
      <4> QED
        BY <2>3, <4>1 DEF Maintenance!Advance
    <3> QED
      BY <2>0, <2>3, <3>1 DEF Maintenance!Advance, WindowInv
  <2>4. ASSUME NEW k \in Maintenance!Occurrence, Maintenance!EndNow(k) \/ Maintenance!Skip(k) PROVE WindowInv'
    BY <2>0, <2>4 DEF Maintenance!EndNow, Maintenance!Skip, WindowInv
  <2>5. CASE Maintenance!Cancel \/ UNCHANGED Maintenance!vars
    BY <2>0, <2>5 DEF Maintenance!Cancel, Maintenance!vars, WindowInv
  <2> QED
    BY <2>1, <2>2, <2>3, <2>4, <2>5 DEF Maintenance!Next
<1>3. WindowInv => Maintenance!TypeOK
  <2> SUFFICES ASSUME WindowInv PROVE Maintenance!TypeOK
    OBVIOUS
  <2>1. sent \in [Maintenance!Notice -> 0 .. 2]
    BY DEF WindowInv, NoticeInv, SentIsNoted
  <2> QED
    BY <2>1 DEF WindowInv, NoticeInv, Tick, Maintenance!TypeOK
<1> QED
  BY <1>1, <1>2, <1>3, PTL DEF Maintenance!Spec

-----------------------------------------------------------------------------
(* Monitors. *)

OneHandler == \A j, k \in Job : j = k

\* Handlers do not overlap, and go on to their end.
Undisturbed == MaxThreshold \in Nat \ {0} /\ OneHandler /\ MaxFaults = 0

\* The row never counts more failures than there were since the last good
\* result, nor does a copy of it; a result about to be stored has been counted.
\* The state of the row is as its one handler read it.
Counted(h) ==
  /\ h.pc \in {"claim", "probe", "touch", "store"} => h.row.state = monitor.state
  /\ h.pc # "store" => monitor.failures =< streak
  /\ h.pc \in {"claim", "probe", "touch"} => h.row.failures =< streak
  /\ h.pc = "store" /\ ~h.ok => Monitors!Capped(h.row.failures) =< streak

StreakInv ==
  /\ monitor \in Monitors!Row
  /\ job \in [Job -> Monitors!JobRecord]
  /\ streak \in 0 .. MaxThreshold
  /\ Job = {} => monitor.failures =< streak
  /\ \A j \in Job : Counted(job[j])

\* A row of the monitor, and a row it may have turned into.
LEMMA CappedMore ==
  ASSUME MaxThreshold \in Nat \ {0}
  PROVE  \A n \in 0 .. MaxThreshold :
           /\ Monitors!Capped(n) \in 0 .. MaxThreshold
           /\ \A m \in 0 .. MaxThreshold : n =< m => Monitors!Capped(n) =< Monitors!Capped(m)
BY DEF Monitors!Capped

LEMMA FreshRow ==
  ASSUME MaxThreshold \in Nat \ {0}
  PROVE  /\ \A kind \in Monitors!Kind : Monitors!New(kind) \in Monitors!Row /\ Monitors!New(kind).failures = 0
         /\ Monitors!Idle \in Monitors!JobRecord /\ Monitors!Idle.pc = "idle"
<1>1. \A kind \in Monitors!Kind : Monitors!New(kind) \in Monitors!Row /\ Monitors!New(kind).failures = 0
  BY DEF Monitors!New, Monitors!Row, Monitors!Kind
<1>2. Monitors!New("probe") \in Monitors!Row
  BY <1>1 DEF Monitors!Kind
<1> QED
  BY <1>1, <1>2 DEF Monitors!Idle, Monitors!JobRecord

LEMMA InitStreak == Undisturbed /\ Monitors!Init => StreakInv
<1> SUFFICES ASSUME Undisturbed, Monitors!Init PROVE StreakInv
  OBVIOUS
<1>1. PICK kind \in Monitors!Kind : monitor = Monitors!New(kind)
  BY DEF Monitors!Init
<1>2. monitor \in Monitors!Row /\ monitor.failures = 0 /\ Monitors!Idle \in Monitors!JobRecord /\ Monitors!Idle.pc = "idle"
  BY <1>1, FreshRow DEF Undisturbed
<1>3. job = [j \in Job |-> Monitors!Idle] /\ streak = 0
  BY DEF Monitors!Init
<1> QED
  BY <1>2, <1>3 DEF StreakInv, Counted, Undisturbed

\* One handler, and what it is afterwards.
LEMMA HandlerStreak ==
  ASSUME Undisturbed, StreakInv, NEW j \in Job, NEW h \in Monitors!JobRecord, job' = [job EXCEPT ![j] = h],
         monitor' \in Monitors!Row, streak' \in 0 .. MaxThreshold,
         h.pc \in {"claim", "probe", "touch", "store"} => h.row.state = monitor'.state,
         h.pc # "store" => monitor'.failures =< streak',
         h.pc \in {"claim", "probe", "touch"} => h.row.failures =< streak',
         h.pc = "store" /\ ~h.ok => Monitors!Capped(h.row.failures) =< streak'
  PROVE  StreakInv'
<1>1. job' \in [Job -> Monitors!JobRecord] /\ \A k \in Job : job'[k] = h
  BY DEF StreakInv, Undisturbed, OneHandler
<1> QED
  BY <1>1 DEF StreakInv, Counted, Monitors!Capped

LEMMA StartStreak ==
  ASSUME Undisturbed, StreakInv, NEW j \in Job, NEW op \in Monitors!Op, NEW pc \in {"claim", "probe", "touch"},
         Monitors!Start(j, op, pc)
  PROVE  StreakInv'
<1>1. job[j].pc = "idle" /\ UNCHANGED <<monitor, streak>>
  BY DEF Monitors!Start, Monitors!At
<1>2. monitor.failures =< streak
  BY <1>1 DEF StreakInv, Counted
<1>3. PICK h : h = [op |-> op, row |-> monitor, ok |-> FALSE, pc |-> pc]
  OBVIOUS
<1>4. h \in Monitors!JobRecord /\ h.pc = pc /\ h.row = monitor
  BY <1>3 DEF Monitors!JobRecord, StreakInv
<1>5. job' = [job EXCEPT ![j] = h]
  BY <1>3 DEF Monitors!Start
<1> QED
  BY <1>1, <1>2, <1>4, <1>5, HandlerStreak DEF StreakInv

LEMMA ClaimStreak ==
  ASSUME Undisturbed, StreakInv, NEW j \in Job, Monitors!Claim(j)
  PROVE  StreakInv'
<1>1. job[j] \in Monitors!JobRecord /\ job[j].pc = "claim" /\ streak' = streak
  BY DEF StreakInv, Monitors!Claim, Monitors!At
<1>2. monitor' \in Monitors!Row /\ monitor'.failures = monitor.failures /\ monitor'.state = monitor.state
  BY DEF StreakInv, Monitors!Claim, Monitors!Row
<1>3. monitor.failures =< streak /\ job[j].row.failures =< streak /\ job[j].row.state = monitor.state
  BY <1>1 DEF StreakInv, Counted
<1>4. PICK h : h = [job[j] EXCEPT !.pc = "probe"]
  OBVIOUS
<1>5. h \in Monitors!JobRecord /\ h.pc = "probe" /\ h.row = job[j].row
  BY <1>1, <1>4 DEF Monitors!JobRecord
<1>6. job' = [job EXCEPT ![j] = h]
  BY <1>4 DEF StreakInv, Monitors!Claim, Monitors!GoTo
<1> QED
  BY <1>1, <1>2, <1>3, <1>5, <1>6, HandlerStreak DEF StreakInv

\* What a check finds is counted at once.
LEMMA FindingStreak ==
  ASSUME Undisturbed, StreakInv, NEW j \in Job, NEW ok \in BOOLEAN, NEW row \in Monitors!Row,
         job[j].row.failures = row.failures, job[j].row.state = row.state, job[j].pc \in {"probe", "touch"},
         job' = [job EXCEPT ![j] = Monitors!Finding(j, ok, row)], streak' = Monitors!StreakAfter(ok),
         monitor' \in Monitors!Row, monitor'.state = monitor.state
  PROVE  StreakInv'
<1>1. /\ job[j] \in Monitors!JobRecord /\ streak \in 0 .. MaxThreshold
      /\ job[j].row.failures =< streak /\ job[j].row.state = monitor.state
  BY DEF StreakInv, Counted
<1>2. PICK h : h = Monitors!Finding(j, ok, row)
  OBVIOUS
<1>3. h \in Monitors!JobRecord /\ h.pc = "store" /\ h.ok = ok /\ h.row = row
  BY <1>1, <1>2 DEF Monitors!Finding, Monitors!JobRecord
<1>4. row.failures \in 0 .. MaxThreshold /\ row.failures =< streak
  BY <1>1 DEF Monitors!Row
<1>5. /\ Monitors!Capped(streak) \in 0 .. MaxThreshold
      /\ Monitors!Capped(row.failures) =< Monitors!Capped(streak)
  BY <1>1, <1>4, CappedMore DEF Undisturbed
<1>6. streak' \in 0 .. MaxThreshold /\ (~ok => Monitors!Capped(row.failures) =< streak')
  BY <1>5 DEF Monitors!StreakAfter, Undisturbed
<1> QED
  BY <1>1, <1>2, <1>3, <1>6, HandlerStreak

LEMMA ProbeStreak ==
  ASSUME Undisturbed, StreakInv, NEW j \in Job, Monitors!Probe(j)
  PROVE  StreakInv'
<1>1. job[j] \in Monitors!JobRecord /\ job[j].pc = "probe" /\ monitor' = monitor
  BY DEF StreakInv, Monitors!Probe, Monitors!At
<1>2. job[j].row \in Monitors!Row
  BY <1>1 DEF Monitors!JobRecord
<1>3. PICK ok : ok = Monitors!Healthy(job[j].row)
  OBVIOUS
<1>4. /\ job' = [job EXCEPT ![j] = Monitors!Finding(j, ok, job[j].row)]
      /\ streak' = Monitors!StreakAfter(ok)
  BY <1>3 DEF Monitors!Probe
<1>5. ok \in BOOLEAN
  BY <1>2, <1>3 DEF Monitors!Healthy, Monitors!Row
<1> QED
  BY <1>1, <1>2, <1>4, <1>5, FindingStreak DEF StreakInv

LEMMA TouchStreak ==
  ASSUME Undisturbed, StreakInv, NEW j \in Job, Monitors!Touch(j)
  PROVE  StreakInv'
<1>1. job[j] \in Monitors!JobRecord /\ job[j].pc = "touch" /\ monitor \in Monitors!Row
  BY DEF StreakInv, Monitors!Touch, Monitors!At
<1>2. PICK fail \in BOOLEAN : fail = (job[j].op = "fail")
  OBVIOUS
<1>3. PICK row : row = [job[j].row EXCEPT !.failed = fail, !.late = IF fail THEN @ ELSE FALSE]
  OBVIOUS
<1>4. job[j].row \in Monitors!Row
  BY <1>1 DEF Monitors!JobRecord
<1>5. row \in Monitors!Row /\ row.failures = job[j].row.failures /\ row.state = job[j].row.state
  BY <1>3, <1>4 DEF Monitors!Row
<1>6. monitor' \in Monitors!Row /\ monitor'.failures = monitor.failures /\ monitor'.state = monitor.state
  <2>1. monitor' = [monitor EXCEPT !.failed = fail, !.late = IF fail THEN @ ELSE FALSE]
    BY <1>2 DEF Monitors!Touch
  <2> QED
    BY <1>1, <2>1 DEF Monitors!Row
<1>7. /\ streak' = IF row.enabled THEN Monitors!StreakAfter(~fail) ELSE streak
      /\ \E late \in BOOLEAN :
           job' = [k \in Job |->
             IF k = j THEN IF ~row.enabled THEN Monitors!Idle
                           ELSE Monitors!Finding(j, ~fail, [row EXCEPT !.threshold = IF fail THEN 1 ELSE @])
             ELSE IF k \in Monitors!Overtaken(j, late) THEN [job[k] EXCEPT !.row.late = TRUE] ELSE job[k]]
  BY <1>2, <1>3 DEF Monitors!Touch
<1>8. CASE ~row.enabled
  <2>1. job' = [job EXCEPT ![j] = Monitors!Idle]
    BY <1>7, <1>8 DEF Undisturbed, OneHandler, StreakInv
  <2>2. Monitors!Idle \in Monitors!JobRecord /\ Monitors!Idle.pc = "idle"
    BY FreshRow DEF Undisturbed
  <2>3. monitor.failures =< streak /\ streak' = streak /\ streak \in 0 .. MaxThreshold
    BY <1>1, <1>7, <1>8 DEF StreakInv, Counted
  <2> QED
    BY <1>6, <2>1, <2>2, <2>3, HandlerStreak
<1>9. CASE row.enabled
  <2>1. PICK found : found = [row EXCEPT !.threshold = IF fail THEN 1 ELSE @]
    OBVIOUS
  <2>2. found \in Monitors!Row /\ found.failures = job[j].row.failures /\ found.state = job[j].row.state
    BY <1>5, <2>1 DEF Monitors!Row, Undisturbed
  <2>3. PICK ok \in BOOLEAN : ok = ~fail
    OBVIOUS
  <2>4. job' = [job EXCEPT ![j] = Monitors!Finding(j, ok, found)]
    BY <1>7, <1>9, <2>1, <2>3 DEF Undisturbed, OneHandler, StreakInv
  <2>5. streak' = Monitors!StreakAfter(ok)
    BY <1>7, <1>9, <2>3
  <2> QED
    BY <1>1, <1>6, <2>2, <2>4, <2>5, FindingStreak
<1> QED
  BY <1>5, <1>8, <1>9 DEF Monitors!Row

LEMMA StoreStreak ==
  ASSUME Undisturbed, StreakInv, NEW j \in Job, Monitors!Store(j)
  PROVE  StreakInv'
<1>1. job[j] \in Monitors!JobRecord /\ job[j].pc = "store" /\ monitor \in Monitors!Row /\ streak' = streak
  BY DEF StreakInv, Monitors!Store, Monitors!At
<1>2. PICK row \in Monitors!Row : row = job[j].row
  BY <1>1 DEF Monitors!JobRecord
<1>3. PICK ok \in BOOLEAN : ok = job[j].ok
  BY <1>1 DEF Monitors!JobRecord
<1>4. monitor' = [monitor EXCEPT !.state = Monitors!StateAfter(row, ok),
                                 !.failures = Monitors!FailuresAfter(row, ok), !.due = FALSE]
  BY <1>2, <1>3 DEF Monitors!Store
<1>5. row.failures \in 0 .. MaxThreshold /\ row.state \in {"pending", "up", "down"}
  BY DEF Monitors!Row
<1>6. Monitors!FailuresAfter(row, ok) \in 0 .. MaxThreshold /\ Monitors!FailuresAfter(row, ok) =< streak
  <2>1. Monitors!Capped(row.failures) \in 0 .. MaxThreshold
    BY <1>5, CappedMore DEF Undisturbed
  <2>2. ~ok => Monitors!Capped(row.failures) =< streak
    BY <1>1, <1>2, <1>3 DEF StreakInv, Counted
  <2>3. streak \in 0 .. MaxThreshold
    BY DEF StreakInv
  <2> QED
    BY <2>1, <2>2, <2>3 DEF Monitors!FailuresAfter, Undisturbed
<1>7. Monitors!StateAfter(row, ok) \in {"pending", "up", "down"}
  BY <1>5 DEF Monitors!StateAfter
<1>8. monitor' \in Monitors!Row /\ monitor'.failures =< streak
  BY <1>1, <1>4, <1>6, <1>7 DEF Monitors!Row
<1>9. PICK h : h = [job[j] EXCEPT !.pc = "signal"]
  OBVIOUS
<1>10. h \in Monitors!JobRecord /\ h.pc = "signal"
  BY <1>1, <1>9 DEF Monitors!JobRecord
<1>11. job' = [job EXCEPT ![j] = h]
  BY <1>9 DEF StreakInv, Monitors!Store, Monitors!GoTo
<1> QED
  BY <1>1, <1>8, <1>10, <1>11, HandlerStreak DEF StreakInv

LEMMA SignalStreak ==
  ASSUME Undisturbed, StreakInv, NEW j \in Job, Monitors!Signal(j)
  PROVE  StreakInv'
<1>1. job[j].pc = "signal" /\ UNCHANGED <<monitor, streak>> /\ job' = [job EXCEPT ![j] = Monitors!Idle]
  BY DEF Monitors!Signal, Monitors!At, Monitors!Done
<1>2. Monitors!Idle \in Monitors!JobRecord /\ Monitors!Idle.pc = "idle"
  BY FreshRow DEF Undisturbed
<1>3. monitor.failures =< streak
  BY <1>1 DEF StreakInv, Counted
<1> QED
  BY <1>1, <1>2, <1>3, HandlerStreak DEF StreakInv

\* What people and the clock change of the row is not its count.
LEMMA WorldStreak ==
  ASSUME StreakInv, UNCHANGED <<job, streak>>,
         monitor' \in Monitors!Row, monitor'.failures = monitor.failures, monitor'.state = monitor.state
  PROVE  StreakInv'
BY DEF StreakInv, Counted, Monitors!Capped

LEMMA LateStreak ==
  ASSUME StreakInv, Monitors!BecomesLate
  PROVE  StreakInv'
<1>1. /\ monitor' \in Monitors!Row /\ streak' = streak
      /\ monitor'.failures = monitor.failures /\ monitor'.state = monitor.state
  BY DEF StreakInv, Monitors!BecomesLate, Monitors!Row
<1>2. ASSUME NEW j \in Job
      PROVE  /\ job'[j] \in Monitors!JobRecord /\ job'[j].pc = job[j].pc /\ job'[j].ok = job[j].ok
             /\ job'[j].row.failures = job[j].row.failures /\ job'[j].row.state = job[j].row.state
  <2>1. job[j] \in Monitors!JobRecord /\ job[j].row \in Monitors!Row
    BY DEF StreakInv, Monitors!JobRecord
  <2>2. [job[j].row EXCEPT !.late = TRUE] \in Monitors!Row
    BY <2>1 DEF Monitors!Row
  <2>3. job'[j] = job[j] \/ job'[j] = [job[j] EXCEPT !.row = [job[j].row EXCEPT !.late = TRUE]]
    BY <2>1 DEF Monitors!BecomesLate, Monitors!JobRecord
  <2>4. CASE job'[j] = job[j]
    BY <2>1, <2>4
  <2>5. CASE job'[j] = [job[j] EXCEPT !.row = [job[j].row EXCEPT !.late = TRUE]]
    <3>1. PICK row \in Monitors!Row : row = [job[j].row EXCEPT !.late = TRUE]
      BY <2>2
    <3>2. row.failures = job[j].row.failures /\ row.state = job[j].row.state
      BY <2>1, <3>1 DEF Monitors!Row
    <3> QED
      BY <2>1, <2>5, <3>1, <3>2 DEF Monitors!JobRecord
  <2> QED
    BY <2>3, <2>4, <2>5
<1>3. job' \in [Job -> Monitors!JobRecord]
  BY <1>2 DEF Monitors!BecomesLate
<1>4. \A j \in Job : Counted(job[j])'
  BY <1>1, <1>2 DEF StreakInv, Counted, Monitors!Capped
<1> QED
  BY <1>1, <1>3, <1>4 DEF StreakInv

LEMMA NextStreak ==
  ASSUME Undisturbed, StreakInv, faults = 0, [Monitors!Next]_(Monitors!vars)
  PROVE  StreakInv' /\ faults' = 0
<1>1. ASSUME NEW j \in Job, Monitors!Tick(j) \/ Monitors!CheckNow(j) \/ Monitors!Heartbeat(j)
      PROVE  StreakInv' /\ faults' = 0
  <2>1. PICK op \in Monitors!Op, pc \in {"claim", "probe", "touch"} : Monitors!Start(j, op, pc)
    BY <1>1 DEF Monitors!Tick, Monitors!CheckNow, Monitors!Heartbeat, Monitors!Op
  <2> QED
    BY <2>1, StartStreak DEF Monitors!Start
<1>2. ASSUME NEW j \in Job, Monitors!JobStep(j) PROVE StreakInv' /\ faults' = 0
  <2>1. StreakInv'
    BY <1>2, ClaimStreak, ProbeStreak, TouchStreak, StoreStreak, SignalStreak DEF Monitors!JobStep
  <2>2. faults' = faults
    BY <1>2 DEF Monitors!JobStep, Monitors!Claim, Monitors!Probe, Monitors!Touch, Monitors!Store, Monitors!Signal
  <2> QED
    BY <2>1, <2>2
<1>3. ASSUME NEW j \in Job, Monitors!Abort(j) PROVE FALSE
  BY <1>3 DEF Monitors!Abort, Undisturbed
<1>4. ASSUME monitor' \in Monitors!Row, monitor'.failures = monitor.failures, monitor'.state = monitor.state,
             UNCHANGED <<job, streak, faults>>
      PROVE  StreakInv' /\ faults' = 0
  BY <1>4, WorldStreak
<1>5. CASE Monitors!Save
  <2>1. monitor' \in Monitors!Row /\ monitor'.failures = monitor.failures /\ monitor'.state = monitor.state
    BY <1>5 DEF Monitors!Save, StreakInv, Monitors!Row
  <2> QED
    BY <1>4, <1>5, <2>1 DEF Monitors!Save
<1>6. CASE Monitors!BecomesDue
  <2>1. monitor' \in Monitors!Row /\ monitor'.failures = monitor.failures /\ monitor'.state = monitor.state
    BY <1>6 DEF Monitors!BecomesDue, StreakInv, Monitors!Row
  <2> QED
    BY <1>4, <1>6, <2>1 DEF Monitors!BecomesDue
<1>7. CASE Monitors!Toggle
  BY <1>4, <1>7 DEF Monitors!Toggle, StreakInv
<1>8. CASE Monitors!BecomesLate
  BY <1>8, LateStreak DEF Monitors!BecomesLate
<1>9. CASE UNCHANGED Monitors!vars
  BY <1>4, <1>9 DEF Monitors!vars, StreakInv
<1> QED
  BY <1>1, <1>2, <1>3, <1>5, <1>6, <1>7, <1>8, <1>9 DEF Monitors!Next

\* Only a result that is stored turns the monitor down.
LEMMA DownStep ==
  ASSUME Undisturbed, StreakInv, faults = 0, [Monitors!Next]_(Monitors!vars),
         monitor.state # "down", monitor'.state = "down"
  PROVE  \E j \in Job : job[j].op = "fail" \/ streak >= job[j].row.threshold
<1>1. monitor \in Monitors!Row
  BY DEF StreakInv
<1>2. ASSUME monitor'.state = monitor.state PROVE FALSE
  BY <1>2
<1>3. PICK j \in Job : Monitors!Store(j)
  <2>1. ASSUME NEW j \in Job, Monitors!Tick(j) \/ Monitors!CheckNow(j) \/ Monitors!Heartbeat(j) PROVE FALSE
    BY <1>2, <2>1 DEF Monitors!Tick, Monitors!CheckNow, Monitors!Heartbeat, Monitors!Start
  <2>2. ASSUME NEW j \in Job, Monitors!Claim(j) PROVE FALSE
    BY <1>1, <1>2, <2>2 DEF Monitors!Claim, Monitors!Row
  <2>3. ASSUME NEW j \in Job, Monitors!Touch(j) PROVE FALSE
    BY <1>1, <1>2, <2>3 DEF Monitors!Touch, Monitors!Row
  <2>4. ASSUME NEW j \in Job, Monitors!Probe(j) \/ Monitors!Signal(j) \/ Monitors!Abort(j) PROVE FALSE
    BY <1>2, <2>4 DEF Monitors!Probe, Monitors!Signal, Monitors!Abort
  <2>5. ASSUME Monitors!Save \/ Monitors!BecomesDue \/ Monitors!BecomesLate PROVE FALSE
    BY <1>1, <1>2, <2>5 DEF Monitors!Save, Monitors!BecomesDue, Monitors!BecomesLate, Monitors!Row
  <2>6. ASSUME Monitors!Toggle \/ UNCHANGED Monitors!vars PROVE FALSE
    BY <1>2, <2>6 DEF Monitors!Toggle, Monitors!vars
  <2> QED
    BY <2>1, <2>2, <2>3, <2>4, <2>5, <2>6 DEF Monitors!Next, Monitors!JobStep
<1>4. job[j] \in Monitors!JobRecord /\ job[j].pc = "store" /\ monitor'.state = Monitors!StateAfter(job[j].row, job[j].ok)
  BY <1>1, <1>3 DEF StreakInv, Monitors!Store, Monitors!At, Monitors!Row
<1>5. job[j].row \in Monitors!Row
  BY <1>4 DEF Monitors!JobRecord
<1>6. job[j].row.state # "down"
  BY <1>4 DEF StreakInv, Counted
<1>7. ~job[j].ok /\ Monitors!Capped(job[j].row.failures) >= job[j].row.threshold
  BY <1>4, <1>6 DEF Monitors!StateAfter, Monitors!FailuresAfter
<1>8. Monitors!Capped(job[j].row.failures) =< streak
  BY <1>4, <1>7 DEF StreakInv, Counted
<1>9. /\ Monitors!Capped(job[j].row.failures) \in 0 .. MaxThreshold
      /\ streak \in 0 .. MaxThreshold /\ job[j].row.threshold \in 1 .. MaxThreshold
  BY <1>5, CappedMore DEF Monitors!Row, StreakInv, Undisturbed
<1>10. streak >= job[j].row.threshold
  BY <1>7, <1>8, <1>9 DEF Undisturbed
<1> QED
  BY <1>10

\* A monitor goes down only after as many bad results in a row as its threshold
\* says, or at its job's report, when its handlers do not overlap or break off.
THEOREM DownNotBefore == Undisturbed /\ Monitors!Spec => Monitors!DownAfterThreshold
<1> SUFFICES ASSUME Undisturbed PROVE Monitors!Spec => Monitors!DownAfterThreshold
  OBVIOUS
<1> DEFINE Down == monitor.state # "down" /\ monitor'.state = "down" =>
                     \E j \in Job : job[j].op = "fail" \/ streak >= job[j].row.threshold
<1>1. Monitors!Init => StreakInv /\ faults = 0
  BY InitStreak DEF Monitors!Init
<1>2. StreakInv /\ faults = 0 /\ [Monitors!Next]_(Monitors!vars) => StreakInv' /\ (faults = 0)' /\ [Down]_(Monitors!vars)
  BY NextStreak, DownStep
<1> QED
  BY <1>1, <1>2, PTL DEF Monitors!Spec, Monitors!DownAfterThreshold

\* A threshold of one failure at least, and room for a number of faults.
ThresholdCounted == MaxThreshold \in Nat \ {0} /\ MaxFaults \in Nat

\* A handler takes up another record.
LEMMA JobTyped ==
  ASSUME Monitors!TypeOK, NEW j \in Job, NEW r \in Monitors!JobRecord, job' = [job EXCEPT ![j] = r]
  PROVE  job' \in [Job -> Monitors!JobRecord]
BY DEF Monitors!TypeOK

\* A handler keeps the types of the monitor, of itself and of what it has read.
LEMMA HandlerTyped ==
  ASSUME ThresholdCounted, Monitors!TypeOK, NEW j \in Job,
         Monitors!Tick(j) \/ Monitors!CheckNow(j) \/ Monitors!Heartbeat(j) \/ Monitors!JobStep(j) \/ Monitors!Abort(j)
  PROVE  Monitors!TypeOK'
<1>0. /\ MaxThreshold \in Nat /\ job[j] \in Monitors!JobRecord /\ job[j].row \in Monitors!Row /\ job[j].ok \in BOOLEAN
      /\ job[j].op \in Monitors!Op \cup {"none"} /\ monitor \in Monitors!Row
      /\ \A ok \in BOOLEAN : Monitors!StreakAfter(ok) \in 0 .. MaxThreshold
      /\ \A ok \in BOOLEAN, row \in Monitors!Row : Monitors!FailuresAfter(row, ok) \in 0 .. MaxThreshold
  BY DEF ThresholdCounted, Monitors!TypeOK, Monitors!JobRecord, Monitors!StreakAfter, Monitors!Capped,
         Monitors!FailuresAfter, Monitors!Row
<1>1. Monitors!Idle \in Monitors!JobRecord
  BY FreshRow DEF ThresholdCounted
<1>2. ASSUME NEW op \in Monitors!Op, NEW pc \in {"claim", "probe", "touch"}, Monitors!Start(j, op, pc)
      PROVE  Monitors!TypeOK'
  <2>1. [op |-> op, row |-> monitor, ok |-> FALSE, pc |-> pc] \in Monitors!JobRecord
    BY <1>0 DEF Monitors!JobRecord
  <2> QED
    BY <1>2, <2>1, JobTyped DEF Monitors!Start, Monitors!TypeOK
<1>3. ASSUME NEW pc \in {"probe", "store", "signal"}, Monitors!GoTo(j, pc) PROVE job' \in [Job -> Monitors!JobRecord]
  BY <1>0, <1>3 DEF Monitors!GoTo, Monitors!TypeOK, Monitors!JobRecord
<1>4. Monitors!Done(j) => job' \in [Job -> Monitors!JobRecord]
  BY <1>1, JobTyped DEF Monitors!Done
<1>5. CASE Monitors!Claim(j)
  BY <1>0, <1>3, <1>5 DEF Monitors!Claim, Monitors!TypeOK, Monitors!Row
<1>6. CASE Monitors!Probe(j)
  <2>1. Monitors!Healthy(job[j].row) \in BOOLEAN
    BY <1>0 DEF Monitors!Healthy, Monitors!TypeOK, Monitors!Row
  <2>2. Monitors!Finding(j, Monitors!Healthy(job[j].row), job[j].row) \in Monitors!JobRecord
    BY <1>0, <2>1 DEF Monitors!Finding, Monitors!JobRecord
  <2> QED
    BY <1>0, <1>6, <2>1, <2>2, JobTyped DEF Monitors!Probe, Monitors!TypeOK
<1>7. CASE Monitors!Touch(j)
  <2>1. PICK fail \in BOOLEAN : fail = (job[j].op = "fail")
    OBVIOUS
  <2>2. PICK row : row = [job[j].row EXCEPT !.failed = fail, !.late = IF fail THEN @ ELSE FALSE]
    OBVIOUS
  <2>3. PICK found : found = [row EXCEPT !.threshold = IF fail THEN 1 ELSE @]
    OBVIOUS
  <2>4. row \in Monitors!Row /\ found \in Monitors!Row
    <3>1. row \in Monitors!Row
      BY <1>0, <2>2 DEF Monitors!Row
    <3>2. 1 \in 1 .. MaxThreshold
      BY DEF ThresholdCounted
    <3> QED
      BY <2>3, <3>1, <3>2 DEF Monitors!Row
  <2>5. PICK late \in BOOLEAN :
       job' = [k \in Job |->
         IF k = j THEN IF ~row.enabled THEN Monitors!Idle ELSE Monitors!Finding(j, ~fail, found)
         ELSE IF k \in Monitors!Overtaken(j, late) THEN [job[k] EXCEPT !.row.late = TRUE] ELSE job[k]]
    BY <1>7, <2>1, <2>2, <2>3 DEF Monitors!Touch
  <2>6. Monitors!Finding(j, ~fail, found) \in Monitors!JobRecord
    BY <1>0, <2>4 DEF Monitors!Finding, Monitors!JobRecord
  <2>7. \A k \in Job : job[k] \in Monitors!JobRecord /\ [job[k] EXCEPT !.row.late = TRUE] \in Monitors!JobRecord
    BY DEF Monitors!TypeOK, Monitors!JobRecord, Monitors!Row
  <2>8. job' \in [Job -> Monitors!JobRecord]
    BY <1>1, <2>5, <2>6, <2>7
  <2>9. monitor' \in Monitors!Row
    <3>1. monitor' = [monitor EXCEPT !.failed = fail, !.late = IF fail THEN @ ELSE FALSE]
      BY <1>7, <2>1 DEF Monitors!Touch
    <3> QED
      BY <1>0, <3>1 DEF Monitors!Row
  <2>10. streak' \in 0 .. MaxThreshold
    <3>1. streak' = IF row.enabled THEN Monitors!StreakAfter(~fail) ELSE streak
      BY <1>7, <2>1, <2>2 DEF Monitors!Touch
    <3>2. (~fail) \in BOOLEAN /\ streak \in 0 .. MaxThreshold
      BY DEF Monitors!TypeOK
    <3> QED
      BY <1>0, <3>1, <3>2
  <2> QED
    BY <1>7, <2>8, <2>9, <2>10 DEF Monitors!Touch, Monitors!TypeOK
<1>8. CASE Monitors!Store(j)
  <2>1. Monitors!StateAfter(job[j].row, job[j].ok) \in {"pending", "up", "down"}
    BY <1>0 DEF Monitors!StateAfter, Monitors!Row
  <2>2. monitor' \in Monitors!Row
    BY <1>0, <1>8, <2>1 DEF Monitors!Store, Monitors!Row
  <2> QED
    BY <1>3, <1>8, <2>2 DEF Monitors!Store, Monitors!TypeOK
<1>9. CASE Monitors!Signal(j)
  BY <1>4, <1>9 DEF Monitors!Signal, Monitors!TypeOK
<1>10. CASE Monitors!Abort(j)
  BY <1>4, <1>10 DEF Monitors!Abort, Monitors!TypeOK, ThresholdCounted
<1>11. CASE Monitors!Tick(j) \/ Monitors!CheckNow(j) \/ Monitors!Heartbeat(j)
  BY <1>2, <1>11 DEF Monitors!Tick, Monitors!CheckNow, Monitors!Heartbeat, Monitors!Op
<1>12. CASE Monitors!JobStep(j)
  BY <1>5, <1>6, <1>7, <1>8, <1>9, <1>12 DEF Monitors!JobStep
<1> QED
  BY <1>10, <1>11, <1>12

\* Every monitor and handler is well typed, the copies of the row that handlers
\* work on included, whatever handlers overlap or break off (server/ops/monitors.ts).
THEOREM MonitorsTyped == ThresholdCounted /\ Monitors!Spec => []Monitors!TypeOK
<1> SUFFICES ASSUME ThresholdCounted PROVE Monitors!Spec => []Monitors!TypeOK
  OBVIOUS
<1>1. Monitors!Init => Monitors!TypeOK
  <2>1. Monitors!Idle \in Monitors!JobRecord /\ \A kind \in Monitors!Kind : Monitors!New(kind) \in Monitors!Row
    BY FreshRow DEF ThresholdCounted
  <2> SUFFICES ASSUME Monitors!Init PROVE Monitors!TypeOK
    OBVIOUS
  <2>2. PICK kind \in Monitors!Kind : monitor = Monitors!New(kind)
    BY DEF Monitors!Init
  <2>3. streak \in 0 .. MaxThreshold /\ faults \in 0 .. MaxFaults
    <3>1. streak = 0 /\ faults = 0
      BY DEF Monitors!Init
    <3> QED
      BY <3>1 DEF ThresholdCounted
  <2> QED
    BY <2>1, <2>2, <2>3 DEF Monitors!Init, Monitors!TypeOK
<1>2. Monitors!TypeOK /\ [Monitors!Next]_(Monitors!vars) => Monitors!TypeOK'
  <2> SUFFICES ASSUME Monitors!TypeOK, [Monitors!Next]_(Monitors!vars) PROVE Monitors!TypeOK'
    OBVIOUS
  <2>1. CASE Monitors!Save \/ Monitors!BecomesDue \/ Monitors!Toggle
    BY <2>1 DEF Monitors!Save, Monitors!BecomesDue, Monitors!Toggle, Monitors!TypeOK, Monitors!Row
  <2>2. CASE Monitors!BecomesLate
    <3>1. \A k \in Job : job[k] \in Monitors!JobRecord /\ [job[k] EXCEPT !.row.late = TRUE] \in Monitors!JobRecord
      BY DEF Monitors!TypeOK, Monitors!JobRecord, Monitors!Row
    <3>2. job' \in [Job -> Monitors!JobRecord]
      BY <2>2, <3>1 DEF Monitors!BecomesLate
    <3> QED
      BY <2>2, <3>2 DEF Monitors!BecomesLate, Monitors!TypeOK, Monitors!Row
  <2>3. CASE UNCHANGED Monitors!vars
    BY <2>3 DEF Monitors!vars, Monitors!TypeOK
  <2> QED
    BY <2>1, <2>2, <2>3, HandlerTyped DEF Monitors!Next
<1> QED
  BY <1>1, <1>2, PTL DEF Monitors!Spec
=============================================================================
