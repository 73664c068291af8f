---------------------------- MODULE PagerProofs -----------------------------
(***************************************************************************)
(* What the pager guarantees for every number of pages, handlers, people,  *)
(* rules, levels and passes.                                               *)
(*                                                                         *)
(* Handlers that overlap, and die anywhere, place the calls of a level in  *)
(* their order, repeat a notification and insert pages a bounded number of *)
(* times, and send little about a page that has stopped.  One that walks   *)
(* pages by itself leaves nothing due behind it, and gives a page up only  *)
(* after everybody was tried.  One at a time implements module Escalation. *)
(***************************************************************************)
EXTENDS PagerProps, FiniteSetTheorems, TLAPS

USE NoneAssumption, JobAssumption, NumberAssumption, PolicyAssumption

-----------------------------------------------------------------------------
(* Types.  A handler that is past its first statement has a page, and one   *)
(* about to send has chosen what; TypeOK alone does not say so.             *)

PagePC == {"load", "check", "resolve", "exhaust", "advance", "walk", "recheck", "deliver",
           "record", "ackset", "ackread", "ackticket"}
SendPC == {"recheck", "deliver", "record"}

Shaped(job) ==
  /\ job.pc \in PagePC => job.page \in Page
  /\ job.pc \in SendPC => job.attempt \in Attempt

TypeInv == TypeOK /\ \A j \in Job : Shaped(jobs[j])

\* The record of an idle handler and the empty row have the types TypeInv asks for.
LEMMA IdleType == Idle \in JobRecord /\ Shaped(Idle) /\ NoRow \in Row
  BY DEF Idle, JobRecord, NoRow, Row, PC, Ticket, Status, Level, Cycle, Shaped, PagePC, SendPC

\* A handler that moves to a well-typed record keeps all handlers well typed.
LEMMA GoType ==
  ASSUME TypeInv, NEW j \in Job, NEW job \in JobRecord, Shaped(job), Go(j, job)
  PROVE  jobs' \in [Job -> JobRecord] /\ \A i \in Job : Shaped(jobs'[i])
  BY DEF TypeInv, TypeOK, Go

\* A handler that finishes with its page.
LEMMA FinishType ==
  ASSUME TypeInv, NEW j \in Job, Finish(j)
  PROVE  jobs' \in [Job -> JobRecord] /\ \A i \in Job : Shaped(jobs'[i])
<1> DEFINE next == [Idle EXCEPT !.op = "tick", !.pc = "next", !.queue = jobs[j].queue]
<1>1. jobs[j].queue \in SUBSET Page
  BY DEF TypeInv, TypeOK, JobRecord
<1>2. next \in JobRecord /\ Shaped(next)
  BY <1>1, IdleType DEF JobRecord, PC, Op, Shaped, PagePC, SendPC, Idle
<1> HIDE DEF next
<1>3. CASE jobs[j].op = "tick"
  <2>1. Go(j, next)
    BY <1>3 DEF Finish, next
  <2> QED
    BY <2>1, <1>2, GoType
<1>4. CASE jobs[j].op # "tick"
  BY <1>4, IdleType, GoType DEF Finish
<1> QED
  BY <1>3, <1>4

\* A handler that moves on to another program counter.
LEMMA MoveType ==
  ASSUME TypeInv, NEW j \in Job, NEW pc \in PC,
         jobs[j].pc \in PagePC, pc \in SendPC => jobs[j].pc \in SendPC,
         Go(j, [jobs[j] EXCEPT !.pc = pc])
  PROVE  jobs' \in [Job -> JobRecord] /\ \A i \in Job : Shaped(jobs'[i])
<1>1. /\ [jobs[j] EXCEPT !.pc = pc] \in JobRecord
      /\ Shaped([jobs[j] EXCEPT !.pc = pc])
  BY DEF TypeInv, TypeOK, JobRecord, Shaped
<1> QED
  BY <1>1, GoType

\* setStatus keeps the pages table well typed.
LEMMA SetStatusType ==
  ASSUME TypeInv, NEW p, NEW s \in Status, SetStatus(p, s)
  PROVE  pages' \in [Page -> Row]
<1>1. pages \in [Page -> Row] /\ pages' = [pages EXCEPT ![p] = [pages[p] EXCEPT !.status = s]]
  BY DEF TypeInv, TypeOK, SetStatus
<1>2. p \in Page => [pages[p] EXCEPT !.status = s] \in Row
  BY <1>1 DEF Row
<1> QED
  BY <1>1, <1>2

\* What a rule still has to send about a page is an attempt.
LEMMA MissingType ==
  ASSUME TypeInv, NEW j \in Job, jobs[j].pc = "walk", NEW x \in jobs[j].todo,
         NEW seq \in Missing(j, x[1], x[2])
  PROVE  AttemptFor(jobs[j].page, jobs[j].row, x[1], x[2], seq) \in Attempt
<1>1. /\ jobs[j].page \in Page /\ jobs[j].row \in Row
      /\ x[1] \in User /\ x[2] \in Rule
  BY DEF TypeInv, TypeOK, JobRecord, Shaped, PagePC
<1>2. seq \in 0 .. VoiceMaxCalls - 1
  BY DEF Missing, Seqs
<1> QED
  BY <1>1, <1>2 DEF AttemptFor, Attempt, Row, Channel

\* Every step of a handler, a person or the clock keeps the variables well typed.
LEMMA TypeInvStep ==
  ASSUME TypeInv, [Next]_vars
  PROVE  TypeInv'
<1> USE DEF TypeInv, TypeOK, unsent
<1>1. ASSUME NEW j \in Job, Tick(j) PROVE TypeInv'
  <2> DEFINE job == [Idle EXCEPT !.op = "tick", !.pc = "next", !.queue = {p \in Page : Triggered(p)}]
  <2>1. job \in JobRecord /\ Shaped(job)
    BY IdleType DEF JobRecord, PC, Op, Shaped, PagePC, SendPC, Idle
  <2>2. Go(j, job)
    BY <1>1 DEF Tick, Start
  <2> HIDE DEF job
  <2>3. jobs' \in [Job -> JobRecord] /\ \A i \in Job : Shaped(jobs'[i])
    BY <2>1, <2>2, GoType
  <2> QED
    BY <1>1, <2>3 DEF Tick, Start
<1>2. ASSUME NEW j \in Job, NextPage(j) PROVE TypeInv'
  <2>1. ASSUME NEW p \in jobs[j].queue,
               Go(j, [jobs[j] EXCEPT !.pc = "load", !.page = p, !.queue = @ \ {p}])
        PROVE  jobs' \in [Job -> JobRecord] /\ \A i \in Job : Shaped(jobs'[i])
    <3> DEFINE job == [jobs[j] EXCEPT !.pc = "load", !.page = p, !.queue = @ \ {p}]
    <3>1. jobs[j] \in JobRecord /\ p \in Page /\ jobs[j].queue \ {p} \in SUBSET Page
      BY DEF JobRecord
    <3>2. job \in JobRecord
      BY <3>1 DEF JobRecord, PC
    <3>3. Shaped(job)
      BY <3>1 DEF JobRecord, Shaped, SendPC
    <3> QED
      BY <2>1, <3>2, <3>3, GoType
  <2>2. jobs' \in [Job -> JobRecord] /\ \A i \in Job : Shaped(jobs'[i])
    BY <1>2, <2>1, IdleType, GoType DEF NextPage
  <2> QED
    BY <1>2, <2>2 DEF NextPage
<1>3. ASSUME NEW j \in Job, Load(j) PROVE TypeInv'
  <2>1. ASSUME Triggered(jobs[j].page), Go(j, [jobs[j] EXCEPT !.pc = "check", !.row = pages[jobs[j].page]])
        PROVE  jobs' \in [Job -> JobRecord] /\ \A i \in Job : Shaped(jobs'[i])
    <3> DEFINE job == [jobs[j] EXCEPT !.pc = "check", !.row = pages[jobs[j].page]]
    <3>1. jobs[j].page \in Page
      BY <1>3 DEF Load, At, Shaped, PagePC
    <3>2. jobs[j] \in JobRecord /\ pages[jobs[j].page] \in Row
      BY <3>1
    <3>3. job \in JobRecord
      BY <3>1, <3>2 DEF JobRecord, PC
    <3>4. Shaped(job)
      BY <3>1, <3>2 DEF JobRecord, Shaped, SendPC
    <3> QED
      BY <2>1, <3>3, <3>4, GoType
  <2>2. jobs' \in [Job -> JobRecord] /\ \A i \in Job : Shaped(jobs'[i])
    BY <1>3, <2>1, FinishType DEF Load
  <2> QED
    BY <1>3, <2>2 DEF Load
<1>4. ASSUME NEW j \in Job, Check(j) PROVE TypeInv'
  <2>1. ASSUME NEW pc \in {"resolve", "exhaust", "advance"}, Go(j, [jobs[j] EXCEPT !.pc = pc])
        PROVE  jobs' \in [Job -> JobRecord] /\ \A i \in Job : Shaped(jobs'[i])
    BY <1>4, <2>1, MoveType DEF Check, At, PC, PagePC, SendPC
  <2> DEFINE job == [jobs[j] EXCEPT !.pc = "walk", !.elapsed = jobs[j].row.age,
                                    !.todo = jobs[j].row.targets \X Rule]
  <2>2. ASSUME Go(j, job)
        PROVE  jobs' \in [Job -> JobRecord] /\ \A i \in Job : Shaped(jobs'[i])
    <3>1. jobs[j].row.age \in 0 .. MaxAge /\ jobs[j].row.targets \in SUBSET User /\ jobs[j].page \in Page
      BY <1>4 DEF Check, At, JobRecord, Row, Shaped, PagePC
    <3>2. jobs[j].row.targets \X Rule \in SUBSET (User \X Rule)
      BY <3>1
    <3>3. jobs[j] \in JobRecord
      OBVIOUS
    <3>4. job \in JobRecord
      BY <3>1, <3>2, <3>3 DEF JobRecord, PC
    <3>5. Shaped(job)
      BY <3>1, <3>3 DEF JobRecord, Shaped, SendPC
    <3> QED
      BY <2>2, <3>4, <3>5, GoType
  <2>3. jobs' \in [Job -> JobRecord] /\ \A i \in Job : Shaped(jobs'[i])
    BY <1>4, <2>1, <2>2 DEF Check
  <2> QED
    BY <1>4, <2>3 DEF Check
<1>5. ASSUME NEW j \in Job, Resolve(j) \/ Exhaust(j) PROVE TypeInv'
  <2>1. PICK s \in Status : SetStatus(jobs[j].page, s)
    BY <1>5 DEF Resolve, Exhaust, Status
  <2>2. pages' \in [Page -> Row]
    BY <2>1, SetStatusType
  <2>3. jobs' \in [Job -> JobRecord] /\ \A i \in Job : Shaped(jobs'[i])
    BY <1>5, FinishType DEF Resolve, Exhaust
  <2> QED
    BY <1>5, <2>2, <2>3 DEF Resolve, Exhaust
<1>6. ASSUME NEW j \in Job, Walk(j) PROVE TypeInv'
  <2>1. jobs[j].pc = "walk" /\ jobs[j].page \in Page
    BY <1>6 DEF Walk, At, Shaped, PagePC
  <2>2. ASSUME NEW x \in jobs[j].todo, Go(j, [jobs[j] EXCEPT !.todo = @ \ {x}])
        PROVE  jobs' \in [Job -> JobRecord] /\ \A i \in Job : Shaped(jobs'[i])
    <3> DEFINE job == [jobs[j] EXCEPT !.todo = @ \ {x}]
    <3>1. job \in JobRecord /\ Shaped(job)
      BY <2>1 DEF JobRecord, Shaped, SendPC
    <3> QED
      BY <2>2, <3>1, GoType
  <2>3. ASSUME NEW x \in jobs[j].todo, NEW seq \in Missing(j, x[1], x[2]),
               Go(j, [[jobs[j] EXCEPT !.todo = @ \ {x}] EXCEPT !.pc = "recheck",
                        !.attempt = AttemptFor(jobs[j].page, jobs[j].row, x[1], x[2], seq)])
        PROVE  jobs' \in [Job -> JobRecord] /\ \A i \in Job : Shaped(jobs'[i])
    <3> DEFINE k == AttemptFor(jobs[j].page, jobs[j].row, x[1], x[2], seq)
               job == [[jobs[j] EXCEPT !.todo = @ \ {x}] EXCEPT !.pc = "recheck", !.attempt = k]
    <3>1. k \in Attempt
      BY <2>1, MissingType
    <3> HIDE DEF k
    <3>2. jobs[j] \in JobRecord
      OBVIOUS
    <3>3. [jobs[j] EXCEPT !.todo = @ \ {x}] \in JobRecord
      BY <3>2 DEF JobRecord
    <3>4. job \in JobRecord
      BY <3>1, <3>3 DEF JobRecord, PC
    <3>5. job.pc = "recheck" /\ job.page = jobs[j].page /\ job.attempt = k
      BY <3>2 DEF JobRecord
    <3>6. Shaped(job)
      BY <2>1, <3>1, <3>5 DEF Shaped
    <3> QED
      BY <2>3, <3>4, <3>6, GoType DEF k
  <2>4. jobs' \in [Job -> JobRecord] /\ \A i \in Job : Shaped(jobs'[i])
    <3>1. CASE jobs[j].todo = {}
      BY <1>6, <3>1, FinishType DEF Walk
    <3>2. CASE jobs[j].todo # {}
      <4>1. \E x \in jobs[j].todo :
              \/ Go(j, [jobs[j] EXCEPT !.todo = @ \ {x}])
              \/ \E seq \in Missing(j, x[1], x[2]) :
                   Go(j, [[jobs[j] EXCEPT !.todo = @ \ {x}] EXCEPT !.pc = "recheck",
                            !.attempt = AttemptFor(jobs[j].page, jobs[j].row, x[1], x[2], seq)])
        BY <1>6, <3>2 DEF Walk
      <4> QED
        BY <4>1, <2>2, <2>3
    <3> QED
      BY <3>1, <3>2
  <2> QED
    BY <1>6, <2>4 DEF Walk
<1>7. ASSUME NEW j \in Job, Deliver(j) PROVE TypeInv'
  <2>1. jobs[j].pc = "deliver" /\ jobs[j].attempt \in Attempt
    BY <1>7 DEF Deliver, At, Shaped, SendPC
  <2>2. jobs' \in [Job -> JobRecord] /\ \A i \in Job : Shaped(jobs'[i])
    BY <1>7, <2>1, MoveType DEF Deliver, PC, PagePC, SendPC
  <2> QED
    BY <1>7, <2>1, <2>2 DEF Deliver
<1>8. ASSUME NEW j \in Job, RecordAttempt(j) PROVE TypeInv'
  <2> DEFINE job == [jobs[j] EXCEPT !.pc = "walk", !.attempt = None]
  <2>1. jobs[j].pc = "record" /\ jobs[j].attempt \in Attempt /\ jobs[j].page \in Page
    BY <1>8 DEF RecordAttempt, At, Shaped, SendPC, PagePC
  <2>2. jobs[j] \in JobRecord
    OBVIOUS
  <2>3. job \in JobRecord
    BY <2>2 DEF JobRecord, PC
  <2>4. Shaped(job)
    BY <2>1, <2>2 DEF JobRecord, Shaped, SendPC
  <2>5. Go(j, job)
    BY <1>8 DEF RecordAttempt
  <2> HIDE DEF job
  <2>6. jobs' \in [Job -> JobRecord] /\ \A i \in Job : Shaped(jobs'[i])
    BY <2>3, <2>4, <2>5, GoType
  <2> QED
    BY <1>8, <2>1, <2>6 DEF RecordAttempt
<1>9. ASSUME NEW j \in Job, Recheck(j) PROVE TypeInv'
  <2>1. jobs' \in [Job -> JobRecord] /\ \A i \in Job : Shaped(jobs'[i])
    BY <1>9, MoveType, FinishType DEF Recheck, At, PC, PagePC, SendPC
  <2> QED
    BY <1>9, <2>1 DEF Recheck
<1>10. ASSUME NEW j \in Job, PolicyGone(j) \/ NobodyAcknowledged(j) PROVE TypeInv'
  <2>1. jobs[j].pc = "advance" /\ jobs[j].page \in Page
    BY <1>10 DEF PolicyGone, NobodyAcknowledged, At, Shaped, PagePC
  <2>2. SetStatus(jobs[j].page, "exhausted") /\ Go(j, [jobs[j] EXCEPT !.pc = "load"])
    BY <1>10 DEF PolicyGone, NobodyAcknowledged
  <2>3. pages' \in [Page -> Row]
    BY <2>2, SetStatusType DEF Status
  <2>4. jobs' \in [Job -> JobRecord] /\ \A i \in Job : Shaped(jobs'[i])
    BY <2>1, <2>2, MoveType DEF PC, PagePC, SendPC
  <2> QED
    BY <1>10, <2>1, <2>3, <2>4 DEF PolicyGone, NobodyAcknowledged
<1>11. ASSUME NEW j \in Job, Advance(j) PROVE TypeInv'
  <2> DEFINE row == jobs[j].row
             level == NextLevel(row)
             cycle == NextCycle(row)
  <2>1. jobs[j].pc = "advance" /\ jobs[j].page \in Page /\ row \in Row
    BY <1>11 DEF Advance, At, Shaped, PagePC, JobRecord
  <2>2. level \in Level /\ cycle \in Cycle
    <3>1. row.level \in 0 .. MaxLevels - 1 /\ row.cycle \in 0 .. RepeatCount /\ levels \in 0 .. MaxLevels
      BY <2>1 DEF Row, Level, Cycle
    <3>2. PastLast(row) => row.cycle < RepeatCount
      BY <1>11 DEF Advance, PassesLeft
    <3>3. PastLast(row) <=> row.level + 1 >= levels
      BY DEF PastLast
    <3> HIDE DEF row
    <3> QED
      BY <3>1, <3>2, <3>3 DEF Level, Cycle, NextLevel, NextCycle
  <2>3. PICK targets \in Reaches[level] :
          pages' = [pages EXCEPT ![jobs[j].page] =
                      [@ EXCEPT !.level = level, !.cycle = cycle, !.age = 0, !.targets = targets]]
    BY <1>11 DEF Advance
  <2>4. targets \in SUBSET User /\ 0 \in 0 .. MaxAge
    BY <2>2, <2>3
  <2> HIDE DEF level, cycle
  <2>5. [pages[jobs[j].page] EXCEPT !.level = level, !.cycle = cycle, !.age = 0, !.targets = targets] \in Row
    <3>1. pages[jobs[j].page] \in Row
      BY <2>1
    <3> QED
      BY <2>2, <2>4, <3>1 DEF Row
  <2>6. pages' \in [Page -> Row]
    BY <2>1, <2>3, <2>5
  <2>7. Go(j, [jobs[j] EXCEPT !.pc = "load"])
    BY <1>11 DEF Advance
  <2>8. jobs' \in [Job -> JobRecord] /\ \A i \in Job : Shaped(jobs'[i])
    BY <2>1, <2>7, MoveType DEF PC, PagePC, SendPC
  <2> QED
    BY <1>11, <2>6, <2>8 DEF Advance
<1>12. ASSUME NEW j \in Job, Trigger(j) PROVE TypeInv'
  <2> DEFINE job == [Idle EXCEPT !.op = "trigger", !.pc = "insert"]
  <2>1. job \in JobRecord /\ Shaped(job)
    BY IdleType DEF JobRecord, PC, Op, Shaped, PagePC, SendPC, Idle
  <2>2. Go(j, job)
    BY <1>12 DEF Trigger, Start
  <2> HIDE DEF job
  <2>3. jobs' \in [Job -> JobRecord] /\ \A i \in Job : Shaped(jobs'[i])
    BY <2>1, <2>2, GoType
  <2> QED
    BY <1>12, <2>3 DEF Trigger, Start
<1>13. ASSUME NEW j \in Job, InsertPage(j) PROVE TypeInv'
  <2>1. CASE levels = 0
    <3>1. jobs' \in [Job -> JobRecord] /\ \A i \in Job : Shaped(jobs'[i])
      BY <1>13, <2>1, IdleType, GoType DEF InsertPage
    <3> QED
      BY <1>13, <2>1, <3>1 DEF InsertPage
  <2>2. CASE levels # 0
    <3>1. PICK p \in Page, targets \in Reaches[0] :
            /\ pages' = [pages EXCEPT ![p] = [NoRow EXCEPT !.status = "triggered", !.targets = targets]]
            /\ Go(j, [jobs[j] EXCEPT !.pc = "load", !.page = p])
      BY <1>13, <2>2 DEF InsertPage
    <3> DEFINE job == [jobs[j] EXCEPT !.pc = "load", !.page = p]
               row == [NoRow EXCEPT !.status = "triggered", !.targets = targets]
    <3>2. targets \in SUBSET User
      <4>1. 0 \in Level
        BY DEF Level
      <4> QED
        BY <3>1, <4>1
    <3>3. row \in Row
      BY <3>2, IdleType DEF Row, Status
    <3>4. jobs[j] \in JobRecord
      OBVIOUS
    <3>5. job \in JobRecord
      BY <3>4 DEF JobRecord, PC
    <3>6. Shaped(job)
      BY <3>4 DEF JobRecord, Shaped, SendPC
    <3> HIDE DEF job, row
    <3>7. pages' \in [Page -> Row]
      BY <3>1, <3>3 DEF row
    <3>8. jobs' \in [Job -> JobRecord] /\ \A i \in Job : Shaped(jobs'[i])
      BY <3>1, <3>5, <3>6, GoType DEF job
    <3> QED
      BY <1>13, <3>7, <3>8 DEF InsertPage
  <2> QED
    BY <2>1, <2>2
<1>14. ASSUME NEW j \in Job, Acknowledge(j) PROVE TypeInv'
  <2>1. PICK p \in Page, u \in User :
          Start(j, "acknowledge", [Idle EXCEPT !.op = "acknowledge", !.pc = "ackset", !.page = p, !.by = u])
    BY <1>14 DEF Acknowledge
  <2> DEFINE job == [Idle EXCEPT !.op = "acknowledge", !.pc = "ackset", !.page = p, !.by = u]
  <2>2. job \in JobRecord /\ Shaped(job)
    BY IdleType DEF JobRecord, PC, Op, Shaped, PagePC, SendPC, Idle
  <2>3. Go(j, job)
    BY <2>1 DEF Start
  <2> HIDE DEF job
  <2>4. jobs' \in [Job -> JobRecord] /\ \A i \in Job : Shaped(jobs'[i])
    BY <2>2, <2>3, GoType
  <2> QED
    BY <1>14, <2>1, <2>4 DEF Acknowledge, Start
<1>15. ASSUME NEW j \in Job, SetAcknowledged(j) PROVE TypeInv'
  <2>1. jobs[j].pc = "ackset" /\ jobs[j].page \in Page /\ jobs[j].by \in User \cup {None}
    BY <1>15 DEF SetAcknowledged, At, Shaped, PagePC, JobRecord
  <2>2. [pages[jobs[j].page] EXCEPT !.status = "acknowledged", !.by = jobs[j].by] \in Row
    <3>1. pages[jobs[j].page] \in Row
      BY <2>1
    <3> QED
      BY <2>1, <3>1 DEF Row, Status
  <2>3. pages' \in [Page -> Row]
    BY <1>15, <2>1, <2>2 DEF SetAcknowledged
  <2>4. jobs' \in [Job -> JobRecord] /\ \A i \in Job : Shaped(jobs'[i])
    BY <1>15, <2>1, MoveType DEF SetAcknowledged, PC, PagePC, SendPC
  <2> QED
    BY <1>15, <2>3, <2>4 DEF SetAcknowledged
<1>16. ASSUME NEW j \in Job, ReadTicket(j) PROVE TypeInv'
  <2> DEFINE job == [jobs[j] EXCEPT !.pc = "ackticket", !.seen = ticket]
  <2>1. jobs[j].page \in Page /\ jobs[j] \in JobRecord
    BY <1>16 DEF ReadTicket, At, Shaped, PagePC
  <2>2. job \in JobRecord
    BY <2>1 DEF JobRecord, PC
  <2>3. Shaped(job)
    BY <2>1 DEF JobRecord, Shaped, SendPC
  <2>4. Go(j, job)
    BY <1>16 DEF ReadTicket
  <2> HIDE DEF job
  <2>5. jobs' \in [Job -> JobRecord] /\ \A i \in Job : Shaped(jobs'[i])
    BY <2>2, <2>3, <2>4, GoType
  <2> QED
    BY <1>16, <2>5 DEF ReadTicket
<1>17. ASSUME NEW j \in Job, TakeTicket(j) PROVE TypeInv'
  <2>1. jobs[j].by \in User \cup {None} /\ ticket' \in Ticket
    BY <1>17 DEF TakeTicket, JobRecord, Ticket
  <2>2. jobs' \in [Job -> JobRecord] /\ \A i \in Job : Shaped(jobs'[i])
    BY <1>17, IdleType, GoType DEF TakeTicket
  <2> QED
    BY <1>17, <2>1, <2>2 DEF TakeTicket
<1>18. ASSUME NEW j \in Job, EscalateNow(j) PROVE TypeInv'
  <2>1. PICK p \in Page :
          Start(j, "escalate", [Idle EXCEPT !.op = "escalate", !.pc = "advance", !.page = p, !.row = pages[p]])
    BY <1>18 DEF EscalateNow
  <2> DEFINE job == [Idle EXCEPT !.op = "escalate", !.pc = "advance", !.page = p, !.row = pages[p]]
  <2>2. pages[p] \in Row
    OBVIOUS
  <2>3. job \in JobRecord /\ Shaped(job)
    BY <2>2, IdleType DEF JobRecord, PC, Op, Shaped, PagePC, SendPC, Idle
  <2>4. Go(j, job)
    BY <2>1 DEF Start
  <2> HIDE DEF job
  <2>5. jobs' \in [Job -> JobRecord] /\ \A i \in Job : Shaped(jobs'[i])
    BY <2>3, <2>4, GoType
  <2> QED
    BY <1>18, <2>1, <2>5 DEF EscalateNow, Start
<1>19. ASSUME NEW j \in Job, AutoResolve(j) PROVE TypeInv'
  <2> DEFINE job == [Idle EXCEPT !.op = "autoResolve", !.pc = "list"]
  <2>1. job \in JobRecord /\ Shaped(job)
    BY IdleType DEF JobRecord, PC, Op, Shaped, PagePC, SendPC, Idle
  <2>2. Go(j, job)
    BY <1>19 DEF AutoResolve, Start
  <2>3. ticket' \in Ticket
    BY <1>19 DEF AutoResolve, Ticket
  <2> HIDE DEF job
  <2>4. jobs' \in [Job -> JobRecord] /\ \A i \in Job : Shaped(jobs'[i])
    BY <2>1, <2>2, GoType
  <2> QED
    BY <1>19, <2>3, <2>4 DEF AutoResolve, Start
<1>20. ASSUME NEW j \in Job, ListOpenPages(j) PROVE TypeInv'
  <2> DEFINE open == {p \in Page : Triggered(p)}
             job == [jobs[j] EXCEPT !.pc = "settle", !.queue = open]
  <2>1. jobs[j] \in JobRecord /\ open \in SUBSET Page
    OBVIOUS
  <2> HIDE DEF open
  <2>2. job \in JobRecord
    BY <2>1 DEF JobRecord, PC
  <2>3. Shaped(job)
    BY <2>1 DEF JobRecord, Shaped, PagePC, SendPC
  <2>4. Go(j, job)
    BY <1>20 DEF ListOpenPages, open
  <2> HIDE DEF job
  <2>5. jobs' \in [Job -> JobRecord] /\ \A i \in Job : Shaped(jobs'[i])
    BY <2>2, <2>3, <2>4, GoType
  <2> QED
    BY <1>20, <2>5 DEF ListOpenPages
<1>21. ASSUME NEW j \in Job, SettlePage(j) PROVE TypeInv'
  <2>1. ASSUME NEW p \in jobs[j].queue, SetStatus(p, "resolved"), Go(j, [jobs[j] EXCEPT !.queue = @ \ {p}])
        PROVE  pages' \in [Page -> Row] /\ jobs' \in [Job -> JobRecord] /\ \A i \in Job : Shaped(jobs'[i])
    <3> DEFINE job == [jobs[j] EXCEPT !.queue = @ \ {p}]
    <3>1. jobs[j] \in JobRecord /\ Shaped(jobs[j])
      OBVIOUS
    <3>2. job \in JobRecord
      BY <3>1 DEF JobRecord
    <3>3. Shaped(job)
      BY <3>1 DEF JobRecord, Shaped
    <3>4. pages' \in [Page -> Row]
      BY <2>1, SetStatusType DEF Status
    <3> QED
      BY <2>1, <3>2, <3>3, <3>4, GoType
  <2>2. CASE jobs[j].queue = {}
    <3>1. jobs' \in [Job -> JobRecord] /\ \A i \in Job : Shaped(jobs'[i])
      BY <1>21, <2>2, IdleType, GoType DEF SettlePage
    <3> QED
      BY <1>21, <2>2, <3>1 DEF SettlePage
  <2>3. CASE jobs[j].queue # {}
    <3>1. pages' \in [Page -> Row] /\ jobs' \in [Job -> JobRecord] /\ \A i \in Job : Shaped(jobs'[i])
      BY <1>21, <2>1, <2>3 DEF SettlePage
    <3> QED
      BY <1>21, <3>1 DEF SettlePage
  <2> QED
    BY <2>2, <2>3
<1>22. CASE EditPolicy
  BY <1>22 DEF EditPolicy
<1>23. CASE EditTicket
  <2>1. ticket' \in Ticket
    BY <1>23 DEF EditTicket, Ticket
  <2> QED
    BY <1>23, <2>1 DEF EditTicket
<1>24. ASSUME NEW j \in Job, Crash(j) PROVE TypeInv'
  <2>1. jobs' \in [Job -> JobRecord] /\ \A i \in Job : Shaped(jobs'[i])
    BY <1>24, IdleType, GoType, FinishType DEF Crash
  <2>2. crashes' \in 0 .. MaxCrashes
    BY <1>24 DEF Crash
  <2> QED
    BY <1>24, <2>1, <2>2 DEF Crash
<1>25. CASE PassTime
  <2>1. ASSUME NEW row \in Row PROVE Older(row) \in Row
    BY DEF Older, Row
  <2>2. pages' \in [Page -> Row]
    BY <1>25, <2>1 DEF PassTime
  <2>3. ASSUME NEW j \in Job
        PROVE  jobs'[j] \in JobRecord /\ Shaped(jobs'[j])
    <3>1. jobs[j] \in JobRecord /\ Shaped(jobs[j]) /\ jobs[j].row \in Row
      BY DEF JobRecord
    <3>2. [jobs[j] EXCEPT !.row = Older(jobs[j].row)] \in JobRecord
      BY <2>1, <3>1 DEF JobRecord
    <3>3. Shaped([jobs[j] EXCEPT !.row = Older(jobs[j].row)])
      BY <3>1 DEF JobRecord, Shaped
    <3>4. jobs'[j] = IF At(j, "check") THEN [jobs[j] EXCEPT !.row = Older(jobs[j].row)] ELSE jobs[j]
      BY <1>25 DEF PassTime
    <3> QED
      BY <3>1, <3>2, <3>3, <3>4
  <2>4. jobs' \in [Job -> JobRecord]
    <3>1. jobs' = [j \in Job |-> jobs'[j]]
      BY <1>25 DEF PassTime
    <3> QED
      BY <2>3, <3>1
  <2> QED
    BY <1>25, <2>2, <2>3, <2>4 DEF PassTime
<1>26. CASE UNCHANGED vars
  BY <1>26 DEF vars, Shaped, Triggered
<1> QED
  BY <1>1, <1>2, <1>3, <1>4, <1>5, <1>6, <1>7, <1>8, <1>9, <1>10, <1>11, <1>12, <1>13, <1>14, <1>15,
     <1>16, <1>17, <1>18, <1>19, <1>20, <1>21, <1>22, <1>23, <1>24, <1>25, <1>26 DEF Next, JobStart, JobStep

\* TypeOK holds of every run, with a page for every handler past its first
\* statement and an attempt for every one about to send.
LEMMA TypeInvariant == Spec => []TypeInv
<1>1. Init => TypeInv
  <2> SUFFICES ASSUME Init PROVE TypeInv
    OBVIOUS
  <2>1. pages \in [Page -> Row]
    BY IdleType DEF Init
  <2>2. jobs \in [Job -> JobRecord] /\ \A j \in Job : Shaped(jobs[j])
    BY IdleType DEF Init
  <2>3. ticket \in Ticket /\ passed \in BOOLEAN
    BY DEF Init, Ticket
  <2>4. levels \in 0 .. MaxLevels /\ crashes \in 0 .. MaxCrashes
    BY DEF Init
  <2> QED
    BY <2>1, <2>2, <2>3, <2>4 DEF Init, TypeInv, TypeOK
<1> QED
  BY <1>1, TypeInvStep, PTL DEF Spec

\* Every table and every handler keeps its shape, whatever handlers overlap,
\* crash or read stale rows: levels and passes stay within the policy's bounds.
THEOREM TypeCorrect == Spec => []TypeOK
<1>1. TypeInv => TypeOK
  BY DEF TypeInv
<1> QED
  BY <1>1, TypeInvariant, PTL

-----------------------------------------------------------------------------
(* Roles.  Only the handlers May allows to tick, trigger or escalate walk a   *)
(* page, and only those it allows to trigger insert one.                      *)

WalkPC == {"next", "load", "check", "resolve", "exhaust", "advance", "walk", "recheck", "deliver",
           "record", "insert"}
WalkOp == {"tick", "trigger", "escalate"}

Role(j, job) ==
  /\ job.op # "none" => job.op \in May[j]
  /\ job.pc \in WalkPC => job.op \in WalkOp
  /\ job.pc = "insert" => job.op = "trigger"

RoleInv == \A j \in Job : Role(j, jobs[j])

\* What a step leaves of the handlers.
LEMMA Moves ==
  ASSUME TypeInv, NEW j \in Job, NEW job, Go(j, job)
  PROVE  jobs'[j] = job /\ \A i \in Job \ {j} : jobs'[i] = jobs[i]
  BY DEF TypeInv, TypeOK, Go

\* Where a handler is after it is done with its page: a pass goes on, others stop.
LEMMA Finishes ==
  ASSUME TypeInv, NEW j \in Job, Finish(j)
  PROVE  /\ jobs'[j].pc \in {"next", "idle"}
         /\ jobs'[j].op \in {jobs[j].op, "none"}
         /\ jobs'[j].pc = "next" => jobs'[j].op = "tick" /\ jobs[j].op = "tick"
         /\ jobs'[j].queue \in {jobs[j].queue, {}}
         /\ \A i \in Job \ {j} : jobs'[i] = jobs[i]
<1>0. jobs \in [Job -> JobRecord]
  BY DEF TypeInv, TypeOK
<1>1. CASE jobs[j].op = "tick"
  <2>1. Go(j, [Idle EXCEPT !.op = "tick", !.pc = "next", !.queue = jobs[j].queue])
    BY <1>1 DEF Finish
  <2> QED
    BY <1>0, <1>1, <2>1 DEF Go, Idle
<1>2. CASE jobs[j].op # "tick"
  <2>1. Go(j, Idle)
    BY <1>2 DEF Finish
  <2> QED
    BY <1>0, <2>1 DEF Go, Idle
<1> QED
  BY <1>1, <1>2

\* What starting a handler, or a step of one, does to its place in the program.
LEMMA Starts ==
  ASSUME TypeInv, NEW j \in Job, JobStart(j)
  PROVE  /\ jobs[j].pc = "idle" /\ jobs'[j].op \in May[j]
         /\ jobs'[j].pc \in WalkPC => jobs'[j].op \in WalkOp
         /\ jobs'[j].pc = "insert" => jobs'[j].op = "trigger" /\ Trigger(j)
         /\ jobs'[j].pc \in {"next", "advance", "insert", "ackset", "list"}
         /\ jobs'[j].pc = "advance" => EscalateNow(j)
         /\ \A i \in Job \ {j} : jobs'[i] = jobs[i]
         /\ UNCHANGED <<pages, attempts, unsent>>
<1>0. jobs \in [Job -> JobRecord]
  BY DEF TypeInv, TypeOK
<1> USE DEF Start, At, Go, Idle
<1>1. CASE Tick(j)
  BY <1>0, <1>1 DEF Tick, WalkPC, WalkOp
<1>2. CASE Trigger(j)
  BY <1>0, <1>2 DEF Trigger, WalkPC, WalkOp
<1>3. CASE Acknowledge(j)
  BY <1>0, <1>3 DEF Acknowledge, WalkPC, WalkOp
<1>4. CASE EscalateNow(j)
  <2>1. PICK p \in Page :
          Start(j, "escalate", [Idle EXCEPT !.op = "escalate", !.pc = "advance", !.page = p, !.row = pages[p]])
    BY <1>4 DEF EscalateNow
  <2> QED
    BY <1>0, <1>4, <2>1 DEF WalkPC, WalkOp
<1>5. CASE AutoResolve(j)
  BY <1>0, <1>5 DEF AutoResolve, WalkPC, WalkOp
<1> QED
  BY <1>1, <1>2, <1>3, <1>4, <1>5 DEF JobStart

\* How a step of a handler that sends nothing leaves the handlers: one that
\* walks a page did so before, under the same operation.
Kept(j) ==
  /\ jobs'[j].op \in {jobs[j].op, "none"}
  /\ jobs'[j].pc \in WalkPC => jobs[j].pc \in WalkPC /\ jobs'[j].op = jobs[j].op
  /\ jobs'[j].pc # "insert"
  /\ \A i \in Job \ {j} : jobs'[i] = jobs[i]

Quiet(j) ==
  /\ Kept(j)
  /\ jobs[j].pc \notin SendPC /\ jobs'[j].pc \notin SendPC
  /\ UNCHANGED <<attempts, unsent>>

Sends(j) == Walk(j) \/ Recheck(j) \/ Deliver(j) \/ RecordAttempt(j)

\* A move that keeps the operation and stays clear of the sending steps is quiet.
LEMMA GoQuiet ==
  ASSUME TypeInv, NEW j \in Job, NEW job, Go(j, job), UNCHANGED <<attempts, unsent>>,
         job.op = jobs[j].op, jobs[j].pc \notin SendPC, job.pc \notin SendPC \cup {"insert"},
         job.pc \in WalkPC => jobs[j].pc \in WalkPC
  PROVE  Quiet(j)
  BY Moves DEF Quiet, Kept

\* A handler that leaves a page without sending anything is quiet.
LEMMA FinishQuiet ==
  ASSUME TypeInv, NEW j \in Job, Finish(j), UNCHANGED <<attempts, unsent>>,
         jobs[j].pc \in WalkPC \ SendPC
  PROVE  Quiet(j)
  BY Finishes DEF Quiet, Kept, WalkPC, SendPC

\* A handler that ends without sending anything is quiet.
LEMMA IdleQuiet ==
  ASSUME TypeInv, NEW j \in Job, Go(j, Idle), UNCHANGED <<attempts, unsent>>, jobs[j].pc \notin SendPC
  PROVE  Quiet(j)
  BY Moves DEF Quiet, Kept, Idle, WalkPC, SendPC

\* A handler that only moves its program counter, away from sending, is quiet.
LEMMA PCQuiet ==
  ASSUME TypeInv, NEW j \in Job, NEW pc, Go(j, [jobs[j] EXCEPT !.pc = pc]), UNCHANGED <<attempts, unsent>>,
         jobs[j].pc \notin SendPC, pc \notin SendPC \cup {"insert"}, pc \in WalkPC => jobs[j].pc \in WalkPC
  PROVE  Quiet(j)
<1> DEFINE job == [jobs[j] EXCEPT !.pc = pc]
<1>1. job.op = jobs[j].op /\ job.pc = pc
  BY DEF TypeInv, TypeOK, JobRecord
<1>2. Go(j, job)
  OBVIOUS
<1> HIDE DEF job
<1> QED
  BY <1>1, <1>2, GoQuiet

\* Every handler step outside Sends leaves attempts and what was sent alone.
LEMMA QuietSteps ==
  ASSUME TypeInv, NEW j \in Job, JobStep(j), ~Sends(j)
  PROVE  Quiet(j)
<1>0. jobs[j] \in JobRecord
  BY DEF TypeInv, TypeOK
<1> USE DEF At, WalkPC, SendPC
<1>1. ASSUME NextPage(j) PROVE Quiet(j)
  <2>1. ASSUME NEW p \in jobs[j].queue, Go(j, [jobs[j] EXCEPT !.pc = "load", !.page = p, !.queue = @ \ {p}])
        PROVE  Quiet(j)
    <3> DEFINE job == [jobs[j] EXCEPT !.pc = "load", !.page = p, !.queue = @ \ {p}]
    <3>1. job.op = jobs[j].op /\ job.pc = "load"
      BY <1>0 DEF JobRecord
    <3>2. Go(j, job)
      BY <2>1
    <3> HIDE DEF job
    <3> QED
      BY <1>1, <3>1, <3>2, GoQuiet DEF NextPage
  <2> QED
    BY <1>1, <2>1, IdleQuiet DEF NextPage
<1>2. ASSUME Load(j) PROVE Quiet(j)
  <2> DEFINE job == [jobs[j] EXCEPT !.pc = "check", !.row = pages[jobs[j].page]]
  <2>1. job.op = jobs[j].op /\ job.pc = "check"
    BY <1>0 DEF JobRecord
  <2>2. Go(j, job) \/ Finish(j)
    BY <1>2 DEF Load
  <2> HIDE DEF job
  <2> QED
    BY <1>2, <2>1, <2>2, GoQuiet, FinishQuiet DEF Load
<1>3. ASSUME Check(j) PROVE Quiet(j)
  <2> DEFINE job == [jobs[j] EXCEPT !.pc = "walk", !.elapsed = jobs[j].row.age,
                                    !.todo = jobs[j].row.targets \X Rule]
  <2>1. job.op = jobs[j].op /\ job.pc = "walk"
    BY <1>0 DEF JobRecord
  <2>2. Go(j, job) \/ \E pc \in {"resolve", "exhaust", "advance"} : Go(j, [jobs[j] EXCEPT !.pc = pc])
    BY <1>3 DEF Check
  <2> HIDE DEF job
  <2> QED
    BY <1>3, <2>1, <2>2, GoQuiet, PCQuiet DEF Check
<1>4. ASSUME Resolve(j) \/ Exhaust(j) PROVE Quiet(j)
  BY <1>4, FinishQuiet DEF Resolve, Exhaust
<1>5. ASSUME PolicyGone(j) \/ NobodyAcknowledged(j) \/ Advance(j) PROVE Quiet(j)
  <2>1. jobs[j].pc = "advance" /\ Go(j, [jobs[j] EXCEPT !.pc = "load"]) /\ UNCHANGED <<attempts, unsent>>
    BY <1>5 DEF PolicyGone, NobodyAcknowledged, Advance
  <2> QED
    BY <2>1, PCQuiet
<1>6. ASSUME InsertPage(j) PROVE Quiet(j)
  <2>1. ASSUME NEW p \in Page, Go(j, [jobs[j] EXCEPT !.pc = "load", !.page = p]) PROVE Quiet(j)
    <3> DEFINE job == [jobs[j] EXCEPT !.pc = "load", !.page = p]
    <3>1. job.op = jobs[j].op /\ job.pc = "load"
      BY <1>0 DEF JobRecord
    <3>2. Go(j, job)
      BY <2>1
    <3> HIDE DEF job
    <3> QED
      BY <1>6, <3>1, <3>2, GoQuiet DEF InsertPage
  <2> QED
    BY <1>6, <2>1, IdleQuiet DEF InsertPage
<1>7. ASSUME SetAcknowledged(j) PROVE Quiet(j)
  BY <1>7, PCQuiet DEF SetAcknowledged
<1>8. ASSUME ReadTicket(j) PROVE Quiet(j)
  <2> DEFINE job == [jobs[j] EXCEPT !.pc = "ackticket", !.seen = ticket]
  <2>1. job.op = jobs[j].op /\ job.pc = "ackticket"
    BY <1>0 DEF JobRecord
  <2>2. Go(j, job)
    BY <1>8 DEF ReadTicket
  <2> HIDE DEF job
  <2> QED
    BY <1>8, <2>1, <2>2, GoQuiet DEF ReadTicket
<1>9. ASSUME TakeTicket(j) PROVE Quiet(j)
  BY <1>9, IdleQuiet DEF TakeTicket
<1>10. ASSUME ListOpenPages(j) PROVE Quiet(j)
  <2> DEFINE open == {p \in Page : Triggered(p)}
             job == [jobs[j] EXCEPT !.pc = "settle", !.queue = open]
  <2>1. job.op = jobs[j].op /\ job.pc = "settle"
    BY <1>0 DEF JobRecord
  <2>2. Go(j, job)
    BY <1>10 DEF ListOpenPages
  <2> HIDE DEF job
  <2> QED
    BY <1>10, <2>1, <2>2, GoQuiet DEF ListOpenPages
<1>11. ASSUME SettlePage(j) PROVE Quiet(j)
  <2>1. ASSUME NEW p \in jobs[j].queue, Go(j, [jobs[j] EXCEPT !.queue = @ \ {p}]) PROVE Quiet(j)
    <3> DEFINE job == [jobs[j] EXCEPT !.queue = @ \ {p}]
    <3>1. job.op = jobs[j].op /\ job.pc = jobs[j].pc
      BY <1>0 DEF JobRecord
    <3>2. Go(j, job)
      BY <2>1
    <3> HIDE DEF job
    <3> QED
      BY <1>11, <3>1, <3>2, GoQuiet DEF SettlePage
  <2> QED
    BY <1>11, <2>1, IdleQuiet DEF SettlePage
<1> QED
  BY <1>1, <1>2, <1>3, <1>4, <1>5, <1>6, <1>7, <1>8, <1>9, <1>10, <1>11 DEF JobStep, Sends

\* The four steps that lead to a notification and its record.
LEMMA WalkStep ==
  ASSUME TypeInv, NEW j \in Job, Walk(j)
  PROVE  /\ Kept(j) /\ jobs[j].pc = "walk" /\ UNCHANGED <<attempts, unsent>>
         /\ \/ jobs'[j].pc \in {"walk", "next", "idle"}
            \/ /\ jobs'[j].pc = "recheck" /\ jobs'[j].page = jobs[j].page
               /\ \E u \in User, r \in Rule : \E seq \in Missing(j, u, r) :
                    /\ \A s \in Missing(j, u, r) : seq <= s
                    /\ jobs'[j].attempt = AttemptFor(jobs[j].page, jobs[j].row, u, r, seq)
<1>0. jobs[j] \in JobRecord /\ jobs[j].pc = "walk" /\ UNCHANGED <<attempts, unsent>>
  BY DEF TypeInv, TypeOK, Walk, At
<1> DEFINE Goal == \/ jobs'[j].pc \in {"walk", "next", "idle"}
                   \/ /\ jobs'[j].pc = "recheck" /\ jobs'[j].page = jobs[j].page
                      /\ \E u \in User, r \in Rule : \E seq \in Missing(j, u, r) :
                           /\ \A s \in Missing(j, u, r) : seq <= s
                           /\ jobs'[j].attempt = AttemptFor(jobs[j].page, jobs[j].row, u, r, seq)
<1>1. CASE Finish(j)
  BY <1>0, <1>1, Finishes DEF Kept, WalkPC, SendPC
<1>2. ASSUME NEW x \in jobs[j].todo, Go(j, [jobs[j] EXCEPT !.todo = @ \ {x}])
      PROVE  Kept(j) /\ Goal
  <2> DEFINE job == [jobs[j] EXCEPT !.todo = @ \ {x}]
  <2>1. job.op = jobs[j].op /\ job.pc = "walk"
    BY <1>0 DEF JobRecord
  <2>2. Go(j, job)
    BY <1>2
  <2> HIDE DEF job
  <2>3. jobs'[j] = job /\ \A i \in Job \ {j} : jobs'[i] = jobs[i]
    BY <2>2, Moves
  <2> QED
    BY <1>0, <2>1, <2>3 DEF Kept, WalkPC, SendPC
<1>3. ASSUME NEW x \in jobs[j].todo, NEW seq \in Missing(j, x[1], x[2]),
             \A s \in Missing(j, x[1], x[2]) : seq <= s,
             Go(j, [[jobs[j] EXCEPT !.todo = @ \ {x}] EXCEPT !.pc = "recheck",
                      !.attempt = AttemptFor(jobs[j].page, jobs[j].row, x[1], x[2], seq)])
      PROVE  Kept(j) /\ Goal
  <2> DEFINE k == AttemptFor(jobs[j].page, jobs[j].row, x[1], x[2], seq)
             left == [jobs[j] EXCEPT !.todo = @ \ {x}]
             job == [left EXCEPT !.pc = "recheck", !.attempt = k]
  <2> HIDE DEF k
  <2>1. left \in JobRecord /\ left.op = jobs[j].op /\ left.page = jobs[j].page
    BY <1>0 DEF JobRecord
  <2> HIDE DEF left
  <2>2. job.op = jobs[j].op /\ job.pc = "recheck" /\ job.attempt = k /\ job.page = jobs[j].page
    BY <2>1 DEF JobRecord
  <2>3. Go(j, job)
    BY <1>3 DEF k, left
  <2> HIDE DEF job
  <2>4. jobs'[j] = job /\ \A i \in Job \ {j} : jobs'[i] = jobs[i]
    BY <2>3, Moves
  <2>5. x[1] \in User /\ x[2] \in Rule
    BY <1>0 DEF JobRecord
  <2>6. Goal
    BY <1>3, <2>2, <2>4, <2>5 DEF k
  <2> QED
    BY <1>0, <2>2, <2>4, <2>6 DEF Kept, WalkPC
<1>4. \/ Finish(j)
      \/ \E x \in jobs[j].todo :
           \/ Go(j, [jobs[j] EXCEPT !.todo = @ \ {x}])
           \/ \E seq \in Missing(j, x[1], x[2]) :
                /\ \A s \in Missing(j, x[1], x[2]) : seq <= s
                /\ Go(j, [[jobs[j] EXCEPT !.todo = @ \ {x}] EXCEPT !.pc = "recheck",
                            !.attempt = AttemptFor(jobs[j].page, jobs[j].row, x[1], x[2], seq)])
  BY DEF Walk
<1> HIDE DEF Goal
<1>5. Kept(j) /\ Goal
  BY <1>1, <1>2, <1>3, <1>4 DEF Goal
<1> QED
  BY <1>0, <1>5 DEF Goal

\* The second look at the status keeps the attempt that was chosen, or gives it up.
LEMMA RecheckStep ==
  ASSUME TypeInv, NEW j \in Job, Recheck(j)
  PROVE  /\ Kept(j) /\ jobs[j].pc = "recheck" /\ UNCHANGED <<attempts, unsent>>
         /\ \/ jobs'[j].pc \notin SendPC
            \/ /\ jobs'[j].pc = "deliver" /\ jobs'[j].attempt = jobs[j].attempt
               /\ jobs'[j].page = jobs[j].page /\ Triggered(jobs[j].page)
<1>0. jobs[j] \in JobRecord /\ jobs[j].pc = "recheck" /\ UNCHANGED <<attempts, unsent>>
  BY DEF TypeInv, TypeOK, Recheck, At
<1> DEFINE job == [jobs[j] EXCEPT !.pc = "deliver"]
<1>1. /\ job.op = jobs[j].op /\ job.pc = "deliver" /\ job.attempt = jobs[j].attempt
      /\ job.page = jobs[j].page
  BY <1>0 DEF JobRecord
<1>2. (Go(j, job) /\ Triggered(jobs[j].page)) \/ Finish(j)
  BY DEF Recheck
<1> HIDE DEF job
<1> QED
  BY <1>0, <1>1, <1>2, Moves, Finishes DEF Kept, WalkPC, SendPC

\* A delivery sends exactly the attempt that was chosen.
LEMMA DeliverStep ==
  ASSUME TypeInv, NEW j \in Job, Deliver(j)
  PROVE  /\ Kept(j) /\ jobs[j].pc = "deliver" /\ UNCHANGED attempts
         /\ jobs'[j].pc = "record" /\ jobs'[j].attempt = jobs[j].attempt /\ jobs'[j].page = jobs[j].page
         /\ sent' = [sent EXCEPT ![jobs[j].attempt] = @ + 1]
<1> DEFINE job == [jobs[j] EXCEPT !.pc = "record"]
<1>1. /\ job.op = jobs[j].op /\ job.pc = "record" /\ job.attempt = jobs[j].attempt
      /\ job.page = jobs[j].page
  BY DEF TypeInv, TypeOK, JobRecord
<1>2. Go(j, job)
  BY DEF Deliver
<1> HIDE DEF job
<1>3. jobs'[j] = job /\ \A i \in Job \ {j} : jobs'[i] = jobs[i]
  BY <1>2, Moves
<1> QED
  BY <1>1, <1>3 DEF Deliver, At, Kept, WalkPC

\* recordAttempt adds the attempt just sent and returns to the walk.
LEMMA RecordStep ==
  ASSUME TypeInv, NEW j \in Job, RecordAttempt(j)
  PROVE  /\ Kept(j) /\ jobs[j].pc = "record" /\ jobs'[j].pc = "walk" /\ UNCHANGED unsent
         /\ attempts' = attempts \cup {jobs[j].attempt}
<1> DEFINE job == [jobs[j] EXCEPT !.pc = "walk", !.attempt = None]
<1>1. job.op = jobs[j].op /\ job.pc = "walk"
  BY DEF TypeInv, TypeOK, JobRecord
<1>2. Go(j, job)
  BY DEF RecordAttempt
<1> HIDE DEF job
<1>3. jobs'[j] = job /\ \A i \in Job \ {j} : jobs'[i] = jobs[i]
  BY <1>2, Moves
<1> QED
  BY <1>1, <1>3 DEF RecordAttempt, At, Kept, WalkPC

\* A crash frees the handler and changes nothing that was stored or sent.
LEMMA CrashStep ==
  ASSUME TypeInv, NEW j \in Job, Crash(j)
  PROVE  /\ jobs'[j].pc \in {"next", "idle"}
         /\ jobs'[j].op \in {jobs[j].op, "none"}
         /\ jobs'[j].pc = "next" => jobs'[j].op = "tick"
         /\ \A i \in Job \ {j} : jobs'[i] = jobs[i]
         /\ UNCHANGED <<pages, attempts, unsent>>
<1>1. CASE Go(j, Idle)
  BY <1>1, Moves DEF Crash, Idle
<1>2. CASE Finish(j)
  BY <1>2, Finishes DEF Crash
<1> QED
  BY <1>1, <1>2 DEF Crash

\* Time only ages rows.
LEMMA TimeStep ==
  ASSUME TypeInv, EditPolicy \/ EditTicket \/ PassTime \/ UNCHANGED vars
  PROVE  /\ \A j \in Job : /\ jobs'[j].pc = jobs[j].pc /\ jobs'[j].op = jobs[j].op
                           /\ jobs'[j].attempt = jobs[j].attempt /\ jobs'[j].page = jobs[j].page
         /\ UNCHANGED <<attempts, unsent>>
<1>1. CASE PassTime
  <2>1. ASSUME NEW j \in Job
        PROVE  /\ jobs'[j].pc = jobs[j].pc /\ jobs'[j].op = jobs[j].op
               /\ jobs'[j].attempt = jobs[j].attempt /\ jobs'[j].page = jobs[j].page
    <3>1. jobs'[j] = IF At(j, "check") THEN [jobs[j] EXCEPT !.row = Older(@)] ELSE jobs[j]
      BY <1>1 DEF PassTime
    <3> QED
      BY <3>1 DEF TypeInv, TypeOK, JobRecord
  <2> QED
    BY <1>1, <2>1 DEF PassTime
<1>2. CASE EditPolicy \/ EditTicket \/ UNCHANGED vars
  BY <1>2 DEF EditPolicy, EditTicket, vars, unsent
<1> QED
  BY <1>1, <1>2

\* No handler comes to walk a page in the middle of another operation.
LEMMA SendStep ==
  ASSUME TypeInv, NEW j \in Job, JobStep(j)
  PROVE  Kept(j)
  BY QuietSteps, WalkStep, RecheckStep, DeliverStep, RecordStep DEF Quiet, Sends

\* Every step keeps each handler within the operations it is allowed.
LEMMA RoleStep ==
  ASSUME TypeInv, RoleInv, [Next]_vars
  PROVE  RoleInv'
<1>1. ASSUME NEW j \in Job, JobStart(j) PROVE RoleInv'
  BY <1>1, Starts DEF RoleInv, Role
<1>2. ASSUME NEW j \in Job, JobStep(j) PROVE RoleInv'
  BY <1>2, SendStep DEF RoleInv, Role, Kept
<1>3. ASSUME NEW j \in Job, Crash(j) PROVE RoleInv'
  BY <1>3, CrashStep DEF RoleInv, Role, WalkPC, WalkOp
<1>4. CASE EditPolicy \/ EditTicket \/ PassTime \/ UNCHANGED vars
  BY <1>4, TimeStep DEF RoleInv, Role
<1> QED
  BY <1>1, <1>2, <1>3, <1>4 DEF Next

\* A handler that walks a page runs an operation that may do so, and that it may run.
LEMMA RoleInvariant == Spec => []RoleInv
<1>1. Init => RoleInv
  BY DEF Init, RoleInv, Role, Idle, WalkPC
<1> QED
  BY <1>1, RoleStep, TypeInvariant, PTL DEF Spec

-----------------------------------------------------------------------------
(* Calls to one person follow each other, however many handlers walk the page *)
(* and wherever they die: a repeat is only chosen once the call before it is  *)
(* recorded, and records are never taken back.                                *)

Preceded(k) == k.seq > 0 => [k EXCEPT !.seq = k.seq - 1] \in attempts

OrderInv ==
  /\ \A k \in attempts \cup {k \in Attempt : sent[k] > 0} : Preceded(k)
  /\ \A j \in Job : jobs[j].pc \in SendPC => Preceded(jobs[j].attempt)

\* The earliest call still missing has every earlier one recorded.
LEMMA EarliestPreceded ==
  ASSUME TypeInv, NEW j \in Job, NEW u \in User, NEW r \in Rule, NEW seq \in Missing(j, u, r),
         \A s \in Missing(j, u, r) : seq <= s
  PROVE  Preceded(AttemptFor(jobs[j].page, jobs[j].row, u, r, seq))
<1> DEFINE k(s) == AttemptFor(jobs[j].page, jobs[j].row, u, r, s)
<1>1. seq \in Nat /\ seq \in Seqs(r) /\ seq <= VoiceMaxCalls - 1 /\ DueAt(r, seq) <= jobs[j].elapsed
  BY DEF Missing, Seqs
<1>2. CASE seq = 0
  BY <1>2 DEF Preceded, AttemptFor
<1>3. CASE seq > 0
  <2>1. r.channel \in CallChannel /\ seq - 1 \in Seqs(r)
    BY <1>1, <1>3 DEF Seqs
  <2>2. seq * VoiceRepeat = (seq - 1) * VoiceRepeat + VoiceRepeat /\ (seq - 1) * VoiceRepeat \in Nat
    BY <1>1, <1>3
  <2>3. DueAt(r, seq - 1) <= jobs[j].elapsed
    <3>1. r.delay \in Nat /\ jobs[j].elapsed \in Int
      BY RuleAssumption DEF TypeInv, TypeOK, JobRecord
    <3>2. DueAt(r, seq) = r.delay + seq * VoiceRepeat /\ DueAt(r, seq - 1) = r.delay + (seq - 1) * VoiceRepeat
      BY <2>1 DEF DueAt
    <3> QED
      BY <1>1, <2>2, <3>1, <3>2
  <2>4. seq - 1 \notin Missing(j, u, r)
    BY <1>1
  <2>5. k(seq - 1) \in attempts
    BY <2>1, <2>3, <2>4 DEF Missing
  <2>6. [k(seq) EXCEPT !.seq = k(seq).seq - 1] = k(seq - 1)
    BY DEF AttemptFor
  <2> QED
    BY <2>5, <2>6 DEF Preceded
<1> QED
  BY <1>1, <1>2, <1>3

\* Every step keeps every repeat call preceded by a recorded call.
LEMMA OrderStep ==
  ASSUME TypeInv, OrderInv, [Next]_vars
  PROVE  OrderInv'
<1> USE DEF OrderInv, unsent
<1>1. ASSUME NEW j \in Job, JobStart(j) PROVE OrderInv'
  BY <1>1, Starts DEF Preceded, SendPC
<1>2. ASSUME NEW j \in Job, JobStep(j), ~Sends(j) PROVE OrderInv'
  BY <1>2, QuietSteps DEF Quiet, Kept, Preceded
<1>3. ASSUME NEW j \in Job, Walk(j) PROVE OrderInv'
  <2>1. ASSUME jobs'[j].pc \in SendPC PROVE Preceded(jobs'[j].attempt)
    <3>1. PICK u \in User, r \in Rule :
             \E seq \in Missing(j, u, r) :
               /\ \A s \in Missing(j, u, r) : seq <= s
               /\ jobs'[j].attempt = AttemptFor(jobs[j].page, jobs[j].row, u, r, seq)
      BY <1>3, <2>1, WalkStep DEF SendPC
    <3>2. PICK seq \in Missing(j, u, r) :
             /\ \A s \in Missing(j, u, r) : seq <= s
             /\ jobs'[j].attempt = AttemptFor(jobs[j].page, jobs[j].row, u, r, seq)
      BY <3>1
    <3> QED
      BY <3>2, EarliestPreceded
  <2>2. UNCHANGED <<attempts, unsent>> /\ \A i \in Job \ {j} : jobs'[i] = jobs[i]
    BY <1>3, WalkStep DEF Kept
  <2> QED
    BY <2>1, <2>2 DEF Preceded
<1>4. ASSUME NEW j \in Job, Recheck(j) PROVE OrderInv'
  BY <1>4, RecheckStep DEF Kept, SendPC, Preceded
<1>5. ASSUME NEW j \in Job, Deliver(j) PROVE OrderInv'
  <2>1. Preceded(jobs[j].attempt)
    BY <1>5, DeliverStep DEF SendPC
  <2>2. /\ UNCHANGED attempts /\ jobs'[j].attempt = jobs[j].attempt
        /\ \A k \in Attempt : k # jobs[j].attempt => sent'[k] = sent[k]
        /\ \A i \in Job \ {j} : jobs'[i] = jobs[i]
    BY <1>5, DeliverStep DEF Kept, TypeInv, TypeOK
  <2>3. \A k \in attempts' \cup {k \in Attempt : sent'[k] > 0} : Preceded(k)
    BY <2>1, <2>2
  <2>4. \A i \in Job : jobs'[i].pc \in SendPC => Preceded(jobs'[i].attempt)
    BY <2>1, <2>2
  <2> QED
    BY <2>2, <2>3, <2>4 DEF Preceded
<1>6. ASSUME NEW j \in Job, RecordAttempt(j) PROVE OrderInv'
  <2>1. Preceded(jobs[j].attempt)
    BY <1>6, RecordStep DEF SendPC
  <2> QED
    BY <1>6, <2>1, RecordStep DEF Kept, SendPC, Preceded
<1>7. ASSUME NEW j \in Job, Crash(j) PROVE OrderInv'
  BY <1>7, CrashStep DEF SendPC, Preceded
<1>8. CASE EditPolicy \/ EditTicket \/ PassTime \/ UNCHANGED vars
  BY <1>8, TimeStep DEF Preceded
<1> QED
  BY <1>1, <1>2, <1>3, <1>4, <1>5, <1>6, <1>7, <1>8 DEF Next, Sends

\* A repeat of a call is placed only after the call before it is on record,
\* with any number of handlers, crashes included.
THEOREM CallsOneAfterAnother == Spec => []CallsInOrder
<1>1. Init => OrderInv
  BY DEF Init, OrderInv, Idle, SendPC
<1>2. OrderInv => CallsInOrder
  BY DEF OrderInv, CallsInOrder, Preceded
<1> QED
  BY <1>1, <1>2, OrderStep, TypeInvariant, PTL DEF Spec

-----------------------------------------------------------------------------
(* How often a notification may be repeated: what was sent of it is in the    *)
(* hands of handlers that are about to record it, or was lost with one that   *)
(* died; and once it is recorded nobody else goes for it.                     *)

Going(k) == {j \in Job : jobs[j].pc \in {"recheck", "deliver"} /\ jobs[j].attempt = k}
Holding(k) == {j \in Job : jobs[j].pc = "record" /\ jobs[j].attempt = k}

RepeatsOf(k) ==
  /\ k \notin attempts => sent[k] <= Cardinality(Holding(k)) + crashes
  /\ k \in attempts => sent[k] + Cardinality(Going(k)) <= Cardinality(Walker) + crashes

RepeatInv == \A k \in Attempt : RepeatsOf(k)

\* Sets that have nothing in common are counted one after the other.
LEMMA Apart ==
  ASSUME NEW S, NEW T, IsFiniteSet(S), IsFiniteSet(T), S \cap T = {}
  PROVE  Cardinality(S \cup T) = Cardinality(S) + Cardinality(T)
<1>1. Cardinality(S \cup T) = Cardinality(S) + Cardinality(T) - Cardinality(S \cap T)
  BY FS_Union
<1>2. Cardinality(S \cap T) = 0
  BY FS_EmptySet
<1>3. Cardinality(S) \in Nat /\ Cardinality(T) \in Nat
  BY FS_CardinalityType
<1> QED
  BY <1>1, <1>2, <1>3

\* Those with a notification in hand are handlers that walk pages, and nobody
\* goes for one and holds it.
LEMMA InHand ==
  ASSUME RoleInv, IsFiniteSet(Job), NEW k
  PROVE  /\ IsFiniteSet(Going(k)) /\ IsFiniteSet(Holding(k)) /\ IsFiniteSet(Walker)
         /\ Cardinality(Going(k)) \in Nat /\ Cardinality(Holding(k)) \in Nat /\ Cardinality(Walker) \in Nat
         /\ Cardinality(Going(k)) + Cardinality(Holding(k)) <= Cardinality(Walker)
<1>1. Going(k) \cup Holding(k) \subseteq Walker /\ Going(k) \cap Holding(k) = {}
  BY DEF RoleInv, Role, Going, Holding, Walker, WalkPC, WalkOp
<1>2. IsFiniteSet(Walker)
  BY FS_Subset DEF Walker
<1>3. IsFiniteSet(Going(k)) /\ IsFiniteSet(Holding(k))
  BY <1>1, <1>2, FS_Subset
<1>4. Cardinality(Going(k)) \in Nat /\ Cardinality(Holding(k)) \in Nat /\ Cardinality(Walker) \in Nat
  BY <1>2, <1>3, FS_CardinalityType
<1>5. Cardinality(Going(k) \cup Holding(k)) = Cardinality(Going(k)) + Cardinality(Holding(k))
  BY <1>1, <1>3, Apart, Zenon
<1>6. Cardinality(Going(k) \cup Holding(k)) <= Cardinality(Walker)
  BY <1>1, <1>2, FS_Subset
<1> QED
  BY <1>2, <1>3, <1>4, <1>5, <1>6

\* A step that sends and records nothing, keeps what is in hand, and has nobody
\* go for what is recorded.
LEMMA NoRepeat ==
  ASSUME TypeInv, RoleInv, IsFiniteSet(Job), RepeatInv, UNCHANGED <<attempts, unsent, crashes>>,
         \A k \in Attempt : /\ Holding(k)' = Holding(k)
                            /\ k \in attempts => Going(k)' \subseteq Going(k)
  PROVE  RepeatInv'
<1> SUFFICES ASSUME NEW k \in Attempt PROVE RepeatsOf(k)'
  BY DEF RepeatInv
<1>1. RepeatsOf(k) /\ sent'[k] = sent[k] /\ crashes' = crashes /\ attempts' = attempts
  BY DEF RepeatInv, unsent
<1>2. sent[k] \in Nat /\ crashes \in Nat
  BY DEF TypeInv, TypeOK
<1>3. CASE k \notin attempts
  <2>1. Cardinality(Holding(k)') = Cardinality(Holding(k))
    OBVIOUS
  <2> QED
    BY <1>1, <1>3, <2>1 DEF RepeatsOf
<1>4. CASE k \in attempts
  <2>1. Cardinality(Going(k)') \in Nat /\ Cardinality(Going(k)') <= Cardinality(Going(k))
    BY <1>4, InHand, FS_Subset, FS_CardinalityType
  <2>2. sent'[k] + Cardinality(Going(k)') <= Cardinality(Walker) + crashes'
    BY <1>1, <1>2, <1>4, <2>1, InHand DEF RepeatsOf
  <2> QED
    BY <1>1, <1>4, <2>2 DEF RepeatsOf, Walker
<1> QED
  BY <1>3, <1>4

\* A delivery is one more of what is sent, by a handler that holds it then.
LEMMA DeliverRepeats ==
  ASSUME TypeInv, RoleInv, IsFiniteSet(Job), RepeatInv, NEW j \in Job, Deliver(j)
  PROVE  RepeatInv'
<1> SUFFICES ASSUME NEW k \in Attempt PROVE RepeatsOf(k)'
  BY DEF RepeatInv
<1>1. /\ jobs[j].pc = "deliver" /\ jobs'[j].pc = "record" /\ jobs'[j].attempt = jobs[j].attempt
      /\ UNCHANGED <<attempts, crashes>> /\ \A i \in Job \ {j} : jobs'[i] = jobs[i]
      /\ sent' = [sent EXCEPT ![jobs[j].attempt] = @ + 1]
  BY DeliverStep DEF Kept, Deliver
<1>2. RepeatsOf(k) /\ sent[k] \in Nat /\ crashes \in Nat
  BY DEF RepeatInv, TypeInv, TypeOK
<1>3. CASE k # jobs[j].attempt
  <2>1. sent'[k] = sent[k] /\ Holding(k)' = Holding(k) /\ Going(k)' = Going(k)
    BY <1>1, <1>3 DEF Holding, Going, TypeInv, TypeOK
  <2> QED
    BY <1>1, <1>2, <2>1 DEF RepeatsOf, Walker
<1>4. CASE k = jobs[j].attempt
  <2>1. /\ sent'[k] = sent[k] + 1 /\ j \notin Holding(k) /\ j \in Going(k)
        /\ Holding(k)' = Holding(k) \cup {j} /\ Going(k)' = Going(k) \ {j}
    BY <1>1, <1>4 DEF Holding, Going, TypeInv, TypeOK
  <2>2. Cardinality(Holding(k)') = Cardinality(Holding(k)) + 1 /\ Cardinality(Going(k)') = Cardinality(Going(k)) - 1
    <3>1. IsFiniteSet(Holding(k)) /\ IsFiniteSet(Going(k))
      BY InHand
    <3>2. Cardinality(Holding(k) \cup {j}) = Cardinality(Holding(k)) + 1
      BY <2>1, <3>1, FS_AddElement
    <3>3. Cardinality(Going(k) \ {j}) = Cardinality(Going(k)) - 1
      BY <2>1, <3>1, FS_RemoveElement
    <3> QED
      BY <2>1, <3>2, <3>3
  <2>3. k \notin attempts => sent'[k] <= Cardinality(Holding(k)') + crashes
    BY <1>2, <2>1, <2>2, InHand DEF RepeatsOf
  <2>4. k \in attempts => sent'[k] + Cardinality(Going(k)') <= Cardinality(Walker) + crashes
    BY <1>2, <2>1, <2>2, InHand DEF RepeatsOf
  <2> QED
    BY <1>1, <2>3, <2>4 DEF RepeatsOf, Walker
<1> QED
  BY <1>3, <1>4

\* A record turns what is in hand into a bound for good.
LEMMA RecordRepeats ==
  ASSUME TypeInv, RoleInv, IsFiniteSet(Job), RepeatInv, NEW j \in Job, RecordAttempt(j)
  PROVE  RepeatInv'
<1> SUFFICES ASSUME NEW k \in Attempt PROVE RepeatsOf(k)'
  BY DEF RepeatInv
<1>1. /\ jobs[j].pc = "record" /\ jobs'[j].pc = "walk"
      /\ UNCHANGED <<sent, crashes>> /\ \A i \in Job \ {j} : jobs'[i] = jobs[i]
      /\ attempts' = attempts \cup {jobs[j].attempt}
  BY RecordStep DEF Kept, RecordAttempt, unsent
<1>2. RepeatsOf(k) /\ sent[k] \in Nat /\ crashes \in Nat
  BY DEF RepeatInv, TypeInv, TypeOK
<1>3. Going(k)' = Going(k)
  BY <1>1 DEF Going
<1>4. CASE k \in attempts
  BY <1>1, <1>2, <1>3, <1>4 DEF RepeatsOf, Walker
<1>5. CASE k \notin attempts /\ k = jobs[j].attempt
  <2>1. sent[k] + Cardinality(Going(k)) <= Cardinality(Walker) + crashes
    BY <1>2, <1>5, InHand DEF RepeatsOf
  <2> QED
    BY <1>1, <1>3, <1>5, <2>1 DEF RepeatsOf, Walker
<1>6. CASE k \notin attempts /\ k # jobs[j].attempt
  <2>1. Holding(k)' = Holding(k)
    BY <1>1, <1>6 DEF Holding
  <2> QED
    BY <1>1, <1>2, <1>6, <2>1 DEF RepeatsOf
<1> QED
  BY <1>4, <1>5, <1>6

\* A crash loses what one handler had in hand.
LEMMA CrashRepeats ==
  ASSUME TypeInv, RoleInv, IsFiniteSet(Job), RepeatInv, NEW j \in Job, Crash(j)
  PROVE  RepeatInv'
<1> SUFFICES ASSUME NEW k \in Attempt PROVE RepeatsOf(k)'
  BY DEF RepeatInv
<1>1. /\ jobs'[j].pc \in {"next", "idle"} /\ crashes' = crashes + 1 /\ UNCHANGED <<attempts, sent>>
      /\ \A i \in Job \ {j} : jobs'[i] = jobs[i]
  BY CrashStep DEF Crash, unsent
<1>2. RepeatsOf(k) /\ sent[k] \in Nat /\ crashes \in Nat
  BY DEF RepeatInv, TypeInv, TypeOK
<1>3. Holding(k)' = Holding(k) \ {j} /\ Going(k)' = Going(k) \ {j}
  BY <1>1 DEF Holding, Going
<1>4. /\ Cardinality(Holding(k)') \in Nat /\ Cardinality(Holding(k)) <= Cardinality(Holding(k)') + 1
      /\ Cardinality(Going(k)') \in Nat /\ Cardinality(Going(k)') <= Cardinality(Going(k))
  <2>1. /\ IsFiniteSet(Holding(k)') /\ IsFiniteSet(Going(k)')
        /\ \/ Cardinality(Holding(k)') = Cardinality(Holding(k))
           \/ Cardinality(Holding(k)') = Cardinality(Holding(k)) - 1
        /\ \/ Cardinality(Going(k)') = Cardinality(Going(k))
           \/ Cardinality(Going(k)') = Cardinality(Going(k)) - 1
    <3>1. IsFiniteSet(Holding(k)) /\ IsFiniteSet(Going(k))
      BY InHand
    <3>2. /\ IsFiniteSet(Holding(k) \ {j})
          /\ \/ Cardinality(Holding(k) \ {j}) = Cardinality(Holding(k))
             \/ Cardinality(Holding(k) \ {j}) = Cardinality(Holding(k)) - 1
      BY <3>1, FS_RemoveElement
    <3>3. /\ IsFiniteSet(Going(k) \ {j})
          /\ \/ Cardinality(Going(k) \ {j}) = Cardinality(Going(k))
             \/ Cardinality(Going(k) \ {j}) = Cardinality(Going(k)) - 1
      BY <3>1, FS_RemoveElement
    <3> QED
      BY <1>3, <3>2, <3>3
  <2>2. Cardinality(Holding(k)') \in Nat /\ Cardinality(Going(k)') \in Nat
    BY <2>1, FS_CardinalityType
  <2> QED
    BY <2>1, <2>2, InHand
<1>5. k \notin attempts => sent[k] <= Cardinality(Holding(k)') + crashes'
  BY <1>1, <1>2, <1>4, InHand DEF RepeatsOf
<1>6. k \in attempts => sent[k] + Cardinality(Going(k)') <= Cardinality(Walker) + crashes'
  BY <1>1, <1>2, <1>4, InHand DEF RepeatsOf
<1> QED
  BY <1>1, <1>5, <1>6 DEF RepeatsOf, Walker

\* Only a crash counts as one.
LEMMA NoCrash ==
  ASSUME NEW j \in Job, JobStart(j) \/ JobStep(j)
  PROVE  crashes' = crashes
<1>1. CASE JobStart(j)
  BY <1>1 DEF JobStart, Tick, Trigger, Acknowledge, EscalateNow, AutoResolve, Start
<1>2. CASE JobStep(j)
  BY <1>2 DEF JobStep, NextPage, Load, Check, Resolve, Exhaust, Walk, Recheck, Deliver, RecordAttempt,
     PolicyGone, NobodyAcknowledged, Advance, InsertPage, SetAcknowledged, ReadTicket, TakeTicket,
     ListOpenPages, SettlePage
<1> QED
  BY <1>1, <1>2

\* A handler that takes up a notification finds it missing.
LEMMA WalkTakesMissing ==
  ASSUME TypeInv, NEW j \in Job, Walk(j)
  PROVE  jobs'[j].pc \in SendPC => jobs'[j].pc = "recheck" /\ jobs'[j].attempt \notin attempts
<1>1. ASSUME NEW u \in User, NEW r \in Rule, NEW seq \in Missing(j, u, r)
      PROVE  AttemptFor(jobs[j].page, jobs[j].row, u, r, seq) \notin attempts
  BY DEF Missing
<1>2. \/ jobs'[j].pc \in {"walk", "next", "idle"}
      \/ /\ jobs'[j].pc = "recheck"
         /\ \E u \in User, r \in Rule : \E seq \in Missing(j, u, r) :
              jobs'[j].attempt = AttemptFor(jobs[j].page, jobs[j].row, u, r, seq)
  BY WalkStep
<1> QED
  BY <1>1, <1>2 DEF SendPC

\* Every step keeps the count of what is sent within what is in hand or lost.
LEMMA RepeatStep ==
  ASSUME TypeInv, RoleInv, IsFiniteSet(Job), RepeatInv, [Next]_vars
  PROVE  RepeatInv'
<1>1. ASSUME NEW j \in Job, JobStart(j) PROVE RepeatInv'
  <2>1. /\ jobs[j].pc \notin SendPC /\ jobs'[j].pc \notin SendPC
        /\ \A i \in Job \ {j} : jobs'[i] = jobs[i] /\ UNCHANGED <<attempts, unsent, crashes>>
    BY <1>1, Starts, NoCrash DEF SendPC
  <2>2. UNCHANGED <<attempts, unsent, crashes>>
    BY <1>1, Starts, NoCrash
  <2> QED
    BY <2>1, <2>2, NoRepeat DEF Holding, Going, SendPC
<1>2. ASSUME NEW j \in Job, JobStep(j), ~Sends(j) PROVE RepeatInv'
  <2>1. /\ jobs[j].pc \notin SendPC /\ jobs'[j].pc \notin SendPC
        /\ \A i \in Job \ {j} : jobs'[i] = jobs[i]
        /\ UNCHANGED <<attempts, unsent>>
    BY <1>2, QuietSteps DEF Quiet, Kept
  <2> QED
    BY <1>2, <2>1, NoCrash, NoRepeat DEF Holding, Going, SendPC
<1>3. ASSUME NEW j \in Job, Walk(j) PROVE RepeatInv'
  <2>1. /\ jobs[j].pc = "walk" /\ UNCHANGED <<attempts, unsent>> /\ crashes' = crashes
        /\ \A i \in Job \ {j} : jobs'[i] = jobs[i]
    BY <1>3, WalkStep, NoCrash DEF Kept, JobStep
  <2>2. jobs'[j].pc \in SendPC => jobs'[j].pc = "recheck" /\ jobs'[j].attempt \notin attempts
    BY <1>3, WalkTakesMissing
  <2>3. \A k \in Attempt : /\ Holding(k)' = Holding(k)
                           /\ k \in attempts => Going(k)' \subseteq Going(k)
    BY <2>1, <2>2 DEF Holding, Going, SendPC
  <2> QED
    BY <2>1, <2>3, NoRepeat
<1>4. ASSUME NEW j \in Job, Recheck(j) PROVE RepeatInv'
  <2>1. /\ jobs[j].pc = "recheck" /\ UNCHANGED <<attempts, unsent>> /\ crashes' = crashes
        /\ \A i \in Job \ {j} : jobs'[i] = jobs[i]
        /\ jobs'[j].pc \in SendPC => jobs'[j].pc = "deliver" /\ jobs'[j].attempt = jobs[j].attempt
    BY <1>4, RecheckStep, NoCrash DEF Kept, JobStep
  <2>2. \A k \in Attempt : /\ Holding(k)' = Holding(k)
                           /\ k \in attempts => Going(k)' \subseteq Going(k)
    BY <2>1 DEF Holding, Going, SendPC
  <2> QED
    BY <2>1, <2>2, NoRepeat
<1>5. ASSUME NEW j \in Job, Deliver(j) \/ RecordAttempt(j) \/ Crash(j) PROVE RepeatInv'
  BY <1>5, DeliverRepeats, RecordRepeats, CrashRepeats
<1>6. CASE EditPolicy \/ EditTicket \/ PassTime \/ UNCHANGED vars
  <2>1. UNCHANGED <<attempts, unsent, crashes>>
    BY <1>6, TimeStep DEF EditPolicy, EditTicket, PassTime, vars
  <2>2. \A k \in Attempt : Holding(k)' = Holding(k) /\ Going(k)' = Going(k)
    BY <1>6, TimeStep DEF Holding, Going
  <2> QED
    BY <2>1, <2>2, NoRepeat
<1> QED
  BY <1>1, <1>2, <1>3, <1>4, <1>5, <1>6 DEF Next, Sends

\* However many handlers overlap and wherever they die, a notification goes out
\* at most once for each handler that walks pages and once for each crash: a
\* handler records what it sent before it looks for more, and nobody goes for
\* what is recorded.
THEOREM RepeatsAreBounded ==
  ASSUME IsFiniteSet(Job)
  PROVE  Spec => []RepeatsBounded
<1>1. Init => RepeatInv
  <2> SUFFICES ASSUME Init, NEW k \in Attempt PROVE RepeatsOf(k)
    BY DEF RepeatInv
  <2>1. Holding(k) = {} /\ k \notin attempts /\ sent[k] = 0 /\ crashes = 0
    BY DEF Init, Holding, Idle
  <2>2. Cardinality(Holding(k)) = 0
    BY <2>1, FS_EmptySet
  <2> QED
    BY <2>1, <2>2 DEF RepeatsOf
<1>2. TypeInv /\ RoleInv /\ RepeatInv /\ [Next]_vars => RepeatInv'
  BY RepeatStep
<1>3. TypeInv /\ RoleInv /\ RepeatInv => RepeatsBounded
  <2> SUFFICES ASSUME TypeInv, RoleInv, RepeatInv, NEW k \in Attempt
               PROVE  sent[k] <= Cardinality(Walker) + crashes
    BY DEF RepeatsBounded
  <2>1. RepeatsOf(k) /\ sent[k] \in Nat /\ crashes \in Nat
    BY DEF RepeatInv, TypeInv, TypeOK
  <2> QED
    BY <2>1, InHand DEF RepeatsOf
<1> QED
  BY <1>1, <1>2, <1>3, TypeInvariant, RoleInvariant, PTL DEF Spec

-----------------------------------------------------------------------------
(* Pages come of an INSERT only, and a handler goes to one when it finds none *)
(* escalating: those it does not know of are of handlers that looked as well. *)

\* Only an INSERT makes a page escalate.
LEMMA OnlyInsertTriggers ==
  ASSUME TypeInv, NEW j \in Job, JobStep(j), ~InsertPage(j), NEW p \in Page, Triggered(p)'
  PROVE  Triggered(p)
<1>0. pages \in [Page -> Row]
  BY DEF TypeInv, TypeOK
<1>1. ASSUME NEW q \in Page, NEW s \in {"resolved", "exhausted"}, SetStatus(q, s)
      PROVE  Triggered(p)
  BY <1>0, <1>1 DEF SetStatus, Row, Triggered
<1>2. CASE Resolve(j) \/ Exhaust(j) \/ PolicyGone(j) \/ NobodyAcknowledged(j)
  <2>1. jobs[j].page \in Page
    BY <1>2 DEF Resolve, Exhaust, PolicyGone, NobodyAcknowledged, At, TypeInv, Shaped, PagePC
  <2> QED
    BY <1>1, <1>2, <2>1 DEF Resolve, Exhaust, PolicyGone, NobodyAcknowledged
<1>3. CASE Advance(j)
  BY <1>0, <1>3 DEF Advance, Row, Triggered
<1>4. CASE SetAcknowledged(j)
  BY <1>0, <1>4 DEF SetAcknowledged, Row, Triggered
<1>5. CASE SettlePage(j)
  <2>1. jobs[j].queue \subseteq Page
    BY DEF TypeInv, TypeOK, JobRecord
  <2> QED
    BY <1>1, <1>5, <2>1 DEF SettlePage, Triggered
<1>6. CASE UNCHANGED pages
  BY <1>6 DEF Triggered
<1> QED
  BY <1>2, <1>3, <1>4, <1>5, <1>6 DEF JobStep, NextPage, Load, Check, Walk, Recheck, Deliver,
     RecordAttempt, ReadTicket, TakeTicket, ListOpenPages

Escalating == {p \in Page : Triggered(p)}
Inserting == {j \in Job : jobs[j].pc = "insert"}

\* An INSERT under way stands for the page it is about to add.
PagesInv ==
  /\ IsFiniteSet(Escalating)
  /\ Cardinality(Escalating) + Cardinality(Inserting) <= Cardinality(Triggerer)

\* The handlers about to insert a page are some of those that trigger.
LEMMA InsertingTrigger ==
  ASSUME RoleInv, IsFiniteSet(Job)
  PROVE  /\ IsFiniteSet(Inserting) /\ IsFiniteSet(Triggerer)
         /\ Cardinality(Inserting) \in Nat /\ Cardinality(Triggerer) \in Nat
         /\ Cardinality(Inserting) <= Cardinality(Triggerer)
<1>1. Inserting \subseteq Triggerer
  BY DEF RoleInv, Role, Inserting, Triggerer, WalkPC
<1>2. IsFiniteSet(Triggerer)
  BY FS_Subset DEF Triggerer
<1> QED
  BY <1>1, <1>2, FS_Subset, FS_CardinalityType

\* A step that starts no page and goes to no INSERT keeps the bound.
LEMMA NoMorePages ==
  ASSUME RoleInv, IsFiniteSet(Job), PagesInv, Escalating' \subseteq Escalating, Inserting' \subseteq Inserting
  PROVE  PagesInv'
<1>1. /\ IsFiniteSet(Escalating) /\ IsFiniteSet(Inserting)
      /\ Cardinality(Escalating) \in Nat /\ Cardinality(Inserting) \in Nat /\ Cardinality(Triggerer) \in Nat
  BY InsertingTrigger, FS_CardinalityType DEF PagesInv
<1>2. /\ IsFiniteSet(Escalating') /\ Cardinality(Escalating') \in Nat
      /\ Cardinality(Escalating') <= Cardinality(Escalating)
      /\ Cardinality(Inserting') \in Nat /\ Cardinality(Inserting') <= Cardinality(Inserting)
  BY <1>1, FS_Subset, FS_CardinalityType
<1>3. Cardinality(Escalating) + Cardinality(Inserting) <= Cardinality(Triggerer)
  BY DEF PagesInv
<1>4. Cardinality(Escalating') + Cardinality(Inserting') <= Cardinality(Triggerer)
  BY <1>1, <1>2, <1>3
<1> QED
  BY <1>2, <1>4 DEF PagesInv, Triggerer

\* An INSERT adds a page and is over.
LEMMA InsertAddsOne ==
  ASSUME TypeInv, RoleInv, IsFiniteSet(Job), PagesInv, NEW j \in Job, InsertPage(j)
  PROVE  PagesInv'
<1>1. jobs[j].pc = "insert" /\ Kept(j)
  BY SendStep DEF InsertPage, At, JobStep
<1>2. Inserting' = Inserting \ {j} /\ j \in Inserting
  BY <1>1 DEF Inserting, Kept
<1>3. CASE UNCHANGED pages
  BY <1>2, <1>3, NoMorePages DEF Escalating, Triggered
<1>4. ASSUME NEW p \in Page, NEW row, pages' = [pages EXCEPT ![p] = row] PROVE PagesInv'
  <2>1. Escalating' \subseteq Escalating \cup {p}
    BY <1>4 DEF Escalating, Triggered, TypeInv, TypeOK
  <2>2. /\ IsFiniteSet(Escalating) /\ IsFiniteSet(Inserting)
        /\ Cardinality(Escalating) \in Nat /\ Cardinality(Inserting) \in Nat /\ Cardinality(Triggerer) \in Nat
    BY InsertingTrigger, FS_CardinalityType DEF PagesInv
  <2>3. /\ IsFiniteSet(Escalating \cup {p}) /\ Cardinality(Escalating \cup {p}) \in Nat
        /\ Cardinality(Escalating \cup {p}) <= Cardinality(Escalating) + 1
    <3>1. /\ IsFiniteSet(Escalating \cup {p})
          /\ \/ Cardinality(Escalating \cup {p}) = Cardinality(Escalating)
             \/ Cardinality(Escalating \cup {p}) = Cardinality(Escalating) + 1
      BY <2>2, FS_AddElement
    <3> QED
      BY <2>2, <3>1
  <2>4. /\ IsFiniteSet(Escalating') /\ Cardinality(Escalating') \in Nat
        /\ Cardinality(Escalating') <= Cardinality(Escalating) + 1
    <3>1. /\ IsFiniteSet(Escalating') /\ Cardinality(Escalating') \in Nat
          /\ Cardinality(Escalating') <= Cardinality(Escalating \cup {p})
      BY <2>1, <2>3, FS_Subset, FS_CardinalityType
    <3> QED
      BY <2>2, <2>3, <3>1
  <2>5. Cardinality(Inserting') = Cardinality(Inserting) - 1
    BY <1>2, <2>2, FS_RemoveElement
  <2>6. Cardinality(Escalating) + Cardinality(Inserting) <= Cardinality(Triggerer)
    BY DEF PagesInv
  <2>7. Cardinality(Escalating') + Cardinality(Inserting') <= Cardinality(Triggerer)
    BY <2>2, <2>4, <2>5, <2>6
  <2> QED
    BY <2>4, <2>7 DEF PagesInv, Triggerer
<1>5. UNCHANGED pages \/ \E p \in Page : \E row : pages' = [pages EXCEPT ![p] = row]
  BY DEF InsertPage
<1> QED
  BY <1>3, <1>4, <1>5

\* Edits and the passing of time make no page escalate.
LEMMA TimeTriggersNone ==
  ASSUME TypeInv, EditPolicy \/ EditTicket \/ PassTime \/ UNCHANGED vars, NEW p \in Page
  PROVE  Triggered(p)' <=> Triggered(p)
<1>1. CASE PassTime
  BY <1>1 DEF PassTime, Triggered, Older, TypeInv, TypeOK, Row
<1>2. CASE EditPolicy \/ EditTicket \/ UNCHANGED vars
  BY <1>2 DEF EditPolicy, EditTicket, vars, Triggered
<1> QED
  BY <1>1, <1>2

\* Every step keeps the pages that escalate within the handlers that trigger.
LEMMA PagesStep ==
  ASSUME TypeInv, RoleInv, RoleInv', IsFiniteSet(Job), PagesInv, [Next]_vars
  PROVE  PagesInv'
<1>1. ASSUME NEW j \in Job, JobStart(j) PROVE PagesInv'
  <2>1. UNCHANGED pages /\ \A i \in Job \ {j} : jobs'[i] = jobs[i]
    BY <1>1, Starts
  <2>2. Escalating' = Escalating
    BY <2>1 DEF Escalating, Triggered
  <2>3. CASE jobs'[j].pc # "insert"
    <3>1. Inserting' \subseteq Inserting
      BY <2>1, <2>3 DEF Inserting
    <3> QED
      BY <2>2, <3>1, NoMorePages
  <2>4. CASE jobs'[j].pc = "insert"
    <3>1. Escalating' = {}
      BY <1>1, <2>2, <2>4, Starts DEF Trigger, MayTrigger, Escalating
    <3>2. Cardinality(Inserting') \in Nat /\ Cardinality(Inserting') <= Cardinality(Triggerer)
      <4>1. Inserting' \subseteq Triggerer
        BY DEF RoleInv, Role, Inserting, Triggerer, WalkPC
      <4> QED
        BY <4>1, InsertingTrigger, FS_Subset, FS_CardinalityType
    <3>3. IsFiniteSet(Escalating') /\ Cardinality(Escalating') = 0
      BY <3>1, FS_EmptySet
    <3> QED
      BY <3>2, <3>3, InsertingTrigger DEF PagesInv, Triggerer
  <2> QED
    BY <2>3, <2>4
<1>2. ASSUME NEW j \in Job, JobStep(j), ~InsertPage(j) PROVE PagesInv'
  <2>1. Inserting' \subseteq Inserting
    BY <1>2, SendStep DEF Kept, Inserting
  <2>2. Escalating' \subseteq Escalating
    BY <1>2, OnlyInsertTriggers DEF Escalating
  <2> QED
    BY <2>1, <2>2, NoMorePages
<1>3. ASSUME NEW j \in Job, InsertPage(j) PROVE PagesInv'
  BY <1>3, InsertAddsOne
<1>4. ASSUME NEW j \in Job, Crash(j) PROVE PagesInv'
  <2>1. Inserting' \subseteq Inserting
    BY <1>4, CrashStep DEF Inserting
  <2>2. Escalating' \subseteq Escalating
    BY <1>4, CrashStep DEF Escalating, Triggered
  <2> QED
    BY <2>1, <2>2, NoMorePages
<1>5. CASE EditPolicy \/ EditTicket \/ PassTime \/ UNCHANGED vars
  <2>1. Inserting' \subseteq Inserting
    BY <1>5, TimeStep DEF Inserting
  <2>2. Escalating' \subseteq Escalating
    BY <1>5, TimeTriggersNone DEF Escalating
  <2> QED
    BY <2>1, <2>2, NoMorePages
<1> QED
  BY <1>1, <1>2, <1>3, <1>4, <1>5 DEF Next

\* However triggers overlap and wherever their handlers die, a ticket has no
\* more pages escalating than there are handlers that trigger: each insert
\* stands for a look that found none, and nothing else makes a page escalate.
THEOREM PagesAreBounded ==
  ASSUME IsFiniteSet(Job)
  PROVE  Spec => []PagesBounded
<1>1. Init => PagesInv
  <2> SUFFICES ASSUME Init PROVE PagesInv
    OBVIOUS
  <2>1. Escalating = {} /\ Inserting = {}
    BY DEF Init, Escalating, Inserting, Triggered, NoRow, Idle
  <2>2. Cardinality(Triggerer) \in Nat
    BY FS_Subset, FS_CardinalityType DEF Triggerer
  <2>3. Cardinality(Escalating) = 0 /\ Cardinality(Inserting) = 0 /\ IsFiniteSet(Escalating)
    BY <2>1, FS_EmptySet
  <2> QED
    BY <2>2, <2>3 DEF PagesInv
<1>2. TypeInv /\ RoleInv /\ RoleInv' /\ PagesInv /\ [Next]_vars => PagesInv'
  BY PagesStep
<1>3. RoleInv /\ PagesInv => PagesBounded
  <2> SUFFICES ASSUME RoleInv, PagesInv PROVE Cardinality(Escalating) <= Cardinality(Triggerer)
    BY DEF PagesBounded, Escalating
  <2>1. Cardinality(Escalating) \in Nat /\ Cardinality(Inserting) \in Nat /\ Cardinality(Triggerer) \in Nat
    BY InsertingTrigger, FS_CardinalityType DEF PagesInv
  <2> QED
    BY <2>1 DEF PagesInv
<1> QED
  BY <1>1, <1>2, <1>3, TypeInvariant, RoleInvariant, PTL DEF Spec

-----------------------------------------------------------------------------
(* What a handler has read of a page's level and pass.  With one handler that *)
(* walks pages, the row an advance starts from is the row it overwrites.      *)

OneWalker ==
  \A i, j \in Job : May[i] \cap WalkOp # {} /\ May[j] \cap WalkOp # {} => i = j

\* With one walker, two handlers that walk pages are the same.
LEMMA OneSender ==
  ASSUME TypeInv, RoleInv, OneWalker, NEW i \in Job, NEW j \in Job,
         jobs[i].pc \in WalkPC, jobs[j].pc \in WalkPC
  PROVE  i = j
<1>1. jobs[i].op \in May[i] \cap WalkOp /\ jobs[j].op \in May[j] \cap WalkOp
  BY DEF RoleInv, Role, WalkOp
<1> QED
  BY <1>1 DEF OneWalker

StalePC == {"check", "advance"}

MoveInv ==
  /\ \A p \in Page : pages[p].status = "none" => pages[p].level = 0 /\ pages[p].cycle = 0
  /\ \A j \in Job : jobs[j].pc \in StalePC =>
       /\ pages[jobs[j].page].status # "none"
       /\ jobs[j].row.level = pages[jobs[j].page].level
       /\ jobs[j].row.cycle = pages[jobs[j].page].cycle

\* Only an INSERT and an advance write levels; no row becomes a free id again.
LevelsKept ==
  \A p \in Page : /\ pages'[p].level = pages[p].level /\ pages'[p].cycle = pages[p].cycle
                  /\ pages'[p].status = "none" => pages[p].status = "none"

\* setStatus moves no page to another level or pass.
LEMMA SetStatusKeepsLevels ==
  ASSUME TypeInv, NEW q, NEW s \in Status \ {"none"}, SetStatus(q, s)
  PROVE  LevelsKept
  BY DEF SetStatus, LevelsKept, TypeInv, TypeOK, Row

\* Only a trigger and advanceLevel write a page's level and pass.
LEMMA StepKeepsLevels ==
  ASSUME TypeInv, NEW j \in Job, JobStep(j), ~InsertPage(j), ~Advance(j)
  PROVE  LevelsKept
<1>1. CASE Resolve(j) \/ Exhaust(j) \/ PolicyGone(j) \/ NobodyAcknowledged(j)
  BY <1>1, SetStatusKeepsLevels DEF Resolve, Exhaust, PolicyGone, NobodyAcknowledged, Status
<1>2. CASE SetAcknowledged(j)
  BY <1>2 DEF SetAcknowledged, LevelsKept, TypeInv, TypeOK, Row
<1>3. CASE UNCHANGED pages
  BY <1>3 DEF LevelsKept
<1>4. CASE SettlePage(j)
  BY <1>3, <1>4, SetStatusKeepsLevels DEF SettlePage, Status
<1> QED
  BY <1>1, <1>2, <1>3, <1>4 DEF JobStep, NextPage, Load, Check, Walk, Recheck, Deliver,
     RecordAttempt, ReadTicket, TakeTicket, ListOpenPages

\* A handler about to check or to advance has just read the row, or was about
\* to check the one it has.
Fresh(j) ==
  /\ UNCHANGED pages
  /\ \/ /\ pages[jobs'[j].page].status # "none"
        /\ jobs'[j].row = pages[jobs'[j].page]
     \/ jobs[j].pc = "check" /\ jobs'[j].page = jobs[j].page /\ jobs'[j].row = jobs[j].row

\* A handler that only moves its program counter keeps its page and its row.
LEMMA PCAfter ==
  ASSUME TypeInv, NEW j \in Job, NEW pc, Go(j, [jobs[j] EXCEPT !.pc = pc])
  PROVE  jobs'[j].pc = pc /\ jobs'[j].page = jobs[j].page /\ jobs'[j].row = jobs[j].row
<1> DEFINE job == [jobs[j] EXCEPT !.pc = pc]
<1>1. job.pc = pc /\ job.page = jobs[j].page /\ job.row = jobs[j].row
  BY DEF TypeInv, TypeOK, JobRecord
<1>2. Go(j, job)
  OBVIOUS
<1> HIDE DEF job
<1> QED
  BY <1>1, <1>2, Moves

\* escalateNow starts from the row as it is in the table.
LEMMA StartFresh ==
  ASSUME TypeInv, NEW j \in Job, JobStart(j), jobs'[j].pc \in StalePC
  PROVE  Fresh(j)
<1>1. EscalateNow(j)
  BY Starts DEF StalePC
<1>2. PICK p \in Page : /\ Triggered(p) /\ UNCHANGED pages
                        /\ Go(j, [Idle EXCEPT !.op = "escalate", !.pc = "advance", !.page = p, !.row = pages[p]])
  BY <1>1 DEF EscalateNow, Start, MayEscalate
<1> DEFINE job == [Idle EXCEPT !.op = "escalate", !.pc = "advance", !.page = p, !.row = pages[p]]
<1>3. job.page = p /\ job.row = pages[p]
  BY DEF Idle
<1>4. Go(j, job)
  BY <1>2
<1> HIDE DEF job
<1>5. jobs'[j] = job
  BY <1>4, Moves
<1> QED
  BY <1>2, <1>3, <1>5 DEF Fresh, Triggered

\* Only loading a page, and looking at it, lead on to a check or an advance.
LEMMA OthersLeaveRows ==
  ASSUME TypeInv, NEW j \in Job, JobStep(j), ~Load(j), ~Check(j)
  PROVE  jobs'[j].pc \notin StalePC
<1> SUFFICES ASSUME jobs'[j].pc \in StalePC PROVE FALSE
  OBVIOUS
<1>0. jobs[j] \in JobRecord
  BY DEF TypeInv, TypeOK
<1> USE DEF At, StalePC
<1>1. CASE NextPage(j)
  <2>1. ASSUME NEW p \in jobs[j].queue, Go(j, [jobs[j] EXCEPT !.pc = "load", !.page = p, !.queue = @ \ {p}])
        PROVE  FALSE
    <3> DEFINE job == [jobs[j] EXCEPT !.pc = "load", !.page = p, !.queue = @ \ {p}]
    <3>1. job.pc = "load"
      BY <1>0 DEF JobRecord
    <3>2. Go(j, job)
      BY <2>1
    <3> HIDE DEF job
    <3> QED
      BY <3>1, <3>2, Moves
  <2>2. CASE Go(j, Idle)
    BY <2>2, Moves DEF Idle
  <2> QED
    BY <1>1, <2>1, <2>2 DEF NextPage
<1>2. CASE Resolve(j) \/ Exhaust(j)
  BY <1>2, Finishes DEF Resolve, Exhaust
<1>3. CASE Walk(j)
  BY <1>3, WalkStep
<1>4. CASE Recheck(j)
  BY <1>4, PCAfter, Finishes DEF Recheck
<1>5. CASE Deliver(j) \/ RecordAttempt(j)
  BY <1>5, DeliverStep, RecordStep
<1>6. CASE PolicyGone(j) \/ NobodyAcknowledged(j) \/ Advance(j)
  <2>1. Go(j, [jobs[j] EXCEPT !.pc = "load"])
    BY <1>6 DEF PolicyGone, NobodyAcknowledged, Advance
  <2>2. jobs'[j].pc = "load"
    BY <2>1, PCAfter
  <2> QED
    BY <2>2
<1>7. CASE InsertPage(j)
  <2>1. ASSUME NEW p \in Page, Go(j, [jobs[j] EXCEPT !.pc = "load", !.page = p])
        PROVE  FALSE
    <3> DEFINE job == [jobs[j] EXCEPT !.pc = "load", !.page = p]
    <3>1. job.pc = "load"
      BY <1>0 DEF JobRecord
    <3>2. Go(j, job)
      BY <2>1
    <3> HIDE DEF job
    <3>3. jobs'[j] = job
      BY <3>2, Moves
    <3> QED
      BY <3>1, <3>3
  <2>2. CASE Go(j, Idle)
    BY <2>2, Moves DEF Idle
  <2> QED
    BY <1>7, <2>1, <2>2 DEF InsertPage
<1>8. CASE SetAcknowledged(j)
  <2>1. Go(j, [jobs[j] EXCEPT !.pc = "ackread"])
    BY <1>8 DEF SetAcknowledged
  <2>2. jobs'[j].pc = "ackread"
    BY <2>1, PCAfter
  <2> QED
    BY <2>2
<1>9. CASE ReadTicket(j)
  <2> DEFINE job == [jobs[j] EXCEPT !.pc = "ackticket", !.seen = ticket]
  <2>1. job.pc = "ackticket" /\ Go(j, job)
    BY <1>0, <1>9 DEF ReadTicket, JobRecord
  <2> HIDE DEF job
  <2> QED
    BY <2>1, Moves
<1>10. CASE ListOpenPages(j)
  <2> DEFINE open == {p \in Page : Triggered(p)}
             job == [jobs[j] EXCEPT !.pc = "settle", !.queue = open]
  <2>1. job.pc = "settle"
    BY <1>0 DEF JobRecord
  <2>2. Go(j, job)
    BY <1>10 DEF ListOpenPages
  <2> HIDE DEF job
  <2> QED
    BY <2>1, <2>2, Moves
<1>11. CASE SettlePage(j)
  <2>1. ASSUME NEW p \in jobs[j].queue, Go(j, [jobs[j] EXCEPT !.queue = @ \ {p}])
        PROVE  jobs'[j].pc = jobs[j].pc
    <3> DEFINE job == [jobs[j] EXCEPT !.queue = @ \ {p}]
    <3>1. job.pc = jobs[j].pc
      BY <1>0 DEF JobRecord
    <3>2. Go(j, job)
      BY <2>1
    <3> HIDE DEF job
    <3>3. jobs'[j] = job
      BY <3>2, Moves
    <3> QED
      BY <3>1, <3>3
  <2>2. CASE Go(j, Idle)
    BY <2>2, Moves DEF Idle
  <2> QED
    BY <1>11, <2>1, <2>2 DEF SettlePage
<1>12. CASE TakeTicket(j)
  BY <1>12, Moves DEF TakeTicket, Idle
<1> QED
  BY <1>1, <1>2, <1>3, <1>4, <1>5, <1>6, <1>7, <1>8, <1>9, <1>10, <1>11, <1>12 DEF JobStep

\* processPage advances from the row as it was in the table when it loaded it.
LEMMA StepFresh ==
  ASSUME TypeInv, NEW j \in Job, JobStep(j), jobs'[j].pc \in StalePC
  PROVE  Fresh(j)
<1>0. jobs[j] \in JobRecord
  BY DEF TypeInv, TypeOK
<1> USE DEF At, StalePC
<1>1. CASE Load(j)
  <2> DEFINE job == [jobs[j] EXCEPT !.pc = "check", !.row = pages[jobs[j].page]]
  <2>1. job.page = jobs[j].page /\ job.row = pages[jobs[j].page]
    BY <1>0 DEF JobRecord
  <2>2. Triggered(jobs[j].page) /\ Go(j, job) /\ UNCHANGED pages
    BY <1>1, Finishes DEF Load
  <2> HIDE DEF job
  <2>3. jobs'[j] = job
    BY <2>2, Moves
  <2> QED
    BY <2>1, <2>2, <2>3 DEF Fresh, Triggered
<1>2. CASE Check(j)
  <2> DEFINE job == [jobs[j] EXCEPT !.pc = "walk", !.elapsed = jobs[j].row.age,
                                    !.todo = jobs[j].row.targets \X Rule]
  <2>1. job.pc = "walk"
    BY <1>0 DEF JobRecord
  <2>2. Go(j, job) \/ \E pc \in {"resolve", "exhaust", "advance"} : Go(j, [jobs[j] EXCEPT !.pc = pc])
    BY <1>2 DEF Check
  <2> HIDE DEF job
  <2>3. PICK pc : Go(j, [jobs[j] EXCEPT !.pc = pc])
    BY <2>1, <2>2, Moves
  <2> QED
    BY <1>2, <2>3, PCAfter DEF Check, Fresh
<1> QED
  BY <1>1, <1>2, OthersLeaveRows

\* Edits and the passing of time change no page's level, pass or status.
LEMMA TimeKeepsMoves ==
  ASSUME TypeInv, MoveInv, EditPolicy \/ EditTicket \/ PassTime \/ UNCHANGED vars
  PROVE  MoveInv' /\ LevelsKept
<1>1. CASE PassTime
  <2>1. ASSUME NEW row \in Row
        PROVE  Older(row).level = row.level /\ Older(row).cycle = row.cycle /\ Older(row).status = row.status
    BY DEF Older, Row
  <2>2. \A p \in Page : /\ pages'[p].level = pages[p].level /\ pages'[p].cycle = pages[p].cycle
                         /\ pages'[p].status = pages[p].status
    BY <1>1, <2>1 DEF PassTime, TypeInv, TypeOK
  <2>3. ASSUME NEW j \in Job, jobs'[j].pc \in StalePC
        PROVE  /\ jobs[j].pc \in StalePC /\ jobs'[j].page = jobs[j].page /\ jobs[j].page \in Page
               /\ jobs'[j].row.level = jobs[j].row.level /\ jobs'[j].row.cycle = jobs[j].row.cycle
    <3>1. jobs'[j] = IF At(j, "check") THEN [jobs[j] EXCEPT !.row = Older(jobs[j].row)] ELSE jobs[j]
      BY <1>1 DEF PassTime
    <3>2. jobs[j] \in JobRecord /\ jobs[j].row \in Row /\ Shaped(jobs[j])
      BY DEF TypeInv, TypeOK, JobRecord
    <3>3. jobs'[j].pc = jobs[j].pc
      BY <3>1, <3>2 DEF JobRecord
    <3> QED
      BY <2>1, <2>3, <3>1, <3>2, <3>3 DEF JobRecord, StalePC, Shaped, PagePC
  <2> QED
    BY <2>2, <2>3 DEF MoveInv, LevelsKept
<1>2. CASE EditPolicy \/ EditTicket \/ UNCHANGED vars
  BY <1>2 DEF EditPolicy, EditTicket, vars, MoveInv, LevelsKept
<1> QED
  BY <1>1, <1>2

\* What every step but an INSERT and an advance leaves of the invariant.
LEMMA OtherStepsKeepMoves ==
  ASSUME TypeInv, MoveInv, NEW j \in Job, LevelsKept,
         \A i \in Job \ {j} : jobs'[i] = jobs[i],
         jobs'[j].pc \in StalePC => Fresh(j)
  PROVE  MoveInv'
<1>1. \A p \in Page : pages'[p].status = "none" => pages'[p].level = 0 /\ pages'[p].cycle = 0
  BY DEF MoveInv, LevelsKept
<1>2. ASSUME NEW i \in Job, jobs'[i].pc \in StalePC
      PROVE  /\ pages'[jobs'[i].page].status # "none"
             /\ jobs'[i].row.level = pages'[jobs'[i].page].level
             /\ jobs'[i].row.cycle = pages'[jobs'[i].page].cycle
  <2>1. CASE i = j
    BY <1>2, <2>1 DEF Fresh, MoveInv, StalePC
  <2>2. CASE i # j
    <3>1. jobs'[i] = jobs[i] /\ jobs[i].page \in Page
      BY <1>2, <2>2 DEF StalePC, TypeInv, Shaped, PagePC
    <3> QED
      BY <1>2, <3>1 DEF MoveInv, LevelsKept
  <2> QED
    BY <2>1, <2>2
<1> QED
  BY <1>1, <1>2 DEF MoveInv

\* A step of the one walker that writes levels leaves no stale row behind.
LEMMA OneWriterKeepsMoves ==
  ASSUME TypeInv, RoleInv, OneWalker, MoveInv, NEW j \in Job, jobs[j].pc \in WalkPC,
         \A q \in Page : pages'[q].status = "none" => pages'[q] = pages[q],
         jobs'[j].pc \notin StalePC, \A i \in Job \ {j} : jobs'[i] = jobs[i]
  PROVE  MoveInv'
<1>1. \A i \in Job : jobs'[i].pc \notin StalePC
  BY OneSender DEF StalePC, WalkPC
<1> QED
  BY <1>1 DEF MoveInv

\* With one walker, what handlers have read of levels stays true at every step.
LEMMA MoveStep ==
  ASSUME TypeInv, RoleInv, OneWalker, MoveInv, [Next]_vars
  PROVE  MoveInv'
<1>1. ASSUME NEW j \in Job, JobStart(j) PROVE MoveInv'
  <2>1. LevelsKept
    BY <1>1, Starts DEF LevelsKept
  <2> QED
    BY <1>1, <2>1, Starts, StartFresh, OtherStepsKeepMoves
<1>2. ASSUME NEW j \in Job, JobStep(j), ~InsertPage(j), ~Advance(j) PROVE MoveInv'
  BY <1>2, StepKeepsLevels, SendStep, StepFresh, OtherStepsKeepMoves DEF Kept
<1>3. ASSUME NEW j \in Job, Advance(j) PROVE MoveInv'
  <2> DEFINE p == jobs[j].page
             old == jobs[j].row
  <2>1. jobs[j].pc = "advance" /\ p \in Page
    BY <1>3 DEF Advance, At, TypeInv, Shaped, PagePC
  <2>2. pages[p].status # "none"
    BY <2>1 DEF MoveInv, StalePC
  <2>3. PICK targets :
          pages' = [pages EXCEPT ![p] =
                      [@ EXCEPT !.level = NextLevel(old), !.cycle = NextCycle(old), !.age = 0, !.targets = targets]]
    BY <1>3 DEF Advance
  <2> DEFINE row == [pages[p] EXCEPT !.level = NextLevel(old), !.cycle = NextCycle(old), !.age = 0,
                                     !.targets = targets]
  <2>4. row.status = pages[p].status /\ pages' = [pages EXCEPT ![p] = row]
    BY <2>1, <2>3 DEF TypeInv, TypeOK, Row
  <2> HIDE DEF row
  <2>5. Go(j, [jobs[j] EXCEPT !.pc = "load"])
    BY <1>3 DEF Advance
  <2>6. jobs'[j].pc = "load"
    BY <2>5, PCAfter
  <2>7. \A i \in Job \ {j} : jobs'[i] = jobs[i]
    BY <2>5, Moves
  <2>8. \A q \in Page : pages'[q].status = "none" => pages'[q] = pages[q]
    BY <2>1, <2>2, <2>4 DEF TypeInv, TypeOK
  <2> QED
    BY <2>1, <2>6, <2>7, <2>8, OneWriterKeepsMoves DEF StalePC, WalkPC
<1>4. ASSUME NEW j \in Job, InsertPage(j) PROVE MoveInv'
  <2>1. jobs[j].pc = "insert" /\ JobStep(j)
    BY <1>4 DEF InsertPage, At, JobStep
  <2>2. jobs'[j].pc \notin StalePC
    <3>1. jobs'[j].pc \in StalePC => Fresh(j)
      BY <2>1, StepFresh
    <3>2. levels # 0 => pages' # pages
      <4> SUFFICES ASSUME levels # 0 PROVE pages' # pages
        OBVIOUS
      <4>1. PICK p \in Page, targets \in Reaches[0] :
               /\ pages[p].status = "none"
               /\ pages' = [pages EXCEPT ![p] = [NoRow EXCEPT !.status = "triggered", !.targets = targets]]
        BY <1>4 DEF InsertPage
      <4>2. pages'[p].status = "triggered"
        BY <4>1 DEF NoRow, TypeInv, TypeOK
      <4> QED
        BY <4>1, <4>2
    <3>3. levels = 0 => jobs'[j].pc = "idle"
      BY <1>4, Moves DEF InsertPage, Idle
    <3> QED
      BY <3>1, <3>2, <3>3 DEF Fresh, StalePC
  <2>3. \A i \in Job \ {j} : jobs'[i] = jobs[i]
    BY <2>1, SendStep DEF Kept
  <2>4. CASE levels = 0
    <3>1. LevelsKept
      BY <1>4, <2>4 DEF InsertPage, LevelsKept
    <3> QED
      BY <2>2, <2>3, <3>1, OtherStepsKeepMoves
  <2>5. CASE levels # 0
    <3>1. PICK p \in Page, targets \in Reaches[0] :
            /\ pages[p].status = "none"
            /\ pages' = [pages EXCEPT ![p] = [NoRow EXCEPT !.status = "triggered", !.targets = targets]]
      BY <1>4, <2>5 DEF InsertPage
    <3> DEFINE row == [NoRow EXCEPT !.status = "triggered", !.targets = targets]
    <3>2. row.status = "triggered" /\ pages' = [pages EXCEPT ![p] = row]
      BY <3>1 DEF NoRow
    <3> HIDE DEF row
    <3>3. \A q \in Page : pages'[q].status = "none" => pages'[q] = pages[q]
      BY <3>2 DEF TypeInv, TypeOK
    <3> QED
      BY <2>1, <2>2, <2>3, <3>3, OneWriterKeepsMoves DEF WalkPC
  <2> QED
    BY <2>4, <2>5
<1>5. ASSUME NEW j \in Job, Crash(j) PROVE MoveInv'
  <2>1. LevelsKept
    BY <1>5, CrashStep DEF LevelsKept
  <2> QED
    BY <1>5, <2>1, CrashStep, OtherStepsKeepMoves DEF StalePC
<1>6. CASE EditPolicy \/ EditTicket \/ PassTime \/ UNCHANGED vars
  BY <1>6, TimeKeepsMoves
<1> QED
  BY <1>1, <1>2, <1>3, <1>4, <1>5, <1>6 DEF Next

-----------------------------------------------------------------------------
(* What slips through once a page has stopped: the notifications that handlers *)
(* were about to deliver, and nothing after them.                              *)

LateAbout(p) == {k \in late : k.page = p}
Delivering(p) == {j \in Job : jobs[j].pc = "deliver" /\ jobs[j].attempt.page = p}

\* A delivery that is late uses up a handler, and none joins them.
LateInv ==
  /\ \A j \in Job : jobs[j].pc \in SendPC => jobs[j].attempt.page = jobs[j].page
  /\ \A p \in Page : pages[p].status \in {"none", "triggered"} => LateAbout(p) = {}
  /\ \A p \in Page : pages[p].status = "none" => Delivering(p) = {}
  /\ \A p \in Page : ~Triggered(p) =>
       /\ IsFiniteSet(LateAbout(p))
       /\ Cardinality(LateAbout(p)) + Cardinality(Delivering(p)) <= Cardinality(Walker)

\* Only a free id begins to escalate, and no row becomes a free id again.
Settles ==
  \A p \in Page : /\ Triggered(p)' => Triggered(p) \/ pages[p].status = "none"
                  /\ pages'[p].status = "none" => pages[p].status = "none"

\* Every step of the pager keeps a page that has stopped from escalating again.
LEMMA PagesSettle ==
  ASSUME TypeInv, [Next]_vars
  PROVE  Settles
<1>1. CASE UNCHANGED pages
  BY <1>1 DEF Settles, Triggered
<1>2. ASSUME NEW j \in Job, JobStep(j), ~InsertPage(j), ~Advance(j) PROVE Settles
  BY <1>2, OnlyInsertTriggers, StepKeepsLevels DEF Settles, LevelsKept
<1>3. ASSUME NEW j \in Job, Advance(j) PROVE Settles
  BY <1>3 DEF Advance, Settles, Triggered, TypeInv, TypeOK, Row
<1>4. ASSUME NEW j \in Job, InsertPage(j), ~UNCHANGED pages PROVE Settles
  <2>1. PICK p \in Page, targets \in Reaches[0] :
          /\ pages[p].status = "none"
          /\ pages' = [pages EXCEPT ![p] = [NoRow EXCEPT !.status = "triggered", !.targets = targets]]
    BY <1>4 DEF InsertPage
  <2> DEFINE row == [NoRow EXCEPT !.status = "triggered", !.targets = targets]
  <2>2. row.status = "triggered" /\ pages' = [pages EXCEPT ![p] = row]
    BY <2>1 DEF NoRow
  <2> HIDE DEF row
  <2> QED
    BY <2>1, <2>2 DEF Settles, Triggered, TypeInv, TypeOK
<1>5. CASE PassTime
  BY <1>5 DEF PassTime, Settles, Triggered, Older, TypeInv, TypeOK, Row
<1>6. CASE EditPolicy \/ EditTicket \/ UNCHANGED vars
  BY <1>1, <1>6 DEF EditPolicy, EditTicket, vars
<1>7. ASSUME NEW j \in Job, JobStart(j) \/ Crash(j) PROVE Settles
  BY <1>1, <1>7, Starts, CrashStep
<1> QED
  BY <1>1, <1>2, <1>3, <1>4, <1>5, <1>6, <1>7 DEF Next

\* The handlers about to deliver are some of those that walk pages.
LEMMA DeliveringWalk ==
  ASSUME RoleInv, IsFiniteSet(Job), NEW p
  PROVE  /\ Delivering(p) \subseteq Walker
         /\ IsFiniteSet(Delivering(p)) /\ IsFiniteSet(Walker)
         /\ Cardinality(Delivering(p)) \in Nat /\ Cardinality(Walker) \in Nat
         /\ Cardinality(Delivering(p)) <= Cardinality(Walker)
<1>1. Delivering(p) \subseteq Walker
  BY DEF RoleInv, Role, Delivering, Walker, WalkPC, WalkOp
<1>2. IsFiniteSet(Walker)
  BY FS_Subset DEF Walker
<1> QED
  BY <1>1, <1>2, FS_Subset, FS_CardinalityType

\* Nothing late is sent, and no handler comes to deliver about a page that has
\* stopped.
LEMMA NothingLate ==
  ASSUME RoleInv, RoleInv', IsFiniteSet(Job), LateInv, Settles, late' = late,
         \A j \in Job : jobs'[j].pc \in SendPC => jobs'[j].attempt.page = jobs'[j].page,
         \A p \in Page : Triggered(p)' \/ Delivering(p)' \subseteq Delivering(p)
  PROVE  LateInv'
<1>1. \A p \in Page : pages'[p].status \in {"none", "triggered"} => LateAbout(p)' = {}
  BY DEF LateInv, Settles, Triggered, LateAbout
<1>2. \A p \in Page : pages'[p].status = "none" => Delivering(p)' = {}
  BY DEF LateInv, Settles, Triggered
<1>3. ASSUME NEW p \in Page, ~Triggered(p)'
      PROVE  /\ IsFiniteSet(LateAbout(p)')
             /\ Cardinality(LateAbout(p)') + Cardinality(Delivering(p)') <= Cardinality(Walker)
  <2>1. Delivering(p)' \subseteq Delivering(p) /\ LateAbout(p)' = LateAbout(p)
    BY <1>3 DEF LateAbout
  <2>2. /\ Delivering(p)' \subseteq Walker
        /\ IsFiniteSet(Delivering(p)) /\ Cardinality(Delivering(p)) \in Nat
        /\ IsFiniteSet(Walker) /\ Cardinality(Walker) \in Nat
    <3>1. Delivering(p)' \subseteq Walker
      BY DEF RoleInv, Role, Delivering, Walker, WalkPC, WalkOp
    <3> QED
      BY <3>1, DeliveringWalk
  <2>3. /\ Cardinality(Delivering(p)') \in Nat
        /\ Cardinality(Delivering(p)') <= Cardinality(Delivering(p))
        /\ Cardinality(Delivering(p)') <= Cardinality(Walker)
    BY <2>1, <2>2, FS_Subset, FS_CardinalityType
  <2>4. CASE Triggered(p) \/ pages[p].status = "none"
    <3>1. LateAbout(p)' = {}
      BY <2>1, <2>4 DEF LateInv, Triggered
    <3> QED
      BY <2>2, <2>3, <3>1, FS_EmptySet
  <2>5. CASE ~Triggered(p)
    <3>1. /\ IsFiniteSet(LateAbout(p))
          /\ Cardinality(LateAbout(p)) + Cardinality(Delivering(p)) <= Cardinality(Walker)
      BY <2>5 DEF LateInv
    <3>2. Cardinality(LateAbout(p)) \in Nat
      BY <3>1, FS_CardinalityType
    <3>3. /\ IsFiniteSet(LateAbout(p)')
          /\ Cardinality(LateAbout(p)') = Cardinality(LateAbout(p))
      BY <2>1, <3>1
    <3> QED
      BY <2>2, <2>3, <3>1, <3>2, <3>3
  <2> QED
    BY <2>4, <2>5
<1> QED
  BY <1>1, <1>2, <1>3 DEF LateInv

\* A late delivery uses up the handler that sends it.
LEMMA LateDelivery ==
  ASSUME TypeInv, RoleInv, IsFiniteSet(Job), LateInv, NEW j \in Job, Deliver(j)
  PROVE  LateInv'
<1> DEFINE k == jobs[j].attempt
<1>1. /\ jobs[j].pc = "deliver" /\ jobs'[j].pc = "record" /\ jobs'[j].attempt = k
      /\ jobs'[j].page = jobs[j].page /\ UNCHANGED pages
      /\ \A i \in Job \ {j} : jobs'[i] = jobs[i]
      /\ late' = IF Triggered(k.page) THEN late ELSE late \cup {k}
  BY DeliverStep DEF Deliver, Kept
<1>2. k.page \in Page /\ k.page = jobs[j].page /\ j \in Delivering(k.page)
  BY <1>1 DEF TypeInv, Shaped, SendPC, LateInv, PagePC, Delivering
<1>3. pages[k.page].status # "none"
  BY <1>2 DEF LateInv
<1>4. \A i \in Job : jobs'[i].pc \in SendPC => jobs'[i].attempt.page = jobs'[i].page
  BY <1>1 DEF LateInv, SendPC
<1>5. \A p \in Page : /\ Delivering(p)' = IF p = k.page THEN Delivering(p) \ {j} ELSE Delivering(p)
                      /\ Triggered(p)' = Triggered(p)
  BY <1>1, <1>2 DEF Delivering, Triggered
<1>6. ASSUME NEW p \in Page
      PROVE  LateAbout(p)' = IF p = k.page /\ ~Triggered(p) THEN LateAbout(p) \cup {k} ELSE LateAbout(p)
  BY <1>1 DEF LateAbout
<1> HIDE DEF k
<1>7. ASSUME NEW p \in Page, ~Triggered(p)
      PROVE  /\ IsFiniteSet(LateAbout(p)')
             /\ Cardinality(LateAbout(p)') + Cardinality(Delivering(p)') <= Cardinality(Walker)
  <2>1. /\ IsFiniteSet(LateAbout(p))
        /\ Cardinality(LateAbout(p)) + Cardinality(Delivering(p)) <= Cardinality(Walker)
    BY <1>7 DEF LateInv
  <2>2. CASE p # k.page
    BY <1>5, <1>6, <2>1, <2>2
  <2>3. CASE p = k.page
    <3>1. LateAbout(p)' = LateAbout(p) \cup {k} /\ Delivering(p)' = Delivering(p) \ {j}
      BY <1>5, <1>6, <1>7, <2>3
    <3>2. /\ IsFiniteSet(Delivering(p)) /\ Cardinality(Delivering(p)) \in Nat
          /\ Cardinality(Walker) \in Nat /\ Cardinality(LateAbout(p)) \in Nat
      BY <2>1, DeliveringWalk, FS_CardinalityType
    <3>3. Cardinality(Delivering(p) \ {j}) = Cardinality(Delivering(p)) - 1
      BY <1>2, <2>3, <3>2, FS_RemoveElement
    <3>4. /\ IsFiniteSet(LateAbout(p) \cup {k})
          /\ \/ Cardinality(LateAbout(p) \cup {k}) = Cardinality(LateAbout(p))
             \/ Cardinality(LateAbout(p) \cup {k}) = Cardinality(LateAbout(p)) + 1
      BY <2>1, FS_AddElement
    <3> QED
      BY <2>1, <3>1, <3>2, <3>3, <3>4
  <2> QED
    BY <2>2, <2>3
<1>8. \A p \in Page : pages'[p].status \in {"none", "triggered"} => LateAbout(p)' = {}
  BY <1>1, <1>3, <1>6 DEF LateInv, Triggered
<1>9. \A p \in Page : pages'[p].status = "none" => Delivering(p)' = {}
  BY <1>1, <1>5 DEF LateInv
<1> QED
  BY <1>4, <1>5, <1>7, <1>8, <1>9 DEF LateInv

\* Every step keeps what slips through bounded by the handlers that walk pages.
LEMMA LateStep ==
  ASSUME TypeInv, RoleInv, RoleInv', IsFiniteSet(Job), LateInv, [Next]_vars
  PROVE  LateInv'
<1>0. Settles
  BY PagesSettle
<1>1. ASSUME late' = late,
             \A j \in Job : \/ jobs'[j].pc \notin SendPC
                            \/ /\ jobs[j].pc \in SendPC /\ jobs'[j].pc # "deliver"
                               /\ jobs'[j].attempt = jobs[j].attempt /\ jobs'[j].page = jobs[j].page
                            \/ /\ jobs'[j].pc = jobs[j].pc
                               /\ jobs'[j].attempt = jobs[j].attempt /\ jobs'[j].page = jobs[j].page
      PROVE  LateInv'
  <2>1. \A j \in Job : jobs'[j].pc \in SendPC => jobs'[j].attempt.page = jobs'[j].page
    BY <1>1 DEF LateInv
  <2>2. \A p \in Page : Delivering(p)' \subseteq Delivering(p)
    BY <1>1 DEF Delivering, SendPC
  <2> QED
    BY <1>0, <1>1, <2>1, <2>2, NothingLate
<1>2. ASSUME NEW j \in Job, JobStart(j) PROVE LateInv'
  BY <1>1, <1>2, Starts DEF SendPC, unsent
<1>3. ASSUME NEW j \in Job, JobStep(j), ~Sends(j) PROVE LateInv'
  BY <1>1, <1>3, QuietSteps DEF Quiet, Kept, unsent
<1>4. ASSUME NEW j \in Job, Walk(j) PROVE LateInv'
  <2>1. late' = late /\ \A i \in Job \ {j} : jobs'[i] = jobs[i]
    BY <1>4, WalkStep DEF Kept, unsent
  <2>2. /\ jobs'[j].pc # "deliver"
        /\ jobs'[j].pc \in SendPC => jobs'[j].attempt.page = jobs'[j].page
    <3>1. \A u, r, seq : AttemptFor(jobs[j].page, jobs[j].row, u, r, seq).page = jobs[j].page
      BY DEF AttemptFor
    <3>2. \/ jobs'[j].pc \in {"walk", "next", "idle"}
          \/ /\ jobs'[j].pc = "recheck" /\ jobs'[j].page = jobs[j].page
             /\ \E u, r, seq : jobs'[j].attempt = AttemptFor(jobs[j].page, jobs[j].row, u, r, seq)
      BY <1>4, WalkStep
    <3> QED
      BY <3>1, <3>2 DEF SendPC
  <2>3. \A i \in Job : jobs'[i].pc \in SendPC => jobs'[i].attempt.page = jobs'[i].page
    BY <2>1, <2>2 DEF LateInv
  <2>4. \A p \in Page : Delivering(p)' \subseteq Delivering(p)
    BY <2>1, <2>2 DEF Delivering
  <2> QED
    BY <1>0, <2>1, <2>3, <2>4, NothingLate
<1>5. ASSUME NEW j \in Job, Recheck(j) PROVE LateInv'
  <2>1. late' = late /\ UNCHANGED pages /\ \A i \in Job \ {j} : jobs'[i] = jobs[i]
    BY <1>5, RecheckStep DEF Recheck, Kept, unsent
  <2>2. \/ jobs'[j].pc \notin SendPC
        \/ /\ jobs'[j].pc = "deliver" /\ jobs'[j].attempt = jobs[j].attempt
           /\ jobs'[j].page = jobs[j].page /\ Triggered(jobs[j].page)
    BY <1>5, RecheckStep
  <2>3. jobs[j].attempt.page = jobs[j].page
    BY <1>5, RecheckStep DEF LateInv, SendPC
  <2>4. \A i \in Job : jobs'[i].pc \in SendPC => jobs'[i].attempt.page = jobs'[i].page
    BY <2>1, <2>2, <2>3 DEF LateInv
  <2>5. ASSUME NEW p \in Page, ~Triggered(p)' PROVE Delivering(p)' \subseteq Delivering(p)
    <3>1. ~Triggered(p)
      BY <2>1, <2>5 DEF Triggered
    <3>2. j \notin Delivering(p)'
      BY <2>2, <2>3, <3>1 DEF Delivering, SendPC
    <3> QED
      BY <2>1, <3>2 DEF Delivering
  <2> QED
    BY <1>0, <2>1, <2>4, <2>5, NothingLate
<1>6. ASSUME NEW j \in Job, Deliver(j) PROVE LateInv'
  BY <1>6, LateDelivery
<1>7. ASSUME NEW j \in Job, RecordAttempt(j) PROVE LateInv'
  BY <1>1, <1>7, RecordStep DEF Kept, SendPC, unsent
<1>8. ASSUME NEW j \in Job, Crash(j) PROVE LateInv'
  BY <1>1, <1>8, CrashStep DEF SendPC, unsent
<1>9. CASE EditPolicy \/ EditTicket \/ PassTime \/ UNCHANGED vars
  BY <1>1, <1>9, TimeStep DEF unsent
<1> QED
  BY <1>2, <1>3, <1>4, <1>5, <1>6, <1>7, <1>8, <1>9 DEF Next, Sends

\* Once a page has stopped, each handler that walks pages sends at most the one
\* notification it was about to send, however many overlap, crash and come back:
\* the status is read again before each delivery, and no stopped page escalates.
THEOREM LateIsBounded ==
  ASSUME IsFiniteSet(Job)
  PROVE  Spec => []LateBounded
<1>1. Init => LateInv
  <2> SUFFICES ASSUME Init PROVE LateInv
    OBVIOUS
  <2>1. \A p : LateAbout(p) = {} /\ Delivering(p) = {}
    BY DEF Init, LateAbout, Delivering, Idle
  <2>2. \A j \in Job : jobs[j].pc \notin SendPC
    BY DEF Init, Idle, SendPC
  <2>3. \A p \in Page : ~Triggered(p) => IsFiniteSet(LateAbout(p))
    BY <2>1, FS_EmptySet
  <2>4. Cardinality(Walker) \in Nat
    BY FS_Subset, FS_CardinalityType DEF Walker
  <2>5. Cardinality({}) = 0
    BY FS_EmptySet
  <2>6. \A p \in Page : Cardinality(LateAbout(p)) + Cardinality(Delivering(p)) <= Cardinality(Walker)
    <3> SUFFICES ASSUME NEW p \in Page
                 PROVE  Cardinality(LateAbout(p)) + Cardinality(Delivering(p)) <= Cardinality(Walker)
      OBVIOUS
    <3>1. Cardinality(LateAbout(p)) = 0 /\ Cardinality(Delivering(p)) = 0
      BY <2>1, <2>5, Zenon
    <3> QED
      BY <2>4, <3>1
  <2> QED
    BY <2>1, <2>2, <2>3, <2>6 DEF LateInv
<1>2. TypeInv /\ RoleInv /\ RoleInv' /\ LateInv /\ [Next]_vars => LateInv'
  BY LateStep
<1>3. RoleInv /\ LateInv => LateBounded
  <2> SUFFICES ASSUME RoleInv, LateInv, NEW p \in Page
               PROVE  Cardinality(LateAbout(p)) <= Cardinality(Walker)
    BY DEF LateBounded, LateAbout
  <2>1. Cardinality(Delivering(p)) \in Nat /\ Cardinality(Walker) \in Nat
    BY DeliveringWalk
  <2>2. CASE Triggered(p)
    <3>1. LateAbout(p) = {}
      BY <2>2 DEF LateInv, Triggered
    <3> QED
      BY <2>1, <3>1, FS_EmptySet
  <2>3. CASE ~Triggered(p)
    <3>1. /\ IsFiniteSet(LateAbout(p))
          /\ Cardinality(LateAbout(p)) + Cardinality(Delivering(p)) <= Cardinality(Walker)
      BY <2>3 DEF LateInv
    <3>2. Cardinality(LateAbout(p)) \in Nat
      BY <3>1, FS_CardinalityType
    <3> QED
      BY <2>1, <3>1, <3>2
  <2> QED
    BY <2>2, <2>3
<1> QED
  BY <1>1, <1>2, <1>3, TypeInvariant, RoleInvariant, PTL DEF Spec

-----------------------------------------------------------------------------
(* The abstract view.  While the handlers of a ticket do not overlap, what a  *)
(* handler read of a page still holds when it writes the page, and every      *)
(* write is a step of module Escalation.                                      *)

OneHandler == \A i, j \in Job : i = j

DecidedPC == {"check", "resolve", "exhaust", "advance"}

HoldInv ==
  \A j \in Job :
    /\ jobs[j].pc \in DecidedPC => Triggered(jobs[j].page)
    /\ jobs[j].pc = "ackset" => MayAcknowledge(jobs[j].page)
    /\ jobs[j].pc = "settle" => \A p \in jobs[j].queue : Triggered(p)

\* A handler starts on a page whose status it has just looked at.
LEMMA StartHolds ==
  ASSUME TypeInv, OneHandler, NEW j \in Job, JobStart(j)
  PROVE  HoldInv'
<1>1. CASE jobs'[j].pc \in {"next", "insert", "list"}
  BY <1>1 DEF OneHandler, HoldInv, DecidedPC
<1>2. CASE EscalateNow(j)
  <2>1. PICK p \in Page : /\ Triggered(p) /\ UNCHANGED pages
                          /\ Go(j, [Idle EXCEPT !.op = "escalate", !.pc = "advance", !.page = p, !.row = pages[p]])
    BY <1>2 DEF EscalateNow, Start, MayEscalate
  <2> DEFINE job == [Idle EXCEPT !.op = "escalate", !.pc = "advance", !.page = p, !.row = pages[p]]
  <2>2. job.pc = "advance" /\ job.page = p /\ Go(j, job)
    BY <2>1 DEF Idle
  <2> HIDE DEF job
  <2> QED
    BY <2>1, <2>2, Moves DEF OneHandler, HoldInv, Triggered, DecidedPC
<1>3. CASE Acknowledge(j)
  <2>1. PICK p \in Page, u \in User :
          /\ MayAcknowledge(p) /\ UNCHANGED pages
          /\ Go(j, [Idle EXCEPT !.op = "acknowledge", !.pc = "ackset", !.page = p, !.by = u])
    BY <1>3 DEF Acknowledge, Start
  <2> DEFINE job == [Idle EXCEPT !.op = "acknowledge", !.pc = "ackset", !.page = p, !.by = u]
  <2>2. job.pc = "ackset" /\ job.page = p /\ Go(j, job)
    BY <2>1 DEF Idle
  <2> HIDE DEF job
  <2> QED
    BY <2>1, <2>2, Moves DEF OneHandler, HoldInv, MayAcknowledge, DecidedPC
<1>4. CASE Tick(j) \/ Trigger(j) \/ AutoResolve(j)
  <2>1. jobs'[j].pc # "ackset"
    <3>1. ASSUME NEW job, Go(j, job) PROVE jobs'[j] = job
      BY <3>1, Moves
    <3>2. /\ Tick(j) => jobs'[j].pc = "next"
          /\ Trigger(j) => jobs'[j].pc = "insert"
          /\ AutoResolve(j) => jobs'[j].pc = "list"
      BY <3>1 DEF Tick, Trigger, AutoResolve, Start, Idle
    <3> QED
      BY <1>4, <3>2
  <2>2. CASE jobs'[j].pc = "advance"
    BY <1>2, <2>2, Starts
  <2> QED
    BY <1>1, <2>1, <2>2, Starts
<1> QED
  BY <1>2, <1>3, <1>4 DEF JobStart

\* Every step of the one handler keeps what it decided true of its pages.
LEMMA StepHolds ==
  ASSUME TypeInv, OneHandler, HoldInv, NEW j \in Job, JobStep(j)
  PROVE  HoldInv'
<1>0. jobs[j] \in JobRecord
  BY DEF TypeInv, TypeOK
<1> DEFINE Free == DecidedPC \cup {"ackset", "settle"}
<1>1. ASSUME jobs'[j].pc \notin Free PROVE HoldInv'
  BY <1>1 DEF OneHandler, HoldInv
<1>2. ASSUME NEW job, Go(j, job), job.pc \notin Free PROVE HoldInv'
  BY <1>1, <1>2, Moves
<1>3. ASSUME Finish(j) PROVE HoldInv'
  BY <1>1, <1>3, Finishes DEF DecidedPC
<1>4. ASSUME NEW pc, pc \notin Free, Go(j, [jobs[j] EXCEPT !.pc = pc]) PROVE HoldInv'
  BY <1>1, <1>4, PCAfter
<1>5. CASE NextPage(j)
  <2>1. ASSUME NEW p, Go(j, [jobs[j] EXCEPT !.pc = "load", !.page = p, !.queue = @ \ {p}]) PROVE HoldInv'
    <3> DEFINE job == [jobs[j] EXCEPT !.pc = "load", !.page = p, !.queue = @ \ {p}]
    <3>1. job.pc = "load" /\ Go(j, job)
      BY <1>0, <2>1 DEF JobRecord
    <3> HIDE DEF job
    <3> QED
      BY <1>2, <3>1 DEF DecidedPC
  <2>2. Idle.pc = "idle"
    BY DEF Idle
  <2> QED
    BY <1>2, <1>5, <2>1, <2>2 DEF NextPage, DecidedPC
<1>6. CASE Load(j)
  <2> DEFINE job == [jobs[j] EXCEPT !.pc = "check", !.row = pages[jobs[j].page]]
  <2>1. job.pc = "check" /\ job.page = jobs[j].page
    BY <1>0 DEF JobRecord
  <2>2. UNCHANGED pages /\ (Finish(j) \/ (Go(j, job) /\ Triggered(jobs[j].page)))
    BY <1>6 DEF Load
  <2> HIDE DEF job
  <2>3. CASE Go(j, job) /\ Triggered(jobs[j].page)
    <3>1. jobs'[j].pc = "check" /\ pages'[jobs'[j].page].status = "triggered"
      BY <2>1, <2>2, <2>3, Moves DEF Triggered
    <3> QED
      BY <3>1 DEF OneHandler, HoldInv, Triggered
  <2> QED
    BY <1>3, <2>2, <2>3
<1>7. CASE Check(j)
  <2> DEFINE job == [jobs[j] EXCEPT !.pc = "walk", !.elapsed = jobs[j].row.age,
                                    !.todo = jobs[j].row.targets \X Rule]
  <2>1. job.pc = "walk"
    BY <1>0 DEF JobRecord
  <2>2. Go(j, job) \/ \E pc \in {"resolve", "exhaust", "advance"} : Go(j, [jobs[j] EXCEPT !.pc = pc])
    BY <1>7 DEF Check
  <2>3. UNCHANGED pages /\ Triggered(jobs[j].page)
    BY <1>7 DEF Check, At, HoldInv, DecidedPC
  <2> HIDE DEF job
  <2>4. ASSUME NEW pc \in {"resolve", "exhaust", "advance"}, Go(j, [jobs[j] EXCEPT !.pc = pc]) PROVE HoldInv'
    <3>1. jobs'[j].pc = pc /\ jobs'[j].page = jobs[j].page
      BY <2>4, PCAfter
    <3>2. pages'[jobs'[j].page].status = "triggered"
      BY <2>3, <3>1 DEF Triggered
    <3> QED
      BY <3>1, <3>2 DEF OneHandler, HoldInv, Triggered
  <2> QED
    BY <1>2, <2>1, <2>2, <2>4 DEF DecidedPC
<1>8. CASE Resolve(j) \/ Exhaust(j)
  BY <1>3, <1>8 DEF Resolve, Exhaust
<1>9. CASE Sends(j)
  <2>1. CASE Recheck(j)
    BY <1>3, <1>4, <2>1 DEF Recheck, DecidedPC
  <2>2. CASE Walk(j) \/ Deliver(j) \/ RecordAttempt(j)
    <3>1. jobs'[j].pc \in {"walk", "next", "idle", "recheck", "record"}
      BY <2>2, WalkStep, DeliverStep, RecordStep
    <3> QED
      BY <1>1, <3>1 DEF DecidedPC
  <2> QED
    BY <1>9, <2>1, <2>2 DEF Sends
<1>10. CASE PolicyGone(j) \/ NobodyAcknowledged(j) \/ Advance(j)
  <2>1. Go(j, [jobs[j] EXCEPT !.pc = "load"])
    BY <1>10 DEF PolicyGone, NobodyAcknowledged, Advance
  <2> QED
    BY <1>4, <2>1 DEF DecidedPC
<1>11. CASE InsertPage(j)
  <2>1. ASSUME NEW p \in Page, Go(j, [jobs[j] EXCEPT !.pc = "load", !.page = p]) PROVE HoldInv'
    <3> DEFINE job == [jobs[j] EXCEPT !.pc = "load", !.page = p]
    <3>1. job.pc = "load" /\ Go(j, job)
      BY <1>0, <2>1 DEF JobRecord
    <3> HIDE DEF job
    <3> QED
      BY <1>2, <3>1 DEF DecidedPC
  <2>2. Idle.pc = "idle"
    BY DEF Idle
  <2> QED
    BY <1>2, <1>11, <2>1, <2>2 DEF InsertPage, DecidedPC
<1>12. CASE SetAcknowledged(j)
  BY <1>4, <1>12 DEF SetAcknowledged, DecidedPC
<1>13. CASE ReadTicket(j)
  <2> DEFINE job == [jobs[j] EXCEPT !.pc = "ackticket", !.seen = ticket]
  <2>1. job.pc = "ackticket" /\ Go(j, job)
    BY <1>0, <1>13 DEF ReadTicket, JobRecord
  <2> HIDE DEF job
  <2> QED
    BY <1>2, <2>1 DEF DecidedPC
<1>14. CASE TakeTicket(j)
  BY <1>2, <1>14 DEF TakeTicket, Idle, DecidedPC
<1>15. CASE ListOpenPages(j)
  <2> DEFINE open == {p \in Page : Triggered(p)}
             job == [jobs[j] EXCEPT !.pc = "settle", !.queue = open]
  <2>1. job.pc = "settle" /\ job.queue = open /\ Go(j, job) /\ UNCHANGED pages
    BY <1>0, <1>15 DEF ListOpenPages, JobRecord
  <2> HIDE DEF job
  <2>2. jobs'[j].pc = "settle" /\ jobs'[j].queue = open
    BY <2>1, Moves
  <2>3. \A p \in open : Triggered(p)'
    BY <2>1 DEF Triggered
  <2> HIDE DEF open
  <2> QED
    BY <2>2, <2>3 DEF OneHandler, HoldInv, DecidedPC
<1>16. CASE SettlePage(j)
  <2>1. \A p \in jobs[j].queue : Triggered(p) /\ p \in Page
    BY <1>0, <1>16 DEF SettlePage, At, HoldInv, JobRecord
  <2>2. ASSUME NEW p \in jobs[j].queue, SetStatus(p, "resolved"), Go(j, [jobs[j] EXCEPT !.queue = @ \ {p}])
        PROVE  HoldInv'
    <3> DEFINE job == [jobs[j] EXCEPT !.queue = @ \ {p}]
    <3>1. job.pc = "settle" /\ job.queue = jobs[j].queue \ {p} /\ Go(j, job)
      BY <1>0, <1>16, <2>2 DEF JobRecord, SettlePage, At
    <3> HIDE DEF job
    <3>2. jobs'[j].pc = "settle" /\ jobs'[j].queue = jobs[j].queue \ {p}
      BY <3>1, Moves
    <3>3. \A q \in jobs[j].queue \ {p} : Triggered(q)'
      BY <2>1, <2>2 DEF SetStatus, Triggered, TypeInv, TypeOK
    <3> QED
      BY <3>2, <3>3 DEF OneHandler, HoldInv, DecidedPC
  <2>3. Idle.pc = "idle"
    BY DEF Idle
  <2> QED
    BY <1>2, <1>16, <2>2, <2>3 DEF SettlePage, DecidedPC
<1> QED
  BY <1>5, <1>6, <1>7, <1>8, <1>9, <1>10, <1>11, <1>12, <1>13, <1>14, <1>15, <1>16 DEF JobStep, Sends

\* What a person, the clock or a crash does leaves the handlers' decisions true.
LEMMA OthersHold ==
  ASSUME TypeInv, OneHandler, HoldInv,
         (\E j \in Job : Crash(j)) \/ EditPolicy \/ EditTicket \/ PassTime \/ UNCHANGED vars
  PROVE  HoldInv'
<1>1. ASSUME NEW j \in Job, Crash(j) PROVE HoldInv'
  BY <1>1, CrashStep DEF OneHandler, HoldInv, DecidedPC
<1>2. CASE PassTime
  <2>1. \A p \in Page : pages'[p].status = pages[p].status
    BY <1>2 DEF PassTime, Triggered, Older, TypeInv, TypeOK, Row
  <2>2. ASSUME NEW j \in Job
        PROVE  /\ jobs'[j].pc = jobs[j].pc /\ jobs'[j].page = jobs[j].page /\ jobs'[j].queue = jobs[j].queue
               /\ jobs[j].pc \in DecidedPC \cup {"ackset"} => jobs[j].page \in Page
               /\ jobs[j].queue \subseteq Page
    <3>1. jobs'[j] = IF At(j, "check") THEN [jobs[j] EXCEPT !.row = Older(@)] ELSE jobs[j]
      BY <1>2 DEF PassTime
    <3> QED
      BY <3>1 DEF TypeInv, TypeOK, JobRecord, Shaped, PagePC, DecidedPC
  <2> QED
    BY <2>1, <2>2 DEF HoldInv, Triggered, MayAcknowledge
<1>3. CASE EditPolicy \/ EditTicket \/ UNCHANGED vars
  BY <1>3 DEF EditPolicy, EditTicket, vars, HoldInv, Triggered, MayAcknowledge
<1> QED
  BY <1>1, <1>2, <1>3

\* An INSERT still finds no page escalating, as its handler did.
InsertInv == \A j \in Job : jobs[j].pc = "insert" => ~\E p \in Page : Triggered(p)

\* Every step of handlers that do not overlap keeps it so.
LEMMA InsertStep ==
  ASSUME TypeInv, OneHandler, InsertInv, [Next]_vars
  PROVE  InsertInv'
<1>1. ASSUME NEW j \in Job, JobStart(j) PROVE InsertInv'
  <2>1. jobs'[j].pc = "insert" => ~\E p \in Page : Triggered(p)
    BY <1>1, Starts DEF Trigger, MayTrigger
  <2> QED
    BY <1>1, <2>1, Starts DEF OneHandler, InsertInv, Triggered
<1>2. ASSUME NEW j \in Job, JobStep(j) PROVE InsertInv'
  BY <1>2, SendStep DEF Kept, OneHandler, InsertInv
<1>3. ASSUME NEW j \in Job, Crash(j) PROVE InsertInv'
  BY <1>3, CrashStep DEF OneHandler, InsertInv
<1>4. CASE EditPolicy \/ EditTicket \/ PassTime \/ UNCHANGED vars
  BY <1>4, TimeStep, TimeTriggersNone DEF InsertInv
<1> QED
  BY <1>1, <1>2, <1>3, <1>4 DEF Next

StatusOf == [p \in Page |-> pages[p].status]
StepOf == [p \in Page |-> pages[p].cycle * MaxLevels + pages[p].level]

\* Writing one row changes its status and how far it has got, and no other's.
LEMMA RowWritten ==
  ASSUME TypeInv, NEW p \in Page, NEW row, pages' = [pages EXCEPT ![p] = row]
  PROVE  /\ StatusOf' = [StatusOf EXCEPT ![p] = row.status]
         /\ StepOf' = [StepOf EXCEPT ![p] = row.cycle * MaxLevels + row.level]
         /\ StatusOf[p] = pages[p].status /\ StepOf[p] = pages[p].cycle * MaxLevels + pages[p].level
         /\ row.cycle = pages[p].cycle /\ row.level = pages[p].level => StepOf' = StepOf
<1>1. pages \in [Page -> Row]
  BY DEF TypeInv, TypeOK
<1>2. \A q \in Page : pages'[q] = IF q = p THEN row ELSE pages[q]
  BY <1>1
<1>3. StatusOf' = [StatusOf EXCEPT ![p] = row.status] /\ StatusOf[p] = pages[p].status
  <2>1. \A q \in Page : StatusOf'[q] = [StatusOf EXCEPT ![p] = row.status][q]
    BY <1>2 DEF StatusOf
  <2> QED
    BY <2>1 DEF StatusOf
<1>4. StepOf[p] = pages[p].cycle * MaxLevels + pages[p].level
  BY DEF StepOf
<1>5. StepOf' = [StepOf EXCEPT ![p] = row.cycle * MaxLevels + row.level]
  <2>1. \A q \in Page : StepOf'[q] = [StepOf EXCEPT ![p] = row.cycle * MaxLevels + row.level][q]
    BY <1>2 DEF StepOf
  <2> QED
    BY <2>1 DEF StepOf
<1>6. ASSUME row.cycle = pages[p].cycle, row.level = pages[p].level PROVE StepOf' = StepOf
  <2>1. \A q \in Page : pages'[q].cycle = pages[q].cycle /\ pages'[q].level = pages[q].level
    BY <1>2, <1>6
  <2> QED
    BY <2>1 DEF StepOf
<1> QED
  BY <1>3, <1>4, <1>5, <1>6

\* The level or the pass after this one is further, and within the policy.
LEMMA Further ==
  ASSUME NEW row \in Row, PastLast(row) => PassesLeft(row), levels \in 0 .. MaxLevels
  PROVE  LET now == row.cycle * MaxLevels + row.level
             next == NextCycle(row) * MaxLevels + NextLevel(row)
         IN  next \in now + 1 .. (RepeatCount + 1) * MaxLevels - 1
<1> DEFINE c == row.cycle
           l == row.level
<1>1. c \in 0 .. RepeatCount /\ l \in 0 .. MaxLevels - 1
  BY DEF Row, Level, Cycle
<1>2. \A n \in Nat : n * MaxLevels \in Nat /\ (n + 1) * MaxLevels = n * MaxLevels + MaxLevels
  OBVIOUS
<1>3. (RepeatCount + 1) * MaxLevels = (RepeatCount - c) * MaxLevels + c * MaxLevels + MaxLevels
  BY <1>1
<1>4. (RepeatCount - c) * MaxLevels \in Nat
  BY <1>1, <1>2
<1>5. CASE PastLast(row)
  <2>1. NextCycle(row) = c + 1 /\ NextLevel(row) = 0 /\ c < RepeatCount
    BY <1>5 DEF NextCycle, NextLevel, PassesLeft
  <2>2. (RepeatCount - c) * MaxLevels = (RepeatCount - c - 1) * MaxLevels + MaxLevels
    BY <1>1
  <2>3. (RepeatCount - c - 1) * MaxLevels \in Nat
    BY <1>1, <1>2, <2>1
  <2> HIDE DEF c, l
  <2> QED
    BY <1>1, <1>2, <1>3, <2>1, <2>2, <2>3 DEF c, l
<1>6. CASE ~PastLast(row)
  <2>1. NextCycle(row) = c /\ NextLevel(row) = l + 1 /\ l + 1 < MaxLevels
    BY <1>1, <1>6 DEF NextCycle, NextLevel, PastLast
  <2> QED
    BY <1>1, <1>2, <1>3, <1>4, <2>1
<1> QED
  BY <1>5, <1>6

\* A stop the code writes over a page that still escalates.
LEMMA StopMaps ==
  ASSUME TypeInv, NEW p \in Page, Triggered(p), NEW s \in {"resolved", "exhausted"}, SetStatus(p, s)
  PROVE  Abstract!Stop(p)
<1> DEFINE row == [pages[p] EXCEPT !.status = s]
<1>1. row.status = s /\ row.cycle = pages[p].cycle /\ row.level = pages[p].level
  BY DEF TypeInv, TypeOK, Row
<1>2. pages' = [pages EXCEPT ![p] = row]
  BY DEF SetStatus
<1> HIDE DEF row
<1>3. StatusOf[p] = "triggered" /\ StatusOf' = [StatusOf EXCEPT ![p] = s] /\ StepOf' = StepOf
  BY <1>1, <1>2, RowWritten DEF Triggered
<1> QED
  BY <1>3 DEF Abstract!Stop, Abstract!Stops, StatusOf, StepOf

\* Every step of a pager whose handlers do not overlap is a step of the
\* abstract escalation, or none.
LEMMA EscalationStep ==
  ASSUME TypeInv, OneHandler, MoveInv, InsertInv, HoldInv, [Next]_vars
  PROVE  Abstract!Next \/ UNCHANGED <<StatusOf, StepOf>>
<1>1. CASE UNCHANGED pages
  BY <1>1 DEF StatusOf, StepOf
<1>2. ASSUME NEW j \in Job, Resolve(j) \/ Exhaust(j) \/ PolicyGone(j) \/ NobodyAcknowledged(j)
      PROVE  Abstract!Next
  <2>1. jobs[j].page \in Page /\ Triggered(jobs[j].page)
    BY <1>2 DEF Resolve, Exhaust, PolicyGone, NobodyAcknowledged, At, TypeInv, Shaped, PagePC, HoldInv, DecidedPC
  <2>2. PICK s \in {"resolved", "exhausted"} : SetStatus(jobs[j].page, s)
    BY <1>2 DEF Resolve, Exhaust, PolicyGone, NobodyAcknowledged
  <2> QED
    BY <2>1, <2>2, StopMaps DEF Abstract!Next
<1>3. ASSUME NEW j \in Job, SettlePage(j), ~UNCHANGED pages PROVE Abstract!Next
  <2>1. PICK p \in jobs[j].queue : SetStatus(p, "resolved")
    BY <1>3 DEF SettlePage
  <2>2. p \in Page /\ Triggered(p)
    BY <1>3, <2>1 DEF SettlePage, At, HoldInv, TypeInv, TypeOK, JobRecord
  <2> QED
    BY <2>1, <2>2, StopMaps DEF Abstract!Next
<1>4. ASSUME NEW j \in Job, SetAcknowledged(j) PROVE Abstract!Next
  <2>0. PICK p \in Page : p = jobs[j].page
    BY <1>4 DEF SetAcknowledged, At, TypeInv, Shaped, PagePC
  <2> DEFINE row == [pages[p] EXCEPT !.status = "acknowledged", !.by = jobs[j].by]
  <2>1. p \in Page /\ pages[p].status \in {"triggered", "exhausted"}
    BY <1>4, <2>0 DEF SetAcknowledged, At, HoldInv, MayAcknowledge
  <2>2. row.status = "acknowledged" /\ row.cycle = pages[p].cycle /\ row.level = pages[p].level
    BY <2>1 DEF TypeInv, TypeOK, Row
  <2>3. pages' = [pages EXCEPT ![p] = row]
    BY <1>4, <2>0 DEF SetAcknowledged
  <2> HIDE DEF row
  <2>4. /\ StatusOf[p] \in {"triggered", "exhausted"} /\ StepOf' = StepOf
        /\ StatusOf' = [StatusOf EXCEPT ![p] = "acknowledged"]
    <3>1. /\ StatusOf' = [StatusOf EXCEPT ![p] = row.status] /\ StatusOf[p] = pages[p].status
          /\ row.cycle = pages[p].cycle /\ row.level = pages[p].level => StepOf' = StepOf
      BY <2>3, RowWritten
    <3> QED
      BY <2>1, <2>2, <3>1
  <2>5. CASE StatusOf[p] = "triggered"
    <3>1. Abstract!Stop(p)
      BY <2>4, <2>5 DEF Abstract!Stop, Abstract!Stops, StatusOf, StepOf
    <3> QED
      BY <2>1, <3>1 DEF Abstract!Next
  <2>6. CASE StatusOf[p] = "exhausted"
    <3>1. Abstract!Claim(p)
      BY <2>4, <2>6 DEF Abstract!Claim, StatusOf, StepOf
    <3> QED
      BY <2>1, <3>1 DEF Abstract!Next
  <2> QED
    BY <2>4, <2>5, <2>6
<1>5. ASSUME NEW j \in Job, InsertPage(j), ~UNCHANGED pages PROVE Abstract!Next
  <2>1. PICK p \in Page, targets \in Reaches[0] :
          /\ pages[p].status = "none"
          /\ pages' = [pages EXCEPT ![p] = [NoRow EXCEPT !.status = "triggered", !.targets = targets]]
    BY <1>5 DEF InsertPage
  <2> DEFINE row == [NoRow EXCEPT !.status = "triggered", !.targets = targets]
  <2>2. row.status = "triggered" /\ row.level = pages[p].level /\ row.cycle = pages[p].cycle
    BY <2>1 DEF NoRow, MoveInv
  <2>3. pages' = [pages EXCEPT ![p] = row]
    BY <2>1
  <2> HIDE DEF row
  <2>4. /\ StatusOf[p] = "none" /\ StepOf' = StepOf
        /\ StatusOf' = [StatusOf EXCEPT ![p] = "triggered"]
    <3>1. /\ StatusOf' = [StatusOf EXCEPT ![p] = row.status] /\ StatusOf[p] = pages[p].status
          /\ row.cycle = pages[p].cycle /\ row.level = pages[p].level => StepOf' = StepOf
      BY <2>3, RowWritten
    <3> QED
      BY <2>1, <2>2, <3>1
  <2>5. \A q \in Page : StatusOf[q] # "triggered"
    BY <1>5 DEF InsertPage, At, InsertInv, Triggered, StatusOf
  <2> QED
    BY <2>4, <2>5 DEF Abstract!Next, Abstract!Trigger, StatusOf, StepOf
<1>6. ASSUME NEW j \in Job, Advance(j) PROVE Abstract!Next
  <2> DEFINE old == jobs[j].row
  <2>0. PICK p \in Page : p = jobs[j].page
    BY <1>6 DEF Advance, At, TypeInv, Shaped, PagePC
  <2>1. jobs[j].pc = "advance" /\ p \in Page /\ old \in Row /\ levels \in 0 .. MaxLevels
    BY <1>6 DEF Advance, At, TypeInv, TypeOK, JobRecord
  <2>2. old.level = pages[p].level /\ old.cycle = pages[p].cycle /\ pages[p].status = "triggered"
    BY <2>0, <2>1 DEF MoveInv, StalePC, HoldInv, DecidedPC, Triggered
  <2>3. PICK targets :
          pages' = [pages EXCEPT ![p] =
                      [@ EXCEPT !.level = NextLevel(old), !.cycle = NextCycle(old), !.age = 0, !.targets = targets]]
    BY <1>6, <2>0 DEF Advance
  <2> DEFINE row == [pages[p] EXCEPT !.level = NextLevel(old), !.cycle = NextCycle(old), !.age = 0,
                                     !.targets = targets]
  <2>4. /\ row.level = NextLevel(old) /\ row.cycle = NextCycle(old) /\ row.status = pages[p].status
        /\ pages' = [pages EXCEPT ![p] = row]
    BY <2>1, <2>3 DEF TypeInv, TypeOK, Row
  <2> HIDE DEF row
  <2>5. PastLast(old) => PassesLeft(old)
    BY <1>6 DEF Advance
  <2> HIDE DEF old
  <2> DEFINE now == old.cycle * MaxLevels + old.level
             next == NextCycle(old) * MaxLevels + NextLevel(old)
  <2>6. next \in now + 1 .. (RepeatCount + 1) * MaxLevels - 1
    BY <2>1, <2>5, Further
  <2>7. /\ StatusOf[p] = "triggered" /\ StatusOf' = StatusOf
        /\ StepOf[p] = now /\ StepOf' = [StepOf EXCEPT ![p] = next]
    <3>1. /\ StatusOf' = [StatusOf EXCEPT ![p] = row.status]
          /\ StepOf' = [StepOf EXCEPT ![p] = row.cycle * MaxLevels + row.level]
          /\ StatusOf[p] = pages[p].status /\ StepOf[p] = pages[p].cycle * MaxLevels + pages[p].level
      BY <2>1, <2>4, RowWritten
    <3>2. [StatusOf EXCEPT ![p] = pages[p].status] = StatusOf
      BY DEF StatusOf
    <3> QED
      BY <2>2, <2>4, <3>1, <3>2
  <2> HIDE DEF now, next
  <2>8. Abstract!Escalate(p)
    BY <2>6, <2>7 DEF Abstract!Escalate, StatusOf, StepOf
  <2> QED
    BY <2>1, <2>8 DEF Abstract!Next
<1>7. CASE PassTime
  <2>1. \A p \in Page : /\ pages'[p].status = pages[p].status
                         /\ pages'[p].cycle = pages[p].cycle /\ pages'[p].level = pages[p].level
    BY <1>7 DEF PassTime, Triggered, Older, TypeInv, TypeOK, Row
  <2> QED
    BY <2>1 DEF StatusOf, StepOf
<1>8. CASE EditPolicy \/ EditTicket \/ UNCHANGED vars
  BY <1>1, <1>8 DEF EditPolicy, EditTicket, vars
<1>9. ASSUME NEW j \in Job, JobStart(j) \/ Crash(j) PROVE UNCHANGED <<StatusOf, StepOf>>
  BY <1>9, Starts, CrashStep DEF StatusOf, StepOf
<1>10. ASSUME NEW j \in Job, JobStep(j) PROVE Abstract!Next \/ UNCHANGED <<StatusOf, StepOf>>
  BY <1>1, <1>2, <1>3, <1>4, <1>5, <1>6, <1>10 DEF JobStep, NextPage, Load, Check, Walk, Recheck, Deliver,
     RecordAttempt, ReadTicket, TakeTicket, ListOpenPages
<1> QED
  BY <1>7, <1>8, <1>9, <1>10 DEF Next

\* When the handlers for a ticket do not overlap, the pager implements the
\* escalation of module Escalation: one page at a time moves through its levels
\* and never back, stops once and stays stopped, whatever crashes and edits
\* happen between two statements.
THEOREM PagerImplementsEscalation ==
  ASSUME OneHandler
  PROVE  Spec => ImplementsEscalation
<1>1. OneWalker
  BY DEF OneHandler, OneWalker
<1>2. Init => Abstract!Init /\ MoveInv /\ InsertInv /\ HoldInv
  <2> SUFFICES ASSUME Init PROVE Abstract!Init /\ MoveInv /\ InsertInv /\ HoldInv
    OBVIOUS
  <2>1. Abstract!Init
    BY DEF Init, Abstract!Init, NoRow
  <2>2. MoveInv /\ InsertInv
    BY DEF Init, MoveInv, InsertInv, NoRow, Idle, StalePC
  <2>3. HoldInv
    BY DEF Init, HoldInv, Idle, DecidedPC
  <2> QED
    BY <2>1, <2>2, <2>3
<1>3. TypeInv /\ RoleInv /\ MoveInv /\ InsertInv /\ HoldInv /\ [Next]_vars
        => MoveInv' /\ InsertInv' /\ HoldInv'
  <2> SUFFICES ASSUME TypeInv, RoleInv, MoveInv, InsertInv, HoldInv, [Next]_vars
               PROVE  MoveInv' /\ InsertInv' /\ HoldInv'
    OBVIOUS
  <2>1. HoldInv'
    BY StartHolds, StepHolds, OthersHold DEF Next
  <2> QED
    BY <1>1, <2>1, MoveStep, InsertStep
<1>4. TypeInv /\ MoveInv /\ InsertInv /\ HoldInv /\ [Next]_vars
        => [Abstract!Next]_<<[p \in Page |-> pages[p].status],
                             [p \in Page |-> pages[p].cycle * MaxLevels + pages[p].level]>>
  BY EscalationStep DEF StatusOf, StepOf
<1> QED
  BY <1>2, <1>3, <1>4, TypeInvariant, RoleInvariant, PTL DEF Spec, ImplementsEscalation, Abstract!Spec

-----------------------------------------------------------------------------
(* Nothing due is left waiting when time moves on, while one handler walks    *)
(* pages, none dies and time waits for them: a page is settled when its       *)
(* handler is done with it, and a pass has been to every page.                *)

WorkPC == {"load", "check", "resolve", "exhaust", "advance", "walk", "recheck", "deliver", "record"}

\* Everyone the page's level reached was tried by every rule that is due.
Settled(p) ==
  \A u \in pages[p].targets, r \in Rule :
    DueAt(r, 0) <= pages[p].age => AttemptFor(p, pages[p], u, r, 0) \in attempts

\* A handler has the page in hand; a pass has had it or has met it too late.
On(j, p) == jobs[j].pc \in WorkPC /\ jobs[j].page = p
Past(j, p) == jobs[j].op = "tick" /\ p \notin jobs[j].queue

\* The row in hand is the one in the table, and what is no longer to do has
\* been tried, or is about to be recorded.
CatchUp(job) ==
  /\ job.pc = "next" => job.op = "tick"
  /\ job.op = "tick" => job.pc \in WalkPC
  /\ job.pc \in {"check", "walk"} \cup SendPC /\ Triggered(job.page) => job.row = pages[job.page]
  /\ job.pc \in {"walk"} \cup SendPC =>
       /\ job.elapsed = job.row.age
       /\ \A u \in job.row.targets, r \in Rule :
            DueAt(r, 0) <= job.elapsed /\ <<u, r>> \notin job.todo =>
              \/ AttemptFor(job.page, job.row, u, r, 0) \in attempts
              \/ job.pc \in SendPC /\ job.attempt = AttemptFor(job.page, job.row, u, r, 0)

UpInv ==
  /\ \A j \in Job : CatchUp(jobs[j])
  /\ \A p \in Page : Triggered(p) /\ (\A j \in Job : ~On(j, p)) =>
       /\ passed => Settled(p)
       /\ \A j \in Job : Past(j, p) => Settled(p)

\* Attempts are not forgotten.
LEMMA StaysSettled ==
  ASSUME NEW p \in Page, pages'[p] = pages[p], attempts \subseteq attempts', Settled(p)
  PROVE  Settled(p)'
BY DEF Settled

\* A step of one handler that keeps its own part of the invariant, and changes
\* a page that escalates only if it goes on with it.
LEMMA Catches ==
  ASSUME TypeInv, RoleInv, OneWalker, UpInv, NEW j \in Job,
         \A i \in Job \ {j} : jobs'[i] = jobs[i],
         attempts \subseteq attempts',
         \A p \in Page : Triggered(p)' =>
           \/ pages'[p] = pages[p]
           \/ jobs[j].pc \in WalkPC /\ jobs'[j].pc = "load" /\ jobs'[j].page = p,
         CatchUp(jobs[j])',
         passed' = passed \/ \A p \in Page : Triggered(p)' => Settled(p)',
         \A p \in Page : Triggered(p)' /\ On(j, p) => On(j, p)' \/ Settled(p)',
         \A p \in Page : Triggered(p)' /\ Past(j, p)' => Past(j, p) \/ On(j, p)' \/ Settled(p)'
  PROVE  UpInv'
<1>1. ASSUME NEW i \in Job PROVE CatchUp(jobs[i])'
  <2>1. CASE i = j
    BY <2>1
  <2>2. CASE i # j
    <3>1. jobs'[i] = jobs[i] /\ CatchUp(jobs[i])
      BY <2>2 DEF UpInv
    <3>2. CASE jobs[i].pc \in {"check", "walk"} \cup SendPC
      <4>1. jobs[j].pc \notin WalkPC /\ jobs[i].page \in Page
        BY <2>2, <3>2, OneSender DEF WalkPC, SendPC, TypeInv, Shaped, PagePC
      <4>2. Triggered(jobs[i].page)' => pages'[jobs[i].page] = pages[jobs[i].page] /\ Triggered(jobs[i].page)
        BY <3>1, <4>1 DEF Triggered
      <4> QED
        BY <3>1, <3>2, <4>2 DEF CatchUp
    <3>3. CASE jobs[i].pc \notin {"check", "walk"} \cup SendPC
      BY <3>1, <3>3 DEF CatchUp
    <3> QED
      BY <3>2, <3>3
  <2> QED
    BY <2>1, <2>2
<1>2. ASSUME NEW p \in Page, Triggered(p)', \A i \in Job : ~On(i, p)'
      PROVE  (passed' => Settled(p)') /\ \A i \in Job : Past(i, p)' => Settled(p)'
  <2>1. pages'[p] = pages[p] /\ Triggered(p)
    BY <1>2 DEF On, WorkPC, Triggered
  <2>2. \A i \in Job \ {j} : ~On(i, p) /\ (Past(i, p)' => Past(i, p))
    BY <1>2 DEF On, Past
  <2>3. CASE On(j, p)
    BY <1>2, <2>3
  <2>4. CASE ~On(j, p)
    <3>1. (passed => Settled(p)) /\ \A i \in Job : Past(i, p) => Settled(p)
      BY <2>1, <2>2, <2>4 DEF UpInv
    <3>2. Settled(p) => Settled(p)'
      BY <2>1, StaysSettled
    <3> QED
      BY <1>2, <2>2, <3>1, <3>2
  <2> QED
    BY <2>3, <2>4
<1> QED
  BY <1>1, <1>2 DEF UpInv

\* A handler that starts.
LEMMA StartCatches ==
  ASSUME TypeInv, RoleInv, OneWalker, UpInv, NEW j \in Job, JobStart(j)
  PROVE  UpInv'
<1>1. /\ jobs[j].pc = "idle" /\ jobs'[j].pc \in {"next", "advance", "insert", "ackset", "list"}
      /\ \A i \in Job \ {j} : jobs'[i] = jobs[i]
      /\ UNCHANGED <<pages, attempts>>
  BY Starts
<1>2. passed' = passed
  BY DEF JobStart, Tick, Trigger, Acknowledge, EscalateNow, AutoResolve, Start
<1>3. /\ jobs'[j].pc = "next" <=> jobs'[j].op = "tick"
      /\ \A p \in Page : Past(j, p)' => ~Triggered(p)
  <2>1. ASSUME NEW job, Go(j, job) PROVE jobs'[j] = job
    BY <2>1, Moves
  <2>2. CASE Tick(j)
    <3>1. Go(j, [Idle EXCEPT !.op = "tick", !.pc = "next", !.queue = {p \in Page : Triggered(p)}])
      BY <2>2 DEF Tick, Start
    <3>2. /\ jobs'[j].op = "tick" /\ jobs'[j].pc = "next"
          /\ jobs'[j].queue = {p \in Page : Triggered(p)}
      BY <2>1, <3>1 DEF Idle
    <3> QED
      BY <3>2 DEF Past
  <2>3. CASE Trigger(j)
    BY <2>1, <2>3 DEF Trigger, Start, Past, Idle
  <2>4. CASE AutoResolve(j)
    BY <2>1, <2>4 DEF AutoResolve, Start, Past, Idle
  <2>5. CASE Acknowledge(j)
    <3>1. PICK p \in Page, u \in User :
            Go(j, [Idle EXCEPT !.op = "acknowledge", !.pc = "ackset", !.page = p, !.by = u])
      BY <2>5 DEF Acknowledge, Start
    <3> QED
      BY <2>1, <3>1 DEF Past, Idle
  <2>6. CASE EscalateNow(j)
    <3>1. PICK p \in Page :
            Go(j, [Idle EXCEPT !.op = "escalate", !.pc = "advance", !.page = p, !.row = pages[p]])
      BY <2>6 DEF EscalateNow, Start
    <3> QED
      BY <2>1, <3>1 DEF Past, Idle
  <2> QED
    BY <2>2, <2>3, <2>4, <2>5, <2>6 DEF JobStart
<1>4. CatchUp(jobs[j])'
  BY <1>1, <1>3 DEF CatchUp, SendPC, WalkPC
<1>5. \A p \in Page : ~On(j, p) /\ pages'[p] = pages[p] /\ (Triggered(p)' => Triggered(p))
  BY <1>1 DEF On, WorkPC, Triggered
<1> QED
  BY <1>1, <1>2, <1>3, <1>4, <1>5, Catches

\* A handler that is done with its page, which is settled or has stopped.
LEMMA FinishCatches ==
  ASSUME TypeInv, RoleInv, OneWalker, UpInv, NEW j \in Job, Finish(j), jobs[j].pc # "idle",
         attempts \subseteq attempts', passed' = passed,
         \A p \in Page : Triggered(p)' => pages'[p] = pages[p],
         \A p \in Page : Triggered(p)' /\ On(j, p) => Settled(p)'
  PROVE  UpInv'
<1>1. /\ jobs'[j].pc \in {"next", "idle"}
      /\ \A i \in Job \ {j} : jobs'[i] = jobs[i]
  BY Finishes
<1>2. /\ jobs'[j].pc = "next" <=> jobs'[j].op = "tick"
      /\ \A p \in Page : Past(j, p)' => Past(j, p)
  <2>1. ASSUME NEW job, Go(j, job) PROVE jobs'[j] = job
    BY <2>1, Moves
  <2>2. CASE jobs[j].op = "tick"
    <3>1. Go(j, [Idle EXCEPT !.op = "tick", !.pc = "next", !.queue = jobs[j].queue])
      BY <2>2 DEF Finish
    <3> QED
      BY <2>1, <2>2, <3>1 DEF Past, Idle
  <2>3. CASE jobs[j].op # "tick"
    <3>1. Go(j, Idle)
      BY <2>3 DEF Finish
    <3> QED
      BY <2>1, <3>1 DEF Past, Idle
  <2> QED
    BY <2>2, <2>3
<1>3. CatchUp(jobs[j])'
  BY <1>1, <1>2 DEF CatchUp, SendPC, WalkPC
<1> QED
  BY <1>1, <1>2, <1>3, Catches

\* A handler that goes on with its page, or with none.
LEMMA GoCatches ==
  ASSUME TypeInv, RoleInv, OneWalker, UpInv, NEW j \in Job, NEW job, Go(j, job), jobs[j].pc # "idle",
         job.op \in {jobs[j].op, "none"}, job.queue = jobs[j].queue \/ jobs[j].op # "tick",
         attempts \subseteq attempts', passed' = passed,
         \A p \in Page : Triggered(p)' =>
           pages'[p] = pages[p] \/ (jobs[j].pc \in WalkPC /\ job.pc = "load" /\ job.page = p),
         jobs[j].pc \in WorkPC => job.pc \in WorkPC /\ job.page = jobs[j].page,
         CatchUp(jobs[j])'
  PROVE  UpInv'
<1>1. jobs'[j] = job /\ \A i \in Job \ {j} : jobs'[i] = jobs[i]
  BY Moves
<1>2. \A p \in Page : (On(j, p) => On(j, p)') /\ (Past(j, p)' => Past(j, p))
  BY <1>1 DEF On, Past
<1> QED
  BY <1>1, <1>2, Catches

\* The steps of a handler that only change its own record.
LEMMA ReadCatches ==
  ASSUME TypeInv, RoleInv, OneWalker, UpInv, NEW j \in Job,
         Load(j) \/ Check(j) \/ Walk(j) \/ Recheck(j) \/ Deliver(j)
  PROVE  UpInv'
<1>0. /\ jobs[j] \in JobRecord /\ Shaped(jobs[j]) /\ CatchUp(jobs[j])
      /\ attempts' = attempts /\ pages' = pages /\ passed' = passed
  BY DEF TypeInv, TypeOK, UpInv, Load, Check, Walk, Recheck, Deliver
<1>1. CASE Load(j)
  <2>1. CASE Triggered(jobs[j].page)
    <3>1. PICK job : job = [jobs[j] EXCEPT !.pc = "check", !.row = pages[jobs[j].page]]
      OBVIOUS
    <3>2. /\ job.pc = "check" /\ job.page = jobs[j].page /\ job.row = pages[jobs[j].page]
          /\ job.op = jobs[j].op /\ job.queue = jobs[j].queue
      BY <1>0, <3>1 DEF JobRecord
    <3>3. CatchUp(job)'
      BY <1>0, <3>2 DEF CatchUp, SendPC, WalkPC
    <3>4. Go(j, job) /\ jobs'[j] = job
      BY <1>1, <2>1, <3>1 DEF Load, Go, TypeInv, TypeOK
    <3>5. CatchUp(jobs[j])'
      BY <3>3, <3>4, <3>4 DEF CatchUp
    <3> QED
      BY <1>0, <1>1, <3>2, <3>3, <3>4, <3>5, GoCatches DEF Load, At, WorkPC
  <2>2. CASE ~Triggered(jobs[j].page)
    BY <1>0, <1>1, <2>2, FinishCatches DEF Load, At, On, Triggered
  <2> QED
    BY <2>1, <2>2
<1>2. CASE Check(j)
  <2>1. ASSUME NEW pc \in {"resolve", "exhaust", "advance"}, Go(j, [jobs[j] EXCEPT !.pc = pc])
        PROVE  UpInv'
    <3>1. PICK job : job = [jobs[j] EXCEPT !.pc = pc]
      OBVIOUS
    <3>2. job.pc = pc /\ job.page = jobs[j].page /\ job.op = jobs[j].op /\ job.queue = jobs[j].queue
      BY <1>0, <3>1 DEF JobRecord
    <3>3. CatchUp(job)'
      BY <3>2 DEF CatchUp, SendPC, WalkPC
    <3>4. Go(j, job) /\ jobs'[j] = job
      BY <2>1, <3>1 DEF Go, TypeInv, TypeOK
    <3>5. CatchUp(jobs[j])'
      BY <3>3, <3>4, <3>4 DEF CatchUp
    <3> QED
      BY <1>0, <1>2, <3>2, <3>3, <3>4, <3>5, GoCatches DEF Check, At, WorkPC
  <2>2. ASSUME Go(j, [jobs[j] EXCEPT !.pc = "walk", !.elapsed = jobs[j].row.age,
                                     !.todo = jobs[j].row.targets \X Rule])
        PROVE  UpInv'
    <3>1. PICK job : job = [jobs[j] EXCEPT !.pc = "walk", !.elapsed = jobs[j].row.age,
                                           !.todo = jobs[j].row.targets \X Rule]
      OBVIOUS
    <3>2. /\ job.pc = "walk" /\ job.page = jobs[j].page /\ job.row = jobs[j].row
          /\ job.elapsed = jobs[j].row.age /\ job.todo = jobs[j].row.targets \X Rule
          /\ job.op = jobs[j].op /\ job.queue = jobs[j].queue
      BY <1>0, <3>1 DEF JobRecord
    <3>3. jobs[j].pc = "check"
      BY <1>2 DEF Check, At
    <3>4. CatchUp(job)'
      BY <1>0, <3>2, <3>3 DEF CatchUp, WalkPC, Triggered
    <3>5. Go(j, job) /\ jobs'[j] = job
      BY <2>2, <3>1 DEF Go, TypeInv, TypeOK
    <3>6. CatchUp(jobs[j])'
      BY <3>3, <3>4, <3>5 DEF CatchUp
    <3> QED
      BY <1>0, <3>2, <3>3, <3>4, <3>5, <3>6, GoCatches DEF WorkPC
  <2> QED
    BY <1>2, <2>1, <2>2 DEF Check
<1>3. CASE Walk(j)
  <2>0. jobs[j].pc = "walk" /\ jobs[j].row \in Row /\ jobs[j].page \in Page
    BY <1>0, <1>3 DEF Walk, At, JobRecord, Shaped, PagePC
  <2>1. ASSUME NEW x \in jobs[j].todo, Missing(j, x[1], x[2]) = {}, Go(j, [jobs[j] EXCEPT !.todo = @ \ {x}])
        PROVE  UpInv'
    <3>1. PICK job : job = [jobs[j] EXCEPT !.todo = @ \ {x}]
      OBVIOUS
    <3>2. /\ job.pc = "walk" /\ job.page = jobs[j].page /\ job.row = jobs[j].row
          /\ job.elapsed = jobs[j].elapsed /\ job.todo = jobs[j].todo \ {x}
          /\ job.op = jobs[j].op /\ job.queue = jobs[j].queue
      BY <1>0, <2>0, <3>1 DEF JobRecord
    <3>3. ASSUME NEW u, NEW r, x = <<u, r>>, DueAt(r, 0) <= jobs[j].elapsed
          PROVE  AttemptFor(jobs[j].page, jobs[j].row, u, r, 0) \in attempts
      <4>1. x[1] = u /\ x[2] = r /\ 0 \in Seqs(r)
        BY <3>3 DEF Seqs
      <4>2. Missing(j, u, r) = {}
        BY <2>1, <4>1
      <4> QED
        BY <3>3, <4>1, <4>2 DEF Missing
    <3>4. CatchUp(job)'
      BY <1>0, <2>0, <3>2, <3>3 DEF CatchUp, WalkPC, Triggered, SendPC
    <3>5. Go(j, job) /\ jobs'[j] = job
      BY <2>1, <3>1 DEF Go, TypeInv, TypeOK
    <3>6. CatchUp(jobs[j])'
      BY <3>3, <3>4, <3>5 DEF CatchUp
    <3> QED
      BY <1>0, <2>0, <3>2, <3>4, <3>5, <3>6, GoCatches DEF WorkPC
  <2>2. ASSUME NEW x \in jobs[j].todo, NEW seq \in Missing(j, x[1], x[2]),
               \A s \in Missing(j, x[1], x[2]) : seq <= s,
               Go(j, [[jobs[j] EXCEPT !.todo = @ \ {x}] EXCEPT !.pc = "recheck",
                        !.attempt = AttemptFor(jobs[j].page, jobs[j].row, x[1], x[2], seq)])
        PROVE  UpInv'
    <3> DEFINE k == AttemptFor(jobs[j].page, jobs[j].row, x[1], x[2], seq)
    <3>1. PICK job : job = [[jobs[j] EXCEPT !.todo = @ \ {x}] EXCEPT !.pc = "recheck", !.attempt = k]
      OBVIOUS
    <3>2. /\ job.pc = "recheck" /\ job.page = jobs[j].page /\ job.row = jobs[j].row
          /\ job.elapsed = jobs[j].elapsed /\ job.todo = jobs[j].todo \ {x} /\ job.attempt = k
          /\ job.op = jobs[j].op /\ job.queue = jobs[j].queue
      <4> HIDE DEF k
      <4> QED
        BY <1>0, <3>1 DEF JobRecord
    <3>3. ASSUME NEW u, NEW r, x = <<u, r>>, DueAt(r, 0) <= jobs[j].elapsed,
                 AttemptFor(jobs[j].page, jobs[j].row, u, r, 0) \notin attempts
          PROVE  k = AttemptFor(jobs[j].page, jobs[j].row, u, r, 0)
      <4>1. x[1] = u /\ x[2] = r /\ 0 \in Seqs(r)
        BY <3>3 DEF Seqs
      <4>2. 0 \in Missing(j, u, r)
        BY <3>3, <4>1 DEF Missing
      <4>3. seq \in Nat
        BY DEF Missing, Seqs
      <4>4. Missing(j, x[1], x[2]) = Missing(j, u, r)
        BY <4>1
      <4>5. seq = 0
        BY <2>2, <4>2, <4>3, <4>4
      <4> QED
        BY <4>1, <4>5
    <3>4. CatchUp(job)'
      <4>1. job.row = jobs[j].row /\ job.elapsed = job.row.age /\ (Triggered(job.page) => job.row = pages[job.page])
        BY <1>0, <2>0, <3>2 DEF CatchUp
      <4>2. ASSUME NEW u \in job.row.targets, NEW r \in Rule,
                   DueAt(r, 0) <= job.elapsed, <<u, r>> \notin job.todo,
                   AttemptFor(job.page, job.row, u, r, 0) \notin attempts
            PROVE  job.attempt = AttemptFor(job.page, job.row, u, r, 0)
        <5>1. <<u, r>> \in jobs[j].todo
          BY <1>0, <2>0, <3>2, <4>2 DEF CatchUp, SendPC, WalkPC
        <5> QED
          BY <3>2, <3>3, <4>2, <5>1
      <4> QED
        BY <1>0, <3>2, <4>1, <4>2 DEF CatchUp, WalkPC, Triggered, SendPC
    <3>5. Go(j, job) /\ jobs'[j] = job
      BY <2>2, <3>1 DEF Go, TypeInv, TypeOK
    <3>6. CatchUp(jobs[j])'
      BY <3>3, <3>4, <3>5 DEF CatchUp
    <3> QED
      BY <1>0, <2>0, <3>2, <3>4, <3>5, <3>6, GoCatches DEF WorkPC
  <2>3. ASSUME jobs[j].todo = {}, Finish(j) PROVE UpInv'
    <3>1. Triggered(jobs[j].page) => Settled(jobs[j].page)
      BY <1>0, <2>0, <2>3 DEF CatchUp, Settled, SendPC
    <3> QED
      BY <1>0, <2>0, <2>3, <3>1, FinishCatches DEF On, Triggered, Settled
  <2> QED
    BY <1>3, <2>1, <2>2, <2>3 DEF Walk
<1>4. CASE Recheck(j) \/ Deliver(j)
  <2>0. jobs[j].pc \in {"recheck", "deliver"}
    BY <1>4 DEF Recheck, Deliver, At
  <2>1. ASSUME NEW pc \in {"deliver", "record"}, Go(j, [jobs[j] EXCEPT !.pc = pc])
        PROVE  UpInv'
    <3>1. PICK job : job = [jobs[j] EXCEPT !.pc = pc]
      OBVIOUS
    <3>2. /\ job.pc = pc /\ job.page = jobs[j].page /\ job.row = jobs[j].row
          /\ job.elapsed = jobs[j].elapsed /\ job.todo = jobs[j].todo /\ job.attempt = jobs[j].attempt
          /\ job.op = jobs[j].op /\ job.queue = jobs[j].queue
      BY <1>0, <3>1 DEF JobRecord
    <3>3. CatchUp(job)'
      BY <1>0, <2>0, <3>2 DEF CatchUp, WalkPC, Triggered, SendPC
    <3>4. Go(j, job) /\ jobs'[j] = job
      BY <2>1, <3>1 DEF Go, TypeInv, TypeOK
    <3>5. CatchUp(jobs[j])'
      BY <3>3, <3>4, <3>4 DEF CatchUp
    <3> QED
      BY <1>0, <2>0, <3>2, <3>3, <3>4, <3>5, GoCatches DEF WorkPC
  <2>2. ASSUME ~Triggered(jobs[j].page), Finish(j) PROVE UpInv'
    BY <1>0, <2>0, <2>2, FinishCatches DEF On, Triggered
  <2> QED
    BY <1>4, <2>1, <2>2 DEF Recheck, Deliver
<1> QED
  BY <1>1, <1>2, <1>3, <1>4

\* A pass takes up its next page, or ends when every page has had its turn.
LEMMA NextCatches ==
  ASSUME TypeInv, RoleInv, OneWalker, UpInv, NEW j \in Job, NextPage(j)
  PROVE  UpInv'
<1>0. /\ jobs[j] \in JobRecord /\ jobs[j].pc = "next" /\ jobs[j].op = "tick"
      /\ attempts' = attempts /\ pages' = pages
  BY DEF TypeInv, TypeOK, NextPage, At, UpInv, CatchUp
<1>1. ASSUME NEW p \in jobs[j].queue, passed' = passed,
             Go(j, [jobs[j] EXCEPT !.pc = "load", !.page = p, !.queue = @ \ {p}])
      PROVE  UpInv'
  <2>1. PICK job : job = [jobs[j] EXCEPT !.pc = "load", !.page = p, !.queue = @ \ {p}]
    OBVIOUS
  <2>2. job.pc = "load" /\ job.page = p /\ job.queue = jobs[j].queue \ {p} /\ job.op = jobs[j].op
    BY <1>0, <2>1 DEF JobRecord
  <2>3. jobs'[j] = job /\ \A i \in Job \ {j} : jobs'[i] = jobs[i]
    BY <1>1, <2>1, Moves
  <2>4. CatchUp(jobs[j])'
    BY <2>2, <2>3 DEF CatchUp, SendPC, WalkPC
  <2>5. \A q \in Page : ~On(j, q) /\ (Past(j, q)' => Past(j, q) \/ On(j, q)')
    BY <1>0, <2>2, <2>3 DEF On, Past, WorkPC
  <2> QED
    BY <1>0, <1>1, <2>3, <2>4, <2>5, Catches
<1>2. ASSUME jobs[j].queue = {}, Go(j, Idle), passed' = TRUE
      PROVE  UpInv'
  <2>1. jobs'[j] = Idle /\ \A i \in Job \ {j} : jobs'[i] = jobs[i]
    BY <1>2, Moves
  <2>2. \A p \in Page : Past(j, p) /\ \A i \in Job : ~On(i, p)
    <3>1. \A i \in Job : jobs[i].pc \in WorkPC => i = j
      BY <1>0, OneSender DEF WorkPC, WalkPC
    <3> QED
      BY <1>0, <1>2, <3>1 DEF Past, On, WorkPC
  <2>3. \A p \in Page : Triggered(p)' => Settled(p)'
    BY <1>0, <2>2 DEF UpInv, Triggered, Settled
  <2>4. CatchUp(jobs[j])'
    BY <2>1 DEF CatchUp, SendPC, WalkPC, Idle
  <2> QED
    BY <1>0, <2>1, <2>3, <2>4, Catches
<1> QED
  BY <1>1, <1>2 DEF NextPage

\* A handler that records an attempt, or goes on to the next level.
LEMMA WriteCatches ==
  ASSUME TypeInv, RoleInv, OneWalker, UpInv, NEW j \in Job,
         RecordAttempt(j) \/ PolicyGone(j) \/ NobodyAcknowledged(j) \/ Advance(j) \/ InsertPage(j)
  PROVE  UpInv'
<1>0. /\ jobs[j] \in JobRecord /\ Shaped(jobs[j]) /\ CatchUp(jobs[j]) /\ passed' = passed
      /\ pages \in [Page -> Row]
  BY DEF TypeInv, TypeOK, UpInv, RecordAttempt, PolicyGone, NobodyAcknowledged, Advance, InsertPage
<1>1. CASE RecordAttempt(j)
  <2>1. PICK job : job = [jobs[j] EXCEPT !.pc = "walk", !.attempt = None]
    OBVIOUS
  <2>2. /\ job.pc = "walk" /\ job.page = jobs[j].page /\ job.row = jobs[j].row
        /\ job.elapsed = jobs[j].elapsed /\ job.todo = jobs[j].todo
        /\ job.op = jobs[j].op /\ job.queue = jobs[j].queue
    BY <1>0, <2>1 DEF JobRecord
  <2>3. /\ jobs[j].pc = "record" /\ pages' = pages /\ attempts' = attempts \cup {jobs[j].attempt}
        /\ Go(j, job)
    BY <1>1, <2>1 DEF RecordAttempt, At, Go
  <2>4. jobs'[j] = job
    BY <2>3, Moves
  <2>5. CatchUp(jobs[j])'
    BY <1>0, <2>2, <2>3, <2>4 DEF CatchUp, WalkPC, Triggered, SendPC
  <2> QED
    BY <1>0, <2>2, <2>3, <2>5, GoCatches DEF WorkPC
<1>2. ASSUME PolicyGone(j) \/ NobodyAcknowledged(j) \/ Advance(j)
      PROVE  UpInv'
  <2>1. PICK job : job = [jobs[j] EXCEPT !.pc = "load"]
    OBVIOUS
  <2>2. job.pc = "load" /\ job.page = jobs[j].page /\ job.op = jobs[j].op /\ job.queue = jobs[j].queue
    BY <1>0, <2>1 DEF JobRecord
  <2>3. jobs[j].pc = "advance" /\ attempts' = attempts /\ Go(j, job)
    BY <1>2, <2>1 DEF PolicyGone, NobodyAcknowledged, Advance, At, Go
  <2>4. jobs'[j] = job
    BY <2>3, Moves
  <2>5. CatchUp(jobs[j])'
    BY <2>2, <2>4 DEF CatchUp, SendPC, WalkPC
  <2>6. \A p \in Page : p # jobs[j].page => pages'[p] = pages[p]
    BY <1>0, <1>2 DEF PolicyGone, NobodyAcknowledged, Advance, SetStatus
  <2> QED
    BY <1>0, <2>2, <2>3, <2>5, <2>6, GoCatches DEF WorkPC, WalkPC
<1>3. CASE InsertPage(j)
  <2>0. jobs[j].pc = "insert" /\ attempts' = attempts
    BY <1>3 DEF InsertPage, At
  <2>1. ASSUME Go(j, Idle), pages' = pages PROVE UpInv'
    <3>1. jobs'[j] = Idle /\ Idle.op = "none" /\ Idle.pc = "idle"
      BY <2>1, Moves DEF Idle
    <3>2. CatchUp(jobs[j])'
      BY <3>1 DEF CatchUp, SendPC, WalkPC
    <3>3. \A p \in Page : ~On(j, p) /\ ~Past(j, p)'
      BY <2>0, <3>1 DEF On, Past, WorkPC
    <3>4. \A i \in Job \ {j} : jobs'[i] = jobs[i]
      BY <2>1, Moves
    <3> QED
      BY <1>0, <2>0, <2>1, <3>2, <3>3, <3>4, Catches
  <2>2. ASSUME NEW p \in Page, NEW targets,
               pages' = [pages EXCEPT ![p] = [NoRow EXCEPT !.status = "triggered", !.targets = targets]],
               Go(j, [jobs[j] EXCEPT !.pc = "load", !.page = p])
        PROVE  UpInv'
    <3>1. PICK job : job = [jobs[j] EXCEPT !.pc = "load", !.page = p]
      OBVIOUS
    <3>2. job.pc = "load" /\ job.page = p /\ job.op = jobs[j].op /\ job.queue = jobs[j].queue
      BY <1>0, <3>1 DEF JobRecord
    <3>3. Go(j, job)
      BY <2>2, <3>1 DEF Go
    <3>4. jobs'[j] = job
      BY <3>3, Moves
    <3>5. CatchUp(jobs[j])'
      BY <3>2, <3>4 DEF CatchUp, SendPC, WalkPC
    <3>6. \A q \in Page : q # p => pages'[q] = pages[q]
      BY <1>0, <2>2
    <3> QED
      BY <1>0, <2>0, <3>2, <3>3, <3>5, <3>6, GoCatches DEF WorkPC, WalkPC
  <2> QED
    BY <1>3, <2>1, <2>2 DEF InsertPage
<1> QED
  BY <1>1, <1>2, <1>3

\* A handler that stops a page, or acknowledges or settles without walking.
LEMMA StopCatches ==
  ASSUME TypeInv, RoleInv, OneWalker, UpInv, NEW j \in Job,
         \/ Resolve(j) \/ Exhaust(j) \/ SetAcknowledged(j) \/ ReadTicket(j) \/ TakeTicket(j)
         \/ ListOpenPages(j) \/ SettlePage(j)
  PROVE  UpInv'
<1>0. /\ jobs[j] \in JobRecord /\ Shaped(jobs[j]) /\ CatchUp(jobs[j])
      /\ pages \in [Page -> Row] /\ attempts' = attempts /\ passed' = passed
  BY DEF TypeInv, TypeOK, UpInv, Resolve, Exhaust, SetAcknowledged, ReadTicket, TakeTicket, ListOpenPages, SettlePage
<1>1. ASSUME NEW p, NEW s \in Status \ {"triggered"}, SetStatus(p, s)
      PROVE  \A q \in Page : Triggered(q)' => pages'[q] = pages[q]
  BY <1>0, <1>1 DEF SetStatus, Triggered, Row
<1>2. CASE Resolve(j) \/ Exhaust(j)
  <2>1. PICK s \in {"resolved", "exhausted"} : SetStatus(jobs[j].page, s)
    BY <1>2 DEF Resolve, Exhaust
  <2>2. jobs[j].pc \in {"resolve", "exhaust"} /\ jobs[j].page \in Page /\ Finish(j)
    BY <1>0, <1>2 DEF Resolve, Exhaust, At, Shaped, PagePC
  <2>3. pages'[jobs[j].page].status # "triggered"
    BY <1>0, <2>1, <2>2 DEF SetStatus, Triggered, Row
  <2>4. \A q \in Page : Triggered(q)' => pages'[q] = pages[q]
    BY <1>1, <2>1 DEF Status
  <2> QED
    BY <1>0, <2>2, <2>3, <2>4, FinishCatches DEF On, Triggered
<1>3. ASSUME NEW job, Go(j, job), job.pc \in {"ackread", "ackticket", "settle"}, job.op = jobs[j].op,
             jobs[j].pc \in {"ackset", "ackread", "list", "settle"},
             \A q \in Page : Triggered(q)' => pages'[q] = pages[q]
      PROVE  UpInv'
  <2>1. jobs'[j] = job /\ jobs[j].op # "tick"
    BY <1>0, <1>3, Moves DEF CatchUp, WalkPC
  <2>2. CatchUp(jobs[j])'
    BY <1>3, <2>1 DEF CatchUp, SendPC, WalkPC
  <2> QED
    BY <1>0, <1>3, <2>1, <2>2, GoCatches DEF WorkPC
<1>4. ASSUME Go(j, Idle), pages' = pages, jobs[j].pc \in {"ackticket", "settle"} PROVE UpInv'
  <2>1. jobs'[j] = Idle /\ Idle.op = "none" /\ Idle.pc = "idle"
    BY <1>4, Moves DEF Idle
  <2>2. CatchUp(jobs[j])'
    BY <2>1 DEF CatchUp, SendPC, WalkPC
  <2>3. \A p \in Page : ~On(j, p) /\ ~Past(j, p)'
    BY <1>4, <2>1 DEF On, Past, WorkPC
  <2>4. \A i \in Job \ {j} : jobs'[i] = jobs[i]
    BY <1>4, Moves
  <2> QED
    BY <1>0, <1>4, <2>2, <2>3, <2>4, Catches
<1>5. CASE SetAcknowledged(j)
  <2>1. PICK job : job = [jobs[j] EXCEPT !.pc = "ackread"]
    OBVIOUS
  <2>2. job.pc = "ackread" /\ job.op = jobs[j].op /\ job.queue = jobs[j].queue
    BY <1>0, <2>1 DEF JobRecord
  <2>3. Go(j, job) /\ jobs[j].pc = "ackset"
    BY <1>5, <2>1 DEF SetAcknowledged, Go, At
  <2>4. \A q \in Page : Triggered(q)' => pages'[q] = pages[q]
    BY <1>0, <1>5 DEF SetAcknowledged, Triggered, Row
  <2> QED
    BY <1>3, <2>2, <2>3, <2>4
<1>6. CASE ReadTicket(j)
  <2>1. PICK job : job = [jobs[j] EXCEPT !.pc = "ackticket", !.seen = ticket]
    OBVIOUS
  <2>2. job.pc = "ackticket" /\ job.op = jobs[j].op /\ job.queue = jobs[j].queue
    BY <1>0, <2>1 DEF JobRecord
  <2>3. Go(j, job) /\ jobs[j].pc = "ackread" /\ pages' = pages
    BY <1>6, <2>1 DEF ReadTicket, Go, At
  <2> QED
    BY <1>3, <2>2, <2>3
<1>7. CASE TakeTicket(j)
  BY <1>4, <1>7 DEF TakeTicket, At
<1>8. CASE ListOpenPages(j)
  <2>1. PICK job : job = [jobs[j] EXCEPT !.pc = "settle", !.queue = {p \in Page : Triggered(p)}]
    OBVIOUS
  <2>2. job.pc = "settle" /\ job.op = jobs[j].op
    BY <1>0, <2>1 DEF JobRecord
  <2>3. Go(j, job) /\ jobs[j].pc = "list" /\ pages' = pages
    BY <1>8, <2>1 DEF ListOpenPages, Go, At
  <2> QED
    BY <1>3, <1>8, <2>2, <2>3
<1>9. CASE SettlePage(j)
  <2>1. ASSUME NEW p \in jobs[j].queue, SetStatus(p, "resolved"), Go(j, [jobs[j] EXCEPT !.queue = @ \ {p}])
        PROVE  UpInv'
    <3>1. PICK job : job = [jobs[j] EXCEPT !.queue = @ \ {p}]
      OBVIOUS
    <3>2. jobs[j].pc = "settle" /\ job.pc = "settle" /\ job.op = jobs[j].op
      BY <1>0, <1>9, <3>1 DEF SettlePage, At, JobRecord
    <3>3. Go(j, job)
      BY <2>1, <3>1 DEF Go
    <3>4. \A q \in Page : Triggered(q)' => pages'[q] = pages[q]
      BY <1>1, <2>1 DEF Status
    <3> QED
      BY <1>3, <1>9, <3>2, <3>3, <3>4
  <2> QED
    BY <1>4, <1>9, <2>1 DEF SettlePage, At
<1> QED
  BY <1>2, <1>5, <1>6, <1>7, <1>8, <1>9

\* Time waits for handlers and for a pass, and so finds every page settled.
LEMMA TimeCatches ==
  ASSUME TypeInv, UpInv, Prompt, PassTime
  PROVE  /\ UpInv'
         /\ \A p \in Page : Triggered(p) => Settled(p)
<1>1. passed /\ passed' = FALSE /\ attempts' = attempts /\ \A j \in Job : jobs[j].pc = "idle"
  BY DEF PassTime, AllIdle, At
<1>2. \A j \in Job : jobs'[j] = jobs[j] /\ jobs[j].op # "tick"
  BY <1>1 DEF PassTime, At, UpInv, CatchUp, WalkPC
<1>3. \A j \in Job : CatchUp(jobs[j])'
  BY <1>1, <1>2 DEF CatchUp, SendPC
<1>4. \A p \in Page, j \in Job : ~Past(j, p)' /\ ~On(j, p)
  BY <1>1, <1>2 DEF Past, On, WorkPC
<1>5. UpInv'
  BY <1>1, <1>3, <1>4 DEF UpInv
<1>6. \A p \in Page : Triggered(p) => Settled(p)
  BY <1>1, <1>4 DEF UpInv
<1> QED
  BY <1>5, <1>6

\* Every step keeps the walker's part and the settled pages.
LEMMA CatchUpStep ==
  ASSUME TypeInv, RoleInv, OneWalker, MaxCrashes = 0, Prompt, UpInv, [Next]_vars
  PROVE  UpInv'
<1>1. ASSUME NEW j \in Job, JobStep(j) PROVE UpInv'
  BY <1>1, ReadCatches, NextCatches, WriteCatches, StopCatches DEF JobStep
<1>2. ASSUME NEW j \in Job, Crash(j) PROVE FALSE
  BY <1>2 DEF Crash, TypeInv, TypeOK
<1>3. CASE EditPolicy \/ EditTicket \/ UNCHANGED vars
  BY <1>3 DEF EditPolicy, EditTicket, vars, UpInv, CatchUp, On, Past, Settled, Triggered
<1> QED
  BY <1>1, <1>2, <1>3, StartCatches, TimeCatches DEF Next

\* One handler at a time walks pages, none dies, and time waits for them and
\* for the pager's pass.
Attentive == OneWalker /\ MaxCrashes = 0 /\ Prompt

LEMMA CatchUpInvariant == Attentive /\ Spec => []UpInv
<1> SUFFICES ASSUME Attentive PROVE Spec => []UpInv
  OBVIOUS
<1>1. Init => UpInv
  BY DEF Init, UpInv, CatchUp, Triggered, Idle, NoRow, SendPC
<1>2. TypeInv /\ RoleInv /\ UpInv /\ [Next]_vars => UpInv'
  BY CatchUpStep DEF Attentive
<1> QED
  BY <1>1, <1>2, TypeInvariant, RoleInvariant, PTL DEF Spec

\* Nothing due is left waiting when time moves on, whoever acknowledges, edits,
\* escalates or resolves meanwhile: a pass catches up with every rule of
\* everyone the level reached (processPage).
THEOREM DueIsSent == Attentive /\ Spec => KeepsUp
<1> SUFFICES ASSUME Attentive PROVE Spec => KeepsUp
  OBVIOUS
<1> DEFINE Up == passed /\ ~passed' =>
                   \A p \in Page, u \in User, r \in Rule :
                     /\ Triggered(p) /\ ~Terminal /\ u \in pages[p].targets
                     /\ DueAt(r, 0) <= pages[p].age
                     => AttemptFor(p, pages[p], u, r, 0) \in attempts
<1>1. TypeInv /\ UpInv /\ [Next]_vars => [Up]_vars
  <2> SUFFICES ASSUME TypeInv, UpInv, Next, passed, ~passed' PROVE Up
    BY DEF vars
  <2>1. PassTime
    <3>1. ASSUME NEW j \in Job, JobStart(j) PROVE FALSE
      BY <3>1 DEF JobStart, Tick, Trigger, Acknowledge, EscalateNow, AutoResolve, Start
    <3>2. ASSUME NEW j \in Job, JobStep(j) PROVE FALSE
      BY <3>2 DEF JobStep, NextPage, Load, Check, Resolve, Exhaust, Walk, Recheck, Deliver, RecordAttempt,
         PolicyGone, NobodyAcknowledged, Advance, InsertPage, SetAcknowledged, ReadTicket, TakeTicket,
         ListOpenPages, SettlePage
    <3> QED
      BY <3>1, <3>2 DEF Next, Crash, EditPolicy, EditTicket
  <2> QED
    BY <2>1, TimeCatches DEF Attentive, Settled
<1> QED
  BY <1>1, CatchUpInvariant, TypeInvariant, PTL DEF Spec, KeepsUp

-----------------------------------------------------------------------------
(* A page is announced as unacknowledged only after everyone was tried: it    *)
(* goes on from a level when that is over, and has caught up with it by then. *)

\* Everyone some answer of resolveTargets names was tried at the level.
Tried(p, c, l) ==
  \E targets \in Reaches[l] : \A u \in targets, r \in Rule :
    DueAt(r, 0) < Delay[l] => AttemptFor(p, [cycle |-> c, level |-> l], u, r, 0) \in attempts

Before(c, l, row) == c < row.cycle \/ (c = row.cycle /\ l < row.level)

\* The levels before the row's are done, and the row's own up to its age.
Whole(p, row) ==
  /\ row.targets \in Reaches[row.level]
  /\ \A c \in Cycle, l \in Level : Before(c, l, row) => Tried(p, c, l)
  /\ \A u \in row.targets, r \in Rule :
       DueAt(r, 0) < row.age => AttemptFor(p, row, u, r, 0) \in attempts

FairPart(job) ==
  /\ job.pc \in {"check", "advance"} => Whole(job.page, job.row)
  /\ job.pc = "advance" => job.row.age >= Delay[job.row.level]

FairInv ==
  /\ levels = MaxLevels
  /\ \A p \in Page : Triggered(p) => Whole(p, pages[p])
  /\ \A j \in Job : FairPart(jobs[j])
  /\ \A p \in announced, c \in Cycle, l \in Level : Tried(p, c, l)

\* Attempts are not forgotten.
LEMMA StaysTried ==
  ASSUME attempts \subseteq attempts'
  PROVE  /\ \A p, c, l : Tried(p, c, l) => Tried(p, c, l)'
         /\ \A p, row : Whole(p, row) => Whole(p, row)'
<1>1. ASSUME NEW p, NEW c, NEW l, Tried(p, c, l) PROVE Tried(p, c, l)'
  BY <1>1 DEF Tried
<1>2. ASSUME NEW p, NEW row, Whole(p, row) PROVE Whole(p, row)'
  BY <1>1, <1>2 DEF Whole
<1> QED
  BY <1>1, <1>2

\* A step of one handler that keeps its own part, and leaves no page behind
\* that has not had its levels.
LEMMA FairMoves ==
  ASSUME FairInv, NEW j \in Job, \A i \in Job \ {j} : jobs'[i] = jobs[i],
         attempts \subseteq attempts', levels' = levels, announced' = announced,
         FairPart(jobs[j])',
         \A p \in Page : Triggered(p)' => pages'[p] = pages[p] \/ Whole(p, pages[p])'
  PROVE  FairInv'
<1>1. ASSUME NEW p \in Page, Triggered(p)' PROVE Whole(p, pages[p])'
  <2>1. CASE pages'[p] = pages[p]
    <3>1. Whole(p, pages[p])
      BY <1>1, <2>1 DEF FairInv, Triggered
    <3>2. PICK row : row = pages[p]
      OBVIOUS
    <3>3. Whole(p, row)'
      BY <3>1, <3>2, StaysTried
    <3> QED
      BY <2>1, <3>2, <3>3 DEF Whole
  <2> QED
    BY <1>1, <2>1
<1>2. ASSUME NEW i \in Job PROVE FairPart(jobs[i])'
  <2>1. CASE i # j
    <3>1. jobs'[i] = jobs[i] /\ FairPart(jobs[i])
      BY <2>1 DEF FairInv
    <3>2. PICK job : job = jobs[i]
      OBVIOUS
    <3>3. Whole(job.page, job.row) => Whole(job.page, job.row)'
      BY StaysTried
    <3> QED
      BY <3>1, <3>2, <3>3 DEF FairPart
  <2> QED
    BY <2>1
<1>3. \A p \in announced', c \in Cycle, l \in Level : Tried(p, c, l)'
  BY StaysTried DEF FairInv
<1> QED
  BY <1>1, <1>2, <1>3 DEF FairInv

\* A level that is over has been tried.
LEMMA LevelTried ==
  ASSUME NEW p, NEW row \in Row, Whole(p, row), row.age >= Delay[row.level]
  PROVE  Tried(p, row.cycle, row.level)
<1>1. /\ Delay[row.level] \in Int /\ row.age \in Int
      /\ row.level \in Level /\ \A r \in Rule : DueAt(r, 0) \in Int
  BY RuleAssumption DEF Row, DueAt, Level
<1>2. \A u \in row.targets, r \in Rule : DueAt(r, 0) < Delay[row.level] => AttemptFor(p, row, u, r, 0) \in attempts
  BY <1>1 DEF Whole
<1>3. \A u, r : AttemptFor(p, row, u, r, 0) = AttemptFor(p, [cycle |-> row.cycle, level |-> row.level], u, r, 0)
  BY DEF AttemptFor
<1> QED
  BY <1>2, <1>3 DEF Tried, Whole

\* Only an INSERT and an advance leave a page escalating on another row.
LEMMA StepKeepsRows ==
  ASSUME TypeInv, NEW j \in Job, JobStep(j), ~InsertPage(j), ~Advance(j)
  PROVE  \A p \in Page : Triggered(p)' => pages'[p] = pages[p]
<1>0. pages \in [Page -> Row]
  BY DEF TypeInv, TypeOK
<1>1. ASSUME NEW p, NEW s \in Status \ {"triggered"}, SetStatus(p, s)
      PROVE  \A q \in Page : Triggered(q)' => pages'[q] = pages[q]
  BY <1>0, <1>1 DEF SetStatus, Triggered, Row
<1>2. CASE Resolve(j) \/ Exhaust(j) \/ PolicyGone(j) \/ NobodyAcknowledged(j)
  BY <1>1, <1>2 DEF Resolve, Exhaust, PolicyGone, NobodyAcknowledged, Status
<1>3. CASE SetAcknowledged(j)
  BY <1>0, <1>3 DEF SetAcknowledged, Triggered, Row
<1>4. CASE SettlePage(j)
  BY <1>1, <1>4 DEF SettlePage, Status
<1> QED
  BY <1>2, <1>3, <1>4 DEF JobStep, NextPage, Load, Check, Walk, Recheck, Deliver,
     RecordAttempt, ReadTicket, TakeTicket, ListOpenPages

\* What a handler does with a page it has loaded.
LEMMA ReadFair ==
  ASSUME TypeInv, FairInv, NEW j \in Job, Load(j) \/ Check(j)
  PROVE  FairInv'
<1>0. /\ jobs[j] \in JobRecord /\ Shaped(jobs[j]) /\ FairPart(jobs[j])
      /\ UNCHANGED <<pages, attempts, levels, announced>>
  BY DEF TypeInv, TypeOK, FairInv, Load, Check
<1>1. \A p, row : Whole(p, row) => Whole(p, row)'
  BY <1>0, StaysTried
<1>2. ASSUME NEW job, Go(j, job), FairPart(job), job.pc # "idle" PROVE FairInv'
  <2>1. jobs'[j] = job /\ \A i \in Job \ {j} : jobs'[i] = jobs[i]
    BY <1>2, Moves
  <2>2. Whole(job.page, job.row) => Whole(job.page, job.row)'
    BY <1>1
  <2>3. FairPart(jobs[j])'
    BY <1>2, <2>1, <2>2 DEF FairPart
  <2> QED
    BY <1>0, <2>1, <2>3, FairMoves
<1>3. CASE Load(j)
  <2>1. ASSUME Triggered(jobs[j].page), Go(j, [jobs[j] EXCEPT !.pc = "check", !.row = pages[jobs[j].page]])
        PROVE  FairInv'
    <3>1. PICK job : job = [jobs[j] EXCEPT !.pc = "check", !.row = pages[jobs[j].page]]
      OBVIOUS
    <3>2. job.pc = "check" /\ job.page = jobs[j].page /\ job.row = pages[job.page]
      BY <1>0, <3>1 DEF JobRecord
    <3>3. Whole(job.page, job.row)
      BY <1>0, <1>3, <2>1, <3>2 DEF FairInv, Load, At, Shaped, PagePC
    <3>4. Go(j, job)
      BY <2>1, <3>1 DEF Go
    <3> QED
      BY <1>2, <3>2, <3>3, <3>4 DEF FairPart
  <2>2. ASSUME Finish(j) PROVE FairInv'
    <3>1. FairPart(jobs[j])' /\ \A i \in Job \ {j} : jobs'[i] = jobs[i]
      BY <2>2, Finishes DEF FairPart
    <3> QED
      BY <1>0, <3>1, FairMoves
  <2> QED
    BY <1>3, <2>1, <2>2 DEF Load
<1>4. CASE Check(j)
  <2>1. ASSUME NEW pc \in {"resolve", "exhaust"}, Go(j, [jobs[j] EXCEPT !.pc = pc])
        PROVE  FairInv'
    <3>1. PICK job : job = [jobs[j] EXCEPT !.pc = pc]
      OBVIOUS
    <3>2. Go(j, job) /\ job.pc = pc
      BY <1>0, <2>1, <3>1 DEF Go, JobRecord
    <3> QED
      BY <1>2, <3>2 DEF FairPart
  <2>2. ASSUME jobs[j].row.age >= Delay[jobs[j].row.level], Go(j, [jobs[j] EXCEPT !.pc = "advance"])
        PROVE  FairInv'
    <3>1. PICK job : job = [jobs[j] EXCEPT !.pc = "advance"]
      OBVIOUS
    <3>2. Go(j, job) /\ job.pc = "advance" /\ job.page = jobs[j].page /\ job.row = jobs[j].row
      BY <1>0, <2>2, <3>1 DEF Go, JobRecord
    <3> QED
      BY <1>0, <1>2, <1>4, <2>2, <3>2 DEF FairPart, Check, At
  <2>3. ASSUME Go(j, [jobs[j] EXCEPT !.pc = "walk", !.elapsed = jobs[j].row.age,
                                     !.todo = jobs[j].row.targets \X Rule])
        PROVE  FairInv'
    <3>1. PICK job : job = [jobs[j] EXCEPT !.pc = "walk", !.elapsed = jobs[j].row.age,
                                           !.todo = jobs[j].row.targets \X Rule]
      OBVIOUS
    <3>2. Go(j, job) /\ job.pc = "walk"
      BY <1>0, <2>3, <3>1 DEF Go, JobRecord
    <3> QED
      BY <1>2, <3>2 DEF FairPart
  <2> QED
    BY <1>4, <2>1, <2>2, <2>3 DEF Check
<1> QED
  BY <1>3, <1>4

\* advanceLevel: what lies before the next level is what lay before this one,
\* and this one, which is over.
LEMMA AdvanceFair ==
  ASSUME TypeInv, FairInv, NEW j \in Job, NobodyAcknowledged(j) \/ Advance(j)
  PROVE  FairInv'
<1> DEFINE p == jobs[j].page
           row == jobs[j].row
<1>0. /\ jobs[j] \in JobRecord /\ FairPart(jobs[j]) /\ jobs[j].pc = "advance"
      /\ pages \in [Page -> Row] /\ attempts' = attempts /\ levels' = levels /\ levels = MaxLevels
      /\ Go(j, [jobs[j] EXCEPT !.pc = "load"])
  BY DEF TypeInv, TypeOK, FairInv, NobodyAcknowledged, Advance, At
<1>1. p \in Page /\ row \in Row /\ row.level \in Level /\ row.cycle \in Cycle
  BY <1>0 DEF TypeInv, Shaped, PagePC, JobRecord, Row
<1>2. /\ Tried(p, row.cycle, row.level)
      /\ \A c \in Cycle, l \in Level : Before(c, l, row) => Tried(p, c, l)
  BY <1>0, <1>1, LevelTried DEF FairPart, Whole
<1>3. FairPart(jobs[j])' /\ \A i \in Job \ {j} : jobs'[i] = jobs[i]
  <2>1. jobs'[j].pc = "load"
    BY <1>0, PCAfter
  <2> QED
    BY <1>0, <2>1, Moves DEF FairPart
<1>4. CASE NobodyAcknowledged(j)
  <2>0. row.level + 1 >= MaxLevels /\ ~(row.cycle < RepeatCount)
    BY <1>0, <1>4 DEF NobodyAcknowledged, PastLast, PassesLeft
  <2>1. \A c \in Cycle, l \in Level : Before(c, l, row) \/ (c = row.cycle /\ l = row.level)
    <3> HIDE DEF row
    <3> QED
      BY <1>1, <2>0 DEF Before, Cycle, Level
  <2>2. \A c \in Cycle, l \in Level : Tried(p, c, l)
    BY <1>2, <2>1
  <2>3. announced' = announced \cup {p} /\ SetStatus(p, "exhausted")
    BY <1>4 DEF NobodyAcknowledged
  <2>4. \A q \in Page : Triggered(q)' => pages'[q] = pages[q]
    BY <1>0, <2>3 DEF SetStatus, Triggered, Row
  <2>5. \A q, c, l : Tried(q, c, l) => Tried(q, c, l)'
    BY <1>0, StaysTried
  <2>6. \A q \in announced', c \in Cycle, l \in Level : Tried(q, c, l)'
    <3>1. ASSUME NEW q \in announced', NEW c \in Cycle, NEW l \in Level PROVE Tried(q, c, l)
      BY <2>2, <2>3 DEF FairInv
    <3> QED
      BY <2>5, <3>1
  <2>7. ASSUME NEW q \in Page, Triggered(q)' PROVE Whole(q, pages[q])'
    <3>1. pages'[q] = pages[q] /\ Whole(q, pages[q])
      BY <2>4, <2>7 DEF FairInv, Triggered
    <3>2. PICK r : r = pages[q]
      OBVIOUS
    <3>3. Whole(q, r)'
      BY <1>0, <3>1, <3>2, StaysTried
    <3> QED
      BY <3>1, <3>2, <3>3 DEF Whole
  <2>8. ASSUME NEW i \in Job PROVE FairPart(jobs[i])'
    <3>1. CASE i # j
      <4>1. jobs'[i] = jobs[i] /\ FairPart(jobs[i])
        BY <1>3, <3>1 DEF FairInv
      <4>2. PICK job : job = jobs[i]
        OBVIOUS
      <4>3. Whole(job.page, job.row) => Whole(job.page, job.row)'
        BY <1>0, StaysTried
      <4> QED
        BY <4>1, <4>2, <4>3 DEF FairPart
    <3> QED
      BY <1>3, <3>1
  <2> QED
    BY <1>0, <2>6, <2>7, <2>8 DEF FairInv
<1>5. CASE Advance(j)
  <2>1. PICK targets \in Reaches[NextLevel(row)] :
          pages' = [pages EXCEPT ![p] = [@ EXCEPT !.level = NextLevel(row), !.cycle = NextCycle(row),
                                                  !.age = 0, !.targets = targets]]
    BY <1>5 DEF Advance
  <2>2. /\ pages'[p].level = NextLevel(row) /\ pages'[p].cycle = NextCycle(row)
        /\ pages'[p].age = 0 /\ pages'[p].targets = targets
        /\ \A q \in Page : q # p => pages'[q] = pages[q]
    BY <1>0, <1>1, <2>1 DEF Row
  <2>3. PICK next : next = pages'[p]
    OBVIOUS
  <2>4. \A c \in Cycle, l \in Level :
          Before(c, l, next) => Before(c, l, row) \/ (c = row.cycle /\ l = row.level)
    <3>1. \/ next.level = 0 /\ next.cycle = row.cycle + 1 /\ row.level + 1 >= MaxLevels
          \/ next.level = row.level + 1 /\ next.cycle = row.cycle
      BY <1>0, <2>2, <2>3 DEF NextLevel, NextCycle, PastLast
    <3> HIDE DEF row
    <3> QED
      BY <1>1, <3>1 DEF Before, Cycle, Level
  <2>5. \A r \in Rule : ~(DueAt(r, 0) < 0)
    BY RuleAssumption DEF DueAt
  <2>6. Whole(p, next)
    BY <1>2, <2>1, <2>2, <2>3, <2>4, <2>5 DEF Whole
  <2>7. \A q \in Page : Triggered(q)' => pages'[q] = pages[q] \/ Whole(q, pages[q])'
    <3>1. ASSUME NEW q \in Page, q = p PROVE Whole(q, pages[q])'
      <4>1. Whole(q, next)'
        BY <1>0, <2>6, <3>1, StaysTried
      <4> QED
        BY <2>3, <3>1, <4>1 DEF Whole
    <3> QED
      BY <2>2, <3>1
  <2>8. announced' = announced
    BY <1>5 DEF Advance
  <2> QED
    BY <1>0, <1>3, <2>7, <2>8, FairMoves
<1> QED
  BY <1>4, <1>5

\* A new page has nothing behind it and nothing due before now.
LEMMA InsertFair ==
  ASSUME TypeInv, FairInv, NEW j \in Job, InsertPage(j)
  PROVE  FairInv'
<1>0. /\ pages \in [Page -> Row] /\ attempts' = attempts /\ levels' = levels /\ announced' = announced
  BY DEF TypeInv, TypeOK, InsertPage
<1>1. /\ jobs'[j].pc \notin StalePC /\ \A i \in Job \ {j} : jobs'[i] = jobs[i]
  <2>1. ~Load(j) /\ ~Check(j)
    BY DEF InsertPage, Load, Check, At
  <2> QED
    BY <2>1, OthersLeaveRows, SendStep DEF JobStep, Kept
<1>2. FairPart(jobs[j])'
  BY <1>1 DEF FairPart, StalePC
<1>3. ASSUME NEW p \in Page, NEW targets \in Reaches[0],
             pages' = [pages EXCEPT ![p] = [NoRow EXCEPT !.status = "triggered", !.targets = targets]]
      PROVE  \A q \in Page : Triggered(q)' => pages'[q] = pages[q] \/ Whole(q, pages[q])'
  <2>1. PICK row : row = [NoRow EXCEPT !.status = "triggered", !.targets = targets]
    OBVIOUS
  <2>2. row.level = 0 /\ row.cycle = 0 /\ row.age = 0 /\ row.targets = targets
    BY <2>1 DEF NoRow
  <2>3. /\ pages'[p] = row /\ \A q \in Page : q # p => pages'[q] = pages[q]
    BY <1>0, <1>3, <2>1
  <2>4. \A c \in Cycle, l \in Level : ~Before(c, l, row)
    BY <2>2 DEF Before, Cycle, Level
  <2>5. \A r \in Rule : ~(DueAt(r, 0) < 0)
    BY RuleAssumption DEF DueAt
  <2>6. Whole(p, row)
    BY <2>2, <2>4, <2>5 DEF Whole
  <2>7. Whole(p, row)'
    BY <1>0, <2>6, StaysTried
  <2> QED
    BY <2>3, <2>7 DEF Whole
<1> QED
  BY <1>0, <1>1, <1>2, <1>3, FairMoves DEF InsertPage

\* Time moves on from pages that are settled.
LEMMA TimeFair ==
  ASSUME TypeInv, FairInv, PassTime, \A p \in Page : Triggered(p) => Settled(p), Prompt
  PROVE  FairInv'
<1>0. /\ attempts' = attempts /\ levels' = levels /\ announced' = announced
      /\ pages' = [p \in Page |-> IF Triggered(p) THEN Older(pages[p]) ELSE pages[p]]
      /\ \A j \in Job : jobs[j].pc = "idle"
  BY DEF PassTime, AllIdle, At
<1>1. \A j \in Job : jobs'[j] = jobs[j]
  BY <1>0 DEF PassTime, At
<1>2. \A j \in Job : FairPart(jobs[j])'
  BY <1>0, <1>1 DEF FairPart
<1>3. \A p, c, l : Tried(p, c, l) => Tried(p, c, l)'
  BY <1>0, StaysTried
<1>4. ASSUME NEW p \in Page, Triggered(p)' PROVE Whole(p, pages[p])'
  <2>1. pages[p] \in Row
    BY DEF TypeInv, TypeOK
  <2>2. Triggered(p) /\ pages'[p] = Older(pages[p])
    BY <1>0, <1>4, <2>1 DEF Triggered, Older, Row
  <2>3. PICK row : row = pages'[p]
    OBVIOUS
  <2>4. /\ row.level = pages[p].level /\ row.cycle = pages[p].cycle /\ row.targets = pages[p].targets
        /\ row.age = pages[p].age + 1 \/ row.age = pages[p].age
        /\ pages[p].age \in Int
    BY <2>1, <2>2, <2>3 DEF Older, Row
  <2>5. Whole(p, pages[p]) /\ Settled(p)
    BY <2>2 DEF FairInv
  <2>6. \A r \in Rule : DueAt(r, 0) \in Int
    BY RuleAssumption DEF DueAt
  <2>7. ASSUME NEW u \in row.targets, NEW r \in Rule, DueAt(r, 0) < row.age
        PROVE  AttemptFor(p, row, u, r, 0) \in attempts
    <3>1. AttemptFor(p, pages[p], u, r, 0) \in attempts
      BY <2>4, <2>5, <2>6, <2>7 DEF Settled
    <3> QED
      BY <2>4, <3>1 DEF AttemptFor
  <2>8. Whole(p, row)
    BY <2>4, <2>5, <2>7 DEF Whole, Before
  <2>9. Whole(p, row)'
    BY <1>0, <2>8, StaysTried
  <2> QED
    BY <2>3, <2>9 DEF Whole
<1>5. \A p \in announced', c \in Cycle, l \in Level : Tried(p, c, l)'
  BY <1>0, <1>3 DEF FairInv
<1> QED
  BY <1>0, <1>2, <1>4, <1>5 DEF FairInv

\* Nobody escalates by hand, or edits the policy, meanwhile.
Undisturbed == ~Edits /\ \A j \in Job : "escalate" \notin May[j]

LEMMA FairStep ==
  ASSUME TypeInv, UpInv, FairInv, Attentive, Undisturbed, [Next]_vars
  PROVE  FairInv'
<1>1. ASSUME NEW j \in Job, JobStart(j) PROVE FairInv'
  <2>1. ~EscalateNow(j)
    BY DEF EscalateNow, Start, Undisturbed
  <2>2. levels' = levels /\ announced' = announced
    BY <1>1 DEF JobStart, Tick, Trigger, Acknowledge, EscalateNow, AutoResolve, Start
  <2>3. FairPart(jobs[j])'
    BY <1>1, <2>1, Starts DEF FairPart
  <2> QED
    BY <1>1, <2>2, <2>3, Starts, FairMoves
<1>2. ASSUME NEW j \in Job, JobStep(j) PROVE FairInv'
  <2>1. CASE Load(j) \/ Check(j) \/ NobodyAcknowledged(j) \/ Advance(j) \/ InsertPage(j)
    BY <2>1, ReadFair, AdvanceFair, InsertFair
  <2>2. CASE ~(Load(j) \/ Check(j) \/ NobodyAcknowledged(j) \/ Advance(j) \/ InsertPage(j))
    <3>1. FairPart(jobs[j])' /\ \A i \in Job \ {j} : jobs'[i] = jobs[i]
      BY <1>2, <2>2, OthersLeaveRows, SendStep DEF Kept, FairPart, StalePC
    <3>2. attempts \subseteq attempts' /\ levels' = levels /\ announced' = announced
      BY <1>2, <2>2 DEF JobStep, NextPage, Resolve, Exhaust, Walk, Recheck, Deliver, RecordAttempt,
         PolicyGone, SetAcknowledged, ReadTicket, TakeTicket, ListOpenPages, SettlePage
    <3> QED
      BY <1>2, <2>2, <3>1, <3>2, StepKeepsRows, FairMoves
  <2> QED
    BY <2>1, <2>2
<1>3. ASSUME NEW j \in Job, Crash(j) PROVE FALSE
  BY <1>3 DEF Crash, TypeInv, TypeOK, Attentive
<1>4. CASE UNCHANGED vars
  BY <1>4 DEF vars, FairInv, FairPart, Whole, Tried, Triggered
<1>5. CASE PassTime
  BY <1>5, TimeCatches, TimeFair DEF Attentive
<1>6. ~EditPolicy /\ ~EditTicket
  BY DEF EditPolicy, EditTicket, Undisturbed
<1> QED
  BY <1>1, <1>2, <1>3, <1>4, <1>5, <1>6 DEF Next

\* A page is called exhausted with nobody acknowledging only after everyone its
\* policy reaches was tried at every level of every pass (advanceLevel), while
\* nobody edits the policy or hurries the page on.
THEOREM ExhaustedAfterAll == Attentive /\ Undisturbed /\ Spec => []ExhaustsFairly
<1> SUFFICES ASSUME Attentive, Undisturbed PROVE Spec => []ExhaustsFairly
  OBVIOUS
<1>1. Init => FairInv
  BY DEF Init, FairInv, FairPart, Triggered, Idle, NoRow
<1>2. TypeInv /\ UpInv /\ FairInv /\ [Next]_vars => FairInv'
  BY FairStep
<1>3. FairInv => ExhaustsFairly
  BY DEF FairInv, ExhaustsFairly, Tried
<1>4. Spec => []UpInv
  BY CatchUpInvariant
<1> QED
  BY <1>1, <1>2, <1>3, <1>4, TypeInvariant, PTL DEF Spec
=============================================================================
