------------------------------- MODULE Pager --------------------------------
(***************************************************************************)
(* The pager (server/ops/pager.ts): pages about one ticket, the handlers   *)
(* that walk them up an escalation policy, and the notifications sent.     *)
(*                                                                         *)
(* A handler is an async function.  It reads and writes the database one   *)
(* statement at a time, and other handlers - in this process or another -  *)
(* run between two of them, so a handler here is a job with a program      *)
(* counter and its own copies of the rows it has read.  Reads of the       *)
(* configuration (settings, policy, rules) are merged with the statement   *)
(* that depends on them; reads of pages, tickets and attempts are not.     *)
(*                                                                         *)
(* A row keeps its age, now - level_started_at, instead of the start.      *)
(***************************************************************************)
EXTENDS Integers, FiniteSets

CONSTANTS
  Page,         \* ids for pages about the ticket
  Job,          \* handlers that may run at the same time
  May,          \* the operations each of them runs
  User,
  None,         \* no page, no user, no attempt
  Rule,         \* the notification rules for the page's urgency
  CallChannel,  \* CALL_CHANNELS
  VoiceMaxCalls,
  VoiceRepeat,  \* voiceRepeatMins
  MaxLevels,    \* bound: the most levels a policy has
  Delay,        \* delayMins of each level
  MaxAge,       \* bound: the age up to which a row's level is timed
  Reaches,      \* what resolveTargets may return for each level
  RepeatCount,  \* policy.repeatCount
  MaxCrashes,   \* bound: handlers lost to a crash
  Edits,        \* whether the policy and the ticket are edited meanwhile
  Prompt        \* whether time waits for handlers and for the pager's pass

Op == {"tick", "trigger", "acknowledge", "escalate", "autoResolve"}
Status == {"none", "triggered", "acknowledged", "resolved", "exhausted"}
Level == 0 .. MaxLevels - 1
Cycle == 0 .. RepeatCount

ASSUME NoneAssumption == None \notin Page \cup User
ASSUME JobAssumption == May \in [Job -> SUBSET Op]
ASSUME RuleAssumption == \A r \in Rule : r = [channel |-> r.channel, delay |-> r.delay] /\ r.delay \in Nat
ASSUME NumberAssumption ==
  /\ VoiceMaxCalls \in Nat \ {0}
  /\ VoiceRepeat \in Nat \ {0}
  /\ MaxLevels \in Nat \ {0}
  /\ RepeatCount \in Nat
  /\ MaxCrashes \in Nat
  /\ Edits \in BOOLEAN
  /\ Prompt \in BOOLEAN
ASSUME PolicyAssumption ==
  /\ MaxAge \in Nat
  /\ Delay \in [Level -> 1 .. MaxAge]
  /\ Reaches \in [Level -> SUBSET SUBSET User]
  /\ \A l \in Level : Reaches[l] # {}

VARIABLES
  pages,      \* the pages table
  attempts,   \* the notification_attempts table, by what an attempt is for
  ticket,     \* the ticket's status and assignee
  levels,     \* how many levels the policy has; 0 when it is gone
  jobs,       \* the handlers in progress
  sent,       \* how often each notification has been sent (history)
  late,       \* what was sent about a page that no longer escalates (history)
  announced,  \* pages announced as exhausted with nobody acknowledging
  crashes,
  passed      \* a pass of the pager has ended since time last moved

vars == <<pages, attempts, ticket, levels, jobs, sent, late, announced, crashes, passed>>
unsent == <<sent, late>>

Row == [status : Status, level : Level, cycle : Cycle, age : 0 .. MaxAge,
        targets : SUBSET User, by : User \cup {None}]
Channel == {r.channel : r \in Rule}
Attempt == [page : Page, cycle : Cycle, level : Level, user : User,
            channel : Channel, seq : 0 .. VoiceMaxCalls - 1]
Ticket == [status : {"open", "in_progress", "closed"}, assignee : User \cup {None}]

NoRow == [status |-> "none", level |-> 0, cycle |-> 0, age |-> 0, targets |-> {}, by |-> None]
Idle == [op |-> "none", pc |-> "idle", page |-> None, row |-> NoRow, queue |-> {},
         elapsed |-> 0, todo |-> {}, attempt |-> None, by |-> None,
         seen |-> [status |-> "closed", assignee |-> None]]

PC == {"idle", "next", "load", "check", "resolve", "exhaust", "advance", "walk", "recheck",
       "deliver", "record", "insert", "ackset", "ackread", "ackticket", "list", "settle"}

JobRecord ==
  [op : Op \cup {"none"}, pc : PC, page : Page \cup {None}, row : Row, queue : SUBSET Page,
   elapsed : 0 .. MaxAge, todo : SUBSET (User \X Rule), attempt : Attempt \cup {None},
   by : User \cup {None}, seen : Ticket]

TypeOK ==
  /\ pages \in [Page -> Row]
  /\ attempts \subseteq Attempt
  /\ ticket \in Ticket
  /\ levels \in 0 .. MaxLevels
  /\ jobs \in [Job -> JobRecord]
  /\ sent \in [Attempt -> Nat] /\ late \subseteq Attempt
  /\ announced \subseteq Page
  /\ crashes \in 0 .. MaxCrashes
  /\ passed \in BOOLEAN

Init ==
  /\ pages = [p \in Page |-> NoRow]
  /\ attempts = {}
  /\ ticket = [status |-> "open", assignee |-> None]
  /\ levels = MaxLevels
  /\ jobs = [j \in Job |-> Idle]
  /\ sent = [k \in Attempt |-> 0] /\ late = {}
  /\ announced = {}
  /\ crashes = 0
  /\ passed = FALSE

Triggered(p) == pages[p].status = "triggered"
Terminal == ticket.status = "closed"

Go(j, changes) == jobs' = [jobs EXCEPT ![j] = changes]
At(j, pc) == jobs[j].pc = pc

\* A job that has finished with its page: a pass goes on to its next page.
Finish(j) ==
  Go(j, IF jobs[j].op = "tick" THEN [Idle EXCEPT !.op = "tick", !.pc = "next", !.queue = jobs[j].queue]
                               ELSE Idle)

Start(j, op, job) ==
  /\ At(j, "idle")
  /\ op \in May[j]
  /\ Go(j, job)
  /\ UNCHANGED <<pages, attempts, levels, unsent, announced, crashes, passed>>

-----------------------------------------------------------------------------
(* pagerTick: one pass over the pages still escalating. *)

Tick(j) ==
  /\ Start(j, "tick", [Idle EXCEPT !.op = "tick", !.pc = "next", !.queue = {p \in Page : Triggered(p)}])
  /\ UNCHANGED ticket

NextPage(j) ==
  /\ At(j, "next")
  /\ \/ \E p \in jobs[j].queue :
          /\ Go(j, [jobs[j] EXCEPT !.pc = "load", !.page = p, !.queue = @ \ {p}])
          /\ UNCHANGED passed
     \/ /\ jobs[j].queue = {}
        /\ Go(j, Idle)
        /\ passed' = TRUE
  /\ UNCHANGED <<pages, attempts, ticket, levels, unsent, announced, crashes>>

-----------------------------------------------------------------------------
(* processPage *)

Load(j) ==
  /\ At(j, "load")
  /\ IF Triggered(jobs[j].page)
       THEN Go(j, [jobs[j] EXCEPT !.pc = "check", !.row = pages[jobs[j].page]])
       ELSE Finish(j)
  /\ UNCHANGED <<pages, attempts, ticket, levels, unsent, announced, crashes, passed>>

\* The ticket, the policy and the time, against the row as it was loaded.
Check(j) ==
  LET job == jobs[j]
      elapsed == job.row.age
      LevelExists == job.row.level < levels
      LevelOver == elapsed >= Delay[job.row.level]
  IN
  /\ At(j, "check")
  /\ \/ /\ Terminal
        /\ Go(j, [job EXCEPT !.pc = "resolve"])
     \/ /\ ~Terminal /\ ~LevelExists
        /\ Go(j, [job EXCEPT !.pc = "exhaust"])
     \/ /\ ~Terminal /\ LevelExists /\ LevelOver
        /\ Go(j, [job EXCEPT !.pc = "advance"])
     \/ /\ ~Terminal /\ LevelExists /\ ~LevelOver
        /\ Go(j, [job EXCEPT !.pc = "walk", !.elapsed = elapsed, !.todo = job.row.targets \X Rule])
  /\ UNCHANGED <<pages, attempts, ticket, levels, unsent, announced, crashes, passed>>

\* setStatus: an UPDATE that does not look at the status it replaces.
SetStatus(p, status) == pages' = [pages EXCEPT ![p].status = status]

Resolve(j) ==
  /\ At(j, "resolve")
  /\ SetStatus(jobs[j].page, "resolved")
  /\ Finish(j)
  /\ UNCHANGED <<attempts, ticket, levels, unsent, announced, crashes, passed>>

Exhaust(j) ==
  /\ At(j, "exhaust")
  /\ SetStatus(jobs[j].page, "exhausted")
  /\ Finish(j)
  /\ UNCHANGED <<attempts, ticket, levels, unsent, announced, crashes, passed>>

\* attemptExists: the earliest attempt of a rule that is due and not recorded.
DueAt(r, seq) == r.delay + (IF r.channel \in CallChannel THEN seq * VoiceRepeat ELSE 0)
Seqs(r) == IF r.channel \in CallChannel THEN 0 .. VoiceMaxCalls - 1 ELSE {0}
AttemptFor(p, row, u, r, seq) ==
  [page |-> p, cycle |-> row.cycle, level |-> row.level, user |-> u, channel |-> r.channel, seq |-> seq]

\* Mutants: nothing looks at the record; due a minute late; only the last call
\* that is due.
MissingAgain(j, u, r) == {seq \in Seqs(r) : DueAt(r, seq) <= jobs[j].elapsed}
MissingLate(j, u, r) ==
  {seq \in Seqs(r) : /\ DueAt(r, seq) < jobs[j].elapsed
                     /\ AttemptFor(jobs[j].page, jobs[j].row, u, r, seq) \notin attempts}
MissingNewest(j, u, r) ==
  {seq \in MissingAgain(j, u, r) : /\ \A s \in MissingAgain(j, u, r) : s <= seq
                                   /\ AttemptFor(jobs[j].page, jobs[j].row, u, r, seq) \notin attempts}

Missing(j, u, r) ==
  {seq \in Seqs(r) : /\ DueAt(r, seq) <= jobs[j].elapsed
                     /\ AttemptFor(jobs[j].page, jobs[j].row, u, r, seq) \notin attempts}

Walk(j) ==
  /\ At(j, "walk")
  /\ \/ \E x \in jobs[j].todo :
          LET left == [jobs[j] EXCEPT !.todo = @ \ {x}]
              missing == Missing(j, x[1], x[2])
          IN \/ /\ missing = {}
                /\ Go(j, left)
             \/ \E seq \in missing :
                  /\ \A s \in missing : seq <= s
                  /\ Go(j, [left EXCEPT !.pc = "recheck",
                              !.attempt = AttemptFor(jobs[j].page, jobs[j].row, x[1], x[2], seq)])
     \/ /\ jobs[j].todo = {}
        /\ Finish(j)
  /\ UNCHANGED <<pages, attempts, ticket, levels, unsent, announced, crashes, passed>>

\* Mutant: the status is not read again.
RecheckNever(j) ==
  /\ At(j, "recheck")
  /\ Go(j, [jobs[j] EXCEPT !.pc = "deliver"])
  /\ UNCHANGED <<pages, attempts, ticket, levels, unsent, announced, crashes, passed>>

\* An acknowledgement may have landed mid-loop.
Recheck(j) ==
  /\ At(j, "recheck")
  /\ IF Triggered(jobs[j].page)
       THEN Go(j, [jobs[j] EXCEPT !.pc = "deliver"])
       ELSE Finish(j)
  /\ UNCHANGED <<pages, attempts, ticket, levels, unsent, announced, crashes, passed>>

\* deliver: sends, or fails and says so; the attempt is recorded either way.
Deliver(j) ==
  LET k == jobs[j].attempt
  IN
  /\ At(j, "deliver")
  /\ sent' = [sent EXCEPT ![k] = @ + 1]
  /\ late' = IF Triggered(k.page) THEN late ELSE late \cup {k}
  /\ Go(j, [jobs[j] EXCEPT !.pc = "record"])
  /\ UNCHANGED <<pages, attempts, ticket, levels, announced, crashes, passed>>

RecordAttempt(j) ==
  /\ At(j, "record")
  /\ attempts' = attempts \cup {jobs[j].attempt}
  /\ Go(j, [jobs[j] EXCEPT !.pc = "walk", !.attempt = None])
  /\ UNCHANGED <<pages, ticket, levels, unsent, announced, crashes, passed>>

-----------------------------------------------------------------------------
(* advanceLevel, from the row its caller loaded; then processPage again. *)

PastLast(row) == row.level + 1 >= levels

\* Mutants: one pass short; the passes are not counted.
PassesLeftShort(row) == row.cycle + 1 < RepeatCount
NextCycleStays(row) == row.cycle

PassesLeft(row) == row.cycle < RepeatCount
NextLevel(row) == IF PastLast(row) THEN 0 ELSE row.level + 1
NextCycle(row) == IF PastLast(row) THEN row.cycle + 1 ELSE row.cycle

PolicyGone(j) ==
  /\ At(j, "advance")
  /\ levels = 0
  /\ SetStatus(jobs[j].page, "exhausted")
  /\ Go(j, [jobs[j] EXCEPT !.pc = "load"])
  /\ UNCHANGED <<attempts, ticket, levels, unsent, announced, crashes, passed>>

\* Nobody acknowledged any pass: the page stops and everyone hears about it.
NobodyAcknowledged(j) ==
  /\ At(j, "advance")
  /\ levels > 0 /\ PastLast(jobs[j].row) /\ ~PassesLeft(jobs[j].row)
  /\ SetStatus(jobs[j].page, "exhausted")
  /\ announced' = announced \cup {jobs[j].page}
  /\ Go(j, [jobs[j] EXCEPT !.pc = "load"])
  /\ UNCHANGED <<attempts, ticket, levels, unsent, crashes, passed>>

Advance(j) ==
  LET row == jobs[j].row
  IN
  /\ At(j, "advance")
  /\ levels > 0
  /\ PastLast(row) => PassesLeft(row)
  /\ \E targets \in Reaches[NextLevel(row)] :
       pages' = [pages EXCEPT ![jobs[j].page] =
                   [@ EXCEPT !.level = NextLevel(row), !.cycle = NextCycle(row), !.age = 0, !.targets = targets]]
  /\ Go(j, [jobs[j] EXCEPT !.pc = "load"])
  /\ UNCHANGED <<attempts, ticket, levels, unsent, announced, crashes, passed>>

-----------------------------------------------------------------------------
(* triggerPage *)

\* Bound: a page may be triggered while an id is left for it.
IdsLeft == Cardinality({p \in Page : pages[p].status = "none"}) > Cardinality({j \in Job : At(j, "insert")})

\* Mutant: nothing looks for another page.
MayTriggerAgain == IdsLeft

\* No page of the ticket is escalating.
MayTrigger == IdsLeft /\ ~\E p \in Page : Triggered(p)

Trigger(j) ==
  /\ MayTrigger
  /\ Start(j, "trigger", [Idle EXCEPT !.op = "trigger", !.pc = "insert"])
  /\ UNCHANGED ticket

\* The policy may be gone or empty; then nobody is paged.
InsertPage(j) ==
  /\ At(j, "insert")
  /\ \/ /\ levels = 0
        /\ Go(j, Idle)
        /\ UNCHANGED pages
     \/ /\ levels > 0
        /\ \E p \in Page, targets \in Reaches[0] :
             /\ pages[p].status = "none"
             /\ pages' = [pages EXCEPT ![p] = [NoRow EXCEPT !.status = "triggered", !.targets = targets]]
             /\ Go(j, [jobs[j] EXCEPT !.pc = "load", !.page = p])
  /\ UNCHANGED <<attempts, ticket, levels, unsent, announced, crashes, passed>>

-----------------------------------------------------------------------------
(* acknowledgePage *)

\* Mutant: a resolved page can be acknowledged too.
MayAcknowledgeAny(p) == pages[p].status # "none"

MayAcknowledge(p) == pages[p].status \in {"triggered", "exhausted"}

Acknowledge(j) ==
  /\ \E p \in Page, u \in User :
       /\ MayAcknowledge(p)
       /\ Start(j, "acknowledge", [Idle EXCEPT !.op = "acknowledge", !.pc = "ackset", !.page = p, !.by = u])
  /\ UNCHANGED ticket

SetAcknowledged(j) ==
  /\ At(j, "ackset")
  /\ pages' = [pages EXCEPT ![jobs[j].page] = [@ EXCEPT !.status = "acknowledged", !.by = jobs[j].by]]
  /\ Go(j, [jobs[j] EXCEPT !.pc = "ackread"])
  /\ UNCHANGED <<attempts, ticket, levels, unsent, announced, crashes, passed>>

ReadTicket(j) ==
  /\ At(j, "ackread")
  /\ Go(j, [jobs[j] EXCEPT !.pc = "ackticket", !.seen = ticket])
  /\ UNCHANGED <<pages, attempts, ticket, levels, unsent, announced, crashes, passed>>

\* Only the columns that were empty or open when the ticket was read.
TakeTicket(j) ==
  LET seen == jobs[j].seen
  IN
  /\ At(j, "ackticket")
  /\ ticket' = [status |-> IF seen.status = "open" THEN "in_progress" ELSE ticket.status,
                assignee |-> IF seen.assignee = None THEN jobs[j].by ELSE ticket.assignee]
  /\ Go(j, Idle)
  /\ UNCHANGED <<pages, attempts, levels, unsent, announced, crashes, passed>>

-----------------------------------------------------------------------------
(* escalateNow *)

MayEscalate(p) == Triggered(p)

EscalateNow(j) ==
  /\ \E p \in Page :
       /\ MayEscalate(p)
       /\ Start(j, "escalate", [Idle EXCEPT !.op = "escalate", !.pc = "advance", !.page = p, !.row = pages[p]])
  /\ UNCHANGED ticket

-----------------------------------------------------------------------------
(* The alert pipeline resolves the ticket and calls resolvePagesForTicket. *)

AutoResolve(j) ==
  /\ ~Terminal
  /\ ticket' = [ticket EXCEPT !.status = "closed"]
  /\ Start(j, "autoResolve", [Idle EXCEPT !.op = "autoResolve", !.pc = "list"])

ListOpenPages(j) ==
  /\ At(j, "list")
  /\ Go(j, [jobs[j] EXCEPT !.pc = "settle", !.queue = {p \in Page : Triggered(p)}])
  /\ UNCHANGED <<pages, attempts, ticket, levels, unsent, announced, crashes, passed>>

SettlePage(j) ==
  /\ At(j, "settle")
  /\ \/ \E p \in jobs[j].queue :
          /\ SetStatus(p, "resolved")
          /\ Go(j, [jobs[j] EXCEPT !.queue = @ \ {p}])
     \/ /\ jobs[j].queue = {}
        /\ Go(j, Idle)
        /\ UNCHANGED pages
  /\ UNCHANGED <<attempts, ticket, levels, unsent, announced, crashes, passed>>

-----------------------------------------------------------------------------
(* The environment. *)

\* A person edits or deletes the policy.
EditPolicy ==
  /\ Edits
  /\ levels' \in 0 .. MaxLevels
  /\ UNCHANGED <<pages, attempts, ticket, jobs, unsent, announced, crashes, passed>>

\* A person closes the ticket, which leaves its pages alone, or reopens it.
EditTicket ==
  /\ Edits
  /\ \E status \in {"open", "closed"} :
       /\ status # ticket.status
       /\ ticket' = [ticket EXCEPT !.status = status]
  /\ UNCHANGED <<pages, attempts, levels, jobs, unsent, announced, crashes, passed>>

\* The process dies, or a statement throws: what the handler knew is gone, what
\* it wrote is not.  pagerTick catches what a page throws and goes on.
Crash(j) ==
  /\ ~At(j, "idle")
  /\ crashes < MaxCrashes
  /\ crashes' = crashes + 1
  /\ Go(j, Idle) \/ Finish(j)
  /\ UNCHANGED <<pages, attempts, ticket, levels, unsent, announced, passed>>

Older(row) == IF row.age < MaxAge THEN [row EXCEPT !.age = @ + 1] ELSE row

AllIdle == \A j \in Job : At(j, "idle")

PassTime ==
  /\ Prompt => passed /\ AllIdle
  /\ passed' = FALSE
  /\ pages' = [p \in Page |-> IF Triggered(p) THEN Older(pages[p]) ELSE pages[p]]
  /\ jobs' = [j \in Job |-> IF At(j, "check") THEN [jobs[j] EXCEPT !.row = Older(@)] ELSE jobs[j]]
  /\ UNCHANGED <<attempts, ticket, levels, unsent, announced, crashes>>

JobStep(j) ==
  \/ NextPage(j)
  \/ Load(j) \/ Check(j) \/ Resolve(j) \/ Exhaust(j)
  \/ Walk(j) \/ Recheck(j) \/ Deliver(j) \/ RecordAttempt(j)
  \/ PolicyGone(j) \/ NobodyAcknowledged(j) \/ Advance(j)
  \/ InsertPage(j)
  \/ SetAcknowledged(j) \/ ReadTicket(j) \/ TakeTicket(j)
  \/ ListOpenPages(j) \/ SettlePage(j)

JobStart(j) == Tick(j) \/ Trigger(j) \/ Acknowledge(j) \/ EscalateNow(j) \/ AutoResolve(j)

Next ==
  \/ \E j \in Job : JobStart(j) \/ JobStep(j) \/ Crash(j)
  \/ EditPolicy
  \/ EditTicket
  \/ PassTime

Spec == Init /\ [][Next]_vars

\* The runner calls pagerTick every PAGER_TICK_MS, a handler runs to its end,
\* and time passes; nobody has to acknowledge, escalate or edit anything.
Fairness ==
  /\ \A j \in Job : WF_vars(Tick(j)) /\ WF_vars(JobStep(j))
  /\ WF_vars(PassTime)

FairSpec == Spec /\ Fairness
=============================================================================
