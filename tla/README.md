# Verification of InfraTicket's operations core

InfraTicket (`src/`) is a help desk with monitoring, alerting, on-call paging,
maintenance windows and backups. It is one Node.js program that may run as
several processes over one SQL database (SQLite, PostgreSQL or MySQL), or as
serverless functions. Everything that has to be right at three in the morning
happens in `server/ops/`: a lease decides which process does the background
work, monitors raise alerts, alerts open incidents, incidents page people, and
people acknowledge. This directory holds TLA+ models of that core and of the
other parts that have a protocol of their own, TLC configurations that check
them on small instances, and TLAPS proofs about them.

## 1. Inventory

| Part | Source | State it keeps | Operations | Talks to |
|---|---|---|---|---|
| Scheduler lease | `server/ops/lease.ts`, `runner.ts` | `leases` row (holder, expires_at); per process `leaderUntil`, `ticking`, `pagerTicking` | renewLease, guarded main and pager loops, runOpsTick (cron request) | pager, monitors, backups, maintenance |
| Pager | `server/ops/pager.ts` | `pages` (status, level, cycle, level_started_at, current_targets), `notification_attempts` | pagerTick, processPage, advanceLevel, triggerPage, acknowledgePage, escalateNow, resolvePagesForTicket | on-call, tickets, channels |
| Alert pipeline | `server/ops/alerts.ts` | `alerts` (status, ticket, suppressed, maintenance_id) | ingestSignal, autoResolveTicket, reraiseAfterMaintenance | routing, maintenance, tickets, pager |
| Monitors | `server/ops/monitors.ts`, `probes.ts` | `monitors` (state, consecutive_failures, next_check_at, pings), daily roll-up | runDueMonitors, checkMonitorNow, recordHeartbeat | alerts |
| Maintenance | `server/ops/maintenance.ts`, `maintenance-tick.ts` | windows, occurrence overrides, `announced` | maintenanceTick, endMaintenanceNow, extendMaintenance, cancel | alerts, status pages |
| On-call | `server/ops/oncall.ts` | schedules, overrides, policies, notification rules | onCallAt, renderShifts, resolveTargets, validateRules | pager |
| Routing | `server/ops/routing.ts` | ordered rules | evaluateRules, reorderRules | alerts |
| Backups | `server/ops/backups.ts`, `cron.ts` | jobs, runs, copies in a folder or bucket | runDueBackups, runBackup, retention | heartbeat monitors |
| Teams calls | `server/ops/teams-calls.ts` | an attempt per call, by external id | call events, tones, hang-up | pager |
| SLA monitor | `server/jobs/sla-monitor.ts` | breach marks on tickets | the sweep, under a lease of its own | tickets, chat |
| Discord Gateway | `server/integrations/discord-gateway.ts` | per process one connection and its session | supervise, connect, resume, stop | lease, Discord |
| Invite links | `server/repositories/invites.ts` | links, numbered uses | claimInviteUse, releaseInviteUse, syncUses | sign-up |
| MCP grants | `server/mcp/auth.ts` | grants, codes, access and refresh tokens | exchange, use, revoke | assistants |
| SQLite queue | `server/db/driver.ts` | the queue of one connection, the async context | run, transaction | everything |
| Tickets | `server/services/`, `repositories/tickets.ts` | tickets, comments, events | create, update, close, reopen | everything |
| Sessions, rate limits | `server/lib/` | session rows, counters | save, destroy, take | HTTP |
| Other integrations, routes, client | `server/integrations`, `routes`, `src/src` | - | - | services |

What is hard here is concurrency through the database. There are no row locks
and almost no transactions: a handler is an async function that reads, decides,
and writes one statement at a time, while timers, web requests, telephone
callbacks and other processes do the same. The lease keeps the *timers* of two
processes apart, but not the requests, and a process can die at any `await`.
`PROJECT.json` lists the places under `hazards`, with the properties that watch
them.

What makes the parts correct:

- **Lease**: at most one leader; a leader's belief is always backed by the row;
  takeover in bounded time; long work never overlaps.
- **Pager**: a notification is sent again only by handlers that overlap or after
  one that died, and calls to a person are in order; an acknowledgement stops it;
  no more pages of a ticket than triggers at once, and one if they do not overlap;
  every page stops; it gives up only after trying everyone.
- **Alerts**: one open alert per key; no firing alert without an incident unless
  held; an incident resolves with its last alert and not before; what a window
  held back is raised when it ends, and nobody is paged for it before.
- **Monitors**: down only after as many bad results as configured; the alert
  follows what is monitored. **Maintenance**: every notice once, and "completed"
  after "in progress". **SLA**: each breach once, unless sweeps overlap, and none
  overlooked.
- **Backups**: the newest can be restored where the job stores; what is pruned
  leaves nothing behind, unless the job has moved to another bucket.
- **On-call, cron, occurrences**: what is worked out is what is meant.
- **Connections**: one instance with a gateway; a prompt once; calls hung up;
  transactions isolated and everybody served. **Invites**: a single-use link is
  used once. **Grants**: withdrawn for good.

## 2. Plan

Done:

1. `Leadership`, `OpsRunner` and proofs.
2. `Escalation`, `Pager` and proofs, up to the refinement.
3. `Incidents`, `Alerts`: ingest, grouping, auto-resolve, raising again after
   maintenance; proofs of its types and invariants and of the refinement.
4. `Monitors`, `Maintenance`, `SlaMonitor`: what the loops owe in the end; proofs
   of what they send once and not too soon.
5. `OnCall`, `Cron`, `Occurrences` over `Calendar`: algorithms against reference
   definitions; proofs that they come to them.
6. `Backups`, `Invites`, `Grants`: handlers that overlap in several processes;
   proofs of their safety.
7. `TeamsCalls`, `Gateway`, `SqliteQueue`: connections; proofs for each.

Left:

1. Compositions: `Pager` with `Alerts` (a ticket acknowledged while its alert
   resolves), `Monitors` with `Alerts` and `Maintenance` in one state. Today
   each meets the other by what it makes of it.
2. Routing conditions, which copies retention keeps by date, the daily roll-up.
3. Proofs: type correctness of the components that have none yet, and what the
   hypotheses of section 5 leave open, such as the pipeline's incidents for
   handlers of different problems.

## 3. Modules

| Module | What it is |
|---|---|
| `Leadership` | Abstract election: a vacancy between any two leaders |
| `OpsRunner`, `OpsRunnerProps` | The lease, statement by statement, the loops, cron requests; properties and refinement |
| `Escalation` | Abstract life of a ticket's pages |
| `Pager`, `PagerProps` | The handlers of the pager, statement by statement; properties and refinement |
| `Incidents` | Abstract incidents: which problems belong to which |
| `Alerts`, `AlertsProps` | The alert pipeline for one source, statement by statement; properties and refinement |
| `Monitors` | One monitor: checks, heartbeats, saves, and the signals it sends |
| `Maintenance` | The notices of a recurring window |
| `SlaMonitor` | The SLA sweep |
| `Backups` | One database's backup runs and their retention |
| `Invites`, `Grants` | One invite link; one grant of an assistant |
| `TeamsCalls` | One Teams call of a page |
| `Gateway` | The Discord Gateway of several instances |
| `SqliteQueue` | The queue in front of the one SQLite connection |
| `OnCall` | Who is on call at a moment, and the shifts of a range |
| `Cron` | nextCronTime, step by step |
| `Occurrences` | When a maintenance window takes place |
| `Calendar` | A small calendar for the last two |
| `MCPagers`, `MCImplements`, `MCOverlap`, `MCChoices`, `MCProgress`, `MCPager`, `MCAlerts` | Instances for TLC |
| `OpsRunnerProofs`, `PagerProofs`, `AlertsProofs`, `IncidentProofs`, `BackupsProofs`, `LoopProofs`, `RequestProofs`, `ChoiceProofs` | Theorems, with proofs for TLAPS |

Throughout, a handler is a record with a program counter and copies of the rows
it has read, and makes one database statement per step. A mutant (a definition
whose comment says so) is used by no action: it shows what its property is about.

### OpsRunner

`acquireLease` is `Insert`, `Update`, `Read`; `renewLease` wraps it in `Begin`
(taking `started`) and `Return` (setting `leaderUntil`), and `Fail` is a
statement that throws, which leaves `leaderUntil` as it was. `now` in
`acquireLease` and `started` in `renewLease` are taken in the same turn of the
event loop and are one moment in the model. Times are stored relative to the
present (`expiresIn`, `leaderFor`, and each renewal's `age`), so the state space
is finite without a horizon; `Tick` moves the present. The row is kept only
down to `-(MaxStall + 2)`, below which no comparison changes. Clocks of
different processes are assumed to agree. The first renewal three seconds
after start-up is a renewal by the timer at some phase (`Init` lets each
process's timer start at any phase). A process that restarts has a new `HOLDER`
and is a new instance.

Overlapping renewals of one process are possible in the code (the timer is not
guarded): the runs and the hypotheses of the theorems (`OneCallPerProcess`) have
one renewal at a time in each process.

### Pager

`Tick` is the SELECT of `pagerTick`; `Load`, `Check`, `Walk`, `Recheck`,
`Deliver` and `RecordAttempt` are `processPage`; `PolicyGone`,
`NobodyAcknowledged` and `Advance` are `advanceLevel`, followed by `processPage`
again. `Trigger` and `InsertPage` are `triggerPage`; `Acknowledge`,
`SetAcknowledged`, `ReadTicket` and `TakeTicket` are `acknowledgePage`;
`EscalateNow` enters `advanceLevel` with the row it read; `AutoResolve`,
`ListOpenPages` and `SettlePage` are `autoResolveTicket` and
`resolvePagesForTicket`. `EditPolicy` and `EditTicket` are people. The reads of
`attemptExists` for one rule are one step: attempts are only ever added, so the
answer is the one at the last of those reads.

Not in the model: comments, events, watchers, the chat channel's one post per
pass, `sendTestPage`, whether a provider accepted a message (a failed delivery
is recorded like a successful one), people deactivated meanwhile, and the limit
of 200 pages per pass. `sent` (how often each notification was delivered), `late`
and `passed` are history: they record what was sent and are read by properties
only (`passed` also lets `Prompt` hold time back until a pass has ended).

`advanceLevel` computes the next level and pass from the row its caller loaded,
so of two handlers the slower can move a page back; the model does so too.

### Alerts

`Fire` and `Clear` are a signal coming in; `Lookup` is the search for an open
alert with its key, with the routing that follows when there is none; `Check`
and `End` deal with a ticket somebody closed under a firing alert; `Insert`,
`Group`, `Join`, `CreateTicket`, `Attach` and `TriggerPage` are the rest of
`ingestSignal`. `ResolveAlert`, `Count`, `Look`, `CloseTicket` and `SettlePages`
are a signal that clears and `autoResolveTicket`. `Reraise`, `NextHeld`,
`Still`, `Release`, `Ask` and `Requeue` are `maintenanceTick` calling
`reraiseAfterMaintenance`; after `Requeue` the alert goes through `Lookup` again,
inside the same job. `EditTicket` closes or reopens a ticket, as people do, and
`Calm` says whether people and windows wait for handlers to finish. `Undisturbed`
is every action but `Crash`.

A routing rule is the set of outcomes `routeSignal` may have for a key
(`Routes`): dropped or not, ticket only or not, a severity that pages or not, a
policy or none, a department. A window is active or not; when that is, is
module `Occurrences`. Paging is only whether a ticket has a page escalating and
which alerts `triggerPage` was called for (`pagedFor`, which with an alert's
`quiet` is history for the properties). Not in the model: counts, payloads,
comments, tags, the 15 minutes after which an incident is no longer joined
(`Group` may join or not), tickets that are deleted, and merging.
`ForgetAlert` and `ForgetTicket` are not code: they let a new row take the id of
one that no handler and no other row refers to, so that behaviours go on
without end over few ids.

### Monitors

One monitor, probed or a heartbeat. `Tick` is `runDueMonitors` taking it,
`Claim` its UPDATE of `next_check_at`, `Probe` the check (which takes
seconds: anything may happen before `Touch` and `Store`, `recordResult`);
`CheckNow` skips the claim; `Heartbeat` is a ping or a job's report of failure.
`Signal` hands the alert pipeline a signal, whose outcome is `alert`. `Save` is
an administrator who changes the threshold or enables and disables the monitor;
`Toggle` and `BecomesLate` are what is monitored. `Abort` is a handler that dies
or throws. `streak` is history. The daily roll-up, deletion and database health
are left out.

### Maintenance

One published window; an occurrence's `phase` moves forward by `Advance`, and
`EndNow`, `Skip` and `Cancel` are people. `Read` to `Send` are
`maintenanceTick`: read the window, expand it, read the cancelled ones, and for
each notice that is due mark it in `announced` (a read and a write of the whole
column, `MarkRead` and `MarkWrite`) before it is sent. A ticker that dies starts
again from its loop. The 48 hours a tick looks back and the 30 days `announced`
is kept are taken as longer than anything else.

### SlaMonitor

A sweep is one of a process's `Entry`: its timer's, which its flag `running`
keeps to one at a time, or that of a request to `/api/cron/sla`, which looks at no
flag. `Start` takes the lease under the name of the process, so a second sweep of
the same process gets it too; `Lapse` may come while a sweep is at work, and then
another process gets it. `Select` reads a batch of open tickets past their due
date that are not marked for it, `Mark` and `Announce` go through it row by row,
and a full batch is followed by another. `MoveDue` gives a ticket a new due date
(which re-arms it), `SetOpen` closes or reopens it, `Passes` is time. `shared`,
the tickets that two sweeps have had in hand at once, is history.

### Backups

`RunDue` and `BackUpNow` start a run; `Insert`, `Dump`, `Record`, `Beat` are
`runBackup`; `List`, `Delete`, `Mark` its retention; `Throw` is a statement that
throws, caught where the code catches it (`Fail`, `Report`), and `Crash` the
process. `SaveJob` moves the job between a folder and any of several buckets
(`Place`). A run keeps the copy of the job it began with. Retention leaves a copy
in a bucket alone while its job stores in the folder (`Deletable`); otherwise it
deletes the key in that job's bucket (`DeletedAt`), which succeeds also if the copy
is in another one (`left`, history). `Restorable` is `openDecryptedBackup`, which
fetches a copy from the folder by its path, and one in a bucket through the job as
it is now. Which older runs the dates keep is any choice that keeps the newest
(`Keep`). `running` is per process.

### Invites and Grants

`Invites`: `Claim` checks the link's status, `Count`, `Insert` and `Won` are one
attempt of `claimInviteUse` (an insert of a number that is taken does nothing,
and the claim tries again), `Sync` and `Write` are
`syncUses`, `Create` the account, `Release` what follows when that fails.
`Grants`: `Exchange`, `CheckGrant`, `Use`, `IssueAccess` and `IssueRefresh` are
the token endpoint for a code or a refresh token, `Disconnect`, `RevokeGrant` and
`RevokeTokens` a revocation, `Call` and `Resolve` a call with an access token.
Expiry is left out: it only takes away.

### TeamsCalls, Gateway, SqliteQueue

`TeamsCalls`: `Place` is the pager's look at the page before it delivers, `Create`
Microsoft creating the call, `RecordAttempt` the row (the call exists before it
does), `Answer`, `Press` and `EndCall` the person who is called. Events go into a
set that a `Receive` takes from in any order, and may leave them there to come
again. `Acknowledge`, `MarkLatest`, `ListCalls` and `HangUpForPage` are
`acknowledgePage` as far as calls go; its filter for calls of the last half hour is
left out, as the one call is recent. `LoseAttempt` is a request that times out
after the call was created, which is recorded as failed and so is never selected
for a hang-up, or a process that dies before it records; `AckFails` and
`HandlerFails` are a hang-up that fails, which nobody repeats, or a process that
dies. `lost` says that one of these took the call out of reach.

`Gateway`: `Supervise` is the timer's pass up to its lease, `Lease` the rest;
`Fetched`, `Greet`, `Ready`, `InvalidSession`, `MissedBeat`, `Close` and
`ReconnectAsked` the life of a socket, with a session that may be resumed;
`CloseFatal` the codes after which the configuration is given up. `stray` is a
connection under way that `stop()` found no socket of; in `StrayMoves` it opens,
or Discord ends it. A socket that gets no Hello has no timeout, in the code or
here.

`SqliteQueue`: `Ask` is a request that calls `run` or `transaction`; `Write` and
`Begin` are its turn; `WriteInside`, `Nest` and `Unnest` run in the async context
of the open transaction and do not wait; `Commit` and `Rollback` end it.

### OnCall, Cron, Occurrences

Algorithms over rows and the time, each beside what it should come to. `OnCall`
renders a range point by point: `Render` is one round of the loop of
`renderShifts` over `Points`, and `ShiftsAgree` compares the shifts made so far
with `onCallAt` at every moment up to there. `Cron` is the loop of
`nextCronTime`, which skips months, days and hours: one disjunct for each
`continue`, and `FirstMatch` compares its answer with the first minute that
matches. `Occurrences` has no state: `AllFound` compares the look-back of
`expandOccurrences` with the whole series, and `WallClock` compares
`zonedTimeToUtc` with the moments at which the clock of a zone shows a time,
through a change of its offset. `Calendar` stands for JavaScript's `Date`: months
are numbered by the day they begin (`FirstDays`) and come again after a round.

### How instances are put together

Components that share no state are explored side by side: an MC module has a
variable `part`, chosen in the initial state, and each disjunct of its `MCNext`
is one part's `Next`, all others unchanged. The states add up and do not
multiply. `MCImplements`, `MCOverlap` and `MCProgress` extend one component (the
lease, the pager, the alert pipeline), so that the runs check the very definitions
and evaluate the assumptions the theorems are about, and instantiate the others;
`MCPagers` is five instances of the pager. A module is never extended and
instantiated in the same MC module. Deadlock stays checked: a part that may end has a named stutter (`Over`).

## 4. Runs

All runs but `ringing`, whose call ends, check for deadlock. A unit of time is 10 s
in the lease of `implements`, 5 s in that of `overlap`, and a minute in the pager;
the others have no clock.

| Run | Expect | What it asks | Bounds |
|---|---|---|---|
| `pagers` | pass | One handler for every operation: refinement. A timer beside escalations by hand: late at most once by each handler. Triggers that overlap: no more pages than triggers. Punctual: catches up, gives up fairly. Every page stops | two levels, two page ids and edits; one level, two passes, a push and a call, a person; three page ids and two triggers; two levels, two passes, pushes and calls; one level, two passes, escalations by hand, edits, one crash |
| `implements` | pass | One leader, requests never both work, refinement; one signal handler at a time: one alert per key, incidents resolve with their last alert, no signal is swallowed, refinement | a process with a timer and two that answer requests, one renewal each, lease 3 ticks, renewals up to 2 ticks old, work up to 2, one failure in a row, one crash; two keys (one may be dropped, the other is sent elsewhere or is SEV4), two incidents, two alerts, both kinds of window, people |
| `overlap` | pass | Handlers that overlap and die: passes of the pager (a notification repeated at most by each and by each crash, calls in order), lease, alerts, backups, SLA sweeps, invites, grants. Answers: shifts, cron, occurrences | two passes, one of them also of an escalation by hand or an acknowledgement, and one crash; two processes; a signal handler against the end of maintenance; three runs of a backup in a folder or two buckets, any step may throw, one fault; the timers and requests of two processes, two due dates, one crash; three people and one use; two token pairs; all small inputs |
| `progress` | pass | What loops, handlers and connections bring to an end: breaches, alerts, monitors, notices, calls, gateways, the SQLite queue | a timer and a request of one process, two due dates, one crash; a timer, two tickets in batches of one; one alert handler; threshold 2; two occurrences and one crash; two keys pressed and one fault; two instances, two configurations, two faults; three requests with nested transactions |
| `ack` | violation | "Acknowledging stops the escalation" (`pager.ts:109`) | one pass, one acknowledgement |
| `joins` | violation | "The last open alert on an incident resolving" (`alerts.ts:316`) | two signal handlers |
| `quiet` | violation | "Ticket only. Open the ticket, page nobody." (`OPERATIONS.md:102`) | one handler, a ticket-only rule |
| `completed` | violation | "its "in progress" post needs its "completed"" (`maintenance-tick.ts:68`) | one ticker, two occurrences, one skipped after it began |
| `ringing` | violation | "stop any Teams call still ringing" (`teams-calls.ts:250`) | one call, no fault |
| `repeats` | violation | "never repeats an attempt" (`pager.ts:23-24`) | one process's passes, one crash |
| `once` | violation | "Announces each SLA breach once" (`sla-monitor.ts:13`) | a timer and a request of one process, one due date, no crash |
| `strays` | violation | "One connection per deployment" (`discord-gateway.ts:14`) | one instance, two configurations |

The bounds are enough for the questions: two processes are all a lease can
confuse (a third answers requests), three ticks make the lease outlive a missed
renewal, a stall as long as two ticks lets a renewal be overtaken by the expiry
of the row, two levels and one repeat make every branch of `advanceLevel`
happen, and two calls per person are the fewest that can be out of order. For
alerts, two keys are what makes an incident have another problem left, and both
kinds of window are there so that an alert passes from one to the other. A
notification needs two passes to be repeated without a crash, and one crash to be
repeated once more; what is late needs a third handler that acknowledges, and more
notifications than there are handlers. A second insert needs two triggers, and a
third id shows that no further page comes of them. A backup needs one copy to keep, one to
prune and one under way, and two buckets for a copy that is not where its job
looks. A sweep needs another of the same process, one of another process, and a due
date that moves while it is in hand. A link for one needs two who race and one who
comes after a release. A call needs one fault, after which nothing is tried again.
The calendars have years of two months, weeks of three days and hours of two
minutes: each is the least in which its carry, its leap day and its skipped parts
differ. TLC's symmetry is used on ids of alerts, tickets and requests and on
processes and buckets that are alike, in runs without liveness.

The assumptions of `implements` about signals (`Undisturbed`, `Calm`) are those of
the documents it is held against: an incident follows its alerts when handlers do
not overlap, nobody dies, and people act between signals. `overlap` is the same pipeline
without them, for the properties that hold all the same.

**Fairness.** Nothing is assumed of people, in any run: no acknowledgement,
escalation, edit, trigger, save or key press is fair. What is assumed is that
what the server has begun goes on (its promises settle: deliveries and requests
have timeouts), and that its timers go off.

- The pager (`EveryPageStops`): its pass starts again and again (`setInterval` in
  the leader; `TakeoverBound` bounds the time without one), handlers end, time
  passes.
- Alerts in `progress`: `maintenanceTick` comes again and again, so that a tick
  whose window has ended again and again is taken (strong fairness: requests may
  keep the one handler busy in between); pages stop as `pagers` shows; fresh ids do
  not run out. Windows may change as long as they like: the property is about
  when they no longer do.
- Monitors: a due check is taken (strong, for the same reason), and a check
  becomes due again. Maintenance: the tick goes on, an occurrence is not put off
  for ever. SLA: some process's timer goes off, a sweep goes on.
- Calls: what is begun goes on; nobody need answer or hang up, no failure is
  tried again, and Microsoft need report nothing. Gateway: the supervisor's timer,
  and Discord answers or closes; nothing ends a stray socket. SQLite: work that has its
  turn goes on, and a transaction comes to its end.

**What the violations show.** `ack`: `setStatus` overwrites whatever is there,
so a handler that read the page or the ticket before an acknowledgement can turn
it into `resolved` or `exhausted`. `joins`: nothing in the database keeps what a
handler looked up true until it writes; `implements` shows that an incident
resolves with its last alert, and not before, when handlers do not overlap.
`quiet`: an alert's row does not keep whether a rule or a window suppressed its
paging, and the end of the window pages for both; this needs no overlap.
`completed`: skipping an occurrence that has begun takes it out of the expansion
without putting it among the cancelled ones. `ringing`: `acknowledgePage` marks
the acknowledger's latest attempt before calls are selected by status, so the
acknowledger's own call is not among them. None of the last three needs an
overlap. `repeats`: an attempt is recorded after its delivery, so a process that
dies in between has the next pass deliver it again; `RepeatsBounded` says what
holds instead. `once`: a request to `/api/cron/sla` sweeps beside the timer of the
same process, whose lease lets both in, and both select a breach before either
marks it; `AnnouncedAgainByTwo` says that nothing less repeats an announcement.
`strays`: `open()` looks at `stopped` before it waits for the Gateway's URL and not
after, so a gateway that was stopped meanwhile opens a socket that nothing closes,
beside the one started next; `OneGateway` says what is true of the supervisors.

The models have further behaviours that a reader of the documentation would not
expect, which no run is spent on; the property or the bound that makes room for
each is named.

- Two handlers may move a page back to a level or a pass it has left, because
  `advanceLevel` writes what it computed from an earlier row. It stops all the same
  (`EveryPageStops`), and what was recorded before is not sent again.
- Two triggers at once may each insert a page (`PagesBounded`).
- Two requests answered by one process share its lease and may both work. A
  takeover needs up to a lease and a timer period, not a lease.
- Two overlapping deliveries of one problem can both open an alert. An alert
  that clears between its recording and its incident's opening leaves an incident
  without an alert, which still pages. An alert that clears while held alerts
  are being raised may be raised again.
- A monitor whose signal fails stays down without an alert (`MaxFaults` is 0);
  of a check by hand and a ping that overlap the older may decide.
- Two tickers at once, when a tick outlasts the lease, may send a notice twice
  and lose one another's marks.
- An occurrence extended beyond the look-back (31 days are allowed) is no longer
  found (`Longest`); a feed with more than 2000 handovers of a layer is cut
  (`MaxHandovers`).
- A run whose first INSERT throws leaves its job in `running` until the process
  restarts. One whose heartbeat throws is called a failure though its copy is good,
  and is neither restored from nor pruned.
- Moving a job to another bucket, or from a bucket to the folder, leaves backups
  that cannot be restored until it is moved back (`NewestRestorable` is about where
  the job stores), and retention calls some of them pruned that are still there
  (`left` in `PrunedGone`).
- A link for two lets a third in when a number counted before its release is
  taken after it (`UsedOnce` is about links for one).
- A call whose placement timed out is recorded as failed, and rings on after an
  acknowledgement; so does one whose hang-up failed, once (`lost` in `OthersStop`).
- Two requests that handle events of one call at once may both start its prompt
  (`Handler` has one member).
- Reads skip the SQLite queue and see what an open transaction may roll back.

## 5. Theorems

Proved by TLAPS for every value of the constants, with the hypotheses named.

**The lease** (`OpsRunnerProofs`). `TypeCorrect` needs nothing. The others
assume `OneCallPerProcess`. `RowBacksLeader` is not inductive: a renewal that
has read its own name will set `leaderFor` later, and the row must still back it
then. The invariant `LeaseInv` adds, for a renewal in flight, that the row it
wrote or read is its process's and lasts at least as long as what it will return
(`RowAfterUpdate`, `RowAfterRead`), and that what it will return is no shorter
than what the process believes now (`RenewalExtends`). From it follow
`RowBacksMemory`, `MutualExclusion` (the row has one holder),
`LoopsStartLawfully`, and `LeaseImplementsElection`: a process can only become
the leader by holding the row, and then nobody else can be.

What runs under the lease is about time, too. `OneRequestWorks` assumes that a
renewal, and the work of a cron request after it, are no longer than the lease
(`WorkFits`): then the row still names the process of every request that was
told it holds the lease (`RowWhileHeld` in `CronInv`). `OneProcessWorks` is about
loops, which may run longer than any lease. It assumes that timers fire on time
(`Punctual`) and that the lease outlasts the renewals a process may fail in a row
and the next one (`RenewsInTime`: a lease of 30 s and a timer of 10 s, as the
code has them, leave room for one failure and a renewal that takes up to 10 s). `LoopInv` says
how long the row must last for a process that runs a loop or may start one: until
its timer fires again, with the failures it has had already taken off (`Secure`),
and that a renewal in flight is no later than that (`OnTime`).

`LeaderIsReplaced` is for timers alone (`AllHaveTimers`), on the same assumptions,
and as long as some process lives (`SomeoneLives`): however many others die, from
the last death on there is no leader for at most a lease, the period of a timer
for each failure that a process may have in a row and one more, and a renewal.
That is 60 s with one failure and renewals of up to 10 s. `TakeoverInv` bounds
not only the time that has gone by but the time still to come: what each process
that lives has left until it has asked again and been answered (`Wait`). A free
row is asked for in that time (`RowIsTakenOver`), and a renewal that finds it
taken and begins a new wait did so no more than a lease after the holder's death.
A process that has taken the row and failed to read that it has finds out at its
next renewal (`HolderFindsOut`), before the row runs out (`KeptByHolder`).

**The pager** (`PagerProofs`). `TypeInv` is the type invariant and, for each
program counter, which fields of the job are set (`Shaped`).

- *Any handlers*, that overlap, crash and are edited under. `CallsOneAfterAnother`:
  they may repeat a call but never reorder one, because `Walk` picks the earliest
  missing attempt and attempts are never removed (`OrderInv`). The others assume
  that handlers are finitely many. `RepeatsAreBounded`: a notification is sent once
  by each handler that walks pages, at most, and once more for each crash.
  `RepeatInv`: as long as it is not recorded, what was sent of it is in the hands of
  handlers about to record it or was lost in a crash; once it is, what was sent and
  the handlers still on the way to send it are together no more than the walkers
  and the crashes, and none joins them. `PagesAreBounded`: a ticket never has more
  pages escalating than there are handlers that trigger; `PagesInv` counts each
  insert under way as the page it will add, and a trigger only becomes one when it
  has seen no page escalate. `LateIsBounded`, by `LateInv`: once a page has stopped,
  what was late about it and the handlers on the way to deliver are together no
  more than the walkers, as a delivery uses up its handler and none joins them.
- *One attentive walker.* `DueIsSent` assumes that one handler at a time walks
  pages (`OneWalker`), that nothing crashes, and that time waits for handlers and a
  pass (`Attentive`); whoever acknowledges, edits,
  escalates or resolves does as they like. `UpInv`: a page that escalates is
  settled (everything due about it is recorded) once a pass has been to it,
  unless a handler has it in hand, and what that handler has still to do is all
  that may be missing (`CatchUp`). `ExhaustedAfterAll` adds that nobody edits the
  policy or escalates by hand (`Undisturbed`). `FairInv` carries, for each page
  and for the row in hand, that all levels before its own were tried (`Whole`): a
  level is left when it is over, and by `UpInv` it has been caught up with then.
- *One handler.* `PagerImplementsEscalation` assumes that handlers do not
  overlap; crashes, edits and the clock are free. `HoldInv`: what a handler has
  read of a page's status is still so when it writes. Each write is then a step
  of `Escalation` and everything else leaves its variables alone.

**The alert pipeline** (`AlertsProofs`). `TypeCorrect`: beside the types, each
handler has at each step what its next statement needs (`Shaped`), and what any
handler has in hand is in use (`InUse`), so that a copy's id never comes to stand
for another alert. `PagedIsNotHeld` assumes one process that ends maintenance at
a time (`OneReraiser`, the leader) beside any number of signal handlers, windows
that change in the middle of them, and crashes. `HeldNotPaged` alone is not
inductive: `HeldInv` adds that what the end of maintenance has still to do is
held, each alert once (`HeldPart`), that what it works on is held until its own
`Release`, and that a handler on its way to a page has an alert that was recorded
under no window or has been released (`StepPart`). `OneAlertForEachProblem`
assumes that handlers do not overlap (`OneHandler`), which it cannot do without,
and nothing else: people, windows and crashes are as they like. `KeyInv` adds
that a handler about to record an alert has none open with its key, and one about
to end an alert has the one.

**Incidents** (`IncidentProofs`). `AlertsDoNotVanish` needs nothing: `LostInv`
counts the alerts that fire with neither ticket nor window nor a handler between
their record and their ticket, and only a crash adds one. The others assume
`OneHandler` and no crash (`NoCrash`). `SoloInv` says that what the handler has
read of its alert and ticket is still so (`CopyPart`, `RecordPart`,
`TicketPart`), that every incident nobody touched has an alert that fires or a
handler about to attach one or to close it (`Backed`), and that what fires is on
a ticket, in a window or in hand (`Cared`); `NoIncidentIsOrphaned` follows.
`SignalsAreShown` and `PipelineImplementsIncidents` also assume that people and
windows wait while a handler runs (`Calm`), without which somebody may close the
ticket a signal is just being attached to. The refinement maps each statement of
a handler to a step of `Incidents` or to none.

**Backups** (`BackupsProofs`). All assume `Bounded`: the bounds are numbers, and
a process that does nothing does not throw. `NothingIsLeftBehind` is for
processes that run, retry, prune and die over each other. What a process drops it
listed some time ago, so `PruneInv` says what stays true of it: a copy is only
written for a run under way, which nobody has listed (`UnderWay`, `OwnRun`), a
run that has ended has its copy where its row says and nowhere else (`InPlace`),
and so the deletion before the mark leaves none, unless it was made in a bucket the
copy is not in (`Dropping`, `Gone`); that excuse is part of the property.
`NewestIsRestorable` is for any errors of any step. `KeepInv`: whatever is on
anybody's list, a newer run had its copy recorded (`Newer`), even if an error of
its heartbeat made it a failure since; so the newest that did is on no list and
keeps its copy where its row says (`Stored`), and while the job stores there, that
is where a restore looks. That there is a newest is
`Newest`, by the well-foundedness of `<` on the naturals.

**Loops** (`LoopProofs`). `AgainOnlyByTwo` assumes that due dates can be numbered
(`DueCounted`), and nothing of the lease: sweeps overlap as they like, in one
process or several, die and come again. `OnceInv`: a ticket that was never shared
is in the hands of one sweep (`Apart`), what was announced of it is marked
(`Marked`), and what the sweep selected of it was not announced and stays unmarked
until the sweep itself marks it (`Batches`). `NoticesOnce`
assumes one process that ticks (`OneTicker`), the leader; crashes, skips and
cancellations are free. `NoticeInv`: what was sent is in `announced`
(`SentIsNoted`), and the notice in hand was not when it was read, and is and has
not been sent when it is about to be (`Carried`). `DownNotBefore` assumes that the
handlers of a monitor do not overlap or break off (`Undisturbed`), without which
two results counted from one row may be one failure short. `StreakInv`: neither
the row nor a copy of it counts more failures than there have been in a row
(`Counted`).

**Requests** (`RequestProofs`). The SQLite queue: `IsolationHolds`: only the head
of the queue is in its turn, so what is pending is the writes of the transaction
that is open. `WholeWorkHolds`: what a step stores is the work of one turn. Both
are for any number of requests and any depth. `OnePrompt` assumes that the events
of a call are handled one at a time (`OneHandler`), in any order and as often as
they come. `PromptInv`: a handler that has read "sent" and is about to move the
attempt on is before the prompt, as nothing leads back to "sent".
`GatewaysSensible`, for any number of instances and faults: the pass that starts
a gateway waits for its URL, and nothing that stops a gateway meanwhile leaves it
waiting, since passes do not overlap and a crash ends both; only a greeted
connection goes silent; and none is resumed without a session.
`SingleUseOnce` is about links for one use, without which it fails (section 4).
`SingleInv`: no number but 1 is ever held, and it has one holder, who holds it
from the claim to the account. `RevokedStaysRevoked` assumes that pairs are
numbered (`PairsCounted`). `GrantInv` does not speak of tokens, which an exchange
under way may still issue: a call that began after the withdrawal finds the grant
revoked.

**What is worked out** (`ChoiceProofs`). The hypotheses are about the calendar and
the inputs; TLC evaluates those that are about constants for the instance it
checks (`ChoicesHold`).

- *Cron.* `AnswerIsFirst` and `AnswerIsFirstEver` (the first of all minutes to
  come, and none only if none ever matches) assume `CalendarHolds` (months follow
  one another and a round of them is whole weeks: the 400 years of the Gregorian
  calendar are 146 097 days and 20 871 weeks, counted from a Sunday that begins a
  year, as 1 January 2023), `ClockHolds`, and `PatienceEnough`: a step for every
  day of a round, and for the hours and minutes of two days. That is 146 265
  steps, and the code has 2 108 160. So its comment, that four years of
  minutes is more than any expression needs, is true also of 29 February after a
  century without a leap day, eight years on, for it counts steps and a step is
  rarely a minute. `SearchInv` is why: the search skips no match (`NoneSkipped`)
  and, after its first hour and its first day, has tried the minutes and hours
  before its own (`MinutesTried`, `HoursTried`), so none of them is tried to its
  end in vain and the steps are about one a day (`StepsCounted`).
- *Maintenance.* `WallClockIsKept` and `EveryOccurrenceIsFound` are for any zone
  whose clock is moved once, by a day at most. The second assumes that no
  occurrence of a series was extended past the days that are looked back
  (`WithinLookBack`), and that the range and they have fewer days than the search
  looks at (`ShortEnough`, 800); without either it fails (section 4). It compares
  with all the days of a series, which have no end. `LookedAt` is its argument: a
  planned start is as far from its local day as the clock is moved, at most.
- *On call.* `ShiftsSayWhoIsTold` assumes `SchedulesHold`: rows have times, a
  rotation has a length, and a range has no more handovers of a layer than
  `renderShifts` looks at. `RenderInv` adds that points are taken in order
  (`InTurn`) and that no shift reaches past the next (`WithinTurn`). Its argument
  is `NobodyElse`: from one point to the next `onCallAt` answers the same.

Proved and in no run: `RowBacksLeader`, `StartedByHolder`,
`WholeWork`, `GatewaysSensible` and the type invariants of the steps of the pager
and the pipeline (`Shaped`), of the queue, of calls, of maintenance windows and of
monitors (`CallsTyped`, `NoticesTyped`, `MonitorsTyped`). The type invariants of the
lease, the pager, alerts, backups, the SLA sweep and grants (`SweepsTyped`,
`GrantsTyped`) are proved of the components and checked together (`AllTypesOK`).
Proved of the component and checked of the instance that the MC module makes of it, under a name
of that module: `OneInstanceWorks`, `TakeoverBound`, `PrunedGone`,
`NewestRestorable`, `AnnouncedAgainByTwo`, `UsedOnce`, `WithdrawnForGood`,
`FirstMatch`, `ShiftsAgree` and both parts of `OccurrencesFound` (`MCOverlap`),
`NothingVanishes` and `HeldNotPaged` (`MCOverlap` too), `OneAlertPerKey`,
`NoOrphanIncident`, `SignalShown` and `ImplementsIncidents` (`MCImplements`),
`SentOnce`, `DownAfterThreshold`, `PromptOnce` and `Isolated` (`MCProgress`), and
`LateBounded`, `PagesBounded`, `KeepsUp`, `ExhaustsFairly` and
`ImplementsEscalation` (`MCPagers`, the last three as `PunctualKeepsUp`,
`PunctualExhaustsFairly` and `EscalationImplemented`).

Only model-checked: liveness (`EveryPageStops`, `HeldIsRaised`, `AlertFollows`,
`StartedIsCompleted`, `BreachesAnnounced`, `OthersStop`, `OneGateway`,
`Served`), which with ENABLED is beyond the prover; and the type invariant
of invites, which bounds the counter `uses` by the number of people: for links of
many uses that is a count over all the numbers held.

## 6. Not modelled

See `components` in `PROJECT.json`. Probes, dumps, object storage, message
formatting, HTML, schema text and the user interface are input, output and
layout without a protocol of their own; they are most of the repository's lines.
HTTP routes validate, check permissions and call the components, whose
operations stand for the calls. Sessions and rate limits are rows that one
statement reads and one writes. How conditions of routing rules match a signal's
text, notification rules, the saving of schedules and windows, and the daily
roll-up of monitors are left out of components that are modelled in part.
