------------------------------ MODULE MCProgress -----------------------------
(***************************************************************************)
(* What the loops, timers, handlers and connections of the server bring to *)
(* an end, for TLC.  The components share no state (one of them, the alert *)
(* pipeline, is the instance this module extends), so one behaviour        *)
(* explores one of them: `part` is chosen in the initial state, and the    *)
(* others stay in theirs.                                                  *)
(***************************************************************************)
EXTENDS AlertsProps, TLC

CONSTANTS a, b, c, a1, a2, t1, t2, k1, wp, wa, ops, web, j, timer, request

VARIABLES
  part,
  sHolder, sTicket, sSweep, sAnnounced, sShared, sCrashes,
  bHolder, bTicket, bSweep, bAnnounced, bShared, bCrashes,
  mMonitor, mBroken, mAlert, mJob, mStreak, mFaults,
  wPhase, wSkipped, wCancelled, wAnnounced, wTicker, wSent, wCrashes,
  cPage, cAck, cCall, cAttempt, cEvents, cHandler, cPrompted, cLate, cLost, cPresses, cFaults,
  dConfig, dHolder, dSup, dFatal, dGw, dStray, dKnown, dFaults,
  qQueue, qRequest, qOpen, qPending, qStored

sweeps == <<sHolder, sTicket, sSweep, sAnnounced, sShared, sCrashes>>
batches == <<bHolder, bTicket, bSweep, bAnnounced, bShared, bCrashes>>
monitor == <<mMonitor, mBroken, mAlert, mJob, mStreak, mFaults>>
window == <<wPhase, wSkipped, wCancelled, wAnnounced, wTicker, wSent, wCrashes>>
call == <<cPage, cAck, cCall, cAttempt, cEvents, cHandler, cPrompted, cLate, cLost, cPresses, cFaults>>
gateway == <<dConfig, dHolder, dSup, dFatal, dGw, dStray, dKnown, dFaults>>
sqlite == <<qQueue, qRequest, qOpen, qPending, qStored>>

-----------------------------------------------------------------------------
(* The components, and how small they are here. *)

\* The sweeps of one process, its timer's and a request's, for one ticket with two
\* due dates; and those of its timer alone, for two tickets in batches of one.
Sweeps == INSTANCE SlaMonitor WITH
  Process <- {a}, Entry <- {timer, request}, Ticket <- {t1}, Batch <- 1, MaxDue <- 2, MaxCrashes <- 1,
  holder <- sHolder, ticket <- sTicket, sweep <- sSweep, announced <- sAnnounced, shared <- sShared,
  crashes <- sCrashes
Batches == INSTANCE SlaMonitor WITH
  Process <- {a}, Entry <- {timer}, Ticket <- {t1, t2}, Batch <- 1, MaxDue <- 2, MaxCrashes <- 1,
  holder <- bHolder, ticket <- bTicket, sweep <- bSweep, announced <- bAnnounced, shared <- bShared,
  crashes <- bCrashes

\* Every operation of the alert pipeline, one handler at a time.
Effects == wp :> "pause_paging" @@ wa :> "pause_alerting"
RoutesPlain == [k \in {k1} |-> {[drop |-> FALSE, quiet |-> FALSE, severe |-> TRUE, policy |-> FALSE, team |-> ops]}]
AllOps == [i \in {j} |-> {"fire", "clear", "reraise"}]

\* One check or ping at a time, while people edit the monitor.
Monitors == INSTANCE Monitors WITH
  Job <- {j}, May <- [i \in {j} |-> {"tick", "now", "ping", "fail"}], MaxThreshold <- 2, MaxFaults <- 0, Edits <- TRUE,
  monitor <- mMonitor, broken <- mBroken, alert <- mAlert, job <- mJob, streak <- mStreak, faults <- mFaults

\* A window with two occurrences, which is skipped only ahead of its start.
Maintenance == INSTANCE Maintenance WITH
  Process <- {a}, MaxKey <- 2, SkipBegun <- FALSE, MaxCrashes <- 1,
  phase <- wPhase, skipped <- wSkipped, cancelled <- wCancelled, announced <- wAnnounced, ticker <- wTicker,
  sent <- wSent, crashes <- wCrashes

\* A call, two keys pressed, one event handled at a time, one request that fails.
Calls == INSTANCE TeamsCalls WITH
  Handler <- {a}, MaxPresses <- 2, MaxFaults <- 1,
  page <- cPage, ack <- cAck, call <- cCall, attempt <- cAttempt, events <- cEvents, handler <- cHandler,
  prompted <- cPrompted, late <- cLate, lost <- cLost, presses <- cPresses, faults <- cFaults

\* Two instances, two configurations, and two things that go wrong.
Gateway == INSTANCE Gateway WITH
  Instance <- {a, b}, MaxConfig <- 2, MaxFaults <- 2,
  config <- dConfig, holder <- dHolder, sup <- dSup, fatal <- dFatal, gw <- dGw, stray <- dStray,
  known <- dKnown, faults <- dFaults

\* Three requests that write, or nest one transaction in another.
Sqlite == INSTANCE SqliteQueue WITH
  Request <- {a, b, c}, MaxWrites <- 2, MaxDepth <- 1, MaxStored <- 2,
  queue <- qQueue, request <- qRequest, open <- qOpen, pending <- qPending, stored <- qStored

-----------------------------------------------------------------------------

\* Nothing varies in the parts that stay as they are.
MCInit ==
  /\ part \in {"sweeps", "batches", "alerts", "monitors", "maintenance", "calls", "gateway", "sqlite"}
  /\ Sweeps!Init /\ Batches!Init /\ Init /\ Monitors!Init /\ Maintenance!Init
  /\ Calls!Init /\ Gateway!Init /\ Sqlite!Init
  /\ part # "monitors" => mMonitor = Monitors!New("probe")

\* A call is over in the end, and the bound on stored writes stops requests.
Over ==
  /\ part \in {"calls", "sqlite"}
  /\ UNCHANGED <<part, sweeps, batches, vars, monitor, window, call, gateway, sqlite>>

MCNext ==
  \/ part = "sweeps" /\ Sweeps!Next /\ UNCHANGED <<part, batches, vars, monitor, window, call, gateway, sqlite>>
  \/ part = "batches" /\ Batches!Next /\ UNCHANGED <<part, sweeps, vars, monitor, window, call, gateway, sqlite>>
  \/ part = "alerts" /\ Next /\ UNCHANGED <<part, sweeps, batches, monitor, window, call, gateway, sqlite>>
  \/ part = "monitors" /\ Monitors!Next /\ UNCHANGED <<part, sweeps, batches, vars, window, call, gateway, sqlite>>
  \/ part = "maintenance" /\ Maintenance!Next /\ UNCHANGED <<part, sweeps, batches, vars, monitor, call, gateway, sqlite>>
  \/ part = "calls" /\ Calls!Next /\ UNCHANGED <<part, sweeps, batches, vars, monitor, window, gateway, sqlite>>
  \/ part = "gateway" /\ Gateway!Next /\ UNCHANGED <<part, sweeps, batches, vars, monitor, window, call, sqlite>>
  \/ part = "sqlite" /\ Sqlite!Next /\ UNCHANGED <<part, sweeps, batches, vars, monitor, window, call, gateway>>
  \/ Over

\* The fairness of the part that runs, as its module states it.
MCFairness ==
  /\ WF_sweeps(part = "sweeps" /\ \E s \in Sweeps!Sweep : Sweeps!Start(s))
  /\ \A s \in Sweeps!Sweep : WF_sweeps(part = "sweeps" /\ Sweeps!SweepStep(s))
  /\ WF_batches(part = "batches" /\ \E s \in Batches!Sweep : Batches!Start(s))
  /\ \A s \in Batches!Sweep : WF_batches(part = "batches" /\ Batches!SweepStep(s))
  /\ WF_vars(part = "alerts" /\ JobStep(j)) /\ SF_vars(part = "alerts" /\ Reraise(j))
  /\ \A x \in {a1, a2} : WF_vars(part = "alerts" /\ ForgetAlert(x))
  /\ WF_vars(part = "alerts" /\ PageStops(t1)) /\ WF_vars(part = "alerts" /\ ForgetTicket(t1))
  /\ WF_monitor(part = "monitors" /\ Monitors!JobStep(j)) /\ SF_monitor(part = "monitors" /\ Monitors!Tick(j))
  /\ WF_monitor(part = "monitors" /\ Monitors!BecomesDue)
  /\ WF_window(part = "maintenance" /\ Maintenance!TickStep(a))
  /\ \A k \in 1 .. 2 : WF_window(part = "maintenance" /\ Maintenance!Advance(k))
  /\ WF_call(part = "calls" /\ Calls!RecordAttempt) /\ WF_call(part = "calls" /\ Calls!AckStep)
  /\ WF_call(part = "calls" /\ Calls!HandlerStep(a))
  /\ \A i \in {a, b} :
       /\ WF_gateway(part = "gateway" /\ Gateway!Supervise(i, FALSE))
       /\ WF_gateway(part = "gateway" /\ Gateway!Lease(i))
       /\ WF_gateway(part = "gateway" /\ Gateway!GatewayStep(i))
  /\ \A r \in {a, b, c} :
       /\ WF_sqlite(part = "sqlite" /\ (Sqlite!Write(r) \/ Sqlite!Begin(r)))
       /\ WF_sqlite(part = "sqlite" /\ (Sqlite!Commit(r) \/ Sqlite!Rollback(r)))

MCSpec == MCInit /\ [][MCNext]_<<part, sweeps, batches, vars, monitor, window, call, gateway, sqlite>> /\ MCFairness

-----------------------------------------------------------------------------
(* The properties, each stated with its component; that of the alert       *)
(* pipeline is in module AlertsProps.                                      *)

\* A breach is announced (module SlaMonitor).
BreachesAnnounced == Sweeps!BreachIsAnnounced /\ Batches!BreachIsAnnounced

\* A monitor goes down only after as many bad results as its threshold says.
DownAfterThreshold == Monitors!DownAfterThreshold

\* The alert follows the state of what is monitored in the end.
AlertFollows == part = "monitors" => Monitors!AlertFollows

\* A restart never sends a maintenance notice twice.
SentOnce == Maintenance!SentOnce

\* An "in progress" post gets its "completed".
StartedIsCompleted == Maintenance!StartedIsCompleted

\* The prompt of a call is started once.
PromptOnce == Calls!PromptOnce

\* Once a page is acknowledged by somebody else, the call is hung up.
OthersStop == Calls!OthersStop

\* One instance at most is left with a gateway, and a wanted one comes back.
OneGateway == part = "gateway" => Gateway!OneGateway

\* An open transaction holds the writes of the request that runs it, and no others.
Isolated == Sqlite!Isolated

\* Everybody has a turn in the end.
Served == Sqlite!Served
=============================================================================
