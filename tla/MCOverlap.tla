----------------------------- MODULE MCOverlap ------------------------------
(***************************************************************************)
(* Handlers of one component that overlap, in one process or in several,   *)
(* and (module MCChoices) what the server works out from rows and the      *)
(* time, for TLC: what must never happen, and what must never come out.    *)
(* The components share no state (one of them, the pager, is the instance  *)
(* this module extends), so one behaviour explores one of them: `part` is  *)
(* chosen in the initial state, and the others stay in theirs.             *)
(***************************************************************************)
EXTENDS PagerProps, TLC

CONSTANTS a, b, c, x1, x2, y1, y2, a1, a2, t1, k1, wp, wa, ops, web, j1, j2, p1, u1, r1, r2, u, v, w, timer, request, Never

VARIABLES
  part,
  nAlerts, nTickets, nPaging, nPagedFor, nActive, nJobs, nCrashes,
  lUp, lHolder, lExpiresIn, lLeaderFor, lCall, lRenewIn, lFailures, lLooping, lIdleFor,
  bDue, bPlace, bRun, bFiles, bRunning, bWorker, bLeft, bFaults,
  mHolder, mTicket, mSweep, mAnnounced, mShared, mCrashes,
  iActive, iUses, iHeld, iRequest, iJoined,
  gGrant, gAccess, gRefresh, gRequest, gOutcome,
  hQuestion, hAsked, hSchedule, hPoints, hShifts, hSpec, hAfter, hT, hSteps, hAnswer

alert == <<nAlerts, nTickets, nPaging, nPagedFor, nActive, nJobs, nCrashes>>
lease == <<lUp, lHolder, lExpiresIn, lLeaderFor, lCall, lRenewIn, lFailures, lLooping, lIdleFor>>
backup == <<bDue, bPlace, bRun, bFiles, bRunning, bWorker, bLeft, bFaults>>
monitor == <<mHolder, mTicket, mSweep, mAnnounced, mShared, mCrashes>>
invite == <<iActive, iUses, iHeld, iRequest, iJoined>>
grant == <<gGrant, gAccess, gRefresh, gRequest, gOutcome>>
choice == <<hQuestion, hAsked, hSchedule, hPoints, hShifts, hSpec, hAfter, hT, hSteps, hAnswer>>

-----------------------------------------------------------------------------
(* The components, and how small they are here. *)

\* The passes of a timer and of a request among triggers, escalations by hand and
\* acknowledgements, and a crash; a call at once, repeated in a minute.
CallOnly == {[channel |-> "voice", delay |-> 0]}
Calls == {"voice"}
TwoMinutes == [l \in {0} |-> 2]
OneLevel == [l \in {0} |-> {{u1}}]
TwoPasses == j1 :> {"tick", "trigger"} @@ j2 :> {"tick", "escalate", "acknowledge"}

\* Two processes whose renewal timers fire on time (LEASE_MS = 3 * TICK_MS).
Lease == INSTANCE OpsRunnerProps WITH
  Instance <- {a, b}, Nobody <- None, Call <- {r1, r2}, Owner <- r1 :> a @@ r2 :> b, CronCall <- {},
  Loop <- {"main", "pager"}, TickMs <- 2, LeaseMs <- 6, MaxStall <- 1, MaxWork <- 0, MaxFailures <- 1,
  MaxCrashes <- 1, Punctual <- TRUE,
  up <- lUp, holder <- lHolder, expiresIn <- lExpiresIn, leaderFor <- lLeaderFor, call <- lCall,
  renewIn <- lRenewIn, failures <- lFailures, looping <- lLooping, idleFor <- lIdleFor

\* The end of maintenance among requests, and a crash.
Effects == wp :> "pause_paging" @@ wa :> "pause_alerting"
Plain == [drop |-> FALSE, quiet |-> FALSE, severe |-> TRUE, policy |-> FALSE, team |-> ops]
RoutesPlain == [k \in {k1} |-> {Plain}]
EndAmongRequests == j1 :> {"reraise"} @@ j2 :> {"fire", "clear"}

Alerts == INSTANCE AlertsProps WITH
  Alert <- {a1, a2}, Ticket <- {t1}, Key <- {k1}, Window <- {wp, wa},
  Effect <- Effects, Team <- {ops, web}, TeamPolicy <- {ops}, SourcePolicy <- FALSE, Routes <- RoutesPlain,
  Job <- {j1, j2}, May <- EndAmongRequests, MaxCrashes <- 1, Calm <- FALSE,
  alerts <- nAlerts, tickets <- nTickets, paging <- nPaging, pagedFor <- nPagedFor, active <- nActive,
  jobs <- nJobs, crashes <- nCrashes

\* Two processes that back up the same database, in a folder or in two buckets.
Backups == INSTANCE Backups WITH
  Process <- {x1, x2}, Bucket <- {y1, y2},
  MayThrow <- {"insert", "dump", "record", "beat", "list", "delete", "mark", "fail", "report"},
  MaxRuns <- 3, MaxFaults <- 1,
  due <- bDue, place <- bPlace, run <- bRun, files <- bFiles, running <- bRunning, worker <- bWorker,
  left <- bLeft, faults <- bFaults

\* The timers of two processes, and a request that each of them answers.
Sla == INSTANCE SlaMonitor WITH
  Process <- {x1, x2}, Entry <- {timer, request}, Ticket <- {t1}, Batch <- 1, MaxDue <- 2, MaxCrashes <- 1,
  holder <- mHolder, ticket <- mTicket, sweep <- mSweep, announced <- mAnnounced, shared <- mShared,
  crashes <- mCrashes

\* A single-use link and three people.
Invites == INSTANCE Invites WITH
  Person <- {a, b, c}, MaxUses <- 1, MaxTries <- 2, MaxSeq <- 3,
  active <- iActive, uses <- iUses, held <- iHeld, request <- iRequest, joined <- iJoined

\* Two requests with the tokens of one grant.
Grants == INSTANCE Grants WITH
  Request <- {a, b}, MaxPairs <- 2,
  grant <- gGrant, access <- gAccess, refresh <- gRefresh, request <- gRequest, outcome <- gOutcome

\* Schedules, cron expressions and series of maintenance; an occurrence is not
\* extended past the days that the search for it looks back.
Choices == INSTANCE MCChoices WITH
  Nobody <- None, Longest <- 7,
  question <- hQuestion, asked <- hAsked, schedule <- hSchedule, points <- hPoints, shifts <- hShifts,
  spec <- hSpec, after <- hAfter, t <- hT, steps <- hSteps, answer <- hAnswer

ASSUME ChoicesHold == Choices!Holds

-----------------------------------------------------------------------------

\* Nothing varies in the parts that stay as they are.
MCInit ==
  /\ part \in {"pager", "alerts", "lease", "backups", "sla", "invites", "grants", "choices"}
  /\ Init /\ Alerts!Init /\ Lease!Init /\ Backups!Init /\ Sla!Init /\ Invites!Init /\ Grants!Init
  /\ part # "lease" => lRenewIn = [i \in {a, b} |-> 0]
  /\ part # "backups" => bPlace = "local"
  /\ IF part = "choices" THEN Choices!Init ELSE Choices!Idle

\* People stop signing up, and the bound on token pairs stops their exchange.
Over == part \in {"invites", "grants"} /\ UNCHANGED <<part, vars, alert, lease, backup, monitor, invite, grant, choice>>

MCNext ==
  \/ part = "pager" /\ Next /\ UNCHANGED <<part, alert, lease, backup, monitor, invite, grant, choice>>
  \/ part = "alerts" /\ Alerts!Next /\ UNCHANGED <<part, vars, lease, backup, monitor, invite, grant, choice>>
  \/ part = "lease" /\ Lease!Next /\ UNCHANGED <<part, vars, alert, backup, monitor, invite, grant, choice>>
  \/ part = "backups" /\ Backups!Next /\ UNCHANGED <<part, vars, alert, lease, monitor, invite, grant, choice>>
  \/ part = "sla" /\ Sla!Next /\ UNCHANGED <<part, vars, alert, lease, backup, invite, grant, choice>>
  \/ part = "invites" /\ Invites!Next /\ UNCHANGED <<part, vars, alert, lease, backup, monitor, grant, choice>>
  \/ part = "grants" /\ Grants!Next /\ UNCHANGED <<part, vars, alert, lease, backup, monitor, invite, choice>>
  \/ part = "choices" /\ Choices!Next /\ UNCHANGED <<part, vars, alert, lease, backup, monitor, invite, grant>>
  \/ Over

MCSpec == MCInit /\ [][MCNext]_<<part, vars, alert, lease, backup, monitor, invite, grant, choice>>

\* Rows of the alert pipeline are told apart by what is in them only, and neither
\* the processes that back up or sweep nor the buckets differ.
Symmetric == Permutations({a1, a2}) \cup Permutations({x1, x2}) \cup Permutations({y1, y2})

-----------------------------------------------------------------------------
(* The properties, each stated with its component, and asked where it      *)
(* moves; those of the pager are in module PagerProps.                     *)

\* Every variable of every component has its type.
AllTypesOK ==
  /\ part = "pager" => TypeOK
  /\ part = "alerts" => Alerts!TypeOK
  /\ part = "lease" => Lease!TypeOK
  /\ part = "backups" => Backups!TypeOK
  /\ part = "sla" => Sla!TypeOK
  /\ part = "invites" => Invites!TypeOK
  /\ part = "grants" => Grants!TypeOK

\* However long a loop runs, no second process starts one meanwhile.
OneInstanceWorks == part = "lease" => Lease!OneInstanceWorks

\* A process that stops is replaced in time.
TakeoverBound == part = "lease" => Lease!TakeoverBound

\* An alert that fires has a ticket, a window or a handler, or was lost in a crash.
NothingVanishes == part = "alerts" => Alerts!NothingVanishes

\* Nobody is paged for an alert that a window holds back.
HeldNotPaged == part = "alerts" => Alerts!HeldNotPaged

\* A pruned backup has left no copy behind.
PrunedGone == part = "backups" => Backups!PrunedGone

\* The newest backup can be restored where the job still stores.
NewestRestorable == part = "backups" => Backups!NewestRestorable

\* Sweeps that overlap announce a breach again only if two had it in hand.
AnnouncedAgainByTwo == part = "sla" => Sla!AnnouncedAgainByTwo

\* A single-use link is used once.
UsedOnce == part = "invites" => Invites!UsedOnce

\* Once a revocation has ended no call is answered.
WithdrawnForGood == part = "grants" => Grants!WithdrawnForGood

\* The shifts people look at agree with what the pager is told.
ShiftsAgree == part = "choices" => Choices!ShiftsAgree

\* The next time of a schedule is the first that matches.
FirstMatch == part = "choices" => Choices!FirstMatch

\* No occurrence that overlaps a range is missed, in a series in any zone.
OccurrencesFound == part = "choices" => Choices!OccurrencesFound
=============================================================================
