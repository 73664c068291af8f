----------------------------- MODULE OpsRunner ------------------------------
(***************************************************************************)
(* The scheduler lease (server/ops/lease.ts) and the loops it guards       *)
(* (server/ops/runner.ts).                                                 *)
(*                                                                         *)
(* Every server process runs the same timers.  A renewal is a call that    *)
(* takes the time once and then makes three database statements, with      *)
(* other processes' statements in between; when it returns, the process    *)
(* remembers until when it is the leader.  A timer loop starts only while  *)
(* that moment lies ahead.  A serverless deployment has no timers: each    *)
(* request to /api/cron/ops renews and then does the work itself.          *)
(*                                                                         *)
(* Times are kept relative to the present (expires_at - now, leaderUntil - *)
(* now, now - started), which is all the code ever compares; Tick moves    *)
(* the present.  Instances' clocks are taken to agree.  A process that     *)
(* restarts has a new HOLDER, so a crashed instance never comes back.      *)
(***************************************************************************)
EXTENDS Integers, FiniteSets

CONSTANTS
  Instance,     \* server processes, each with its own HOLDER
  Nobody,       \* the holder of a lease row that does not exist yet
  Call,         \* renewals that may be in flight at the same time
  Owner,        \* the process that makes each of them
  CronCall,     \* the calls made by runOpsTick; the others are the timer's
  Loop,         \* the guarded loops: the main loop and the pager loop
  TickMs,       \* TICK_MS, the period of the renewal timer
  LeaseMs,      \* LEASE_MS, how long a renewal makes its process the leader
  MaxStall,     \* bound: the longest a renewal takes
  MaxWork,      \* bound: the age of a cron call when its work ends
  MaxFailures,  \* bound: renewals in a row that throw, per process
  MaxCrashes,   \* bound: processes that die
  Punctual      \* whether the renewal timer fires on time

ASSUME NobodyAssumption == Nobody \notin Instance
ASSUME OwnerAssumption == Owner \in [Call -> Instance]
ASSUME CronAssumption == CronCall \subseteq Call
ASSUME TimeAssumption ==
  /\ TickMs \in Nat \ {0}
  /\ LeaseMs \in Nat \ {0}
  /\ MaxStall \in Nat
  /\ MaxWork \in Nat
  /\ MaxFailures \in Nat
  /\ MaxCrashes \in Nat
  /\ Punctual \in BOOLEAN

VARIABLES
  up,         \* the processes that are running
  holder,     \* leases.holder
  expiresIn,  \* leases.expires_at - now; kept above -(MaxStall + 2)
  leaderFor,  \* leaderUntil - now in each process; 0 once it has passed
  call,       \* the renewals in flight
  renewIn,    \* how long until each process's renewal timer fires
  failures,   \* renewals in a row that have thrown
  looping,    \* the guarded loops that are running
  idleFor     \* how long no process has been the leader since one last died

vars == <<up, holder, expiresIn, leaderFor, call, renewIn, failures, looping, idleFor>>

Steps == {"insert", "update", "read", "return"}

TimerInstance == {Owner[c] : c \in Call \ CronCall}

MaxIdle == LeaseMs + (MaxFailures + 1) * TickMs + MaxStall

\* The renewal slot of a process that has no renewal in flight.
IdleCall == [pc |-> "idle", age |-> 0, held |-> FALSE]

TypeOK ==
  /\ up \subseteq Instance
  /\ holder \in Instance \cup {Nobody}
  /\ expiresIn \in Int
  /\ leaderFor \in [Instance -> 0 .. LeaseMs]
  /\ call \in [Call -> [pc : Steps \cup {"idle", "working"}, age : Nat, held : BOOLEAN]]
  /\ renewIn \in [Instance -> Nat]
  /\ failures \in [Instance -> Nat]
  /\ looping \subseteq Instance \X Loop
  /\ idleFor \in Nat

\* Processes start at any phase of one another's timers.
Init ==
  /\ up = Instance
  /\ holder = Nobody
  /\ expiresIn = 0
  /\ leaderFor = [i \in Instance |-> 0]
  /\ call = [c \in Call |-> IdleCall]
  /\ renewIn \in [Instance -> 0 .. TickMs]
  /\ failures = [i \in Instance |-> 0]
  /\ looping = {}
  /\ idleFor = 0

InFlight(c) == call[c].pc \in Steps

IsLeader(i) == leaderFor[i] > 0

-----------------------------------------------------------------------------
(* A renewal: renewLease calls acquireLease. *)

\* What this call would write into expires_at, relative to the present.
ExpiryOf(c) == LeaseMs - call[c].age

Begin(c) ==
  /\ call[c].pc = "idle"
  /\ Owner[c] \in up
  /\ call' = [call EXCEPT ![c] = [pc |-> "insert", age |-> 0, held |-> FALSE]]
  /\ UNCHANGED <<up, holder, expiresIn, leaderFor, failures, looping, idleFor>>

\* Mutant: the timer is armed with the length of the lease.
TimerRenewRarely(c) ==
  /\ c \notin CronCall
  /\ renewIn[Owner[c]] = 0
  /\ Begin(c)
  /\ renewIn' = [renewIn EXCEPT ![Owner[c]] = LeaseMs]

\* setInterval(lease, TICK_MS): not guarded against a renewal still in flight.
TimerRenew(c) ==
  /\ c \notin CronCall
  /\ renewIn[Owner[c]] = 0
  /\ Begin(c)
  /\ renewIn' = [renewIn EXCEPT ![Owner[c]] = TickMs]

\* A request to /api/cron/ops.
CronRenew(c) ==
  /\ c \in CronCall
  /\ Begin(c)
  /\ UNCHANGED renewIn

\* INSERT ... ON CONFLICT DO NOTHING.
Insert(c) ==
  /\ call[c].pc = "insert"
  /\ IF holder = Nobody
       THEN holder' = Owner[c] /\ expiresIn' = ExpiryOf(c)
       ELSE UNCHANGED <<holder, expiresIn>>
  /\ call' = [call EXCEPT ![c].pc = "update"]
  /\ UNCHANGED <<up, leaderFor, renewIn, failures, looping, idleFor>>

\* Mutants of the WHERE clause: anyone matches; only the holder does; a row
\* that still has a tick to run counts as expired.
MatchesAlways(c) == TRUE
MatchesHolder(c) == holder = Owner[c]
MatchesEarly(c) == holder = Owner[c] \/ expiresIn <= TickMs - call[c].age

\* WHERE holder = me OR expires_at < now, with the now of the call.
Matches(c) == holder = Owner[c] \/ expiresIn < -call[c].age

\* UPDATE the row that matches.
Update(c) ==
  /\ call[c].pc = "update"
  /\ IF Matches(c)
       THEN holder' = Owner[c] /\ expiresIn' = ExpiryOf(c)
       ELSE UNCHANGED <<holder, expiresIn>>
  /\ call' = [call EXCEPT ![c].pc = "read"]
  /\ UNCHANGED <<up, leaderFor, renewIn, failures, looping, idleFor>>

\* SELECT holder.
Read(c) ==
  /\ call[c].pc = "read"
  /\ call' = [call EXCEPT ![c] = [pc |-> "return", age |-> @.age, held |-> holder = Owner[c]]]
  /\ UNCHANGED <<up, holder, expiresIn, leaderFor, renewIn, failures, looping, idleFor>>

\* leaderUntil = held ? started + LEASE_MS : 0.
LeaderForAfter(c) == IF call[c].held /\ ExpiryOf(c) > 0 THEN ExpiryOf(c) ELSE 0

\* Mutant: the request does the work whatever the renewal returned.
WorksAnyway(c) == c \in CronCall

Works(c) == c \in CronCall /\ call[c].held

\* The renewal returns; runOpsTick goes on to do the work if it holds the lease.
Return(c) ==
  /\ call[c].pc = "return"
  /\ leaderFor' = [leaderFor EXCEPT ![Owner[c]] = LeaderForAfter(c)]
  /\ idleFor' = IF LeaderForAfter(c) > 0 THEN 0 ELSE idleFor
  /\ failures' = [failures EXCEPT ![Owner[c]] = 0]
  /\ call' = [call EXCEPT ![c] = IF Works(c)
                                   THEN [call[c] EXCEPT !.pc = "working"]
                                   ELSE IdleCall]
  /\ UNCHANGED <<up, holder, expiresIn, renewIn, looping>>

\* A statement throws: leaderUntil keeps its old value.
Fail(c) ==
  /\ call[c].pc \in {"insert", "update", "read"}
  /\ failures[Owner[c]] < MaxFailures
  /\ failures' = [failures EXCEPT ![Owner[c]] = @ + 1]
  /\ call' = [call EXCEPT ![c] = IdleCall]
  /\ UNCHANGED <<up, holder, expiresIn, leaderFor, renewIn, looping, idleFor>>

-----------------------------------------------------------------------------
(* The work. *)

\* guarded(): skip the beat if the last run has not ended, then isLeader().
StartLoop(i, l) ==
  /\ i \in up \cap TimerInstance
  /\ <<i, l>> \notin looping
  /\ IsLeader(i)
  /\ looping' = looping \cup {<<i, l>>}
  /\ UNCHANGED <<up, holder, expiresIn, leaderFor, call, renewIn, failures, idleFor>>

EndLoop(i, l) ==
  /\ <<i, l>> \in looping
  /\ looping' = looping \ {<<i, l>>}
  /\ UNCHANGED <<up, holder, expiresIn, leaderFor, call, renewIn, failures, idleFor>>

\* runOpsTick has awaited runPager and runMain and answers the request.
EndCron(c) ==
  /\ call[c].pc = "working"
  /\ call' = [call EXCEPT ![c] = IdleCall]
  /\ UNCHANGED <<up, holder, expiresIn, leaderFor, renewIn, failures, looping, idleFor>>

-----------------------------------------------------------------------------
(* The environment. *)

\* A process dies in the middle of whatever it was doing.
Crash(i) ==
  /\ i \in up
  /\ Cardinality(up) > Cardinality(Instance) - MaxCrashes
  /\ up' = up \ {i}
  /\ leaderFor' = [leaderFor EXCEPT ![i] = 0]
  /\ call' = [c \in Call |-> IF Owner[c] = i THEN IdleCall ELSE call[c]]
  /\ looping' = looping \ ({i} \X Loop)
  /\ idleFor' = 0
  /\ UNCHANGED <<holder, expiresIn, renewIn, failures>>

Down(n, floor) == IF n > floor THEN n - 1 ELSE floor

Age(s) ==
  IF s.pc = "idle" THEN s ELSE [s EXCEPT !.age = @ + 1]

Tick ==
  /\ \A c \in Call : /\ InFlight(c) => call[c].age < MaxStall
                     /\ call[c].pc = "working" => call[c].age < MaxWork
  /\ Punctual => \A i \in up \cap TimerInstance : renewIn[i] > 0
  /\ expiresIn' = Down(expiresIn, -(MaxStall + 1))
  /\ leaderFor' = [i \in Instance |-> Down(leaderFor[i], 0)]
  /\ renewIn' = [i \in Instance |-> Down(renewIn[i], 0)]
  /\ call' = [c \in Call |-> Age(call[c])]
  /\ idleFor' = IF \E i \in Instance : IsLeader(i) \/ idleFor > MaxIdle
                  THEN idleFor ELSE idleFor + 1
  /\ UNCHANGED <<up, holder, failures, looping>>

Next ==
  \/ \E c \in Call : \/ TimerRenew(c) \/ CronRenew(c)
                     \/ Insert(c) \/ Update(c) \/ Read(c) \/ Return(c) \/ Fail(c)
                     \/ EndCron(c)
  \/ \E i \in Instance, l \in Loop : StartLoop(i, l) \/ EndLoop(i, l)
  \/ \E i \in Instance : Crash(i)
  \/ Tick

Spec == Init /\ [][Next]_vars
=============================================================================
