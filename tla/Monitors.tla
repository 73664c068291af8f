------------------------------ MODULE Monitors ------------------------------
(***************************************************************************)
(* One built-in monitor (server/ops/monitors.ts): the checks the main loop *)
(* and people start, the heartbeats a job sends, and the signals that a    *)
(* change of state sends into the alert pipeline.                          *)
(*                                                                         *)
(* A handler makes one database statement per step and decides from the    *)
(* copy of the row it read at its start.  Times are kept as what is        *)
(* compared with them: whether the check is due, whether the last ping is  *)
(* too long ago, whether the job's last word was a failure.                *)
(***************************************************************************)
EXTENDS Naturals

CONSTANTS
  Job,           \* handlers that may run at the same time
  May,           \* the operations each of them runs
  MaxThreshold,  \* bound: failure_threshold
  MaxFaults,     \* bound: handlers that die or whose statement throws
  Edits          \* whether people save the monitor meanwhile

Op == {"tick", "now", "ping", "fail"}
Kind == {"probe", "heartbeat"}

VARIABLES
  monitor,  \* the row
  broken,   \* whether the target of a probe fails
  alert,    \* whether the monitor's alert is open
  job,      \* the handlers
  streak,   \* bad results since the last good one (history)
  faults

vars == <<monitor, broken, alert, job, streak, faults>>

\* failures is consecutive_failures, counted no further than a threshold goes;
\* late: the last ping is older than interval_secs + grace_secs; failed:
\* last_fail_at is after last_ping_at; due: next_check_at has come.
Row == [kind : Kind, enabled : BOOLEAN, threshold : 1 .. MaxThreshold,
        state : {"pending", "up", "down"}, failures : 0 .. MaxThreshold,
        late : BOOLEAN, failed : BOOLEAN, due : BOOLEAN]

JobRecord == [op : Op \cup {"none"}, row : Row, ok : BOOLEAN,
              pc : {"idle", "claim", "probe", "touch", "store", "signal"}]

\* saveMonitor(null): a row just inserted.
New(kind) == [kind |-> kind, enabled |-> TRUE, threshold |-> 1, state |-> "pending", failures |-> 0,
              late |-> FALSE, failed |-> FALSE, due |-> TRUE]

Idle == [op |-> "none", row |-> New("probe"), ok |-> FALSE, pc |-> "idle"]

TypeOK ==
  /\ monitor \in Row
  /\ broken \in BOOLEAN /\ alert \in BOOLEAN
  /\ job \in [Job -> JobRecord]
  /\ streak \in 0 .. MaxThreshold
  /\ faults \in 0 .. MaxFaults

Init ==
  /\ monitor \in {New(kind) : kind \in Kind}
  /\ broken = FALSE /\ alert = FALSE
  /\ job = [j \in Job |-> Idle]
  /\ streak = 0 /\ faults = 0

At(j, pc) == job[j].pc = pc
AllIdle == \A j \in Job : At(j, "idle")
GoTo(j, pc) == job' = [job EXCEPT ![j].pc = pc]
Done(j) == job' = [job EXCEPT ![j] = Idle]
Capped(n) == IF n < MaxThreshold THEN n + 1 ELSE MaxThreshold

-----------------------------------------------------------------------------
(* The handlers. *)

Start(j, op, pc) ==
  /\ At(j, "idle")
  /\ op \in May[j]
  /\ job' = [job EXCEPT ![j] = [op |-> op, row |-> monitor, ok |-> FALSE, pc |-> pc]]
  /\ UNCHANGED <<monitor, broken, alert, streak, faults>>

\* runDueMonitors selects what is enabled and due.
Tick(j) == monitor.enabled /\ monitor.due /\ Start(j, "tick", "claim")

\* checkMonitorNow, of a paused monitor too.
CheckNow(j) == Start(j, "now", "probe")

\* recordHeartbeat finds the monitor by its token.
Heartbeat(j) ==
  /\ monitor.kind = "heartbeat"
  /\ Start(j, "ping", "touch") \/ Start(j, "fail", "touch")

\* A slow check is not started twice by the next tick.
Claim(j) ==
  /\ At(j, "claim")
  /\ monitor' = [monitor EXCEPT !.due = FALSE]
  /\ GoTo(j, "probe")
  /\ UNCHANGED <<broken, alert, streak, faults>>

\* Mutant: a failure that the job reported is forgotten.
HealthyUnlessLate(row) == IF row.kind = "heartbeat" THEN ~row.late ELSE ~broken

\* runCheck: a heartbeat is judged by the copy of its row, a probe by what it
\* finds.
Healthy(row) == IF row.kind = "heartbeat" THEN ~row.failed /\ ~row.late ELSE ~broken

Finding(j, ok, row) == [job[j] EXCEPT !.pc = "store", !.ok = ok, !.row = row]
StreakAfter(ok) == IF ok THEN 0 ELSE Capped(streak)

Probe(j) ==
  LET row == job[j].row
  IN
  /\ At(j, "probe")
  /\ job' = [job EXCEPT ![j] = Finding(j, Healthy(row), row)]
  /\ streak' = StreakAfter(Healthy(row))
  /\ UNCHANGED <<monitor, broken, alert, faults>>

\* Checks that hold an older ping may find its deadline past, though there is a
\* new one now.
Overtaken(j, late) ==
  {k \in Job \ {j} : late /\ job[k].pc \in {"claim", "probe"} /\ job[k].row.kind = "heartbeat"}

\* recordHeartbeat writes the ping down; a paused monitor ignores it, and a
\* failure that is reported needs no second one.
Touch(j) ==
  LET fail == job[j].op = "fail"
      Pinged(row) == [row EXCEPT !.failed = fail, !.late = IF fail THEN @ ELSE FALSE]
      row == Pinged(job[j].row)
  IN
  /\ At(j, "touch")
  /\ monitor' = Pinged(monitor)
  /\ streak' = IF row.enabled THEN StreakAfter(~fail) ELSE streak
  /\ \E late \in BOOLEAN :
       job' = [k \in Job |->
         IF k = j THEN IF ~row.enabled THEN Idle
                       ELSE Finding(j, ~fail, [row EXCEPT !.threshold = IF fail THEN 1 ELSE @])
         ELSE IF k \in Overtaken(j, late) THEN [job[k] EXCEPT !.row.late = TRUE] ELSE job[k]]
  /\ UNCHANGED <<broken, alert, faults>>

FailuresAfter(row, ok) == IF ok THEN 0 ELSE Capped(row.failures)

\* Mutant: one failure is enough.
StateAfterOne(row, ok) == IF ok THEN "up" ELSE "down"

StateAfter(row, ok) ==
  IF ok THEN "up"
  ELSE IF FailuresAfter(row, ok) >= row.threshold THEN "down" ELSE row.state

\* recordResult; the check itself and the daily roll-up are only ever added to.
Store(j) ==
  LET row == job[j].row
      ok == job[j].ok
  IN
  /\ At(j, "store")
  /\ monitor' = [monitor EXCEPT !.state = StateAfter(row, ok), !.failures = FailuresAfter(row, ok), !.due = FALSE]
  /\ GoTo(j, "signal")
  /\ UNCHANGED <<broken, alert, streak, faults>>

Fires(row, ok) == StateAfter(row, ok) = "down" /\ row.state # "down"
Clears(row, ok) == StateAfter(row, ok) = "up" /\ row.state = "down"

\* Only a change of state is a signal; ingestSignal (module Alerts) opens or
\* resolves the alert.
Signal(j) ==
  LET row == job[j].row
      ok == job[j].ok
  IN
  /\ At(j, "signal")
  /\ alert' = IF Fires(row, ok) THEN TRUE ELSE IF Clears(row, ok) THEN FALSE ELSE alert
  /\ Done(j)
  /\ UNCHANGED <<monitor, broken, streak, faults>>

\* A statement throws, which the loop and the routes catch, or the process dies.
Abort(j) ==
  /\ ~At(j, "idle")
  /\ faults < MaxFaults
  /\ faults' = faults + 1
  /\ Done(j)
  /\ UNCHANGED <<monitor, broken, alert, streak>>

JobStep(j) == Claim(j) \/ Probe(j) \/ Touch(j) \/ Store(j) \/ Signal(j)

-----------------------------------------------------------------------------
(* The world. *)

\* saveMonitor: any of its settings, and the next check is due at once.
Save ==
  /\ Edits
  /\ \E enabled \in BOOLEAN, threshold \in 1 .. MaxThreshold :
       monitor' = [monitor EXCEPT !.enabled = enabled, !.threshold = threshold, !.due = TRUE]
  /\ UNCHANGED <<broken, alert, job, streak, faults>>

BecomesDue ==
  /\ ~monitor.due
  /\ monitor' = [monitor EXCEPT !.due = TRUE]
  /\ UNCHANGED <<broken, alert, job, streak, faults>>

Toggle ==
  /\ monitor.kind = "probe"
  /\ broken' = ~broken
  /\ UNCHANGED <<monitor, alert, job, streak, faults>>

\* The deadline after the last ping passes, for every copy of it too.
BecomesLate ==
  /\ monitor.kind = "heartbeat"
  /\ ~monitor.late
  /\ monitor' = [monitor EXCEPT !.late = TRUE]
  /\ job' = [j \in Job |-> IF At(j, "idle") THEN job[j] ELSE [job[j] EXCEPT !.row.late = TRUE]]
  /\ UNCHANGED <<broken, alert, streak, faults>>

Next ==
  \/ \E j \in Job : Tick(j) \/ CheckNow(j) \/ Heartbeat(j) \/ JobStep(j) \/ Abort(j)
  \/ Save \/ BecomesDue \/ Toggle \/ BecomesLate

Spec == Init /\ [][Next]_vars

\* A handler runs to its end, and the loop takes what is due: requests keep the
\* one handler of a serial instance busy only now and then.
Fairness ==
  /\ \A j \in Job : WF_vars(JobStep(j)) /\ SF_vars(Tick(j))
  /\ WF_vars(BecomesDue)

FairSpec == Spec /\ Fairness

-----------------------------------------------------------------------------
(* What monitors promise. *)

\* A monitor goes down only after as many bad results in a row as its threshold
\* says, or after its job reported a failure.
DownAfterThreshold ==
  [][monitor.state # "down" /\ monitor'.state = "down" =>
       \E j \in Job : job[j].op = "fail" \/ streak >= job[j].row.threshold]_vars

Bad == IF monitor.kind = "heartbeat" THEN monitor.failed \/ monitor.late ELSE broken

\* What is broken and stays so is alerted in the end, and what has recovered
\* for good does not stay alerted.
AlertFollows ==
  /\ <>[](Bad /\ monitor.enabled) => <>[]alert
  /\ <>[](~Bad /\ monitor.enabled) => <>[]~alert
=============================================================================
