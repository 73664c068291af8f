------------------------------ MODULE Backups -------------------------------
(***************************************************************************)
(* One database's backups (server/ops/backups.ts): runs started by the     *)
(* schedule and by people, in one or more processes; what a run stores,    *)
(* records and pings; and the retention that prunes older copies.          *)
(*                                                                         *)
(* Runs are numbered in the order they start.  Which of the older ones     *)
(* retention keeps depends on their dates, so any choice that keeps the    *)
(* newest is possible here.                                                *)
(***************************************************************************)
EXTENDS Naturals, FiniteSets, FiniteSetsExt

CONSTANTS
  Process,    \* instances of the server
  Bucket,     \* buckets the job may store in
  MayThrow,   \* steps whose statement may throw
  MaxRuns,    \* bound: runs of the job
  MaxFaults   \* bound: throws and crashes

Place == {"local"} \cup Bucket  \* a folder of the server, or a bucket
Run == 1 .. MaxRuns

VARIABLES
  due,      \* next_run_at has come
  place,    \* where the job stores its backups now
  run,      \* backup_runs; "nowhere" is a location that is NULL
  files,    \* the copies that exist
  running,  \* the module's set `running`: whether the job is in it, per process
  worker,   \* the run each process is in
  left,     \* runs whose copy was deleted in a bucket that has none (history)
  faults

vars == <<due, place, run, files, running, worker, left, faults>>

Idle == [pc |-> "idle", run |-> 0, place |-> "local", drop |-> {}]

TypeOK ==
  /\ due \in BOOLEAN /\ place \in Place
  /\ run \in [Run -> [status : {"none", "running", "succeeded", "failed", "pruned"}, place : Place \cup {"nowhere"}]]
  /\ files \subseteq Run \X Place
  /\ running \in [Process -> BOOLEAN]
  /\ worker \in [Process ->
       [pc : {"idle", "insert", "dump", "record", "beat", "list", "delete", "mark", "fail", "report"},
        run : 0 .. MaxRuns, place : Place, drop : SUBSET Run]]
  /\ left \subseteq Run
  /\ faults \in 0 .. MaxFaults

Init ==
  /\ due = FALSE /\ place \in Place
  /\ run = [r \in Run |-> [status |-> "none", place |-> "nowhere"]]
  /\ files = {}
  /\ running = [p \in Process |-> FALSE]
  /\ worker = [p \in Process |-> Idle]
  /\ left = {}
  /\ faults = 0

With(status) == {r \in Run : run[r].status = status}
At(p, pc) == worker[p].pc = pc
GoTo(p, pc) == worker' = [worker EXCEPT ![p].pc = pc]
SetStatus(r, status) == run' = [run EXCEPT ![r].status = status]

\* The `finally` of runBackup.
Finish(p) ==
  /\ running' = [running EXCEPT ![p] = FALSE]
  /\ worker' = [worker EXCEPT ![p] = Idle]

-----------------------------------------------------------------------------
(* Starting a run: runBackup up to its INSERT. *)

\* A process runs a job once at a time; the copy of the job is read here.
Begin(p) ==
  IF running[p] THEN UNCHANGED <<running, worker>>
  ELSE /\ running' = [running EXCEPT ![p] = TRUE]
       /\ worker' = [worker EXCEPT ![p] = [Idle EXCEPT !.pc = "insert", !.place = place]]

\* runDueBackups: the next time is set first, and the run goes on by itself.
RunDue(p) ==
  /\ due
  /\ due' = FALSE
  /\ Begin(p)
  /\ UNCHANGED <<place, run, files, left, faults>>

\* "Back up now".
BackUpNow(p) ==
  /\ ~running[p]
  /\ Begin(p)
  /\ UNCHANGED <<due, place, run, files, left, faults>>

Insert(p) ==
  /\ At(p, "insert")
  /\ With("none") # {}
  /\ LET r == Min(With("none"))
     IN /\ SetStatus(r, "running")
        /\ worker' = [worker EXCEPT ![p].pc = "dump", ![p].run = r]
  /\ UNCHANGED <<due, place, files, running, left, faults>>

-----------------------------------------------------------------------------
(* A run. *)

\* The dump is encrypted into a scratch file and then moved or uploaded.
Dump(p) ==
  /\ At(p, "dump")
  /\ files' = files \cup {<<worker[p].run, worker[p].place>>}
  /\ GoTo(p, "record")
  /\ UNCHANGED <<due, place, run, running, left, faults>>

Record(p) ==
  /\ At(p, "record")
  /\ run' = [run EXCEPT ![worker[p].run] = [status |-> "succeeded", place |-> worker[p].place]]
  /\ GoTo(p, "beat")
  /\ UNCHANGED <<due, place, files, running, left, faults>>

\* recordHeartbeat (module Monitors).
Beat(p) ==
  /\ At(p, "beat")
  /\ GoTo(p, "list")
  /\ UNCHANGED <<due, place, run, files, running, left, faults>>

\* Mutant: a run that has just ended is not counted among the newest.
KeepOlder(listed, keep) == keep \subseteq listed /\ Cardinality(keep) >= Cardinality(listed) - 1

\* selectKept keeps the newest, and others by their dates.
Keep(listed, keep) == keep \subseteq listed /\ (listed = {} \/ Max(listed) \in keep)

\* applyRetention reads the runs that succeeded.
List(p) ==
  /\ At(p, "list")
  /\ \E keep \in SUBSET With("succeeded") :
       /\ Keep(With("succeeded"), keep)
       /\ worker' = [worker EXCEPT ![p].pc = "delete", ![p].drop = With("succeeded") \ keep]
  /\ UNCHANGED <<due, place, run, files, running, left, faults>>

NextToDrop(p) == CHOOSE r \in worker[p].drop : TRUE
Dropped(p) == [worker[p] EXCEPT !.pc = "delete", !.drop = @ \ {NextToDrop(p)}]

\* The job as it was read deletes, and has no keys for a bucket if it stores in
\* the folder: the copy is left for next time.
Deletable(p, r) == run[r].place = "local" \/ worker[p].place # "local"

\* A copy in a bucket is deleted in the one of the job, wherever it is.
DeletedAt(p, r) == IF run[r].place = "local" THEN "local" ELSE worker[p].place

\* Deleting what is gone, or never was there, succeeds.
DeleteCopy(p, r) ==
  /\ files' = files \ {<<r, DeletedAt(p, r)>>}
  /\ left' = IF DeletedAt(p, r) = run[r].place THEN left ELSE left \cup {r}

\* Mutant: a copy that cannot be deleted is marked all the same.
DeleteAnyway(p) ==
  /\ At(p, "delete") /\ worker[p].drop # {}
  /\ LET r == NextToDrop(p)
     IN /\ IF Deletable(p, r) THEN DeleteCopy(p, r) ELSE UNCHANGED <<files, left>>
        /\ GoTo(p, "mark")
  /\ UNCHANGED <<due, place, run, running, faults>>

Delete(p) ==
  /\ At(p, "delete") /\ worker[p].drop # {}
  /\ LET r == NextToDrop(p)
     IN IF Deletable(p, r)
        THEN DeleteCopy(p, r) /\ GoTo(p, "mark")
        ELSE UNCHANGED <<files, left>> /\ worker' = [worker EXCEPT ![p] = Dropped(p)]
  /\ UNCHANGED <<due, place, run, running, faults>>

Mark(p) ==
  /\ At(p, "mark")
  /\ SetStatus(NextToDrop(p), "pruned")
  /\ worker' = [worker EXCEPT ![p] = Dropped(p)]
  /\ UNCHANGED <<due, place, files, running, left, faults>>

End(p) ==
  /\ At(p, "delete") /\ worker[p].drop = {}
  /\ Finish(p)
  /\ UNCHANGED <<due, place, run, files, left, faults>>

\* The catch of runBackup: whatever the run was, it failed, and the heartbeat
\* hears of it.
Fail(p) ==
  /\ At(p, "fail")
  /\ SetStatus(worker[p].run, "failed")
  /\ GoTo(p, "report")
  /\ UNCHANGED <<due, place, files, running, left, faults>>

Report(p) ==
  /\ At(p, "report")
  /\ Finish(p)
  /\ UNCHANGED <<due, place, run, files, left, faults>>

\* Where an error goes: nothing catches one of the INSERT, a run's ends in its
\* catch, a copy's is left for next time, and `finally` ends the rest.
Throws(p) ==
  CASE At(p, "insert") -> GoTo(p, "idle") /\ UNCHANGED running
    [] worker[p].pc \in {"dump", "record", "beat"} -> GoTo(p, "fail") /\ UNCHANGED running
    [] worker[p].pc \in {"delete", "mark"} -> worker' = [worker EXCEPT ![p] = Dropped(p)] /\ UNCHANGED running
    [] worker[p].pc \in {"list", "fail", "report"} -> Finish(p)

Throw(p) ==
  /\ worker[p].pc \in MayThrow
  /\ At(p, "delete") => worker[p].drop # {}
  /\ faults < MaxFaults
  /\ faults' = faults + 1
  /\ Throws(p)
  /\ UNCHANGED <<due, place, run, files, left>>

RunStep(p) ==
  \/ Insert(p) \/ Dump(p) \/ Record(p) \/ Beat(p) \/ List(p) \/ Delete(p) \/ Mark(p) \/ End(p)
  \/ Fail(p) \/ Report(p)

-----------------------------------------------------------------------------
(* The world. *)

\* A dead process forgets its runs; their rows stay as they were.
Crash(p) ==
  /\ ~At(p, "idle")
  /\ faults < MaxFaults
  /\ faults' = faults + 1
  /\ Finish(p)
  /\ UNCHANGED <<due, place, run, files, left>>

BecomesDue ==
  /\ ~due
  /\ due' = TRUE
  /\ UNCHANGED <<place, run, files, running, worker, left, faults>>

\* saveJob: another destination, and the next run by the schedule.
SaveJob(to) ==
  /\ place' = to
  /\ due' = FALSE
  /\ UNCHANGED <<run, files, running, worker, left, faults>>

Next ==
  \/ \E p \in Process : RunDue(p) \/ BackUpNow(p) \/ RunStep(p) \/ Throw(p) \/ Crash(p)
  \/ BecomesDue
  \/ \E to \in Place : SaveJob(to)

Spec == Init /\ [][Next]_vars

-----------------------------------------------------------------------------
(* What backups promise. *)

\* A pruned run has left no copy behind, which nothing would ever delete: unless
\* it was pruned by a job that had another bucket then, in which deleting the
\* copy succeeds all the same.
PrunedGone == \A r \in With("pruned") \ left : \A at \in Place : <<r, at>> \notin files

\* The runs whose copy was recorded, and the last of them.
Recorded == {r \in Run : run[r].place # "nowhere"}
Newest(r) == \A s \in Recorded : s <= r

\* openDecryptedBackup: a copy in a bucket comes from the one of the job as it is.
Restorable(r) ==
  /\ run[r].status = "succeeded"
  /\ <<r, IF run[r].place = "local" THEN "local" ELSE place>> \in files

\* "The newest backup is always kept": while the job stores where its newest
\* backup is, that one can be restored, whatever retention, errors and crashes do
\* in all the processes.  Two things take it away: another destination of the
\* job, which no copy in a bucket can be fetched through, and an error of its
\* heartbeat, which makes it a failure.
NewestRestorable ==
  \A r \in With("succeeded") : Newest(r) /\ run[r].place \in {"local", place} => Restorable(r)
=============================================================================
