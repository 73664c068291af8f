--------------------------- MODULE OpsRunnerProps ---------------------------
(***************************************************************************)
(* What the scheduler lease must guarantee to the loops behind it.         *)
(***************************************************************************)
EXTENDS OpsRunner

\* At most one process believes that it is the leader: two processes whose
\* leaderUntil lies in the future would both check, page and back up.
OneLeader ==
  \A i, j \in Instance : IsLeader(i) /\ IsLeader(j) => i = j

\* A process that believes it is the leader is the holder of the database row,
\* for at least as long as it believes it: the memory of a renewal in runner.ts
\* never outlives the row that lease.ts wrote.
RowBacksLeader ==
  \A i \in Instance : IsLeader(i) => holder = i /\ expiresIn >= leaderFor[i]

\* A timer loop starts only in the process that holds an unexpired row at that
\* very moment, although the loop looks at its memory and never at the row.
StartedByHolder ==
  [][\A i \in Instance, l \in Loop :
       <<i, l>> \in looping' \ looping => holder = i /\ expiresIn > 0]_vars

\* However long a loop runs, no second process starts one meanwhile: renewals
\* that fire on time keep the lease through a long tick and a failed renewal.
OneInstanceWorks ==
  \A x, y \in looping : x[1] = y[1]

\* A process that stops is replaced within the rest of its lease, plus the
\* period of the next process's timer and the time its renewal takes.
TakeoverBound == idleFor <= MaxIdle

\* Of the requests to /api/cron/ops that different processes answer, at most
\* one does the work at any moment, if the work is shorter than the lease.
OneCronWorks ==
  \A c, d \in Call : call[c].pc = "working" /\ call[d].pc = "working" => c = d

-----------------------------------------------------------------------------
(* The abstract view: which process, if any, is the leader. *)

CurrentLeader ==
  IF \E i \in Instance : IsLeader(i)
    THEN CHOOSE i \in Instance : IsLeader(i)
    ELSE Nobody

Election == INSTANCE Leadership WITH leader <- CurrentLeader

\* The lease implements the election of module Leadership: leadership is taken
\* only while it is vacant, and so is never handed over without a gap.
ImplementsLeadership == Election!Spec
=============================================================================
