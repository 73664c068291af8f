---------------------------- MODULE Maintenance -----------------------------
(***************************************************************************)
(* The notices of a recurring maintenance window published to status pages *)
(* (server/ops/maintenance-tick.ts, the operations of                      *)
(* server/ops/maintenance.ts on it): "starts soon", "in progress" and      *)
(* "completed" of every occurrence, each of which `announced` remembers.   *)
(*                                                                         *)
(* The clock is how far each occurrence is; its two days of history and    *)
(* the thirty of `announced` are never used up.  What a window holds back  *)
(* and raises again is in module Alerts.                                   *)
(***************************************************************************)
EXTENDS Naturals

CONSTANTS
  Process,      \* instances whose main loop ticks
  MaxKey,       \* bound: occurrences of the window
  SkipBegun,    \* whether people skip an occurrence that has begun, too
  MaxCrashes    \* bound: crashes

Occurrence == 1 .. MaxKey
What == {"notified", "started", "ended"}
Notice == Occurrence \X What

VARIABLES
  phase,      \* how far each occurrence is
  skipped,    \* the occurrences that are overridden as skipped
  cancelled,  \* cancelled_at
  announced,  \* the column `announced`
  ticker,     \* maintenanceTick of each process
  sent,       \* how often each notice went out (history)
  crashes

vars == <<phase, skipped, cancelled, announced, ticker, sent, crashes>>

Idle == [stage |-> "idle", pc |-> "next", todo |-> {}, seen |-> {}]

TypeOK ==
  /\ phase \in [Occurrence -> {"ahead", "soon", "running", "over"}]
  /\ skipped \subseteq Occurrence /\ cancelled \in BOOLEAN
  /\ announced \subseteq Notice
  /\ ticker \in [Process -> [stage : {"idle", "occurrences", "cancelled"}, pc : {"next", "write", "send"},
                             todo : SUBSET Notice, seen : SUBSET Notice]]
  /\ sent \in [Notice -> 0 .. 2]
  /\ crashes \in 0 .. MaxCrashes

Init ==
  /\ phase = [k \in Occurrence |-> "ahead"]
  /\ skipped = {} /\ cancelled = FALSE /\ announced = {}
  /\ ticker = [p \in Process |-> Idle]
  /\ sent = [n \in Notice |-> 0]
  /\ crashes = 0

\* expandOccurrences: what is neither cancelled nor skipped.
Expanded(k) == ~cancelled /\ k \notin skipped

-----------------------------------------------------------------------------
(* maintenanceTick. *)

\* The notices whose time it is, by the rows as they are read at its start.
Pending(k, what) ==
  CASE what = "notified" -> phase[k] = "soon"
    [] what = "started" -> phase[k] = "running"
    [] what = "ended" -> phase[k] = "over" /\ <<k, "started">> \in announced

Read(p) ==
  /\ ticker[p].stage = "idle"
  /\ ticker' = [ticker EXCEPT ![p].stage = "occurrences",
                              ![p].todo = {n \in Notice : Expanded(n[1]) /\ Pending(n[1], n[2])}]
  /\ UNCHANGED <<phase, skipped, cancelled, announced, sent, crashes>>

\* Mutant: a cancelled window is over, and has nothing left to say.
NothingCut == {}

\* "In progress" posts of a cancelled window that have no "completed".
CutShort ==
  IF cancelled
  THEN {<<k, "ended">> : k \in {j \in Occurrence : <<j, "started">> \in announced /\ <<j, "ended">> \notin announced}}
  ELSE {}

ReadCancelled(p) ==
  /\ ticker[p].stage = "occurrences" /\ ticker[p].todo = {}
  /\ ticker' = [ticker EXCEPT ![p].stage = "cancelled", ![p].todo = CutShort]
  /\ UNCHANGED <<phase, skipped, cancelled, announced, sent, crashes>>

End(p) ==
  /\ ticker[p].stage = "cancelled" /\ ticker[p].todo = {}
  /\ ticker' = [ticker EXCEPT ![p] = Idle]
  /\ UNCHANGED <<phase, skipped, cancelled, announced, sent, crashes>>

Current(p) == CHOOSE n \in ticker[p].todo : TRUE
Dropped(p) == [ticker[p] EXCEPT !.pc = "next", !.todo = @ \ {Current(p)}]

\* markAnnounced reads the column ...
MarkRead(p) ==
  /\ ticker[p].pc = "next" /\ ticker[p].todo # {}
  /\ ticker' = [ticker EXCEPT ![p] =
       IF Current(p) \in announced THEN Dropped(p) ELSE [@ EXCEPT !.pc = "write", !.seen = announced]]
  /\ UNCHANGED <<phase, skipped, cancelled, announced, sent, crashes>>

\* Mutant: the notice goes out before it is written down.
SendFirst(p) ==
  /\ ticker[p].pc = "write"
  /\ ticker' = [ticker EXCEPT ![p].pc = "send"]
  /\ sent' = [sent EXCEPT ![Current(p)] = @ + 1]
  /\ UNCHANGED <<phase, skipped, cancelled, announced, crashes>>

\* ... and writes it as a whole.
MarkWrite(p) ==
  /\ ticker[p].pc = "write"
  /\ announced' = ticker[p].seen \cup {Current(p)}
  /\ ticker' = [ticker EXCEPT ![p].pc = "send"]
  /\ UNCHANGED <<phase, skipped, cancelled, sent, crashes>>

\* notifyUsers, or postMaintenanceUpdates.
Send(p) ==
  /\ ticker[p].pc = "send"
  /\ sent' = [sent EXCEPT ![Current(p)] = @ + 1]
  /\ ticker' = [ticker EXCEPT ![p] = [Dropped(p) EXCEPT !.seen = {}]]
  /\ UNCHANGED <<phase, skipped, cancelled, announced, crashes>>

TickStep(p) == Read(p) \/ ReadCancelled(p) \/ End(p) \/ MarkRead(p) \/ MarkWrite(p) \/ Send(p)

\* The process dies, and starts again.
Crash(p) ==
  /\ ticker[p].stage # "idle"
  /\ crashes < MaxCrashes
  /\ crashes' = crashes + 1
  /\ ticker' = [ticker EXCEPT ![p] = Idle]
  /\ UNCHANGED <<phase, skipped, cancelled, announced, sent>>

-----------------------------------------------------------------------------
(* People, and the clock. *)

\* Occurrences follow one another.
Advance(k) ==
  /\ phase[k] # "over"
  /\ k > 1 => phase[k - 1] = "over"
  /\ phase' = [phase EXCEPT ![k] =
       CASE @ = "ahead" -> "soon" [] @ = "soon" -> "running" [] @ = "running" -> "over"]
  /\ UNCHANGED <<skipped, cancelled, announced, ticker, sent, crashes>>

\* endMaintenanceNow; extendMaintenance only puts the same end off.
EndNow(k) ==
  /\ phase[k] = "running" /\ Expanded(k)
  /\ phase' = [phase EXCEPT ![k] = "over"]
  /\ UNCHANGED <<skipped, cancelled, announced, ticker, sent, crashes>>

\* cancelMaintenance of one occurrence ...
Skip(k) ==
  /\ k \notin skipped
  /\ phase[k] \in {"running", "over"} => SkipBegun
  /\ skipped' = skipped \cup {k}
  /\ UNCHANGED <<phase, cancelled, announced, ticker, sent, crashes>>

\* ... and of the window.
Cancel ==
  /\ cancelled' = TRUE
  /\ UNCHANGED <<phase, skipped, announced, ticker, sent, crashes>>

Next ==
  \/ \E p \in Process : TickStep(p) \/ Crash(p)
  \/ \E k \in Occurrence : Advance(k) \/ EndNow(k) \/ Skip(k)
  \/ Cancel

Spec == Init /\ [][Next]_vars

\* The loop ticks, a tick ends, and occurrences are not put off for ever.
Fairness ==
  /\ \A p \in Process : WF_vars(TickStep(p))
  /\ \A k \in Occurrence : WF_vars(Advance(k))

FairSpec == Spec /\ Fairness

-----------------------------------------------------------------------------
(* What the notices promise. *)

\* "a restart or a second instance never sends it twice."
SentOnce == \A n \in Notice : sent[n] <= 1

\* An "in progress" post gets its "completed", whether the occurrence ran out,
\* was ended or was cancelled; a crash just before a post loses that post, though
\* not what is remembered of it.
StartedIsCompleted ==
  \A k \in Occurrence :
    sent[<<k, "started">>] > 0 ~>
      <<k, "ended">> \in announced /\ (crashes = 0 => sent[<<k, "ended">>] > 0)
=============================================================================
