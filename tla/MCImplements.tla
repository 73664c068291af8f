---------------------------- MODULE MCImplements ----------------------------
(***************************************************************************)
(* Two components that implement an abstract specification, for TLC: the   *)
(* scheduler lease, of three processes whose calls stall, fail and die     *)
(* (the instance this module extends; module Leadership), and the alert    *)
(* pipeline, one handler at a time (module Incidents).  They share no      *)
(* state, so one behaviour explores one of them: `part` is chosen in the   *)
(* initial state, and the other stays as it is.                            *)
(*                                                                         *)
(* One unit of the lease's time is ten seconds, so that LEASE_MS =         *)
(* 3 * TICK_MS.                                                            *)
(***************************************************************************)
EXTENDS OpsRunnerProps, TLC

CONSTANTS a, b, c, r1, r2, r3, a1, a2, t1, t2, k1, k2, wp, wa, ops, web, j, None

VARIABLES part, sAlerts, sTickets, sPaging, sPagedFor, sActive, sJobs, sCrashes

signals == <<sAlerts, sTickets, sPaging, sPagedFor, sActive, sJobs, sCrashes>>

-----------------------------------------------------------------------------

\* One process with a timer, and two that answer requests.
OneCallInThree == r1 :> a @@ r2 :> b @@ r3 :> c

\* The pipeline, every operation; people and windows wait for its handler.  One
\* problem is routed by a rule with working hours, the other plainly.
Effects == wp :> "pause_paging" @@ wa :> "pause_alerting"
Plain == [drop |-> FALSE, quiet |-> FALSE, severe |-> TRUE, policy |-> FALSE, team |-> ops]
RoutesAll == k1 :> {Plain, [Plain EXCEPT !.drop = TRUE]}
             @@ k2 :> {[Plain EXCEPT !.policy = TRUE, !.team = web], [Plain EXCEPT !.severe = FALSE]}

AllOps == [i \in {j} |-> {"fire", "clear", "reraise"}]

Signals == INSTANCE AlertsProps WITH
  Alert <- {a1, a2}, Ticket <- {t1, t2}, Key <- {k1, k2}, Window <- {wp, wa},
  Effect <- Effects, Team <- {ops, web}, TeamPolicy <- {ops}, SourcePolicy <- FALSE, Routes <- RoutesAll,
  Job <- {j}, May <- AllOps, MaxCrashes <- 0, Calm <- TRUE,
  alerts <- sAlerts, tickets <- sTickets, paging <- sPaging, pagedFor <- sPagedFor, active <- sActive,
  jobs <- sJobs, crashes <- sCrashes

MCInit ==
  /\ part \in {"lease", "signals"}
  /\ Init /\ Signals!Init
  /\ part # "lease" => renewIn = [i \in Instance |-> 0]

MCNext ==
  \/ part = "lease" /\ Next /\ UNCHANGED <<part, signals>>
  \/ part = "signals" /\ Signals!Undisturbed /\ UNCHANGED <<part, vars>>

MCSpec == MCInit /\ [][MCNext]_<<part, vars, signals>>

\* The two processes that answer requests are alike, and rows of the pipeline are
\* told apart by what is in them only.
Symmetric ==
  {b :> c @@ c :> b @@ r2 :> r3 @@ r3 :> r2} \cup Permutations({a1, a2}) \cup Permutations({t1, t2})

-----------------------------------------------------------------------------
(* The properties of the pipeline, each stated with it; those of the lease *)
(* are in module OpsRunnerProps.                                           *)

\* A repeat of an alert that is still open opens no second alert.
OneAlertPerKey == part = "signals" => Signals!OneAlertPerKey

\* When the last alert of an incident resolves, so does the incident.
NoOrphanIncident == part = "signals" => Signals!NoOrphanIncident

\* A signal that fires ends in the open.
SignalShown == Signals!SignalShown

\* The pipeline implements module Incidents when its handlers do not overlap.
ImplementsIncidents == Signals!ImplementsIncidents
=============================================================================
