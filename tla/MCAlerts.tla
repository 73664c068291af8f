------------------------------ MODULE MCAlerts ------------------------------
(***************************************************************************)
(* Two small instances of Alerts for TLC: handlers that overlap, and what  *)
(* becomes of a rule that makes an alert ticket-only.                      *)
(***************************************************************************)
EXTENDS AlertsProps, TLC

CONSTANTS a1, a2, a3, t1, t2, k1, k2, wp, wa, ops, web, j1, j2

Effects == wp :> "pause_paging" @@ wa :> "pause_alerting"

Plain == [drop |-> FALSE, quiet |-> FALSE, severe |-> TRUE, policy |-> FALSE, team |-> ops]
RoutesPlain == [k \in Key |-> {Plain}]
RoutesQuiet == [k \in Key |-> {[Plain EXCEPT !.quiet = TRUE]}]

\* Rows are told apart by what is in them only.
Symmetric == Permutations(Alert) \cup Permutations(Ticket)

AllOps == [j \in Job |-> Op]
Requests == j1 :> {"fire"} @@ j2 :> {"fire", "clear"}
=============================================================================
