------------------------------ MODULE MCPager -------------------------------
(***************************************************************************)
(* Two small instances of Pager for TLC, with a timer of one process: what *)
(* happens to an acknowledgement, and to a notification across a restart.  *)
(***************************************************************************)
EXTENDS PagerProps, TLC

CONSTANTS j1, j2, u1

\* A push at once, and levels of a minute that reach one person.
PushOnly == {[channel |-> "push", delay |-> 0]}
Calls == {"voice"}

DelayShort == [l \in 0 .. MaxLevels - 1 |-> 1]

OneUser == [l \in 0 .. MaxLevels - 1 |-> {{u1}}]

TickAndPeople == j1 :> {"tick", "trigger"} @@ j2 :> {"acknowledge", "autoResolve"}
TickOnly == [j \in Job |-> {"tick", "trigger"}]
=============================================================================
