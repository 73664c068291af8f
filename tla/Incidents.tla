----------------------------- MODULE Incidents ------------------------------
(***************************************************************************)
(* What the alert pipeline promises about one source, without handlers,    *)
(* routing or maintenance: a problem (a key) that is raised belongs to at  *)
(* most one incident, an open one; an incident is resolved by itself only  *)
(* when none of its problems is left, and otherwise only people close and  *)
(* reopen it.                                                              *)
(***************************************************************************)
CONSTANTS Key, Ticket

VARIABLES members, status

vars == <<members, status>>

Ended == {"resolved", "closed"}

Init ==
  /\ members = [t \in Ticket |-> {}]
  /\ status = [t \in Ticket |-> "none"]

Open(t) ==
  /\ status[t] = "none"
  /\ status' = [status EXCEPT ![t] = "open"]
  /\ UNCHANGED members

Join(t, k) ==
  /\ status[t] \notin Ended \cup {"none"}
  /\ \A u \in Ticket : k \notin members[u]
  /\ members' = [members EXCEPT ![t] = @ \cup {k}]
  /\ UNCHANGED status

Leave(t, k) ==
  /\ k \in members[t]
  /\ members' = [members EXCEPT ![t] = @ \ {k}]
  /\ UNCHANGED status

Resolve(t) ==
  /\ status[t] \notin Ended \cup {"none"}
  /\ members[t] = {}
  /\ status' = [status EXCEPT ![t] = "resolved"]
  /\ UNCHANGED members

Edit(t) ==
  /\ status[t] # "none"
  /\ status' = [status EXCEPT ![t] = IF @ \in Ended THEN "in_progress" ELSE "closed"]
  /\ UNCHANGED members

\* The incident is history, or somebody's.
Forget(t) ==
  /\ status[t] \in Ended \cup {"in_progress"}
  /\ members[t] = {}
  /\ status' = [status EXCEPT ![t] = "none"]
  /\ UNCHANGED members

Next ==
  \E t \in Ticket :
    \/ Open(t) \/ Resolve(t) \/ Edit(t) \/ Forget(t)
    \/ \E k \in Key : Join(t, k) \/ Leave(t, k)

Spec == Init /\ [][Next]_vars
=============================================================================
