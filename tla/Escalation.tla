----------------------------- MODULE Escalation -----------------------------
(***************************************************************************)
(* What the pager promises about one ticket, without handlers, rows or     *)
(* notifications: one page escalates at a time, it moves through its       *)
(* levels and never back, it stops once, and what stopped it stays, except *)
(* that an exhausted page can still be acknowledged.                       *)
(***************************************************************************)
EXTENDS Naturals

CONSTANTS Page, MaxStep

VARIABLES status, step

Stops == {"acknowledged", "resolved", "exhausted"}

Init ==
  /\ status = [p \in Page |-> "none"]
  /\ step = [p \in Page |-> 0]

Trigger(p) ==
  /\ status[p] = "none"
  /\ \A q \in Page : status[q] # "triggered"
  /\ status' = [status EXCEPT ![p] = "triggered"]
  /\ UNCHANGED step

Escalate(p) ==
  /\ status[p] = "triggered"
  /\ \E n \in step[p] + 1 .. MaxStep : step' = [step EXCEPT ![p] = n]
  /\ UNCHANGED status

Stop(p) ==
  /\ status[p] = "triggered"
  /\ \E s \in Stops : status' = [status EXCEPT ![p] = s]
  /\ UNCHANGED step

Claim(p) ==
  /\ status[p] = "exhausted"
  /\ status' = [status EXCEPT ![p] = "acknowledged"]
  /\ UNCHANGED step

Next == \E p \in Page : Trigger(p) \/ Escalate(p) \/ Stop(p) \/ Claim(p)

Spec == Init /\ [][Next]_<<status, step>>
=============================================================================
