----------------------------- MODULE PagerProps -----------------------------
(***************************************************************************)
(* What the pager must guarantee to the people it wakes.                   *)
(***************************************************************************)
EXTENDS Pager

\* "A restart, or a different instance taking over the scheduler lease, picks up
\* exactly where the last one left off and never repeats an attempt."
NeverRepeats == \A k \in Attempt : sent[k] <= 1

\* The handlers that walk pages, and those that trigger them.
Walker == {j \in Job : May[j] \cap {"tick", "trigger", "escalate"} # {}}
Triggerer == {j \in Job : "trigger" \in May[j]}

\* What the code gives of that.  An attempt is recorded only after it was sent,
\* so a handler that dies in between leaves it to be sent again, and handlers
\* that overlap may all be about to send it; but each of these sends it once,
\* and once it is recorded nobody goes for it any more.
RepeatsBounded == \A k \in Attempt : sent[k] <= Cardinality(Walker) + crashes

\* What an acknowledgement stopped stays stopped: no handler that read the page
\* before it may put another status over it.
AckStops ==
  [][\A p \in Page : pages[p].status = "acknowledged" => pages'[p].status = "acknowledged"]_vars

\* Once a page has stopped, each handler that walks pages sends at most the one
\* notification it was about to send: the check before every delivery bounds
\* what slips through.
LateBounded == \A p \in Page : Cardinality({k \in late : k.page = p}) <= Cardinality(Walker)

\* Calls to one person are placed one after the other: a repeat only follows a
\* recorded call, and catching up never places two at once.
CallsInOrder ==
  \A k \in attempts \cup {k \in Attempt : sent[k] > 0} : k.seq > 0 => [k EXCEPT !.seq = k.seq - 1] \in attempts

\* triggerPage looks for a page of the ticket that escalates before it inserts
\* one, so triggers that overlap may each insert theirs; but there are never more
\* than there are triggers at once, as nothing else makes a page escalate.
PagesBounded == Cardinality({p \in Page : Triggered(p)}) <= Cardinality(Triggerer)

\* Every page stops: someone acknowledges it, its ticket ends, or the policy is
\* exhausted, even while the policy is edited.
EveryPageStops == \A p \in Page : Triggered(p) ~> ~Triggered(p)

\* Nothing due is left waiting when time moves on: a pass of the pager catches
\* up with every rule of everyone the level reached.
KeepsUp ==
  [][passed /\ ~passed' =>
       \A p \in Page, u \in User, r \in Rule :
         /\ Triggered(p) /\ ~Terminal /\ u \in pages[p].targets
         /\ DueAt(r, 0) <= pages[p].age
         => AttemptFor(p, pages[p], u, r, 0) \in attempts]_vars

\* A page is announced as unacknowledged only after everyone its policy reaches
\* was tried at every level of every pass.
ExhaustsFairly ==
  \A p \in announced, c \in Cycle, l \in Level :
    \E targets \in Reaches[l] : \A u \in targets, r \in Rule :
      DueAt(r, 0) < Delay[l] => AttemptFor(p, [cycle |-> c, level |-> l], u, r, 0) \in attempts

-----------------------------------------------------------------------------
(* The abstract view: the status of each page and how far it has got. *)

Abstract == INSTANCE Escalation WITH
  status <- [p \in Page |-> pages[p].status],
  step <- [p \in Page |-> pages[p].cycle * MaxLevels + pages[p].level],
  MaxStep <- (RepeatCount + 1) * MaxLevels - 1

\* The pager implements the escalation of module Escalation when its handlers
\* for a ticket do not overlap.
ImplementsEscalation == Abstract!Spec
=============================================================================
